---------------------------- MODULE XEMySqlProofs ----------------------------
(***************************************************************************)
(* Proofs about XEMySql, the composition, for any number of clients,       *)
(* workers, connections, tasks and Starts: every task is in one place at a *)
(* time, a free task is zeroed, the server receives only statements that   *)
(* clients submitted, the clients and workers follow the task pool's       *)
(* protocol, a task is lost only to a port that is closed, and each query  *)
(* is executed at most once, within its life, or lost: AsyncQuery.         *)
(***************************************************************************)
EXTENDS XEMySql, SequenceFacts, TLAPS

PoolOK ==
  /\ m_nStepCount \in 1..MaxStep /\ created \in 0..MaxTasks
  /\ m_FreeList \in Seq(Task) /\ IsInjective(m_FreeList)
  /\ ToSet(m_FreeList) \subseteq 1..created
  /\ szQuery \in [Task -> Text \cup {Empty, Mixed}]

\* Where a client is in its call, and the task and query it has there.
ClientOK ==
  \A c \in Client :
    /\ stage[c] = "fill" => task[c] \in 1..created /\ cmd[c] \in Text
    /\ stage[c] = "post" => task[c] \in 0..created
    /\ stage[c] \in {"idle", "alloc", "query"} => task[c] = NullTask
    /\ stage[c] \in {"alloc", "query"} => cmd[c] \in Text
    /\ phase[c] # "idle" => stage[c] = "query"

\* Where a worker is in ProcessTask, and the task it has there.
WorkerOK ==
  \A w \in Thread :
    /\ pc[w] = "busy" => job[w] \in 0..created
    /\ step[w] # "query" => pc[w] = "busy" /\ job[w] # NullTask
    /\ phase[w] # "idle" => step[w] = "release"

PortOK == ToSet(queue) \subseteq (0..created) \cup {EXIT}

TInv == TypeOK /\ PoolOK /\ ClientOK /\ WorkerOK /\ PortOK

LEMMA InitTInv == Init => TInv
<1> SUFFICES ASSUME Init PROVE TInv
  OBVIOUS
<1> USE XEMySqlAssumption
<1>1. TP!TypeOK
  <2>1. queue \in Seq((0..MaxTasks) \cup {EXIT})
    BY DEF Init, TP!Init
  <2>2. port \in 0..MaxStarts /\ toCreate \in 0..ProcessNum
    BY DEF Init, TP!Init
  <2>3. pc \in [Thread -> TP!PC] /\ handle \in [Thread -> 0..MaxStarts]
    BY <2>2 DEF Init, TP!Init, TP!PC
  <2> QED
    BY <2>1, <2>2, <2>3 DEF Init, TP!Init, TP!TypeOK
<1>2. CN!TypeOK
  BY DEF Init, CN!Init, CN!TypeOK
<1>3. TypeOK
  BY <1>1, <1>2 DEF Init, TypeOK, Query, NullTask
<1>4. PoolOK
  <2>1. \A n \in 1..JobCount : 0 + n \in Task
    BY DEF Task
  <2>2. m_FreeList = [n \in 1..JobCount |-> 0 + n]
    BY DEF Init
  <2>3. 0 + 1 = 1 /\ 0 + JobCount = JobCount
    OBVIOUS
  <2> DEFINE new == [n \in 1..JobCount |-> 0 + n]
  <2>4. new \in Seq(Task) /\ IsInjective(new) /\ ToSet(new) = (0 + 1)..(0 + JobCount)
    BY <2>1, StepOfTasks
  <2> QED
    BY <2>2, <2>3, <2>4 DEF Init, PoolOK
<1>5. ClientOK /\ WorkerOK
  BY DEF Init, TP!Init, CN!Init, ClientOK, WorkerOK
<1>6. PortOK
  BY EmptyOnce DEF Init, TP!Init, PortOK
<1> QED
  BY <1>3, <1>4, <1>5, <1>6 DEF TInv

-----------------------------------------------------------------------------
(* The components' types *)

\* What a step of the owner changes: threads appear, EXIT packets are posted,
\* and the packets of the port are lost when it is closed or replaced.
LEMMA OwnerEffect ==
  ASSUME TInv, Owner
  PROVE  /\ UNCHANGED <<tkVars, cnVars, clientVars, step, served>>
         /\ TP!TypeOK' /\ job' = job
         /\ \A w \in Thread : pc'[w] = "busy" <=> pc[w] = "busy"
         /\ queue' \in {queue, <<>>, Append(queue, EXIT)}
         /\ ToSet(queue') \subseteq ToSet(queue) \cup {EXIT}
<1> USE XEMySqlAssumption DEF TP!portVars, TP!workerVars
<1>1. UNCHANGED <<tkVars, cnVars, clientVars, step, served>> /\ TP!TypeOK /\ (TP!Start \/ TP!Stop)
  BY DEF Owner, TInv, TypeOK
<1>2. /\ TP!TypeOK' /\ job' = job
      /\ pc' = pc \/ \E t \in Thread : pc[t] = "none" /\ \E o \in {"loop", "failed"} :
                       pc' = [pc EXCEPT ![t] = o]
      /\ queue' \in {queue, <<>>, Append(queue, EXIT)}
      /\ ToSet(queue') \subseteq ToSet(queue) \cup {EXIT}
  <2>1. CASE TP!StartBegin
    <3>1. queue' = <<>> /\ ToSet(queue') = {}
      BY <2>1, EmptyOnce DEF TP!StartBegin
    <3>2. port' \in 0..MaxStarts /\ isOpen' \in BOOLEAN /\ toCreate' \in 0..ProcessNum
      BY <1>1, <2>1 DEF TP!StartBegin, TP!TypeOK
    <3>3. /\ ctl' = "starting" /\ pc' = pc /\ job' = job /\ handle' = handle
          /\ m_ThreadList' = m_ThreadList /\ toVisit' = toVisit /\ waitSet' = waitSet
      BY <2>1 DEF TP!StartBegin
    <3> QED
      BY <1>1, <3>1, <3>2, <3>3 DEF TP!TypeOK
  <2>2. ASSUME NEW t \in Thread, TP!StartThread(t)
        PROVE  /\ TP!TypeOK' /\ job' = job
               /\ pc[t] = "none" /\ \E o \in {"loop", "failed"} : pc' = [pc EXCEPT ![t] = o]
               /\ queue' = queue
    <3>1. PICK o \in {"loop", "failed"} : pc' = [pc EXCEPT ![t] = o]
      BY <2>2 DEF TP!StartThread
    <3>2. /\ toCreate' \in 0..ProcessNum /\ m_ThreadList' \subseteq Thread
          /\ pc[t] = "none" /\ queue' = queue /\ job' = job /\ handle' = handle
          /\ port' = port /\ isOpen' = isOpen /\ ctl' = ctl
          /\ toVisit' = toVisit /\ waitSet' = waitSet
      BY <1>1, <2>2 DEF TP!StartThread, TP!TypeOK
    <3>3. pc' \in [Thread -> TP!PC]
      BY <1>1, <3>1 DEF TP!TypeOK, TP!PC, TP!Running
    <3> QED
      BY <1>1, <3>1, <3>2, <3>3 DEF TP!TypeOK
  <2>3. CASE TP!StartEnd
    BY <1>1, <2>3 DEF TP!StartEnd, TP!TypeOK
  <2>4. CASE TP!StopBegin
    BY <1>1, <2>4 DEF TP!StopBegin, TP!TypeOK
  <2>5. CASE TP!StopPost
    <3> DEFINE Packet == (0..MaxTasks) \cup {EXIT}
    <3>1. queue \in Seq(Packet) /\ EXIT \in Packet
      BY <1>1 DEF TP!TypeOK
    <3> HIDE DEF Packet
    <3>2. /\ Append(queue, EXIT) \in Seq(Packet)
          /\ ToSet(Append(queue, EXIT)) = ToSet(queue) \cup {EXIT}
      BY <3>1, AppendSet
    <3>3. /\ queue' \in Seq(Packet) /\ ToSet(queue') \subseteq ToSet(queue) \cup {EXIT}
          /\ queue' \in {queue, Append(queue, EXIT)}
      BY <2>5, <3>1, <3>2 DEF TP!StopPost
    <3> USE DEF Packet
    <3>4. toVisit' \subseteq Thread
      BY <1>1, <2>5 DEF TP!StopPost, TP!TypeOK
    <3> QED
      BY <1>1, <2>5, <3>3, <3>4 DEF TP!StopPost, TP!TypeOK
  <2>6. CASE TP!StopWait
    <3>1. waitSet' \subseteq Thread
      BY <2>6 DEF TP!StopWait
    <3> QED
      BY <1>1, <2>6, <3>1 DEF TP!StopWait, TP!TypeOK
  <2>7. CASE TP!StopClose
    <3>1. queue' = <<>> /\ ToSet(queue') = {}
      BY <2>7, EmptyOnce DEF TP!StopClose
    <3>2. /\ isOpen' = FALSE /\ ctl' = "idle" /\ waitSet' = {} /\ port' = port
          /\ m_ThreadList' = m_ThreadList /\ toCreate' = toCreate /\ toVisit' = toVisit
          /\ pc' = pc /\ handle' = handle /\ job' = job
      BY <2>7 DEF TP!StopClose
    <3>3. queue' \in Seq((0..MaxTasks) \cup {EXIT}) /\ ToSet(queue') \subseteq ToSet(queue) \cup {EXIT}
      BY <3>1
    <3>4. TP!TypeOK'
      BY <1>1, <3>2, <3>3 DEF TP!TypeOK
    <3> QED
      BY <3>1, <3>2, <3>3, <3>4
  <2> QED
    BY <1>1, <2>1, <2>2, <2>3, <2>4, <2>5, <2>6, <2>7 DEF TP!Start, TP!Stop
<1>3. \A w \in Thread : pc'[w] = "busy" <=> pc[w] = "busy"
  BY <1>1, <1>2 DEF TP!TypeOK
<1> QED
  BY <1>1, <1>2, <1>3

LEMMA OwnerTInv == TInv /\ Owner => TInv'
<1> SUFFICES ASSUME TInv, Owner PROVE TInv'
  OBVIOUS
<1>1. TypeOK'
  BY OwnerEffect DEF TInv, TypeOK, CN!TypeOK, cnVars, clientVars
<1>2. PoolOK' /\ ClientOK'
  BY OwnerEffect DEF TInv, PoolOK, ClientOK, tkVars, cnVars, clientVars
<1>3. PortOK'
  BY OwnerEffect DEF TInv, PortOK, tkVars
<1>4. WorkerOK'
  BY OwnerEffect DEF TInv, WorkerOK, tkVars, cnVars
<1> QED
  BY <1>1, <1>2, <1>3, <1>4 DEF TInv

-----------------------------------------------------------------------------
(* The clients *)

\* What Alloc does for the client that calls it.
LEMMA AllocTakesOne ==
  ASSUME PoolOK, NEW t \in Task, TK!PoolAlloc(t)
  PROVE  /\ m_nStepCount' = m_nStepCount /\ created' \in 0..MaxTasks
         /\ m_FreeList' \in Seq(Task) /\ IsInjective(m_FreeList')
         /\ ToSet(m_FreeList') \subseteq 1..created'
         /\ created <= created' /\ t \in 1..created'
         /\ t \in ToSet(m_FreeList) \cup (created + 1)..created'
         /\ ToSet(m_FreeList') =
              (ToSet(m_FreeList) \cup (created + 1)..created') \ {t}
<1> USE XEMySqlAssumption DEF Task
<1>1. CASE m_FreeList # <<>>
  <2>1. t = Head(m_FreeList) /\ m_FreeList' = Tail(m_FreeList) /\ created' = created
        /\ m_nStepCount' = m_nStepCount
    BY <1>1 DEF TK!PoolAlloc
  <2>2. /\ Tail(m_FreeList) \in Seq(Task) /\ t \in ToSet(m_FreeList)
        /\ IsInjective(Tail(m_FreeList))
        /\ ToSet(Tail(m_FreeList)) = ToSet(m_FreeList) \ {t}
    BY <1>1, <2>1, TailOfInjective DEF PoolOK
  <2>3. (created + 1)..created' = {} /\ created \in 0..MaxTasks /\ created <= created'
    BY <2>1 DEF PoolOK
  <2>4. ToSet(m_FreeList') = (ToSet(m_FreeList) \cup (created + 1)..created') \ {t}
    BY <2>1, <2>2, <2>3
  <2>5. ToSet(m_FreeList') \subseteq 1..created' /\ t \in 1..created'
    BY <2>1, <2>2 DEF PoolOK
  <2> QED
    BY <2>1, <2>2, <2>3, <2>4, <2>5
<1>2. CASE m_FreeList = <<>>
  <2> DEFINE k == m_nStepCount
  <2> DEFINE new == [n \in 1..k |-> created + n]
  <2>1. /\ t = created + 1 /\ m_FreeList' = Tail(new) /\ created' = created + k
        /\ created + k <= MaxTasks /\ m_nStepCount' = m_nStepCount
    BY <1>2 DEF TK!PoolAlloc, TK!CanStep, TK!New
  <2>2. k \in Nat /\ k > 0 /\ created \in Nat /\ \A n \in 1..k : created + n \in Task
    BY <2>1 DEF PoolOK
  <2>3. /\ new \in Seq(Task) /\ IsInjective(new) /\ new # <<>>
        /\ ToSet(new) = (created + 1)..(created + k) /\ Head(new) = t
    <3> HIDE DEF Task
    <3> QED
      BY <2>1, <2>2, StepOfTasks
  <2> HIDE DEF new, Task
  <2>4. /\ Tail(new) \in Seq(Task) /\ t \in ToSet(new)
        /\ IsInjective(Tail(new)) /\ ToSet(Tail(new)) = ToSet(new) \ {t}
    BY <2>3, TailOfInjective
  <2>5. ToSet(m_FreeList) = {}
    BY <1>2, EmptyOnce
  <2>6. created' \in 0..MaxTasks /\ created <= created'
        /\ (created + 1)..created' \subseteq 1..created'
    BY <2>1, <2>2
  <2>7. ToSet(m_FreeList') = ((created + 1)..created') \ {t}
    BY <2>1, <2>3, <2>4
  <2>8. t \in (created + 1)..created'
    BY <2>1, <2>3, <2>4
  <2> QED
    BY <2>1, <2>4, <2>5, <2>6, <2>7, <2>8
<1> QED
  BY <1>1, <1>2

\* A step that throws leaves on the list the tasks that it did make.
LEMMA ThrowKeepsTasks ==
  ASSUME PoolOK, TK!PoolAllocThrows
  PROVE  /\ m_nStepCount' = m_nStepCount /\ created' \in 0..MaxTasks
         /\ m_FreeList' \in Seq(Task) /\ IsInjective(m_FreeList')
         /\ ToSet(m_FreeList') \subseteq 1..created' /\ created <= created'
         /\ ToSet(m_FreeList') = ToSet(m_FreeList) \cup (created + 1)..created'
<1> USE XEMySqlAssumption
<1> DEFINE k == MaxTasks - created
<1> DEFINE new == [n \in 1..k |-> created + n]
<1>1. /\ m_FreeList = <<>> /\ m_FreeList' = new /\ created' = MaxTasks
      /\ m_nStepCount' = m_nStepCount
  BY DEF TK!PoolAllocThrows, TK!New
<1>2. k \in Nat /\ created \in Nat /\ \A n \in 1..k : created + n \in Task
  BY DEF PoolOK, Task
<1>3. /\ new \in Seq(Task) /\ IsInjective(new)
      /\ ToSet(new) = (created + 1)..(created + k)
  BY <1>2, StepOfTasks
<1>4. created + k = created' /\ created <= created' /\ created' \in 0..MaxTasks
      /\ (created + 1)..created' \subseteq 1..created'
  BY <1>1, <1>2
<1>5. ToSet(m_FreeList) = {}
  BY <1>1, EmptyOnce
<1> HIDE DEF new
<1> QED
  BY <1>1, <1>3, <1>4, <1>5

LEMMA TextOverEmpty ==
  ASSUME NEW old \in Text \cup {Empty, Mixed}, NEW q \in Text
  PROVE  /\ TK!Overwrite(old, q) \in Text \cup {Empty, Mixed}
         /\ old = Empty => TK!Overwrite(old, q) = q
  BY DEF TK!Overwrite

\* The steps of a client that neither post nor touch a connection.
LEMMA ClientTInv ==
  ASSUME TInv, NEW c \in Client,
         GetFreeJob(c) \/ GetFreeJobThrows(c) \/ FillJob(c) \/ ClientReturns(c)
         \/ \E q \in Query : ExecuteQueryNoRet(c, q)
  PROVE  TInv'
<1> USE XEMySqlAssumption
<1> USE DEF tpVars, tkVars, poolVars, cnVars, clientVars
<1>1. CASE GetFreeJob(c)
  <2>1. PICK t \in Task : TK!PoolAlloc(t) /\ task' = [task EXCEPT ![c] = t]
    BY <1>1 DEF GetFreeJob
  <2>2. /\ stage[c] = "alloc" /\ stage' = [stage EXCEPT ![c] = "fill"]
        /\ UNCHANGED <<tpVars, szQuery, wanted, cnVars, cmd, seen, issued, step, served>>
    BY <1>1 DEF GetFreeJob
  <2>3. PoolOK' /\ created <= created' /\ t \in 1..created' /\ created' \in 0..MaxTasks
    BY <2>1, <2>2, AllocTakesOne DEF TInv, PoolOK
  <2>4. TypeOK'
    BY <2>1, <2>2 DEF TInv, TypeOK, TP!TypeOK, CN!TypeOK
  <2>5. ClientOK'
    BY <2>1, <2>2, <2>3 DEF TInv, TypeOK, ClientOK, PoolOK
  <2>6. WorkerOK' /\ PortOK'
    BY <2>2, <2>3 DEF TInv, WorkerOK, PortOK, PoolOK
  <2> QED
    BY <2>3, <2>4, <2>5, <2>6 DEF TInv
<1>2. CASE GetFreeJobThrows(c)
  <2>1. /\ TK!PoolAllocThrows /\ stage[c] = "alloc"
        /\ stage' = [stage EXCEPT ![c] = "idle"] /\ cmd' = [cmd EXCEPT ![c] = NullQuery]
        /\ UNCHANGED <<tpVars, szQuery, wanted, cnVars, task, seen, issued, step, served>>
    BY <1>2 DEF GetFreeJobThrows
  <2>2. PoolOK' /\ created <= created' /\ created' \in 0..MaxTasks
    BY <2>1, ThrowKeepsTasks DEF TInv, PoolOK
  <2>3. TypeOK'
    BY <2>1 DEF TInv, TypeOK, TP!TypeOK, CN!TypeOK, Query
  <2>4. ClientOK'
    BY <2>1, <2>2 DEF TInv, TypeOK, ClientOK, PoolOK
  <2>5. WorkerOK' /\ PortOK'
    BY <2>1, <2>2 DEF TInv, WorkerOK, PortOK, PoolOK
  <2> QED
    BY <2>2, <2>3, <2>4, <2>5 DEF TInv
<1>3. CASE FillJob(c)
  <2>1. /\ stage[c] = "fill" /\ stage' = [stage EXCEPT ![c] = "post"]
        /\ szQuery' = [szQuery EXCEPT ![task[c]] = TK!Overwrite(szQuery[task[c]], cmd[c])]
        /\ seen' = [seen EXCEPT ![c] = port]
        /\ UNCHANGED <<tpVars, poolVars, cnVars, cmd, task, issued, step, served>>
    BY <1>3 DEF FillJob, TK!CopyQuery
  <2>2. task[c] \in Task /\ task[c] \in 0..created /\ cmd[c] \in Text
    BY <2>1 DEF TInv, ClientOK, PoolOK, Task
  <2>3. PoolOK'
    BY <2>1, <2>2, TextOverEmpty DEF TInv, PoolOK
  <2>4. port \in 0..MaxStarts
    BY DEF TInv, TypeOK, TP!TypeOK
  <2>5. TypeOK'
    BY <2>1, <2>4 DEF TInv, TypeOK, TP!TypeOK, CN!TypeOK
  <2>6. ClientOK' /\ WorkerOK' /\ PortOK'
    BY <2>1, <2>2 DEF TInv, TypeOK, ClientOK, WorkerOK, PortOK
  <2> QED
    BY <2>3, <2>5, <2>6 DEF TInv
<1>4. CASE ClientReturns(c)
  <2>1. TypeOK'
    BY <1>4 DEF ClientReturns, TInv, TypeOK, TP!TypeOK, CN!TypeOK, Query
  <2>2. PoolOK' /\ ClientOK' /\ WorkerOK' /\ PortOK'
    BY <1>4 DEF ClientReturns, TInv, TypeOK, PoolOK, ClientOK, WorkerOK, PortOK
  <2> QED
    BY <2>1, <2>2 DEF TInv
<1>5. ASSUME NEW q \in Query, ExecuteQueryNoRet(c, q) PROVE TInv'
  <2>1. /\ stage[c] = "idle" /\ issued' = issued \cup {q} /\ cmd' = [cmd EXCEPT ![c] = q]
        /\ UNCHANGED <<tpVars, tkVars, cnVars, task, step, served>>
        /\ \/ q \in Text /\ stage' = [stage EXCEPT ![c] = "alloc"] /\ seen' = seen
           \/ stage' = [stage EXCEPT ![c] = "post"] /\ seen' = [seen EXCEPT ![c] = port]
    BY <1>5 DEF ExecuteQueryNoRet, Issue, Query
  <2>2. port \in 0..MaxStarts
    BY DEF TInv, TypeOK, TP!TypeOK
  <2>3. /\ stage' \in [Client -> {"idle", "alloc", "fill", "post", "query"}]
        /\ cmd' \in [Client -> Query] /\ issued' \subseteq Query
        /\ seen' \in [Client -> 0..MaxStarts]
    BY <2>1, <2>2 DEF TInv, TypeOK
  <2>4. TP!TypeOK' /\ CN!TypeOK'
    BY <2>1 DEF TInv, TypeOK, TP!TypeOK, CN!TypeOK
  <2>5. TypeOK'
    BY <2>1, <2>3, <2>4 DEF TInv, TypeOK
  <2>6. task[c] = NullTask /\ phase[c] = "idle" /\ 0 \in 0..created
    BY <2>1 DEF TInv, ClientOK, PoolOK
  <2>7. ClientOK'
    <3> SUFFICES ASSUME NEW d \in Client PROVE ClientOK!(d)'
      BY DEF ClientOK
    <3>1. CASE d # c
      BY <2>1, <3>1 DEF TInv, TypeOK, ClientOK
    <3>2. CASE d = c
      BY <2>1, <2>6, <3>2 DEF TInv, TypeOK, ClientOK, NullTask
    <3> QED
      BY <3>1, <3>2
  <2>8. PoolOK' /\ WorkerOK' /\ PortOK'
    BY <2>1 DEF TInv, PoolOK, WorkerOK, PortOK
  <2> QED
    BY <2>5, <2>7, <2>8 DEF TInv
<1> QED
  BY <1>1, <1>2, <1>3, <1>4, <1>5

\* A packet is posted: the port's queue, or nothing, grows.
LEMMA PostTInv == ASSUME TInv, NEW c \in Client, Post(c) PROVE TInv'
<1> USE XEMySqlAssumption
<1> USE DEF tpVars, tkVars, cnVars, clientVars
<1> DEFINE Packet == (0..MaxTasks) \cup {EXIT}
<1>1. /\ stage[c] = "post" /\ stage' = [stage EXCEPT ![c] = "idle"]
      /\ cmd' = [cmd EXCEPT ![c] = NullQuery] /\ task' = [task EXCEPT ![c] = NullTask]
      /\ seen' = [seen EXCEPT ![c] = 0]
      /\ UNCHANGED <<tkVars, cnVars, issued, step, served>>
      /\ UNCHANGED <<port, isOpen, m_ThreadList, ctl, toCreate, toVisit, waitSet, pc,
                     handle, job>>
      /\ queue' = queue \/ queue' = Append(queue, task[c])
  BY DEF Post, TP!ProcessJob, TP!ownerVars, TP!workerVars
<1>2. queue \in Seq(Packet)
  BY DEF TInv, TypeOK, TP!TypeOK
<1>3. task[c] \in 0..created /\ task[c] \in Packet
  BY <1>1 DEF TInv, ClientOK, PoolOK
<1> HIDE DEF Packet
<1>4. /\ Append(queue, task[c]) \in Seq(Packet)
      /\ ToSet(Append(queue, task[c])) = ToSet(queue) \cup {task[c]}
  BY <1>2, <1>3, AppendSet
<1>5. queue' \in Seq(Packet) /\ ToSet(queue') \subseteq ToSet(queue) \cup {task[c]}
  BY <1>1, <1>2, <1>4
<1>6. TP!TypeOK'
  BY <1>1, <1>5 DEF TInv, TypeOK, TP!TypeOK, Packet
<1>7. CN!TypeOK'
  BY <1>1 DEF TInv, TypeOK, CN!TypeOK
<1>8. TypeOK'
  BY <1>1, <1>6, <1>7 DEF TInv, TypeOK, Query
<1>9. PoolOK' /\ ClientOK' /\ WorkerOK'
  BY <1>1 DEF TInv, TypeOK, PoolOK, ClientOK, WorkerOK
<1>10. PortOK'
  BY <1>1, <1>3, <1>5 DEF TInv, PortOK
<1> QED
  BY <1>8, <1>9, <1>10 DEF TInv

-----------------------------------------------------------------------------
(* Query, on either kind of thread *)

\* What a step inside Query changes: its own phase, which leaves "idle" only
\* by Want, and the count of the statement it executes.
LEMMA QueryTypes ==
  ASSUME TypeOK, NEW u \in Client \cup Thread,
         CN!Want(u) \/ CN!Acquire(u) \/ CN!Execute(u) \/ CN!Release(u)
  PROVE  /\ CN!TypeOK'
         /\ \A v \in (Client \cup Thread) \ {u} : phase'[v] = phase[v]
         /\ ~CN!Want(u) => phase[u] # "idle"
<1> USE DEF TypeOK, CN!TypeOK
<1>1. CASE CN!Want(u)
  BY <1>1 DEF CN!Want
<1>2. CASE CN!Acquire(u)
  <2>1. PICK c \in Con : owner' = [owner EXCEPT ![c] = u]
    BY <1>2 DEF CN!Acquire
  <2> QED
    BY <1>2, <2>1 DEF CN!Acquire
<1>3. CASE CN!Execute(u)
  BY <1>3 DEF CN!Execute
<1>4. CASE CN!Release(u)
  BY <1>4 DEF CN!Release
<1> QED
  BY <1>1, <1>2, <1>3, <1>4

LEMMA QueryStepTypes ==
  ASSUME TypeOK, NEW u \in Client \cup Thread, QueryStep(u)
  PROVE  /\ CN!TypeOK' /\ served' \in [Statement -> Nat]
         /\ \A v \in (Client \cup Thread) \ {u} : phase'[v] = phase[v]
         /\ phase[u] # "idle"
         /\ UNCHANGED <<tpVars, tkVars, task, seen, issued, step>>
<1>1. /\ CN!Acquire(u) \/ CN!Execute(u) \/ CN!Release(u)
      /\ UNCHANGED <<tpVars, tkVars, task, seen, issued, step>>
      /\ served' = served \/ served' = [served EXCEPT ![SentBy(u)] = served[SentBy(u)] + 1]
  BY DEF QueryStep
<1>2. served' \in [Statement -> Nat]
  BY <1>1 DEF TypeOK
<1>3. phase[u] # "idle"
  BY <1>1 DEF CN!Acquire, CN!Execute, CN!Release
<1> QED
  BY <1>1, <1>2, <1>3, QueryTypes

LEMMA ClientStepTInv == ASSUME TInv, NEW c \in Client, ClientStep(c) PROVE TInv'
<1> USE DEF tpVars, tkVars, clientVars
<1>1. /\ stage[c] = "query" /\ UNCHANGED <<stage, cmd>>
      /\ CN!TypeOK' /\ served' \in [Statement -> Nat]
      /\ \A v \in (Client \cup Thread) \ {c} : phase'[v] = phase[v]
      /\ UNCHANGED <<tpVars, tkVars, task, seen, issued, step>>
  BY QueryStepTypes DEF ClientStep, TInv
<1>2. TypeOK'
  BY <1>1 DEF TInv, TypeOK, TP!TypeOK
<1>3. PoolOK' /\ PortOK'
  BY <1>1 DEF TInv, PoolOK, PortOK
<1>4. ClientOK'
  BY <1>1 DEF TInv, ClientOK
<1>5. WorkerOK'
  BY <1>1, XEMySqlAssumption DEF TInv, WorkerOK
<1> QED
  BY <1>2, <1>3, <1>4, <1>5 DEF TInv

LEMMA WorkerStepTInv == ASSUME TInv, NEW w \in Thread, WorkerStep(w) PROVE TInv'
<1> USE DEF tpVars, tkVars, clientVars
<1>1. /\ UNCHANGED <<stage, cmd>> /\ phase[w] # "idle"
      /\ CN!TypeOK' /\ served' \in [Statement -> Nat]
      /\ \A v \in (Client \cup Thread) \ {w} : phase'[v] = phase[v]
      /\ UNCHANGED <<tpVars, tkVars, task, seen, issued, step>>
  BY QueryStepTypes DEF WorkerStep, TInv
<1>2. TypeOK'
  BY <1>1 DEF TInv, TypeOK, TP!TypeOK
<1>3. PoolOK' /\ PortOK'
  BY <1>1 DEF TInv, PoolOK, PortOK
<1>4. ClientOK'
  BY <1>1, XEMySqlAssumption DEF TInv, ClientOK
<1>5. WorkerOK'
  BY <1>1 DEF TInv, WorkerOK
<1> QED
  BY <1>2, <1>3, <1>4, <1>5 DEF TInv

\* Want, or no connection at all.
LEMMA BeginTypes ==
  ASSUME TypeOK, NEW u \in Client \cup Thread, BeginQuery(u)
  PROVE  CN!TypeOK' /\ \A v \in (Client \cup Thread) \ {u} : phase'[v] = phase[v]
<1>1. CASE CN!Want(u)
  BY <1>1, QueryTypes
<1>2. CASE UNCHANGED cnVars
  BY <1>2 DEF cnVars, TypeOK, CN!TypeOK
<1> QED
  BY <1>1, <1>2 DEF BeginQuery

LEMMA ClientQueryTInv ==
  ASSUME TInv, NEW c \in Client, NEW q \in Query, ClientQuery(c, q) PROVE TInv'
<1> USE DEF tpVars, tkVars
<1>1. /\ stage[c] = "idle" /\ issued' = issued \cup {q} /\ cmd' = [cmd EXCEPT ![c] = q]
      /\ q \in Text /\ stage' = [stage EXCEPT ![c] = "query"]
      /\ CN!TypeOK' /\ \A v \in (Client \cup Thread) \ {c} : phase'[v] = phase[v]
      /\ UNCHANGED <<tpVars, tkVars, task, seen, step, served>>
  BY BeginTypes DEF ClientQuery, Issue, Query, TInv
<1>2. TypeOK'
  BY <1>1 DEF TInv, TypeOK, TP!TypeOK
<1>3. PoolOK' /\ PortOK'
  BY <1>1 DEF TInv, PoolOK, PortOK
<1>4. ClientOK'
  BY <1>1 DEF TInv, TypeOK, ClientOK
<1>5. WorkerOK'
  BY <1>1, XEMySqlAssumption DEF TInv, WorkerOK
<1> QED
  BY <1>2, <1>3, <1>4, <1>5 DEF TInv

-----------------------------------------------------------------------------
(* The workers *)

\* What a worker does outside ProcessTask.
LEMMA IdleEffect ==
  ASSUME TInv, NEW w \in Thread, WorkerIdle(w)
  PROVE  /\ UNCHANGED <<tkVars, cnVars, clientVars, step, served>>
         /\ pc[w] # "busy" /\ \E p \in {"wait", "remove", "exited", "busy"} :
              pc' = [pc EXCEPT ![w] = p]
         /\ \/ pc'[w] # "busy" /\ job' = job
            \/ /\ queue # <<>> /\ Head(queue) # EXIT
               /\ job' = [job EXCEPT ![w] = Head(queue)] /\ queue' = Tail(queue)
         /\ queue' = queue \/ (queue' = Tail(queue) /\ queue # <<>>)
         /\ handle' = handle \/ handle' = [handle EXCEPT ![w] = port]
         /\ m_ThreadList' = m_ThreadList \/ m_ThreadList' = m_ThreadList \ {w}
         /\ UNCHANGED <<port, isOpen, ctl, toCreate, toVisit, waitSet>>
<1> USE DEF TP!portVars, TP!ownerVars
<1>0. pc \in [Thread -> TP!PC]
  BY DEF TInv, TypeOK, TP!TypeOK
<1>1. CASE TP!GetPort(w)
  BY <1>0, <1>1 DEF TP!GetPort, WorkerIdle
<1>2. CASE TP!Take(w)
  BY <1>0, <1>2 DEF TP!Take, WorkerIdle
<1>3. CASE TP!PortGone(w)
  BY <1>0, <1>3 DEF TP!PortGone, WorkerIdle
<1>4. CASE TP!RemoveThread(w)
  BY <1>0, <1>4 DEF TP!RemoveThread, WorkerIdle
<1> QED
  BY <1>1, <1>2, <1>3, <1>4 DEF WorkerIdle

LEMMA WorkerIdleTInv == ASSUME TInv, NEW w \in Thread, WorkerIdle(w) PROVE TInv'
<1> USE XEMySqlAssumption
<1> USE DEF tkVars, cnVars, clientVars
<1> DEFINE Packet == (0..MaxTasks) \cup {EXIT}
<1>1. UNCHANGED <<tkVars, cnVars, clientVars, step, served>>
  BY IdleEffect
<1>2. /\ pc[w] # "busy" /\ \E p \in {"wait", "remove", "exited", "busy"} :
           pc' = [pc EXCEPT ![w] = p]
      /\ \/ pc'[w] # "busy" /\ job' = job
         \/ job' = [job EXCEPT ![w] = Head(queue)] /\ queue # <<>> /\ Head(queue) # EXIT
      /\ queue' = queue \/ (queue' = Tail(queue) /\ queue # <<>>)
      /\ handle' = handle \/ handle' = [handle EXCEPT ![w] = port]
      /\ m_ThreadList' = m_ThreadList \/ m_ThreadList' = m_ThreadList \ {w}
      /\ UNCHANGED <<port, isOpen, ctl, toCreate, toVisit, waitSet>>
  BY IdleEffect
<1>3. queue \in Seq(Packet) /\ Once(queue, {})
  BY DEF TInv, TypeOK, TP!TypeOK, Once
<1>4. queue # <<>> => /\ Tail(queue) \in Seq(Packet) /\ Head(queue) \in ToSet(queue)
                      /\ ToSet(Tail(queue)) \subseteq ToSet(queue)
  BY <1>3, TailOnce
<1>5. queue' \in Seq(Packet) /\ ToSet(queue') \subseteq ToSet(queue)
  BY <1>2, <1>3, <1>4
<1>6. Head(queue) # EXIT /\ queue # <<>> => Head(queue) \in 0..created
  BY <1>4 DEF TInv, PortOK
<1>7. job' \in [Thread -> (0..MaxTasks) \cup {NoJob}]
  <2>1. job \in [Thread -> (0..MaxTasks) \cup {NoJob}] /\ created \in 0..MaxTasks
    BY DEF TInv, TypeOK, TP!TypeOK, PoolOK
  <2>2. job' = job \/ (job' = [job EXCEPT ![w] = Head(queue)]
                       /\ queue # <<>> /\ Head(queue) # EXIT)
    BY <1>2
  <2>3. queue # <<>> /\ Head(queue) # EXIT => Head(queue) \in 0..MaxTasks
    BY <1>6, <2>1
  <2> QED
    BY <2>1, <2>2, <2>3
<1>8. pc' \in [Thread -> TP!PC] /\ handle' \in [Thread -> 0..MaxStarts]
  BY <1>2 DEF TInv, TypeOK, TP!TypeOK, TP!PC, TP!Running
<1>9. TP!TypeOK'
  BY <1>2, <1>5, <1>7, <1>8 DEF TInv, TypeOK, TP!TypeOK
<1>10. TypeOK'
  BY <1>1, <1>9 DEF TInv, TypeOK, CN!TypeOK
<1>11. PoolOK' /\ ClientOK'
  BY <1>1 DEF TInv, PoolOK, ClientOK
<1>12. PortOK'
  BY <1>1, <1>5 DEF TInv, PortOK
<1>13. WorkerOK'
  <2> SUFFICES ASSUME NEW v \in Thread PROVE WorkerOK!(v)'
    BY DEF WorkerOK
  <2>1. CASE v # w
    BY <1>1, <1>2, <2>1 DEF TInv, TypeOK, TP!TypeOK, WorkerOK
  <2>2. CASE v = w
    BY <1>1, <1>2, <1>6, <2>2 DEF TInv, TypeOK, TP!TypeOK, WorkerOK
  <2> QED
    BY <2>1, <2>2
<1> QED
  BY <1>10, <1>11, <1>12, <1>13 DEF TInv

LEMMA ProcessTaskTInv == ASSUME TInv, NEW w \in Thread, ProcessTask(w) PROVE TInv'
<1> USE DEF tpVars, tkVars, clientVars
<1>1. /\ pc[w] = "busy" /\ job[w] # NullTask /\ step[w] = "query"
      /\ step' = [step EXCEPT ![w] = "release"]
      /\ CN!TypeOK' /\ \A v \in (Client \cup Thread) \ {w} : phase'[v] = phase[v]
      /\ UNCHANGED <<tpVars, tkVars, clientVars, served>>
  BY BeginTypes DEF ProcessTask, TInv
<1>2. TypeOK'
  BY <1>1 DEF TInv, TypeOK, TP!TypeOK
<1>3. PoolOK' /\ PortOK'
  BY <1>1 DEF TInv, PoolOK, PortOK
<1>4. ClientOK'
  BY <1>1, XEMySqlAssumption DEF TInv, ClientOK
<1>5. WorkerOK'
  BY <1>1 DEF TInv, TypeOK, WorkerOK
<1> QED
  BY <1>2, <1>3, <1>4, <1>5 DEF TInv

\* The task of a worker in ProcessTask.
LEMMA TaskOfWorker ==
  ASSUME TInv, NEW w \in Thread, step[w] \in {"release", "free"}
  PROVE  job[w] \in 1..created /\ job[w] \in Task /\ WorkerTask(w) = job[w]
         /\ pc[w] = "busy" /\ job[w] # NullTask
  BY XEMySqlAssumption DEF TInv, WorkerOK, PoolOK, WorkerTask, NullTask, Task

LEMMA ReleaseInitTInv == ASSUME TInv, NEW w \in Thread, ReleaseInit(w) PROVE TInv'
<1> USE DEF tpVars, poolVars, cnVars, clientVars
<1>1. /\ step[w] = "release" /\ phase[w] = "idle" /\ step' = [step EXCEPT ![w] = "free"]
      /\ szQuery' = [szQuery EXCEPT ![job[w]] = Empty]
      /\ UNCHANGED <<tpVars, poolVars, cnVars, clientVars, served>>
  BY DEF ReleaseInit, TK!InitTask
<1>2. TypeOK'
  BY <1>1 DEF TInv, TypeOK, TP!TypeOK, CN!TypeOK
<1>3. PoolOK' /\ ClientOK' /\ PortOK'
  BY <1>1 DEF TInv, PoolOK, ClientOK, PortOK
<1>4. WorkerOK'
  BY <1>1 DEF TInv, TypeOK, WorkerOK
<1> QED
  BY <1>2, <1>3, <1>4 DEF TInv

\* The list stays without repetition because nobody else has the task.
LEMMA ReleaseFreeTInv ==
  ASSUME TInv, TaskHasOneHolder, NEW w \in Thread, ReleaseFree(w)
  PROVE  TInv' /\ ToSet(m_FreeList') = ToSet(m_FreeList) \cup {job[w]}
<1> USE DEF tpVars, cnVars, clientVars
<1>1. /\ step[w] = "free" /\ step' = [step EXCEPT ![w] = "return"]
      /\ m_FreeList' = Append(m_FreeList, job[w])
      /\ m_nStepCount' = m_nStepCount /\ created' = created
      /\ UNCHANGED <<tpVars, szQuery, wanted, cnVars, clientVars, served>>
  BY DEF ReleaseFree, TK!PoolFree
<1>2. job[w] \in 1..created /\ job[w] \in Task /\ job[w] \notin ToSet(m_FreeList)
  BY <1>1, TaskOfWorker DEF TaskHasOneHolder
<1>3. /\ Append(m_FreeList, job[w]) \in Seq(Task) /\ IsInjective(Append(m_FreeList, job[w]))
      /\ ToSet(Append(m_FreeList, job[w])) = ToSet(m_FreeList) \cup {job[w]}
  BY <1>2, AppendOfInjective DEF TInv, PoolOK
<1>4. TypeOK'
  BY <1>1 DEF TInv, TypeOK, TP!TypeOK, CN!TypeOK
<1>5. PoolOK'
  BY <1>1, <1>2, <1>3 DEF TInv, PoolOK
<1>6. ClientOK' /\ PortOK'
  BY <1>1 DEF TInv, ClientOK, PortOK
<1>7. WorkerOK'
  BY <1>1 DEF TInv, TypeOK, WorkerOK
<1> QED
  BY <1>1, <1>3, <1>4, <1>5, <1>6, <1>7 DEF TInv

LEMMA ProcessTaskReturnsTInv ==
  ASSUME TInv, NEW w \in Thread, ProcessTaskReturns(w) PROVE TInv'
<1> USE DEF tkVars, cnVars, clientVars, TP!portVars, TP!ownerVars
<1>1. /\ job[w] = NullTask \/ step[w] = "return"
      /\ pc[w] = "busy"
      /\ pc' = [pc EXCEPT ![w] = "loop"] /\ job' = [job EXCEPT ![w] = NoJob]
      /\ step' = [step EXCEPT ![w] = "query"]
      /\ UNCHANGED <<port, isOpen, queue, m_ThreadList, ctl, toCreate, toVisit, waitSet,
                     handle>>
      /\ UNCHANGED <<tkVars, cnVars, clientVars, served>>
  BY DEF ProcessTaskReturns, TP!Finish
<1>2. TP!TypeOK'
  BY <1>1 DEF TInv, TypeOK, TP!TypeOK, TP!PC, TP!Running
<1>3. TypeOK'
  BY <1>1, <1>2 DEF TInv, TypeOK, CN!TypeOK
<1>4. PoolOK' /\ ClientOK' /\ PortOK'
  BY <1>1 DEF TInv, PoolOK, ClientOK, PortOK
<1>5. phase[w] = "idle"
  BY <1>1 DEF TInv, WorkerOK
<1>6. WorkerOK'
  BY <1>1, <1>5 DEF TInv, TypeOK, TP!TypeOK, WorkerOK
<1> QED
  BY <1>3, <1>4, <1>6 DEF TInv

-----------------------------------------------------------------------------
(* Every task in one place *)

LEMMA PortIs == InPort = ToSet(queue) \ {EXIT}
  BY DEF InPort, TP!Queued, ToSet

LEMMA OnceInPort == TaskHasOneHolder => Once(queue, Task)
  BY DEF TaskHasOneHolder, Once

\* Tasks that leave a place, and tasks that nobody had, disturb nothing.
LEMMA HoldersShrink ==
  ASSUME TaskHasOneHolder,
         \A c \in Client : ClientTask(c)' \in {ClientTask(c), NullTask},
         \A w \in Thread : WorkerTask(w)' \in {WorkerTask(w), NullTask},
         InPort' \subseteq InPort,
         ToSet(m_FreeList') \subseteq ToSet(m_FreeList),
         Once(queue', Task)
  PROVE  TaskHasOneHolder'
<1> DEFINE CT(c) == ClientTask(c)
<1> DEFINE WT(w) == WorkerTask(w)
<1>1. \A c \in Client : CT(c)' # NullTask =>
        /\ \A d \in Client \ {c} : CT(d)' # CT(c)'
        /\ CT(c)' \notin InPort' \cup ToSet(m_FreeList')
        /\ \A w \in Thread : WT(w)' # CT(c)'
  BY DEF TaskHasOneHolder
<1>2. \A w \in Thread : WT(w)' # NullTask =>
        /\ \A v \in Thread \ {w} : WT(v)' # WT(w)'
        /\ WT(w)' \notin InPort' \cup ToSet(m_FreeList')
  BY DEF TaskHasOneHolder
<1>3. InPort' \cap ToSet(m_FreeList') = {}
  BY DEF TaskHasOneHolder
<1>4. (\A i, k \in DOMAIN queue : queue[i] = queue[k] /\ queue[i] \in Task => i = k)'
  BY DEF Once, Task
<1> QED
  BY <1>1, <1>2, <1>3, <1>4 DEF TaskHasOneHolder

\* The steps in which no task moves, except out of the port and into a leak.
LEMMA OwnerHolders == ASSUME TInv, TaskHasOneHolder, Owner PROVE TaskHasOneHolder'
<1>1. /\ UNCHANGED <<stage, task, step, m_FreeList>> /\ job' = job
      /\ \A w \in Thread : pc'[w] = "busy" <=> pc[w] = "busy"
      /\ queue' \in {queue, <<>>, Append(queue, EXIT)}
      /\ ToSet(queue') \subseteq ToSet(queue) \cup {EXIT}
  BY OwnerEffect DEF tkVars, clientVars
<1>2. /\ \A c \in Client : ClientTask(c)' = ClientTask(c)
      /\ \A w \in Thread : WorkerTask(w)' = WorkerTask(w)
  BY <1>1 DEF ClientTask, WorkerTask
<1>3. InPort' \subseteq InPort
  <2>1. InPort' = ToSet(queue') \ {EXIT}
    BY DEF InPort, TP!Queued, ToSet
  <2> QED
    BY <1>1, <2>1, PortIs
<1>4. Once(queue', Task)
  <2>1. queue \in Seq((0..MaxTasks) \cup {EXIT}) /\ Once(queue, Task)
    BY OnceInPort DEF TInv, TypeOK, TP!TypeOK
  <2>2. EXIT \notin Task
    BY XEMySqlAssumption DEF Task
  <2> DEFINE Packet == (0..MaxTasks) \cup {EXIT}
  <2>3. queue \in Seq(Packet) /\ EXIT \in Packet
    BY <2>1
  <2> HIDE DEF Packet
  <2>4. Once(Append(queue, EXIT), Task)
    BY <2>1, <2>2, <2>3, AppendOnce
  <2> QED
    BY <1>1, <2>1, <2>4, EmptyOnce
<1> QED
  BY <1>1, <1>2, <1>3, <1>4, HoldersShrink

LEMMA QuietHolders ==
  ASSUME TaskHasOneHolder, UNCHANGED <<queue, m_FreeList>>,
         \A c \in Client : ClientTask(c)' \in {ClientTask(c), NullTask},
         \A w \in Thread : WorkerTask(w)' \in {WorkerTask(w), NullTask}
  PROVE  TaskHasOneHolder'
<1>1. InPort' = InPort
  BY DEF InPort, TP!Queued
<1>2. Once(queue', Task)
  BY OnceInPort
<1> QED
  BY <1>1, <1>2, HoldersShrink

LEMMA QuietSteps ==
  ASSUME TInv, TaskHasOneHolder,
         \/ \E c \in Client :
              \/ FillJob(c) \/ ClientStep(c) \/ ClientReturns(c)
              \/ \E q \in Query : ExecuteQueryNoRet(c, q) \/ ClientQuery(c, q)
         \/ \E w \in Thread :
              \/ ProcessTask(w) \/ WorkerStep(w) \/ ReleaseInit(w) \/ ProcessTaskReturns(w)
  PROVE  TaskHasOneHolder'
<1> USE DEF tpVars, tkVars, poolVars, clientVars
<1> SUFFICES /\ UNCHANGED <<queue, m_FreeList>>
             /\ \A c \in Client : ClientTask(c)' \in {ClientTask(c), NullTask}
             /\ \A w \in Thread : WorkerTask(w)' \in {WorkerTask(w), NullTask}
  BY QuietHolders
<1>1. ASSUME NEW c \in Client, UNCHANGED <<tpVars, m_FreeList, step, task>>,
             \/ stage' = stage
             \/ stage[c] = "fill" /\ stage' = [stage EXCEPT ![c] = "post"]
             \/ /\ stage[c] \in {"idle", "query"} /\ task[c] = NullTask
                /\ \E x \in {"idle", "alloc", "query", "post"} : stage' = [stage EXCEPT ![c] = x]
      PROVE  /\ UNCHANGED <<queue, m_FreeList>>
             /\ \A d \in Client : ClientTask(d)' \in {ClientTask(d), NullTask}
             /\ \A w \in Thread : WorkerTask(w)' \in {WorkerTask(w), NullTask}
  BY <1>1 DEF TInv, TypeOK, ClientTask, WorkerTask
<1>2. \A c \in Client : stage[c] \in {"idle", "query"} => task[c] = NullTask
  BY DEF TInv, ClientOK
<1>3. ASSUME NEW c \in Client, FillJob(c)
      PROVE  /\ UNCHANGED <<tpVars, m_FreeList, step, task>>
             /\ stage[c] = "fill" /\ stage' = [stage EXCEPT ![c] = "post"]
  BY <1>3 DEF FillJob
<1>4. ASSUME NEW c \in Client, ClientStep(c)
      PROVE  UNCHANGED <<tpVars, m_FreeList, step, task, stage>>
  BY <1>4 DEF ClientStep, QueryStep
<1>5. ASSUME NEW c \in Client, ClientReturns(c)
      PROVE  /\ UNCHANGED <<tpVars, m_FreeList, step, task>>
             /\ stage[c] = "query" /\ stage' = [stage EXCEPT ![c] = "idle"]
  BY <1>5 DEF ClientReturns
<1>6. ASSUME NEW c \in Client, NEW q \in Query, ExecuteQueryNoRet(c, q)
      PROVE  /\ UNCHANGED <<tpVars, m_FreeList, step, task>> /\ stage[c] = "idle"
             /\ \E x \in {"alloc", "post"} : stage' = [stage EXCEPT ![c] = x]
  BY <1>6 DEF ExecuteQueryNoRet, Issue
<1>7. ASSUME NEW c \in Client, NEW q \in Query, ClientQuery(c, q)
      PROVE  /\ UNCHANGED <<tpVars, m_FreeList, step, task>>
             /\ stage[c] = "idle" /\ stage' = [stage EXCEPT ![c] = "query"]
  BY <1>7 DEF ClientQuery, Issue
<1>8. ASSUME NEW w \in Thread, ProcessTask(w) \/ ReleaseInit(w) \/ WorkerStep(w)
      PROVE  /\ UNCHANGED <<tpVars, m_FreeList, stage, task>>
             /\ \/ step' = step
                \/ step[w] # "return" /\ \E x \in {"release", "free"} :
                                           step' = [step EXCEPT ![w] = x]
  BY <1>8 DEF ProcessTask, ReleaseInit, WorkerStep, QueryStep
<1>9. ASSUME NEW w \in Thread, ProcessTask(w) \/ ReleaseInit(w) \/ WorkerStep(w)
      PROVE  /\ UNCHANGED <<queue, m_FreeList>>
             /\ \A c \in Client : ClientTask(c)' \in {ClientTask(c), NullTask}
             /\ \A v \in Thread : WorkerTask(v)' \in {WorkerTask(v), NullTask}
  BY <1>8, <1>9 DEF TInv, TypeOK, ClientTask, WorkerTask
<1>10. ASSUME NEW w \in Thread, ProcessTaskReturns(w)
      PROVE  /\ UNCHANGED <<queue, m_FreeList>>
             /\ \A c \in Client : ClientTask(c)' \in {ClientTask(c), NullTask}
             /\ \A v \in Thread : WorkerTask(v)' \in {WorkerTask(v), NullTask}
  <2>1. /\ pc' = [pc EXCEPT ![w] = "loop"] /\ job' = [job EXCEPT ![w] = NoJob]
        /\ step' = [step EXCEPT ![w] = "query"]
        /\ UNCHANGED <<queue, m_FreeList, stage, task>>
    BY <1>10 DEF ProcessTaskReturns, TP!Finish, TP!portVars
  <2>2. WorkerTask(w)' = NullTask
    BY <2>1 DEF TInv, TypeOK, TP!TypeOK, WorkerTask
  <2>3. \A v \in Thread \ {w} : WorkerTask(v)' = WorkerTask(v)
    BY <2>1 DEF TInv, TypeOK, TP!TypeOK, WorkerTask
  <2> QED
    BY <2>1, <2>2, <2>3 DEF ClientTask
<1> QED
  BY <1>1, <1>2, <1>3, <1>4, <1>5, <1>6, <1>7, <1>9, <1>10

\* Whoever has a task has one that the pool has made.
LEMMA HeldAreMade ==
  ASSUME TInv
  PROVE  /\ \A c \in Client : ClientTask(c) \in 0..created
         /\ \A w \in Thread : WorkerTask(w) \in 0..created
         /\ InPort \subseteq 0..created
         /\ ToSet(m_FreeList) \subseteq 1..created /\ created \in 0..MaxTasks
<1>1. created \in 0..MaxTasks /\ ToSet(m_FreeList) \subseteq 1..created
  BY DEF TInv, PoolOK
<1>2. \A c \in Client : ClientTask(c) \in 0..created
  BY <1>1, XEMySqlAssumption DEF TInv, ClientOK, ClientTask, NullTask
<1>3. \A w \in Thread : WorkerTask(w) \in 0..created
  BY <1>1, XEMySqlAssumption DEF TInv, WorkerOK, WorkerTask, NullTask
<1>4. InPort \subseteq 0..created
  BY PortIs DEF TInv, PortOK
<1> QED
  BY <1>1, <1>2, <1>3, <1>4

\* The list grows by tasks that nobody can have had.
LEMMA ListGrows ==
  ASSUME TInv, TaskHasOneHolder, created' \in Nat,
         ToSet(m_FreeList') \subseteq ToSet(m_FreeList) \cup (created + 1)..created',
         queue' = queue,
         \A c \in Client : ClientTask(c)' = ClientTask(c),
         \A w \in Thread : WorkerTask(w)' = WorkerTask(w)
  PROVE  TaskHasOneHolder'
<1>1. InPort' = InPort
  BY DEF InPort, TP!Queued
<1>2. created \in Nat /\ (created + 1)..created' \cap 0..created = {}
  BY HeldAreMade, XEMySqlAssumption
<1>3. ToSet(m_FreeList') \cap InPort = {}
  BY <1>2, HeldAreMade DEF TaskHasOneHolder
<1>4. \A c \in Client : ClientTask(c) # NullTask => ClientTask(c) \notin ToSet(m_FreeList')
  BY <1>2, HeldAreMade DEF TaskHasOneHolder
<1>5. \A w \in Thread : WorkerTask(w) # NullTask => WorkerTask(w) \notin ToSet(m_FreeList')
  BY <1>2, HeldAreMade DEF TaskHasOneHolder
<1> DEFINE CT(c) == ClientTask(c)
<1> DEFINE WT(w) == WorkerTask(w)
<1>6. \A c \in Client : CT(c)' # NullTask =>
        /\ \A d \in Client \ {c} : CT(d)' # CT(c)'
        /\ CT(c)' \notin InPort' \cup ToSet(m_FreeList')
        /\ \A w \in Thread : WT(w)' # CT(c)'
  BY <1>1, <1>4 DEF TaskHasOneHolder
<1>7. \A w \in Thread : WT(w)' # NullTask =>
        /\ \A v \in Thread \ {w} : WT(v)' # WT(w)'
        /\ WT(w)' \notin InPort' \cup ToSet(m_FreeList')
  BY <1>1, <1>5 DEF TaskHasOneHolder
<1>8. (\A i, k \in DOMAIN queue : queue[i] = queue[k] /\ queue[i] \in Task => i = k)'
  BY DEF TaskHasOneHolder, Task
<1> HIDE DEF CT, WT
<1> QED
  BY <1>1, <1>3, <1>6, <1>7, <1>8 DEF TaskHasOneHolder, CT, WT

LEMMA ThrowsHolders ==
  ASSUME TInv, TaskHasOneHolder, NEW c \in Client, GetFreeJobThrows(c)
  PROVE  TaskHasOneHolder'
<1>1. /\ stage[c] = "alloc" /\ stage' = [stage EXCEPT ![c] = "idle"]
      /\ UNCHANGED <<pc, job, queue, step, task>> /\ TK!PoolAllocThrows
  BY DEF GetFreeJobThrows, tpVars
<1>2. /\ created' \in Nat
      /\ ToSet(m_FreeList') = ToSet(m_FreeList) \cup (created + 1)..created'
  BY <1>1, ThrowKeepsTasks, XEMySqlAssumption DEF TInv
<1>3. \A d \in Client : ClientTask(d)' = ClientTask(d)
  BY <1>1 DEF TInv, TypeOK, ClientTask
<1>4. \A w \in Thread : WorkerTask(w)' = WorkerTask(w)
  BY <1>1 DEF WorkerTask
<1> QED
  BY <1>1, <1>2, <1>3, <1>4, ListGrows

\* The task Alloc returns was on the list, or did not exist.
LEMMA GetFreeJobHolders ==
  ASSUME TInv, TaskHasOneHolder, NEW c \in Client, GetFreeJob(c)
  PROVE  TaskHasOneHolder'
<1>1. PICK t \in Task : TK!PoolAlloc(t) /\ task' = [task EXCEPT ![c] = t]
  BY DEF GetFreeJob
<1>2. /\ stage[c] = "alloc" /\ stage' = [stage EXCEPT ![c] = "fill"]
      /\ UNCHANGED <<pc, job, queue, step>>
  BY DEF GetFreeJob, tpVars
<1>3. /\ created' \in Nat /\ t \in ToSet(m_FreeList) \cup (created + 1)..created'
      /\ ToSet(m_FreeList') = (ToSet(m_FreeList) \cup (created + 1)..created') \ {t}
  BY <1>1, AllocTakesOne, XEMySqlAssumption DEF TInv
<1>4. InPort' = InPort
  BY <1>2 DEF InPort, TP!Queued
<1>5. ClientTask(c)' = t /\ \A d \in Client \ {c} : ClientTask(d)' = ClientTask(d)
  BY <1>1, <1>2 DEF TInv, TypeOK, ClientTask
<1>6. \A w \in Thread : WorkerTask(w)' = WorkerTask(w)
  BY <1>2 DEF WorkerTask
<1>7. created \in Nat /\ (created + 1)..created' \cap 0..created = {}
  BY <1>3, HeldAreMade, XEMySqlAssumption
<1>8. /\ t \notin InPort /\ ToSet(m_FreeList') \cap InPort = {}
      /\ \A d \in Client : ClientTask(d) # t
      /\ \A w \in Thread : WorkerTask(w) # t
  <2>1. t # NullTask
    BY DEF Task, NullTask
  <2> QED
    BY <1>3, <1>7, <2>1, HeldAreMade DEF TaskHasOneHolder
<1>9. \A d \in Client : ClientTask(d) # NullTask => ClientTask(d) \notin ToSet(m_FreeList')
  BY <1>3, <1>7, HeldAreMade DEF TaskHasOneHolder
<1>10. \A w \in Thread : WorkerTask(w) # NullTask => WorkerTask(w) \notin ToSet(m_FreeList')
  BY <1>3, <1>7, HeldAreMade DEF TaskHasOneHolder
<1> DEFINE CT(d) == ClientTask(d)
<1> DEFINE WT(w) == WorkerTask(w)
<1>11. ASSUME NEW d \in Client, CT(d)' # NullTask
       PROVE  /\ \A e \in Client \ {d} : CT(e)' # CT(d)'
              /\ CT(d)' \notin InPort' \cup ToSet(m_FreeList')
              /\ \A w \in Thread : WT(w)' # CT(d)'
  <2>1. CASE d = c
    BY <1>3, <1>4, <1>5, <1>6, <1>8, <2>1
  <2>2. CASE d # c
    BY <1>4, <1>5, <1>6, <1>8, <1>9, <1>11, <2>2 DEF TaskHasOneHolder
  <2> QED
    BY <2>1, <2>2
<1>12. ASSUME NEW w \in Thread, WT(w)' # NullTask
       PROVE  /\ \A v \in Thread \ {w} : WT(v)' # WT(w)'
              /\ WT(w)' \notin InPort' \cup ToSet(m_FreeList')
  BY <1>4, <1>6, <1>10, <1>12 DEF TaskHasOneHolder
<1>13. (\A i, k \in DOMAIN queue : queue[i] = queue[k] /\ queue[i] \in Task => i = k)'
  BY <1>2 DEF TaskHasOneHolder, Task
<1> HIDE DEF CT, WT
<1> QED
  BY <1>4, <1>8, <1>11, <1>12, <1>13 DEF TaskHasOneHolder, CT, WT

\* The client gives its task to the port, or loses it.
LEMMA PostHolders ==
  ASSUME TInv, TaskHasOneHolder, NEW c \in Client, Post(c)
  PROVE  TaskHasOneHolder'
<1>1. /\ stage[c] = "post" /\ stage' = [stage EXCEPT ![c] = "idle"]
      /\ UNCHANGED <<m_FreeList, pc, job, step>>
      /\ queue' = queue \/ queue' = Append(queue, task[c])
      /\ task' = [task EXCEPT ![c] = NullTask]
  BY DEF Post, TP!ProcessJob, TP!workerVars, tkVars
<1>2. /\ ClientTask(c) = task[c] /\ ClientTask(c)' = NullTask
      /\ \A d \in Client \ {c} : ClientTask(d)' = ClientTask(d)
  BY <1>1 DEF TInv, TypeOK, ClientTask
<1>3. \A w \in Thread : WorkerTask(w)' = WorkerTask(w)
  BY <1>1 DEF WorkerTask
<1>4. CASE queue' = queue
  BY <1>1, <1>2, <1>3, <1>4, QuietHolders
<1>5. CASE queue' = Append(queue, task[c])
  <2> DEFINE Packet == (0..MaxTasks) \cup {EXIT}
  <2>1. queue \in Seq(Packet) /\ task[c] \in Packet /\ task[c] # EXIT
    <3>1. queue \in Seq((0..MaxTasks) \cup {EXIT})
      BY DEF TInv, TypeOK, TP!TypeOK
    <3>2. task[c] \in 0..MaxTasks
      BY <1>2, HeldAreMade, XEMySqlAssumption
    <3> QED
      BY <3>1, <3>2, XEMySqlAssumption
  <2> HIDE DEF Packet
  <2>2. task[c] \in Task => task[c] \notin ToSet(queue)
    BY <1>2, <2>1, PortIs DEF TaskHasOneHolder, Task, NullTask
  <2>3. /\ Once(queue', Task) /\ ToSet(queue') = ToSet(queue) \cup {task[c]}
    BY <1>5, <2>1, <2>2, OnceInPort, AppendOnce
  <2>4. InPort' = InPort \cup {task[c]}
    <3>1. InPort' = ToSet(queue') \ {EXIT}
      BY DEF InPort, TP!Queued, ToSet
    <3> QED
      BY <2>1, <2>3, <3>1, PortIs
  <2>5. task[c] \notin ToSet(m_FreeList)
    <3>1. NullTask \notin ToSet(m_FreeList)
      BY HeldAreMade DEF NullTask
    <3> QED
      BY <1>2, <3>1 DEF TaskHasOneHolder
  <2> DEFINE CT(d) == ClientTask(d)
  <2> DEFINE WT(w) == WorkerTask(w)
  <2>6. ASSUME NEW d \in Client, CT(d)' # NullTask
        PROVE  /\ \A e \in Client \ {d} : CT(e)' # CT(d)'
               /\ CT(d)' \notin InPort' \cup ToSet(m_FreeList')
               /\ \A w \in Thread : WT(w)' # CT(d)'
    <3>1. d # c /\ CT(d)' = CT(d) /\ CT(d) # CT(c)
      BY <1>2, <2>6 DEF TaskHasOneHolder
    <3> QED
      BY <1>1, <1>2, <1>3, <2>4, <2>6, <3>1 DEF TaskHasOneHolder
  <2>7. ASSUME NEW w \in Thread, WT(w)' # NullTask
        PROVE  /\ \A v \in Thread \ {w} : WT(v)' # WT(w)'
               /\ WT(w)' \notin InPort' \cup ToSet(m_FreeList')
    <3>1. WT(w) # task[c]
      BY <1>2, <1>3, <2>7 DEF TaskHasOneHolder
    <3> QED
      BY <1>1, <1>3, <2>4, <2>7, <3>1 DEF TaskHasOneHolder
  <2>8. (\A i, k \in DOMAIN queue : queue[i] = queue[k] /\ queue[i] \in Task => i = k)'
    BY <2>3 DEF Once, Task
  <2>9. InPort' \cap ToSet(m_FreeList') = {}
    BY <1>1, <2>4, <2>5 DEF TaskHasOneHolder
  <2> HIDE DEF CT, WT
  <2> QED
    BY <2>6, <2>7, <2>8, <2>9 DEF TaskHasOneHolder, CT, WT
<1> QED
  BY <1>1, <1>4, <1>5

\* A worker takes the packet at the head of the port, or none.
LEMMA IdleHolders ==
  ASSUME TInv, TaskHasOneHolder, NEW w \in Thread, WorkerIdle(w)
  PROVE  TaskHasOneHolder'
<1>1. /\ UNCHANGED <<stage, task, step, m_FreeList>>
      /\ pc[w] # "busy" /\ \E p \in {"wait", "remove", "exited", "busy"} :
           pc' = [pc EXCEPT ![w] = p]
      /\ \/ pc'[w] # "busy" /\ job' = job
         \/ /\ queue # <<>> /\ Head(queue) # EXIT
            /\ job' = [job EXCEPT ![w] = Head(queue)] /\ queue' = Tail(queue)
      /\ queue' = queue \/ (queue' = Tail(queue) /\ queue # <<>>)
  BY IdleEffect DEF tkVars, clientVars
<1>2. /\ \A c \in Client : ClientTask(c)' = ClientTask(c)
      /\ \A v \in Thread \ {w} : WorkerTask(v)' = WorkerTask(v)
      /\ WorkerTask(w) = NullTask
  BY <1>1 DEF TInv, TypeOK, TP!TypeOK, ClientTask, WorkerTask
<1> DEFINE Packet == (0..MaxTasks) \cup {EXIT}
<1>3. queue \in Seq(Packet) /\ Once(queue, Task)
  BY OnceInPort DEF TInv, TypeOK, TP!TypeOK
<1> HIDE DEF Packet
<1>4. queue # <<>> =>
        /\ Once(Tail(queue), Task) /\ Head(queue) \in ToSet(queue)
        /\ ToSet(queue) = ToSet(Tail(queue)) \cup {Head(queue)}
        /\ Head(queue) \in Task => Head(queue) \notin ToSet(Tail(queue))
  BY <1>3, TailOnce
<1>5. Once(queue', Task) /\ ToSet(queue') \subseteq ToSet(queue)
  BY <1>1, <1>3, <1>4
<1>6. InPort' = ToSet(queue') \ {EXIT}
  BY DEF InPort, TP!Queued, ToSet
<1>7. CASE pc'[w] # "busy"
  <2>1. WorkerTask(w)' = NullTask
    BY <1>7 DEF WorkerTask
  <2>2. InPort' \subseteq InPort
    BY <1>5, <1>6, PortIs
  <2> QED
    BY <1>1, <1>2, <1>5, <2>1, <2>2, HoldersShrink
<1>8. CASE pc'[w] = "busy"
  <2> DEFINE h == Head(queue)
  <2>1. /\ queue # <<>> /\ h # EXIT /\ job' = [job EXCEPT ![w] = h]
        /\ queue' = Tail(queue)
    BY <1>1, <1>8
  <2>2. WorkerTask(w)' = h
    BY <1>1, <1>8, <2>1 DEF TInv, TypeOK, TP!TypeOK, WorkerOK, WorkerTask
  <2>3. h \in InPort /\ InPort' \subseteq InPort /\ (h \in Task => h \notin InPort')
    BY <1>4, <1>5, <1>6, <2>1, PortIs
  <2>4. h \in 0..created
    BY <2>3, HeldAreMade
  <2>5. h # NullTask => h \in Task
    BY <2>4, HeldAreMade, XEMySqlAssumption DEF NullTask, Task
  <2> HIDE DEF h
  <2>6. h \notin ToSet(m_FreeList) /\ \A c \in Client : ClientTask(c) # NullTask => ClientTask(c) # h
    BY <2>3 DEF TaskHasOneHolder
  <2>7. \A v \in Thread : WorkerTask(v) # NullTask => WorkerTask(v) # h
    BY <2>3 DEF TaskHasOneHolder
  <2> DEFINE CT(d) == ClientTask(d)
  <2> DEFINE WT(v) == WorkerTask(v)
  <2>8. ASSUME NEW c \in Client, CT(c)' # NullTask
        PROVE  /\ \A d \in Client \ {c} : CT(d)' # CT(c)'
               /\ CT(c)' \notin InPort' \cup ToSet(m_FreeList')
               /\ \A v \in Thread : WT(v)' # CT(c)'
    <3>1. CT(c)' = CT(c) /\ CT(c) # h
      BY <1>2, <2>6, <2>8
    <3> QED
      BY <1>1, <1>2, <2>2, <2>3, <2>8, <3>1 DEF TaskHasOneHolder
  <2>9. ASSUME NEW v \in Thread, WT(v)' # NullTask
        PROVE  /\ \A u \in Thread \ {v} : WT(u)' # WT(v)'
               /\ WT(v)' \notin InPort' \cup ToSet(m_FreeList')
    <3>1. CASE v = w
      <4>1. h # NullTask /\ WT(v)' = h
        BY <2>2, <2>9, <3>1
      <4>2. \A u \in Thread \ {v} : WT(u)' # h
        BY <1>2, <2>7, <3>1, <4>1
      <4> QED
        BY <1>1, <2>3, <2>5, <2>6, <4>1, <4>2
    <3>2. CASE v # w
      <4>1. WT(v)' = WT(v) /\ WT(v) # h
        BY <1>2, <2>7, <2>9, <3>2
      <4>2. \A u \in Thread \ {v} : WT(u)' # WT(v)
        BY <1>2, <2>2, <2>9, <4>1 DEF TaskHasOneHolder
      <4> QED
        BY <1>1, <2>3, <2>9, <4>1, <4>2 DEF TaskHasOneHolder
    <3> QED
      BY <3>1, <3>2
  <2>10. (\A i, k \in DOMAIN queue : queue[i] = queue[k] /\ queue[i] \in Task => i = k)'
    BY <1>5 DEF Once, Task
  <2>11. InPort' \cap ToSet(m_FreeList') = {}
    BY <1>1, <2>3 DEF TaskHasOneHolder
  <2> HIDE DEF CT, WT
  <2> QED
    BY <2>8, <2>9, <2>10, <2>11 DEF TaskHasOneHolder, CT, WT
<1> QED
  BY <1>7, <1>8

\* A worker gives its task back.
LEMMA ReleaseFreeHolders ==
  ASSUME TInv, TaskHasOneHolder, NEW w \in Thread, ReleaseFree(w)
  PROVE  TaskHasOneHolder'
<1>1. /\ step[w] = "free" /\ step' = [step EXCEPT ![w] = "return"]
      /\ UNCHANGED <<pc, job, queue, stage, task>>
  BY DEF ReleaseFree, tpVars, clientVars
<1>2. ToSet(m_FreeList') = ToSet(m_FreeList) \cup {job[w]}
  BY ReleaseFreeTInv
<1>3. WorkerTask(w) = job[w] /\ job[w] # NullTask
  BY <1>1, TaskOfWorker
<1>4. WorkerTask(w)' = NullTask /\ \A v \in Thread \ {w} : WorkerTask(v)' = WorkerTask(v)
  BY <1>1 DEF TInv, TypeOK, WorkerTask
<1>5. InPort' = InPort /\ \A c \in Client : ClientTask(c)' = ClientTask(c)
  BY <1>1 DEF InPort, TP!Queued, ClientTask
<1> DEFINE CT(d) == ClientTask(d)
<1> DEFINE WT(v) == WorkerTask(v)
<1>6. ASSUME NEW c \in Client, CT(c)' # NullTask
      PROVE  /\ \A d \in Client \ {c} : CT(d)' # CT(c)'
             /\ CT(c)' \notin InPort' \cup ToSet(m_FreeList')
             /\ \A v \in Thread : WT(v)' # CT(c)'
  <2>1. CT(c)' = CT(c) /\ CT(c) # job[w]
    BY <1>3, <1>5, <1>6 DEF TaskHasOneHolder
  <2> QED
    BY <1>2, <1>4, <1>5, <1>6, <2>1 DEF TaskHasOneHolder
<1>7. ASSUME NEW v \in Thread, WT(v)' # NullTask
      PROVE  /\ \A u \in Thread \ {v} : WT(u)' # WT(v)'
             /\ WT(v)' \notin InPort' \cup ToSet(m_FreeList')
  <2>1. v # w /\ WT(v)' = WT(v) /\ WT(v) # job[w]
    BY <1>3, <1>4, <1>7 DEF TaskHasOneHolder
  <2> QED
    BY <1>2, <1>4, <1>5, <1>7, <2>1 DEF TaskHasOneHolder
<1>8. (\A i, k \in DOMAIN queue : queue[i] = queue[k] /\ queue[i] \in Task => i = k)'
  BY <1>1 DEF TaskHasOneHolder, Task
<1>9. InPort' \cap ToSet(m_FreeList') = {}
  BY <1>2, <1>3, <1>5 DEF TaskHasOneHolder
<1> HIDE DEF CT, WT
<1> QED
  BY <1>6, <1>7, <1>8, <1>9 DEF TaskHasOneHolder, CT, WT

LEMMA NextHolders ==
  ASSUME TInv, TaskHasOneHolder, [Next]_vars PROVE TInv' /\ TaskHasOneHolder'
<1>1. CASE UNCHANGED vars
  <2>1. /\ UNCHANGED <<tpVars, tkVars, cnVars, clientVars, step, served>>
        /\ UNCHANGED <<queue, m_FreeList, stage, task, pc, job>>
    BY <1>1 DEF vars, tpVars, tkVars, clientVars
  <2>2. TInv'
    <3>1. TypeOK'
      BY <2>1 DEF TInv, TypeOK, TP!TypeOK, CN!TypeOK, tpVars, cnVars, clientVars
    <3>2. PoolOK' /\ ClientOK' /\ WorkerOK' /\ PortOK'
      BY <2>1 DEF TInv, PoolOK, ClientOK, WorkerOK, PortOK, tpVars, tkVars, cnVars, clientVars
    <3> QED
      BY <3>1, <3>2 DEF TInv
  <2>3. /\ \A c \in Client : ClientTask(c)' = ClientTask(c)
        /\ \A w \in Thread : WorkerTask(w)' = WorkerTask(w)
    BY <2>1 DEF ClientTask, WorkerTask
  <2> QED
    BY <2>1, <2>2, <2>3, QuietHolders
<1>2. CASE Owner
  BY <1>2, OwnerTInv, OwnerHolders
<1>3. ASSUME NEW c \in Client, ClientNext(c) PROVE TInv' /\ TaskHasOneHolder'
  BY <1>3, ClientTInv, PostTInv, ClientStepTInv, QuietSteps, ThrowsHolders,
     GetFreeJobHolders, PostHolders DEF ClientNext
<1>4. ASSUME NEW c \in Client, NEW q \in Query, ExecuteQueryNoRet(c, q) \/ ClientQuery(c, q)
      PROVE  TInv' /\ TaskHasOneHolder'
  BY <1>4, ClientTInv, ClientQueryTInv, QuietSteps
<1>5. ASSUME NEW w \in Thread, WorkerNext(w) PROVE TInv' /\ TaskHasOneHolder'
  BY <1>5, WorkerIdleTInv, ProcessTaskTInv, WorkerStepTInv, ReleaseInitTInv,
     ReleaseFreeTInv, ProcessTaskReturnsTInv, QuietSteps, IdleHolders,
     ReleaseFreeHolders DEF WorkerNext
<1> QED
  BY <1>1, <1>2, <1>3, <1>4, <1>5 DEF Next

-----------------------------------------------------------------------------
(* What is written in the tasks *)

\* The tasks whose buffer must be zeroed, and those that carry a query.
Cleared == {t \in Task :
  \/ t \in ToSet(m_FreeList) \/ t > created
  \/ \E c \in Client : stage[c] = "fill" /\ task[c] = t
  \/ \E w \in Thread : step[w] = "free" /\ WorkerTask(w) = t}

Written == {t \in Task :
  \/ t \in InPort
  \/ \E c \in Client : stage[c] = "post" /\ task[c] = t
  \/ \E w \in Thread : step[w] \in {"query", "release"} /\ WorkerTask(w) = t}

Contents ==
  /\ \A t \in Cleared : szQuery[t] = Empty
  /\ \A t \in Written : szQuery[t] \in Text

IInv == TInv /\ TaskHasOneHolder /\ Contents /\ OnlySubmitted

LEMMA InitIInv == Init => IInv
<1> SUFFICES ASSUME Init PROVE IInv
  OBVIOUS
<1>1. /\ ToSet(queue) = {} /\ queue = <<>>
      /\ \A c \in Client : stage[c] = "idle" /\ ClientTask(c) = NullTask
      /\ \A w \in Thread : pc[w] # "busy" /\ WorkerTask(w) = NullTask
  BY EmptyOnce DEF Init, TP!Init, ClientTask, WorkerTask
<1>2. InPort = {}
  BY <1>1, PortIs
<1>3. TaskHasOneHolder
  BY <1>1, <1>2 DEF TaskHasOneHolder
<1>4. Contents
  <2>1. Written = {}
    BY <1>1, <1>2 DEF Written, Task, NullTask
  <2>2. \A t \in Task : szQuery[t] = Empty
    BY DEF Init
  <2> QED
    BY <2>1, <2>2 DEF Contents, Cleared
<1>5. OnlySubmitted
  BY DEF Init, OnlySubmitted, Statement
<1> QED
  BY <1>3, <1>4, <1>5, InitTInv DEF IInv

LEMMA ContentsKept ==
  ASSUME Contents, szQuery' = szQuery, Cleared' \subseteq Cleared, Written' \subseteq Written
  PROVE  Contents'
  BY DEF Contents

\* The steps that move a task and leave its buffer alone.
LEMMA OwnerContents == ASSUME TInv, Contents, Owner PROVE Contents'
<1>1. /\ UNCHANGED <<szQuery, stage, task, step, m_FreeList, created>> /\ job' = job
      /\ \A w \in Thread : pc'[w] = "busy" <=> pc[w] = "busy"
      /\ ToSet(queue') \subseteq ToSet(queue) \cup {EXIT}
  BY OwnerEffect DEF tkVars, clientVars
<1>2. \A w \in Thread : WorkerTask(w)' = WorkerTask(w)
  BY <1>1 DEF WorkerTask
<1>3. InPort' \subseteq InPort
  <2>1. InPort' = ToSet(queue') \ {EXIT}
    BY DEF InPort, TP!Queued, ToSet
  <2> QED
    BY <1>1, <2>1, PortIs
<1>4. Cleared' \subseteq Cleared /\ Written' \subseteq Written
  BY <1>1, <1>2, <1>3 DEF Cleared, Written
<1> QED
  BY <1>1, <1>4, ContentsKept

LEMMA GetFreeJobContents ==
  ASSUME TInv, Contents, NEW c \in Client, GetFreeJob(c) \/ GetFreeJobThrows(c)
  PROVE  Contents'
<1>1. /\ stage[c] = "alloc" /\ UNCHANGED <<szQuery, pc, job, queue, step>>
      /\ created' \in Nat /\ created \in Nat /\ created <= created'
      /\ ToSet(m_FreeList') \subseteq ToSet(m_FreeList) \cup (created + 1)..created'
      /\ \/ /\ stage' = [stage EXCEPT ![c] = "fill"]
            /\ \E t \in ToSet(m_FreeList) \cup (created + 1)..created' :
                 task' = [task EXCEPT ![c] = t]
         \/ stage' = [stage EXCEPT ![c] = "idle"] /\ task' = task
  <2>0. created \in Nat /\ PoolOK
    BY XEMySqlAssumption DEF TInv, PoolOK
  <2>1. CASE GetFreeJob(c)
    <3>1. PICK t \in Task : TK!PoolAlloc(t) /\ task' = [task EXCEPT ![c] = t]
      BY <2>1 DEF GetFreeJob
    <3>2. /\ created' \in 0..MaxTasks /\ created <= created'
          /\ t \in ToSet(m_FreeList) \cup (created + 1)..created'
          /\ ToSet(m_FreeList') = (ToSet(m_FreeList) \cup (created + 1)..created') \ {t}
      BY <2>0, <3>1, AllocTakesOne
    <3>3. /\ stage[c] = "alloc" /\ UNCHANGED <<szQuery, pc, job, queue, step>>
          /\ stage' = [stage EXCEPT ![c] = "fill"]
      BY <2>1 DEF GetFreeJob, tpVars
    <3> HIDE DEF Task
    <3>4. created' \in Nat
      BY <3>2, XEMySqlAssumption
    <3>5. ToSet(m_FreeList') \subseteq ToSet(m_FreeList) \cup (created + 1)..created'
      BY <3>2
    <3> QED
      BY <2>0, <3>1, <3>2, <3>3, <3>4, <3>5
  <2>2. CASE GetFreeJobThrows(c)
    BY <2>0, <2>2, ThrowKeepsTasks, XEMySqlAssumption DEF GetFreeJobThrows, tpVars
  <2> QED
    BY <2>1, <2>2
<1>2. InPort' = InPort /\ \A w \in Thread : WorkerTask(w)' = WorkerTask(w)
  BY <1>1 DEF InPort, TP!Queued, WorkerTask
<1>3. \A t \in Task : t \in (created + 1)..created' \/ t > created' => t > created
  BY <1>1 DEF Task
<1>4. \A d \in Client : d # c => stage'[d] = stage[d] /\ task'[d] = task[d]
  BY <1>1 DEF TInv, TypeOK
<1>5. stage'[c] # "post" /\ (stage'[c] = "fill" =>
        task'[c] \in ToSet(m_FreeList) \cup (created + 1)..created')
  BY <1>1 DEF TInv, TypeOK
<1>6. Cleared' \subseteq Cleared
  BY <1>1, <1>2, <1>3, <1>4, <1>5 DEF Cleared
<1>7. Written' \subseteq Written
  BY <1>1, <1>2, <1>4, <1>5 DEF Written
<1> QED
  BY <1>1, <1>6, <1>7, ContentsKept

LEMMA PostContents == ASSUME TInv, Contents, NEW c \in Client, Post(c) PROVE Contents'
<1>1. /\ stage[c] = "post" /\ stage' = [stage EXCEPT ![c] = "idle"]
      /\ UNCHANGED <<szQuery, created, m_FreeList, pc, job, step>>
      /\ queue' = queue \/ queue' = Append(queue, task[c])
      /\ task' = [task EXCEPT ![c] = NullTask]
  BY DEF Post, TP!ProcessJob, TP!workerVars, tkVars
<1> DEFINE Packet == (0..MaxTasks) \cup {EXIT}
<1>2. queue \in Seq(Packet) /\ task[c] \in Packet
  BY <1>1, XEMySqlAssumption DEF TInv, TypeOK, TP!TypeOK, ClientOK, PoolOK
<1> HIDE DEF Packet
<1>3. ToSet(queue') \subseteq ToSet(queue) \cup {task[c]}
  <2>1. ToSet(Append(queue, task[c])) = ToSet(queue) \cup {task[c]}
    BY <1>2, AppendSet
  <2> QED
    BY <1>1, <2>1
<1>4. InPort' \subseteq InPort \cup {task[c]}
  <2>1. InPort' = ToSet(queue') \ {EXIT}
    BY DEF InPort, TP!Queued, ToSet
  <2> QED
    BY <1>3, <2>1, PortIs
<1>5. \A w \in Thread : WorkerTask(w)' = WorkerTask(w)
  BY <1>1 DEF WorkerTask
<1>6. /\ stage'[c] = "idle"
      /\ \A d \in Client : d # c => stage'[d] = stage[d] /\ task'[d] = task[d]
  BY <1>1 DEF TInv, TypeOK
<1>7. Cleared' \subseteq Cleared /\ Written' \subseteq Written
  BY <1>1, <1>4, <1>5, <1>6 DEF Cleared, Written
<1> QED
  BY <1>1, <1>7, ContentsKept

LEMMA IdleContents ==
  ASSUME TInv, Contents, NEW w \in Thread, WorkerIdle(w) PROVE Contents'
<1>1. /\ UNCHANGED <<szQuery, stage, task, step, m_FreeList, created>>
      /\ pc[w] # "busy" /\ \E p \in {"wait", "remove", "exited", "busy"} :
           pc' = [pc EXCEPT ![w] = p]
      /\ \/ pc'[w] # "busy" /\ job' = job
         \/ /\ queue # <<>> /\ Head(queue) # EXIT
            /\ job' = [job EXCEPT ![w] = Head(queue)] /\ queue' = Tail(queue)
      /\ queue' = queue \/ (queue' = Tail(queue) /\ queue # <<>>)
  BY IdleEffect DEF tkVars, clientVars
<1> DEFINE Packet == (0..MaxTasks) \cup {EXIT}
<1>2. queue \in Seq(Packet) /\ Once(queue, {})
  BY DEF TInv, TypeOK, TP!TypeOK, Once
<1> HIDE DEF Packet
<1>3. queue # <<>> => /\ Head(queue) \in ToSet(queue)
                      /\ ToSet(Tail(queue)) \subseteq ToSet(queue)
  BY <1>2, TailOnce
<1>4. InPort' \subseteq InPort
  <2>1. InPort' = ToSet(queue') \ {EXIT}
    BY DEF InPort, TP!Queued, ToSet
  <2> QED
    BY <1>1, <1>3, <2>1, PortIs
<1>5. \A v \in Thread \ {w} : WorkerTask(v)' = WorkerTask(v)
  BY <1>1 DEF TInv, TypeOK, TP!TypeOK, WorkerTask
<1>6. step[w] = "query" /\ WorkerTask(w)' \in InPort \cup {NullTask}
  <2>1. step[w] = "query"
    BY <1>1 DEF TInv, WorkerOK
  <2>2. CASE pc'[w] # "busy"
    BY <2>1, <2>2 DEF WorkerTask
  <2>3. CASE pc'[w] = "busy"
    BY <1>1, <1>3, <2>1, <2>3, PortIs DEF WorkerTask, TInv, TypeOK, TP!TypeOK
  <2> QED
    BY <2>1, <2>2, <2>3
<1>7. Cleared' \subseteq Cleared /\ Written' \subseteq Written
  BY <1>1, <1>4, <1>5, <1>6 DEF Cleared, Written, Task, NullTask
<1> QED
  BY <1>1, <1>7, ContentsKept

LEMMA ReleaseFreeContents ==
  ASSUME TInv, TaskHasOneHolder, Contents, NEW w \in Thread, ReleaseFree(w) PROVE Contents'
<1>1. /\ step[w] = "free" /\ step' = [step EXCEPT ![w] = "return"]
      /\ UNCHANGED <<szQuery, created, pc, job, queue, stage, task>>
  BY DEF ReleaseFree, TK!PoolFree, tpVars, clientVars
<1>2. ToSet(m_FreeList') = ToSet(m_FreeList) \cup {job[w]}
  BY ReleaseFreeTInv
<1>3. WorkerTask(w) = job[w] /\ WorkerTask(w)' = NullTask
  BY <1>1, TaskOfWorker DEF WorkerTask, TInv, TypeOK
<1>4. \A v \in Thread \ {w} : step'[v] = step[v] /\ WorkerTask(v)' = WorkerTask(v)
  BY <1>1 DEF TInv, TypeOK, WorkerTask
<1>5. InPort' = InPort
  BY <1>1 DEF InPort, TP!Queued
<1>6. Cleared' \subseteq Cleared /\ Written' \subseteq Written
  BY <1>1, <1>2, <1>3, <1>4, <1>5 DEF Cleared, Written, Task, NullTask
<1> QED
  BY <1>1, <1>6, ContentsKept

\* A client's call begins or ends, or a query goes on.
LEMMA QuietContents ==
  ASSUME TInv, Contents,
         \/ \E c \in Client :
              \/ ClientStep(c) \/ ClientReturns(c)
              \/ \E q \in Query : ExecuteQueryNoRet(c, q) \/ ClientQuery(c, q)
         \/ \E w \in Thread : ProcessTask(w) \/ WorkerStep(w) \/ ProcessTaskReturns(w)
  PROVE  Contents'
<1>1. CASE \E c \in Client :
             \/ ClientStep(c) \/ ClientReturns(c)
             \/ \E q \in Query : ExecuteQueryNoRet(c, q) \/ ClientQuery(c, q)
  <2>1. PICK c \in Client : \/ ClientStep(c) \/ ClientReturns(c)
                           \/ \E q \in Query : ExecuteQueryNoRet(c, q) \/ ClientQuery(c, q)
    BY <1>1
  <2>2. /\ UNCHANGED <<szQuery, created, m_FreeList, queue, pc, job, step, task>>
        /\ \/ stage' = stage
           \/ /\ stage[c] \in {"idle", "query"}
              /\ \E x \in {"idle", "alloc", "query", "post"} : stage' = [stage EXCEPT ![c] = x]
    BY <2>1 DEF ClientStep, QueryStep, ClientReturns, ExecuteQueryNoRet, ClientQuery, Issue,
                tpVars, tkVars
  <2>3. stage[c] \in {"idle", "query"} => task[c] = NullTask
    BY DEF TInv, ClientOK
  <2>4. InPort' = InPort /\ \A w \in Thread : WorkerTask(w)' = WorkerTask(w)
    BY <2>2 DEF InPort, TP!Queued, WorkerTask
  <2>5. /\ \A d \in Client : d # c => stage'[d] = stage[d]
        /\ stage' = stage \/ (task[c] = NullTask /\ stage'[c] # "fill")
    BY <2>2, <2>3 DEF TInv, TypeOK
  <2>6. Cleared' \subseteq Cleared
    BY <2>2, <2>4, <2>5 DEF Cleared
  <2>7. Written' \subseteq Written
    BY <2>2, <2>4, <2>5 DEF Written, Task, NullTask
  <2> QED
    BY <2>2, <2>6, <2>7, ContentsKept
<1>2. ASSUME NEW w \in Thread, ProcessTask(w) \/ WorkerStep(w) \/ ProcessTaskReturns(w)
      PROVE  Contents'
  <2>1. /\ UNCHANGED <<szQuery, created, m_FreeList, queue, stage, task>>
        /\ \/ UNCHANGED <<pc, job, step>>
           \/ /\ step[w] = "query" /\ step' = [step EXCEPT ![w] = "release"]
              /\ UNCHANGED <<pc, job>>
           \/ /\ pc' = [pc EXCEPT ![w] = "loop"] /\ step' = [step EXCEPT ![w] = "query"]
              /\ job' = [job EXCEPT ![w] = NoJob]
    BY <1>2 DEF ProcessTask, WorkerStep, QueryStep, ProcessTaskReturns, TP!Finish, TP!portVars,
                tpVars, tkVars, clientVars
  <2>2. InPort' = InPort
    BY <2>1 DEF InPort, TP!Queued
  <2>3. \A v \in Thread \ {w} : step'[v] = step[v] /\ WorkerTask(v)' = WorkerTask(v)
    BY <2>1 DEF TInv, TypeOK, TP!TypeOK, WorkerTask
  <2>4. \/ WorkerTask(w)' = NullTask
        \/ WorkerTask(w)' = WorkerTask(w) /\ step' = step
        \/ WorkerTask(w)' = WorkerTask(w) /\ step[w] = "query" /\ step'[w] = "release"
    BY <2>1 DEF TInv, TypeOK, TP!TypeOK, WorkerTask
  <2>5. Cleared' \subseteq Cleared
    BY <2>1, <2>2, <2>3, <2>4 DEF Cleared, Task, NullTask
  <2>6. Written' \subseteq Written
    BY <2>1, <2>2, <2>3, <2>4 DEF Written, Task, NullTask
  <2> QED
    BY <2>1, <2>5, <2>6, ContentsKept
<1> QED
  BY <1>1, <1>2

\* The client that has the task copies its query over zeros.
LEMMA FillContents ==
  ASSUME TInv, TaskHasOneHolder, Contents, NEW c \in Client, FillJob(c) PROVE Contents'
<1> DEFINE t == task[c]
<1>1. /\ stage[c] = "fill" /\ stage' = [stage EXCEPT ![c] = "post"]
      /\ szQuery' = [szQuery EXCEPT ![t] = TK!Overwrite(szQuery[t], cmd[c])]
      /\ UNCHANGED <<created, m_FreeList, queue, pc, job, step, task>>
  BY DEF FillJob, TK!CopyQuery, tpVars, poolVars
<1>2. t \in 1..created /\ t \in Task /\ t # NullTask /\ cmd[c] \in Text
  <2>1. t \in 1..created /\ cmd[c] \in Text /\ created \in 0..MaxTasks
    BY <1>1 DEF TInv, ClientOK, PoolOK
  <2> HIDE DEF t
  <2> QED
    BY <2>1, XEMySqlAssumption DEF Task, NullTask
<1>3. ClientTask(c) = t
  BY <1>1 DEF ClientTask
<1>4. szQuery[t] = Empty
  BY <1>1, <1>2 DEF Contents, Cleared
<1>5. szQuery' = [szQuery EXCEPT ![t] = cmd[c]]
  BY <1>1, <1>2, <1>4, TextOverEmpty
<1>6. InPort' = InPort /\ \A w \in Thread : WorkerTask(w)' = WorkerTask(w)
  BY <1>1 DEF InPort, TP!Queued, WorkerTask
<1>7. /\ stage'[c] = "post"
      /\ \A d \in Client : d # c => stage'[d] = stage[d]
  BY <1>1 DEF TInv, TypeOK
<1>8. /\ t \notin ToSet(m_FreeList)
      /\ \A d \in Client \ {c} : stage[d] = "fill" => task[d] # t
      /\ \A w \in Thread : WorkerTask(w) # t
  BY <1>2, <1>3 DEF TaskHasOneHolder, ClientTask
<1> HIDE DEF t
<1>9. created \in 0..MaxTasks
  BY DEF TInv, PoolOK
<1>10. ~(t > created)
  BY <1>2, <1>9, XEMySqlAssumption
<1>11. Cleared' \subseteq Cleared \ {t}
  <2>1. Cleared' \subseteq Cleared
    BY <1>1, <1>6, <1>7 DEF Cleared
  <2>2. t \notin Cleared'
    <3>1. ~\E d \in Client : stage'[d] = "fill" /\ task'[d] = t
      BY <1>1, <1>7, <1>8
    <3>2. ~\E w \in Thread : step'[w] = "free" /\ WorkerTask(w)' = t
      BY <1>6, <1>8
    <3> QED
      BY <1>1, <1>8, <1>10, <3>1, <3>2 DEF Cleared
  <2> QED
    BY <2>1, <2>2
<1>12. Written' \subseteq Written \cup {t}
  BY <1>1, <1>6, <1>7 DEF Written, t
<1>13. szQuery \in [Task -> Text \cup {Empty, Mixed}]
  BY DEF TInv, PoolOK
<1>14. Written' \subseteq Task /\ Cleared' \subseteq Task
  BY DEF Written, Cleared, Task
<1>15. szQuery'[t] = cmd[c] /\ \A s \in Task : s # t => szQuery'[s] = szQuery[s]
  BY <1>2, <1>5, <1>13
<1> QED
  BY <1>2, <1>11, <1>12, <1>14, <1>15 DEF Contents

\* The worker that has the task zeroes it.
LEMMA ReleaseInitContents ==
  ASSUME TInv, TaskHasOneHolder, Contents, NEW w \in Thread, ReleaseInit(w) PROVE Contents'
<1> DEFINE t == job[w]
<1>1. /\ step[w] = "release" /\ step' = [step EXCEPT ![w] = "free"]
      /\ szQuery' = [szQuery EXCEPT ![t] = Empty]
      /\ UNCHANGED <<created, m_FreeList, queue, pc, job, stage, task>>
  BY DEF ReleaseInit, TK!InitTask, tpVars, poolVars, clientVars
<1>2. t \in Task /\ t # NullTask /\ WorkerTask(w) = t
  BY <1>1, TaskOfWorker
<1>3. /\ WorkerTask(w)' = t /\ step'[w] = "free"
      /\ \A v \in Thread \ {w} : step'[v] = step[v] /\ WorkerTask(v)' = WorkerTask(v)
  BY <1>1, <1>2, TaskOfWorker DEF TInv, TypeOK, WorkerTask
<1>4. InPort' = InPort
  BY <1>1 DEF InPort, TP!Queued
<1>5. /\ t \notin InPort
      /\ \A c \in Client : stage[c] = "post" => task[c] # t
      /\ \A v \in Thread \ {w} : WorkerTask(v) # t
  BY <1>2 DEF TaskHasOneHolder, ClientTask
<1> HIDE DEF t
<1>6. Cleared' \subseteq Cleared \cup {t}
  BY <1>1, <1>3, <1>4 DEF Cleared
<1>7. Written' \subseteq Written \ {t}
  <2>1. Written' \subseteq Written
    BY <1>1, <1>3, <1>4 DEF Written
  <2>2. t \notin Written'
    <3>1. \A v \in Thread : step'[v] \in {"query", "release"} => WorkerTask(v)' # t
      BY <1>3, <1>5
    <3> QED
      BY <1>1, <1>4, <1>5, <3>1 DEF Written
  <2> QED
    BY <2>1, <2>2
<1>8. szQuery \in [Task -> Text \cup {Empty, Mixed}]
  BY DEF TInv, PoolOK
<1>9. Written' \subseteq Task /\ Cleared' \subseteq Task
  BY DEF Written, Cleared, Task
<1>10. szQuery'[t] = Empty /\ \A s \in Task : s # t => szQuery'[s] = szQuery[s]
  BY <1>1, <1>2, <1>8
<1> QED
  BY <1>6, <1>7, <1>9, <1>10 DEF Contents

-----------------------------------------------------------------------------
(* What the server receives *)

\* Whoever is inside Query has a statement that a client submitted.
LEMMA SentIsFormatted ==
  ASSUME TInv, Contents, NEW u \in Client \cup Thread, phase[u] # "idle"
  PROVE  SentBy(u) \notin {Empty, Mixed}
<1>1. CASE u \in Client
  <2>1. cmd[u] \in Text
    BY <1>1 DEF TInv, ClientOK
  <2> QED
    BY <1>1, <2>1, XEMySqlAssumption DEF SentBy
<1>2. CASE u \in Thread /\ u \notin Client
  <2>1. step[u] = "release"
    BY <1>2 DEF TInv, WorkerOK
  <2>2. job[u] \in Written
    BY <1>2, <2>1, TaskOfWorker DEF Written
  <2>3. szQuery[job[u]] \in Text
    BY <2>2 DEF Contents
  <2> QED
    BY <1>2, <2>3, XEMySqlAssumption DEF SentBy
<1> QED
  BY <1>1, <1>2

LEMMA QuerySubmitted ==
  ASSUME IInv, NEW u \in Client \cup Thread, QueryStep(u) PROVE OnlySubmitted'
<1>1. phase[u] # "idle"
  BY QueryStepTypes DEF IInv, TInv
<1>2. SentBy(u) \notin {Empty, Mixed}
  BY <1>1, SentIsFormatted DEF IInv
<1>3. served \in [Statement -> Nat]
  BY DEF IInv, TInv, TypeOK
<1>4. served' = served \/ served' = [served EXCEPT ![SentBy(u)] = served[SentBy(u)] + 1]
  BY DEF QueryStep
<1>5. served'[Empty] = served[Empty] /\ served'[Mixed] = served[Mixed]
  BY <1>2, <1>3, <1>4 DEF Statement
<1> QED
  BY <1>5 DEF IInv, OnlySubmitted

-----------------------------------------------------------------------------

LEMMA NextIInv == IInv /\ [Next]_vars => IInv'
<1> SUFFICES ASSUME IInv, [Next]_vars PROVE IInv'
  OBVIOUS
<1> USE DEF IInv
<1>1. TInv' /\ TaskHasOneHolder'
  BY NextHolders
<1>2. Contents' /\ OnlySubmitted'
  <2>1. CASE UNCHANGED vars
    <3>1. /\ UNCHANGED <<szQuery, created, m_FreeList, queue, pc, job, stage, task, step>>
          /\ served' = served
      BY <2>1 DEF vars, tpVars, tkVars, clientVars
    <3>2. Cleared' = Cleared /\ Written' = Written
      BY <3>1 DEF Cleared, Written, WorkerTask, InPort, TP!Queued
    <3> QED
      BY <3>1, <3>2, ContentsKept DEF OnlySubmitted
  <2>2. CASE Owner
    BY <2>2, OwnerContents DEF Owner, OnlySubmitted
  <2>3. ASSUME NEW c \in Client, ClientNext(c) PROVE Contents' /\ OnlySubmitted'
    <3>1. CASE ClientStep(c)
      BY <3>1, QuietContents, QuerySubmitted DEF ClientStep
    <3>2. CASE ~ClientStep(c)
      <4>1. served' = served
        BY <2>3, <3>2 DEF ClientNext, GetFreeJob, GetFreeJobThrows, FillJob, Post, ClientReturns
      <4>2. Contents'
        BY <2>3, <3>2, GetFreeJobContents, FillContents, PostContents, QuietContents
           DEF ClientNext
      <4> QED
        BY <4>1, <4>2 DEF OnlySubmitted
    <3> QED
      BY <3>1, <3>2
  <2>4. ASSUME NEW c \in Client, NEW q \in Query, ExecuteQueryNoRet(c, q) \/ ClientQuery(c, q)
        PROVE  Contents' /\ OnlySubmitted'
    <3>1. served' = served
      BY <2>4 DEF ExecuteQueryNoRet, ClientQuery
    <3>2. Contents'
      BY <2>4, QuietContents
    <3> QED
      BY <3>1, <3>2 DEF OnlySubmitted
  <2>5. ASSUME NEW w \in Thread, WorkerNext(w) PROVE Contents' /\ OnlySubmitted'
    <3>1. CASE WorkerStep(w)
      BY <3>1, QuietContents, QuerySubmitted DEF WorkerStep
    <3>2. CASE ~WorkerStep(w)
      <4>1. served' = served
        BY <2>5, <3>2 DEF WorkerNext, WorkerIdle, ProcessTask, ReleaseInit, ReleaseFree,
                          ProcessTaskReturns
      <4>2. Contents'
        BY <2>5, <3>2, IdleContents, QuietContents, ReleaseInitContents, ReleaseFreeContents
           DEF WorkerNext
      <4> QED
        BY <4>1, <4>2 DEF OnlySubmitted
    <3> QED
      BY <3>1, <3>2
  <2> QED
    BY <2>1, <2>2, <2>3, <2>4, <2>5 DEF Next
<1> QED
  BY <1>1, <1>2

\* Every reachable state of the composition satisfies the invariant.
THEOREM Inductive == Spec => []IInv
<1>1. Init => IInv
  BY InitIInv
<1>2. IInv /\ [Next]_vars => IInv'
  BY NextIInv
<1> QED
  BY <1>1, <1>2, PTL DEF Spec

\* Types of the composition and of the thread pool and connections in it.
THEOREM TypeCorrect == Spec => []TypeOK
<1>1. IInv => TypeOK
  BY DEF IInv, TInv
<1> QED
  BY <1>1, Inductive, PTL

\* ExecuteQueryNoRet, the port, ProcessTask and the free list hand each task
\* on: no task is ever with two clients, two workers, twice in the port, or
\* in use while it is on the free list.
THEOREM OneHolder == Spec => []TaskHasOneHolder
<1>1. IInv => TaskHasOneHolder
  BY DEF IInv
<1> QED
  BY <1>1, Inductive, PTL

\* ReleaseJob's Init comes before its Free, and nobody writes a task that is
\* on the list: GetFreeJob always copies over zeros.
THEOREM FreeClean == Spec => []FreeTasksClean
<1>1. IInv => FreeTasksClean
  <2> SUFFICES ASSUME IInv, NEW t \in ToSet(m_FreeList) PROVE szQuery[t] = Empty
    BY DEF FreeTasksClean
  <2>1. t \in Task
    <3>1. m_FreeList \in Seq(Task)
      BY DEF IInv, TInv, PoolOK
    <3> HIDE DEF Task
    <3> QED
      BY <3>1 DEF ToSet
  <2>2. t \in Cleared
    BY <2>1 DEF Cleared
  <2> QED
    BY <2>2 DEF IInv, Contents
<1> QED
  BY <1>1, Inductive, PTL

\* Whatever clients, workers and Stops interleave, the server never receives
\* an empty statement or a mixture of two.
THEOREM Submitted == Spec => []OnlySubmitted
<1>1. IInv => OnlySubmitted
  BY DEF IInv
<1> QED
  BY <1>1, Inductive, PTL

-----------------------------------------------------------------------------
(* The clients and workers follow the task pool's protocol *)

Taken == {t \in Task : \E c \in Client : stage[c] = "fill" /\ task[c] = t}
Zeroed == {t \in Task : \E w \in Thread : WorkerTask(w) = t /\ step[w] = "free"}

\* UseOf without the leaks: a task that is not on the list is with somebody,
\* or nobody will see it again.
UseIn == [t \in Task |->
  IF t > created THEN "none"
  ELSE IF t \in Taken THEN "taken"
  ELSE IF t \in Zeroed THEN "cleared"
  ELSE IF t \notin ToSet(m_FreeList) THEN "filled"
  ELSE "free"]

LEMMA UseIs == TInv /\ TaskHasOneHolder => UseOf = UseIn
<1> SUFFICES ASSUME TInv, TaskHasOneHolder PROVE UseOf = UseIn
  OBVIOUS
<1>1. ASSUME NEW t \in Task, ~(t > created)
      PROVE  t \in Leaked \cup Held <=> t \notin ToSet(m_FreeList)
  <2>1. created \in Nat /\ t \in 1..created
    BY <1>1, HeldAreMade, XEMySqlAssumption DEF Task
  <2>2. t \in Held => t \notin ToSet(m_FreeList)
    <3>1. t # NullTask
      BY DEF Task, NullTask
    <3> QED
      BY <3>1 DEF Held, TaskHasOneHolder
  <2> QED
    BY <2>1, <2>2 DEF Leaked
<1> QED
  BY <1>1 DEF UseOf, UseIn, Taken, Zeroed

LEMMA UseIsNext == TInv' /\ TaskHasOneHolder' => UseOf' = UseIn'
<1>1. (TInv /\ TaskHasOneHolder => UseOf = UseIn)'
  BY UseIs, PTL
<1> QED
  BY <1>1

\* Where the tasks in a client's or a worker's hands are.
LEMMA PlacesOfUse ==
  ASSUME TInv, TaskHasOneHolder
  PROVE  /\ created \in 0..MaxTasks
         /\ ToSet(m_FreeList) \subseteq 1..created
         /\ Taken \cap (Zeroed \cup ToSet(m_FreeList)) = {}
         /\ Zeroed \cap ToSet(m_FreeList) = {}
         /\ \A t \in Taken \cup Zeroed : ~(t > created)
<1>1. \A t \in Taken : \E c \in Client : ClientTask(c) = t /\ t # NullTask
  BY DEF Taken, ClientTask, Task, NullTask
<1>2. \A t \in Zeroed : \E w \in Thread : WorkerTask(w) = t /\ t # NullTask
  BY DEF Zeroed, Task, NullTask
<1>3. \A t \in Taken \cup Zeroed : t \in 0..created
  BY <1>1, <1>2, HeldAreMade
<1>4. created \in 0..MaxTasks /\ ToSet(m_FreeList) \subseteq 1..created
  BY HeldAreMade
<1>5. \A t \in Taken \cup Zeroed : ~(t > created)
  BY <1>3, <1>4, XEMySqlAssumption
<1> QED
  BY <1>1, <1>2, <1>4, <1>5 DEF TaskHasOneHolder

LEMMA UseKept ==
  ASSUME IInv, IInv', poolVars' = poolVars, szQuery' = szQuery, wanted' = wanted,
         Taken' = Taken, Zeroed' = Zeroed
  PROVE  UNCHANGED TK!vars
<1>1. UseIn' = UseIn
  BY DEF UseIn, poolVars
<1>2. UseOf' = UseOf
  BY <1>1, UseIs, UseIsNext DEF IInv
<1> QED
  BY <1>2 DEF TK!vars, poolVars

LEMMA AllocStep ==
  ASSUME IInv, IInv', NEW c \in Client, GetFreeJob(c) PROVE \E t \in Task : TK!Alloc(t)
<1>1. PICK t \in Task : TK!PoolAlloc(t) /\ task' = [task EXCEPT ![c] = t]
  BY DEF GetFreeJob
<1>2. /\ created' \in 0..MaxTasks /\ created <= created' /\ t \in 1..created'
      /\ t \in ToSet(m_FreeList) \cup (created + 1)..created'
      /\ ToSet(m_FreeList') = (ToSet(m_FreeList) \cup (created + 1)..created') \ {t}
  BY <1>1, AllocTakesOne DEF IInv, TInv
<1>3. /\ stage[c] = "alloc" /\ stage' = [stage EXCEPT ![c] = "fill"]
      /\ UNCHANGED <<pc, job, step, szQuery, wanted>>
  BY DEF GetFreeJob, tpVars
<1>4. Taken' = Taken \cup {t}
  <2>1. /\ stage'[c] = "fill" /\ task'[c] = t
        /\ \A d \in Client : d # c => stage'[d] = stage[d] /\ task'[d] = task[d]
    BY <1>1, <1>3 DEF IInv, TInv, TypeOK
  <2> QED
    BY <1>3, <2>1 DEF Taken
<1>5. Zeroed' = Zeroed
  BY <1>3 DEF Zeroed, WorkerTask
<1>6. UseIn' = [s \in Task |-> IF s = t THEN "taken"
                              ELSE IF UseIn[s] = "none" /\ s <= created' THEN "free"
                              ELSE UseIn[s]]
  <2> SUFFICES ASSUME NEW s \in Task
               PROVE  UseIn'[s] = IF s = t THEN "taken"
                                  ELSE IF UseIn[s] = "none" /\ s <= created' THEN "free"
                                  ELSE UseIn[s]
    BY DEF UseIn
  <2>1. /\ created \in Nat /\ created' \in Nat /\ s \in Nat /\ s > 0
        /\ \A r \in Taken \cup Zeroed : ~(r > created)
    BY <1>2, PlacesOfUse, XEMySqlAssumption DEF IInv, Task
  <2>2. CASE s = t
    <3>1. ~(s > created') /\ s \in Taken'
      BY <1>2, <1>4, <2>1, <2>2
    <3> QED
      BY <2>2, <3>1 DEF UseIn
  <2>3. CASE s # t /\ s > created
    <3>1. UseIn[s] = "none" /\ s \notin Taken' /\ s \notin Zeroed'
      BY <1>4, <1>5, <2>1, <2>3 DEF UseIn
    <3>2. s <= created' => ~(s > created') /\ s \in ToSet(m_FreeList')
      BY <1>2, <2>1, <2>3
    <3>3. ~(s <= created') => s > created'
      BY <2>1
    <3> QED
      BY <2>3, <3>1, <3>2, <3>3 DEF UseIn
  <2>4. CASE s # t /\ ~(s > created)
    <3>1. ~(s > created') /\ UseIn[s] # "none"
      BY <1>2, <2>1, <2>4 DEF UseIn
    <3>2. s \in ToSet(m_FreeList') <=> s \in ToSet(m_FreeList)
      BY <1>2, <2>1, <2>4
    <3>3. (s \in Taken' <=> s \in Taken) /\ (s \in Zeroed' <=> s \in Zeroed)
      BY <1>4, <1>5, <2>4
    <3> QED
      BY <2>4, <3>1, <3>2, <3>3 DEF UseIn
  <2> QED
    BY <2>2, <2>3, <2>4
<1>7. TK!Becomes(t, "taken")
  BY <1>6, UseIs, UseIsNext DEF IInv, TK!Becomes, TK!Task, Task
<1> QED
  BY <1>1, <1>3, <1>7 DEF TK!Alloc, TK!taskVars

LEMMA ThrowStep ==
  ASSUME IInv, IInv', NEW c \in Client, GetFreeJobThrows(c) PROVE TK!AllocThrows
<1>1. /\ TK!PoolAllocThrows /\ stage[c] = "alloc" /\ stage' = [stage EXCEPT ![c] = "idle"]
      /\ UNCHANGED <<pc, job, step, szQuery, wanted, task>>
  BY DEF GetFreeJobThrows, tpVars
<1>2. /\ created' = MaxTasks
      /\ ToSet(m_FreeList') = ToSet(m_FreeList) \cup (created + 1)..created'
  BY <1>1, ThrowKeepsTasks DEF IInv, TInv, TK!PoolAllocThrows
<1>3. Taken' = Taken /\ Zeroed' = Zeroed
  BY <1>1 DEF Taken, Zeroed, WorkerTask, IInv, TInv, TypeOK
<1>4. UseIn' = [s \in Task |-> IF UseIn[s] = "none" THEN "free" ELSE UseIn[s]]
  <2> SUFFICES ASSUME NEW s \in Task
               PROVE  UseIn'[s] = IF UseIn[s] = "none" THEN "free" ELSE UseIn[s]
    BY DEF UseIn
  <2>1. /\ created \in Nat /\ MaxTasks \in Nat /\ s \in 1..MaxTasks
        /\ \A r \in Taken \cup Zeroed : ~(r > created)
    BY PlacesOfUse, XEMySqlAssumption DEF IInv, Task
  <2>2. ~(s > created')
    BY <1>2, <2>1
  <2>3. s > created => s \in ToSet(m_FreeList') /\ s \notin Taken' /\ s \notin Zeroed'
    BY <1>2, <1>3, <2>1
  <2>4. ~(s > created) => (s \in ToSet(m_FreeList') <=> s \in ToSet(m_FreeList))
    BY <1>2, <2>1
  <2> QED
    BY <1>3, <2>2, <2>3, <2>4 DEF UseIn
<1> QED
  BY <1>1, <1>4, UseIs, UseIsNext DEF IInv, TK!AllocThrows, TK!taskVars, TK!Task, Task

\* One task changes its state, and the pool makes none.
LEMMA UseBecomes ==
  ASSUME IInv, IInv', NEW t \in Task, NEW u, created' = created,
         \A s \in Task \ {t} : /\ s \in Taken' <=> s \in Taken
                               /\ s \in Zeroed' <=> s \in Zeroed
                               /\ s \in ToSet(m_FreeList') <=> s \in ToSet(m_FreeList),
         UseIn'[t] = u
  PROVE  TK!Becomes(t, u)
<1>1. \A s \in Task : UseIn[s] = "none" => ~(s <= created')
  BY PlacesOfUse, XEMySqlAssumption DEF UseIn, IInv, Task
<1>2. UseIn' = [s \in Task |-> IF s = t THEN u ELSE UseIn[s]]
  BY DEF UseIn
<1>3. UseIn' = [s \in Task |-> IF s = t THEN u
                              ELSE IF UseIn[s] = "none" /\ s <= created' THEN "free"
                              ELSE UseIn[s]]
  BY <1>1, <1>2
<1> QED
  BY <1>3, UseIs, UseIsNext DEF IInv, TK!Becomes, TK!Task, Task

LEMMA FillStep ==
  ASSUME IInv, IInv', NEW c \in Client, FillJob(c) PROVE TK!Fill(task[c], cmd[c])
<1> DEFINE t == task[c]
<1>1. /\ stage[c] = "fill" /\ stage' = [stage EXCEPT ![c] = "post"]
      /\ TK!CopyQuery(t, cmd[c]) /\ UNCHANGED poolVars
      /\ UNCHANGED <<created, m_FreeList, pc, job, step, task>>
  BY DEF FillJob, tpVars, poolVars
<1>2. t \in 1..created /\ created \in 0..MaxTasks
  BY <1>1 DEF IInv, TInv, ClientOK, PoolOK
<1>3. ClientTask(c) = t
  BY <1>1 DEF ClientTask
<1> HIDE DEF t
<1>4. t \in Task /\ t # NullTask /\ ~(t > created)
  BY <1>2, XEMySqlAssumption DEF Task, NullTask
<1>5. \A d \in Client : d # c => stage'[d] = stage[d]
  BY <1>1 DEF IInv, TInv, TypeOK
<1>6. t \in Taken /\ stage'[c] = "post"
  BY <1>1, <1>4 DEF Taken, t, IInv, TInv, TypeOK
<1>7. \A d \in Client \ {c} : stage[d] = "fill" => task[d] # t
  BY <1>3, <1>4 DEF IInv, TaskHasOneHolder, ClientTask
<1>8. Taken' = Taken \ {t}
  BY <1>1, <1>5, <1>6, <1>7 DEF Taken, t
<1>9. Zeroed' = Zeroed
  BY <1>1 DEF Zeroed, WorkerTask
<1>10. t \notin Zeroed /\ t \notin ToSet(m_FreeList)
  BY <1>6, PlacesOfUse DEF IInv
<1>11. UseIn[t] = "taken"
  BY <1>4, <1>6 DEF UseIn
<1>12. UseIn'[t] = "filled"
  BY <1>1, <1>4, <1>8, <1>9, <1>10 DEF UseIn
<1>13. TK!Becomes(t, "filled")
  BY <1>1, <1>4, <1>8, <1>9, <1>12, UseBecomes
<1>14. UseOf[t] = "taken"
  BY <1>11, UseIs DEF IInv
<1> QED
  BY <1>1, <1>13, <1>14 DEF TK!Fill, TK!poolVars, poolVars, t

LEMMA ClearStep ==
  ASSUME IInv, IInv', NEW w \in Thread, ReleaseInit(w)
  PROVE  job[w] \in Task /\ TK!Clear(job[w])
<1> DEFINE t == job[w]
<1>1. /\ step[w] = "release" /\ step' = [step EXCEPT ![w] = "free"]
      /\ TK!InitTask(t) /\ UNCHANGED poolVars
      /\ UNCHANGED <<created, m_FreeList, pc, job, stage, task>>
  BY DEF ReleaseInit, tpVars, poolVars, clientVars
<1>2. t \in Task /\ t # NullTask /\ WorkerTask(w) = t
  BY <1>1, TaskOfWorker DEF IInv
<1>3. /\ step'[w] = "free" /\ WorkerTask(w)' = t
      /\ \A v \in Thread \ {w} : step'[v] = step[v] /\ WorkerTask(v)' = WorkerTask(v)
  BY <1>1, <1>2, TaskOfWorker DEF IInv, TInv, TypeOK, WorkerTask
<1>4. t \in 1..created /\ created \in 0..MaxTasks
  BY <1>1, TaskOfWorker, HeldAreMade DEF IInv
<1> HIDE DEF t
<1>5. ~(t > created)
  BY <1>4, XEMySqlAssumption
<1>6. /\ t \notin ToSet(m_FreeList)
      /\ \A v \in Thread \ {w} : WorkerTask(v) # t
      /\ \A c \in Client : ClientTask(c) # t
  BY <1>2 DEF IInv, TaskHasOneHolder
<1>7. t \notin Taken /\ t \notin Zeroed
  BY <1>1, <1>2, <1>6 DEF Taken, Zeroed, ClientTask
<1>8. Taken' = Taken
  BY <1>1 DEF Taken
<1>9. Zeroed' = Zeroed \cup {t}
  BY <1>1, <1>2, <1>3 DEF Zeroed
<1>10. UseIn[t] = "filled" /\ UseIn'[t] = "cleared"
  BY <1>1, <1>2, <1>5, <1>6, <1>7, <1>8, <1>9 DEF UseIn
<1>11. TK!Becomes(t, "cleared")
  BY <1>1, <1>2, <1>8, <1>9, <1>10, UseBecomes
<1>12. UseOf[t] = "filled"
  BY <1>10, UseIs DEF IInv
<1> QED
  BY <1>1, <1>2, <1>11, <1>12 DEF TK!Clear, TK!poolVars, poolVars, t

LEMMA FreeStep ==
  ASSUME IInv, IInv', NEW w \in Thread, ReleaseFree(w)
  PROVE  job[w] \in Task /\ TK!Free(job[w])
<1> DEFINE t == job[w]
<1>1. /\ step[w] = "free" /\ step' = [step EXCEPT ![w] = "return"]
      /\ TK!PoolFree(t) /\ UNCHANGED <<szQuery, wanted, created, pc, job, stage, task>>
  BY DEF ReleaseFree, TK!PoolFree, tpVars, clientVars
<1>2. t \in Task /\ t # NullTask /\ WorkerTask(w) = t
  BY <1>1, TaskOfWorker DEF IInv
<1>3. /\ step'[w] = "return" /\ WorkerTask(w)' = NullTask
      /\ \A v \in Thread \ {w} : step'[v] = step[v] /\ WorkerTask(v)' = WorkerTask(v)
  BY <1>1 DEF IInv, TInv, TypeOK, WorkerTask
<1>4. t \in 1..created /\ created \in 0..MaxTasks
  BY <1>1, TaskOfWorker, HeldAreMade DEF IInv
<1>5. ToSet(m_FreeList') = ToSet(m_FreeList) \cup {t}
  BY ReleaseFreeTInv DEF IInv
<1> HIDE DEF t
<1>6. ~(t > created)
  BY <1>4, XEMySqlAssumption
<1>7. t \in Zeroed /\ \A v \in Thread \ {w} : WorkerTask(v) # t
  BY <1>1, <1>2 DEF Zeroed, IInv, TaskHasOneHolder
<1>8. t \notin Taken /\ Taken' = Taken
  BY <1>1, <1>7, PlacesOfUse DEF Taken, IInv
<1>9. Zeroed' = Zeroed \ {t}
  BY <1>1, <1>2, <1>3, <1>7 DEF Zeroed
<1>10. UseIn[t] = "cleared"
  BY <1>2, <1>6, <1>7, <1>8 DEF UseIn
<1>11. UseIn'[t] = "free"
  BY <1>1, <1>2, <1>5, <1>6, <1>8, <1>9 DEF UseIn
<1>12. TK!Becomes(t, "free")
  BY <1>1, <1>2, <1>5, <1>8, <1>9, <1>11, UseBecomes
<1>13. UseOf[t] = "cleared"
  BY <1>2, <1>10, UseIs DEF IInv
<1> QED
  BY <1>1, <1>2, <1>12, <1>13 DEF TK!Free, TK!taskVars, t

\* The steps of the others leave the pool and the buffers alone.
LEMMA OtherSteps ==
  ASSUME IInv, IInv',
         \/ UNCHANGED vars \/ Owner
         \/ \E c \in Client :
              \/ Post(c) \/ ClientStep(c) \/ ClientReturns(c)
              \/ \E q \in Query : ExecuteQueryNoRet(c, q) \/ ClientQuery(c, q)
         \/ \E w \in Thread :
              \/ WorkerIdle(w) \/ ProcessTask(w) \/ WorkerStep(w) \/ ProcessTaskReturns(w)
  PROVE  UNCHANGED TK!vars
<1> SUFFICES poolVars' = poolVars /\ szQuery' = szQuery /\ wanted' = wanted
             /\ Taken' = Taken /\ Zeroed' = Zeroed
  BY UseKept
<1> USE DEF IInv, poolVars, tkVars
<1>1. CASE UNCHANGED vars
  BY <1>1 DEF vars, tpVars, clientVars, Taken, Zeroed, WorkerTask
<1>2. CASE Owner
  <2>1. /\ UNCHANGED <<tkVars, stage, task, step>> /\ job' = job
        /\ \A w \in Thread : pc'[w] = "busy" <=> pc[w] = "busy"
    BY <1>2, OwnerEffect DEF clientVars
  <2>2. \A w \in Thread : WorkerTask(w)' = WorkerTask(w)
    BY <2>1 DEF WorkerTask
  <2> QED
    BY <2>1, <2>2 DEF Taken, Zeroed
<1>3. ASSUME NEW c \in Client,
             \/ Post(c) \/ ClientStep(c) \/ ClientReturns(c)
             \/ \E q \in Query : ExecuteQueryNoRet(c, q) \/ ClientQuery(c, q)
      PROVE  poolVars' = poolVars /\ szQuery' = szQuery /\ wanted' = wanted
             /\ Taken' = Taken /\ Zeroed' = Zeroed
  <2>1. /\ UNCHANGED <<tkVars, pc, job, step>>
        /\ \/ UNCHANGED <<stage, task>>
           \/ /\ stage[c] # "fill"
              /\ task' = task \/ task' = [task EXCEPT ![c] = NullTask]
              /\ \E x \in {"idle", "alloc", "query", "post"} : stage' = [stage EXCEPT ![c] = x]
    <3>1. CASE Post(c)
      BY <3>1 DEF Post, TP!ProcessJob, TP!workerVars
    <3>2. CASE ClientStep(c)
      BY <3>2 DEF ClientStep, QueryStep, tpVars
    <3>3. CASE ClientReturns(c)
      BY <3>3 DEF ClientReturns, tpVars
    <3>4. ASSUME NEW q \in Query, ExecuteQueryNoRet(c, q) \/ ClientQuery(c, q)
          PROVE  /\ UNCHANGED <<tkVars, pc, job, step, task>> /\ stage[c] # "fill"
                 /\ \E x \in {"alloc", "query", "post"} : stage' = [stage EXCEPT ![c] = x]
      BY <3>4 DEF ExecuteQueryNoRet, ClientQuery, Issue, tpVars
    <3> QED
      BY <1>3, <3>1, <3>2, <3>3, <3>4
  <2>2. Zeroed' = Zeroed
    BY <2>1 DEF Zeroed, WorkerTask
  <2>3. /\ \A d \in Client : d # c => stage'[d] = stage[d] /\ task'[d] = task[d]
        /\ \/ stage'[c] = stage[c] /\ task'[c] = task[c]
           \/ stage'[c] # "fill" /\ stage[c] # "fill"
    BY <2>1 DEF TInv, TypeOK
  <2>4. Taken' = Taken
    BY <2>3 DEF Taken
  <2> QED
    BY <2>1, <2>2, <2>4
<1>4. ASSUME NEW w \in Thread,
             WorkerIdle(w) \/ ProcessTask(w) \/ WorkerStep(w) \/ ProcessTaskReturns(w)
      PROVE  poolVars' = poolVars /\ szQuery' = szQuery /\ wanted' = wanted
             /\ Taken' = Taken /\ Zeroed' = Zeroed
  <2>1. /\ UNCHANGED <<tkVars, stage, task>>
        /\ \A v \in Thread : v # w => /\ step'[v] = step[v] /\ pc'[v] = pc[v]
                                      /\ job'[v] = job[v]
        /\ \/ step'[w] = "free" /\ step[w] = "free" /\ UNCHANGED <<pc, job>>
           \/ step'[w] # "free" /\ (step[w] # "free" \/ WorkerTask(w) \notin Task)
    <3>1. CASE WorkerIdle(w)
      <4>1. UNCHANGED <<tkVars, clientVars, step>> /\ pc[w] # "busy"
        BY <3>1, IdleEffect
      <4>2. step[w] # "free"
        BY <4>1 DEF TInv, WorkerOK
      <4>3. /\ pc \in [Thread -> TP!PC] /\ DOMAIN job = Thread
            /\ \E p \in {"wait", "remove", "exited", "busy"} : pc' = [pc EXCEPT ![w] = p]
            /\ job' = job \/ job' = [job EXCEPT ![w] = Head(queue)]
        BY <3>1, IdleEffect DEF TInv, TypeOK, TP!TypeOK
      <4>4. \A v \in Thread : v # w => pc'[v] = pc[v] /\ job'[v] = job[v]
        BY <4>3
      <4> QED
        BY <4>1, <4>2, <4>4 DEF clientVars
    <3>2. CASE ProcessTask(w)
      BY <3>2 DEF ProcessTask, tpVars, clientVars, TInv, TypeOK
    <3>3. CASE WorkerStep(w)
      BY <3>3 DEF WorkerStep, QueryStep, tpVars
    <3>4. CASE ProcessTaskReturns(w)
      <4>1. /\ pc' = [pc EXCEPT ![w] = "loop"] /\ job' = [job EXCEPT ![w] = NoJob]
            /\ step' = [step EXCEPT ![w] = "query"] /\ UNCHANGED <<tkVars, stage, task>>
            /\ job[w] = NullTask \/ step[w] = "return"
        BY <3>4 DEF ProcessTaskReturns, TP!Finish, clientVars
      <4>2. step[w] # "free"
        BY <4>1 DEF TInv, WorkerOK
      <4> QED
        BY <4>1, <4>2 DEF TInv, TypeOK, TP!TypeOK
    <3> QED
      BY <1>4, <3>1, <3>2, <3>3, <3>4
  <2>2. Taken' = Taken
    BY <2>1 DEF Taken
  <2>3. Zeroed' = Zeroed
    BY <2>1 DEF Zeroed, WorkerTask
  <2> QED
    BY <2>1, <2>2, <2>3
<1> QED
  BY <1>1, <1>2, <1>3, <1>4

LEMMA StepImplements == IInv /\ IInv' /\ [Next]_vars => [TK!Next]_(TK!vars)
<1> SUFFICES ASSUME IInv, IInv', [Next]_vars PROVE TK!Next \/ UNCHANGED TK!vars
  OBVIOUS
<1> USE DEF TK!Next, TK!Task, Task
<1>1. CASE UNCHANGED vars \/ Owner
  BY <1>1, OtherSteps
<1>2. ASSUME NEW c \in Client, ClientNext(c) PROVE TK!Next \/ UNCHANGED TK!vars
  <2>1. CASE GetFreeJob(c)
    BY <2>1, AllocStep
  <2>2. CASE GetFreeJobThrows(c)
    BY <2>2, ThrowStep
  <2>3. CASE FillJob(c)
    <3>1. task[c] \in 1..created /\ cmd[c] \in Text /\ created \in 0..MaxTasks
      BY <2>3 DEF FillJob, IInv, TInv, ClientOK, PoolOK
    <3>2. task[c] \in Task
      BY <3>1, XEMySqlAssumption
    <3>3. TK!Fill(task[c], cmd[c])
      BY <2>3, FillStep
    <3> QED
      BY <3>1, <3>2, <3>3
  <2> QED
    BY <1>2, <2>1, <2>2, <2>3, OtherSteps DEF ClientNext
<1>3. ASSUME NEW c \in Client, NEW q \in Query, ExecuteQueryNoRet(c, q) \/ ClientQuery(c, q)
      PROVE  UNCHANGED TK!vars
  BY <1>3, OtherSteps
<1>4. ASSUME NEW w \in Thread, WorkerNext(w) PROVE TK!Next \/ UNCHANGED TK!vars
  <2>1. CASE ReleaseInit(w)
    BY <2>1, ClearStep
  <2>2. CASE ReleaseFree(w)
    BY <2>2, FreeStep
  <2> QED
    BY <1>4, <2>1, <2>2, OtherSteps DEF WorkerNext
<1> QED
  BY <1>1, <1>2, <1>3, <1>4 DEF Next

LEMMA InitImplements == Init => TK!Init
<1> SUFFICES ASSUME Init PROVE TK!Init
  OBVIOUS
<1>1. IInv
  BY InitIInv
<1>2. Taken = {} /\ Zeroed = {}
  BY DEF Init, TP!Init, Taken, Zeroed, WorkerTask, Task, NullTask
<1>3. created = JobCount /\ m_FreeList = [t \in 1..JobCount |-> t]
  BY DEF Init
<1>4. ToSet(m_FreeList) = 1..JobCount
  BY <1>3 DEF ToSet
<1>5. UseIn = [t \in Task |-> IF t <= JobCount THEN "free" ELSE "none"]
  BY <1>2, <1>3, <1>4, XEMySqlAssumption DEF UseIn, Task
<1> QED
  BY <1>1, <1>5, UseIs DEF Init, IInv, TK!Init, TK!Task, Task

\* GetFreeJob is Alloc then Fill and ReleaseJob Clear then Free, each by the
\* task's one holder, however clients, workers and Stops interleave.
THEOREM FollowsProtocol == Spec => ImplementsTaskPool
<1>1. Init => TK!Init
  BY InitImplements
<1>2. IInv /\ IInv' /\ [Next]_vars => [TK!Next]_(TK!vars)
  BY StepImplements
<1> QED
  BY <1>1, <1>2, Inductive, PTL DEF Spec, ImplementsTaskPool, TK!Spec

-----------------------------------------------------------------------------
(* Where the tasks go *)

\* The tasks that are somewhere.
Placed == (ToSet(m_FreeList) \cup Held) \ {NullTask}

LEMMA LeakedIs == ASSUME IInv PROVE Leaked = (1..created) \ Placed
<1>1. NullTask \notin 1..created
  BY HeldAreMade, XEMySqlAssumption DEF IInv, NullTask
<1> QED
  BY <1>1 DEF Leaked, Placed

LEMMA LeakedIsNext == ASSUME IInv' PROVE Leaked' = (1..created') \ Placed'
<1>1. (IInv => Leaked = (1..created) \ Placed)'
  BY LeakedIs, PTL
<1> QED
  BY <1>1

LEMMA SamePlaces ==
  ASSUME UNCHANGED <<queue, m_FreeList, created>>,
         \A c \in Client : ClientTask(c)' = ClientTask(c),
         \A w \in Thread : WorkerTask(w)' = WorkerTask(w)
  PROVE  InPort' = InPort /\ Leaked' = Leaked
<1>1. InPort' = InPort
  BY DEF InPort, TP!Queued
<1> QED
  BY <1>1 DEF Leaked, Held

\* A step in which tasks move from one place to another, or are made.
LEMMA Moved ==
  ASSUME IInv, IInv', created' \in Nat, created <= created',
         Placed' = Placed \cup (created + 1)..created'
  PROVE  Leaked' = Leaked
<1>1. created \in Nat
  BY HeldAreMade, XEMySqlAssumption DEF IInv
<1>2. (1..created') \ ((created + 1)..created') = 1..created
  BY <1>1
<1> QED
  BY <1>2, LeakedIs, LeakedIsNext

LEMMA MovedOnly ==
  ASSUME IInv, IInv', created' = created, Placed' = Placed PROVE Leaked' = Leaked
  BY LeakedIs, LeakedIsNext

LEMMA MovedOut ==
  ASSUME IInv, IInv', created' = created, NEW S, S \subseteq Placed, Placed' = Placed \ S
  PROVE  Leaked' = Leaked \cup S
<1>1. Placed \subseteq 1..created
  <2>1. created \in Nat /\ \A t \in 0..created : t # NullTask => t \in 1..created
    BY HeldAreMade, XEMySqlAssumption DEF IInv, NullTask
  <2> QED
    BY <2>1, HeldAreMade DEF IInv, Placed, Held
<1> QED
  BY <1>1, LeakedIs, LeakedIsNext

\* The steps in which no task moves.
LEMMA QuietPlaces ==
  ASSUME IInv,
         \/ \E c \in Client :
              \/ FillJob(c) \/ ClientStep(c) \/ ClientReturns(c)
              \/ \E q \in Query : ExecuteQueryNoRet(c, q) \/ ClientQuery(c, q)
         \/ \E w \in Thread :
              \/ ProcessTask(w) \/ WorkerStep(w) \/ ReleaseInit(w) \/ ProcessTaskReturns(w)
  PROVE  /\ UNCHANGED <<queue, isOpen, m_FreeList, created>>
         /\ \A c \in Client : ClientTask(c)' = ClientTask(c)
         /\ \A w \in Thread : WorkerTask(w)' = WorkerTask(w)
<1> USE DEF IInv
<1>1. ASSUME NEW c \in Client,
             \/ FillJob(c) \/ ClientStep(c) \/ ClientReturns(c)
             \/ \E q \in Query : ExecuteQueryNoRet(c, q) \/ ClientQuery(c, q)
      PROVE  /\ UNCHANGED <<queue, isOpen, m_FreeList, created>>
             /\ \A d \in Client : ClientTask(d)' = ClientTask(d)
             /\ \A w \in Thread : WorkerTask(w)' = WorkerTask(w)
  <2>1. /\ UNCHANGED <<queue, isOpen, m_FreeList, created, pc, job, step, task>>
        /\ \/ stage' = stage
           \/ stage[c] = "fill" /\ stage' = [stage EXCEPT ![c] = "post"]
           \/ /\ stage[c] \in {"idle", "query"}
              /\ \E x \in {"idle", "alloc", "query", "post"} : stage' = [stage EXCEPT ![c] = x]
    BY <1>1 DEF FillJob, ClientStep, QueryStep, ClientReturns, ExecuteQueryNoRet, ClientQuery,
                Issue, tpVars, tkVars, poolVars
  <2>2. stage[c] \in {"idle", "query"} => task[c] = NullTask
    BY DEF TInv, ClientOK
  <2> QED
    BY <2>1, <2>2 DEF TInv, TypeOK, ClientTask, WorkerTask
<1>2. ASSUME NEW w \in Thread,
             ProcessTask(w) \/ WorkerStep(w) \/ ReleaseInit(w) \/ ProcessTaskReturns(w)
      PROVE  /\ UNCHANGED <<queue, isOpen, m_FreeList, created>>
             /\ \A c \in Client : ClientTask(c)' = ClientTask(c)
             /\ \A v \in Thread : WorkerTask(v)' = WorkerTask(v)
  <2>1. CASE ProcessTask(w) \/ WorkerStep(w) \/ ReleaseInit(w)
    <3>1. /\ UNCHANGED <<queue, isOpen, m_FreeList, created, pc, job, stage, task>>
          /\ \/ step' = step
             \/ step[w] # "return" /\ \E x \in {"release", "free"} :
                                        step' = [step EXCEPT ![w] = x]
      BY <2>1 DEF ProcessTask, WorkerStep, QueryStep, ReleaseInit, tpVars, tkVars, poolVars,
                  clientVars
    <3> QED
      BY <3>1 DEF TInv, TypeOK, ClientTask, WorkerTask
  <2>2. CASE ProcessTaskReturns(w)
    <3>1. /\ pc' = [pc EXCEPT ![w] = "loop"] /\ job' = [job EXCEPT ![w] = NoJob]
          /\ step' = [step EXCEPT ![w] = "query"]
          /\ job[w] = NullTask \/ step[w] = "return"
          /\ UNCHANGED <<queue, isOpen, m_FreeList, created, stage, task>>
      BY <2>2 DEF ProcessTaskReturns, TP!Finish, TP!portVars, tkVars, clientVars
    <3>2. WorkerTask(w) = NullTask /\ WorkerTask(w)' = NullTask
      BY <3>1 DEF TInv, TypeOK, TP!TypeOK, WorkerTask
    <3>3. \A v \in Thread \ {w} : WorkerTask(v)' = WorkerTask(v)
      BY <3>1 DEF TInv, TypeOK, TP!TypeOK, WorkerTask
    <3> QED
      BY <3>1, <3>2, <3>3 DEF ClientTask
  <2> QED
    BY <1>2, <2>1, <2>2
<1> QED
  BY <1>1, <1>2

LEMMA AllocPlaces ==
  ASSUME IInv, IInv', NEW c \in Client, GetFreeJob(c) \/ GetFreeJobThrows(c)
  PROVE  /\ InPort' = InPort /\ \A w \in Thread : WorkerTask(w)' = WorkerTask(w)
         /\ Leaked' = Leaked
<1> USE DEF IInv
<1>1. CASE GetFreeJob(c)
  <2>1. PICK t \in Task : TK!PoolAlloc(t) /\ task' = [task EXCEPT ![c] = t]
    BY <1>1 DEF GetFreeJob
  <2>2. /\ created' \in Nat /\ created <= created' /\ t # NullTask
        /\ t \in ToSet(m_FreeList) \cup (created + 1)..created'
        /\ ToSet(m_FreeList') = (ToSet(m_FreeList) \cup (created + 1)..created') \ {t}
    BY <2>1, AllocTakesOne, XEMySqlAssumption DEF TInv, Task, NullTask
  <2>3. /\ stage[c] = "alloc" /\ UNCHANGED <<pc, job, queue, step>>
        /\ stage' = [stage EXCEPT ![c] = "fill"]
    BY <1>1 DEF GetFreeJob, tpVars
  <2>4. /\ ClientTask(c) = NullTask /\ ClientTask(c)' = t
        /\ \A d \in Client \ {c} : ClientTask(d)' = ClientTask(d)
    BY <2>1, <2>3 DEF TInv, TypeOK, ClientTask
  <2>5. InPort' = InPort /\ \A w \in Thread : WorkerTask(w)' = WorkerTask(w)
    BY <2>3 DEF InPort, TP!Queued, WorkerTask
  <2>6. NullTask \notin (created + 1)..created'
    BY HeldAreMade, XEMySqlAssumption DEF NullTask
  <2>7. {ClientTask(d)' : d \in Client} \cup {NullTask}
          = {ClientTask(d) : d \in Client} \cup {t, NullTask}
    BY <2>4
  <2>8. {WorkerTask(w)' : w \in Thread} = {WorkerTask(w) : w \in Thread}
    BY <2>5
  <2>9. Placed' = Placed \cup (created + 1)..created'
    BY <2>2, <2>5, <2>6, <2>7, <2>8 DEF Placed, Held
  <2> QED
    BY <2>2, <2>5, <2>9, Moved
<1>2. CASE GetFreeJobThrows(c)
  <2>1. /\ created' \in Nat /\ created <= created'
        /\ ToSet(m_FreeList') = ToSet(m_FreeList) \cup (created + 1)..created'
    BY <1>2, ThrowKeepsTasks, XEMySqlAssumption DEF TInv, GetFreeJobThrows
  <2>2. /\ stage[c] = "alloc" /\ UNCHANGED <<pc, job, queue, step, task>>
        /\ stage' = [stage EXCEPT ![c] = "idle"]
    BY <1>2 DEF GetFreeJobThrows, tpVars
  <2>3. \A d \in Client : ClientTask(d)' = ClientTask(d)
    BY <2>2 DEF TInv, TypeOK, ClientTask
  <2>4. InPort' = InPort /\ \A w \in Thread : WorkerTask(w)' = WorkerTask(w)
    BY <2>2 DEF InPort, TP!Queued, WorkerTask
  <2>5. NullTask \notin (created + 1)..created'
    BY HeldAreMade, XEMySqlAssumption DEF NullTask
  <2>6. Placed' = Placed \cup (created + 1)..created'
    BY <2>1, <2>3, <2>4, <2>5 DEF Placed, Held
  <2> QED
    BY <2>1, <2>4, <2>6, Moved
<1> QED
  BY <1>1, <1>2

LEMMA PostPlaces ==
  ASSUME IInv, IInv', NEW c \in Client, Post(c)
  PROVE  /\ \A w \in Thread : WorkerTask(w)' = WorkerTask(w)
         /\ TP!Accepted(seen[c]) => InPort' = InPort \cup {task[c]} /\ Leaked' = Leaked
         /\ ~TP!Accepted(seen[c]) =>
              InPort' = InPort /\ Leaked' = Leaked \cup ({task[c]} \ {NullTask})
<1> USE DEF IInv
<1>1. /\ stage[c] = "post" /\ stage' = [stage EXCEPT ![c] = "idle"]
      /\ UNCHANGED <<m_FreeList, created, pc, job, step>>
      /\ queue' = IF TP!Accepted(seen[c]) THEN Append(queue, task[c]) ELSE queue
      /\ task' = [task EXCEPT ![c] = NullTask]
  BY DEF Post, TP!ProcessJob, TP!workerVars, tkVars
<1>2. /\ ClientTask(c) = task[c] /\ ClientTask(c)' = NullTask
      /\ \A d \in Client \ {c} : ClientTask(d)' = ClientTask(d)
      /\ \A w \in Thread : WorkerTask(w)' = WorkerTask(w)
  BY <1>1 DEF TInv, TypeOK, ClientTask, WorkerTask
<1> DEFINE Packet == (0..MaxTasks) \cup {EXIT}
<1>3. task[c] \in 0..MaxTasks /\ queue \in Seq(Packet)
  <2>1. task[c] \in 0..MaxTasks
    BY <1>2, HeldAreMade, XEMySqlAssumption
  <2> QED
    BY <2>1 DEF TInv, TypeOK, TP!TypeOK
<1>4. task[c] \in Packet /\ task[c] # EXIT
  BY <1>3, XEMySqlAssumption
<1> HIDE DEF Packet
<1>5. InPort' = ToSet(queue') \ {EXIT}
  BY DEF InPort, TP!Queued, ToSet
<1>6. {ClientTask(d) : d \in Client} \cup {NullTask}
        = {ClientTask(d)' : d \in Client} \cup {task[c], NullTask}
  BY <1>2
<1>7. {WorkerTask(w)' : w \in Thread} = {WorkerTask(w) : w \in Thread}
  BY <1>2
<1>8. CASE TP!Accepted(seen[c])
  <2>1. ToSet(queue') = ToSet(queue) \cup {task[c]}
    BY <1>1, <1>3, <1>4, <1>8, AppendSet
  <2>2. InPort' = InPort \cup {task[c]}
    BY <1>4, <1>5, <2>1, PortIs
  <2>3. Placed' = Placed
    BY <1>1, <1>6, <1>7, <2>2 DEF Placed, Held
  <2> QED
    BY <1>1, <1>2, <1>8, <2>2, <2>3, MovedOnly
<1>9. CASE ~TP!Accepted(seen[c])
  <2> DEFINE S == {task[c]} \ {NullTask}
  <2>1. InPort' = InPort
    BY <1>1, <1>5, <1>9, PortIs
  <2>2. S \cap ({ClientTask(d)' : d \in Client} \cup {WorkerTask(w) : w \in Thread}
                 \cup InPort \cup ToSet(m_FreeList)) = {}
    BY <1>2 DEF TaskHasOneHolder
  <2>3. Placed' = Placed \ S /\ S \subseteq Placed
    BY <1>1, <1>6, <1>7, <2>1, <2>2 DEF Placed, Held
  <2> QED
    BY <1>1, <1>2, <1>9, <2>1, <2>3, MovedOut
<1> QED
  BY <1>8, <1>9

LEMMA IdlePlaces ==
  ASSUME IInv, IInv', NEW w \in Thread, WorkerIdle(w)
  PROVE  /\ \A v \in Thread \ {w} : WorkerTask(v)' = WorkerTask(v)
         /\ WorkerTask(w) = NullTask /\ step[w] = "query" /\ step' = step
         /\ InPort \cup {NullTask} = InPort' \cup {WorkerTask(w)', NullTask}
         /\ Leaked' = Leaked
<1> USE DEF IInv
<1>1. /\ UNCHANGED <<stage, task, step, m_FreeList, created>> /\ isOpen' = isOpen
      /\ pc[w] # "busy" /\ \E p \in {"wait", "remove", "exited", "busy"} :
           pc' = [pc EXCEPT ![w] = p]
      /\ job' = job \/ job' = [job EXCEPT ![w] = Head(queue)]
  BY IdleEffect DEF tkVars, clientVars
<1>2. \/ queue' = queue /\ pc'[w] # "busy"
      \/ /\ queue' = Tail(queue) /\ queue # <<>>
         /\ \/ Head(queue) = EXIT /\ pc'[w] # "busy"
            \/ Head(queue) # EXIT /\ pc'[w] = "busy" /\ job'[w] = Head(queue)
  BY DEF WorkerIdle, TP!GetPort, TP!Take, TP!PortGone, TP!RemoveThread, TP!portVars,
         TInv, TypeOK, TP!TypeOK
<1>3. step[w] = "query"
  BY <1>1 DEF TInv, WorkerOK, TypeOK
<1>4. /\ \A c \in Client : ClientTask(c)' = ClientTask(c)
      /\ \A v \in Thread \ {w} : WorkerTask(v)' = WorkerTask(v)
      /\ WorkerTask(w) = NullTask
      /\ WorkerTask(w)' = IF pc'[w] = "busy" THEN job'[w] ELSE NullTask
  BY <1>1, <1>3 DEF TInv, TypeOK, TP!TypeOK, ClientTask, WorkerTask
<1> DEFINE Packet == (0..MaxTasks) \cup {EXIT}
<1>5. queue \in Seq(Packet) /\ Once(queue, {})
  BY DEF TInv, TypeOK, TP!TypeOK, Once
<1> HIDE DEF Packet
<1>6. queue # <<>> => ToSet(queue) = ToSet(Tail(queue)) \cup {Head(queue)}
  BY <1>5, TailOnce
<1>7. InPort' = ToSet(queue') \ {EXIT}
  BY DEF InPort, TP!Queued, ToSet
<1>8. NullTask # EXIT
  BY XEMySqlAssumption DEF NullTask
<1>9. InPort \cup {NullTask} = InPort' \cup {WorkerTask(w)', NullTask}
  BY <1>2, <1>4, <1>6, <1>7, <1>8, PortIs
<1>10. {WorkerTask(v)' : v \in Thread} \cup {NullTask}
         = {WorkerTask(v) : v \in Thread} \cup {WorkerTask(w)', NullTask}
  BY <1>4
<1>11. {ClientTask(d)' : d \in Client} = {ClientTask(d) : d \in Client}
  BY <1>4
<1>12. Placed' = Placed
  BY <1>1, <1>9, <1>10, <1>11 DEF Placed, Held
<1> QED
  BY <1>1, <1>3, <1>4, <1>9, <1>12, MovedOnly

LEMMA FreePlaces ==
  ASSUME IInv, IInv', NEW w \in Thread, ReleaseFree(w)
  PROVE  /\ \A v \in Thread \ {w} : WorkerTask(v)' = WorkerTask(v)
         /\ step[w] = "free" /\ step' = [step EXCEPT ![w] = "return"]
         /\ WorkerTask(w)' = NullTask
         /\ InPort' = InPort /\ Leaked' = Leaked
<1> USE DEF IInv
<1>1. /\ step[w] = "free" /\ step' = [step EXCEPT ![w] = "return"]
      /\ UNCHANGED <<created, pc, job, queue, stage, task>>
  BY DEF ReleaseFree, TK!PoolFree, tpVars, clientVars
<1>2. ToSet(m_FreeList') = ToSet(m_FreeList) \cup {WorkerTask(w)}
  BY <1>1, ReleaseFreeTInv, TaskOfWorker
<1>3. /\ \A v \in Thread \ {w} : WorkerTask(v)' = WorkerTask(v)
      /\ WorkerTask(w)' = NullTask
      /\ \A c \in Client : ClientTask(c)' = ClientTask(c)
      /\ InPort' = InPort
  BY <1>1 DEF TInv, TypeOK, WorkerTask, ClientTask, InPort, TP!Queued
<1>4. {WorkerTask(v) : v \in Thread} \cup {NullTask}
         = {WorkerTask(v)' : v \in Thread} \cup {WorkerTask(w), NullTask}
  BY <1>3
<1>5. {ClientTask(d)' : d \in Client} = {ClientTask(d) : d \in Client}
  BY <1>3
<1>6. Placed' = Placed
  BY <1>2, <1>3, <1>4, <1>5 DEF Placed, Held
<1> QED
  BY <1>1, <1>3, <1>6, MovedOnly

LEMMA OwnerPlaces ==
  ASSUME IInv, IInv', Owner
  PROVE  /\ \A w \in Thread : WorkerTask(w)' = WorkerTask(w)
         /\ UNCHANGED <<tkVars, cnVars, clientVars, step, served>>
         /\ \/ InPort' = InPort /\ Leaked' = Leaked
            \/ queue' = <<>> /\ InPort' = {} /\ Leaked' = Leaked \cup (InPort \ {NullTask})
<1> USE DEF IInv
<1>1. /\ UNCHANGED <<tkVars, cnVars, clientVars, step, served>>
      /\ UNCHANGED <<stage, task, step, m_FreeList, created>> /\ job' = job
      /\ \A w \in Thread : pc'[w] = "busy" <=> pc[w] = "busy"
  BY OwnerEffect DEF tkVars, clientVars
<1>2. queue' = queue \/ queue' = Append(queue, EXIT) \/ queue' = <<>>
  BY OwnerEffect
<1>3. /\ \A c \in Client : ClientTask(c)' = ClientTask(c)
      /\ \A w \in Thread : WorkerTask(w)' = WorkerTask(w)
  BY <1>1 DEF ClientTask, WorkerTask
<1> DEFINE Packet == (0..MaxTasks) \cup {EXIT}
<1>4. queue \in Seq(Packet) /\ EXIT \in Packet
  BY DEF TInv, TypeOK, TP!TypeOK
<1> HIDE DEF Packet
<1>5. InPort' = ToSet(queue') \ {EXIT}
  BY DEF InPort, TP!Queued, ToSet
<1>6. InPort' = InPort \/ (queue' = <<>> /\ InPort' = {})
  <2>1. ToSet(Append(queue, EXIT)) = ToSet(queue) \cup {EXIT} /\ ToSet(<<>>) = {}
    BY <1>4, AppendSet, EmptyOnce
  <2> QED
    BY <1>2, <1>5, <2>1, PortIs
<1>7. CASE InPort' = InPort
  <2>1. Placed' = Placed
    BY <1>1, <1>3, <1>7 DEF Placed, Held
  <2> QED
    BY <1>1, <1>3, <1>7, <2>1, MovedOnly
<1>8. CASE queue' = <<>> /\ InPort' = {}
  <2> DEFINE S == InPort \ {NullTask}
  <2>1. S \cap ({ClientTask(d) : d \in Client} \cup {WorkerTask(w) : w \in Thread}
                 \cup ToSet(m_FreeList)) = {}
    BY DEF TaskHasOneHolder
  <2>2. Placed' = Placed \ S /\ S \subseteq Placed
    BY <1>1, <1>3, <1>8, <2>1 DEF Placed, Held
  <2> QED
    BY <1>1, <1>3, <1>8, <2>2, MovedOut
<1> QED
  BY <1>6, <1>7, <1>8

-----------------------------------------------------------------------------
(* What is lost, and when *)

\* No packet is in a port that is not open.
ClosedEmpty == ~isOpen => queue = <<>>

\* What one step loses, as LostOnlyAtClosedPort says.
Loses ==
  Leaked' = Leaked \cup
    (({task[c] : c \in PostsToNobody} \cup (IF isOpen /\ ~isOpen' THEN InPort ELSE {}))
      \ {NullTask})

LEMMA OwnerLoses ==
  ASSUME IInv, IInv', ClosedEmpty, Owner
  PROVE  ClosedEmpty' /\ Loses
<1>1. /\ ClosedEmpty' /\ stage' = stage
      /\ \/ (queue' = queue \/ queue' = Append(queue, EXIT)) /\ ~(isOpen /\ ~isOpen')
         \/ queue' = <<>> /\ isOpen /\ ~isOpen'
  BY DEF Owner, TP!Start, TP!Stop, TP!StartBegin, TP!StartThread, TP!StartEnd, TP!StopBegin,
         TP!StopPost, TP!StopWait, TP!StopClose, TP!portVars, ClosedEmpty, clientVars
<1>2. \/ InPort' = InPort /\ Leaked' = Leaked
      \/ queue' = <<>> /\ InPort' = {} /\ Leaked' = Leaked \cup (InPort \ {NullTask})
  BY OwnerPlaces
<1> DEFINE Packet == (0..MaxTasks) \cup {EXIT}
<1>3. queue \in Seq(Packet) /\ EXIT \in Packet
  BY DEF IInv, TInv, TypeOK, TP!TypeOK
<1> HIDE DEF Packet
<1>4. /\ ToSet(Append(queue, EXIT)) = ToSet(queue) \cup {EXIT} /\ ToSet(<<>>) = {}
      /\ Append(queue, EXIT) # <<>>
  BY <1>3, AppendSet, EmptyOnce
<1>5. InPort' = ToSet(queue') \ {EXIT} /\ InPort = ToSet(queue) \ {EXIT}
  BY PortIs DEF InPort, TP!Queued, ToSet
<1>6. {task[c] : c \in PostsToNobody} = {}
  BY <1>1 DEF PostsToNobody
<1>7. CASE isOpen /\ ~isOpen'
  <2>1. InPort' = {}
    BY <1>1, <1>4, <1>5, <1>7
  <2>2. Leaked' = Leaked \cup (InPort \ {NullTask})
    BY <1>2, <2>1
  <2> QED
    BY <1>1, <1>6, <1>7, <2>2 DEF Loses
<1>8. CASE ~(isOpen /\ ~isOpen')
  <2>1. InPort' = InPort
    BY <1>1, <1>4, <1>5, <1>8
  <2>2. Leaked' = Leaked
    BY <1>2, <2>1
  <2> QED
    BY <1>1, <1>6, <1>8, <2>2 DEF Loses
<1> QED
  BY <1>7, <1>8

LEMMA PostLoses ==
  ASSUME IInv, IInv', ClosedEmpty, NEW c \in Client, Post(c)
  PROVE  ClosedEmpty' /\ Loses
<1>1. /\ ClosedEmpty' /\ isOpen' = isOpen
      /\ stage[c] = "post" /\ stage' = [stage EXCEPT ![c] = "idle"]
  BY DEF Post, TP!ProcessJob, TP!Accepted, ClosedEmpty
<1>2. PostsToNobody = IF TP!Accepted(seen[c]) THEN {} ELSE {c}
  BY <1>1 DEF PostsToNobody, IInv, TInv, TypeOK
<1>3. {task[d] : d \in PostsToNobody} = IF TP!Accepted(seen[c]) THEN {} ELSE {task[c]}
  BY <1>2
<1>4. Leaked' = IF TP!Accepted(seen[c]) THEN Leaked ELSE Leaked \cup ({task[c]} \ {NullTask})
  BY PostPlaces
<1> QED
  BY <1>1, <1>3, <1>4 DEF Loses

LEMMA OthersLose ==
  ASSUME Leaked' = Leaked, isOpen' = isOpen,
         \A c \in Client : stage[c] = "post" => stage'[c] = "post"
  PROVE  Loses
<1>1. {task[c] : c \in PostsToNobody} = {}
  BY DEF PostsToNobody
<1> QED
  BY <1>1 DEF Loses

LEMMA StepLoses ==
  ASSUME IInv, IInv', ClosedEmpty, [Next]_vars
  PROVE  ClosedEmpty' /\ Loses
<1> DEFINE Kept == \A d \in Client : stage[d] = "post" => stage'[d] = "post"
<1>1. CASE UNCHANGED vars
  <2>1. UNCHANGED <<queue, isOpen, m_FreeList, created, stage, task, pc, job, step>>
    BY <1>1 DEF vars, tpVars, tkVars, clientVars
  <2>2. ClosedEmpty' /\ Leaked' = Leaked /\ Kept
    BY <2>1 DEF ClosedEmpty, Leaked, Held, InPort, TP!Queued, ClientTask, WorkerTask
  <2> QED
    BY <2>1, <2>2, OthersLose
<1>2. CASE Owner
  BY <1>2, OwnerLoses
<1>3. ASSUME NEW c \in Client, Post(c) PROVE ClosedEmpty' /\ Loses
  BY <1>3, PostLoses
<1>4. ASSUME NEW c \in Client, GetFreeJob(c) \/ GetFreeJobThrows(c)
      PROVE  ClosedEmpty' /\ Loses
  <2>1. ClosedEmpty' /\ isOpen' = isOpen /\ Kept
    BY <1>4 DEF GetFreeJob, GetFreeJobThrows, ClosedEmpty, tpVars, IInv, TInv, TypeOK
  <2> QED
    BY <1>4, <2>1, AllocPlaces, OthersLose
<1>5. ASSUME NEW w \in Thread, ReleaseFree(w) PROVE ClosedEmpty' /\ Loses
  <2>1. ClosedEmpty' /\ isOpen' = isOpen /\ Kept
    BY <1>5 DEF ReleaseFree, ClosedEmpty, tpVars, clientVars
  <2> QED
    BY <1>5, <2>1, FreePlaces, OthersLose
<1>6. ASSUME NEW w \in Thread, WorkerIdle(w) PROVE ClosedEmpty' /\ Loses
  <2>1. ClosedEmpty' /\ isOpen' = isOpen /\ Kept
    BY <1>6 DEF WorkerIdle, TP!GetPort, TP!Take, TP!PortGone, TP!RemoveThread, TP!Accepted,
                TP!portVars, ClosedEmpty, clientVars
  <2> QED
    BY <1>6, <2>1, IdlePlaces, OthersLose
<1>7. ASSUME NEW c \in Client,
             \/ FillJob(c) \/ ClientStep(c) \/ ClientReturns(c)
             \/ \E q \in Query : ExecuteQueryNoRet(c, q) \/ ClientQuery(c, q)
      PROVE  ClosedEmpty' /\ Loses
  <2>1. Kept
    BY <1>7 DEF FillJob, ClientStep, ClientReturns, ExecuteQueryNoRet, ClientQuery, Issue,
                IInv, TInv, TypeOK
  <2>2. ClosedEmpty' /\ isOpen' = isOpen /\ Leaked' = Leaked
    BY <1>7, QuietPlaces, SamePlaces DEF ClosedEmpty
  <2> QED
    BY <2>1, <2>2, OthersLose
<1>8. ASSUME NEW w \in Thread,
             ProcessTask(w) \/ WorkerStep(w) \/ ReleaseInit(w) \/ ProcessTaskReturns(w)
      PROVE  ClosedEmpty' /\ Loses
  <2>1. Kept
    BY <1>8 DEF ProcessTask, WorkerStep, ReleaseInit, ProcessTaskReturns, clientVars
  <2>2. ClosedEmpty' /\ isOpen' = isOpen /\ Leaked' = Leaked
    BY <1>8, QuietPlaces, SamePlaces DEF ClosedEmpty
  <2> QED
    BY <2>1, <2>2, OthersLose
<1> QED
  BY <1>1, <1>2, <1>3, <1>4, <1>5, <1>6, <1>7, <1>8 DEF Next, ClientNext, WorkerNext

\* A query's task is lost only by its own post to a port that is not the open
\* one or by the close of the port, for any number of Starts and Stops.
THEOREM LostOnlyThen == Spec => LostOnlyAtClosedPort
<1>1. Init => ClosedEmpty
  BY DEF Init, TP!Init, ClosedEmpty
<1>2. IInv /\ IInv' /\ ClosedEmpty /\ [Next]_vars => ClosedEmpty'
  BY StepLoses
<1>3. IInv /\ IInv' /\ ClosedEmpty /\ [Next]_vars => [Loses]_vars
  BY StepLoses
<1>4. [][Loses]_vars => LostOnlyAtClosedPort
  BY DEF Loses, LostOnlyAtClosedPort
<1> QED
  BY <1>1, <1>2, <1>3, <1>4, Inductive, PTL DEF Spec

-----------------------------------------------------------------------------
(* Where each submitted query is *)

\* The clients that have a query in a call, the tasks that carry one towards
\* its execution, and all that carry one.
Asking == {c \in Client : stage[c] # "idle" /\ cmd[c] # NullQuery}
AtWork == {t \in Task : \E w \in Thread : WorkerTask(w) = t /\ step[w] # "free"}
Running == (InPort \ {NullTask}) \cup AtWork
Carrying == Running \cup Leaked

-----------------------------------------------------------------------------
(* Each query with one bearer *)

\* Each submitted query that is not at its end is with one client or on one task.
Bearers ==
  /\ \A c, d \in Asking : cmd[c] = cmd[d] => c = d
  /\ \A s, t \in Carrying : wanted[s] = wanted[t] => s = t
  /\ \A c \in Asking, t \in Carrying : wanted[t] # cmd[c]
  /\ \A c \in Asking : cmd[c] \in issued \cap Text
  /\ \A t \in Carrying : wanted[t] \in issued \cap Text

\* The clients A ask after a step, R run and L are leaked, each with the
\* query it had before.
Keep(A, R, L) ==
  /\ Asking' = A /\ Running' = R /\ Leaked' = L
  /\ \A c \in A \cap Asking : cmd'[c] = cmd[c]
  /\ \A t \in (R \cup L) \cap Carrying : wanted'[t] = wanted[t]

\* The steps, as the queries see them.
Stays == Keep(Asking, Running, Leaked) /\ issued' \cap Text = issued \cap Text

Starts(c, q) ==
  /\ c \notin Asking /\ q \in Text \ issued
  /\ Keep(Asking \cup {c}, Running, Leaked)
  /\ cmd'[c] = q /\ issued' = issued \cup {q}

Ends(c) == c \in Asking /\ Keep(Asking \ {c}, Running, Leaked) /\ issued' = issued

Passes(c, t, R, L) ==
  /\ c \in Asking /\ t \notin Carrying /\ wanted'[t] = cmd[c]
  /\ Keep(Asking \ {c}, R, L) /\ issued' = issued

HandsOver(c, t) == Passes(c, t, Running \cup {t}, Leaked)

Drops(c, t) == Passes(c, t, Running, Leaked \cup {t})

Completes(t) ==
  t \in Running /\ t \notin Leaked /\ Keep(Asking, Running \ {t}, Leaked) /\ issued' = issued

Discards(S) ==
  /\ S \subseteq Running /\ Keep(Asking, Running \ S, Leaked \cup S) /\ issued' = issued

\* The status, by what bears the query.
Accepted(q) ==
  (\E c \in Asking : cmd[c] = q) \/ (\E t \in Running : wanted[t] = q)

LEMMA AtWorkIs ==
  ASSUME TInv
  PROVE  \A t : t \in AtWork <=> /\ t # NullTask
                                 /\ \E w \in Thread : WorkerTask(w) = t /\ step[w] # "free"
<1>1. \A w \in Thread : WorkerTask(w) # NullTask => WorkerTask(w) \in Task
  BY HeldAreMade, XEMySqlAssumption DEF Task, NullTask
<1> QED
  BY <1>1 DEF AtWork, Task, NullTask

LEMMA StatusIs ==
  ASSUME IInv
  PROVE  StatusOf = [q \in Text |->
           IF q \notin issued THEN "unsent"
           ELSE IF Accepted(q) THEN "accepted"
           ELSE IF \E t \in Leaked : wanted[t] = q THEN "lost"
           ELSE "finished"]
<1>1. ASSUME NEW q \in Text PROVE InProgress(q) <=> Accepted(q)
  <2>1. (\E c \in Client : cmd[c] = q /\ stage[c] # "idle") <=> (\E c \in Asking : cmd[c] = q)
    BY XEMySqlAssumption DEF Asking
  <2>2. (\/ \E t \in InPort \ {NullTask} : wanted[t] = q
         \/ \E w \in Thread : /\ WorkerTask(w) # NullTask /\ wanted[WorkerTask(w)] = q
                              /\ step[w] # "free")
        <=> (\E t \in Running : wanted[t] = q)
    BY AtWorkIs DEF IInv, Running
  <2> QED
    BY <2>1, <2>2 DEF InProgress, Accepted
<1> QED
  BY <1>1 DEF StatusOf

LEMMA StatusIsNext ==
  ASSUME IInv'
  PROVE  StatusOf' = [q \in Text |->
           IF q \notin issued' THEN "unsent"
           ELSE IF Accepted(q)' THEN "accepted"
           ELSE IF \E t \in Leaked' : wanted'[t] = q THEN "lost"
           ELSE "finished"]
<1>1. (IInv => StatusOf = [q \in Text |->
           IF q \notin issued THEN "unsent"
           ELSE IF Accepted(q) THEN "accepted"
           ELSE IF \E t \in Leaked : wanted[t] = q THEN "lost"
           ELSE "finished"])'
  BY StatusIs, PTL
<1> QED
  BY <1>1

LEMMA StaysStatus ==
  ASSUME IInv, IInv', Bearers, Stays PROVE Bearers' /\ StatusOf' = StatusOf
<1>1. Carrying' = Carrying
  BY DEF Stays, Keep, Carrying
<1>2. Bearers'
  BY <1>1 DEF Bearers, Stays, Keep, Carrying
<1>3. ASSUME NEW q \in Text
      PROVE  /\ Accepted(q)' <=> Accepted(q)
             /\ (\E t \in Leaked' : wanted'[t] = q) <=> \E t \in Leaked : wanted[t] = q
             /\ q \in issued' <=> q \in issued
  BY DEF Stays, Keep, Carrying, Accepted
<1> QED
  BY <1>2, <1>3, StatusIs, StatusIsNext

LEMMA StartsStatus ==
  ASSUME IInv, IInv', Bearers, NEW c, NEW q, Starts(c, q)
  PROVE  /\ Bearers' /\ StatusOf[q] = "unsent"
         /\ StatusOf' = [StatusOf EXCEPT ![q] = "accepted"]
<1>1. Carrying' = Carrying /\ q \in Text /\ q \notin issued
  BY DEF Starts, Keep, Carrying
<1>2. Bearers'
  BY <1>1 DEF Bearers, Starts, Keep, Carrying
<1>3. ASSUME NEW p \in Text, p # q
      PROVE  /\ Accepted(p)' <=> Accepted(p)
             /\ (\E t \in Leaked' : wanted'[t] = p) <=> \E t \in Leaked : wanted[t] = p
             /\ p \in issued' <=> p \in issued
  BY <1>3 DEF Starts, Keep, Carrying, Accepted
<1>4. Accepted(q)' /\ q \in issued'
  BY DEF Starts, Keep, Accepted
<1> QED
  BY <1>1, <1>2, <1>3, <1>4, StatusIs, StatusIsNext

\* The query of a call that ends has no other bearer.
LEMMA EndsStatus ==
  ASSUME IInv, IInv', Bearers, NEW c, NEW q, q = cmd[c], Ends(c)
  PROVE  /\ Bearers' /\ q \in Text /\ StatusOf[q] = "accepted"
         /\ StatusOf' = [StatusOf EXCEPT ![q] = "finished"]
<1>1. Carrying' = Carrying /\ q \in Text /\ q \in issued /\ c \in Asking /\ issued' = issued
  BY DEF Ends, Keep, Carrying, Bearers
<1>2. Bearers'
  BY <1>1 DEF Bearers, Ends, Keep, Carrying
<1>3. ASSUME NEW p \in Text, p # q
      PROVE  /\ Accepted(p)' <=> Accepted(p)
             /\ (\E t \in Leaked' : wanted'[t] = p) <=> \E t \in Leaked : wanted[t] = p
  BY <1>3 DEF Ends, Keep, Carrying, Accepted
<1>4. Accepted(q)
  BY <1>1 DEF Accepted
<1>5. ~Accepted(q)' /\ ~\E t \in Leaked' : wanted'[t] = q
  BY <1>1 DEF Ends, Keep, Carrying, Accepted, Bearers
<1> QED
  BY <1>1, <1>2, <1>3, <1>4, <1>5, StatusIs, StatusIsNext

\* A client's query goes over to its task, which is new among those that carry.
LEMMA PassesBearers ==
  ASSUME IInv, IInv', Bearers, NEW c, NEW t, NEW R, NEW L, Passes(c, t, R, L),
         R \cup L = Carrying \cup {t}
  PROVE  Bearers'
<1>1. /\ Carrying' = Carrying \cup {t} /\ t \notin Carrying /\ c \in Asking
      /\ Asking' = Asking \ {c} /\ wanted'[t] = cmd[c] /\ issued' = issued
      /\ \A d \in Asking \ {c} : cmd'[d] = cmd[d]
      /\ \A s \in Carrying : wanted'[s] = wanted[s]
  BY DEF Passes, Keep, Carrying
<1> QED
  BY <1>1 DEF Bearers

LEMMA HandsOverStatus ==
  ASSUME IInv, IInv', Bearers, NEW c, NEW t, HandsOver(c, t)
  PROVE  Bearers' /\ StatusOf' = StatusOf
<1>1. Bearers'
  <2>1. Passes(c, t, Running \cup {t}, Leaked)
    BY DEF HandsOver
  <2>2. (Running \cup {t}) \cup Leaked = Carrying \cup {t}
    BY DEF Carrying
  <2> QED
    BY <2>1, <2>2, PassesBearers
<1>2. ASSUME NEW q \in Text
      PROVE  /\ Accepted(q)' <=> Accepted(q)
             /\ (\E s \in Leaked' : wanted'[s] = q) <=> \E s \in Leaked : wanted[s] = q
             /\ q \in issued' <=> q \in issued
  <2>1. /\ Running' = Running \cup {t} /\ Leaked' = Leaked /\ c \in Asking
        /\ Asking' = Asking \ {c} /\ wanted'[t] = cmd[c] /\ issued' = issued
        /\ \A d \in Asking \ {c} : cmd'[d] = cmd[d]
        /\ t \notin Carrying /\ \A s \in Carrying : wanted'[s] = wanted[s]
    BY DEF HandsOver, Passes, Keep, Carrying
  <2> QED
    BY <2>1 DEF Accepted, Carrying
<1> QED
  BY <1>1, <1>2, StatusIs, StatusIsNext

LEMMA DropsStatus ==
  ASSUME IInv, IInv', Bearers, NEW c, NEW t, NEW q, q = cmd[c], Drops(c, t)
  PROVE  /\ Bearers' /\ q \in Text /\ StatusOf[q] = "accepted"
         /\ StatusOf' = [p \in Text |-> IF p \in {q} THEN "lost" ELSE StatusOf[p]]
<1>1. Bearers' /\ q \in Text /\ q \in issued
  <2>1. Passes(c, t, Running, Leaked \cup {t})
    BY DEF Drops
  <2>2. Running \cup (Leaked \cup {t}) = Carrying \cup {t}
    BY DEF Carrying
  <2>3. Bearers'
    BY <2>1, <2>2, PassesBearers
  <2>4. c \in Asking
    BY <2>1 DEF Passes
  <2> QED
    BY <2>3, <2>4 DEF Bearers
<1>2. /\ Running' = Running /\ Leaked' = Leaked \cup {t} /\ c \in Asking
      /\ Asking' = Asking \ {c} /\ wanted'[t] = q /\ issued' = issued
      /\ \A d \in Asking \ {c} : cmd'[d] = cmd[d]
      /\ t \notin Carrying /\ \A s \in Carrying : wanted'[s] = wanted[s]
  BY DEF Drops, Passes, Keep, Carrying
<1>3. ASSUME NEW p \in Text, p # q
      PROVE  /\ Accepted(p)' <=> Accepted(p)
             /\ (\E s \in Leaked' : wanted'[s] = p) <=> \E s \in Leaked : wanted[s] = p
  BY <1>2, <1>3 DEF Accepted, Carrying
<1>4. Accepted(q) /\ ~Accepted(q)' /\ \E s \in Leaked' : wanted'[s] = q
  BY <1>1, <1>2 DEF Accepted, Carrying, Bearers
<1> QED
  BY <1>1, <1>2, <1>3, <1>4, StatusIs, StatusIsNext

LEMMA CompletesStatus ==
  ASSUME IInv, IInv', Bearers, NEW t, NEW q, q = wanted[t], Completes(t)
  PROVE  /\ Bearers' /\ q \in Text /\ StatusOf[q] = "accepted"
         /\ StatusOf' = [StatusOf EXCEPT ![q] = "finished"]
<1>1. /\ t \in Running /\ t \notin Leaked /\ Asking' = Asking /\ issued' = issued
      /\ Running' = Running \ {t} /\ Leaked' = Leaked
      /\ \A c \in Asking : cmd'[c] = cmd[c]
      /\ \A s \in Carrying \ {t} : wanted'[s] = wanted[s]
  BY DEF Completes, Keep, Carrying
<1>2. q \in Text /\ q \in issued
  BY <1>1 DEF Bearers, Carrying
<1>3. Bearers'
  BY <1>1 DEF Bearers, Carrying
<1>4. ASSUME NEW p \in Text, p # q
      PROVE  /\ Accepted(p)' <=> Accepted(p)
             /\ (\E s \in Leaked' : wanted'[s] = p) <=> \E s \in Leaked : wanted[s] = p
  BY <1>1, <1>4 DEF Accepted, Carrying
<1>5. Accepted(q)
  BY <1>1 DEF Accepted
<1>6. ~Accepted(q)' /\ ~\E s \in Leaked' : wanted'[s] = q
  BY <1>1 DEF Accepted, Carrying, Bearers
<1> QED
  BY <1>1, <1>2, <1>3, <1>4, <1>5, <1>6, StatusIs, StatusIsNext

LEMMA DiscardsStatus ==
  ASSUME IInv, IInv', Bearers, NEW S, NEW Q, Discards(S), S \cap Leaked = {},
         \A q : q \in Q <=> \E t \in S : wanted[t] = q
  PROVE  /\ Bearers' /\ Q \subseteq Text /\ \A q \in Q : StatusOf[q] = "accepted"
         /\ StatusOf' = [p \in Text |-> IF p \in Q THEN "lost" ELSE StatusOf[p]]
<1>1. /\ S \subseteq Running /\ Asking' = Asking /\ issued' = issued
      /\ Running' = Running \ S /\ Leaked' = Leaked \cup S
      /\ \A c \in Asking : cmd'[c] = cmd[c]
      /\ \A s \in Carrying : wanted'[s] = wanted[s]
  BY DEF Discards, Keep, Carrying
<1>2. Q \subseteq issued \cap Text
  BY <1>1 DEF Bearers, Carrying
<1>3. Carrying' = Carrying
  BY <1>1 DEF Carrying
<1>4. Bearers'
  BY <1>1, <1>3 DEF Bearers
<1>5. ASSUME NEW p \in Text, p \notin Q
      PROVE  /\ Accepted(p)' <=> Accepted(p)
             /\ (\E s \in Leaked' : wanted'[s] = p) <=> \E s \in Leaked : wanted[s] = p
  BY <1>1, <1>5 DEF Accepted, Carrying
<1>6. ASSUME NEW p \in Q
      PROVE  Accepted(p) /\ ~Accepted(p)' /\ \E s \in Leaked' : wanted'[s] = p
  <2>1. PICK t \in S : wanted[t] = p
    OBVIOUS
  <2>2. Accepted(p) /\ \E s \in Leaked' : wanted'[s] = p
    BY <1>1, <2>1 DEF Accepted, Carrying
  <2>3. ~Accepted(p)'
    BY <1>1, <2>1 DEF Accepted, Carrying, Bearers
  <2> QED
    BY <2>2, <2>3
<1>7. \A q \in Q : StatusOf[q] = "accepted"
  BY <1>2, <1>6, StatusIs
<1> QED
  BY <1>1, <1>2, <1>4, <1>5, <1>6, <1>7, StatusIs, StatusIsNext

-----------------------------------------------------------------------------
(* How each step moves the queries *)

LEMMA SameRunning ==
  ASSUME InPort' = InPort,
         \A w \in Thread : WorkerTask(w)' = WorkerTask(w) /\ (step'[w] = "free" <=> step[w] = "free")
  PROVE  Running' = Running
<1>1. AtWork' = AtWork
  BY DEF AtWork
<1> QED
  BY <1>1 DEF Running

\* The task of a client has no query under way.
LEMMA ClientTaskApart ==
  ASSUME IInv, NEW c \in Client, stage[c] \in {"fill", "post"}, task[c] # NullTask
  PROVE  task[c] \in Task /\ task[c] \notin Carrying
<1> USE DEF IInv
<1>1. ClientTask(c) = task[c]
  BY DEF ClientTask
<1>2. task[c] \in 0..created /\ created \in 0..MaxTasks
  BY <1>1, HeldAreMade
<1>3. task[c] \in Task
  BY <1>2, XEMySqlAssumption DEF Task, NullTask
<1>4. task[c] \notin Leaked
  BY <1>1 DEF Leaked, Held
<1>5. task[c] \notin InPort /\ \A w \in Thread : WorkerTask(w) # task[c]
  BY <1>1 DEF TaskHasOneHolder
<1> QED
  BY <1>3, <1>4, <1>5 DEF Carrying, Running, AtWork

LEMMA QuietClientMoves ==
  ASSUME IInv, IInv', NEW c \in Client,
         FillJob(c) \/ ClientStep(c) \/ ClientReturns(c)
  PROVE  /\ FillJob(c) \/ ClientStep(c) => Stays
         /\ ClientReturns(c) => Ends(c)
<1> USE DEF IInv
<1>1. /\ UNCHANGED <<queue, m_FreeList, created>>
      /\ \A d \in Client : ClientTask(d)' = ClientTask(d)
      /\ \A w \in Thread : WorkerTask(w)' = WorkerTask(w)
  BY QuietPlaces
<1>2. InPort' = InPort /\ Leaked' = Leaked
  BY <1>1, SamePlaces
<1>3. step' = step /\ issued' = issued
  BY DEF FillJob, ClientStep, QueryStep, ClientReturns
<1>4. Running' = Running
  BY <1>1, <1>2, <1>3, SameRunning
<1>5. CASE FillJob(c)
  <2>1. /\ stage[c] = "fill" /\ stage' = [stage EXCEPT ![c] = "post"] /\ cmd' = cmd
        /\ wanted' = [wanted EXCEPT ![task[c]] = cmd[c]]
    BY <1>5 DEF FillJob, TK!CopyQuery
  <2>2. Asking' = Asking
    BY <2>1 DEF TInv, TypeOK, Asking
  <2>3. task[c] # NullTask
    BY <2>1, HeldAreMade, XEMySqlAssumption DEF TInv, ClientOK, NullTask
  <2>4. \A t \in Carrying : wanted'[t] = wanted[t]
    BY <2>1, <2>3, ClientTaskApart
  <2> QED
    BY <1>2, <1>3, <1>4, <1>5, <2>1, <2>2, <2>4 DEF Stays, Keep, ClientReturns
<1>6. CASE ClientStep(c)
  <2>1. UNCHANGED <<stage, cmd, wanted>> /\ stage[c] = "query" /\ phase[c] # "idle"
    BY <1>6, QueryStepTypes DEF ClientStep, QueryStep, tkVars, TInv
  <2>2. Asking' = Asking
    BY <2>1 DEF Asking
  <2> QED
    BY <1>2, <1>3, <1>4, <1>6, <2>1, <2>2 DEF Stays, Keep, ClientReturns
<1>7. CASE ClientReturns(c)
  <2>1. /\ stage[c] = "query" /\ stage' = [stage EXCEPT ![c] = "idle"] /\ wanted' = wanted
        /\ cmd' = [cmd EXCEPT ![c] = NullQuery] /\ phase[c] = "idle"
    BY <1>7 DEF ClientReturns, tkVars
  <2>2. c \in Asking /\ ~FillJob(c) /\ ~ClientStep(c)
    BY <2>1, QueryStepTypes, XEMySqlAssumption
       DEF TInv, ClientOK, Asking, FillJob, ClientStep
  <2>3. Asking' = Asking \ {c} /\ \A d \in Asking \ {c} : cmd'[d] = cmd[d]
    BY <2>1 DEF TInv, TypeOK, Asking
  <2> QED
    BY <1>2, <1>3, <1>4, <1>7, <2>1, <2>2, <2>3 DEF Ends, Keep
<1> QED
  BY <1>5, <1>6, <1>7

\* A NULL query is in nobody's hands.
LEMMA SubmitMoves ==
  ASSUME IInv, IInv', NEW c \in Client, NEW q \in Query,
         ExecuteQueryNoRet(c, q) \/ ClientQuery(c, q)
  PROVE  (q = NullQuery => Stays) /\ (q # NullQuery => Starts(c, q))
<1> USE DEF IInv
<1>1. /\ UNCHANGED <<queue, m_FreeList, created>>
      /\ \A d \in Client : ClientTask(d)' = ClientTask(d)
      /\ \A w \in Thread : WorkerTask(w)' = WorkerTask(w)
  BY QuietPlaces
<1>2. InPort' = InPort /\ Leaked' = Leaked
  BY <1>1, SamePlaces
<1>3. /\ step' = step /\ wanted' = wanted
      /\ stage[c] = "idle" /\ q \notin issued /\ issued' = issued \cup {q}
      /\ cmd' = [cmd EXCEPT ![c] = q]
      /\ \E x \in {"alloc", "post", "query"} : stage' = [stage EXCEPT ![c] = x]
  BY DEF ExecuteQueryNoRet, ClientQuery, Issue, tkVars
<1>4. Running' = Running
  BY <1>1, <1>2, <1>3, SameRunning
<1>5. c \notin Asking /\ Asking' = IF q = NullQuery THEN Asking ELSE Asking \cup {c}
  BY <1>3 DEF TInv, TypeOK, Asking
<1>6. \A d \in Asking : cmd'[d] = cmd[d]
  BY <1>3, <1>5 DEF TInv, TypeOK
<1>7. cmd'[c] = q
  BY <1>3 DEF TInv, TypeOK
<1>8. CASE q = NullQuery
  BY <1>2, <1>3, <1>4, <1>5, <1>6, <1>8, XEMySqlAssumption DEF Stays, Keep
<1>9. CASE q # NullQuery
  BY <1>2, <1>3, <1>4, <1>5, <1>6, <1>7, <1>9 DEF Starts, Keep, Query
<1> QED
  BY <1>8, <1>9

LEMMA AllocMoves ==
  ASSUME IInv, IInv', NEW c \in Client, GetFreeJob(c) \/ GetFreeJobThrows(c)
  PROVE  (GetFreeJob(c) /\ Stays) \/ Ends(c)
<1> USE DEF IInv
<1>1. /\ InPort' = InPort /\ Leaked' = Leaked
      /\ \A w \in Thread : WorkerTask(w)' = WorkerTask(w)
  BY AllocPlaces
<1>2. step' = step /\ issued' = issued /\ wanted' = wanted
  BY DEF GetFreeJob, GetFreeJobThrows
<1>3. Running' = Running
  BY <1>1, <1>2, SameRunning
<1>4. CASE GetFreeJob(c)
  <2>1. stage[c] = "alloc" /\ stage' = [stage EXCEPT ![c] = "fill"] /\ cmd' = cmd
    BY <1>4 DEF GetFreeJob
  <2>2. Asking' = Asking
    BY <2>1 DEF TInv, TypeOK, Asking
  <2> QED
    BY <1>1, <1>2, <1>3, <1>4, <2>1, <2>2 DEF Stays, Keep
<1>5. CASE GetFreeJobThrows(c)
  <2>1. /\ stage[c] = "alloc" /\ stage' = [stage EXCEPT ![c] = "idle"]
        /\ cmd' = [cmd EXCEPT ![c] = NullQuery]
    BY <1>5 DEF GetFreeJobThrows
  <2>2. c \in Asking
    BY <2>1, XEMySqlAssumption DEF TInv, ClientOK, Asking
  <2>3. Asking' = Asking \ {c} /\ \A d \in Asking \ {c} : cmd'[d] = cmd[d]
    BY <2>1 DEF TInv, TypeOK, Asking
  <2> QED
    BY <1>1, <1>2, <1>3, <2>2, <2>3 DEF Ends, Keep
<1> QED
  BY <1>4, <1>5

-----------------------------------------------------------------------------
(* What the clients post and the workers read *)

\* A client posts the task it copied its query into, or NULL.
PostOK ==
  \A c \in Client : stage[c] = "post" =>
    IF task[c] = NullTask THEN cmd[c] = NullQuery
    ELSE cmd[c] \in Text /\ wanted[task[c]] = cmd[c]

ReadsBack == wanted \in [Task -> Text \cup {Empty}] /\ TK!FilledReadsBack

LEMMA PostKept == ASSUME IInv, ReadsBack, PostOK, [Next]_vars PROVE PostOK'
<1> USE DEF IInv
<1> SUFFICES ASSUME NEW c \in Client, stage'[c] = "post"
             PROVE  IF task'[c] = NullTask THEN cmd'[c] = NullQuery
                    ELSE cmd'[c] \in Text /\ wanted'[task'[c]] = cmd'[c]
  BY DEF PostOK
<1>1. CASE FillJob(c)
  <2>1. /\ stage[c] = "fill" /\ cmd' = cmd /\ task' = task
        /\ wanted' = [wanted EXCEPT ![task[c]] = cmd[c]]
    BY <1>1 DEF FillJob, TK!CopyQuery
  <2>2. cmd[c] \in Text /\ task[c] # NullTask
    BY <2>1, HeldAreMade, XEMySqlAssumption DEF TInv, ClientOK, NullTask
  <2>3. task[c] \in Task
    BY <2>1, <2>2, ClientTaskApart
  <2> QED
    BY <2>1, <2>2, <2>3 DEF ReadsBack
<1>2. CASE \E q \in Query : ExecuteQueryNoRet(c, q) \/ ClientQuery(c, q)
  <2>1. PICK q \in Query : ExecuteQueryNoRet(c, q) \/ ClientQuery(c, q)
    BY <1>2
  <2>2. /\ stage[c] = "idle" /\ task' = task /\ cmd' = [cmd EXCEPT ![c] = q]
        /\ q = NullQuery \/ \E x \in {"alloc", "query"} : stage' = [stage EXCEPT ![c] = x]
    BY <2>1 DEF ExecuteQueryNoRet, ClientQuery, Issue
  <2>3. task[c] = NullTask /\ q = NullQuery
    BY <2>2 DEF TInv, TypeOK, ClientOK
  <2> QED
    BY <2>2, <2>3 DEF TInv, TypeOK
<1>3. CASE ~FillJob(c) /\ ~\E q \in Query : ExecuteQueryNoRet(c, q) \/ ClientQuery(c, q)
  <2>1. /\ stage[c] = "post" /\ task'[c] = task[c] /\ cmd'[c] = cmd[c]
        /\ \/ wanted' = wanted
           \/ \E d \in Client \ {c} : /\ FillJob(d)
                /\ wanted' = [wanted EXCEPT ![task[d]] = cmd[d]]
    <3> USE DEF TInv, TypeOK
    <3>1. CASE UNCHANGED vars
      BY <3>1 DEF vars, clientVars, tkVars
    <3>2. CASE Owner
      BY <3>2 DEF Owner, clientVars, tkVars
    <3>3. ASSUME NEW d \in Client, ClientNext(d)
          PROVE  /\ stage[c] = "post" /\ task'[c] = task[c] /\ cmd'[c] = cmd[c]
                 /\ wanted' = wanted \/ (d # c /\ FillJob(d)
                      /\ wanted' = [wanted EXCEPT ![task[d]] = cmd[d]])
      <4>1. CASE GetFreeJob(d)
        BY <4>1 DEF GetFreeJob
      <4>2. CASE GetFreeJobThrows(d)
        BY <4>2 DEF GetFreeJobThrows
      <4>3. CASE FillJob(d)
        BY <1>3, <4>3 DEF FillJob, TK!CopyQuery
      <4>4. CASE Post(d)
        BY <4>4 DEF Post, tkVars
      <4>5. CASE ClientStep(d)
        BY <4>5 DEF ClientStep, QueryStep, tkVars
      <4>6. CASE ClientReturns(d)
        BY <4>6 DEF ClientReturns, tkVars
      <4> QED
        BY <3>3, <4>1, <4>2, <4>3, <4>4, <4>5, <4>6 DEF ClientNext
    <3>4. ASSUME NEW d \in Client, NEW q \in Query,
                 ExecuteQueryNoRet(d, q) \/ ClientQuery(d, q)
          PROVE  /\ stage[c] = "post" /\ task'[c] = task[c] /\ cmd'[c] = cmd[c]
                 /\ wanted' = wanted
      <4>1. d # c
        BY <1>3, <3>4
      <4> QED
        BY <3>4, <4>1 DEF ExecuteQueryNoRet, ClientQuery, Issue, tkVars
    <3>5. ASSUME NEW w \in Thread, WorkerNext(w)
          PROVE  UNCHANGED <<stage, task, cmd, wanted>>
      BY <3>5 DEF WorkerNext, WorkerIdle, ProcessTask, WorkerStep, QueryStep, ReleaseInit,
                  TK!InitTask, ReleaseFree, ProcessTaskReturns, clientVars, tkVars
    <3> QED
      BY <3>1, <3>2, <3>3, <3>4, <3>5 DEF Next
  <2>2. ASSUME NEW d \in Client \ {c}, FillJob(d), task[c] # NullTask PROVE task[d] # task[c]
    BY <2>1, <2>2 DEF FillJob, TaskHasOneHolder, ClientTask
  <2> QED
    BY <2>1, <2>2, ClientTaskApart DEF PostOK, ReadsBack
<1> QED
  BY <1>1, <1>2, <1>3

\* A task's text is written over zeros by whoever has taken it, and stays as
\* it is until the worker that has it clears it.
LEMMA ReadsBackKept == ASSUME IInv, IInv', ReadsBack, [Next]_vars PROVE ReadsBack'
<1> USE DEF IInv, TK!FilledReadsBack, TK!Task, Task
<1>1. szQuery \in [Task -> Text \cup {Empty, Mixed}] /\ wanted \in [Task -> Text \cup {Empty}]
  BY DEF TInv, PoolOK, ReadsBack
<1>2. [TK!Next]_(TK!vars)
  BY StepImplements
<1>3. CASE UNCHANGED TK!vars
  BY <1>3 DEF TK!vars, ReadsBack
<1>4. CASE TK!AllocThrows
  BY <1>4 DEF TK!AllocThrows, TK!taskVars, ReadsBack
<1>5. ASSUME NEW t \in Task, TK!Alloc(t) PROVE ReadsBack'
  BY <1>5 DEF TK!Alloc, TK!Becomes, TK!taskVars, ReadsBack
<1>6. ASSUME NEW t \in Task, TK!Clear(t) PROVE ReadsBack'
  BY <1>1, <1>6 DEF TK!Clear, TK!InitTask, TK!Becomes, ReadsBack
<1>7. ASSUME NEW t \in Task, TK!Free(t) PROVE ReadsBack'
  BY <1>7 DEF TK!Free, TK!Becomes, TK!taskVars, ReadsBack
<1>8. ASSUME NEW t \in Task, NEW q \in Text, TK!Fill(t, q) PROVE ReadsBack'
  <2>1. t \in Taken
    BY <1>8, UseIs DEF TK!Fill, UseIn
  <2>2. szQuery[t] = Empty
    BY <2>1 DEF Taken, Contents, Cleared
  <2>3. szQuery' = [szQuery EXCEPT ![t] = q] /\ wanted' = [wanted EXCEPT ![t] = q]
    BY <1>8, <2>2, TextOverEmpty DEF TK!Fill, TK!CopyQuery
  <2>4. \A s \in Task : s # t /\ UseOf'[s] = "filled" => UseOf[s] = "filled"
    BY <1>8 DEF TK!Fill, TK!Becomes
  <2> QED
    BY <1>1, <2>3, <2>4 DEF ReadsBack
<1> QED
  BY <1>2, <1>3, <1>4, <1>5, <1>6, <1>7, <1>8 DEF TK!Next

LEMMA PostMoves ==
  ASSUME IInv, IInv', PostOK, NEW c \in Client, Post(c)
  PROVE  IF task[c] = NullTask THEN Stays ELSE HandsOver(c, task[c]) \/ Drops(c, task[c])
<1> USE DEF IInv
<1>1. /\ stage[c] = "post" /\ stage' = [stage EXCEPT ![c] = "idle"]
      /\ cmd' = [cmd EXCEPT ![c] = NullQuery]
      /\ wanted' = wanted /\ step' = step /\ issued' = issued /\ pc' = pc /\ job' = job
  BY DEF Post, TP!ProcessJob, TP!workerVars, tkVars
<1>2. /\ \A w \in Thread : WorkerTask(w)' = WorkerTask(w)
      /\ TP!Accepted(seen[c]) => InPort' = InPort \cup {task[c]} /\ Leaked' = Leaked
      /\ ~TP!Accepted(seen[c]) =>
           InPort' = InPort /\ Leaked' = Leaked \cup ({task[c]} \ {NullTask})
  BY PostPlaces
<1>3. AtWork' = AtWork
  BY <1>1, <1>2 DEF AtWork
<1>4. CASE task[c] = NullTask
  <2>1. Running' = Running /\ Leaked' = Leaked
    BY <1>2, <1>3, <1>4 DEF Running
  <2>2. cmd[c] = NullQuery
    BY <1>1, <1>4 DEF PostOK
  <2>3. Asking' = Asking /\ \A d \in Asking : cmd'[d] = cmd[d]
    BY <1>1, <2>2 DEF TInv, TypeOK, Asking
  <2> QED
    BY <1>1, <1>4, <2>1, <2>3 DEF Stays, Keep
<1>5. CASE task[c] # NullTask
  <2>1. cmd[c] \in Text /\ wanted[task[c]] = cmd[c] /\ task[c] \notin Carrying
    BY <1>1, <1>5, ClientTaskApart DEF PostOK
  <2>2. /\ c \in Asking /\ Asking' = Asking \ {c}
        /\ \A d \in Asking \ {c} : cmd'[d] = cmd[d]
    BY <1>1, <2>1, XEMySqlAssumption DEF TInv, TypeOK, Asking
  <2>3. CASE TP!Accepted(seen[c])
    <3>1. Running' = Running \cup {task[c]} /\ Leaked' = Leaked
      BY <1>2, <1>3, <1>5, <2>3 DEF Running
    <3> QED
      BY <1>1, <1>5, <2>1, <2>2, <3>1 DEF HandsOver, Passes, Keep
  <2>4. CASE ~TP!Accepted(seen[c])
    <3>1. Running' = Running /\ Leaked' = Leaked \cup {task[c]}
      BY <1>2, <1>3, <1>5, <2>4 DEF Running
    <3> QED
      BY <1>1, <1>5, <2>1, <2>2, <3>1 DEF Drops, Passes, Keep
  <2> QED
    BY <1>5, <2>3, <2>4
<1> QED
  BY <1>4, <1>5

\* A leaked task is in nobody's hands.
LEMMA LeakedApart == Running \cap Leaked = {}
<1>1. AtWork \subseteq Held
  BY DEF AtWork, Held
<1> QED
  BY <1>1 DEF Running, Leaked, Held

LEMMA OwnerMoves ==
  ASSUME IInv, IInv', Owner PROVE Stays \/ Discards(InPort \ {NullTask})
<1> USE DEF IInv
<1>1. /\ \A w \in Thread : WorkerTask(w)' = WorkerTask(w)
      /\ UNCHANGED <<stage, cmd, wanted, step, issued>>
      /\ \/ InPort' = InPort /\ Leaked' = Leaked
         \/ InPort' = {} /\ Leaked' = Leaked \cup (InPort \ {NullTask})
  BY OwnerPlaces DEF tkVars, clientVars
<1>2. AtWork' = AtWork /\ Asking' = Asking
  BY <1>1 DEF AtWork, Asking
<1>3. CASE InPort' = InPort /\ Leaked' = Leaked
  BY <1>1, <1>2, <1>3 DEF Running, Stays, Keep
<1>4. CASE InPort' = {} /\ Leaked' = Leaked \cup (InPort \ {NullTask})
  <2>1. InPort \cap AtWork = {}
    BY DEF AtWork, TaskHasOneHolder, Task, NullTask
  <2>2. Running' = Running \ (InPort \ {NullTask})
    BY <1>2, <1>4, <2>1 DEF Running, AtWork, Task, NullTask
  <2> QED
    BY <1>1, <1>2, <1>4, <2>2 DEF Discards, Running, Keep
<1> QED
  BY <1>1, <1>3, <1>4

LEMMA WorkerMoves ==
  ASSUME IInv, IInv', NEW w \in Thread, WorkerNext(w)
  PROVE  \/ ~ReleaseInit(w) /\ Stays
         \/ ReleaseInit(w) /\ Completes(job[w])
<1> USE DEF IInv
<1>1. /\ UNCHANGED <<stage, cmd, wanted, issued>> /\ Asking' = Asking
  BY DEF WorkerNext, WorkerIdle, ProcessTask, WorkerStep, QueryStep, ReleaseInit,
         TK!InitTask, ReleaseFree, ProcessTaskReturns, clientVars, tkVars, Asking
<1>2. CASE WorkerIdle(w)
  <2>1. /\ \A v \in Thread \ {w} : WorkerTask(v)' = WorkerTask(v)
        /\ WorkerTask(w) = NullTask /\ step[w] = "query" /\ step' = step
        /\ InPort \cup {NullTask} = InPort' \cup {WorkerTask(w)', NullTask}
        /\ Leaked' = Leaked
    BY <1>2, IdlePlaces
  <2>2. WorkerTask(w)' \in Task \cup {NullTask}
    BY <2>1, HeldAreMade, XEMySqlAssumption DEF Task, NullTask
  <2>3. AtWork' = AtWork \cup ({WorkerTask(w)'} \ {NullTask})
    BY <2>1, <2>2 DEF AtWork, Task, NullTask
  <2>4. Running' = Running
    BY <2>1, <2>3 DEF Running
  <2>5. ~ReleaseInit(w)
    BY <2>1 DEF ReleaseInit
  <2> QED
    BY <1>1, <2>1, <2>4, <2>5 DEF Stays, Keep
<1>3. CASE ReleaseFree(w)
  <2>1. /\ \A v \in Thread \ {w} : WorkerTask(v)' = WorkerTask(v)
        /\ step[w] = "free" /\ step' = [step EXCEPT ![w] = "return"]
        /\ WorkerTask(w)' = NullTask
        /\ InPort' = InPort /\ Leaked' = Leaked
    BY <1>3, FreePlaces
  <2>2. AtWork' = AtWork
    BY <2>1 DEF AtWork, TInv, TypeOK, Task, NullTask
  <2> QED
    BY <1>1, <2>1, <2>2 DEF Running, Stays, Keep, ReleaseInit
<1>4. CASE ProcessTask(w) \/ WorkerStep(w) \/ ReleaseInit(w) \/ ProcessTaskReturns(w)
  <2>1. /\ UNCHANGED <<queue, m_FreeList, created>>
        /\ \A d \in Client : ClientTask(d)' = ClientTask(d)
        /\ \A v \in Thread : WorkerTask(v)' = WorkerTask(v)
    BY <1>4, QuietPlaces
  <2>2. InPort' = InPort /\ Leaked' = Leaked
    BY <2>1, SamePlaces
  <2>3. CASE ReleaseInit(w)
    <3>1. step[w] = "release" /\ step' = [step EXCEPT ![w] = "free"]
      BY <2>3 DEF ReleaseInit
    <3>2. /\ job[w] \in Task /\ WorkerTask(w) = job[w]
          /\ job[w] \notin InPort /\ \A v \in Thread \ {w} : WorkerTask(v) # job[w]
      BY <3>1, TaskOfWorker DEF TaskHasOneHolder
    <3>3. job[w] \in AtWork /\ AtWork' = AtWork \ {job[w]}
      BY <2>1, <3>1, <3>2 DEF AtWork, TInv, TypeOK
    <3>4. job[w] \in Running /\ Running' = Running \ {job[w]}
      BY <2>2, <3>2, <3>3 DEF Running
    <3>5. job[w] \notin Leaked
      BY <3>4, LeakedApart
    <3> QED
      BY <1>1, <2>2, <2>3, <3>4, <3>5 DEF Completes, Keep
  <2>4. CASE ~ReleaseInit(w)
    <3>1. \A v \in Thread : step'[v] = "free" <=> step[v] = "free"
      <4>1. \/ step' = step
            \/ step[w] # "free" /\ step' = [step EXCEPT ![w] = "release"]
            \/ step' = [step EXCEPT ![w] = "query"] /\ (job[w] = NullTask \/ step[w] = "return")
        BY <1>4, <2>4 DEF ProcessTask, WorkerStep, QueryStep, ProcessTaskReturns
      <4> QED
        BY <4>1 DEF TInv, TypeOK, WorkerOK
    <3>2. Running' = Running
      BY <2>1, <2>2, <3>1, SameRunning
    <3> QED
      BY <1>1, <2>2, <2>4, <3>2 DEF Stays, Keep
  <2> QED
    BY <2>3, <2>4
<1> QED
  BY <1>2, <1>3, <1>4 DEF WorkerNext

-----------------------------------------------------------------------------
(* What the server has executed *)

Times(q) == served[Formatted[q]]

\* The query user u is in Query for.
Doing(u) == IF u \in Client THEN cmd[u] ELSE wanted[job[u]]

\* The tasks no worker has begun, or will begin any more, and the queries
\* nobody has called Query for yet.
Waiting == {t \in Task : \E w \in Thread : WorkerTask(w) = t /\ step[w] = "query"}
Unserved == (InPort \ {NullTask}) \cup Waiting \cup Leaked
Fresh == {cmd[c] : c \in {d \in Asking : stage[d] # "query"}}
           \cup {wanted[t] : t \in Unserved} \cup (Text \ issued)

ServedOnce ==
  /\ \A q \in Text : Times(q) \in {0, 1}
  /\ \A q \in Fresh : Times(q) = 0
  /\ \A u \in Client \cup Thread :
       /\ phase[u] # "idle" => Times(Doing(u)) = effect[u]
       /\ phase[u] # "hold" => effect[u] = 0

LEMMA UnservedCarry == Unserved \subseteq Carrying
  BY DEF Unserved, Waiting, Carrying, Running, AtWork

LEMMA FreshKept ==
  ASSUME NEW A, NEW R, NEW L, Keep(A, R, L), Text \ issued' \subseteq Text \ issued,
         \A c \in A : stage'[c] # "query" =>
           (c \in Asking /\ stage[c] # "query") \/ cmd'[c] \in Text \ issued,
         \A t \in Unserved' :
           t \in Unserved \/ \E c \in Asking : stage[c] # "query" /\ wanted'[t] = cmd[c]
  PROVE  Fresh' \subseteq Fresh
<1>1. Unserved' \subseteq R \cup L
  <2>1. (Unserved \subseteq Carrying)'
    BY UnservedCarry, PTL
  <2> QED
    BY <2>1 DEF Keep, Carrying
<1>2. ASSUME NEW c \in A, stage'[c] # "query" PROVE cmd'[c] \in Fresh
  BY <1>2 DEF Keep, Fresh
<1>3. ASSUME NEW t \in Unserved' PROVE wanted'[t] \in Fresh
  <2>1. CASE t \in Unserved
    BY <1>1, <1>3, <2>1, UnservedCarry DEF Keep, Fresh
  <2>2. CASE t \notin Unserved
    BY <1>3, <2>2 DEF Fresh
  <2> QED
    BY <2>1, <2>2
<1>4. Asking' = A
  BY DEF Keep
<1> QED
  BY <1>2, <1>3, <1>4 DEF Fresh

\* Only a post adds to the tasks that no worker has begun.
LEMMA UnservedKept ==
  ASSUME IInv, IInv', [Next]_vars, NEW t \in Unserved'
  PROVE  t \in Unserved \/ \E c \in Client : Post(c) /\ t = task[c] /\ t # NullTask
<1> USE DEF IInv
<1>1. ASSUME InPort' = InPort, Leaked' = Leaked,
             \A w \in Thread : /\ WorkerTask(w)' = WorkerTask(w)
                               /\ \/ step'[w] = "query" => step[w] = "query"
                                  \/ WorkerTask(w) = NullTask
      PROVE  t \in Unserved
  BY <1>1 DEF Unserved, Waiting, Task, NullTask
<1>2. CASE UNCHANGED vars
  <2>1. UNCHANGED <<queue, m_FreeList, created, step, stage, task, pc, job>>
    BY <1>2 DEF vars, tpVars, tkVars, clientVars
  <2>2. /\ \A c \in Client : ClientTask(c)' = ClientTask(c)
        /\ \A w \in Thread : WorkerTask(w)' = WorkerTask(w)
    BY <2>1 DEF ClientTask, WorkerTask
  <2> QED
    BY <1>1, <2>1, <2>2, SamePlaces
<1>3. CASE Owner
  <2>1. /\ \A w \in Thread : WorkerTask(w)' = WorkerTask(w)
        /\ step' = step
        /\ \/ InPort' = InPort /\ Leaked' = Leaked
           \/ InPort' = {} /\ Leaked' = Leaked \cup (InPort \ {NullTask})
    BY <1>3, OwnerPlaces
  <2> QED
    BY <2>1 DEF Unserved, Waiting
<1>4. ASSUME NEW c \in Client, Post(c)
      PROVE  t \in Unserved \/ (t = task[c] /\ t # NullTask)
  <2>1. step' = step
    BY <1>4 DEF Post
  <2>2. /\ \A w \in Thread : WorkerTask(w)' = WorkerTask(w)
        /\ TP!Accepted(seen[c]) => InPort' = InPort \cup {task[c]} /\ Leaked' = Leaked
        /\ ~TP!Accepted(seen[c]) =>
             InPort' = InPort /\ Leaked' = Leaked \cup ({task[c]} \ {NullTask})
    BY <1>4, PostPlaces
  <2> QED
    BY <2>1, <2>2 DEF Unserved, Waiting
<1>5. ASSUME NEW c \in Client, GetFreeJob(c) \/ GetFreeJobThrows(c) PROVE t \in Unserved
  BY <1>1, <1>5, AllocPlaces DEF GetFreeJob, GetFreeJobThrows
<1>6. CASE \/ \E c \in Client :
                \/ FillJob(c) \/ ClientStep(c) \/ ClientReturns(c)
                \/ \E q \in Query : ExecuteQueryNoRet(c, q) \/ ClientQuery(c, q)
           \/ \E w \in Thread :
                \/ ProcessTask(w) \/ WorkerStep(w) \/ ReleaseInit(w) \/ ProcessTaskReturns(w)
  <2>1. /\ UNCHANGED <<queue, m_FreeList, created>>
        /\ \A c \in Client : ClientTask(c)' = ClientTask(c)
        /\ \A w \in Thread : WorkerTask(w)' = WorkerTask(w)
    BY <1>6, QuietPlaces
  <2>2. InPort' = InPort /\ Leaked' = Leaked
    BY <2>1, SamePlaces
  <2>3. \/ step' = step
        \/ \E w \in Thread : \/ \E x \in {"release", "free"} : step' = [step EXCEPT ![w] = x]
                             \/ /\ step' = [step EXCEPT ![w] = "query"]
                                /\ job[w] = NullTask \/ step[w] = "return"
    BY <1>6 DEF FillJob, ClientStep, QueryStep, ClientReturns, ExecuteQueryNoRet, ClientQuery,
                ProcessTask, WorkerStep, ReleaseInit, ProcessTaskReturns
  <2>4. ASSUME NEW w \in Thread
        PROVE  (step'[w] = "query" => step[w] = "query") \/ WorkerTask(w) = NullTask
    BY <2>3 DEF TInv, TypeOK, WorkerTask
  <2> QED
    BY <1>1, <2>1, <2>2, <2>4
<1>7. ASSUME NEW w \in Thread, WorkerIdle(w) PROVE t \in Unserved
  <2>1. /\ \A v \in Thread \ {w} : WorkerTask(v)' = WorkerTask(v)
        /\ WorkerTask(w) = NullTask /\ step[w] = "query" /\ step' = step
        /\ InPort \cup {NullTask} = InPort' \cup {WorkerTask(w)', NullTask}
        /\ Leaked' = Leaked
    BY <1>7, IdlePlaces
  <2> QED
    BY <2>1 DEF Unserved, Waiting, Task, NullTask
<1>8. ASSUME NEW w \in Thread, ReleaseFree(w) PROVE t \in Unserved
  <2>1. /\ \A v \in Thread \ {w} : WorkerTask(v)' = WorkerTask(v)
        /\ step[w] = "free" /\ step' = [step EXCEPT ![w] = "return"]
        /\ InPort' = InPort /\ Leaked' = Leaked
    BY <1>8, FreePlaces
  <2> QED
    BY <2>1 DEF Unserved, Waiting, TInv, TypeOK
<1> QED
  BY <1>2, <1>3, <1>4, <1>5, <1>6, <1>7, <1>8 DEF Next, ClientNext, WorkerNext

\* Every step moves the queries in one of these ways.
LEMMA Moves ==
  ASSUME IInv, IInv', PostOK, [Next]_vars
  PROVE  \/ Stays
         \/ \E c \in Client : \/ Ends(c)
                              \/ \E q \in Text : Starts(c, q)
                              \/ HandsOver(c, task[c])
                              \/ stage[c] = "post" /\ Drops(c, task[c])
         \/ Discards(InPort \ {NullTask})
         \/ \E w \in Thread : Completes(job[w])
<1>1. CASE UNCHANGED vars
  <2>1. UNCHANGED <<queue, m_FreeList, created, step, stage, task, pc, job, cmd, wanted, issued>>
    BY <1>1 DEF vars, tpVars, tkVars, clientVars
  <2>2. /\ \A c \in Client : ClientTask(c)' = ClientTask(c)
        /\ \A w \in Thread : WorkerTask(w)' = WorkerTask(w)
    BY <2>1 DEF ClientTask, WorkerTask
  <2>3. InPort' = InPort /\ Leaked' = Leaked /\ Asking' = Asking
    BY <2>1, <2>2, SamePlaces DEF Asking
  <2>4. Running' = Running
    BY <2>1, <2>2, <2>3, SameRunning
  <2> QED
    BY <2>1, <2>3, <2>4 DEF Stays, Keep
<1>2. CASE Owner
  BY <1>2, OwnerMoves
<1>3. ASSUME NEW c \in Client, ClientNext(c)
      PROVE  \/ Stays \/ Ends(c) \/ HandsOver(c, task[c])
             \/ stage[c] = "post" /\ Drops(c, task[c])
  <2>1. CASE GetFreeJob(c) \/ GetFreeJobThrows(c)
    BY <2>1, AllocMoves
  <2>2. CASE FillJob(c) \/ ClientStep(c) \/ ClientReturns(c)
    BY <2>2, QuietClientMoves
  <2>3. CASE Post(c)
    BY <2>3, PostMoves DEF Post
  <2> QED
    BY <1>3, <2>1, <2>2, <2>3 DEF ClientNext
<1>4. ASSUME NEW c \in Client, NEW q \in Query, ExecuteQueryNoRet(c, q) \/ ClientQuery(c, q)
      PROVE  Stays \/ \E p \in Text : Starts(c, p)
  <2>1. (q = NullQuery => Stays) /\ (q # NullQuery => Starts(c, q))
    BY <1>4, SubmitMoves
  <2> QED
    BY <2>1 DEF Query
<1>5. ASSUME NEW w \in Thread, WorkerNext(w) PROVE Stays \/ Completes(job[w])
  BY <1>5, WorkerMoves
<1> QED
  BY <1>1, <1>2, <1>3, <1>4, <1>5 DEF Next

LEMMA MovesKeep ==
  ASSUME IInv, IInv', PostOK, [Next]_vars
  PROVE  Keep(Asking', Running', Leaked')
<1>1. \E A, R, L : Keep(A, R, L)
  BY Moves DEF Stays, Starts, Ends, HandsOver, Drops, Passes, Completes, Discards
<1>2. PICK A, R, L : Keep(A, R, L)
  BY <1>1
<1> QED
  BY <1>2 DEF Keep

\* A client that asks without having called Query did so before the step, or
\* submits in it.
LEMMA AskingFresh ==
  ASSUME IInv, [Next]_vars, NEW c \in Asking', stage'[c] # "query"
  PROVE  (c \in Asking /\ stage[c] # "query") \/ cmd'[c] \in Text \ issued
<1> USE DEF IInv, TInv, TypeOK, Asking
<1>1. CASE \E q \in Query : ExecuteQueryNoRet(c, q) \/ ClientQuery(c, q)
  <2>1. PICK q \in Query : ExecuteQueryNoRet(c, q) \/ ClientQuery(c, q)
    BY <1>1
  <2>2. cmd' = [cmd EXCEPT ![c] = q] /\ q \notin issued
    BY <2>1 DEF ExecuteQueryNoRet, ClientQuery, Issue
  <2> QED
    BY <2>2 DEF Query
<1>2. CASE ClientNext(c) /\ ~Post(c)
  <2>1. CASE GetFreeJob(c)
    BY <2>1 DEF GetFreeJob
  <2>2. CASE GetFreeJobThrows(c)
    BY <2>2 DEF GetFreeJobThrows
  <2>3. CASE FillJob(c)
    BY <2>3 DEF FillJob
  <2>4. CASE ClientStep(c)
    BY <2>4 DEF ClientStep
  <2>5. CASE ClientReturns(c)
    BY <2>5 DEF ClientReturns
  <2> QED
    BY <1>2, <2>1, <2>2, <2>3, <2>4, <2>5 DEF ClientNext
<1>3. CASE Post(c)
  BY <1>3 DEF Post
<1>4. ASSUME UNCHANGED <<stage, cmd>> PROVE c \in Asking /\ stage[c] # "query"
  BY <1>4
<1>5. CASE Owner \/ UNCHANGED vars
  BY <1>4, <1>5 DEF Owner, vars, clientVars
<1>6. CASE \E w \in Thread : WorkerNext(w)
  BY <1>4, <1>6 DEF WorkerNext, WorkerIdle, ProcessTask, WorkerStep, ReleaseInit,
                    ReleaseFree, ProcessTaskReturns, clientVars
<1>7. ASSUME NEW d \in Client \ {c},
             \/ ClientNext(d)
             \/ \E q \in Query : ExecuteQueryNoRet(d, q) \/ ClientQuery(d, q)
      PROVE  c \in Asking /\ stage[c] # "query"
  <2>1. stage'[c] = stage[c] /\ cmd'[c] = cmd[c]
    BY <1>7 DEF ClientNext, GetFreeJob, GetFreeJobThrows, FillJob, Post, ClientStep,
                ClientReturns, ExecuteQueryNoRet, ClientQuery, Issue
  <2> QED
    BY <2>1
<1> QED
  BY <1>1, <1>2, <1>3, <1>5, <1>6, <1>7 DEF Next

LEMMA FreshNext == ASSUME IInv, IInv', PostOK, [Next]_vars PROVE Fresh' \subseteq Fresh
<1>1. issued \subseteq issued'
  BY DEF Next, vars, clientVars, Owner, ClientNext, GetFreeJob, GetFreeJobThrows, FillJob,
         Post, ClientStep, QueryStep, ClientReturns, ExecuteQueryNoRet, ClientQuery, Issue,
         WorkerNext, WorkerIdle, ProcessTask, WorkerStep, ReleaseInit, ReleaseFree,
         ProcessTaskReturns
<1>2. ASSUME NEW t \in Unserved', t \notin Unserved
      PROVE  \E c \in Asking : stage[c] # "query" /\ wanted'[t] = cmd[c]
  <2>1. PICK c \in Client : Post(c) /\ t = task[c] /\ t # NullTask
    BY <1>2, UnservedKept
  <2>2. stage[c] = "post" /\ wanted' = wanted
    BY <2>1 DEF Post, tkVars
  <2>3. cmd[c] \in Text /\ wanted[t] = cmd[c]
    BY <2>1, <2>2 DEF PostOK
  <2> QED
    BY <2>1, <2>2, <2>3, XEMySqlAssumption DEF Asking
<1> QED
  BY <1>1, <1>2, AskingFresh, MovesKeep, FreshKept

LEMMA WantedKept ==
  ASSUME IInv, [Next]_vars, NEW t \in Carrying PROVE wanted'[t] = wanted[t]
<1>1. ASSUME NEW c \in Client, FillJob(c) PROVE wanted'[t] = wanted[t]
  <2>1. /\ stage[c] = "fill" /\ wanted' = [wanted EXCEPT ![task[c]] = cmd[c]]
    BY <1>1 DEF FillJob, TK!CopyQuery
  <2>2. task[c] # NullTask
    BY <2>1, HeldAreMade, XEMySqlAssumption DEF IInv, TInv, ClientOK, NullTask
  <2> QED
    BY <2>1, <2>2, ClientTaskApart
<1>2. CASE ~\E c \in Client : FillJob(c)
  BY <1>2 DEF Next, vars, tkVars, Owner, ClientNext, GetFreeJob, GetFreeJobThrows,
     Post, ClientStep, QueryStep, ClientReturns, ExecuteQueryNoRet, ClientQuery,
     WorkerNext, WorkerIdle, ProcessTask, WorkerStep, ReleaseInit, TK!InitTask, ReleaseFree,
     ProcessTaskReturns
<1> QED
  BY <1>1, <1>2

\* The task of a worker in Query is with it alone.
LEMMA TaskInQuery ==
  ASSUME IInv, NEW w \in Thread, phase[w] # "idle"
  PROVE  /\ step[w] = "release" /\ pc[w] = "busy" /\ job[w] \in Task /\ w \notin Client
         /\ job[w] \in 1..created /\ WorkerTask(w) = job[w] /\ job[w] \in AtWork
         /\ job[w] \notin Unserved \cup Taken \cup Zeroed \cup ToSet(m_FreeList)
         /\ \A v \in Thread : phase[v] # "idle" /\ job[v] = job[w] => v = w
<1> USE DEF IInv
<1>1. \A v \in Thread : phase[v] # "idle" => step[v] = "release"
  BY DEF TInv, WorkerOK
<1>2. \A v \in Thread : phase[v] # "idle" => WorkerTask(v) = job[v]
  BY <1>1, TaskOfWorker
<1>3. /\ pc[w] = "busy" /\ job[w] \in 1..created /\ job[w] \in Task
      /\ WorkerTask(w) = job[w] /\ job[w] # NullTask
  BY <1>1, TaskOfWorker
<1>4. \A v \in Thread \ {w} : WorkerTask(v) # job[w]
  BY <1>3 DEF TaskHasOneHolder
<1>5. /\ job[w] \notin InPort /\ job[w] \notin ToSet(m_FreeList)
      /\ \A c \in Client : ClientTask(c) # job[w]
  BY <1>3 DEF TaskHasOneHolder
<1>6. job[w] \in AtWork
  BY <1>1, <1>3 DEF AtWork
<1>7. job[w] \notin Waiting \cup Zeroed \cup Leaked \cup Taken
  <2>1. job[w] \notin Waiting \cup Zeroed
    BY <1>1, <1>3, <1>4 DEF Waiting, Zeroed
  <2>2. job[w] \notin Leaked
    BY <1>6, LeakedApart DEF Running
  <2>3. job[w] \notin Taken
    BY <1>3, <1>5 DEF Taken, ClientTask
  <2> QED
    BY <2>1, <2>2, <2>3
<1> QED
  BY <1>1, <1>2, <1>3, <1>4, <1>5, <1>6, <1>7, XEMySqlAssumption DEF Unserved

\* A user is in Query for one query, submitted and begun, and nobody else is
\* in Query for it; what it sends is that query.
LEMMA DoingIs ==
  ASSUME IInv, Bearers, ReadsBack, NEW u \in Client \cup Thread, phase[u] # "idle"
  PROVE  /\ Doing(u) \in Text \cap issued /\ Doing(u) \notin Fresh /\ Accepted(Doing(u))
         /\ SentBy(u) = Formatted[Doing(u)]
         /\ \A v \in Client \cup Thread :
              phase[v] # "idle" /\ Doing(v) = Doing(u) => v = u
<1> USE DEF IInv
<1>1. \A c \in Client : phase[c] # "idle" => c \in Asking /\ stage[c] = "query"
  BY XEMySqlAssumption DEF TInv, ClientOK, Asking
<1>2. \A w \in Thread : phase[w] # "idle" =>
        job[w] \in Running /\ job[w] \in Carrying /\ w \notin Client
  BY TaskInQuery DEF Running, Carrying
<1>3. \A s, t \in Carrying : wanted[s] = wanted[t] => s = t
  BY DEF Bearers
<1>4. \A c, d \in Asking : cmd[c] = cmd[d] => c = d
  BY DEF Bearers
<1>5. \A c \in Asking, t \in Carrying : wanted[t] # cmd[c]
  BY DEF Bearers
<1>6. CASE u \in Client
  <2>1. Doing(u) = cmd[u] /\ u \in Asking /\ stage[u] = "query"
    BY <1>1, <1>6 DEF Doing
  <2>2. cmd[u] \in Text \cap issued
    BY <2>1 DEF Bearers
  <2>3. cmd[u] \notin Fresh
    BY <1>4, <1>5, <2>1, <2>2, UnservedCarry DEF Fresh
  <2>4. \A v \in Client \cup Thread : phase[v] # "idle" /\ Doing(v) = Doing(u) => v = u
    BY <1>1, <1>2, <1>4, <1>5, <2>1 DEF Doing
  <2> QED
    BY <1>6, <2>1, <2>2, <2>3, <2>4 DEF Accepted, SentBy
<1>7. CASE u \in Thread
  <2>1. Doing(u) = wanted[job[u]] /\ job[u] \in Running /\ job[u] \in Carrying /\ u \notin Client
    BY <1>2, <1>7 DEF Doing
  <2>2. wanted[job[u]] \in Text \cap issued
    BY <2>1 DEF Bearers
  <2>3. job[u] \notin Unserved /\ \A v \in Thread : phase[v] # "idle" /\ job[v] = job[u] => v = u
    BY <1>7, TaskInQuery
  <2>4. wanted[job[u]] \notin Fresh
    BY <1>3, <1>5, <2>1, <2>2, <2>3, UnservedCarry DEF Fresh
  <2>5. \A v \in Client \cup Thread : phase[v] # "idle" /\ Doing(v) = Doing(u) => v = u
    BY <1>1, <1>2, <1>3, <1>5, <2>1, <2>3 DEF Doing
  <2>6. szQuery[job[u]] = wanted[job[u]]
    <3>1. /\ job[u] \in Task /\ job[u] \in 1..created
          /\ job[u] \notin Taken \cup Zeroed \cup ToSet(m_FreeList)
      BY <1>7, TaskInQuery
    <3>2. ~(job[u] > created)
      BY <3>1, HeldAreMade, XEMySqlAssumption
    <3>3. UseOf[job[u]] = "filled"
      BY <3>1, <3>2, UseIs DEF UseIn
    <3> QED
      BY <3>1, <3>3 DEF ReadsBack, TK!FilledReadsBack, TK!Task, Task
  <2> QED
    BY <2>1, <2>2, <2>4, <2>5, <2>6 DEF Accepted, SentBy
<1> QED
  BY <1>6, <1>7

\* Nobody changes the query a user is in Query for.
LEMMA DoingKept ==
  ASSUME IInv, [Next]_vars, NEW u \in Client \cup Thread, phase[u] # "idle"
  PROVE  Doing(u)' = Doing(u)
<1> USE DEF IInv
<1>1. CASE u \in Client
  <2>1. stage[u] = "query"
    BY <1>1 DEF TInv, ClientOK
  <2>2. cmd'[u] = cmd[u]
    <3>0. cmd \in [Client -> Query]
      BY DEF TInv, TypeOK
    <3>1. CASE UNCHANGED cmd
      BY <3>1
    <3>2. ASSUME NEW c \in Client,
                 \/ ClientNext(c)
                 \/ \E q \in Query : ExecuteQueryNoRet(c, q) \/ ClientQuery(c, q)
          PROVE  cmd'[u] = cmd[u]
      <4>1. CASE c = u
        <5>1. CASE ClientStep(u) \/ ClientReturns(u)
          BY <5>1 DEF ClientStep, ClientReturns
        <5> QED
          BY <2>1, <3>2, <4>1, <5>1 DEF ClientNext, GetFreeJob, GetFreeJobThrows, FillJob, Post,
             ExecuteQueryNoRet, ClientQuery, Issue
      <4>2. CASE c # u
        <5>1. cmd' = cmd \/ \E x \in Query : cmd' = [cmd EXCEPT ![c] = x]
          BY <3>2 DEF ClientNext, GetFreeJob, GetFreeJobThrows, FillJob, Post, ClientStep,
             ClientReturns, ExecuteQueryNoRet, ClientQuery, Issue, Query
        <5> QED
          BY <1>1, <3>0, <4>2, <5>1
      <4> QED
        BY <4>1, <4>2
    <3> QED
      BY <3>1, <3>2 DEF Next, vars, clientVars, Owner, WorkerNext, WorkerIdle, ProcessTask,
         WorkerStep, ReleaseInit, ReleaseFree, ProcessTaskReturns
  <2> QED
    BY <1>1, <2>2 DEF Doing
<1>2. CASE u \in Thread
  <2>1. /\ step[u] = "release" /\ pc[u] = "busy" /\ job[u] \in AtWork
        /\ u \notin Client /\ job[u] # NullTask
    BY <1>2, TaskInQuery DEF Task, NullTask
  <2>2. job'[u] = job[u]
    <3>0. DOMAIN job = Thread
      BY DEF TInv, TypeOK, TP!TypeOK
    <3>1. CASE UNCHANGED job
      BY <3>1
    <3>2. ASSUME NEW w \in Thread, WorkerIdle(w) \/ ProcessTaskReturns(w) PROVE job'[u] = job[u]
      <4>1. w # u
        BY <2>1, <3>2, IdleEffect DEF ProcessTaskReturns
      <4> QED
        BY <1>2, <3>0, <3>2, <4>1 DEF WorkerIdle, ProcessTaskReturns, TP!GetPort, TP!Take,
           TP!PortGone, TP!RemoveThread, TP!Finish
    <3>3. CASE Owner
      BY <3>3, OwnerEffect
    <3> QED
      BY <3>1, <3>2, <3>3 DEF Next, vars, tpVars, ClientNext, GetFreeJob, GetFreeJobThrows, FillJob,
         Post, TP!ProcessJob, TP!workerVars, ClientStep, QueryStep, ClientReturns,
         ExecuteQueryNoRet, ClientQuery, WorkerNext, ProcessTask, WorkerStep, ReleaseInit,
         ReleaseFree
  <2>3. wanted'[job[u]] = wanted[job[u]]
    BY <2>1, WantedKept DEF Carrying, Running
  <2> QED
    BY <2>1, <2>2, <2>3 DEF Doing
<1> QED
  BY <1>1, <1>2

\* A step in which the server executes nothing.
LEMMA ServedStays ==
  ASSUME IInv, IInv', PostOK, ServedOnce, [Next]_vars, served' = served,
         \A u \in Client \cup Thread :
           /\ phase'[u] # "idle" =>
                effect'[u] = effect[u] /\ (phase[u] # "idle" \/ Doing(u)' \in Fresh)
           /\ phase'[u] # "hold" => effect'[u] = 0
  PROVE  ServedOnce'
<1>1. \A q : Times(q)' = Times(q)
  BY DEF Times
<1>2. ASSUME NEW q \in Fresh' PROVE Times(q)' = 0
  BY <1>1, FreshNext DEF ServedOnce
<1>3. ASSUME NEW u \in Client \cup Thread, phase'[u] # "idle" PROVE Times(Doing(u))' = effect'[u]
  <2>1. CASE phase[u] # "idle"
    <3>1. Doing(u)' = Doing(u)
      BY <2>1, DoingKept
    <3>2. Times(Doing(u))' = Times(Doing(u))
      BY <3>1 DEF Times
    <3> QED
      BY <1>3, <2>1, <3>2 DEF ServedOnce
  <2>2. CASE phase[u] = "idle"
    <3>1. effect'[u] = 0 /\ Doing(u)' \in Fresh
      BY <1>3, <2>2 DEF ServedOnce
    <3>2. Times(Doing(u))' = 0
      BY <3>1 DEF Times, ServedOnce
    <3> QED
      BY <3>1, <3>2
  <2> QED
    BY <2>1, <2>2
<1>4. \A q \in Text : Times(q)' \in {0, 1}
  BY <1>1 DEF ServedOnce
<1> QED
  BY <1>2, <1>3, <1>4 DEF ServedOnce

\* A step in which nobody enters or leaves Query, or moves in it.
LEMMA OutsideServed ==
  ASSUME IInv, IInv', PostOK, ServedOnce, [Next]_vars, served' = served, cnVars' = cnVars
  PROVE  ServedOnce'
<1>1. ASSUME NEW u \in Client \cup Thread
      PROVE  /\ phase'[u] # "idle" =>
                  effect'[u] = effect[u] /\ (phase[u] # "idle" \/ Doing(u)' \in Fresh)
             /\ phase'[u] # "hold" => effect'[u] = 0
  BY DEF cnVars, ServedOnce
<1> QED
  BY <1>1, ServedStays

LEMMA BeginServed ==
  ASSUME IInv, IInv', PostOK, ServedOnce, [Next]_vars, served' = served,
         NEW u \in Client \cup Thread, BeginQuery(u), Doing(u)' \in Fresh
  PROVE  ServedOnce'
<1>1. CASE UNCHANGED cnVars
  BY <1>1, OutsideServed
<1>2. CASE CN!Want(u)
  <2>1. /\ phase[u] = "idle" /\ phase' = [phase EXCEPT ![u] = "want"] /\ effect' = effect
        /\ phase \in [Client \cup Thread -> {"idle", "want", "hold"}]
    BY <1>2 DEF CN!Want, IInv, TInv, TypeOK, CN!TypeOK
  <2>2. ASSUME NEW v \in Client \cup Thread
        PROVE  /\ phase'[v] # "idle" =>
                    effect'[v] = effect[v] /\ (phase[v] # "idle" \/ Doing(v)' \in Fresh)
               /\ phase'[v] # "hold" => effect'[v] = 0
    <3>1. CASE v = u
      BY <2>1, <3>1 DEF ServedOnce
    <3>2. CASE v # u
      BY <2>1, <3>2 DEF ServedOnce
    <3> QED
      BY <3>1, <3>2
  <2> QED
    BY <2>2, ServedStays
<1> QED
  BY <1>1, <1>2 DEF BeginQuery

\* A step inside Query that sends nothing.
LEMMA HoldServed ==
  ASSUME IInv, IInv', PostOK, ServedOnce, [Next]_vars, served' = served,
         NEW u \in Client \cup Thread, CN!Acquire(u) \/ CN!Release(u)
  PROVE  ServedOnce'
<1>1. /\ phase[u] # "idle"
      /\ \/ phase' = [phase EXCEPT ![u] = "hold"] /\ effect' = effect
         \/ phase' = [phase EXCEPT ![u] = "idle"] /\ effect' = [effect EXCEPT ![u] = 0]
      /\ phase \in [Client \cup Thread -> {"idle", "want", "hold"}]
      /\ effect \in [Client \cup Thread -> {0, 1}]
  BY DEF CN!Acquire, CN!Release, IInv, TInv, TypeOK, CN!TypeOK
<1>2. ASSUME NEW v \in Client \cup Thread
      PROVE  /\ phase'[v] # "idle" =>
                  effect'[v] = effect[v] /\ (phase[v] # "idle" \/ Doing(v)' \in Fresh)
             /\ phase'[v] # "hold" => effect'[v] = 0
  <2>1. CASE v = u
    BY <1>1, <2>1
  <2>2. CASE v # u
    BY <1>1, <2>2 DEF ServedOnce
  <2> QED
    BY <2>1, <2>2
<1> QED
  BY <1>2, ServedStays

\* The server executes the query of the user that holds the connection, for
\* the first time, and no other.
LEMMA ExecuteServed ==
  ASSUME IInv, IInv', Bearers, PostOK, ReadsBack, ServedOnce, [Next]_vars,
         NEW u \in Client \cup Thread, NEW q, q = Doing(u), CN!Execute(u),
         served' = [served EXCEPT ![SentBy(u)] = @ + 1]
  PROVE  /\ ServedOnce' /\ q \in Text /\ Accepted(q) /\ q \in issued
         /\ Times(q) = 0 /\ \A p \in Text : Times(p)' = IF p = q THEN 1 ELSE Times(p)
<1>1. /\ phase[u] = "hold" /\ effect[u] = 0 /\ effect' = [effect EXCEPT ![u] = 1]
      /\ phase' = phase /\ effect \in [Client \cup Thread -> {0, 1}]
  BY DEF CN!Execute, IInv, TInv, TypeOK, CN!TypeOK
<1>2. /\ q \in Text \cap issued /\ q \notin Fresh /\ Accepted(q) /\ SentBy(u) = Formatted[q]
      /\ \A v \in Client \cup Thread : phase[v] # "idle" /\ Doing(v) = q => v = u
  BY <1>1, DoingIs
<1>3. /\ \A p \in Text : Formatted[p] = Formatted[q] => p = q
      /\ \A p \in Text : Formatted[p] \in Statement
  BY <1>2, XEMySqlAssumption DEF IsInjective, Statement
<1>4. served \in [Statement -> Nat]
  BY DEF IInv, TInv, TypeOK
<1>5. Times(q) = 0
  BY <1>1, <1>2 DEF ServedOnce
<1>6. \A p \in Text : Times(p)' = IF p = q THEN 1 ELSE Times(p)
  <2>1. ASSUME NEW p \in Text, p # q PROVE Times(p)' = Times(p)
    BY <1>2, <1>3, <1>4, <2>1 DEF Times
  <2>2. Times(q)' = 1
    BY <1>2, <1>3, <1>4, <1>5 DEF Times
  <2> QED
    BY <2>1, <2>2
<1>7. ASSUME NEW p \in Fresh' PROVE Times(p)' = 0
  <2>1. p \in Fresh
    BY <1>7, FreshNext
  <2>2. p \in Text
    BY <2>1, UnservedCarry DEF Fresh, Bearers
  <2> QED
    BY <1>2, <1>6, <2>1, <2>2 DEF ServedOnce
<1>8. ASSUME NEW v \in Client \cup Thread, phase'[v] # "idle" PROVE Times(Doing(v))' = effect'[v]
  <2>1. phase[v] # "idle"
    BY <1>1, <1>8
  <2>2. Doing(v)' = Doing(v) /\ Doing(v) \in Text
    BY <2>1, DoingKept, DoingIs
  <2>3. Times(Doing(v))' = served'[Formatted[Doing(v)]]
    BY <2>2 DEF Times
  <2>4. served'[Formatted[Doing(v)]] = IF Doing(v) = q THEN 1 ELSE Times(Doing(v))
    BY <1>6, <2>2 DEF Times
  <2>5. CASE v = u
    BY <1>1, <2>3, <2>4, <2>5
  <2>6. CASE v # u
    BY <1>1, <1>2, <2>1, <2>3, <2>4, <2>6 DEF ServedOnce
  <2> QED
    BY <2>5, <2>6
<1>9. \A v \in Client \cup Thread : phase'[v] # "hold" => effect'[v] = 0
  BY <1>1 DEF ServedOnce
<1>10. \A p \in Text : Times(p)' \in {0, 1}
  BY <1>6 DEF ServedOnce
<1> QED
  BY <1>2, <1>5, <1>6, <1>7, <1>8, <1>9, <1>10 DEF ServedOnce

-----------------------------------------------------------------------------
(* The composition implements AsyncQuery *)

AInv == Bearers /\ PostOK /\ ReadsBack /\ ServedOnce

\* A step in which the server executes nothing: a query is submitted, ends or
\* is lost, or all keep their status.
LEMMA MovesStep ==
  ASSUME IInv, IInv', AInv, [Next]_vars, served' = served
  PROVE  Bearers' /\ [AQ!Next]_<<StatusOf, [q \in Text |-> Times(q)]>>
<1> USE DEF AInv
<1>1. UNCHANGED [q \in Text |-> Times(q)]
  BY DEF Times
<1>2. CASE Stays
  BY <1>1, <1>2, StaysStatus
<1>3. ASSUME NEW c \in Client, Ends(c) PROVE Bearers' /\ AQ!Next
  <2>1. PICK q : q = cmd[c]
    OBVIOUS
  <2>2. /\ Bearers' /\ q \in Text /\ StatusOf[q] = "accepted"
        /\ StatusOf' = [StatusOf EXCEPT ![q] = "finished"]
    BY <1>3, <2>1, EndsStatus
  <2>3. AQ!Finish(q)
    BY <1>1, <2>2 DEF AQ!Finish, Times
  <2> QED
    BY <2>2, <2>3 DEF AQ!Next
<1>4. ASSUME NEW c \in Client, NEW q \in Text, Starts(c, q) PROVE Bearers' /\ AQ!Next
  <2>1. /\ Bearers' /\ StatusOf[q] = "unsent"
        /\ StatusOf' = [StatusOf EXCEPT ![q] = "accepted"]
    BY <1>4, StartsStatus
  <2>2. AQ!Submit(q)
    BY <1>1, <2>1 DEF AQ!Submit, Times
  <2> QED
    BY <2>1, <2>2 DEF AQ!Next
<1>5. ASSUME NEW c \in Client, HandsOver(c, task[c]) PROVE Bearers' /\ StatusOf' = StatusOf
  BY <1>5, HandsOverStatus
<1>6. ASSUME NEW c \in Client, stage[c] = "post", Drops(c, task[c]) PROVE Bearers' /\ AQ!Next
  <2>1. PICK q : q = cmd[c]
    OBVIOUS
  <2>2. /\ Bearers' /\ q \in Text /\ StatusOf[q] = "accepted"
        /\ StatusOf' = [p \in Text |-> IF p \in {q} THEN "lost" ELSE StatusOf[p]]
    BY <1>6, <2>1, DropsStatus
  <2>3. Times(q) = 0
    BY <1>6, <2>1 DEF Drops, Passes, ServedOnce, Fresh
  <2>4. AQ!Lose({q})
    BY <1>1, <2>2, <2>3 DEF AQ!Lose, Times
  <2> QED
    BY <2>2, <2>4 DEF AQ!Next
<1>7. CASE Discards(InPort \ {NullTask})
  <2>0. PICK S : S = InPort \ {NullTask}
    OBVIOUS
  <2>1. PICK Q : \A q : q \in Q <=> \E t \in S : wanted[t] = q
    <3>1. \A q : q \in {wanted[t] : t \in S} <=> \E t \in S : wanted[t] = q
      OBVIOUS
    <3> QED
      BY <3>1
  <2>2. Discards(S) /\ S \cap Leaked = {}
    BY <1>7, <2>0, LeakedApart DEF Running
  <2>3. /\ Bearers' /\ Q \subseteq Text /\ \A q \in Q : StatusOf[q] = "accepted"
        /\ StatusOf' = [p \in Text |-> IF p \in Q THEN "lost" ELSE StatusOf[p]]
    BY <2>1, <2>2, DiscardsStatus
  <2>4. \A q \in Q : Times(q) = 0
    BY <2>0, <2>1 DEF ServedOnce, Fresh, Unserved
  <2>5. CASE Q = {}
    BY <1>1, <2>3, <2>5 DEF StatusOf
  <2>6. CASE Q # {}
    <3>1. AQ!Lose(Q)
      BY <1>1, <2>3, <2>4, <2>6 DEF AQ!Lose, Times
    <3> QED
      BY <2>3, <3>1 DEF AQ!Next
  <2> QED
    BY <2>5, <2>6
<1>8. ASSUME NEW w \in Thread, Completes(job[w]) PROVE Bearers' /\ AQ!Next
  <2>1. PICK q : q = wanted[job[w]]
    OBVIOUS
  <2>2. /\ Bearers' /\ q \in Text /\ StatusOf[q] = "accepted"
        /\ StatusOf' = [StatusOf EXCEPT ![q] = "finished"]
    BY <1>8, <2>1, CompletesStatus
  <2>3. AQ!Finish(q)
    BY <1>1, <2>2 DEF AQ!Finish, Times
  <2> QED
    BY <2>2, <2>3 DEF AQ!Next
<1> QED
  BY <1>1, <1>2, <1>3, <1>4, <1>5, <1>6, <1>7, <1>8, Moves

\* A step inside Query.
LEMMA QueryServes ==
  ASSUME IInv, IInv', AInv, [Next]_vars, Stays, NEW u \in Client \cup Thread, QueryStep(u)
  PROVE  Bearers' /\ ServedOnce' /\ [AQ!Next]_<<StatusOf, [q \in Text |-> Times(q)]>>
<1> USE DEF AInv
<1>1. CASE (CN!Acquire(u) \/ CN!Release(u)) /\ served' = served
  BY <1>1, HoldServed, MovesStep
<1>2. CASE CN!Execute(u) /\ served' = [served EXCEPT ![SentBy(u)] = @ + 1]
  <2>1. PICK q : q = Doing(u)
    OBVIOUS
  <2>2. /\ ServedOnce' /\ q \in Text /\ Accepted(q) /\ q \in issued
        /\ Times(q) = 0 /\ \A p \in Text : Times(p)' = IF p = q THEN 1 ELSE Times(p)
    BY <1>2, <2>1, ExecuteServed
  <2>3. StatusOf' = StatusOf /\ Bearers'
    BY StaysStatus
  <2>4. StatusOf[q] = "accepted"
    BY <2>2, StatusIs
  <2>5. [p \in Text |-> Times(p)]' = [[p \in Text |-> Times(p)] EXCEPT ![q] = 1]
    BY <2>2
  <2>6. AQ!Execute(q)
    BY <2>2, <2>3, <2>4, <2>5 DEF AQ!Execute, Times
  <2> QED
    BY <2>2, <2>3, <2>6 DEF AQ!Next
<1> QED
  BY <1>1, <1>2 DEF QueryStep

LEMMA StepServes ==
  ASSUME IInv, IInv', AInv, [Next]_vars
  PROVE  AInv' /\ [AQ!Next]_<<StatusOf, [q \in Text |-> Times(q)]>>
<1> USE DEF AInv
<1>0. PostOK' /\ ReadsBack'
  BY PostKept, ReadsBackKept
<1>1. ASSUME NEW c \in Client, ClientStep(c)
      PROVE  AInv' /\ [AQ!Next]_<<StatusOf, [q \in Text |-> Times(q)]>>
  <2>1. Stays /\ QueryStep(c)
    BY <1>1, QuietClientMoves DEF ClientStep
  <2> QED
    BY <1>0, <2>1, QueryServes
<1>2. ASSUME NEW w \in Thread, WorkerStep(w)
      PROVE  AInv' /\ [AQ!Next]_<<StatusOf, [q \in Text |-> Times(q)]>>
  <2>1. QueryStep(w) /\ phase[w] # "idle"
    BY <1>2, QueryStepTypes DEF WorkerStep, IInv, TInv
  <2>2. ~ReleaseInit(w)
    BY <2>1 DEF ReleaseInit
  <2>3. Stays
    BY <1>2, <2>2, WorkerMoves DEF WorkerNext
  <2> QED
    BY <1>0, <2>1, <2>3, QueryServes
<1>3. ASSUME NEW c \in Client, NEW q \in Query, ClientQuery(c, q) PROVE ServedOnce'
  <2>1. BeginQuery(c) /\ served' = served /\ cmd' = [cmd EXCEPT ![c] = q] /\ q \in Text \ issued
    BY <1>3 DEF ClientQuery, Issue, Query
  <2>2. Doing(c)' \in Fresh
    BY <2>1 DEF Doing, Fresh, IInv, TInv, TypeOK
  <2> QED
    BY <2>1, <2>2, BeginServed
<1>4. ASSUME NEW w \in Thread, ProcessTask(w) PROVE ServedOnce'
  <2>1. /\ BeginQuery(w) /\ served' = served /\ step[w] = "query" /\ pc[w] = "busy"
        /\ job[w] # NullTask /\ job' = job /\ wanted' = wanted
    BY <1>4 DEF ProcessTask, tpVars, tkVars
  <2>2. WorkerTask(w) = job[w] /\ job[w] \in Task
    <3>1. WorkerTask(w) = job[w]
      BY <2>1 DEF WorkerTask
    <3> QED
      BY <2>1, <3>1, HeldAreMade, XEMySqlAssumption DEF IInv, Task, NullTask
  <2>3. wanted[job[w]] \in Fresh
    BY <2>1, <2>2 DEF Fresh, Unserved, Waiting
  <2>4. Doing(w)' \in Fresh
    BY <2>1, <2>3, XEMySqlAssumption DEF Doing
  <2> QED
    BY <2>1, <2>4, BeginServed
<1>5. ASSUME ~\E c \in Client : ClientStep(c), ~\E w \in Thread : WorkerStep(w)
      PROVE  ServedOnce' /\ served' = served
  <2>1. CASE \/ \E c \in Client, q \in Query : ClientQuery(c, q)
             \/ \E w \in Thread : ProcessTask(w)
    BY <1>3, <1>4, <2>1 DEF ClientQuery, ProcessTask
  <2>2. CASE ~ \/ \E c \in Client, q \in Query : ClientQuery(c, q)
               \/ \E w \in Thread : ProcessTask(w)
    <3>1. served' = served /\ cnVars' = cnVars
      BY <1>5, <2>2 DEF Next, vars, Owner, ClientNext, GetFreeJob, GetFreeJobThrows, FillJob,
         Post, ClientReturns, ExecuteQueryNoRet, WorkerNext, WorkerIdle, ReleaseInit,
         ReleaseFree, ProcessTaskReturns
    <3> QED
      BY <3>1, OutsideServed
  <2> QED
    BY <2>1, <2>2
<1>6. CASE (~\E c \in Client : ClientStep(c)) /\ (~\E w \in Thread : WorkerStep(w))
  BY <1>0, <1>5, <1>6, MovesStep
<1> QED
  BY <1>1, <1>2, <1>6

LEMMA InitServes == Init => AInv /\ AQ!Init
<1> SUFFICES ASSUME Init PROVE AInv /\ AQ!Init
  OBVIOUS
<1>1. IInv
  BY InitIInv
<1>2. /\ Asking = {} /\ AtWork = {} /\ issued = {} /\ InPort = {}
      /\ created = JobCount /\ ToSet(m_FreeList) = 1..JobCount
  BY <1>1, EmptyOnce, PortIs
     DEF Init, TP!Init, Asking, AtWork, WorkerTask, Task, NullTask, ToSet
<1>3. Leaked = {} /\ Waiting = {}
  <2>1. Leaked = {}
    BY <1>2 DEF Leaked
  <2>2. Waiting = {}
    BY DEF Init, TP!Init, Waiting, WorkerTask, Task, NullTask
  <2> QED
    BY <2>1, <2>2
<1>4. Bearers /\ PostOK
  BY <1>2, <1>3 DEF Bearers, Carrying, Running, PostOK, Init
<1>5. ReadsBack
  BY DEF Init, ReadsBack, TK!FilledReadsBack, TK!Task, Task
<1>6. \A q \in Text : Times(q) = 0
  BY DEF Times, Init, Statement
<1>7. ServedOnce
  <2>1. \A q \in Fresh : q \in Text
    BY <1>2, <1>3 DEF Fresh, Unserved
  <2>2. \A u \in Client \cup Thread : phase[u] = "idle" /\ effect[u] = 0
    BY DEF Init, CN!Init
  <2> QED
    BY <1>6, <2>1, <2>2 DEF ServedOnce
<1>8. StatusOf = [q \in Text |-> "unsent"]
  BY <1>2 DEF StatusOf
<1> QED
  BY <1>4, <1>5, <1>6, <1>7, <1>8 DEF AInv, AQ!Init, Times

\* A query is executed at most once, only between its submission and its end,
\* and never if it is lost, whatever clients, workers, Stops and connections
\* do.
THEOREM QueriesKept == Spec => ImplementsAsyncQuery
<1>1. Init => AInv /\ AQ!Init
  BY InitServes
<1>2. IInv /\ IInv' /\ AInv /\ [Next]_vars => AInv'
  BY StepServes
<1>3. IInv /\ IInv' /\ AInv /\ [Next]_vars =>
        [AQ!Next]_<<StatusOf, [q \in Text |-> served[Formatted[q]]]>>
  BY StepServes DEF Times
<1> QED
  BY <1>1, <1>2, <1>3, Inductive, PTL DEF Spec, ImplementsAsyncQuery, AQ!Spec

-----------------------------------------------------------------------------
(* The thread pool and the connections inside the composition *)

TPP == INSTANCE ThreadPoolProofs WITH Job <- 0..MaxTasks

\* The two instances bring their own copies of the operators on finite sets.
LEMMA SameFinite ==
  ASSUME NEW S
  PROVE  (TPP!IsFiniteSet(S) <=> IsFiniteSet(S)) /\ TPP!Cardinality(S) = TP!Cardinality(S)
<1>1. TPP!IsFiniteSet(S) <=> IsFiniteSet(S)
  BY DEF TPP!IsFiniteSet, IsFiniteSet
<1>2. TPP!Cardinality(S) = TP!Cardinality(S)
  BY DEF TPP!Cardinality, TP!Cardinality
<1> QED
  BY <1>1, <1>2

LEMMA SameSets ==
  /\ TPP!Running = TP!Running /\ TPP!Consumers = TP!Consumers
  /\ TPP!ExitIndices = TP!ExitIndices
  /\ \A p : TPP!Accepted(p) <=> TP!Accepted(p)
BY DEF TPP!Running, TP!Running, TPP!Consumers, TP!Consumers, TPP!ExitIndices,
       TP!ExitIndices, TPP!Accepted, TP!Accepted

LEMMA TPPAssumption == TPP!ThreadPoolAssumption
<1>1. EXIT \notin 0..MaxTasks /\ NoJob \notin (0..MaxTasks) \cup {EXIT}
  BY XEMySqlAssumption
<1>2. TPP!IsFiniteSet(Thread)
  BY ThreadAssumption, SameFinite
<1> QED
  BY <1>1, <1>2, XEMySqlAssumption, ThreadAssumption DEF TPP!ThreadPoolAssumption

\* The steps of the composition, as the thread pool sees them.
LEMMA PoolSteps ==
  ASSUME IInv, [Next]_vars
  PROVE  \/ TP!Start \/ TP!Stop \/ \E w \in Thread : TP!WorkerProc(w)
         \/ \E j \in 0..MaxTasks : \E p : TP!ProcessJob(j, p)
         \/ UNCHANGED TP!vars
<1>1. CASE UNCHANGED vars
  BY <1>1 DEF vars, tpVars, TP!vars, TP!portVars, TP!ownerVars, TP!workerVars
<1>2. CASE Owner
  BY <1>2 DEF Owner
<1>3. ASSUME NEW c \in Client, Post(c)
      PROVE  \E j \in 0..MaxTasks : \E p : TP!ProcessJob(j, p)
  <2>1. TP!ProcessJob(task[c], seen[c]) /\ stage[c] = "post"
    BY <1>3 DEF Post
  <2>2. task[c] \in 0..MaxTasks
    BY <2>1, XEMySqlAssumption DEF IInv, TInv, ClientOK, PoolOK
  <2> QED
    BY <2>1, <2>2
<1>4. ASSUME UNCHANGED tpVars PROVE UNCHANGED TP!vars
  BY <1>4 DEF tpVars, TP!vars, TP!portVars, TP!ownerVars, TP!workerVars
<1>5. ASSUME NEW c \in Client, ClientNext(c), ~Post(c) PROVE UNCHANGED tpVars
  BY <1>5 DEF ClientNext, GetFreeJob, GetFreeJobThrows, FillJob, ClientStep, QueryStep,
              ClientReturns
<1>6. ASSUME NEW c \in Client, NEW q \in Query, ExecuteQueryNoRet(c, q) \/ ClientQuery(c, q)
      PROVE  UNCHANGED tpVars
  BY <1>6 DEF ExecuteQueryNoRet, ClientQuery
<1>7. ASSUME NEW w \in Thread, WorkerNext(w) PROVE TP!WorkerProc(w) \/ UNCHANGED tpVars
  BY <1>7 DEF WorkerNext, WorkerIdle, ProcessTask, WorkerStep, QueryStep, ReleaseInit,
              ReleaseFree, ProcessTaskReturns, TP!WorkerProc
<1> QED
  BY <1>1, <1>2, <1>3, <1>4, <1>5, <1>6, <1>7 DEF Next

LEMMA ProofSteps == ASSUME IInv, [Next]_vars PROVE TPP!PoolStep
<1> USE DEF TP!portVars, TPP!portVars, TP!ownerVars, TPP!ownerVars, TP!workerVars,
            TPP!workerVars
<1>1. TP!Start => TPP!Start
  BY DEF TP!Start, TPP!Start, TP!StartBegin, TPP!StartBegin, TP!StartThread, TPP!StartThread,
         TP!StartEnd, TPP!StartEnd
<1>2. TP!Stop => TPP!Stop
  BY DEF TP!Stop, TPP!Stop, TP!StopBegin, TPP!StopBegin, TP!StopPost, TPP!StopPost,
         TP!StopWait, TPP!StopWait, TP!StopClose, TPP!StopClose
<1>3. ASSUME NEW w \in Thread, TP!WorkerProc(w) PROVE TPP!WorkerProc(w)
  BY <1>3 DEF TP!WorkerProc, TPP!WorkerProc, TP!GetPort, TPP!GetPort, TP!Take, TPP!Take,
     TP!PortGone, TPP!PortGone, TP!Finish, TPP!Finish, TP!RemoveThread, TPP!RemoveThread,
     TP!Accepted, TPP!Accepted
<1>4. ASSUME NEW j \in 0..MaxTasks, NEW p, TP!ProcessJob(j, p) PROVE TPP!ProcessJob(j, p)
  <2>1. TPP!Cardinality(DOMAIN queue \ TPP!ExitIndices)
          = TP!Cardinality(DOMAIN queue \ TP!ExitIndices)
    BY SameSets, SameFinite
  <2> QED
    BY <1>4, <2>1, SameSets DEF TP!ProcessJob, TPP!ProcessJob
<1>5. UNCHANGED TP!vars => UNCHANGED TPP!vars
  BY DEF TP!vars, TPP!vars
<1> QED
  BY <1>1, <1>2, <1>3, <1>4, <1>5, PoolSteps DEF TPP!PoolStep

\* What ThreadPool promises holds in the composition, where clients also post
\* NULL, any number of times: the list of threads is exact, Stop's iterator
\* stays valid, and every worker finds an EXIT packet.
THEOREM ThreadsKept ==
  Spec => [](TP!ListedIffRunning /\ TP!IteratorValid /\ TP!EnoughExits)
<1> DEFINE PInv == TPP!IInv /\ TPP!EnoughExits
<1>1. Init => PInv
  <2> SUFFICES ASSUME Init PROVE PInv
    OBVIOUS
  <2>1. TPP!Init
    BY DEF Init, TP!Init, TPP!Init
  <2>2. TPP!IInv
    BY <2>1, TPPAssumption, TPP!InitIInv
  <2>3. TPP!EnoughExits
    BY <2>1 DEF TPP!Init, TPP!EnoughExits
  <2> QED
    BY <2>2, <2>3
<1>2. IInv /\ PInv /\ [Next]_vars => PInv'
  <2> SUFFICES ASSUME IInv, PInv, [Next]_vars PROVE PInv'
    OBVIOUS
  <2>1. TPP!PoolStep
    BY ProofSteps
  <2>2. TPP!IInv'
    BY <2>1, TPPAssumption, TPP!StepIInv
  <2> QED
    BY <2>1, <2>2, TPPAssumption, TPP!StepEnough
<1>3. PInv => TP!ListedIffRunning /\ TP!IteratorValid /\ TP!EnoughExits
  <2>1. TPP!ListedIffRunning => TP!ListedIffRunning
    BY SameSets DEF TPP!ListedIffRunning, TP!ListedIffRunning
  <2>2. TPP!IteratorValid => TP!IteratorValid
    BY DEF TPP!IteratorValid, TP!IteratorValid
  <2>3. /\ TPP!Cardinality(TPP!Consumers) = TP!Cardinality(TP!Consumers)
        /\ TPP!Cardinality(TPP!ExitIndices) = TP!Cardinality(TP!ExitIndices)
        /\ TPP!Cardinality(toVisit) = TP!Cardinality(toVisit)
    BY SameSets, SameFinite
  <2>4. TPP!EnoughExits => TP!EnoughExits
    BY <2>3 DEF TPP!EnoughExits, TP!EnoughExits
  <2> QED
    BY <2>1, <2>2, <2>4 DEF TPP!IInv
<1> QED
  BY <1>1, <1>2, <1>3, Inductive, PTL DEF Spec

-----------------------------------------------------------------------------

\* Clients and workers use the connections as Connections says; with no
\* connection at all they do nothing with them.
THEOREM UsesConnections == Spec => CN!Spec
<1>1. Init => CN!Init
  BY DEF Init
<1>2. [Next]_vars => [CN!Next]_(CN!vars)
  <2> SUFFICES ASSUME [Next]_vars PROVE CN!Next \/ UNCHANGED CN!vars
    OBVIOUS
  <2> USE DEF CN!Next
  <2>1. ASSUME UNCHANGED cnVars PROVE UNCHANGED CN!vars
    BY <2>1 DEF cnVars, CN!vars
  <2>2. ASSUME NEW u \in Client \cup Thread, QueryStep(u) PROVE CN!Next
    BY <2>2 DEF QueryStep
  <2>3. ASSUME NEW u \in Client \cup Thread, BeginQuery(u) PROVE CN!Next \/ UNCHANGED cnVars
    BY <2>3 DEF BeginQuery
  <2>4. CASE UNCHANGED vars \/ Owner
    BY <2>1, <2>4 DEF vars, Owner
  <2>5. ASSUME NEW c \in Client, ClientNext(c) PROVE CN!Next \/ UNCHANGED cnVars
    BY <2>2, <2>5 DEF ClientNext, GetFreeJob, GetFreeJobThrows, FillJob, Post, ClientStep,
                      ClientReturns
  <2>6. ASSUME NEW c \in Client, NEW q \in Query, ExecuteQueryNoRet(c, q) \/ ClientQuery(c, q)
        PROVE  CN!Next \/ UNCHANGED cnVars
    BY <2>3, <2>6 DEF ExecuteQueryNoRet, ClientQuery
  <2>7. ASSUME NEW w \in Thread, WorkerNext(w) PROVE CN!Next \/ UNCHANGED cnVars
    BY <2>2, <2>3, <2>7 DEF WorkerNext, WorkerIdle, ProcessTask, WorkerStep, ReleaseInit,
                            ReleaseFree, ProcessTaskReturns
  <2> QED
    BY <2>1, <2>4, <2>5, <2>6, <2>7 DEF Next
<1> QED
  BY <1>1, <1>2, PTL DEF Spec, CN!Spec

\* In every reachable state a thread inside a query holds exactly one
\* connection, and a thread between two queries holds none.
THEOREM OneConnection == Spec => []CN!HoldsOne
<1> DEFINE User == Client \cup Thread
           CInv == CN!TypeOK /\ CN!HoldsOne
<1>1. Init => CInv
  BY ThreadAssumption DEF Init, CN!Init, CN!TypeOK, CN!HoldsOne
<1>2. CInv /\ [CN!Next]_(CN!vars) => CInv'
  <2> SUFFICES ASSUME CInv, CN!Next \/ UNCHANGED CN!vars PROVE CInv'
    OBVIOUS
  <2> USE ThreadAssumption DEF CN!TypeOK, CN!HoldsOne
  <2>1. CASE UNCHANGED CN!vars
    BY <2>1 DEF CN!vars
  <2>2. ASSUME NEW u \in User, CN!Want(u) \/ CN!Execute(u) PROVE CInv'
    BY <2>2 DEF CN!Want, CN!Execute
  <2>3. ASSUME NEW u \in User, CN!Acquire(u) PROVE CInv'
    <3>1. PICK c \in Con : owner[c] = NoUser /\ owner' = [owner EXCEPT ![c] = u]
      BY <2>3 DEF CN!Acquire
    <3>2. phase[u] = "want" /\ phase' = [phase EXCEPT ![u] = "hold"] /\ effect' = effect
      BY <2>3 DEF CN!Acquire
    <3>3. \A d \in Con : owner[d] # u
      BY <3>2
    <3>4. CN!TypeOK'
      BY <3>1, <3>2
    <3>5. \A d \in Con : owner'[d] = IF d = c THEN u ELSE owner[d]
      BY <3>1
    <3>6. \A v \in User : phase'[v] = IF v = u THEN "hold" ELSE phase[v]
      BY <3>2
    <3>7. CN!HoldsOne'
      BY <3>1, <3>3, <3>5, <3>6
    <3> QED
      BY <3>4, <3>7
  <2>4. ASSUME NEW u \in User, CN!Release(u) PROVE CInv'
    <3>1. /\ owner' = [c \in Con |-> IF owner[c] = u THEN NoUser ELSE owner[c]]
          /\ phase' = [phase EXCEPT ![u] = "idle"]
          /\ effect' = [effect EXCEPT ![u] = 0]
      BY <2>4 DEF CN!Release
    <3>2. CN!TypeOK'
      BY <3>1
    <3>3. \A c \in Con : owner'[c] = IF owner[c] = u THEN NoUser ELSE owner[c]
      BY <3>1
    <3>4. \A v \in User : phase'[v] = IF v = u THEN "idle" ELSE phase[v]
      BY <3>1
    <3>5. CN!HoldsOne'
      BY <3>3, <3>4
    <3> QED
      BY <3>2, <3>5
  <2> QED
    BY <2>1, <2>2, <2>3, <2>4 DEF CN!Next
<1> QED
  BY <1>1, <1>2, UsesConnections, PTL DEF Spec, CN!Spec
=============================================================================
