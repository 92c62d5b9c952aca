-------------------------------- MODULE XEMySql --------------------------------
(***************************************************************************)
(* CXEMySql (xeMySql.h, xeMySql.cpp): clients submit queries, either as a  *)
(* task for the worker threads (ExecuteQueryNoRet) or on their own thread  *)
(* (Query with a CXEMySqlResult); a worker runs ProcessTask.  This module  *)
(* composes ThreadPool, TaskPool and Connections (which ConnectionPool     *)
(* implements) over their variables: each step is a step of one of them,   *)
(* taken under the control of the client's or the worker's code.           *)
(* Initialize has succeeded: the pool and the worker object exist.         *)
(***************************************************************************)
EXTENDS Naturals, Sequences, FiniteSets, SequencesExt

CONSTANTS
  Client,                                    \* the threads of the program
  Thread, NoJob, EXIT, ProcessNum, StaleHandles, MaxStarts, MaxQueue,
  Text, Length, Empty, Mixed, JobCount, MaxStep, MaxTasks,
  NoUser, Con,
  NullQuery,   \* ExecuteQueryNoRet(NULL)
  Formatted    \* what vsnprintf makes of a text that is passed as its format

Query == Text \cup {NullQuery}
Statement == {Formatted[q] : q \in Text} \cup {Empty, Mixed}

\* XEMySqlAssumption is about queries and what the components assume of them
\* and of tasks, ThreadAssumption what they assume of threads.
ASSUME XEMySqlAssumption ==
  /\ NullQuery \notin Text
  /\ IsInjective(Formatted) /\ DOMAIN Formatted = Text
  /\ \A q \in Text : Formatted[q] \notin {Empty, Mixed}
  /\ Client \cap Thread = {}
  /\ Length \in [Text -> Nat]
  /\ Empty \notin Text /\ Mixed \notin Text /\ Empty # Mixed
  /\ JobCount \in Nat /\ MaxTasks \in Nat /\ JobCount <= MaxTasks
  /\ MaxStep \in Nat \ {0}
  /\ StaleHandles \subseteq Thread
  /\ EXIT \notin 0..MaxTasks /\ NoJob \notin (0..MaxTasks) \cup {EXIT}
  /\ ProcessNum \in Nat /\ MaxStarts \in Nat

ASSUME ThreadAssumption ==
  /\ IsFiniteSet(Thread) /\ Thread \subseteq Nat /\ MaxQueue \in Nat
  /\ NoUser \notin Client \cup Thread

VARIABLES
  port, isOpen, queue, m_ThreadList, ctl, toCreate, toVisit, waitSet, pc, handle, job,
  m_nStepCount, created, m_FreeList, szQuery, wanted,
  owner, phase, effect,
  stage,    \* where each client is in its call
  cmd,      \* the query of each client
  task,     \* pTask of each client
  seen,     \* the port each client read for its PostQueuedCompletionStatus
  step,     \* where each worker is in ProcessTask
  issued,   \* the queries submitted so far, each at most once
  served    \* times the server executed each statement

tpVars == <<port, isOpen, queue, m_ThreadList, ctl, toCreate, toVisit, waitSet, pc, handle, job>>
tkVars == <<m_nStepCount, created, m_FreeList, szQuery, wanted>>
poolVars == <<m_nStepCount, created, m_FreeList>>
cnVars == <<owner, phase, effect>>
clientVars == <<stage, cmd, task, seen, issued>>
vars == <<tpVars, tkVars, cnVars, clientVars, step, served>>

NullTask == 0      \* GetFreeJob(NULL)
Task == 1..MaxTasks

TP == INSTANCE ThreadPool WITH Job <- 0..MaxTasks
CN == INSTANCE Connections WITH User <- Client \cup Thread

\* The tasks in the hands of a client, of the port and of a worker.  A worker
\* gives its task up with the Free of ReleaseJob, before ProcessTask returns.
ClientTask(c) == IF stage[c] \in {"fill", "post"} THEN task[c] ELSE NullTask
WorkerTask(w) == IF pc[w] = "busy" /\ step[w] # "return" THEN job[w] ELSE NullTask
InPort == TP!Queued

Held == {ClientTask(c) : c \in Client} \cup {WorkerTask(w) : w \in Thread} \cup InPort

\* A task that left GetFreeJob and is in nobody's hands will not come back.
Leaked == (1..created) \ (ToSet(m_FreeList) \cup Held)

\* The protocol state of each task, as TaskPool records it.
UseOf == [t \in Task |->
  IF t > created THEN "none"
  ELSE IF \E c \in Client : stage[c] = "fill" /\ task[c] = t THEN "taken"
  ELSE IF \E w \in Thread : WorkerTask(w) = t /\ step[w] = "free" THEN "cleared"
  ELSE IF t \in Leaked \cup Held THEN "filled"
  ELSE "free"]

TK == INSTANCE TaskPool WITH use <- UseOf

Init ==
  /\ TP!Init /\ CN!Init
  /\ m_nStepCount \in 1..MaxStep /\ created = JobCount
  /\ m_FreeList = [t \in 1..JobCount |-> t]
  /\ szQuery = [t \in Task |-> Empty] /\ wanted = [t \in Task |-> Empty]
  /\ stage = [c \in Client |-> "idle"] /\ cmd = [c \in Client |-> NullQuery]
  /\ task = [c \in Client |-> NullTask] /\ seen = [c \in Client |-> 0]
  /\ step = [w \in Thread |-> "query"]
  /\ issued = {} /\ served = [s \in Statement |-> 0]

-----------------------------------------------------------------------------
(* The owner: Start and Stop go straight to the thread pool. *)

Owner ==
  (TP!Start \/ TP!Stop) /\ UNCHANGED <<tkVars, cnVars, clientVars, step, served>>

-----------------------------------------------------------------------------
(* ExecuteQueryNoRet *)

Issue(c, q) ==
  /\ stage[c] = "idle" /\ q \notin issued
  /\ issued' = issued \cup {q}
  /\ cmd' = [cmd EXCEPT ![c] = q]

\* GetFreeJob(NULL) is NULL, and is posted all the same.
ExecuteQueryNoRet(c, q) ==
  /\ Issue(c, q)
  /\ \/ q # NullQuery /\ stage' = [stage EXCEPT ![c] = "alloc"] /\ UNCHANGED seen
     \/ /\ q = NullQuery /\ stage' = [stage EXCEPT ![c] = "post"]
        /\ seen' = [seen EXCEPT ![c] = port]
  /\ UNCHANGED <<tpVars, tkVars, cnVars, task, step, served>>

GetFreeJob(c) ==
  /\ stage[c] = "alloc"
  /\ \E t \in Task : TK!PoolAlloc(t) /\ task' = [task EXCEPT ![c] = t]
  /\ stage' = [stage EXCEPT ![c] = "fill"]
  /\ UNCHANGED <<tpVars, szQuery, wanted, cnVars, cmd, seen, issued, step, served>>

\* bad_alloc leaves ExecuteQueryNoRet: the query is refused.
GetFreeJobThrows(c) ==
  /\ stage[c] = "alloc" /\ TK!PoolAllocThrows
  /\ stage' = [stage EXCEPT ![c] = "idle"]
  /\ cmd' = [cmd EXCEPT ![c] = NullQuery]
  /\ UNCHANGED <<tpVars, szQuery, wanted, cnVars, task, seen, issued, step, served>>

\* The text is copied, and ProcessJob reads the handle of the port ...
FillJob(c) ==
  /\ stage[c] = "fill" /\ TK!CopyQuery(task[c], cmd[c])
  /\ seen' = [seen EXCEPT ![c] = port]
  /\ stage' = [stage EXCEPT ![c] = "post"]
  /\ UNCHANGED <<tpVars, poolVars, cnVars, cmd, task, issued, step, served>>

\* Mutant: the client returns the task it has just posted to the pool.
Post_Frees(c) ==
  /\ stage[c] = "post" /\ TP!ProcessJob(task[c], seen[c])
  /\ task[c] # NullTask /\ TK!PoolFree(task[c])
  /\ stage' = [stage EXCEPT ![c] = "idle"]
  /\ cmd' = [cmd EXCEPT ![c] = NullQuery]
  /\ task' = [task EXCEPT ![c] = NullTask]
  /\ seen' = [seen EXCEPT ![c] = 0]
  /\ UNCHANGED <<szQuery, wanted, cnVars, issued, step, served>>

\* ... that it posts to.
Post(c) ==
  /\ stage[c] = "post" /\ TP!ProcessJob(task[c], seen[c])
  /\ stage' = [stage EXCEPT ![c] = "idle"]
  /\ cmd' = [cmd EXCEPT ![c] = NullQuery]
  /\ task' = [task EXCEPT ![c] = NullTask]
  /\ seen' = [seen EXCEPT ![c] = 0]
  /\ UNCHANGED <<tkVars, cnVars, issued, step, served>>

-----------------------------------------------------------------------------
(* Query, on a client's thread or from ProcessTask *)

\* The bytes mysql_real_query sends for user u.
SentBy(u) ==
  LET text == IF u \in Client THEN cmd[u] ELSE szQuery[job[u]]
  IN IF text \in Text THEN Formatted[text] ELSE text

\* A step inside Query, once GetFreeCon has been called.
QueryStep(u) ==
  /\ \/ (CN!Acquire(u) \/ CN!Release(u)) /\ UNCHANGED served
     \/ CN!Execute(u) /\ served' = [served EXCEPT ![SentBy(u)] = @ + 1]
  /\ UNCHANGED <<tpVars, tkVars, task, seen, issued, step>>

\* GetFreeCon is called; with no connection it returns NULL at once.
BeginQuery(u) == CN!Want(u) \/ (Con = {} /\ UNCHANGED cnVars)

\* A client that calls Query itself.
ClientQuery(c, q) ==
  /\ q # NullQuery /\ Issue(c, q) /\ BeginQuery(c)
  /\ stage' = [stage EXCEPT ![c] = "query"]
  /\ UNCHANGED <<tpVars, tkVars, task, seen, step, served>>

ClientStep(c) == stage[c] = "query" /\ QueryStep(c) /\ UNCHANGED <<stage, cmd>>

ClientReturns(c) ==
  /\ stage[c] = "query" /\ phase[c] = "idle"
  /\ stage' = [stage EXCEPT ![c] = "idle"]
  /\ cmd' = [cmd EXCEPT ![c] = NullQuery]
  /\ UNCHANGED <<tpVars, tkVars, cnVars, task, seen, issued, step, served>>

-----------------------------------------------------------------------------
(* WorkerProc and ProcessTask *)

WorkerIdle(w) ==
  /\ TP!GetPort(w) \/ TP!Take(w) \/ TP!PortGone(w) \/ TP!RemoveThread(w)
  /\ UNCHANGED <<tkVars, cnVars, clientVars, step, served>>

\* A NULL task is ignored; the others go to Query(szQuery, &res).
ProcessTask(w) ==
  /\ pc[w] = "busy" /\ job[w] # NullTask /\ step[w] = "query"
  /\ BeginQuery(w)
  /\ step' = [step EXCEPT ![w] = "release"]
  /\ UNCHANGED <<tpVars, tkVars, clientVars, served>>

WorkerStep(w) == pc[w] = "busy" /\ QueryStep(w) /\ UNCHANGED <<stage, cmd>>

\* Mutants: the task is released while its query runs; its Init is skipped.
ReleaseInit_Early(w) ==
  /\ step[w] = "release"
  /\ TK!InitTask(job[w])
  /\ step' = [step EXCEPT ![w] = "free"]
  /\ UNCHANGED <<tpVars, poolVars, cnVars, clientVars, served>>

ReleaseInit_Skipped(w) ==
  /\ step[w] = "release" /\ phase[w] = "idle"
  /\ step' = [step EXCEPT ![w] = "free"]
  /\ UNCHANGED <<tpVars, tkVars, cnVars, clientVars, served>>

\* ReleaseJob: Init, then Free.
ReleaseInit(w) ==
  /\ step[w] = "release" /\ phase[w] = "idle"
  /\ TK!InitTask(job[w])
  /\ step' = [step EXCEPT ![w] = "free"]
  /\ UNCHANGED <<tpVars, poolVars, cnVars, clientVars, served>>

ReleaseFree(w) ==
  /\ step[w] = "free"
  /\ TK!PoolFree(job[w])
  /\ step' = [step EXCEPT ![w] = "return"]
  /\ UNCHANGED <<tpVars, szQuery, wanted, cnVars, clientVars, served>>

\* Mutant: ProcessTask returns without ReleaseJob.
ProcessTaskReturns_Keeps(w) ==
  /\ job[w] = NullTask \/ (step[w] = "release" /\ phase[w] = "idle")
  /\ TP!Finish(w)
  /\ step' = [step EXCEPT ![w] = "query"]
  /\ UNCHANGED <<tkVars, cnVars, clientVars, served>>

ProcessTaskReturns(w) ==
  /\ job[w] = NullTask \/ step[w] = "return"
  /\ TP!Finish(w)
  /\ step' = [step EXCEPT ![w] = "query"]
  /\ UNCHANGED <<tkVars, cnVars, clientVars, served>>

ClientNext(c) ==
  \/ GetFreeJob(c) \/ GetFreeJobThrows(c) \/ FillJob(c) \/ Post(c)
  \/ ClientStep(c) \/ ClientReturns(c)

WorkerNext(w) ==
  \/ WorkerIdle(w) \/ ProcessTask(w) \/ WorkerStep(w)
  \/ ReleaseInit(w) \/ ReleaseFree(w) \/ ProcessTaskReturns(w)

Next ==
  \/ Owner
  \/ \E c \in Client : ClientNext(c)
       \/ \E q \in Query : ExecuteQueryNoRet(c, q) \/ ClientQuery(c, q)
  \/ \E w \in Thread : WorkerNext(w)

Spec == Init /\ [][Next]_vars

\* As for the components: threads are scheduled, the port serves its waiters
\* in no fair order, and nobody is obliged to submit, Start or Stop.
Fairness ==
  /\ WF_vars(Owner /\ ctl # "idle")
  /\ \A c \in Client : WF_vars(ClientNext(c))
  /\ WF_vars(\E w \in Thread : TP!Take(w) /\ WorkerIdle(w))
  /\ \A w \in Thread : WF_vars(WorkerNext(w) /\ ~TP!Take(w))

FairSpec == Spec /\ Fairness

-----------------------------------------------------------------------------
(* Properties *)

TypeOK ==
  /\ stage \in [Client -> {"idle", "alloc", "fill", "post", "query"}]
  /\ cmd \in [Client -> Query]
  /\ task \in [Client -> Task \cup {NullTask}]
  /\ seen \in [Client -> 0..MaxStarts]
  /\ step \in [Thread -> {"query", "release", "free", "return"}]
  /\ issued \subseteq Query
  /\ served \in [Statement -> Nat]
  /\ TP!TypeOK /\ CN!TypeOK

\* Every task is in one place at a time: on the free list, with one client,
\* once in the port, or with one worker.  Nobody writes, clears or posts a
\* task another thread may be reading.
TaskHasOneHolder ==
  /\ \A c \in Client : ClientTask(c) # NullTask =>
       /\ \A d \in Client \ {c} : ClientTask(d) # ClientTask(c)
       /\ ClientTask(c) \notin InPort \cup ToSet(m_FreeList)
       /\ \A w \in Thread : WorkerTask(w) # ClientTask(c)
  /\ \A w \in Thread : WorkerTask(w) # NullTask =>
       /\ \A v \in Thread \ {w} : WorkerTask(v) # WorkerTask(w)
       /\ WorkerTask(w) \notin InPort \cup ToSet(m_FreeList)
  /\ \A i, k \in DOMAIN queue : queue[i] = queue[k] /\ queue[i] \in Task => i = k
  /\ InPort \cap ToSet(m_FreeList) = {}

\* Every task on the free list has a buffer of zeros, so that the next query
\* copied into it, without a terminator, reads back as that query.
FreeTasksClean == \A t \in ToSet(m_FreeList) : szQuery[t] = Empty

\* The server only ever receives statements that clients submitted: never an
\* empty one (a task cleared before it is executed) and never the mixture of
\* two (a task recycled while its old text is in it).
OnlySubmitted == served[Empty] = 0 /\ served[Mixed] = 0

\* The clients that post, in this step, to a port that is not the open one.
PostsToNobody ==
  {c \in Client : stage[c] = "post" /\ stage'[c] # "post" /\ ~TP!Accepted(seen[c])}

\* A task leaks, and its query is lost, only when its own packet is posted to
\* a port that is not the open one, or is in the port when Stop closes it; no
\* leaked task comes back.
LostOnlyAtClosedPort ==
  [][Leaked' = Leaked \cup
       (({task[c] : c \in PostsToNobody} \cup (IF isOpen /\ ~isOpen' THEN InPort ELSE {}))
         \ {NullTask})]_vars

\* The client and worker code follow the pool's protocol: GetFreeJob is Alloc
\* then Fill, ReleaseJob is Clear then Free, each by the task's one holder.
ImplementsTaskPool == TK!Spec

InProgress(q) ==
  \/ \E c \in Client : cmd[c] = q /\ stage[c] # "idle"
  \/ \E t \in InPort \ {NullTask} : wanted[t] = q
  \/ \E w \in Thread : /\ WorkerTask(w) # NullTask /\ wanted[WorkerTask(w)] = q
                       /\ step[w] # "free"

StatusOf == [q \in Text |->
  IF q \notin issued THEN "unsent"
  ELSE IF InProgress(q) THEN "accepted"
  ELSE IF \E t \in Leaked : wanted[t] = q THEN "lost"
  ELSE "finished"]

AQ == INSTANCE AsyncQuery WITH
        status <- StatusOf, effect <- [q \in Text |-> served[Formatted[q]]]

\* Each query is executed at most once, only between its submission and its
\* end, and a query that is lost was never executed.
ImplementsAsyncQuery == AQ!Spec

\* While the port stays open and a worker reads it, every client's call
\* returns and every task that was not lost comes back to the free list.
TasksComeBack ==
  <>[](isOpen /\ ctl = "idle" /\ TP!Serving # {})
    => <>[](/\ \A c \in Client : stage[c] = "idle"
            /\ 1..created = ToSet(m_FreeList) \cup Leaked)

=============================================================================
