--------------------------- MODULE ThreadPoolProofs ---------------------------
(***************************************************************************)
(* Proofs about ThreadPool for any number of processors, threads, jobs and *)
(* Starts, and any content of Stop's unfilled array.                       *)
(***************************************************************************)
EXTENDS ThreadPool, FiniteSetTheorems, TLAPS

\* Stop's iterator is used in its posting loop only: RemoveThread, which
\* runs while m_arrayCs is free, never runs with entries left to visit.
VisitOnlyPosting == ctl # "posting" => toVisit = {}

\* The inductive invariant.  IteratorValid alone is not inductive: a
\* RemoveThread could remove an entry still to be visited.
IInv == TypeOK /\ ListedIffRunning /\ IteratorValid /\ VisitOnlyPosting

LEMMA InitIInv == Init => IInv
<1> SUFFICES ASSUME Init PROVE IInv
  OBVIOUS
<1>1. queue \in Seq(Job \cup {EXIT})
  BY DEF Init
<1>2. TypeOK
  <2>1. port \in 0..MaxStarts /\ toCreate \in 0..ProcessNum
    BY ThreadPoolAssumption DEF Init
  <2>2. pc \in [Thread -> PC] /\ job \in [Thread -> Job \cup {NoJob}]
    BY DEF Init, PC
  <2>3. handle \in [Thread -> 0..MaxStarts]
    BY <2>1 DEF Init
  <2> QED
    BY <1>1, <2>1, <2>2, <2>3 DEF Init, TypeOK
<1>3. ListedIffRunning /\ IteratorValid /\ VisitOnlyPosting
  BY DEF Init, ListedIffRunning, IteratorValid, VisitOnlyPosting, Running
<1> QED
  BY <1>2, <1>3 DEF IInv

\* One step of the owner inside Start keeps the invariant.
LEMMA StartIInv == IInv /\ Start => IInv'
<1> SUFFICES ASSUME IInv, Start PROVE IInv'
  OBVIOUS
<1> USE ThreadPoolAssumption DEF IInv, Running, PC, portVars, workerVars
<1>1. CASE StartBegin
  BY <1>1 DEF StartBegin, TypeOK, ListedIffRunning, IteratorValid, VisitOnlyPosting
<1>2. ASSUME NEW t \in Thread, StartThread(t) PROVE IInv'
  <2>1. PICK outcome \in {"loop", "failed"} : pc' = [pc EXCEPT ![t] = outcome]
    BY <1>2 DEF StartThread
  <2>2. TypeOK'
    BY <1>2, <2>1 DEF StartThread, TypeOK
  <2>3. ListedIffRunning'
    BY <1>2, <2>1 DEF StartThread, TypeOK, ListedIffRunning
  <2>4. (IteratorValid /\ VisitOnlyPosting)'
    BY <1>2 DEF StartThread, IteratorValid, VisitOnlyPosting
  <2> QED
    BY <2>2, <2>3, <2>4
<1>3. CASE StartEnd
  BY <1>3 DEF StartEnd, TypeOK, ListedIffRunning, IteratorValid, VisitOnlyPosting
<1> QED
  BY <1>1, <1>2, <1>3 DEF Start

LEMMA StopIInv == IInv /\ Stop => IInv'
<1> SUFFICES ASSUME IInv, Stop PROVE IInv'
  OBVIOUS
<1> USE ThreadPoolAssumption DEF IInv, Running, PC, portVars, workerVars
<1>1. CASE StopBegin
  BY <1>1 DEF StopBegin, TypeOK, ListedIffRunning, IteratorValid, VisitOnlyPosting
<1>2. CASE StopPost
  <2>1. queue' \in Seq(Job \cup {EXIT})
    BY <1>2 DEF StopPost, TypeOK
  <2>2. PICK e \in toVisit : toVisit' = toVisit \ {e}
    BY <1>2 DEF StopPost
  <2>3. TypeOK'
    BY <1>2, <2>1, <2>2 DEF StopPost, TypeOK
  <2>4. (ListedIffRunning /\ IteratorValid /\ VisitOnlyPosting)'
    BY <1>2, <2>2 DEF StopPost, ListedIffRunning, IteratorValid, VisitOnlyPosting
  <2> QED
    BY <2>3, <2>4
<1>3. CASE StopWait
  <2>1. waitSet' \subseteq Thread
    BY <1>3 DEF StopWait
  <2> QED
    BY <1>3, <2>1 DEF StopWait, TypeOK, ListedIffRunning, IteratorValid, VisitOnlyPosting
<1>4. CASE StopClose
  <2>1. queue' \in Seq(Job \cup {EXIT})
    BY <1>4 DEF StopClose
  <2> QED
    BY <1>4, <2>1
       DEF StopClose, TypeOK, ListedIffRunning, IteratorValid, VisitOnlyPosting
<1> QED
  BY <1>1, <1>2, <1>3, <1>4 DEF Stop

\* Whatever job is posted, and to whatever port.
LEMMA PostIInv == ASSUME IInv, NEW j \in Job, NEW p, ProcessJob(j, p) PROVE IInv'
<1>1. queue' \in Seq(Job \cup {EXIT})
  BY DEF IInv, TypeOK, ProcessJob
<1> QED
  BY <1>1 DEF IInv, ProcessJob, ownerVars, workerVars, TypeOK, ListedIffRunning,
              IteratorValid, VisitOnlyPosting

LEMMA WorkerIInv ==
  ASSUME IInv, NEW w \in Thread, WorkerProc(w) PROVE IInv'
<1> USE ThreadPoolAssumption DEF IInv, Running, PC, portVars, ownerVars
<1>1. CASE GetPort(w)
  BY <1>1 DEF GetPort, TypeOK, ListedIffRunning, IteratorValid, VisitOnlyPosting
<1>2. CASE Take(w)
  <2>1. queue' \in Seq(Job \cup {EXIT}) /\ Head(queue) \in Job \cup {EXIT}
    BY <1>2 DEF Take, TypeOK
  <2>2. CASE Head(queue) = EXIT
    BY <1>2, <2>1, <2>2
       DEF Take, TypeOK, ListedIffRunning, IteratorValid, VisitOnlyPosting
  <2>3. CASE Head(queue) # EXIT
    <3>1. TypeOK'
      BY <1>2, <2>1, <2>3 DEF Take, TypeOK
    <3>2. ListedIffRunning' /\ IteratorValid' /\ VisitOnlyPosting'
      BY <1>2, <2>1, <2>3 DEF Take, TypeOK, ListedIffRunning, IteratorValid, VisitOnlyPosting
    <3> QED
      BY <3>1, <3>2
  <2> QED
    BY <2>2, <2>3
<1>3. CASE PortGone(w)
  BY <1>3 DEF PortGone, TypeOK, ListedIffRunning, IteratorValid, VisitOnlyPosting
<1>4. CASE Finish(w)
  BY <1>4 DEF Finish, TypeOK, ListedIffRunning, IteratorValid, VisitOnlyPosting
<1>5. CASE RemoveThread(w)
  BY <1>5 DEF RemoveThread, TypeOK, ListedIffRunning, IteratorValid, VisitOnlyPosting
<1> QED
  BY <1>1, <1>2, <1>3, <1>4, <1>5 DEF WorkerProc

\* What the owner, the workers and any callers of ProcessJob can do.
PoolStep ==
  \/ Start \/ Stop \/ \E w \in Thread : WorkerProc(w)
  \/ \E j \in Job : \E p : ProcessJob(j, p)
  \/ UNCHANGED vars

LEMMA StepIInv == IInv /\ PoolStep => IInv'
<1> SUFFICES ASSUME IInv, PoolStep PROVE IInv'
  OBVIOUS
<1>1. CASE UNCHANGED vars
  BY <1>1 DEF vars, portVars, ownerVars, workerVars, IInv, TypeOK,
              ListedIffRunning, IteratorValid, VisitOnlyPosting
<1> QED
  BY <1>1, StartIInv, StopIInv, PostIInv, WorkerIInv DEF PoolStep

\* The inductive invariant holds in every reachable state.
THEOREM Inductive == Spec => []IInv
<1>1. Init => IInv
  BY InitIInv
<1>2. IInv /\ [Next]_vars => IInv'
  BY StepIInv DEF Next, Submit, PoolStep
<1> QED
  BY <1>1, <1>2, PTL DEF Spec

\* Every variable keeps its type.
THEOREM TypeCorrect == Spec => []TypeOK
BY Inductive, PTL DEF IInv

\* The list of threads is exact: the threads still in WorkerProc, and the
\* entries whose CreateThread failed, whatever Starts and Stops happened.
THEOREM ListExact == Spec => []ListedIffRunning
BY Inductive, PTL DEF IInv

\* No worker removes an entry that Stop's iterator has still to visit.
THEOREM IteratorSafe == Spec => []IteratorValid
BY Inductive, PTL DEF IInv

-----------------------------------------------------------------------------
(* Stop posts enough EXIT packets.  The argument counts: each step that      *)
(* takes an EXIT packet off the port also takes its worker out of Consumers. *)

Indices(s, e) == {i \in DOMAIN s : s[i] = e}

LEMMA IndicesFinite ==
  ASSUME NEW S, NEW s \in Seq(S), NEW e
  PROVE  IsFiniteSet(Indices(s, e)) /\ Cardinality(Indices(s, e)) \in Nat
<1>1. IsFiniteSet(1..Len(s))
  BY FS_Interval
<1>2. Indices(s, e) \subseteq 1..Len(s)
  BY DEF Indices
<1> QED
  BY <1>1, <1>2, FS_Subset, FS_CardinalityType

LEMMA IndicesAppend ==
  ASSUME NEW S, NEW s \in Seq(S), NEW x \in S, NEW e
  PROVE  Cardinality(Indices(Append(s, x), e))
           = Cardinality(Indices(s, e)) + (IF x = e THEN 1 ELSE 0)
<1>1. IsFiniteSet(Indices(s, e)) /\ Cardinality(Indices(s, e)) \in Nat
  BY IndicesFinite
<1>2. CASE x = e
  <2>1. Indices(Append(s, x), e) = Indices(s, e) \cup {Len(s) + 1}
    BY <1>2 DEF Indices
  <2>2. Len(s) + 1 \notin Indices(s, e)
    BY DEF Indices
  <2> QED
    BY <1>1, <1>2, <2>1, <2>2, FS_AddElement
<1>3. CASE x # e
  <2>1. Indices(Append(s, x), e) = Indices(s, e)
    BY <1>3 DEF Indices
  <2> QED
    BY <1>1, <1>3, <2>1
<1> QED
  BY <1>2, <1>3

LEMMA IndicesTail ==
  ASSUME NEW S, NEW s \in Seq(S), s # <<>>, NEW e
  PROVE  Cardinality(Indices(Tail(s), e))
           = Cardinality(Indices(s, e)) - (IF Head(s) = e THEN 1 ELSE 0)
<1> DEFINE rest == Indices(s, e) \ {1}
           shift == [i \in Indices(Tail(s), e) |-> i + 1]
<1>1. Tail(s) \in Seq(S) /\ Len(s) \in Nat /\ Len(s) > 0 /\ Len(Tail(s)) = Len(s) - 1
      /\ DOMAIN s = 1..Len(s) /\ DOMAIN Tail(s) = 1..(Len(s) - 1)
      /\ \A i \in 1..(Len(s) - 1) : Tail(s)[i] = s[i + 1]
  OBVIOUS
<1>2. shift \in Bijection(Indices(Tail(s), e), rest)
  <2>1. shift \in [Indices(Tail(s), e) -> rest]
    BY <1>1 DEF Indices
  <2>2. ASSUME NEW i \in Indices(Tail(s), e), NEW j \in Indices(Tail(s), e),
               shift[i] = shift[j]
        PROVE  i = j
    BY <1>1, <2>2 DEF Indices
  <2>3. ASSUME NEW k \in rest PROVE \E i \in Indices(Tail(s), e) : shift[i] = k
    <3>1. k - 1 \in Indices(Tail(s), e)
      BY <1>1 DEF Indices
    <3> QED
      BY <1>1, <3>1 DEF Indices
  <2> QED
    BY <2>1, <2>2, <2>3 DEF Bijection, Injection, Surjection, IsInjective
<1>3. Cardinality(rest) = Cardinality(Indices(Tail(s), e))
  <2>1. IsFiniteSet(Indices(Tail(s), e))
    BY <1>1, IndicesFinite
  <2>2. ExistsBijection(Indices(Tail(s), e), rest)
    BY <1>2 DEF ExistsBijection
  <2> HIDE DEF rest
  <2> QED
    BY <2>1, <2>2, FS_Bijection
<1>4. 1 \in Indices(s, e) <=> Head(s) = e
  BY <1>1 DEF Indices
<1>5. Cardinality(rest)
        = IF Head(s) = e THEN Cardinality(Indices(s, e)) - 1 ELSE Cardinality(Indices(s, e))
  BY <1>4, IndicesFinite, FS_RemoveElement
<1> QED
  BY <1>3, <1>5, IndicesFinite

LEMMA SubsetCard ==
  ASSUME NEW A \in SUBSET Thread, NEW B \in SUBSET A
  PROVE  /\ Cardinality(A) \in Nat /\ Cardinality(B) \in Nat
         /\ Cardinality(B) <= Cardinality(A)
<1>1. IsFiniteSet(A) /\ IsFiniteSet(B)
  BY ThreadPoolAssumption, FS_Subset
<1> QED
  BY <1>1, FS_Subset, FS_CardinalityType

LEMMA RemoveCard ==
  ASSUME NEW A \in SUBSET Thread, NEW x \in A
  PROVE  Cardinality(A) \in Nat /\ Cardinality(A \ {x}) = Cardinality(A) - 1
<1>1. IsFiniteSet(A)
  BY ThreadPoolAssumption, FS_Subset
<1> QED
  BY <1>1, FS_RemoveElement, FS_CardinalityType

\* The packets of the port, as the lemmas above count them.
LEMMA ExitIndicesAre == ExitIndices = Indices(queue, EXIT)
BY DEF ExitIndices, Indices

LEMMA CountsAreNat ==
  ASSUME TypeOK
  PROVE  /\ Cardinality(Consumers) \in Nat /\ Cardinality(toVisit) \in Nat
         /\ Cardinality(ExitIndices) \in Nat
<1>1. Consumers \in SUBSET Thread /\ toVisit \in SUBSET Thread
  BY DEF Consumers, TypeOK
<1>2. Cardinality(ExitIndices) \in Nat
  BY ExitIndicesAre, IndicesFinite DEF TypeOK
<1> QED
  BY <1>1, <1>2, SubsetCard

\* Stop keeps the bound: StopBegin has an entry to visit for every consumer,
\* and StopPost trades an entry for a packet.
LEMMA StopEnough == IInv /\ IInv' /\ EnoughExits /\ Stop => EnoughExits'
<1> SUFFICES ASSUME IInv, IInv', EnoughExits, Stop,
                    ctl' \in {"posting", "waiting"}, isOpen'
             PROVE  Cardinality(Consumers') <= Cardinality(ExitIndices') + Cardinality(toVisit')
  BY DEF EnoughExits
<1>1. Consumers' = Consumers
  BY DEF Stop, StopBegin, StopPost, StopWait, StopClose, workerVars, Consumers
<1>2. TypeOK /\ TypeOK'
  BY DEF IInv
<1>3. /\ Cardinality(Consumers) \in Nat /\ Cardinality(toVisit) \in Nat
      /\ Cardinality(ExitIndices) \in Nat
  BY <1>2, CountsAreNat
<1>4. CASE StopBegin
  <2>1. Consumers \in SUBSET toVisit' /\ toVisit' \in SUBSET Thread
    BY <1>2, <1>4 DEF StopBegin, IInv, TypeOK, ListedIffRunning, Consumers, Running
  <2>2. Cardinality(Consumers) <= Cardinality(toVisit') /\ Cardinality(toVisit') \in Nat
    BY <2>1, SubsetCard
  <2>3. ExitIndices' = ExitIndices
    BY <1>4 DEF StopBegin, portVars, ExitIndices
  <2> QED
    BY <1>1, <1>3, <2>2, <2>3
<1>5. CASE StopPost
  <2>1. PICK e \in toVisit : toVisit' = toVisit \ {e}
    BY <1>5 DEF StopPost
  <2>2. Cardinality(toVisit') = Cardinality(toVisit) - 1
    BY <1>2, <2>1, RemoveCard DEF TypeOK
  <2>3. queue' = Append(queue, EXIT) /\ queue \in Seq(Job \cup {EXIT})
    BY <1>2, <1>5 DEF StopPost, TypeOK
  <2>4. Cardinality(Indices(Append(queue, EXIT), EXIT)) = Cardinality(Indices(queue, EXIT)) + 1
    BY <2>3, IndicesAppend
  <2>5. ExitIndices' = Indices(Append(queue, EXIT), EXIT)
    BY <2>3 DEF ExitIndices, Indices
  <2>6. Cardinality(Consumers) <= Cardinality(ExitIndices) + Cardinality(toVisit)
    BY <1>5 DEF StopPost, EnoughExits
  <2> QED
    BY <1>1, <1>3, <2>2, <2>4, <2>5, <2>6, ExitIndicesAre
<1>6. CASE StopWait
  BY <1>1, <1>6 DEF StopWait, portVars, EnoughExits, ExitIndices
<1>7. CASE StopClose
  BY <1>7 DEF StopClose
<1> QED
  BY <1>4, <1>5, <1>6, <1>7 DEF Stop

\* So do the workers: whoever takes an EXIT packet is no consumer any more.
LEMMA WorkerEnough ==
  ASSUME IInv, IInv', EnoughExits, NEW w \in Thread, WorkerProc(w) PROVE EnoughExits'
<1> SUFFICES ASSUME ctl' \in {"posting", "waiting"}, isOpen'
             PROVE  Cardinality(Consumers') <= Cardinality(ExitIndices') + Cardinality(toVisit')
  BY DEF EnoughExits
<1>1. TypeOK /\ TypeOK' /\ Consumers \in SUBSET Thread
  BY DEF IInv, Consumers
<1>2. /\ Cardinality(Consumers) \in Nat /\ Cardinality(toVisit) \in Nat
      /\ Cardinality(ExitIndices) \in Nat
  BY <1>1, CountsAreNat
<1>3. CASE GetPort(w) \/ Finish(w)
  <2>1. Consumers' = Consumers /\ UNCHANGED <<queue, toVisit, ctl, isOpen>>
    <3>1. CASE GetPort(w)
      BY <1>1, <3>1 DEF GetPort, Consumers, portVars, ownerVars, TypeOK
    <3>2. CASE Finish(w)
      BY <1>1, <3>2 DEF Finish, Consumers, portVars, ownerVars, TypeOK
    <3> QED
      BY <1>3, <3>1, <3>2
  <2> QED
    BY <2>1 DEF ExitIndices, EnoughExits
<1>4. CASE PortGone(w)
  <2>1. Consumers' \in SUBSET Consumers /\ UNCHANGED <<queue, toVisit, ctl, isOpen>>
    BY <1>1, <1>4 DEF PortGone, Consumers, portVars, ownerVars, TypeOK
  <2>2. Cardinality(Consumers') <= Cardinality(Consumers) /\ Cardinality(Consumers') \in Nat
    BY <1>1, <2>1, SubsetCard
  <2>3. ExitIndices' = ExitIndices
    BY <2>1 DEF ExitIndices
  <2>4. Cardinality(Consumers) <= Cardinality(ExitIndices) + Cardinality(toVisit)
    BY <2>1 DEF EnoughExits
  <2> QED
    BY <1>2, <2>1, <2>2, <2>3, <2>4
<1>5. CASE Take(w)
  <2>1. queue # <<>> /\ queue' = Tail(queue) /\ queue \in Seq(Job \cup {EXIT})
    BY <1>1, <1>5 DEF Take, TypeOK
  <2>2. Cardinality(Indices(Tail(queue), EXIT))
          = Cardinality(Indices(queue, EXIT)) - (IF Head(queue) = EXIT THEN 1 ELSE 0)
    BY <2>1, IndicesTail
  <2>3. ExitIndices' = Indices(Tail(queue), EXIT)
    BY <2>1 DEF ExitIndices, Indices
  <2>4. UNCHANGED toVisit /\ Cardinality(Consumers) <= Cardinality(ExitIndices) + Cardinality(toVisit)
    BY <1>5 DEF Take, ownerVars, EnoughExits
  <2>5. CASE Head(queue) = EXIT
    <3>1. Consumers' = Consumers \ {w} /\ w \in Consumers
      BY <1>1, <1>5, <2>5 DEF Take, Consumers, TypeOK
    <3>2. Cardinality(Consumers') = Cardinality(Consumers) - 1
      BY <1>1, <3>1, RemoveCard
    <3> QED
      BY <1>2, <2>2, <2>3, <2>4, <2>5, <3>2, ExitIndicesAre
  <2>6. CASE Head(queue) # EXIT
    <3>1. Consumers' = Consumers
      BY <1>1, <1>5, <2>6 DEF Take, Consumers, TypeOK
    <3> QED
      BY <1>2, <2>2, <2>3, <2>4, <2>6, <3>1, ExitIndicesAre
  <2> QED
    BY <2>5, <2>6
<1>6. CASE RemoveThread(w)
  BY <1>6 DEF RemoveThread, ownerVars
<1> QED
  BY <1>3, <1>4, <1>5, <1>6 DEF WorkerProc

\* A job packet is no EXIT packet.
LEMMA PostEnough ==
  ASSUME IInv, EnoughExits, NEW j \in Job, NEW p, ProcessJob(j, p) PROVE EnoughExits'
<1> SUFFICES ASSUME ctl' \in {"posting", "waiting"}, isOpen'
             PROVE  Cardinality(Consumers') <= Cardinality(ExitIndices') + Cardinality(toVisit')
  BY DEF EnoughExits
<1>1. /\ Consumers' = Consumers /\ toVisit' = toVisit
      /\ Cardinality(Consumers) <= Cardinality(ExitIndices) + Cardinality(toVisit)
  BY DEF ProcessJob, ownerVars, workerVars, Consumers, EnoughExits
<1>2. CASE queue' = queue
  BY <1>1, <1>2 DEF ExitIndices
<1>3. CASE queue' = Append(queue, j)
  <2>1. queue \in Seq(Job \cup {EXIT}) /\ j \in Job \cup {EXIT} /\ j # EXIT
    BY ThreadPoolAssumption DEF IInv, TypeOK
  <2>2. /\ Cardinality(Indices(Append(queue, j), EXIT)) = Cardinality(Indices(queue, EXIT)) + 0
        /\ Cardinality(Indices(queue, EXIT)) \in Nat
    BY <2>1, IndicesAppend, IndicesFinite
  <2>3. ExitIndices' = Indices(Append(queue, j), EXIT)
    BY <1>3 DEF ExitIndices, Indices
  <2> QED
    BY <1>1, <2>2, <2>3, ExitIndicesAre
<1> QED
  BY <1>2, <1>3 DEF ProcessJob

LEMMA StepEnough == IInv /\ IInv' /\ EnoughExits /\ PoolStep => EnoughExits'
<1> SUFFICES ASSUME IInv, IInv', EnoughExits, PoolStep PROVE EnoughExits'
  OBVIOUS
<1>1. CASE Start
  BY <1>1 DEF Start, StartBegin, StartThread, StartEnd, EnoughExits
<1>2. CASE UNCHANGED vars
  BY <1>2 DEF vars, portVars, ownerVars, workerVars, EnoughExits, Consumers, ExitIndices
<1> QED
  BY <1>1, <1>2, StopEnough, WorkerEnough, PostEnough DEF PoolStep

\* While Stop posts and waits on an open port, every worker still in its
\* loop has an EXIT packet to come.
THEOREM ExitsSuffice == Spec => []EnoughExits
<1>1. Init => EnoughExits
  BY DEF Init, EnoughExits
<1>2. IInv /\ IInv' /\ EnoughExits /\ [Next]_vars => EnoughExits'
  BY StepEnough DEF Next, Submit, PoolStep
<1> QED
  BY <1>1, <1>2, Inductive, PTL DEF Spec

=============================================================================
