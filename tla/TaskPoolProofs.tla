---------------------------- MODULE TaskPoolProofs ----------------------------
(***************************************************************************)
(* Proofs about TaskPool for any texts, any number of tasks and any step   *)
(* by which the pool grows.                                                *)
(***************************************************************************)
EXTENDS TaskPool, SequenceFacts, TLAPS

-----------------------------------------------------------------------------
(* The pool *)

PoolOK ==
  /\ m_nStepCount \in 1..MaxStep /\ created \in 0..MaxTasks
  /\ m_FreeList \in Seq(Task) /\ IsInjective(m_FreeList)
  /\ ToSet(m_FreeList) \subseteq 1..created

\* Alloc takes one task off the list, after adding those of a step to it.
LEMMA AllocTakesOne ==
  ASSUME PoolOK, NEW t \in Task, PoolAlloc(t)
  PROVE  /\ PoolOK' /\ created <= created' /\ t \in 1..created'
         /\ t \in ToSet(m_FreeList) \cup (created + 1)..created'
         /\ ToSet(m_FreeList)' =
              (ToSet(m_FreeList) \cup (created + 1)..created') \ {t}
<1> USE TaskPoolAssumption DEF Task
<1>1. CASE m_FreeList # <<>>
  <2>1. t = Head(m_FreeList) /\ m_FreeList' = Tail(m_FreeList) /\ created' = created
        /\ m_nStepCount' = m_nStepCount
    BY <1>1 DEF PoolAlloc
  <2>2. /\ Tail(m_FreeList) \in Seq(Task) /\ t \in ToSet(m_FreeList)
        /\ IsInjective(Tail(m_FreeList))
        /\ ToSet(Tail(m_FreeList)) = ToSet(m_FreeList) \ {t}
    BY <1>1, <2>1, TailOfInjective DEF PoolOK
  <2>3. (created + 1)..created' = {} /\ created \in Nat
    BY <2>1 DEF PoolOK
  <2> QED
    BY <2>1, <2>2, <2>3 DEF PoolOK
<1>2. CASE m_FreeList = <<>>
  <2> DEFINE k == m_nStepCount
  <2> DEFINE new == [n \in 1..k |-> created + n]
  <2>1. /\ t = created + 1 /\ m_FreeList' = Tail(new) /\ created' = created + k
        /\ created + k <= MaxTasks /\ m_nStepCount' = m_nStepCount
    BY <1>2 DEF PoolAlloc, CanStep, New
  <2>2. k \in Nat /\ k > 0 /\ created \in Nat /\ \A n \in 1..k : created + n \in Task
    BY <2>1 DEF PoolOK
  <2>3. /\ new \in Seq(Task) /\ IsInjective(new) /\ new # <<>>
        /\ ToSet(new) = (created + 1)..(created + k) /\ Head(new) = t
    <3> HIDE DEF Task
    <3> QED
      BY <2>1, <2>2, StepOfTasks
  <2> HIDE DEF new, Task
  <2>4. /\ Tail(new) \in Seq(Task) /\ t \in ToSet(new)
        /\ IsInjective(Tail(new)) /\ ToSet(Tail(new)) = ToSet(new) \ {t}
    BY <2>3, TailOfInjective
  <2>5. ToSet(m_FreeList) = {}
    BY <1>2 DEF ToSet
  <2>6. created' \in 0..MaxTasks /\ created <= created'
        /\ (created + 1)..created' \subseteq 1..created'
    BY <2>1, <2>2
  <2>7. ToSet(m_FreeList)' = ((created + 1)..created') \ {t}
    BY <2>1, <2>3, <2>4
  <2>8. t \in (created + 1)..created'
    BY <2>1, <2>3, <2>4
  <2> QED
    BY <2>1, <2>4, <2>5, <2>6, <2>7, <2>8 DEF PoolOK
<1> QED
  BY <1>1, <1>2

\* A step that throws leaves on the list the tasks that it did make.
LEMMA ThrowKeepsTasks ==
  ASSUME PoolOK, PoolAllocThrows
  PROVE  /\ PoolOK' /\ created <= created' /\ created' = MaxTasks
         /\ ToSet(m_FreeList)' = ToSet(m_FreeList) \cup (created + 1)..created'
<1> USE TaskPoolAssumption
<1> DEFINE k == MaxTasks - created
<1> DEFINE new == [n \in 1..k |-> created + n]
<1>1. /\ m_FreeList = <<>> /\ m_FreeList' = new /\ created' = MaxTasks
      /\ m_nStepCount' = m_nStepCount
  BY DEF PoolAllocThrows, New
<1>2. k \in Nat /\ created \in Nat /\ \A n \in 1..k : created + n \in Task
  BY DEF PoolOK, Task
<1>3. /\ new \in Seq(Task) /\ IsInjective(new)
      /\ ToSet(new) = (created + 1)..(created + k)
  BY <1>2, StepOfTasks
<1>4. created + k = created' /\ created <= created' /\ created' \in 0..MaxTasks
      /\ (created + 1)..created' \subseteq 1..created'
  BY <1>1, <1>2
<1>5. ToSet(m_FreeList) = {}
  BY <1>1 DEF ToSet
<1> HIDE DEF new
<1> QED
  BY <1>1, <1>3, <1>4, <1>5 DEF PoolOK

LEMMA FreeAddsOne ==
  ASSUME PoolOK, NEW t \in 1..created, t \notin ToSet(m_FreeList), PoolFree(t)
  PROVE  /\ PoolOK' /\ created' = created
         /\ ToSet(m_FreeList)' = ToSet(m_FreeList) \cup {t}
<1>1. t \in Task
  BY TaskPoolAssumption DEF PoolOK, Task
<1>2. /\ m_FreeList' = Append(m_FreeList, t) /\ created' = created
      /\ m_nStepCount' = m_nStepCount
  BY DEF PoolFree
<1>3. /\ Append(m_FreeList, t) \in Seq(Task) /\ IsInjective(Append(m_FreeList, t))
      /\ ToSet(Append(m_FreeList, t)) = ToSet(m_FreeList) \cup {t}
  BY <1>1, AppendOfInjective DEF PoolOK
<1> QED
  BY <1>2, <1>3 DEF PoolOK

-----------------------------------------------------------------------------
(* The protocol *)

\* Only a filled task has anything in its buffer.
Zeroed == \A t \in Task : use[t] # "filled" => szQuery[t] = Empty

\* The inductive invariant.  FilledReadsBack needs Zeroed: the copy reads back
\* as the query because the buffer of a task that is filled was empty.
IInv == TypeOK /\ FreeListExact /\ FilledReadsBack /\ Zeroed

LEMMA PoolIsOK == IInv => PoolOK
<1> SUFFICES ASSUME IInv, NEW t \in ToSet(m_FreeList) PROVE t \in 1..created
  BY DEF IInv, TypeOK, FreeListExact, PoolOK
<1>1. t \in Task /\ use[t] # "none"
  BY DEF IInv, FreeListExact
<1> QED
  BY <1>1, TaskPoolAssumption DEF IInv, TypeOK, FreeListExact, Task

LEMMA InitIInv == Init => IInv
<1> SUFFICES ASSUME Init PROVE IInv
  OBVIOUS
<1> USE TaskPoolAssumption
<1>1. /\ m_FreeList \in Seq(Task) /\ IsInjective(m_FreeList)
      /\ ToSet(m_FreeList) = 1..JobCount
  <2>1. \A n \in 1..JobCount : 0 + n \in Task
    BY DEF Task
  <2>2. m_FreeList = [n \in 1..JobCount |-> 0 + n]
    BY DEF Init
  <2>3. 0 + 1 = 1 /\ 0 + JobCount = JobCount
    OBVIOUS
  <2> DEFINE new == [n \in 1..JobCount |-> 0 + n]
  <2>4. new \in Seq(Task) /\ IsInjective(new) /\ ToSet(new) = (0 + 1)..(0 + JobCount)
    BY <2>1, StepOfTasks
  <2> QED
    BY <2>2, <2>3, <2>4
<1>2. TypeOK
  BY <1>1 DEF Init, TypeOK, Uses
<1>3. \A t \in Task : use[t] = "none" <=> t > created
  BY DEF Init, Task
<1>4. ToSet(m_FreeList) = {t \in Task : use[t] = "free"}
  BY <1>1 DEF Init, Task
<1> QED
  BY <1>1, <1>2, <1>3, <1>4 DEF Init, IInv, FreeListExact, FilledReadsBack, Zeroed

\* A task of a new step is free, the task t becomes u, the others stay.
LEMMA OthersStay ==
  ASSUME IInv, NEW t \in 1..created', NEW u \in Uses, u # "none", Becomes(t, u),
         created' \in created..MaxTasks
  PROVE  /\ use' \in [Task -> Uses] /\ use'[t] = u
         /\ \A s \in Task : use'[s] = "none" <=> s > created'
         /\ \A s \in Task \ {t} :
              use'[s] = IF s \in (created + 1)..created' THEN "free" ELSE use[s]
<1> USE TaskPoolAssumption DEF IInv, TypeOK, FreeListExact, Task, Uses
<1>1. t \in Task /\ created \in Nat /\ created' \in Nat
  OBVIOUS
<1>2. \A s \in Task \ {t} :
        use'[s] = IF s \in (created + 1)..created' THEN "free" ELSE use[s]
  <2> SUFFICES ASSUME NEW s \in Task \ {t}
               PROVE use'[s] = IF s \in (created + 1)..created' THEN "free" ELSE use[s]
    OBVIOUS
  <2>1. use'[s] = IF use[s] = "none" /\ s <= created' THEN "free" ELSE use[s]
    BY DEF Becomes
  <2>2. use[s] = "none" /\ s <= created' <=> s \in (created + 1)..created'
    BY <1>1
  <2> QED
    BY <2>1, <2>2
<1>3. use' \in [Task -> Uses] /\ use'[t] = u
  BY <1>1 DEF Becomes
<1>4. \A s \in Task : use'[s] = "none" <=> s > created'
  <2> SUFFICES ASSUME NEW s \in Task PROVE use'[s] = "none" <=> s > created'
    OBVIOUS
  <2>1. CASE s = t
    BY <1>1, <1>3, <2>1
  <2>2. CASE s # t
    <3>1. use[s] = "none" <=> s > created
      OBVIOUS
    <3> QED
      BY <1>1, <1>2, <2>2, <3>1
  <2> QED
    BY <2>1, <2>2
<1> QED
  BY <1>2, <1>3, <1>4

LEMMA AllocIInv == ASSUME IInv, NEW t \in Task, Alloc(t) PROVE IInv'
<1>1. /\ PoolOK' /\ created <= created' /\ t \in 1..created'
      /\ ToSet(m_FreeList)' = (ToSet(m_FreeList) \cup (created + 1)..created') \ {t}
      /\ t \in ToSet(m_FreeList) \cup (created + 1)..created'
  BY PoolIsOK, AllocTakesOne DEF Alloc
<1>2. created' \in created..MaxTasks
  BY <1>1 DEF IInv, TypeOK, PoolOK
<1>3. /\ use' \in [Task -> Uses] /\ use'[t] = "taken"
      /\ \A s \in Task : use'[s] = "none" <=> s > created'
      /\ \A s \in Task \ {t} :
           use'[s] = IF s \in (created + 1)..created' THEN "free" ELSE use[s]
  BY <1>1, <1>2, OthersStay DEF Alloc, Uses
<1>4. ToSet(m_FreeList) = {s \in Task : use[s] = "free"}
  BY DEF IInv, FreeListExact
<1>5. (created + 1)..created' \subseteq Task
  BY <1>2, TaskPoolAssumption DEF IInv, TypeOK, Task
<1>6. ToSet(m_FreeList)' = {s \in Task : use'[s] = "free"}
  BY <1>1, <1>3, <1>4, <1>5
<1>7. UNCHANGED <<szQuery, wanted>>
  BY DEF Alloc, taskVars
<1>8. TypeOK'
  BY <1>1, <1>3, <1>7 DEF IInv, TypeOK, PoolOK
<1>9. FreeListExact'
  BY <1>1, <1>3, <1>6 DEF FreeListExact, PoolOK
<1>10. use[t] # "filled" /\ \A s \in (created + 1)..created' : use[s] = "none"
  BY <1>1, <1>2, <1>4, <1>5 DEF IInv, TypeOK, FreeListExact
<1>11. \A s \in Task : use'[s] = "filled" <=> use[s] = "filled"
  BY <1>3, <1>10
<1> QED
  BY <1>7, <1>8, <1>9, <1>11 DEF IInv, FilledReadsBack, Zeroed

LEMMA AllocThrowsIInv == IInv /\ AllocThrows => IInv'
<1> SUFFICES ASSUME IInv, AllocThrows PROVE IInv'
  OBVIOUS
<1>1. /\ PoolOK' /\ created <= created' /\ created' = MaxTasks
      /\ ToSet(m_FreeList)' = ToSet(m_FreeList) \cup (created + 1)..created'
  BY PoolIsOK, ThrowKeepsTasks DEF AllocThrows
<1>2. /\ use' = [s \in Task |-> IF use[s] = "none" THEN "free" ELSE use[s]]
      /\ UNCHANGED <<szQuery, wanted>>
  BY DEF AllocThrows, taskVars
<1>3. use' \in [Task -> Uses] /\ \A s \in Task : use'[s] # "none"
  BY <1>2 DEF IInv, TypeOK, Uses
<1>4. \A s \in Task : ~(s > created')
  BY <1>1, TaskPoolAssumption DEF Task
<1>5. \A s \in Task : s \in (created + 1)..created' <=> use[s] = "none"
  BY <1>1, TaskPoolAssumption DEF IInv, TypeOK, FreeListExact, Task
<1>6. (created + 1)..created' \subseteq Task
  BY <1>1, TaskPoolAssumption DEF IInv, TypeOK, Task
<1>7. ToSet(m_FreeList)' = {s \in Task : use'[s] = "free"}
  BY <1>1, <1>2, <1>5, <1>6 DEF IInv, FreeListExact
<1>8. \A s \in Task : use'[s] = "filled" <=> use[s] = "filled"
  BY <1>2
<1> QED
  BY <1>1, <1>2, <1>3, <1>4, <1>7, <1>8
     DEF IInv, TypeOK, PoolOK, FreeListExact, FilledReadsBack, Zeroed

LEMMA FillIInv == ASSUME IInv, NEW t \in Task, NEW q \in Text, Fill(t, q) PROVE IInv'
<1> USE TaskPoolAssumption
<1>1. /\ use[t] = "taken" /\ Becomes(t, "filled") /\ UNCHANGED poolVars
      /\ szQuery' = [szQuery EXCEPT ![t] = Overwrite(szQuery[t], q)]
      /\ wanted' = [wanted EXCEPT ![t] = q]
  BY DEF Fill, CopyQuery
<1>2. szQuery[t] = Empty /\ Overwrite(szQuery[t], q) = q
  BY <1>1 DEF IInv, Zeroed, Overwrite
<1>3. created' \in created..MaxTasks /\ t \in 1..created' /\ created' = created
  BY <1>1 DEF IInv, TypeOK, FreeListExact, poolVars, Task
<1>4. /\ use' \in [Task -> Uses] /\ use'[t] = "filled"
      /\ \A s \in Task : use'[s] = "none" <=> s > created'
      /\ \A s \in Task \ {t} : use'[s] = use[s]
  BY <1>1, <1>3, OthersStay DEF Uses, IInv, TypeOK
<1>5. szQuery'[t] = q /\ wanted'[t] = q
  BY <1>1, <1>2 DEF IInv, TypeOK
<1>6. \A s \in Task \ {t} : szQuery'[s] = szQuery[s] /\ wanted'[s] = wanted[s]
  BY <1>1 DEF IInv, TypeOK
<1>7. TypeOK'
  BY <1>1, <1>2, <1>4 DEF IInv, TypeOK, poolVars
<1>8. FreeListExact'
  BY <1>1, <1>4 DEF IInv, FreeListExact, poolVars
<1>9. FilledReadsBack' /\ Zeroed'
  BY <1>4, <1>5, <1>6 DEF IInv, FilledReadsBack, Zeroed
<1> QED
  BY <1>7, <1>8, <1>9 DEF IInv

LEMMA ClearIInv == ASSUME IInv, NEW t \in Task, Clear(t) PROVE IInv'
<1> USE TaskPoolAssumption
<1>1. /\ use[t] = "filled" /\ Becomes(t, "cleared") /\ UNCHANGED poolVars
      /\ szQuery' = [szQuery EXCEPT ![t] = Empty] /\ UNCHANGED wanted
  BY DEF Clear, InitTask
<1>2. created' \in created..MaxTasks /\ t \in 1..created' /\ created' = created
  BY <1>1 DEF IInv, TypeOK, FreeListExact, poolVars, Task
<1>3. /\ use' \in [Task -> Uses] /\ use'[t] = "cleared"
      /\ \A s \in Task : use'[s] = "none" <=> s > created'
      /\ \A s \in Task \ {t} : use'[s] = use[s]
  BY <1>1, <1>2, OthersStay DEF Uses, IInv, TypeOK
<1>4. szQuery'[t] = Empty /\ \A s \in Task \ {t} : szQuery'[s] = szQuery[s]
  BY <1>1 DEF IInv, TypeOK
<1>5. TypeOK'
  BY <1>1, <1>3 DEF IInv, TypeOK, poolVars
<1>6. FreeListExact'
  BY <1>1, <1>3 DEF IInv, FreeListExact, poolVars
<1>7. FilledReadsBack' /\ Zeroed'
  BY <1>1, <1>3, <1>4 DEF IInv, FilledReadsBack, Zeroed
<1> QED
  BY <1>5, <1>6, <1>7 DEF IInv

LEMMA FreeIInv == ASSUME IInv, NEW t \in Task, Free(t) PROVE IInv'
<1> USE TaskPoolAssumption
<1>1. use[t] = "cleared" /\ PoolFree(t) /\ UNCHANGED taskVars /\ Becomes(t, "free")
  BY DEF Free
<1>2. t \notin ToSet(m_FreeList) /\ t \in 1..created
  BY <1>1 DEF IInv, TypeOK, FreeListExact, Task
<1>3. /\ PoolOK' /\ created' = created
      /\ ToSet(m_FreeList)' = ToSet(m_FreeList) \cup {t}
  BY <1>1, <1>2, PoolIsOK, FreeAddsOne
<1>4. created' \in created..MaxTasks /\ t \in 1..created'
  BY <1>2, <1>3 DEF IInv, TypeOK
<1>5. /\ use' \in [Task -> Uses] /\ use'[t] = "free"
      /\ \A s \in Task : use'[s] = "none" <=> s > created'
      /\ \A s \in Task \ {t} : use'[s] = use[s]
  BY <1>1, <1>3, <1>4, OthersStay DEF Uses, IInv, TypeOK
<1>6. ToSet(m_FreeList)' = {s \in Task : use'[s] = "free"}
  BY <1>3, <1>5 DEF IInv, FreeListExact
<1>7. TypeOK' /\ FreeListExact'
  BY <1>1, <1>3, <1>5, <1>6 DEF IInv, TypeOK, PoolOK, FreeListExact, taskVars
<1>8. FilledReadsBack' /\ Zeroed'
  BY <1>1, <1>5 DEF IInv, FilledReadsBack, Zeroed, taskVars
<1> QED
  BY <1>7, <1>8 DEF IInv

LEMMA NextIInv == IInv /\ [Next]_vars => IInv'
<1>1. IInv /\ UNCHANGED vars => IInv'
  BY DEF vars, IInv, TypeOK, FreeListExact, FilledReadsBack, Zeroed
<1>2. IInv /\ Next => IInv'
  BY AllocIInv, AllocThrowsIInv, FillIInv, ClearIInv, FreeIInv DEF Next
<1> QED
  BY <1>1, <1>2

\* The inductive invariant holds in every behaviour of the pool.
THEOREM Inductive == Spec => []IInv
  BY InitIInv, NextIInv, PTL DEF Spec

\* The variables of CPool and of its tasks keep their types, through any
\* growth and any new that throws.
THEOREM TypeCorrect == Spec => []TypeOK
<1>1. IInv => TypeOK
  BY DEF IInv
<1> QED
  BY <1>1, Inductive, PTL

\* CPool's free list has each task once, and exactly those nobody holds.
THEOREM FreeListRight == Spec => []FreeListExact
<1>1. IInv => FreeListExact
  BY DEF IInv
<1> QED
  BY <1>1, Inductive, PTL

\* A recycled task reads back as the query GetFreeJob last copied into it.
THEOREM ReadsBack == Spec => []FilledReadsBack
<1>1. IInv => FilledReadsBack
  BY DEF IInv
<1> QED
  BY <1>1, Inductive, PTL

=============================================================================
