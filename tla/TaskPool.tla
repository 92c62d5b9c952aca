------------------------------- MODULE TaskPool -------------------------------
(***************************************************************************)
(* CPool<CXEMySqlTask> (CPool.h) and the task buffers it recycles          *)
(* (xeMySql.h, GetFreeJob and ReleaseJob of xeMySql.cpp).  Alloc and Free  *)
(* run under m_cs and are one step each; a task's buffer is written and    *)
(* cleared outside the lock by whoever holds the task, so Fill and Clear   *)
(* are steps of their own.  `use' records, per task, which of those steps  *)
(* its holder has done: the protocol GetFreeJob and ReleaseJob follow.     *)
(*                                                                         *)
(* A buffer is an abstract text.  GetFreeJob copies strlen(query) bytes    *)
(* and no terminator (strncpy with strlen), so the buffer reads back as    *)
(* the query only over a buffer no longer than it; callers pass texts that *)
(* fit the 256 bytes.  SetData has no caller: m_pData stays NULL.          *)
(***************************************************************************)
EXTENDS Naturals, Sequences, SequencesExt

CONSTANTS
  Text,       \* the query texts
  Length,     \* strlen of each
  Empty,      \* a buffer of zeros
  Mixed,      \* a query followed by the rest of a longer one
  JobCount,   \* m_nCount: the tasks made by the constructor
  MaxStep,    \* bound: m_nStepCount, computed from an uninitialised member
  MaxTasks    \* bound: tasks the heap can hold before `new' throws

ASSUME TaskPoolAssumption ==
  /\ Length \in [Text -> Nat]
  /\ Empty \notin Text /\ Mixed \notin Text /\ Empty # Mixed
  /\ JobCount \in Nat /\ MaxTasks \in Nat /\ JobCount <= MaxTasks
  /\ MaxStep \in Nat \ {0}

Task == 1..MaxTasks

VARIABLES
  m_nStepCount, \* max(1, garbage / 10)
  created,      \* tasks made so far: 1..created
  m_FreeList,
  szQuery,      \* the buffer of each task
  use,          \* "none", "free", "taken", "filled" or "cleared"
  wanted        \* the text each task was last filled with

vars == <<m_nStepCount, created, m_FreeList, szQuery, use, wanted>>

Init ==
  /\ m_nStepCount \in 1..MaxStep
  /\ created = JobCount
  /\ m_FreeList = [t \in 1..JobCount |-> t]
  /\ szQuery = [t \in Task |-> Empty]
  /\ use = [t \in Task |-> IF t <= JobCount THEN "free" ELSE "none"]
  /\ wanted = [t \in Task |-> Empty]

-----------------------------------------------------------------------------

(* The pool's and the buffer's operations *)

\* The tasks k executions of Step's body append.
New(k) == [n \in 1..k |-> created + n]

CanStep == created + m_nStepCount <= MaxTasks

\* Mutant: the front is returned and not popped.
PoolAlloc_NoPop(t) ==
  /\ m_FreeList # <<>> /\ t = Head(m_FreeList)
  /\ UNCHANGED <<m_nStepCount, created, m_FreeList>>

\* Alloc: on an empty list Step first appends m_nStepCount tasks, then the
\* front is taken.
PoolAlloc(t) ==
  /\ \/ /\ m_FreeList # <<>>
        /\ t = Head(m_FreeList) /\ m_FreeList' = Tail(m_FreeList)
        /\ UNCHANGED created
     \/ /\ m_FreeList = <<>> /\ CanStep
        /\ t = created + 1 /\ m_FreeList' = Tail(New(m_nStepCount))
        /\ created' = created + m_nStepCount
  /\ UNCHANGED m_nStepCount

\* Mutant: the size of the step is booked before the tasks exist.
PoolAllocThrows_Books ==
  /\ m_FreeList = <<>> /\ ~CanStep
  /\ m_FreeList' = New(MaxTasks - created) /\ created' = created + m_nStepCount
  /\ UNCHANGED m_nStepCount

\* `new' throws in Step: the tasks made before stay on the list, the lock is
\* released and the exception leaves GetFreeJob.
PoolAllocThrows ==
  /\ m_FreeList = <<>> /\ ~CanStep
  /\ m_FreeList' = New(MaxTasks - created) /\ created' = MaxTasks
  /\ UNCHANGED m_nStepCount

PoolFree(t) ==
  /\ m_FreeList' = Append(m_FreeList, t)
  /\ UNCHANGED <<m_nStepCount, created>>

\* What a buffer reads as after q's bytes are copied over it.
Overwrite(old, q) ==
  IF old = Empty \/ (old \in Text /\ Length[old] <= Length[q]) THEN q ELSE Mixed

\* The strncpy of GetFreeJob.
CopyQuery(t, q) ==
  /\ szQuery' = [szQuery EXCEPT ![t] = Overwrite(@, q)]
  /\ wanted' = [wanted EXCEPT ![t] = q]

\* Mutant: the memset is gone.
InitTask_Keeps(t) == UNCHANGED <<szQuery, wanted>>

\* CXEMySqlTask::Init.
InitTask(t) ==
  /\ szQuery' = [szQuery EXCEPT ![t] = Empty]
  /\ UNCHANGED wanted

poolVars == <<m_nStepCount, created, m_FreeList>>
taskVars == <<szQuery, wanted>>

-----------------------------------------------------------------------------
(* The protocol of a task: GetFreeJob is Alloc then Fill, ReleaseJob is      *)
(* Clear then Free.                                                          *)

Becomes(t, u) ==
  use' = [s \in Task |-> IF s = t THEN u
                         ELSE IF use[s] = "none" /\ s <= created' THEN "free"
                         ELSE use[s]]

Alloc(t) == PoolAlloc(t) /\ Becomes(t, "taken") /\ UNCHANGED taskVars

AllocThrows ==
  /\ PoolAllocThrows /\ UNCHANGED taskVars
  /\ use' = [s \in Task |-> IF use[s] = "none" THEN "free" ELSE use[s]]

Fill(t, q) ==
  use[t] = "taken" /\ CopyQuery(t, q) /\ UNCHANGED poolVars /\ Becomes(t, "filled")

Clear(t) ==
  use[t] = "filled" /\ InitTask(t) /\ UNCHANGED poolVars /\ Becomes(t, "cleared")

Free(t) ==
  use[t] = "cleared" /\ PoolFree(t) /\ UNCHANGED taskVars /\ Becomes(t, "free")

Next ==
  \/ AllocThrows
  \/ \E t \in Task : \/ Alloc(t) \/ Clear(t) \/ Free(t)
                     \/ \E q \in Text : Fill(t, q)

Spec == Init /\ [][Next]_vars

-----------------------------------------------------------------------------

Uses == {"none", "free", "taken", "filled", "cleared"}

TypeOK ==
  /\ m_nStepCount \in 1..MaxStep
  /\ created \in 0..MaxTasks
  /\ m_FreeList \in Seq(Task)
  /\ szQuery \in [Task -> Text \cup {Empty, Mixed}]
  /\ use \in [Task -> Uses]
  /\ wanted \in [Task -> Text \cup {Empty}]

\* The free list holds each task at most once, and exactly the tasks nobody
\* holds: Alloc never hands one task to two callers, and none made by a Step
\* that then threw is lost.
FreeListExact ==
  /\ IsInjective(m_FreeList)
  /\ ToSet(m_FreeList) = {t \in Task : use[t] = "free"}
  /\ \A t \in Task : use[t] = "none" <=> t > created

\* A recycled task reads back as the query it was last given, whatever longer
\* query it carried before: the copy writes no terminator, so this rests on
\* ReleaseJob having cleared the buffer of every task Alloc can return.
FilledReadsBack ==
  \A t \in Task : use[t] = "filled" => szQuery[t] = wanted[t]

=============================================================================
