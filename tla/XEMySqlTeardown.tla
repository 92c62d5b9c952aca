---------------------------- MODULE XEMySqlTeardown ----------------------------
(***************************************************************************)
(* ~CXEMySql on top of XEMySql: after Stop has returned and no client is   *)
(* in a call, the owner deletes the task pool, whose destructor purges the *)
(* free list, and then the worker object.  The threads that Stop left      *)
(* running go on meanwhile.  A use of the deleted pool is undefined: the   *)
(* step that would use it is not modelled any further.                     *)
(***************************************************************************)
EXTENDS XEMySql

VARIABLES
  poolGone,   \* m_pMySqlTaskPool has been deleted
  workerGone  \* m_pWorker has been deleted

teardownVars == <<poolGone, workerGone>>

TInit == Init /\ poolGone = FALSE /\ workerGone = FALSE

\* Start and ExecuteQueryNoRet on an object being destroyed are the caller's
\* error; what remains is the workers, as long as they stay off the pool.
Running ==
  /\ poolGone => \E w \in Thread : WorkerNext(w) /\ ~ReleaseFree(w)
  /\ ~poolGone => Next
  /\ UNCHANGED teardownVars

\* The tasks on the free list are deleted, and no others.
Purge == m_FreeList' = <<>>

DeletePool ==
  /\ ~poolGone /\ ctl = "idle" /\ port > 0 /\ ~isOpen
  /\ \A c \in Client : stage[c] = "idle"
  /\ Purge /\ poolGone' = TRUE
  /\ UNCHANGED <<tpVars, m_nStepCount, created, szQuery, wanted, cnVars, clientVars, step,
                 served, workerGone>>

DeleteWorker ==
  /\ poolGone /\ ~workerGone
  /\ workerGone' = TRUE
  /\ UNCHANGED <<vars, poolGone>>

TNext == Running \/ DeletePool \/ DeleteWorker

TSpec == TInit /\ [][TNext]_<<vars, teardownVars>>

-----------------------------------------------------------------------------

\* xeMySql.cpp:37, "put last, to be released" (of the task pool), and CPool.h:101,
\* "deleted at the end": once the destructor has deleted the pool nobody will use
\* it; no worker still holds a task that it must give back.
PoolReleasedLast == poolGone => \A w \in Thread : WorkerTask(w) = NullTask

=============================================================================
