------------------------------ MODULE ThreadPool ------------------------------
(***************************************************************************)
(* CThreadPool (ThreadPool.h, ThreadPool.cpp): a list of worker threads    *)
(* around one I/O completion port.  The owner calls Start and Stop; any    *)
(* thread calls ProcessJob, which takes no lock; each worker runs          *)
(* WorkerProc.  The list of threads is guarded by m_arrayCs, which Start   *)
(* and Stop hold from their first statement to their return: the lock is   *)
(* held exactly while ctl # "idle", and a worker takes and releases it     *)
(* inside one step (RemoveThread).                                         *)
(***************************************************************************)
EXTENDS Naturals, Sequences, FiniteSets

CONSTANTS
  Thread,       \* the ThreadInfo entries ever made, and their threads, numbered as they are made
  Job,          \* what a packet can carry: an (ITask, IWorker) pair
  NoJob,        \* a worker between two packets
  EXIT,         \* the packet whose OVERLAPPED* is EXIT_CODE
  ProcessNum,   \* nMax of Start: the number of processors
  StaleHandles, \* thread handles the memory of Stop's unfilled array may hold
  MaxStarts,    \* bound: calls of Start
  MaxQueue      \* bound: job packets in the port

ASSUME ThreadPoolAssumption ==
  /\ IsFiniteSet(Thread) /\ Thread \subseteq Nat
  /\ StaleHandles \subseteq Thread
  /\ EXIT \notin Job /\ NoJob \notin Job \cup {EXIT}
  /\ ProcessNum \in Nat /\ MaxStarts \in Nat /\ MaxQueue \in Nat

VARIABLES
  port,         \* m_hWorkerIoPort: which port it names, 0 before the first Start
  isOpen,       \* that port exists (created and not closed)
  queue,        \* the packets of that port, oldest first
  m_ThreadList, \* the entries of the list
  ctl,          \* where the owner is: "idle", in Start, or in Stop
  toCreate,     \* Start: iterations left
  toVisit,      \* Stop: entries its iterator has not visited
  waitSet,      \* Stop: the threads WaitForMultipleObjects waits for
  pc,           \* where each thread is in WorkerProc
  handle,       \* the port each worker passed to GetQueuedCompletionStatus
  job           \* the packet each worker is processing

ownerVars  == <<ctl, toCreate, toVisit, waitSet>>
portVars   == <<port, isOpen, queue>>
workerVars == <<pc, handle, job>>
vars == <<portVars, m_ThreadList, ownerVars, workerVars>>

\* "loop": about to evaluate GetWorkerIoPort(); "wait": inside
\* GetQueuedCompletionStatus; "busy": inside ProcessTask; "remove": about to
\* call RemoveThread; "failed": an entry whose CreateThread failed (its
\* m_dwThreadIdx stays 0, so no RemoveThread ever matches it).
Running == {"loop", "wait", "busy", "remove"}
PC == Running \cup {"none", "exited", "failed"}

\* The packets of the port that carry no job.
ExitIndices == {i \in DOMAIN queue : queue[i] = EXIT}
Queued      == {queue[i] : i \in DOMAIN queue} \ {EXIT}
Processing  == {job[t] : t \in Thread} \ {NoJob}

\* What GetQueuedCompletionStatus and PostQueuedCompletionStatus say of handle p.
Accepted(p) == p = port /\ isOpen

\* The workers that have not left the loop of WorkerProc, and those of them
\* that will read the current port (the others wait on an earlier one).
Consumers == {t \in Thread : pc[t] \in {"loop", "wait", "busy"}}
Serving == {t \in Consumers : pc[t] = "wait" => Accepted(handle[t])}

Init ==
  /\ port = 0 /\ isOpen = FALSE /\ queue = <<>>
  /\ m_ThreadList = {}
  /\ ctl = "idle" /\ toCreate = 0 /\ toVisit = {} /\ waitSet = {}
  /\ pc = [t \in Thread |-> "none"]
  /\ handle = [t \in Thread |-> 0]
  /\ job = [t \in Thread |-> NoJob]

-----------------------------------------------------------------------------
(* Start *)

\* The constructor initialises no member: before the first Start the handle
\* names no port.  A Start while the port is open would leak it; owners do
\* not, and Stop leaves the closed handle in place.
StartBegin ==
  /\ ctl = "idle" /\ ~isOpen /\ port < MaxStarts
  /\ port' = port + 1
  /\ isOpen' \in BOOLEAN                 \* CreateIoCompletionPort may fail
  /\ queue' = <<>>
  /\ ctl' = "starting" /\ toCreate' = ProcessNum
  /\ UNCHANGED <<m_ThreadList, toVisit, waitSet, workerVars>>

\* The entry is appended whether or not CreateThread succeeded; a created
\* thread runs at once, while Start still holds the lock.
StartThread(t) ==
  /\ ctl = "starting" /\ toCreate > 0
  /\ pc[t] = "none" /\ \A s \in Thread : s < t => pc[s] # "none"
  /\ \E outcome \in {"loop", "failed"} : pc' = [pc EXCEPT ![t] = outcome]
  /\ m_ThreadList' = m_ThreadList \cup {t}
  /\ toCreate' = toCreate - 1
  /\ UNCHANGED <<portVars, ctl, toVisit, waitSet, handle, job>>

StartEnd ==
  /\ ctl = "starting" /\ toCreate = 0
  /\ ctl' = "idle"
  /\ UNCHANGED <<portVars, m_ThreadList, toCreate, toVisit, waitSet, workerVars>>

-----------------------------------------------------------------------------
(* ProcessJob: the handle is read, then the packet posted, without a lock;  *)
(* p is the port read.  The result is ignored, so a packet for a port that  *)
(* is closed, replaced or never opened is lost.                             *)

ProcessJob(j, p) ==
  /\ Accepted(p) => Cardinality(DOMAIN queue \ ExitIndices) < MaxQueue
  /\ queue' = IF Accepted(p) THEN Append(queue, j) ELSE queue
  /\ UNCHANGED <<port, isOpen, m_ThreadList, ownerVars, workerVars>>

-----------------------------------------------------------------------------
(* WorkerProc *)

GetPort(w) ==
  /\ pc[w] = "loop"
  /\ pc' = [pc EXCEPT ![w] = "wait"]
  /\ handle' = [handle EXCEPT ![w] = port]
  /\ UNCHANGED <<portVars, m_ThreadList, ownerVars, job>>

\* GetQueuedCompletionStatus returns a packet.
Take(w) ==
  /\ pc[w] = "wait" /\ Accepted(handle[w]) /\ queue # <<>>
  /\ queue' = Tail(queue)
  /\ \/ /\ Head(queue) = EXIT
        /\ pc' = [pc EXCEPT ![w] = "remove"]
        /\ UNCHANGED job
     \/ /\ Head(queue) # EXIT
        /\ pc' = [pc EXCEPT ![w] = "busy"]
        /\ job' = [job EXCEPT ![w] = Head(queue)]
  /\ UNCHANGED <<port, isOpen, m_ThreadList, ownerVars, handle>>

\* Mutant: FALSE is taken for a spurious return, and the worker loops.
PortGone_Loops(w) ==
  /\ pc[w] = "wait" /\ ~Accepted(handle[w])
  /\ pc' = [pc EXCEPT ![w] = "loop"]
  /\ UNCHANGED <<portVars, m_ThreadList, ownerVars, handle, job>>

\* It returns FALSE: the port was closed under the waiter, or never opened.
PortGone(w) ==
  /\ pc[w] = "wait" /\ ~Accepted(handle[w])
  /\ pc' = [pc EXCEPT ![w] = "remove"]
  /\ UNCHANGED <<portVars, m_ThreadList, ownerVars, handle, job>>

\* Mutant: a worker serves one packet only.
Finish_Leaves(w) ==
  /\ pc[w] = "busy"
  /\ pc' = [pc EXCEPT ![w] = "remove"]
  /\ job' = [job EXCEPT ![w] = NoJob]
  /\ UNCHANGED <<portVars, m_ThreadList, ownerVars, handle>>

\* ProcessTask returns; the loop starts over.
Finish(w) ==
  /\ pc[w] = "busy"
  /\ pc' = [pc EXCEPT ![w] = "loop"]
  /\ job' = [job EXCEPT ![w] = NoJob]
  /\ UNCHANGED <<portVars, m_ThreadList, ownerVars, handle>>

\* Mutants: the entry is left on the list; the lock is not taken.
RemoveThread_KeepsEntry(w) ==
  /\ pc[w] = "remove" /\ ctl = "idle"
  /\ pc' = [pc EXCEPT ![w] = "exited"]
  /\ UNCHANGED <<portVars, m_ThreadList, ownerVars, handle, job>>

RemoveThread_NoLock(w) ==
  /\ pc[w] = "remove"
  /\ m_ThreadList' = m_ThreadList \ {w}
  /\ pc' = [pc EXCEPT ![w] = "exited"]
  /\ UNCHANGED <<portVars, ownerVars, handle, job>>

RemoveThread(w) ==
  /\ pc[w] = "remove" /\ ctl = "idle"    \* m_arrayCs is free
  /\ m_ThreadList' = m_ThreadList \ {w}
  /\ pc' = [pc EXCEPT ![w] = "exited"]
  /\ UNCHANGED <<portVars, ownerVars, handle, job>>

-----------------------------------------------------------------------------
(* Stop *)

StopBegin ==
  /\ ctl = "idle"
  /\ ctl' = "posting" /\ toVisit' = m_ThreadList
  /\ UNCHANGED <<portVars, m_ThreadList, toCreate, waitSet, workerVars>>

\* Mutants: one packet for all the entries; a packet without EXIT_CODE.
StopPost_Once ==
  /\ ctl = "posting" /\ toVisit # {}
  /\ toVisit' = {}
  /\ queue' = IF isOpen THEN Append(queue, EXIT) ELSE queue
  /\ UNCHANGED <<port, isOpen, m_ThreadList, ctl, toCreate, waitSet, workerVars>>

StopPost_NoCode ==
  /\ ctl = "posting"
  /\ \E e \in toVisit : toVisit' = toVisit \ {e}
  /\ queue' = IF isOpen THEN Append(queue, NoJob) ELSE queue
  /\ UNCHANGED <<port, isOpen, m_ThreadList, ctl, toCreate, waitSet, workerVars>>

\* One EXIT packet per entry, lost when the port is not open.
StopPost ==
  /\ ctl = "posting"
  /\ \E e \in toVisit : toVisit' = toVisit \ {e}
  /\ queue' = IF isOpen THEN Append(queue, EXIT) ELSE queue
  /\ UNCHANGED <<port, isOpen, m_ThreadList, ctl, toCreate, waitSet, workerVars>>

\* pThread is allocated and never filled.  Either some element is no valid
\* handle and the wait fails at once (waitSet = {}), or they all happen to be
\* handles of threads, and the wait is for all of those.
StopWait ==
  /\ ctl = "posting" /\ toVisit = {}
  /\ ctl' = "waiting"
  /\ waitSet' \in SUBSET {t \in StaleHandles : pc[t] \notin {"none", "failed"}}
  /\ UNCHANGED <<portVars, m_ThreadList, toCreate, toVisit, workerVars>>

\* The wait is over: the port is closed with the packets left in it, the
\* handle keeps its value, and the lock is released.
StopClose ==
  /\ ctl = "waiting" /\ \A t \in waitSet : pc[t] = "exited"
  /\ isOpen' = FALSE /\ queue' = <<>>
  /\ ctl' = "idle" /\ waitSet' = {}
  /\ UNCHANGED <<port, m_ThreadList, toCreate, toVisit, workerVars>>

-----------------------------------------------------------------------------

Start == StartBegin \/ (\E t \in Thread : StartThread(t)) \/ StartEnd

Stop == StopBegin \/ StopPost \/ StopWait \/ StopClose

WorkerProc(w) ==
  GetPort(w) \/ Take(w) \/ PortGone(w) \/ Finish(w) \/ RemoveThread(w)

\* A caller of ProcessJob passes a task of its own: one that is not on its
\* way to a worker already.
Submit ==
  \E j \in Job \ (Queued \cup Processing), p \in 0..port : ProcessJob(j, p)

Next == Start \/ Stop \/ Submit \/ (\E w \in Thread : WorkerProc(w))

\* The operating system runs every thread.  A completion port hands a packet
\* to some waiter, in no fair order, hence one condition for all Takes; and
\* ProcessTask returns.  Nobody is obliged to call Start, Stop or ProcessJob.
Fairness ==
  /\ WF_vars(StartEnd) /\ WF_vars(\E t \in Thread : StartThread(t))
  /\ WF_vars(StopPost) /\ WF_vars(StopWait) /\ WF_vars(StopClose)
  /\ WF_vars(\E w \in Thread : Take(w))
  /\ \A w \in Thread : WF_vars(GetPort(w)) /\ WF_vars(PortGone(w))
                       /\ WF_vars(Finish(w)) /\ WF_vars(RemoveThread(w))

Spec == Init /\ [][Next]_vars
FairSpec == Spec /\ Fairness

-----------------------------------------------------------------------------
(* Properties *)

TypeOK ==
  /\ port \in 0..MaxStarts /\ isOpen \in BOOLEAN
  /\ queue \in Seq(Job \cup {EXIT})
  /\ m_ThreadList \subseteq Thread
  /\ ctl \in {"idle", "starting", "posting", "waiting"}
  /\ toCreate \in 0..ProcessNum
  /\ toVisit \subseteq Thread /\ waitSet \subseteq Thread
  /\ pc \in [Thread -> PC]
  /\ handle \in [Thread -> 0..MaxStarts]
  /\ job \in [Thread -> Job \cup {NoJob}]

\* Every thread that still runs WorkerProc is in m_ThreadList, across any
\* number of Stop and Start (a worker busy during Stop joins the next port),
\* and no entry outlives its thread.  Stop counts the list to decide how
\* many EXIT packets to post.
ListedIffRunning ==
  \A t \in Thread : t \in m_ThreadList <=> pc[t] \in Running \cup {"failed"}

\* Stop's iterator is never invalidated: the entries it has still to visit
\* stay in the list while it posts, whatever the workers that took EXIT do.
IteratorValid == toVisit \subseteq m_ThreadList

\* While Stop runs on an open port there is an EXIT packet, posted or about
\* to be, for each worker that can still take one: none is left blocked in
\* GetQueuedCompletionStatus for want of a packet.
EnoughExits ==
  (ctl \in {"posting", "waiting"} /\ isOpen)
     => Cardinality(Consumers) <= Cardinality(ExitIndices) + Cardinality(toVisit)

\* A packet posted while a worker is there to take it is taken, or Stop is
\* called: no lost wake-up between ProcessJob and the workers' loop.
JobTaken ==
  \A j \in Job :
    (j \in Queued /\ Serving # {}) ~> (j \notin Queued \/ ctl # "idle")

\* Once the last Stop has returned, every worker leaves WorkerProc and takes
\* itself off the list: one busy through Stop, one that joined from an earlier
\* Start, and one that Stop's packets never reached.
WorkersLeave ==
  <>[](ctl = "idle" /\ ~isOpen) => <>[](\A t \in Thread : pc[t] \notin Running)

\* ThreadPool.cpp:36, "shut down all the worker threads": when Stop has
\* closed the port and returned, no worker it was called for still runs.
StopShutsDown == [][StopClose => \A t \in Thread : pc'[t] \notin Running]_vars

\* ThreadPool.cpp:45, "wait for 2 minutes, then start to kill threads": the
\* wait in Stop comes to an end whatever the workers do.
StopReturns == ctl = "waiting" ~> ctl = "idle"

=============================================================================
