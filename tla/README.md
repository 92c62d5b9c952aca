# Verification of `mysqlapi`

`mysqlapi` is a small C++ library for Windows that gives a program asynchronous
and synchronous access to MySQL: a pool of worker threads around an I/O
completion port, a pool of recycled task objects, and a set of locked
connections that replace themselves when the server goes away. This directory
holds TLA+ specifications of it, the TLC configurations that check them on
small instances, and proofs checked by TLAPS. `PROJECT.json` maps every
definition to the lines it stands for, and lists runs, mutants, findings,
hazards and theorems.

All paths below are relative to `src/xe_mysql/xe_mysql/` unless they say
otherwise. The source files are encoded in GB18030.

## 1. Inventory

| component | code | state | operations |
|---|---|---|---|
| thread pool | `ThreadPool.cpp`, `ThreadPool.h` | `m_ThreadList`, `m_hWorkerIoPort`, the packets in that port, `m_arrayCs` | `Start`, `Stop`, `ProcessJob`, `WorkerProc`, `RemoveThread` |
| task pool | `CPool.h` | `m_FreeList`, `m_nStepCount`, `m_cs` | constructor, `Alloc`, `Step`, `Free`, `Purge` |
| tasks | `xeMySql.h:51-80` | `szQuery[256]`, `m_pData` | `Init`, `SetData` (no caller) |
| façade `CXEMySql` | `xeMySql.cpp:29-367` | `m_VectorCon`, `m_pMySqlTaskPool`, `m_pWorker`, the thread pool | `Initialize`, `Start`, `Stop`, `ExecuteQueryNoRet`, `Query` (three forms), `SelectDB`, `GetFreeCon`, `GetFreeJob`, `ReleaseJob`, `HandleError`, `ExecuteSQL`, destructor |
| worker | `xeMySql.cpp:4-27` | - | `ProcessTask` |
| connections `CXEMySqlCon` | `xeMySql.cpp:565-663` | `m_pMySql`, the credentials, the lock `cs` | `Connect`, `Close`, `Reconnect` |
| locks | `lock.h` | a Win32 critical section | `Lock`, `UnLock`, `AttemptLock`, scoped `CAutoLock` |
| result sets `CXEMySqlResult` | `xeMySql.cpp:371-559` | result, row and field pointers, field count | `SetRes`, `FetchRecords`, `FetchRow`, the getters |
| prepared statements `CXEMySqlStmt`, `DB_BLOB` | `xeMySql.cpp:667-821` | statement handle, bound parameters | `SetSQL`, `SetParam`, `BindParams`, `Execute`, `Reset` |
| log | `Log.cpp`, `Log.h`, `Singleton.h` | open file, date of opening, time of last flush | `Open`, `OutPutString`, `FFlush`, `Close` |
| GBK string search | `GlobalDefine.cpp` | none | `xe_strstr`, `xe_strchr` |
| test client library | `test/` | a second MySQL wrapper: `MySqlDB`, `MySqlCmd`, `MySqlQuery` | connect, reconnect, execute with one retry, fetch |
| `DBClass` | `../include/DBClass.cpp` | one locked connection | query, fetch |
| crash reports | `crashhandle.cpp`, `WheatyExceptionReport.cpp`, and `test.cpp`, a second copy of it that the project file does not build | - | formatting of a fault report |
| program | `xe_mysql.cpp` | - | a demonstration and a console handler |

How they interact:

```
 client thread --ExecuteQueryNoRet--> GetFreeJob --Alloc--> task pool
       |                                  | fill szQuery
       |                              ProcessJob --packet--> completion port
       |                                                       | one packet
       |                                                     WorkerProc (n threads)
       |                                                       | ProcessTask
       +--Query, SelectDB--> GetFreeCon (try-locks) <--Query---+
                                 | command, HandleError/Reconnect
                               MySQL                           | ReleaseJob
                                                     Init, Free --> task pool
 owner thread --Start/Stop--> thread pool (holds m_arrayCs throughout)
```

What is hard here, and what each component has to get right:

* **Thread pool.** `Stop` holds `m_arrayCs` while it posts one EXIT packet per
  list entry, and a worker needs that lock to take itself off the list.
  `ProcessJob` takes no lock. A worker reads the port's handle anew for each
  packet, so one that is busy through `Stop` and another `Start` joins the new
  port. *Correct*: the list is exact, each worker gets an EXIT, no packet is
  stranded, all workers leave.
* **Task pool and tasks.** The buffer is filled and cleared outside the pool's
  lock, and the copy writes no terminator; growth may throw half way.
  *Correct*: a task has one holder; a free task is zeroed; a task reads back
  as the query it was given.
* **Connections.** Callers spin with try-lock; each operation has several exits;
  a lost link is detected late and replaced without sending the statement
  again. *Correct*: exclusive use, exactly one unlock, no result set left
  behind, each statement executed at most once, every call returns.
* **The composition.** *Correct*: a submitted query is executed at most once,
  as it was submitted, or is lost without having been executed; tasks come back.
* **Connection life cycle.** `Initialize`'s fallback goes through another port and
  database and closes a handle without forgetting it; `SelectDB` changes one
  connection of several and `Reconnect` undoes it. *Correct*: what the pool hands
  out is live, its own, and on the server asked for; handles are closed once
  and leak nowhere but in a failing `Initialize` and in the destructor.
* **The destructor.** It deletes the task pool while workers that `Stop` did not wait
  for may still hold tasks. *Correct* would be that nobody uses the pool any more. It
  does not delete the connections of the pool at all.
* **Log.** A file is cut by comparing days of the month, flushed by a subtraction of
  32-bit times, reopened with `fopen` that may fail, closed by the console handler on a
  thread of its own, and destroyed as an object at file scope while threads still log.
  *Correct*: a line reaches the file of its day, and the disk in time; no closed file is
  used, which holds only until the handler or the destructor has come.
* **Test client library.** A call that finds the link lost replaces the handle under
  results and statements that refer to it, and sends a statement again. *Correct*:
  the session is the one asked for, a statement runs twice only after a loss, a
  result being read keeps its handle.

`PROJECT.json` lists these as hazards, each at its line, with the properties
that would catch it.

## 2. Modules

| module | models | properties |
|---|---|---|
| `ThreadPool` | `CThreadPool` | list, EXIT packets, lost wake-ups, termination |
| `TaskPool` | `CPool<CXEMySqlTask>` and the buffers | free list, buffer contents |
| `ConnectionPool` | `GetFreeCon`, the three forms of `Query`, `SelectDB`, `HandleError`, `Reconnect`, `CXEMySqlStmt` | ownership, at most once, returns |
| `Connections` | abstract: what a borrowed connection promises | implemented by `ConnectionPool` |
| `XEMySql` | the composition of `ThreadPool`, `TaskPool` and `Connections` | tasks' holders, end-to-end promise |
| `AsyncQuery` | abstract: what one submitted query is promised | implemented by `XEMySql` |
| `XEMySqlTeardown` | the destructor on top of `XEMySql` | who still uses the task pool |
| `MySqlCon` | `Initialize`, `Connect`, `Close`, `Reconnect`, `SelectDB`, the end of `CXEMySql`: handles and sessions | live, own, right server, closed once, leaks |
| `LogFile` | `CLogFile`, with the callers of its `Close` and its destruction | day of a line, flush in time, use after close |
| `MySqlDB` | `MySqlDB`, `MySqlQuery`, `MySqlCmd` of `test/` | session, retries, results across reconnects |
| `SequenceFacts` | - | lemmas about sequences, for the two modules below |
| `ThreadPoolProofs`, `TaskPoolProofs`, `ConnectionPoolProofs`, `XEMySqlProofs`, `MySqlConProofs`, `LogFileProofs`, `MySqlDBProofs` | - | theorems about the module named |
| `MC*` | finite values for TLC | - |

`XEMySql` takes the *actions* of `ThreadPool`, `TaskPool` and `Connections`
through `INSTANCE` on its own variables, so a component is modelled once. It is
built on the abstract `Connections` rather than on `ConnectionPool`, which keeps
its state space small; the theorem `Implements` of `ConnectionPoolProofs` says that
the substitution is legitimate for safety, and `UsesConnections` of `XEMySqlProofs` that
the composition keeps to what `Connections` allows.

### ThreadPool and the code

`Start` and `Stop` (`ThreadPool.cpp:13-49`) hold `m_arrayCs` from their first
statement to their return, so the control variable `ctl` doubles as the lock:
`ctl # "idle"` means it is held. The two functions are cut into the steps
between which other threads can be seen to run: one per thread created
(`StartThread`), one per EXIT packet (`StopPost`), the wait (`StopWait`), the
close (`StopClose`). `RemoveThread` is one step that needs the lock free.
A worker (`WorkerProc`) is `GetPort`, then `Take` or `PortGone`, then `Finish`.

* The list's entry for a thread is appended even when `CreateThread` fails;
  such an entry has identity 0 and nobody removes it (`pc = "failed"`).
* `port` numbers the ports created. `Stop` closes the handle and keeps its
  value; a worker's `handle` is what it passed to `GetQueuedCompletionStatus`.
  That call fails for a closed port, and the worker leaves. Windows may reuse
  the number of a closed handle; the model does not.
* `Stop` allocates `pThread` and never fills it (`ThreadPool.cpp:38-45`). What
  `WaitForMultipleObjects` then does depends on the memory: it fails at once if
  some element is not a handle, and waits otherwise. `StaleHandles` is the set of
  thread handles that memory may contain. With `{}` the wait always fails at
  once, which is what happens on a fresh heap; with `Thread` it may wait for
  any set of threads.
* `ProcessJob(j, p)` posts to the port `p` its caller read earlier; the result
  is ignored, so a packet for a dead port is lost.

### TaskPool and the code

`PoolAlloc`, `PoolAllocThrows` and `PoolFree` are `Alloc` (with the `Step` it
calls) and `Free`, each atomic under `m_cs`. `m_nStepCount` is computed from
itself before it has a value (`CPool.h:40`), so `Init` lets it be anything from
1 up. `CopyQuery` is the `strncpy(szQuery, query, strlen(query))` of `GetFreeJob`:
it writes no terminator, so over a longer text the buffer reads back as a
mixture, which `Overwrite` returns as `Mixed`. `InitTask` is the `memset` of
`CXEMySqlTask::Init`. The variable `use` records which step of
Alloc-Fill-Clear-Free each task is at; `Next` of this module is the protocol
`GetFreeJob` and `ReleaseJob` follow, and `XEMySql` is shown to follow it.

### ConnectionPool and the code

`Call` and `SkipCon`/`LockCon` are `GetFreeCon`'s loop; its index is an
unsigned integer that wraps, modelled by `% IndexLimit`. `CommandOk`,
`CommandRejected`, `CommandLost`, `CommandNoLink` are the possible results of
`mysql_real_query` or `mysql_select_db`. `StoreResult`, `HandleError` and
`UnLock` are the rest of an operation; `kind` says which of the three operations
it is, and the paths differ where the code does: `SelectDB` never calls
`HandleError`, and `Query` with a `CXEMySqlResult` stores a result only if there
are fields and overwrites a good `bRet` with false (`xeMySql.cpp:217`).
`Query` with a `DB_BLOB` runs a `CXEMySqlStmt` on the connection: `PrepareStmt` is
`SetSQL`, `ExecuteStmt` is `SetParam`, `BindParams` and `Execute`, `CloseStmt` the
`Reset` of its destructor. A statement dies with its link and is not prepared again,
and none of its errors leads to `HandleError`. `mysql_stmt_close` frees the statement
even when it reports an error.

The server, the network and `libmysql` are external and are modelled from how the
code uses them: a link is lost at any moment; a command whose link is lost may
or may not have been executed; the client itself may raise an error with the link up,
before the command is sent or after it was executed, while its reply is read.
`error` says whether the error is one of those that `HandleError` lists (2006, 2008,
2013, 2055); 2008, out of memory, is one of them and does not mean that the link
is lost, so `Reconnect` may replace a working handle, and when it fails `Query` returns
false over a working connection although the statement was executed.
`MYSQL_OPT_RECONNECT`, which `Connect` sets and
`Reconnect` does not, makes the library restore a link that was down *before* a
command, never to repeat one.

### XEMySql and the code

A client runs `ExecuteQueryNoRet` (`GetFreeJob`, `FillJob`, `Post`) or `Query` on
its own thread. `FillJob` includes the read of `m_hWorkerIoPort`, which is the last
thing a client does before `Post`; between the two `Stop` and `Start` may run. A
worker that has taken a task runs `ProcessTask`, the `Query` steps,
`ReleaseInit` and `ReleaseFree`. `ExecuteQueryNoRet(NULL)` posts a null task,
which the worker ignores. `ExecuteQueryNoRet` and `Query` pass their text as the
*format* of `vsnprintf`; `Formatted` stands for what comes out and is assumed
one-to-one.

`UseOf` computes the protocol state of each task from where it is, and `StatusOf`
the state of each query: these are the refinement mappings to `TaskPool` and
`AsyncQuery`.

`XEMySqlTeardown` adds the destructor: with `Stop` done and no client in a call, the
owner deletes the pool (`Purge` deletes what is on the free list) and then the
worker object. Threads that `Stop` left running go on, up to the step that would
use the deleted pool, which is undefined and not taken.

### MySqlCon and the code

`handles` is the table of every `MYSQL` made, with its session and the number of
times it was closed; `con` is every `CXEMySqlCon` made, in the order of
`Initialize`'s loop. `ConnectFirst`, `ConnectTest`, `CreateDatabase` and
`ConnectAgain` are the statements of that loop (`xeMySql.cpp:40-75`); the outcomes of
`mysql_init`, `mysql_real_connect` and the options are `Outcome`. `Connect` closes
the old handle first and keeps the new one even when it cannot connect it; `Close`
leaves `m_pMySql` as it is, so the `Connect` after the fallback closes the same
handle again. That is undefined; the model goes on, counting, as a program that
survives it would. The fallback uses port 3306 and the database `test` whatever was
asked for (`xeMySql.cpp:51`). After a failed `Initialize` the pool has the
connections made so far, and a program may call `Initialize` once more. `selected` is,
for each connection, the database `SelectDB` last chose on it. `Destroy` is
`~CXEMySql` (`xeMySql.cpp:35-39`), which deletes the task pool and the worker: the vector
ends, and the `CXEMySqlCon` in it, with their handles, belong to nobody. An operation on
a connection is one step because `ConnectionPool` shows that its user has it to itself.

### LogFile and the code

One of the four files of `oLog`. `OutPutString` is one step with its `Cut` (the day
of the month differs from that of `Open`, which never changes), `Flush` or `Buffer`;
every operation holds `m_cs`. `clock` is `GetTickCount`, which wraps at `TickLimit`;
`Elapsed` is the 32-bit difference. stdio's own buffer is modelled as saved only by
`fflush` and `fclose`. `Close` leaves `m_pFile` set; `CtrlHandler` calls it on the
handler's thread. Using a closed `FILE` sets `misused` and is otherwise undefined: the
program ends there or goes on without that line.

`life` is how far the program has come. `oLog` is an object at file scope, so it is
destroyed when `main` has returned, while workers that `Stop` did not wait for, and the
handler, go on. `Exit` is the `Close` in `~CLogFile`; after it the other threads may still
log, to a closed `FILE`. `Teardown` frees the `CLogFile` and clears the pointer
(`SAFE_DELETE`), and then `mSingleton`; `UseFreed` is a thread that read the pointer
before. `End` is the end of the process, the failing `assert` of `getSingleton` included.

### MySqlDB and the code

A thread of the test program has a `MySqlDB` of its own, so each call is one step;
`Drop` loses the link between two calls, the outcomes of `Send` inside one.
`m_pMySql` records the link, the session and the result that has not been read yet.
`Reconnect(h)` is `_Reconnect`, which closes the handle whatever is open on it
(`HandleClosed`): a `MYSQL_RES` being read becomes `"stale"`, a statement
`"detached"`. `ExecuteSQL` sends a statement again after a lost link, `Execut` too, on
a statement that the reconnect has detached. A `Reset` that fails keeps a statement
that libmysql has freed (`"freed"`). A caller fetches from the object it executed last;
calls on a NULL handle, a stale result or a freed statement are undefined and are
not continued.

## 3. Runs

| run | module, cfg | bounds | checks |
|---|---|---|---|
| `thread_pool` | `MCThreadPool`, `ThreadPool.cfg` | 2 processors, 2 Starts, 4 threads, 2 jobs, 1 job packet, `StaleHandles = {}` | `TypeOK`, `ListedIffRunning`, `IteratorValid`, `EnoughExits`, `JobTaken`, `WorkersLeave` |
| `stop_shuts_down` | `MCThreadPool`, `ThreadPoolShutsDown.cfg` | the same | `StopShutsDown`, violated |
| `stop_returns` | `MCThreadPool`, `ThreadPoolStopReturns.cfg` | 1 Start, `StaleHandles = Thread` | `StopReturns`, violated |
| `task_pool` | `MCTaskPool`, `TaskPool.cfg` | 4 tasks, steps of 1 to 3, a short and a long text | `TypeOK`, `FreeListExact`, `FilledReadsBack` |
| `connection_pool` | `MCConnectionPool`, `ConnectionPool.cfg` | 3 users, 2 connections, 2 losses, 1 call each, index wraps at 3 | `TypeOK`, `OwnedWhileUsed`, `CleanAtHandout`, `ReturnsTell`, `ImplementsConnections` |
| `connection_pool_returns` | `MCConnectionPool`, `ConnectionPoolReturns.cfg` | the same without losses | `CallReturns` |
| `xemysql_clients` | `MCXEMySql`, `XEMySqlClients.cfg` | 2 clients, 1 worker, 1 task, 1 connection, 1 Start, 3 queries (one NULL) | `TypeOK`, `TaskHasOneHolder`, `FreeTasksClean`, `OnlySubmitted`, `ImplementsAsyncQuery`, `TasksComeBack` |
| `xemysql_restart` | `MCXEMySql`, `XEMySqlRestart.cfg` | 1 client, 1 processor, 2 Starts, 2 tasks | `TaskHasOneHolder`, `ImplementsTaskPool`, `LostOnlyAtClosedPort` |
| `pool_released_last` | `MCXEMySqlTeardown`, `XEMySqlTeardown.cfg` | 1 client, 1 worker, 1 task, 1 Start | `PoolReleasedLast`, violated |
| `connection_life` | `MCMySqlCon`, `MySqlCon.cfg` | 2 connections, 5 handles, 1 further Initialize, 3 databases, ports 3306 and 3307 | `TypeOK`, `HandedOutLive`, `OnConfiguredServer`, `ClosedOnce`, `LeaksAccounted` |
| `log_file` | `LogFile`, `LogFile.cfg` | 4 days, months of 2, a clock of 8 ticks, interval 3, silence 4 | `TypeOK`, `LineInItsDay`, `FlushedInTime`, `NoUseAfterClose` |
| `mysqldb` | `MySqlDB`, `MySqlDB.cfg` | 2 servers, 2 databases; the module has no bounds | `TypeOK`, `OnAskedDatabase`, `RunTwiceOnlyAfterLoss`, `FlagTellsConnection`, `QueryKeepsReading` |

Why the bounds are enough:

* *thread_pool*: two workers can race for one packet and for the lock while
  `Stop` iterates over the other; with two jobs one can wait in the port while
  the other runs; two Starts let a worker of the first survive `Stop` and meet
  the workers of the second, on either port. One queued job suffices because
  `Take` looks only at the head.
* *task_pool*: a step that fits, a step that throws with some tasks made, and a
  step that throws with none all occur; the short text after the long one is
  the case the missing terminator is about.
* *connection_pool*: with three users on two connections the scan fails at least
  once, and after the index has wrapped at 3 it tries connection 0 twice in a
  row, as the real index does at 2^32 whenever the number of connections does
  not divide it. Two losses are enough to lose the link, have it restored by
  the library or by `HandleError`, and lose it again. *connection_pool_returns*
  loses no link: it is about the contention for connections, and an operation
  that has lost its link runs straight on to `UnLock`, in at most three steps.
* *xemysql_clients*: one task for two clients forces recycling across a long and
  a short text, one connection forces waiting, and `Stop` may come at any moment.
* *xemysql_restart*: a client may read the first port and post after the second
  has been created; the worker of the first Start may run next to that of the
  second; the task pool grows and then throws.
* *connection_life*: two connections can share a handle by mistake or be on
  different databases; five handles let each connection go through the fallback's
  two and one of them reconnect; the second Initialize meets what the failed one
  left; with port 3307 the fallback's 3306 is another server, and with the
  database absent or present both paths of the loop are taken.
* *log_file*: with months of two days the third day has the number of the day of
  `Open`, which is the case that is not cut; eight ticks let the clock wrap between
  two lines and between two flushes.
* *mysqldb*: one query and one statement object are enough, since a second one would
  only repeat the first's relation to the handle; two servers tell the one asked
  for from the one before, `DefaultServer` from both.

`CHECK_DEADLOCK FALSE` stands where the bounds on calls and Starts make the
system stop: users have made all their calls, clients have issued all queries.

### Fairness

`FairSpec` assumes only what the environment gives. The operating system runs every
thread, hence weak fairness of each thread's own steps (`GetPort`, `PortGone`,
`Finish`, `RemoveThread`, the steps of an operation in progress). `Finish`
includes the assumption that `ProcessTask` returns, and `Step` of
`ConnectionPool` that a call into `libmysql` returns. A completion port hands a
packet to *some* waiter (in last-in-first-out order, in fact), so there is one
weak fairness condition for all `Take`s and none for each. The lock `m_arrayCs`
needs no fairness: `WF` of `RemoveThread` is enough because the liveness
properties that need it assume that `Start` and `Stop` are eventually no longer
called. Nobody is obliged to call `Start`, `Stop`, `ProcessJob` or a query.

`CallReturns` rests on `MaxCalls`: a thread that spins in `GetFreeCon` gets a
connection because the others stop taking them. Without that bound a spinning
thread may starve; nothing in the code prevents it.

### What the violations show

* `stop_shuts_down` - `ThreadPool.cpp:36` says "shut down all the worker
  threads". TLC finds `Stop` closing the port and returning with its workers
  still in `WorkerProc`: the array given to `WaitForMultipleObjects` was never
  filled, so the wait fails immediately. That all workers do leave *eventually*
  is `WorkersLeave`, which holds.
* `stop_returns` - `ThreadPool.cpp:45` says "wait for 2 minutes, then start to kill
  threads". The code passes INFINITE. It also waits with `m_arrayCs` held, and a
  worker must take that lock before it ends, so if every element of the array's memory
  happens to be a valid handle, and one of them a worker's, `Stop` never returns. Filling the array
  without releasing the lock would make that the normal case.

* `pool_released_last` - a comment at `xeMySql.cpp:37` says that the task pool is
  released last. The destructor deletes it first, and because `Stop` does not wait
  for the workers one of them may still hold a task: its `ReleaseJob` calls `Free` of
  the deleted pool.

More facts the models make visible without contradicting any statement of the
repository: a worker that is busy through `Stop` and the next `Start` joins the new
pool, which then has one thread too many; a query whose link was lost is
reported as successful after a reconnect although it may not have been executed
(`HandleError`'s result becomes the query's), and one that failed may have been
executed, over a lost link or a working one (`ReturnsTell` says what is left: without an
error a result says what happened, with one it says only that the handle was
replaced); `Query` with a `CXEMySqlResult` returns false after a success; every handle of
the pool leaks when the `CXEMySql` is destroyed, and that of the connection at hand when
`Initialize` fails (`LeaksAccounted` says that no other leaks); the log is used closed,
and freed, by threads that outlive `main` or the handler's `Close` (`NoUseAfterClose` says
not before); the fallback's handle is closed twice
(`ClosedOnce` says that no other is); lines of a day whose number is that of the day
of `Open` go on into the file of the day before (`LineInItsDay`); and after a failed
`Connect` the test library's `Connected` reaches the default server
(`OnAskedDatabase`). Where a property names such an exception, it says that the
exception is the only one.

### Mutants

Each property of each passing run has a mutant: an operator named
`<definition>_<what>` right before the definition it changes, such as
`RemoveThread_NoLock` or `HandleError_Retries`. With the mutant in place TLC
finds the property violated, so no property holds by the shape of the model alone.

## 4. Proofs

`ThreadPoolProofs`, for any number of processors, threads, jobs and Starts, and any
`StaleHandles`:

| theorem | statement |
|---|---|
| `TypeCorrect` | `Spec => []TypeOK` |
| `ListExact` | `Spec => []ListedIffRunning` |
| `IteratorSafe` | `Spec => []IteratorValid` |
| `ExitsSuffice` | `Spec => []EnoughExits` |

`ConnectionPoolProofs`, for any number of users, connections, lost links and calls,
and any width of the index:

| theorem | statement |
|---|---|
| `TypeCorrect` | `Spec => []TypeOK` |
| `Exclusive` | `Spec => []OwnedWhileUsed` |
| `Clean` | `Spec => []CleanAtHandout` |
| `ReturnsRight` | `Spec => []ReturnsTell` |
| `Implements` | `Spec => ImplementsConnections` |

`TaskPoolProofs`, for any number of tasks, any texts and any step size:

| theorem | statement |
|---|---|
| `TypeCorrect` | `Spec => []TypeOK` |
| `FreeListRight` | `Spec => []FreeListExact` |
| `ReadsBack` | `Spec => []FilledReadsBack` |

`XEMySqlProofs`, for any number of clients, workers, connections, tasks and Starts:

| theorem | statement |
|---|---|
| `TypeCorrect` | `Spec => []TypeOK` |
| `OneHolder` | `Spec => []TaskHasOneHolder` |
| `FreeClean` | `Spec => []FreeTasksClean` |
| `Submitted` | `Spec => []OnlySubmitted` |
| `FollowsProtocol` | `Spec => ImplementsTaskPool` |
| `LostOnlyThen` | `Spec => LostOnlyAtClosedPort` |
| `QueriesKept` | `Spec => ImplementsAsyncQuery` |
| `ThreadsKept` | `Spec => [](TP!ListedIffRunning /\ TP!IteratorValid /\ TP!EnoughExits)` |
| `UsesConnections` | `Spec => CN!Spec` |
| `OneConnection` | `Spec => []CN!HoldsOne` |

`MySqlConProofs`, for any number of connections, databases, ports and failed
Initializes:

| theorem | statement |
|---|---|
| `TypeCorrect` | `Spec => []TypeOK` |
| `PoolHandles` | `Spec => []HandedOutLive` |
| `PoolServer` | `Spec => []OnConfiguredServer` |
| `ClosesOnce` | `Spec => []ClosedOnce` |
| `LeaksOnlyThere` | `Spec => LeaksAccounted` |

`LogFileProofs`, for any number of days, any month and any width of the clock:

| theorem | statement |
|---|---|
| `TypeCorrect` | `Spec => []TypeOK` |
| `RightFile` | `Spec => []LineInItsDay` |
| `InTime` | `Spec => []FlushedInTime` |
| `ClosedUnused` | `Spec => []NoUseAfterClose` |

`MySqlDBProofs`, for any servers and databases:

| theorem | statement |
|---|---|
| `TypeCorrect` | `Spec => []TypeOK` |
| `SessionAsked` | `Spec => []OnAskedDatabase` |
| `FlagRight` | `Spec => []FlagTellsConnection` |
| `RunsOnce` | `Spec => []RunTwiceOnlyAfterLoss` |
| `KeepsReading` | `Spec => QueryKeepsReading` |

The only assumptions are the named ones in the modules (`ThreadPoolAssumption`,
`TaskPoolAssumption`, `ConnectionPoolAssumption`, `XEMySqlAssumption`,
`ThreadAssumption`, `MySqlConAssumption`, `LogFileAssumption`, `MySqlDBAssumption`), which TLC evaluates
on every run of the module. They say that the bounds are numbers and that the
special values (`EXIT`, `NoJob`, `Empty`, `NULL` and so on) are not ordinary ones.
`Thread` is a finite set of numbers, the order in which threads are made.
Two say something about the world: `Formatted` of `XEMySql` is one-to-one, and
`Interval + MaxSilence < TickLimit` in `LogFile` keeps a silence from hiding a whole
turn of the clock.

**The thread pool.** The inductive invariant `IInv` is `TypeOK`,
`ListedIffRunning`, `IteratorValid` and `VisitOnlyPosting`. The last is the
strengthening: from `IteratorValid` alone, a `RemoveThread` could take an entry off the
list that `Stop` has still to visit. `VisitOnlyPosting` says there are entries to
visit only while `Stop` posts, hence while it holds the lock `RemoveThread` needs.
`ListedIffRunning` needs that entry and thread appear in one step and disappear in
one step.

`EnoughExits` is about cardinalities: workers still in the loop against EXIT
packets in the queue plus entries still to visit. It is proved relative to `IInv`:
`StopBegin` establishes it because every worker in the loop is listed; `StopPost`
trades one entry for one packet; a `Take` of an EXIT packet removes one packet and one
worker; all other steps leave the sides alone or shrink the left one. The lemmas
`IndicesAppend` and `IndicesTail` say how the number of occurrences of a value
changes when a sequence gains its last or loses its first element.

**The connections.** `OwnedWhileUsed` is inductive with the types, with `ScanHasCon`
(so that the remainder in `GetFreeCon` is an index) and with `ConWhileUsing`.
`CleanAtHandout` is not inductive: `UnLock` could free a connection with a result
pending. `PendingAtStore` closes the gap: a result is pending only while its own
operation is at `mysql_store_result`. `ReturnsTell` needs `EffectOK`, which follows
one statement through its operation: not executed before its command, and executed once
when there was no error; after an error only `HandleError` makes
the result true, and the handle it put in place (without `MYSQL_OPT_RECONNECT`) stays until
`UnLock`, because the connection is the operation's own (`ExclusiveUse`, `Frame`). The
refinement maps `SkipCon`, `StoreResult`, `HandleError` and `Drop` to
stuttering, `LockCon` to `Acquire`, an execution to `Execute` (enabled because
`EffectOK` says there was none before) and `UnLock` to `Release`.

**The task pool.** The invariant adds `Zeroed` to the three properties: the buffer of
every task that is not filled is empty, which is what makes the copy without
terminator read back. That a step of `Step` keeps the list free of repetitions is in
the lemmas of `SequenceFacts`.

**The composition.** `IInv` has four parts. `TInv` is `TypeOK` with what the control
points imply (`PoolOK`, `ClientOK`, `WorkerOK`, `PortOK`: a client at `fill` has a task
that was made and a query, a worker past `query` is busy with a task, the port has
tasks that were made). `TaskHasOneHolder` is inductive relative to it: the task that
`Alloc` returns was on the list or did not exist, and each later step passes a
task from one place to the next. `Contents` says which tasks are zeroed (those on
the list, not yet made, in the hands of a client before `FillJob` or of a worker after
`ReleaseInit`) and which carry a query (those in the port, with a client after
`FillJob`, with a worker before `ReleaseInit`); since a task has one holder, `FillJob` and
`ReleaseInit` move their own task from one set to the other and disturb no other.
`OnlySubmitted` follows, because a worker inside `Query` is at `release` with a task
that carries a query. For `FollowsProtocol` the lemma `UseIs` removes the leaks from the
refinement mapping, and each of `GetFreeJob`, `GetFreeJobThrows`, `FillJob`,
`ReleaseInit` and `ReleaseFree` is shown to be the protocol's step; all others leave
the mapped variables alone. `LostOnlyThen` adds `ClosedEmpty` (no packet is in a port
that is not open): each step either keeps every task in some place, or is a post to
a port that is not the open one, which loses the task posted, or is `StopClose`, which
loses what is in the port. The property says exactly that, so a task that has leaked
also never comes back.

**Each submitted query.** `QueriesKept` maps each text to `StatusOf` ("unsent", "accepted",
"finished", "lost") and to the number of times the server has executed its
statement, and shows that every step of the composition is one step of `AsyncQuery`
about one query, or a stutter. The invariant `AInv` has four parts.

* `Bearers`: a submitted query that is not at its end is borne by exactly one client
  (`Asking`, in a call) or one task (`Carrying`: in the port, with a worker that has not
  cleared it yet, or leaked).
  Without it one step could move two queries, or two bearers of one query could
  have it executed twice.
* `PostOK`: a client about to post has filled its task with its own query.
* `ReadsBack`: what a worker reads from its task is what the client wrote.
  This is `FilledReadsBack` of `TaskPool`, under the mapping of `FollowsProtocol`.
* `ServedOnce`: no statement has been executed more than once; one whose query nobody
  has called `Query` for yet (`Fresh`) has not been executed at all; and while a thread
  is in `Query` its statement has been executed `effect` times. The statement a thread
  sends is that of the query it bears, by `ReadsBack` and because `Formatted` is
  one-to-one, and nobody else bears that query.

The lemmas of "How each step moves the queries" give, for each action, which bearer it
moves and from which stage to which; `MovesStep` turns a move into a step of
`AsyncQuery`'s status and `StepServes` adds the executions.

**The components inside the composition.** `XEMySql` posts more freely than
`ThreadPool`'s `Submit`: clients post the null task any number of times, and a packet
may be posted for a port read long ago. `ThreadPoolProofs` therefore proves its
invariants for `PoolStep`, in which anybody posts any job to any port, and
`ThreadsKept` shows that each step of the composition is a `PoolStep`. `UsesConnections`
shows that clients and workers use the connections as `Connections` says, so that
`Implements` of `ConnectionPoolProofs` applies to them; `OneConnection` draws from it
that a query in progress holds exactly one connection, and nobody else one at all.

**The life cycle.** `Distinct` (two objects never share a handle), `Unmade` (objects not
yet reached by the loop have none) and `Place` (`Initialize` works behind the pool) carry
`PoolLive` (each connection of the pool can be handed out) and `Working` (which handle the
object at hand has at each statement of `Initialize`, and how often it was closed). `ClosedOnce` holds because a closed handle is referred to only in
the step between the fallback's `Close` and the next `Connect`. `LeaksAccounted` is an
equation: each step adds to the leaked handles those it abandons (`Abandoned`) and no
others. For `Connect` and `Reconnect` it holds because the handle replaced is closed, for
`Destroy` because `PoolLive` makes the handles of the pool open ones that nobody else has.

**The log.** `TodaysFile` says that after the first line of a day the open file is that
day's, unless the day repeats; `ClosedByHandler`, that a closed `FILE` is left behind
by the handler or the destructor only, so that while `main` runs `misused` needs the
handler; `BufferYoung`, that the 32-bit difference is
the true age of the last flush and bounds that of the oldest line.

**The test library.** `NamesKept` relates the names kept for `_Reconnect` to what the
caller asked for; with `Unused` (nothing happens before the first call) it makes
`OnAskedDatabase` and `FlagTellsConnection` inductive. `QueryKeepsReading` needs
`Reading`: a result being read is the one unread on the handle.

Only model-checked: the liveness properties `JobTaken`, `WorkersLeave`, `CallReturns`
and `TasksComeBack`, which are out of the prover's reach. Every invariant, action
property and refinement that a run checks is also proved.

## 5. Assumptions and limits

* Texts passed to `ExecuteQueryNoRet` fit the 256 bytes of a task. `SetData` has no
  caller, so `m_pData` is NULL and `ProcessTask` takes its first branch.
* `Initialize` has succeeded before `XEMySql` starts; what a failed one leaves is in
  `MySqlCon`. The object is destroyed only in `XEMySqlTeardown`, when its clients are done.
* An owner does not call `Start` twice without `Stop`; the code would leak the first
  port and serve it with nobody.
* The mutual exclusion of the scoped locks is taken from Win32; it is the atomicity
  of the steps of `TaskPool`, of `LogFile` and of `RemoveThread`.
* A post to an open port succeeds. `PostQueuedCompletionStatus` may fail for want of
  memory, and neither `Stop` nor `ProcessJob` looks at its result
  (`ThreadPool.cpp:42`, `:53`): a worker would then be without an EXIT packet until the
  port is closed, or a task would leak. That is not modelled.
* Undefined behaviour ends a behaviour or goes on in the way the module names: a second
  close of a handle (`MySqlCon`), a use of a closed `FILE` (`LogFile`). If `mysql_init`
  fails in `Reconnect`, `mysql_real_connect` gets NULL and the program ends.
* stdio may write a buffer out earlier than `LogFile` says, never later than `fflush`.
* libmysql, modelled from how the code uses it: `mysql_close` detaches the statements of
  its handle; a lost link ends the prepared ones; `mysql_stmt_close` frees its
  statement even when it fails; `mysql_ping` and every command fail while a result is
  unread. `pending` of `ConnectionPool` is libmysql's own record of a result not read; what an
  error of the client leaves of a reply on the wire is discarded by libmysql before the
  next command, and is not modelled.

## 6. Not modelled, and what is left

* Memory. `Query` with a `MYSQL_RES` assigns the stored result to its parameter, which is
  passed by value (`xeMySql.cpp:160`), so nobody can free it: each such query with a
  result set, those of the workers included, leaks it. `Query` with a `CXEMySqlResult`
  frees none either. Only handles and tasks are accounted for here.
* `CXEMySqlResult`: getters over one result in one thread; its `m_pRecords` is never
  set, so it frees nothing. The hazard of reusing one for a second query is listed.
* Of `DB_BLOB` and `CXEMySqlStmt`, the memory of the parameters and their buffers.
* The GBK search (`GlobalDefine.cpp`) is compiled only with `USE_GBK`, which no project
  file defines.
* `DBClass` is not part of the build; its `m_sqlCon` is used uninitialised and `Query`
  fills a copy of its result parameter, so that no call has a defined outcome.
* Crash reports (`test.cpp` included) format text over debug symbols; the demonstration in `xe_mysql.cpp` is a
  straight line, apart from its console handler, which is in `LogFile`.
* `Singleton` is a class template, and `CreateSingleton(oLog)` makes `oLog` an object at
  file scope, of which `LogFile` models the end. `oLog`'s other three files are like the
  one modelled.
* Most of the repository's lines are the vendored headers of the MySQL client and of the
  Windows debugging SDK (`SDK/`, `include/mysql/`). They declare, and do not decide
  anything this program does; the modules take from them what the code calls. The
  program itself is a few thousand lines, whose parts with state are modelled.

Possible further work: the composition of `XEMySql` with `ConnectionPool` in place of
`Connections`.

## 7. Running

```
tlasany XEMySql.tla
tlc -workers 2 -config XEMySqlClients.cfg MCXEMySql
tlapm ThreadPoolProofs.tla
```
