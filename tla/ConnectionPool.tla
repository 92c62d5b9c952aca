---------------------------- MODULE ConnectionPool ----------------------------
(***************************************************************************)
(* The connections of CXEMySql (m_VectorCon) and the operations that       *)
(* borrow one: Query with a MYSQL_RES, with a CXEMySqlResult and with a    *)
(* DB_BLOB (a CXEMySqlStmt on the connection), and SelectDB.  GetFreeCon   *)
(* spins over the connections with AttemptLock; the operation then talks   *)
(* to the server, handles an error, perhaps reconnects, and releases the   *)
(* lock on its way out.                                                    *)
(*                                                                         *)
(* The server and libmysql are external: a link may go down at any moment, *)
(* a command may fail before or after the server executed it, with its     *)
(* link or without, and with MYSQL_OPT_RECONNECT (set by Connect, not by   *)
(* Reconnect) the library restores a link that was down before the         *)
(* command was sent.                                                       *)
(***************************************************************************)
EXTENDS Naturals, FiniteSets

CONSTANTS
  User,       \* threads that call the operations
  NoUser,     \* owner of a free connection
  NumCon,     \* m_VectorCon.size(): Initialize may leave it empty
  IndexLimit, \* 2^32: where GetFreeCon's index wraps
  MaxDrops,   \* bound: losses of a link
  MaxCalls    \* bound: operations per user

ASSUME ConnectionPoolAssumption ==
  /\ IsFiniteSet(User) /\ NoUser \notin User
  /\ NumCon \in Nat /\ MaxDrops \in Nat /\ MaxCalls \in Nat
  /\ IndexLimit \in Nat \ {0} /\ NumCon <= IndexLimit

\* A connection is its index in m_VectorCon; NoCon is GetFreeCon's NULL.
Con == 0..(NumCon - 1)
NoCon == NumCon

\* "query": with a MYSQL_RES; "result": with a CXEMySqlResult; "blob": with a
\* DB_BLOB; "select": SelectDB.
Kind == {"query", "result", "blob", "select"}
Error == {"none", "listed", "other"}   \* listed in HandleError: 2006, 2008, 2013, 2055

VARIABLES
  owner,     \* who is inside the critical section cs of each connection
  link,      \* the connection's session exists on the server
  resend,    \* the handle has MYSQL_OPT_RECONNECT
  pending,   \* a result set waits to be stored
  stmt,      \* m_pStmt of the operation on the connection is an open statement
  at,        \* where each user is in its operation
  kind,      \* which operation
  index,     \* i of GetFreeCon
  con,       \* pCon
  error,     \* mysql_errno after the command
  bRet,      \* the result the operation returns
  executed,  \* times the server executed the statement of the operation under way
  calls,     \* operations each user has begun
  drops      \* links lost so far

conVars  == <<owner, link, resend, pending, stmt>>
userVars == <<at, kind, index, con, error, bRet, executed, calls>>
vars == <<conVars, userVars, drops>>

\* Between the AttemptLock that succeeded and UnLock.
Using == {"command", "store", "error", "prepare", "execute", "reset", "unlock"}

Init ==
  /\ owner = [c \in Con |-> NoUser]
  /\ link = [c \in Con |-> TRUE] /\ resend = [c \in Con |-> TRUE]
  /\ pending = [c \in Con |-> FALSE] /\ stmt = [c \in Con |-> FALSE]
  /\ at = [u \in User |-> "idle"] /\ kind = [u \in User |-> "query"]
  /\ index = [u \in User |-> 0] /\ con = [u \in User |-> NoCon]
  /\ error = [u \in User |-> "none"] /\ bRet = [u \in User |-> FALSE]
  /\ executed = [u \in User |-> 0] /\ calls = [u \in User |-> 0]
  /\ drops = 0

-----------------------------------------------------------------------------
(* The operations *)

\* With no connection GetFreeCon returns NULL and the operation false.
Call(u, k) ==
  /\ at[u] = "idle" /\ calls[u] < MaxCalls
  /\ calls' = [calls EXCEPT ![u] = @ + 1]
  /\ at' = [at EXCEPT ![u] = IF NumCon = 0 THEN "idle" ELSE "scan"]
  /\ kind' = [kind EXCEPT ![u] = k]
  /\ UNCHANGED <<conVars, index, con, error, bRet, executed, drops>>

\* Mutant: the index does not wrap.
SkipCon_NoWrap(u) ==
  /\ at[u] = "scan"
  /\ owner[index[u] % NumCon] \notin {NoUser, u}
  /\ index' = [index EXCEPT ![u] = @ + 1]
  /\ UNCHANGED <<conVars, at, kind, con, error, bRet, executed, calls, drops>>

\* AttemptLock fails: the next index, which wraps like any xe_uint32.
SkipCon(u) ==
  /\ at[u] = "scan"
  /\ owner[index[u] % NumCon] \notin {NoUser, u}
  /\ index' = [index EXCEPT ![u] = (@ + 1) % IndexLimit]
  /\ UNCHANGED <<conVars, at, kind, con, error, bRet, executed, calls, drops>>

\* AttemptLock succeeds.  A critical section lets its own thread in again.
LockCon(u) ==
  /\ at[u] = "scan"
  /\ LET c == index[u] % NumCon IN
       /\ owner[c] \in {NoUser, u}
       /\ owner' = [owner EXCEPT ![c] = u]
       /\ con' = [con EXCEPT ![u] = c]
  /\ at' = [at EXCEPT ![u] = IF kind[u] = "blob" THEN "prepare" ELSE "command"]
  /\ UNCHANGED <<link, resend, pending, stmt, kind, index, error, bRet, executed, calls, drops>>

\* Mutants: SelectDB's early return forgets UnLock; rows are stored for a
\* MYSQL_RES only.
CommandOk_SelectLeaves(u) ==
  /\ at[u] = "command" /\ kind[u] = "select" /\ link[con[u]]
  /\ at' = [at EXCEPT ![u] = "idle"]
  /\ UNCHANGED <<conVars, kind, index, con, error, bRet, executed, calls, drops>>

CommandOk_RowsLeft(u) ==
  /\ at[u] = "command" /\ kind[u] = "result" /\ link[con[u]]
  /\ executed' = [executed EXCEPT ![u] = @ + 1]
  /\ pending' = [pending EXCEPT ![con[u]] = TRUE]
  /\ at' = [at EXCEPT ![u] = "unlock"]
  /\ UNCHANGED <<owner, link, resend, stmt, kind, index, con, error, bRet, calls, drops>>

\* The server executes the command and the reply arrives.  A query may return
\* rows, which wait on the connection; with a CXEMySqlResult only such a
\* result is stored, and bRet ends false (xeMySql.cpp:217).  A down link is
\* restored by the library first, if the handle allows it.
CommandOk(u) ==
  LET c == con[u] IN
  /\ at[u] = "command" /\ ~pending[c]
  /\ link[c] \/ resend[c]
  /\ link' = [link EXCEPT ![c] = TRUE]
  /\ executed' = [executed EXCEPT ![u] = @ + 1]
  /\ \/ /\ kind[u] = "select"
        /\ at' = [at EXCEPT ![u] = "unlock"]
        /\ bRet' = [bRet EXCEPT ![u] = TRUE]
        /\ UNCHANGED pending
     \/ /\ kind[u] # "select"
        /\ \E rows \in BOOLEAN :
             /\ pending' = [pending EXCEPT ![c] = rows]
             /\ at' = [at EXCEPT ![u] =
                         IF kind[u] = "query" \/ rows THEN "store" ELSE "unlock"]
        /\ UNCHANGED bRet
  /\ UNCHANGED <<owner, resend, stmt, kind, index, con, error, calls, drops>>

\* mysql_store_result takes what the server sent, or fails; the code does not
\* look at which.
StoreResult(u) ==
  /\ at[u] = "store"
  /\ pending' = [pending EXCEPT ![con[u]] = FALSE]
  /\ bRet' = [bRet EXCEPT ![u] = (kind[u] = "query")]
  /\ at' = [at EXCEPT ![u] = "unlock"]
  /\ UNCHANGED <<owner, link, resend, stmt, kind, index, con, error, executed, calls, drops>>

Fails(u, e) ==
  /\ error' = [error EXCEPT ![u] = e]
  /\ at' = [at EXCEPT ![u] = IF kind[u] = "select" THEN "unlock" ELSE "error"]
  /\ UNCHANGED <<owner, resend, pending, stmt, kind, index, con, bRet, calls>>

\* The command fails over a link that stays up: the server reports an error or
\* a result set is still pending, and nothing was executed; or the client has
\* an error of its own before or after the server executed the command, such
\* as 2008, out of memory, which it may run into while it reads the reply ...
CommandRejected(u) ==
  /\ at[u] = "command" /\ link[con[u]]
  /\ \/ Fails(u, "other") /\ UNCHANGED executed
     \/ /\ ~pending[con[u]]
        /\ \E e \in {"listed", "other"} : Fails(u, e)
        /\ \E n \in {0, 1} : executed' = [executed EXCEPT ![u] = @ + n]
  /\ UNCHANGED <<link, drops>>

\* ... or the link is lost under it, before or after the server executed it;
\* or the library gives it up over a reply it cannot take (2020) ...
CommandLost(u) ==
  /\ at[u] = "command" /\ link[con[u]] /\ ~pending[con[u]] /\ drops < MaxDrops
  /\ drops' = drops + 1
  /\ link' = [link EXCEPT ![con[u]] = FALSE]
  /\ \E n \in {0, 1} : executed' = [executed EXCEPT ![u] = @ + n]
  /\ \E e \in {"listed", "other"} : Fails(u, e)

\* ... or it was down before; a failed attempt of the library to restore it
\* leaves an error HandleError does not know, such as 2003.
CommandNoLink(u) ==
  /\ at[u] = "command" /\ ~link[con[u]]
  /\ \E e \in {"listed"} \cup (IF resend[con[u]] THEN {"other"} ELSE {}) : Fails(u, e)
  /\ UNCHANGED <<link, executed, drops>>

\* Mutant: the statement is sent again after a reconnect.
HandleError_Retries(u) ==
  /\ at[u] = "error" /\ error[u] = "listed"
  /\ at' = [at EXCEPT ![u] = "command"]
  /\ link' = [link EXCEPT ![con[u]] = TRUE]
  /\ pending' = [pending EXCEPT ![con[u]] = FALSE]
  /\ UNCHANGED <<owner, resend, stmt, kind, index, con, error, bRet, executed, calls, drops>>

\* Mutant: the result of Reconnect is not looked at.
HandleError_Ignores(u) ==
  /\ at[u] = "error"
  /\ at' = [at EXCEPT ![u] = "unlock"]
  /\ bRet' = [bRet EXCEPT ![u] = (error[u] = "listed")]
  /\ UNCHANGED <<conVars, kind, index, con, error, executed, calls, drops>>

\* HandleError: for a listed error, Reconnect, whether or not the link is down.
\* The statement is not sent again, yet the success of Reconnect becomes the
\* operation's.  The new handle has no MYSQL_OPT_RECONNECT; the old one is
\* kept when the server does not answer.
HandleError(u) ==
  LET c == con[u] IN
  /\ at[u] = "error"
  /\ at' = [at EXCEPT ![u] = "unlock"]
  /\ \/ /\ error[u] = "listed"
        /\ link' = [link EXCEPT ![c] = TRUE]
        /\ resend' = [resend EXCEPT ![c] = FALSE]
        /\ pending' = [pending EXCEPT ![c] = FALSE]
        /\ bRet' = [bRet EXCEPT ![u] = TRUE]
     \/ /\ bRet' = [bRet EXCEPT ![u] = FALSE]
        /\ UNCHANGED <<link, resend, pending>>
  /\ UNCHANGED <<owner, stmt, kind, index, con, error, executed, calls, drops>>

\* On a link that is down, a command that fails may have restored it.
Failing(c) == \E up \in {link[c], link[c] \/ resend[c]} : link' = [link EXCEPT ![c] = up]

\* SetSQL of Query with a DB_BLOB: the statement is prepared, or an error is
\* logged; SetParam and BindParams then find it unprepared.
PrepareStmt(u) ==
  LET c == con[u] IN
  /\ at[u] = "prepare"
  /\ \/ /\ ~pending[c] /\ (link[c] \/ resend[c])
        /\ link' = [link EXCEPT ![c] = TRUE]
        /\ stmt' = [stmt EXCEPT ![c] = TRUE]
        /\ at' = [at EXCEPT ![u] = "execute"]
     \/ /\ Failing(c)
        /\ at' = [at EXCEPT ![u] = "reset"] /\ UNCHANGED stmt
  /\ UNCHANGED <<owner, resend, pending, kind, index, con, error, bRet, executed, calls, drops>>

\* SetParam, BindParams, Execute.  A statement does not survive its link, even
\* if the library restores that; an error over a link that is up may come after
\* the execution; and no error leads to HandleError.
ExecuteStmt(u) ==
  LET c == con[u] IN
  /\ at[u] = "execute"
  /\ at' = [at EXCEPT ![u] = "reset"]
  /\ \/ /\ link[c] /\ executed' = [executed EXCEPT ![u] = @ + 1]
        /\ \E rows \in BOOLEAN : pending' = [pending EXCEPT ![c] = rows]
        /\ bRet' = [bRet EXCEPT ![u] = TRUE]
        /\ UNCHANGED <<link, drops>>
     \/ /\ Failing(c)
        /\ \E n \in {0, 1} :
             /\ n = 1 => link[c]
             /\ executed' = [executed EXCEPT ![u] = @ + n]
        /\ UNCHANGED <<pending, bRet, drops>>
     \/ /\ link[c] /\ drops < MaxDrops
        /\ drops' = drops + 1 /\ link' = [link EXCEPT ![c] = FALSE]
        /\ \E n \in {0, 1} : executed' = [executed EXCEPT ![u] = @ + n]
        /\ UNCHANGED <<pending, bRet>>
  /\ UNCHANGED <<owner, resend, stmt, kind, index, con, error, calls>>

\* ~CXEMySqlStmt, Reset: mysql_stmt_close frees the statement and the rows it
\* left on the connection even when it reports an error, and the object that
\* would still refer to it is gone.
CloseStmt(u) ==
  LET c == con[u] IN
  /\ at[u] = "reset"
  /\ at' = [at EXCEPT ![u] = "unlock"]
  /\ stmt' = [stmt EXCEPT ![c] = FALSE] /\ pending' = [pending EXCEPT ![c] = FALSE]
  /\ Failing(c)
  /\ UNCHANGED <<owner, resend, kind, index, con, error, bRet, executed, calls, drops>>

\* Mutant: AttemptLock again, until it succeeds, where UnLock should be.
UnLock_LocksAgain(u) ==
  /\ at[u] = "unlock" /\ owner[con[u]] = NoUser
  /\ owner' = [owner EXCEPT ![con[u]] = u]
  /\ at' = [at EXCEPT ![u] = "idle"]
  /\ UNCHANGED <<link, resend, pending, stmt, drops, kind, index, con, error, bRet,
                 executed, calls>>

\* pCon->cs.UnLock(), and the operation returns; its locals are gone.
UnLock(u) ==
  /\ at[u] = "unlock"
  /\ owner' = [owner EXCEPT ![con[u]] = NoUser]
  /\ at' = [at EXCEPT ![u] = "idle"]
  /\ con' = [con EXCEPT ![u] = NoCon]
  /\ kind' = [kind EXCEPT ![u] = "query"]
  /\ index' = [index EXCEPT ![u] = 0]
  /\ error' = [error EXCEPT ![u] = "none"]
  /\ bRet' = [bRet EXCEPT ![u] = FALSE]
  /\ executed' = [executed EXCEPT ![u] = 0]
  /\ UNCHANGED <<link, resend, pending, stmt, calls, drops>>

\* The server or the network ends a session (wait_timeout, restart).
Drop(c) ==
  /\ link[c] /\ drops < MaxDrops
  /\ link' = [link EXCEPT ![c] = FALSE]
  /\ drops' = drops + 1
  /\ UNCHANGED <<owner, resend, pending, stmt, userVars>>

Command(u) ==
  CommandOk(u) \/ CommandRejected(u) \/ CommandLost(u) \/ CommandNoLink(u)

Statement(u) == PrepareStmt(u) \/ ExecuteStmt(u) \/ CloseStmt(u)

Step(u) ==
  \/ SkipCon(u) \/ LockCon(u) \/ Command(u) \/ StoreResult(u) \/ HandleError(u)
  \/ Statement(u) \/ UnLock(u)

Next ==
  \/ \E u \in User : Step(u) \/ (\E k \in Kind : Call(u, k))
  \/ \E c \in Con : Drop(c)

Spec == Init /\ [][Next]_vars

\* Every user's thread is scheduled, and libmysql's calls return.
FairSpec == Spec /\ \A u \in User : WF_vars(Step(u))

-----------------------------------------------------------------------------

TypeOK ==
  /\ owner \in [Con -> User \cup {NoUser}]
  /\ link \in [Con -> BOOLEAN] /\ resend \in [Con -> BOOLEAN]
  /\ pending \in [Con -> BOOLEAN] /\ stmt \in [Con -> BOOLEAN]
  /\ at \in [User -> {"idle", "scan"} \cup Using]
  /\ kind \in [User -> Kind]
  /\ index \in [User -> 0..(IndexLimit - 1)]
  /\ con \in [User -> Con \cup {NoCon}]
  /\ error \in [User -> Error] /\ bRet \in [User -> BOOLEAN]
  /\ executed \in [User -> Nat]
  /\ calls \in [User -> 0..MaxCalls]
  /\ drops \in 0..MaxDrops

\* A connection is locked exactly while one operation uses it: no two threads
\* ever talk over one handle, and no path out of an operation (the early
\* return of SelectDB, the error paths) leaves its connection locked.
OwnedWhileUsed ==
  \A c \in Con, u \in User :
    owner[c] = u <=> (at[u] \in Using /\ con[u] = c)

\* A connection that can be handed out carries no result set and no prepared
\* statement: the next command on it cannot fail as out of sync, whatever the
\* last user did, and a statement never outlives the lock or a Reconnect.
CleanAtHandout == \A c \in Con : pending[c] \/ stmt[c] => owner[c] # NoUser

PhaseOf == [u \in User |-> IF at[u] \in Using THEN "hold"
                          ELSE IF at[u] = "scan" THEN "want" ELSE "idle"]

Abstract == INSTANCE Connections WITH
              phase <- PhaseOf, effect <- executed

\* The operations keep the promise of Connections: exclusive use of one
\* connection between GetFreeCon and UnLock, and the server executes the
\* statement of one operation at most once, through every loss of the link,
\* restored by the library or by HandleError.
ImplementsConnections == Abstract!Spec

\* What an operation returns.  Without an error the server has executed its
\* command once, and Query with a MYSQL_RES and SelectDB return true, Query with
\* a CXEMySqlResult false (xeMySql.cpp:217).  With an error, true means that the
\* handle has been replaced by Reconnect, and says nothing of the statement.
\* With a DB_BLOB true means executed.  False after an error means nothing.
ReturnTells(u) ==
  at[u] = "unlock" =>
    /\ kind[u] = "blob" => (bRet[u] => executed[u] = 1)
    /\ kind[u] # "blob" /\ error[u] = "none" =>
         executed[u] = 1 /\ (bRet[u] <=> kind[u] # "result")
    /\ kind[u] # "blob" /\ error[u] # "none" =>
         (bRet[u] => kind[u] # "select" /\ error[u] = "listed" /\ ~resend[con[u]])

\* Every operation, as it returns.
ReturnsTell == \A u \in User : ReturnTells(u)

\* Each operation returns, contention for connections and failures included:
\* the spin of GetFreeCon, with its index wrapping, reaches a free connection
\* once the other users stop taking them.
CallReturns == \A u \in User : (at[u] # "idle") ~> (at[u] = "idle")

=============================================================================
