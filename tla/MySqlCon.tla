-------------------------------- MODULE MySqlCon --------------------------------
(***************************************************************************)
(* The life cycle of the connections of CXEMySql: Initialize with its      *)
(* fallback, Connect, Close, ~CXEMySqlCon, Reconnect, SelectDB and         *)
(* ~CXEMySql.  What matters is which MYSQL handle each CXEMySqlCon refers  *)
(* to, how often a handle is closed, and which server and database its     *)
(* session is in.                                                          *)
(* Callers own a connection exclusively (ConnectionPool), so an operation  *)
(* on one is a single step.  mysql_init and mysql_real_connect may fail.   *)
(***************************************************************************)
EXTENDS Naturals, Sequences

CONSTANTS
  Database,         \* names of databases
  Db,               \* the DatabaseName given to Initialize
  Test, NoDb,       \* "test", and the "" of a new CXEMySqlCon
  Offered,          \* the sets of databases a server may have at first
  Port,
  DefaultPort,      \* 3306, which the fallback uses whatever port was asked for
  ConnectionCount,
  MaxFailures,      \* bound: calls of Initialize after one that failed
  MaxHandles        \* bound: handles ever made

ASSUME MySqlConAssumption ==
  /\ Db \in Database /\ Test \in Database /\ Db # Test /\ NoDb \notin Database
  /\ Offered \subseteq SUBSET Database
  /\ DefaultPort \in Port
  /\ ConnectionCount \in Nat /\ MaxFailures \in Nat /\ MaxHandles \in Nat

VARIABLES
  port,        \* the port given to Initialize
  exists,      \* the databases on the server of each port
  handles,     \* every handle mysql_init has returned, in order
  con,         \* every CXEMySqlCon ever made
  m_VectorCon, \* the connections of the pool
  at,          \* where Initialize is, or that the CXEMySql is destroyed
  i,           \* pCon: the connection Initialize works on
  failures,    \* Initializes that returned false
  selected     \* the last database SelectDB chose on each connection, if any

vars == <<port, exists, handles, con, m_VectorCon, at, i, failures, selected>>

NULL == 0
Con == 1..(ConnectionCount * (MaxFailures + 1))

Handle == [db : Database, port : Port, connected : BOOLEAN, closes : Nat]

\* noInit: mysql_init returns NULL; options: connected, but an option is refused.
Outcome == {"noInit", "refused", "options", "ok"}
Connects(out) == out \in {"options", "ok"}

Init ==
  /\ port \in Port /\ exists \in [Port -> Offered]
  /\ handles = <<>>
  /\ con = [c \in Con |-> [m_pMySql |-> NULL, m_szDatabaseName |-> NoDb, m_nPort |-> DefaultPort]]
  /\ m_VectorCon = {} /\ i = 1
  /\ at = IF ConnectionCount = 0 THEN "ready" ELSE "connect"
  /\ failures = 0 /\ selected = [c \in Con |-> NoDb]

-----------------------------------------------------------------------------

\* mysql_close of the handle h, if it is not NULL.  m_pMySql keeps its value.
\* Closing a handle twice is undefined; the behaviours in which the program
\* survives it go on from here, the others stop.
Close(hs, h) == IF h = NULL THEN hs ELSE [hs EXCEPT ![h].closes = @ + 1]

New(d, p, out) == [db |-> d, port |-> p, connected |-> Connects(out), closes |-> 0]

\* The table of handles after Connect, which closes the old handle first and
\* keeps the new one even when it cannot connect it.
Connected(c, d, p, out) ==
  LET closed == Close(handles, con[c].m_pMySql)
  IN IF out = "noInit" THEN closed ELSE Append(closed, New(d, p, out))

Possible(d, p, out) ==
  /\ out = "noInit" \/ Len(handles) < MaxHandles
  /\ Connects(out) => d \in exists[p]

\* Mutant: Connect does not close the old handle.
Connect_KeepsOld(c, d, p, out) ==
  /\ Possible(d, p, out)
  /\ con' = [con EXCEPT ![c] =
       [m_pMySql |-> IF out = "noInit" THEN NULL ELSE Len(handles) + 1,
        m_szDatabaseName |-> d, m_nPort |-> p]]
  /\ handles' = IF out = "noInit" THEN handles ELSE Append(handles, New(d, p, out))

Connect(c, d, p, out) ==
  /\ Possible(d, p, out)
  /\ con' = [con EXCEPT ![c] =
       [m_pMySql |-> IF out = "noInit" THEN NULL ELSE Len(handles) + 1,
        m_szDatabaseName |-> d, m_nPort |-> p]]
  /\ handles' = Connected(c, d, p, out)

\* Mutant: one connection too many.
NextCon_Over ==
  /\ i' = i + 1
  /\ at' = IF i > ConnectionCount * (failures + 1) THEN "ready" ELSE "connect"

\* The loop of Initialize goes on with another connection, or ends.
NextCon ==
  /\ i' = i + 1
  /\ at' = IF i = ConnectionCount * (failures + 1) THEN "ready" ELSE "connect"

ConnectFirst ==
  /\ at = "connect"
  /\ \E out \in Outcome :
       /\ Connect(i, Db, port, out)
       /\ \/ out = "ok" /\ m_VectorCon' = m_VectorCon \cup {i} /\ NextCon
          \/ out # "ok" /\ at' = "fallback" /\ UNCHANGED <<m_VectorCon, i>>
  /\ UNCHANGED <<port, exists, failures, selected>>

\* return false: the local pCon is forgotten, the pool has no tasks.
ReturnFalse ==
  at' = "failed" /\ failures' = failures + 1 /\ UNCHANGED i

ConnectTest ==
  /\ at = "fallback"
  /\ \E out \in Outcome :
       /\ Connect(i, Test, DefaultPort, out)
       /\ \/ out = "ok" /\ at' = "create" /\ UNCHANGED <<i, failures>>
          \/ out # "ok" /\ ReturnFalse
  /\ UNCHANGED <<port, exists, m_VectorCon, selected>>

\* Mutant: the connection to "test" is kept for the pool.
CreateDatabase_Keeps ==
  /\ at = "create"
  /\ exists' = [exists EXCEPT ![DefaultPort] = @ \cup {Db}]
  /\ m_VectorCon' = m_VectorCon \cup {i} /\ NextCon
  /\ UNCHANGED <<port, handles, con, failures, selected>>

\* CREATE DATABASE, and Close, which leaves m_pMySql as it is.
CreateDatabase ==
  /\ at = "create"
  /\ \/ /\ exists' = [exists EXCEPT ![DefaultPort] = @ \cup {Db}]
        /\ handles' = Close(handles, con[i].m_pMySql)
        /\ at' = "again" /\ UNCHANGED <<i, failures>>
     \/ ReturnFalse /\ UNCHANGED <<exists, handles>>
  /\ UNCHANGED <<port, con, m_VectorCon, selected>>

\* Mutant: the connection is pushed whether or not it connected.
ConnectAgain_Pushes ==
  /\ at = "again"
  /\ \E out \in Outcome : Connect(i, Db, port, out)
  /\ m_VectorCon' = m_VectorCon \cup {i} /\ NextCon
  /\ UNCHANGED <<port, exists, failures, selected>>

\* When the last Connect fails pCon is deleted, which closes its handle.
ConnectAgain ==
  /\ at = "again"
  /\ \E out \in Outcome :
       \/ /\ out = "ok" /\ Connect(i, Db, port, out)
          /\ m_VectorCon' = m_VectorCon \cup {i}
       \/ /\ out # "ok" /\ Possible(Db, port, out)
          /\ LET hs == Connected(i, Db, port, out)
             IN handles' = Close(hs, IF out = "noInit" THEN NULL ELSE Len(hs))
          /\ UNCHANGED <<con, m_VectorCon>>
  /\ NextCon
  /\ UNCHANGED <<port, exists, failures, selected>>

\* A program may call Initialize once more.
Initialize ==
  /\ at = "failed" /\ failures <= MaxFailures
  /\ at' = "connect" /\ i' = ConnectionCount * failures + 1
  /\ UNCHANGED <<port, exists, handles, con, m_VectorCon, failures, selected>>

-----------------------------------------------------------------------------
(* The pool in use; after a failed Initialize it has the connections so far. *)

Usable(c) == c \in m_VectorCon /\ at \in {"ready", "failed"}

\* One connection, whichever GetFreeCon returned, is moved to the database d.
SelectDB(c, d) ==
  /\ Usable(c) /\ d \in exists[port]
  /\ handles' = [handles EXCEPT ![con[c].m_pMySql].db = d]
  /\ selected' = [selected EXCEPT ![c] = d]
  /\ UNCHANGED <<port, exists, con, m_VectorCon, at, i, failures>>

\* Mutant: the old handle is closed before the new one is connected.
ReconnectFails_Closes(c) ==
  /\ Usable(c) /\ Len(handles) < MaxHandles
  /\ handles' = Append(Close(handles, con[c].m_pMySql), 
       [New(con[c].m_szDatabaseName, con[c].m_nPort, "refused") EXCEPT !.closes = 1])
  /\ UNCHANGED <<port, exists, con, m_VectorCon, at, i, failures, selected>>

\* Reconnect, without success: the new handle is closed and the old one stays.
\* (If mysql_init fails here, mysql_real_connect gets NULL and the program ends.)
ReconnectFails(c) ==
  /\ Usable(c) /\ Len(handles) < MaxHandles
  /\ handles' = Append(handles,
       [New(con[c].m_szDatabaseName, con[c].m_nPort, "refused") EXCEPT !.closes = 1])
  /\ UNCHANGED <<port, exists, con, m_VectorCon, at, i, failures, selected>>

\* Reconnect: to the database of Connect, not to the one selected since.
ReconnectOk(c) ==
  /\ Usable(c) /\ Possible(con[c].m_szDatabaseName, con[c].m_nPort, "ok")
  /\ handles' = Append(Close(handles, con[c].m_pMySql),
                       New(con[c].m_szDatabaseName, con[c].m_nPort, "ok"))
  /\ con' = [con EXCEPT ![c].m_pMySql = Len(handles) + 1]
  /\ UNCHANGED <<port, exists, m_VectorCon, at, i, failures, selected>>

\* ~CXEMySql deletes the task pool and the worker.  The vector ends with it,
\* and none of the CXEMySqlCon in it is deleted.
Destroy ==
  /\ at \in {"ready", "failed"}
  /\ at' = "destroyed" /\ m_VectorCon' = {}
  /\ UNCHANGED <<port, exists, handles, con, i, failures, selected>>

Next ==
  \/ ConnectFirst \/ ConnectTest \/ CreateDatabase \/ ConnectAgain \/ Initialize \/ Destroy
  \/ \E c \in Con : ReconnectFails(c) \/ ReconnectOk(c)
       \/ \E d \in Database : SelectDB(c, d)

Spec == Init /\ [][Next]_vars

-----------------------------------------------------------------------------
(* Properties *)

Initializing == at \in {"connect", "fallback", "create", "again"}

TypeOK ==
  /\ port \in Port /\ exists \in [Port -> SUBSET Database]
  /\ handles \in Seq(Handle)
  /\ con \in [Con -> [m_pMySql : 0..Len(handles),
                      m_szDatabaseName : Database \cup {NoDb}, m_nPort : Port]]
  /\ m_VectorCon \subseteq Con
  /\ at \in {"connect", "fallback", "create", "again", "ready", "failed",
          "destroyed"}
  /\ i \in Nat /\ (Initializing => i \in Con)
  /\ failures \in Nat /\ selected \in [Con -> Database \cup {NoDb}]

\* What GetFreeCon hands out: a connection whose handle has been connected,
\* is not closed, and is no other connection's, through Initialize's fallback,
\* its retries and every Reconnect.
HandedOutLive ==
  \A c \in m_VectorCon :
    LET h == con[c].m_pMySql IN
    /\ h # NULL /\ handles[h].connected /\ handles[h].closes = 0
    /\ \A d \in m_VectorCon \ {c} : con[d].m_pMySql # h

\* A connection of the pool talks to the server that was asked for, and to the
\* database that was asked for or the one last selected on this connection:
\* never to "test" or the server at the default port, which the fallback goes
\* through, nor to what a caller selected on another connection.
OnConfiguredServer ==
  \A c \in m_VectorCon :
    LET h == con[c].m_pMySql IN
    /\ con[c].m_szDatabaseName = Db /\ con[c].m_nPort = port
    /\ handles[h].port = port /\ handles[h].db \in {Db, selected[c]}

\* The only handles ever closed twice are those that the fallback connected to
\* "test": neither Reconnect, nor a failed Connect followed by another, nor
\* the delete of a connection closes one again.
ClosedOnce ==
  \A h \in DOMAIN handles :
    handles[h].closes > 1 =>
      /\ handles[h].closes = 2
      /\ handles[h].db = Test /\ handles[h].port = DefaultPort

Referenced ==
  {con[c].m_pMySql : c \in m_VectorCon \cup (IF Initializing THEN {i} ELSE {})}

Leaked == {h \in DOMAIN handles : handles[h].closes = 0 /\ h \notin Referenced}

\* The handles that a step leaves to nobody: when Initialize returns false that
\* of the connection it was working on, and in ~CXEMySql all of the pool.
Abandoned ==
  (IF Initializing /\ at' = "failed" THEN {con'[i].m_pMySql} ELSE {}) \cup
  (IF at' = "destroyed" THEN {con[c].m_pMySql : c \in m_VectorCon} ELSE {})

\* What mysql_init returned is closed or belongs to the pool or to Initialize,
\* but for the handles that a failing Initialize and the destructor leave open,
\* which nothing closes later.  All other paths, the fallback, a Connect after
\* a failed one and Reconnect with either outcome, lose no handle.
LeaksAccounted == [][Leaked' = Leaked \cup (Abandoned \ {NULL})]_vars

=============================================================================
