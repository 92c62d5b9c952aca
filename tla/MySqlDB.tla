-------------------------------- MODULE MySqlDB --------------------------------
(***************************************************************************)
(* The client library of test/: a MySqlDB, which reconnects, a MySqlQuery, *)
(* which sends its statement again after a loss, and a MySqlCmd, which     *)
(* executes its prepared statement again.  A thread has a MySqlDB of its   *)
(* own (mysqltestmain.cpp), so a call is one step; the server may drop the *)
(* link between two calls and inside one.  Every libmysql function is the  *)
(* set of its outcomes.  A caller fetches from the object that it executed *)
(* last, and calls nothing that follows a NULL m_pMySql or m_pRecords.     *)
(***************************************************************************)
EXTENDS Naturals

CONSTANTS
  Server, Database,
  DefaultServer,    \* where mysql_real_connect goes when the server is NULL
  NULL              \* a string that is not set: no server, no database

ASSUME MySqlDBAssumption ==
  /\ NULL \notin Server /\ NULL \notin Database /\ DefaultServer \notin Server

VARIABLES
  m_pMySql,     \* the handle: its link, its session, the result not yet read
  m_szServer,   \* the arguments of Connect, kept for _Reconnect
  m_szDB,
  m_bConnected,
  m_pRecords,   \* the result of the MySqlQuery
  m_pStmt,      \* the statement of the MySqlCmd
  asked,        \* the session that the caller asked for: Connect and UseDB
  failed,       \* the last Connect returned false
  last          \* the last call: its value, how often its statement has run

vars ==
  <<m_pMySql, m_szServer, m_szDB, m_bConnected, m_pRecords, m_pStmt, asked, failed, last>>

database == <<m_szServer, m_szDB, m_bConnected, asked, failed>>

\* fresh: never connected; down: lost, which libmysql has not seen; none: it has.
Link == {"NULL", "fresh", "up", "down", "none"}

\* query: an answer not fetched; rows: being fetched row by row; cmd: a command's.
Unread == {"no", "query", "rows", "cmd"}

Handle == [link : Link, server : Server \cup {DefaultServer, NULL},
           db : Database \cup {NULL}, unread : Unread]

New(l, s, d) == [link |-> l, server |-> s, db |-> d, unread |-> "no"]
NoHandle == New("NULL", NULL, NULL)
Lost(h) ==
  [h EXCEPT !.link = IF h.link = "fresh" THEN "fresh" ELSE "none", !.unread = "no"]
Read(h) == [h EXCEPT !.unread = "no"]

Op ==
  {"MySqlDB", "Connect", "Close", "Connected", "UseDB", "ExecuteSQL", "FetchRecords",
   "FetchRow", "~MySqlQuery", "SetCmd", "Execut", "CmdFetchRecords", "~MySqlCmd"}

Called(op, ok, ran, lost) == last' = [op |-> op, ok |-> ok, ran |-> ran, lost |-> lost]

\* The constructor leaves m_bConnected uninitialised.
Init ==
  /\ m_pMySql = NoHandle /\ m_szServer = NULL /\ m_szDB = NULL
  /\ m_bConnected \in BOOLEAN
  /\ m_pRecords = "NULL" /\ m_pStmt = "NULL"
  /\ asked = [server |-> NULL, db |-> NULL] /\ failed = FALSE
  /\ last = [op |-> "MySqlDB", ok |-> FALSE, ran |-> 0, lost |-> FALSE]

-----------------------------------------------------------------------------
(* libmysql *)

\* A statement sent to the server: sync, out of order, sends nothing; lost is
\* CR_SERVER_GONE_ERROR or CR_SERVER_LOST, and the statement may have run.
Answer(code, ran, h) == [code |-> code, ran |-> ran, h |-> h]

Send(h, owner) ==
  IF h.unread # "no" THEN {Answer("sync", 0, h)}
  ELSE {Answer("lost", 0, Lost(h))} \cup
    IF h.link # "up" THEN {}
    ELSE {Answer("lost", 1, Lost(h)), Answer("error", 0, h)} \cup
         {Answer("ok", 1, [h EXCEPT !.unread = u]) : u \in {"no", owner}}

\* mysql_init and mysql_real_connect.
Opened(s, d) ==
  {NoHandle} \cup
  {New(l, IF s = NULL THEN DefaultServer ELSE s, d) : l \in {"fresh", "up"}}

\* mysql_close: a result being read and a statement lose their handle.
HandleClosed ==
  /\ m_pRecords' = IF m_pRecords = "rows" THEN "stale" ELSE m_pRecords
  /\ m_pStmt' = IF m_pStmt \in {"init", "prepared"} THEN "detached" ELSE m_pStmt

\* A lost link: libmysql detaches the prepared statements.
Pruned(h) == IF h.link = "none" /\ m_pStmt = "prepared" THEN "detached" ELSE m_pStmt

\* The server goes away, or a firewall closes an idle link.
Drop ==
  /\ m_pMySql.link = "up"
  /\ m_pMySql' = [m_pMySql EXCEPT !.link = "down"]
  /\ UNCHANGED <<m_pRecords, m_pStmt, last>> /\ UNCHANGED database

-----------------------------------------------------------------------------
(* MySqlDB *)

\* Mutant: Connect and Close do not close the handle.
Forgotten_Leaks == UNCHANGED <<m_pRecords, m_pStmt>>

\* Close closes the handle; what is open on it dangles.
Forgotten ==
  IF m_pMySql.link = "NULL" THEN UNCHANGED <<m_pRecords, m_pStmt>> ELSE HandleClosed

Connect(s, d) ==
  /\ Forgotten
  /\ \E h \in Opened(s, d) :
       /\ m_pMySql' = h
       /\ m_bConnected' = (h.link = "up") /\ failed' = (h.link # "up")
       /\ m_szServer' = (IF h.link = "up" THEN s ELSE NULL)
       /\ m_szDB' = (IF h.link = "up" THEN d ELSE NULL)
       /\ Called("Connect", h.link = "up", 0, FALSE)
  /\ asked' = [server |-> s, db |-> d]

Close ==
  /\ Forgotten
  /\ m_pMySql' = NoHandle /\ m_bConnected' = FALSE
  /\ m_szServer' = NULL /\ m_szDB' = NULL
  /\ asked' = [server |-> NULL, db |-> NULL] /\ failed' = FALSE
  /\ Called("Close", TRUE, 0, FALSE)

\* Mutant: _Reconnect leaves m_bConnected as it is when it fails.
Reconnect_KeepsFlag(h) ==
  /\ h \in Opened(m_szServer, m_szDB)
  /\ m_bConnected' = (m_bConnected \/ h.link = "up")
  /\ HandleClosed

\* _Reconnect makes h the handle; it returns true when h is up.
Reconnect(h) ==
  /\ h \in Opened(m_szServer, m_szDB)
  /\ m_bConnected' = (h.link = "up")
  /\ HandleClosed

\* mysql_ping fails on every link that is not up, and when a result is unread.
\* Then the handle is replaced, whatever is open on it.
Connected ==
  /\ m_pMySql.link # "NULL"
  /\ IF m_pMySql.link = "up" /\ m_pMySql.unread = "no"
     THEN /\ Called("Connected", TRUE, 0, FALSE)
          /\ UNCHANGED <<m_pMySql, m_bConnected, m_pRecords, m_pStmt>>
     ELSE \E h \in Opened(m_szServer, m_szDB) :
            /\ Reconnect(h) /\ m_pMySql' = h
            /\ Called("Connected", h.link = "up", 0, FALSE)
  /\ UNCHANGED <<m_szServer, m_szDB, asked, failed>>

\* Mutant: the database is not remembered.
UseDB_Forgets(d) ==
  /\ m_pMySql.link # "NULL"
  /\ \E a \in Send(m_pMySql, "no") :
       /\ m_pMySql' = IF a.code = "ok" THEN [a.h EXCEPT !.db = d] ELSE a.h
       /\ asked' = IF a.code = "ok" THEN [asked EXCEPT !.db = d] ELSE asked
       /\ m_szDB' = m_szDB
       /\ m_pStmt' = Pruned(a.h)
       /\ Called("UseDB", a.code = "ok", a.ran, a.code = "lost")
  /\ UNCHANGED <<m_szServer, m_bConnected, m_pRecords, failed>>

\* A UseDB that fails is not repeated, even when the link is lost.
UseDB(d) ==
  /\ m_pMySql.link # "NULL"
  /\ \E a \in Send(m_pMySql, "no") :
       /\ m_pMySql' = IF a.code = "ok" THEN [a.h EXCEPT !.db = d] ELSE a.h
       /\ asked' = IF a.code = "ok" THEN [asked EXCEPT !.db = d] ELSE asked
       /\ m_szDB' = IF a.code = "ok" THEN d ELSE m_szDB
       /\ m_pStmt' = Pruned(a.h)
       /\ Called("UseDB", a.code = "ok", a.ran, a.code = "lost")
  /\ UNCHANGED <<m_szServer, m_bConnected, m_pRecords, failed>>

-----------------------------------------------------------------------------
(* MySqlQuery *)

\* Mutant: every error is followed by a reconnect.
Repeated_Always(a) == a.code # "ok"

\* CR_SERVER_GONE_ERROR and CR_SERVER_LOST only.
Repeated(a) == a.code = "lost"

\* Not repeated, or Connected() finds no server: one try.
ExecuteOnce(a, h) ==
  /\ m_pMySql' = h
  /\ Called("ExecuteSQL", a.code = "ok", a.ran, a.code = "lost")

\* The statement is sent once more, on the new handle.
ExecuteSQL ==
  /\ m_pMySql.link # "NULL"
  /\ \E a \in Send(m_pMySql, "query") :
       \/ /\ ~Repeated(a)
          /\ ExecuteOnce(a, a.h)
          /\ UNCHANGED <<m_bConnected, m_pRecords, m_pStmt>>
       \/ /\ Repeated(a)
          /\ \E h \in Opened(m_szServer, m_szDB) :
               /\ Reconnect(h)
               /\ \/ h.link # "up" /\ ExecuteOnce(a, h)
                  \/ /\ h.link = "up"
                     /\ \E b \in Send(h, "query") :
                          /\ m_pMySql' = b.h
                          /\ Called("ExecuteSQL", b.code = "ok", a.ran + b.ran, TRUE)
  /\ UNCHANGED <<m_szServer, m_szDB, asked, failed>>

\* mysql_free_result reads what is left of a result being read.
Freed == IF m_pRecords = "rows" THEN Read(m_pMySql) ELSE m_pMySql

\* The old result is freed; mysql_store_result reads the answer, which may
\* fail, mysql_use_result begins to.  Freeing a stale result is undefined.
FetchRecords(blAll) ==
  /\ m_pMySql.link # "NULL" /\ m_pMySql.unread # "cmd" /\ m_pRecords # "stale"
  /\ \/ /\ m_pMySql.unread # "query"
        /\ m_pRecords' = "NULL" /\ m_pMySql' = Freed /\ UNCHANGED m_pStmt
        /\ Called("FetchRecords", FALSE, 0, FALSE)
     \/ /\ m_pMySql.unread = "query" /\ blAll /\ m_pMySql.link = "up"
        /\ m_pRecords' = "stored" /\ m_pMySql' = Read(m_pMySql) /\ UNCHANGED m_pStmt
        /\ Called("FetchRecords", TRUE, 0, FALSE)
     \/ /\ m_pMySql.unread = "query" /\ blAll
        /\ m_pRecords' = "NULL" /\ m_pMySql' = Lost(m_pMySql) /\ m_pStmt' = Pruned(m_pMySql')
        /\ Called("FetchRecords", FALSE, 0, TRUE)
     \/ /\ m_pMySql.unread = "query" /\ ~blAll
        /\ m_pRecords' = "rows" /\ m_pMySql' = [m_pMySql EXCEPT !.unread = "rows"]
        /\ UNCHANGED m_pStmt
        /\ Called("FetchRecords", TRUE, 0, FALSE)
  /\ UNCHANGED database

\* The end of a result being read: after the last row, or because the link is
\* lost.  The result no longer refers to the handle.  (Rows of a stored result
\* change nothing, nor does a row that is not the last.)
FetchRow ==
  /\ m_pRecords = "rows"
  /\ m_pRecords' = "stored"
  /\ \/ m_pMySql' = Read(m_pMySql) /\ UNCHANGED m_pStmt
     \/ /\ m_pMySql.unread = "rows" /\ m_pMySql.link \in {"up", "down"}
        /\ m_pMySql' = Lost(m_pMySql) /\ m_pStmt' = Pruned(m_pMySql')
  /\ Called("FetchRow", FALSE, 0, FALSE)
  /\ UNCHANGED database

\* ~MySqlQuery; the next query object has no result.
DeleteQuery ==
  /\ m_pRecords \notin {"NULL", "stale"}
  /\ m_pRecords' = "NULL" /\ m_pMySql' = Freed
  /\ Called("~MySqlQuery", TRUE, 0, FALSE)
  /\ UNCHANGED m_pStmt /\ UNCHANGED database

-----------------------------------------------------------------------------
(* MySqlCmd *)

\* mysql_stmt_close reads what is left of any result, and tells the server; it
\* frees the statement even when it cannot.  Freed twice is undefined.
StmtClose ==
  IF m_pStmt # "prepared" THEN {[ok |-> TRUE, h |-> m_pMySql]}
  ELSE {[ok |-> TRUE, h |-> Read(m_pMySql)]} \cup
       IF m_pMySql.link = "down" THEN {[ok |-> FALSE, h |-> Lost(m_pMySql)]} ELSE {}

\* Reset, mysql_stmt_init and mysql_stmt_prepare.  A Reset that fails leaves
\* m_pStmt set to the statement that libmysql has freed.
SetCmd ==
  /\ m_pMySql.link # "NULL" /\ m_pStmt # "freed"
  /\ \E c \in StmtClose :
       \/ /\ ~c.ok
          /\ m_pStmt' = "freed" /\ m_pMySql' = c.h /\ Called("SetCmd", FALSE, 0, TRUE)
       \/ /\ c.ok
          /\ m_pStmt' = "NULL" /\ m_pMySql' = c.h /\ Called("SetCmd", FALSE, 0, FALSE)
       \/ /\ c.ok
          /\ \E a \in Send(c.h, "no") :
               /\ m_pMySql' = a.h
               /\ m_pStmt' = IF a.code = "ok" THEN "prepared" ELSE "init"
               /\ Called("SetCmd", a.code = "ok", 0, a.code = "lost")
  /\ UNCHANGED m_pRecords /\ UNCHANGED database

\* mysql_stmt_execute: one that cannot run leaves the error of the last call on
\* the connection; one that can may read out another's result first.
StmtExecute ==
  IF m_pStmt # "prepared"
  THEN {Answer("error", 0, m_pMySql)} \cup
       IF m_pMySql.link \in {"none", "fresh"} THEN {Answer("lost", 0, m_pMySql)} ELSE {}
  ELSE Send(Read(m_pMySql), "cmd") \cup
       IF m_pMySql.unread \in {"query", "rows"} THEN Send(m_pMySql, "cmd") ELSE {}

\* Mutant: the statement is prepared again, and executed.
Retried_Prepares(h) == Send(h, "cmd")

\* The second mysql_stmt_execute has a statement that mysql_close detached.
Retried(h) == {Answer("error", 0, h)}

Execut ==
  /\ m_pMySql.link # "NULL" /\ m_pStmt \notin {"NULL", "freed"}
  /\ \E a \in StmtExecute :
       \/ /\ a.code # "lost"
          /\ m_pMySql' = a.h /\ Called("Execut", a.code = "ok", a.ran, FALSE)
          /\ UNCHANGED <<m_bConnected, m_pRecords, m_pStmt>>
       \/ /\ a.code = "lost"
          /\ \E h \in Opened(m_szServer, m_szDB) :
               /\ Reconnect(h)
               /\ \/ h.link # "up" /\ m_pMySql' = h /\ Called("Execut", FALSE, a.ran, TRUE)
                  \/ /\ h.link = "up"
                     /\ \E b \in Retried(h) :
                          /\ m_pMySql' = b.h
                          /\ Called("Execut", b.code = "ok", a.ran + b.ran, TRUE)
  /\ UNCHANGED <<m_szServer, m_szDB, asked, failed>>

\* mysql_stmt_store_result of the answer to Execut.
StoreCmd ==
  /\ m_pMySql.unread = "cmd" /\ m_pStmt = "prepared"
  /\ \/ m_pMySql.link = "up" /\ m_pMySql' = Read(m_pMySql)
     \/ m_pMySql' = Lost(m_pMySql)
  /\ m_pStmt' = Pruned(m_pMySql')
  /\ Called("CmdFetchRecords", m_pMySql'.link = "up", 0, m_pMySql'.link = "none")
  /\ UNCHANGED m_pRecords /\ UNCHANGED database

\* ~MySqlCmd, which ignores what Reset returns.
DeleteCmd ==
  /\ m_pStmt \notin {"NULL", "freed"}
  /\ \E c \in StmtClose : m_pMySql' = c.h /\ Called("~MySqlCmd", c.ok, 0, ~c.ok)
  /\ m_pStmt' = "NULL"
  /\ UNCHANGED m_pRecords /\ UNCHANGED database

Next ==
  \/ \E d \in Database : UseDB(d) \/ \E s \in Server : Connect(s, d)
  \/ \E blAll \in BOOLEAN : FetchRecords(blAll)
  \/ Close \/ Connected \/ ExecuteSQL \/ FetchRow \/ DeleteQuery
  \/ SetCmd \/ Execut \/ StoreCmd \/ DeleteCmd \/ Drop

Spec == Init /\ [][Next]_vars

-----------------------------------------------------------------------------
(* Properties *)

TypeOK ==
  /\ m_pMySql \in Handle
  /\ m_szServer \in Server \cup {NULL} /\ m_szDB \in Database \cup {NULL}
  /\ m_bConnected \in BOOLEAN
  /\ m_pRecords \in {"NULL", "stored", "rows", "stale"}
  /\ m_pStmt \in {"NULL", "init", "prepared", "detached", "freed"}
  /\ asked \in [server : Server \cup {NULL}, db : Database \cup {NULL}]
  /\ failed \in BOOLEAN
  /\ m_pStmt = "prepared" => m_pMySql.link \in {"up", "down"}
  /\ last \in [op : Op, ok : BOOLEAN, ran : 0..2, lost : BOOLEAN]

\* A session is the one that the caller asked for with Connect and UseDB, after
\* any number of reconnects; but after a Connect that failed, Connected()
\* reaches the default server, because _Reconnect has no names to use.
OnAskedDatabase ==
  m_pMySql.link \in {"up", "down"} =>
    \/ m_pMySql.server = asked.server /\ m_pMySql.db = asked.db
    \/ failed /\ m_pMySql.server = DefaultServer

\* A statement runs twice only when the link was lost in the middle, and only
\* as a query: a command that lost its link fails, although Execut tries again.
\* A call that succeeds has run its statement.
RunTwiceOnlyAfterLoss ==
  /\ last.ran = 2 => last.op = "ExecuteSQL" /\ last.lost
  /\ last.op = "Execut" /\ last.lost => ~last.ok
  /\ last.op \in {"ExecuteSQL", "Execut"} /\ last.ok => last.ran > 0

\* A result being read never loses its handle to ExecuteSQL or UseDB in the
\* meantime: only to the caller's own Connect, Close or Connected, or to an
\* Execut whose statement libmysql let in front of it and whose link is lost.
\* (Closing a prepared statement ends the reading.)  m_pStmt keeps a freed
\* statement only when the link was down as it was closed.
QueryKeepsReading ==
  [][/\ m_pMySql.unread = "rows" /\ m_pRecords' = "stale" =>
          \/ last'.op \in {"Connect", "Close", "Connected"}
          \/ last'.op = "Execut" /\ last'.lost /\ m_pStmt = "prepared"
     /\ m_pStmt # "freed" /\ m_pStmt' = "freed" => m_pMySql.link = "down"]_vars

\* Once there is a handle IsConnected tells whether it has ever been connected;
\* a link that is lost does not clear it, a reconnect that fails does.
FlagTellsConnection ==
  last.op # "MySqlDB" =>
    (m_bConnected <=> m_pMySql.link \in {"up", "down", "none"})

=============================================================================
