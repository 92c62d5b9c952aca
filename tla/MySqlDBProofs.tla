----------------------------- MODULE MySqlDBProofs -----------------------------
(***************************************************************************)
(* Proofs about the client library of test/, for all servers and databases *)
(* and for any sequence of calls and losses.                               *)
(***************************************************************************)
EXTENDS MySqlDB, TLAPS

Answers == [code : {"sync", "lost", "error", "ok"}, ran : 0..1, h : Handle]

\* What the names kept for _Reconnect are: those of the caller, or none.
NamesKept ==
  /\ failed => m_szServer = NULL
  /\ ~failed => m_szServer = asked.server /\ m_szDB = asked.db
  /\ ~failed /\ m_pMySql.link # "NULL" => asked.server # NULL

\* Before its first call the object has nothing.
Unused ==
  last.op = "MySqlDB" => m_pMySql.link = "NULL" /\ m_pRecords = "NULL" /\ m_pStmt = "NULL"

IInv == TypeOK /\ NamesKept /\ Unused /\ OnAskedDatabase /\ FlagTellsConnection

-----------------------------------------------------------------------------

\* mysql_init and mysql_real_connect give no handle, one that is not connected
\* or one connected to the server named, to the default one for no name.
LEMMA OpenedType ==
  ASSUME NEW s \in Server \cup {NULL}, NEW d \in Database \cup {NULL}, NEW h \in Opened(s, d)
  PROVE  /\ h \in Handle /\ h.link \in {"NULL", "fresh", "up"} /\ h.unread = "no"
         /\ h.link # "NULL" =>
              h.server = (IF s = NULL THEN DefaultServer ELSE s) /\ h.db = d
<1>1. CASE h = NoHandle
  BY <1>1 DEF NoHandle, New, Handle, Link, Unread
<1>2. CASE h # NoHandle
  <2>1. PICK l \in {"fresh", "up"} : h = New(l, IF s = NULL THEN DefaultServer ELSE s, d)
    BY <1>2 DEF Opened
  <2> QED BY <2>1 DEF New, Handle, Link, Unread
<1> QED BY <1>1, <1>2

\* A lost handle keeps its session, and is no longer up.
LEMMA LostType ==
  ASSUME NEW h \in Handle
  PROVE  /\ Lost(h) \in Handle /\ Lost(h).server = h.server /\ Lost(h).db = h.db
         /\ Lost(h).unread = "no"
         /\ Lost(h).link = IF h.link = "fresh" THEN "fresh" ELSE "none"
BY DEF Lost, Handle, Link, Unread

LEMMA ReadType ==
  ASSUME NEW h \in Handle
  PROVE  /\ Read(h) \in Handle /\ Read(h).server = h.server /\ Read(h).db = h.db
         /\ Read(h).unread = "no" /\ Read(h).link = h.link
BY DEF Read, Handle, Link, Unread

\* A statement that was sent leaves the session alone and keeps or loses the
\* link; it has run when the server answers, and not when it was out of order.
LEMMA SendType ==
  ASSUME NEW h \in Handle, h.link # "NULL", NEW owner \in Unread, NEW a \in Send(h, owner)
  PROVE  /\ a \in Answers /\ a.h.server = h.server /\ a.h.db = h.db
         /\ a.h.link = h.link \/ (a.code = "lost" /\ h.link # "fresh" /\ a.h.link = "none")
         /\ a.code = "lost" => a.h.link \in {"fresh", "none"}
         /\ a.code = "ok" => a.ran = 1 /\ a.h.link = "up"
<1>1. CASE h.unread # "no"
  BY <1>1 DEF Send, Answer, Answers
<1>2. CASE h.unread = "no"
  <2>1. CASE a = Answer("lost", 0, Lost(h))
    BY <2>1, LostType DEF Answer, Answers
  <2>2. CASE a = Answer("lost", 1, Lost(h))
    BY <2>2, LostType DEF Answer, Answers
  <2>3. CASE a = Answer("error", 0, h)
    BY <2>3 DEF Answer, Answers
  <2>4. CASE /\ h.link = "up"
              /\ \E u \in {"no", owner} : a = Answer("ok", 1, [h EXCEPT !.unread = u])
    <3>1. PICK u \in {"no", owner} : a = Answer("ok", 1, [h EXCEPT !.unread = u])
      BY <2>4
    <3>2. PICK g : g = [h EXCEPT !.unread = u]
      OBVIOUS
    <3>3. g \in Handle /\ g.server = h.server /\ g.db = h.db /\ g.link = h.link
      BY <3>2 DEF Handle, Unread
    <3>4. a = [code |-> "ok", ran |-> 1, h |-> g]
      BY <3>1, <3>2 DEF Answer
    <3> QED BY <2>4, <3>3, <3>4 DEF Answers
  <2> QED BY <1>2, <2>1, <2>2, <2>3, <2>4 DEF Send
<1> QED BY <1>1, <1>2

LEMMA StmtCloseType ==
  ASSUME TypeOK, NEW c \in StmtClose
  PROVE  /\ c.ok \in BOOLEAN /\ c.h \in Handle
         /\ c.h.server = m_pMySql.server /\ c.h.db = m_pMySql.db
         /\ c.h.link = m_pMySql.link \/ (m_pMySql.link = "down" /\ c.h.link = "none")
         /\ ~c.ok => m_pMySql.link = "down"
<1>0. m_pMySql \in Handle
  BY DEF TypeOK
<1>1. CASE c = [ok |-> TRUE, h |-> m_pMySql]
  BY <1>0, <1>1
<1>2. CASE c = [ok |-> TRUE, h |-> Read(m_pMySql)]
  BY <1>0, <1>2, ReadType
<1>3. CASE m_pMySql.link = "down" /\ c = [ok |-> FALSE, h |-> Lost(m_pMySql)]
  BY <1>0, <1>3, LostType
<1> QED BY <1>1, <1>2, <1>3 DEF StmtClose

LEMMA StmtExecuteType ==
  ASSUME TypeOK, m_pMySql.link # "NULL", NEW a \in StmtExecute
  PROVE  /\ a \in Answers /\ a.h.server = m_pMySql.server /\ a.h.db = m_pMySql.db
         /\ \/ a.h.link = m_pMySql.link
            \/ a.code = "lost" /\ m_pMySql.link # "fresh" /\ a.h.link = "none"
         /\ a.code = "ok" => a.ran = 1
<1>0. m_pMySql \in Handle /\ "cmd" \in Unread
  BY DEF TypeOK, Unread
<1>1. CASE m_pStmt # "prepared"
  BY <1>0, <1>1 DEF StmtExecute, Answer, Answers
<1>2. CASE a \in Send(m_pMySql, "cmd")
  BY <1>0, <1>2, SendType
<1>3. CASE a \in Send(Read(m_pMySql), "cmd")
  <2>1. Read(m_pMySql) \in Handle /\ Read(m_pMySql).link # "NULL"
    BY <1>0, ReadType
  <2> QED BY <1>0, <1>3, <2>1, SendType, ReadType
<1> QED BY <1>1, <1>2, <1>3 DEF StmtExecute

LEMMA OpNames ==
  /\ "FetchRecords" \in Op /\ "FetchRow" \in Op /\ "~MySqlQuery" \in Op /\ "SetCmd" \in Op
  /\ "CmdFetchRecords" \in Op /\ "~MySqlCmd" \in Op /\ 0 \in {0, 1, 2}
  /\ TRUE \in BOOLEAN /\ FALSE \in BOOLEAN
BY DEF Op

LastOK == last \in [op : Op, ok : BOOLEAN, ran : 0..2, lost : BOOLEAN]

\* What Called records of a call.
LEMMA CalledType ==
  ASSUME NEW op \in Op, NEW ok \in BOOLEAN, NEW ran \in {0, 1, 2}, NEW lost \in BOOLEAN,
         Called(op, ok, ran, lost)
  PROVE  LastOK' /\ last'.op = op /\ last'.ok = ok /\ last'.ran = ran /\ last'.lost = lost
BY DEF Called, LastOK

-----------------------------------------------------------------------------
(* Two kinds of steps: the handle stays, or Reconnect replaces it.           *)

ObjectsOK ==
  /\ m_pRecords \in {"NULL", "stored", "rows", "stale"}
  /\ m_pStmt \in {"NULL", "init", "prepared", "detached", "freed"}
  /\ m_pStmt = "prepared" => m_pMySql.link \in {"up", "down"}

\* The session stays, and its link may be lost.
SameSession ==
  /\ m_pMySql' \in Handle
  /\ m_pMySql'.server = m_pMySql.server /\ m_pMySql'.db = m_pMySql.db
  /\ \/ m_pMySql'.link = m_pMySql.link
     \/ m_pMySql.link = "up" /\ m_pMySql'.link = "down"
     \/ m_pMySql.link \in {"up", "down", "none"} /\ m_pMySql'.link = "none"

LEMMA SameSessionStep ==
  ASSUME IInv, SameSession, UNCHANGED database, ObjectsOK', LastOK',
         last.op # "MySqlDB", last'.op # "MySqlDB"
  PROVE  IInv'
<1>1. TypeOK'
  BY DEF IInv, TypeOK, SameSession, ObjectsOK, LastOK, database
<1>2. NamesKept'
  BY DEF IInv, NamesKept, SameSession, database
<1>3. OnAskedDatabase'
  BY DEF IInv, OnAskedDatabase, SameSession, database
<1>4. FlagTellsConnection'
  BY DEF IInv, FlagTellsConnection, SameSession, database
<1> QED BY <1>1, <1>2, <1>3, <1>4 DEF IInv, Unused

\* _Reconnect made h the handle, and one more statement may have been sent on it.
Reopens(h) ==
  /\ h \in Opened(m_szServer, m_szDB) /\ m_bConnected' = (h.link = "up")
  /\ m_pMySql' \in Handle /\ m_pMySql'.server = h.server /\ m_pMySql'.db = h.db
  /\ m_pMySql'.link = h.link \/ (h.link = "up" /\ m_pMySql'.link = "none")
  /\ UNCHANGED <<m_szServer, m_szDB, asked, failed>>

LEMMA ReopensStep ==
  ASSUME IInv, m_pMySql.link # "NULL", NEW h, Reopens(h), ObjectsOK', LastOK',
         last'.op # "MySqlDB"
  PROVE  IInv'
<1>1. /\ h \in Handle /\ h.link \in {"NULL", "fresh", "up"}
      /\ h.link # "NULL" =>
           h.server = (IF m_szServer = NULL THEN DefaultServer ELSE m_szServer) /\ h.db = m_szDB
  BY OpenedType DEF IInv, TypeOK, Reopens
<1>2. TypeOK'
  BY DEF IInv, TypeOK, Reopens, ObjectsOK, LastOK
<1>3. NamesKept'
  BY DEF IInv, NamesKept, Reopens
<1>4. OnAskedDatabase'
  <2>1. CASE failed
    BY <1>1, <2>1 DEF IInv, NamesKept, OnAskedDatabase, Reopens
  <2>2. CASE ~failed
    BY <1>1, <2>2 DEF IInv, NamesKept, OnAskedDatabase, Reopens
  <2> QED BY <2>1, <2>2
<1>5. FlagTellsConnection'
  BY <1>1 DEF FlagTellsConnection, Reopens
<1> QED BY <1>2, <1>3, <1>4, <1>5 DEF IInv, Unused

\* What mysql_close and a lost link leave of the result and the statement.
LEMMA ClosedObjects ==
  ASSUME ObjectsOK, HandleClosed
  PROVE  ObjectsOK' /\ m_pStmt' # "prepared"
BY DEF ObjectsOK, HandleClosed

LEMMA PrunedObjects ==
  ASSUME ObjectsOK, m_pRecords' \in {"NULL", "stored", "rows", "stale"},
         m_pMySql'.link = m_pMySql.link \/ m_pMySql'.link = "none",
         m_pStmt' = Pruned(m_pMySql')
  PROVE  ObjectsOK'
BY DEF ObjectsOK, Pruned

-----------------------------------------------------------------------------

THEOREM InitIInv == ASSUME Init PROVE IInv
<1>1. TypeOK
  <2>1. NoHandle \in Handle /\ NoHandle.link = "NULL"
    BY DEF NoHandle, New, Handle, Link, Unread
  <2>2. last \in [op : Op, ok : BOOLEAN, ran : 0..2, lost : BOOLEAN]
    <3>1. last = [op |-> "MySqlDB", ok |-> FALSE, ran |-> 0, lost |-> FALSE]
      BY DEF Init
    <3>2. "MySqlDB" \in Op /\ 0 \in 0..2
      BY DEF Op
    <3> HIDE DEF Init
    <3> QED BY <3>1, <3>2, Zenon
  <2>3. /\ asked \in [server : Server \cup {NULL}, db : Database \cup {NULL}]
        /\ failed \in BOOLEAN /\ m_bConnected \in BOOLEAN
    BY DEF Init
  <2> QED BY <2>1, <2>2, <2>3 DEF Init, TypeOK
<1>2. NamesKept /\ Unused /\ OnAskedDatabase /\ FlagTellsConnection
  BY DEF Init, NamesKept, Unused, OnAskedDatabase, FlagTellsConnection, NoHandle, New
<1> QED BY <1>1, <1>2 DEF IInv

LEMMA ConnectStep ==
  ASSUME IInv, NEW s \in Server, NEW d \in Database, Connect(s, d)
  PROVE  IInv'
<1>1. PICK h \in Opened(s, d) :
        /\ m_pMySql' = h
        /\ m_bConnected' = (h.link = "up") /\ failed' = (h.link # "up")
        /\ m_szServer' = (IF h.link = "up" THEN s ELSE NULL)
        /\ m_szDB' = (IF h.link = "up" THEN d ELSE NULL)
        /\ Called("Connect", h.link = "up", 0, FALSE)
  BY DEF Connect
<1>2. /\ h \in Handle /\ h.link \in {"NULL", "fresh", "up"}
      /\ h.link # "NULL" => h.server = s /\ h.db = d
  <2>1. s # NULL
    BY MySqlDBAssumption
  <2> QED BY <2>1, OpenedType
<1>3. asked' = [server |-> s, db |-> d]
  BY DEF Connect
<1>4. LastOK' /\ last'.op = "Connect"
  <2>1. (h.link = "up") \in BOOLEAN
    BY Zenon
  <2> QED BY <1>1, <2>1, CalledType, Zenon DEF Op
<1>5. ObjectsOK'
  <2>1. CASE m_pMySql.link = "NULL"
    BY <2>1 DEF IInv, TypeOK, Connect, Forgotten, ObjectsOK
  <2>2. CASE m_pMySql.link # "NULL"
    BY <2>2, ClosedObjects DEF IInv, TypeOK, Connect, Forgotten, ObjectsOK
  <2> QED BY <2>1, <2>2
<1>6. TypeOK'
  <2>1. /\ m_pMySql' \in Handle /\ m_bConnected' \in BOOLEAN /\ failed' \in BOOLEAN
        /\ m_szServer' \in Server \cup {NULL} /\ m_szDB' \in Database \cup {NULL}
    BY <1>1, <1>2
  <2>2. asked' \in [server : Server \cup {NULL}, db : Database \cup {NULL}]
    BY <1>3
  <2> QED BY <1>4, <1>5, <2>1, <2>2 DEF TypeOK, ObjectsOK, LastOK
<1>7. NamesKept'
  BY <1>1, <1>3, MySqlDBAssumption DEF NamesKept
<1>8. OnAskedDatabase'
  BY <1>1, <1>2, <1>3 DEF OnAskedDatabase
<1>9. FlagTellsConnection'
  BY <1>1, <1>2 DEF FlagTellsConnection
<1> QED BY <1>4, <1>6, <1>7, <1>8, <1>9 DEF IInv, Unused

LEMMA CloseStep == ASSUME IInv, Close PROVE IInv'
<1>1. ObjectsOK'
  <2>1. CASE m_pMySql.link = "NULL"
    BY <2>1 DEF IInv, TypeOK, Close, Forgotten, ObjectsOK
  <2>2. CASE m_pMySql.link # "NULL"
    BY <2>2, ClosedObjects DEF IInv, TypeOK, Close, Forgotten, ObjectsOK
  <2> QED BY <2>1, <2>2
<1>2. LastOK' /\ last'.op = "Close"
  BY CalledType, Zenon DEF Op, Close
<1>3. m_pMySql' \in Handle /\ m_pMySql'.link = "NULL"
  BY DEF Close, NoHandle, New, Handle, Link, Unread
<1>4. TypeOK'
  BY <1>1, <1>2, <1>3 DEF Close, TypeOK, ObjectsOK, LastOK
<1>5. NamesKept' /\ OnAskedDatabase' /\ FlagTellsConnection'
  BY <1>3 DEF Close, NamesKept, OnAskedDatabase, FlagTellsConnection
<1> QED BY <1>2, <1>4, <1>5 DEF IInv, Unused

LEMMA DropStep == ASSUME IInv, Drop PROVE IInv'
<1>1. m_pMySql' \in Handle /\ SameSession /\ m_pMySql'.link = "down"
  BY DEF IInv, TypeOK, Drop, Handle, Link, SameSession
<1>2. ObjectsOK' /\ LastOK' /\ last' = last /\ UNCHANGED database
  BY <1>1 DEF IInv, TypeOK, Drop, ObjectsOK, LastOK
<1>3. last.op # "MySqlDB"
  BY DEF IInv, Unused, Drop
<1> QED BY <1>1, <1>2, <1>3, SameSessionStep

\* Every step with a handle keeps it or replaces it with Reconnect.
LEMMA InUse == ASSUME IInv, m_pMySql.link # "NULL" PROVE last.op # "MySqlDB"
BY DEF IInv, Unused

LEMMA ConnectedStep == ASSUME IInv, Connected PROVE IInv'
<1>1. m_pMySql.link # "NULL" /\ last.op # "MySqlDB"
  BY InUse DEF Connected
<1>2. ObjectsOK
  BY DEF IInv, TypeOK, ObjectsOK
<1>3. CASE m_pMySql.link = "up" /\ m_pMySql.unread = "no"
  <2>1. LastOK' /\ last'.op = "Connected"
    BY <1>3, CalledType, Zenon DEF Op, Connected
  <2>2. UNCHANGED <<m_pMySql, m_pRecords, m_pStmt>> /\ UNCHANGED database
    BY <1>3 DEF Connected, database
  <2>3. SameSession /\ ObjectsOK'
    BY <1>2, <2>2 DEF IInv, TypeOK, SameSession, ObjectsOK
  <2> QED BY <1>1, <2>1, <2>2, <2>3, SameSessionStep
<1>4. CASE ~(m_pMySql.link = "up" /\ m_pMySql.unread = "no")
  <2>1. PICK h \in Opened(m_szServer, m_szDB) :
          Reconnect(h) /\ m_pMySql' = h /\ Called("Connected", h.link = "up", 0, FALSE)
    BY <1>4 DEF Connected
  <2>2. h \in Handle
    BY <2>1, OpenedType DEF IInv, TypeOK
  <2>3. (h.link = "up") \in BOOLEAN
    BY Zenon
  <2>4. LastOK' /\ last'.op = "Connected"
    BY <2>1, <2>3, CalledType, Zenon DEF Op
  <2>5. Reopens(h)
    BY <2>1, <2>2 DEF Reopens, Reconnect, Connected
  <2>6. ObjectsOK'
    BY <1>2, <2>1, ClosedObjects DEF Reconnect, ObjectsOK
  <2> QED BY <1>1, <2>4, <2>5, <2>6, ReopensStep
<1> QED BY <1>3, <1>4

LEMMA UseDBStep == ASSUME IInv, NEW d \in Database, UseDB(d) PROVE IInv'
<1>1. m_pMySql.link # "NULL" /\ last.op # "MySqlDB" /\ m_pMySql \in Handle /\ "no" \in Unread
  BY InUse DEF UseDB, IInv, TypeOK, Unread
<1>2. PICK a \in Send(m_pMySql, "no") :
        /\ m_pMySql' = IF a.code = "ok" THEN [a.h EXCEPT !.db = d] ELSE a.h
        /\ asked' = IF a.code = "ok" THEN [asked EXCEPT !.db = d] ELSE asked
        /\ m_szDB' = IF a.code = "ok" THEN d ELSE m_szDB
        /\ m_pStmt' = Pruned(a.h)
        /\ Called("UseDB", a.code = "ok", a.ran, a.code = "lost")
  BY DEF UseDB
<1>3. /\ a \in Answers /\ a.h.server = m_pMySql.server /\ a.h.db = m_pMySql.db
      /\ \/ a.h.link = m_pMySql.link
         \/ m_pMySql.link # "fresh" /\ a.h.link = "none"
      /\ a.code = "lost" => a.h.link \in {"fresh", "none"}
  BY <1>1, SendType
<1>4. LastOK' /\ last'.op = "UseDB"
  <2>1. (a.code = "ok") \in BOOLEAN /\ (a.code = "lost") \in BOOLEAN
    BY Zenon
  <2>2. a.ran \in {0, 1, 2}
    BY <1>3 DEF Answers
  <2> QED BY <1>2, <2>1, <2>2, CalledType, ZenonT(30) DEF Op
<1>5. /\ m_pMySql' \in Handle /\ m_pMySql'.link = a.h.link
      /\ m_pMySql'.server = m_pMySql.server
      /\ m_pMySql'.db = (IF a.code = "ok" THEN d ELSE m_pMySql.db)
  BY <1>2, <1>3 DEF Answers, Handle
<1>6. UNCHANGED <<m_szServer, m_bConnected, m_pRecords, failed>>
  BY DEF UseDB
<1>7. /\ asked' \in [server : Server \cup {NULL}, db : Database \cup {NULL}]
      /\ asked'.server = asked.server
      /\ asked'.db = (IF a.code = "ok" THEN d ELSE asked.db)
  BY <1>2 DEF IInv, TypeOK
<1>8. ObjectsOK'
  BY <1>2, <1>3, <1>5, <1>6 DEF IInv, TypeOK, ObjectsOK, Pruned
<1>9. TypeOK'
  BY <1>2, <1>4, <1>5, <1>6, <1>7, <1>8 DEF IInv, TypeOK, ObjectsOK, LastOK
<1>10. NamesKept'
  BY <1>1, <1>2, <1>6, <1>7 DEF IInv, NamesKept
<1>11. OnAskedDatabase'
  BY <1>3, <1>5, <1>6, <1>7 DEF IInv, OnAskedDatabase
<1>12. FlagTellsConnection'
  BY <1>1, <1>3, <1>5, <1>6 DEF IInv, FlagTellsConnection, Handle, Link
<1> QED BY <1>4, <1>9, <1>10, <1>11, <1>12 DEF IInv, Unused

LEMMA ExecuteSQLStep ==
  ASSUME IInv, ExecuteSQL
  PROVE  IInv' /\ last'.op = "ExecuteSQL" /\ (last'.ran = 2 => last'.lost)
         /\ (last'.ok => last'.ran > 0)
<1>1. m_pMySql.link # "NULL" /\ last.op # "MySqlDB" /\ m_pMySql \in Handle /\ "query" \in Unread
  BY InUse DEF ExecuteSQL, IInv, TypeOK, Unread
<1>2. ObjectsOK
  BY DEF IInv, TypeOK, ObjectsOK
<1>3. UNCHANGED <<m_szServer, m_szDB, asked, failed>>
  BY DEF ExecuteSQL
<1>4. PICK a \in Send(m_pMySql, "query") :
        \/ /\ ~Repeated(a)
           /\ ExecuteOnce(a, a.h)
           /\ UNCHANGED <<m_bConnected, m_pRecords, m_pStmt>>
        \/ /\ Repeated(a)
           /\ \E h \in Opened(m_szServer, m_szDB) :
                /\ Reconnect(h)
                /\ \/ h.link # "up" /\ ExecuteOnce(a, h)
                   \/ /\ h.link = "up"
                      /\ \E b \in Send(h, "query") :
                           /\ m_pMySql' = b.h
                           /\ Called("ExecuteSQL", b.code = "ok", a.ran + b.ran, TRUE)
  BY DEF ExecuteSQL
<1>5. /\ a \in Answers /\ a.h.server = m_pMySql.server /\ a.h.db = m_pMySql.db
      /\ \/ a.h.link = m_pMySql.link
         \/ a.code = "lost" /\ m_pMySql.link # "fresh" /\ a.h.link = "none"
      /\ a.code = "ok" => a.ran = 1
  BY <1>1, <1>4, SendType
<1>6. a.ran \in {0, 1} /\ a.h \in Handle
  BY <1>5 DEF Answers
<1>7. ASSUME NEW h, ExecuteOnce(a, h)
      PROVE  /\ LastOK' /\ last'.op = "ExecuteSQL" /\ m_pMySql' = h
             /\ last'.ok = (a.code = "ok") /\ last'.ran = a.ran
  <2>1. (a.code = "ok") \in BOOLEAN /\ (a.code = "lost") \in BOOLEAN
    BY Zenon
  <2>2. a.ran \in {0, 1, 2}
    BY <1>6
  <2>3. m_pMySql' = h /\ Called("ExecuteSQL", a.code = "ok", a.ran, a.code = "lost")
    BY <1>7, Zenon DEF ExecuteOnce
  <2>4. CASE a.code = "lost"
    <3>1. Called("ExecuteSQL", FALSE, a.ran, TRUE) /\ (a.code = "ok") = FALSE
      <4>1. (a.code = "lost") = TRUE /\ (a.code = "ok") = FALSE
        BY <2>4
      <4> QED BY <2>3, <4>1
    <3> QED BY <2>2, <2>3, <3>1, CalledType, ZenonT(30) DEF Op
  <2>5. CASE a.code # "lost"
    <3>1. Called("ExecuteSQL", a.code = "ok", a.ran, FALSE)
      <4>1. (a.code = "lost") = FALSE
        BY <2>5
      <4> QED BY <2>3, <4>1
    <3>2. LastOK' /\ last'.op = "ExecuteSQL" /\ last'.ok = (a.code = "ok") /\ last'.ran = a.ran
      <4>1. "ExecuteSQL" \in Op /\ FALSE \in BOOLEAN
        BY DEF Op
      <4> QED BY <2>1, <2>2, <3>1, <4>1, CalledType, Zenon
    <3> QED BY <2>3, <3>2, Zenon
  <2> QED BY <2>4, <2>5
<1>8. CASE ~Repeated(a)
  <2>1. ExecuteOnce(a, a.h) /\ UNCHANGED <<m_bConnected, m_pRecords, m_pStmt>>
    BY <1>4, <1>8
  <2>2. SameSession /\ ObjectsOK' /\ UNCHANGED database
    BY <1>1, <1>2, <1>3, <1>5, <1>6, <1>7, <1>8, <2>1
       DEF SameSession, ObjectsOK, database, Repeated
  <2>3. IInv'
    BY <1>1, <1>7, <2>1, <2>2, SameSessionStep
  <2>4. last'.op = "ExecuteSQL" /\ last'.ran = a.ran /\ (last'.ok => a.ran = 1)
    BY <1>5, <1>7, <2>1, Zenon
  <2> QED BY <1>6, <2>3, <2>4
<1>9. CASE Repeated(a)
  <2>1. PICK h \in Opened(m_szServer, m_szDB) :
          /\ Reconnect(h)
          /\ \/ h.link # "up" /\ ExecuteOnce(a, h)
             \/ /\ h.link = "up"
                /\ \E b \in Send(h, "query") :
                     /\ m_pMySql' = b.h
                     /\ Called("ExecuteSQL", b.code = "ok", a.ran + b.ran, TRUE)
    BY <1>4, <1>9
  <2>2. h \in Handle
    BY <2>1, OpenedType DEF IInv, TypeOK
  <2>3. m_bConnected' = (h.link = "up") /\ HandleClosed
    BY <2>1 DEF Reconnect
  <2>4. ObjectsOK'
    BY <1>2, <2>3, ClosedObjects DEF ObjectsOK
  <2>5. CASE h.link # "up"
    <3>1. ExecuteOnce(a, h)
      BY <2>1, <2>5
    <3>2. Reopens(h)
      BY <1>3, <1>7, <2>1, <2>2, <2>3, <3>1 DEF Reopens
    <3>3. IInv'
      BY <1>1, <1>7, <2>4, <3>1, <3>2, ReopensStep
    <3>4. last'.op = "ExecuteSQL" /\ last'.ran = a.ran /\ (last'.ok => a.ran = 1)
      BY <1>5, <1>7, <3>1, Zenon
    <3> QED BY <1>6, <3>3, <3>4
  <2>6. CASE h.link = "up"
    <3>1. PICK b \in Send(h, "query") :
            /\ m_pMySql' = b.h
            /\ Called("ExecuteSQL", b.code = "ok", a.ran + b.ran, TRUE)
      BY <2>1, <2>6
    <3>2. /\ b \in Answers /\ b.h.server = h.server /\ b.h.db = h.db
          /\ b.h.link = h.link \/ b.h.link = "none"
          /\ b.code = "ok" => b.ran = 1
      BY <1>1, <2>2, <2>6, <3>1, SendType
    <3>3. b.ran \in {0, 1} /\ b.h \in Handle
      BY <3>2 DEF Answers
    <3>4. a.ran + b.ran \in {0, 1, 2} /\ (b.ran = 1 => a.ran + b.ran > 0)
      BY <1>6, <3>3
    <3>5. /\ LastOK' /\ last'.op = "ExecuteSQL" /\ last'.lost
          /\ last'.ok = (b.code = "ok") /\ last'.ran = a.ran + b.ran
      <4>1. (b.code = "ok") \in BOOLEAN
        BY Zenon
      <4> QED BY <3>1, <3>4, <4>1, CalledType, ZenonT(30) DEF Op
    <3>6. Reopens(h)
      BY <1>3, <2>1, <2>3, <2>6, <3>1, <3>2, <3>3 DEF Reopens
    <3>7. IInv'
      BY <1>1, <2>4, <3>5, <3>6, ReopensStep
    <3> QED BY <3>2, <3>4, <3>5, <3>7
  <2> QED BY <2>5, <2>6
<1> QED BY <1>8, <1>9

LEMMA ExecutStep ==
  ASSUME IInv, Execut
  PROVE  IInv' /\ last'.op = "Execut" /\ last'.ran # 2 /\ (last'.lost => ~last'.ok)
         /\ (last'.ok => last'.ran > 0)
<1>1. m_pMySql.link # "NULL" /\ last.op # "MySqlDB" /\ m_pMySql \in Handle
  BY InUse DEF Execut, IInv, TypeOK
<1>2. ObjectsOK /\ TypeOK
  BY DEF IInv, TypeOK, ObjectsOK
<1>3. UNCHANGED <<m_szServer, m_szDB, asked, failed>>
  BY DEF Execut
<1>4. PICK a \in StmtExecute :
        \/ /\ a.code # "lost"
           /\ m_pMySql' = a.h /\ Called("Execut", a.code = "ok", a.ran, FALSE)
           /\ UNCHANGED <<m_bConnected, m_pRecords, m_pStmt>>
        \/ /\ a.code = "lost"
           /\ \E h \in Opened(m_szServer, m_szDB) :
                /\ Reconnect(h)
                /\ \/ h.link # "up" /\ m_pMySql' = h /\ Called("Execut", FALSE, a.ran, TRUE)
                   \/ /\ h.link = "up"
                      /\ \E b \in Retried(h) :
                           /\ m_pMySql' = b.h
                           /\ Called("Execut", b.code = "ok", a.ran + b.ran, TRUE)
  BY DEF Execut
<1>5. /\ a \in Answers /\ a.h.server = m_pMySql.server /\ a.h.db = m_pMySql.db
      /\ a.h.link = m_pMySql.link \/ (a.code = "lost" /\ a.h.link = "none")
      /\ a.code = "ok" => a.ran = 1
  BY <1>1, <1>2, <1>4, StmtExecuteType
<1>6. a.ran \in {0, 1} /\ a.ran \in {0, 1, 2} /\ a.h \in Handle /\ a.ran + 0 = a.ran
  BY <1>5 DEF Answers
<1>7. CASE a.code # "lost"
  <2>1. /\ m_pMySql' = a.h /\ Called("Execut", a.code = "ok", a.ran, FALSE)
        /\ UNCHANGED <<m_bConnected, m_pRecords, m_pStmt>>
    BY <1>4, <1>7
  <2>2. /\ LastOK' /\ last'.op = "Execut" /\ ~last'.lost
        /\ last'.ok = (a.code = "ok") /\ last'.ran = a.ran
    <3>1. (a.code = "ok") \in BOOLEAN
      BY Zenon
    <3> QED BY <1>6, <2>1, <3>1, CalledType, Zenon DEF Op
  <2>3. SameSession /\ ObjectsOK' /\ UNCHANGED database
    BY <1>2, <1>3, <1>5, <1>6, <1>7, <2>1 DEF SameSession, ObjectsOK, database
  <2>4. IInv'
    BY <1>1, <2>2, <2>3, SameSessionStep
  <2>5. last'.ok => a.ran = 1
    BY <1>5, <2>2, Zenon
  <2> QED BY <1>6, <2>2, <2>4, <2>5
<1>8. CASE a.code = "lost"
  <2>1. PICK h \in Opened(m_szServer, m_szDB) :
          /\ Reconnect(h)
          /\ \/ h.link # "up" /\ m_pMySql' = h /\ Called("Execut", FALSE, a.ran, TRUE)
             \/ /\ h.link = "up"
                /\ \E b \in Retried(h) :
                     /\ m_pMySql' = b.h
                     /\ Called("Execut", b.code = "ok", a.ran + b.ran, TRUE)
    BY <1>4, <1>8
  <2>2. h \in Handle
    BY <2>1, OpenedType DEF IInv, TypeOK
  <2>3. m_pMySql' = h /\ Called("Execut", FALSE, a.ran, TRUE)
    <3>1. CASE h.link # "up"
      BY <2>1, <3>1
    <3>2. CASE h.link = "up"
      <4>1. PICK b \in Retried(h) :
              m_pMySql' = b.h /\ Called("Execut", b.code = "ok", a.ran + b.ran, TRUE)
        BY <2>1, <3>2
      <4>2. b.h = h /\ b.code = "error" /\ b.ran = 0
        BY <4>1 DEF Retried, Answer
      <4>3. a.ran + b.ran = a.ran /\ (b.code = "ok") = FALSE
        BY <1>6, <4>2
      <4> QED BY <4>1, <4>2, <4>3
    <3> QED BY <3>1, <3>2
  <2>4. LastOK' /\ last'.op = "Execut" /\ ~last'.ok /\ last'.ran = a.ran
    BY <1>6, <2>3, CalledType, Zenon DEF Op
  <2>5. m_bConnected' = (h.link = "up") /\ HandleClosed
    BY <2>1 DEF Reconnect
  <2>6. ObjectsOK'
    BY <1>2, <2>5, ClosedObjects DEF ObjectsOK
  <2>7. Reopens(h)
    BY <1>3, <2>1, <2>2, <2>3, <2>5 DEF Reopens
  <2>8. IInv'
    BY <1>1, <2>4, <2>6, <2>7, ReopensStep
  <2> QED BY <1>6, <2>4, <2>8
<1> QED BY <1>7, <1>8

LEMMA FreedType ==
  ASSUME TypeOK
  PROVE  /\ Freed \in Handle /\ Freed.server = m_pMySql.server /\ Freed.db = m_pMySql.db
         /\ Freed.link = m_pMySql.link
BY ReadType DEF TypeOK, Freed

LEMMA FetchRecordsStep ==
  ASSUME IInv, NEW blAll \in BOOLEAN, FetchRecords(blAll)
  PROVE  IInv' /\ last'.op = "FetchRecords"
<1>1. m_pMySql.link # "NULL" /\ last.op # "MySqlDB" /\ m_pMySql \in Handle /\ ObjectsOK /\ TypeOK
  BY InUse DEF FetchRecords, IInv, TypeOK, ObjectsOK
<1>2. UNCHANGED database
  BY DEF FetchRecords
<1>3. CASE /\ m_pRecords' = "NULL" /\ m_pMySql' = Freed /\ UNCHANGED m_pStmt
           /\ Called("FetchRecords", FALSE, 0, FALSE)
  <2>1. LastOK' /\ last'.op = "FetchRecords"
    BY <1>3, OpNames, CalledType, Zenon
  <2>2. SameSession /\ ObjectsOK'
    BY <1>1, <1>3, FreedType DEF SameSession, ObjectsOK
  <2> QED BY <1>1, <1>2, <2>1, <2>2, SameSessionStep
<1>4. CASE /\ m_pRecords' = "stored" /\ m_pMySql' = Read(m_pMySql) /\ UNCHANGED m_pStmt
           /\ Called("FetchRecords", TRUE, 0, FALSE)
  <2>1. LastOK' /\ last'.op = "FetchRecords"
    BY <1>4, OpNames, CalledType, Zenon
  <2>2. SameSession /\ ObjectsOK'
    BY <1>1, <1>4, ReadType DEF SameSession, ObjectsOK
  <2> QED BY <1>1, <1>2, <2>1, <2>2, SameSessionStep
<1>5. CASE /\ m_pRecords' = "NULL" /\ m_pMySql' = Lost(m_pMySql) /\ m_pStmt' = Pruned(m_pMySql')
           /\ Called("FetchRecords", FALSE, 0, TRUE)
  <2>1. LastOK' /\ last'.op = "FetchRecords"
    BY <1>5, OpNames, CalledType, Zenon
  <2>2. SameSession /\ ObjectsOK'
    BY <1>1, <1>5, LostType, PrunedObjects DEF SameSession, ObjectsOK, Handle, Link
  <2> QED BY <1>1, <1>2, <2>1, <2>2, SameSessionStep
<1>6. CASE /\ m_pRecords' = "rows" /\ m_pMySql' = [m_pMySql EXCEPT !.unread = "rows"]
           /\ UNCHANGED m_pStmt
           /\ Called("FetchRecords", TRUE, 0, FALSE)
  <2>1. LastOK' /\ last'.op = "FetchRecords"
    BY <1>6, OpNames, CalledType, Zenon
  <2>2. /\ m_pMySql' \in Handle /\ m_pMySql'.link = m_pMySql.link
        /\ m_pMySql'.server = m_pMySql.server /\ m_pMySql'.db = m_pMySql.db
    BY <1>1, <1>6 DEF Handle, Unread
  <2>3. SameSession /\ ObjectsOK'
    BY <1>1, <1>6, <2>2 DEF SameSession, ObjectsOK
  <2> QED BY <1>1, <1>2, <2>1, <2>3, SameSessionStep
<1> QED BY <1>3, <1>4, <1>5, <1>6 DEF FetchRecords

LEMMA FetchRowStep == ASSUME IInv, FetchRow PROVE IInv' /\ last'.op = "FetchRow"
<1>1. m_pMySql \in Handle /\ ObjectsOK /\ TypeOK /\ last.op # "MySqlDB"
  BY DEF FetchRow, IInv, TypeOK, ObjectsOK, Unused
<1>2. UNCHANGED database /\ m_pRecords' = "stored"
  BY DEF FetchRow
<1>3. LastOK' /\ last'.op = "FetchRow"
  BY OpNames, CalledType, Zenon DEF FetchRow
<1>4. CASE m_pMySql' = Read(m_pMySql) /\ UNCHANGED m_pStmt
  <2>1. SameSession /\ ObjectsOK'
    BY <1>1, <1>2, <1>4, ReadType DEF SameSession, ObjectsOK
  <2> QED BY <1>1, <1>2, <1>3, <2>1, SameSessionStep
<1>5. CASE m_pMySql.link # "NULL" /\ m_pMySql' = Lost(m_pMySql) /\ m_pStmt' = Pruned(m_pMySql')
  <2>1. SameSession /\ ObjectsOK'
    BY <1>1, <1>2, <1>5, LostType, PrunedObjects DEF SameSession, ObjectsOK, Handle, Link
  <2> QED BY <1>1, <1>2, <1>3, <2>1, SameSessionStep
<1> QED BY <1>4, <1>5 DEF FetchRow

LEMMA DeleteQueryStep == ASSUME IInv, DeleteQuery PROVE IInv' /\ last'.op = "~MySqlQuery"
<1>1. m_pMySql \in Handle /\ ObjectsOK /\ TypeOK /\ last.op # "MySqlDB"
  BY DEF DeleteQuery, IInv, TypeOK, ObjectsOK, Unused
<1>2. LastOK' /\ last'.op = "~MySqlQuery"
  BY OpNames, CalledType, Zenon DEF DeleteQuery
<1>3. SameSession /\ ObjectsOK' /\ UNCHANGED database
  BY <1>1, FreedType DEF DeleteQuery, SameSession, ObjectsOK
<1> QED BY <1>1, <1>2, <1>3, SameSessionStep

LEMMA SetCmdStep == ASSUME IInv, SetCmd PROVE IInv' /\ last'.op = "SetCmd"
<1>1. m_pMySql.link # "NULL" /\ last.op # "MySqlDB" /\ m_pMySql \in Handle /\ ObjectsOK /\ TypeOK
  BY InUse DEF SetCmd, IInv, TypeOK, ObjectsOK
<1>2. UNCHANGED database /\ UNCHANGED m_pRecords
  BY DEF SetCmd
<1>3. PICK c \in StmtClose :
        \/ /\ ~c.ok
           /\ m_pStmt' = "freed" /\ m_pMySql' = c.h /\ Called("SetCmd", FALSE, 0, TRUE)
        \/ /\ c.ok
           /\ m_pStmt' = "NULL" /\ m_pMySql' = c.h /\ Called("SetCmd", FALSE, 0, FALSE)
        \/ /\ c.ok
           /\ \E a \in Send(c.h, "no") :
                /\ m_pMySql' = a.h
                /\ m_pStmt' = IF a.code = "ok" THEN "prepared" ELSE "init"
                /\ Called("SetCmd", a.code = "ok", 0, a.code = "lost")
  BY DEF SetCmd
<1>4. /\ c.h \in Handle /\ c.h.server = m_pMySql.server /\ c.h.db = m_pMySql.db
      /\ c.h.link = m_pMySql.link \/ (m_pMySql.link = "down" /\ c.h.link = "none")
  BY <1>1, <1>3, StmtCloseType
<1>5. CASE \E lost \in BOOLEAN : /\ m_pStmt' \in {"freed", "NULL"} /\ m_pMySql' = c.h
                                 /\ Called("SetCmd", FALSE, 0, lost)
  <2>1. LastOK' /\ last'.op = "SetCmd"
    BY <1>5, OpNames, CalledType, Zenon
  <2>2. SameSession /\ ObjectsOK'
    BY <1>1, <1>2, <1>4, <1>5 DEF SameSession, ObjectsOK
  <2> QED BY <1>1, <1>2, <2>1, <2>2, SameSessionStep
<1>6. CASE \E a \in Send(c.h, "no") :
             /\ m_pMySql' = a.h
             /\ m_pStmt' = IF a.code = "ok" THEN "prepared" ELSE "init"
             /\ Called("SetCmd", a.code = "ok", 0, a.code = "lost")
  <2>1. PICK a \in Send(c.h, "no") :
             /\ m_pMySql' = a.h
             /\ m_pStmt' = IF a.code = "ok" THEN "prepared" ELSE "init"
             /\ Called("SetCmd", a.code = "ok", 0, a.code = "lost")
    BY <1>6
  <2>2. /\ a \in Answers /\ a.h.server = c.h.server /\ a.h.db = c.h.db
        /\ \/ a.h.link = c.h.link
           \/ a.code = "lost" /\ c.h.link # "fresh" /\ a.h.link = "none"
        /\ a.code = "ok" => a.h.link = "up"
    <3>1. c.h.link # "NULL" /\ "no" \in Unread
      BY <1>1, <1>4 DEF Unread
    <3> QED BY <1>4, <2>1, <3>1, SendType
  <2>3. LastOK' /\ last'.op = "SetCmd"
    <3>1. (a.code = "ok") \in BOOLEAN /\ (a.code = "lost") \in BOOLEAN
      BY Zenon
    <3> QED BY <2>1, <3>1, OpNames, CalledType, Zenon
  <2>4. m_pMySql' \in Handle
    BY <2>1, <2>2 DEF Answers
  <2>5. SameSession
    BY <1>1, <1>4, <2>1, <2>2, <2>4 DEF SameSession, Handle, Link
  <2>6. ObjectsOK'
    BY <1>1, <1>2, <2>1, <2>2 DEF ObjectsOK
  <2> QED BY <1>1, <1>2, <2>3, <2>5, <2>6, SameSessionStep
<1> QED BY <1>3, <1>5, <1>6

LEMMA StoreCmdStep == ASSUME IInv, StoreCmd PROVE IInv' /\ last'.op = "CmdFetchRecords"
<1>1. /\ m_pMySql \in Handle /\ ObjectsOK /\ TypeOK /\ m_pMySql.link \in {"up", "down"}
      /\ last.op # "MySqlDB"
  BY DEF StoreCmd, IInv, TypeOK, ObjectsOK, Unused
<1>2. UNCHANGED database /\ UNCHANGED m_pRecords /\ m_pStmt' = Pruned(m_pMySql')
  BY DEF StoreCmd
<1>3. LastOK' /\ last'.op = "CmdFetchRecords"
  <2>1. (m_pMySql'.link = "up") \in BOOLEAN /\ (m_pMySql'.link = "none") \in BOOLEAN
    BY Zenon
  <2> QED BY <2>1, OpNames, CalledType, Zenon DEF StoreCmd
<1>4. SameSession
  BY <1>1, LostType, ReadType DEF StoreCmd, SameSession
<1>5. ObjectsOK'
  BY <1>1, <1>2, <1>4, LostType, ReadType, PrunedObjects DEF StoreCmd, ObjectsOK
<1> QED BY <1>1, <1>2, <1>3, <1>4, <1>5, SameSessionStep

LEMMA DeleteCmdStep == ASSUME IInv, DeleteCmd PROVE IInv' /\ last'.op = "~MySqlCmd"
<1>1. m_pMySql \in Handle /\ ObjectsOK /\ TypeOK /\ last.op # "MySqlDB"
  BY DEF DeleteCmd, IInv, TypeOK, ObjectsOK, Unused
<1>2. PICK c \in StmtClose : m_pMySql' = c.h /\ Called("~MySqlCmd", c.ok, 0, ~c.ok)
  BY DEF DeleteCmd
<1>3. /\ c.ok \in BOOLEAN /\ c.h \in Handle
      /\ c.h.server = m_pMySql.server /\ c.h.db = m_pMySql.db
      /\ c.h.link = m_pMySql.link \/ (m_pMySql.link = "down" /\ c.h.link = "none")
  BY <1>1, <1>2, StmtCloseType
<1>4. LastOK' /\ last'.op = "~MySqlCmd"
  <2>1. (~c.ok) \in BOOLEAN
    BY Zenon
  <2> QED BY <1>2, <1>3, <2>1, OpNames, CalledType, Zenon
<1>5. SameSession /\ ObjectsOK' /\ UNCHANGED database
  BY <1>1, <1>2, <1>3 DEF DeleteCmd, SameSession, ObjectsOK
<1> QED BY <1>1, <1>4, <1>5, SameSessionStep

-----------------------------------------------------------------------------
(* The theorems.                                                             *)

LEMMA StutterStep == ASSUME IInv, UNCHANGED vars PROVE IInv'
<1>1. UNCHANGED <<m_pMySql, m_pRecords, m_pStmt, last>> /\ UNCHANGED database
  BY DEF vars, database
<1>2. TypeOK'
  BY <1>1 DEF IInv, TypeOK, database
<1> QED BY <1>1, <1>2 DEF IInv, NamesKept, Unused, OnAskedDatabase, FlagTellsConnection, database

\* The names that are kept, the session and the flag agree after every call.
THEOREM NextIInv == ASSUME IInv, [Next]_vars PROVE IInv'
<1>1. CASE UNCHANGED vars
  BY <1>1, StutterStep
<1>2. CASE \E d \in Database : UseDB(d) \/ \E s \in Server : Connect(s, d)
  BY <1>2, UseDBStep, ConnectStep
<1>3. CASE \E blAll \in BOOLEAN : FetchRecords(blAll)
  BY <1>3, FetchRecordsStep
<1>4. CASE Close \/ Connected \/ Drop
  BY <1>4, CloseStep, ConnectedStep, DropStep
<1>5. CASE ExecuteSQL \/ FetchRow \/ DeleteQuery
  BY <1>5, ExecuteSQLStep, FetchRowStep, DeleteQueryStep
<1>6. CASE SetCmd \/ Execut \/ StoreCmd \/ DeleteCmd
  BY <1>6, SetCmdStep, ExecutStep, StoreCmdStep, DeleteCmdStep
<1> QED BY <1>1, <1>2, <1>3, <1>4, <1>5, <1>6 DEF Next

THEOREM Inductive == Spec => []IInv
<1>1. Init => IInv
  BY InitIInv
<1>2. IInv /\ [Next]_vars => IInv'
  BY NextIInv
<1> QED BY <1>1, <1>2, PTL DEF Spec

\* TypeOK: in particular a prepared statement has a link that libmysql holds open.
THEOREM TypeCorrect == Spec => []TypeOK
<1>1. IInv => TypeOK
  BY DEF IInv
<1> QED BY <1>1, Inductive, PTL

\* OnAskedDatabase: Connect, UseDB, _Reconnect and the retries lead to the
\* session the caller asked for, or to the default server after a failure.
THEOREM SessionAsked == Spec => []OnAskedDatabase
<1>1. IInv => OnAskedDatabase
  BY DEF IInv
<1> QED BY <1>1, Inductive, PTL

\* FlagTellsConnection: what IsConnected returns.
THEOREM FlagRight == Spec => []FlagTellsConnection
<1>1. IInv => FlagTellsConnection
  BY DEF IInv
<1> QED BY <1>1, Inductive, PTL

\* Every other call runs its statement once at most.
LEMMA OtherCalls ==
  ASSUME IInv, Next, ~ExecuteSQL, ~Execut, ~Drop
  PROVE  last'.op \notin {"ExecuteSQL", "Execut"} /\ last'.ran # 2
<1>1. ASSUME NEW d \in Database, UseDB(d)
      PROVE  last'.op = "UseDB" /\ last'.ran # 2
  <2>1. PICK a \in Send(m_pMySql, "no") : Called("UseDB", a.code = "ok", a.ran, a.code = "lost")
    BY <1>1 DEF UseDB
  <2>2. a.ran \in 0..1
    <3>1. m_pMySql \in Handle /\ m_pMySql.link # "NULL" /\ "no" \in Unread
      BY <1>1 DEF UseDB, IInv, TypeOK, Unread
    <3>2. a \in Answers
      BY <2>1, <3>1, SendType
    <3> QED BY <3>2 DEF Answers
  <2>3. last'.op = "UseDB" /\ last'.ran = a.ran
    BY <2>1 DEF Called
  <2> QED BY <2>2, <2>3
<1>2. ASSUME NEW op, NEW ok, NEW lost, Called(op, ok, 0, lost),
             op \notin {"ExecuteSQL", "Execut"}
      PROVE  last'.op \notin {"ExecuteSQL", "Execut"} /\ last'.ran # 2
  BY <1>2 DEF Called
<1>3. CASE \E d \in Database, s \in Server : Connect(s, d)
  BY <1>2, <1>3 DEF Connect
<1>4. CASE \E blAll \in BOOLEAN : FetchRecords(blAll)
  BY <1>2, <1>4 DEF FetchRecords
<1>5. CASE Close \/ FetchRow \/ DeleteQuery \/ StoreCmd
  BY <1>2, <1>5 DEF Close, FetchRow, DeleteQuery, StoreCmd
<1>6. CASE SetCmd \/ DeleteCmd
  BY <1>2, <1>6 DEF SetCmd, DeleteCmd
<1>7. CASE Connected
  BY <1>2, <1>7 DEF Connected
<1> QED BY <1>1, <1>3, <1>4, <1>5, <1>6, <1>7 DEF Next

LEMMA RunStep == ASSUME IInv, RunTwiceOnlyAfterLoss, [Next]_vars PROVE RunTwiceOnlyAfterLoss'
<1>1. CASE UNCHANGED vars \/ Drop
  <2>1. last' = last
    BY <1>1 DEF vars, Drop
  <2> QED BY <2>1 DEF RunTwiceOnlyAfterLoss
<1>2. CASE ExecuteSQL
  BY <1>2, ExecuteSQLStep DEF RunTwiceOnlyAfterLoss
<1>3. CASE Execut
  BY <1>3, ExecutStep DEF RunTwiceOnlyAfterLoss
<1>4. CASE Next /\ ~ExecuteSQL /\ ~Execut /\ ~Drop
  BY <1>4, OtherCalls DEF RunTwiceOnlyAfterLoss
<1> QED BY <1>1, <1>2, <1>3, <1>4

\* RunTwiceOnlyAfterLoss: the retry of ExecuteSQL and that of Execut.
THEOREM RunsOnce == Spec => []RunTwiceOnlyAfterLoss
<1>1. Init => RunTwiceOnlyAfterLoss
  BY DEF Init, RunTwiceOnlyAfterLoss
<1>2. IInv /\ RunTwiceOnlyAfterLoss /\ [Next]_vars => RunTwiceOnlyAfterLoss'
  BY RunStep
<1> QED BY <1>1, <1>2, Inductive, PTL DEF Spec

-----------------------------------------------------------------------------
(* Reading row by row.                                                       *)

\* An answer is unread only on a link that libmysql holds open, and one that is
\* being read row by row is m_pRecords.
Reading ==
  /\ m_pMySql.unread # "no" => m_pMySql.link \in {"up", "down"}
  /\ m_pMySql.unread = "rows" => m_pRecords = "rows"

\* Nothing is sent while a result is unread, and nothing sent begins a reading.
LEMMA SendUnread ==
  ASSUME NEW h \in Handle, NEW owner \in {"no", "query", "cmd"}, NEW a \in Send(h, owner)
  PROVE  /\ a.h.unread = "rows" => a.code = "sync" /\ a.h = h
         /\ h.unread = "rows" => a.code = "sync" /\ a.h = h
         /\ a.h.unread # "no" => a.h = h \/ a.h.link = "up"
<1>1. CASE h.unread # "no"
  BY <1>1 DEF Send, Answer
<1>2. CASE h.unread = "no"
  <2>1. CASE a = Answer("lost", 0, Lost(h)) \/ a = Answer("lost", 1, Lost(h))
    BY <1>2, <2>1, LostType DEF Answer
  <2>2. CASE a = Answer("error", 0, h)
    BY <1>2, <2>2 DEF Answer
  <2>3. CASE /\ h.link = "up"
              /\ \E u \in {"no", owner} : a = Answer("ok", 1, [h EXCEPT !.unread = u])
    <3>1. PICK u \in {"no", owner} : a = Answer("ok", 1, [h EXCEPT !.unread = u])
      BY <2>3
    <3>2. PICK g : g = [h EXCEPT !.unread = u]
      OBVIOUS
    <3>3. g.unread = u /\ g.link = h.link
      BY <3>2 DEF Handle
    <3>4. a = [code |-> "ok", ran |-> 1, h |-> g]
      BY <3>1, <3>2 DEF Answer
    <3> QED BY <1>2, <2>3, <3>3, <3>4
  <2> QED BY <1>2, <2>1, <2>2, <2>3 DEF Send
<1> QED BY <1>1, <1>2

LEMMA ExecuteSQLReads ==
  ASSUME IInv, Reading, ExecuteSQL
  PROVE  /\ Reading'
         /\ m_pMySql.unread = "rows" => m_pRecords' = m_pRecords
         /\ m_pStmt' = "freed" => m_pStmt = "freed"
<1>1. m_pMySql \in Handle
  BY DEF IInv, TypeOK
<1>2. PICK a \in Send(m_pMySql, "query") :
        \/ /\ ~Repeated(a)
           /\ ExecuteOnce(a, a.h)
           /\ UNCHANGED <<m_bConnected, m_pRecords, m_pStmt>>
        \/ /\ Repeated(a)
           /\ \E h \in Opened(m_szServer, m_szDB) :
                /\ Reconnect(h)
                /\ \/ h.link # "up" /\ ExecuteOnce(a, h)
                   \/ /\ h.link = "up"
                      /\ \E b \in Send(h, "query") :
                           /\ m_pMySql' = b.h
                           /\ Called("ExecuteSQL", b.code = "ok", a.ran + b.ran, TRUE)
  BY DEF ExecuteSQL
<1>3. /\ a.h.unread = "rows" => a.code = "sync" /\ a.h = m_pMySql
      /\ m_pMySql.unread = "rows" => a.code = "sync" /\ a.h = m_pMySql
      /\ a.h.unread # "no" => a.h = m_pMySql \/ a.h.link = "up"
  BY <1>1, <1>2, SendUnread
<1>4. CASE ~Repeated(a)
  <2>1. m_pMySql' = a.h /\ m_pRecords' = m_pRecords /\ m_pStmt' = m_pStmt
    BY <1>2, <1>4 DEF ExecuteOnce
  <2> QED BY <1>3, <2>1 DEF Reading
<1>5. CASE Repeated(a)
  <2>1. PICK h \in Opened(m_szServer, m_szDB) :
          /\ Reconnect(h)
          /\ \/ h.link # "up" /\ ExecuteOnce(a, h)
             \/ /\ h.link = "up"
                /\ \E b \in Send(h, "query") :
                     /\ m_pMySql' = b.h
                     /\ Called("ExecuteSQL", b.code = "ok", a.ran + b.ran, TRUE)
    BY <1>2, <1>5
  <2>2. h \in Handle /\ h.unread = "no"
    BY <2>1, OpenedType DEF IInv, TypeOK
  <2>3. m_pMySql'.unread # "rows" /\ (m_pMySql'.unread # "no" => m_pMySql'.link = "up")
    <3>1. CASE ExecuteOnce(a, h)
      BY <2>2, <3>1 DEF ExecuteOnce
    <3>2. CASE \E b \in Send(h, "query") : m_pMySql' = b.h
      BY <2>2, <3>2, SendUnread
    <3> QED BY <2>1, <3>1, <3>2
  <2>4. m_pMySql.unread # "rows"
    BY <1>3, <1>5 DEF Repeated
  <2>5. m_pStmt' = "freed" => m_pStmt = "freed"
    BY <2>1 DEF Reconnect, HandleClosed
  <2> QED BY <2>3, <2>4, <2>5 DEF Reading
<1> QED BY <1>4, <1>5

LEMMA ExecutReads ==
  ASSUME IInv, Reading, Execut
  PROVE  /\ Reading'
         /\ m_pRecords' # m_pRecords =>
              /\ last'.op = "Execut" /\ last'.lost
              /\ m_pMySql.unread = "rows" => m_pStmt = "prepared"
         /\ m_pStmt' = "freed" => m_pStmt = "freed"
<1>1. m_pMySql \in Handle /\ Read(m_pMySql) \in Handle /\ Read(m_pMySql).unread = "no"
  BY ReadType DEF IInv, TypeOK
<1>2. PICK a \in StmtExecute :
        \/ /\ a.code # "lost"
           /\ m_pMySql' = a.h /\ Called("Execut", a.code = "ok", a.ran, FALSE)
           /\ UNCHANGED <<m_bConnected, m_pRecords, m_pStmt>>
        \/ /\ a.code = "lost"
           /\ \E h \in Opened(m_szServer, m_szDB) :
                /\ Reconnect(h)
                /\ \/ h.link # "up" /\ m_pMySql' = h /\ Called("Execut", FALSE, a.ran, TRUE)
                   \/ /\ h.link = "up"
                      /\ \E b \in Retried(h) :
                           /\ m_pMySql' = b.h
                           /\ Called("Execut", b.code = "ok", a.ran + b.ran, TRUE)
  BY DEF Execut
<1>3. /\ a.h.unread = "rows" => m_pMySql.unread = "rows"
      /\ a.h.unread # "no" => a.h = m_pMySql \/ a.h.link = "up"
  <2>1. CASE m_pStmt # "prepared"
    BY <1>2, <2>1 DEF StmtExecute, Answer
  <2>2. CASE a \in Send(m_pMySql, "cmd") \/ a \in Send(Read(m_pMySql), "cmd")
    BY <1>1, <2>2, SendUnread
  <2> QED BY <1>2, <2>1, <2>2 DEF StmtExecute
<1>4. CASE a.code # "lost"
  BY <1>2, <1>3, <1>4 DEF Reading
<1>5. CASE a.code = "lost"
  <2>1. PICK h \in Opened(m_szServer, m_szDB) :
          /\ Reconnect(h)
          /\ \/ h.link # "up" /\ m_pMySql' = h /\ Called("Execut", FALSE, a.ran, TRUE)
             \/ /\ h.link = "up"
                /\ \E b \in Retried(h) :
                     /\ m_pMySql' = b.h
                     /\ Called("Execut", b.code = "ok", a.ran + b.ran, TRUE)
    BY <1>2, <1>5
  <2>2. h.unread = "no"
    BY <2>1, OpenedType DEF IInv, TypeOK
  <2>3. m_pMySql' = h /\ last'.op = "Execut" /\ last'.lost
    BY <2>1 DEF Retried, Answer, Called
  <2>4. m_pStmt' = "freed" => m_pStmt = "freed"
    BY <2>1 DEF Reconnect, HandleClosed
  <2>5. m_pMySql.unread = "rows" => m_pStmt = "prepared"
    <3>1. CASE m_pStmt # "prepared" /\ m_pMySql.unread = "rows"
      <4>1. m_pMySql.link \in {"none", "fresh"}
        BY <1>2, <1>5, <3>1 DEF StmtExecute, Answer
      <4> QED BY <3>1, <4>1 DEF Reading
    <3> QED BY <3>1
  <2> QED BY <2>2, <2>3, <2>4, <2>5 DEF Reading
<1> QED BY <1>4, <1>5

\* The other calls: what is read, and when the result or the statement dangles.
LEMMA OtherReads ==
  ASSUME IInv, Reading, Next, ~ExecuteSQL, ~Execut
  PROVE  /\ Reading'
         /\ m_pRecords' = "stale" /\ m_pMySql.unread = "rows" =>
              last'.op \in {"Connect", "Close", "Connected"}
         /\ m_pStmt # "freed" /\ m_pStmt' = "freed" => m_pMySql.link = "down"
<1>1. m_pMySql \in Handle /\ TypeOK
  BY DEF IInv, TypeOK
<1>2. /\ Read(m_pMySql).unread = "no" /\ Lost(m_pMySql).unread = "no"
  BY <1>1, ReadType, LostType
<1>3. ASSUME NEW d \in Database, UseDB(d)
      PROVE  Reading' /\ m_pRecords' = m_pRecords /\ (m_pStmt' = "freed" => m_pStmt = "freed")
  <2>1. PICK a \in Send(m_pMySql, "no") :
          /\ m_pMySql' = IF a.code = "ok" THEN [a.h EXCEPT !.db = d] ELSE a.h
          /\ m_pStmt' = Pruned(a.h)
    BY <1>3 DEF UseDB
  <2>2. /\ a.h.unread = "rows" => m_pMySql.unread = "rows"
        /\ a.h.unread # "no" => a.h = m_pMySql \/ a.h.link = "up"
    BY <1>1, <2>1, SendUnread
  <2>3. a.h \in Handle
    <3>1. m_pMySql.link # "NULL" /\ "no" \in Unread
      BY <1>3 DEF UseDB, Unread
    <3>2. a \in Answers
      BY <1>1, <2>1, <3>1, SendType
    <3> QED BY <3>2 DEF Answers
  <2>4. m_pMySql'.unread = a.h.unread /\ m_pMySql'.link = a.h.link
    BY <2>1, <2>3 DEF Handle
  <2>5. m_pRecords' = m_pRecords
    BY <1>3 DEF UseDB
  <2> QED BY <2>1, <2>2, <2>4, <2>5 DEF Reading, Pruned
<1>4. ASSUME NEW s \in Server, NEW d \in Database, Connect(s, d)
      PROVE  /\ Reading' /\ last'.op = "Connect" /\ (m_pStmt' = "freed" => m_pStmt = "freed")
  <2>1. PICK h \in Opened(s, d) : m_pMySql' = h /\ Called("Connect", h.link = "up", 0, FALSE)
    BY <1>4 DEF Connect
  <2>2. h.unread = "no"
    BY <2>1, OpenedType
  <2>3. last'.op = "Connect"
    BY <2>1 DEF Called
  <2>4. m_pStmt' = "freed" => m_pStmt = "freed"
    BY <1>4 DEF Connect, Forgotten, HandleClosed
  <2> QED BY <2>1, <2>2, <2>3, <2>4 DEF Reading
<1>5. CASE Close
  BY <1>5 DEF Close, Forgotten, HandleClosed, Called, NoHandle, New, Reading
<1>6. CASE Connected
  <2>1. last'.op = "Connected" /\ (m_pStmt' = "freed" => m_pStmt = "freed")
    BY <1>6 DEF Connected, Reconnect, HandleClosed, Called
  <2>2. CASE UNCHANGED <<m_pMySql, m_pRecords>>
    BY <2>1, <2>2 DEF Reading
  <2>3. CASE \E h \in Opened(m_szServer, m_szDB) : m_pMySql' = h
    <3>1. PICK h \in Opened(m_szServer, m_szDB) : m_pMySql' = h
      BY <2>3
    <3>2. h.unread = "no"
      BY <1>1, <3>1, OpenedType DEF TypeOK
    <3> QED BY <2>1, <3>1, <3>2 DEF Reading
  <2> QED BY <1>6, <2>2, <2>3 DEF Connected
<1>7. CASE \E blAll \in BOOLEAN : FetchRecords(blAll)
  <2>1. PICK blAll \in BOOLEAN : FetchRecords(blAll)
    BY <1>7
  <2>2. m_pRecords' # "stale" /\ (m_pStmt' = "freed" => m_pStmt = "freed")
    BY <2>1 DEF FetchRecords, Pruned
  <2>3. CASE m_pMySql' = Freed /\ m_pMySql.unread # "query"
    <3>1. Freed.unread = "rows" => FALSE
      BY <1>2 DEF Freed, Reading
    <3>2. Freed.unread # "no" => Freed = m_pMySql
      BY <1>2 DEF Freed
    <3> QED BY <2>2, <2>3, <3>1, <3>2 DEF Reading
  <2>4. CASE m_pMySql' \in {Read(m_pMySql), Lost(m_pMySql)}
    BY <1>2, <2>2, <2>4 DEF Reading
  <2>5. CASE /\ m_pMySql.unread = "query" /\ m_pRecords' = "rows"
             /\ m_pMySql' = [m_pMySql EXCEPT !.unread = "rows"]
    <3>1. m_pMySql'.link = m_pMySql.link
      BY <1>1, <2>5 DEF Handle
    <3> QED BY <2>2, <2>5, <3>1 DEF Reading
  <2> QED BY <2>1, <2>3, <2>4, <2>5 DEF FetchRecords
<1>8. CASE FetchRow
  BY <1>2, <1>8 DEF FetchRow, Reading, Pruned
<1>9. CASE DeleteQuery
  <2>1. /\ Freed.unread = "rows" => FALSE
        /\ Freed.unread # "no" => Freed = m_pMySql
    BY <1>2 DEF Freed, Reading
  <2> QED BY <1>9, <2>1 DEF DeleteQuery, Reading
<1>10. CASE StoreCmd
  BY <1>2, <1>10 DEF StoreCmd, Reading, Pruned
<1>11. ASSUME NEW c \in StmtClose
       PROVE  /\ c.h.unread # "no" => c.h = m_pMySql
              /\ ~c.ok => m_pMySql.link = "down"
  BY <1>1, <1>2, <1>11, StmtCloseType DEF StmtClose
<1>12. CASE DeleteCmd
  <2>1. PICK c \in StmtClose : m_pMySql' = c.h
    BY <1>12 DEF DeleteCmd
  <2>2. m_pRecords' = m_pRecords /\ m_pStmt' = "NULL"
    BY <1>12 DEF DeleteCmd
  <2> QED BY <1>1, <1>11, <2>1, <2>2, StmtCloseType DEF Reading
<1>13. CASE SetCmd
  <2>1. PICK c \in StmtClose :
        \/ /\ ~c.ok
           /\ m_pStmt' = "freed" /\ m_pMySql' = c.h
        \/ /\ c.ok
           /\ m_pStmt' = "NULL" /\ m_pMySql' = c.h
        \/ /\ c.ok
           /\ \E a \in Send(c.h, "no") :
                /\ m_pMySql' = a.h
                /\ m_pStmt' = IF a.code = "ok" THEN "prepared" ELSE "init"
    BY <1>13 DEF SetCmd
  <2>2. m_pRecords' = m_pRecords
    BY <1>13 DEF SetCmd
  <2>3. CASE m_pMySql' = c.h /\ (m_pStmt' = "freed" => ~c.ok)
    BY <1>1, <1>11, <2>2, <2>3, StmtCloseType DEF Reading
  <2>4. CASE \E a \in Send(c.h, "no") :
               m_pMySql' = a.h /\ m_pStmt' = IF a.code = "ok" THEN "prepared" ELSE "init"
    <3>1. PICK a \in Send(c.h, "no") :
               m_pMySql' = a.h /\ m_pStmt' = IF a.code = "ok" THEN "prepared" ELSE "init"
      BY <2>4
    <3>2. c.h \in Handle
      BY <1>1, <2>1, StmtCloseType
    <3>3. /\ a.h.unread = "rows" => a.h = c.h
          /\ a.h.unread # "no" => a.h = c.h \/ a.h.link = "up"
      BY <3>1, <3>2, SendUnread
    <3>4. c.h.unread # "no" => c.h = m_pMySql
      BY <1>11, <2>1
    <3> QED BY <2>2, <3>1, <3>3, <3>4 DEF Reading
  <2> QED BY <2>1, <2>3, <2>4
<1>14. CASE Drop
  BY <1>1, <1>14 DEF Drop, Reading, Handle
<1> QED BY <1>3, <1>4, <1>5, <1>6, <1>7, <1>8, <1>9, <1>10, <1>12, <1>13, <1>14 DEF Next, Reading

LEMMA ReadingStep ==
  ASSUME IInv, Reading, [Next]_vars
  PROVE  /\ Reading'
         /\ m_pMySql.unread = "rows" /\ m_pRecords' = "stale" =>
              \/ last'.op \in {"Connect", "Close", "Connected"}
              \/ last'.op = "Execut" /\ last'.lost /\ m_pStmt = "prepared"
         /\ m_pStmt # "freed" /\ m_pStmt' = "freed" => m_pMySql.link = "down"
<1>1. CASE UNCHANGED vars
  BY <1>1 DEF vars, Reading
<1>2. CASE ExecuteSQL
  BY <1>2, ExecuteSQLReads DEF Reading
<1>3. CASE Execut
  BY <1>3, ExecutReads DEF Reading
<1>4. CASE Next /\ ~ExecuteSQL /\ ~Execut
  BY <1>4, OtherReads
<1> QED BY <1>1, <1>2, <1>3, <1>4

\* QueryKeepsReading: a resend never takes the handle from a result being read.
THEOREM KeepsReading == Spec => QueryKeepsReading
<1>1. Init => Reading
  BY DEF Init, Reading, NoHandle, New
<1>2. IInv /\ Reading /\ [Next]_vars => Reading'
  BY ReadingStep
<1>3. IInv /\ Reading /\ [Next]_vars =>
        [/\ m_pMySql.unread = "rows" /\ m_pRecords' = "stale" =>
              \/ last'.op \in {"Connect", "Close", "Connected"}
              \/ last'.op = "Execut" /\ last'.lost /\ m_pStmt = "prepared"
         /\ m_pStmt # "freed" /\ m_pStmt' = "freed" => m_pMySql.link = "down"]_vars
  BY ReadingStep
<1> QED BY <1>1, <1>2, <1>3, Inductive, PTL DEF Spec, QueryKeepsReading

=============================================================================
