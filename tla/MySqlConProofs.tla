---------------------------- MODULE MySqlConProofs -----------------------------
(***************************************************************************)
(* Proofs about the life cycle of connections, for any number of them, any *)
(* number of calls of Initialize and any number of reconnects.             *)
(***************************************************************************)
EXTENDS MySqlCon, TLAPS

-----------------------------------------------------------------------------
(* Handles and the two ways in which their table changes.                    *)

\* One session, closed any number of times.
Same(n, o) == n.db = o.db /\ n.port = o.port /\ n.connected = o.connected

\* The table ns is hs with the handle h closed once more.
ClosedIn(hs, h, ns) ==
  \A k \in 1..Len(hs) :
    /\ ns[k] \in Handle /\ Same(ns[k], hs[k])
    /\ k # h => ns[k] = hs[k]
    /\ k = h => ns[k].closes = hs[k].closes + 1

LEMMA CloseFacts ==
  ASSUME NEW hs \in Seq(Handle), NEW h \in 0..Len(hs)
  PROVE  /\ Close(hs, h) \in Seq(Handle) /\ Len(Close(hs, h)) = Len(hs)
         /\ ClosedIn(hs, h, Close(hs, h))
<1>1. CASE h = NULL
  BY <1>1 DEF Close, NULL, ClosedIn, Same
<1>2. CASE h # NULL
  <2>1. h \in 1..Len(hs)
    BY <1>2 DEF NULL
  <2>2. hs[h] \in Handle
    BY <2>1
  <2>3. PICK e : e = [hs[h] EXCEPT !.closes = @ + 1]
    OBVIOUS
  <2>4. e \in Handle /\ Same(e, hs[h]) /\ e.closes = hs[h].closes + 1
    BY <2>2, <2>3 DEF Handle, Same
  <2>5. Close(hs, h) = [hs EXCEPT ![h] = e]
    BY <1>2, <2>3 DEF Close
  <2>6. /\ [hs EXCEPT ![h] = e] \in Seq(Handle) /\ Len([hs EXCEPT ![h] = e]) = Len(hs)
    BY <2>1, <2>4
  <2>7. \A k \in 1..Len(hs) : [hs EXCEPT ![h] = e][k] = IF k = h THEN e ELSE hs[k]
    OBVIOUS
  <2> QED BY <2>4, <2>5, <2>6, <2>7 DEF ClosedIn, Same
<1> QED BY <1>1, <1>2

LEMMA AppendFacts ==
  ASSUME NEW hs \in Seq(Handle), NEW e \in Handle
  PROVE  /\ Append(hs, e) \in Seq(Handle) /\ Len(Append(hs, e)) = Len(hs) + 1
         /\ Append(hs, e)[Len(hs) + 1] = e
         /\ \A k \in 1..Len(hs) : Append(hs, e)[k] = hs[k]
OBVIOUS

LEMMA NewFacts ==
  ASSUME NEW d \in Database, NEW p \in Port, NEW out \in Outcome
  PROVE  /\ New(d, p, out) \in Handle /\ New(d, p, out).closes = 0
         /\ New(d, p, out).db = d /\ New(d, p, out).port = p
         /\ New(d, p, out).connected = Connects(out)
<1>1. Connects(out) \in BOOLEAN
  <2>1. CASE Connects(out)
    <3>1. Connects(out) = TRUE
      BY <2>1
    <3> QED BY <3>1
  <2>2. CASE ~Connects(out)
    <3>1. Connects(out) = FALSE
      BY <2>2
    <3> QED BY <3>1
  <2> QED BY <2>1, <2>2
<1> QED BY <1>1 DEF New, Handle

\* A handle is closed and another one made, in one step.
LEMMA ReplaceFacts ==
  ASSUME NEW hs \in Seq(Handle), NEW h \in 0..Len(hs), NEW e \in Handle
  PROVE  /\ Append(Close(hs, h), e) \in Seq(Handle)
         /\ Len(Append(Close(hs, h), e)) = Len(hs) + 1
         /\ Append(Close(hs, h), e)[Len(hs) + 1] = e
         /\ ClosedIn(hs, h, Append(Close(hs, h), e))
<1>1. Close(hs, h) \in Seq(Handle) /\ Len(Close(hs, h)) = Len(hs)
  BY CloseFacts
<1>2. ClosedIn(hs, h, Close(hs, h))
  BY CloseFacts
<1>3. \A k \in 1..Len(hs) : Append(Close(hs, h), e)[k] = Close(hs, h)[k]
  BY <1>1, AppendFacts
<1> QED BY <1>1, <1>2, <1>3, AppendFacts DEF ClosedIn

-----------------------------------------------------------------------------
(* The places of the connections that Initialize makes.                      *)

LEMMA CountFacts ==
  ASSUME NEW f \in Nat
  PROVE  /\ ConnectionCount * f \in Nat /\ ConnectionCount * (f + 1) \in Nat
         /\ ConnectionCount * (f + 1) = ConnectionCount * f + ConnectionCount
BY MySqlConAssumption

LEMMA CountMonotone ==
  ASSUME NEW f \in Nat, f <= MaxFailures
  PROVE  ConnectionCount * (f + 1) <= ConnectionCount * (MaxFailures + 1)
<1>1. PICK g \in Nat : MaxFailures = f + g
  <2>1. MaxFailures - f \in Nat /\ MaxFailures = f + (MaxFailures - f)
    BY MySqlConAssumption
  <2> QED BY <2>1
<1>2. ConnectionCount * g \in Nat
  BY CountFacts
<1>3. ConnectionCount * ((f + g) + 1) = ConnectionCount * (f + 1) + ConnectionCount * g
  BY <1>1, MySqlConAssumption
<1> QED BY <1>1, <1>2, <1>3, CountFacts

-----------------------------------------------------------------------------
(* The inductive invariant.                                                  *)

H(c) == con[c].m_pMySql

\* Two connections never share a handle.
Distinct == \A c, d \in Con : c # d /\ H(c) # NULL => H(c) # H(d)

\* Connections that Initialize has not come to have no handle.
Unmade == \A c \in Con : c > i \/ (c = i /\ at = "connect") => H(c) = NULL

\* Initialize works behind the pool, in the block of its own call.
Place ==
  /\ \A c \in m_VectorCon : c < i
  /\ Initializing => failures <= MaxFailures /\ i <= ConnectionCount * (failures + 1)
  /\ at = "failed" => i <= ConnectionCount * failures
  /\ 1 <= i

\* The connection c can be handed out.
Live(c) ==
  /\ H(c) # NULL /\ handles[H(c)].connected /\ handles[H(c)].closes = 0
  /\ con[c].m_szDatabaseName = Db /\ con[c].m_nPort = port
  /\ handles[H(c)].port = port /\ handles[H(c)].db \in {Db, selected[c]}

PoolLive == \A c \in m_VectorCon : Live(c)

\* The handle that Initialize works on: in the fallback it is that of "test",
\* and once the database is created it has been closed and is kept.
Working ==
  /\ at = "fallback" /\ H(i) # NULL => handles[H(i)].closes = 0
  /\ at \in {"create", "again"} =>
       /\ H(i) # NULL
       /\ handles[H(i)].db = Test /\ handles[H(i)].port = DefaultPort
       /\ handles[H(i)].closes = IF at = "again" THEN 1 ELSE 0

IInv ==
  /\ TypeOK /\ Distinct /\ Unmade /\ Place /\ PoolLive /\ Working /\ ClosedOnce

ConType(hs) ==
  [Con -> [m_pMySql : 0..Len(hs), m_szDatabaseName : Database \cup {NoDb}, m_nPort : Port]]

\* Only the fallback's handles are closed twice.
Once(hs) ==
  \A h \in 1..Len(hs) :
    hs[h].closes > 1 => hs[h].closes = 2 /\ hs[h].db = Test /\ hs[h].port = DefaultPort

LEMMA OnceIsClosedOnce == ASSUME handles \in Seq(Handle) PROVE Once(handles) <=> ClosedOnce
<1>1. DOMAIN handles = 1..Len(handles)
  OBVIOUS
<1> QED BY <1>1 DEF Once, ClosedOnce

LEMMA OnceStep ==
  ASSUME NEW hs \in Seq(Handle), NEW ns \in Seq(Handle), Once(hs),
         NEW h \in 0..Len(hs), ClosedIn(hs, h, ns),
         h # NULL => \/ hs[h].closes = 0
                     \/ hs[h].closes = 1 /\ hs[h].db = Test /\ hs[h].port = DefaultPort,
         Len(ns) = Len(hs) \/ (Len(ns) = Len(hs) + 1 /\ ns[Len(ns)].closes \in {0, 1})
  PROVE  Once(ns)
<1> SUFFICES ASSUME NEW k \in 1..Len(ns), ns[k].closes > 1
             PROVE  ns[k].closes = 2 /\ ns[k].db = Test /\ ns[k].port = DefaultPort
  BY DEF Once
<1>1. k \in 1..Len(hs)
  OBVIOUS
<1>2. hs[k].closes \in Nat
  <2>1. hs[k] \in Handle
    BY <1>1
  <2> QED BY <2>1 DEF Handle
<1>3. CASE k # h
  BY <1>1, <1>3 DEF ClosedIn, Once
<1>4. CASE k = h
  <2>1. ns[k].closes = hs[k].closes + 1 /\ Same(ns[k], hs[k])
    BY <1>1, <1>4 DEF ClosedIn
  <2>2. h # NULL
    BY <1>1, <1>4 DEF NULL
  <2> QED BY <1>2, <1>4, <2>1, <2>2 DEF Same
<1> QED BY <1>3, <1>4

\* Connect, on the connection that Initialize works on.
LEMMA ConnectFacts ==
  ASSUME IInv, Initializing, NEW d \in Database, NEW p \in Port, NEW out \in Outcome,
         Connect(i, d, p, out)
  PROVE  /\ handles' \in Seq(Handle) /\ con' \in ConType(handles')
         /\ ClosedIn(handles, H(i), handles')
         /\ \A c \in Con : c # i => con'[c] = con[c]
         /\ con'[i].m_szDatabaseName = d /\ con'[i].m_nPort = p
         /\ out = "noInit" => con'[i].m_pMySql = NULL /\ Len(handles') = Len(handles)
         /\ out # "noInit" =>
              /\ con'[i].m_pMySql = Len(handles) + 1 /\ Len(handles') = Len(handles) + 1
              /\ handles'[Len(handles) + 1] = New(d, p, out)
<1>1. /\ handles \in Seq(Handle) /\ con \in ConType(handles) /\ i \in Con
      /\ H(i) \in 0..Len(handles)
  BY DEF IInv, TypeOK, ConType, H
<1>2. con' = [con EXCEPT ![i] =
         [m_pMySql |-> IF out = "noInit" THEN NULL ELSE Len(handles) + 1,
          m_szDatabaseName |-> d, m_nPort |-> p]]
  BY DEF Connect
<1>3. /\ con'[i] = [m_pMySql |-> IF out = "noInit" THEN NULL ELSE Len(handles) + 1,
                    m_szDatabaseName |-> d, m_nPort |-> p]
      /\ \A c \in Con : c # i => con'[c] = con[c]
  BY <1>1, <1>2 DEF ConType
<1>4. New(d, p, out) \in Handle
  BY NewFacts
<1>5. CASE out = "noInit"
  <2>1. handles' = Close(handles, H(i))
    BY <1>5 DEF Connect, Connected, H
  <2>2. /\ handles' \in Seq(Handle) /\ Len(handles') = Len(handles)
        /\ ClosedIn(handles, H(i), handles')
    BY <1>1, <2>1, CloseFacts
  <2>3. con' \in ConType(handles')
    BY <1>1, <1>2, <1>5, <2>2 DEF ConType, NULL
  <2> QED BY <1>3, <1>5, <2>2, <2>3
<1>6. CASE out # "noInit"
  <2>1. handles' = Append(Close(handles, H(i)), New(d, p, out))
    BY <1>6 DEF Connect, Connected, H
  <2>2. /\ handles' \in Seq(Handle) /\ Len(handles') = Len(handles) + 1
        /\ handles'[Len(handles) + 1] = New(d, p, out)
        /\ ClosedIn(handles, H(i), handles')
    BY <1>1, <1>4, <2>1, ReplaceFacts
  <2>3. con' \in ConType(handles')
    BY <1>1, <1>2, <1>6, <2>2 DEF ConType
  <2> QED BY <1>3, <1>6, <2>2, <2>3
<1> QED BY <1>5, <1>6

\* A connection whose handle is not the one being closed keeps its session.
LEMMA Others ==
  ASSUME IInv, NEW j \in Con, ClosedIn(handles, H(j), handles'),
         NEW c \in Con, c # j, con'[c] = con[c], H(c) # NULL
  PROVE  H(c)' = H(c) /\ handles'[H(c)] = handles[H(c)]
<1>1. H(c) \in 1..Len(handles)
  BY DEF IInv, TypeOK, H, NULL
<1>2. H(c) # H(j)
  BY DEF IInv, Distinct
<1> QED BY <1>1, <1>2 DEF ClosedIn, H

\* The pool stays live when another connection's handle is closed or replaced.
LEMMA PoolKept ==
  ASSUME IInv, NEW j \in Con, ClosedIn(handles, H(j), handles'), UNCHANGED port,
         selected' = selected, NEW c \in m_VectorCon, c # j, con'[c] = con[c]
  PROVE  Live(c)'
<1>1. Live(c) /\ c \in Con
  BY DEF IInv, TypeOK, PoolLive
<1>2. H(c)' = H(c) /\ handles'[H(c)] = handles[H(c)]
  BY <1>1, Others DEF Live
<1> QED BY <1>1, <1>2 DEF Live, H

LEMMA DistinctStep ==
  ASSUME IInv, NEW j \in Con, \A c \in Con : c # j => con'[c] = con[c],
         H(j)' \in {NULL, Len(handles) + 1}
  PROVE  Distinct'
<1> SUFFICES ASSUME NEW c \in Con, NEW d \in Con, c # d, H(c)' # NULL
             PROVE  H(c)' # H(d)'
  BY DEF Distinct
<1>1. \A e \in Con : H(e) \in 0..Len(handles)
  BY DEF IInv, TypeOK, H
<1>2. Len(handles) \in Nat
  BY DEF IInv, TypeOK
<1>3. \A e \in Con : e # j => H(e)' = H(e)
  BY DEF H
<1>4. CASE c # j /\ d # j
  BY <1>3, <1>4 DEF IInv, Distinct
<1>5. CASE c = j
  BY <1>1, <1>2, <1>3, <1>5 DEF NULL
<1>6. CASE d = j
  BY <1>1, <1>2, <1>3, <1>6 DEF NULL
<1> QED BY <1>4, <1>5, <1>6

\* NextCon: the next place is one of the block, or there is none.
LEMMA NextConFacts ==
  ASSUME IInv, Initializing, NextCon
  PROVE  /\ i' = i + 1 /\ at' \in {"ready", "connect"}
         /\ at' = "connect" => i' \in Con /\ i' <= ConnectionCount * (failures + 1)
<1>1. /\ i \in Nat /\ 1 <= i /\ failures \in Nat /\ failures <= MaxFailures
      /\ i <= ConnectionCount * (failures + 1)
  BY DEF IInv, TypeOK, Place
<1>2. /\ ConnectionCount * (failures + 1) \in Nat
      /\ ConnectionCount * (failures + 1) <= ConnectionCount * (MaxFailures + 1)
      /\ ConnectionCount * (MaxFailures + 1) \in Nat
  BY <1>1, CountFacts, CountMonotone, MySqlConAssumption
<1>3. i' = i + 1 /\ at' = IF i = ConnectionCount * (failures + 1) THEN "ready" ELSE "connect"
  BY DEF NextCon
<1>4. CASE i = ConnectionCount * (failures + 1)
  BY <1>3, <1>4
<1>5. CASE i # ConnectionCount * (failures + 1)
  <2>1. i + 1 <= ConnectionCount * (failures + 1) /\ i + 1 \in Con
    BY <1>1, <1>2, <1>5 DEF Con
  <2> QED BY <1>3, <1>5, <2>1
<1> QED BY <1>4, <1>5

\* ReturnFalse: the places used so far lie before the next block.
LEMMA ReturnFalseFacts ==
  ASSUME IInv, Initializing, ReturnFalse
  PROVE  /\ at' = "failed" /\ failures' \in Nat /\ i' = i
         /\ i' <= ConnectionCount * failures'
BY DEF IInv, TypeOK, Place, ReturnFalse

\* A new connection of the pool, after a Connect that succeeded.
LEMMA JoinsPool ==
  ASSUME IInv, Initializing, Connect(i, Db, port, "ok"), UNCHANGED <<port, selected>>,
         NEW j \in Con, j = i
  PROVE  Live(j)'
<1>1. port \in Port /\ Db \in Database /\ "ok" \in Outcome /\ Len(handles) \in Nat
  BY MySqlConAssumption DEF IInv, TypeOK, Outcome
<1>2. /\ con'[j].m_szDatabaseName = Db /\ con'[j].m_nPort = port
      /\ con'[j].m_pMySql = Len(handles) + 1
      /\ handles'[Len(handles) + 1] = New(Db, port, "ok")
  BY <1>1, ConnectFacts
<1>3. Connects("ok")
  BY DEF Connects
<1>4. /\ New(Db, port, "ok").closes = 0 /\ New(Db, port, "ok").connected
      /\ New(Db, port, "ok").db = Db /\ New(Db, port, "ok").port = port
  BY <1>1, <1>3, NewFacts
<1>5. H(j)' = Len(handles) + 1 /\ H(j)' # NULL
  BY <1>1, <1>2 DEF H, NULL
<1> QED BY <1>1, <1>2, <1>4, <1>5 DEF Live, H

-----------------------------------------------------------------------------
(* Initialize                                                                *)

LEMMA WorkingHandle ==
  ASSUME IInv, Initializing, H(i) # NULL
  PROVE  \/ handles[H(i)].closes = 0
         \/ handles[H(i)].closes = 1 /\ handles[H(i)].db = Test /\ handles[H(i)].port = DefaultPort
<1>1. CASE at = "connect"
  <2>1. i \in Con
    BY DEF IInv, TypeOK
  <2>2. H(i) = NULL
    BY <1>1, <2>1 DEF IInv, Unmade
  <2> QED BY <2>2
<1>2. CASE at = "fallback"
  BY <1>2 DEF IInv, Working
<1>3. CASE at \in {"create", "again"}
  BY <1>3 DEF IInv, Working
<1> QED BY <1>1, <1>2, <1>3 DEF Initializing

\* What every Connect of Initialize keeps.
LEMMA ConnectKeeps ==
  ASSUME IInv, Initializing, NEW d \in Database, NEW p \in Port, NEW out \in Outcome,
         Connect(i, d, p, out), UNCHANGED <<port, selected>>, NEW j \in Con, j = i
  PROVE  /\ Distinct' /\ ClosedOnce' /\ \A c \in m_VectorCon : Live(c)'
         /\ \A c \in Con : c > j => H(c)' = NULL
<1>1. /\ handles' \in Seq(Handle) /\ handles \in Seq(Handle)
      /\ ClosedIn(handles, H(j), handles') /\ H(j) \in 0..Len(handles)
      /\ \A c \in Con : c # j => con'[c] = con[c]
  BY ConnectFacts DEF IInv, TypeOK, H
<1>2. H(j)' \in {NULL, Len(handles) + 1}
  BY ConnectFacts DEF H
<1>3. Distinct'
  BY <1>1, <1>2, DistinctStep
<1>4. ClosedOnce'
  <2>1. Once(handles)
    BY <1>1, OnceIsClosedOnce DEF IInv
  <2>2. H(j) # NULL => \/ handles[H(j)].closes = 0
                       \/ /\ handles[H(j)].closes = 1
                          /\ handles[H(j)].db = Test /\ handles[H(j)].port = DefaultPort
    BY WorkingHandle
  <2>3. \/ Len(handles') = Len(handles)
        \/ Len(handles') = Len(handles) + 1 /\ handles'[Len(handles')].closes \in {0, 1}
    <3>1. CASE out = "noInit"
      BY <3>1, ConnectFacts
    <3>2. CASE out # "noInit"
      <4>1. /\ Len(handles') = Len(handles) + 1
            /\ handles'[Len(handles')] = New(d, p, out)
        BY <3>2, ConnectFacts
      <4>2. New(d, p, out).closes = 0
        BY NewFacts
      <4> QED BY <4>1, <4>2
    <3> QED BY <3>1, <3>2
  <2>4. Once(handles')
    BY <1>1, <2>1, <2>2, <2>3, OnceStep
  <2>5. DOMAIN handles' = 1..Len(handles')
    BY <1>1
  <2> QED BY <2>4, <2>5 DEF Once, ClosedOnce
<1>5. ASSUME NEW c \in m_VectorCon PROVE Live(c)'
  <2>1. c \in Con /\ c # j
    BY DEF IInv, TypeOK, Place
  <2> QED BY <1>1, <2>1, PoolKept
<1>6. ASSUME NEW c \in Con, c > j PROVE H(c)' = NULL
  <2>1. c # j /\ H(c) = NULL
    BY <1>6 DEF IInv, Unmade, Con
  <2> QED BY <1>1, <2>1 DEF H
<1> QED BY <1>3, <1>4, <1>5, <1>6

\* The rest of the invariant, from what changes beside the handles.
LEMMA MovesOn ==
  ASSUME IInv, Initializing, NextCon, NEW j \in Con, j = i,
         m_VectorCon' \subseteq m_VectorCon \cup {j},
         UNCHANGED <<port, exists, failures, selected>>,
         handles' \in Seq(Handle), con' \in ConType(handles'),
         Distinct', ClosedOnce', \A c \in m_VectorCon' : Live(c)',
         \A c \in Con : c > j => H(c)' = NULL
  PROVE  IInv'
<1>1. /\ i' = j + 1 /\ at' \in {"ready", "connect"}
      /\ at' = "connect" => i' \in Con /\ i' <= ConnectionCount * (failures + 1)
  BY NextConFacts
<1>2. j \in Nat /\ 1 <= j /\ \A c \in Con : c \in Nat
  BY DEF Con
<1>3. TypeOK'
  BY <1>1, <1>2 DEF IInv, TypeOK, ConType, Initializing
<1>4. Unmade'
  <2>1. \A c \in Con : c > i' \/ c = i' => c > j
    BY <1>1, <1>2
  <2> QED BY <1>1, <2>1 DEF Unmade
<1>5. Place'
  <2>1. \A c \in m_VectorCon' : c < i'
    <3> SUFFICES ASSUME NEW c \in m_VectorCon' PROVE c < j + 1
      BY <1>1
    <3>1. CASE c = j
      BY <1>2, <3>1
    <3>2. CASE c \in m_VectorCon
      <4>1. c < j /\ c \in Con
        BY <3>2 DEF IInv, TypeOK, Place
      <4> QED BY <1>2, <4>1
    <3> QED BY <3>1, <3>2
  <2>2. failures' = failures /\ failures <= MaxFailures /\ 1 <= i'
    BY <1>1, <1>2 DEF IInv, Place
  <2> QED BY <1>1, <2>1, <2>2 DEF Place, Initializing
<1>6. PoolLive' /\ Working'
  BY <1>1 DEF PoolLive, Working
<1> QED BY <1>3, <1>4, <1>5, <1>6 DEF IInv

LEMMA ConnectFirstStep == ASSUME IInv, ConnectFirst PROVE IInv'
<1>1. PICK out \in Outcome :
        /\ Connect(i, Db, port, out)
        /\ \/ out = "ok" /\ m_VectorCon' = m_VectorCon \cup {i} /\ NextCon
           \/ out # "ok" /\ at' = "fallback" /\ UNCHANGED <<m_VectorCon, i>>
  BY DEF ConnectFirst
<1>2. /\ Initializing /\ at = "connect" /\ UNCHANGED <<port, exists, failures, selected>>
      /\ Db \in Database /\ port \in Port
  BY MySqlConAssumption DEF ConnectFirst, Initializing, IInv, TypeOK
<1>3. PICK j \in Con : j = i
  BY <1>2 DEF IInv, TypeOK
<1>4. /\ Distinct' /\ ClosedOnce' /\ \A c \in m_VectorCon : Live(c)'
      /\ \A c \in Con : c > j => H(c)' = NULL
  BY <1>1, <1>2, <1>3, ConnectKeeps
<1>5. handles' \in Seq(Handle) /\ con' \in ConType(handles')
  BY <1>1, <1>2, ConnectFacts
<1>6. CASE out = "ok" /\ m_VectorCon' = m_VectorCon \cup {i} /\ NextCon
  <2>1. Live(j)'
    BY <1>1, <1>2, <1>3, <1>6, JoinsPool
  <2>2. \A c \in m_VectorCon' : Live(c)'
    BY <1>3, <1>4, <1>6, <2>1
  <2> QED BY <1>2, <1>3, <1>4, <1>5, <1>6, <2>2, MovesOn
<1>7. CASE out # "ok" /\ at' = "fallback" /\ UNCHANGED <<m_VectorCon, i>>
  <2>1. TypeOK'
    BY <1>2, <1>5, <1>7 DEF IInv, TypeOK, ConType, Initializing
  <2>2. Unmade'
    BY <1>3, <1>4, <1>7 DEF Unmade
  <2>3. Place'
    BY <1>2, <1>7 DEF IInv, Place, Initializing
  <2>4. PoolLive'
    BY <1>4, <1>7 DEF PoolLive
  <2>5. H(j)' # NULL => handles'[con'[j].m_pMySql].closes = 0
    <3>1. CASE out = "noInit"
      BY <1>1, <1>2, <1>3, <3>1, ConnectFacts DEF H
    <3>2. CASE out # "noInit"
      <4>1. handles'[con'[j].m_pMySql] = New(Db, port, out)
        BY <1>1, <1>2, <1>3, <3>2, ConnectFacts
      <4> QED BY <1>2, <4>1, NewFacts
    <3> QED BY <3>1, <3>2
  <2>6. Working'
    BY <1>3, <1>7, <2>5 DEF Working, H
  <2> QED BY <1>4, <2>1, <2>2, <2>3, <2>4, <2>6 DEF IInv
<1> QED BY <1>1, <1>6, <1>7

LEMMA ConnectTestStep == ASSUME IInv, ConnectTest PROVE IInv'
<1>1. PICK out \in Outcome :
        /\ Connect(i, Test, DefaultPort, out)
        /\ \/ out = "ok" /\ at' = "create" /\ UNCHANGED <<i, failures>>
           \/ out # "ok" /\ ReturnFalse
  BY DEF ConnectTest
<1>2. /\ Initializing /\ at = "fallback" /\ UNCHANGED <<port, exists, m_VectorCon, selected>>
      /\ Test \in Database /\ DefaultPort \in Port
  BY MySqlConAssumption DEF ConnectTest, Initializing, IInv, TypeOK
<1>3. PICK j \in Con : j = i
  BY <1>2 DEF IInv, TypeOK
<1>4. /\ Distinct' /\ ClosedOnce' /\ \A c \in m_VectorCon : Live(c)'
      /\ \A c \in Con : c > j => H(c)' = NULL
  BY <1>1, <1>2, <1>3, ConnectKeeps
<1>5. handles' \in Seq(Handle) /\ con' \in ConType(handles')
  BY <1>1, <1>2, ConnectFacts
<1>6. CASE out = "ok" /\ at' = "create" /\ UNCHANGED <<i, failures>>
  <2>1. TypeOK'
    BY <1>2, <1>5, <1>6 DEF IInv, TypeOK, ConType, Initializing
  <2>2. Unmade' /\ Place' /\ PoolLive'
    BY <1>2, <1>3, <1>4, <1>6 DEF IInv, Unmade, Place, PoolLive, Initializing
  <2>3. /\ con'[j].m_pMySql = Len(handles) + 1
        /\ handles'[Len(handles) + 1] = New(Test, DefaultPort, out)
    BY <1>1, <1>2, <1>3, <1>6, ConnectFacts
  <2>4. Len(handles) + 1 # NULL
    BY DEF IInv, TypeOK, NULL
  <2>5. Working'
    <3>1. /\ New(Test, DefaultPort, out).closes = 0 /\ New(Test, DefaultPort, out).db = Test
          /\ New(Test, DefaultPort, out).port = DefaultPort
      BY <1>2, NewFacts
    <3> QED BY <1>3, <1>6, <2>3, <2>4, <3>1 DEF Working, H
  <2> QED BY <1>4, <2>1, <2>2, <2>5 DEF IInv
<1>7. CASE ReturnFalse
  <2>1. /\ at' = "failed" /\ failures' \in Nat /\ i' = i
        /\ i' <= ConnectionCount * failures'
    BY <1>2, <1>7, ReturnFalseFacts
  <2>2. TypeOK'
    BY <1>2, <1>5, <2>1 DEF IInv, TypeOK, ConType, Initializing
  <2>3. Unmade' /\ Place' /\ PoolLive' /\ Working'
    BY <1>2, <1>3, <1>4, <2>1 DEF IInv, Unmade, Place, PoolLive, Working, Initializing
  <2> QED BY <1>4, <2>2, <2>3 DEF IInv
<1> QED BY <1>1, <1>6, <1>7

LEMMA CreateDatabaseStep == ASSUME IInv, CreateDatabase PROVE IInv'
<1>1. /\ Initializing /\ at = "create"
      /\ UNCHANGED <<port, con, m_VectorCon, selected>>
      /\ Db \in Database /\ DefaultPort \in Port
  BY MySqlConAssumption DEF CreateDatabase, Initializing
<1>2. PICK j \in Con : j = i
  BY <1>1 DEF IInv, TypeOK
<1>3. /\ handles \in Seq(Handle) /\ H(j) \in 0..Len(handles) /\ H(j) # NULL
      /\ handles[H(j)].closes = 0 /\ handles[H(j)].db = Test
      /\ handles[H(j)].port = DefaultPort
  BY <1>1, <1>2 DEF IInv, TypeOK, H, Working
<1>4. CASE /\ exists' = [exists EXCEPT ![DefaultPort] = @ \cup {Db}]
           /\ handles' = Close(handles, con[i].m_pMySql)
           /\ at' = "again" /\ UNCHANGED <<i, failures>>
  <2>1. /\ handles' \in Seq(Handle) /\ Len(handles') = Len(handles)
        /\ ClosedIn(handles, H(j), handles')
    BY <1>2, <1>3, <1>4, CloseFacts DEF H
  <2>2. exists' \in [Port -> SUBSET Database]
    BY <1>1, <1>4 DEF IInv, TypeOK
  <2>3. TypeOK'
    BY <1>1, <1>4, <2>1, <2>2 DEF IInv, TypeOK, Initializing
  <2>4. Distinct' /\ Unmade' /\ Place'
    BY <1>1, <1>4 DEF IInv, Distinct, Unmade, Place, Initializing, H
  <2>5. PoolLive'
    <3> SUFFICES ASSUME NEW c \in m_VectorCon PROVE Live(c)'
      BY <1>1 DEF PoolLive
    <3>1. c # j /\ con'[c] = con[c]
      BY <1>1, <1>2 DEF IInv, Place, TypeOK, Con
    <3> QED BY <1>1, <2>1, <3>1, PoolKept
  <2>6. ClosedOnce'
    <3>1. Once(handles)
      BY <1>3, OnceIsClosedOnce DEF IInv
    <3>2. Once(handles')
      BY <1>3, <2>1, <3>1, OnceStep
    <3>3. DOMAIN handles' = 1..Len(handles')
      BY <2>1
    <3> QED BY <3>2, <3>3 DEF Once, ClosedOnce
  <2>7. /\ Same(handles'[H(j)], handles[H(j)])
        /\ handles'[H(j)].closes = handles[H(j)].closes + 1
    BY <1>3, <2>1 DEF ClosedIn, NULL
  <2>8. Working'
    BY <1>1, <1>2, <1>3, <1>4, <2>7 DEF Working, Same, H
  <2> QED BY <2>3, <2>4, <2>5, <2>6, <2>8 DEF IInv
<1>5. CASE ReturnFalse /\ UNCHANGED <<exists, handles>>
  <2>1. /\ at' = "failed" /\ failures' \in Nat /\ i' = i
        /\ i' <= ConnectionCount * failures'
    BY <1>1, <1>5, ReturnFalseFacts
  <2>2. TypeOK'
    BY <1>1, <1>5, <2>1 DEF IInv, TypeOK, Initializing
  <2>3. Distinct' /\ Unmade' /\ Place' /\ Working'
    BY <1>1, <1>5, <2>1 DEF IInv, Distinct, Unmade, Place, Working, Initializing, H
  <2>4. PoolLive' /\ ClosedOnce'
    BY <1>1, <1>5 DEF IInv, PoolLive, Live, ClosedOnce, H
  <2> QED BY <2>2, <2>3, <2>4 DEF IInv
<1> QED BY <1>4, <1>5 DEF CreateDatabase

\* The last Connect failed: its handle, if there is one, is closed at once.
LEMMA DeletedFacts ==
  ASSUME NEW hs \in Seq(Handle), NEW h \in 0..Len(hs), NEW e \in Handle, e.closes = 0
  PROVE  LET ns == Close(Append(Close(hs, h), e), Len(hs) + 1) IN
         /\ ns \in Seq(Handle) /\ Len(ns) = Len(hs) + 1 /\ ns[Len(ns)].closes = 1
         /\ ClosedIn(hs, h, ns)
<1>1. PICK ms : ms = Append(Close(hs, h), e)
  OBVIOUS
<1>2. /\ ms \in Seq(Handle) /\ Len(ms) = Len(hs) + 1 /\ ms[Len(hs) + 1] = e
      /\ ClosedIn(hs, h, ms)
  BY <1>1, ReplaceFacts
<1>3. PICK ns : ns = Close(ms, Len(hs) + 1)
  OBVIOUS
<1>4. /\ ns \in Seq(Handle) /\ Len(ns) = Len(ms) /\ ClosedIn(ms, Len(hs) + 1, ns)
  BY <1>2, <1>3, CloseFacts
<1>5. Len(ns) = Len(hs) + 1 /\ Len(hs) + 1 \in 1..Len(ms)
  BY <1>2, <1>4
<1>6. ns[Len(hs) + 1].closes = 1
  BY <1>2, <1>4, <1>5 DEF ClosedIn
<1>7. ClosedIn(hs, h, ns)
  <2>1. \A k \in 1..Len(hs) : ns[k] = ms[k]
    BY <1>2, <1>4 DEF ClosedIn
  <2> QED BY <1>2, <2>1 DEF ClosedIn
<1> QED BY <1>1, <1>3, <1>4, <1>5, <1>6, <1>7

\* A last Connect that fails: its handle, if there is one, is closed at once.
LEMMA DeletedHandles ==
  ASSUME IInv, NEW out \in Outcome, out # "ok", NEW j \in Con, j = i,
         Db \in Database, port \in Port,
         LET hs == Connected(i, Db, port, out)
         IN handles' = Close(hs, IF out = "noInit" THEN NULL ELSE Len(hs))
  PROVE  /\ handles' \in Seq(Handle) /\ ClosedIn(handles, H(j), handles')
         /\ \/ Len(handles') = Len(handles)
            \/ Len(handles') = Len(handles) + 1 /\ handles'[Len(handles')].closes = 1
<1>1. handles \in Seq(Handle) /\ H(j) \in 0..Len(handles)
  BY DEF IInv, TypeOK, H
<1>2. CASE out = "noInit"
  <2>1. handles' = Close(handles, H(j))
    BY <1>2 DEF Connected, Close, H, NULL
  <2> QED BY <1>1, <2>1, CloseFacts
<1>3. CASE out # "noInit"
  <2>1. New(Db, port, out) \in Handle /\ New(Db, port, out).closes = 0
    BY NewFacts
  <2>2. Connected(i, Db, port, out) = Append(Close(handles, H(j)), New(Db, port, out))
    BY <1>3 DEF Connected, H
  <2>3. Len(Append(Close(handles, H(j)), New(Db, port, out))) = Len(handles) + 1
    BY <1>1, <2>1, ReplaceFacts
  <2>4. handles' = Close(Append(Close(handles, H(j)), New(Db, port, out)), Len(handles) + 1)
    BY <1>3, <2>2, <2>3
  <2> QED BY <1>1, <2>1, <2>4, DeletedFacts
<1> QED BY <1>2, <1>3

LEMMA ConnectAgainStep == ASSUME IInv, ConnectAgain PROVE IInv'
<1>1. PICK out \in Outcome :
        \/ /\ out = "ok" /\ Connect(i, Db, port, out)
           /\ m_VectorCon' = m_VectorCon \cup {i}
        \/ /\ out # "ok"
           /\ LET hs == Connected(i, Db, port, out)
              IN handles' = Close(hs, IF out = "noInit" THEN NULL ELSE Len(hs))
           /\ UNCHANGED <<con, m_VectorCon>>
  BY DEF ConnectAgain
<1>2. /\ Initializing /\ at = "again" /\ NextCon
      /\ UNCHANGED <<port, exists, failures, selected>>
      /\ Db \in Database /\ port \in Port
  BY MySqlConAssumption DEF ConnectAgain, Initializing, IInv, TypeOK
<1>3. PICK j \in Con : j = i
  BY <1>2 DEF IInv, TypeOK
<1>4. CASE out = "ok" /\ Connect(i, Db, port, out) /\ m_VectorCon' = m_VectorCon \cup {i}
  <2>1. /\ Distinct' /\ ClosedOnce' /\ \A c \in m_VectorCon : Live(c)'
        /\ \A c \in Con : c > j => H(c)' = NULL
    BY <1>2, <1>3, <1>4, ConnectKeeps
  <2>2. handles' \in Seq(Handle) /\ con' \in ConType(handles')
    BY <1>2, <1>4, ConnectFacts
  <2>3. Live(j)'
    BY <1>2, <1>3, <1>4, JoinsPool
  <2>4. \A c \in m_VectorCon' : Live(c)'
    BY <1>3, <1>4, <2>1, <2>3
  <2> QED BY <1>2, <1>3, <1>4, <2>1, <2>2, <2>4, MovesOn
<1>5. CASE /\ out # "ok"
           /\ LET hs == Connected(i, Db, port, out)
              IN handles' = Close(hs, IF out = "noInit" THEN NULL ELSE Len(hs))
           /\ UNCHANGED <<con, m_VectorCon>>
  <2>1. /\ handles \in Seq(Handle) /\ con \in ConType(handles)
        /\ H(j) \in 0..Len(handles)
    BY DEF IInv, TypeOK, ConType, H
  <2>2. /\ handles' \in Seq(Handle) /\ ClosedIn(handles, H(j), handles')
        /\ \/ Len(handles') = Len(handles)
           \/ Len(handles') = Len(handles) + 1 /\ handles'[Len(handles')].closes \in {0, 1}
    BY <1>2, <1>3, <1>5, DeletedHandles
  <2>3. con' \in ConType(handles')
    BY <1>5, <2>1, <2>2 DEF ConType
  <2>4. Distinct' /\ \A c \in Con : c > j => H(c)' = NULL
    BY <1>3, <1>5 DEF IInv, Distinct, Unmade, H
  <2>5. ClosedOnce'
    <3>1. Once(handles)
      BY <2>1, OnceIsClosedOnce DEF IInv
    <3>2. H(j) # NULL => \/ handles[H(j)].closes = 0
                         \/ /\ handles[H(j)].closes = 1
                            /\ handles[H(j)].db = Test /\ handles[H(j)].port = DefaultPort
      BY <1>2, <1>3, WorkingHandle
    <3>3. Once(handles')
      BY <2>1, <2>2, <3>1, <3>2, OnceStep
    <3>4. DOMAIN handles' = 1..Len(handles')
      BY <2>2
    <3> QED BY <3>3, <3>4 DEF Once, ClosedOnce
  <2>6. \A c \in m_VectorCon' : Live(c)'
    <3> SUFFICES ASSUME NEW c \in m_VectorCon PROVE Live(c)'
      BY <1>5
    <3>1. c # j /\ con'[c] = con[c]
      BY <1>3, <1>5 DEF IInv, Place, TypeOK, Con
    <3> QED BY <1>2, <2>2, <3>1, PoolKept
  <2> QED BY <1>2, <1>3, <1>5, <2>2, <2>3, <2>4, <2>5, <2>6, MovesOn
<1> QED BY <1>1, <1>4, <1>5

LEMMA InitializeStep == ASSUME IInv, Initialize PROVE IInv'
<1>1. /\ at = "failed" /\ failures <= MaxFailures /\ failures \in Nat
      /\ at' = "connect" /\ i' = ConnectionCount * failures + 1
      /\ UNCHANGED <<port, exists, handles, con, m_VectorCon, failures, selected>>
  BY DEF Initialize, IInv, TypeOK
<1>2. /\ i \in Nat /\ 1 <= i /\ i <= ConnectionCount * failures
      /\ \A c \in m_VectorCon : c < i /\ c \in Nat
  BY <1>1 DEF IInv, TypeOK, Place, Con
<1>3. /\ ConnectionCount * failures \in Nat /\ ConnectionCount * (failures + 1) \in Nat
      /\ ConnectionCount * (failures + 1) = ConnectionCount * failures + ConnectionCount
      /\ ConnectionCount * (failures + 1) <= ConnectionCount * (MaxFailures + 1)
  BY <1>1, CountFacts, CountMonotone
<1>4. ConnectionCount >= 1
  <2>1. CASE ConnectionCount = 0
    <3>1. ConnectionCount * failures = 0
      BY <1>1, <2>1
    <3> QED BY <1>2, <3>1
  <2> QED BY <2>1, MySqlConAssumption
<1>5. i < i' /\ i' <= ConnectionCount * (failures + 1) /\ i' \in Con
  <2>1. ConnectionCount * failures + 1 <= ConnectionCount * failures + ConnectionCount
    BY <1>3, <1>4, MySqlConAssumption
  <2>2. ConnectionCount * (MaxFailures + 1) \in Nat
    BY CountFacts, MySqlConAssumption
  <2>3. PICK n \in Nat : n = ConnectionCount * failures + 1
    BY <1>3
  <2>4. n \in 1..(ConnectionCount * (MaxFailures + 1)) /\ i < n
        /\ n <= ConnectionCount * (failures + 1)
    BY <1>2, <1>3, <2>1, <2>2, <2>3
  <2> QED BY <1>1, <2>3, <2>4 DEF Con
<1>6. TypeOK'
  BY <1>1, <1>5 DEF IInv, TypeOK, Initializing, Con
<1>7. Unmade'
  <2>1. \A c \in Con : c > i' \/ c = i' => c > i
    BY <1>2, <1>5 DEF Con
  <2> QED BY <1>1, <2>1 DEF IInv, Unmade, H
<1>8. Place'
  <2>1. \A c \in m_VectorCon : c < i'
    BY <1>2, <1>5 DEF Con
  <2> QED BY <1>1, <1>2, <1>5, <2>1 DEF Place, Initializing, Con
<1>9. Distinct' /\ PoolLive' /\ Working' /\ ClosedOnce'
  BY <1>1 DEF IInv, Distinct, PoolLive, Live, Working, ClosedOnce, H
<1> QED BY <1>6, <1>7, <1>8, <1>9 DEF IInv

-----------------------------------------------------------------------------
(* The pool in use                                                           *)

\* At rest, what changes is the handles and the connections of the pool.
LEMMA AtRest ==
  ASSUME IInv, at \in {"ready", "failed"}, UNCHANGED <<port, exists, m_VectorCon, at, i, failures>>,
         selected' \in [Con -> Database \cup {NoDb}], handles' \in Seq(Handle), con' \in ConType(handles'),
         \A c \in Con \ m_VectorCon : con'[c] = con[c],
         Distinct', ClosedOnce', \A c \in m_VectorCon : Live(c)'
  PROVE  IInv'
<1>1. TypeOK'
  BY DEF IInv, TypeOK, ConType, Initializing
<1>2. Unmade'
  <2> SUFFICES ASSUME NEW c \in Con, c > i PROVE H(c)' = NULL
    BY DEF Unmade
  <2>1. c \notin m_VectorCon /\ H(c) = NULL
    BY DEF IInv, Unmade, Place, TypeOK, Con
  <2> QED BY <2>1 DEF H
<1>3. Place' /\ PoolLive' /\ Working'
  BY DEF IInv, Place, PoolLive, Working, Initializing
<1> QED BY <1>1, <1>2, <1>3 DEF IInv

LEMMA UsableFacts ==
  ASSUME IInv, NEW c \in Con, Usable(c)
  PROVE  /\ at \in {"ready", "failed"} /\ c \in m_VectorCon /\ Live(c)
         /\ handles \in Seq(Handle) /\ con \in ConType(handles)
         /\ H(c) \in 1..Len(handles) /\ handles[H(c)] \in Handle /\ handles[H(c)].closes = 0
         /\ con[c].m_szDatabaseName \in Database /\ con[c].m_nPort \in Port
<1>1. at \in {"ready", "failed"} /\ c \in m_VectorCon /\ Live(c)
  BY DEF Usable, IInv, PoolLive
<1>2. handles \in Seq(Handle) /\ con \in ConType(handles) /\ H(c) \in 0..Len(handles)
  BY DEF IInv, TypeOK, ConType, H
<1>3. H(c) \in 1..Len(handles)
  BY <1>1, <1>2 DEF Live, NULL
<1>4. handles[H(c)] \in Handle
  BY <1>2, <1>3
<1>5. con[c].m_szDatabaseName \in Database /\ con[c].m_nPort \in Port
  BY <1>1, MySqlConAssumption DEF Live, IInv, TypeOK
<1> QED BY <1>1, <1>2, <1>3, <1>4, <1>5 DEF Live

LEMMA SelectDBStep ==
  ASSUME IInv, NEW c \in Con, NEW d \in Database, SelectDB(c, d)
  PROVE  IInv'
<1>1. /\ Usable(c) /\ handles' = [handles EXCEPT ![H(c)].db = d]
      /\ selected' = [selected EXCEPT ![c] = d]
      /\ UNCHANGED <<port, exists, con, m_VectorCon, at, i, failures>>
  BY DEF SelectDB, H
<1>2. /\ at \in {"ready", "failed"} /\ c \in m_VectorCon /\ Live(c)
      /\ handles \in Seq(Handle) /\ con \in ConType(handles)
      /\ H(c) \in 1..Len(handles) /\ handles[H(c)] \in Handle /\ handles[H(c)].closes = 0
  BY <1>1, UsableFacts
<1>3. PICK e : e = [handles[H(c)] EXCEPT !.db = d]
  OBVIOUS
<1>4. /\ e \in Handle /\ e.db = d /\ e.port = handles[H(c)].port /\ e.closes = 0
      /\ e.connected = handles[H(c)].connected
  BY <1>2, <1>3 DEF Handle
<1>5. handles' = [handles EXCEPT ![H(c)] = e]
  BY <1>1, <1>3
<1>6. /\ handles' \in Seq(Handle) /\ Len(handles') = Len(handles)
      /\ \A k \in 1..Len(handles) : handles'[k] = IF k = H(c) THEN e ELSE handles[k]
  BY <1>2, <1>4, <1>5
<1>7. con' \in ConType(handles') /\ selected' \in [Con -> Database \cup {NoDb}]
  BY <1>1, <1>2, <1>6 DEF ConType, IInv, TypeOK
<1>8. Distinct'
  BY <1>1 DEF IInv, Distinct, H
<1>9. ClosedOnce'
  <2>1. Once(handles)
    BY <1>2, OnceIsClosedOnce DEF IInv
  <2>2. ASSUME NEW k \in 1..Len(handles), handles'[k].closes > 1
        PROVE  /\ handles'[k].closes = 2 /\ handles'[k].db = Test
               /\ handles'[k].port = DefaultPort
    <3>1. k # H(c)
      BY <1>4, <1>6, <2>2
    <3> QED BY <1>6, <2>1, <2>2, <3>1 DEF Once
  <2>3. DOMAIN handles' = 1..Len(handles)
    BY <1>6
  <2> QED BY <2>2, <2>3 DEF ClosedOnce
<1>10. ASSUME NEW b \in m_VectorCon PROVE Live(b)'
  <2>1. Live(b) /\ H(b) \in 1..Len(handles) /\ con'[b] = con[b]
    BY <1>1 DEF IInv, PoolLive, Live, TypeOK, H, NULL
  <2>2. b \in Con /\ selected \in [Con -> Database \cup {NoDb}]
    BY DEF IInv, TypeOK
  <2>3. CASE b = c
    BY <1>1, <1>2, <1>4, <1>6, <2>1, <2>2, <2>3 DEF Live, H
  <2>4. CASE b # c
    <3>1. H(b) # H(c) /\ selected'[b] = selected[b]
      BY <1>1, <2>1, <2>2, <2>4 DEF IInv, Distinct, NULL
    <3> QED BY <1>1, <1>6, <2>1, <3>1 DEF Live, H
  <2> QED BY <2>3, <2>4
<1> QED BY <1>1, <1>2, <1>6, <1>7, <1>8, <1>9, <1>10, AtRest

LEMMA ReconnectFailsStep ==
  ASSUME IInv, NEW c \in Con, ReconnectFails(c)
  PROVE  IInv'
<1>1. /\ Usable(c)
      /\ handles' = Append(handles,
           [New(con[c].m_szDatabaseName, con[c].m_nPort, "refused") EXCEPT !.closes = 1])
      /\ UNCHANGED <<port, exists, con, m_VectorCon, at, i, failures, selected>>
  BY DEF ReconnectFails
<1>2. /\ at \in {"ready", "failed"} /\ handles \in Seq(Handle) /\ con \in ConType(handles)
      /\ con[c].m_szDatabaseName \in Database /\ con[c].m_nPort \in Port
  BY <1>1, UsableFacts
<1>3. PICK e : e = [New(con[c].m_szDatabaseName, con[c].m_nPort, "refused") EXCEPT !.closes = 1]
  OBVIOUS
<1>4. e \in Handle /\ e.closes = 1
  <2>1. New(con[c].m_szDatabaseName, con[c].m_nPort, "refused") \in Handle
    BY <1>2, NewFacts DEF Outcome
  <2> QED BY <1>3, <2>1 DEF Handle
<1>5. /\ handles' \in Seq(Handle) /\ Len(handles') = Len(handles) + 1
      /\ handles'[Len(handles) + 1] = e
      /\ \A k \in 1..Len(handles) : handles'[k] = handles[k]
  BY <1>1, <1>2, <1>3, <1>4, AppendFacts
<1>6. con' \in ConType(handles') /\ selected' \in [Con -> Database \cup {NoDb}]
  BY <1>1, <1>2, <1>5 DEF ConType, IInv, TypeOK
<1>7. Distinct'
  BY <1>1 DEF IInv, Distinct, H
<1>8. ClosedOnce'
  <2>1. Once(handles)
    BY <1>2, OnceIsClosedOnce DEF IInv
  <2>2. Once(handles')
    <3> SUFFICES ASSUME NEW k \in 1..Len(handles'), handles'[k].closes > 1
                 PROVE  /\ handles'[k].closes = 2 /\ handles'[k].db = Test
                        /\ handles'[k].port = DefaultPort
      BY DEF Once
    <3>1. Len(handles) \in Nat /\ (k = Len(handles) + 1 \/ k \in 1..Len(handles))
      BY <1>2, <1>5
    <3>2. CASE k = Len(handles) + 1
      BY <1>4, <1>5, <3>2
    <3>3. CASE k \in 1..Len(handles)
      BY <1>5, <2>1, <3>3 DEF Once
    <3> QED BY <3>1, <3>2, <3>3
  <2>3. DOMAIN handles' = 1..Len(handles')
    BY <1>5
  <2> QED BY <2>2, <2>3 DEF Once, ClosedOnce
<1>9. ASSUME NEW b \in m_VectorCon PROVE Live(b)'
  <2>1. Live(b) /\ H(b) \in 1..Len(handles) /\ con'[b] = con[b]
    BY <1>1 DEF IInv, PoolLive, Live, TypeOK, H, NULL
  <2> QED BY <1>1, <1>5, <2>1 DEF Live, H
<1> QED BY <1>1, <1>2, <1>5, <1>6, <1>7, <1>8, <1>9, AtRest

LEMMA ReconnectOkStep ==
  ASSUME IInv, NEW c \in Con, ReconnectOk(c)
  PROVE  IInv'
<1>1. /\ Usable(c)
      /\ handles' = Append(Close(handles, H(c)),
                           New(con[c].m_szDatabaseName, con[c].m_nPort, "ok"))
      /\ con' = [con EXCEPT ![c].m_pMySql = Len(handles) + 1]
      /\ UNCHANGED <<port, exists, m_VectorCon, at, i, failures, selected>>
  BY DEF ReconnectOk, H
<1>2. /\ at \in {"ready", "failed"} /\ c \in m_VectorCon /\ Live(c)
      /\ handles \in Seq(Handle) /\ con \in ConType(handles)
      /\ H(c) \in 1..Len(handles) /\ H(c) \in 0..Len(handles) /\ handles[H(c)].closes = 0
      /\ con[c].m_szDatabaseName = Db /\ con[c].m_nPort = port
      /\ Db \in Database /\ port \in Port
  BY <1>1, UsableFacts DEF Live
<1>3. /\ New(Db, port, "ok") \in Handle /\ New(Db, port, "ok").closes = 0
      /\ New(Db, port, "ok").connected
      /\ New(Db, port, "ok").db = Db /\ New(Db, port, "ok").port = port
  <2>1. Connects("ok") /\ "ok" \in Outcome
    BY DEF Connects, Outcome
  <2> QED BY <1>2, <2>1, NewFacts
<1>4. /\ handles' \in Seq(Handle) /\ Len(handles') = Len(handles) + 1
      /\ handles'[Len(handles) + 1] = New(Db, port, "ok")
      /\ ClosedIn(handles, H(c), handles')
  BY <1>1, <1>2, <1>3, ReplaceFacts
<1>5. /\ con'[c].m_pMySql = Len(handles) + 1
      /\ con'[c].m_szDatabaseName = Db /\ con'[c].m_nPort = port
      /\ \A b \in Con : b # c => con'[b] = con[b]
  BY <1>1, <1>2 DEF ConType
<1>6. con' \in ConType(handles') /\ selected' \in [Con -> Database \cup {NoDb}]
  <2>1. PICK n : n = Len(handles) + 1
    OBVIOUS
  <2>2. n \in 0..Len(handles') /\ \A k \in 0..Len(handles) : k \in 0..Len(handles')
    BY <1>2, <1>4, <2>1
  <2>3. con' = [con EXCEPT ![c].m_pMySql = n]
    BY <1>1, <2>1
  <2>4. con' \in ConType(handles')
    BY <1>2, <2>2, <2>3 DEF ConType
  <2> QED BY <1>1, <2>4 DEF IInv, TypeOK
<1>7. Distinct'
  <2>1. H(c)' \in {NULL, Len(handles) + 1}
    BY <1>5 DEF H
  <2> QED BY <1>5, <2>1, DistinctStep
<1>8. ClosedOnce'
  <2>1. Once(handles)
    BY <1>2, OnceIsClosedOnce DEF IInv
  <2>2. handles'[Len(handles')].closes \in {0, 1}
    BY <1>3, <1>4
  <2>3. Once(handles')
    BY <1>2, <1>4, <2>1, <2>2, OnceStep
  <2>4. DOMAIN handles' = 1..Len(handles')
    BY <1>4
  <2> QED BY <2>3, <2>4 DEF Once, ClosedOnce
<1>9. ASSUME NEW b \in m_VectorCon PROVE Live(b)'
  <2>1. CASE b # c
    BY <1>1, <1>4, <1>5, <2>1, PoolKept DEF IInv, TypeOK
  <2>2. CASE b = c
    <3>1. Len(handles) \in Nat /\ Len(handles) + 1 # NULL
      BY <1>2 DEF NULL
    <3>2. H(c)' = Len(handles) + 1 /\ port' = port
      BY <1>1, <1>5 DEF H
    <3> QED BY <1>3, <1>4, <1>5, <2>2, <3>1, <3>2 DEF Live, H
  <2> QED BY <2>1, <2>2
<1> QED BY <1>1, <1>2, <1>4, <1>5, <1>6, <1>7, <1>8, <1>9, AtRest

\* The destructor changes the vector only.
LEMMA DestroyStep == ASSUME IInv, Destroy PROVE IInv'
<1>1. /\ at \in {"ready", "failed"} /\ at' = "destroyed" /\ m_VectorCon' = {}
      /\ UNCHANGED <<port, exists, handles, con, i, failures, selected>>
  BY DEF Destroy
<1>2. TypeOK'
  BY <1>1 DEF IInv, TypeOK, Initializing
<1>3. Distinct' /\ Unmade' /\ Place'
  BY <1>1 DEF IInv, Distinct, Unmade, Place, Initializing, H
<1>4. PoolLive' /\ Working' /\ ClosedOnce'
  BY <1>1 DEF IInv, PoolLive, Working, ClosedOnce
<1> QED BY <1>2, <1>3, <1>4 DEF IInv

-----------------------------------------------------------------------------
(* The theorems.                                                             *)

LEMMA InitIInv == ASSUME Init PROVE IInv
<1>1. /\ handles = <<>> /\ handles \in Seq(Handle) /\ Len(handles) = 0
      /\ \A c \in Con : H(c) = NULL
  BY DEF Init, H
<1>2. con \in ConType(handles)
  BY <1>1, MySqlConAssumption DEF Init, ConType, NULL
<1>3. ConnectionCount * 1 = ConnectionCount /\ ConnectionCount * (0 + 1) = ConnectionCount
  BY MySqlConAssumption
<1>4. at = "connect" => 1 \in Con /\ 1 <= ConnectionCount
  <2>1. at = "connect" => ConnectionCount >= 1
    BY MySqlConAssumption DEF Init
  <2>2. ConnectionCount * (0 + 1) <= ConnectionCount * (MaxFailures + 1)
    BY CountMonotone, MySqlConAssumption
  <2>3. ConnectionCount * (MaxFailures + 1) \in Nat
    BY CountFacts, MySqlConAssumption
  <2> QED BY <1>3, <2>1, <2>2, <2>3, MySqlConAssumption DEF Con
<1>5. exists \in [Port -> SUBSET Database]
  BY MySqlConAssumption DEF Init
<1>6. TypeOK
  BY <1>1, <1>2, <1>4, <1>5 DEF Init, TypeOK, ConType, Initializing
<1>7. Distinct /\ Unmade /\ PoolLive /\ Working
  BY <1>1 DEF Init, Distinct, Unmade, PoolLive, Working
<1>8. Place
  BY <1>3, <1>4, MySqlConAssumption DEF Init, Place, Initializing
<1>9. ClosedOnce
  BY <1>1 DEF ClosedOnce
<1> QED BY <1>6, <1>7, <1>8, <1>9 DEF IInv

LEMMA StutterStep == ASSUME IInv, UNCHANGED vars PROVE IInv'
<1>1. /\ UNCHANGED <<port, exists, handles, con, m_VectorCon>>
      /\ UNCHANGED <<at, i, failures, selected>>
  BY DEF vars
<1>2. TypeOK'
  BY <1>1 DEF IInv, TypeOK, Initializing
<1>3. Distinct' /\ Unmade' /\ Place'
  BY <1>1 DEF IInv, Distinct, Unmade, Place, Initializing, H
<1>4. PoolLive' /\ Working' /\ ClosedOnce'
  BY <1>1 DEF IInv, PoolLive, Live, Working, ClosedOnce, H
<1> QED BY <1>2, <1>3, <1>4 DEF IInv

LEMMA NextIInv == ASSUME IInv, [Next]_vars PROVE IInv'
<1>1. CASE UNCHANGED vars
  BY <1>1, StutterStep
<1>2. CASE ConnectFirst \/ ConnectTest \/ CreateDatabase \/ ConnectAgain \/ Initialize
          \/ Destroy
  BY <1>2, ConnectFirstStep, ConnectTestStep, CreateDatabaseStep, ConnectAgainStep,
     InitializeStep, DestroyStep
<1>3. CASE \E c \in Con : ReconnectFails(c) \/ ReconnectOk(c)
             \/ \E d \in Database : SelectDB(c, d)
  BY <1>3, ReconnectFailsStep, ReconnectOkStep, SelectDBStep
<1> QED BY <1>1, <1>2, <1>3 DEF Next

THEOREM Inductive == Spec => []IInv
<1>1. Init => IInv
  BY InitIInv
<1>2. IInv /\ [Next]_vars => IInv'
  BY NextIInv
<1> QED BY <1>1, <1>2, PTL DEF Spec

\* TypeOK: Initialize never works outside the block of connections of its call.
THEOREM TypeCorrect == Spec => []TypeOK
<1>1. IInv => TypeOK
  BY DEF IInv
<1> QED BY <1>1, Inductive, PTL

\* HandedOutLive: the handles of the pool are live and its connections' own.
THEOREM PoolHandles == Spec => []HandedOutLive
<1>1. IInv => HandedOutLive
  <2> SUFFICES ASSUME IInv, NEW c \in m_VectorCon
               PROVE  /\ con[c].m_pMySql # NULL /\ handles[con[c].m_pMySql].connected
                      /\ handles[con[c].m_pMySql].closes = 0
                      /\ \A d \in m_VectorCon \ {c} : con[d].m_pMySql # con[c].m_pMySql
    BY DEF HandedOutLive
  <2>1. Live(c) /\ c \in Con /\ m_VectorCon \subseteq Con
    BY DEF IInv, PoolLive, TypeOK
  <2>2. \A d \in m_VectorCon \ {c} : con[d].m_pMySql # con[c].m_pMySql
    BY <2>1 DEF IInv, Distinct, Live, H
  <2> QED BY <2>1, <2>2 DEF Live, H
<1> QED BY <1>1, Inductive, PTL

\* OnConfiguredServer: no detour of Initialize is left in the pool, and a
\* connection's database is its first or the one selected on it.
THEOREM PoolServer == Spec => []OnConfiguredServer
<1>1. IInv => OnConfiguredServer
  BY DEF IInv, PoolLive, Live, OnConfiguredServer, H
<1> QED BY <1>1, Inductive, PTL

\* ClosedOnce: the double close of the fallback is the only one.
THEOREM ClosesOnce == Spec => []ClosedOnce
<1>1. IInv => ClosedOnce
  BY DEF IInv
<1> QED BY <1>1, Inductive, PTL

-----------------------------------------------------------------------------
(* Leaks.                                                                    *)

Pooled(c) == c \in m_VectorCon \/ (Initializing /\ c = i)

LEMMA ReferencedFacts ==
  /\ \A c \in Con : Pooled(c) => H(c) \in Referenced
  /\ \A h \in Referenced : h \in {H(i)} \cup {H(c) : c \in m_VectorCon}
  /\ \A h \in Referenced : ~Initializing => h \in {H(c) : c \in m_VectorCon}
BY DEF Referenced, Pooled, H

\* A step of Initialize, which closes the handle it works on before it makes
\* another one.
LEMMA InitializeLeaks ==
  ASSUME IInv, Initializing, ClosedIn(handles, H(i), handles'), handles' \in Seq(Handle),
         m_VectorCon \subseteq m_VectorCon', \A c \in m_VectorCon : con'[c] = con[c],
         \/ Len(handles') = Len(handles)
         \/ /\ Len(handles') = Len(handles) + 1
            /\ \/ handles'[Len(handles')].closes # 0
               \/ Len(handles') \in Referenced'
               \/ Len(handles') \in Abandoned
  PROVE  Leaked' \subseteq Leaked \cup Abandoned
<1> SUFFICES ASSUME NEW h \in 1..Len(handles'), handles'[h].closes = 0, h \notin Referenced',
                    h \notin Abandoned
             PROVE  h \in Leaked
  <2>1. DOMAIN handles' = 1..Len(handles')
    OBVIOUS
  <2> QED BY <2>1 DEF Leaked
<1>1. handles \in Seq(Handle) /\ Len(handles) \in Nat /\ DOMAIN handles = 1..Len(handles)
  BY DEF IInv, TypeOK
<1>2. h \in 1..Len(handles)
  BY <1>1
<1>3. handles[h].closes \in Nat
  <2>1. handles[h] \in Handle
    BY <1>1, <1>2
  <2> QED BY <2>1 DEF Handle
<1>4. h # H(i) /\ handles[h].closes = 0
  BY <1>2, <1>3 DEF ClosedIn
<1>5. h \notin Referenced
  <2> SUFFICES ASSUME NEW c \in m_VectorCon, h = H(c) PROVE FALSE
    BY <1>4, ReferencedFacts
  <2>1. c \in m_VectorCon' /\ con'[c].m_pMySql = h
    BY DEF H
  <2> QED BY <2>1 DEF Referenced
<1> QED BY <1>1, <1>2, <1>4, <1>5 DEF Leaked

\* A Connect of Initialize leaves its handle to the pool, to the next step of
\* Initialize or, when Initialize fails, to nobody.
LEMMA ConnectLeaks ==
  ASSUME IInv, Initializing, NEW d \in Database, NEW p \in Port, NEW out \in Outcome,
         Connect(i, d, p, out), m_VectorCon \subseteq m_VectorCon', NEW j \in Con, j = i,
         j \in m_VectorCon' \/ (Initializing' /\ i' = j) \/ at' = "failed"
  PROVE  Leaked' \subseteq Leaked \cup Abandoned
<1>1. /\ handles' \in Seq(Handle) /\ ClosedIn(handles, H(i), handles')
      /\ \A c \in Con : c # i => con'[c] = con[c]
  BY ConnectFacts
<1>2. \A c \in m_VectorCon : con'[c] = con[c]
  <2>1. \A c \in m_VectorCon : c \in Con /\ c # i
    BY DEF IInv, TypeOK, Place, Con
  <2> QED BY <1>1, <2>1
<1>3. con'[j].m_pMySql \in Referenced' \cup Abandoned
  <2>1. CASE j \in m_VectorCon' \/ (Initializing' /\ i' = j)
    BY <2>1 DEF Referenced
  <2>2. CASE at' = "failed"
    BY <2>2 DEF Abandoned
  <2> QED BY <2>1, <2>2
<1>4. \/ Len(handles') = Len(handles)
      \/ Len(handles') = Len(handles) + 1 /\ con'[j].m_pMySql = Len(handles')
  <2>1. CASE out = "noInit"
    BY <2>1, ConnectFacts
  <2>2. CASE out # "noInit"
    BY <2>2, ConnectFacts
  <2> QED BY <2>1, <2>2
<1> QED BY <1>1, <1>2, <1>3, <1>4, InitializeLeaks

\* Steps that change no handle's closes to 0 and lose no connection.
LEMMA SameHandlesLeak ==
  ASSUME IInv, DOMAIN handles' = DOMAIN handles, \A h \in DOMAIN handles :
           handles'[h].closes = handles[h].closes,
         UNCHANGED <<con, m_VectorCon>>,
         (Initializing' /\ i' = i) \/ ~Initializing \/ at' = "failed"
  PROVE  Leaked' \subseteq Leaked \cup Abandoned
<1> SUFFICES ASSUME NEW h \in DOMAIN handles, handles[h].closes = 0, h \notin Referenced',
                    h \notin Abandoned
             PROVE  h \notin Referenced
  BY DEF Leaked
<1>1. h \notin {H(c) : c \in m_VectorCon}
  BY DEF Referenced, H
<1>2. CASE ~Initializing
  BY <1>1, <1>2, ReferencedFacts
<1>3. CASE Initializing
  <2>1. h # H(i)
    <3>1. CASE Initializing' /\ i' = i
      BY <3>1 DEF Referenced, H
    <3>2. CASE at' = "failed"
      BY <1>3, <3>2 DEF Abandoned, H
    <3> QED BY <1>3, <3>1, <3>2
  <2> QED BY <1>1, <2>1, ReferencedFacts
<1> QED BY <1>2, <1>3

LEMMA FirstLeaks == ASSUME IInv, ConnectFirst PROVE Leaked' \subseteq Leaked \cup Abandoned
<1>1. PICK out \in Outcome :
        /\ Connect(i, Db, port, out)
        /\ \/ out = "ok" /\ m_VectorCon' = m_VectorCon \cup {i} /\ NextCon
           \/ out # "ok" /\ at' = "fallback" /\ UNCHANGED <<m_VectorCon, i>>
  BY DEF ConnectFirst
<1>2. Initializing /\ Db \in Database /\ port \in Port
  BY MySqlConAssumption DEF ConnectFirst, Initializing, IInv, TypeOK
<1>3. PICK j \in Con : j = i
  BY <1>2 DEF IInv, TypeOK
<1>4. m_VectorCon \subseteq m_VectorCon' /\ (j \in m_VectorCon' \/ (Initializing' /\ i' = j))
  BY <1>1, <1>3 DEF Initializing
<1> QED BY <1>1, <1>2, <1>3, <1>4, ConnectLeaks

LEMMA TestLeaks == ASSUME IInv, ConnectTest PROVE Leaked' \subseteq Leaked \cup Abandoned
<1>1. PICK out \in Outcome :
        /\ Connect(i, Test, DefaultPort, out)
        /\ \/ out = "ok" /\ at' = "create" /\ UNCHANGED <<i, failures>>
           \/ out # "ok" /\ ReturnFalse
  BY DEF ConnectTest
<1>2. Initializing /\ Test \in Database /\ DefaultPort \in Port
  BY MySqlConAssumption DEF ConnectTest, Initializing
<1>3. PICK j \in Con : j = i
  BY <1>2 DEF IInv, TypeOK
<1>4. m_VectorCon \subseteq m_VectorCon' /\ ((Initializing' /\ i' = j) \/ at' = "failed")
  BY <1>1, <1>3 DEF ConnectTest, Initializing, ReturnFalse
<1> QED BY <1>1, <1>2, <1>3, <1>4, ConnectLeaks

LEMMA CreateLeaks == ASSUME IInv, CreateDatabase PROVE Leaked' \subseteq Leaked \cup Abandoned
<1>1. /\ Initializing /\ at = "create" /\ UNCHANGED <<con, m_VectorCon>>
      /\ handles \in Seq(Handle) /\ H(i) \in 0..Len(handles)
  BY DEF CreateDatabase, Initializing, IInv, TypeOK, H
<1>2. CASE handles' = Close(handles, con[i].m_pMySql)
  <2>1. /\ handles' \in Seq(Handle) /\ Len(handles') = Len(handles)
        /\ ClosedIn(handles, H(i), handles')
    BY <1>1, <1>2, CloseFacts DEF H
  <2> QED BY <1>1, <2>1, InitializeLeaks
<1>3. CASE ReturnFalse /\ UNCHANGED handles
  <2>1. at' = "failed"
    BY <1>3 DEF ReturnFalse
  <2> QED BY <1>1, <1>3, <2>1, SameHandlesLeak
<1> QED BY <1>2, <1>3 DEF CreateDatabase

LEMMA AgainLeaks == ASSUME IInv, ConnectAgain PROVE Leaked' \subseteq Leaked \cup Abandoned
<1>1. PICK out \in Outcome :
        \/ /\ out = "ok" /\ Connect(i, Db, port, out)
           /\ m_VectorCon' = m_VectorCon \cup {i}
        \/ /\ out # "ok"
           /\ LET hs == Connected(i, Db, port, out)
              IN handles' = Close(hs, IF out = "noInit" THEN NULL ELSE Len(hs))
           /\ UNCHANGED <<con, m_VectorCon>>
  BY DEF ConnectAgain
<1>2. Initializing /\ Db \in Database /\ port \in Port
  BY MySqlConAssumption DEF ConnectAgain, Initializing, IInv, TypeOK
<1>3. PICK j \in Con : j = i
  BY <1>2 DEF IInv, TypeOK
<1>4. CASE out = "ok" /\ Connect(i, Db, port, out) /\ m_VectorCon' = m_VectorCon \cup {i}
  BY <1>2, <1>3, <1>4, ConnectLeaks
<1>5. CASE /\ out # "ok"
           /\ LET hs == Connected(i, Db, port, out)
              IN handles' = Close(hs, IF out = "noInit" THEN NULL ELSE Len(hs))
           /\ UNCHANGED <<con, m_VectorCon>>
  <2>1. handles \in Seq(Handle) /\ H(j) \in 0..Len(handles)
    BY DEF IInv, TypeOK, H
  <2>2. /\ handles' \in Seq(Handle) /\ ClosedIn(handles, H(j), handles')
        /\ \/ Len(handles') = Len(handles)
           \/ Len(handles') = Len(handles) + 1 /\ handles'[Len(handles')].closes = 1
    BY <1>2, <1>3, <1>5, DeletedHandles
  <2> QED BY <1>2, <1>3, <1>5, <2>2, InitializeLeaks
<1> QED BY <1>1, <1>4, <1>5

LEMMA FailedReconnectLeaks ==
  ASSUME IInv, NEW c \in Con, ReconnectFails(c)
  PROVE  Leaked' \subseteq Leaked \cup Abandoned
<1>1. /\ Usable(c) /\ UNCHANGED <<con, m_VectorCon>>
      /\ handles' = Append(handles,
           [New(con[c].m_szDatabaseName, con[c].m_nPort, "refused") EXCEPT !.closes = 1])
  BY DEF ReconnectFails
<1>2. /\ at \in {"ready", "failed"} /\ at' = at /\ handles \in Seq(Handle)
      /\ con[c].m_szDatabaseName \in Database /\ con[c].m_nPort \in Port
  BY <1>1, UsableFacts DEF ReconnectFails
<1>3. PICK e : e = [New(con[c].m_szDatabaseName, con[c].m_nPort, "refused") EXCEPT !.closes = 1]
  OBVIOUS
<1>4. e \in Handle /\ e.closes = 1
  <2>1. New(con[c].m_szDatabaseName, con[c].m_nPort, "refused") \in Handle
    BY <1>2, NewFacts DEF Outcome
  <2> QED BY <1>3, <2>1 DEF Handle
<1>5. /\ handles' \in Seq(Handle) /\ Len(handles') = Len(handles) + 1
      /\ handles'[Len(handles) + 1] = e
      /\ \A k \in 1..Len(handles) : handles'[k] = handles[k]
  BY <1>1, <1>2, <1>3, <1>4, AppendFacts
<1>6. Referenced' = Referenced
  BY <1>1, <1>2 DEF Referenced, Initializing
<1>7. /\ DOMAIN handles' = 1..Len(handles') /\ DOMAIN handles = 1..Len(handles)
      /\ Len(handles) \in Nat
  BY <1>2, <1>5
<1> SUFFICES ASSUME NEW h \in 1..Len(handles'), handles'[h].closes = 0, h \notin Referenced
             PROVE  h \in Leaked
  BY <1>6, <1>7 DEF Leaked
<1>8. h \in 1..Len(handles)
  BY <1>4, <1>5, <1>7
<1> QED BY <1>5, <1>7, <1>8 DEF Leaked

LEMMA ReconnectLeaks ==
  ASSUME IInv, NEW c \in Con, ReconnectOk(c)
  PROVE  Leaked' \subseteq Leaked \cup Abandoned
<1>1. /\ Usable(c) /\ UNCHANGED m_VectorCon /\ at' = at
      /\ handles' = Append(Close(handles, H(c)),
                           New(con[c].m_szDatabaseName, con[c].m_nPort, "ok"))
      /\ con' = [con EXCEPT ![c].m_pMySql = Len(handles) + 1]
  BY DEF ReconnectOk, H
<1>2. /\ at \in {"ready", "failed"} /\ c \in m_VectorCon
      /\ handles \in Seq(Handle) /\ con \in ConType(handles)
      /\ H(c) \in 0..Len(handles) /\ Len(handles) \in Nat
      /\ con[c].m_szDatabaseName \in Database /\ con[c].m_nPort \in Port
  BY <1>1, UsableFacts
<1>3. New(con[c].m_szDatabaseName, con[c].m_nPort, "ok") \in Handle
  BY <1>2, NewFacts DEF Outcome
<1>4. /\ handles' \in Seq(Handle) /\ Len(handles') = Len(handles) + 1
      /\ ClosedIn(handles, H(c), handles')
  BY <1>1, <1>2, <1>3, ReplaceFacts
<1>5. /\ con'[c].m_pMySql = Len(handles) + 1
      /\ \A b \in Con : b # c => con'[b] = con[b]
  BY <1>1, <1>2 DEF ConType
<1>6. DOMAIN handles' = 1..Len(handles') /\ DOMAIN handles = 1..Len(handles)
  BY <1>2, <1>4
<1> SUFFICES ASSUME NEW h \in 1..Len(handles'), handles'[h].closes = 0, h \notin Referenced'
             PROVE  h \in Leaked
  BY <1>6 DEF Leaked
<1>7. h # Len(handles) + 1
  BY <1>1, <1>2, <1>5 DEF Referenced
<1>8. h \in 1..Len(handles)
  BY <1>2, <1>4, <1>7
<1>9. handles[h].closes \in Nat
  <2>1. handles[h] \in Handle
    BY <1>2, <1>8
  <2> QED BY <2>1 DEF Handle
<1>10. h # H(c) /\ handles[h].closes = 0
  BY <1>4, <1>8, <1>9 DEF ClosedIn
<1>11. h \notin Referenced
  <2> SUFFICES ASSUME NEW b \in m_VectorCon, h = H(b) PROVE FALSE
    BY <1>2, ReferencedFacts DEF Initializing
  <2>1. b \in Con /\ b # c
    BY <1>10 DEF IInv, TypeOK
  <2>2. con'[b].m_pMySql = h /\ b \in m_VectorCon'
    BY <1>1, <1>5, <2>1 DEF H
  <2> QED BY <2>2 DEF Referenced
<1> QED BY <1>6, <1>8, <1>10, <1>11 DEF Leaked

LEMMA SelectLeaks ==
  ASSUME IInv, NEW c \in Con, NEW d \in Database, SelectDB(c, d)
  PROVE  Leaked' \subseteq Leaked \cup Abandoned
<1>1. /\ Usable(c) /\ handles' = [handles EXCEPT ![H(c)].db = d]
      /\ UNCHANGED <<con, m_VectorCon, at, i>>
  BY DEF SelectDB, H
<1>2. /\ at \in {"ready", "failed"} /\ handles \in Seq(Handle)
      /\ H(c) \in 1..Len(handles) /\ handles[H(c)] \in Handle
  BY <1>1, UsableFacts
<1>3. PICK e : e = [handles[H(c)] EXCEPT !.db = d]
  OBVIOUS
<1>4. e.closes = handles[H(c)].closes
  BY <1>2, <1>3 DEF Handle
<1>5. handles' = [handles EXCEPT ![H(c)] = e]
  BY <1>1, <1>3
<1>6. /\ DOMAIN handles' = DOMAIN handles
      /\ \A h \in DOMAIN handles : handles'[h].closes = handles[h].closes
  BY <1>2, <1>4, <1>5
<1>7. ~Initializing
  BY <1>2 DEF Initializing
<1> QED BY <1>1, <1>6, <1>7, SameHandlesLeak

LEMMA RestLeaks ==
  ASSUME IInv, Initialize \/ UNCHANGED vars
  PROVE  Leaked' \subseteq Leaked \cup Abandoned
<1>1. UNCHANGED <<handles, con, m_VectorCon>>
  BY DEF Initialize, vars
<1>2. (Initializing' /\ i' = i) \/ ~Initializing
  BY DEF Initialize, vars, Initializing
<1> QED BY <1>1, <1>2, SameHandlesLeak

LEMMA DestroyLeaks == ASSUME IInv, Destroy PROVE Leaked' \subseteq Leaked \cup Abandoned
<1>1. /\ at \in {"ready", "failed"} /\ at' = "destroyed" /\ UNCHANGED <<handles, con>>
  BY DEF Destroy
<1> SUFFICES ASSUME NEW h \in DOMAIN handles, handles[h].closes = 0, h \notin Abandoned
             PROVE  h \notin Referenced
  BY <1>1 DEF Leaked
<1>2. h \notin {H(c) : c \in m_VectorCon}
  BY <1>1 DEF Abandoned, H
<1> QED BY <1>1, <1>2, ReferencedFacts DEF Initializing

LEMMA OnlyAbandonedLeaks ==
  ASSUME IInv, [Next]_vars PROVE Leaked' \subseteq Leaked \cup (Abandoned \ {NULL})
<1>1. Leaked' \subseteq Leaked \cup Abandoned
  <2>1. CASE UNCHANGED vars \/ Initialize
    BY <2>1, RestLeaks
  <2>2. CASE ConnectFirst \/ ConnectTest \/ CreateDatabase \/ ConnectAgain \/ Destroy
    BY <2>2, FirstLeaks, TestLeaks, CreateLeaks, AgainLeaks, DestroyLeaks
  <2>3. CASE \E c \in Con : ReconnectFails(c) \/ ReconnectOk(c)
               \/ \E d \in Database : SelectDB(c, d)
    BY <2>3, FailedReconnectLeaks, ReconnectLeaks, SelectLeaks
  <2> QED BY <2>1, <2>2, <2>3 DEF Next
<1>2. NULL \notin Leaked'
  <2>1. handles' \in Seq(Handle)
    BY NextIInv DEF IInv, TypeOK
  <2>2. DOMAIN handles' = 1..Len(handles')
    BY <2>1
  <2> QED BY <2>2 DEF Leaked, NULL
<1> QED BY <1>1, <1>2

\* Conversely a leaked handle stays so: a step closes at most one handle, which
\* somebody refers to, and refers to no old handle that was forgotten.
LEMMA LeakedStays ==
  ASSUME IInv, NEW g \in Referenced \cup {NULL},
         handles' \in Seq(Handle), Len(handles) <= Len(handles'),
         \A k \in 1..Len(handles) : k # g => handles'[k].closes = handles[k].closes,
         \A h \in Referenced' : h \in Referenced \cup {NULL, Len(handles) + 1}
  PROVE  Leaked \subseteq Leaked'
<1>1. /\ handles \in Seq(Handle) /\ Len(handles) \in Nat /\ Len(handles') \in Nat
      /\ DOMAIN handles = 1..Len(handles) /\ DOMAIN handles' = 1..Len(handles')
  BY DEF IInv, TypeOK
<1> SUFFICES ASSUME NEW h \in 1..Len(handles), handles[h].closes = 0, h \notin Referenced
             PROVE  h \in 1..Len(handles') /\ handles'[h].closes = 0 /\ h \notin Referenced'
  BY <1>1 DEF Leaked
<1>2. h # NULL /\ h # Len(handles) + 1 /\ h \in 1..Len(handles')
  BY <1>1 DEF NULL
<1>3. h # g
  BY <1>2
<1> QED BY <1>2, <1>3

\* What a step of Initialize refers to: the handles it did before, or a new one.
LEMMA InitializeRefers ==
  ASSUME IInv, Initializing \/ at = "failed", NEW j \in Nat, j = i,
         m_VectorCon' \subseteq m_VectorCon \cup (IF Initializing THEN {j} ELSE {}),
         \A c \in Con : c # j => con'[c] = con[c],
         Initializing => con'[j].m_pMySql \in {NULL, Len(handles) + 1, H(j)},
         Initializing' => (Initializing /\ i' = j) \/ (i' \in Con /\ i' > j)
  PROVE  \A h \in Referenced' : h \in Referenced \cup {NULL, Len(handles) + 1}
<1>1. m_VectorCon \subseteq Con /\ \A c \in m_VectorCon : c < j
  BY DEF IInv, TypeOK, Place
<1>2. ASSUME NEW c \in m_VectorCon PROVE con'[c].m_pMySql \in Referenced
  <2>1. c \in Con /\ c # j
    BY <1>1 DEF Con
  <2> QED BY <2>1 DEF Referenced
<1>3. Initializing => H(j) \in Referenced
  BY DEF Referenced, H
<1>4. Initializing => con'[j].m_pMySql \in Referenced \cup {NULL, Len(handles) + 1}
  BY <1>3
<1>5. ASSUME Initializing', i' # j PROVE con'[i'].m_pMySql = NULL
  <2>1. i' \in Con /\ i' > j
    BY <1>5
  <2>2. H(i') = NULL
    BY <2>1 DEF IInv, Unmade
  <2> QED BY <1>5, <2>1, <2>2 DEF H
<1>6. \A h \in Referenced' :
        \/ \E c \in m_VectorCon' : h = con'[c].m_pMySql
        \/ Initializing' /\ h = con'[i'].m_pMySql
  BY DEF Referenced
<1>7. Initializing' /\ i' = j => Initializing
  OBVIOUS
<1> QED BY <1>2, <1>4, <1>5, <1>6, <1>7

\* A Connect of Initialize.
LEMMA ConnectStays ==
  ASSUME IInv, Initializing, NEW d \in Database, NEW p \in Port, NEW out \in Outcome,
         Connect(i, d, p, out), m_VectorCon' \subseteq m_VectorCon \cup {i},
         Initializing' => i' = i \/ (i' \in Con /\ i' > i)
  PROVE  Leaked \subseteq Leaked'
<1>1. PICK j \in Con : j = i
  BY DEF IInv, TypeOK
<1>2. /\ handles' \in Seq(Handle) /\ ClosedIn(handles, H(j), handles')
      /\ \A c \in Con : c # j => con'[c] = con[c]
  BY <1>1, ConnectFacts
<1>3. con'[j].m_pMySql \in {NULL, Len(handles) + 1, H(j)} /\ Len(handles) <= Len(handles')
  <2>1. Len(handles) \in Nat
    BY DEF IInv, TypeOK
  <2>2. CASE out = "noInit"
    BY <1>1, <2>1, <2>2, ConnectFacts
  <2>3. CASE out # "noInit"
    BY <1>1, <2>1, <2>3, ConnectFacts
  <2> QED BY <2>2, <2>3
<1>4. \A h \in Referenced' : h \in Referenced \cup {NULL, Len(handles) + 1}
  <2>1. j \in Nat /\ m_VectorCon' \subseteq m_VectorCon \cup (IF Initializing THEN {j} ELSE {})
    BY <1>1 DEF Con
  <2> QED BY <1>1, <1>2, <1>3, <2>1, InitializeRefers
<1>5. H(j) \in Referenced \cup {NULL}
  BY <1>1 DEF Referenced, H
<1>6. \A k \in 1..Len(handles) : k # H(j) => handles'[k].closes = handles[k].closes
  BY <1>2 DEF ClosedIn
<1> QED BY <1>2, <1>3, <1>4, <1>5, <1>6, LeakedStays

LEMMA NextConPlace ==
  ASSUME IInv, Initializing, NextCon PROVE Initializing' => i' \in Con /\ i' > i
<1>1. i' = i + 1 /\ at' \in {"ready", "connect"} /\ (at' = "connect" => i' \in Con)
  BY NextConFacts
<1> QED BY <1>1 DEF Initializing, IInv, TypeOK

LEMMA FirstStays == ASSUME IInv, ConnectFirst PROVE Leaked \subseteq Leaked'
<1>1. PICK out \in Outcome :
        /\ Connect(i, Db, port, out)
        /\ \/ out = "ok" /\ m_VectorCon' = m_VectorCon \cup {i} /\ NextCon
           \/ out # "ok" /\ at' = "fallback" /\ UNCHANGED <<m_VectorCon, i>>
  BY DEF ConnectFirst
<1>2. Initializing /\ Db \in Database /\ port \in Port
  BY MySqlConAssumption DEF ConnectFirst, Initializing, IInv, TypeOK
<1>3. m_VectorCon' \subseteq m_VectorCon \cup {i}
      /\ (Initializing' => i' = i \/ (i' \in Con /\ i' > i))
  BY <1>1, <1>2, NextConPlace
<1> QED BY <1>1, <1>2, <1>3, ConnectStays

LEMMA TestStays == ASSUME IInv, ConnectTest PROVE Leaked \subseteq Leaked'
<1>1. PICK out \in Outcome :
        /\ Connect(i, Test, DefaultPort, out)
        /\ \/ out = "ok" /\ at' = "create" /\ UNCHANGED <<i, failures>>
           \/ out # "ok" /\ ReturnFalse
  BY DEF ConnectTest
<1>2. Initializing /\ Test \in Database /\ DefaultPort \in Port
  BY MySqlConAssumption DEF ConnectTest, Initializing
<1>3. m_VectorCon' = m_VectorCon /\ i' = i
  BY <1>1 DEF ConnectTest, ReturnFalse
<1> QED BY <1>1, <1>2, <1>3, ConnectStays

LEMMA CreateStays == ASSUME IInv, CreateDatabase PROVE Leaked \subseteq Leaked'
<1>1. /\ Initializing /\ UNCHANGED <<con, m_VectorCon>> /\ i' = i
      /\ handles \in Seq(Handle) /\ Len(handles) \in Nat
  BY DEF CreateDatabase, ReturnFalse, Initializing, IInv, TypeOK
<1>2. PICK j \in Con : j = i
  BY <1>1 DEF IInv, TypeOK
<1>3. H(j) \in 0..Len(handles) /\ H(j) \in Referenced
  BY <1>1, <1>2 DEF IInv, TypeOK, Referenced, H
<1>4. /\ handles' \in Seq(Handle) /\ Len(handles') = Len(handles)
      /\ \A k \in 1..Len(handles) : k # H(j) => handles'[k].closes = handles[k].closes
  <2>1. CASE handles' = Close(handles, con[i].m_pMySql)
    <3>1. /\ handles' \in Seq(Handle) /\ Len(handles') = Len(handles)
          /\ ClosedIn(handles, H(j), handles')
      BY <1>1, <1>2, <1>3, <2>1, CloseFacts DEF H
    <3> QED BY <3>1 DEF ClosedIn
  <2>2. CASE handles' = handles
    BY <1>1, <2>2
  <2> QED BY <2>1, <2>2 DEF CreateDatabase
<1>5. \A h \in Referenced' : h \in Referenced
  BY <1>1 DEF Referenced
<1> QED BY <1>1, <1>3, <1>4, <1>5, LeakedStays

LEMMA AgainStays == ASSUME IInv, ConnectAgain PROVE Leaked \subseteq Leaked'
<1>1. PICK out \in Outcome :
        \/ /\ out = "ok" /\ Connect(i, Db, port, out)
           /\ m_VectorCon' = m_VectorCon \cup {i}
        \/ /\ out # "ok"
           /\ LET hs == Connected(i, Db, port, out)
              IN handles' = Close(hs, IF out = "noInit" THEN NULL ELSE Len(hs))
           /\ UNCHANGED <<con, m_VectorCon>>
  BY DEF ConnectAgain
<1>2. Initializing /\ NextCon /\ Db \in Database /\ port \in Port
  BY MySqlConAssumption DEF ConnectAgain, Initializing, IInv, TypeOK
<1>3. PICK j \in Con : j = i
  BY <1>2 DEF IInv, TypeOK
<1>4. Initializing' => i' \in Con /\ i' > j
  BY <1>2, <1>3, NextConPlace
<1>5. CASE out = "ok" /\ Connect(i, Db, port, out) /\ m_VectorCon' = m_VectorCon \cup {i}
  BY <1>2, <1>3, <1>4, <1>5, ConnectStays
<1>6. CASE /\ out # "ok"
           /\ LET hs == Connected(i, Db, port, out)
              IN handles' = Close(hs, IF out = "noInit" THEN NULL ELSE Len(hs))
           /\ UNCHANGED <<con, m_VectorCon>>
  <2>1. handles \in Seq(Handle) /\ Len(handles) \in Nat /\ H(j) \in 0..Len(handles)
    BY DEF IInv, TypeOK, H
  <2>2. /\ handles' \in Seq(Handle) /\ ClosedIn(handles, H(j), handles')
        /\ Len(handles) <= Len(handles')
    BY <1>2, <1>3, <1>6, <2>1, DeletedHandles
  <2>3. \A h \in Referenced' : h \in Referenced \cup {NULL, Len(handles) + 1}
    <3>1. j \in Nat /\ con'[j].m_pMySql = H(j)
          /\ m_VectorCon' \subseteq m_VectorCon \cup (IF Initializing THEN {j} ELSE {})
      BY <1>6 DEF Con, H
    <3> QED BY <1>2, <1>3, <1>4, <1>6, <3>1, InitializeRefers
  <2>4. H(j) \in Referenced
    BY <1>2, <1>3 DEF Referenced, H
  <2>5. \A k \in 1..Len(handles) : k # H(j) => handles'[k].closes = handles[k].closes
    BY <2>2 DEF ClosedIn
  <2> QED BY <2>2, <2>3, <2>4, <2>5, LeakedStays
<1> QED BY <1>1, <1>5, <1>6

LEMMA InitializeStays == ASSUME IInv, Initialize PROVE Leaked \subseteq Leaked'
<1>1. /\ at = "failed" /\ UNCHANGED <<handles, con, m_VectorCon>> /\ ~Initializing
  BY DEF Initialize, Initializing
<1>2. handles' \in Seq(Handle) /\ Len(handles') = Len(handles) /\ i \in Nat /\ i' \in Con
  BY <1>1, InitializeStep DEF Initialize, IInv, TypeOK, Initializing
<1>3. i' > i
  <2>1. i <= ConnectionCount * failures /\ i' = ConnectionCount * failures + 1
        /\ failures \in Nat
    BY DEF Initialize, IInv, Place, TypeOK
  <2>2. ConnectionCount * failures \in Nat
    BY <2>1, CountFacts
  <2> QED BY <1>2, <2>1, <2>2
<1>4. \A h \in Referenced' : h \in Referenced \cup {NULL, Len(handles) + 1}
  BY <1>1, <1>2, <1>3, InitializeRefers
<1>5. Len(handles) <= Len(handles')
  BY <1>1, <1>2 DEF IInv, TypeOK
<1> QED BY <1>1, <1>2, <1>4, <1>5, LeakedStays

LEMMA UseStays ==
  ASSUME IInv, NEW c \in Con,
         ReconnectFails(c) \/ ReconnectOk(c) \/ \E d \in Database : SelectDB(c, d)
  PROVE  Leaked \subseteq Leaked'
<1>1. /\ Usable(c) /\ at' = at /\ m_VectorCon' = m_VectorCon
  BY DEF ReconnectFails, ReconnectOk, SelectDB
<1>2. /\ at \in {"ready", "failed"} /\ c \in m_VectorCon /\ handles \in Seq(Handle)
      /\ H(c) \in 1..Len(handles) /\ H(c) \in 0..Len(handles)
      /\ Len(handles) \in Nat /\ con \in ConType(handles)
      /\ con[c].m_szDatabaseName \in Database /\ con[c].m_nPort \in Port
      /\ handles[H(c)] \in Handle
  BY <1>1, UsableFacts
<1>3. ~Initializing /\ ~Initializing' /\ H(c) \in Referenced
  BY <1>1, <1>2 DEF Initializing, Referenced, H
<1>4. handles' \in Seq(Handle)
  BY NextIInv DEF Next, IInv, TypeOK
<1>5. /\ Len(handles) <= Len(handles')
      /\ \A k \in 1..Len(handles) : k # H(c) => handles'[k].closes = handles[k].closes
  <2>1. CASE ReconnectFails(c)
    <3>1. PICK e : handles' = Append(handles, e)
      BY <2>1 DEF ReconnectFails
    <3> QED BY <1>2, <3>1
  <2>2. CASE ReconnectOk(c)
    <3>1. New(con[c].m_szDatabaseName, con[c].m_nPort, "ok") \in Handle
      BY <1>2, NewFacts DEF Outcome
    <3>2. handles' = Append(Close(handles, H(c)),
                            New(con[c].m_szDatabaseName, con[c].m_nPort, "ok"))
      BY <2>2 DEF ReconnectOk, H
    <3>3. Len(handles') = Len(handles) + 1 /\ ClosedIn(handles, H(c), handles')
      BY <1>2, <3>1, <3>2, ReplaceFacts
    <3> QED BY <1>2, <3>3 DEF ClosedIn
  <2>3. ASSUME NEW d \in Database, SelectDB(c, d)
        PROVE  /\ Len(handles) <= Len(handles')
               /\ \A k \in 1..Len(handles) : k # H(c) => handles'[k].closes = handles[k].closes
    <3>1. PICK e : handles' = [handles EXCEPT ![H(c)] = e]
      BY <2>3 DEF SelectDB, H
    <3> QED BY <1>2, <1>4, <3>1
  <2> QED BY <2>1, <2>2, <2>3
<1>6. \A h \in Referenced' : h \in Referenced \cup {NULL, Len(handles) + 1}
  <2>1. \A b \in Con : con'[b] = con[b] \/ con'[b].m_pMySql = Len(handles) + 1
    BY <1>2 DEF ReconnectFails, ReconnectOk, SelectDB, ConType
  <2>2. m_VectorCon \subseteq Con
    BY DEF IInv, TypeOK
  <2> QED BY <1>1, <1>3, <2>1, <2>2 DEF Referenced
<1> QED BY <1>3, <1>4, <1>5, <1>6, LeakedStays

LEMMA AllLeakedStay == ASSUME IInv, [Next]_vars PROVE Leaked \subseteq Leaked'
<1>1. CASE UNCHANGED vars
  BY <1>1 DEF vars, Leaked, Referenced, Initializing
<1>2. CASE Destroy
  <2>1. UNCHANGED handles /\ Referenced' = {}
    BY <1>2 DEF Destroy, Referenced, Initializing
  <2> QED BY <2>1 DEF Leaked
<1> QED
  BY <1>1, <1>2, FirstStays, TestStays, CreateStays, AgainStays, InitializeStays, UseStays
     DEF Next

\* What a failing Initialize abandons is open and nobody's ...
LEMMA FailureAbandons ==
  ASSUME IInv, IInv', Initializing, at' = "failed", i' = i,
         con'[i].m_pMySql # NULL => handles'[con'[i].m_pMySql].closes = 0
  PROVE  Abandoned \ {NULL} \subseteq Leaked'
<1>1. PICK j \in Con : j = i
  BY DEF IInv, TypeOK
<1>2. Abandoned = {H(j)'}
  BY <1>1 DEF Abandoned, H
<1> SUFFICES ASSUME H(j)' # NULL PROVE H(j)' \in Leaked'
  BY <1>2
<1>3. H(j)' \in DOMAIN handles' /\ handles'[H(j)'].closes = 0
  <2>1. H(j)' \in 0..Len(handles') /\ handles' \in Seq(Handle)
    BY DEF IInv, TypeOK, H
  <2>2. H(j)' \in 1..Len(handles') /\ DOMAIN handles' = 1..Len(handles')
    BY <2>1 DEF NULL
  <2> QED BY <1>1, <2>2 DEF H
<1>4. H(j)' \notin Referenced'
  <2>1. \A h \in Referenced' : \E c \in m_VectorCon' : h = H(c)'
    BY DEF Referenced, Initializing, H
  <2>2. \A c \in m_VectorCon' : c \in Con /\ c < j
    BY <1>1 DEF IInv, TypeOK, Place
  <2>3. \A c \in m_VectorCon' : H(c)' # H(j)'
    BY <2>2 DEF IInv, Distinct, Con
  <2> QED BY <2>1, <2>3
<1> QED BY <1>3, <1>4 DEF Leaked

\* ... and so is what the destructor does not delete.
LEMMA DestroyAbandons == ASSUME IInv, Destroy PROVE Abandoned \ {NULL} \subseteq Leaked'
<1>1. /\ at \in {"ready", "failed"} /\ at' = "destroyed"
      /\ UNCHANGED handles /\ Referenced' = {}
  BY DEF Destroy, Referenced, Initializing
<1>2. Abandoned = {H(c) : c \in m_VectorCon}
  BY <1>1 DEF Abandoned, H
<1>3. ASSUME NEW c \in m_VectorCon PROVE H(c) \in DOMAIN handles /\ handles[H(c)].closes = 0
  <2>1. Live(c) /\ H(c) \in 0..Len(handles) /\ handles \in Seq(Handle)
    BY DEF IInv, PoolLive, TypeOK, H
  <2>2. H(c) \in 1..Len(handles)
    BY <2>1 DEF Live, NULL
  <2> QED BY <2>1, <2>2 DEF Live
<1> QED BY <1>1, <1>2, <1>3 DEF Leaked

LEMMA AbandonedLeak ==
  ASSUME IInv, Next PROVE Abandoned \ {NULL} \subseteq Leaked'
<1>1. IInv'
  BY NextIInv
<1>2. CASE ConnectTest
  <2>1. PICK out \in Outcome :
          /\ Connect(i, Test, DefaultPort, out)
          /\ \/ out = "ok" /\ at' = "create" /\ UNCHANGED <<i, failures>>
             \/ out # "ok" /\ ReturnFalse
    BY <1>2 DEF ConnectTest
  <2>2. CASE at' = "create"
    BY <2>2 DEF Abandoned
  <2>3. CASE ReturnFalse
    <3>1. Initializing /\ Test \in Database /\ DefaultPort \in Port /\ i \in Con
      BY <1>2, MySqlConAssumption DEF ConnectTest, Initializing, IInv, TypeOK
    <3>2. con'[i].m_pMySql # NULL => handles'[con'[i].m_pMySql].closes = 0
      <4>1. CASE out = "noInit"
        BY <2>1, <3>1, <4>1, ConnectFacts
      <4>2. CASE out # "noInit"
        <5>1. handles'[con'[i].m_pMySql] = New(Test, DefaultPort, out)
          BY <2>1, <3>1, <4>2, ConnectFacts
        <5> QED BY <3>1, <5>1, NewFacts
      <4> QED BY <4>1, <4>2
    <3> QED BY <1>1, <2>3, <3>1, <3>2, FailureAbandons DEF ReturnFalse
  <2> QED BY <2>1, <2>2, <2>3
<1>3. CASE CreateDatabase
  <2>1. /\ Initializing /\ at = "create" /\ con' = con /\ H(i) # NULL
        /\ handles[H(i)].closes = 0
    BY <1>3 DEF CreateDatabase, Initializing, IInv, Working
  <2>2. CASE at' = "again"
    BY <2>2 DEF Abandoned
  <2>3. CASE ReturnFalse /\ UNCHANGED handles
    BY <1>1, <2>1, <2>3, FailureAbandons DEF ReturnFalse, H
  <2> QED BY <1>3, <2>2, <2>3 DEF CreateDatabase
<1>4. CASE Destroy
  BY <1>4, DestroyAbandons
<1>5. CASE ConnectFirst \/ ConnectAgain \/ Initialize
  BY <1>5 DEF ConnectFirst, ConnectAgain, Initialize, NextCon, Abandoned
<1>6. CASE \E c \in Con : ReconnectFails(c) \/ ReconnectOk(c)
             \/ \E d \in Database : SelectDB(c, d)
  <2>1. ~Initializing /\ at' # "destroyed"
    BY <1>6 DEF ReconnectFails, ReconnectOk, SelectDB, Usable, Initializing
  <2> QED BY <2>1 DEF Abandoned
<1> QED BY <1>2, <1>3, <1>4, <1>5, <1>6 DEF Next

\* LeaksAccounted: what mysql_init returned is closed or belongs to the pool,
\* but for what Initialize gave up on and what ~CXEMySql does not delete.
THEOREM LeaksOnlyThere == Spec => LeaksAccounted
<1>1. IInv /\ Next => Leaked' = Leaked \cup (Abandoned \ {NULL})
  BY OnlyAbandonedLeaks, AllLeakedStay, AbandonedLeak
<1>2. IInv /\ [Next]_vars => [Leaked' = Leaked \cup (Abandoned \ {NULL})]_vars
  BY <1>1
<1> QED BY <1>2, Inductive, PTL DEF Spec, LeaksAccounted

=============================================================================
