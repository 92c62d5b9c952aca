------------------------- MODULE ConnectionPoolProofs -------------------------
(***************************************************************************)
(* Proofs about ConnectionPool for any number of users, connections, lost  *)
(* links and calls, and any width of GetFreeCon's index.                   *)
(***************************************************************************)
EXTENDS ConnectionPool, TLAPS

\* With no connection every operation returns before it scans: GetFreeCon
\* never takes a remainder by zero.
ScanHasCon == \A u \in User : at[u] # "idle" => NumCon # 0

ConWhileUsing == \A u \in User : at[u] \in Using => con[u] \in Con

Ownership == TypeOK /\ ScanHasCon /\ ConWhileUsing /\ OwnedWhileUsed

\* A result set is pending, or a statement open, only while its own operation
\* is about to store or to close it.
Storing == {"store", "reset"}
Stating == {"execute", "reset"}
PendingAtStore ==
  \A c \in Con : pending[c] => \E u \in User : at[u] \in Storing /\ con[u] = c
StmtAtReset ==
  \A c \in Con : stmt[c] => \E u \in User : at[u] \in Stating /\ con[u] = c

\* A statement is not executed, nor an error or a result noted, before its
\* command.  What waits to be stored was executed without an error; what
\* reaches HandleError has one.  Only a Query with a DB_BLOB prepares a
\* statement.  What an operation returns is then right.
EffectOK(u) ==
  /\ at[u] \in {"prepare", "execute", "reset"} => kind[u] = "blob"
  /\ at[u] \in {"store", "error"} => kind[u] \in {"query", "result"}
  /\ at[u] = "command" => kind[u] # "blob"
  /\ at[u] \in {"idle", "scan", "command", "prepare", "execute"} =>
       executed[u] = 0 /\ error[u] = "none" /\ ~bRet[u]
  /\ at[u] = "store" => executed[u] = 1 /\ error[u] = "none"
  /\ at[u] = "error" => error[u] # "none"
  /\ at[u] = "reset" => (bRet[u] => executed[u] = 1)
  /\ ReturnTells(u)

IInv == Ownership /\ PendingAtStore /\ StmtAtReset /\ \A u \in User : EffectOK(u)

\* GetFreeCon's remainder is an index of the vector.
LEMMA Remainder ==
  ASSUME NEW i \in Nat, NumCon # 0 PROVE i % NumCon \in Con
BY ConnectionPoolAssumption DEF Con

\* Assigning a Boolean to one element of a table of Booleans keeps its type.
LEMMA Update ==
  ASSUME NEW D, NEW f \in [D -> BOOLEAN], NEW g, NEW d, NEW b \in BOOLEAN,
         g = f \/ g = [f EXCEPT ![d] = b]
  PROVE  g \in [D -> BOOLEAN]
OBVIOUS

\* Two users between GetFreeCon and UnLock use different connections.
LEMMA ExclusiveUse ==
  ASSUME Ownership, NEW u \in User, NEW v \in User, u # v,
         at[u] \in Using, at[v] \in Using
  PROVE  con[u] # con[v]
BY DEF Ownership, OwnedWhileUsed, ConWhileUsing

LEMMA InitIInv == Init => IInv
<1> SUFFICES ASSUME Init PROVE IInv
  OBVIOUS
<1> USE ConnectionPoolAssumption DEF Init
<1>1. TypeOK
  <2>1. NoCon \in Con \cup {NoCon} /\ 0 \in 0..(IndexLimit - 1) /\ 0 \in 0..MaxCalls
    BY DEF Con
  <2> QED
    BY <2>1 DEF TypeOK, Kind, Error
<1>2. ScanHasCon /\ ConWhileUsing /\ OwnedWhileUsed
  BY DEF ScanHasCon, ConWhileUsing, OwnedWhileUsed, Using
<1>3. PendingAtStore /\ StmtAtReset /\ \A u \in User : EffectOK(u)
  BY DEF PendingAtStore, StmtAtReset, EffectOK, ReturnTells
<1> QED
  BY <1>1, <1>2, <1>3 DEF IInv, Ownership

-----------------------------------------------------------------------------
(* Types and ownership *)

LEMMA CommandOkOwnership ==
  ASSUME Ownership, NEW u \in User, CommandOk(u) PROVE Ownership'
<1> USE DEF Ownership, TypeOK, ScanHasCon, ConWhileUsing, OwnedWhileUsed, Using
<1>1. con[u] \in Con /\ at[u] = "command"
  BY DEF CommandOk
<1>2. /\ UNCHANGED <<owner, resend, stmt, kind, index, con, error, calls, drops>>
      /\ link' = [link EXCEPT ![con[u]] = TRUE]
      /\ executed' = [executed EXCEPT ![u] = @ + 1]
  BY DEF CommandOk
<1>3. \E place \in {"store", "unlock"} : at' = [at EXCEPT ![u] = place]
  BY DEF CommandOk
<1>4. link' \in [Con -> BOOLEAN]
  BY <1>2, Update
<1>5. pending' \in [Con -> BOOLEAN]
  <2>1. CASE pending' = pending
    BY <2>1
  <2>2. ASSUME NEW rows \in BOOLEAN, pending' = [pending EXCEPT ![con[u]] = rows]
        PROVE  pending' \in [Con -> BOOLEAN]
    BY <2>2, Update
  <2> QED
    BY <2>1, <2>2 DEF CommandOk
<1>6. bRet' \in [User -> BOOLEAN]
  <2>1. bRet' = bRet \/ bRet' = [bRet EXCEPT ![u] = TRUE]
    BY DEF CommandOk
  <2> QED
    BY <2>1, Update
<1>7. executed' \in [User -> Nat]
  BY <1>2
<1> QED
  BY <1>1, <1>2, <1>3, <1>4, <1>5, <1>6, <1>7

LEMMA HandleErrorOwnership ==
  ASSUME Ownership, NEW u \in User, HandleError(u) PROVE Ownership'
<1>1. /\ link \in [Con -> BOOLEAN] /\ resend \in [Con -> BOOLEAN]
      /\ pending \in [Con -> BOOLEAN] /\ bRet \in [User -> BOOLEAN]
  BY DEF Ownership, TypeOK
<1>2. /\ UNCHANGED <<owner, stmt, kind, index, con, error, executed, calls, drops>>
      /\ at[u] = "error" /\ at' = [at EXCEPT ![u] = "unlock"]
  BY DEF HandleError
<1>3. /\ link' = link \/ link' = [link EXCEPT ![con[u]] = TRUE]
      /\ resend' = resend \/ resend' = [resend EXCEPT ![con[u]] = FALSE]
      /\ pending' = pending \/ pending' = [pending EXCEPT ![con[u]] = FALSE]
      /\ bRet' = [bRet EXCEPT ![u] = TRUE] \/ bRet' = [bRet EXCEPT ![u] = FALSE]
  BY DEF HandleError
<1>4. /\ link' \in [Con -> BOOLEAN] /\ resend' \in [Con -> BOOLEAN]
      /\ pending' \in [Con -> BOOLEAN] /\ bRet' \in [User -> BOOLEAN]
  <2>1. link' \in [Con -> BOOLEAN]
    BY <1>1, <1>3, Update
  <2>2. resend' \in [Con -> BOOLEAN]
    BY <1>1, <1>3, Update
  <2>3. pending' \in [Con -> BOOLEAN]
    BY <1>1, <1>3, Update
  <2>4. bRet' \in [User -> BOOLEAN]
    BY <1>1, <1>3, Update
  <2> QED
    BY <2>1, <2>2, <2>3, <2>4
<1>5. TypeOK'
  BY <1>2, <1>4 DEF Ownership, TypeOK, Using
<1>6. ScanHasCon' /\ ConWhileUsing' /\ OwnedWhileUsed'
  BY <1>2 DEF Ownership, TypeOK, ScanHasCon, ConWhileUsing, OwnedWhileUsed, Using
<1> QED
  BY <1>5, <1>6 DEF Ownership

\* What the three steps of a prepared statement have in common.
LEMMA StatementFrame ==
  ASSUME Ownership, NEW u \in User, Statement(u)
  PROVE  /\ UNCHANGED <<owner, resend, kind, index, con, error, calls>>
         /\ at[u] \in {"prepare", "execute", "reset"} /\ con[u] \in Con
         /\ \E place \in {"execute", "reset", "unlock"} : at' = [at EXCEPT ![u] = place]
         /\ \E b \in BOOLEAN : link' = link \/ link' = [link EXCEPT ![con[u]] = b]
         /\ \E b \in BOOLEAN : pending' = pending \/ pending' = [pending EXCEPT ![con[u]] = b]
         /\ \E b \in BOOLEAN : stmt' = stmt \/ stmt' = [stmt EXCEPT ![con[u]] = b]
         /\ bRet' = bRet \/ bRet' = [bRet EXCEPT ![u] = TRUE]
         /\ drops' = drops \/ (drops < MaxDrops /\ drops' = drops + 1)
         /\ \E n \in {0, 1} : executed' = executed \/ executed' = [executed EXCEPT ![u] = @ + n]
<1> USE DEF Ownership, TypeOK, ConWhileUsing, Using
<1>1. CASE PrepareStmt(u)
  BY <1>1 DEF PrepareStmt, Failing
<1>2. CASE ExecuteStmt(u)
  BY <1>2 DEF ExecuteStmt, Failing
<1>3. CASE CloseStmt(u)
  BY <1>3 DEF CloseStmt, Failing
<1> QED
  BY <1>1, <1>2, <1>3 DEF Statement

LEMMA StatementOwnership ==
  ASSUME Ownership, NEW u \in User, Statement(u) PROVE Ownership'
<1>1. /\ link \in [Con -> BOOLEAN] /\ pending \in [Con -> BOOLEAN]
      /\ stmt \in [Con -> BOOLEAN] /\ bRet \in [User -> BOOLEAN]
  BY DEF Ownership, TypeOK
<1>2. link' \in [Con -> BOOLEAN]
  <2>1. PICK b \in BOOLEAN : link' = link \/ link' = [link EXCEPT ![con[u]] = b]
    BY StatementFrame
  <2> QED
    BY <1>1, <2>1, Update
<1>3. pending' \in [Con -> BOOLEAN]
  <2>1. PICK b \in BOOLEAN : pending' = pending \/ pending' = [pending EXCEPT ![con[u]] = b]
    BY StatementFrame
  <2> QED
    BY <1>1, <2>1, Update
<1>4. stmt' \in [Con -> BOOLEAN]
  <2>1. PICK b \in BOOLEAN : stmt' = stmt \/ stmt' = [stmt EXCEPT ![con[u]] = b]
    BY StatementFrame
  <2> QED
    BY <1>1, <2>1, Update
<1>5. bRet' \in [User -> BOOLEAN]
  <2>1. bRet' = bRet \/ bRet' = [bRet EXCEPT ![u] = TRUE]
    BY StatementFrame
  <2> QED
    BY <1>1, <2>1, Update
<1>6. executed' \in [User -> Nat] /\ drops' \in 0..MaxDrops
  <2>1. executed' \in [User -> Nat]
    BY StatementFrame DEF Ownership, TypeOK
  <2>2. drops' \in 0..MaxDrops
    BY StatementFrame, ConnectionPoolAssumption DEF Ownership, TypeOK
  <2> QED
    BY <2>1, <2>2
<1>7. /\ UNCHANGED <<owner, resend, kind, index, con, error, calls>>
      /\ at[u] \in {"prepare", "execute", "reset"} /\ con[u] \in Con
      /\ \E place \in {"execute", "reset", "unlock"} : at' = [at EXCEPT ![u] = place]
  BY StatementFrame
<1>8. TypeOK'
  BY <1>2, <1>3, <1>4, <1>5, <1>6, <1>7 DEF Ownership, TypeOK, Using
<1>9. ScanHasCon' /\ ConWhileUsing' /\ OwnedWhileUsed'
  BY <1>7 DEF Ownership, TypeOK, ScanHasCon, ConWhileUsing, OwnedWhileUsed, Using
<1> QED
  BY <1>8, <1>9 DEF Ownership

LEMMA StepOwnership ==
  ASSUME Ownership, NEW u \in User, Step(u) PROVE Ownership'
<1> USE ConnectionPoolAssumption
    DEF Ownership, TypeOK, ScanHasCon, ConWhileUsing, OwnedWhileUsed, Using, Fails, Error
<1>1. CASE SkipCon(u)
  <2>1. (index[u] + 1) % IndexLimit \in 0..(IndexLimit - 1)
    OBVIOUS
  <2> QED
    BY <1>1, <2>1 DEF SkipCon, conVars
<1>2. CASE LockCon(u)
  <2>1. index[u] % NumCon \in Con
    BY <1>2, Remainder DEF LockCon
  <2>2. owner[index[u] % NumCon] = NoUser
    BY <1>2, <2>1 DEF LockCon
  <2> QED
    BY <1>2, <2>1, <2>2 DEF LockCon
<1>3. CASE CommandRejected(u)
  BY <1>3 DEF CommandRejected
<1>4. CASE CommandLost(u)
  BY <1>4 DEF CommandLost
<1>5. CASE CommandNoLink(u)
  BY <1>5 DEF CommandNoLink
<1>6. CASE StoreResult(u)
  BY <1>6 DEF StoreResult
<1>7. CASE UnLock(u)
  BY <1>7 DEF UnLock, Kind
<1> QED
  BY <1>1, <1>2, <1>3, <1>4, <1>5, <1>6, <1>7, CommandOkOwnership, HandleErrorOwnership,
     StatementOwnership
     DEF Step, Command

LEMMA CallOwnership ==
  ASSUME Ownership, NEW u \in User, NEW k \in Kind, Call(u, k) PROVE Ownership'
BY ConnectionPoolAssumption
   DEF Call, conVars, Ownership, TypeOK, ScanHasCon, ConWhileUsing, OwnedWhileUsed, Using

LEMMA DropOwnership ==
  ASSUME Ownership, NEW c \in Con, Drop(c) PROVE Ownership'
BY ConnectionPoolAssumption
   DEF Drop, userVars, Ownership, TypeOK, ScanHasCon, ConWhileUsing, OwnedWhileUsed

-----------------------------------------------------------------------------
(* Pending results *)

\* A step of u touches no other user, and no connection but the one u holds.
LEMMA Frame ==
  ASSUME Ownership, NEW u \in User, Step(u)
  PROVE  /\ \A v \in User \ {u} :
              /\ at'[v] = at[v] /\ kind'[v] = kind[v] /\ con'[v] = con[v]
              /\ bRet'[v] = bRet[v] /\ executed'[v] = executed[v] /\ error'[v] = error[v]
         /\ \A c \in Con : at[u] \notin Using \/ c # con[u] =>
              /\ pending'[c] = pending[c] /\ stmt'[c] = stmt[c]
              /\ resend'[c] = resend[c]
<1> USE DEF Ownership, TypeOK, Using, Fails
<1>1. CASE SkipCon(u) \/ LockCon(u)
  BY <1>1 DEF SkipCon, LockCon, conVars
<1>2. CASE CommandOk(u)
  BY <1>2 DEF CommandOk
<1>3. CASE CommandRejected(u) \/ CommandLost(u) \/ CommandNoLink(u)
  BY <1>3 DEF CommandRejected, CommandLost, CommandNoLink
<1>4. CASE StoreResult(u) \/ UnLock(u)
  BY <1>4 DEF StoreResult, UnLock
<1>5. CASE HandleError(u)
  BY <1>5 DEF HandleError
<1>6. CASE Statement(u)
  <2>1. CASE PrepareStmt(u)
    BY <2>1 DEF PrepareStmt, Failing
  <2>2. CASE ExecuteStmt(u)
    BY <2>2 DEF ExecuteStmt, Failing
  <2>3. CASE CloseStmt(u)
    BY <2>3 DEF CloseStmt, Failing
  <2> QED
    BY <1>6, <2>1, <2>2, <2>3 DEF Statement
<1> QED
  BY <1>1, <1>2, <1>3, <1>4, <1>5, <1>6 DEF Step, Command

\* A step leaves a result on its own connection only if it is about to take
\* it away, or one was there before ...
LEMMA OwnPending ==
  ASSUME Ownership, NEW u \in User, Step(u), at[u] \in Using, pending'[con[u]]
  PROVE  \/ at'[u] \in Storing /\ con'[u] = con[u]
         \/ pending[con[u]] /\ at[u] \notin Storing
<1> USE DEF Ownership, TypeOK, ConWhileUsing, Using, Fails, Storing
<1>1. CASE SkipCon(u) \/ LockCon(u)
  BY <1>1 DEF SkipCon, LockCon
<1>2. CASE CommandOk(u)
  BY <1>2 DEF CommandOk
<1>3. CASE CommandRejected(u) \/ CommandLost(u) \/ CommandNoLink(u)
  BY <1>3 DEF CommandRejected, CommandLost, CommandNoLink
<1>4. CASE StoreResult(u) \/ UnLock(u)
  BY <1>4 DEF StoreResult, UnLock
<1>5. CASE HandleError(u)
  BY <1>5 DEF HandleError
<1>6. CASE Statement(u)
  BY <1>6 DEF Statement, PrepareStmt, ExecuteStmt, CloseStmt
<1> QED
  BY <1>1, <1>2, <1>3, <1>4, <1>5, <1>6 DEF Step, Command

\* ... and likewise for a statement.
LEMMA OwnStmt ==
  ASSUME Ownership, NEW u \in User, Step(u), at[u] \in Using, stmt'[con[u]]
  PROVE  \/ at'[u] \in Stating /\ con'[u] = con[u]
         \/ stmt[con[u]] /\ at[u] \notin Stating
<1> USE DEF Ownership, TypeOK, ConWhileUsing, Using, Fails, Stating
<1>1. CASE SkipCon(u) \/ LockCon(u)
  BY <1>1 DEF SkipCon, LockCon
<1>2. CASE Command(u)
  BY <1>2 DEF Command, CommandOk, CommandRejected, CommandLost, CommandNoLink
<1>3. CASE StoreResult(u) \/ UnLock(u) \/ HandleError(u)
  BY <1>3 DEF StoreResult, UnLock, HandleError
<1>4. CASE Statement(u)
  BY <1>4 DEF Statement, PrepareStmt, ExecuteStmt, CloseStmt
<1> QED
  BY <1>1, <1>2, <1>3, <1>4 DEF Step

\* What a step of u leaves on a connection still has its operation, if that
\* is so of the step's own connection.
LEMMA StepLeaves ==
  ASSUME Ownership, NEW u \in User, Step(u), NEW old, NEW new, NEW Places \in SUBSET Using,
         \A c \in Con : at[u] \notin Using \/ c # con[u] => new[c] = old[c],
         at[u] \in Using /\ new[con[u]] =>
           \/ at'[u] \in Places /\ con'[u] = con[u]
           \/ old[con[u]] /\ at[u] \notin Places,
         \A c \in Con : old[c] => \E v \in User : at[v] \in Places /\ con[v] = c
  PROVE  \A c \in Con : new[c] => \E v \in User : at'[v] \in Places /\ con'[v] = c
<1> SUFFICES ASSUME NEW c \in Con, new[c]
             PROVE  \E v \in User : at'[v] \in Places /\ con'[v] = c
  OBVIOUS
<1>1. CASE at[u] \notin Using \/ c # con[u]
  <2>1. PICK v \in User : at[v] \in Places /\ con[v] = c
    BY <1>1
  <2>2. v # u
    BY <1>1, <2>1
  <2> QED
    BY <2>1, <2>2, Frame
<1>2. CASE at[u] \in Using /\ c = con[u]
  <2>1. CASE at'[u] \in Places /\ con'[u] = con[u]
    BY <1>2, <2>1
  <2>2. CASE old[c] /\ at[u] \notin Places
    <3>1. PICK v \in User : at[v] \in Places /\ con[v] = c
      BY <2>2
    <3> QED
      BY <1>2, <2>2, <3>1, ExclusiveUse
  <2> QED
    BY <1>2, <2>1, <2>2
<1> QED
  BY <1>1, <1>2

LEMMA StepPending ==
  ASSUME Ownership, PendingAtStore, NEW u \in User, Step(u) PROVE PendingAtStore'
<1>1. Storing \in SUBSET Using
  BY DEF Storing, Using
<1>2. \A c \in Con : at[u] \notin Using \/ c # con[u] => pending'[c] = pending[c]
  BY Frame
<1>3. at[u] \in Using /\ pending'[con[u]] =>
        \/ at'[u] \in Storing /\ con'[u] = con[u]
        \/ pending[con[u]] /\ at[u] \notin Storing
  BY OwnPending
<1>4. \A c \in Con : pending[c] => \E v \in User : at[v] \in Storing /\ con[v] = c
  BY DEF PendingAtStore
<1>5. \A c \in Con : pending'[c] => \E v \in User : at'[v] \in Storing /\ con'[v] = c
  <2> DEFINE old == pending  new == pending'
  <2> HIDE DEF old, new
  <2>1. \A c \in Con : new[c] => \E v \in User : at'[v] \in Storing /\ con'[v] = c
    <3>1. \A c \in Con : at[u] \notin Using \/ c # con[u] => new[c] = old[c]
      BY <1>2 DEF old, new
    <3>2. at[u] \in Using /\ new[con[u]] =>
            \/ at'[u] \in Storing /\ con'[u] = con[u]
            \/ old[con[u]] /\ at[u] \notin Storing
      BY <1>3 DEF old, new
    <3>3. \A c \in Con : old[c] => \E v \in User : at[v] \in Storing /\ con[v] = c
      BY <1>4 DEF old
    <3> QED
      BY <1>1, <3>1, <3>2, <3>3, StepLeaves
  <2> QED
    BY <2>1 DEF new
<1> QED
  BY <1>5 DEF PendingAtStore, Storing

LEMMA StepStmt ==
  ASSUME Ownership, StmtAtReset, NEW u \in User, Step(u) PROVE StmtAtReset'
<1>1. Stating \in SUBSET Using
  BY DEF Stating, Using
<1>2. \A c \in Con : at[u] \notin Using \/ c # con[u] => stmt'[c] = stmt[c]
  BY Frame
<1>3. at[u] \in Using /\ stmt'[con[u]] =>
        \/ at'[u] \in Stating /\ con'[u] = con[u]
        \/ stmt[con[u]] /\ at[u] \notin Stating
  BY OwnStmt
<1>4. \A c \in Con : stmt[c] => \E v \in User : at[v] \in Stating /\ con[v] = c
  BY DEF StmtAtReset
<1>5. \A c \in Con : stmt'[c] => \E v \in User : at'[v] \in Stating /\ con'[v] = c
  <2> DEFINE old == stmt  new == stmt'
  <2> HIDE DEF old, new
  <2>1. \A c \in Con : new[c] => \E v \in User : at'[v] \in Stating /\ con'[v] = c
    <3>1. \A c \in Con : at[u] \notin Using \/ c # con[u] => new[c] = old[c]
      BY <1>2 DEF old, new
    <3>2. at[u] \in Using /\ new[con[u]] =>
            \/ at'[u] \in Stating /\ con'[u] = con[u]
            \/ old[con[u]] /\ at[u] \notin Stating
      BY <1>3 DEF old, new
    <3>3. \A c \in Con : old[c] => \E v \in User : at[v] \in Stating /\ con[v] = c
      BY <1>4 DEF old
    <3> QED
      BY <1>1, <3>1, <3>2, <3>3, StepLeaves
  <2> QED
    BY <2>1 DEF new
<1> QED
  BY <1>5 DEF StmtAtReset, Stating

-----------------------------------------------------------------------------
(* Executions *)

\* For the user that takes the step ...
LEMMA OwnEffect ==
  ASSUME Ownership, NEW u \in User, EffectOK(u), Step(u)
  PROVE  EffectOK(u)'
<1> USE DEF Ownership, TypeOK, ConWhileUsing, Using, Kind, Error, EffectOK, ReturnTells
<1>1. CASE SkipCon(u)
  BY <1>1 DEF SkipCon, conVars
<1>2. CASE LockCon(u)
  BY <1>2 DEF LockCon
<1>3. CASE CommandOk(u)
  <2>1. /\ executed'[u] = 1 /\ error'[u] = "none" /\ kind'[u] = kind[u]
        /\ at[u] = "command"
    BY <1>3 DEF CommandOk
  <2>2. \/ kind[u] = "select" /\ at'[u] = "unlock" /\ bRet'[u]
        \/ kind[u] # "select" /\ bRet'[u] = bRet[u] /\ at'[u] \in {"store", "unlock"}
             /\ (at'[u] = "unlock" => kind[u] = "result")
    BY <1>3 DEF CommandOk
  <2> QED
    BY <2>1, <2>2
<1>4. CASE CommandRejected(u) \/ CommandLost(u) \/ CommandNoLink(u)
  <2>1. /\ at[u] = "command" /\ kind'[u] = kind[u] /\ bRet'[u] = bRet[u]
        /\ error'[u] \in {"listed", "other"}
        /\ at'[u] = (IF kind[u] = "select" THEN "unlock" ELSE "error")
    BY <1>4 DEF CommandRejected, CommandLost, CommandNoLink, Fails
  <2> QED
    BY <2>1
<1>5. CASE StoreResult(u)
  <2>1. /\ at[u] = "store" /\ at'[u] = "unlock" /\ (bRet'[u] <=> kind[u] = "query")
        /\ UNCHANGED <<kind, error, executed>>
    BY <1>5 DEF StoreResult
  <2> QED
    BY <2>1
<1>6. CASE HandleError(u)
  <2>1. /\ at[u] = "error" /\ at'[u] = "unlock" /\ UNCHANGED <<kind, error, con>>
        /\ bRet'[u] => error[u] = "listed" /\ ~resend'[con[u]]
    BY <1>6 DEF HandleError
  <2> QED
    BY <2>1
<1>7. CASE UnLock(u)
  BY <1>7 DEF UnLock
<1>8. CASE Statement(u)
  <2>1. CASE PrepareStmt(u)
    BY <2>1 DEF PrepareStmt
  <2>2. CASE ExecuteStmt(u)
    <3>1. /\ at[u] = "execute" /\ at'[u] = "reset" /\ kind' = kind
          /\ bRet'[u] => executed'[u] = 1
      BY <2>2 DEF ExecuteStmt
    <3> QED
      BY <3>1
  <2>3. CASE CloseStmt(u)
    <3>1. at[u] = "reset" /\ at'[u] = "unlock" /\ UNCHANGED <<kind, bRet, executed>>
      BY <2>3 DEF CloseStmt
    <3> QED
      BY <3>1
  <2> QED
    BY <1>8, <2>1, <2>2, <2>3 DEF Statement
<1> QED
  BY <1>1, <1>2, <1>3, <1>4, <1>5, <1>6, <1>7, <1>8 DEF Step, Command

\* ... and for the others, whose connections are not the one it uses.
LEMMA OtherEffect ==
  ASSUME Ownership, NEW u \in User, NEW v \in User \ {u}, EffectOK(v), Step(u)
  PROVE  EffectOK(v)'
<1>1. /\ at'[v] = at[v] /\ kind'[v] = kind[v] /\ con'[v] = con[v]
      /\ bRet'[v] = bRet[v] /\ executed'[v] = executed[v] /\ error'[v] = error[v]
  BY Frame
<1>2. at[v] \in Using => resend'[con[v]] = resend[con[v]]
  BY Frame, ExclusiveUse DEF Ownership, ConWhileUsing
<1> QED
  BY <1>1, <1>2 DEF EffectOK, ReturnTells, Using

-----------------------------------------------------------------------------
(* The inductive invariant *)

LEMMA NextIInv == IInv /\ [Next]_vars => IInv'
<1> SUFFICES ASSUME IInv, [Next]_vars PROVE IInv'
  OBVIOUS
<1> USE DEF IInv
<1>1. ASSUME NEW u \in User, Step(u) PROVE IInv'
  BY <1>1, StepOwnership, StepPending, StepStmt, OwnEffect, OtherEffect
<1>2. ASSUME NEW u \in User, NEW k \in Kind, Call(u, k) PROVE IInv'
  <2>1. Ownership'
    BY <1>2, CallOwnership
  <2>2. PendingAtStore' /\ StmtAtReset'
    BY <1>2 DEF Call, conVars, PendingAtStore, StmtAtReset, Storing, Stating, Ownership, TypeOK
  <2>3. \A v \in User : EffectOK(v)'
    BY <1>2 DEF Call, conVars, EffectOK, ReturnTells, Ownership, TypeOK
  <2> QED
    BY <2>1, <2>2, <2>3
<1>3. ASSUME NEW c \in Con, Drop(c) PROVE IInv'
  <2>1. Ownership'
    BY <1>3, DropOwnership
  <2>2. PendingAtStore' /\ StmtAtReset'
    BY <1>3 DEF Drop, userVars, PendingAtStore, StmtAtReset
  <2>3. \A v \in User : EffectOK(v)'
    BY <1>3 DEF Drop, userVars, EffectOK, ReturnTells
  <2> QED
    BY <2>1, <2>2, <2>3
<1>4. CASE UNCHANGED vars
  BY <1>4 DEF vars, conVars, userVars, Ownership, TypeOK, ScanHasCon, ConWhileUsing,
              OwnedWhileUsed, PendingAtStore, StmtAtReset, EffectOK, ReturnTells
<1> QED
  BY <1>1, <1>2, <1>3, <1>4 DEF Next

\* The inductive invariant holds in every reachable state.
THEOREM Inductive == Spec => []IInv
BY InitIInv, NextIInv, PTL DEF Spec

\* Every variable keeps its type; GetFreeCon's index stays within its width.
THEOREM TypeCorrect == Spec => []TypeOK
BY Inductive, PTL DEF IInv, Ownership

\* A connection is locked exactly while one operation uses it, through every
\* path of Query and SelectDB.
THEOREM Exclusive == Spec => []OwnedWhileUsed
BY Inductive, PTL DEF IInv, Ownership

\* A connection that can be handed out carries no pending result set and no
\* open statement.
THEOREM Clean == Spec => []CleanAtHandout
<1>1. IInv => CleanAtHandout
  BY ConnectionPoolAssumption
     DEF IInv, Ownership, OwnedWhileUsed, PendingAtStore, StmtAtReset, Storing, Stating,
         CleanAtHandout, Using
<1> QED
  BY <1>1, Inductive, PTL

\* What an operation returns: without an error its command was executed once
\* and the result is that of its kind; with one, true is that of a reconnect.
THEOREM ReturnsRight == Spec => []ReturnsTell
<1>1. IInv => ReturnsTell
  BY DEF IInv, EffectOK, ReturnsTell
<1> QED
  BY <1>1, Inductive, PTL

-----------------------------------------------------------------------------
(* ConnectionPool implements Connections *)

LEMMA InitAbstract == Init => Abstract!Init
BY DEF Init, Abstract!Init, PhaseOf, Using

\* The steps before AttemptLock succeeds.
LEMMA ScanAbstract ==
  ASSUME IInv, NEW u \in User, SkipCon(u) \/ LockCon(u)
  PROVE  [Abstract!Next]_Abstract!vars
<1> USE DEF IInv, Ownership, TypeOK, Using, PhaseOf
<1>1. CASE SkipCon(u)
  BY <1>1 DEF SkipCon, conVars, Abstract!vars
<1>2. CASE LockCon(u)
  <2>1. PICK c \in Con : owner' = [owner EXCEPT ![c] = u] /\ owner[c] = NoUser
    <3>1. index[u] % NumCon \in Con
      BY <1>2, Remainder DEF LockCon, ScanHasCon
    <3>2. owner[index[u] % NumCon] = NoUser
      BY <1>2, <3>1 DEF LockCon, OwnedWhileUsed
    <3> QED
      BY <1>2, <3>1, <3>2 DEF LockCon
  <2>2. PhaseOf[u] = "want" /\ PhaseOf' = [PhaseOf EXCEPT ![u] = "hold"] /\ executed' = executed
    BY <1>2 DEF LockCon
  <2>3. Abstract!Acquire(u)
    BY <2>1, <2>2 DEF Abstract!Acquire
  <2> QED
    BY <2>3 DEF Abstract!Next
<1> QED
  BY <1>1, <1>2

\* The steps that keep the connection: an execution, or nothing the abstract
\* specification sees.
LEMMA HoldAbstract ==
  ASSUME IInv, NEW u \in User, Command(u) \/ StoreResult(u) \/ HandleError(u) \/ Statement(u)
  PROVE  [Abstract!Next]_Abstract!vars
<1>1. at[u] \in Using /\ at'[u] \in Using /\ owner' = owner
  BY DEF IInv, Ownership, TypeOK, Using, Command, CommandOk, CommandRejected, CommandLost,
         CommandNoLink, Fails, StoreResult, HandleError, Statement, PrepareStmt,
         ExecuteStmt, CloseStmt
<1>2. PhaseOf' = PhaseOf /\ PhaseOf[u] = "hold"
  <2>1. \A v \in User \ {u} : at'[v] = at[v]
    BY Frame DEF IInv, Step
  <2> QED
    BY <1>1, <2>1 DEF PhaseOf
<1>3. executed' = executed \/ (executed[u] = 0 /\ executed' = [executed EXCEPT ![u] = 1])
  <2>1. CASE Command(u)
    <3>1. executed[u] = 0 /\ executed \in [User -> Nat]
      BY <2>1 DEF IInv, EffectOK, Ownership, TypeOK, Command, CommandOk, CommandRejected,
                  CommandLost, CommandNoLink
    <3>2. PICK n \in {0, 1} :
            executed' = executed \/ executed' = [executed EXCEPT ![u] = executed[u] + n]
      BY <2>1 DEF Command, CommandOk, CommandRejected, CommandLost, CommandNoLink
    <3>3. CASE n = 0
      BY <3>1, <3>2, <3>3
    <3>4. CASE n = 1
      BY <3>1, <3>2, <3>4
    <3> QED
      BY <3>3, <3>4
  <2>2. CASE StoreResult(u) \/ HandleError(u)
    BY <2>2 DEF StoreResult, HandleError
  <2>3. CASE Statement(u)
    <3>1. executed \in [User -> Nat] /\ (at[u] \in {"prepare", "execute"} => executed[u] = 0)
      BY DEF IInv, EffectOK, Ownership, TypeOK
    <3>2. CASE PrepareStmt(u) \/ CloseStmt(u)
      BY <3>2 DEF PrepareStmt, CloseStmt
    <3>3. CASE ExecuteStmt(u)
      <4>1. executed[u] = 0
        BY <3>1, <3>3 DEF ExecuteStmt
      <4>2. PICK n \in {0, 1} :
              executed' = executed \/ executed' = [executed EXCEPT ![u] = executed[u] + n]
        BY <3>3 DEF ExecuteStmt
      <4> QED
        BY <3>1, <4>1, <4>2
    <3> QED
      BY <2>3, <3>2, <3>3 DEF Statement
  <2> QED
    BY <2>1, <2>2, <2>3
<1>4. CASE executed' = executed
  BY <1>1, <1>2, <1>4 DEF Abstract!vars
<1>5. CASE executed[u] = 0 /\ executed' = [executed EXCEPT ![u] = 1]
  BY <1>1, <1>2, <1>5 DEF Abstract!Execute, Abstract!Next
<1> QED
  BY <1>3, <1>4, <1>5

LEMMA UnLockAbstract ==
  ASSUME IInv, NEW u \in User, UnLock(u) PROVE Abstract!Next
<1> USE DEF IInv, Ownership, TypeOK, Using, PhaseOf
<1>1. owner' = [c \in Con |-> IF owner[c] = u THEN NoUser ELSE owner[c]]
  BY DEF UnLock, OwnedWhileUsed, ConWhileUsing
<1>2. /\ PhaseOf[u] = "hold" /\ PhaseOf' = [PhaseOf EXCEPT ![u] = "idle"]
      /\ executed' = [executed EXCEPT ![u] = 0]
  BY DEF UnLock
<1> QED
  BY <1>1, <1>2 DEF Abstract!Release, Abstract!Next

LEMMA CallAbstract ==
  ASSUME IInv, NEW u \in User, NEW k \in Kind, Call(u, k)
  PROVE  [Abstract!Next]_Abstract!vars
<1> USE ConnectionPoolAssumption DEF IInv, Ownership, TypeOK, Using, PhaseOf, Call, conVars
<1>1. CASE NumCon = 0
  BY <1>1 DEF Abstract!vars
<1>2. CASE NumCon # 0
  <2>1. 0 \in Con
    BY <1>2 DEF Con
  <2>2. /\ PhaseOf[u] = "idle" /\ PhaseOf' = [PhaseOf EXCEPT ![u] = "want"]
        /\ UNCHANGED <<owner, executed>>
    BY <1>2
  <2> QED
    BY <2>1, <2>2 DEF Abstract!Want, Abstract!Next
<1> QED
  BY <1>1, <1>2

\* Query and SelectDB hold one connection exclusively and have their
\* statement executed at most once, whatever happens to the link.
THEOREM Implements == Spec => ImplementsConnections
<1>1. IInv /\ [Next]_vars => [Abstract!Next]_Abstract!vars
  <2> SUFFICES ASSUME IInv, [Next]_vars PROVE [Abstract!Next]_Abstract!vars
    OBVIOUS
  <2>1. ASSUME NEW u \in User, Step(u) PROVE [Abstract!Next]_Abstract!vars
    BY <2>1, ScanAbstract, HoldAbstract, UnLockAbstract DEF Step
  <2>2. ASSUME NEW u \in User, NEW k \in Kind, Call(u, k) PROVE [Abstract!Next]_Abstract!vars
    BY <2>2, CallAbstract
  <2>3. CASE (\E c \in Con : Drop(c)) \/ UNCHANGED vars
    BY <2>3 DEF Drop, vars, conVars, userVars, PhaseOf, Abstract!vars
  <2> QED
    BY <2>1, <2>2, <2>3 DEF Next
<1> QED
  BY <1>1, InitAbstract, Inductive, PTL DEF Spec, Abstract!Spec, ImplementsConnections

=============================================================================
