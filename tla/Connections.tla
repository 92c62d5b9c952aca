----------------------------- MODULE Connections -----------------------------
(***************************************************************************)
(* What the connections of CXEMySql promise to one operation, whatever the *)
(* network does: it waits for a connection, holds one that nobody else     *)
(* holds, has its statement executed by the server at most once while it   *)
(* holds it, and gives it back.  ConnectionPool implements this            *)
(* specification; XEMySql is built on it.                                  *)
(***************************************************************************)

EXTENDS Naturals

CONSTANTS
  User,    \* threads that call the operations
  NoUser,  \* owner of a free connection
  Con      \* the connections

VARIABLES
  owner,   \* who holds each connection
  phase,   \* "idle", "want" or "hold"
  effect   \* times the server executed the statement of the operation under way

vars == <<owner, phase, effect>>

Init ==
  /\ owner = [c \in Con |-> NoUser]
  /\ phase = [u \in User |-> "idle"]
  /\ effect = [u \in User |-> 0]

\* With no connection at all there is nothing to wait for.
Want(u) ==
  /\ phase[u] = "idle" /\ Con # {}
  /\ phase' = [phase EXCEPT ![u] = "want"]
  /\ UNCHANGED <<owner, effect>>

Acquire(u) ==
  /\ phase[u] = "want"
  /\ \E c \in Con : owner[c] = NoUser /\ owner' = [owner EXCEPT ![c] = u]
  /\ phase' = [phase EXCEPT ![u] = "hold"]
  /\ UNCHANGED effect

\* Mutant: the statement is sent again after a reconnect.
Execute_Again(u) ==
  /\ phase[u] = "hold" /\ effect[u] < 2
  /\ effect' = [effect EXCEPT ![u] = @ + 1]
  /\ UNCHANGED <<owner, phase>>

Execute(u) ==
  /\ phase[u] = "hold" /\ effect[u] = 0
  /\ effect' = [effect EXCEPT ![u] = 1]
  /\ UNCHANGED <<owner, phase>>

\* Mutant: the connection stays locked.
Release_Forgotten(u) ==
  /\ phase[u] = "hold"
  /\ phase' = [phase EXCEPT ![u] = "idle"]
  /\ effect' = [effect EXCEPT ![u] = 0]
  /\ UNCHANGED owner

Release(u) ==
  /\ phase[u] = "hold"
  /\ owner' = [c \in Con |-> IF owner[c] = u THEN NoUser ELSE owner[c]]
  /\ phase' = [phase EXCEPT ![u] = "idle"]
  /\ effect' = [effect EXCEPT ![u] = 0]

Next == \E u \in User : Want(u) \/ Acquire(u) \/ Execute(u) \/ Release(u)

Spec == Init /\ [][Next]_vars

TypeOK ==
  /\ owner \in [Con -> User \cup {NoUser}]
  /\ phase \in [User -> {"idle", "want", "hold"}]
  /\ effect \in [User -> {0, 1}]

\* An operation in the middle of its work holds exactly one connection; one
\* that is not holds none.
HoldsOne ==
  /\ \A u \in User : phase[u] = "hold" <=> \E c \in Con : owner[c] = u
  /\ \A c, d \in Con : c = d \/ owner[c] = NoUser \/ owner[c] # owner[d]
=============================================================================
