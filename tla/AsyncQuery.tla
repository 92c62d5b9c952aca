------------------------------ MODULE AsyncQuery ------------------------------
(***************************************************************************)
(* What CXEMySql promises of one submitted query, whichever of             *)
(* ExecuteQueryNoRet and Query it goes through: it is accepted once; while *)
(* it is accepted the server may execute it, once; then it is finished, or *)
(* it is lost without having been executed.                                *)
(***************************************************************************)
EXTENDS Naturals

CONSTANT Text      \* the queries, each submitted at most once

VARIABLES status,  \* "unsent", "accepted", "finished" or "lost"
          effect   \* times the server executed it

Init ==
  /\ status = [q \in Text |-> "unsent"]
  /\ effect = [q \in Text |-> 0]

Submit(q) ==
  /\ status[q] = "unsent"
  /\ status' = [status EXCEPT ![q] = "accepted"]
  /\ UNCHANGED effect

Execute(q) ==
  /\ status[q] = "accepted" /\ effect[q] = 0
  /\ effect' = [effect EXCEPT ![q] = 1]
  /\ UNCHANGED status

Finish(q) ==
  /\ status[q] = "accepted"
  /\ status' = [status EXCEPT ![q] = "finished"]
  /\ UNCHANGED effect

\* Queries that never reached a worker, several at once when a port closes.
Lose(Q) ==
  /\ Q # {} /\ \A q \in Q : status[q] = "accepted" /\ effect[q] = 0
  /\ status' = [q \in Text |-> IF q \in Q THEN "lost" ELSE status[q]]
  /\ UNCHANGED effect

Next ==
  \/ \E q \in Text : Submit(q) \/ Execute(q) \/ Finish(q)
  \/ \E Q \in SUBSET Text : Lose(Q)

Spec == Init /\ [][Next]_<<status, effect>>
=============================================================================
