------------------------------ MODULE MCTaskPool ------------------------------
(* Finite values for TaskPool: a short and a long query text, a pool that    *)
(* starts with one task, grows by one to three, and a heap of four.          *)
EXTENDS TaskPool, TLC

CONSTANTS short, long

MCText == {short, long}
MCLength == (short :> 1) @@ (long :> 2)
=============================================================================
