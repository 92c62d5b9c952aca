------------------------------- MODULE MCXEMySql -------------------------------
(* Finite values for XEMySql.  XEMySqlClients.cfg: two clients compete for    *)
(* one task, one worker and one connection.  XEMySqlRestart.cfg: one client,  *)
(* a pool that grows to two tasks, and two Starts of one worker each, so that *)
(* both workers may run, and posts may meet a port that is gone.              *)
EXTENDS XEMySql, TLC

CONSTANTS c1, c2, con, long, short, sentLong, sentShort

MCOneThread == 1..1
MCTwoThreads == 1..2
MCText == {long, short}
MCLength == (long :> 2) @@ (short :> 1)
MCFormatted == (long :> sentLong) @@ (short :> sentShort)
=============================================================================
