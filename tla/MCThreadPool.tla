----------------------------- MODULE MCThreadPool -----------------------------
(* Finite values for ThreadPool: two processors, two jobs and two Starts, so *)
(* that one job may wait while the other runs, and workers of both may meet. *)
EXTENDS ThreadPool, TLC

CONSTANTS j1, j2

MCThread == 1..4
MCJob == {j1, j2}
=============================================================================
