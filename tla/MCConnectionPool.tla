--------------------------- MODULE MCConnectionPool ---------------------------
(* Users for ConnectionPool: three for two connections, with an index that    *)
(* wraps after three, so that the scan repeats connection 0.                  *)
(* ConnectionPoolReturns.cfg loses no link: liveness is about the contention,  *)
(* and after a loss an operation runs straight on to UnLock.                  *)
EXTENDS ConnectionPool, TLC

CONSTANTS u1, u2, u3
=============================================================================
