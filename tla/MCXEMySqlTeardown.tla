--------------------------- MODULE MCXEMySqlTeardown ---------------------------
(* The values of MCXEMySql for XEMySqlTeardown: one client, one worker.       *)
EXTENDS XEMySqlTeardown, MCXEMySql
=============================================================================
