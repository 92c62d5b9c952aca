------------------------------ MODULE MCMySqlCon ------------------------------
(* Finite values for MySqlCon: two connections, one more Initialize after a   *)
(* failure, a database that may have to be created, another to be selected,   *)
(* and a server at a port that is not the default one.                        *)
EXTENDS MySqlCon

CONSTANTS other

MCDatabase == {Db, Test, other}
MCOffered == {MCDatabase, MCDatabase \ {Db}}
=============================================================================
