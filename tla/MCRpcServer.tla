----------------------------- MODULE MCRpcServer -----------------------------
(***************************************************************************)
(* Instances of RpcServer for TLC: what the requests are.                  *)
(***************************************************************************)
EXTENDS RpcServer, TLC

CONSTANTS r1, r2

DepsAndSql == (r1 :> "deps") @@ (r2 :> "sql")
OneDeps == r1 :> "deps"
OneSql == r1 :> "sql"
=============================================================================
