------------------------------- MODULE MCRpcGC -------------------------------
(***************************************************************************)
(* Instances of RpcGC for TLC: the settings.                               *)
(***************************************************************************)
EXTENDS RpcGC, TLC

\* Nothing is collected, the table is kept small, or old tasks are reaped
Wide   == [maxsize |-> 9, reapsize |-> 9, auto_reap_age |-> 9]
Narrow == [maxsize |-> 1, reapsize |-> 1, auto_reap_age |-> 9]
Reap   == [maxsize |-> 9, reapsize |-> 1, auto_reap_age |-> 1]

SomeSettings == {Wide, Narrow, Reap}

\* Tasks are interchangeable
Symmetry == Permutations(Task)
=============================================================================
