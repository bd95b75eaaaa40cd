----------------------------- MODULE MCRunQueue -----------------------------
(***************************************************************************)
(* Instances of RunQueue for TLC: every acyclic graph over the nodes up to *)
(* their names, in which a node's dependencies come before it in the order *)
(* of the ids, nothing depends on a test and a test is of one model; and   *)
(* the commands.                                                           *)
(***************************************************************************)
EXTENDS RunQueueInv

MCGraphs ==
    {E \in SUBSET {e \in Edges : e[1] < e[2] /\ e[1] \notin Tests} :
        \A t \in Tests : Cardinality({e \in E : e[2] = t}) = 1}

Command(task, fail_fast) == [task |-> task, fail_fast |-> fail_fast]

\* run and test with and without --fail-fast, and compile
MCCommands ==
    {Command(t, f) : t \in {"run", "test"}, f \in BOOLEAN} \cup {Command("compile", FALSE)}

\* dbt run --fail-fast
RunFailFast == {Command("run", TRUE)}
=============================================================================
