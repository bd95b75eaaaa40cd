------------------------------- MODULE DagRun -------------------------------
(***************************************************************************)
(* What executing a selection of the dependency graph promises, whatever   *)
(* threads and queues carry it out: a node begins at most once, only after *)
(* every selected node it depends on has ended, and never when one of them *)
(* ended in an error; such a node is skipped instead.                      *)
(***************************************************************************)
EXTENDS GraphOps

VARIABLES
    edges,      \* the compiled dependency graph (task.graph)
    selected,   \* the nodes chosen for this invocation
    outcome     \* [Node -> "none", "began", "raised" or how the node ended]

dagVars == <<edges, selected, outcome>>

EndedWell == {"success", "warn", "fail"}
SkipOutcome == {"skipped", "errorskip"}
Ended == EndedWell \cup {"error"} \cup SkipOutcome

Upstream(n) == Ancestors(edges, n) \cap selected

DagInit ==
    /\ edges \in SUBSET Edges
    /\ selected \in SUBSET Node
    /\ outcome = [n \in Node |-> "none"]

Ready(n) ==
    /\ n \in selected
    /\ outcome[n] = "none"
    /\ \A m \in Upstream(n) : outcome[m] \in Ended

Begin(n) ==
    /\ Ready(n)
    /\ \A m \in Upstream(n) : outcome[m] # "error"
    /\ outcome' = [outcome EXCEPT ![n] = "began"]
    /\ UNCHANGED <<edges, selected>>

SkipNode(n) ==
    /\ Ready(n)
    /\ \E m \in Upstream(n) : outcome[m] = "error"
    /\ \E s \in SkipOutcome \cup {"raised"} : outcome' = [outcome EXCEPT ![n] = s]
    /\ UNCHANGED <<edges, selected>>

End(n) ==
    /\ outcome[n] = "began"
    /\ \E s \in EndedWell \cup {"error", "raised"} :
         outcome' = [outcome EXCEPT ![n] = s]
    /\ UNCHANGED <<edges, selected>>

DagNext == \E n \in Node : Begin(n) \/ SkipNode(n) \/ End(n)

DagSpec == DagInit /\ [][DagNext]_dagVars
=============================================================================
