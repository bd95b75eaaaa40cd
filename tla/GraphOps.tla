------------------------------ MODULE GraphOps ------------------------------
(***************************************************************************)
(* The dependency graph as core/dbt/graph/graph.py uses it.  dbt keeps a   *)
(* networkx DiGraph; an edge <<m, n>> says that n depends on m             *)
(* (Linker.dependency adds it that way round).  Here a graph is a set of   *)
(* edges over the unique ids Node.                                         *)
(*                                                                         *)
(* Reachability is written without recursion: the nodes reachable from n   *)
(* are those in every set that holds n's successors and is closed under    *)
(* the edges.                                                              *)
(***************************************************************************)
EXTENDS Integers, FiniteSets

CONSTANT Node           \* unique ids; their order is the order of the strings

ASSUME NodeAssumption == Node \subseteq Nat /\ IsFiniteSet(Node)

Edges == Node \X Node

\* S holds the successors of n and of each of its own members
ClosedFrom(E, n, S) ==
    \A e \in E : (e[1] = n \/ e[1] \in S) => e[2] \in S

\* nx.descendants / Graph.get_dependent_nodes (graph.py:104-105)
Descendants(E, n) ==
    {m \in Node \ {n} : \A S \in SUBSET Node : ClosedFrom(E, n, S) => m \in S}

Ancestors(E, n) == {m \in Node : n \in Descendants(E, m)}

\* Linker.find_cycles finds none (compilation.py:122-129)
Acyclic(E) ==
    \A n \in Node : \E S \in SUBSET (Node \ {n}) : ClosedFrom(E, n, S)

\* Graph.get_subset_graph (graph.py:80-99): the transitive closure, without
\* the nodes that were not selected
SubsetGraph(E, selected) ==
    {e \in selected \X selected : e[2] \in Descendants(E, e[1])}
=============================================================================
