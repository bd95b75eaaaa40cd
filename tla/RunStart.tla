------------------------------ MODULE RunStart ------------------------------
(***************************************************************************)
(* What dbt run and dbt test do on the master connection before the first  *)
(* node and after the last: the schemas of the selected nodes, --defer and *)
(* the on-run hooks (core/dbt/task/run.py before_run and after_run,        *)
(* task/runnable.py create_schemas, contracts/graph/manifest.py            *)
(* merge_from_artifact, parser/hooks.py).                                  *)
(*                                                                         *)
(* A node is a record of its type, materialization, schema, parents,       *)
(* store_failures and whether it is deferred; a schema is a record of its  *)
(* database, its name in lower case and its case; a relation of the        *)
(* database is a pair of a schema and the node whose name it has.  The     *)
(* name of a package is its rank among the names.                          *)
(***************************************************************************)
EXTENDS Integers, SequencesExt

CONSTANT None  \* Python's None

Refable == {"model", "seed", "snapshot"}
Lowered(schema) == <<schema.database, schema.name>>
is_ephemeral(node) == node.materialized = "ephemeral"
should_store_failures(node, STORE_FAILURES) ==
    node.type = "test" /\ (IF node.store_failures = None THEN STORE_FAILURES ELSE node.store_failures)
is_relational(node, STORE_FAILURES) == node.type \in Refable \/ should_store_failures(node, STORE_FAILURES)
-----------------------------------------------------------------------------
(* create_schemas *)

get_model_schemas(nodes, selected_uids, STORE_FAILURES) ==
    {nodes[n].schema : n \in {n \in DOMAIN nodes \cap selected_uids :
                                is_relational(nodes[n], STORE_FAILURES) /\ ~is_ephemeral(nodes[n])}}

\* list_schemas asks every database that is required for its schemas
list_schemas(required_schemas, schemas) ==
    {Lowered(s) : s \in {s \in schemas : \E r \in required_schemas : r.database = s.database}}

\* required_schemas is a set: of the schemas that differ in case alone the one
\* that comes first is created.  The result is the set of all outcomes.
create_schemas(nodes, selected_uids, schemas, STORE_FAILURES) ==
    LET required_schemas == get_model_schemas(nodes, selected_uids, STORE_FAILURES)
        missing == {r \in required_schemas : Lowered(r) \notin list_schemas(required_schemas, schemas)}
    IN {created \in SUBSET missing :
          \A r \in missing : Cardinality({s \in created : Lowered(s) = Lowered(r)}) = 1}
-----------------------------------------------------------------------------
(* --defer *)

\* Nothing is written between populate_adapter_cache and the lookup: cached or
\* not, get_relation answers what the database holds.
get_relation(relations, unique_id, node) == <<node.schema, unique_id>> \in relations

\* Mutant: the selected nodes that are not built yet are deferred as well
DefersSelected(nodes, other, selected, relations) ==
    [n \in DOMAIN nodes |->
       IF n \in DOMAIN other /\ other[n].type \in Refable /\ ~is_ephemeral(other[n])
          /\ ~get_relation(relations, n, nodes[n])
       THEN [other[n] EXCEPT !.deferred = TRUE] ELSE nodes[n]]

merge_from_artifact(nodes, other, selected, relations) ==
    [n \in DOMAIN nodes |->
       IF n \in DOMAIN other /\ other[n].type \in Refable /\ ~is_ephemeral(other[n])
          /\ n \notin selected /\ ~get_relation(relations, n, nodes[n])
       THEN [other[n] EXCEPT !.deferred = TRUE] ELSE nodes[n]]

\* _get_deferred_manifest, defer_to_manifest; state is None when there is no
\* manifest in the directory of --state
defer_to_manifest(nodes, defer, state, selected, relations) ==
    IF defer THEN merge_from_artifact(nodes, state, selected, relations) ELSE nodes
-----------------------------------------------------------------------------
(* The on-run hooks *)

\* HookParser: one operation per hook of a project, with its place in the list
hooks_of(projects) ==
    FoldLeft(LAMBDA all, p :
               all \o [i \in DOMAIN p.on_run_start |->
                         [package |-> p.name, index |-> i, type |-> "on-run-start", sql |-> p.on_run_start[i]]]
                   \o [i \in DOMAIN p.on_run_end |->
                         [package |-> p.name, index |-> i, type |-> "on-run-end", sql |-> p.on_run_end[i]]],
             <<>>, projects)

\* BiggestName: the hooks of the project itself come before those of packages
_hook_keyfunc(hook, project_name) ==
    <<IF hook.package = project_name THEN -1 ELSE hook.package, hook.index>>

get_hooks_by_type(hooks, hook_type, project_name) ==
    LET key(h) == _hook_keyfunc(h, project_name)
        less(g, h) == key(g)[1] < key(h)[1] \/ (key(g)[1] = key(h)[1] /\ key(g)[2] < key(h)[2])
    IN SortSeq(SelectSeq(hooks, LAMBDA h : h.type = hook_type), less)

\* The hooks that ran; the one whose statement fails raises.  dbt test
\* overrides safe_run_hooks to run none.
safe_run_hooks(task, hooks, hook_type, project_name) ==
    LET ordered == IF task = "test" THEN <<>> ELSE get_hooks_by_type(hooks, hook_type, project_name)
        bad == {i \in DOMAIN ordered : ordered[i].sql = "fails"}
    IN [ran |-> IF bad = {} THEN ordered ELSE SubSeq(ordered, 1, Min(bad) - 1), raises |-> bad # {}]
-----------------------------------------------------------------------------
(* before_run and after_run *)

\* The outcomes of before_run; the schemas are there whatever fails after them
before_run(c) ==
    LET refused == c.defer /\ c.state = None
        hooks == safe_run_hooks(c.task, hooks_of(c.projects), "on-run-start", c.project_name)
    IN {[created |-> created,
         nodes |-> IF refused THEN c.nodes ELSE defer_to_manifest(c.nodes, c.defer, c.state, c.selected, c.relations),
         ran |-> IF refused THEN <<>> ELSE hooks.ran,
         raises |-> refused \/ hooks.raises] : created \in create_schemas(c.nodes, c.selected, c.schemas, c.store_failures)}

\* database_schemas, and the hooks that read it
after_run(c, nodes, results) ==
    [database_schemas |-> {nodes[n].schema : n \in {n \in DOMAIN results : results[n] \notin {"error", "fail", "skipped"}}},
     hooks |-> safe_run_hooks(c.task, hooks_of(c.projects), "on-run-end", c.project_name)]
=============================================================================
