---------------------------- MODULE ManifestOps ----------------------------
(***************************************************************************)
(* How the parsed resources become a manifest with a graph: duplicates and *)
(* disabled resources, and the resolution of ref() and source()            *)
(* (core/dbt/contracts/graph/manifest.py, parser/manifest.py,              *)
(* parser/base.py).                                                        *)
(*                                                                         *)
(* A resource is a record of its unique id, name (of a source: the pair of *)
(* its source's name and its own), package, type, whether it is enabled,   *)
(* its relation in the database and whether it keeps one (store_failures), *)
(* and the refs and sources that it names, each a pair of a package or     *)
(* None and a name.  parsed is the sequence of all resources in the order  *)
(* in which the files are read.  Its tests are data tests; SchemaTests has *)
(* those of schema.yml.                                                    *)
(***************************************************************************)
EXTENDS Integers, SequencesExt

CONSTANT None  \* Python's None

Disabled == [id |-> "disabled"]
Refable == {"model", "seed", "snapshot"}

Pick(s, P(_)) == SelectSeq(s, P)

\* add_result_node, add_node, add_disabled
nodes_of(parsed) == Pick(parsed, LAMBDA r : r.enabled)
disabled_of(parsed) == Pick(parsed, LAMBDA r : ~r.enabled)

\* _check_duplicates
add_node_raises(parsed) ==
    LET nodes == nodes_of(parsed)
    IN \E i, j \in DOMAIN nodes : i # j /\ nodes[i].id = nodes[j].id
-----------------------------------------------------------------------------
(* PackageAwareCache *)

\* storage[key] maps a package to the last resource of that package.  Without
\* a package the first package of it is taken.
find_cached_value(members, key, package) ==
    LET have == {i \in DOMAIN members : members[i].name = key /\ package \in {None, members[i].package}}
        from == IF package = None THEN members[Min(have)].package ELSE package
    IN IF have = {} THEN None ELSE members[Max({i \in have : members[i].package = from})]

_search_packages(current_project, node_package, target_package) ==
    CASE target_package # None -> <<target_package>>
      [] current_project = node_package -> <<current_project, None>>
      [] OTHER -> <<current_project, node_package, None>>

\* resolve_ref and resolve_source: NameSearcher finds the disabled one
resolve(members, disabled, key, target_package, current_project, node_package) ==
    LET candidates == _search_packages(current_project, node_package, target_package)
        found(i) == find_cached_value(members, key, candidates[i])
        hits == {i \in DOMAIN candidates : found(i) # None}
        off == {i \in DOMAIN disabled : disabled[i].name = key
                                        /\ Range(candidates) \cap {None, disabled[i].package} # {}}
    IN CASE hits # {} -> found(Min(hits))
         [] off # {} -> Disabled
         [] OTHER -> None
-----------------------------------------------------------------------------
(* process_sources and process_refs *)

refs_cache(parsed) == Pick(nodes_of(parsed), LAMBDA r : r.type \in Refable)
source_cache(parsed) == Pick(nodes_of(parsed), LAMBDA r : r.type = "source")

\* What n's sources and refs resolve to, in this order
targets(parsed, current_project, n) ==
    LET off(types) == Pick(disabled_of(parsed), LAMBDA r : r.type \in types)
    IN [i \in DOMAIN n.sources |->
          resolve(source_cache(parsed), off({"source"}), n.sources[i], None, current_project, n.package)]
         \o [i \in DOMAIN n.refs |->
               resolve(refs_cache(parsed), off(Refable), n.refs[i][2], n.refs[i][1], current_project, n.package)]

Resolved(t) == t # None /\ t # Disabled

\* invalid_ref_fail_unless_test: a test is only disabled; a missing target is a
\* warning, which --warn-error makes an error
process_refs_raises(parsed, current_project, warn_error) ==
    LET nodes == nodes_of(parsed)
    IN \E i \in DOMAIN nodes :
         LET found == Range(targets(parsed, current_project, nodes[i]))
         IN IF nodes[i].type = "test" THEN warn_error /\ None \in found
            ELSE \E t \in found : ~Resolved(t)

depends_on(parsed, current_project, n) ==
    LET found == Pick(targets(parsed, current_project, n), Resolved)
    IN [i \in DOMAIN found |-> found[i].id]

still_enabled(parsed, current_project, n) == \A t \in Range(targets(parsed, current_project, n)) : Resolved(t)
-----------------------------------------------------------------------------
(* _check_resource_uniqueness *)

IsRelational(n) == n.type \in Refable \/ (n.type = "test" /\ n.store_failures)

\* Mutant: only the relations have to differ
ChecksAliases(parsed) ==
    LET nodes == Pick(nodes_of(parsed), IsRelational)
    IN \E i, j \in DOMAIN nodes : i # j /\ nodes[i].relation = nodes[j].relation

_check_resource_uniqueness_raises(parsed) ==
    LET nodes == Pick(nodes_of(parsed), IsRelational)
    IN \E i, j \in DOMAIN nodes :
         i # j /\ (nodes[i].name = nodes[j].name \/ nodes[i].relation = nodes[j].relation)

\* update_manifest and _check_manifest: the graph of a manifest, or None when
\* the load raises
load_graph(parsed, current_project, warn_error) ==
    IF \/ add_node_raises(parsed)
       \/ process_refs_raises(parsed, current_project, warn_error)
       \/ _check_resource_uniqueness_raises(parsed)
    THEN None
    ELSE {[id |-> n.id, enabled |-> still_enabled(parsed, current_project, n),
           depends_on |-> depends_on(parsed, current_project, n)] : n \in Range(nodes_of(parsed))}
=============================================================================
