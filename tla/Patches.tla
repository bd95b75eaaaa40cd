------------------------------ MODULE Patches ------------------------------
(***************************************************************************)
(* How the descriptions of schema files reach the resources that they      *)
(* describe: the patches of nodes, by name, and of macros, by package and  *)
(* name, the exposures, and the docs blocks that the descriptions name     *)
(* (core/dbt/parser/schemas.py NonSourceParser and ExposureParser,         *)
(* parser/docs.py, contracts/graph/manifest.py add_patch, patch_nodes,     *)
(* patch_macros and resolve_doc, parser/manifest.py process_docs).         *)
(*                                                                         *)
(* A description is a record of the docs block that it names, with the     *)
(* package of the call or None; without a block it is plain text.  A       *)
(* schema file is a record of its package and of the entries under its     *)
(* keys, in order, each with a name, a description and its columns or      *)
(* arguments.  The description of a source's whole source counts as one of *)
(* its columns.                                                            *)
(***************************************************************************)
EXTENDS Integers, SequencesExt

CONSTANT None  \* Python's None

Man == INSTANCE ManifestOps

NodeKeys == {"models", "seeds", "snapshots", "analyses"}
pluralize(type) == CASE type = "model" -> "models" [] type = "seed" -> "seeds" [] type = "snapshot" -> "snapshots"
                     [] type = "analysis" -> "analyses" [] type = "test" -> "tests"
Raised == [raises |-> TRUE]
Empty == [doc |-> None, package |-> None]
-----------------------------------------------------------------------------
(* The patches of the schema files *)

\* ParserRef.from_target: of two columns with a name the last one counts
from_target(columns) ==
    [n \in {columns[i].name : i \in DOMAIN columns} |->
       columns[Max({i \in DOMAIN columns : columns[i].name = n})].description]

\* NonSourceParser.parse and parse_patch, for all files; the arguments of a
\* macro stay a list
parse_patches(files, keys) ==
    FlattenSeq([f \in DOMAIN files |->
      LET own == SelectSeq(files[f].entries, LAMBDA e : e.key \in keys)
      IN [i \in DOMAIN own |->
            [name |-> own[i].name, yaml_key |-> own[i].key, package_name |-> files[f].package,
             description |-> own[i].description,
             columns |-> IF own[i].key = "macros" THEN [k \in DOMAIN own[i].columns |-> own[i].columns[k].description]
                         ELSE from_target(own[i].columns)]]])

\* Patches are stored by name: a second one raises
add_patch_raises(patches) ==
    \E i, j \in DOMAIN patches : i # j /\ patches[i].name = patches[j].name

add_macro_patch_raises(patches) ==
    \E i, j \in DOMAIN patches :
      i # j /\ patches[i].name = patches[j].name /\ patches[i].package_name = patches[j].package_name

\* ExposureParser.parse, add_exposure: the refs of depends_on are recorded
parse_exposures(files) ==
    FlattenSeq([f \in DOMAIN files |->
      LET own == SelectSeq(files[f].entries, LAMBDA e : e.key = "exposures")
      IN [i \in DOMAIN own |->
            [id |-> <<"exposure", files[f].package, own[i].name>>, package |-> files[f].package,
             description |-> own[i].description, columns |-> from_target(<<>>), refs |-> own[i].depends_on]]])
add_exposure_raises(exposures) ==
    \E i, j \in DOMAIN exposures : i # j /\ exposures[i].id = exposures[j].id
-----------------------------------------------------------------------------
(* patch_nodes and patch_macros *)

patch(r, p) == [r EXCEPT !.description = p.description, !.columns = p.columns]

\* The first node with the name of a patch consumes it
consumed_by(nodes, i, patches) ==
    {j \in DOMAIN patches : patches[j].name = nodes[i].name /\ \A k \in 1..(i - 1) : nodes[k].name # nodes[i].name}

\* A patch under another key than that of the node's type raises, unless it is
\* under models
invalid_patch(nodes, patches) ==
    \E i \in DOMAIN nodes : \E j \in consumed_by(nodes, i, patches) :
      patches[j].yaml_key \notin {pluralize(nodes[i].type), "models"}

patch_nodes(nodes, patches) ==
    [i \in DOMAIN nodes |-> LET p == consumed_by(nodes, i, patches)
                            IN IF p = {} THEN nodes[i] ELSE patch(nodes[i], patches[Max(p)])]

patch_macros(macros, patches) ==
    [i \in DOMAIN macros |->
       LET p == {j \in DOMAIN patches : patches[j].name = macros[i].name /\ patches[j].package_name = macros[i].package}
       IN IF p = {} THEN macros[i] ELSE patch(macros[i], patches[Max(p)])]
\* with --warn-error, patches that no macro took raise
macro_not_found(macros, patches) ==
    \E j \in DOMAIN patches :
      \A i \in DOMAIN macros : macros[i].name # patches[j].name \/ macros[i].package # patches[j].package_name
-----------------------------------------------------------------------------
(* Docs blocks *)

\* DocumentationParser.parse_file: the blocks of the files of all packages
add_doc_raises(docs) ==
    \E i, j \in DOMAIN docs : i # j /\ docs[i].name = docs[j].name /\ docs[i].package = docs[j].package

resolve_doc(docs, name, package, current_project, node_package) ==
    LET candidates == Man!_search_packages(current_project, node_package, package)
        result(i) == Man!find_cached_value(docs, name, candidates[i])
        hits == {i \in DOMAIN candidates : result(i) # None}
    IN IF hits = {} THEN None ELSE result(Min(hits)).contents

\* get_rendered with the context of generate_runtime_docs
doc(docs, d, current_project, r) ==
    IF d.doc = None THEN None ELSE resolve_doc(docs, d.doc, d.package, current_project, r.package)
doc_target_not_found(docs, d, current_project, r) ==
    d.doc # None /\ doc(docs, d, current_project, r) = None

\* _process_docs_for_node, _for_source, _for_macro and _for_exposure
process_docs_raises(docs, resources, current_project) ==
    \E r \in resources : \E d \in {r.description} \cup Range(r.columns) : doc_target_not_found(docs, d, current_project, r)
process_docs(docs, resources, current_project) ==
    [i \in DOMAIN resources |->
       LET r == resources[i]
           rendered(d) == doc(docs, d, current_project, r)
       IN [r EXCEPT !.description = rendered(@), !.columns = [n \in DOMAIN @ |-> rendered(@[n])]]]
-----------------------------------------------------------------------------
\* The end of a load, from parsed files to described resources
describe(c) ==
    LET patches == parse_patches(c.files, NodeKeys)
        macro_patches == parse_patches(c.files, {"macros"})
        exposures == parse_exposures(c.files)
        all == patch_nodes(c.nodes, patches) \o patch_macros(c.macros, macro_patches) \o c.sources \o exposures
    IN IF \/ add_patch_raises(patches) \/ add_macro_patch_raises(macro_patches) \/ add_exposure_raises(exposures)
          \/ add_doc_raises(c.docs) \/ invalid_patch(c.nodes, patches)
          \/ c.warn_error /\ macro_not_found(c.macros, macro_patches)
          \/ process_docs_raises(c.docs, Range(all), c.project_name)
       THEN Raised
       ELSE [raises |-> FALSE, resources |-> Range(process_docs(c.docs, all, c.project_name))]
=============================================================================
