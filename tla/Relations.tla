----------------------------- MODULE Relations -----------------------------
(***************************************************************************)
(* The names of relations (core/dbt/adapters/base/relation.py,             *)
(* contracts/relation.py) and how the adapter finds the relation of a node *)
(* among those of a schema (Adapter.get_relation).                         *)
(*                                                                         *)
(* A name is a pair of the word and its spelling, "lower", "upper" or      *)
(* "mixed".  A relation has the path, a name or None for each component,   *)
(* which components are quoted and which included, its type and whether    *)
(* dbt created it in this invocation.                                      *)
(***************************************************************************)
EXTENDS Integers, SequencesExt

CONSTANT None

ComponentName == <<"database", "schema", "identifier">>

lower(n) == IF n = None THEN None ELSE <<n[1], "lower">>
upper(n) == IF n = None THEN None ELSE <<n[1], "upper">>

Path(database, schema, identifier) == [database |-> database, schema |-> schema, identifier |-> identifier]
All(b) == [k \in Range(ComponentName) |-> b]

\* Policy.replace_dict, of the components that are given
replace_dict(policy, given) == [k \in DOMAIN policy |-> IF k \in DOMAIN given THEN given[k] ELSE policy[k]]

\* BaseRelation.create
create(path, quote_policy, type) ==
    [path |-> path, quote_policy |-> quote_policy, include_policy |-> All(TRUE), type |-> type, dbt_created |-> FALSE]

\* create_from_node takes the quoting of the root project, create_from_source
\* the adapter's default and what the source itself says
create_from_node(quoting, node) == create(Path(node.database, node.schema, node.identifier), quoting, None)
create_from_source(default, node) ==
    create(Path(node.database, node.schema, node.identifier), replace_dict(default, node.quoting), None)
create_from(default, quoting, node) ==
    IF node.resource_type = "source" THEN create_from_source(default, node) ELSE create_from_node(quoting, node)

\* render: the included parts that are set, each with whether it is quoted
render(relation) ==
    LET part(k) == IF relation.include_policy[k] THEN relation.path[k] ELSE None
        keys == SelectSeq(ComponentName, LAMBDA k : part(k) # None)
    IN [i \in DOMAIN keys |-> <<keys[i], part(keys[i]), relation.quote_policy[keys[i]]>>]
-----------------------------------------------------------------------------
(* Schemas to search *)

\* InformationSchema.from_relation without the schema
information_schema_only(relation) ==
    [relation EXCEPT !.path["schema"] = None, !.path["identifier"] = <<"INFORMATION_SCHEMA", "upper">>,
                     !.include_policy["database"] = relation.path["database"] # None,
                     !.include_policy["schema"] = FALSE, !.include_policy["identifier"] = TRUE,
                     !.quote_policy["identifier"] = FALSE, !.type = "view"]

\* SchemaSearchMap: the schemas to search by information schema.  Two keys are
\* one when they render the same and their fields are equal.
add(map, relation) ==
    LET key == information_schema_only(relation)
        schema == lower(relation.path["schema"])
    IN [k \in DOMAIN map \cup {key} |->
          (IF k \in DOMAIN map THEN map[k] ELSE {}) \cup (IF k = key THEN {schema} ELSE {})]

\* Adapter._get_catalog_schemas
get_catalog_schemas(default, quoting, nodes) ==
    FoldLeft(LAMBDA map, node : add(map, create_from(default, quoting, node)), [k \in {} |-> {}], nodes)

flatten_raises(map, allow_multiple_databases) ==
    ~allow_multiple_databases /\ \E j, k \in DOMAIN map : /\ j.path["database"] # None /\ k.path["database"] # None
                                                          /\ lower(j.path["database"]) # lower(k.path["database"])

\* flatten: without the database, so that one query reads all schemas
flatten(map) ==
    LET flat(k, schema) == [k EXCEPT !.path["schema"] = schema, !.quote_policy["database"] = FALSE,
                                     !.include_policy["database"] = FALSE]
        \* information_schema_only of a key includes the database when it is set
        found == {flat(k[1], k[2]) : k \in UNION {{j} \X map[j] : j \in DOMAIN map}}
    IN FoldSet(LAMBDA r, new : add(new, r), [k \in {} |-> {}], found)
-----------------------------------------------------------------------------
(* Finding a relation *)

\* SQLAdapter.list_relations_without_caching: the names are the database's
list_relations_without_caching(rows) ==
    [i \in DOMAIN rows |-> create(rows[i].path, All(TRUE), rows[i].type)]

\* What the cache has of these: the first one of those whose names differ by
\* their spelling only
get_relations(relations) ==
    LET key(r) == [k \in DOMAIN r.path |-> lower(r.path[k])]
        first(i) == \A j \in 1..(i - 1) : key(relations[j]) # key(relations[i])
        keep == SelectSeq([i \in DOMAIN relations |-> i], first)
    IN [i \in DOMAIN keep |-> relations[keep[i]]]

_is_exactish_match(relation, field, value) ==
    IF relation.dbt_created /\ ~relation.quote_policy[field]
    THEN lower(relation.path[field]) = lower(value)
    ELSE relation.path[field] = value

\* matches: "exact", "no", or "approximate" when it raises
matches(relation, search) ==
    LET given == {k \in DOMAIN search : search[k] # None}
        exact == \A k \in given : _is_exactish_match(relation, k, search[k])
        approximate == \A k \in given : lower(relation.path[k]) = lower(search[k])
    IN IF exact THEN "exact" ELSE IF approximate THEN "approximate" ELSE "no"

\* Mutant: Snowflake's names are folded as those of the other databases
FoldsDown(adapter, quoting, search) ==
    [k \in DOMAIN search |-> IF quoting[k] THEN search[k] ELSE lower(search[k])]

\* Adapter._make_match_kwargs: a name that is not quoted as the database has it
_make_match_kwargs(adapter, quoting, search) ==
    [k \in DOMAIN search |-> IF quoting[k] THEN search[k]
                             ELSE IF adapter = "snowflake" THEN upper(search[k]) ELSE lower(search[k])]

\* Adapter.get_relation and _make_match
get_relation(adapter, quoting, relations, search) ==
    LET kwargs == _make_match_kwargs(adapter, quoting, search)
        of(w) == SelectSeq(relations, LAMBDA r : matches(r, kwargs) = w)
    IN CASE of("approximate") # <<>> -> [raises |-> "approximate", found |-> None]
         [] Len(of("exact")) > 1 -> [raises |-> "multiple", found |-> None]
         [] OTHER -> [raises |-> None, found |-> IF of("exact") = <<>> THEN None ELSE of("exact")[1]]
=============================================================================
