------------------------------ MODULE Catalogs ------------------------------
(***************************************************************************)
(* dbt docs generate (core/dbt/task/generate.py): one query of the columns *)
(* per information schema, each in a thread of its own, the merge of the   *)
(* answers in the order in which they come (Adapter.get_catalog,           *)
(* clients/agate_helper.py), and the tables of the nodes and sources.      *)
(*                                                                         *)
(* The answer of a query is None when it fails, or the types of its        *)
(* columns and its rows, functions from columns to values with None for a  *)
(* null.  The types are those that agate has inferred.  Names are those of *)
(* Relations.                                                              *)
(***************************************************************************)
EXTENDS Integers, SequencesExt

CONSTANT None

Rel == INSTANCE Relations

NullMarker == "null marker"

\* isinstance: ISODateTime is a class of DateTimes
isinstance(type, of) == type = of \/ (type = "ISODateTime" /\ of = "DateTime")
-----------------------------------------------------------------------------
(* agate_helper: the merge of tables *)

\* Mutant: a column without values is only accepted before one that has some
NullsComeFirst(types, key, value) ==
    IF types = None THEN None
    ELSE IF key \notin DOMAIN types \/ types[key] = NullMarker THEN (key :> value) @@ types
    ELSE IF isinstance(value, types[key]) THEN types ELSE None

\* ColumnTypeBuilder.__setitem__, None when it raises
setitem(types, key, value) ==
    IF types = None THEN None
    ELSE IF key \notin DOMAIN types \/ types[key] = NullMarker THEN (key :> value) @@ types
    ELSE IF value = NullMarker \/ isinstance(value, types[key]) THEN types
    ELSE None

merged_column_types(tables) ==
    LET type(t, c) == IF \A i \in DOMAIN t.rows : t.rows[i][c] = None THEN NullMarker ELSE t.types[c]
        adding(types, t) == FoldSet(LAMBDA c, acc : setitem(acc, c, type(t, c)), types, DOMAIN t.types)
        built == FoldLeft(adding, [k \in {} |-> None], tables)
    IN IF built = None THEN None
       ELSE [k \in DOMAIN built |-> IF built[k] = NullMarker THEN "Number" ELSE built[k]]

\* Rows get a null in the columns that their table lacks
merge_tables(tables) ==
    LET types == merged_column_types(tables)
        row(r) == [c \in DOMAIN types |-> IF c \in DOMAIN r THEN r[c] ELSE None]
    IN IF types = None THEN None ELSE FlattenSeq([t \in DOMAIN tables |-> [i \in DOMAIN tables[t].rows |-> row(tables[t].rows[i])]])
-----------------------------------------------------------------------------
(* Adapter.get_catalog *)

\* _catalog_filter_schemas: the rows of schemas that the manifest uses
catalog_filter_table(table, nodes) ==
    LET schemas == {<<Rel!lower(nodes[i].database), Rel!lower(nodes[i].schema)>> : i \in DOMAIN nodes}
        test(r) == /\ r["table_schema"] # None
                   /\ <<Rel!lower(r["table_database"]), Rel!lower(r["table_schema"])>> \in schemas
    IN [table EXCEPT !.rows = SelectSeq(table.rows, test)]

\* Adapter._get_catalog_schemas and its override by Postgres, whose one
\* database one query reads: None when it raises
get_catalog_schemas(adapter, quoting, nodes) ==
    LET map == Rel!get_catalog_schemas(Rel!All(adapter # "snowflake"), quoting, nodes)
    IN IF adapter = "snowflake" THEN map
       ELSE IF Rel!flatten_raises(map, FALSE) THEN None ELSE Rel!flatten(map)

\* catch_as_completed and merge_tables, of the answers in the order in which
\* they come: the rows, or None when it raises, and the number of errors
get_catalog(answers, nodes, warn_error) ==
    LET tables == SelectSeq(answers, LAMBDA a : a # None)
        errors == Len(answers) - Len(tables)
        filtered == [i \in DOMAIN tables |-> catalog_filter_table(tables[i], nodes)]
    IN [rows |-> IF errors > 0 /\ warn_error THEN None ELSE merge_tables(filtered), errors |-> errors]
-----------------------------------------------------------------------------
(* Catalog *)

TableKey(row) == <<row["table_database"], row["table_schema"], row["table_name"]>>
lowered(key) == [i \in DOMAIN key |-> Rel!lower(key[i])]

\* format_stats: of the stats of the first row of a table, those to include
format_stats(row) == {k \in DOMAIN row : k \notin {"table_database", "table_schema", "table_name", "column_name"}
                                         /\ row[k] # None}

\* Catalog.add_column: the tables in the order in which they first occur
add_column(tables, row) ==
    LET key == TableKey(row)
        at == {i \in DOMAIN tables : tables[i].key = key}
        new == [key |-> key, stats |-> format_stats(row), columns |-> {row["column_name"]}]
    IN IF at = {} THEN Append(tables, new)
       ELSE [tables EXCEPT ![CHOOSE i \in at : TRUE].columns = @ \cup {row["column_name"]}]

Catalog(rows) == FoldLeft(add_column, <<>>, rows)

mapping_key(node) == lowered(<<node.database, node.schema, node.identifier>>)

\* get_unique_id_mapping: a key has its last node and all its sources
get_unique_id_mapping(nodes) ==
    LET of(key, source) == {i \in DOMAIN nodes : mapping_key(nodes[i]) = key /\ (nodes[i].resource_type = "source") = source}
        keys == {mapping_key(nodes[i]) : i \in DOMAIN nodes}
    IN [nodes |-> [k \in keys |-> IF of(k, FALSE) = {} THEN None ELSE nodes[Max(of(k, FALSE))].unique_id],
        sources |-> [k \in keys |-> {nodes[i].unique_id : i \in of(k, TRUE)}]]

\* make_unique_id_map: the table of each id, of a node the last one, or None
\* when two tables are the same source's
make_unique_id_map(tables, nodes) ==
    LET map == get_unique_id_mapping(nodes)
        known == SelectSeq(tables, LAMBDA t : lowered(t.key) \in DOMAIN map.nodes)
        add(acc, t) ==
            LET n == map.nodes[lowered(t.key)]
                s == map.sources[lowered(t.key)]
            IN IF acc = None \/ s \cap DOMAIN acc # {} THEN None
               ELSE [id \in s \cup ({n} \ {None}) |-> t] @@ acc
    IN FoldLeft(add, [k \in {} |-> None], known)

\* GenerateTask.run and interpret_results: what is written, None when it
\* raises, and the result of the task
generate(schemas, answers, nodes, warn_error, compile_failed) ==
    LET got == IF schemas = None THEN [rows |-> None, errors |-> 0] ELSE get_catalog(answers, nodes, warn_error)
        catalog == IF got.rows = None THEN None ELSE make_unique_id_map(Catalog(got.rows), nodes)
    IN IF compile_failed THEN [catalog |-> [k \in {} |-> None], errors |-> 0, ok |-> FALSE]
       ELSE [catalog |-> catalog, errors |-> got.errors, ok |-> catalog # None /\ got.errors = 0]
=============================================================================
