------------------------------ MODULE Sources ------------------------------
(***************************************************************************)
(* Sources: the definitions and the overrides of the schema files          *)
(* (core/dbt/parser/schemas.py), the sources that they make together       *)
(* (core/dbt/parser/sources.py) and their freshness (task/freshness.py,    *)
(* Adapter.calculate_freshness).                                           *)
(*                                                                         *)
(* What a file says about a source or a table is a function from the keys  *)
(* that it has; None is a null.  A freshness is None or has a bound, None  *)
(* or an age, and a filter.                                                *)
(***************************************************************************)
EXTENDS Integers, SequencesExt

CONSTANT None

\* The defaults of the classes in contracts/graph/unparsed.py
FreshnessThreshold == [warn_after |-> None, error_after |-> None, filter |-> None]
Quoting == [schema |-> None, identifier |-> None]
UnparsedSourceDefinition == [freshness |-> FreshnessThreshold, quoting |-> Quoting, loaded_at_field |-> None,
                             schema |-> None, tags |-> <<>>]
UnparsedSourceTableDefinition == [freshness |-> FreshnessThreshold, quoting |-> Quoting, loaded_at_field |-> None,
                                  identifier |-> None, tags |-> <<>>, tests |-> <<>>]
SourcePatch == [k \in DOMAIN UnparsedSourceDefinition |-> IF k = "freshness" THEN FreshnessThreshold ELSE None]
SourceTablePatch == [k \in DOMAIN UnparsedSourceTableDefinition |->
                       CASE k = "freshness" -> FreshnessThreshold [] k = "quoting" -> Quoting [] OTHER -> None]

from_dict(class, says) == [k \in DOMAIN class |-> IF k \in DOMAIN says THEN says[k] ELSE class[k]]

\* Mergeable.merged
merged(base, update) == [k \in DOMAIN base |-> IF update[k] # None THEN update[k] ELSE base[k]]
-----------------------------------------------------------------------------
(* Schema files *)

\* _check_format_version and get_key_dicts, which wants a list
file_raises(file) == file.version # "2" \/ file.entries = None

\* SourceParser.parse: an entry with overrides is a patch, another one has a
\* source for each of its tables
unique_ids(package, entry) == [i \in DOMAIN entry.tables |-> <<package, entry.name, entry.tables[i].name>>]

add_source(loaded, package, entry, i) ==
    LET id == unique_ids(package, entry)[i]
    IN IF \E k \in DOMAIN loaded.sources : loaded.sources[k].unique_id = id THEN [loaded EXCEPT !.raises = "source"]
       ELSE [loaded EXCEPT !.sources = Append(@, [unique_id |-> id,
               source |-> from_dict(UnparsedSourceDefinition, entry.says),
               table |-> from_dict(UnparsedSourceTableDefinition, entry.tables[i].says)])]

add_source_patch(loaded, entry) ==
    LET tables == [i \in DOMAIN entry.tables |-> [name |-> entry.tables[i].name,
                                                 patch |-> from_dict(SourceTablePatch, entry.tables[i].says)]]
        key == <<entry.overrides, entry.name>>
    IN IF \E k \in DOMAIN loaded.patches : loaded.patches[k].key = key THEN [loaded EXCEPT !.raises = "patch"]
       ELSE [loaded EXCEPT !.patches = Append(@, [key |-> key, patch |-> from_dict(SourcePatch, entry.says), tables |-> tables])]

parse_entry(loaded, package, entry) ==
    IF entry.overrides # None THEN add_source_patch(loaded, entry)
    ELSE FoldLeft(LAMBDA l, i : IF l.raises # None THEN l ELSE add_source(l, package, entry, i),
                  loaded, [i \in DOMAIN entry.tables |-> i])

parse_file(loaded, file) ==
    IF file_raises(file) THEN [loaded EXCEPT !.raises = "file"]
    ELSE FoldLeft(LAMBDA l, e : IF l.raises # None THEN l ELSE parse_entry(l, file.package, e), loaded, file.entries)

parse_files(files) ==
    FoldLeft(LAMBDA l, f : IF l.raises # None THEN l ELSE parse_file(l, f),
             [sources |-> <<>>, patches |-> <<>>, raises |-> None], files)
-----------------------------------------------------------------------------
(* SourcePatcher *)

get_table_named(patch, name) ==
    LET at == {i \in DOMAIN patch.tables : patch.tables[i].name = name}
    IN IF at = {} THEN None ELSE patch.tables[Min(at)].patch

\* By the package and the name of the source
get_patch_for(unpatched, patches) ==
    LET at == {i \in DOMAIN patches : patches[i].key = <<unpatched.unique_id[1], unpatched.unique_id[2]>>}
    IN IF at = {} THEN None ELSE patches[Min(at)]

\* to_patch_dict has what is not null, and freshness in any case
update(base, patch) == [k \in DOMAIN base |-> IF patch[k] # None \/ k = "freshness" THEN patch[k] ELSE base[k]]

patch_source(unpatched, patch) ==
    IF patch = None THEN unpatched
    ELSE LET table_patch == get_table_named(patch, unpatched.unique_id[3])
         IN [unpatched EXCEPT !.source = update(@, patch.patch),
                              !.table = IF table_patch = None THEN @ ELSE update(@, table_patch)]

\* Mutant: a table cannot turn off the freshness of its source
NullInherits(base, table) ==
    IF base # None /\ table # None THEN merged(base, table) ELSE IF table = None THEN base ELSE table

merge_freshness(base, table) ==
    IF base # None /\ table # None THEN merged(base, table)
    ELSE IF base = None /\ table # None THEN table ELSE None

\* SchemaParser.parse_source
parse_source(target) ==
    LET source == target.source
        table == target.table
        or(a, b) == IF a # None THEN a ELSE b
    IN [unique_id |-> target.unique_id,
        schema |-> or(source.schema, target.unique_id[2]), identifier |-> or(table.identifier, target.unique_id[3]),
        loaded_at_field |-> or(table.loaded_at_field, source.loaded_at_field),
        freshness |-> merge_freshness(source.freshness, table.freshness),
        quoting |-> merged(source.quoting, table.quoting),
        tags |-> Range(source.tags) \cup Range(table.tags), tests |-> table.tests]

\* warn_unused: the overrides that no source and the tables of overrides that
\* no table of their source has
unused(sources, patches) ==
    LET used(key) == {i \in DOMAIN sources : <<sources[i].unique_id[1], sources[i].unique_id[2]>> = key}
        tables(key) == {sources[i].unique_id[3] : i \in used(key)}
    IN UNION {IF used(patches[i].key) = {} THEN {<<patches[i].key, None>>}
              ELSE {<<patches[i].key, patches[i].tables[k].name>> :
                      k \in {k \in DOMAIN patches[i].tables : patches[i].tables[k].name \notin tables(patches[i].key)}} :
              i \in DOMAIN patches}

\* patch_sources, of the sources that are enabled
construct_sources(files, disabled, warn_error) ==
    LET loaded == parse_files(files)
        parsed == [i \in DOMAIN loaded.sources |->
                     parse_source(patch_source(loaded.sources[i], get_patch_for(loaded.sources[i], loaded.patches)))]
        unused_tables == unused(loaded.sources, loaded.patches)
    IN IF loaded.raises # None THEN [raises |-> loaded.raises, sources |-> {}, unused |-> {}]
       ELSE IF unused_tables # {} /\ warn_error THEN [raises |-> "unused", sources |-> {}, unused |-> unused_tables]
       ELSE [raises |-> None, sources |-> {s \in Range(parsed) : s.unique_id \notin disabled}, unused |-> unused_tables]
-----------------------------------------------------------------------------
(* Freshness *)

\* FreshnessSelector.node_is_match, ParsedSourceDefinition.has_freshness
has_freshness(source) ==
    /\ source.freshness # None
    /\ source.freshness.warn_after # None \/ source.freshness.error_after # None
    /\ source.loaded_at_field # None

exceeded(bound, age) == bound # None /\ age > bound

\* FreshnessThreshold.status
status(freshness, age) ==
    IF exceeded(freshness.error_after, age) THEN "error"
    ELSE IF exceeded(freshness.warn_after, age) THEN "warn" ELSE "pass"

\* _utc, None when it raises, as it does of a value that is no time (whose
\* local time is None); a time without a time zone is UTC
utc(time) ==
    IF time = None \/ time.local = None THEN None
    ELSE IF time.offset = None THEN time.local ELSE time.local - time.offset

\* Adapter.calculate_freshness on a table whose rows the filter has kept and
\* that were loaded at a time, or None when it has none: the age, or None when
\* it raises.  Time 0 is the first day of year 1.
calculate_freshness(max_loaded_at, snapshotted_at) ==
    LET loaded == IF max_loaded_at = None THEN 0 ELSE utc(max_loaded_at)
        now == utc(snapshotted_at)
    IN IF loaded = None \/ now = None THEN None ELSE now - loaded

\* FreshnessRunner.execute and process_freshness_result: the status of a
\* source that was checked
execute(source, max_loaded_at, snapshotted_at) ==
    LET age == calculate_freshness(max_loaded_at, snapshotted_at)
    IN IF age = None THEN "runtime error" ELSE status(source.freshness, age)

\* The results of the task by source and, as interpret_results has it, whether
\* the command succeeds
snapshot_freshness(sources, max_loaded_at, snapshotted_at) ==
    LET checked == {s \in sources : has_freshness(s)}
        results == {[unique_id |-> s.unique_id, status |-> execute(s, max_loaded_at, snapshotted_at)] : s \in checked}
    IN [results |-> results, ok |-> \A r \in results : r.status \notin {"error", "runtime error"}]
=============================================================================
