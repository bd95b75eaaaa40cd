----------------------------- MODULE Snapshots -----------------------------
(***************************************************************************)
(* The snapshot materialization (include/global_project/macros/            *)
(* materializations/snapshot, and the merge of the Postgres plugin): the   *)
(* history of a query's rows, one record per version of a row.             *)
(*                                                                         *)
(* A row is a function from column names to values, a null is None.  A     *)
(* target is None or a table: its columns and its records, which are the   *)
(* row, with a null in every column that the query did not have, and dbt's *)
(* own columns.  Values of updated_at and the clock of the database are    *)
(* numbers, and an md5 is taken to be different for different arguments.   *)
(***************************************************************************)
EXTENDS Integers, FiniteSets

CONSTANT None

META == {"dbt_scd_id", "dbt_updated_at", "dbt_valid_from", "dbt_valid_to"}

\* SnapshotConfig.validate, of the two strategies of dbt; check_cols is None,
\* "all" in a tuple, or a tuple of columns
validate_raises(config) ==
    \/ config.strategy = "check" /\ config.check_cols = None
    \/ config.strategy = "timestamp" /\ (config.updated_at = None \/ config.check_cols # None)

\* Adapter.valid_snapshot_target
valid_snapshot_target(target) == {"dbt_scd_id", "dbt_valid_from", "dbt_valid_to"} \subseteq target.columns
-----------------------------------------------------------------------------
(* Strategies *)

\* The columns of the query that the target has, and whether it lacks one
snapshot_check_all_get_existing_columns(columns, target) ==
    IF target = None THEN [added |-> FALSE, check_cols |-> columns]
    ELSE [added |-> ~(columns \subseteq target.columns), check_cols |-> columns \cap target.columns]

\* The updated_at of a row: its column's value, or when the snapshot started
updated_at(config, now, row) == IF config.updated_at = None THEN now ELSE row[config.updated_at]

scd_id(config, now, row) == <<row[config.unique_key], updated_at(config, now, row)>>

\* A null never compares as less
snapshot_timestamp_strategy(config, columns, target, record, row) ==
    LET new == row[config.updated_at]
    IN record.dbt_valid_from # None /\ new # None /\ record.dbt_valid_from < new

\* Two nulls are equal, a null and a value are not
snapshot_check_strategy(config, columns, target, record, row) ==
    LET all == snapshot_check_all_get_existing_columns(columns, target)
        check_cols == IF config.check_cols = <<"all">> THEN all.check_cols
                      ELSE {config.check_cols[i] : i \in DOMAIN config.check_cols}
    IN \/ config.check_cols = <<"all">> /\ all.added
       \/ \E col \in check_cols : record.row[col] # row[col]

row_changed(config, columns, target, record, row) ==
    IF config.strategy = "timestamp"
    THEN snapshot_timestamp_strategy(config, columns, target, record, row)
    ELSE snapshot_check_strategy(config, columns, target, record, row)
-----------------------------------------------------------------------------
(* Staging and merge *)

Record(config, now, row) ==
    [row |-> row, dbt_scd_id |-> scd_id(config, now, row), dbt_updated_at |-> updated_at(config, now, row),
     dbt_valid_from |-> updated_at(config, now, row), dbt_valid_to |-> None]

\* build_snapshot_table
build_snapshot_table(config, now, columns, rows) ==
    [columns |-> columns \cup META, records |-> {Record(config, now, row) : row \in rows}]

\* snapshot_staging_table: what to insert, and the ids of the records to close
\* with the time when they end
snapshot_staging_table(config, now, columns, rows, target) ==
    LET key(row) == row[config.unique_key]
        snapshotted_data == {r \in target.records : r.dbt_valid_to = None}
        changed(r, row) == key(r.row) = key(row) /\ row_changed(config, columns, target, r, row)
        insertions == {row \in rows : \/ \A r \in snapshotted_data : key(r.row) # key(row)
                                      \/ \E r \in snapshotted_data : changed(r, row)}
        updates == {[dbt_scd_id |-> p[1].dbt_scd_id, dbt_valid_to |-> updated_at(config, now, p[2])] :
                      p \in {p \in snapshotted_data \X rows : changed(p[1], p[2])}}
        deletes == {[dbt_scd_id |-> r.dbt_scd_id, dbt_valid_to |-> now] :
                      r \in {r \in snapshotted_data : \A row \in rows : key(r.row) # key(row)}}
    IN [insert |-> {Record(config, now, row) : row \in insertions},
        close |-> updates \cup (IF config.invalidate_hard_deletes THEN deletes ELSE {})]

\* Mutant: the record is closed when the snapshot runs, not when the row
\* changed
ClosesNow(now, staging, records) ==
    {IF r.dbt_valid_to = None /\ \E u \in staging.close : u.dbt_scd_id = r.dbt_scd_id
     THEN [r EXCEPT !.dbt_valid_to = now] ELSE r : r \in records}

\* The current records whose id is among those to close are closed
Closed(now, staging, records) ==
    {IF r.dbt_valid_to = None /\ \E u \in staging.close : u.dbt_scd_id = r.dbt_scd_id
     THEN [r EXCEPT !.dbt_valid_to = (CHOOSE u \in staging.close : u.dbt_scd_id = r.dbt_scd_id).dbt_valid_to]
     ELSE r : r \in records}

\* postgres__snapshot_merge_sql: an update, then an insert
postgres__snapshot_merge_sql(now, staging, records) == Closed(now, staging, records) \cup staging.insert

\* default__snapshot_merge_sql: one merge, which inserts what matches no id
default__snapshot_merge_sql(now, staging, records) ==
    Closed(now, staging, records)
      \cup {n \in staging.insert : \A r \in records : r.dbt_scd_id # n.dbt_scd_id}

\* get_missing_columns and create_columns: a new column is null in the records
\* that are there, and a column that the query lost is null in the new ones
Widened(columns, records) ==
    {[r EXCEPT !.row = [c \in columns |-> IF c \in DOMAIN r.row THEN r.row[c] ELSE None]] : r \in records}

\* The materialization, on a database whose merge is the one of Postgres or
\* dbt's own; None when it raises
snapshot(config, postgres, now, columns, rows, target) ==
    IF target = None THEN build_snapshot_table(config, now, columns, rows)
    ELSE IF ~valid_snapshot_target(target) THEN None
    ELSE LET all == columns \cup (target.columns \ META)
             staged == snapshot_staging_table(config, now, columns, rows, target)
             staging == [staged EXCEPT !.insert = Widened(all, staged.insert)]
             records == Widened(all, target.records)
         IN [columns |-> all \cup META,
             records |-> IF postgres THEN postgres__snapshot_merge_sql(now, staging, records)
                         ELSE default__snapshot_merge_sql(now, staging, records)]
=============================================================================
