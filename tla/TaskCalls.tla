----------------------------- MODULE TaskCalls -----------------------------
(***************************************************************************)
(* What a task computes once its project is loaded: the history that dbt   *)
(* snapshot keeps, the relation of a node in the database, the catalog of  *)
(* dbt docs generate and what a run prepares before its first node.        *)
(***************************************************************************)
EXTENDS LoadCalls

CONSTANTS
    Histories,       \* a snapshot and the versions of its source
    Lookups,         \* the relations of a schema and a node
    Catalogues,      \* nodes and the answers of the catalog queries
    Starts           \* a run, its database and the state that it defers to

Snp == INSTANCE Snapshots
Rel == INSTANCE Relations
Ctl == INSTANCE Catalogs
Sta == INSTANCE RunStart

\* One dbt snapshot per version of the source, on the table of the one before
TakeSnapshots ==
    /\ Calling("snapshot")
    /\ \E c \in Histories :
         /\ ~Snp!validate_raises(c.config)
         /\ call' = [fn |-> "snapshot", of |-> c]
         /\ answer' =
              [tables |-> FoldLeft(LAMBDA ts, v : Append(ts, Snp!snapshot(c.config, c.postgres, v.now, v.columns, v.rows,
                                                                          IF ts = <<>> THEN None ELSE ts[Len(ts)])),
                                   <<>>, c.versions)]

FindRelation ==
    /\ Calling("relation")
    /\ \E c \in Lookups :
         /\ call' = [fn |-> "relation", of |-> c]
         /\ answer' = Rel!get_relation(c.adapter, c.quoting,
                                       Rel!get_relations(Rel!list_relations_without_caching(c.listed) \o c.created),
                                       c.node.path)

GenerateCatalog ==
    /\ Calling("catalog")
    /\ \E c \in Catalogues :
         LET schemas == Ctl!get_catalog_schemas(c.adapter, c.quoting, c.nodes)
         IN /\ schemas # None => Cardinality(DOMAIN schemas) = Len(c.answers)
            /\ call' = [fn |-> "catalog", of |-> c]
            /\ answer' = Ctl!generate(schemas, c.answers, c.nodes, c.warn_error, c.compile_failed)

\* Every selected node that is run ends in any status
StartRun ==
    /\ Calling("start")
    /\ \E c \in Starts : \E begun \in Sta!before_run(c) : \E status \in c.statuses :
         LET ran == {n \in c.selected : ~Sta!is_ephemeral(c.nodes[n])}
         IN /\ call' = [fn |-> "start", of |-> c]
            /\ answer' = [begun |-> begun,
                          ended |-> IF begun.raises THEN None
                                    ELSE Sta!after_run(c, begun.nodes, [n \in ran |-> status])]
-----------------------------------------------------------------------------
(* Snapshots *)

\* The columns in which a snapshot notices changes
Noticed(config, columns) ==
    IF config.strategy = "timestamp" \/ config.check_cols = <<"all">> THEN columns ELSE Range(config.check_cols)

\* The clock of the source does its part: a row that is new or changed has an
\* updated_at between the two snapshots
Honest(c) ==
    \A i \in DOMAIN c.versions : \A row \in c.versions[i].rows :
      LET old == IF i = 1 THEN {} ELSE {r \in c.versions[i - 1].rows : r.id = row.id}
      IN /\ row.upd <= c.versions[i].now
         /\ row \notin old /\ i > 1 => row.upd > c.versions[i - 1].now

\* The version of every row at the time of any earlier snapshot can be read
\* from the table: one record of its key is valid then, and it has the values
\* that the row had, and for a row that was not there none, when deletions are
\* looked for; at no time are two valid (snapshot_staging_table,
\* snapshot_merge_sql).  The merge of databases other than Postgres loses rows
\* whose updated_at did not change.
SnapshotAsOf ==
    (/\ Answers("snapshot")
     /\ call.of.config.updated_at # None => Honest(call.of)
     /\ call.of.postgres \/ call.of.config.updated_at = None) =>
      \A j \in DOMAIN answer.tables : \A i \in 1..j :
        LET c == call.of
            v == c.versions[i]
            at(id, t) == {r \in answer.tables[j].records :
                            /\ r.row.id = id /\ r.dbt_valid_from <= t
                            /\ r.dbt_valid_to = None \/ t < r.dbt_valid_to}
            valid(id) == at(id, v.now)
        IN /\ \A row \in v.rows : \E r \in valid(row.id) :
                /\ valid(row.id) = {r}
                /\ \A col \in Noticed(c.config, v.columns) : r.row[col] = row[col]
                /\ \A t \in 0..v.now : Cardinality(at(row.id, t)) <= 1
           /\ c.config.invalidate_hard_deletes =>
                \A k \in 1..j : \A row \in c.versions[k].rows :
                  (\A other \in v.rows : other.id # row.id) => valid(row.id) = {}

\* On Postgres, whatever the clock of the source does, a row has one current
\* record after each snapshot, with the values that the check strategy
\* compares, and a record that was closed is never touched again.
SnapshotOneCurrent ==
    (Answers("snapshot") /\ call.of.postgres) =>
      \A i \in DOMAIN answer.tables :
        LET c == call.of
            current(id) == {r \in answer.tables[i].records : r.row.id = id /\ r.dbt_valid_to = None}
        IN /\ \A row \in c.versions[i].rows : \E r \in current(row.id) :
                /\ current(row.id) = {r}
                /\ c.config.strategy = "check" =>
                     \A col \in Noticed(c.config, c.versions[i].columns) : r.row[col] = row[col]
           /\ i > 1 => \A r \in answer.tables[i - 1].records : r.dbt_valid_to # None =>
                         \E s \in answer.tables[i].records :
                           /\ [s EXCEPT !.row = r.row] = r
                           /\ \A col \in DOMAIN r.row : s.row[col] = r.row[col]
-----------------------------------------------------------------------------
(* Relations *)

\* The object that a relation's name, as it is rendered, means in the database
Denotes(adapter, r) ==
    LET parts == Rel!render(r)
    IN [i \in DOMAIN parts |-> IF parts[i][3] THEN parts[i][2]
                               ELSE IF adapter = "snowflake" THEN Rel!upper(parts[i][2]) ELSE Rel!lower(parts[i][2])]

\* The relation that get_relation finds for a node is the one that the node's
\* own name means in the database; it finds none only when there is none, and
\* refuses only when another name differs from it by its spelling alone
\* (matches, _make_match_kwargs).
RelationExact ==
    Answers("relation") =>
      LET c == call.of
          node == Rel!create(c.node.path, c.quoting, None)
          there == {Denotes(c.adapter, r) : r \in Range(Rel!list_relations_without_caching(c.listed) \o c.created)}
          same(p, q) == \A k \in DOMAIN p : Rel!lower(p[k]) = Rel!lower(q[k])
      IN /\ answer.found # None => Denotes(c.adapter, answer.found) = Denotes(c.adapter, node)
         /\ (answer.found = None /\ answer.raises = None) => Denotes(c.adapter, node) \notin there
         /\ answer.raises # None => \E p \in there : same(p, Denotes(c.adapter, node)) /\ p # Denotes(c.adapter, node)
-----------------------------------------------------------------------------
(* Catalog *)

\* Two answers type a column as DateTime and as ISODateTime
MixesTimes(answers) ==
    \E i, j \in DOMAIN answers : /\ answers[i] # None /\ answers[j] # None
                                 /\ \E k \in DOMAIN answers[i].types \cap DOMAIN answers[j].types :
                                      answers[i].types[k] = "DateTime" /\ answers[j].types[k] = "ISODateTime"

\* The catalog does not depend on the order in which the queries of
\* catch_as_completed end, unless they disagree about a column between the two
\* types of times: whether these merge depends on which one comes first.
CatalogOrderFree ==
    (Answers("catalog") /\ ~MixesTimes(call.of.answers)) =>
      LET c == call.of
          rotated == Tail(c.answers) \o <<Head(c.answers)>>
      IN \A other \in {Reverse(c.answers), rotated} :
           Ctl!generate(Ctl!get_catalog_schemas(c.adapter, c.quoting, c.nodes), other, c.nodes, c.warn_error, c.compile_failed) = answer

\* Every model and source whose table some query answered is in the catalog
\* with all of its columns, also when another query failed, and a failure is
\* never reported as a success.  Nodes that share a name but for its spelling
\* or its kind (an analysis with the name of a model) hide each other.
CatalogComplete ==
    (Answers("catalog") /\ answer.catalog # None /\ ~call.of.compile_failed) =>
      LET c == call.of
          twins(i) == {j \in DOMAIN c.nodes : /\ Ctl!mapping_key(c.nodes[j]) = Ctl!mapping_key(c.nodes[i])
                                              /\ c.nodes[j].resource_type # "source"}
          got == {i \in DOMAIN c.answers : c.answers[i] # None}
          rows(i) == UNION {{r \in Range(c.answers[k].rows) :
                               r["table_schema"] # None /\ Ctl!lowered(Ctl!TableKey(r)) = Ctl!mapping_key(c.nodes[i])} : k \in got}
      IN /\ \A i \in DOMAIN c.nodes :
              (rows(i) # {} /\ (c.nodes[i].resource_type = "source" \/ Cardinality(twins(i)) = 1)) =>
                 /\ c.nodes[i].unique_id \in DOMAIN answer.catalog
                 /\ answer.catalog[c.nodes[i].unique_id].columns = {r["column_name"] : r \in rows(i)}
         /\ answer.ok <=> got = DOMAIN c.answers
-----------------------------------------------------------------------------
(* The start of a run *)

\* The nodes whose relations n reads: its parents, and through the ephemeral
\* ones theirs
Reads(nodes, n) ==
    LET direct(ns) == UNION {nodes[m].parents : m \in {m \in ns : m = n \/ Sta!is_ephemeral(nodes[m])}}
        one == direct({n})
        two == one \cup direct(one)
    IN {m \in two \cup direct(two) : ~Sta!is_ephemeral(nodes[m])}

\* The schemas that differ from s in case alone, wanted or there
Twins(c, s) ==
    {t \in c.schemas \cup {c.nodes[n].schema : n \in c.selected} : Sta!Lowered(t) = Sta!Lowered(s) /\ t # s}

\* When before_run has ended, every selected node is the one of the project and
\* its schema exists, unless another differs from it in case alone, and no
\* schema is created that existed.
SchemasReady(c, begun) ==
    /\ begun.created \cap c.schemas = {}
    /\ \A n \in c.selected :
         /\ begun.nodes[n] = c.nodes[n]
         /\ Sta!is_relational(c.nodes[n], c.store_failures) /\ ~Sta!is_ephemeral(c.nodes[n])
              => c.nodes[n].schema \in c.schemas \cup begun.created \/ Twins(c, c.nodes[n].schema) # {}

\* When each unselected node was built, in the target or, for --defer, in the
\* state's environment, all that a selected node reads is there, or is built
\* by this run: defer_to_manifest leaves no ref without its relation and hides
\* no relation of the target behind that of the state.
ReadsThere(c, begun) ==
    LET built(n) == \/ Sta!is_ephemeral(c.nodes[n]) \/ <<c.nodes[n].schema, n>> \in c.relations
                    \/ c.defer /\ n \in DOMAIN c.state /\ ~Sta!is_ephemeral(c.state[n])
    IN (\A n \in DOMAIN c.nodes \ c.selected : built(n)) =>
         \A n \in c.selected : \A m \in Reads(begun.nodes, n) :
           IF begun.nodes[m].deferred
           THEN m \notin c.selected /\ <<c.nodes[m].schema, m>> \notin c.relations
           ELSE m \in c.selected \/ <<c.nodes[m].schema, m>> \in c.relations

\* The hooks of a project run in their order, those of the project before those
\* of its packages, and none after one that failed; those of on-run-end are
\* told of schemas that exist.
HooksOrdered(c, ran) ==
    \A i, j \in DOMAIN ran : i < j =>
      /\ ran[i].package = ran[j].package => ran[i].index < ran[j].index
      /\ ran[j].package = c.project_name => ran[i].package = c.project_name

\* A run starts with its schemas made, its refs pointing to relations that
\* exist and its hooks in order (before_run, after_run).
RunPrepared ==
    Answers("start") =>
      LET c == call.of
          begun == answer.begun
      IN /\ HooksOrdered(c, begun.ran)
         /\ \A i \in DOMAIN begun.ran : begun.ran[i].sql # "fails"
         /\ begun.created \cap c.schemas = {}
         /\ ~begun.raises =>
              /\ SchemasReady(c, begun)
              /\ ReadsThere(c, begun)
              /\ HooksOrdered(c, answer.ended.hooks.ran)
              /\ \A s \in answer.ended.database_schemas :
                   \/ s \in c.schemas \cup begun.created \/ Twins(c, s) # {}
                   \/ \A n \in c.selected : c.nodes[n].schema = s => ~Sta!is_relational(c.nodes[n], c.store_failures)
=============================================================================
