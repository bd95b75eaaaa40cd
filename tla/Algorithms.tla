----------------------------- MODULE Algorithms -----------------------------
(***************************************************************************)
(* The pure functions of an invocation, called on every input of a bounded *)
(* set and compared with what they are for: the nodes a selection names,   *)
(* the configuration of a node, the macro a name means and the graph of a  *)
(* manifest.  A state is one call and its answer.                          *)
(***************************************************************************)
EXTENDS TaskCalls

CONSTANTS
    Selections,      \* arguments of dbt's selection of nodes
    Listings,        \* arguments of dbt list
    Configurations,  \* a node's projects, config() calls and place
    MacroSearches,   \* macros, and a name and the package that uses it
    MacroTexts,      \* macros, a macro and the calls in its text
    Materializations,\* macros, and a materialization
    Projects,        \* resources in the order in which they are read
    SchemaTests,     \* definitions of schema.yml with their targets
    ArgOrder, MaxName

Sel == INSTANCE Selectors
Cfg == INSTANCE Configs
Mac == INSTANCE Macros
Man == INSTANCE ManifestOps
Tst == INSTANCE SchemaTests

Types == {"source", "model", "seed", "snapshot", "test", "analysis", "exposure"}

\* The selection of a task with --models and --exclude, of dbt test with
\* --data and --schema, and the same words as a definition of selectors.yml
OfCommandLine(c) ==
    Sel!get_selected(c.manifest, c.prev,
                     Sel!parse_test_selectors(c.data, c.schema, Sel!parse_difference(c.include, c.exclude)), Types)

Definition(c) ==
    LET word(w) == IF Len(w) = 1 THEN Sel!Word(w[1])
                   ELSE Sel!ListOf("intersection", [j \in DOMAIN w |-> Sel!Word(w[j])])
        words(ws) == [i \in DOMAIN ws |-> word(ws[i])]
        minus == IF c.exclude = None THEN <<>> ELSE words(c.exclude)
    IN IF Len(c.include) = 1 /\ Len(c.include[1]) = 1 THEN Sel!Dict(c.include[1][1], minus)
       ELSE Sel!ListOf("union", words(c.include)
                                  \o IF minus = <<>> THEN <<>> ELSE <<Sel!ListOf("exclude", minus)>>)

OfYaml(c) ==
    Sel!get_selected(c.manifest, c.prev,
                     Sel!parse_test_selectors(c.data, c.schema, Sel!parse_from_definition(Definition(c))), Types)

SelectNodes ==
    /\ Calling("select")
    /\ \E c \in Selections :
         /\ \A words \in {c.include, c.exclude} \ {None} : \A r \in UNION {Range(w) : w \in Range(words)} :
              ~Sel!from_single_spec_raises(r) /\ ~Sel!search_raises(Sel!Criteria(r, FALSE), c.prev)
         /\ call' = [fn |-> "select", of |-> c]
         /\ answer' = [cli |-> OfCommandLine(c),
                       yaml |-> IF c.include = None THEN OfCommandLine(c) ELSE OfYaml(c)]

ListNodes ==
    /\ Calling("list")
    /\ \E c \in Listings :
         /\ ~Sel!list_raises(c)
         /\ call' = [fn |-> "list", of |-> c]
         /\ answer' = [nodes |-> Sel!_iterate_selected_nodes(c.manifest, c.prev, c),
                       printed |-> Sel!generate_selectors(c.manifest, c.prev, c)]

ConfigureNode ==
    /\ Calling("configure")
    /\ \E c \in Configurations :
         /\ \A d \in Range(Cfg!Layers(c.own, c.root, c.calls, c.fqn)) : ~Cfg!translate_raises(c.aliases, d)
         /\ call' = [fn |-> "configure", of |-> c]
         /\ answer' = [config |-> Cfg!parsed_config(c.own, c.root, c.calls, c.fqn, c.type, c.aliases),
                       unrendered |-> Cfg!calculate_unrendered(c.own, c.root, c.calls, c.fqn, c.aliases),
                       var |-> Cfg!var(Cfg!merged_vars(c.vars, c.own.name, c.root.name, c.cli), "v", None)]

FindMacro ==
    /\ Calling("macro")
    /\ \E c \in MacroSearches :
         /\ ~Mac!add_macros_raises(c.macros)
         /\ call' = [fn |-> "macro", of |-> c]
         /\ answer' = [namespace |-> Mac!getitem(c.macros, c.internal, c.root, c.package, c.name),
                       resolver |-> Mac!get_macro(c.macros, c.internal, c.root, c.package, c.name),
                       dispatched |-> Mac!dispatch(c.macros, c.internal, c.root, c.package,
                                                   Mac!dispatch_search_packages(c.namespace, c.search_order,
                                                                                c.dependencies),
                                                   c.prefixes, <<"f">>),
                       operation |-> Mac!find_macro_by_name(c.macros, c.internal, c.root, None, c.name),
                       generate |-> Mac!find_generate_macro_by_name(c.macros, c.internal, c.root, "schema")]

CallMacros ==
    /\ Calling("calls")
    /\ \E c \in MacroTexts :
         /\ ~Mac!add_macros_raises(c.env.macros)
         /\ call' = [fn |-> "calls", of |-> c]
         /\ answer' = Mac!reparse_macro(c.env, c.macro, c.text)

FindMaterialization ==
    /\ Calling("materialization")
    /\ \E c \in Materializations :
         /\ call' = [fn |-> "materialization", of |-> c]
         /\ answer' = [macro |-> Mac!find_materialization_macro_by_name(c.macros, c.internal, c.root, "m", c.adapter)]

LoadGraph ==
    /\ Calling("load")
    /\ \E c \in Projects :
         /\ call' = [fn |-> "load", of |-> c]
         /\ answer' = [graph |-> Man!load_graph(c.parsed, c.root, c.warn_error)]

ParseSchemaTest ==
    /\ Calling("test")
    /\ \E c \in SchemaTests :
         /\ call' = [fn |-> "test", of |-> c]
         /\ answer' = [node |-> Tst!parse_test(c),
                       id |-> Tst!unique_id(c.test, c.target, c.column, c.own.name)]

Next ==
    \/ SelectNodes \/ ListNodes \/ ConfigureNode \/ FindMacro \/ CallMacros \/ FindMaterialization \/ LoadGraph \/ ParseSchemaTest
    \/ TakeSnapshots \/ FindRelation \/ GenerateCatalog \/ StartRun \/ LoadSources \/ ExtractBlocks \/ Render
    \/ LoadConfig \/ RunDebug \/ FindUnused \/ Describe
    \/ Return

Spec == Init /\ [][Next]_vars
-----------------------------------------------------------------------------
(* Selection *)

\* The nodes within d edges below or above x, by paths of nodes that are
\* enabled and not empty
RECURSIVE Below(_, _, _)
Below(m, x, d) ==
    LET kids == {y \in DOMAIN m : x \in m[y].depends_on /\ Sel!IsMember(m[y])}
    IN IF d = 0 THEN {} ELSE kids \cup UNION {Below(m, y, d - 1) : y \in kids}

\* What a criterion names: the nodes of its method, and their relatives
NamedBy(m, prev, r) ==
    LET far == Cardinality(DOMAIN m)
        members == {x \in DOMAIN m : Sel!IsMember(m[x])}
        hit == {x \in members : Sel!Matches(Sel!Criteria(r, FALSE), m, prev, x)}
        Above(x, d) == {y \in members : x \in Below(m, y, d)}
        depth(d) == IF d = None THEN far ELSE d
        family(x) == {x} \cup Below(m, x, far)
    IN UNION {{x} \cup (IF r.parents THEN Above(x, depth(r.parents_depth)) ELSE {})
                  \cup (IF r.children THEN Below(m, x, depth(r.children_depth)) ELSE {})
                  \cup (IF r.childrens_parents
                        THEN family(x) \cup UNION {Above(y, far) : y \in family(x)} ELSE {}) : x \in hit}

TestsAmong(m, S, any) ==
    {t \in DOMAIN m : /\ Sel!IsMember(m[t]) /\ Sel!IsTest(m[t])
                      /\ m[t].depends_on \cap S # {}
                      /\ any \/ m[t].depends_on \subseteq S}

\* The selection is what its words say: a node is selected when all criteria
\* of some word name it, and a test that no word names when all its parents are
\* selected, unless --exclude names it or any of its parents, and --data and
\* --schema keep the tests of their kinds.  expand_selection
\* and incorporate_indirect_nodes add the tests at every level of the
\* specification and keep the ones whose parents may still come.
SelectExact ==
    Answers("select") =>
      LET m == call.of.manifest
          include == IF call.of.include = None THEN Sel!DEFAULT_INCLUDES ELSE call.of.include
          exclude == IF call.of.exclude = None THEN Sel!DEFAULT_EXCLUDES ELSE call.of.exclude
          named(r) == NamedBy(m, call.of.prev, r)
          with(r, any) == named(r) \cup TestsAmong(m, named(r), any)
          of(words, any) == UNION {{x \in DOMAIN m : \A j \in DOMAIN words[i] : x \in with(words[i][j], any)} :
                                     i \in DOMAIN words}
          in == of(include, FALSE)
          kinds == {k \in {"data", "schema"} : call.of[k]}
      IN answer.cli = {x \in (in \cup TestsAmong(m, in, FALSE)) \ of(exclude, TRUE) :
                         kinds = {} \/ (Sel!IsTest(m[x]) /\ m[x].test \in kinds)}

\* A selection in selectors.yml is the one of the same words on the command
\* line, but for tests that have another parent than the excluded one: the
\* exclusions of selectors.yml are not greedy (_parse_exclusions).  The
\* definition that the manifest keeps means the same (SelectorDict).
YamlAgrees ==
    Answers("select") =>
      /\ call.of.include # None =>
           Sel!parse_from_definition(Sel!normalized(Definition(call.of))) = Sel!parse_from_definition(Definition(call.of))
      /\ answer.cli \subseteq answer.yaml
      /\ \A x \in answer.yaml \ answer.cli : /\ Sel!IsTest(call.of.manifest[x])
                                             /\ call.of.exclude # None
                                             /\ ~(call.of.manifest[x].depends_on \subseteq answer.yaml)

\* What dbt list prints, given back to --select, lists the same nodes again, but
\* for tests that come along with them and for nodes in a directory that is
\* called like one of them (generate_selectors, is_selected_node).
ListedAgain ==
    Answers("list") =>
      LET c == call.of
          m == c.manifest
          again == Sel!_iterate_selected_nodes(m, c.prev,
                     [c EXCEPT !.models = None, !.exclude = None, !.select = SetToSeq({<<r>> : r \in answer.printed}),
                               !.resource_types = Sel!resource_types(c)])
          below(x, y) == IsPrefix(FlattenSeq(m[y].fqn), FlattenSeq(m[x].fqn))
      IN answer.nodes # {} =>
           /\ answer.nodes \subseteq again
           /\ \A x \in again \ answer.nodes : Sel!IsTest(m[x]) \/ \E y \in answer.nodes : below(x, y)
-----------------------------------------------------------------------------
(* Configuration *)

\* The dictionaries that configure a node, the weakest first: its project's
\* levels above its path, its config() calls, the root project's levels
RECURSIVE LevelAt(_, _)
LevelAt(level, path) ==
    IF path = <<>> THEN <<Cfg!level_config(level)>>
    ELSE IF Head(path) \in DOMAIN level.sub THEN LevelAt(level.sub[Head(path)], Tail(path)) ELSE <<>>

Setters(c) ==
    LET of(project) == FlattenSeq([i \in 1..(Len(c.fqn) + 1) |-> LevelAt(project.config, SubSeq(c.fqn, 1, i - 1))])
        raw == of(c.own) \o c.calls \o (IF c.own.name = c.root.name THEN <<>> ELSE of(c.root))
    IN [i \in DOMAIN raw |-> Cfg!translate(c.aliases, raw[i])]

\* Every value of a node's configuration is its strongest setter's: of a key
\* that appends, those of all setters in their order, and of a key that updates,
\* the strongest setter's of each of its keys.  The variable is the command
\* line's, or the root project's, first the one it scopes to the package
\* (calculate_node_config, update_from, _generate_merged).
StrongestWins ==
    Answers("configure") =>
      LET d == Setters(call.of)
          at(k) == {i \in DOMAIN d : k \in DOMAIN d[i]}
          c == call.of
          vars_of == <<c.cli, c.vars[c.root.name].scoped[c.own.name], c.vars[c.root.name].global,
                       c.vars[c.own.name].scoped[c.own.name], c.vars[c.own.name].global>>
          set == {i \in DOMAIN vars_of : "v" \in DOMAIN vars_of[i]}
      IN /\ \A k \in UNION {DOMAIN d[i] : i \in DOMAIN d} :
              CASE k \in Cfg!AppendKeys ->
                     answer.config[k] = FlattenSeq([i \in DOMAIN d |-> IF i \in at(k) THEN d[i][k] ELSE <<>>])
                [] k \in Cfg!UpdateKeys ->
                     \A j \in UNION {DOMAIN d[i][k] : i \in at(k)} :
                       j \in DOMAIN answer.config[k] /\ answer.config[k][j] = d[Max({i \in at(k) : j \in DOMAIN d[i][k]})][k][j]
                [] OTHER -> d[Max(at(k))][k] # None => answer.config[k] = d[Max(at(k))][k]
         /\ answer.var = IF set = {} THEN None ELSE vars_of[Min(set)]["v"]

\* When state:modified compares two versions of a node by their unrendered
\* configurations and finds none of the compared values changed, the values
\* that the node runs with did not change either, but for keys that append or
\* update: of those the unrendered configuration keeps the strongest setter's
\* value only (UnrenderedConfigGenerator).
SameConfigSound ==
    Answers("configure") =>
      LET c == call.of
          was == [c EXCEPT !.own.config = c.was.own, !.calls = c.was.calls]
          old == Cfg!parsed_config(was.own, was.root, was.calls, was.fqn, was.type, was.aliases)
      IN Cfg!same_config(answer.unrendered,
                         Cfg!calculate_unrendered(was.own, was.root, was.calls, was.fqn, was.aliases))
         => \A k \in DOMAIN answer.unrendered \ (Cfg!ExcludedKeys \cup Cfg!AppendKeys \cup Cfg!UpdateKeys) :
              answer.unrendered[k] # None => answer.config[k] = old[k]
-----------------------------------------------------------------------------
(* Macros *)

Third(c, m) == m.package \notin {c.package, c.root} \cup Range(c.internal)

\* The resolver that finds the macros of schema tests and the namespace that
\* templates are rendered with find the same macro, unless a package that is
\* neither the caller's nor the root project defines one of that name
\* (MacroResolver.get_macro, MacroNamespace.__getitem__).
SearchesAgree ==
    Answers("macro") =>
      \/ \E i \in DOMAIN call.of.macros : call.of.macros[i].name = call.of.name /\ Third(call.of, call.of.macros[i])
      \/ answer.namespace = answer.resolver

\* What a template or adapter.dispatch finds by an unqualified name does not
\* depend on the macros of packages other than its own, the root project and
\* dbt's (_search_order, dispatch), and neither does the macro that names a
\* schema (find_generate_macro_by_name).
MacroIsolation ==
    (Answers("macro") /\ call.of.namespace = None) =>
      LET c == call.of
          mine == SelectSeq(c.macros, LAMBDA m : ~Third(c, m))
      IN /\ answer.namespace = Mac!getitem(mine, c.internal, c.root, c.package, c.name)
         /\ answer.dispatched = Mac!dispatch(mine, c.internal, c.root, c.package, <<None>>, c.prefixes, <<"f">>)
         /\ c.package \in {c.root} \cup Range(c.internal) =>
              answer.generate = Mac!find_generate_macro_by_name(mine, c.internal, c.root, "schema")

\* The macro that run-operation runs and the materialization that a model uses
\* do not depend on the order of the manifest, unless two of the same rank
\* exist, and a materialization of the adapter is never passed over for a
\* default one (find_macro_by_name, find_materialization_macro_by_name,
\* CandidateList.last).
SearchOrderFree ==
    /\ Answers("macro") =>
         LET c == call.of
             locality(m) == Mac!_get_locality(m, c.root, c.internal)
             same == {m \in Range(c.macros) : m.name = c.name /\ locality(m) = locality(answer.operation)}
         IN answer.operation # None /\ Cardinality(same) = 1 =>
              answer.operation = Mac!find_macro_by_name(Reverse(c.macros), c.internal, c.root, None, c.name)
    /\ Answers("materialization") =>
         LET c == call.of
             rank(m) == Mac!MaterializationRank(m, c.adapter, c.root, c.internal)
             again == Mac!find_materialization_macro_by_name(Reverse(c.macros), c.internal, c.root, "m", c.adapter)
             same == {m \in Range(c.macros) : rank(m) = rank(answer.macro)}
         IN answer.macro # None =>
              /\ Cardinality(same) = 1 => again = answer.macro
              /\ \A m \in Range(c.macros) : c.adapter \in Range(m.name) => c.adapter \in Range(answer.macro.name)

\* A macro that is called at run time is among those that the text was found to
\* depend on, whatever the expression for the packages of adapter.dispatch,
\* unless a package of the project has another macro of a name that was
\* searched.  Then too, when packages are given and the macro is none of dbt's
\* (statically_extract_macro_calls, reparse_macros, dispatch).
CallsRecorded ==
    (Answers("calls") /\ answer # Mac!Raises) =>
      LET env == call.of.env
          own == call.of.macro
          internal == Range(Mac!Internal(env))
          searched(c) == IF c.kind = "dispatch" THEN {<<p>> \o c.name : p \in Range(Mac!MacroPrefixes(env))} ELSE {c.name}
          rivals(c, m) == {x \in Range(env.macros) : x.name \in searched(c) /\ x.package \notin internal \cup {m.package}}
          search(c) == Mac!SearchPackages(env, Mac!StaticPackages(env, c.packages), Mac!StaticNamespace(c))
          given(c) == IF c.kind = "dispatch" THEN search(c) # <<None>> ELSE c.package # None
      IN \A c \in {c \in call.of.text : c.package # None \/ c.name # own.name}, node \in {env.root, own.package} :
           LET m == Mac!called(env, node, c)
           IN \/ m \in {None, Mac!Raises} \cup answer.depends_on
              \/ rivals(c, m) # {} /\ (given(c) => m.package \in internal)
-----------------------------------------------------------------------------
(* Manifest *)

\* Whether a project loads, the graph it has then and the tests that are
\* disabled in it do not depend on the order in which its packages and files
\* are read: a ref() without a package takes the first one that the cache has
\* (find_unique_id_for_package), and _check_resource_uniqueness is what makes
\* this one the only one.
LoadOrderFree ==
    Answers("load") =>
      LET c == call.of
          rotated == Tail(c.parsed) \o <<Head(c.parsed)>>
      IN \A other \in {Reverse(c.parsed), rotated} : Man!load_graph(other, c.root, c.warn_error) = answer.graph
-----------------------------------------------------------------------------
(* Schema tests *)

\* Two definitions have the same unique id only when their target, macro,
\* column and arguments are the same, whatever their names look like once
\* joined: of two tests of one id the manifest keeps the second without an
\* error (raise_duplicate_resource_name).
TestIdsDistinct ==
    Answers("test") =>
      \A c \in SchemaTests :
        LET same(x, y) == /\ x.own.name = y.own.name
                          /\ x.target.kind = y.target.kind /\ x.target.name = y.target.name
                          /\ x.target.source = y.target.source
                          /\ x.test.name = y.test.name /\ x.test.namespace = y.test.namespace
                          /\ Tst!column_name(x.target, x.column) = Tst!column_name(y.target, y.column)
                          /\ \A k \in (DOMAIN x.test.args \cup DOMAIN y.test.args) \ Tst!MODIFIER_ARGS :
                               k \in DOMAIN x.test.args \cap DOMAIN y.test.args /\ x.test.args[k] = y.test.args[k]
        IN Tst!unique_id(c.test, c.target, c.column, c.own.name) = answer.id => same(c, call.of)

\* not_null and unique, which are not rendered, have the dependencies, the
\* tags and, in the root project, the severity, alias and enablement that
\* rendering them would give (render_test_update).
ShortcutAgrees ==
    (Answers("test") /\ answer.node # None) =>
      LET rendered == Tst!rendered_test(call.of)
      IN /\ answer.node.refs \o call.of.test.refs = rendered.refs \/ ~Tst!is_shortcut(call.of)
         /\ answer.node.sources = rendered.sources /\ answer.node.tags = rendered.tags
         /\ call.of.own.name = call.of.root.name =>
              \A k \in DOMAIN rendered.config \cap {"severity", "enabled", "alias"} :
                k \in DOMAIN answer.node.config /\ answer.node.config[k] = rendered.config[k]
-----------------------------------------------------------------------------
(* What a user relies on, part by part *)

\* A command works on the nodes that its criteria mean, given on the command line
\* or by selectors.yml (select_nodes, parse_from_definition), and dbt list names
\* them so that they can be selected again (generate_selectors).
SelectionExact == SelectExact /\ YamlAgrees /\ ListedAgain

\* A node runs with the strongest setting of each key, and state:modified misses no
\* change of the settings it compares (calculate_node_config, same_config).
SettingsExact == StrongestWins /\ SameConfigSound

\* The searches for macros find one macro, whoever asks and in whatever order the
\* manifest lists them, are not misled by other packages, and find it by the text of
\* the caller when it is loaded (reparse_macros).
MacrosExact == SearchesAgree /\ MacroIsolation /\ SearchOrderFree /\ CallsRecorded

\* The graph of a project and the descriptions of its resources are those its files
\* say, in whatever order they are read (load_graph, patch_nodes).
ManifestExact == LoadOrderFree /\ DescribedExact

\* No schema test takes the place of another, and dbt's own tests, which are not
\* rendered, are what rendering makes of them (unique_id, render_test_update).
TestsExact == TestIdsDistinct /\ ShortcutAgrees

\* A snapshot's table tells of every row what it is and what it was at each
\* snapshot (snapshot_staging_table, snapshot_merge_sql).
SnapshotsExact == SnapshotOneCurrent /\ SnapshotAsOf

\* The catalog has all that the queries answered, in whatever order they end, and
\* says when one failed (catch_as_completed, GenerateTask.run).
CatalogExact == CatalogOrderFree /\ CatalogComplete

\* A source is checked by the limits that its most specific entry gives, and an
\* override touches the source that it names and no other (patch_source).
SourcesExact == FreshnessExact /\ OverrideScoped

\* A run has the profile and target that were asked for and depends on nothing else
\* in profiles.yml, is told of the configuration it does not use, and loads if dbt
\* debug says so (from_args, get_unused_resource_config_paths, DebugTask.run).
ConfigExact == ConfigIsolated /\ DebugAgrees /\ UnusedExact
=============================================================================
