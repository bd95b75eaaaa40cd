---------------------------- MODULE MCAlgorithms ----------------------------
(***************************************************************************)
(* Inputs of Algorithms for TLC.                                           *)
(***************************************************************************)
EXTENDS Algorithms

\* Selections: a source, three models with two shapes of their edges, one of
\* the models empty or not, a schema test of two models, a data test and an
\* exposure
Record(name, kind, type, parents, tags, test) ==
    [name |-> name, kind |-> kind, type |-> type, depends_on |-> parents, tags |-> tags,
     test |-> test, test_name |-> IF test = "schema" THEN "unique" ELSE None,
     fqn |-> <<<<"p">>>> \o (IF type = "model" THEN <<<<"dir">>>> ELSE <<>>) \o <<<<name>>>>,
     package |-> "p", source_name |-> "src", in_root |-> TRUE, path |-> <<type, name>>,
     config |-> [k \in {"materialized"} |-> IF name = "b" THEN "table" ELSE "view"],
     enabled |-> TRUE, empty |-> FALSE, contents |-> 0]

Manifest(pb, pc, p2, emptyB) ==
    [s |-> Record("s", "source", "source", {}, {}, None),
     a |-> Record("a", "node", "model", {"s"}, {"hot"}, None),
     b |-> [Record("b", "node", "model", pb, {}, None) EXCEPT !.empty = emptyB],
     c |-> Record("c", "node", "model", pc, {"hot"}, None),
     t1 |-> Record("t1", "node", "test", {"a", "b"}, {}, "schema"),
     t2 |-> Record("t2", "node", "test", p2, {}, "data"),
     e |-> Record("e", "exposure", "exposure", {"c"}, {}, None)]
Manifests ==
    {Manifest({"a"}, {"a", "b"}, {"b", "c"}, FALSE), Manifest({"a"}, {"b"}, {"s", "c"}, FALSE),
     Manifest({"a"}, {"b"}, {"b", "c"}, TRUE), Manifest({"a"}, {"a", "b"}, {}, FALSE), Manifest({}, {"a", "b"}, {"s", "c"}, FALSE)}

Plain == {Sel!Raw("fqn", <<"a">>), Sel!Raw("fqn", <<"b">>), Sel!Raw("tag", <<"hot">>),
          Sel!Raw("source", <<"src">>), Sel!Raw("fqn", <<"t1">>),
          [Sel!Raw("config", <<"table">>) EXCEPT !.args = <<"materialized">>]}
With(r) == {r, [r EXCEPT !.parents = TRUE], [r EXCEPT !.children = TRUE],
            [r EXCEPT !.parents = TRUE, !.parents_depth = 1, !.children = TRUE],
            [r EXCEPT !.children = TRUE, !.children_depth = 1],
            [r EXCEPT !.childrens_parents = TRUE]}
Atoms == UNION {With(r) : r \in Plain}
Few == Plain \cup {[Sel!Raw("fqn", <<"a">>) EXCEPT !.children = TRUE]}
Words == {<<<<x>>>> : x \in Atoms} \cup {<<<<x, y>>>> : x, y \in Few} \cup {<<<<x>>, <<y>>>> : x, y \in Few}
Before == {[Manifest({"a"}, {"b"}, {"b", "c"}, FALSE) EXCEPT !.a.contents = 1, !.c.config["materialized"] = "table"],
           [x \in {"s", "a", "t1"} |-> Manifest({"a"}, {"b"}, {"b", "c"}, FALSE)[x]]}
State == {[Sel!Raw("state", <<v>>) EXCEPT !.children = b] : v \in {"modified", "new"}, b \in BOOLEAN}
Unusual == UNION {With(r) : r \in {Sel!Raw("package", <<"p">>), Sel!Raw("test_name", <<"unique">>), Sel!Raw("exposure", <<"p", "e">>),
                                   Sel!Raw("source", <<"p", "*", "s">>), Sel!Raw("fqn", <<"p", "dir", "*">>),
                                   [Sel!Raw(None, <<"model", "a">>) EXCEPT !.is_path = TRUE]}}
MCSelections ==
    [manifest : Manifests, prev : {None}, include : Words \cup {None},
     exclude : {<<<<x>>>> : x \in Few} \cup {None}, data : {FALSE}, schema : {FALSE}]
      \cup [manifest : Manifests, prev : {None}, include : Words \cup {None},
            exclude : {<<<<Sel!Raw("fqn", <<"c">>)>>>>, None}, data : BOOLEAN, schema : BOOLEAN]
      \cup [manifest : Manifests, prev : Before, include : {<<<<x>>>> : x \in State} \cup {<<<<x>>, <<y>>>> : x \in State, y \in Few},
            exclude : {<<<<x>>>> : x \in State} \cup {None}, data : {FALSE}, schema : {FALSE}]
      \cup [manifest : {Manifest({"a"}, {"b"}, {"b", "c"}, FALSE)}, prev : {None}, include : {<<<<x>>>> : x \in Unusual},
            exclude : {<<<<x>>>> : x \in Unusual} \cup {None}, data : {FALSE}, schema : {FALSE}]
MCListings ==
    [manifest : Manifests, prev : {None}, models : {None} \cup {<<<<x>>>> : x \in Few}, select : {None} \cup {<<<<x>>>> : x \in Plain},
     exclude : {None, <<<<Sel!Raw("fqn", <<"b">>)>>>>},
     resource_types : {{}, {"test"}, {"model"}, {"default"}, {"all"}, {"model", "exposure"}, {"default", "analysis"}}]

\* Configurations: a model of the root project or of a package, with settings
\* at each level of both projects and up to two config() calls
Dict(k, v) == [j \in {k} |-> v]
Hook(h) == Cfg!Key("pre-hook", FALSE, <<h>>)
Quote(plus, v) == Cfg!Key("quoting", plus, Dict("identifier", v))
Is(v) == Cfg!Key("materialized", FALSE, v)
Tree(top, package, dir) ==
    Cfg!Level(top, "p" :> Cfg!Level(package, "dir" :> Cfg!Level(dir, [k \in {} |-> None])))
Trees == {Tree(<<>>, <<>>, <<>>),
          Tree(<<Hook("h1"), Is("table")>>, <<>>, <<Hook("h2"), Quote(TRUE, "yes")>>),
          Tree(<<Quote(TRUE, "no")>>, <<Is("table"), Cfg!Key("dataset", TRUE, "x")>>, <<Is("view")>>),
          Tree(<<>>, <<Cfg!Key("tags", TRUE, <<"t">>), Quote(FALSE, "no")>>, <<Hook("h3"), Is("ephemeral")>>)}
Calls == {<<>>, <<Dict("materialized", "table")>>, <<Dict("materialized", "view"), Dict("pre-hook", <<"h4">>)>>,
          <<Dict("schema", None), Dict("tags", <<"u">>)>>, <<Dict("dataset", "y") @@ Dict("quoting", Dict("schema", "no"))>>}
VarsOf == {[global |-> g, scoped |-> [n \in {"p", "r"} |-> IF n = "p" THEN s ELSE Cfg!Empty]] :
             g \in {Cfg!Empty, Dict("v", 1)}, s \in {Cfg!Empty, Dict("v", 2)}}
Variables == {[p |-> x, r |-> y] : x, y \in VarsOf}
Fixed == [p |-> [global |-> Cfg!Empty, scoped |-> [n \in {"p", "r"} |-> Cfg!Empty]],
          r |-> [global |-> Cfg!Empty, scoped |-> [n \in {"p", "r"} |-> Cfg!Empty]]]
Configuration(own, root, calls, was, vs, cli) ==
    [own |-> [name |-> "p", config |-> own], root |-> root, calls |-> calls, was |-> was, vars |-> vs, cli |-> cli,
     fqn |-> <<"p", "dir", "m">>, type |-> "model", aliases |-> Dict("dataset", "schema")]
MCConfigurations ==
    {Configuration(own, root, calls, [own |-> x.own, calls |-> x.calls], Fixed, Cfg!Empty) :
        own \in Trees, calls \in Calls,
        root \in {[name |-> "p", config |-> Tree(<<>>, <<>>, <<>>)]} \cup {[name |-> "r", config |-> t] : t \in Trees},
        x \in {[own |-> t, calls |-> c] : t \in Trees, c \in Calls}}
      \cup {Configuration(Tree(<<>>, <<>>, <<>>), [name |-> n, config |-> Tree(<<>>, <<>>, <<>>)], <<>>,
                          [own |-> Tree(<<>>, <<>>, <<>>), calls |-> <<>>], v, cli) :
               n \in {"p", "r"}, v \in Variables, cli \in {Cfg!Empty, Dict("v", 3)}}

\* Macros: those of the root project r, the packages p and q, the adapter's
\* package and dbt
InOrder(S) == FoldSet(LAMBDA x, seq : Append(seq, x), <<>>, S)
Macro(p, n) == [package |-> p, name |-> n]
Places == {Macro(p, n) : p \in {"r", "p", "q", "pg", "dbt"}, n \in {<<"f">>, <<"default", "f">>}}
             \cup {Macro("p", <<"pg", "f">>), Macro("q", <<"generate", "schema", "name">>),
                   Macro("dbt", <<"generate", "schema", "name">>)}
MCMacroSearches ==
    [macros : {InOrder(S) : S \in {S \in SUBSET Places : Cardinality(S) <= 4}},
     internal : {<<"pg", "dbt">>}, root : {"r"}, package : {"r", "p", "dbt"}, name : {<<"f">>},
     namespace : {None, "p"}, search_order : {Cfg!Empty}, dependencies : {{"p", "q"}},
     prefixes : {<<"pg", "default">>}]
Callable == {Macro(p, n) : p \in {"r", "p", "pg", "dbt"}, n \in {<<"default", "f">>, <<"pg", "f">>}}
               \cup {Macro(p, <<"g">>) : p \in {"r", "p", "dbt"}}
Plugins == [rs |-> <<"pg">>, pg |-> <<>>]
DispatchList == <<"p", "dispatch", "list">>
MacroEnvs ==
    [macros : {InOrder(S) : S \in {S \in SUBSET Callable : Cardinality(S) <= 3}}, root : {"r"}, plugins : {Plugins}, adapter : {"rs"},
     search_order : {Cfg!Empty, [p |-> <<"r", "p">>]}, dependencies : {{"p"}}, vars : {Cfg!Empty, Dict(DispatchList, <<"r">>)}]
TextCalls ==
    {Mac!MacroCall(q, <<"g">>) : q \in {None, "p", "dbt"}}
      \cup {Mac!DispatchCall(<<"f">>, a, n) :
               a \in {None, Mac!ListExpr(<<"p", "dbt">>), Mac!ListExpr(<<>>), Mac!ConstExpr("p"), Mac!AddExpr(DispatchList, <<"dbt">>), Mac!CallExpr("p")},
               n \in {None, "p"}}
MCMacroTexts == [env : MacroEnvs, macro : {Macro("r", <<"f">>), Macro("p", <<"g">>)}, text : {{c} : c \in TextCalls}]
MCMaterializations ==
    [macros : {InOrder(S) : S \in SUBSET {Macro(p, <<"materialization", "m", a>>) :
                                              p \in {"r", "p", "q", "dbt"}, a \in {"pg", "default"}}},
     internal : {<<"pg", "dbt">>}, root : {"r"}, adapter : {"pg"}]

\* Projects: resources of two packages with the same and with other names
Resource(id, name, package, type, enabled, refs) ==
    [id |-> id, name |-> name, package |-> package, type |-> type, enabled |-> enabled,
     relation |-> id, store_failures |-> FALSE, refs |-> refs, sources |-> <<>>]
Models == {Resource(<<p, n>>, n, p, "model", e, refs) :
             p \in {"r", "p"}, n \in {"a", "b"}, e \in BOOLEAN, refs \in {<<>>, <<<<None, "a">>>>, <<<<"p", "a">>>>}}
Tests == {Resource(<<p, "t">>, "t", p, "test", TRUE, <<<<None, "a">>>>) : p \in {"r", "p", "q"}}
MCProjects ==
    [parsed : {<<x, y>> : x \in Models, y \in Models \cup Tests} \cup
              {<<x, y, z>> : x \in {m \in Models : m.name = "a"}, y \in {m \in Models : m.name = "a"}, z \in Tests},
     root : {"r", "p", "o"}, warn_error : BOOLEAN]

\* Schema tests: builtin and other ones, on models and sources whose names
\* can be confused once they are joined, in the root project or a package
MCArgOrder == <<"column_name", "quote", "values">>
MCMaxName == 5
TestOf(ns, name, args) == [namespace |-> ns, name |-> name, args |-> args, refs |-> <<>>]
Target(kind, source, name) == [kind |-> kind, source |-> source, name |-> name,
                               tags |-> IF kind = "node" THEN {} ELSE {"raw"}, quote_columns |-> FALSE]
Column(n, q) == [name |-> n, quote |-> q, tags |-> {"col"}]
Modifiers == {Cfg!Empty, Dict("severity", "warn"), Dict("enabled", FALSE), Dict("store_failures", TRUE),
              Dict("tags", <<"nightly">>)}
Tested == {Target("node", None, <<"a">>), Target("node", None, <<"a", "b">>), Target("source", "s", <<"a">>)}
Tree1 == Tree(<<>>, <<Cfg!Key("severity", TRUE, "error"), Cfg!Key("tags", TRUE, <<"t">>)>>, <<>>)
Shape(test, target, column, root) ==
    [test |-> test, target |-> target, column |-> column, own |-> [name |-> "p", config |-> Tree1],
     root |-> [name |-> root, config |-> Tree(<<>>, <<>>, <<>>)], fqn |-> <<"p", "dir", "t">>, internal |-> <<"dbt">>,
     macros |-> <<Macro("dbt", <<"test", "unique">>), Macro("p", <<"test", "b", "c">>), Macro("p", <<"test", "b">>)>>]
MCSchemaTests ==
    {Shape(TestOf(None, n, m @@ v), t, column, root) :
        n \in {<<"unique">>, <<"b", "c">>, <<"b">>}, m \in Modifiers, t \in Tested, root \in {"p", "r"},
        v \in {Cfg!Empty, Dict("values", <<"b">>)},
        column \in {None, Column("b", None), Column("b", TRUE)}}
      \cup {Shape(TestOf(<<"p">>, <<"b">>, Dict("quote", <<"x">>)), t, None, "p") : t \in Tested}

\* Snapshots: four versions of one row, which may be missing, with a second
\* column from the third version on or never, by a source that sets updated_at
\* when the row changes or never sets it again
Versions(values, honest, added) ==
    LET at(i) == IF honest /\ (i = 1 \/ values[i] # values[i - 1] \/ (added /\ i = 3)) THEN 2 * i - 1 ELSE 0
        upd(i) == IF honest THEN Max({at(k) : k \in 1..i}) ELSE 1
        columns(i) == {"id", "v", "upd"} \cup (IF added /\ i >= 3 THEN {"w"} ELSE {})
        row(i) == [c \in columns(i) |-> CASE c = "id" -> 1 [] c = "v" -> values[i] [] c = "upd" -> upd(i) [] OTHER -> "w"]
    IN [i \in 1..4 |-> [now |-> 2 * i, columns |-> columns(i), rows |-> IF values[i] = "gone" THEN {} ELSE {row(i)}]]
SnapshotConfig(strategy, updated_at, check_cols, deletes) ==
    [strategy |-> strategy, updated_at |-> updated_at, check_cols |-> check_cols, unique_key |-> "id",
     invalidate_hard_deletes |-> deletes]
MCHistories ==
    [config : {SnapshotConfig("timestamp", "upd", None, d) : d \in BOOLEAN}
                \cup {SnapshotConfig("check", u, c, d) : u \in {None, "upd"}, c \in {<<"all">>, <<"v">>}, d \in BOOLEAN},
     postgres : BOOLEAN,
     versions : {Versions(values, honest, added) : values \in [1..4 -> {"gone", "a", "b", None}],
                                                   honest \in BOOLEAN, added \in BOOLEAN}]

\* Relations: up to two objects of a schema, one that this invocation created,
\* and the name of a node in each spelling and quoting
Spelled(s) == <<"t", s>>
Spellings == {"lower", "upper", "mixed"}
PathOf(s) == Rel!Path(<<"db", "lower">>, <<"s", "lower">>, Spelled(s))
Quotings(b) == [Rel!All(TRUE) EXCEPT !["identifier"] = b]
Object(s) == [path |-> PathOf(s), type |-> "table"]
Created(s, b) == [Rel!create(PathOf(s), Quotings(b), "table") EXCEPT !.dbt_created = TRUE]
MCLookups ==
    UNION {[adapter : {"postgres", "snowflake"}, quoting : {Quotings(b)},
            listed : {<<>>} \cup {<<Object(s)>> : s \in Spellings}
                       \cup {<<Object(s), Object(t)>> : s \in {"lower", "mixed"}, t \in {"upper"}},
            created : {<<>>} \cup {<<Created(s, b)>> : s \in Spellings},
            node : {[path |-> PathOf(s)] : s \in Spellings}] : b \in BOOLEAN}

\* Catalogs: a model and perhaps another node with its name, and sources in the
\* same and in another database, whose queries fail or answer with a statistic
\* of some type or with none
Low(n) == <<n, "lower">>
CatalogNode(id, type, database, name) ==
    [unique_id |-> id, resource_type |-> type, database |-> Low(database), schema |-> Low("s"), identifier |-> name,
     quoting |-> [k \in {} |-> TRUE]]
CatalogRow(database, schema, name, column, stats) ==
    ("table_database" :> Low(database)) @@ ("table_schema" :> schema) @@ ("table_name" :> name)
      @@ ("column_name" :> column) @@ stats
Catalogued(database, tables, type, value) ==
    LET stats == IF type = None THEN [k \in {} |-> None] ELSE "stats" :> value
        rows == FlattenSeq([i \in DOMAIN tables |-> <<CatalogRow(database, Low("s"), tables[i], "c1", stats),
                                                      CatalogRow(database, Low("s"), tables[i], "c2", stats)>>])
    IN [types |-> [k \in {"table_database", "table_schema", "table_name", "column_name"} |-> "Text"]
                    @@ (IF type = None THEN [k \in {} |-> None] ELSE "stats" :> type),
        rows |-> Append(rows, CatalogRow(database, None, Low("x"), "c", stats))]
CatalogTypes == {<<None, None>>, <<"Number", 1>>, <<"Text", None>>, <<"Text", 1>>, <<"DateTime", 1>>, <<"ISODateTime", 1>>}
AnswersOf(database, tables) == {None} \cup {Catalogued(database, tables, t[1], t[2]) : t \in CatalogTypes}
MCCatalogues ==
    [adapter : {"postgres", "snowflake"}, quoting : {Rel!All(FALSE)},
     nodes : {<<CatalogNode("m", "model", "db", Low("m"))>> \o more \o other :
                more \in {<<>>, <<CatalogNode("a", "analysis", "db", Low("m"))>>,
                          <<CatalogNode("n", "model", "db", <<"m", "upper">>)>>,
                          <<CatalogNode("t", "source", "db", Low("m"))>>,
                          <<[CatalogNode("t", "source", "db", Low("m")) EXCEPT !.quoting = "database" :> TRUE]>>},
                other \in {<<>>, <<CatalogNode("o", "source", "db2", Low("o"))>>}},
     answers : UNION {{<<x>>, <<x, y>>} : x \in AnswersOf("db", <<Low("m")>>) \cup AnswersOf("db", <<Low("m"), <<"m", "upper">>>>),
                                          y \in AnswersOf("db2", <<Low("o")>>)}
                 \cup UNION {{<<x, y, x>>, <<x, y, None>>} : x \in AnswersOf("db", <<Low("m")>>), y \in AnswersOf("db2", <<Low("o")>>)},
     warn_error : BOOLEAN, compile_failed : BOOLEAN]

\* Sources: package pkg has a source with a table, the root project perhaps one
\* of the same name and an override of either
Limits(warn, error) == [warn_after |-> warn, error_after |-> error, filter |-> None]
Freshness == {Cfg!Empty} \cup {"freshness" :> f : f \in {None, Limits(3, 4)}}
Says(freshness, tags) == freshness @@ ("tags" :> tags)
SourceEntry(overrides, says, tables) == [overrides |-> overrides, name |-> "s", says |-> says, tables |-> tables]
SourceTable(name, says) == [name |-> name, says |-> says]
SourceFile(package, entries) == [package |-> package, version |-> "2", entries |-> entries]
PlainSource == SourceEntry(None, ("freshness" :> Limits(1, 2)) @@ ("loaded_at_field" :> "f"), <<SourceTable("t", Cfg!Empty)>>)
Overrides ==
    {<<SourceEntry(of, Says(f, <<"o">>), ts)>> :
       of \in {"pkg", "gone"}, f \in Freshness \cup {"freshness" :> Limits(2, None)},
       ts \in {<<>>, <<SourceTable("u", "freshness" :> None)>>} \cup {<<SourceTable("t", Says(g, <<"p">>))>> : g \in Freshness}}
MCSchemaFiles ==
    [files : {<<SourceFile("pkg", <<SourceEntry(None, Says(f, <<"s">>) @@ ("loaded_at_field" :> "f"),
                                                <<SourceTable("t", Says(g, <<"t">>))>>)>>), SourceFile("root", o)>> :
                f \in Freshness \cup {"freshness" :> Limits(2, None)}, g \in Freshness, o \in Overrides \cup {<<>>}}
               \cup {<<[SourceFile("root", <<PlainSource>> \o o) EXCEPT !.version = v], SourceFile("pkg", <<PlainSource>>)>> :
                       v \in {"1", "2"}, o \in Overrides \cup {<<PlainSource>>, <<SourceEntry("pkg", Cfg!Empty, <<>>),
                                                                          SourceEntry("pkg", "loaded_at_field" :> "g", <<>>)>>}},
     disabled : {{}, {<<"pkg", "s", "t">>}}, warn_error : BOOLEAN,
     max_loaded_at : {None, [local |-> None, offset |-> None], [local |-> 10, offset |-> None], [local |-> 10, offset |-> 1]},
     snapshotted_at : {[local |-> 12, offset |-> None], [local |-> 12, offset |-> -1]}]

\* Jinja: a block among others, with pieces that hide a marker in its body
Pieces == {<<"t", "'">>, <<"{#", "{%", "endmacro", "%}", "#}">>, <<"{{", "'", "}}", "{%", "endmacro", "%}", "'", "}}">>,
           <<"{{", "x", "\"", "{%", "'", "\"", "}}">>, <<"{%", "set", "x", "'", "%}", "{%", "enddocs", "%}", "'", "%}">>,
           <<"{%", "raw", "%}", "{%", "endmacro", "%}", "{%", "endraw", "%}">>,
           <<"{%", "if", "x", "%}", "{%", "for", "%}", "{%", "endfor", "%}", "{%", "endif", "%}">>}
Piece(tokens) == [type |-> None, name |-> None, contents |-> tokens]
BlockOf(type, tokens) == [type |-> type, name |-> "m", contents |-> tokens]
MCTemplates ==
    [parts : {<<BlockOf("macro", a \o b)>> : a, b \in Pieces} \cup {<<Piece(a), BlockOf("docs", b)>> : a, b \in Pieces}
               \cup {<<BlockOf("docs", a), Piece(b), BlockOf("macro", a)>> : a, b \in Pieces},
     cut : 0..15, allowed_blocks : {{"macro"}, {"macro", "docs"}}, collect_raw_data : BOOLEAN]
MCNames == {"macro", "endmacro", "docs", "enddocs", "set", "x", "m", "raw", "endraw", "if", "endif", "for", "endfor"}

\* Renderings: a model of the root project or of a package and its hook, in a
\* project with a name in two packages, an ephemeral and a disabled model
Other(id, name, package, type, enabled, ephemeral) ==
    Resource(id, name, package, type, enabled, <<>>) @@ [ephemeral |-> ephemeral]
Others == <<Other(<<"r", "a">>, "a", "r", "model", TRUE, FALSE), Other(<<"q", "a">>, "a", "q", "model", TRUE, FALSE),
            Other(<<"r", "e">>, "e", "r", "model", TRUE, TRUE), Other(<<"r", "d">>, "d", "r", "model", FALSE, FALSE),
            Other(<<"q", "s", "t">>, <<"s", "t">>, "q", "source", TRUE, FALSE)>>
Ifs == {[on |-> x, name |-> "v"] : x \in {"always", "execute", "var", "config"}}
CallsOf(ifs) ==
    [if : ifs, op : {"ref"}, args : {<<"a">>, <<"q", "a">>, <<"e">>, <<"d">>, <<>>}]
      \cup [if : ifs, op : {"source"}, args : {<<"s", "t">>}]
      \cup [if : ifs, op : {"config"}, opts : {Dict("v", "yes")}]
NodeOf(package, sql, hooks) ==
    Other(<<package, "n">>, "n", package, "model", TRUE, FALSE)
      @@ [sql |-> sql, hooks |-> hooks, depends_on |-> <<>>, config |-> Cfg!Empty]
VarsHere == [p \in {"r", "q"} |-> [global |-> IF p = "q" THEN Dict("v", "yes") ELSE Cfg!Empty,
                                  scoped |-> [x \in {"r", "q"} |-> Cfg!Empty]]]
MCRenderings ==
    [parsed : {Others}, root : {"r"}, vars : {VarsHere}, cli : {Cfg!Empty}, operation : BOOLEAN,
     node : {NodeOf(p, <<x, y>>, z) : p \in {"r", "q"}, x, y \in CallsOf(Ifs),
                                      z \in {<<>>} \cup {<<[if |-> i, op |-> "ref", args |-> <<"a">>]>> : i \in Ifs}}]

\* Setups: profiles with two targets, of which one or both need variables, and
\* a project that names its profile with or without one
Doc(type, schema) == [k \in {<<"type">>, <<"schema">>} |-> IF k = <<"type">> THEN Load!Text(type) ELSE schema]
ProfileOf(target, dev, prod) == [target |-> target, outputs |-> [dev |-> dev, prod |-> prod]]
MyProfiles ==
    {ProfileOf(t, d, Doc("postgres", Load!Var("v"))) :
       t \in {None, Load!Text("dev"), Load!Text("prod"), Load!Var("w")},
       d \in {Doc("postgres", Load!Text("s")) @@ [k \in {<<"threads">>} |-> Load!Text("4")], Doc("other", Load!Text("s")), None}}
      \cup {[target |-> Load!Text("dev"), outputs |-> None]}
ProfileFiles == {None, Cfg!Empty} \cup {[mine |-> p, yours |-> q] : p \in MyProfiles, q \in {None, ProfileOf(None, None, Doc("postgres", Load!Var("v")))}}
FileOf(version, require, doc, packages) ==
    [exists |-> TRUE, is_dict |-> TRUE, config_version |-> version, require |-> require, doc |-> doc, packages |-> packages]
AtLeast(v) == <<[matcher |-> ">=", version |-> v]>>
Named(name, more) == [k \in {<<"name">>} |-> Load!Text(name)] @@ more
Entry(path, value) == [k \in {path} |-> value]
ProjectFiles ==
    {FileOf(2, AtLeast(<<0, 1, 0>>), Named("r", Entry(<<"profile">>, p) @@ Entry(<<"on-run-start">>, Load!Var("nowhere")) @@ m), pk) :
       p \in {Load!Text("mine"), Load!Var("v")}, pk \in {Cfg!Empty, Entry(<<"1">>, Load!Text("q"))},
       m \in {Entry(<<"models", "r", "+schema">>, Load!Var("w")), Entry(<<"quoting", "schema">>, Load!Text("no"))}}
      \cup {FileOf(1, <<>>, Named("r", Cfg!Empty), Cfg!Empty), FileOf(2, AtLeast(<<9, 0, 0>>), Named("r", Cfg!Empty), Cfg!Empty),
            FileOf(2, <<>>, Named("r", Cfg!Empty), Cfg!Empty),
            [FileOf(2, <<>>, Cfg!Empty, Cfg!Empty) EXCEPT !.exists = FALSE]}
Package(name, value) == FileOf(2, <<>>, Named(name, Entry(<<"models", name, "+schema">>, value)), Cfg!Empty)
MCSetups ==
    [profiles : ProfileFiles, project : ProjectFiles,
     installed : {<<>>, <<Package("q", Load!Text("s"))>>, <<Package("q", Load!Var("w"))>>, <<Package("r", Load!Text("s"))>>},
     args : [profile : {None, "yours"}, target : {None, "prod"}, threads : {None}, version_check : {TRUE}, installed : {<<0, 21, 0>>},
             needs_profile : BOOLEAN, vars : {Cfg!Empty, [v |-> "mine", w |-> "dev"]}]]
MCCheckups ==
    {c \in [setup : {s \in MCSetups : s.installed = <<>> /\ s.args.needs_profile}, config_dir : BOOLEAN, git : BOOLEAN, connects : BOOLEAN] :
       (c.config_dir \/ ~c.git) => c.connects}

\* Paths: settings on the levels of two types
SetHere(name, value) == <<Cfg!Key(name, FALSE, value)>>
PathTrees ==
    {Cfg!Level(a, "r" :> Cfg!Level(b, "d" :> Cfg!Level(c, Cfg!Empty)) @@ "p" :> Cfg!Level(d, Cfg!Empty)) :
       a \in {<<>>, SetHere("materialized", "table")}, b \in {<<>>, <<Quote(FALSE, "no")>>, <<Quote(TRUE, "no")>>},
       c \in {<<>>, SetHere("materialized", "table")}, d \in {<<>>, SetHere("schema", "s")}}
ResourceAt(type, fqn, enabled) == [type |-> type, fqn |-> fqn, enabled |-> enabled]
MCPathSetups ==
    [root : {"r"}, configs : {[model |-> t, seed |-> u] : t \in PathTrees, u \in {Cfg!Level(<<>>, Cfg!Empty), Cfg!Level(SetHere("schema", "s"), Cfg!Empty)}},
     resources : {R \in SUBSET ({ResourceAt("model", f, e) : f \in {<<"r", "d">>, <<"r", "d", "x">>, <<"p", "y">>}, e \in BOOLEAN}
                                  \cup {ResourceAt("seed", <<"r", "z">>, TRUE)}) : Cardinality(R) <= 2}]

\* Starts of a run: a chain of three nodes of which any are selected, built or
\* in the state; schemas that differ in case, with a test that may store its
\* failures; and the hooks of a project and two packages
Schema(name, case) == [database |-> "db", name |-> name, case |-> case]
Vertex(type, materialized, schema, parents, store) ==
    [type |-> type, materialized |-> materialized, schema |-> schema, parents |-> parents,
     store_failures |-> store, deferred |-> FALSE]
Chain(ma, mb, schema, pc) ==
    [a |-> Vertex("model", ma, schema, {}, None), b |-> Vertex("model", mb, schema, {"a"}, None),
     c |-> Vertex("model", "table", schema, pc, None)]
Mats == {"table", "ephemeral"}
Dev == Schema("dev", "lower")
Prod == Schema("prod", "lower")
HookLists(n, start, end) == [name |-> n, on_run_start |-> start, on_run_end |-> end]
Statements == {<<>>, <<"works">>, <<"works", "works">>, <<"works", "fails">>, <<"fails", "works">>}
MCStarts ==
    [task : {"run"}, nodes : {Chain(ma, mb, Dev, pc) : ma, mb \in Mats, pc \in {{"b"}, {"a", "b"}}},
     state : {None} \cup {Restrict(Chain(ma, mb, Prod, {"b"}), S) : ma, mb \in Mats, S \in SUBSET {"a", "b", "c"}},
     defer : BOOLEAN, selected : SUBSET {"a", "b", "c"}, schemas : {{Dev}},
     relations : {{<<Dev, n>> : n \in S} : S \in SUBSET {"a", "b"}},
     store_failures : {FALSE}, projects : {<<>>}, project_name : {2}, statuses : {{"success"}}]
      \cup [task : {"run", "test"},
            nodes : {[a |-> Vertex("model", "table", x, {}, None), b |-> Vertex("seed", "seed", y, {}, None),
                      c |-> Vertex("test", "test", z, {"a", "b"}, store)] :
                        x, y, z \in {Dev, Schema("dev", "upper"), Prod}, store \in {None, FALSE, TRUE}},
            state : {None}, defer : {FALSE}, selected : {{"a"}, {"a", "b"}, {"c"}},
            schemas : SUBSET {Dev, Schema("dev", "upper"), Prod},
            relations : {{}}, store_failures : BOOLEAN, projects : {<<>>}, project_name : {2},
            statuses : {{"success", "error"}}]
      \cup [task : {"run", "test"}, nodes : {Chain("table", "table", Dev, {"b"})}, state : {None}, defer : BOOLEAN,
            selected : {{"a"}}, schemas : {{}}, relations : {{}}, store_failures : {FALSE},
            projects : {<<HookLists(2, x, y), HookLists(3, z, <<"works">>), HookLists(1, w, y)>> : x, y, z, w \in Statements},
            project_name : {2}, statuses : {{"success"}}]

\* Descriptions: two nodes and a macro of the project or of a package, with up
\* to two entries in two schema files and docs blocks in any package
Telling(d, p) == [doc |-> d, package |-> p]
Item(key, name, d, col) ==
    [key |-> key, name |-> name, description |-> d,
     columns |-> IF col = None THEN <<>> ELSE <<[name |-> "id", description |-> col]>>,
     depends_on |-> IF key = "exposures" THEN <<"x">> ELSE <<>>]
Thing(id, name, package, type) ==
    [id |-> id, name |-> name, package |-> package, type |-> type,
     description |-> Pat!Empty, columns |-> [x \in {} |-> Pat!Empty]]
Block(name, package) == [name |-> name, package |-> package, contents |-> <<name, package>>]
Tellings == {Pat!Empty, Telling("d", None), Telling("d", "dep")}
Items ==
    {Item(k, n, d, col) : k \in {"models", "seeds"}, n \in {"x", "y"}, d \in Tellings, col \in {None, Telling("d", None)}}
      \cup {Item("macros", "x", d, None) : d \in Tellings}
      \cup {Item("exposures", "x", d, None) : d \in {Telling("d", None)}}
MCDescribed ==
    [project_name : {"root"}, warn_error : BOOLEAN,
     nodes : {<<Thing("n1", "x", "root", "model"), Thing("n2", y, p, t)>> :
                y \in {"x", "y"}, p \in {"dep"}, t \in {"seed", "analysis"}},
     macros : {<<Thing("m1", "x", "root", "macro"), Thing("m2", "x", "dep", "macro")>>},
     sources : {<<>>, <<[Thing("s1", "x", "dep", "source") EXCEPT !.description = Telling("d", None)]>>},
     docs : {<<>>, <<Block("d", "dep")>>, <<Block("d", "dep"), Block("d", "root")>>, <<Block("d", "other")>>},
     files : {<<[package |-> "root", entries |-> <<e>>], [package |-> "dep", entries |-> <<f>>]>> : e, f \in Items}
               \cup {<<[package |-> p, entries |-> <<e, f>>]>> : p \in {"dep"}, e \in Items, f \in {Item("models", "x", Telling("d", None), None)}}]
=============================================================================
