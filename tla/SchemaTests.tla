---------------------------- MODULE SchemaTests ----------------------------
(***************************************************************************)
(* The tests of schema.yml (core/dbt/parser/schemas.py,                    *)
(* parser/schema_test_builders.py): from the definition of a test to its   *)
(* node.                                                                   *)
(*                                                                         *)
(* A definition has a name and perhaps a namespace, the arguments (a       *)
(* function from their names to sequences of values), and the refs that    *)
(* arguments other than the model make.  A target is a node or a table of  *)
(* a source.  Names are sequences of the parts that underscores join, so   *)
(* that joined names may be equal although what was joined is not.  A      *)
(* hash is taken to be different for different contents, and severities    *)
(* are compared without regard to case.                                    *)
(***************************************************************************)
EXTENDS Integers, SequencesExt

CONSTANTS
    None,      \* Python's None
    ArgOrder,  \* the names of arguments in alphabetical order
    MaxName    \* names of more parts than this do not fit in 64 characters

Cfg == INSTANCE Configs
Mac == INSTANCE Macros

MODIFIER_ARGS == {"severity", "tags", "enabled", "store_failures"}
-----------------------------------------------------------------------------
(* TestBuilder *)

\* The column of a test, quoted when it or its target says so
column_name(target, column) ==
    CASE column = None -> <<>>
      [] column.quote = TRUE \/ (column.quote = None /\ target.quote_columns) -> <<"quote", column.name>>
      [] OTHER -> <<column.name>>

\* build_model_str
build_model_str(target) ==
    IF target.kind = "node" THEN <<"ref">> \o target.name ELSE <<"source", target.source>> \o target.name

\* The arguments without the modifiers, with the model and the column
builder_args(test, target, column) ==
    LET own == [k \in DOMAIN test.args \ MODIFIER_ARGS |-> test.args[k]]
        on == IF column = None THEN Cfg!Empty ELSE [k \in {"column_name"} |-> column_name(target, column)]
    IN Cfg!Updated(Cfg!Updated(own, on), [k \in {"model"} |-> build_model_str(target)])

builder_raises(test) == "model" \in DOMAIN test.args

\* get_nice_schema_test_name, as the pair of the short and the full name
get_nice_schema_test_name(test_type, test_name, args) ==
    LET names == SelectSeq(ArgOrder, LAMBDA k : k \in DOMAIN args /\ k # "model")
        full == test_type \o test_name \o FlattenSeq([i \in DOMAIN names |-> args[names[i]]])
    IN [full |-> full, short |-> IF Len(full) > MaxName THEN <<"md5", full>> ELSE full]

get_test_name(test, target, column) ==
    LET of == IF target.kind = "node" THEN test.name ELSE <<"source">> \o test.name
        full == IF test.namespace = None THEN of ELSE test.namespace \o of
    IN get_nice_schema_test_name(full, target.name, builder_args(test, target, column))

\* The modifiers of the definition; a short name is the alias
modifiers(test, target, column) ==
    LET name == get_test_name(test, target, column)
    IN Cfg!Updated([k \in DOMAIN test.args \cap MODIFIER_ARGS |-> test.args[k]],
                   IF name.short = name.full THEN Cfg!Empty ELSE [k \in {"alias"} |-> name.short])
-----------------------------------------------------------------------------
(* SchemaParser *)

\* Mutant: the id is the name alone
NameOnly(test, target, column, package) == <<package, get_test_name(test, target, column).full, None>>

\* create_test_node: the id ends with a hash of the name and the metadata
unique_id(test, target, column, package) ==
    <<package, get_test_name(test, target, column).full,
      [namespace |-> test.namespace, name |-> test.name, kwargs |-> builder_args(test, target, column)]>>

\* render_test_update: whether the macro of the test is one of the two that
\* are not rendered, and whether there is none
test_macro(c) == Mac!get_macro(c.macros, c.internal, c.root.name, c.own.name, <<"test">> \o c.test.name)
is_shortcut(c) == LET m == test_macro(c)
                  IN m # None /\ m.package = "dbt" /\ m.name \in {<<"test", "not", "null">>, <<"test", "unique">>}

\* _parse_generic_test: the tags of the source, the column and the modifiers
generic_tags(c) ==
    c.target.tags \cup (IF c.column = None THEN {} ELSE c.column.tags)
      \cup (IF "tags" \in DOMAIN c.test.args THEN Range(c.test.args["tags"]) ELSE {}) \cup {"schema"}

refs_of(c) == IF c.target.kind = "node" THEN <<c.target.name>> ELSE <<>>
sources_of(c) == IF c.target.kind = "node" THEN <<>> ELSE <<<<c.target.source, c.target.name>>>>

\* The rendered test: its modifiers are a call of config()
rendered_test(c) ==
    LET mods == modifiers(c.test, c.target, c.column)
        calls == IF mods = Cfg!Empty THEN <<>> ELSE <<mods>>
        config == Cfg!parsed_config(c.own, c.root, calls, c.fqn, "test", Cfg!Empty)
    IN [config |-> config, refs |-> refs_of(c) \o c.test.refs, sources |-> sources_of(c),
        tags |-> generic_tags(c) \cup Range(config["tags"])]

\* not_null and unique: the modifiers are put into the configuration
shortcut_test(c) ==
    LET mods == modifiers(c.test, c.target, c.column)
        config == Cfg!parsed_config(c.own, c.root, <<>>, c.fqn, "test", Cfg!Empty)
    IN [config |-> Cfg!Updated(config, [k \in DOMAIN mods \cap {"severity", "enabled", "alias"} |-> mods[k]]),
        refs |-> refs_of(c), sources |-> sources_of(c), tags |-> generic_tags(c) \cup Range(config["tags"])]

parse_test(c) ==
    IF builder_raises(c.test) \/ test_macro(c) = None THEN None
    ELSE IF is_shortcut(c) THEN shortcut_test(c) ELSE rendered_test(c)
=============================================================================
