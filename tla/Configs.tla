------------------------------ MODULE Configs ------------------------------
(***************************************************************************)
(* The configuration of a node (core/dbt/context/context_config.py,        *)
(* contracts/graph/model_config.py, parser/base.py) and its variables      *)
(* (context/providers.py, config/project.py).                              *)
(*                                                                         *)
(* A dictionary is a function from its keys.  The value of a key that      *)
(* appends is a sequence (a lone value is the sequence of it), that of a   *)
(* key that updates a dictionary, and that of any other key one value,     *)
(* None included.                                                          *)
(***************************************************************************)
EXTENDS Integers, SequencesExt

CONSTANT None  \* Python's None

\* The merge and compare metadata of NodeConfig's fields.  A key without a
\* field is clobbered and compared.
AppendKeys == {"pre-hook", "post-hook", "tags"}
UpdateKeys == {"vars", "quoting", "column_types"}
ExcludedKeys == {"vars", "alias", "schema", "database", "tags"}

Empty == [k \in {} |-> None]

\* dict.update
Updated(d, e) == [k \in DOMAIN d \cup DOMAIN e |-> IF k \in DOMAIN e THEN e[k] ELSE d[k]]
-----------------------------------------------------------------------------
(* Merging *)

_merge_field_value(key, self_value, other_value) ==
    CASE key \in AppendKeys -> self_value \o other_value
      [] key \in UpdateKeys -> Updated(self_value, other_value)
      [] OTHER -> other_value

\* Mutant: hooks and tags are clobbered
Clobbers(config, data) == Updated(config, data)

\* BaseConfig.update_from and _extract_dict
update_from(config, data) ==
    Updated(config,
            [k \in DOMAIN data |->
               IF k \in DOMAIN config THEN _merge_field_value(k, config[k], data[k]) ELSE data[k]])

\* Translator.translate_mapping: a key that is an alias becomes the canonical
\* one; two keys of one name raise
Canonical(aliases, k) == IF k \in DOMAIN aliases THEN aliases[k] ELSE k

translate_raises(aliases, d) ==
    \E j, k \in DOMAIN d : j # k /\ Canonical(aliases, j) = Canonical(aliases, k)

translate(aliases, d) ==
    [c \in {Canonical(aliases, k) : k \in DOMAIN d} |->
       d[CHOOSE k \in DOMAIN d : Canonical(aliases, k) = c]]
-----------------------------------------------------------------------------
(* dbt_project.yml *)

\* A level of models: (or seeds:, tests:, ...) is its keys in the order of the
\* file, each with or without a +, and its sublevels.
Level(keys, sub) == [keys |-> keys, sub |-> sub]
Key(name, plus, value) == [name |-> name, plus |-> plus, value |-> value]

\* utils.fqn_search: the levels on the way down, from the root on
fqn_search(root, fqn) ==
    LET Down(levels, i) ==
            IF Len(levels) = i /\ fqn[i] \in DOMAIN levels[i].sub
            THEN Append(levels, levels[i].sub[fqn[i]])
            ELSE levels
    IN FoldLeft(Down, <<root>>, [i \in DOMAIN fqn |-> i])

\* _project_configs: a key without a + that holds a dictionary is a sublevel
level_config(level) ==
    FoldLeft(LAMBDA d, key : IF key.plus \/ key.name \notin UpdateKeys
                             THEN Updated(d, [k \in {key.name} |-> key.value])
                             ELSE d,
             Empty, level.keys)

_project_configs(root, fqn) ==
    [i \in DOMAIN fqn_search(root, fqn) |-> level_config(fqn_search(root, fqn)[i])]
-----------------------------------------------------------------------------
(* ContextConfig *)

\* get_config_for(resource_type, base).from_dict({})
initial_result(resource_type) ==
    [enabled |-> TRUE,
     materialized |-> CASE resource_type = "seed" -> "seed"
                        [] resource_type = "test" -> "test"
                        [] resource_type = "snapshot" -> "snapshot"
                        [] OTHER -> "view",
     schema |-> IF resource_type = "test" THEN "dbt_test__audit" ELSE None,
     alias |-> None, tags |-> <<>>, quoting |-> Empty]
        @@ [k \in {"pre-hook"} |-> <<>>]
        @@ [k \in {j \in {"severity"} : resource_type = "test"} |-> "error"]

\* calculate_node_config's dictionaries, in the order they are applied: the
\* node's project, its config() calls, and the root project if it is another
Layers(own, root, calls, fqn) ==
    _project_configs(own.config, fqn)
      \o calls
      \o IF own.name # root.name THEN _project_configs(root.config, fqn) ELSE <<>>

\* ContextConfigGenerator and UnrenderedConfigGenerator
calculate_node_config(own, root, calls, fqn, resource_type, aliases) ==
    FoldLeft(LAMBDA config, d : update_from(config, translate(aliases, d)),
             initial_result(resource_type), Layers(own, root, calls, fqn))

calculate_unrendered(own, root, calls, fqn, aliases) ==
    FoldLeft(LAMBDA config, d : Updated(config, translate(aliases, d)),
             Empty, Layers(own, root, calls, fqn))

\* to_dict(omit_none=True)
OmitNone(d) == [k \in {j \in DOMAIN d : d[j] # None} |-> d[k]]

\* parse_node: the configuration of the project before the node is rendered
\* (_create_parsetime_node), updated with that after it
\* (update_parsed_node_config), both without their Nones
parsed_config(own, root, calls, fqn, resource_type, aliases) ==
    Updated(OmitNone(calculate_node_config(own, root, <<>>, fqn, resource_type, aliases)),
            OmitNone(calculate_node_config(own, root, calls, fqn, resource_type, aliases)))

\* BaseConfig.same_contents and compare_key, on two unrendered configurations
same_config(unrendered, other) ==
    \A k \in (DOMAIN unrendered \cup DOMAIN other) \ ExcludedKeys :
       /\ k \in DOMAIN unrendered \cap DOMAIN other
       /\ unrendered[k] = other[k]
-----------------------------------------------------------------------------
(* Variables *)

\* VarProvider.vars_for, packages_for_node and _generate_merged: the
\* dictionaries of a MultiDict, the last of which wins
merged_vars(vars_of, package, root, cli) ==
    LET vars_for(p) == <<vars_of[p].global, vars_of[p].scoped[package]>>
    IN (IF package # root THEN vars_for(package) ELSE <<>>) \o vars_for(root) \o <<cli>>

\* MultiDict.__getitem__ and Var.__call__
var(dicts, name, default) ==
    LET have == {i \in DOMAIN dicts : name \in DOMAIN dicts[i]}
    IN IF have = {} THEN default ELSE dicts[Max(have)][name]
=============================================================================
