------------------------------- MODULE Macros -------------------------------
(***************************************************************************)
(* How a macro is found: the namespace a template is rendered with         *)
(* (core/dbt/context/macros.py), adapter.dispatch (context/providers.py),  *)
(* the resolver the schema tests use (MacroResolver) and the searches of   *)
(* the manifest (contracts/graph/manifest.py).                             *)
(***************************************************************************)
EXTENDS MacroResolver, SequencesExt

GLOBAL_PROJECT_NAME == "dbt"
Raises == [package |-> "raises", name |-> <<>>]

\* _add_macro_to: raise_duplicate_macro_name
add_macros_raises(macros) ==
    \E i, j \in DOMAIN macros : i # j /\ macros[i] = macros[j]

\* MacroNamespaceBuilder's packages: those that are not internal
packages(macros, internal) == {macros[i].package : i \in DOMAIN macros} \ Range(internal)
-----------------------------------------------------------------------------
(* MacroNamespace *)

\* __getitem__, in the order of _search_order.  A name that is a package is
\* that package's namespace.
getitem(macros, internal, root, search_package, key) ==
    LET local == IF search_package \in Range(internal) THEN None ELSE InPackage(macros, search_package, key)
        global == InPackage(macros, root, key)
    IN CASE local # None -> local
         [] global # None -> global
         [] \E p \in packages(macros, internal) \cup {GLOBAL_PROJECT_NAME} : key = <<p>> ->
              [package |-> key[1], name |-> <<>>]
         [] OTHER -> global_project_namespace(macros, internal, key)

get_from_package(macros, internal, root, search_package, package, name) ==
    CASE package = None -> getitem(macros, internal, root, search_package, name)
      [] package = GLOBAL_PROJECT_NAME -> global_project_namespace(macros, internal, name)
      [] package \in packages(macros, internal) -> InPackage(macros, package, name)
      [] OTHER -> Raises

\* adapter.dispatch: of the packages in order, the first implementation for
\* the adapter, its parents or by default
dispatch_search_packages(namespace, search_order, dependencies) ==
    CASE namespace = None -> <<None>>
      [] namespace \in DOMAIN search_order /\ search_order[namespace] # <<>> -> search_order[namespace]
      [] namespace \in dependencies -> <<namespace>>
      [] OTHER -> <<>>

dispatch(macros, internal, root, search_package, search_packages, prefixes, name) ==
    LET tried(i, j) == get_from_package(macros, internal, root, search_package,
                                        search_packages[i], <<prefixes[j]>> \o name)
        hits(i) == {j \in DOMAIN prefixes : tried(i, j) # None}
        have == {i \in DOMAIN search_packages : hits(i) # {}}
    IN IF have = {} THEN Raises ELSE tried(Min(have), Min(hits(Min(have))))
-----------------------------------------------------------------------------
(* MacroMethods *)

Core == 1
Imported == 2
Root == 3

_get_locality(macro, root, internal) ==
    CASE macro.package = root -> Root
      [] macro.package \in Range(internal) -> Core
      [] OTHER -> Imported

\* The candidates of a name, with their locality; the callers' filters are
\* applied to the macros first
_find_macros_by_name(macros, internal, root, name) ==
    LET found == SelectSeq(macros, LAMBDA m : m.name = name)
    IN [i \in DOMAIN found |-> [macro |-> found[i], rank |-> _get_locality(found[i], root, internal)]]

\* CandidateList.last: of the candidates of the highest rank, the last one
last(candidates) ==
    IF candidates = <<>> THEN None
    ELSE LET top == Max({candidates[i].rank : i \in DOMAIN candidates})
         IN LastOf(candidates, LAMBDA c : c.rank = top).macro

find_macro_by_name(macros, internal, root, package, name) ==
    last(_find_macros_by_name(SelectSeq(macros, LAMBDA m : package \in {None, m.package}), internal, root, name))

find_generate_macro_by_name(macros, internal, root, component) ==
    last(_find_macros_by_name(SelectSeq(macros, LAMBDA m : _get_locality(m, root, internal) # Imported),
                              internal, root, <<"generate", component, "name">>))

\* MaterializationCandidate: the specificity, then the locality.  sort() only
\* asks __lt__, so that the __eq__ which raises is never called.
MaterializationRank(m, adapter, root, internal) ==
    (IF adapter \in Range(m.name) THEN 10 ELSE 0) + _get_locality(m, root, internal)

find_materialization_macro_by_name(macros, internal, root, name, adapter) ==
    LET candidates == _find_macros_by_name(macros, internal, root, <<"materialization", name, adapter>>)
                        \o _find_macros_by_name(macros, internal, root, <<"materialization", name, "default">>)
    IN last([i \in DOMAIN candidates |->
               [candidates[i] EXCEPT !.rank = MaterializationRank(candidates[i].macro, adapter, root, internal)]])
-----------------------------------------------------------------------------
(* Which macros a macro calls: by its text, when the project is loaded     *)
(* (core/dbt/clients/jinja_static.py, reparse_macros of                    *)
(* parser/manifest.py), and when it runs (context/providers.py).           *)
(*                                                                         *)
(* A text is a set of calls: of a macro, perhaps of a package, or of       *)
(* adapter.dispatch, whose packages are an expression.  env has the        *)
(* macros, the name of the root project, the adapter with the plugins and  *)
(* their dependencies, the search order and the packages of the project    *)
(* and the variables that are set to lists.                                *)

\* Calls and the expressions for the packages of adapter.dispatch
MacroCall(package, name) == [kind |-> "macro", package |-> package, name |-> name]
DispatchCall(name, arg, macro_namespace) ==
    [kind |-> "dispatch", package |-> None, name |-> name, packages |-> arg, macro_namespace |-> macro_namespace]
ListExpr(items) == [type |-> "List", items |-> items]
ConstExpr(value) == [type |-> "Const", value |-> value]
\* var(name, []) + items, and package._get_..._namespaces()
AddExpr(name, items) == [type |-> "Add", var |-> name, items |-> items]
CallExpr(package) == [type |-> "Call", package |-> package]
-----------------------------------------------------------------------------
(* The adapter: adapters/factory.py *)

\* get_adapter_plugins: breadth first over the plugins' dependencies
RECURSIVE plugins_from(_, _, _)
plugins_from(dependencies, todo, found) ==
    IF todo = <<>> THEN found
    ELSE LET name == Head(todo)
             seen == Range(found) \cup {name}
         IN plugins_from(dependencies,
                         Tail(todo) \o SelectSeq(dependencies[name], LAMBDA d : d \notin seen),
                         Append(found, name))

get_adapter_plugins(dependencies, name) == plugins_from(dependencies, <<name>>, <<>>)

\* get_adapter_package_names and get_adapter_type_names, for plugins named
\* after their packages
get_adapter_package_names(dependencies, name) ==
    Append(get_adapter_plugins(dependencies, name), GLOBAL_PROJECT_NAME)
_get_adapter_macro_prefixes(dependencies, name) == Append(get_adapter_plugins(dependencies, name), "default")

Internal(env) == get_adapter_package_names(env.plugins, env.adapter)
MacroPrefixes(env) == _get_adapter_macro_prefixes(env.plugins, env.adapter)
-----------------------------------------------------------------------------
(* By the text *)

\* TestMacroNamespace.get_from_package: no package is that of a node
resolver_get_from_package(env, package, name) ==
    IF package = None THEN macros_by_name(env.macros, Internal(env), env.root, name)
    ELSE get_from_package(env.macros, Internal(env), env.root, None, package, name)

get_dispatch_list(vars, var_name, default_packages) ==
    (IF var_name \in DOMAIN vars THEN vars[var_name] ELSE <<>>) \o default_packages

\* The packages that the expression gives: a list, or the name of a namespace
\* which takes the place of macro_namespace
StaticPackages(env, arg) ==
    CASE arg = None -> <<>>
      [] arg # None /\ arg.type = "List" -> arg.items
      [] arg # None /\ arg.type = "Add" -> get_dispatch_list(env.vars, arg.var, arg.items)
      [] arg # None /\ arg.type = "Call" -> get_dispatch_list(env.vars, <<arg.package, "dispatch", "list">>, <<arg.package>>)
      [] OTHER -> <<>>
StaticNamespace(call) ==
    IF call.packages # None /\ call.packages.type = "Const" THEN call.packages.value ELSE call.macro_namespace

\* packages if packages else macro_namespace
SearchPackages(env, given, namespace) ==
    IF given # <<>> THEN given ELSE dispatch_search_packages(namespace, env.search_order, env.dependencies)

\* The dispatched name itself and the macro that is found; raises when none is
statically_parse_adapter_dispatch(env, call) ==
    LET search == SearchPackages(env, StaticPackages(env, call.packages), StaticNamespace(call))
        prefixes == MacroPrefixes(env)
        tried(i, j) == resolver_get_from_package(env, search[i], <<prefixes[j]>> \o call.name)
        hits == {<<i, j>> \in (DOMAIN search) \X (DOMAIN prefixes) : tried(i, j) # None}
        first == CHOOSE h \in hits : \A g \in hits : h[1] < g[1] \/ (h[1] = g[1] /\ h[2] <= g[2])
        found == IF hits = {} THEN Raises ELSE tried(first[1], first[2])
    IN {MacroCall(None, call.name), IF found = Raises THEN Raises ELSE MacroCall(found.package, found.name)}

statically_extract_macro_calls(env, text) ==
    UNION {IF call.kind = "dispatch" THEN statically_parse_adapter_dispatch(env, call) ELSE {call} : call \in text}

\* reparse_macros, for one macro: what the calls mean to the resolver
reparse_macro(env, macro, text) ==
    LET calls == statically_extract_macro_calls(env, text)
        of(call) == get_macro(env.macros, Internal(env), env.root,
                              IF call.package = None THEN macro.package ELSE call.package, call.name)
    IN IF Raises \in calls THEN Raises
       ELSE [depends_on |-> {of(call) : call \in {c \in calls : c.package # None \/ c.name # macro.name}} \ {None}]
-----------------------------------------------------------------------------
(* At run time *)

\* What a call calls while a node of search_package runs.  A package's
\* _get_..._namespaces is the macro that dbt's documentation asks for.
called(env, search_package, call) ==
    LET list(name, items) == (IF name \in DOMAIN env.vars THEN env.vars[name] ELSE <<>>) \o items
        value(arg) == CASE arg = None -> [given |-> <<>>, namespace |-> call.macro_namespace]
                        [] arg # None /\ arg.type = "Const" -> [given |-> <<>>, namespace |-> arg.value]
                        [] OTHER -> [namespace |-> call.macro_namespace,
                                     given |-> CASE arg.type = "List" -> arg.items
                                                 [] arg.type = "Add" -> list(arg.var, arg.items)
                                                 [] arg.type = "Call" -> list(<<arg.package, "dispatch", "list">>, <<arg.package>>)]
        search == SearchPackages(env, value(call.packages).given, value(call.packages).namespace)
    IN CASE call.kind = "dispatch" ->
              dispatch(env.macros, Internal(env), env.root, search_package, search, MacroPrefixes(env), call.name)
         [] call.kind = "macro" /\ call.package = None ->
              getitem(env.macros, Internal(env), env.root, search_package, call.name)
         [] OTHER -> get_from_package(env.macros, Internal(env), env.root, search_package, call.package, call.name)
=============================================================================
