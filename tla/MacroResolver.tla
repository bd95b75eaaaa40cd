---------------------------- MODULE MacroResolver ----------------------------
(***************************************************************************)
(* The resolver of macros for the parser (context/macro_resolver.py).      *)
(*                                                                         *)
(* macros is the sequence of a manifest's macros in its order, each a      *)
(* record with a package and a name; a name is the sequence of the parts   *)
(* that underscores join.  internal is the sequence of the packages of the *)
(* adapter, its parents and dbt, in the order that wins.                   *)
(***************************************************************************)
EXTENDS FiniteSetsExt

CONSTANT None  \* Python's None

\* The last macro of macros with a property: a dictionary keeps the last one
LastOf(macros, P(_)) ==
    LET have == {i \in DOMAIN macros : P(macros[i])}
    IN IF have = {} THEN None ELSE macros[Max(have)]

InPackage(macros, package, name) ==
    LastOf(macros, LAMBDA m : m.package = package /\ m.name = name)

\* The internal packages as one namespace, in which the first of them wins
global_project_namespace(macros, internal, name) ==
    LET have == {i \in DOMAIN internal : InPackage(macros, internal[i], name) # None}
    IN IF have = {} THEN None ELSE InPackage(macros, internal[Min(have)], name)

\* _build_macros_by_name: the internal packages, then the others, then the root
macros_by_name(macros, internal, root, name) ==
    LET global == InPackage(macros, root, name)
        other == LastOf(macros, LAMBDA m : m.name = name /\ m.package \notin Range(internal))
    IN CASE global # None -> global
         [] other # None -> other
         [] OTHER -> global_project_namespace(macros, internal, name)

\* Mutant: the package of the test is not searched first
RootFirst(macros, internal, root, local_package, name) == macros_by_name(macros, internal, root, name)

get_macro(macros, internal, root, local_package, name) ==
    LET local == IF local_package \in Range(internal) THEN None ELSE InPackage(macros, local_package, name)
    IN IF local # None THEN local ELSE macros_by_name(macros, internal, root, name)
=============================================================================
