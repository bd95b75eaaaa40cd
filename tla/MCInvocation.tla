---------------------------- MODULE MCInvocation ----------------------------
(***************************************************************************)
(* Invocation for TLC: a file of macros in dbt, one in a package and two   *)
(* in the root project, of f or of g and h that call it; the package may   *)
(* be renamed.                                                             *)
(***************************************************************************)
EXTENDS Invocation, TLC

MCFileOrder == <<"main", "more", "core", "pack">>
MCDir == [core |-> "dbt", pack |-> "package", main |-> "root", more |-> "root"]
MCDirOrder == <<"root", "dbt", "package">>
MCNames == [dbt |-> {"dbt"}, package |-> {"p", "q"}, root |-> {"r"}]
Plain(n) == [name |-> <<n>>, calls |-> {}]
Calling(n, package, m) == [name |-> <<n>>, calls |-> {[package |-> package, name |-> <<m>>]}]
F == <<Plain("f")>>
G == <<Calling("g", None, "f"), Calling("h", "p", "f")>>
MCContents == {F, G}
MCInitFiles == {[core |-> F, pack |-> G, main |-> None, more |-> None], [core |-> F, pack |-> F, main |-> G, more |-> None]}
Symmetric == Permutations(Procs)
=============================================================================
