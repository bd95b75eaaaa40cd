-------------------------------- MODULE MCDeps --------------------------------
(***************************************************************************)
(* Instances of Deps for TLC: projects whose packages require one another, *)
(* and projects that list one package three times.                         *)
(***************************************************************************)
EXTENDS Deps, TLC

Pkgs == {"a", "b", "c"}
V1 == <<1, 0, 0>>
V2 == <<1, 1, 0>>
V3 == <<2, 0, 0>>

\* Neither sorted nor sorted backwards
Versions == <<V2, V3, V1>>

Specs == [matcher : Matchers, version : Range(Versions)]
Req(p, s) == <<[package |-> p, versions |-> s]>>
Exactly(v) == [matcher |-> "=", version |-> v]
AtLeast(v) == [matcher |-> ">=", version |-> v]
Above(v) == [matcher |-> ">", version |-> v]

\* No requirement of p, the oldest version, or any version
Inner(p) == {<<>>, Req(p, <<Exactly(V1)>>), Req(p, <<AtLeast(V1)>>)}

\* The requirements of the oldest version, and of the others
OldOrNew(old, new) == [v \in Range(Versions) |-> IF v = V1 THEN old ELSE new]

\* b is required by the root project or by a, c by any of the three
ProjectGraphs ==
    [root : {x \o y \o z : x \in Inner("a"), y \in Inner("b"), z \in {<<>>, Req("c", <<Above(V1)>>)}},
     requires : {[p \in Pkgs |-> CASE p = "a" -> OldOrNew(o1, n1 \o n2)
                                   [] p = "b" -> OldOrNew(ob, nb)
                                   [] OTHER -> OldOrNew(<<>>, <<>>)] :
                   o1 \in Inner("b"), n1 \in Inner("b"), n2 \in Inner("c"),
                   ob \in Inner("c"), nb \in {<<>>, Req("c", <<AtLeast(V1)>>)}}]

Lists ==
    [root : {Req("c", <<s>>) \o Req("c", <<t, u>>) : s, t, u \in Specs},
     requires : {[p \in Pkgs |-> OldOrNew(<<>>, <<>>)]}]

AllInputs == ProjectGraphs \cup Lists

AllNames ==
    {[p \in Pkgs |-> p],
     [p \in Pkgs |-> IF p = "c" THEN "b" ELSE p],
     [p \in Pkgs |-> IF p = "c" THEN RootProject ELSE p]}
=============================================================================
