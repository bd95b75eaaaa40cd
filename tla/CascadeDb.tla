----------------------------- MODULE CascadeDb ------------------------------
(***************************************************************************)
(* Relations and what depends on them, "as a real database would" handle   *)
(* them (the docstring of RelationsCache): a drop takes along everything   *)
(* that depends on what is dropped, and a rename keeps every dependency.   *)
(* <<j, k>> \in deps says that k depends on j.                             *)
(***************************************************************************)
CONSTANTS Schema, Ident

VARIABLES rels, deps, known

dbVars == <<rels, deps, known>>

Key == Schema \X Ident

\* Everything a "drop ... cascade" of the relations K takes along
Cascade(K) ==
    {k \in Key : \A S \in SUBSET Key :
        (K \subseteq S /\ \A d \in deps : d[1] \in S => d[2] \in S) => k \in S}

DbInit == rels = {} /\ deps = {} /\ known = {}

Create(K) ==
    /\ rels' = rels \cup K
    /\ known' = known \cup {k[1] : k \in K}
    /\ UNCHANGED deps

Depend(j, k) ==
    /\ rels' = rels \cup {j, k}
    /\ deps' = deps \cup {<<j, k>>}
    /\ known' = known \cup {j[1], k[1]}

\* The relations K are dropped, and the schemas S forgotten
Drop(K, S) ==
    /\ rels' = rels \ Cascade(K)
    /\ deps' = {d \in deps : d[1] \notin Cascade(K) /\ d[2] \notin Cascade(K)}
    /\ known' = known \ S

Rename(j, k) ==
    /\ j \in rels
    /\ k \notin rels
    /\ LET new(i) == IF i = j THEN k ELSE i
       IN /\ rels' = {new(i) : i \in rels}
          /\ deps' = {<<new(d[1]), new(d[2])>> : d \in deps}
    /\ known' = known \cup {k[1]}

Know(S) == known' = known \cup S /\ UNCHANGED <<rels, deps>>

DbNext ==
    \/ \E K \in SUBSET Key : Create(K)
    \/ \E j, k \in Key : Depend(j, k) \/ Rename(j, k)
    \/ \E K \in SUBSET rels, S \in SUBSET Schema : Drop(K, S)
    \/ \E S \in SUBSET Schema : Know(S)

DbSpec == DbInit /\ [][DbNext]_dbVars
=============================================================================
