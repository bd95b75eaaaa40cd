-------------------------------- MODULE Deps --------------------------------
(***************************************************************************)
(* dbt deps (task/deps.py): the resolver of packages (deps/resolver.py,    *)
(* deps/registry.py) and the installation of what it finds.  The packages  *)
(* are those of the registry; a PackageListing is a sequence of entries    *)
(* [package, versions], in the order in which the packages were met.       *)
(***************************************************************************)
EXTENDS SemverOps, FiniteSets, Functions

CONSTANTS
    Package,    \* the packages of the registry
    Available,  \* the versions of each of them, in the registry's order
    Inputs,     \* records of root, the project's requirements, and requires,
                \* [Package -> [version -> the requirements of its project]]
    Names       \* [Package -> project name]: what the projects may be called

\* What packages.yml may say of a package
Specifier == [matcher : Matchers, version : Nat \X Nat \X Nat]
Requirement == [package : Package, versions : Seq(Specifier)]

ASSUME DepsAssumption ==
    /\ Available \in Seq(Nat \X Nat \X Nat)
    /\ \A n \in Names : DOMAIN n = Package
    /\ \A x \in Inputs : /\ x.root \in Seq(Requirement)
                        /\ \A p \in Package, v \in Range(Available) : x.requires[p][v] \in Seq(Requirement)

VARIABLES
    input,          \* packages.yml and the registry: a member of Inputs
    status,         \* "resolving", "installing", "done" or "error"
    pending, next_pending, final,   \* resolve_packages' listings
    rounds,         \* history: the rounds of resolve_packages' loop
    names,          \* the projects' names, once they are looked at
    installed       \* the packages that were installed, in order

vars == <<input, status, pending, next_pending, final, rounds, names, installed>>

RootProject == "root"

Entry(listing, p) == CHOOSE e \in Range(listing) : e.package = p
Packages(listing) == {e.package : e \in Range(listing)}

\* PackageListing.incorporate and RegistryUnpinnedPackage.incorporate
\* (resolver.py:33-37, 60-68; registry.py:96-102)
incorporate(listing, new) ==
    IF new.package \in Packages(listing)
    THEN [i \in DOMAIN listing |->
            IF listing[i].package = new.package
            THEN [listing[i] EXCEPT !.versions = @ \o new.versions] ELSE listing[i]]
    ELSE Append(listing, new)

\* update_from (resolver.py:70-91; registry.py:84-94)
update_from(listing, src) ==
    LET upto[n \in 0..Len(src)] == IF n = 0 THEN listing ELSE incorporate(upto[n - 1], src[n])
    IN upto[Len(src)]

\* RegistryUnpinnedPackage.resolved; it raises if there is no version
\* (registry.py:104-122)
resolved(e) ==
    LET range == reduce_versions(e.versions) IN
    IF range = NoRange THEN NoVersion ELSE resolve_to_specific_version(range, Available)

\* run returns at once if there are no packages (task/deps.py:45-53;
\* resolver.py:126-127)
Init ==
    /\ input \in Inputs
    /\ status = IF input.root = <<>> THEN "done" ELSE "resolving"
    /\ pending = update_from(<<>>, input.root)
    /\ next_pending = <<>> /\ final = <<>> /\ installed = <<>> /\ rounds = 1
    /\ names = [p \in Package |-> ""]

\* fetch_metadata of the version v of p, which may be none, and the packages
\* that it requires (resolver.py:137-138; registry.py:50-52, 120-121)
Requires(p, v) ==
    IF v = NoVersion
    THEN status' = "error" /\ UNCHANGED <<pending, next_pending>>
    ELSE /\ next_pending' = update_from(next_pending, input.requires[p][v])
         /\ pending' = Tail(pending) /\ UNCHANGED status

\* Mutant: the metadata is that of the requirement alone
ResolveAlone ==
    /\ status = "resolving" /\ pending # <<>>
    /\ final' = incorporate(final, Head(pending))
    /\ \E v \in {resolved(Head(pending))} : Requires(Head(pending).package, v)
    /\ UNCHANGED <<input, rounds, names, installed>>

\* Mutant: the newer requirement of a package replaces the older ones
ResolveReplaces ==
    /\ status = "resolving" /\ pending # <<>>
    /\ final' = Append(SelectSeq(final, LAMBDA e : e.package # Head(pending).package), Head(pending))
    /\ \E v \in {resolved(Head(pending))} : Requires(Head(pending).package, v)
    /\ UNCHANGED <<input, rounds, names, installed>>

\* One turn of the inner loop (resolver.py:135-138; base.py:83-86;
\* registry.py:50-52)
resolve ==
    /\ status = "resolving" /\ pending # <<>>
    /\ final' = incorporate(final, Head(pending))
    /\ \E v \in {resolved(Entry(incorporate(final, Head(pending)), Head(pending).package))} :
         Requires(Head(pending).package, v)
    /\ UNCHANGED <<input, rounds, names, installed>>

\* The end of a round (resolver.py:132-133, 139)
next_round ==
    /\ status = "resolving" /\ pending = <<>> /\ next_pending # <<>>
    /\ pending' = next_pending /\ next_pending' = <<>> /\ rounds' = rounds + 1
    /\ UNCHANGED <<input, status, final, names, installed>>

\* _check_for_duplicate_project_names (resolver.py:100-120, 141-143)
check_for_duplicate_project_names ==
    /\ status = "resolving" /\ pending = <<>> /\ next_pending = <<>>
    /\ names' \in Names
    /\ status' = IF \/ \E p \in Packages(final) : names'[p] = RootProject
                    \/ \E p, q \in Packages(final) : p # q /\ names'[p] = names'[q]
                 THEN "error" ELSE "installing"
    /\ UNCHANGED <<input, pending, next_pending, final, rounds, installed>>

\* The loop of run (task/deps.py:59-71; registry.py:54-67)
install ==
    /\ status = "installing" /\ Len(installed) < Len(final)
    /\ LET e == final[Len(installed) + 1]
       IN  installed' = Append(installed, [package |-> e.package, version |-> resolved(e)])
    /\ status' = IF Len(installed') = Len(final) THEN "done" ELSE status
    /\ UNCHANGED <<input, pending, next_pending, final, rounds, names>>

\* The registry does not answer: _wrap_exceptions has tried five times, or the
\* download fails (clients/registry.py:22-49; registry.py:50-67)
registry_fails ==
    /\ status \in {"resolving", "installing"}
    /\ status' = "error"
    /\ UNCHANGED <<input, pending, next_pending, final, rounds, names, installed>>

\* dbt deps has ended
Ended == status \in {"done", "error"} /\ UNCHANGED vars

Next ==
    \/ resolve \/ next_round \/ check_for_duplicate_project_names \/ install
    \/ registry_fails \/ Ended

Spec == Init /\ [][Next]_vars
-----------------------------------------------------------------------------
(* Properties *)

\* What the requirement r asks for is met by what the listing resolves to
Met(r) ==
    /\ r.package \in Packages(final)
    /\ resolved(Entry(final, r.package)) # NoVersion
    /\ \A i \in DOMAIN r.versions : Satisfies(resolved(Entry(final, r.package)), r.versions[i])

\* The packages require one another, at any versions, at most depth deep: they
\* have ranks that requirements lower
Layered(depth) ==
    \E rank \in [Package -> 1..depth] :
      \A p \in Package, v \in Range(Available) : \A i \in DOMAIN input.requires[p][v] :
        rank[input.requires[p][v][i].package] < rank[p]

\* What resolve_packages returns meets every requirement of the root project and
\* of every package that it returns, at the version that it returns, although a
\* package's version may change after its requirements were read; and the loop takes
\* no more rounds than the packages require one another deep.
Sound ==
    /\ \A depth \in 1..Cardinality(Package) : Layered(depth) => rounds <= depth
    /\ status \in {"installing", "done"} =>
        /\ \A i \in DOMAIN input.root : Met(input.root[i])
        /\ \A e \in Range(final) :
             /\ resolved(e) # NoVersion
             /\ LET src == input.requires[e.package][resolved(e)]
                IN  \A i \in DOMAIN src : Met(src[i])

\* A package is resolved to the newest version that satisfies its specifiers, in
\* whatever order they are given and the registry lists the versions; and no
\* package is installed in the directory of another one, nor under the name of the
\* root project.
ResolvesBest ==
    /\ \A i, j \in DOMAIN installed : i # j => names[installed[i].package] # names[installed[j].package]
    /\ \A i \in DOMAIN installed : names[installed[i].package] # RootProject
    /\ \A e \in Range(final) :
         LET good == {v \in Range(Available) : \A i \in DOMAIN e.versions : Satisfies(v, e.versions[i])}
         IN  IF good = {} THEN resolved(e) = NoVersion
             ELSE resolved(e) \in good /\ \A v \in good : Sign(v, resolved(e)) <= 0

\* While packages are resolved a package's version never goes up: no requirement
\* that was met once is forgotten.
OnlyNarrows ==
    [][\A p \in Packages(final) :
         /\ p \in Packages(final')
         /\ LET v == resolved(Entry(final, p))
                w == resolved(Entry(final', p))
            IN  w = NoVersion \/ Sign(w, v) <= 0]_vars
=============================================================================
