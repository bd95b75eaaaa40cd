---------------------------- MODULE Deps_proofs ----------------------------
(***************************************************************************)
(* Proofs about Deps: what the functions of semver.py compute for any list *)
(* of specifiers, and what resolve_packages returns for any requirements.  *)
(*                                                                         *)
(* A recursive function is shown to exist by FoldExists, in which the step *)
(* is itself a function, and what it computes by Induction, in which the   *)
(* induction hypothesis is a set.                                          *)
(***************************************************************************)
EXTENDS Deps, WellFoundedInduction, TLAPS

(* Induction and recursion over 0..N *)

LEMMA Induction ==
    ASSUME NEW N \in Nat, NEW T, 0 \in T, \A n \in 1..N : n - 1 \in T => n \in T
    PROVE  0..N \subseteq T
  <1> DEFINE R == OpToRel(<, Nat)
             Bad == 0..N \ T
  <1>1. IsWellFoundedOn(R, Nat)
    BY NatLessThanWellFounded
  <1>2. \A m, n \in Nat : m < n => <<m, n>> \in R
    BY DEF OpToRel
  <1>3. Bad \subseteq Nat
    OBVIOUS
  <1> SUFFICES ASSUME Bad # {} PROVE FALSE
    OBVIOUS
  <1> HIDE DEF R, Bad
  <1>a. \E n \in Bad : \A m \in Bad : ~(<<m, n>> \in R)
    BY <1>1, <1>3, WFMin, Zenon
  <1>4. PICK n \in Bad : \A m \in Bad : ~(<<m, n>> \in R)
    BY <1>a
  <1>5. n \in 1..N
    BY DEF Bad
  <1>6. n - 1 \notin Bad
    <2>1. n - 1 \in Nat /\ n \in Nat /\ n - 1 < n
      BY <1>5
    <2>2. <<n - 1, n>> \in R
      BY <1>2, <2>1
    <2> QED
      BY <1>4, <2>2
  <1> QED
    BY <1>4, <1>5, <1>6 DEF Bad

\* A value is carried through N steps, the nth of which is step[<<value, n>>].
IsFold(f, N, S, base, step) ==
    f \in [0..N -> S] /\ f[0] = base /\ \A n \in 1..N : f[n] = step[<<f[n - 1], n>>]

LEMMA FoldExists ==
    ASSUME NEW N \in Nat, NEW S, NEW base \in S, NEW step \in [S \X (1..N) -> S]
    PROVE  \E f : IsFold(f, N, S, base, step)
  <1> DEFINE Upto(f, m) == f \in [0..m -> S] /\ f[0] = base /\ \A n \in 1..m : f[n] = step[<<f[n - 1], n>>]
             T == {m \in 0..N : \E f : Upto(f, m)}
  <1>1. 0 \in T
    <2> DEFINE f == [n \in 0..0 |-> base]
    <2>1. f \in [0..0 -> S] /\ f[0] = base
      OBVIOUS
    <2>2. 1..0 = {} /\ 0 \in 0..N
      OBVIOUS
    <2>3. Upto(f, 0)
      BY <2>1, <2>2
    <2> QED
      BY <2>2, <2>3, Zenon
  <1>2. ASSUME NEW m \in 1..N, m - 1 \in T PROVE m \in T
    <2>1. PICK f : Upto(f, m - 1)
      BY <1>2
    <2> DEFINE g == [n \in 0..m |-> IF n = m THEN step[<<f[m - 1], m>>] ELSE f[n]]
    <2>0. m - 1 \in 0..(m - 1) /\ m \in Nat
      OBVIOUS
    <2>2. f[m - 1] \in S /\ step[<<f[m - 1], m>>] \in S
      BY <2>0, <2>1
    <2>3. g \in [0..m -> S] /\ g[0] = base
      <3>1. ASSUME NEW n \in 0..m PROVE g[n] \in S
        <4>1. n = m \/ n \in 0..(m - 1)
          BY <2>0
        <4> QED
          BY <2>1, <2>2, <4>1
      <3> QED
        BY <2>1, <3>1
    <2>4. ASSUME NEW n \in 1..m PROVE g[n] = step[<<g[n - 1], n>>]
      <3>1. n - 1 \in 0..m /\ n - 1 # m /\ n \in 0..m /\ (n = m \/ n \in 1..(m - 1))
        BY <2>0
      <3>2. g[n - 1] = f[n - 1]
        BY <3>1
      <3>3. CASE n = m
        BY <3>1, <3>2, <3>3
      <3>4. CASE n # m
        <4>1. g[n] = f[n] /\ n \in 1..(m - 1)
          BY <3>1, <3>4
        <4> QED
          BY <2>1, <3>2, <4>1
      <3> QED
        BY <3>3, <3>4
    <2> HIDE DEF g
    <2>5. Upto(g, m) /\ m \in 0..N
      BY <2>3, <2>4
    <2> QED
      BY <2>5
  <1>3. N \in T
    <2> HIDE DEF T
    <2>1. 0..N \subseteq T
      BY <1>1, <1>2, Induction
    <2> QED
      BY <2>1
  <1> QED
    BY <1>3 DEF IsFold
-----------------------------------------------------------------------------
(* Versions are ordered *)

Version == Nat \X Nat \X Nat

LEMMA SignFacts ==
    ASSUME NEW v \in Version, NEW w \in Version
    PROVE  /\ Sign(v, w) \in {-1, 0, 1}
           /\ Sign(v, w) = 0 <=> v = w
           /\ Sign(w, v) = -Sign(v, w)
  <1>1. v = <<v[1], v[2], v[3]>> /\ w = <<w[1], w[2], w[3]>> /\ v[1] \in Nat /\ v[2] \in Nat /\ v[3] \in Nat
        /\ w[1] \in Nat /\ w[2] \in Nat /\ w[3] \in Nat
    BY DEF Version
  <1>2. Sign(v, w) \in {-1, 0, 1} /\ Sign(w, v) = -Sign(v, w)
    BY <1>1 DEF Sign
  <1>3. Sign(v, w) = 0 <=> v[1] = w[1] /\ v[2] = w[2] /\ v[3] = w[3]
    BY <1>1 DEF Sign
  <1>4. v[1] = w[1] /\ v[2] = w[2] /\ v[3] = w[3] <=> v = w
    BY <1>1
  <1> QED
    BY <1>2, <1>3, <1>4

LEMMA SignTransitive ==
    ASSUME NEW u \in Version, NEW v \in Version, NEW w \in Version, Sign(u, v) <= 0, Sign(v, w) <= 0
    PROVE  /\ Sign(u, w) <= 0
           /\ Sign(u, v) < 0 \/ Sign(v, w) < 0 => Sign(u, w) < 0
  <1>1. /\ u[1] \in Nat /\ u[2] \in Nat /\ u[3] \in Nat
        /\ v[1] \in Nat /\ v[2] \in Nat /\ v[3] \in Nat
        /\ w[1] \in Nat /\ w[2] \in Nat /\ w[3] \in Nat
    BY DEF Version
  <1> QED
    BY <1>1 DEF Sign
-----------------------------------------------------------------------------
(* What a specifier and a range mean *)

LEMMA SpecifierFacts ==
    /\ Unbounded \notin Specifier /\ Incompatible \notin Specifier \cup {Unbounded}
    /\ \A a \in Specifier : a.version \in Version /\ a.matcher \in {">", ">=", "<", "<=", "="}
    /\ ~is_lower_bound(Unbounded) /\ ~is_upper_bound(Unbounded) /\ ~is_exact(Unbounded)
    /\ \A v : Satisfies(v, Unbounded)
  BY DEF Unbounded, Incompatible, Specifier, Matchers, Version, is_lower_bound, is_upper_bound, is_exact, Satisfies

LEMMA SatisfiesSpecifier ==
    ASSUME NEW v \in Version, NEW a \in Specifier
    PROVE  /\ a.matcher = ">" => (Satisfies(v, a) <=> Sign(v, a.version) > 0)
           /\ a.matcher = ">=" => (Satisfies(v, a) <=> Sign(v, a.version) >= 0)
           /\ a.matcher = "<" => (Satisfies(v, a) <=> Sign(v, a.version) < 0)
           /\ a.matcher = "<=" => (Satisfies(v, a) <=> Sign(v, a.version) <= 0)
           /\ a.matcher = "=" => (Satisfies(v, a) <=> v = a.version)
  BY DEF Satisfies

LEMMA CompareSpecifiers ==
    ASSUME NEW a \in Specifier, NEW b \in Specifier
    PROVE  /\ a.version # b.version => compare(a, b) = Sign(a.version, b.version)
           /\ a.version = b.version /\ is_lower_bound(a) /\ is_lower_bound(b) =>
                compare(a, b) = IF a.matcher = b.matcher THEN 0 ELSE IF a.matcher = ">" THEN 1 ELSE -1
           /\ a.version = b.version /\ is_upper_bound(a) /\ is_upper_bound(b) =>
                compare(a, b) = IF a.matcher = b.matcher THEN 0 ELSE IF a.matcher = "<" THEN -1 ELSE 1
           /\ a.version = b.version /\ is_lower_bound(a) /\ is_upper_bound(b) =>
                compare(a, b) = IF a.matcher = ">=" /\ b.matcher = "<=" THEN 0 ELSE 1
           /\ a.version = b.version /\ (is_exact(a) \/ is_exact(b)) => compare(a, b) = 0
  <1>1. Unbounded \notin {a, b}
    BY SpecifierFacts
  <1> QED
    BY <1>1 DEF compare, is_lower_bound, is_upper_bound, is_exact

\* The tighter one of two lower bounds allows what both allow
\* (_try_combine_lower_bound).
LEMMA LowerBounds ==
    ASSUME NEW a \in Specifier, NEW b \in Specifier, is_lower_bound(a), is_lower_bound(b), NEW v \in Version
    PROVE  Satisfies(v, IF compare(a, b) = -1 THEN b ELSE a) <=> Satisfies(v, a) /\ Satisfies(v, b)
  <1> DEFINE x == a.version
             y == b.version
  <1>1. x \in Version /\ y \in Version /\ a.matcher \in {">", ">="} /\ b.matcher \in {">", ">="}
    BY SpecifierFacts DEF is_lower_bound
  <1>2. /\ Sign(v, x) \in {-1, 0, 1} /\ Sign(x, v) = -Sign(v, x) /\ (Sign(v, x) = 0 <=> v = x)
        /\ Sign(v, y) \in {-1, 0, 1} /\ Sign(y, v) = -Sign(v, y) /\ (Sign(v, y) = 0 <=> v = y)
        /\ Sign(x, y) \in {-1, 0, 1} /\ Sign(y, x) = -Sign(x, y) /\ (Sign(x, y) = 0 <=> x = y)
    BY <1>1, SignFacts
  <1>3. CASE x = y
    <2>1. compare(a, b) = IF a.matcher = b.matcher THEN 0 ELSE IF a.matcher = ">" THEN 1 ELSE -1
      BY <1>3, CompareSpecifiers
    <2>2. /\ a.matcher = ">" => (Satisfies(v, a) <=> Sign(v, x) > 0)
          /\ a.matcher = ">=" => (Satisfies(v, a) <=> Sign(v, x) >= 0)
          /\ b.matcher = ">" => (Satisfies(v, b) <=> Sign(v, x) > 0)
          /\ b.matcher = ">=" => (Satisfies(v, b) <=> Sign(v, x) >= 0)
      BY <1>3, SatisfiesSpecifier
    <2>3. CASE a.matcher = b.matcher
      BY <1>1, <2>1, <2>2, <2>3
    <2>4. CASE a.matcher # b.matcher
      BY <1>1, <1>2, <2>1, <2>2, <2>4
    <2> QED
      BY <2>3, <2>4
  <1>4. CASE Sign(x, y) = -1
    <2>1. compare(a, b) = -1
      BY <1>2, <1>4, CompareSpecifiers
    <2>2. Sign(v, y) >= 0 => Sign(v, x) > 0
      <3>1. ASSUME Sign(y, v) <= 0 PROVE Sign(x, v) < 0
        BY <1>1, <1>4, <3>1, SignTransitive
      <3> QED
        BY <1>2, <3>1
    <2> QED
      BY <1>1, <1>2, <2>1, <2>2, SatisfiesSpecifier
  <1>5. CASE Sign(x, y) = 1
    <2>1. compare(a, b) = 1
      BY <1>2, <1>5, CompareSpecifiers
    <2>2. Sign(v, x) >= 0 => Sign(v, y) > 0
      <3>1. ASSUME Sign(x, v) <= 0 PROVE Sign(y, v) < 0
        BY <1>1, <1>2, <1>5, <3>1, SignTransitive
      <3> QED
        BY <1>2, <3>1
    <2> QED
      BY <1>1, <1>2, <2>1, <2>2, SatisfiesSpecifier
  <1> QED
    BY <1>2, <1>3, <1>4, <1>5

\* ... and of two upper bounds (_try_combine_upper_bound).
LEMMA UpperBounds ==
    ASSUME NEW a \in Specifier, NEW b \in Specifier, is_upper_bound(a), is_upper_bound(b), NEW v \in Version
    PROVE  Satisfies(v, IF compare(a, b) = 1 THEN b ELSE a) <=> Satisfies(v, a) /\ Satisfies(v, b)
  <1> DEFINE x == a.version
             y == b.version
  <1>1. x \in Version /\ y \in Version /\ a.matcher \in {"<", "<="} /\ b.matcher \in {"<", "<="}
    BY SpecifierFacts DEF is_upper_bound
  <1>2. /\ Sign(v, x) \in {-1, 0, 1} /\ Sign(x, v) = -Sign(v, x) /\ (Sign(v, x) = 0 <=> v = x)
        /\ Sign(v, y) \in {-1, 0, 1} /\ Sign(y, v) = -Sign(v, y) /\ (Sign(v, y) = 0 <=> v = y)
        /\ Sign(x, y) \in {-1, 0, 1} /\ Sign(y, x) = -Sign(x, y) /\ (Sign(x, y) = 0 <=> x = y)
    BY <1>1, SignFacts
  <1>3. CASE x = y
    <2>1. compare(a, b) = IF a.matcher = b.matcher THEN 0 ELSE IF a.matcher = "<" THEN -1 ELSE 1
      BY <1>3, CompareSpecifiers
    <2>2. /\ a.matcher = "<" => (Satisfies(v, a) <=> Sign(v, x) < 0)
          /\ a.matcher = "<=" => (Satisfies(v, a) <=> Sign(v, x) <= 0)
          /\ b.matcher = "<" => (Satisfies(v, b) <=> Sign(v, x) < 0)
          /\ b.matcher = "<=" => (Satisfies(v, b) <=> Sign(v, x) <= 0)
      BY <1>3, SatisfiesSpecifier
    <2>3. CASE a.matcher = b.matcher
      BY <1>1, <2>1, <2>2, <2>3
    <2>4. CASE a.matcher # b.matcher
      BY <1>1, <1>2, <2>1, <2>2, <2>4
    <2> QED
      BY <2>3, <2>4
  <1>4. CASE Sign(x, y) = 1
    <2>1. compare(a, b) = 1
      BY <1>2, <1>4, CompareSpecifiers
    <2>2. Sign(v, y) <= 0 => Sign(v, x) < 0
      BY <1>1, <1>2, <1>4, SignTransitive
    <2> QED
      BY <1>1, <1>2, <2>1, <2>2, SatisfiesSpecifier
  <1>5. CASE Sign(x, y) = -1
    <2>1. compare(a, b) = -1
      BY <1>2, <1>5, CompareSpecifiers
    <2>2. Sign(v, x) <= 0 => Sign(v, y) < 0
      BY <1>1, <1>2, <1>5, SignTransitive
    <2> QED
      BY <1>1, <1>2, <2>1, <2>2, SatisfiesSpecifier
  <1> QED
    BY <1>2, <1>3, <1>4, <1>5

\* A range that starts after its end has no versions (reduce).
LEMMA EmptyRange ==
    ASSUME NEW a \in Specifier, NEW b \in Specifier, is_lower_bound(a), is_upper_bound(b), compare(a, b) > 0,
           NEW v \in Version
    PROVE  ~(Satisfies(v, a) /\ Satisfies(v, b))
  <1> DEFINE x == a.version
             y == b.version
  <1>1. x \in Version /\ y \in Version /\ a.matcher \in {">", ">="} /\ b.matcher \in {"<", "<="}
    BY SpecifierFacts DEF is_lower_bound, is_upper_bound
  <1>2. /\ Sign(v, x) \in {-1, 0, 1} /\ Sign(x, v) = -Sign(v, x)
        /\ Sign(v, y) \in {-1, 0, 1}
        /\ Sign(x, y) \in {-1, 0, 1}
    BY <1>1, SignFacts
  <1>3. CASE x = y
    BY <1>1, <1>2, <1>3, CompareSpecifiers, SatisfiesSpecifier
  <1>4. CASE x # y
    <2>1. Sign(x, y) > 0
      BY <1>4, CompareSpecifiers
    <2>2. ~(Sign(x, v) <= 0 /\ Sign(v, y) <= 0)
      BY <1>1, <1>2, <2>1, SignTransitive
    <2> QED
      BY <1>1, <1>2, <2>2, SatisfiesSpecifier
  <1> QED
    BY <1>3, <1>4

\* An exact version is kept if the bound allows it
\* (_try_combine_lower_bound_with_exact, _try_combine_upper_bound_with_exact).
LEMMA ExactAndBound ==
    ASSUME NEW b \in Specifier, NEW e \in Specifier, is_exact(e)
    PROVE  /\ is_lower_bound(b) => WithExact(b, e, -1, ">=") = IF Satisfies(e.version, b) THEN e ELSE Incompatible
           /\ is_upper_bound(b) => WithExact(b, e, 1, "<=") = IF Satisfies(e.version, b) THEN e ELSE Incompatible
  <1> DEFINE x == b.version
             y == e.version
  <1>1. x \in Version /\ y \in Version
    BY SpecifierFacts
  <1>2. Sign(x, y) \in {-1, 0, 1} /\ Sign(y, x) = -Sign(x, y) /\ (Sign(x, y) = 0 <=> x = y)
    BY <1>1, SignFacts
  <1>3. compare(b, e) = Sign(x, y)
    BY <1>2, CompareSpecifiers
  <1>4. /\ b.matcher = ">" => (Satisfies(y, b) <=> Sign(y, x) > 0)
        /\ b.matcher = ">=" => (Satisfies(y, b) <=> Sign(y, x) >= 0)
        /\ b.matcher = "<" => (Satisfies(y, b) <=> Sign(y, x) < 0)
        /\ b.matcher = "<=" => (Satisfies(y, b) <=> Sign(y, x) <= 0)
    BY <1>1, SatisfiesSpecifier
  <1>5. CASE is_lower_bound(b)
    BY <1>2, <1>3, <1>4, <1>5 DEF is_lower_bound, is_upper_bound, WithExact
  <1>6. CASE is_upper_bound(b)
    BY <1>2, <1>3, <1>4, <1>6 DEF is_lower_bound, is_upper_bound, WithExact
  <1> QED
    BY <1>5, <1>6

\* A range is one exact version, or has a lower bound, an upper bound, both or
\* none
IsLower(a) == a = Unbounded \/ (a \in Specifier /\ is_lower_bound(a))
IsUpper(a) == a = Unbounded \/ (a \in Specifier /\ is_upper_bound(a))
ExactRanges == {[start |-> e, end |-> e] : e \in {e \in Specifier : is_exact(e)}}
OpenRanges == {r \in [start : Specifier \cup {Unbounded}, end : Specifier \cup {Unbounded}] :
                 IsLower(r.start) /\ IsUpper(r.end)}
Ranges == ExactRanges \cup OpenRanges

\* The version v is in the range r
In(v, r) == Satisfies(v, r.start) /\ Satisfies(v, r.end)

\* What q has to be if it is r reduced by the specifier a
Reduced(q, r, a) ==
    /\ q \in Ranges \cup {NoRange}
    /\ q = NoRange => \A v \in Version : ~(In(v, r) /\ Satisfies(v, a))
    /\ q # NoRange => \A v \in Version : In(v, q) <=> In(v, r) /\ Satisfies(v, a)
    /\ q # NoRange /\ (r \in ExactRanges \/ is_exact(a)) => q \in ExactRanges

LEMMA RangeFacts ==
    /\ NoRange \notin Ranges
    /\ \A a \in Specifier : to_range(a) \in Ranges /\ (is_exact(a) => to_range(a) \in ExactRanges)
    /\ \A a \in Specifier, v \in Version : In(v, to_range(a)) <=> Satisfies(v, a)
  <1>1. NoRange \notin Ranges
    BY SpecifierFacts, Zenon DEF NoRange, Ranges, ExactRanges, OpenRanges
  <1>2. ASSUME NEW a \in Specifier, is_exact(a)
        PROVE  /\ to_range(a) \in ExactRanges
               /\ \A v \in Version : In(v, to_range(a)) <=> Satisfies(v, a)
    BY <1>2 DEF to_range, ExactRanges, In, is_exact, is_lower_bound, is_upper_bound
  <1>3. ASSUME NEW a \in Specifier, ~is_exact(a)
        PROVE  /\ to_range(a) \in OpenRanges
               /\ \A v \in Version : In(v, to_range(a)) <=> Satisfies(v, a)
    <2>1. CASE is_lower_bound(a)
      <3>1. to_range(a) = [start |-> a, end |-> Unbounded]
        BY <2>1 DEF to_range, is_lower_bound, is_upper_bound
      <3> QED
        BY <2>1, <3>1, SpecifierFacts DEF OpenRanges, IsLower, IsUpper, In
    <2>2. CASE is_upper_bound(a)
      <3>1. to_range(a) = [start |-> Unbounded, end |-> a]
        BY <2>2 DEF to_range, is_lower_bound, is_upper_bound
      <3> QED
        BY <2>2, <3>1, SpecifierFacts DEF OpenRanges, IsLower, IsUpper, In
    <2> QED
      BY <1>3, <2>1, <2>2, SpecifierFacts DEF is_exact, is_lower_bound, is_upper_bound
  <1> QED
    BY <1>1, <1>2, <1>3 DEF Ranges

\* An exact range reduced by a specifier: itself, if its version is allowed.
LEMMA ReduceExact ==
    ASSUME NEW e \in Specifier, is_exact(e), NEW a \in Specifier
    PROVE  Reduced(reduce([start |-> e, end |-> e], to_range(a)), [start |-> e, end |-> e], a)
  <1> DEFINE r == [start |-> e, end |-> e]
             q == reduce(r, to_range(a))
  <1>1. /\ e.version \in Version /\ a.version \in Version /\ e.matcher = "="
        /\ e # Unbounded /\ a # Unbounded /\ e # Incompatible /\ Incompatible # Unbounded
    BY SpecifierFacts DEF is_exact
  <1>2. r \in ExactRanges /\ r # NoRange
    BY <1>1 DEF ExactRanges, NoRange
  <1>3. ASSUME NEW v \in Version PROVE In(v, r) <=> v = e.version
    BY <1>1, SatisfiesSpecifier DEF In
  <1>4. compare(e, e) = 0
    BY CompareSpecifiers
  <1>5. q = IF Satisfies(e.version, a) THEN r ELSE NoRange
    <2>1. CASE is_exact(a)
      <3>1. to_range(a) = [start |-> a, end |-> a]
        BY <2>1 DEF to_range, is_exact, is_lower_bound, is_upper_bound
      <3>2. compare(e, a) = 0 <=> e.version = a.version
        BY <1>1, CompareSpecifiers, SignFacts
      <3>3. Satisfies(e.version, a) <=> e.version = a.version
        BY <1>1, <2>1, SatisfiesSpecifier DEF is_exact
      <3> QED
        BY <1>1, <1>2, <1>4, <2>1, <3>1, <3>2, <3>3 DEF reduce
    <2>2. CASE is_lower_bound(a)
      <3>1. to_range(a) = [start |-> a, end |-> Unbounded] /\ ~is_exact(a)
        BY <2>2 DEF to_range, is_exact, is_lower_bound, is_upper_bound
      <3>2. _try_combine_lower_bound(e, a) = IF Satisfies(e.version, a) THEN e ELSE Incompatible
        BY <1>1, <2>2, ExactAndBound DEF _try_combine_lower_bound, Combine
      <3>3. _try_combine_upper_bound(e, Unbounded) = e
        BY DEF _try_combine_upper_bound, Combine
      <3> QED
        BY <1>1, <1>2, <1>4, <3>1, <3>2, <3>3 DEF reduce
    <2>3. CASE is_upper_bound(a)
      <3>1. to_range(a) = [start |-> Unbounded, end |-> a] /\ ~is_exact(Unbounded)
        BY <2>3, SpecifierFacts DEF to_range, is_exact, is_lower_bound, is_upper_bound
      <3>2. _try_combine_upper_bound(e, a) = IF Satisfies(e.version, a) THEN e ELSE Incompatible
        BY <1>1, <2>3, ExactAndBound DEF _try_combine_upper_bound, Combine
      <3>3. _try_combine_lower_bound(e, Unbounded) = e
        BY DEF _try_combine_lower_bound, Combine
      <3> QED
        BY <1>1, <1>2, <1>4, <3>1, <3>2, <3>3 DEF reduce
    <2> QED
      BY <2>1, <2>2, <2>3, SpecifierFacts DEF is_exact, is_lower_bound, is_upper_bound
  <1> HIDE DEF q, r
  <1>6. Reduced(q, r, a)
    BY <1>2, <1>3, <1>5 DEF Reduced, Ranges
  <1> QED
    BY <1>6 DEF q, r

\* An open range reduced by an exact version: that one, if the range has it.
LEMMA ReduceOpenByExact ==
    ASSUME NEW r \in OpenRanges, NEW a \in Specifier, is_exact(a)
    PROVE  Reduced(reduce(r, to_range(a)), r, a)
  <1> DEFINE q == reduce(r, to_range(a))
             t == [start |-> a, end |-> a]
  <1>1. /\ a.version \in Version /\ a.matcher = "="
        /\ a # Unbounded /\ a # Incompatible /\ Incompatible # Unbounded
    BY SpecifierFacts DEF is_exact
  <1>2. /\ IsLower(r.start) /\ IsUpper(r.end) /\ ~is_exact(r.start) /\ ~is_exact(r.end) /\ r # NoRange
    BY RangeFacts, SpecifierFacts DEF OpenRanges, Ranges, IsLower, IsUpper, is_exact, is_lower_bound, is_upper_bound
  <1>3. t \in ExactRanges /\ t # NoRange /\ to_range(a) = t
    BY <1>1 DEF ExactRanges, NoRange, to_range, is_exact, is_lower_bound, is_upper_bound
  <1>4. _try_combine_lower_bound(r.start, a) = IF Satisfies(a.version, r.start) THEN a ELSE Incompatible
    BY <1>1, <1>2, ExactAndBound, SpecifierFacts DEF _try_combine_lower_bound, Combine, IsLower
  <1>5. _try_combine_upper_bound(r.end, a) = IF Satisfies(a.version, r.end) THEN a ELSE Incompatible
    BY <1>1, <1>2, ExactAndBound, SpecifierFacts DEF _try_combine_upper_bound, Combine, IsUpper
  <1>6. compare(a, a) = 0
    BY CompareSpecifiers
  <1>7. q = IF In(a.version, r) THEN t ELSE NoRange
    BY <1>1, <1>2, <1>3, <1>4, <1>5, <1>6 DEF reduce, In
  <1>8. ASSUME NEW v \in Version PROVE In(v, t) <=> v = a.version /\ (Satisfies(v, a) <=> v = a.version)
    BY <1>1, SatisfiesSpecifier DEF In
  <1>9. ASSUME NEW v \in Version PROVE Satisfies(v, a) <=> v = a.version
    BY <1>1, SatisfiesSpecifier
  <1> HIDE DEF q, t
  <1>10. Reduced(q, r, a)
    BY <1>3, <1>7, <1>8, <1>9 DEF Reduced, Ranges
  <1> QED
    BY <1>10 DEF q

\* An open range reduced by a lower bound.
LEMMA ReduceOpenByLower ==
    ASSUME NEW r \in OpenRanges, NEW a \in Specifier, is_lower_bound(a)
    PROVE  Reduced(reduce(r, to_range(a)), r, a)
  <1> DEFINE q == reduce(r, to_range(a))
             b == _try_combine_lower_bound(r.start, a)
             t == [start |-> b, end |-> r.end]
  <1>1. /\ a # Unbounded /\ a # Incompatible /\ Incompatible # Unbounded
        /\ ~is_exact(a) /\ ~is_exact(Unbounded) /\ IsLower(a)
    BY SpecifierFacts DEF is_exact, is_lower_bound, is_upper_bound, IsLower
  <1>2. /\ IsLower(r.start) /\ IsUpper(r.end) /\ ~is_exact(r.start) /\ ~is_exact(r.end)
        /\ r # NoRange /\ r \notin ExactRanges /\ r.start # Incompatible /\ r.end # Incompatible
    BY RangeFacts, SpecifierFacts
       DEF OpenRanges, Ranges, ExactRanges, IsLower, IsUpper, is_exact, is_lower_bound, is_upper_bound
  <1>3. to_range(a) = [start |-> a, end |-> Unbounded]
    BY DEF to_range, is_exact, is_lower_bound, is_upper_bound
  <1>4. _try_combine_upper_bound(r.end, Unbounded) = r.end
    BY DEF _try_combine_upper_bound, Combine
  <1>5. b = IF r.start = Unbounded THEN a ELSE IF compare(r.start, a) = -1 THEN a ELSE r.start
    BY <1>1, <1>2 DEF _try_combine_lower_bound, Combine
  <1>6. IsLower(b) /\ b # Incompatible /\ ~is_exact(b)
    BY <1>1, <1>2, <1>5
  <1>7. ASSUME NEW v \in Version PROVE Satisfies(v, b) <=> Satisfies(v, r.start) /\ Satisfies(v, a)
    <2>1. CASE r.start = Unbounded
      BY <1>5, <2>1, SpecifierFacts
    <2>2. CASE r.start # Unbounded
      <3>1. r.start \in Specifier /\ is_lower_bound(r.start)
        BY <1>2, <2>2 DEF IsLower
      <3> QED
        BY <1>5, <2>2, <3>1, LowerBounds
    <2> QED
      BY <2>1, <2>2
  <1> HIDE DEF b
  <1>8. q = IF compare(b, r.end) > 0 THEN NoRange ELSE t
    BY <1>1, <1>2, <1>3, <1>4, <1>6 DEF reduce, b
  <1>9. t \in OpenRanges /\ t # NoRange
    BY <1>2, <1>6 DEF OpenRanges, IsLower, IsUpper, NoRange
  <1>10. ASSUME NEW v \in Version PROVE In(v, t) <=> In(v, r) /\ Satisfies(v, a)
    BY <1>7 DEF In
  <1>11. ASSUME compare(b, r.end) > 0, NEW v \in Version PROVE ~In(v, t)
    <2>1. t.start \in Specifier /\ t.end \in Specifier
      <3>1. compare(t.start, t.end) > 0
        BY <1>11
      <3>2. Unbounded \notin {t.start, t.end}
        BY <3>1 DEF compare
      <3> QED
        BY <3>2, <1>9 DEF OpenRanges
    <2>2. is_lower_bound(t.start) /\ is_upper_bound(t.end)
      BY <2>1, <1>9, SpecifierFacts DEF OpenRanges, IsLower, IsUpper
    <2> QED
      BY <1>11, <2>1, <2>2, EmptyRange DEF In
  <1> HIDE DEF q, t
  <1>12. Reduced(q, r, a)
    BY <1>1, <1>2, <1>8, <1>9, <1>10, <1>11 DEF Reduced, Ranges
  <1> QED
    BY <1>12 DEF q

\* ... and by an upper bound.
LEMMA ReduceOpenByUpper ==
    ASSUME NEW r \in OpenRanges, NEW a \in Specifier, is_upper_bound(a)
    PROVE  Reduced(reduce(r, to_range(a)), r, a)
  <1> DEFINE q == reduce(r, to_range(a))
             b == _try_combine_upper_bound(r.end, a)
             t == [start |-> r.start, end |-> b]
  <1>1. /\ a # Unbounded /\ a # Incompatible /\ Incompatible # Unbounded
        /\ ~is_exact(a) /\ ~is_exact(Unbounded) /\ IsUpper(a)
    BY SpecifierFacts DEF is_exact, is_lower_bound, is_upper_bound, IsUpper
  <1>2. /\ IsLower(r.start) /\ IsUpper(r.end) /\ ~is_exact(r.start) /\ ~is_exact(r.end)
        /\ r # NoRange /\ r \notin ExactRanges /\ r.start # Incompatible /\ r.end # Incompatible
    BY RangeFacts, SpecifierFacts
       DEF OpenRanges, Ranges, ExactRanges, IsLower, IsUpper, is_exact, is_lower_bound, is_upper_bound
  <1>3. to_range(a) = [start |-> Unbounded, end |-> a]
    BY DEF to_range, is_exact, is_lower_bound, is_upper_bound
  <1>4. _try_combine_lower_bound(r.start, Unbounded) = r.start
    BY DEF _try_combine_lower_bound, Combine
  <1>5. b = IF r.end = Unbounded THEN a ELSE IF compare(r.end, a) = 1 THEN a ELSE r.end
    BY <1>1, <1>2 DEF _try_combine_upper_bound, Combine
  <1>6. IsUpper(b) /\ b # Incompatible /\ ~is_exact(b)
    BY <1>1, <1>2, <1>5
  <1>7. ASSUME NEW v \in Version PROVE Satisfies(v, b) <=> Satisfies(v, r.end) /\ Satisfies(v, a)
    <2>1. CASE r.end = Unbounded
      BY <1>5, <2>1, SpecifierFacts
    <2>2. CASE r.end # Unbounded
      <3>1. r.end \in Specifier /\ is_upper_bound(r.end)
        BY <1>2, <2>2 DEF IsUpper
      <3> QED
        BY <1>5, <2>2, <3>1, UpperBounds
    <2> QED
      BY <2>1, <2>2
  <1> HIDE DEF b
  <1>8. q = IF compare(r.start, b) > 0 THEN NoRange ELSE t
    BY <1>1, <1>2, <1>3, <1>4, <1>6 DEF reduce, b
  <1>9. t \in OpenRanges /\ t # NoRange
    BY <1>2, <1>6 DEF OpenRanges, IsLower, IsUpper, NoRange
  <1>10. ASSUME NEW v \in Version PROVE In(v, t) <=> In(v, r) /\ Satisfies(v, a)
    BY <1>7 DEF In
  <1>11. ASSUME compare(r.start, b) > 0, NEW v \in Version PROVE ~In(v, t)
    <2>1. t.start \in Specifier /\ t.end \in Specifier
      <3>1. compare(t.start, t.end) > 0
        BY <1>11
      <3>2. Unbounded \notin {t.start, t.end}
        BY <3>1 DEF compare
      <3> QED
        BY <3>2, <1>9 DEF OpenRanges
    <2>2. is_lower_bound(t.start) /\ is_upper_bound(t.end)
      BY <2>1, <1>9, SpecifierFacts DEF OpenRanges, IsLower, IsUpper
    <2> QED
      BY <1>11, <2>1, <2>2, EmptyRange DEF In
  <1> HIDE DEF q, t
  <1>12. Reduced(q, r, a)
    BY <1>1, <1>2, <1>8, <1>9, <1>10, <1>11 DEF Reduced, Ranges
  <1> QED
    BY <1>12 DEF q

\* VersionRange.reduce: what is left is what both allow, and nothing is left only
\* if no version at all is allowed by both.
LEMMA ReduceMeans ==
    ASSUME NEW r \in Ranges, NEW a \in Specifier
    PROVE  Reduced(reduce(r, to_range(a)), r, a)
  <1>1. CASE r \in ExactRanges
    BY <1>1, ReduceExact DEF ExactRanges
  <1>2. CASE r \in OpenRanges
    BY <1>2, ReduceOpenByExact, ReduceOpenByLower, ReduceOpenByUpper
       DEF Specifier, Matchers, is_exact, is_lower_bound, is_upper_bound
  <1> QED
    BY <1>1, <1>2 DEF Ranges

LEMMA HasMax ==
    ASSUME NEW N \in Nat, NEW A \in SUBSET (1..N), A # {}
    PROVE  \E i \in A : \A j \in A : j <= i
  <1> DEFINE Below(n) == {j \in A : j <= n}
             T == {n \in 0..N : Below(n) = {} \/ \E i \in Below(n) : \A j \in Below(n) : j <= i}
  <1>1. 0 \in T
    <2>1. \A j \in A : ~(j <= 0)
      OBVIOUS
    <2>2. Below(0) = {}
      BY <2>1, Zenon
    <2> HIDE DEF Below
    <2> QED
      BY <2>2
  <1>2. ASSUME NEW n \in 1..N, n - 1 \in T PROVE n \in T
    <2>1. n \in A => n \in Below(n) /\ \A j \in Below(n) : j <= n
      OBVIOUS
    <2>2. n \notin A => Below(n) = Below(n - 1)
      <3>1. \A j \in A : j # n => (j <= n <=> j <= n - 1)
        OBVIOUS
      <3> QED
        BY <3>1, Zenon
    <2> HIDE DEF Below
    <2> QED
      BY <1>2, <2>1, <2>2
  <1>3. N \in T
    <2> HIDE DEF T
    <2>1. 0..N \subseteq T
      BY <1>1, <1>2, Induction
    <2> QED
      BY <2>1
  <1>4. Below(N) = A
    <2>1. \A j \in A : j <= N
      OBVIOUS
    <2> QED
      BY <2>1, Zenon
  <1> HIDE DEF Below
  <1> QED
    BY <1>3, <1>4, Zenon

\* The version v is allowed by each of the specifiers
AllSatisfied(v, specifiers) == \A i \in DOMAIN specifiers : Satisfies(v, specifiers[i])

\* reduce_versions: the range has the versions that every specifier allows, and
\* there is no range only if there are none.
LEMMA ReduceVersions ==
    ASSUME NEW s \in Seq(Specifier \cup {Unbounded}), NEW q, q = reduce_versions(s)
    PROVE  /\ q \in Ranges \cup {NoRange}
           /\ q = NoRange => \A v \in Version : ~AllSatisfied(v, s)
           /\ q # NoRange => \A v \in Version : In(v, q) <=> AllSatisfied(v, s)
           /\ q # NoRange /\ (\E i \in DOMAIN s : is_exact(s[i])) => q \in ExactRanges
  <1> DEFINE N == Len(s)
             bounded == {i \in DOMAIN s : s[i] # Unbounded}
             last == CHOOSE i \in bounded : \A j \in bounded : j <= i
  <1>1. N \in Nat /\ DOMAIN s = 1..N /\ bounded \subseteq 1..N
    OBVIOUS
  <1>2. \A i \in bounded : s[i] \in Specifier
    OBVIOUS
  <1>3. \A i \in DOMAIN s \ bounded : ~is_exact(s[i]) /\ \A v \in Version : Satisfies(v, s[i])
    BY SpecifierFacts
  <1>4. CASE bounded = {}
    <2>1. q = [start |-> Unbounded, end |-> Unbounded]
      BY <1>4 DEF reduce_versions
    <2>2. q \in OpenRanges /\ \A v \in Version : In(v, q)
      BY <2>1, SpecifierFacts DEF OpenRanges, IsLower, IsUpper, In
    <2>3. q # NoRange
      BY <2>2, RangeFacts DEF Ranges
    <2> QED
      BY <1>3, <1>4, <2>2, <2>3 DEF AllSatisfied, Ranges
  <1>5. CASE bounded # {}
    <2>1. last \in bounded
      <3> HIDE DEF bounded
      <3>1. \E i \in bounded : \A j \in bounded : j <= i
        BY <1>1, <1>5, HasMax, Zenon
      <3> QED
        BY <3>1, Zenon
    <2> DEFINE S == Ranges \cup {NoRange}
               base == to_range(s[last])
               others == bounded \ {last}
               step == [x \in S \X (1..N) |-> IF x[2] \in others THEN reduce(x[1], to_range(s[x[2]])) ELSE x[1]]
               upto == CHOOSE f : f = [n \in 0..N |-> IF n = 0 THEN base
                                                     ELSE IF n \in others THEN reduce(f[n - 1], to_range(s[n]))
                                                     ELSE f[n - 1]]
    <2>2. q = upto[N]
      BY <1>5 DEF reduce_versions
    <2> HIDE DEF last
    <2>3. base \in Ranges /\ base # NoRange
      BY <1>2, <2>1, RangeFacts
    <2>4. \A t : reduce(NoRange, t) = NoRange
      BY DEF reduce
    <2>5. ASSUME NEW r \in S, NEW n \in others PROVE reduce(r, to_range(s[n])) \in S
      BY <1>2, <2>4, ReduceMeans DEF Reduced
    <2>6. step \in [S \X (1..N) -> S]
      BY <2>5, Zenon
    <2> HIDE DEF S, base, others
    <2>7. PICK f : IsFold(f, N, S, base, step)
      <3>1. N \in Nat /\ base \in S
        BY <2>3 DEF S
      <3> HIDE DEF step, N
      <3> QED
        BY <2>6, <3>1, FoldExists, Zenon
    <2>8. f = [n \in 0..N |-> IF n = 0 THEN base
                             ELSE IF n \in others THEN reduce(f[n - 1], to_range(s[n])) ELSE f[n - 1]]
      <3>1. ASSUME NEW n \in 1..N
            PROVE  f[n] = IF n \in others THEN reduce(f[n - 1], to_range(s[n])) ELSE f[n - 1]
        <4>1. n - 1 \in 0..N /\ f[n - 1] \in S
          BY <1>1, <2>7 DEF IsFold
        <4>2. step[<<f[n - 1], n>>] = IF n \in others THEN reduce(f[n - 1], to_range(s[n])) ELSE f[n - 1]
          BY <4>1
        <4>3. f[n] = step[<<f[n - 1], n>>]
          <5> HIDE DEF step
          <5> QED
            BY <2>7 DEF IsFold
        <4> QED
          BY <4>2, <4>3
      <3> HIDE DEF step
      <3> QED
        BY <1>1, <2>7, <3>1 DEF IsFold
    <2>9. upto = [n \in 0..N |-> IF n = 0 THEN base
                                ELSE IF n \in others THEN reduce(upto[n - 1], to_range(s[n])) ELSE upto[n - 1]]
      BY <2>8
    <2> HIDE DEF upto, step
    \* What is left after the specifiers 1..n and the last one
    <2> DEFINE seen(n) == {i \in bounded : i <= n} \cup {last}
               Means(r, n) ==
                 /\ r \in S
                 /\ r = NoRange => \A v \in Version : \E i \in seen(n) : ~Satisfies(v, s[i])
                 /\ r # NoRange => \A v \in Version : In(v, r) <=> \A i \in seen(n) : Satisfies(v, s[i])
                 /\ r # NoRange /\ (\E i \in seen(n) : is_exact(s[i])) => r \in ExactRanges
               T == {n \in 0..N : Means(upto[n], n)}
    <2>10. 0 \in T
      <3>1. seen(0) = {last}
        BY <1>1
      <3>2. upto[0] = base
        BY <1>1, <2>9
      <3> HIDE DEF seen
      <3> QED
        BY <1>1, <1>2, <2>1, <2>3, <3>1, <3>2, RangeFacts DEF base, S
    <2>11. ASSUME NEW n \in 1..N, n - 1 \in T PROVE n \in T
      <3>1. Means(upto[n - 1], n - 1)
        BY <2>11
      <3>2. upto[n] = IF n \in others THEN reduce(upto[n - 1], to_range(s[n])) ELSE upto[n - 1]
        <4>1. n \in 0..N /\ n # 0
          OBVIOUS
        <4> QED
          BY <2>9, <4>1
      <3>3. CASE n \notin others
        <4>1. seen(n) = seen(n - 1)
          <5>1. \A j \in bounded : j # n => (j <= n <=> j <= n - 1)
            BY <1>1
          <5> QED
            BY <3>3, <5>1 DEF others
        <4> HIDE DEF seen
        <4> QED
          BY <3>1, <3>2, <3>3, <4>1
      <3>4. CASE n \in others
        <4>1. seen(n) = seen(n - 1) \cup {n}
          <5>1. \A j \in bounded : j # n => (j <= n <=> j <= n - 1)
            BY <1>1
          <5> QED
            BY <3>4, <5>1 DEF others
        <4>2. s[n] \in Specifier
          BY <1>2, <3>4 DEF others
        <4> HIDE DEF seen
        <4>3. CASE upto[n - 1] = NoRange
          BY <2>4, <3>1, <3>2, <3>4, <4>1, <4>3 DEF S
        <4>4. CASE upto[n - 1] # NoRange
          <5>1. Reduced(upto[n], upto[n - 1], s[n])
            BY <3>1, <3>2, <3>4, <4>2, <4>4, ReduceMeans DEF S
          <5> QED
            BY <3>1, <4>1, <4>4, <5>1 DEF Reduced, S
        <4> QED
          BY <4>3, <4>4
      <3> QED
        BY <3>3, <3>4
    <2>12. N \in T
      <3> HIDE DEF T
      <3>1. 0..N \subseteq T
        BY <1>1, <2>10, <2>11, Induction, Zenon
      <3> QED
        BY <1>1, <3>1
    <2>13. seen(N) = bounded
      BY <1>1, <2>1
    <2> HIDE DEF seen
    <2>14. Means(q, N)
      BY <2>2, <2>12
    <2>15. \A v \in Version : AllSatisfied(v, s) <=> \A i \in bounded : Satisfies(v, s[i])
      BY <1>3 DEF AllSatisfied
    <2>16. (\E i \in DOMAIN s : is_exact(s[i])) <=> \E i \in bounded : is_exact(s[i])
      BY <1>3
    <2> HIDE DEF bounded
    <2> QED
      BY <2>13, <2>14, <2>15, <2>16 DEF S
  <1> QED
    BY <1>4, <1>5
-----------------------------------------------------------------------------
(* The version that a package is resolved to *)

\* versions_compatible: the version is in the range.
LEMMA Compatible ==
    ASSUME NEW v \in Version, NEW r \in Ranges
    PROVE  versions_compatible(v, r) <=> In(v, r)
  <1> DEFINE a == [matcher |-> "=", version |-> v]
             s == <<a, r.start, r.end>>
             q == reduce_versions(s)
  <1>1. a \in Specifier /\ is_exact(a)
    BY DEF Specifier, Matchers, is_exact, Version
  <1>2. r.start \in Specifier \cup {Unbounded} /\ r.end \in Specifier \cup {Unbounded}
    BY DEF Ranges, ExactRanges, OpenRanges
  <1>3. s \in Seq(Specifier \cup {Unbounded}) /\ s[1] = a /\ 1 \in DOMAIN s
    BY <1>1, <1>2
  <1>4. ASSUME NEW w \in Version PROVE AllSatisfied(w, s) <=> w = v /\ In(w, r)
    <2>1. Satisfies(w, a) <=> w = v
      BY <1>1, SatisfiesSpecifier
    <2>2. DOMAIN s = {1, 2, 3} /\ s[1] = a /\ s[2] = r.start /\ s[3] = r.end
      OBVIOUS
    <2> HIDE DEF s, a
    <2> QED
      BY <2>1, <2>2 DEF AllSatisfied, In
  <1>5. versions_compatible(v, r) <=> q # NoRange
    BY DEF versions_compatible
  <1> HIDE DEF s, a
  <1>6. q = NoRange => ~In(v, r)
    BY <1>3, <1>4, ReduceVersions
  <1>7. ASSUME q # NoRange PROVE In(v, r)
    <2>1. q \in ExactRanges /\ \A w \in Version : In(w, q) <=> AllSatisfied(w, s)
      BY <1>1, <1>3, <1>7, ReduceVersions
    <2> HIDE DEF q
    <2>2. PICK e \in Specifier : is_exact(e) /\ q = [start |-> e, end |-> e]
      BY <2>1 DEF ExactRanges
    <2>3. e.version \in Version /\ In(e.version, q)
      BY <2>2, SpecifierFacts, SatisfiesSpecifier DEF In, is_exact
    <2> QED
      BY <1>4, <2>1, <2>3
  <1> QED
    BY <1>5, <1>6, <1>7

\* m is the newest of the versions in A, or none if there are none
IsNewest(m, A) ==
    IF A = {} THEN m = NoVersion ELSE m \in A /\ \A v \in A : Sign(v, m) <= 0

\* resolve_to_specific_version: the newest version of the range, in whatever order
\* the versions are listed.
LEMMA ResolveTo ==
    ASSUME NEW r \in Ranges, NEW available \in Seq(Version)
    PROVE  IsNewest(resolve_to_specific_version(r, available), {v \in Range(available) : In(v, r)})
  <1> DEFINE N == Len(available)
             S == Version \cup {NoVersion}
             newer(x, n) == versions_compatible(available[n], r) /\ (x = NoVersion \/ Sign(x, available[n]) < 0)
             step == [x \in S \X (1..N) |-> IF newer(x[1], x[2]) THEN available[x[2]] ELSE x[1]]
             max == CHOOSE f : f = [n \in 0..N |-> IF n = 0 THEN NoVersion
                                                  ELSE IF newer(f[n - 1], n) THEN available[n] ELSE f[n - 1]]
             good(n) == {v \in {available[i] : i \in 1..n} : In(v, r)}
             T == {n \in 0..N : IsNewest(max[n], good(n))}
  <1>1. resolve_to_specific_version(r, available) = max[N]
    BY DEF resolve_to_specific_version
  <1>2. N \in Nat /\ \A n \in 1..N : available[n] \in Version
    OBVIOUS
  <1>3. step \in [S \X (1..N) -> S]
    <2> HIDE DEF newer
    <2> QED
      BY <1>2
  <1>4. PICK f : IsFold(f, N, S, NoVersion, step)
    <2>1. NoVersion \in S
      OBVIOUS
    <2> HIDE DEF step, N, S
    <2> QED
      BY <1>2, <1>3, <2>1, FoldExists, Zenon
  <1> HIDE DEF newer, S
  <1>5. f = [n \in 0..N |-> IF n = 0 THEN NoVersion ELSE IF newer(f[n - 1], n) THEN available[n] ELSE f[n - 1]]
    <2>1. ASSUME NEW n \in 1..N
          PROVE  f[n] = IF newer(f[n - 1], n) THEN available[n] ELSE f[n - 1]
      <3>1. n - 1 \in 0..N /\ f[n - 1] \in S
        BY <1>2, <1>4 DEF IsFold
      <3>2. step[<<f[n - 1], n>>] = IF newer(f[n - 1], n) THEN available[n] ELSE f[n - 1]
        BY <3>1
      <3>3. f[n] = step[<<f[n - 1], n>>]
        <4> HIDE DEF step
        <4> QED
          BY <1>4 DEF IsFold
      <3> QED
        BY <3>2, <3>3
    <2> HIDE DEF step
    <2> QED
      BY <1>2, <1>4, <2>1 DEF IsFold
  <1>6. max = [n \in 0..N |-> IF n = 0 THEN NoVersion
                             ELSE IF newer(max[n - 1], n) THEN available[n] ELSE max[n - 1]]
    BY <1>5, Zenon
  <1> HIDE DEF max, step
  <1>7. 0 \in T
    <2>1. good(0) = {}
      OBVIOUS
    <2>2. max[0] = NoVersion
      BY <1>2, <1>6
    <2> HIDE DEF good
    <2> QED
      BY <1>2, <2>1, <2>2 DEF IsNewest
  <1>8. ASSUME NEW n \in 1..N, n - 1 \in T PROVE n \in T
    <2>1. IsNewest(max[n - 1], good(n - 1))
      BY <1>8
    <2>2. max[n] = IF newer(max[n - 1], n) THEN available[n] ELSE max[n - 1]
      <3>1. n \in 0..N /\ n # 0
        OBVIOUS
      <3> QED
        BY <1>6, <3>1
    <2>3. available[n] \in Version
      BY <1>2
    <2>4. newer(max[n - 1], n) <=> In(available[n], r) /\ (max[n - 1] = NoVersion \/ Sign(max[n - 1], available[n]) < 0)
      BY <2>3, Compatible DEF newer
    <2>5. good(n) = IF In(available[n], r) THEN good(n - 1) \cup {available[n]} ELSE good(n - 1)
      <3>1. {available[i] : i \in 1..n} = {available[i] : i \in 1..(n - 1)} \cup {available[n]}
        <4>1. 1..n = (1..(n - 1)) \cup {n}
          OBVIOUS
        <4> QED
          BY <4>1, Zenon
      <3> QED
        BY <3>1, Zenon
    <2>6. good(n - 1) \subseteq Version
      BY <1>2
    <2>7. NoVersion \notin Version
      BY DEF NoVersion, Version
    <2> HIDE DEF good
    <2>8. IsNewest(max[n], good(n))
      <3>1. CASE ~In(available[n], r)
        BY <2>1, <2>2, <2>4, <2>5, <3>1
      <3>2. CASE In(available[n], r) /\ good(n - 1) = {}
        BY <2>1, <2>2, <2>3, <2>4, <2>5, <3>2, SignFacts DEF IsNewest
      <3>3. CASE In(available[n], r) /\ good(n - 1) # {}
        <4>1. /\ max[n - 1] \in Version /\ max[n - 1] \in good(n - 1) /\ max[n - 1] # NoVersion
              /\ \A v \in good(n - 1) : v \in Version /\ Sign(v, max[n - 1]) <= 0
          BY <2>1, <2>6, <2>7, <3>3 DEF IsNewest
        <4>2. CASE Sign(max[n - 1], available[n]) < 0
          <5>1. max[n] = available[n]
            BY <2>2, <2>4, <3>3, <4>2
          <5>2. \A v \in good(n - 1) : Sign(v, available[n]) <= 0
            <6>1. Sign(max[n - 1], available[n]) <= 0
              BY <2>3, <4>1, <4>2, SignFacts
            <6> QED
              BY <2>3, <4>1, <6>1, SignTransitive
          <5>3. Sign(available[n], available[n]) <= 0
            BY <2>3, SignFacts
          <5> QED
            BY <2>5, <3>3, <5>1, <5>2, <5>3 DEF IsNewest
        <4>3. CASE ~(Sign(max[n - 1], available[n]) < 0)
          <5>1. max[n] = max[n - 1]
            BY <2>2, <2>4, <4>1, <4>3
          <5>2. Sign(available[n], max[n - 1]) <= 0
            BY <2>3, <4>1, <4>3, SignFacts
          <5> QED
            BY <2>5, <3>3, <4>1, <5>1, <5>2 DEF IsNewest
        <4> QED
          BY <4>2, <4>3
      <3> QED
        BY <3>1, <3>2, <3>3
    <2> QED
      BY <2>8
  <1>9. N \in T
    <2> HIDE DEF T
    <2>1. 0..N \subseteq T
      BY <1>2, <1>7, <1>8, Induction, Zenon
    <2> QED
      BY <1>2, <2>1
  <1>10. Range(available) = {available[i] : i \in 1..N}
    BY DEF Range
  <1> QED
    BY <1>1, <1>9, <1>10, Zenon

\* The versions that the requirement e allows
Good(e) == {v \in Range(Available) : AllSatisfied(v, e.versions)}

\* RegistryUnpinnedPackage.resolved: the newest version that every specifier allows.
LEMMA ResolvedIsNewest ==
    ASSUME NEW e \in Requirement
    PROVE  IsNewest(resolved(e), Good(e)) /\ Good(e) \subseteq Range(Available) /\ Range(Available) \subseteq Version
  <1> DEFINE q == reduce_versions(e.versions)
  <1>1. e.versions \in Seq(Specifier \cup {Unbounded})
    BY DEF Requirement
  <1>2. Available \in Seq(Version)
    BY DepsAssumption DEF Version
  <1>3. Range(Available) \subseteq Version
    BY <1>2 DEF Range
  <1>4. /\ q \in Ranges \cup {NoRange}
        /\ q = NoRange => \A v \in Version : ~AllSatisfied(v, e.versions)
        /\ q # NoRange => \A v \in Version : In(v, q) <=> AllSatisfied(v, e.versions)
    BY <1>1, ReduceVersions, Zenon
  <1>5. resolved(e) = IF q = NoRange THEN NoVersion ELSE resolve_to_specific_version(q, Available)
    BY DEF resolved
  <1> HIDE DEF q
  <1>6. CASE q = NoRange
    BY <1>3, <1>4, <1>5, <1>6 DEF IsNewest, Good
  <1>7. CASE q # NoRange
    <2>1. Good(e) = {v \in Range(Available) : In(v, q)}
      BY <1>3, <1>4, <1>7 DEF Good
    <2> QED
      BY <1>2, <1>3, <1>4, <1>5, <1>7, <2>1, ResolveTo DEF Good
  <1> QED
    BY <1>6, <1>7

\* A requirement with more specifiers resolves to no newer a version.
LEMMA MoreSpecifiers ==
    ASSUME NEW d \in Requirement, NEW e \in Requirement, Range(d.versions) \subseteq Range(e.versions)
    PROVE  /\ resolved(e) = NoVersion \/ (resolved(e) \in Version /\ AllSatisfied(resolved(e), d.versions))
           /\ resolved(e) = NoVersion \/ (resolved(d) \in Version /\ Sign(resolved(e), resolved(d)) <= 0)
  <1>1. ASSUME NEW v, AllSatisfied(v, e.versions) PROVE AllSatisfied(v, d.versions)
    BY <1>1 DEF AllSatisfied, Range
  <1>2. Good(e) \subseteq Good(d)
    BY <1>1 DEF Good
  <1>3. /\ IsNewest(resolved(e), Good(e)) /\ IsNewest(resolved(d), Good(d))
        /\ Good(d) \subseteq Version /\ Good(e) \subseteq Version
    BY ResolvedIsNewest
  <1> QED
    BY <1>1, <1>2, <1>3 DEF IsNewest, Good
-----------------------------------------------------------------------------
(* Listings *)

\* A PackageListing has one entry for each of its packages
Distinct(listing) ==
    \A i, j \in DOMAIN listing : listing[i].package = listing[j].package => i = j
Listing == {l \in Seq(Requirement) : Distinct(l)}

\* The listing has all the specifiers of the requirement r
Covers(listing, r) ==
    \E e \in Range(listing) : e.package = r.package /\ Range(r.versions) \subseteq Range(e.versions)

\* What to expect of the listing that some requirements were added to
Extends(new, old) ==
    /\ Packages(old) \subseteq Packages(new)
    /\ \A r \in Requirement : Covers(old, r) => Covers(new, r)

LEMMA EntryOf ==
    ASSUME NEW l \in Listing, NEW e \in Range(l)
    PROVE  Entry(l, e.package) = e
  <1>1. \A d \in Range(l) : d.package = e.package => d = e
    BY DEF Listing, Distinct, Range
  <1> QED
    BY <1>1, Zenon DEF Entry

LEMMA ListingFacts ==
    ASSUME NEW l \in Listing
    PROVE  /\ Range(l) \subseteq Requirement
           /\ Packages(l) \subseteq Package
           /\ \A e \in Range(l) : Covers(l, e)
           /\ l \in Seq(Requirement)
  <1>1. Range(l) \subseteq Requirement
    BY DEF Listing, Range
  <1> QED
    BY <1>1 DEF Packages, Covers, Requirement, Listing

LEMMA Concatenation ==
    ASSUME NEW s \in Seq(Specifier), NEW t \in Seq(Specifier)
    PROVE  s \o t \in Seq(Specifier) /\ Range(s) \subseteq Range(s \o t) /\ Range(t) \subseteq Range(s \o t)
  <1>1. s \o t \in Seq(Specifier) /\ Len(s \o t) = Len(s) + Len(t)
    OBVIOUS
  <1>2. ASSUME NEW i \in DOMAIN s PROVE s[i] \in Range(s \o t)
    <2>1. i \in DOMAIN (s \o t) /\ (s \o t)[i] = s[i]
      OBVIOUS
    <2> QED
      BY <2>1 DEF Range
  <1>3. ASSUME NEW i \in DOMAIN t PROVE t[i] \in Range(s \o t)
    <2>1. Len(s) + i \in DOMAIN (s \o t) /\ (s \o t)[Len(s) + i] = t[i]
      OBVIOUS
    <2> QED
      BY <2>1 DEF Range
  <1> QED
    BY <1>1, <1>2, <1>3, Zenon DEF Range

\* PackageListing.incorporate: the listing has what it had and the new requirement,
\* and the entries of other packages are as they were.
LEMMA IncorporateFacts ==
    ASSUME NEW l \in Listing, NEW new \in Requirement, NEW m, m = incorporate(l, new)
    PROVE  /\ m \in Listing
           /\ Packages(m) = Packages(l) \cup {new.package}
           /\ Extends(m, l)
           /\ Covers(m, new)
           /\ \A e \in Range(m) : e.package # new.package => e \in Range(l)
  <1>1. l \in Seq(Requirement) /\ Distinct(l)
    BY DEF Listing
  <1>2. CASE new.package \in Packages(l)
    <2>1. PICK k \in DOMAIN l : l[k].package = new.package
      BY <1>2 DEF Packages, Range
    <2> DEFINE w == l[k].versions \o new.versions
               e == [package |-> new.package, versions |-> w]
    <2>2. /\ l[k] \in Requirement /\ w \in Seq(Specifier)
          /\ Range(l[k].versions) \subseteq Range(w) /\ Range(new.versions) \subseteq Range(w)
      <3>1. l[k] \in Requirement
        BY <1>1
      <3>2. l[k].versions \in Seq(Specifier) /\ new.versions \in Seq(Specifier)
        BY <3>1 DEF Requirement
      <3> QED
        BY <3>1, <3>2, Concatenation
    <2>3. \A i \in DOMAIN l : l[i].package = new.package <=> i = k
      BY <1>1, <2>1 DEF Distinct
    <2>4. m = [i \in DOMAIN l |-> IF i = k THEN [l[k] EXCEPT !.versions = w] ELSE l[i]]
      BY <1>2, <2>3, Zenon DEF incorporate
    <2> HIDE DEF w
    <2>5. /\ m \in Seq(Requirement) /\ DOMAIN m = DOMAIN l /\ e \in Requirement
          /\ \A i \in DOMAIN l : m[i] = (IF i = k THEN e ELSE l[i]) /\ m[i].package = l[i].package
      <3>1. [l[k] EXCEPT !.versions = w] = e /\ e \in Requirement /\ e.package = l[k].package
        BY <2>1, <2>2 DEF Requirement
      <3> HIDE DEF e
      <3>2. m = [i \in DOMAIN l |-> IF i = k THEN e ELSE l[i]]
        BY <2>4, <3>1
      <3> QED
        BY <1>1, <3>1, <3>2
    <2>a. e.package = new.package /\ e.versions = w
      OBVIOUS
    <2> HIDE DEF e
    <2>6. Distinct(m)
      BY <1>1, <2>5 DEF Distinct
    <2>7. Packages(m) = Packages(l)
      BY <2>5 DEF Packages, Range
    <2>8. Covers(m, new)
      <3>1. e \in Range(m)
        BY <2>1, <2>5 DEF Range
      <3> QED
        BY <2>2, <2>a, <3>1 DEF Covers
    <2>9. ASSUME NEW r \in Requirement, Covers(l, r) PROVE Covers(m, r)
      <3>1. PICK i \in DOMAIN l : l[i].package = r.package /\ Range(r.versions) \subseteq Range(l[i].versions)
        BY <2>9 DEF Covers, Range
      <3>2. m[i] \in Range(m)
        BY <2>5 DEF Range
      <3>3. m[i].package = r.package /\ Range(r.versions) \subseteq Range(m[i].versions)
        BY <2>2, <2>5, <2>a, <3>1
      <3> QED
        BY <3>2, <3>3 DEF Covers
    <2>10. ASSUME NEW d \in Range(m), d.package # new.package PROVE d \in Range(l)
      BY <2>1, <2>5, <2>10 DEF Range
    <2> QED
      BY <1>2, <2>5, <2>6, <2>7, <2>8, <2>9, <2>10 DEF Listing, Extends
  <1>3. CASE new.package \notin Packages(l)
    <2>1. m = Append(l, new)
      BY <1>3 DEF incorporate
    <2>2. /\ m \in Seq(Requirement) /\ DOMAIN m = DOMAIN l \cup {Len(l) + 1} /\ Len(l) + 1 \notin DOMAIN l
          /\ m[Len(l) + 1] = new /\ \A i \in DOMAIN l : m[i] = l[i]
      BY <1>1, <2>1
    <2>3. Range(m) = Range(l) \cup {new}
      BY <2>2 DEF Range
    <2>4. \A i \in DOMAIN l : l[i].package # new.package
      BY <1>3 DEF Packages, Range
    <2>5. Distinct(m)
      BY <1>1, <2>2, <2>4 DEF Distinct
    <2>6. Packages(m) = Packages(l) \cup {new.package}
      BY <2>3 DEF Packages
    <2>7. Covers(m, new) /\ \A r \in Requirement : Covers(l, r) => Covers(m, r)
      BY <2>3 DEF Covers
    <2> QED
      BY <2>2, <2>3, <2>5, <2>6, <2>7 DEF Listing, Extends
  <1> QED
    BY <1>2, <1>3

\* PackageListing.update_from: the listing has what it had and every requirement
\* of src.
LEMMA UpdateFacts ==
    ASSUME NEW l \in Listing, NEW src \in Seq(Requirement), NEW m, m = update_from(l, src)
    PROVE  /\ m \in Listing
           /\ Packages(m) = Packages(l) \cup Packages(src)
           /\ Extends(m, l)
           /\ \A i \in DOMAIN src : Covers(m, src[i])
  <1> DEFINE N == Len(src)
             step == [x \in Listing \X (1..N) |-> incorporate(x[1], src[x[2]])]
             upto == CHOOSE f : f = [n \in 0..N |-> IF n = 0 THEN l ELSE incorporate(f[n - 1], src[n])]
             first(n) == {src[i] : i \in 1..n}
             Means(x, n) ==
               /\ x \in Listing
               /\ Packages(x) = Packages(l) \cup {r.package : r \in first(n)}
               /\ Extends(x, l)
               /\ \A r \in first(n) : Covers(x, r)
             T == {n \in 0..N : Means(upto[n], n)}
  <1>1. m = upto[N]
    BY DEF update_from
  <1>2. N \in Nat /\ \A n \in 1..N : src[n] \in Requirement
    OBVIOUS
  <1>3. step \in [Listing \X (1..N) -> Listing]
    BY <1>2, IncorporateFacts
  <1>4. PICK f : IsFold(f, N, Listing, l, step)
    <2> HIDE DEF step, N
    <2> QED
      BY <1>2, <1>3, FoldExists, Zenon
  <1>5. f = [n \in 0..N |-> IF n = 0 THEN l ELSE incorporate(f[n - 1], src[n])]
    <2>1. ASSUME NEW n \in 1..N PROVE f[n] = incorporate(f[n - 1], src[n])
      <3>1. n - 1 \in 0..N /\ f[n - 1] \in Listing
        BY <1>2, <1>4 DEF IsFold
      <3>2. step[<<f[n - 1], n>>] = incorporate(f[n - 1], src[n])
        BY <3>1
      <3>3. f[n] = step[<<f[n - 1], n>>]
        <4> HIDE DEF step
        <4> QED
          BY <1>4 DEF IsFold
      <3> QED
        BY <3>2, <3>3
    <2> HIDE DEF step
    <2> QED
      BY <1>2, <1>4, <2>1 DEF IsFold
  <1>6. upto = [n \in 0..N |-> IF n = 0 THEN l ELSE incorporate(upto[n - 1], src[n])]
    BY <1>5, Zenon
  <1> HIDE DEF upto, step
  <1>7. 0 \in T
    <2>1. first(0) = {}
      OBVIOUS
    <2>2. upto[0] = l
      BY <1>2, <1>6
    <2> HIDE DEF first
    <2> QED
      BY <1>2, <2>1, <2>2 DEF Extends
  <1>8. ASSUME NEW n \in 1..N, n - 1 \in T PROVE n \in T
    <2>1. Means(upto[n - 1], n - 1)
      BY <1>8
    <2>2. upto[n] = incorporate(upto[n - 1], src[n])
      <3>1. n \in 0..N /\ n # 0
        OBVIOUS
      <3> QED
        BY <1>6, <3>1
    <2>3. src[n] \in Requirement
      BY <1>2
    <2>4. first(n) = first(n - 1) \cup {src[n]}
      <3>1. 1..n = (1..(n - 1)) \cup {n}
        OBVIOUS
      <3> QED
        BY <3>1, Zenon
    <2>5. first(n - 1) \subseteq Requirement
      BY <1>2
    <2> HIDE DEF first
    <2>6. /\ upto[n] \in Listing
          /\ Packages(upto[n]) = Packages(upto[n - 1]) \cup {src[n].package}
          /\ Extends(upto[n], upto[n - 1])
          /\ Covers(upto[n], src[n])
      BY <2>1, <2>2, <2>3, IncorporateFacts
    <2>7. Means(upto[n], n)
      BY <2>1, <2>4, <2>5, <2>6 DEF Extends
    <2> QED
      BY <2>7
  <1>9. Means(m, N)
    <2>1. N \in T
      <3> HIDE DEF T
      <3>1. 0..N \subseteq T
        BY <1>2, <1>7, <1>8, Induction, Zenon
      <3> QED
        BY <1>2, <3>1
    <2> QED
      BY <1>1, <2>1
  <1>10. Range(src) = first(N)
    BY DEF Range
  <1> QED
    BY <1>9, <1>10 DEF Packages, Range
-----------------------------------------------------------------------------
(* The inductive invariant *)

\* A requirement that was met is in one of the listings
Somewhere(r) == Covers(final, r) \/ Covers(pending, r) \/ Covers(next_pending, r)

TypeInv ==
    /\ input \in Inputs
    /\ status \in {"resolving", "installing", "done", "error"}
    /\ pending \in Listing /\ next_pending \in Listing /\ final \in Listing
    /\ rounds \in Nat
    /\ installed \in Seq([package : Package, version : Version])

\* Every requirement of the root project, and of the packages at the versions that
\* they have now, is in one of the listings
CoveredInv ==
    status # "error" =>
      /\ \A i \in DOMAIN input.root : Somewhere(input.root[i])
      /\ \A e \in Range(final) :
           /\ resolved(e) # NoVersion
           /\ \A i \in DOMAIN input.requires[e.package][resolved(e)] :
                Somewhere(input.requires[e.package][resolved(e)][i])

\* What is installed is the first part of what was resolved, under names that
\* were looked at
PhaseInv ==
    /\ status \in {"installing", "done"} => pending = <<>> /\ next_pending = <<>>
    /\ status = "resolving" => installed = <<>>
    /\ Len(installed) <= Len(final)
    /\ \A i \in DOMAIN installed : installed[i].package = final[i].package
    /\ status = "installing" \/ installed # <<>> =>
         \A p \in Packages(final) :
           names[p] # RootProject /\ \A q \in Packages(final) : p # q => names[p] # names[q]

\* The ranks of the packages that are met go down with every round
Lowers(rank) ==
    \A p \in Package, v \in Range(Available) : \A i \in DOMAIN input.requires[p][v] :
      rank[input.requires[p][v][i].package] < rank[p]
RoundInv ==
    \A depth \in 1..Cardinality(Package) : \A rank \in [Package -> 1..depth] : Lowers(rank) =>
      /\ rounds <= depth
      /\ \A p \in Packages(pending) : rank[p] + rounds <= depth + 1
      /\ \A p \in Packages(next_pending) : rank[p] + rounds <= depth

IInv == TypeInv /\ CoveredInv /\ PhaseInv /\ RoundInv

LEMMA EmptyListing ==
    <<>> \in Listing /\ Packages(<<>>) = {} /\ Range(<<>>) = {} /\ \A r : ~Covers(<<>>, r)
  <1>1. Range(<<>>) = {}
    BY DEF Range
  <1> QED
    BY <1>1 DEF Listing, Distinct, Packages, Covers

LEMMA CoversLess ==
    ASSUME NEW l, NEW h, Covers(l, h), NEW r, r.package = h.package, Range(r.versions) \subseteq Range(h.versions)
    PROVE  Covers(l, r)
  BY Zenon DEF Covers

LEMMA HeadAndTail ==
    ASSUME NEW l \in Listing, l # <<>>
    PROVE  /\ Head(l) \in Requirement /\ Head(l).package \in Packages(l)
           /\ Tail(l) \in Listing /\ Packages(Tail(l)) \subseteq Packages(l)
           /\ \A r \in Requirement : Covers(l, r) =>
                \/ Covers(Tail(l), r)
                \/ Head(l).package = r.package /\ Range(r.versions) \subseteq Range(Head(l).versions)
  <1>1. l \in Seq(Requirement) /\ Distinct(l)
    BY DEF Listing
  <1>2. /\ Tail(l) \in Seq(Requirement) /\ Head(l) = l[1] /\ 1 \in DOMAIN l
        /\ \A i \in DOMAIN Tail(l) : i + 1 \in DOMAIN l /\ Tail(l)[i] = l[i + 1] /\ i \in Nat
        /\ \A i \in DOMAIN l : i # 1 => i - 1 \in DOMAIN Tail(l) /\ Tail(l)[i - 1] = l[i]
    BY <1>1
  <1>3. Distinct(Tail(l))
    <2> SUFFICES ASSUME NEW i \in DOMAIN Tail(l), NEW j \in DOMAIN Tail(l), Tail(l)[i].package = Tail(l)[j].package
                 PROVE  i = j
      BY DEF Distinct
    <2>1. i + 1 = j + 1
      BY <1>1, <1>2 DEF Distinct
    <2> QED
      BY <1>2, <2>1
  <1>4. Range(l) \subseteq Range(Tail(l)) \cup {Head(l)} /\ Range(Tail(l)) \subseteq Range(l) /\ Head(l) \in Range(l)
    <2>1. ASSUME NEW i \in DOMAIN l PROVE l[i] \in Range(Tail(l)) \cup {Head(l)}
      <3>1. i # 1 => l[i] \in Range(Tail(l))
        BY <1>2, Zenon DEF Range
      <3> QED
        BY <1>2, <3>1
    <2>2. ASSUME NEW i \in DOMAIN Tail(l) PROVE Tail(l)[i] \in Range(l)
      <3>1. i + 1 \in DOMAIN l /\ Tail(l)[i] = l[i + 1]
        BY <1>2
      <3> QED
        BY <3>1, Zenon DEF Range
    <2>3. Head(l) \in Range(l)
      BY <1>2, Zenon DEF Range
    <2>4. Range(l) \subseteq Range(Tail(l)) \cup {Head(l)}
      <3>1. \A z \in Range(l) : \E i \in DOMAIN l : z = l[i]
        BY DEF Range
      <3> QED
        BY <2>1, <3>1
    <2>5. Range(Tail(l)) \subseteq Range(l)
      <3>1. \A z \in Range(Tail(l)) : \E i \in DOMAIN Tail(l) : z = Tail(l)[i]
        BY DEF Range
      <3> QED
        BY <2>2, <3>1
    <2> QED
      BY <2>3, <2>4, <2>5
  <1>5. Head(l) \in Requirement
    BY <1>1, <1>2
  <1> QED
    BY <1>2, <1>3, <1>4, <1>5 DEF Listing, Packages, Covers

LEMMA InitIInv == Init => IInv
  <1> SUFFICES ASSUME Init PROVE IInv
    OBVIOUS
  <1>0. /\ input \in Inputs /\ status \in {"done", "resolving"} /\ (status = "done" => input.root = <<>>)
        /\ pending = update_from(<<>>, input.root)
        /\ next_pending = <<>> /\ final = <<>> /\ installed = <<>> /\ rounds = 1
    BY Zenon DEF Init
  <1>1. input.root \in Seq(Requirement)
    BY <1>0, DepsAssumption
  <1>2. /\ pending \in Listing /\ Packages(pending) = Packages(input.root)
        /\ \A i \in DOMAIN input.root : Covers(pending, input.root[i])
    <2>1. /\ pending \in Listing /\ Packages(pending) = Packages(<<>>) \cup Packages(input.root)
          /\ \A i \in DOMAIN input.root : Covers(pending, input.root[i])
      BY <1>0, <1>1, EmptyListing, UpdateFacts, Zenon
    <2> QED
      BY <2>1, EmptyListing
  <1>3. TypeInv
    BY <1>0, <1>2, EmptyListing DEF TypeInv
  <1>4. CoveredInv
    BY <1>0, <1>2, EmptyListing DEF CoveredInv, Somewhere
  <1>5. PhaseInv
    <2>1. ASSUME input.root = <<>> PROVE pending = <<>>
      <3>1. Packages(pending) = {}
        BY <1>2, <2>1, EmptyListing
      <3>2. pending \in Seq(Requirement) /\ \A i \in DOMAIN pending : pending[i].package \in Packages(pending)
        BY <1>2 DEF Listing, Packages, Range
      <3> QED
        BY <3>1, <3>2
    <2> QED
      BY <1>0, <2>1 DEF PhaseInv
  <1>6. RoundInv
    <2> SUFFICES ASSUME NEW depth \in 1..Cardinality(Package), NEW rank \in [Package -> 1..depth]
                 PROVE  /\ rounds <= depth
                        /\ \A p \in Packages(pending) : rank[p] + rounds <= depth + 1
                        /\ \A p \in Packages(next_pending) : rank[p] + rounds <= depth
      BY DEF RoundInv
    <2>1. rounds = 1 /\ Packages(next_pending) = {} /\ Packages(pending) \subseteq Package
      BY <1>0, <1>2, EmptyListing, ListingFacts
    <2> QED
      BY <2>1
  <1> QED
    BY <1>3, <1>4, <1>5, <1>6 DEF IInv

\* One turn of the inner loop: the requirement goes from pending to final, and
\* those of the version that is chosen now go to next_pending.
LEMMA ResolveIInv == IInv /\ resolve => IInv'
  <1> SUFFICES ASSUME IInv, resolve PROVE IInv'
    OBVIOUS
  <1> DEFINE h == Head(pending)
             f == incorporate(final, h)
             v == resolved(Entry(f, h.package))
             src == input.requires[h.package][v]
  <1>1. /\ TypeInv /\ CoveredInv /\ PhaseInv /\ RoundInv
        /\ status = "resolving" /\ pending # <<>> /\ final' = f /\ installed = <<>>
        /\ input' = input /\ rounds' = rounds /\ names' = names /\ installed' = installed
    BY DEF IInv, resolve, PhaseInv
  <1>2. Requires(h.package, v)
    BY DEF resolve
  <1>3. /\ input \in Inputs /\ pending \in Listing /\ next_pending \in Listing /\ final \in Listing
        /\ rounds \in Nat /\ installed \in Seq([package : Package, version : Version])
    BY <1>1 DEF TypeInv
  <1>4. /\ h \in Requirement /\ h.package \in Packages(pending)
        /\ Tail(pending) \in Listing /\ Packages(Tail(pending)) \subseteq Packages(pending)
        /\ \A r \in Requirement : Covers(pending, r) =>
             Covers(Tail(pending), r) \/ (h.package = r.package /\ Range(r.versions) \subseteq Range(h.versions))
    BY <1>1, <1>3, HeadAndTail
  <1>5. /\ f \in Listing /\ Extends(f, final) /\ Covers(f, h)
        /\ \A e \in Range(f) : e.package # h.package => e \in Range(final)
    BY <1>3, <1>4, IncorporateFacts
  <1>6. PICK e \in Range(f) : e.package = h.package
    BY <1>5 DEF Covers
  <1>7. v = resolved(e) /\ e \in Requirement /\ \A d \in Range(f) : d.package = h.package => d = e
    BY <1>5, <1>6, EntryOf, ListingFacts
  <1> HIDE DEF h, f, v
  <1>8. CASE v = NoVersion
    <2>1. status' = "error" /\ pending' = pending /\ next_pending' = next_pending
      BY <1>2, <1>8 DEF Requires
    <2>2. TypeInv'
      BY <1>1, <1>3, <1>5, <2>1 DEF TypeInv
    <2>3. CoveredInv'
      BY <2>1 DEF CoveredInv
    <2>4. PhaseInv'
      <3>1. Len(f) \in Nat /\ Len(installed) = 0 /\ DOMAIN installed = {}
        BY <1>1, <1>5 DEF Listing
      <3> QED
        BY <1>1, <2>1, <3>1 DEF PhaseInv
    <2>5. RoundInv'
      BY <1>1, <2>1 DEF RoundInv, Lowers
    <2> QED
      BY <2>2, <2>3, <2>4, <2>5 DEF IInv
  <1>9. CASE v # NoVersion
    <2>1. status' = status /\ pending' = Tail(pending) /\ next_pending' = update_from(next_pending, src)
      BY <1>2, <1>9 DEF Requires
    <2>2. v \in Range(Available) /\ h.package \in Package
      BY <1>4, <1>7, <1>9, ResolvedIsNewest DEF IsNewest, Requirement
    <2>3. src \in Seq(Requirement)
      BY <1>3, <2>2, DepsAssumption
    <2> HIDE DEF src
    <2>4. /\ next_pending' \in Listing /\ Packages(next_pending') = Packages(next_pending) \cup Packages(src)
          /\ Extends(next_pending', next_pending)
          /\ \A i \in DOMAIN src : Covers(next_pending', src[i])
      BY <1>3, <2>1, <2>3, UpdateFacts
    <2>5. ASSUME NEW r \in Requirement, Somewhere(r) PROVE Somewhere(r)'
      <3>1. CASE Covers(final, r)
        BY <1>1, <1>5, <3>1 DEF Extends, Somewhere
      <3>2. CASE Covers(next_pending, r)
        BY <2>4, <3>2 DEF Extends, Somewhere
      <3>3. CASE Covers(pending, r)
        <4>1. Covers(Tail(pending), r) \/ Covers(f, r)
          BY <1>4, <1>5, <3>3, CoversLess
        <4> QED
          BY <1>1, <2>1, <4>1 DEF Somewhere
      <3> QED
        BY <2>5, <3>1, <3>2, <3>3 DEF Somewhere
    <2>6. TypeInv'
      BY <1>1, <1>3, <1>4, <1>5, <2>1, <2>4 DEF TypeInv
    <2>7. CoveredInv'
      <3>1. ASSUME NEW i \in DOMAIN input.root PROVE Somewhere(input.root[i])'
        <4>1. input.root[i] \in Requirement
          BY <1>3, DepsAssumption
        <4>2. Somewhere(input.root[i])
          BY <1>1 DEF CoveredInv
        <4> QED
          BY <1>1, <2>5, <4>1, <4>2
      <3>2. ASSUME NEW d \in Range(f)
            PROVE  /\ resolved(d) # NoVersion
                   /\ \A i \in DOMAIN input.requires[d.package][resolved(d)] :
                        Somewhere(input.requires[d.package][resolved(d)][i])'
        <4>1. CASE d.package = h.package
          <5>1. resolved(d) = v /\ input.requires[d.package][resolved(d)] = src
            BY <1>7, <4>1 DEF src
          <5> QED
            BY <1>1, <1>9, <2>4, <5>1 DEF Somewhere
        <4>2. CASE d.package # h.package
          <5> DEFINE reqs == input.requires[d.package][resolved(d)]
          <5>1. d \in Range(final) /\ d \in Requirement
            BY <1>3, <1>5, <4>2, ListingFacts
          <5>2. resolved(d) # NoVersion /\ \A i \in DOMAIN reqs : Somewhere(reqs[i])
            BY <1>1, <5>1 DEF CoveredInv
          <5>3. reqs \in Seq(Requirement)
            <6>1. resolved(d) \in Range(Available) /\ d.package \in Package
              BY <5>1, <5>2, ResolvedIsNewest DEF IsNewest, Requirement
            <6> QED
              BY <1>3, <6>1, DepsAssumption
          <5>4. ASSUME NEW i \in DOMAIN reqs PROVE Somewhere(reqs[i])'
            <6>1. reqs[i] \in Requirement
              BY <5>3
            <6> QED
              BY <1>1, <2>5, <5>2, <6>1
          <5> QED
            BY <5>2, <5>4
        <4> QED
          BY <4>1, <4>2
      <3> QED
        BY <1>1, <3>1, <3>2 DEF CoveredInv
    <2>8. PhaseInv'
      <3>1. Len(f) \in Nat /\ Len(installed) = 0 /\ DOMAIN installed = {}
        BY <1>1, <1>5 DEF Listing
      <3> QED
        BY <1>1, <2>1, <3>1 DEF PhaseInv
    <2>9. RoundInv'
      <3> SUFFICES ASSUME NEW depth \in 1..Cardinality(Package), NEW rank \in [Package -> 1..depth], Lowers(rank)
                   PROVE  /\ rounds <= depth
                          /\ \A p \in Packages(pending') : rank[p] + rounds <= depth + 1
                          /\ \A p \in Packages(next_pending') : rank[p] + rounds <= depth
        BY <1>1 DEF RoundInv, Lowers
      <3>1. /\ rounds <= depth
            /\ \A p \in Packages(pending) : rank[p] + rounds <= depth + 1
            /\ \A p \in Packages(next_pending) : rank[p] + rounds <= depth
        BY <1>1 DEF RoundInv
      <3>2. ASSUME NEW p \in Packages(src) PROVE rank[p] + rounds <= depth
        <4>1. PICK i \in DOMAIN src : src[i].package = p
          BY DEF Packages, Range
        <4>2. rank[p] < rank[h.package]
          BY <2>2, <4>1 DEF Lowers, src
        <4>a. p \in Package
          <5>1. src[i] \in Requirement
            BY <2>3
          <5> QED
            BY <4>1, <5>1 DEF Requirement
        <4>3. rank[h.package] + rounds <= depth + 1
          BY <1>4, <3>1
        <4> QED
          BY <1>3, <2>2, <4>2, <4>a, <4>3
      <3> QED
        BY <1>4, <2>1, <2>4, <3>1, <3>2
    <2> QED
      BY <2>6, <2>7, <2>8, <2>9 DEF IInv
  <1> QED
    BY <1>8, <1>9

\* The end of a round: pending is what next_pending was.
LEMMA NextRoundIInv == IInv /\ next_round => IInv'
  <1> SUFFICES ASSUME IInv, next_round PROVE IInv'
    OBVIOUS
  <1>1. /\ TypeInv /\ CoveredInv /\ PhaseInv /\ RoundInv
        /\ status = "resolving" /\ pending = <<>> /\ next_pending # <<>>
        /\ pending' = next_pending /\ next_pending' = <<>> /\ rounds' = rounds + 1
        /\ input' = input /\ status' = status /\ final' = final /\ names' = names /\ installed' = installed
    BY DEF IInv, next_round
  <1>2. TypeInv'
    BY <1>1, EmptyListing DEF TypeInv
  <1>3. \A r : Somewhere(r) => Somewhere(r)'
    BY <1>1, EmptyListing DEF Somewhere
  <1>4. CoveredInv'
    BY <1>1, <1>3 DEF CoveredInv
  <1>5. PhaseInv'
    BY <1>1 DEF PhaseInv
  <1>6. RoundInv'
    <2> SUFFICES ASSUME NEW depth \in 1..Cardinality(Package), NEW rank \in [Package -> 1..depth], Lowers(rank)
                 PROVE  /\ rounds + 1 <= depth
                        /\ \A p \in Packages(next_pending) : rank[p] + (rounds + 1) <= depth + 1
      BY <1>1, EmptyListing, Zenon DEF RoundInv, Lowers
    <2>1. \A p \in Packages(next_pending) : rank[p] + rounds <= depth /\ p \in Package
      BY <1>1, ListingFacts, Zenon DEF RoundInv, TypeInv
    <2>2. Head(next_pending).package \in Packages(next_pending)
      BY <1>1, HeadAndTail, Zenon DEF TypeInv
    <2>3. rounds \in Nat
      BY <1>1 DEF TypeInv
    <2> QED
      BY <2>1, <2>2, <2>3
  <1> QED
    BY <1>2, <1>4, <1>5, <1>6 DEF IInv

\* The names are looked at once nothing is pending.
LEMMA CheckIInv == IInv /\ check_for_duplicate_project_names => IInv'
  <1> SUFFICES ASSUME IInv, check_for_duplicate_project_names PROVE IInv'
    OBVIOUS
  <1>1. /\ TypeInv /\ CoveredInv /\ PhaseInv /\ RoundInv
        /\ status = "resolving" /\ pending = <<>> /\ next_pending = <<>>
        /\ pending' = pending /\ next_pending' = next_pending /\ rounds' = rounds
        /\ input' = input /\ final' = final /\ installed' = installed
        /\ status' \in {"error", "installing"}
        /\ status' = "installing" =>
             /\ \A p \in Packages(final) : names'[p] # RootProject
             /\ \A p, q \in Packages(final) : p # q => names'[p] # names'[q]
    BY DEF IInv, check_for_duplicate_project_names
  <1>2. TypeInv'
    BY <1>1 DEF TypeInv
  <1>3. CoveredInv'
    BY <1>1 DEF CoveredInv, Somewhere
  <1>4. PhaseInv'
    BY <1>1 DEF PhaseInv
  <1>5. RoundInv'
    BY <1>1 DEF RoundInv, Lowers
  <1> QED
    BY <1>2, <1>3, <1>4, <1>5 DEF IInv

\* The next package is installed.
LEMMA InstallIInv == IInv /\ install => IInv'
  <1> SUFFICES ASSUME IInv, install PROVE IInv'
    OBVIOUS
  <1> DEFINE n == Len(installed) + 1
             new == [package |-> final[n].package, version |-> resolved(final[n])]
  <1>1. /\ TypeInv /\ CoveredInv /\ PhaseInv /\ RoundInv
        /\ status = "installing" /\ Len(installed) < Len(final)
        /\ pending' = pending /\ next_pending' = next_pending /\ rounds' = rounds
        /\ input' = input /\ final' = final /\ names' = names
        /\ installed' = Append(installed, new) /\ status' \in {"installing", "done"}
    BY DEF IInv, install
  <1>2. /\ final \in Listing /\ final \in Seq(Requirement)
        /\ installed \in Seq([package : Package, version : Version])
    BY <1>1 DEF TypeInv, Listing
  <1>3. n \in DOMAIN final /\ final[n] \in Range(final) /\ final[n] \in Requirement
    BY <1>1, <1>2 DEF Range
  <1>4. new \in [package : Package, version : Version]
    <2>1. resolved(final[n]) # NoVersion
      BY <1>1, <1>3 DEF CoveredInv
    <2>2. resolved(final[n]) \in Version
      BY <1>3, <2>1, ResolvedIsNewest DEF IsNewest
    <2> QED
      BY <1>3, <2>2 DEF Requirement
  <1>5. /\ installed' \in Seq([package : Package, version : Version])
        /\ Len(installed') = n /\ n <= Len(final) /\ installed' # <<>>
        /\ DOMAIN installed' = DOMAIN installed \cup {n} /\ n \notin DOMAIN installed
        /\ installed'[n] = new /\ \A i \in DOMAIN installed : installed'[i] = installed[i]
    <2> HIDE DEF new
    <2> QED
      BY <1>1, <1>2, <1>4
  <1>6. TypeInv'
    BY <1>1, <1>5 DEF TypeInv
  <1>7. CoveredInv'
    BY <1>1, Zenon DEF CoveredInv, Somewhere
  <1>8. PhaseInv'
    <2>1. \A i \in DOMAIN installed' : installed'[i].package = final[i].package
      BY <1>1, <1>5 DEF PhaseInv
    <2> HIDE DEF new, n
    <2> QED
      BY <1>1, <1>5, <2>1 DEF PhaseInv
  <1>9. RoundInv'
    BY <1>1, Zenon DEF RoundInv, Lowers
  <1> QED
    BY <1>6, <1>7, <1>8, <1>9 DEF IInv

LEMMA FailsIInv == IInv /\ registry_fails => IInv'
  <1> SUFFICES ASSUME IInv, registry_fails PROVE IInv'
    OBVIOUS
  <1>1. status' = "error" /\ UNCHANGED <<input, pending, next_pending, final, rounds, names, installed>>
    BY DEF registry_fails
  <1> QED
    BY <1>1, Zenon DEF IInv, TypeInv, CoveredInv, PhaseInv, RoundInv, Lowers

LEMMA StutterIInv == IInv /\ UNCHANGED vars => IInv'
  BY Zenon DEF IInv, TypeInv, CoveredInv, PhaseInv, RoundInv, Lowers, Somewhere, vars

\* The listings keep every requirement until resolve_packages returns, the
\* installation follows the final one, and the rounds use up the ranks.
THEOREM Invariance == Spec => []IInv
  <1>1. Init => IInv
    BY InitIInv
  <1>2. IInv /\ [Next]_vars => IInv'
    BY ResolveIInv, NextRoundIInv, CheckIInv, InstallIInv, FailsIInv, StutterIInv DEF Next, Ended
  <1> QED
    BY <1>1, <1>2, PTL DEF Spec
-----------------------------------------------------------------------------
(* The theorems *)

\* Every package is resolved to the newest version that its specifiers allow, and
\* no two are installed under one name, nor one under the root project's: whatever
\* the registry lists and packages.yml says.
THEOREM ResolvesBestCorrect == Spec => []ResolvesBest
  <1>1. IInv => ResolvesBest
    <2> SUFFICES ASSUME IInv PROVE ResolvesBest
      OBVIOUS
    <2>1. /\ TypeInv /\ PhaseInv /\ final \in Listing /\ final \in Seq(Requirement)
          /\ installed \in Seq([package : Package, version : Version])
      BY DEF IInv, TypeInv, Listing
    <2>2. ASSUME NEW i \in DOMAIN installed
          PROVE  /\ installed # <<>> /\ i \in DOMAIN final
                 /\ installed[i].package = final[i].package /\ final[i].package \in Packages(final)
      <3>1. installed # <<>> /\ i \in DOMAIN final /\ installed[i].package = final[i].package
        BY <2>1 DEF PhaseInv
      <3> QED
        BY <3>1 DEF Packages, Range
    <2>3. ASSUME NEW i \in DOMAIN installed PROVE names[installed[i].package] # RootProject
      BY <2>1, <2>2 DEF PhaseInv
    <2>4. ASSUME NEW i \in DOMAIN installed, NEW j \in DOMAIN installed, i # j
          PROVE  names[installed[i].package] # names[installed[j].package]
      <3>1. final[i].package # final[j].package
        BY <2>1, <2>2, <2>4 DEF Listing, Distinct
      <3> QED
        BY <2>1, <2>2, <3>1 DEF PhaseInv
    <2>5. ASSUME NEW e \in Range(final) PROVE IsNewest(resolved(e), Good(e))
      BY <2>1, ListingFacts, ResolvedIsNewest
    <2> QED
      BY <2>3, <2>4, <2>5 DEF ResolvesBest, IsNewest, Good, AllSatisfied
  <1> QED
    BY <1>1, Invariance, PTL

\* What resolve_packages returns meets every requirement of the root project and of
\* the packages that it returns, and it takes no more rounds than they require
\* one another deep.
THEOREM SoundCorrect == Spec => []Sound
  <1>1. IInv => Sound
    <2> SUFFICES ASSUME IInv PROVE Sound
      OBVIOUS
    <2>1. TypeInv /\ CoveredInv /\ PhaseInv /\ RoundInv /\ final \in Listing /\ input \in Inputs
      BY DEF IInv, TypeInv
    <2>2. \A depth \in 1..Cardinality(Package) : Layered(depth) => rounds <= depth
      BY <2>1 DEF Layered, RoundInv, Lowers
    <2>3. ASSUME status \in {"installing", "done"}, NEW r \in Requirement, Somewhere(r) PROVE Met(r)
      <3>1. Covers(final, r)
        BY <2>1, <2>3, EmptyListing DEF PhaseInv, Somewhere
      <3>2. PICK e \in Range(final) : e.package = r.package /\ Range(r.versions) \subseteq Range(e.versions)
        BY <3>1 DEF Covers
      <3>3. Entry(final, r.package) = e /\ e \in Requirement
        BY <2>1, <3>2, EntryOf, ListingFacts
      <3>4. resolved(e) # NoVersion
        BY <2>1, <2>3 DEF CoveredInv
      <3>5. AllSatisfied(resolved(e), r.versions)
        BY <3>2, <3>3, <3>4, MoreSpecifiers
      <3>6. r.package \in Packages(final)
        BY <3>2 DEF Packages
      <3> QED
        BY <3>3, <3>4, <3>5, <3>6 DEF Met, AllSatisfied
    <2>4. ASSUME status \in {"installing", "done"}, NEW i \in DOMAIN input.root PROVE Met(input.root[i])
      <3>1. input.root[i] \in Requirement
        BY <2>1, DepsAssumption
      <3> QED
        BY <2>1, <2>3, <2>4, <3>1 DEF CoveredInv
    <2>5. ASSUME status \in {"installing", "done"}, NEW e \in Range(final)
          PROVE  /\ resolved(e) # NoVersion
                 /\ \A i \in DOMAIN input.requires[e.package][resolved(e)] :
                      Met(input.requires[e.package][resolved(e)][i])
      <3> DEFINE reqs == input.requires[e.package][resolved(e)]
      <3>1. resolved(e) # NoVersion /\ \A i \in DOMAIN reqs : Somewhere(reqs[i])
        BY <2>1, <2>5 DEF CoveredInv
      <3>2. e \in Requirement
        BY <2>1, ListingFacts
      <3>3. resolved(e) \in Range(Available) /\ e.package \in Package
        BY <3>1, <3>2, ResolvedIsNewest DEF IsNewest, Requirement
      <3>4. reqs \in Seq(Requirement)
        BY <2>1, <3>3, DepsAssumption
      <3>5. ASSUME NEW i \in DOMAIN reqs PROVE Met(reqs[i])
        <4>1. reqs[i] \in Requirement
          BY <3>4
        <4> QED
          BY <2>3, <2>5, <3>1, <4>1
      <3> QED
        BY <3>1, <3>5
    <2> QED
      BY <2>2, <2>4, <2>5 DEF Sound
  <1> QED
    BY <1>1, Invariance, PTL

\* A package that was resolved stays, and its version never goes up: specifiers are
\* only added.
THEOREM OnlyNarrowsCorrect == Spec => OnlyNarrows
  <1> DEFINE Narrows ==
        \A p \in Packages(final) :
          /\ p \in Packages(final')
          /\ LET v == resolved(Entry(final, p))
                 w == resolved(Entry(final', p))
             IN  w = NoVersion \/ Sign(w, v) <= 0
  <1>1. IInv /\ [Next]_vars => [Narrows]_vars
    <2> SUFFICES ASSUME IInv, Next PROVE Narrows \/ UNCHANGED vars
      BY Zenon
    <2>1. final \in Listing /\ pending \in Listing
      BY DEF IInv, TypeInv
    <2>2. CASE UNCHANGED vars
      BY <2>2
    <2>3. CASE resolve \/ final' = final
      <3> SUFFICES ASSUME NEW p \in Packages(final)
                   PROVE  /\ p \in Packages(final')
                          /\ \/ resolved(Entry(final', p)) = NoVersion
                             \/ Sign(resolved(Entry(final', p)), resolved(Entry(final, p))) <= 0
        BY Zenon
      <3>1. final' \in Listing /\ Extends(final', final)
        <4>1. CASE resolve
          BY <2>1, <4>1, HeadAndTail, IncorporateFacts DEF resolve
        <4>2. CASE final' = final
          BY <2>1, <4>2 DEF Extends
        <4> QED
          BY <2>3, <4>1, <4>2
      <3>2. PICK d \in Range(final) : d.package = p
        BY DEF Packages
      <3>3. d \in Requirement /\ Covers(final, d) /\ Entry(final, p) = d
        BY <2>1, <3>2, EntryOf, ListingFacts
      <3>4. Covers(final', d)
        BY <3>1, <3>3 DEF Extends
      <3>5. PICK e \in Range(final') : e.package = d.package /\ Range(d.versions) \subseteq Range(e.versions)
        BY <3>4 DEF Covers
      <3>6. e \in Requirement /\ Entry(final', p) = e /\ p \in Packages(final')
        BY <3>1, <3>2, <3>5, EntryOf, ListingFacts DEF Packages
      <3> QED
        BY <3>3, <3>5, <3>6, MoreSpecifiers
    <2> QED
      BY <2>2, <2>3
         DEF Next, next_round, check_for_duplicate_project_names, install, registry_fails, Ended
  <1>2. OnlyNarrows <=> [][Narrows]_vars
    BY DEF OnlyNarrows
  <1> QED
    BY <1>1, <1>2, Invariance, PTL DEF Spec
=============================================================================
