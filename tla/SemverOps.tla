------------------------------ MODULE SemverOps ------------------------------
(***************************************************************************)
(* Version specifiers and ranges (semver.py).  A version is the triple of  *)
(* its numbers: compare looks at nothing else.                             *)
(***************************************************************************)
EXTENDS Integers, Sequences

Matchers == {">", ">=", "<", "<=", "="}

\* UnboundedVersionSpecifier (semver.py:304-332)
Unbounded == [matcher |-> "any", version |-> <<0, 0, 0>>]

\* VersionsNotCompatibleException, where a specifier or a range is expected
Incompatible == [matcher |-> "raise", version |-> <<0, 0, 0>>]
NoRange == [start |-> Incompatible, end |-> Incompatible]

is_lower_bound(a) == a.matcher \in {">", ">="}
is_upper_bound(a) == a.matcher \in {"<", "<="}
is_exact(a) == a.matcher = "="

\* The loop over major, minor and patch (semver.py:128-134)
Sign(v, w) ==
    LET k == IF v[1] # w[1] THEN 1 ELSE IF v[2] # w[2] THEN 2 ELSE 3
    IN  IF v[k] > w[k] THEN 1 ELSE IF v[k] < w[k] THEN -1 ELSE 0

\* compare (semver.py:124-159)
compare(a, b) ==
    LET m == <<a.matcher, b.matcher>> IN
    IF Unbounded \in {a, b} THEN 0
    ELSE IF a.version # b.version THEN Sign(a.version, b.version)
    ELSE IF m \in {<<">=", "<=">>, <<"<=", ">=">>} THEN 0
    ELSE IF m \in {<<"<", "<=">>, <<">=", ">">>} \/ (is_upper_bound(a) /\ is_lower_bound(b)) THEN -1
    ELSE IF m \in {<<"<=", "<">>, <<">", ">=">>} \/ (is_lower_bound(a) /\ is_upper_bound(b)) THEN 1
    ELSE 0

\* to_range (semver.py:104-122)
to_range(a) ==
    [start |-> IF is_upper_bound(a) THEN Unbounded ELSE a,
     end   |-> IF is_lower_bound(a) THEN Unbounded ELSE a]

\* A bound and an exact version (semver.py:203-211, 233-241)
WithExact(bound, exact, sign, matcher) ==
    IF compare(bound, exact) = sign \/ (compare(bound, exact) = 0 /\ bound.matcher = matcher)
    THEN exact ELSE Incompatible

\* _try_combine_lower_bound and _try_combine_upper_bound (semver.py:213-231,
\* 243-261): the bound that sign says is the looser one gives way
Combine(a, b, sign, matcher) ==
    IF b = Unbounded THEN a
    ELSE IF a = Unbounded THEN b
    ELSE IF is_exact(a) THEN WithExact(b, a, sign, matcher)
    ELSE IF is_exact(b) THEN WithExact(a, b, sign, matcher)
    ELSE IF compare(a, b) = sign THEN b ELSE a

_try_combine_lower_bound(a, b) == Combine(a, b, -1, ">=")
_try_combine_upper_bound(a, b) == Combine(a, b, 1, "<=")

\* VersionRange.reduce (semver.py:197-201, 263-276)
reduce(r, s) ==
    LET exact == is_exact(r.start) /\ is_exact(s.start)
        same  == IF compare(r.start, s.start) = 0 THEN r.start ELSE Incompatible
        start == IF exact THEN same ELSE _try_combine_lower_bound(r.start, s.start)
        end   == IF exact THEN same ELSE _try_combine_upper_bound(r.end, s.end)
    IN  IF r = NoRange \/ Incompatible \in {start, end} \/ compare(start, end) > 0
        THEN NoRange ELSE [start |-> start, end |-> end]

\* reduce_versions of specifiers: the last one that is bounded, reduced by each
\* of the others in order (semver.py:335-374)
reduce_versions(specifiers) ==
    LET bounded == {i \in DOMAIN specifiers : specifiers[i] # Unbounded}
        last == CHOOSE i \in bounded : \A j \in bounded : j <= i
        upto[n \in 0..Len(specifiers)] ==
          IF n = 0 THEN to_range(specifiers[last])
          ELSE IF n \in bounded \ {last} THEN reduce(upto[n - 1], to_range(specifiers[n]))
          ELSE upto[n - 1]
    IN  IF bounded = {} THEN [start |-> Unbounded, end |-> Unbounded] ELSE upto[Len(specifiers)]

\* versions_compatible of a version and a range (semver.py:377-385, 410-412)
versions_compatible(v, r) ==
    reduce_versions(<<[matcher |-> "=", version |-> v], r.start, r.end>>) # NoRange

\* No version: None
NoVersion == <<>>

\* Mutant: the last compatible version is taken
ResolveToLast(r, available) ==
    LET max[n \in 0..Len(available)] ==
          IF n = 0 THEN NoVersion
          ELSE IF versions_compatible(available[n], r) THEN available[n] ELSE max[n - 1]
    IN max[Len(available)]

\* resolve_to_specific_version (semver.py:403-417)
resolve_to_specific_version(r, available) ==
    LET max[n \in 0..Len(available)] ==
          IF n = 0 THEN NoVersion
          ELSE IF versions_compatible(available[n], r) /\ (max[n - 1] = NoVersion \/ Sign(max[n - 1], available[n]) < 0)
          THEN available[n] ELSE max[n - 1]
    IN max[Len(available)]
-----------------------------------------------------------------------------
(* What a specifier means *)

\* The version v is one that the specifier a allows
Satisfies(v, a) ==
    CASE a.matcher = ">"  -> Sign(v, a.version) > 0
      [] a.matcher = ">=" -> Sign(v, a.version) >= 0
      [] a.matcher = "<"  -> Sign(v, a.version) < 0
      [] a.matcher = "<=" -> Sign(v, a.version) <= 0
      [] a.matcher = "="  -> v = a.version
      [] OTHER -> a = Unbounded
=============================================================================
