----------------------------- MODULE VersionOrder -----------------------------
(* The order of release versions (version/version.go). A version is its        *)
(* dot-separated components and what follows the first hyphen; case, spaces, a *)
(* "v" in front and build metadata are cut off first and not modelled. A       *)
(* component that is not a number stands for itself: a word, or nothing between*)
(* two dots.                                                                   *)

EXTENDS Naturals, Sequences

CONSTANTS
  MaxInt,    \* the greatest number strconv.Atoi reads
  Final,     \* no hyphen
  Dangling   \* a hyphen with nothing after it

ASSUME VersionOrderAssumption == MaxInt \in Nat /\ Final # Dangling

\* Parse refuses any component that is not a number.
Readable(v) == /\ v.after # Dangling
               /\ \A i \in DOMAIN v.parts : v.parts[i] \in 0..MaxInt

\* The shorter list of numbers goes on with zeroes.
Number(v, i) == IF i \in DOMAIN v.parts THEN v.parts[i] ELSE 0

\* The numbers of a are ahead at the first place where the two differ.
Ahead(a, b) == \E i \in DOMAIN a.parts :
                 /\ Number(a, i) > Number(b, i)
                 /\ \A j \in 1..(i - 1) : Number(a, j) = Number(b, j)

SameNumbers(a, b) == ~Ahead(a, b) /\ ~Ahead(b, a)

\* CompareNumeric answers 1, or 0. It answers nothing for versions it cannot read and
\* for two prereleases of the same numbers.
Newer(a, b) == /\ Readable(a) /\ Readable(b)
               /\ \/ Ahead(a, b)
                  \/ SameNumbers(a, b) /\ a.after = Final /\ b.after # Final

Same(a, b) == /\ Readable(a) /\ Readable(b)
              /\ SameNumbers(a, b) /\ a.after = b.after

NotNewer(a, b) == Newer(b, a) \/ Same(a, b)
=============================================================================
