----------------------------- MODULE MCSelfUpdate -----------------------------
(* A release written in two ways, a prerelease of it, a later one and a build  *)
(* named by its hash; four of the files, and a path that is none of them.     *)

EXTENDS SelfUpdate

CONSTANTS cli, other, rc, hash

MCVersion == { [parts |-> <<1>>, after |-> Final], [parts |-> <<1, 0>>, after |-> Final],
               [parts |-> <<1, 0>>, after |-> rc], [parts |-> <<1, 0, 2>>, after |-> Final],
               [parts |-> <<hash>>, after |-> Final] }

\* The order against a reference: numbers below three, read as digits.
Sample == {[parts |-> p, after |-> Final] : p \in UNION {[1..n -> 0..2] : n \in 1..3}}
Value(v) == 9 * Number(v, 1) + 3 * Number(v, 2) + Number(v, 3)

ASSUME AheadIsPositional == \A a, b \in Sample : Ahead(a, b) <=> Value(a) > Value(b)
=============================================================================
