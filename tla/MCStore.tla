------------------------------ MODULE MCStore ------------------------------
(* An instance of Store for TLC: two requests, two keys, and durations of  *)
(* five bits, so that a TTL of 9 seconds overflows.                        *)
EXTENDS Store, TLC

CONSTANTS p1, p2, k1, k2

Requests == {p1, p2}
TwoKeys == {k1, k2}
Symmetry == Permutations(Requests) \cup Permutations(TwoKeys)
TwoValues == {"a", "b"}
SomeTTLs == {0, 1, 9}
=============================================================================
