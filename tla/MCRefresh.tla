----------------------------- MODULE MCRefresh -----------------------------
(* Instances of Refresh for TLC: one user's claims, and a user whose       *)
(* claims contain another's (an extra role).                               *)
EXTENDS Refresh, TLC

CONSTANTS p1, p2, uid, admin

TwoRequests == {p1, p2}
RequestSymmetry == Permutations(TwoRequests)
OneUser == {{uid}}
NestedClaims == {{uid}, {uid, admin}}
=============================================================================
