---------------------------- MODULE MCDisclosure ----------------------------
(* Instances of Disclosure for TLC. *)
EXTENDS Disclosure, TLC

CONSTANTS d1, u1, u2, r1, r2, r3, k1, x1, x2

OneRecord     == {d1}
OneUser       == {u1}
TwoUsers      == {u1, u2}
TwoRequests   == {r1, r2}
ThreeRequests == {r1, r2, r3}
OneKey        == {k1}
TwoPlans      == {x1, x2}

Symmetry == Permutations(Request) \union Permutations(User) \union Permutations(Plan)
=============================================================================
