--------------------------- MODULE MCAuthRecovery ---------------------------
(* An instance of AuthRecovery for TLC: one user with two reset links and one
   verification link, two sessions, three requests on them at once. *)
EXTENDS AuthRecovery, TLC

CONSTANTS u1, s1, s2, c1, r1, t1, t2, t3, k1, k2, k3, x1, x2

OneUser     == {u1}
TwoSessions == {s1, s2}
OneCompany  == {c1}
OneRequest  == {r1}
ThreeTokens == {t1, t2, t3}
ThreeLinks  == {k1, k2, k3}
TwoResets   == {k1, k2}
TwoHandlers == {x1, x2}

SameOwner == [s \in Session |-> u1]
SameUser  == [k \in Link |-> u1]

Symmetry == Permutations(TwoHandlers) \union Permutations(ThreeTokens)
              \union Permutations(TwoSessions) \union Permutations(TwoResets)
=============================================================================
