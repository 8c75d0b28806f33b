--------------------------- MODULE MCAccessTokens ---------------------------
(* Instances of AccessTokens for TLC. *)
EXTENDS AccessTokens, TLC

CONSTANTS u1, s1, c1, c2, r1, r2, t1, t2, t3, t4

OneUser      == {u1}
OneSession   == {s1}
TwoCompanies == {c1, c2}
TwoRequests  == {r1, r2}
FourTokens   == {t1, t2, t3, t4}

SameOwner == [s \in Session |-> u1]

Interchangeable ==
    Permutations(Request) \union Permutations(Token) \union Permutations(Company)
=============================================================================
