----------------------------- MODULE MCCmsMedia -----------------------------
(* Instances of CmsMedia for TLC. *)
EXTENDS CmsMedia, TLC

CONSTANTS a1, r1, r2, r3, r4

OneAsset      == {a1}
TwoRequests   == {r1, r2}
FourRequests  == {r1, r2, r3, r4}

Symmetry == Permutations(Request)
=============================================================================
