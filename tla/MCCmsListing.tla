---------------------------- MODULE MCCmsListing ----------------------------
(* Instances of CmsListing for TLC. *)
EXTENDS CmsListing, TLC

CONSTANTS i1, i2, i3, i4, i5

FiveItems == {i1, i2, i3, i4, i5}

Symmetry == Permutations(Item)
=============================================================================
