--------------------------- MODULE MCNotification ---------------------------
(* Instances of Notification for TLC. *)
EXTENDS Notification, TLC

CONSTANTS d1, d2

TwoDispatchers == {d1, d2}

Symmetry == Permutations(Dispatcher)
=============================================================================
