------------------------------ MODULE MCOutbox ------------------------------
(* Instances of Outbox for TLC. *)
EXTENDS Outbox

CONSTANTS e1, e2, e3, w1, w2

\* Workers are interchangeable, events are not (one has no handler); the properties of
\* fairness are checked without symmetry.
ThreeEvents == {e1, e2, e3}
TwoWorkers  == {w1, w2}
TwoHandled  == {e1, e2}
=============================================================================
