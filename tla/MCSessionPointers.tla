-------------------------- MODULE MCSessionPointers --------------------------
(* Instances of SessionPointers. *)
EXTENDS SessionPointers

CONSTANTS p1, p2, i1, i2, k1, k2, v1

TwoProc == {p1, p2}
MCInputs == {i1, i2}
TwoKeys == {k1, k2}
MCValues == {v1}
=============================================================================
