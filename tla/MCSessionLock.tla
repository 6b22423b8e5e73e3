---------------------------- MODULE MCSessionLock ----------------------------
(* Instances of SessionLock. *)
EXTENDS SessionLock

CONSTANTS p1, p2, p3

TwoProc == {p1, p2}
ThreeProc == {p1, p2, p3}
=============================================================================
