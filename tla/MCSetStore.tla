------------------------------ MODULE MCSetStore ------------------------------
(* Instances of SetStore: two processes, one set and one round. *)
EXTENDS SetStore, TLC

CONSTANTS p1, p2, s1, r1, t1

MCProc == {p1, p2}
MCSets == {s1}
MCRounds == {r1}
MCTables == {t1}
Symmetry == Permutations(MCProc)
===============================================================================
