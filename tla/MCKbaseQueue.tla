---------------------------- MODULE MCKbaseQueue ----------------------------
(* Constants for model-checking KbaseQueue with TLC.                        *)
EXTENDS KbaseQueue, TLC

CONSTANTS a1, a2, a3, submitter, t1

TwoAtoms == {a1, a2}
ThreeAtoms == {a1, a2, a3}
TwoThreads == {submitter, t1}

(* The numbers are not told apart.                                          *)
Symmetry == Permutations(ThreeAtoms)
=============================================================================
