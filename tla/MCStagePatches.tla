---------------------------- MODULE MCStagePatches ----------------------------
(* Constants for model-checking StagePatches by itself: careful work of two *)
(* stages on two files.                                                     *)
EXTENDS StagePatches, TLC

CONSTANTS f1, f2, s1, s2

TwoFiles == {f1, f2}
TwoStages == {s1, s2}
Patched == {f1}
===============================================================================
