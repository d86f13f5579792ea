------------------------------- MODULE MCTimer -------------------------------
(* Instances of Timer for TLC.                                             *)
EXTENDS Timer
CONSTANTS f1, f2, i10, l1, l2   \* model values
==============================================================================
