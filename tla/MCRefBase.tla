------------------------------ MODULE MCRefBase ------------------------------
(* Instances of RefBase for TLC.                                           *)
EXTENDS RefBase, TLC

Symmetry == Permutations(Threads) \union Permutations(Wrcs)
IpcSymmetry == Permutations(Wrcs)
=============================================================================
