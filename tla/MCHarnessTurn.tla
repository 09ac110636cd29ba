---------------------------- MODULE MCHarnessTurn ---------------------------
(* HarnessTurn for TLC.                                                     *)
EXTENDS HarnessTurn, TLC

Symmetry == Permutations(Slots)
=============================================================================
