--------------------------- MODULE MCTurnRuntime ----------------------------
(***************************************************************************)
(* TurnRuntime on small instances; the slots are interchangeable.          *)
(***************************************************************************)
EXTENDS TurnRuntime, TLC

SlotSymmetry == Permutations(Slots)
=============================================================================
