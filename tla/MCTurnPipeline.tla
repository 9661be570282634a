--------------------------- MODULE MCTurnPipeline ---------------------------
(* The instance of TurnPipeline that TLC explores. *)
EXTENDS TurnPipeline, TLC

(* Call identifiers are interchangeable. *)
CallSymmetry == Permutations(Call)
=============================================================================
