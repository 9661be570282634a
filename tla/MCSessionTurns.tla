--------------------------- MODULE MCSessionTurns ---------------------------
(* The instance of SessionTurns that TLC explores. *)
EXTENDS SessionTurns, TLC

(* Turns are interchangeable: no definition tells one from another. *)
TurnSymmetry == Permutations(Turn)
=============================================================================
