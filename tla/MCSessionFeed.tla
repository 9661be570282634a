---------------------------- MODULE MCSessionFeed ----------------------------
(* The instance of SessionFeed that TLC explores. *)
EXTENDS SessionFeed, TLC

(* Pages are interchangeable, and so are turns. *)
FeedSymmetry == Permutations(Page) \cup Permutations(Turn)
=============================================================================
