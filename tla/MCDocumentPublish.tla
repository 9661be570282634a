-------------------------- MODULE MCDocumentPublish --------------------------
(* Instances of DocumentPublish for TLC. *)
EXTENDS DocumentPublish

FileSymmetry == Permutations(File)
=============================================================================
