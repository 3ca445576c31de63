--------------------------- MODULE MCObjectHandle ---------------------------
(* ObjectHandle for TLC.  Readers are interchangeable. *)
EXTENDS ObjectHandle, TLC

MCSymmetry == Permutations(Readers)
=============================================================================
