------------------------- MODULE MCSessionDirectory -------------------------
(* A host with two process slots and three sessions. *)
EXTENDS SessionDirectory, TLC
Interchangeable == Permutations(Session)
=============================================================================
