--------------------------- MODULE MCPublication ---------------------------
(* Small instances of Publication. *)
EXTENDS Publication, TLC

Interchangeable == Permutations(Slots) \cup Permutations(Shops)
=============================================================================
