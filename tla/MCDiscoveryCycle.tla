-------------------------- MODULE MCDiscoveryCycle --------------------------
(* Small instances of DiscoveryCycle. *)
EXTENDS DiscoveryCycle, TLC

Interchangeable == Permutations(Lanes)
=============================================================================
