------------------------------- MODULE MCSync -------------------------------
(* Instances of Sync for TLC. *)
EXTENDS Sync, TLC

CONSTANTS d1, d2, h, a, b

Symmetry == Permutations(Device)
=============================================================================
