-------------------------- MODULE MCLuceneStorage --------------------------
(* Instances of LuceneStorage for TLC. *)
EXTENDS LuceneStorage, TLC

CONSTANTS w1, w2, a, b

Symmetry == Permutations(Worker) \cup Permutations(Slot)
=============================================================================
