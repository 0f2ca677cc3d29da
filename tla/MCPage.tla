-------------------------------- MODULE MCPage --------------------------------
(* Instances of Page for TLC. *)
EXTENDS Page, TLC

CONSTANTS a1, a2, f1, e1
=============================================================================
