----------------------------- MODULE MCRenderer -----------------------------
(* Instances of Renderer for TLC. *)
EXTENDS Renderer, TLC

CONSTANTS q1, q2

\* 1 and 2 begin threads; 3 replies to 1 and 4 shares it.
Entries == 1..4
Verbs == <<"post", "post", "reply", "share">>
Roots == <<1, 2, 1, 1>>

\* A feed, and what mentions its owner.
Brings == q1 :> {1, 2, 3} @@ q2 :> {3, 4}

\* The server lacks one entry, or the first of the thread and the newest.
SomeMissing == {{1, 2, 4}, {1, 3, 4}, {1, 2, 3}, {2, 3, 4}, {2, 3}}
=============================================================================
