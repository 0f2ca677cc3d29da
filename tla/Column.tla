------------------------------- MODULE Column -------------------------------
(***************************************************************************)
(* What a column of entries promises to the reader of the page.             *)
(*                                                                          *)
(* Only entries that were asked for appear, and the user's own; a reply or  *)
(* a share appears under the entry it belongs to and may have to wait for   *)
(* it; what is shown stays until the column is emptied.                     *)
(***************************************************************************)
CONSTANTS
    Entry,      \* entries
    Query,      \* queries
    Matches,    \* query -> the entries that it may bring
    Root        \* entry -> the entry under which it is shown, or itself

VARIABLES
    asked,      \* queries that may still be answered
    waiting,    \* entries that have arrived and wait for their roots
    shown       \* entries in the column

vars == <<asked, waiting, shown>>

Init == asked = {} /\ waiting = {} /\ shown = {}

\* Of the entries in S some appear, and some begin to wait.
Arrive(S) ==
    /\ shown \subseteq shown' /\ shown' \subseteq shown \cup S
    /\ waiting \subseteq waiting' /\ waiting' \subseteq waiting \cup S
    /\ \A e \in shown' : Root[e] \in shown'

Answers(Q) == UNION {Matches[q] : q \in Q}

Ask(q) ==
    /\ asked' = asked \cup {q}
    /\ Arrive(Answers(asked \cup {q}))

Answer ==
    /\ asked' \subseteq asked
    /\ Arrive(Answers(asked))

\* The user has posted an entry.
OwnEntry(e) ==
    /\ Arrive({e})
    /\ UNCHANGED asked

\* A root is there, and what waited for it; or it cannot be had.
Release(r) ==
    LET kids == {w \in waiting : Root[w] = r}
    IN /\ waiting' \subseteq waiting /\ waiting \ waiting' \subseteq kids
       /\ \/ shown' = shown
          \/ shown \cup {r} \subseteq shown' /\ shown' \subseteq shown \cup {r} \cup kids
       /\ UNCHANGED asked

Clear ==
    /\ shown' = {}
    /\ asked' \subseteq asked
    /\ waiting' \subseteq waiting

Next ==
    \/ \E q \in Query : Ask(q)
    \/ Answer
    \/ \E e \in Entry : OwnEntry(e) \/ Release(e)
    \/ Clear

Spec == Init /\ [][Next]_vars

=============================================================================
