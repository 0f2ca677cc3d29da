------------------------------ MODULE Storage ------------------------------
(***************************************************************************)
(* What the interface Storage promises to the threads that call it, as the  *)
(* abstract specification for the implementations: updates change the       *)
(* content of one feed, and a read answers with the content as it was at    *)
(* some moment between the call and the return, or fails.                   *)
(*                                                                          *)
(* A read is named by its key: a method together with its arguments.  What  *)
(* it returns is abstracted to the versions of the feeds it is computed     *)
(* from; the answer of a missing file (FileNotFoundException) is the one    *)
(* with version 0.                                                          *)
(***************************************************************************)
EXTENDS Naturals

CONSTANTS
    Worker,         \* request threads
    Feed,           \* ids of feeds
    Key,            \* reads, a method with arguments
    Scope,          \* key -> the feeds whose content the answer depends on
    MaxVersion,     \* bound on the updates of one feed
    Failed,         \* the answer of a read that throws IOException
    Unanswered      \* the answer of a worker that has not read yet

Value == [Feed -> Nat]

ASSUME ScopeAssumption == Scope \in [Key -> SUBSET Feed]
ASSUME AnswerAssumption == Failed \notin Value /\ Unanswered \notin Value
ASSUME VersionAssumption == MaxVersion \in Nat /\ Key # {}

VARIABLES
    version,    \* feed -> number of updates of its content
    read        \* worker -> its last read: its key, whether it is open, the answer it
                \* returned, and what it may: the contents since it was called

\* The answer to the read k when the contents are v.
Content(k, v) == [f \in Feed |-> IF f \in Scope[k] THEN v[f] ELSE 0]
Current(k) == Content(k, version)

StorageInit ==
    /\ version = [f \in Feed |-> 0]
    /\ read = [w \in Worker |->
                 [key |-> CHOOSE k \in Key : TRUE, open |-> FALSE, may |-> {},
                  answer |-> Unanswered]]

Begin(w, k) ==
    /\ ~read[w].open
    /\ read' = [read EXCEPT ![w] = [key |-> k, open |-> TRUE,
                                    may |-> {Current(k)},
                                    answer |-> Unanswered]]
    /\ UNCHANGED version

\* Answer a read that is open.
Answer(w, v) == read' = [read EXCEPT ![w].open = FALSE, ![w].answer = v]

Return(w) ==
    /\ read[w].open
    /\ \E v \in read[w].may \cup {Failed} : Answer(w, v)
    /\ UNCHANGED version

\* The content of feed f changes, under the eyes of every open read.
Update(f) ==
    /\ version[f] < MaxVersion
    /\ version' = [version EXCEPT ![f] = @ + 1]
    /\ read' = [w \in Worker |->
                  IF read[w].open
                  THEN [read[w] EXCEPT
                          !.may = @ \cup {Content(read[w].key, version')}]
                  ELSE read[w]]

StorageNext ==
    \/ \E w \in Worker : \/ \E k \in Key : Begin(w, k)
                         \/ Return(w)
    \/ \E f \in Feed : Update(f)

StorageSpec == StorageInit /\ [][StorageNext]_<<version, read>>

=============================================================================
