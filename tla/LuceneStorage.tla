--------------------------- MODULE LuceneStorage ---------------------------
(***************************************************************************)
(* LuceneStorage: the storage that keeps the entries in files and a Lucene  *)
(* index of them.  An update writes the file, replaces the entry's document *)
(* in the index, commits the index and refreshes the reader that searches   *)
(* use, without a lock around these steps: threads interleave between them, *)
(* any of them may fail, and the process may die.                           *)
(*                                                                          *)
(* The index is what Lucene makes of it (external): a sequence of documents *)
(* known by their numbers, where an update marks the old document deleted   *)
(* and appends the new one, until a merge drops the deleted ones and        *)
(* renumbers the rest.  The write of the file is one step here; what a torn *)
(* file does is in the module Ingest.                                       *)
(***************************************************************************)
EXTENDS Naturals, Sequences, SequencesExt

CONSTANTS
    Worker,     \* request threads
    Slot,       \* entry keys, feed id and entry id
    MaxUpdates, \* bound on the updates, whose contents are numbered from 1
    MaxCrashes  \* bound on the crashes of the server

ASSUME BoundAssumption == MaxUpdates \in Nat \ {0} /\ MaxCrashes \in Nat

Doc == [slot : Slot, version : 1..MaxUpdates]
Index == Seq(Doc)

VARIABLES
    file,       \* slot -> number of the content in its file, 0 if none
    writer,     \* the index as the writer has it, committed or not
    committed,  \* the index as the disk has it
    reader,     \* the index as searches see it
    call,       \* worker -> where it is in a method, see Call
    updates,    \* number of updates so far
    crashes,    \* number of crashes so far
    acked,      \* history: slot -> the latest content acknowledged, 0 if none
    raced       \* history: slots whose last acknowledged update met another

index == <<writer, committed, reader>>
vars == <<file, index, call, updates, crashes, acked, raced>>

\* Numbers of the documents that are not marked deleted.
Live(ix) ==
    {i \in DOMAIN ix : \A j \in DOMAIN ix : j > i => ix[j].slot # ix[i].slot}

LiveDocs(ix) == {ix[i] : i \in Live(ix)}
Found(ix) == {d.slot : d \in LiveDocs(ix)}

\* A search holds the document numbers it has to look up and what it has found.
\* History: `met`, has the update met another; `expected`, what the reader that
\* was searched showed; `swapped`, has the reader been replaced since.
Call ==
    [at : {"idle"}]
      \cup [at : {"index", "commit", "open"}, doc : Doc, met : BOOLEAN]
      \cup [at : {"assign"}, doc : Doc, met : BOOLEAN, opened : Index]
      \cup [at : {"lookup", "answered"}, hits : SUBSET (Nat \ {0}),
            found : SUBSET ((Nat \ {0}) \X Slot),
            expected : SUBSET Slot, swapped : BOOLEAN]

Idle == [at |-> "idle"]
At(w, label) == call[w].at = label
Become(w, c) == call' = [call EXCEPT ![w] = c]

Free(w) == call[w].at \in {"idle", "answered"}
Updating(w) == call[w].at \in {"index", "commit", "open", "assign"}

Init ==
    /\ file = [s \in Slot |-> 0]
    /\ writer = <<>>
    /\ committed = <<>>
    /\ reader = <<>>
    /\ call = [w \in Worker |-> Idle]
    /\ updates = 0
    /\ crashes = 0
    /\ acked = [s \in Slot |-> 0]
    /\ raced = {}

-----------------------------------------------------------------------------
(* updateEntry *)

\* A call w that begins to update d, after which every update that is under
\* way has met another if there are several.
BeginUpdate(w, label, d) ==
    LET others == {x \in Worker : Updating(x)}
    IN call' = [x \in Worker |->
                  IF x = w
                  THEN [at |-> label, doc |-> d, met |-> others # {}]
                  ELSE IF x \in others THEN [call[x] EXCEPT !.met = TRUE]
                                       ELSE call[x]]

\* Faulty variant: the entry is indexed before its file is written.
WriteLater(w, s) ==
    /\ Free(w)
    /\ updates < MaxUpdates
    /\ updates' = updates + 1
    /\ LET d == [slot |-> s, version |-> updates + 1]
       IN /\ writer' = Append(writer, d)
          /\ BeginUpdate(w, "commit", d)
    /\ UNCHANGED <<file, committed, reader, crashes, acked, raced>>

\* "persist the document"
Write(w, s) ==
    /\ Free(w)
    /\ updates < MaxUpdates
    /\ updates' = updates + 1
    /\ file' = [file EXCEPT ![s] = updates + 1]
    /\ BeginUpdate(w, "index", [slot |-> s, version |-> updates + 1])
    /\ UNCHANGED <<index, crashes, acked, raced>>

UpdateDocument(w) ==
    /\ At(w, "index")
    /\ writer' = Append(writer, call[w].doc)
    /\ Become(w, [call[w] EXCEPT !.at = "commit"])
    /\ UNCHANGED <<file, committed, reader, updates, crashes, acked, raced>>

\* Faulty variant: the reader is refreshed, which is enough to find the entry.
CommitNothing(w) ==
    /\ At(w, "commit")
    /\ Become(w, [call[w] EXCEPT !.at = "open"])
    /\ UNCHANGED <<file, index, updates, crashes, acked, raced>>

\* Commits whatever the writer has, the documents of other threads too.
Commit(w) ==
    /\ At(w, "commit")
    /\ committed' = writer
    /\ Become(w, [call[w] EXCEPT !.at = "open"])
    /\ UNCHANGED <<file, writer, reader, updates, crashes, acked, raced>>

\* refreshReader: a snapshot of what the writer has is opened ...
OpenReader(w) ==
    /\ At(w, "open")
    /\ Become(w, [at |-> "assign", doc |-> call[w].doc,
                  met |-> call[w].met, opened |-> writer])
    /\ UNCHANGED <<file, index, updates, crashes, acked, raced>>

\* Calls whose search has seen another reader.
Swapped == [w \in Worker |->
              IF At(w, "lookup") THEN [call[w] EXCEPT !.swapped = TRUE]
                                 ELSE call[w]]

Acknowledge(w) ==
    LET d == call[w].doc
    IN /\ acked' = [acked EXCEPT ![d.slot] = IF @ < d.version THEN d.version
                                                             ELSE @]
       /\ raced' = IF call[w].met THEN raced \cup {d.slot} ELSE raced \ {d.slot}

\* Faulty variant: the reader is opened and not assigned.
AssignNothing(w) ==
    /\ At(w, "assign")
    /\ Become(w, Idle)
    /\ Acknowledge(w)
    /\ UNCHANGED <<file, index, updates, crashes>>

\* ... and becomes the reader, perhaps after a younger one.
AssignReader(w) ==
    /\ At(w, "assign")
    /\ reader' = call[w].opened
    /\ call' = [Swapped EXCEPT ![w] = Idle]
    /\ Acknowledge(w)
    /\ UNCHANGED <<file, writer, committed, updates, crashes>>

\* Any step may throw: the caller gets an IOException, what is done stays done.
FailUpdate(w) ==
    /\ Updating(w)
    /\ Become(w, Idle)
    /\ UNCHANGED <<file, index, updates, crashes, acked, raced>>

-----------------------------------------------------------------------------
(* _getEntryIdsForFeedId *)

\* The search proper yields document numbers.
Search(w) ==
    /\ Free(w)
    /\ Become(w, [at |-> "lookup", hits |-> Live(reader), found |-> {},
                  expected |-> Found(reader), swapped |-> FALSE])
    /\ UNCHANGED <<file, index, updates, crashes, acked, raced>>

Hits(w) == IF At(w, "lookup") THEN call[w].hits ELSE {}

\* Faulty variant: a document that is not there yields something all the same.
LookUpUnchecked(w, n) ==
    /\ At(w, "lookup")
    /\ Become(w, [call[w] EXCEPT
                    !.hits = @ \ {n},
                    !.found = @ \cup {<<n, IF n \in DOMAIN reader
                                           THEN reader[n].slot ELSE "null">>}])
    /\ UNCHANGED <<file, index, updates, crashes, acked, raced>>

\* Faulty variant: the reader is refreshed for each document.
LookUpRefreshed(w, n) ==
    /\ At(w, "lookup")
    /\ n \in DOMAIN writer
    /\ Become(w, [call[w] EXCEPT !.hits = @ \ {n},
                                 !.found = @ \cup {<<n, writer[n].slot>>}])
    /\ UNCHANGED <<file, index, updates, crashes, acked, raced>>

\* Each document is looked up in the reader that is the reader now; a number
\* that it does not have throws.
LookUp(w, n) ==
    /\ At(w, "lookup")
    /\ Become(w, IF n \in DOMAIN reader
                 THEN [call[w] EXCEPT !.hits = @ \ {n},
                                      !.found = @ \cup {<<n, reader[n].slot>>}]
                 ELSE Idle)
    /\ UNCHANGED <<file, index, updates, crashes, acked, raced>>

AnswerSearch(w) ==
    /\ At(w, "lookup")
    /\ call[w].hits = {}
    /\ Become(w, [call[w] EXCEPT !.at = "answered"])
    /\ UNCHANGED <<file, index, updates, crashes, acked, raced>>

-----------------------------------------------------------------------------
(* Lucene's merges, and crashes *)

Merge ==
    /\ \E ix \in SetToSeqs(LiveDocs(writer)) : ix # writer /\ writer' = ix
    /\ UNCHANGED <<file, committed, reader, call, updates, crashes, acked, raced>>

\* The constructor opens what was committed.
Crash ==
    /\ crashes < MaxCrashes
    /\ crashes' = crashes + 1
    /\ writer' = committed
    /\ reader' = committed
    /\ call' = [w \in Worker |-> Idle]
    /\ UNCHANGED <<file, committed, updates, acked, raced>>

Step(w) ==
    \/ \E s \in Slot : Write(w, s)
    \/ UpdateDocument(w)
    \/ Commit(w)
    \/ OpenReader(w)
    \/ AssignReader(w)
    \/ FailUpdate(w)
    \/ Search(w)
    \/ \E n \in Hits(w) : LookUp(w, n)
    \/ AnswerSearch(w)

Next == (\E w \in Worker : Step(w)) \/ Merge \/ Crash

Spec == Init /\ [][Next]_vars

-----------------------------------------------------------------------------
TypeOK ==
    /\ file \in [Slot -> 0..MaxUpdates]
    /\ writer \in Index /\ committed \in Index /\ reader \in Index
    /\ call \in [Worker -> Call]
    /\ updates \in 0..MaxUpdates /\ crashes \in 0..MaxCrashes
    /\ acked \in [Slot -> 0..MaxUpdates]
    /\ raced \subseteq Slot

\* Whatever threads, failures, merges and crashes do, no index knows an entry
\* whose file has not been written: an id that a search returns, even one that
\* mixes two readers, names an entry that can be read
\* (LuceneStorage.java:600-607, :251-268).
IndexBehindFile ==
    /\ \A ix \in {writer, committed, reader} : \A i \in DOMAIN ix :
          ix[i].version <= file[ix[i].slot]
    /\ \A w \in Worker : At(w, "answered") =>
          \A hit \in call[w].found : file[hit[2]] > 0

\* An entry whose update was acknowledged is in the committed index, so that it
\* is found again after a crash, though the commit may have been that of
\* another thread (LuceneStorage.java:606).
AcknowledgedIsDurable ==
    \A s \in Slot : acked[s] > 0 => s \in Found(committed)

\* Searches see the last acknowledged content of an entry, unless its update
\* met another: then an older reader may be assigned after a younger one, or
\* an older document be indexed after a younger one, until the entry is updated
\* again (LuceneStorage.java:139-141, :603-607).
AcknowledgedIsFound ==
    \A s \in Slot \ raced : acked[s] > 0 =>
        \E d \in LiveDocs(reader) : d.slot = s /\ d.version >= acked[s]

\* A search returns each matching entry once, unless the reader is replaced in
\* the middle of it: document numbers mean nothing to another reader
\* (LuceneStorage.java:251, :261).
FoundOnce ==
    \A w \in Worker : At(w, "answered") /\ ~call[w].swapped =>
        /\ {hit[2] : hit \in call[w].found} = call[w].expected
        /\ \A h, i \in call[w].found : h[2] = i[2] => h = i

=============================================================================
