------------------------------ MODULE MCIngest ------------------------------
(* Instances of Ingest for TLC: the entries and documents that peers send.   *)
EXTENDS Ingest, FiniteSets, TLC

CONSTANTS w1, w2, f1, e1, e2

entry(e, t, v, ms, ok) ==
    [id |-> e, updated |-> t, verb |-> v, mentions |-> ms, signed |-> ok]

Original == entry(e1, 1, "post", {}, TRUE)
Revised  == entry(e1, 2, "post", {}, TRUE)
Altered  == entry(e1, 1, "post", {}, FALSE)
Buried   == entry(e1, 1, "deleted", {e2}, FALSE)
Buried2  == entry(e2, 1, "deleted", {}, FALSE)
Delete   == entry(e2, 2, "delete", {e1}, TRUE)
DeleteMentioning == entry(e2, 2, "delete", {e1, NotAnId}, TRUE)
Second   == entry(e2, 2, "post", {}, TRUE)

\* Documents whose entries have distinct ids.
Documents(entryDocs, headers, times, signed) ==
    {d \in [feed : {f1}, header : headers, updated : times, signed : signed,
            entries : {es \in SUBSET entryDocs : Cardinality(es) <= 2}] :
        \A x, y \in d.entries : x.id = y.id => x = y}

AllEntries == {Original, Revised, Altered, Buried, Buried2, Delete, Second}

\* One thread: everything a peer may send, valid or not.
SequentialIncoming ==
    Documents(AllEntries \cup {DeleteMentioning}, {"ok"}, {1, 2}, {TRUE})
      \cup Documents({Original, Altered}, Header, {2}, BOOLEAN)

\* Two threads: an entry with its deletion, an altered copy of the entry with a
\* newer feed element, and one that does not verify.
document(t, ok, entryDocs) ==
    [feed |-> f1, header |-> "ok", updated |-> t, signed |-> ok,
     entries |-> entryDocs]

ConcurrentIncoming ==
    {document(1, TRUE, {Original, Delete}), document(2, TRUE, {Altered}),
     document(2, FALSE, {})}

WorkerSymmetry == Permutations(Worker)
=============================================================================
