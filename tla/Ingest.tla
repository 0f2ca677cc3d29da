------------------------------- MODULE Ingest -------------------------------
(***************************************************************************)
(* TrsstAdapter.ingestFeed and its static deleteEntry: how a server         *)
(* validates a signed feed document and stores it, one file per feed and    *)
(* one per entry, while other request threads do the same and the process   *)
(* may die at any point.                                                    *)
(*                                                                          *)
(* A file write truncates first and fills afterwards (FileStorage.          *)
(* writeStringToFile), so a write is two actions here; every other action   *)
(* holds at most one access to the storage.  The two passes of the code     *)
(* over the entries run in document order; the model picks any order,       *)
(* which covers every document.                                             *)
(***************************************************************************)
EXTENDS Naturals

CONSTANTS
    Worker,         \* request threads (and the relay timer thread)
    Feed,           \* ids of native feeds
    Home,           \* id of the aggregate adapter, Common.ROOT_ALIAS
    Entry,          \* entry ids, unique within a feed
    NotAnId,        \* a mention whose term is not an entry id (a feed, an alias)
    Time,           \* the timestamps of documents
    Incoming,       \* the documents that clients post and relays return
    ViaHome,        \* may an aggregate query of the home adapter ingest a feed?
    StorageMayFail, \* may updateFeed and updateEntry throw IOException?
    MaxCrashes      \* bound on the crashes of the server

Verb == {"post", "delete", "deleted"}

\* What ingestFeed reads of an entry.  `signed`: its signature verifies.
EntryDoc == [id : Entry, updated : Time, verb : Verb,
             mentions : SUBSET (Entry \cup {NotAnId}), signed : BOOLEAN]

\* Checks on the feed element that precede any access to the storage.
Header == {"ok", "undated", "future", "unkeyed", "mismatched"}

FeedDoc == [feed : Feed, header : Header, updated : Time, signed : BOOLEAN,
            entries : SUBSET EntryDoc]

ASSUME TimeAssumption == Time \subseteq Nat
ASSUME IdAssumption == Home \notin Feed /\ NotAnId \notin Entry
ASSUME IncomingAssumption == Incoming \subseteq FeedDoc /\ Incoming # {}
ASSUME DocumentAssumption == Entry # {} /\ Time # {}
ASSUME BoundAssumption ==
    ViaHome \in BOOLEAN /\ StorageMayFail \in BOOLEAN /\ MaxCrashes \in Nat

-----------------------------------------------------------------------------
(* Files.  A torn file is empty or a prefix; `by` is the thread whose        *)
(* truncation it is, "nobody" when writes of two threads got mixed.          *)

Absent == [kind |-> "absent"]
Torn(w) == [kind |-> "torn", by |-> w]
Whole(d) == [kind |-> "whole", doc |-> d]

File(Doc) == {Absent} \cup [kind : {"torn"}, by : Worker \cup {"nobody"}]
                      \cup [kind : {"whole"}, doc : Doc]

Exists(file) == file.kind # "absent"
IsWhole(file) == file.kind = "whole"

\* What the file may hold once the writer w has filled and closed it.
Filled(file, w, d) ==
    IF file = Torn(w) THEN {Whole(d)} ELSE {Whole(d), Torn("nobody")}

\* Is the stored copy missing, unreadable or older than `updated`?  A torn
\* copy may or may not hold the element that carries its timestamp.
Outdated(file, updated) ==
    CASE file.kind = "absent" -> {TRUE}
      [] file.kind = "torn"   -> BOOLEAN
      [] file.kind = "whole"  -> {updated > file.doc.updated}

-----------------------------------------------------------------------------
VARIABLES
    feedFile,   \* adapter id -> file of the feed element
    entryFile,  \* <<feed, entry>> -> file of the entry element
    call,       \* worker -> its activation of ingestFeed, see Call
    crashes,    \* number of crashes so far
    lastFeed,   \* history: the last whole content of each feed file
    lastEntry   \* history: the last whole content of each entry file

files == <<feedFile, entryFile>>
history == <<lastFeed, lastEntry>>
vars == <<files, call, crashes, history>>

Slot == Feed \X Entry
FeedContent == [feed : Feed, updated : Time]

Label == {"idle", "check", "screen", "feedOpen", "feedWrite", "entry",
          "entryWrite", "mention", "replaceOpen", "replaceWrite"}

Result == {"none", "busy", "accepted", "invalid", "failed"}

Call == [at : Label,              \* where in ingestFeed the worker is
         doc : FeedDoc,           \* the document it ingests
         via : Feed \cup {Home},  \* the feedId of the adapter it runs in
         todo : SUBSET EntryDoc,  \* entries the loop has still to visit
         keep : SUBSET EntryDoc,  \* the list `entries`: still to be persisted
         cur : EntryDoc,          \* the entry being processed
         targets : SUBSET (Entry \cup {NotAnId}), \* mentions to be deleted
         tomb : EntryDoc,         \* the replacement deleteEntry has built
         result : Result,         \* how the call ended
         dirty : BOOLEAN,         \* history: has the call changed any file?
         held : SUBSET Entry,     \* history: entries stored when it began
         missed : SUBSET Entry,   \* history: entries its second read did not find
         saw : File(FeedContent)] \* history: the feed file it compared with

FeedOf(w) == call[w].doc.feed
SlotOf(w, e) == <<FeedOf(w), e>>
At(w, label) == call[w].at = label
Live(file) == IsWhole(file) /\ file.doc.verb # "deleted"

\* A signature is required of every entry that is not marked "deleted".
Verified(x) == x.signed \/ x.verb = "deleted"

\* deleteEntry keeps id and timestamps, drops the content, and marks it.
Replacement(existing, deletingId) ==
    [existing EXCEPT !.verb = "deleted", !.mentions = {deletingId},
                     !.signed = FALSE]

\* Fill the fields of a call that holds nothing.
AnyEntryDoc == CHOOSE x \in EntryDoc : TRUE
AnyDocument == CHOOSE d \in Incoming : TRUE

\* A call that begins with document d in the adapter a.
NewCall(d, a, stored) ==
    [at |-> "check", doc |-> d, via |-> a, todo |-> d.entries,
     keep |-> d.entries, cur |-> AnyEntryDoc, targets |-> {},
     tomb |-> AnyEntryDoc, result |-> "busy", dirty |-> FALSE, held |-> stored,
     missed |-> {}, saw |-> Absent]

\* A call that is over: it returned, or threw and its caller answered.
Ended(c, how) ==
    [c EXCEPT !.at = "idle", !.result = how, !.todo = {}, !.keep = {},
              !.cur = AnyEntryDoc, !.targets = {}, !.tomb = AnyEntryDoc,
              !.missed = {}, !.saw = Absent]

Init ==
    /\ feedFile = [f \in Feed \cup {Home} |-> Absent]
    /\ entryFile = [s \in Slot |-> Absent]
    /\ call = [w \in Worker |->
                 Ended(NewCall(AnyDocument, AnyDocument.feed, {}), "none")]
    /\ crashes = 0
    /\ lastFeed = [f \in Feed \cup {Home} |-> Absent]
    /\ lastEntry = [s \in Slot |-> Absent]

Update(w, c) == call' = [call EXCEPT ![w] = c]
Goto(w, label) == Update(w, [call[w] EXCEPT !.at = label])
End(w, how) == Update(w, Ended(call[w], how))

-----------------------------------------------------------------------------
(* Validation *)

\* The adapter that serves the collection; the home adapter when the feed was
\* fetched on behalf of an aggregate query (ingestAggregateFeed).
Adapters(d) == {d.feed} \cup (IF ViaHome THEN {Home} ELSE {})

Receive(w, d, a) ==
    /\ At(w, "idle")
    /\ LET c == NewCall(d, a, {e \in Entry : Exists(entryFile[<<d.feed, e>>])})
       IN Update(w, IF d.header = "ok" THEN c ELSE Ended(c, "invalid"))
    /\ UNCHANGED <<files, crashes, history>>

\* First read of the stored entry: a copy that is at least as new saves the
\* signature check; otherwise the entry must verify or the call throws.
CheckEntry(w, x) ==
    /\ At(w, "check")
    /\ x \in call[w].todo
    /\ \E mustVerify \in Outdated(entryFile[SlotOf(w, x.id)], x.updated) :
          IF mustVerify /\ ~Verified(x)
          THEN End(w, "invalid")
          ELSE Update(w, [call[w] EXCEPT !.at = "screen", !.cur = x])
    /\ UNCHANGED <<files, crashes, history>>

\* Faulty variant: stored entries stay on the list.
ScreenEntryKeepsStored(w) ==
    /\ At(w, "screen")
    /\ Update(w, [call[w] EXCEPT !.at = "check", !.todo = @ \ {call[w].cur}])
    /\ UNCHANGED <<files, crashes, history>>

\* Faulty variant: stored entries that are older stay on the list.
ScreenEntryKeepsOlder(w) ==
    /\ At(w, "screen")
    /\ LET x == call[w].cur
           file == entryFile[SlotOf(w, x.id)]
           drop == IF file.kind = "absent" THEN {}
                   ELSE IF file.kind = "torn" THEN {x}
                   ELSE IF x.updated > file.doc.updated THEN {} ELSE {x}
       IN Update(w, [call[w] EXCEPT !.at = "check", !.todo = @ \ {x},
                                    !.keep = @ \ drop])
    /\ UNCHANGED <<files, crashes, history>>

\* Second read of the stored entry: one that exists is never persisted again.
ScreenEntry(w) ==
    /\ At(w, "screen")
    /\ LET x == call[w].cur
           drop == IF Exists(entryFile[SlotOf(w, x.id)]) THEN {x} ELSE {}
       IN Update(w, [call[w] EXCEPT !.at = "check", !.todo = @ \ {x},
                                    !.keep = @ \ drop,
                                    !.missed = @ \cup {y.id : y \in {x} \ drop}])
    /\ UNCHANGED <<files, crashes, history>>

-----------------------------------------------------------------------------
(* Persistence of the feed element *)

\* Faulty variant: the test for a stored copy is the wrong way round.
CheckFeedInverted(w) ==
    /\ At(w, "check")
    /\ call[w].todo = {}
    /\ IF call[w].doc.signed
       THEN \E outdated \in Outdated(feedFile[FeedOf(w)], call[w].doc.updated) :
                Goto(w, IF outdated THEN "entry" ELSE "feedOpen")
       ELSE End(w, "invalid")
    /\ UNCHANGED <<files, crashes, history>>

\* Faulty variant: the stored copy is always replaced.
CheckFeedAlwaysWrites(w) ==
    /\ At(w, "check")
    /\ call[w].todo = {}
    /\ IF call[w].doc.signed
       THEN Update(w, [call[w] EXCEPT !.at = "feedOpen", !.saw = feedFile[FeedOf(w)]])
       ELSE End(w, "invalid")
    /\ UNCHANGED <<files, crashes, history>>

\* Faulty variant: the feed is persisted before it is verified.
CheckFeedTooLate(w) ==
    /\ At(w, "check")
    /\ call[w].todo = {}
    /\ IF call[w].doc.signed
       THEN Goto(w, "feedOpen") /\ UNCHANGED feedFile
       ELSE /\ feedFile' = [feedFile EXCEPT ![call[w].via] = Torn(w)]
            /\ Update(w, Ended([call[w] EXCEPT !.dirty = TRUE], "invalid"))
    /\ UNCHANGED <<entryFile, crashes, history>>

\* All entries visited: verify the feed, then read the stored copy of it.
CheckFeed(w) ==
    /\ At(w, "check")
    /\ call[w].todo = {}
    /\ IF call[w].doc.signed
       THEN \E outdated \in Outdated(feedFile[FeedOf(w)], call[w].doc.updated) :
                IF outdated
                THEN Update(w, [call[w] EXCEPT !.at = "feedOpen",
                                               !.saw = feedFile[FeedOf(w)]])
                ELSE Goto(w, "entry")
       ELSE End(w, "invalid")
    /\ UNCHANGED <<files, crashes, history>>

\* The copy read was that of the feed; the copy written is that of the adapter.
OpenFeed(w) ==
    /\ At(w, "feedOpen")
    /\ feedFile' = [feedFile EXCEPT ![call[w].via] = Torn(w)]
    /\ Update(w, [call[w] EXCEPT !.at = "feedWrite", !.dirty = TRUE])
    /\ UNCHANGED <<entryFile, crashes, history>>

StoreFeed(w) ==
    /\ At(w, "feedWrite")
    /\ \E file \in Filled(feedFile[call[w].via], w,
                   [feed |-> FeedOf(w), updated |-> call[w].doc.updated]) :
          /\ feedFile' = [feedFile EXCEPT ![call[w].via] = file]
          /\ lastFeed' = IF IsWhole(file)
                         THEN [lastFeed EXCEPT ![call[w].via] = file]
                         ELSE lastFeed
    /\ Update(w, [call[w] EXCEPT !.at = "entry", !.saw = Absent])
    /\ UNCHANGED <<entryFile, crashes, lastEntry>>

\* updateFeed throws, before or after the truncation, and so does ingestFeed.
FailFeed(w) ==
    /\ StorageMayFail
    /\ At(w, "feedOpen") \/ At(w, "feedWrite")
    /\ End(w, "failed")
    /\ UNCHANGED <<files, crashes, history>>

-----------------------------------------------------------------------------
(* Persistence of the entries *)

\* The head of the loop over `entries`.
AtEntryLoop(w) ==
    \/ At(w, "entry")
    \/ At(w, "mention") /\ call[w].targets = {}

Truncate(w, s) == entryFile' = [entryFile EXCEPT ![s] = Torn(w)]

Fill(w, d) ==
    LET s == SlotOf(w, d.id) IN
    \E file \in Filled(entryFile[s], w, d) :
        /\ entryFile' = [entryFile EXCEPT ![s] = file]
        /\ lastEntry' = IF IsWhole(file)
                        THEN [lastEntry EXCEPT ![s] = file] ELSE lastEntry

OpenEntry(w, x) ==
    /\ AtEntryLoop(w)
    /\ x \in call[w].keep
    /\ Truncate(w, SlotOf(w, x.id))
    /\ Update(w, [call[w] EXCEPT !.at = "entryWrite", !.cur = x,
                                 !.keep = @ \ {x}, !.dirty = TRUE])
    /\ UNCHANGED <<feedFile, crashes, history>>

\* Faulty variant: looks for the verb of the replacement, "deleted".
StoreEntryWrongVerb(w) ==
    /\ At(w, "entryWrite")
    /\ Fill(w, call[w].cur)
    /\ IF call[w].cur.verb = "deleted"
       THEN Update(w, [call[w] EXCEPT !.at = "mention",
                                      !.targets = call[w].cur.mentions])
       ELSE Goto(w, "entry")
    /\ UNCHANGED <<feedFile, crashes, lastFeed>>

\* The entry is stored; one with verb "delete" has its mentions processed.
StoreEntry(w) ==
    /\ At(w, "entryWrite")
    /\ Fill(w, call[w].cur)
    /\ IF call[w].cur.verb = "delete"
       THEN Update(w, [call[w] EXCEPT !.at = "mention",
                                      !.targets = call[w].cur.mentions])
       ELSE Goto(w, "entry")
    /\ UNCHANGED <<feedFile, crashes, lastFeed>>

\* updateEntry throws: before it touches the file (the content does not
\* parse), between truncation and fill, or after it (the index fails).
FailEntry(w) ==
    /\ StorageMayFail
    /\ \/ AtEntryLoop(w) /\ call[w].keep # {} /\ UNCHANGED <<entryFile, lastEntry>>
       \/ At(w, "entryWrite") /\ UNCHANGED <<entryFile, lastEntry>>
       \/ At(w, "entryWrite") /\ Fill(w, call[w].cur)
    /\ End(w, "failed")
    /\ UNCHANGED <<feedFile, crashes, lastFeed>>

Accept(w) ==
    /\ AtEntryLoop(w)
    /\ call[w].keep = {}
    /\ End(w, "accepted")
    /\ UNCHANGED <<files, crashes, history>>

-----------------------------------------------------------------------------
(* deleteEntry, for each mention of a "delete" entry *)

\* A term that is no entry id throws NumberFormatException, which nothing
\* catches; a torn file may throw too, depending on how far the parser gets.
TargetThrows(w, m) ==
    /\ \/ m = NotAnId
       \/ m \in Entry /\ entryFile[SlotOf(w, m)].kind = "torn"
    /\ End(w, "failed")

\* A missing or unreadable file: logged, and the loop goes on.
TargetMissing(w, m) ==
    /\ m \in Entry
    /\ ~IsWhole(entryFile[SlotOf(w, m)])
    /\ Update(w, [call[w] EXCEPT !.targets = @ \ {m}])

TargetFound(w, m) ==
    /\ m \in Entry
    /\ IsWhole(entryFile[SlotOf(w, m)])
    /\ Update(w, [call[w] EXCEPT !.at = "replaceOpen", !.targets = @ \ {m},
                                 !.tomb = Replacement(
                                              entryFile[SlotOf(w, m)].doc,
                                              call[w].cur.id)])

ReadTarget(w, m) ==
    /\ At(w, "mention")
    /\ m \in call[w].targets
    /\ TargetThrows(w, m) \/ TargetMissing(w, m) \/ TargetFound(w, m)
    /\ UNCHANGED <<files, crashes, history>>

OpenReplacement(w) ==
    /\ At(w, "replaceOpen")
    /\ Truncate(w, SlotOf(w, call[w].tomb.id))
    /\ Update(w, [call[w] EXCEPT !.at = "replaceWrite", !.dirty = TRUE])
    /\ UNCHANGED <<feedFile, crashes, history>>

StoreReplacement(w) ==
    /\ At(w, "replaceWrite")
    /\ Fill(w, call[w].tomb)
    /\ Goto(w, "mention")
    /\ UNCHANGED <<feedFile, crashes, lastFeed>>

\* An IOException from deleteEntry is logged and the loop goes on.
FailReplacement(w) ==
    /\ StorageMayFail
    /\ At(w, "replaceOpen") \/ At(w, "replaceWrite")
    /\ Goto(w, "mention")
    /\ UNCHANGED <<files, crashes, history>>

-----------------------------------------------------------------------------
\* The process dies: every call is lost, files stay as they are.
Crash ==
    /\ crashes < MaxCrashes
    /\ crashes' = crashes + 1
    /\ call' = [w \in Worker |-> Ended(call[w], "none")]
    /\ UNCHANGED <<files, history>>

Step(w) ==
    \/ \E d \in Incoming : \E a \in Adapters(d) : Receive(w, d, a)
    \/ \E x \in call[w].todo : CheckEntry(w, x)
    \/ ScreenEntry(w)
    \/ CheckFeed(w)
    \/ OpenFeed(w)
    \/ StoreFeed(w)
    \/ FailFeed(w)
    \/ \E x \in call[w].keep : OpenEntry(w, x)
    \/ StoreEntry(w)
    \/ FailEntry(w)
    \/ Accept(w)
    \/ \E m \in call[w].targets : ReadTarget(w, m)
    \/ OpenReplacement(w)
    \/ StoreReplacement(w)
    \/ FailReplacement(w)

Next == Crash \/ \E w \in Worker : Step(w)

Spec == Init /\ [][Next]_vars

-----------------------------------------------------------------------------
TypeOK ==
    /\ feedFile \in [Feed \cup {Home} -> File(FeedContent)]
    /\ entryFile \in [Slot -> File(EntryDoc)]
    /\ call \in [Worker -> Call]
    /\ crashes \in 0..MaxCrashes
    /\ lastFeed \in [Feed \cup {Home} -> File(FeedContent)]
    /\ lastEntry \in [Slot -> File(EntryDoc)]

\* No entry is stored whose signature was not verified, unless it is marked
\* "deleted": although the read that lets ingestFeed skip the verification and
\* the read that lets it skip the write are apart, other threads run between
\* them, and files may be torn (TrsstAdapter.java:814-878).
StoredIsVerified ==
    \A s \in Slot : IsWhole(entryFile[s]) => Verified(entryFile[s].doc)

\* Where there is an entry there is a feed element to serve it with, also
\* after a crash: the feed is persisted first (TrsstAdapter.java:929-933).
EntryHasFeed ==
    \A s \in Slot : Exists(entryFile[s]) => Exists(feedFile[s[1]])

\* A document that fails validation changes no file (TrsstAdapter.java:747,
\* :899-906: the feed is verified before anything is persisted).
InvalidLeavesNothing ==
    \A w \in Worker : call[w].result = "invalid" => ~call[w].dirty

\* The content of an entry never changes, except that it is deleted, and a
\* deleted entry never comes back: redelivery, newer versions and second
\* deletions included (TrsstAdapter.java:870-878, :1426-1463).
OriginalsImmutable ==
    [][\A s \in Slot :
          lastEntry[s] # lastEntry'[s] /\ IsWhole(lastEntry[s])
            => /\ lastEntry'[s].doc.verb = "deleted"
               /\ lastEntry'[s].doc.updated = lastEntry[s].doc.updated]_vars

\* The stored feed element is never replaced by an older one, until a crash
\* has left a torn one to compare with (TrsstAdapter.java:917-931).
FeedNeverOlder ==
    [][\A f \in Feed :
          IsWhole(lastFeed[f]) /\ crashes = 0
            => lastFeed'[f].doc.updated >= lastFeed[f].doc.updated]_vars

\* Whatever threads do at once: what is stored is changed, other than by a
\* deletion, only by a thread whose second read had not found the entry; and a
\* feed element is replaced by an older one only by a thread that had compared
\* with another one, or with a torn file (TrsstAdapter.java:870-878, :908-940).
OverwrittenOnlyByRace ==
    [][/\ \A s \in Slot :
             lastEntry[s] # lastEntry'[s] /\ IsWhole(lastEntry[s])
               => \/ lastEntry'[s].doc.verb = "deleted"
                  \/ \E w \in Worker : /\ At(w, "entryWrite")
                                      /\ s = SlotOf(w, call[w].cur.id)
                                      /\ call[w].cur.id \in call[w].missed
       /\ \A f \in Feed :
             IsWhole(lastFeed[f]) /\ lastFeed'[f].doc.updated < lastFeed[f].doc.updated
               => \E w \in Worker : /\ At(w, "feedWrite") /\ call[w].via = f
                                   /\ call[w].saw # lastFeed[f]]_vars

\* When a document is accepted, every "delete" entry in it that is new to the
\* server has replaced the mentioned entries that were stored when the document
\* arrived.  (One that a crash has torn counts as stored, and is never processed:
\* TrsstAdapter.java:870-878, :943-972.)
DeleteReplacesHeld ==
    \A w \in Worker : call[w].result = "accepted" =>
        \A x \in call[w].doc.entries : \A m \in x.mentions \cap call[w].held :
            x.verb = "delete" /\ x.id \notin call[w].held
                => ~Live(entryFile[SlotOf(w, m)])

\* What the javadoc says: servers that receive "delete" entries "must
\* immediately replace their stored copies of the mentioned entries"
\* (TrsstAdapter.java:1472-1474), whatever else the document holds.
DeleteTakesEffect ==
    \A w \in Worker : call[w].result = "accepted" =>
        \A x \in call[w].doc.entries : \A m \in x.mentions \cap Entry :
            x.verb = "delete" => ~Live(entryFile[SlotOf(w, m)])

=============================================================================
