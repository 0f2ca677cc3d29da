---------------------------- MODULE IngestProofs ----------------------------
(***************************************************************************)
(* Theorems about Ingest, for any number of worker threads, feeds, entries  *)
(* and documents, with crashes and storage errors at any point.             *)
(***************************************************************************)
EXTENDS Ingest, TLAPS

-----------------------------------------------------------------------------
(* Files and calls *)

\* A write leaves a file that exists and, if it is readable, holds either
\* what was written or nothing else.
LEMMA FilledFacts ==
    ASSUME NEW Doc, NEW w \in Worker, NEW d \in Doc, NEW file,
           NEW g \in Filled(file, w, d)
    PROVE  /\ g \in File(Doc)
           /\ Exists(g)
           /\ IsWhole(g) => g.doc = d
  BY DEF Filled, File, Torn, Whole, Absent, Exists, IsWhole

LEMMA TornFacts ==
    ASSUME NEW Doc, NEW w \in Worker
    PROVE  /\ Torn(w) \in File(Doc)
           /\ Exists(Torn(w))
           /\ ~IsWhole(Torn(w))
  BY DEF Torn, File, Exists, IsWhole

LEMMA AbsentFacts ==
    ASSUME NEW Doc
    PROVE  /\ Absent \in File(Doc)
           /\ ~IsWhole(Absent)
           /\ ~Exists(Absent)
  BY DEF Absent, File, IsWhole, Exists

LEMMA FileDoc ==
    ASSUME NEW Doc, NEW file \in File(Doc)
    PROVE  /\ file.kind \in {"absent", "torn", "whole"}
           /\ IsWhole(file) => file.doc \in Doc
  BY DEF File, Absent, IsWhole

\* There is an entry document and a document to fill an idle call with.
LEMMA AnyFacts == AnyEntryDoc \in EntryDoc /\ AnyDocument \in Incoming
  <1>1. PICK e \in Entry, t \in Time : TRUE
    BY DocumentAssumption
  <1>2. [id |-> e, updated |-> t, verb |-> "post", mentions |-> {},
         signed |-> TRUE] \in EntryDoc
    BY DEF EntryDoc, Verb
  <1>3. QED
    BY <1>2, IncomingAssumption DEF AnyEntryDoc, AnyDocument

LEMMA NewCallFacts ==
    ASSUME NEW d \in Incoming, NEW a \in Adapters(d), NEW stored \in SUBSET Entry
    PROVE  NewCall(d, a, stored) \in Call
  <1>1. d \in FeedDoc /\ d.entries \in SUBSET EntryDoc /\ d.feed \in Feed
    BY IncomingAssumption DEF FeedDoc
  <1>2. a \in Feed \cup {Home}
    BY <1>1 DEF Adapters
  <1>3. QED
    BY <1>1, <1>2, AnyFacts, AbsentFacts DEF NewCall, Call, Label, Result

LEMMA EndedFacts ==
    ASSUME NEW c \in Call, NEW how \in Result
    PROVE  /\ Ended(c, how) \in Call
           /\ Ended(c, how).at = "idle"
           /\ Ended(c, how).result = how
           /\ Ended(c, how).dirty = c.dirty
           /\ Ended(c, how).keep = {}
           /\ Ended(c, how).todo = {}
  BY AnyFacts, AbsentFacts DEF Ended, Call, Label

LEMMA ReplacementFacts ==
    ASSUME NEW x \in EntryDoc, NEW e \in Entry
    PROVE  /\ Replacement(x, e) \in EntryDoc
           /\ Replacement(x, e).verb = "deleted"
           /\ Replacement(x, e).id = x.id
  BY DEF Replacement, EntryDoc, Verb

-----------------------------------------------------------------------------
(* Type correctness *)

\* What TypeOK says of the call of one worker.
LEMMA CallFacts ==
    ASSUME TypeOK, NEW w \in Worker
    PROVE  /\ call[w] \in Call
           /\ FeedOf(w) \in Feed
           /\ call[w].doc.updated \in Time
           /\ call[w].cur \in EntryDoc /\ call[w].cur.id \in Entry
           /\ call[w].tomb \in EntryDoc /\ call[w].tomb.id \in Entry
           /\ call[w].via \in Feed \cup {Home}
           /\ \A e \in Entry : SlotOf(w, e) \in Slot
  BY DEF TypeOK, Call, FeedDoc, EntryDoc, FeedOf, SlotOf, Slot

\* Updating the call of one worker keeps the type of `call`.
LEMMA CallUpdate ==
    ASSUME TypeOK, NEW w \in Worker, NEW c \in Call, Update(w, c)
    PROVE  /\ call' \in [Worker -> Call]
           /\ call'[w] = c
           /\ \A v \in Worker \ {w} : call'[v] = call[v]
  BY DEF TypeOK, Update

\* A call that goes on to `label`, to remember the feed file there or not.
Moved(c, n, label) ==
    /\ n.at = label
    /\ n.doc = c.doc /\ n.via = c.via /\ n.todo = c.todo /\ n.keep = c.keep
    /\ n.cur = c.cur /\ n.tomb = c.tomb /\ n.result = c.result /\ n.dirty = c.dirty
    /\ n.missed = c.missed

LEMMA MovedFacts ==
    ASSUME TypeOK, NEW w \in Worker, NEW label,
           \/ Goto(w, label)
           \/ \E s : Update(w, [call[w] EXCEPT !.at = label, !.saw = s])
    PROVE  Moved(call[w], call'[w], label)
  <1> DEFINE c == call[w]
  <1>1. c \in Call
    BY CallFacts
  <1>2. CASE Goto(w, label)
    <2>1. call'[w] = [c EXCEPT !.at = label]
      BY <1>2 DEF Goto, Update, TypeOK
    <2>2. QED
      BY <1>1, <2>1 DEF Moved, Call
  <1>3. CASE \E s : Update(w, [c EXCEPT !.at = label, !.saw = s])
    <2>1. PICK s : call'[w] = [c EXCEPT !.at = label, !.saw = s]
      BY <1>3 DEF Update, TypeOK
    <2>2. QED
      BY <1>1, <2>1 DEF Moved, Call
  <1>4. QED
    BY <1>2, <1>3

\* What the steps make of a call is a call.
LEMMA CallShapes ==
    ASSUME NEW c \in Call
    PROVE  /\ \A x \in EntryDoc : [c EXCEPT !.at = "screen", !.cur = x] \in Call
           /\ \A gone, drop : \A new \in SUBSET Entry :
                 [c EXCEPT !.at = "check", !.todo = @ \ gone, !.keep = @ \ drop,
                           !.missed = @ \cup new] \in Call
           /\ \A file \in File(FeedContent) :
                 [c EXCEPT !.at = "feedOpen", !.saw = file] \in Call
           /\ [c EXCEPT !.at = "feedWrite", !.dirty = TRUE] \in Call
           /\ [c EXCEPT !.at = "entry", !.saw = Absent] \in Call
           /\ \A x \in EntryDoc :
                 [c EXCEPT !.at = "entryWrite", !.cur = x, !.keep = @ \ {x},
                           !.dirty = TRUE] \in Call
           /\ \A t \in SUBSET (Entry \cup {NotAnId}) :
                 [c EXCEPT !.at = "mention", !.targets = t] \in Call
           /\ \A m : [c EXCEPT !.targets = @ \ {m}] \in Call
           /\ \A m : \A r \in EntryDoc :
                 [c EXCEPT !.at = "replaceOpen", !.targets = @ \ {m}, !.tomb = r] \in Call
           /\ [c EXCEPT !.at = "replaceWrite", !.dirty = TRUE] \in Call
  <1>1. ASSUME NEW x \in EntryDoc PROVE [c EXCEPT !.at = "screen", !.cur = x] \in Call
    BY DEF Call, Label
  <1>2. ASSUME NEW gone, NEW drop, NEW new \in SUBSET Entry
        PROVE  [c EXCEPT !.at = "check", !.todo = @ \ gone, !.keep = @ \ drop,
                         !.missed = @ \cup new] \in Call
    BY DEF Call, Label
  <1>3. ASSUME NEW file \in File(FeedContent)
        PROVE  [c EXCEPT !.at = "feedOpen", !.saw = file] \in Call
    BY DEF Call, Label
  <1>4. [c EXCEPT !.at = "feedWrite", !.dirty = TRUE] \in Call
    BY DEF Call, Label
  <1>5. [c EXCEPT !.at = "entry", !.saw = Absent] \in Call
    BY AbsentFacts DEF Call, Label
  <1>6. ASSUME NEW x \in EntryDoc
        PROVE  [c EXCEPT !.at = "entryWrite", !.cur = x, !.keep = @ \ {x},
                         !.dirty = TRUE] \in Call
    BY DEF Call, Label
  <1>7. ASSUME NEW t \in SUBSET (Entry \cup {NotAnId})
        PROVE  [c EXCEPT !.at = "mention", !.targets = t] \in Call
    BY DEF Call, Label
  <1>8. ASSUME NEW m PROVE [c EXCEPT !.targets = @ \ {m}] \in Call
    BY DEF Call
  <1>9. ASSUME NEW m, NEW r \in EntryDoc
        PROVE  [c EXCEPT !.at = "replaceOpen", !.targets = @ \ {m}, !.tomb = r] \in Call
    BY DEF Call, Label
  <1>10. [c EXCEPT !.at = "replaceWrite", !.dirty = TRUE] \in Call
    BY DEF Call, Label
  <1>11. QED
    BY <1>1, <1>2, <1>3, <1>4, <1>5, <1>6, <1>7, <1>8, <1>9, <1>10

\* What becomes of a call whose feed element is checked.
LEMMA CheckFeedGoes ==
    ASSUME NEW w \in Worker, CheckFeed(w)
    PROVE  \/ End(w, "invalid")
           \/ Update(w, [call[w] EXCEPT !.at = "feedOpen",
                                        !.saw = feedFile[FeedOf(w)]])
           \/ Goto(w, "entry")
  BY DEF CheckFeed

\* Filling an entry file keeps the types of the files and their history.
LEMMA FillFacts ==
    ASSUME TypeOK, NEW w \in Worker, NEW d \in EntryDoc, Fill(w, d)
    PROVE  /\ entryFile' \in [Slot -> File(EntryDoc)]
           /\ lastEntry' \in [Slot -> File(EntryDoc)]
           /\ \A s \in Slot :
                 /\ Exists(entryFile[s]) => Exists(entryFile'[s])
                 /\ Exists(entryFile'[s]) /\ s # SlotOf(w, d.id)
                      => Exists(entryFile[s])
                 /\ IsWhole(entryFile'[s]) =>
                       entryFile'[s] = entryFile[s] \/ entryFile'[s].doc = d
  <1> DEFINE s == SlotOf(w, d.id)
  <1>1. d.id \in Entry /\ s \in Slot
    BY CallFacts DEF EntryDoc
  <1>2. PICK file \in Filled(entryFile[s], w, d) :
            /\ entryFile' = [entryFile EXCEPT ![s] = file]
            /\ lastEntry' = IF IsWhole(file)
                            THEN [lastEntry EXCEPT ![s] = file] ELSE lastEntry
    BY DEF Fill
  <1>3. file \in File(EntryDoc) /\ Exists(file) /\ (IsWhole(file) => file.doc = d)
    BY FilledFacts
  <1>4. QED
    BY <1>1, <1>2, <1>3 DEF TypeOK

\* So does truncating one.
LEMMA TruncateFacts ==
    ASSUME TypeOK, NEW w \in Worker, NEW s \in Slot, Truncate(w, s)
    PROVE  /\ entryFile' \in [Slot -> File(EntryDoc)]
           /\ \A r \in Slot :
                 /\ Exists(entryFile[r]) => Exists(entryFile'[r])
                 /\ Exists(entryFile'[r]) /\ r # s => Exists(entryFile[r])
                 /\ IsWhole(entryFile'[r]) => entryFile'[r] = entryFile[r]
  BY TornFacts DEF TypeOK, Truncate

\* Every step of a worker preserves the types.
LEMMA StepType ==
    ASSUME TypeOK, NEW w \in Worker, Step(w)
    PROVE  TypeOK'
  <1> USE CallFacts
  <1>1. ASSUME NEW d \in Incoming, NEW a \in Adapters(d), Receive(w, d, a)
        PROVE  TypeOK'
    <2> DEFINE c == NewCall(d, a, {e \in Entry : Exists(entryFile[<<d.feed, e>>])})
    <2>1. c \in Call
      BY NewCallFacts
    <2>2. Ended(c, "invalid") \in Call
      BY <2>1, EndedFacts DEF Result
    <2>3. call' \in [Worker -> Call]
      BY <1>1, <2>1, <2>2, CallUpdate DEF Receive
    <2>4. QED
      BY <1>1, <2>3 DEF Receive, TypeOK, files, history
  <1>2. ASSUME End(w, "invalid") \/ End(w, "failed") \/ End(w, "accepted")
        PROVE  call' \in [Worker -> Call]
    BY <1>2, EndedFacts, CallUpdate DEF End, Result
  <1>3. ASSUME NEW label \in Label, Goto(w, label)
        PROVE  call' \in [Worker -> Call]
    BY <1>3, CallUpdate DEF Goto, Call
  <1>4. ASSUME NEW x \in call[w].todo, CheckEntry(w, x)
        PROVE  TypeOK'
    <2>1. x \in EntryDoc
      BY DEF Call
    <2> DEFINE n == [call[w] EXCEPT !.at = "screen", !.cur = x]
    <2>2. n \in Call
      BY <2>1, CallShapes, Zenon
    <2>3. call' \in [Worker -> Call]
      <3>1. End(w, "invalid") \/ Update(w, n)
        BY <1>4 DEF CheckEntry
      <3> HIDE DEF n
      <3>2. QED
        BY <1>2, <2>2, <3>1, CallUpdate
    <2>4. QED
      BY <1>4, <2>3 DEF CheckEntry, TypeOK, files, history
  <1>5. CASE ScreenEntry(w)
    <2> DEFINE x == call[w].cur
               drop == IF Exists(entryFile[SlotOf(w, x.id)]) THEN {x} ELSE {}
               new == {y.id : y \in {x} \ drop}
    <2>0. new \subseteq Entry
      OBVIOUS
    <2> HIDE DEF new, drop, x
    <2> DEFINE n == [call[w] EXCEPT !.at = "check", !.todo = @ \ {x}, !.keep = @ \ drop,
                                    !.missed = @ \cup new]
    <2>1. n \in Call
      BY <2>0, CallShapes, Zenon
    <2>2. call' \in [Worker -> Call]
      <3>1. Update(w, n)
        BY <1>5 DEF ScreenEntry, new, drop, x
      <3> HIDE DEF n
      <3>2. QED
        BY <2>1, <3>1, CallUpdate
    <2>3. QED
      BY <1>5, <2>2 DEF ScreenEntry, TypeOK, files, history
  <1>6. CASE CheckFeed(w)
    <2>1. feedFile[FeedOf(w)] \in File(FeedContent)
      BY DEF TypeOK
    <2> DEFINE n == [call[w] EXCEPT !.at = "feedOpen", !.saw = feedFile[FeedOf(w)]]
    <2>2. n \in Call
      BY <2>1, CallShapes, Zenon
    <2>3. call' \in [Worker -> Call]
      <3>1. End(w, "invalid") \/ Update(w, n) \/ Goto(w, "entry")
        BY <1>6, CheckFeedGoes
      <3> HIDE DEF n
      <3>2. QED
        BY <1>2, <1>3, <2>2, <3>1, CallUpdate DEF Label
    <2>4. QED
      BY <1>6, <2>3 DEF CheckFeed, TypeOK, files, history
  <1>7. CASE OpenFeed(w)
    <2> DEFINE n == [call[w] EXCEPT !.at = "feedWrite", !.dirty = TRUE]
    <2>1. n \in Call
      BY CallShapes, Zenon
    <2>2. call' \in [Worker -> Call]
      <3>1. Update(w, n)
        BY <1>7 DEF OpenFeed
      <3> HIDE DEF n
      <3>2. QED
        BY <2>1, <3>1, CallUpdate
    <2>3. QED
      BY <1>7, <2>2, TornFacts DEF OpenFeed, TypeOK, history
  <1>8. CASE StoreFeed(w)
    <2> DEFINE d == [feed |-> FeedOf(w), updated |-> call[w].doc.updated]
    <2>1. d \in FeedContent
      BY DEF FeedContent
    <2>2. PICK file \in Filled(feedFile[call[w].via], w, d) :
              /\ feedFile' = [feedFile EXCEPT ![call[w].via] = file]
              /\ lastFeed' = IF IsWhole(file)
                             THEN [lastFeed EXCEPT ![call[w].via] = file]
                             ELSE lastFeed
      BY <1>8 DEF StoreFeed
    <2>3. file \in File(FeedContent)
      BY <2>1, FilledFacts
    <2> DEFINE n == [call[w] EXCEPT !.at = "entry", !.saw = Absent]
    <2>4. n \in Call
      BY CallShapes, Zenon
    <2>5. call' \in [Worker -> Call]
      <3>1. Update(w, n)
        BY <1>8 DEF StoreFeed
      <3> HIDE DEF n
      <3>2. QED
        BY <2>4, <3>1, CallUpdate
    <2>6. QED
      BY <1>8, <2>2, <2>3, <2>5 DEF StoreFeed, TypeOK
  <1>9. CASE FailFeed(w)
    BY <1>2, <1>9 DEF FailFeed, TypeOK, files, history
  <1>10. ASSUME NEW x \in call[w].keep, OpenEntry(w, x)
         PROVE  TypeOK'
    <2>1. x \in EntryDoc /\ SlotOf(w, x.id) \in Slot
      BY DEF Call, EntryDoc
    <2> DEFINE n == [call[w] EXCEPT !.at = "entryWrite", !.cur = x, !.keep = @ \ {x},
                                    !.dirty = TRUE]
    <2>2. n \in Call
      BY <2>1, CallShapes, Zenon
    <2>3. call' \in [Worker -> Call]
      <3>1. Update(w, n)
        BY <1>10 DEF OpenEntry
      <3> HIDE DEF n
      <3>2. QED
        BY <2>2, <3>1, CallUpdate
    <2>4. entryFile' \in [Slot -> File(EntryDoc)]
      BY <1>10, <2>1, TruncateFacts DEF OpenEntry
    <2>5. QED
      BY <1>10, <2>3, <2>4 DEF OpenEntry, TypeOK, history
  <1>11. CASE StoreEntry(w)
    <2>0. call[w].cur.mentions \in SUBSET (Entry \cup {NotAnId})
      BY DEF EntryDoc
    <2> DEFINE n == [call[w] EXCEPT !.at = "mention", !.targets = call[w].cur.mentions]
    <2>1. n \in Call
      BY <2>0, CallShapes, Zenon
    <2>2. call' \in [Worker -> Call]
      <3>1. Update(w, n) \/ Goto(w, "entry")
        BY <1>11 DEF StoreEntry
      <3> HIDE DEF n
      <3>2. QED
        BY <1>3, <2>1, <3>1, CallUpdate DEF Label
    <2>3. entryFile' \in [Slot -> File(EntryDoc)] /\ lastEntry' \in [Slot -> File(EntryDoc)]
      BY <1>11, FillFacts DEF StoreEntry
    <2>4. QED
      BY <1>11, <2>2, <2>3 DEF StoreEntry, TypeOK
  <1>12. CASE FailEntry(w)
    <2>1. entryFile' \in [Slot -> File(EntryDoc)] /\ lastEntry' \in [Slot -> File(EntryDoc)]
      <3>1. CASE UNCHANGED <<entryFile, lastEntry>>
        BY <3>1 DEF TypeOK
      <3>2. CASE Fill(w, call[w].cur)
        BY <3>2, FillFacts
      <3>3. QED
        BY <1>12, <3>1, <3>2 DEF FailEntry
    <2>2. QED
      BY <1>2, <1>12, <2>1 DEF FailEntry, TypeOK
  <1>13. CASE Accept(w)
    BY <1>2, <1>13 DEF Accept, TypeOK, files, history
  <1>14. ASSUME NEW m \in call[w].targets, ReadTarget(w, m)
         PROVE  TypeOK'
    <2>1. CASE TargetThrows(w, m)
      BY <1>2, <1>14, <2>1 DEF TargetThrows, ReadTarget, TypeOK, files, history
    <2>2. CASE TargetMissing(w, m)
      <3> DEFINE n == [call[w] EXCEPT !.targets = @ \ {m}]
      <3>1. n \in Call
        BY CallShapes, Zenon
      <3>2. call' \in [Worker -> Call]
        <4>1. Update(w, n)
          BY <2>2 DEF TargetMissing
        <4> HIDE DEF n
        <4>2. QED
          BY <3>1, <4>1, CallUpdate
      <3>3. QED
        BY <1>14, <3>2 DEF ReadTarget, TypeOK, files, history
    <2>3. CASE TargetFound(w, m)
      <3> DEFINE r == Replacement(entryFile[SlotOf(w, m)].doc, call[w].cur.id)
      <3>1. entryFile[SlotOf(w, m)].doc \in EntryDoc
        BY <2>3, FileDoc DEF TargetFound, TypeOK
      <3>2. r \in EntryDoc
        BY <3>1, ReplacementFacts
      <3> DEFINE n == [call[w] EXCEPT !.at = "replaceOpen", !.targets = @ \ {m},
                                      !.tomb = r]
      <3>3. n \in Call
        BY <3>2, CallShapes, Zenon
      <3>4. call' \in [Worker -> Call]
        <4>1. Update(w, n)
          BY <2>3 DEF TargetFound
        <4> HIDE DEF n
        <4>2. QED
          BY <3>3, <4>1, CallUpdate
      <3>5. QED
        BY <1>14, <3>4 DEF ReadTarget, TypeOK, files, history
    <2>4. QED
      BY <1>14, <2>1, <2>2, <2>3 DEF ReadTarget
  <1>15. CASE OpenReplacement(w)
    <2> DEFINE n == [call[w] EXCEPT !.at = "replaceWrite", !.dirty = TRUE]
    <2>1. n \in Call
      BY CallShapes, Zenon
    <2>2. call' \in [Worker -> Call]
      <3>1. Update(w, n)
        BY <1>15 DEF OpenReplacement
      <3> HIDE DEF n
      <3>2. QED
        BY <2>1, <3>1, CallUpdate
    <2>3. entryFile' \in [Slot -> File(EntryDoc)]
      BY <1>15, TruncateFacts DEF OpenReplacement
    <2>4. QED
      BY <1>15, <2>2, <2>3 DEF OpenReplacement, TypeOK, history
  <1>16. CASE StoreReplacement(w)
    <2>1. call' \in [Worker -> Call]
      BY <1>3, <1>16 DEF StoreReplacement, Label
    <2>2. entryFile' \in [Slot -> File(EntryDoc)] /\ lastEntry' \in [Slot -> File(EntryDoc)]
      BY <1>16, FillFacts DEF StoreReplacement
    <2>3. QED
      BY <1>16, <2>1, <2>2 DEF StoreReplacement, TypeOK
  <1>17. CASE FailReplacement(w)
    BY <1>3, <1>17 DEF FailReplacement, TypeOK, files, history, Label
  <1>18. QED
    BY <1>1, <1>4, <1>5, <1>6, <1>7, <1>8, <1>9, <1>10, <1>11, <1>12, <1>13,
       <1>14, <1>15, <1>16, <1>17 DEF Step

LEMMA CrashType ==
    ASSUME TypeOK, Crash
    PROVE  TypeOK'
  <1>1. \A w \in Worker : Ended(call[w], "none") \in Call
    BY CallFacts, EndedFacts DEF Result
  <1>2. crashes + 1 \in 0..MaxCrashes
    BY BoundAssumption DEF Crash, TypeOK
  <1>3. QED
    BY <1>1, <1>2 DEF Crash, TypeOK, files, history

-----------------------------------------------------------------------------
(* Safety.  StoredIsVerified is not inductive: that an entry on the way to   *)
(* the storage is verified rests on two reads of its file.  The first lets   *)
(* the call skip the signature check when a copy exists; since files never   *)
(* vanish, the second then finds one too and drops the entry.  The parts of  *)
(* CallInv carry that argument, one step of ingestFeed to the next.          *)

Persisting == {"feedOpen", "feedWrite", "entry", "entryWrite", "mention",
               "replaceOpen", "replaceWrite"}
FeedStored == Persisting \ {"feedOpen", "feedWrite"}

\* Between the two reads: verified, or there is a file to be found.
ScreenedInv(c) ==
    c.at = "screen" =>
        Verified(c.cur) \/ Exists(entryFile[<<c.doc.feed, c.cur.id>>])

\* Entries visited and kept are verified; all are visited before any write.
KeptInv(c) ==
    /\ \A x \in c.keep : x \notin c.todo => Verified(x)
    /\ c.at \in Persisting => c.todo = {}

WrittenInv(c) ==
    /\ c.at = "entryWrite" => Verified(c.cur)
    /\ c.at \in {"replaceOpen", "replaceWrite"} => c.tomb.verb = "deleted"

\* Without aggregate queries the call runs in the adapter of its feed, and
\* past CheckFeed or StoreFeed the file of that feed exists.
FeedFirstInv(c) ==
    ~ViaHome /\ c.at # "idle" =>
        /\ c.via = c.doc.feed
        /\ c.at \in FeedStored => Exists(feedFile[c.doc.feed])

\* Nothing is written before the last check that can reject the document.
CleanInv(c) ==
    /\ c.at # "idle" => c.result = "busy"
    /\ c.at \in {"check", "screen"} => ~c.dirty
    /\ c.result = "invalid" => ~c.dirty

CallInv(c) == /\ ScreenedInv(c)
              /\ KeptInv(c)
              /\ WrittenInv(c)
              /\ FeedFirstInv(c)
              /\ CleanInv(c)

SafetyInv == /\ TypeOK
             /\ \A w \in Worker : CallInv(call[w])
             /\ StoredIsVerified
             /\ ~ViaHome => EntryHasFeed

LEMMA UpdateFacts ==
    ASSUME TypeOK, NEW w \in Worker, NEW c, Update(w, c)
    PROVE  /\ call'[w] = c
           /\ \A v \in Worker \ {w} : call'[v] = call[v]
  BY DEF TypeOK, Update

\* A step touches only the call of the worker that takes it.
LEMMA StepUpdates ==
    ASSUME TypeOK, NEW w \in Worker, Step(w)
    PROVE  \A v \in Worker \ {w} : call'[v] = call[v]
  <1>1. \E c : Update(w, c)
    BY DEF Step, Receive, CheckEntry, ScreenEntry, CheckFeed, OpenFeed, StoreFeed,
           FailFeed, OpenEntry, StoreEntry, FailEntry, Accept, ReadTarget,
           TargetThrows, TargetMissing, TargetFound, OpenReplacement,
           StoreReplacement, FailReplacement, Goto, End
  <1>2. QED
    BY <1>1, UpdateFacts

\* A completed write leaves a feed file.
LEMMA StoreFeedFile ==
    ASSUME TypeOK, NEW w \in Worker, StoreFeed(w)
    PROVE  Exists(feedFile'[call[w].via])
  <1> DEFINE d == [feed |-> FeedOf(w), updated |-> call[w].doc.updated]
  <1>1. PICK file \in Filled(feedFile[call[w].via], w, d) :
            feedFile' = [feedFile EXCEPT ![call[w].via] = file]
    BY DEF StoreFeed
  <1>2. Exists(file)
    BY DEF Filled, Whole, Torn, Exists
  <1>3. QED
    BY <1>1, <1>2, CallFacts DEF TypeOK

\* What a step of a worker does to the files: none vanishes, an entry file
\* that is readable holds what it held, or what the worker has written, and
\* a new one is in the feed that the worker ingests.
FilesGrow == /\ \A s \in Slot : Exists(entryFile[s]) => Exists(entryFile'[s])
             /\ \A f \in Feed \cup {Home} :
                   Exists(feedFile[f]) => Exists(feedFile'[f])

Wrote(w, x) == \/ At(w, "entryWrite") /\ x = call[w].cur
               \/ At(w, "replaceWrite") /\ x = call[w].tomb

LEMMA StepFiles ==
    ASSUME TypeOK, NEW w \in Worker, Step(w)
    PROVE  /\ FilesGrow
           /\ \A s \in Slot :
                 /\ IsWhole(entryFile'[s]) =>
                       entryFile'[s] = entryFile[s] \/ Wrote(w, entryFile'[s].doc)
                 /\ Exists(entryFile'[s]) =>
                       \/ Exists(entryFile[s])
                       \/ call[w].at \in FeedStored /\ s[1] = FeedOf(w)
  <1> DEFINE Goal == /\ FilesGrow
                     /\ \A s \in Slot :
                          /\ IsWhole(entryFile'[s]) =>
                                \/ entryFile'[s] = entryFile[s]
                                \/ Wrote(w, entryFile'[s].doc)
                          /\ Exists(entryFile'[s]) =>
                                \/ Exists(entryFile[s])
                                \/ call[w].at \in FeedStored /\ s[1] = FeedOf(w)
  <1> USE CallFacts
  <1>1. ASSUME UNCHANGED files
        PROVE  Goal
    BY <1>1 DEF files, FilesGrow
  <1>2. CASE OpenFeed(w)
    BY <1>2, TornFacts DEF OpenFeed, TypeOK, FilesGrow
  <1>3. CASE StoreFeed(w)
    <2>1. Exists(feedFile'[call[w].via])
      BY <1>3, StoreFeedFile
    <2>2. QED
      BY <1>3, <2>1 DEF StoreFeed, TypeOK, FilesGrow
  <1>4. ASSUME NEW s \in Slot, s[1] = FeedOf(w), Truncate(w, s),
               UNCHANGED feedFile, call[w].at \in FeedStored
        PROVE  Goal
    BY <1>4, TruncateFacts DEF FilesGrow
  <1>5. ASSUME NEW d \in EntryDoc, Fill(w, d), Wrote(w, d), UNCHANGED feedFile
        PROVE  Goal
    <2>1. call[w].at \in FeedStored
      BY <1>5 DEF Wrote, At, FeedStored, Persisting
    <2>2. SlotOf(w, d.id)[1] = FeedOf(w)
      BY DEF SlotOf
    <2>3. QED
      BY <1>5, <2>1, <2>2, FillFacts DEF FilesGrow
  <1>6. \A e \in Entry : SlotOf(w, e)[1] = FeedOf(w)
    BY DEF SlotOf
  <1>7. ASSUME NEW x \in call[w].keep, OpenEntry(w, x)
        PROVE  Goal
    <2>1. x.id \in Entry
      BY DEF Call, EntryDoc
    <2>2. call[w].at \in FeedStored
      BY <1>7 DEF OpenEntry, AtEntryLoop, At, FeedStored, Persisting
    <2>3. QED
      BY <1>4, <1>6, <1>7, <2>1, <2>2 DEF OpenEntry
  <1>8. CASE StoreEntry(w)
    BY <1>5, <1>8 DEF StoreEntry, Wrote
  <1>9. CASE FailEntry(w)
    <2>1. CASE UNCHANGED <<entryFile, lastEntry>>
      BY <1>1, <1>9, <2>1 DEF FailEntry, files
    <2>2. CASE At(w, "entryWrite") /\ Fill(w, call[w].cur)
      BY <1>5, <1>9, <2>2 DEF FailEntry, Wrote
    <2>3. QED
      BY <1>9, <2>1, <2>2 DEF FailEntry
  <1>10. CASE OpenReplacement(w)
    <2>1. call[w].at \in FeedStored
      BY <1>10 DEF OpenReplacement, At, FeedStored, Persisting
    <2>2. QED
      BY <1>4, <1>6, <1>10, <2>1 DEF OpenReplacement
  <1>11. CASE StoreReplacement(w)
    BY <1>5, <1>11 DEF StoreReplacement, Wrote
  <1>12. CASE \/ \E d \in Incoming : \E a \in Adapters(d) : Receive(w, d, a)
              \/ \E x \in call[w].todo : CheckEntry(w, x)
              \/ ScreenEntry(w) \/ CheckFeed(w) \/ FailFeed(w) \/ Accept(w)
              \/ \E m \in call[w].targets : ReadTarget(w, m)
              \/ FailReplacement(w)
    BY <1>1, <1>12 DEF Receive, CheckEntry, ScreenEntry, CheckFeed, FailFeed,
                       Accept, ReadTarget, FailReplacement
  <1>13. QED
    BY <1>2, <1>3, <1>7, <1>8, <1>9, <1>10, <1>11, <1>12 DEF Step

\* The parts of the invariant about one call survive what others do.
LEMMA CallInvKept ==
    ASSUME TypeOK, NEW v \in Worker, CallInv(call[v]), FilesGrow,
           call'[v] = call[v]
    PROVE  CallInv(call[v])'
  <1>1. <<call[v].doc.feed, call[v].cur.id>> \in Slot /\ call[v].doc.feed \in Feed
    BY CallFacts DEF SlotOf, FeedOf
  <1>2. QED
    BY <1>1 DEF CallInv, ScreenedInv, KeptInv, WrittenInv, FeedFirstInv,
                CleanInv, FilesGrow

\* A step of a worker preserves the invariant of its own call.
LEMMA StepCallInv ==
    ASSUME TypeOK, NEW w \in Worker, CallInv(call[w]), Step(w), FilesGrow
    PROVE  CallInv(call[w])'
  <1> DEFINE c == call[w]
  <1> USE CallFacts, UpdateFacts
  <1>a. /\ ScreenedInv(c) /\ KeptInv(c) /\ WrittenInv(c) /\ FeedFirstInv(c)
        /\ CleanInv(c)
    BY DEF CallInv
  <1>1. ASSUME NEW how \in Result, End(w, how), how = "invalid" => ~c.dirty
        PROVE  CallInv(call[w])'
    <2>1. call'[w] = Ended(c, how)
      BY <1>1 DEF End
    <2>2. c \in Call /\ Ended(c, how) \in Call
      BY <1>1, EndedFacts
    <2>3. QED
      BY <1>1, <2>1, <2>2, EndedFacts DEF CallInv, ScreenedInv, KeptInv,
         WrittenInv, FeedFirstInv, CleanInv, Persisting
  <1>2. ASSUME NEW d \in Incoming, NEW a \in Adapters(d), Receive(w, d, a)
        PROVE  CallInv(call[w])'
    <2>0. PICK stored \in SUBSET Entry :
             call'[w] = IF d.header = "ok" THEN NewCall(d, a, stored)
                        ELSE Ended(NewCall(d, a, stored), "invalid")
      BY <1>2 DEF Receive
    <2> DEFINE n == NewCall(d, a, stored)
    <2>1. n \in Call
      BY NewCallFacts
    <2>2. /\ n.at = "check" /\ n.doc = d /\ n.via = a /\ n.keep = n.todo
          /\ n.result = "busy" /\ n.dirty = FALSE
      BY DEF NewCall
    <2>3. call'[w] = IF d.header = "ok" THEN n ELSE Ended(n, "invalid")
      BY <2>0
    <2>4. CASE d.header = "ok"
      <3>1. call'[w] = n
        BY <2>3, <2>4
      <3>2. ViaHome \/ a = d.feed
        BY DEF Adapters
      <3>3. /\ ScreenedInv(n)' /\ KeptInv(n)' /\ WrittenInv(n)' /\ CleanInv(n)'
        BY <2>2 DEF ScreenedInv, KeptInv, WrittenInv, CleanInv, Persisting
      <3>4. FeedFirstInv(n)'
        BY <2>2, <3>2 DEF FeedFirstInv, Persisting, FeedStored
      <3>5. QED
        BY <3>1, <3>3, <3>4 DEF CallInv
    <2>5. CASE d.header # "ok"
      BY <2>1, <2>2, <2>3, <2>5, EndedFacts DEF CallInv, ScreenedInv, KeptInv,
         WrittenInv, FeedFirstInv, CleanInv, Persisting, Result
    <2>6. QED
      BY <2>4, <2>5
  <1>3. ASSUME NEW x \in c.todo, CheckEntry(w, x)
        PROVE  CallInv(call[w])'
    <2>1. PICK mustVerify \in Outdated(entryFile[SlotOf(w, x.id)], x.updated) :
             IF mustVerify /\ ~Verified(x)
             THEN End(w, "invalid")
             ELSE Update(w, [c EXCEPT !.at = "screen", !.cur = x])
      BY <1>3 DEF CheckEntry
    <2>2. CASE mustVerify /\ ~Verified(x)
      BY <1>1, <1>3, <1>a, <2>1, <2>2 DEF CheckEntry, CleanInv, At, Result
    <2>3. CASE ~(mustVerify /\ ~Verified(x))
      <3>1. x \in EntryDoc /\ SlotOf(w, x.id) \in Slot
        BY DEF Call, EntryDoc
      <3>2. Verified(x) \/ Exists(entryFile[SlotOf(w, x.id)])
        BY <2>1, <2>3 DEF Outdated, Exists
      <3>3. UNCHANGED entryFile
        BY <1>3 DEF CheckEntry, files
      <3>4. call'[w] = [c EXCEPT !.at = "screen", !.cur = x]
        BY <2>1, <2>3
      <3>5. QED
        BY <1>3, <1>a, <3>1, <3>2, <3>3, <3>4 DEF CheckEntry, At, Call, CallInv,
           ScreenedInv, KeptInv, WrittenInv, FeedFirstInv, CleanInv, Persisting,
           FeedStored, SlotOf, FeedOf
    <2>4. QED
      BY <2>2, <2>3
  <1>4. CASE ScreenEntry(w)
    <2> DEFINE x == c.cur
               drop == IF Exists(entryFile[SlotOf(w, x.id)]) THEN {x} ELSE {}
    <2> DEFINE n(missed) == [c EXCEPT !.at = "check", !.todo = @ \ {x},
                                      !.keep = @ \ drop, !.missed = missed]
    <2>1. PICK missed : call'[w] = n(missed)
      <3>1. PICK missed : Update(w, n(missed))
        BY <1>4 DEF ScreenEntry
      <3> HIDE DEF n
      <3>2. QED
        BY <3>1, <1>a
    <2>2. Verified(x) \/ drop = {x}
      BY <1>4, <1>a DEF ScreenEntry, ScreenedInv, At, SlotOf, FeedOf
    <2>3. QED
      BY <1>4, <1>a, <2>1, <2>2 DEF ScreenEntry, At, Call, CallInv, ScreenedInv, KeptInv,
           WrittenInv, FeedFirstInv, CleanInv, Persisting, FeedStored
  <1>5. ASSUME NEW label \in FeedStored \cup {"feedOpen"}, Moved(c, call'[w], label),
               c.at \notin {"idle", "feedOpen", "feedWrite"} => UNCHANGED feedFile,
               c.at # "idle", c.at = "check" => c.todo = {}, c.at # "screen",
               label \notin {"entryWrite", "replaceOpen", "replaceWrite"},
               label \in FeedStored => \/ c.at \in FeedStored
                                       \/ c.via = c.doc.feed =>
                                             Exists(feedFile'[c.doc.feed])
        PROVE  CallInv(call[w])'
    <2>1. c.todo = {}
      BY <1>5, <1>a DEF KeptInv, Call, Label, Persisting
    <2>2. ~ViaHome /\ label \in FeedStored => Exists(feedFile'[c.doc.feed])
      BY <1>5, <1>a DEF FeedFirstInv, FilesGrow, FeedOf
    <2>3. QED
      BY <1>5, <1>a, <2>1, <2>2 DEF Moved, CallInv, ScreenedInv, KeptInv,
           WrittenInv, FeedFirstInv, CleanInv, Persisting, FeedStored
  <1>6. CASE CheckFeed(w)
    <2>1. c.at = "check" /\ c.todo = {} /\ UNCHANGED feedFile
      BY <1>6 DEF CheckFeed, At, files
    <2>2. CASE ~c.doc.signed
      BY <1>1, <1>6, <1>a, <2>1, <2>2 DEF CheckFeed, CleanInv, Result
    <2>3. CASE c.doc.signed
      <3>1. PICK outdated \in Outdated(feedFile[FeedOf(w)], c.doc.updated) :
               IF outdated
               THEN Update(w, [c EXCEPT !.at = "feedOpen", !.saw = feedFile[FeedOf(w)]])
               ELSE Goto(w, "entry")
        BY <1>6, <2>3 DEF CheckFeed
      <3>2. CASE outdated
        <4>1. Moved(c, call'[w], "feedOpen")
          BY <1>a, <3>1, <3>2, MovedFacts
        <4>2. QED
          BY <1>5, <2>1, <4>1 DEF FeedStored, Persisting
      <3>3. CASE ~outdated
        <4>1. Exists(feedFile[FeedOf(w)])
          BY <3>1, <3>3 DEF Outdated, Exists
        <4>2. Moved(c, call'[w], "entry")
          BY <1>a, <3>1, <3>3, MovedFacts
        <4>3. QED
          BY <1>5, <2>1, <4>1, <4>2 DEF FeedStored, Persisting, FeedOf
      <3>4. QED
        BY <3>1, <3>2, <3>3 DEF Outdated
    <2>4. QED
      BY <2>2, <2>3
  <1>7. CASE OpenFeed(w)
    <2>1. call'[w] = [c EXCEPT !.at = "feedWrite", !.dirty = TRUE]
      BY <1>7 DEF OpenFeed
    <2>2. QED
      BY <1>7, <1>a, <2>1 DEF OpenFeed, At, Call, CallInv, ScreenedInv, KeptInv,
           WrittenInv, FeedFirstInv, CleanInv, Persisting, FeedStored
  <1>8. CASE StoreFeed(w)
    <2>1. Exists(feedFile'[c.via])
      BY <1>8, StoreFeedFile
    <2>2. c.at = "feedWrite" /\ Update(w, [c EXCEPT !.at = "entry", !.saw = Absent])
      BY <1>8 DEF StoreFeed, At
    <2>3. Moved(c, call'[w], "entry")
      BY <1>a, <2>2, MovedFacts
    <2>4. QED
      BY <1>5, <2>1, <2>2, <2>3 DEF FeedStored, Persisting
  <1>9. CASE FailFeed(w) \/ FailEntry(w) \/ Accept(w)
    BY <1>1, <1>9 DEF FailFeed, FailEntry, Accept, Result
  <1>10. ASSUME NEW x \in c.keep, OpenEntry(w, x)
         PROVE  CallInv(call[w])'
    <2>1. c.at \in FeedStored
      BY <1>10 DEF OpenEntry, AtEntryLoop, At, FeedStored, Persisting
    <2>2. Verified(x)
      BY <1>10, <1>a, <2>1 DEF KeptInv, FeedStored
    <2>3. call'[w] = [c EXCEPT !.at = "entryWrite", !.cur = x,
                               !.keep = @ \ {x}, !.dirty = TRUE]
      BY <1>10 DEF OpenEntry
    <2>4. UNCHANGED feedFile
      BY <1>10 DEF OpenEntry
    <2>5. QED
      BY <1>a, <2>1, <2>2, <2>3, <2>4 DEF Call, CallInv, ScreenedInv, KeptInv,
           WrittenInv, FeedFirstInv, CleanInv, Persisting, FeedStored
  <1>11. CASE StoreEntry(w)
    <2>1. c.at = "entryWrite" /\ UNCHANGED feedFile
      BY <1>11 DEF StoreEntry, At
    <2>2. CASE c.cur.verb = "delete"
      <3>1. call'[w] = [c EXCEPT !.at = "mention", !.targets = c.cur.mentions]
        BY <1>11, <2>2 DEF StoreEntry
      <3>2. QED
        BY <1>a, <2>1, <3>1 DEF Call, CallInv, ScreenedInv, KeptInv,
           WrittenInv, FeedFirstInv, CleanInv, Persisting, FeedStored
    <2>3. CASE c.cur.verb # "delete"
      <3>1. Moved(c, call'[w], "entry")
        BY <1>11, <1>a, <2>3, MovedFacts DEF StoreEntry
      <3>2. QED
        BY <1>5, <2>1, <3>1 DEF FeedStored, Persisting
    <2>4. QED
      BY <2>2, <2>3
  <1>12. ASSUME NEW m \in c.targets, ReadTarget(w, m)
         PROVE  CallInv(call[w])'
    <2>1. c.at = "mention" /\ UNCHANGED feedFile
      BY <1>12 DEF ReadTarget, At, files
    <2>2. CASE TargetThrows(w, m)
      BY <1>1, <2>2 DEF TargetThrows, Result
    <2>3. CASE TargetMissing(w, m)
      <3>1. call'[w] = [c EXCEPT !.targets = @ \ {m}]
        BY <2>3 DEF TargetMissing
      <3>2. QED
        BY <1>a, <2>1, <3>1 DEF Call, CallInv, ScreenedInv, KeptInv,
           WrittenInv, FeedFirstInv, CleanInv, Persisting, FeedStored
    <2>4. CASE TargetFound(w, m)
      <3> DEFINE r == Replacement(entryFile[SlotOf(w, m)].doc, c.cur.id)
      <3>1. r.verb = "deleted"
        BY <2>4, FileDoc, ReplacementFacts DEF TargetFound, TypeOK
      <3>2. call'[w] = [c EXCEPT !.at = "replaceOpen", !.targets = @ \ {m},
                                 !.tomb = r]
        BY <2>4 DEF TargetFound
      <3>3. QED
        BY <1>a, <2>1, <3>1, <3>2 DEF Call, CallInv, ScreenedInv, KeptInv,
           WrittenInv, FeedFirstInv, CleanInv, Persisting, FeedStored
    <2>5. QED
      BY <1>12, <2>2, <2>3, <2>4 DEF ReadTarget
  <1>13. CASE OpenReplacement(w)
    <2>1. call'[w] = [c EXCEPT !.at = "replaceWrite", !.dirty = TRUE]
      BY <1>13 DEF OpenReplacement
    <2>2. QED
      BY <1>13, <1>a, <2>1 DEF OpenReplacement, At, Call, CallInv, ScreenedInv, KeptInv,
           WrittenInv, FeedFirstInv, CleanInv, Persisting, FeedStored
  <1>14. CASE StoreReplacement(w) \/ FailReplacement(w)
    <2>1. Moved(c, call'[w], "mention")
      BY <1>14, <1>a, MovedFacts DEF StoreReplacement, FailReplacement
    <2>2. QED
      BY <1>5, <1>14, <2>1 DEF StoreReplacement, FailReplacement, files, At,
         FeedStored, Persisting
  <1>15. QED
    BY <1>2, <1>3, <1>4, <1>6, <1>7, <1>8, <1>9, <1>10, <1>11, <1>12, <1>13,
       <1>14 DEF Step

\* The safety invariant is inductive.
LEMMA SafetyInit == Init => SafetyInv
  <1> SUFFICES ASSUME Init PROVE SafetyInv
    OBVIOUS
  <1> DEFINE n == NewCall(AnyDocument, AnyDocument.feed, {})
  <1>1. n \in Call /\ n.dirty = FALSE
    <2>1. AnyDocument.feed \in Adapters(AnyDocument)
      BY DEF Adapters
    <2>2. n \in Call
      BY <2>1, AnyFacts, NewCallFacts
    <2>3. QED
      BY <2>2 DEF NewCall
  <1>2. TypeOK
    <2>1. Ended(n, "none") \in Call
      BY <1>1, EndedFacts DEF Result
    <2>2. QED
      BY <2>1, AbsentFacts, BoundAssumption DEF Init, TypeOK
  <1>3. \A w \in Worker : CallInv(call[w])
    <2>1. \A w \in Worker : call[w] = Ended(n, "none")
      BY DEF Init
    <2>2. CallInv(Ended(n, "none"))
      BY <1>1, EndedFacts DEF CallInv, ScreenedInv, KeptInv, WrittenInv,
         FeedFirstInv, CleanInv, Persisting, Result
    <2>3. QED
      BY <2>1, <2>2
  <1>4. StoredIsVerified /\ EntryHasFeed
    BY AbsentFacts DEF Init, StoredIsVerified, EntryHasFeed
  <1>5. QED
    BY <1>2, <1>3, <1>4 DEF SafetyInv

LEMMA SafetyStep ==
    ASSUME SafetyInv, NEW w \in Worker, Step(w)
    PROVE  SafetyInv'
  <1> USE DEF SafetyInv
  <1>1. TypeOK'
    BY StepType
  <1>2. FilesGrow
    BY StepFiles
  <1>3. \A v \in Worker : CallInv(call[v])'
    <2>1. CallInv(call[w])'
      BY <1>2, StepCallInv
    <2>2. ASSUME NEW v \in Worker, v # w
          PROVE  CallInv(call[v])'
      BY <1>2, <2>2, StepUpdates, CallInvKept
    <2>3. QED
      BY <2>1, <2>2
  <1>4. StoredIsVerified'
    <2>1. \A x : Wrote(w, x) => Verified(x)
      BY DEF CallInv, WrittenInv, Wrote, At, Verified
    <2>2. QED
      BY <2>1, StepFiles DEF StoredIsVerified
  <1>5. ~ViaHome => EntryHasFeed'
    <2> SUFFICES ASSUME ~ViaHome, NEW s \in Slot, Exists(entryFile'[s])
                 PROVE  Exists(feedFile'[s[1]])
      BY DEF EntryHasFeed
    <2>1. s[1] \in Feed \cup {Home}
      BY DEF Slot
    <2>2. Exists(feedFile[s[1]])
      <3>1. CASE Exists(entryFile[s])
        BY <3>1 DEF EntryHasFeed
      <3>2. CASE call[w].at \in FeedStored /\ s[1] = FeedOf(w)
        BY <3>2 DEF CallInv, FeedFirstInv, FeedStored, Persisting, FeedOf
      <3>3. QED
        BY <3>1, <3>2, StepFiles
    <2>3. QED
      BY <1>2, <2>1, <2>2 DEF FilesGrow
  <1>6. QED
    BY <1>1, <1>3, <1>4, <1>5

LEMMA SafetyCrash ==
    ASSUME SafetyInv, Crash
    PROVE  SafetyInv'
  <1> USE DEF SafetyInv
  <1>1. TypeOK' /\ UNCHANGED files
    BY CrashType DEF Crash
  <1>2. \A w \in Worker : CallInv(call[w])'
    <2> SUFFICES ASSUME NEW w \in Worker PROVE CallInv(call[w])'
      OBVIOUS
    <2>1. call'[w] = Ended(call[w], "none") /\ call[w] \in Call
      BY CallFacts DEF Crash
    <2>2. QED
      BY <2>1, EndedFacts DEF CallInv, ScreenedInv, KeptInv, WrittenInv,
         FeedFirstInv, CleanInv, Persisting, Result
  <1>3. QED
    BY <1>1, <1>2 DEF files, StoredIsVerified, EntryHasFeed

LEMMA SafetyInductive == Spec => []SafetyInv
  <1>1. SafetyInv /\ [Next]_vars => SafetyInv'
    <2> SUFFICES ASSUME SafetyInv, [Next]_vars PROVE SafetyInv'
      OBVIOUS
    <2>1. CASE UNCHANGED vars
      BY <2>1 DEF vars, files, history, SafetyInv, TypeOK, CallInv, ScreenedInv,
                  KeptInv, WrittenInv, FeedFirstInv, CleanInv, StoredIsVerified,
                  EntryHasFeed
    <2>2. QED
      BY <2>1, SafetyStep, SafetyCrash DEF Next
  <1>2. QED
    BY SafetyInit, <1>1, PTL DEF Spec

\* Every variable keeps its type (TypeOK), whatever documents arrive.
THEOREM TypeCorrect == Spec => []TypeOK
  <1>1. SafetyInv => TypeOK
    BY DEF SafetyInv
  <1>2. QED
    BY <1>1, SafetyInductive, PTL

\* Every readable entry file holds an entry whose signature was verified or
\* that is marked "deleted" (TrsstAdapter.java:814-878), whatever other
\* threads, crashes and torn files do between the two reads that decide it.
THEOREM VerifiedSafe == Spec => []StoredIsVerified
  <1>1. SafetyInv => StoredIsVerified
    BY DEF SafetyInv
  <1>2. QED
    BY <1>1, SafetyInductive, PTL

\* A document that fails validation has changed no file
\* (TrsstAdapter.java:747, :899-906).
THEOREM InvalidSafe == Spec => []InvalidLeavesNothing
  <1>1. SafetyInv => InvalidLeavesNothing
    BY DEF SafetyInv, CallInv, CleanInv, InvalidLeavesNothing
  <1>2. QED
    BY <1>1, SafetyInductive, PTL

\* Unless an aggregate query ingests a feed in the home adapter, wherever
\* there is an entry file there is a feed file (TrsstAdapter.java:929-933),
\* after crashes and write errors too.
THEOREM FeedFirst ==
    ASSUME ~ViaHome
    PROVE  Spec => []EntryHasFeed
  <1>1. SafetyInv => EntryHasFeed
    BY DEF SafetyInv
  <1>2. QED
    BY <1>1, SafetyInductive, PTL

-----------------------------------------------------------------------------
(* One thread.  What a call leaves undone when another one runs between its  *)
(* reads and writes is for the runs to show; alone, and when no write fails, *)
(* it deletes what it has to.  `held` are the entries stored when the call   *)
(* began: none of them is written with its own content again.                *)

\* Where exactly a write and a truncation leave their mark.
LEMMA FillExact ==
    ASSUME TypeOK, NEW w \in Worker, NEW d \in EntryDoc, Fill(w, d),
           NEW s, s = SlotOf(w, d.id)
    PROVE  /\ s \in Slot
           /\ IsWhole(entryFile'[s]) =>
                 entryFile'[s].doc = d /\ lastEntry'[s] = entryFile'[s]
           /\ ~IsWhole(entryFile'[s]) => lastEntry'[s] = lastEntry[s]
           /\ Exists(entryFile'[s])
           /\ \A r \in Slot \ {s} : /\ entryFile'[r] = entryFile[r]
                                   /\ lastEntry'[r] = lastEntry[r]
  <1>1. d.id \in Entry /\ s \in Slot
    BY CallFacts DEF EntryDoc
  <1>2. PICK file \in Filled(entryFile[s], w, d) :
            /\ entryFile' = [entryFile EXCEPT ![s] = file]
            /\ lastEntry' = IF IsWhole(file)
                            THEN [lastEntry EXCEPT ![s] = file] ELSE lastEntry
    BY DEF Fill
  <1>3. Exists(file) /\ (IsWhole(file) => file.doc = d)
    BY DEF Filled, Whole, Torn, Exists, IsWhole
  <1>4. QED
    BY <1>1, <1>2, <1>3 DEF TypeOK

LEMMA TruncateExact ==
    ASSUME TypeOK, NEW w \in Worker, NEW s \in Slot, Truncate(w, s)
    PROVE  /\ entryFile'[s] = Torn(w)
           /\ ~IsWhole(entryFile'[s]) /\ Exists(entryFile'[s])
           /\ \A r \in Slot \ {s} : entryFile'[r] = entryFile[r]
  BY TornFacts DEF TypeOK, Truncate

\* An entry is stored in the file of its id.
OwnSlots == \A s \in Slot : IsWhole(entryFile[s]) => entryFile[s].doc.id = s[2]

\* What is held exists; what is not is still to be written when the entries
\* are screened, and what is on its way to the storage is new.
HeldInv(c) ==
    c.at # "idle" =>
        /\ \A e \in c.held : Exists(entryFile[<<c.doc.feed, e>>])
        /\ c.at \in {"check", "screen"} =>
              \A e \in Entry \ c.held : ~Exists(entryFile[<<c.doc.feed, e>>])
        /\ \A x \in c.keep : x \notin c.todo => x.id \notin c.held
        /\ c.at = "entryWrite" => c.cur.id \notin c.held
        /\ c.at \notin FeedStored =>
              \A x \in c.doc.entries : x.id \notin c.held => x \in c.keep

\* Mentions of the "delete" entry x that the loop has yet to come to.
Pending(c, x, m) ==
    /\ c.cur = x
    /\ \/ c.at = "entryWrite"
       \/ c.at = "mention" /\ m \in c.targets
       \/ c.at \in {"replaceOpen", "replaceWrite"} /\ (m \in c.targets \/ c.tomb.id = m)

\* The entries of a document that have to be deleted for x.
ToDelete(c, x) ==
    IF x.verb = "delete" /\ x.id \notin c.held THEN x.mentions \cap c.held ELSE {}

Gone(c, m) == ~Live(entryFile[<<c.doc.feed, m>>])

DoneInv(c) ==
    c.at \in FeedStored =>
        \A x \in c.doc.entries : \A m \in ToDelete(c, x) :
            x \in c.keep \/ Gone(c, m) \/ Pending(c, x, m)

DeletedInv(c) ==
    c.result = "accepted" =>
        \A x \in c.doc.entries : \A m \in ToDelete(c, x) : Gone(c, m)

LEMMA DeletedIsReplaced ==
    ASSUME TypeOK
    PROVE  DeleteReplacesHeld <=> \A w \in Worker : DeletedInv(call[w])
  BY DEF DeleteReplacesHeld, DeletedInv, ToDelete, Gone, SlotOf, FeedOf

LEMMA OwnSlotsStep ==
    ASSUME TypeOK, OwnSlots, NEW w \in Worker, Step(w)
    PROVE  OwnSlots'
  <1> USE CallFacts
  <1>1. ASSUME UNCHANGED entryFile PROVE OwnSlots'
    BY <1>1 DEF OwnSlots
  <1>2. ASSUME NEW s \in Slot, Truncate(w, s) PROVE OwnSlots'
    BY <1>2, TruncateExact DEF OwnSlots
  <1>3. ASSUME NEW d \in EntryDoc, Fill(w, d) PROVE OwnSlots'
    <2>1. SlotOf(w, d.id)[2] = d.id
      BY DEF SlotOf
    <2>2. QED
      BY <1>3, <2>1, FillExact DEF OwnSlots
  <1>4. ASSUME NEW x \in call[w].keep, OpenEntry(w, x) PROVE OwnSlots'
    <2>1. SlotOf(w, x.id) \in Slot
      BY DEF Call, EntryDoc
    <2>2. QED
      BY <1>2, <1>4, <2>1 DEF OpenEntry
  <1>5. CASE StoreEntry(w) \/ StoreReplacement(w)
    BY <1>3, <1>5 DEF StoreEntry, StoreReplacement
  <1>6. CASE FailEntry(w)
    BY <1>1, <1>3, <1>6 DEF FailEntry
  <1>7. CASE OpenReplacement(w)
    BY <1>2, <1>7 DEF OpenReplacement
  <1>8. QED
    BY <1>1, <1>4, <1>5, <1>6, <1>7 DEF Step, Receive, CheckEntry, ScreenEntry,
       CheckFeed, OpenFeed, StoreFeed, FailFeed, Accept, ReadTarget,
       FailReplacement, files

\* The call that begins holds what is stored.
LEMMA ReceivedCall ==
    ASSUME TypeOK, NEW w \in Worker, NEW d \in Incoming, NEW a \in Adapters(d),
           Receive(w, d, a)
    PROVE  /\ call'[w].doc = d /\ d \in FeedDoc
           /\ call'[w].held = {e \in Entry : Exists(entryFile[<<d.feed, e>>])}
           /\ call'[w].keep \in SUBSET EntryDoc
           /\ \/ call'[w].at = "idle" /\ call'[w].result = "invalid"
              \/ /\ call'[w].at = "check" /\ call'[w].result = "busy"
                 /\ call'[w].keep = d.entries /\ call'[w].todo = d.entries
           /\ UNCHANGED entryFile
  <1> DEFINE n == NewCall(d, a, {e \in Entry : Exists(entryFile[<<d.feed, e>>])})
  <1>1. call'[w] = IF d.header = "ok" THEN n ELSE Ended(n, "invalid")
    BY UpdateFacts DEF Receive
  <1>2. d \in FeedDoc /\ UNCHANGED entryFile
    BY IncomingAssumption DEF Receive, files
  <1>3. /\ n.doc = d /\ n.keep = d.entries /\ n.todo = d.entries
        /\ n.at = "check" /\ n.result = "busy"
        /\ n.held = {e \in Entry : Exists(entryFile[<<d.feed, e>>])}
    BY DEF NewCall
  <1>4. /\ Ended(n, "invalid").doc = d /\ Ended(n, "invalid").keep = {}
        /\ Ended(n, "invalid").at = "idle" /\ Ended(n, "invalid").result = "invalid"
        /\ Ended(n, "invalid").held = n.held
    BY DEF Ended, NewCall
  <1> HIDE DEF n
  <1>5. CASE d.header = "ok"
    BY <1>1, <1>2, <1>3, <1>5 DEF FeedDoc
  <1>6. CASE d.header # "ok"
    BY <1>1, <1>2, <1>3, <1>4, <1>6
  <1>7. QED
    BY <1>5, <1>6

\* A call that ends keeps its document and what it held.
LEMMA EndedCall ==
    ASSUME TypeOK, NEW w \in Worker, NEW how \in Result, End(w, how)
    PROVE  /\ call'[w].at = "idle" /\ call'[w].result = how
           /\ call'[w].doc = call[w].doc /\ call'[w].held = call[w].held
  <1>1. call'[w] = Ended(call[w], how)
    BY UpdateFacts DEF End
  <1>2. call[w] \in Call
    BY CallFacts
  <1>3. QED
    BY <1>1, <1>2 DEF Ended, Call

LEMMA HeldStep ==
    ASSUME SafetyInv, NEW w \in Worker, HeldInv(call[w]), Step(w)
    PROVE  HeldInv(call[w])'
  <1> DEFINE c == call[w]
             f == c.doc.feed
  <1> USE CallFacts, UpdateFacts
  <1>a. TypeOK /\ CallInv(c)
    BY DEF SafetyInv
  <1>b. c \in Call /\ f \in Feed /\ \A x \in EntryDoc : x.id \in Entry
    BY <1>a DEF FeedOf, EntryDoc
  <1>c. \A e \in Entry : Exists(entryFile[<<f, e>>]) => Exists(entryFile'[<<f, e>>])
    BY <1>a, <1>b, StepFiles DEF FilesGrow, Slot
  <1>d. c.at \in Persisting => c.todo = {}
    BY <1>a DEF CallInv, KeptInv
  <1>1. ASSUME call'[w].at = "idle" PROVE HeldInv(call[w])'
    BY <1>1 DEF HeldInv
  <1>2. ASSUME NEW how \in Result, End(w, how) PROVE HeldInv(call[w])'
    BY <1>1, <1>2, <1>a, EndedCall
  \* A step within the loop keeps what it needs to, if it shows the rest.
  <1>3. ASSUME c.at \in FeedStored, call'[w].at \in FeedStored,
               call'[w].doc = c.doc, call'[w].held = c.held,
               call'[w].keep \subseteq c.keep, call'[w].todo = c.todo,
               call'[w].at = "entryWrite" => call'[w].cur.id \notin c.held
        PROVE  HeldInv(call[w])'
    <2>1. c.at # "idle" /\ call'[w].at # "idle" /\ call'[w].at \notin {"check", "screen"}
      BY <1>3 DEF FeedStored, Persisting
    <2>2. c.held \subseteq Entry
      BY <1>b DEF Call
    <2>3. /\ \A e \in c.held : Exists(entryFile[<<f, e>>])
          /\ \A x \in c.keep : x \notin c.todo => x.id \notin c.held
      BY <2>1 DEF HeldInv
    <2>4. QED
      BY <1>3, <1>c, <2>1, <2>2, <2>3 DEF HeldInv
  \* A step before anything is written to an entry file.
  <1>4. ASSUME c.at \in {"check", "feedOpen", "feedWrite"},
               call'[w].at # "entryWrite", UNCHANGED entryFile,
               call'[w].doc = c.doc, call'[w].held = c.held,
               call'[w].keep = c.keep, call'[w].todo = c.todo,
               call'[w].at \in {"check", "screen"} => c.at = "check"
        PROVE  HeldInv(call[w])'
    BY <1>4 DEF HeldInv, FeedStored, Persisting
  <1>5. ASSUME NEW d \in Incoming, NEW a \in Adapters(d), Receive(w, d, a)
        PROVE  HeldInv(call[w])'
    <2>1. /\ call'[w].doc = d
          /\ call'[w].held = {e \in Entry : Exists(entryFile[<<d.feed, e>>])}
          /\ \/ call'[w].at = "idle"
             \/ /\ call'[w].at = "check"
                /\ call'[w].keep = d.entries /\ call'[w].todo = d.entries
          /\ UNCHANGED entryFile
      BY <1>5, <1>a, ReceivedCall
    <2>2. QED
      BY <2>1 DEF HeldInv
  <1>6. ASSUME NEW x \in c.todo, CheckEntry(w, x)
        PROVE  HeldInv(call[w])'
    <2>1. \/ End(w, "invalid")
          \/ Update(w, [c EXCEPT !.at = "screen", !.cur = x])
      BY <1>6 DEF CheckEntry
    <2>2. CASE End(w, "invalid")
      BY <1>2, <2>2 DEF Result
    <2>3. CASE Update(w, [c EXCEPT !.at = "screen", !.cur = x])
      <3>1. call'[w] = [c EXCEPT !.at = "screen", !.cur = x]
        BY <1>a, <2>3
      <3>2. c.at = "check" /\ UNCHANGED entryFile
        BY <1>6 DEF CheckEntry, At, files
      <3>3. QED
        BY <1>4, <1>b, <3>1, <3>2 DEF Call
    <2>4. QED
      BY <2>1, <2>2, <2>3
  <1>7. CASE ScreenEntry(w)
    <2> DEFINE x == c.cur
               drop == IF Exists(entryFile[SlotOf(w, x.id)]) THEN {x} ELSE {}
    <2> DEFINE n(missed) == [c EXCEPT !.at = "check", !.todo = @ \ {x},
                                      !.keep = @ \ drop, !.missed = missed]
    <2>1. PICK missed : call'[w] = n(missed)
      <3>1. PICK missed : Update(w, n(missed))
        BY <1>7 DEF ScreenEntry
      <3> HIDE DEF n
      <3>2. QED
        BY <3>1, <1>a
    <2>2. c.at = "screen" /\ UNCHANGED entryFile
      BY <1>7 DEF ScreenEntry, At, files
    <2>3. SlotOf(w, x.id) = <<f, x.id>> /\ x.id \in Entry /\ x \in EntryDoc
      BY <1>a DEF SlotOf, FeedOf
    <2>4. x.id \in c.held <=> Exists(entryFile[<<f, x.id>>])
      BY <2>2, <2>3 DEF HeldInv
    <2>5. drop # {} => x.id \in c.held /\ drop = {x}
      BY <2>3, <2>4
    <2>6. x \in c.keep \ drop => x.id \notin c.held
      BY <2>3, <2>4
    <2> HIDE DEF drop, x
    <2>7. /\ call'[w].at = "check" /\ call'[w].doc = c.doc /\ call'[w].held = c.held
          /\ call'[w].todo = c.todo \ {x} /\ call'[w].keep = c.keep \ drop
      BY <1>b, <2>1 DEF Call
    <2>8. /\ \A e \in c.held : Exists(entryFile[<<f, e>>])
          /\ \A e \in Entry \ c.held : ~Exists(entryFile[<<f, e>>])
          /\ \A y \in c.keep : y \notin c.todo => y.id \notin c.held
          /\ \A y \in c.doc.entries : y.id \notin c.held => y \in c.keep
      BY <2>2 DEF HeldInv, FeedStored, Persisting
    <2>9. \A y \in c.keep \ drop : y \notin c.todo \ {x} => y.id \notin c.held
      BY <2>6, <2>8
    <2>10. \A y \in c.doc.entries : y.id \notin c.held => y \in c.keep \ drop
      BY <2>5, <2>8
    <2>11. QED
      BY <2>2, <2>7, <2>8, <2>9, <2>10 DEF HeldInv
  <1>8. ASSUME NEW label \in {"feedOpen", "entry"},
               Goto(w, label) \/ \E s : Update(w, [c EXCEPT !.at = label, !.saw = s]),
               c.at \in {"check", "feedWrite"}, UNCHANGED entryFile
        PROVE  HeldInv(call[w])'
    <2>1. \/ call'[w] = [c EXCEPT !.at = label]
          \/ \E s : call'[w] = [c EXCEPT !.at = label, !.saw = s]
      BY <1>8, <1>a DEF Goto
    <2>2. QED
      BY <1>4, <1>8, <1>b, <2>1 DEF Call
  <1>9. CASE CheckFeed(w)
    <2>1. c.at = "check" /\ UNCHANGED entryFile
      BY <1>9 DEF CheckFeed, At, files
    <2>2. QED
      BY <1>2, <1>8, <1>9, <2>1, CheckFeedGoes DEF Result
  <1>10. CASE OpenFeed(w)
    <2>1. call'[w] = [c EXCEPT !.at = "feedWrite", !.dirty = TRUE]
      BY <1>10, <1>a DEF OpenFeed
    <2>2. c.at = "feedOpen" /\ UNCHANGED entryFile
      BY <1>10 DEF OpenFeed, At
    <2>3. QED
      BY <1>4, <1>b, <2>1, <2>2 DEF Call
  <1>11. CASE StoreFeed(w)
    BY <1>8, <1>11 DEF StoreFeed, At
  <1>12. CASE FailFeed(w) \/ FailEntry(w) \/ Accept(w)
    BY <1>2, <1>12 DEF FailFeed, FailEntry, Accept, Result
  <1>13. ASSUME NEW x \in c.keep, OpenEntry(w, x)
         PROVE  HeldInv(call[w])'
    <2>1. c.at \in FeedStored /\ c.at # "idle"
      BY <1>13 DEF OpenEntry, AtEntryLoop, At, FeedStored, Persisting
    <2>2. x.id \notin c.held
      BY <1>13, <1>d, <2>1 DEF HeldInv, FeedStored
    <2>3. call'[w] = [c EXCEPT !.at = "entryWrite", !.cur = x,
                               !.keep = @ \ {x}, !.dirty = TRUE]
      BY <1>13, <1>a DEF OpenEntry
    <2>4. /\ call'[w].at = "entryWrite" /\ call'[w].cur = x
          /\ call'[w].keep \subseteq c.keep /\ call'[w].todo = c.todo
          /\ call'[w].doc = c.doc /\ call'[w].held = c.held
      BY <1>b, <2>3 DEF Call
    <2>5. QED
      BY <1>3, <2>1, <2>2, <2>4 DEF FeedStored, Persisting
  <1>14. ASSUME c.at \in FeedStored, NEW label \in {"entry", "mention"}, Goto(w, label)
         PROVE  HeldInv(call[w])'
    <2>1. call'[w] = [c EXCEPT !.at = label]
      BY <1>14, <1>a DEF Goto
    <2>2. QED
      BY <1>3, <1>14, <1>b, <2>1 DEF Call, FeedStored, Persisting
  <1>15. CASE StoreEntry(w)
    <2>1. c.at \in FeedStored
      BY <1>15 DEF StoreEntry, At, FeedStored, Persisting
    <2>2. CASE c.cur.verb = "delete"
      <3>1. call'[w] = [c EXCEPT !.at = "mention", !.targets = c.cur.mentions]
        BY <1>15, <1>a, <2>2 DEF StoreEntry
      <3>2. QED
        BY <1>3, <1>b, <2>1, <3>1 DEF Call, FeedStored, Persisting
    <2>3. CASE c.cur.verb # "delete"
      BY <1>14, <1>15, <2>1, <2>3 DEF StoreEntry
    <2>4. QED
      BY <2>2, <2>3
  <1>16. ASSUME NEW m \in c.targets, ReadTarget(w, m)
         PROVE  HeldInv(call[w])'
    <2>1. c.at \in FeedStored /\ c.at = "mention"
      BY <1>16 DEF ReadTarget, At, FeedStored, Persisting
    <2>2. CASE TargetThrows(w, m)
      BY <1>2, <2>2 DEF TargetThrows, Result
    <2>3. CASE TargetMissing(w, m)
      <3>1. call'[w] = [c EXCEPT !.targets = @ \ {m}]
        BY <1>a, <2>3 DEF TargetMissing
      <3>2. QED
        BY <1>3, <1>b, <2>1, <3>1 DEF Call
    <2>4. CASE TargetFound(w, m)
      <3>1. PICK r : call'[w] = [c EXCEPT !.at = "replaceOpen", !.targets = @ \ {m},
                                          !.tomb = r]
        BY <1>a, <2>4 DEF TargetFound
      <3>2. QED
        BY <1>3, <1>b, <2>1, <3>1 DEF Call, FeedStored, Persisting
    <2>5. QED
      BY <1>16, <2>2, <2>3, <2>4 DEF ReadTarget
  <1>17. CASE OpenReplacement(w)
    <2>1. call'[w] = [c EXCEPT !.at = "replaceWrite", !.dirty = TRUE]
      BY <1>17, <1>a DEF OpenReplacement
    <2>2. c.at \in FeedStored
      BY <1>17 DEF OpenReplacement, At, FeedStored, Persisting
    <2>3. QED
      BY <1>3, <1>b, <2>1, <2>2 DEF Call, FeedStored, Persisting
  <1>18. CASE StoreReplacement(w) \/ FailReplacement(w)
    BY <1>14, <1>18 DEF StoreReplacement, FailReplacement, At, FeedStored, Persisting
  <1>19. QED
    BY <1>5, <1>6, <1>7, <1>9, <1>10, <1>11, <1>12, <1>13, <1>15, <1>16, <1>17,
       <1>18 DEF Step

\* No entry that a call holds comes to life while it runs, and those to be
\* deleted are, one after the other.
LEMMA DoneStep ==
    ASSUME SafetyInv, OwnSlots, ~StorageMayFail,
           NEW w \in Worker, HeldInv(call[w]), DoneInv(call[w]), Step(w)
    PROVE  DoneInv(call[w])'
  <1> DEFINE c == call[w]
             f == c.doc.feed
  <1> USE CallFacts, UpdateFacts
  <1>a. TypeOK /\ CallInv(c)
    BY DEF SafetyInv
  <1>b. c \in Call /\ f \in Feed /\ \A x \in EntryDoc : x.id \in Entry
    BY <1>a DEF FeedOf, EntryDoc
  <1>c. \A e \in Entry : SlotOf(w, e) = <<f, e>> /\ <<f, e>> \in Slot
    BY <1>b DEF SlotOf, FeedOf, Slot
  <1>d. \A x \in c.doc.entries : ToDelete(c, x) \subseteq Entry
    BY <1>b DEF ToDelete, Call
  <1>1. ASSUME call'[w].at \notin FeedStored PROVE DoneInv(call[w])'
    BY <1>1 DEF DoneInv
  <1>2. ASSUME NEW how \in Result, End(w, how) PROVE DoneInv(call[w])'
    BY <1>1, <1>2, <1>a, EndedCall DEF FeedStored, Persisting
  \* The loop begins with all that is new on its list.
  <1>3. ASSUME c.at \in {"check", "feedWrite"}, UNCHANGED entryFile,
               Goto(w, "entry") \/ \E s : Update(w, [c EXCEPT !.at = "entry", !.saw = s])
        PROVE  DoneInv(call[w])'
    <2>1. \/ call'[w] = [c EXCEPT !.at = "entry"]
          \/ \E s : call'[w] = [c EXCEPT !.at = "entry", !.saw = s]
      BY <1>3, <1>a DEF Goto
    <2>2. /\ call'[w].doc = c.doc /\ call'[w].held = c.held /\ call'[w].keep = c.keep
      BY <1>b, <2>1 DEF Call
    <2>3. \A x \in c.doc.entries : x.id \notin c.held => x \in c.keep
      BY <1>3 DEF HeldInv, FeedStored, Persisting
    <2>4. QED
      BY <2>2, <2>3 DEF DoneInv, ToDelete
  \* A step of the loop: what was gone stays so, what was pending is, or is gone.
  <1>4. ASSUME c.at \in FeedStored, call'[w].doc = c.doc, call'[w].held = c.held,
               NEW x \in c.doc.entries, NEW m \in ToDelete(c, x)
        PROVE  x \in c.keep \/ Gone(c, m) \/ Pending(c, x, m)
    BY <1>4 DEF DoneInv
  <1>5. ASSUME call'[w].doc = c.doc, call'[w].held = c.held,
               \A x \in c.doc.entries : \A m \in ToDelete(c, x) :
                  \/ x \in call'[w].keep
                  \/ ~Live(entryFile'[<<f, m>>])
                  \/ Pending(call'[w], x, m)
        PROVE  DoneInv(call[w])'
    BY <1>5 DEF DoneInv, ToDelete, Gone, Pending
  <1>6. ASSUME NEW s \in Slot, Truncate(w, s), NEW m \in Entry, Gone(c, m)
        PROVE  ~Live(entryFile'[<<f, m>>])
    BY <1>6, <1>a, <1>c, TruncateExact DEF Gone, Live
  <1>7. ASSUME NEW d \in EntryDoc, Fill(w, d), NEW m \in Entry, Gone(c, m),
               d.id # m \/ d.verb = "deleted"
        PROVE  ~Live(entryFile'[<<f, m>>])
    <2> DEFINE s == SlotOf(w, d.id)
    <2>1. /\ IsWhole(entryFile'[s]) => entryFile'[s].doc = d
          /\ \A r \in Slot \ {s} : entryFile'[r] = entryFile[r]
      BY <1>7, <1>a, FillExact
    <2>2. CASE d.id = m
      BY <1>7, <1>c, <2>1, <2>2 DEF Live
    <2>3. CASE d.id # m
      <3>1. <<f, m>> # s
        BY <2>3 DEF SlotOf
      <3>2. entryFile'[<<f, m>>] = entryFile[<<f, m>>]
        BY <1>c, <1>7, <2>1, <3>1
      <3>3. QED
        BY <1>7, <3>2 DEF Gone
    <2>4. QED
      BY <2>2, <2>3
  <1>8. ASSUME NEW d \in Incoming, NEW a \in Adapters(d), Receive(w, d, a)
        PROVE  DoneInv(call[w])'
    <2>1. call'[w].at = "idle" \/ call'[w].at = "check"
      BY <1>8, <1>a, ReceivedCall
    <2>2. QED
      BY <1>1, <2>1 DEF FeedStored, Persisting
  <1>9. ASSUME NEW x \in c.todo, CheckEntry(w, x)
        PROVE  DoneInv(call[w])'
    <2>1. \/ End(w, "invalid")
          \/ Update(w, [c EXCEPT !.at = "screen", !.cur = x])
      BY <1>9 DEF CheckEntry
    <2>2. CASE Update(w, [c EXCEPT !.at = "screen", !.cur = x])
      <3>1. call'[w] = [c EXCEPT !.at = "screen", !.cur = x]
        BY <1>a, <2>2
      <3>2. call'[w].at = "screen"
        BY <1>b, <3>1 DEF Call
      <3>3. QED
        BY <1>1, <3>2 DEF FeedStored, Persisting
    <2>3. QED
      BY <1>2, <2>1, <2>2 DEF Result
  <1>10. CASE ScreenEntry(w)
    <2>1. PICK drop, missed :
             Update(w, [c EXCEPT !.at = "check", !.todo = @ \ {c.cur},
                                 !.keep = @ \ drop, !.missed = missed])
      BY <1>10 DEF ScreenEntry
    <2> DEFINE n == [c EXCEPT !.at = "check", !.todo = @ \ {c.cur}, !.keep = @ \ drop,
                              !.missed = missed]
    <2>2. n.at = "check" /\ Update(w, n)
      BY <1>b, <2>1 DEF Call
    <2> HIDE DEF n
    <2>3. call'[w].at = "check"
      BY <1>a, <2>2
    <2>4. QED
      BY <1>1, <2>3 DEF FeedStored, Persisting
  <1>11. CASE CheckFeed(w)
    <2>1. c.at = "check" /\ UNCHANGED entryFile
      BY <1>11 DEF CheckFeed, At, files
    <2> DEFINE n == [c EXCEPT !.at = "feedOpen", !.saw = feedFile[FeedOf(w)]]
    <2>2. End(w, "invalid") \/ Update(w, n) \/ Goto(w, "entry")
      BY <1>11, CheckFeedGoes
    <2>3. n.at = "feedOpen"
      BY <1>b DEF Call
    <2> HIDE DEF n
    <2>4. CASE Update(w, n)
      <3>1. call'[w].at = "feedOpen"
        BY <1>a, <2>3, <2>4
      <3>2. QED
        BY <1>1, <3>1 DEF FeedStored, Persisting
    <2>5. QED
      BY <1>2, <1>3, <2>1, <2>2, <2>4 DEF Result
  <1>12. CASE OpenFeed(w)
    <2>1. call'[w].at = "feedWrite"
      BY <1>12, <1>a, <1>b DEF OpenFeed, Call
    <2>2. QED
      BY <1>1, <2>1 DEF FeedStored, Persisting
  <1>13. CASE StoreFeed(w)
    BY <1>3, <1>13 DEF StoreFeed, At
  <1>14. CASE FailFeed(w) \/ FailEntry(w) \/ Accept(w)
    BY <1>2, <1>14 DEF FailFeed, FailEntry, Accept, Result
  <1>15. ASSUME NEW y \in c.keep, OpenEntry(w, y)
         PROVE  DoneInv(call[w])'
    <2>1. c.at = "entry" \/ (c.at = "mention" /\ c.targets = {})
      BY <1>15 DEF OpenEntry, AtEntryLoop, At
    <2>2. call'[w] = [c EXCEPT !.at = "entryWrite", !.cur = y,
                               !.keep = @ \ {y}, !.dirty = TRUE]
      BY <1>15, <1>a DEF OpenEntry
    <2>3. /\ call'[w].at = "entryWrite" /\ call'[w].cur = y
          /\ call'[w].keep = c.keep \ {y}
          /\ call'[w].doc = c.doc /\ call'[w].held = c.held
      BY <1>b, <2>2 DEF Call
    <2>4. SlotOf(w, y.id) \in Slot /\ Truncate(w, SlotOf(w, y.id))
      BY <1>15, <1>b, <1>c DEF OpenEntry, Call
    <2>5. ASSUME NEW x \in c.doc.entries, NEW m \in ToDelete(c, x)
          PROVE  \/ x \in call'[w].keep
                 \/ ~Live(entryFile'[<<f, m>>])
                 \/ Pending(call'[w], x, m)
      <3>1. x \in c.keep \/ Gone(c, m)
        BY <1>4, <2>1, <2>3 DEF Pending, FeedStored, Persisting
      <3>2. CASE x = y
        BY <2>3, <3>2 DEF Pending
      <3>3. CASE x # y /\ x \in c.keep
        BY <2>3, <3>3
      <3>4. CASE Gone(c, m)
        BY <1>6, <1>d, <2>4, <3>4
      <3>5. QED
        BY <3>1, <3>2, <3>3, <3>4
    <2>6. QED
      BY <1>5, <2>3, <2>5
  <1>16. CASE StoreEntry(w)
    <2>1. c.at = "entryWrite" /\ Fill(w, c.cur) /\ c.at \in FeedStored
      BY <1>16 DEF StoreEntry, At, FeedStored, Persisting
    <2>2. c.cur.id \notin c.held
      BY <2>1 DEF HeldInv
    <2>3. /\ call'[w].doc = c.doc /\ call'[w].held = c.held
          /\ call'[w].keep = c.keep /\ call'[w].cur = c.cur
          /\ c.cur.verb = "delete" =>
                call'[w].at = "mention" /\ call'[w].targets = c.cur.mentions
      <3>1. CASE c.cur.verb = "delete"
        <4>1. call'[w] = [c EXCEPT !.at = "mention", !.targets = c.cur.mentions]
          BY <1>16, <1>a, <3>1 DEF StoreEntry
        <4>2. QED
          BY <1>b, <4>1 DEF Call
      <3>2. CASE c.cur.verb # "delete"
        <4>1. call'[w] = [c EXCEPT !.at = "entry"]
          BY <1>16, <1>a, <3>2 DEF StoreEntry, Goto
        <4>2. QED
          BY <1>b, <3>2, <4>1 DEF Call
      <3>3. QED
        BY <3>1, <3>2
    <2>4. ASSUME NEW x \in c.doc.entries, NEW m \in ToDelete(c, x)
          PROVE  \/ x \in call'[w].keep
                 \/ ~Live(entryFile'[<<f, m>>])
                 \/ Pending(call'[w], x, m)
      <3>1. m \in c.held /\ m \in x.mentions /\ x.verb = "delete" /\ m \in Entry
        BY <1>d, <2>4 DEF ToDelete
      <3>2. x \in c.keep \/ Gone(c, m) \/ x = c.cur
        BY <1>4, <2>1, <2>3 DEF Pending
      <3>3. CASE Gone(c, m)
        BY <1>7, <1>a, <2>1, <2>2, <3>1, <3>3
      <3>4. CASE x = c.cur
        BY <2>3, <3>1, <3>4 DEF Pending
      <3>5. QED
        BY <2>3, <3>2, <3>3, <3>4
    <2>5. QED
      BY <1>5, <2>3, <2>4
  <1>17. ASSUME NEW t \in c.targets, ReadTarget(w, t)
         PROVE  DoneInv(call[w])'
    <2>1. c.at = "mention" /\ c.at \in FeedStored /\ UNCHANGED entryFile
      BY <1>17 DEF ReadTarget, At, FeedStored, Persisting, files
    <2>2. CASE TargetThrows(w, t)
      BY <1>2, <2>2 DEF TargetThrows, Result
    <2>3. CASE TargetMissing(w, t)
      <3>1. call'[w] = [c EXCEPT !.targets = @ \ {t}]
        BY <1>a, <2>3 DEF TargetMissing
      <3>2. /\ call'[w].doc = c.doc /\ call'[w].held = c.held /\ call'[w].keep = c.keep
            /\ call'[w].cur = c.cur /\ call'[w].at = "mention"
            /\ call'[w].targets = c.targets \ {t}
        BY <1>b, <2>1, <3>1 DEF Call
      <3>3. t \in Entry /\ Gone(c, t)
        BY <1>c, <2>3 DEF TargetMissing, Gone, Live
      <3>4. ASSUME NEW x \in c.doc.entries, NEW m \in ToDelete(c, x)
            PROVE  \/ x \in call'[w].keep
                   \/ ~Live(entryFile'[<<f, m>>])
                   \/ Pending(call'[w], x, m)
        <4>1. x \in c.keep \/ Gone(c, m) \/ (c.cur = x /\ m \in c.targets)
          BY <1>4, <2>1, <3>2 DEF Pending
        <4>2. QED
          BY <2>1, <3>2, <3>3, <4>1 DEF Pending, Gone
      <3>5. QED
        BY <1>5, <3>2, <3>4
    <2>4. CASE TargetFound(w, t)
      <3> DEFINE r == Replacement(entryFile[SlotOf(w, t)].doc, c.cur.id)
      <3>1. t \in Entry /\ IsWhole(entryFile[<<f, t>>]) /\ <<f, t>> \in Slot
        BY <1>c, <2>4 DEF TargetFound
      <3>2. r.id = t
        <4>1. entryFile[<<f, t>>].doc.id = t
          BY <3>1 DEF OwnSlots
        <4>2. entryFile[<<f, t>>].doc \in EntryDoc
          BY <1>a, <3>1, FileDoc DEF TypeOK
        <4>3. SlotOf(w, t) = <<f, t>> /\ c.cur.id \in Entry
          BY <1>a, <1>c, <3>1
        <4>4. Replacement(entryFile[<<f, t>>].doc, c.cur.id).id = t
          BY <4>1, <4>2, <4>3, ReplacementFacts
        <4>5. QED
          BY <4>3, <4>4
      <3>3. call'[w] = [c EXCEPT !.at = "replaceOpen", !.targets = @ \ {t},
                                 !.tomb = r]
        BY <1>a, <2>4 DEF TargetFound
      <3> HIDE DEF r
      <3>4. /\ call'[w].doc = c.doc /\ call'[w].held = c.held /\ call'[w].keep = c.keep
            /\ call'[w].cur = c.cur /\ call'[w].at = "replaceOpen"
            /\ call'[w].targets = c.targets \ {t} /\ call'[w].tomb.id = t
        BY <1>b, <3>2, <3>3 DEF Call
      <3>5. ASSUME NEW x \in c.doc.entries, NEW m \in ToDelete(c, x)
            PROVE  \/ x \in call'[w].keep
                   \/ ~Live(entryFile'[<<f, m>>])
                   \/ Pending(call'[w], x, m)
        <4>1. x \in c.keep \/ Gone(c, m) \/ (c.cur = x /\ m \in c.targets)
          BY <1>4, <2>1, <3>4 DEF Pending
        <4>2. QED
          BY <2>1, <3>4, <4>1 DEF Pending, Gone
      <3>6. QED
        BY <1>5, <3>4, <3>5
    <2>5. QED
      BY <1>17, <2>2, <2>3, <2>4 DEF ReadTarget
  <1>18. CASE OpenReplacement(w)
    <2>1. /\ c.at = "replaceOpen" /\ c.at \in FeedStored
          /\ SlotOf(w, c.tomb.id) \in Slot /\ Truncate(w, SlotOf(w, c.tomb.id))
      BY <1>18, <1>a DEF OpenReplacement, At, FeedStored, Persisting
    <2>2. call'[w] = [c EXCEPT !.at = "replaceWrite", !.dirty = TRUE]
      BY <1>18, <1>a DEF OpenReplacement
    <2>3. /\ call'[w].doc = c.doc /\ call'[w].held = c.held /\ call'[w].keep = c.keep
          /\ call'[w].cur = c.cur /\ call'[w].at = "replaceWrite"
          /\ call'[w].targets = c.targets /\ call'[w].tomb = c.tomb
      BY <1>b, <2>2 DEF Call
    <2>4. ASSUME NEW x \in c.doc.entries, NEW m \in ToDelete(c, x)
          PROVE  \/ x \in call'[w].keep
                 \/ ~Live(entryFile'[<<f, m>>])
                 \/ Pending(call'[w], x, m)
      <3>1. \/ x \in c.keep \/ Gone(c, m)
            \/ c.cur = x /\ (m \in c.targets \/ c.tomb.id = m)
        BY <1>4, <2>1, <2>3 DEF Pending
      <3>2. CASE Gone(c, m)
        BY <1>6, <1>d, <2>1, <3>2
      <3>3. CASE c.cur = x /\ (m \in c.targets \/ c.tomb.id = m)
        BY <2>3, <3>3 DEF Pending
      <3>4. QED
        BY <2>3, <3>1, <3>2, <3>3
    <2>5. QED
      BY <1>5, <2>3, <2>4
  <1>19. CASE StoreReplacement(w)
    <2>1. /\ c.at = "replaceWrite" /\ c.at \in FeedStored /\ Fill(w, c.tomb)
      BY <1>19 DEF StoreReplacement, At, FeedStored, Persisting
    <2>2. c.tomb.verb = "deleted"
      BY <1>a, <2>1 DEF CallInv, WrittenInv
    <2>3. call'[w] = [c EXCEPT !.at = "mention"]
      BY <1>19, <1>a DEF StoreReplacement, Goto
    <2>4. /\ call'[w].doc = c.doc /\ call'[w].held = c.held /\ call'[w].keep = c.keep
          /\ call'[w].cur = c.cur /\ call'[w].at = "mention"
          /\ call'[w].targets = c.targets
      BY <1>b, <2>3 DEF Call
    <2>5. ASSUME NEW x \in c.doc.entries, NEW m \in ToDelete(c, x)
          PROVE  \/ x \in call'[w].keep
                 \/ ~Live(entryFile'[<<f, m>>])
                 \/ Pending(call'[w], x, m)
      <3>1. \/ x \in c.keep \/ Gone(c, m)
            \/ c.cur = x /\ (m \in c.targets \/ c.tomb.id = m)
        BY <1>4, <2>1, <2>4 DEF Pending
      <3>2. m \in Entry /\ c.tomb \in EntryDoc
        BY <1>a, <1>d
      <3>3. CASE Gone(c, m)
        BY <1>7, <2>1, <2>2, <3>2, <3>3
      <3>4. CASE c.cur = x /\ m \in c.targets
        BY <2>4, <3>4 DEF Pending
      <3>5. CASE c.tomb.id = m
        <4>1. IsWhole(entryFile'[<<f, m>>]) => entryFile'[<<f, m>>].doc = c.tomb
          BY <1>a, <1>c, <2>1, <3>2, <3>5, FillExact
        <4>2. QED
          BY <2>2, <4>1 DEF Live
      <3>6. QED
        BY <2>4, <3>1, <3>3, <3>4, <3>5
    <2>6. QED
      BY <1>5, <2>4, <2>5
  <1>20. ~FailReplacement(w)
    BY DEF FailReplacement
  <1>21. QED
    BY <1>8, <1>9, <1>10, <1>11, <1>12, <1>13, <1>14, <1>15, <1>16, <1>17, <1>18,
       <1>19, <1>20 DEF Step

\* What has just been accepted has deleted what it had to.
LEMMA DeletedStep ==
    ASSUME SafetyInv, NEW w \in Worker, DoneInv(call[w]), DeletedInv(call[w]), Step(w)
    PROVE  DeletedInv(call[w])'
  <1> DEFINE c == call[w]
  <1> USE CallFacts, UpdateFacts
  <1>a. TypeOK /\ CleanInv(c) /\ c \in Call
    BY DEF SafetyInv, CallInv
  <1>1. ASSUME call'[w].result # "accepted" PROVE DeletedInv(call[w])'
    BY <1>1 DEF DeletedInv
  <1>2. ASSUME End(w, "invalid") \/ End(w, "failed") PROVE DeletedInv(call[w])'
    BY <1>1, <1>2, <1>a, EndedCall DEF Result
  <1>3. ASSUME NEW d \in Incoming, NEW a \in Adapters(d), Receive(w, d, a)
        PROVE  DeletedInv(call[w])'
    <2>1. call'[w].result \in {"invalid", "busy"}
      BY <1>3, <1>a, ReceivedCall
    <2>2. QED
      BY <1>1, <2>1
  <1>4. CASE Accept(w)
    <2>1. /\ c.keep = {} /\ UNCHANGED entryFile /\ c.at \in FeedStored
          /\ c.at \notin {"entryWrite", "replaceOpen", "replaceWrite"}
          /\ c.at = "mention" => c.targets = {}
      BY <1>4 DEF Accept, AtEntryLoop, At, files, FeedStored, Persisting
    <2>2. call'[w].doc = c.doc /\ call'[w].held = c.held
      BY <1>4, <1>a, EndedCall DEF Accept, Result
    <2>3. \A x \in c.doc.entries : \A m \in ToDelete(c, x) : Gone(c, m)
      BY <2>1 DEF DoneInv, Pending
    <2>4. QED
      BY <2>1, <2>2, <2>3 DEF DeletedInv, ToDelete, Gone
  \* Any other step is one of a call that is under way, and goes on.
  <1>5. ASSUME c.at # "idle", NEW n, Update(w, n), n.result = c.result
        PROVE  DeletedInv(call[w])'
    BY <1>1, <1>5, <1>a DEF CleanInv
  <1>6. ASSUME c.at # "idle", NEW label, Goto(w, label) PROVE DeletedInv(call[w])'
    <2>1. [c EXCEPT !.at = label].result = c.result
      BY <1>a DEF Call
    <2>2. QED
      BY <1>5, <1>6, <2>1 DEF Goto
  <1>7. ASSUME NEW x \in c.todo, CheckEntry(w, x) PROVE DeletedInv(call[w])'
    <2>1. [c EXCEPT !.at = "screen", !.cur = x].result = c.result
      BY <1>a DEF Call
    <2>2. QED
      BY <1>2, <1>5, <1>7, <2>1 DEF CheckEntry, At
  <1>8. CASE ScreenEntry(w)
    <2>1. PICK drop, missed :
             Update(w, [c EXCEPT !.at = "check", !.todo = @ \ {c.cur},
                                 !.keep = @ \ drop, !.missed = missed])
      BY <1>8 DEF ScreenEntry
    <2>2. [c EXCEPT !.at = "check", !.todo = @ \ {c.cur}, !.keep = @ \ drop,
                    !.missed = missed].result = c.result
      BY <1>a DEF Call
    <2>3. QED
      BY <1>5, <1>8, <2>1, <2>2 DEF ScreenEntry, At
  <1>9. CASE CheckFeed(w)
    <2>1. \A s : [c EXCEPT !.at = "feedOpen", !.saw = s].result = c.result
      BY <1>a DEF Call
    <2>2. QED
      BY <1>2, <1>5, <1>6, <1>9, <2>1, CheckFeedGoes DEF CheckFeed, At
  <1>10. CASE OpenFeed(w)
    <2>1. [c EXCEPT !.at = "feedWrite", !.dirty = TRUE].result = c.result
      BY <1>a DEF Call
    <2>2. QED
      BY <1>5, <1>10, <2>1 DEF OpenFeed, At
  <1>11. CASE StoreFeed(w) \/ StoreReplacement(w) \/ FailReplacement(w)
    <2>1. [c EXCEPT !.at = "entry", !.saw = Absent].result = c.result
      BY <1>a DEF Call
    <2>2. QED
      BY <1>5, <1>6, <1>11, <2>1 DEF StoreFeed, StoreReplacement, FailReplacement, At
  <1>12. CASE FailFeed(w) \/ FailEntry(w)
    BY <1>2, <1>12 DEF FailFeed, FailEntry
  <1>13. ASSUME NEW x \in c.keep, OpenEntry(w, x) PROVE DeletedInv(call[w])'
    <2>1. [c EXCEPT !.at = "entryWrite", !.cur = x,
                    !.keep = @ \ {x}, !.dirty = TRUE].result = c.result
      BY <1>a DEF Call
    <2>2. QED
      BY <1>5, <1>13, <2>1 DEF OpenEntry, AtEntryLoop, At
  <1>14. CASE StoreEntry(w)
    <2>1. [c EXCEPT !.at = "mention", !.targets = c.cur.mentions].result = c.result
      BY <1>a DEF Call
    <2>2. QED
      BY <1>5, <1>6, <1>14, <2>1 DEF StoreEntry, At
  <1>15. ASSUME NEW m \in c.targets, ReadTarget(w, m) PROVE DeletedInv(call[w])'
    <2>1. CASE TargetThrows(w, m)
      BY <1>2, <2>1 DEF TargetThrows
    <2>2. CASE TargetMissing(w, m)
      <3>1. [c EXCEPT !.targets = @ \ {m}].result = c.result
        BY <1>a DEF Call
      <3>2. QED
        BY <1>5, <1>15, <2>2, <3>1 DEF ReadTarget, TargetMissing, At
    <2>3. CASE TargetFound(w, m)
      <3>1. PICK r : Update(w, [c EXCEPT !.at = "replaceOpen", !.targets = @ \ {m},
                                         !.tomb = r])
        BY <2>3 DEF TargetFound
      <3>2. [c EXCEPT !.at = "replaceOpen", !.targets = @ \ {m},
                      !.tomb = r].result = c.result
        BY <1>a DEF Call
      <3>3. QED
        BY <1>5, <1>15, <3>1, <3>2 DEF ReadTarget, At
    <2>4. QED
      BY <1>15, <2>1, <2>2, <2>3 DEF ReadTarget
  <1>16. CASE OpenReplacement(w)
    <2>1. [c EXCEPT !.at = "replaceWrite", !.dirty = TRUE].result = c.result
      BY <1>a DEF Call
    <2>2. QED
      BY <1>5, <1>16, <2>1 DEF OpenReplacement, At
  <1>17. QED
    BY <1>3, <1>4, <1>7, <1>8, <1>9, <1>10, <1>11, <1>12, <1>13, <1>14, <1>15,
       <1>16 DEF Step

OneThreadInv == /\ SafetyInv /\ OwnSlots
                /\ \A w \in Worker : /\ HeldInv(call[w]) /\ DoneInv(call[w])
                                    /\ DeletedInv(call[w])

\* With one thread and no failing writes, an accepted document has deleted the
\* entries it had to, whatever was stored before it and whatever crashes have
\* left behind (TrsstAdapter.java:870-878, :943-972).
THEOREM DeleteReplacesHeldAlone ==
    ASSUME NEW w, Worker = {w}, ~StorageMayFail
    PROVE  Spec => []DeleteReplacesHeld
  <1>1. Init => OneThreadInv
    <2> SUFFICES ASSUME Init PROVE OneThreadInv
      OBVIOUS
    <2> DEFINE n == NewCall(AnyDocument, AnyDocument.feed, {})
    <2>1. call[w] = Ended(n, "none")
      BY DEF Init
    <2>2. call[w].at = "idle" /\ call[w].result = "none"
      BY <2>1 DEF Ended, NewCall
    <2>3. OwnSlots
      BY AbsentFacts DEF Init, OwnSlots
    <2>4. QED
      BY <2>2, <2>3, SafetyInit DEF OneThreadInv, HeldInv, DoneInv, DeletedInv,
         FeedStored, Persisting
  <1>2. OneThreadInv /\ [Next]_vars => OneThreadInv'
    <2> SUFFICES ASSUME OneThreadInv, [Next]_vars PROVE OneThreadInv'
      OBVIOUS
    <2>0. /\ SafetyInv /\ TypeOK /\ OwnSlots
          /\ HeldInv(call[w]) /\ DoneInv(call[w]) /\ DeletedInv(call[w])
      BY DEF OneThreadInv, SafetyInv
    <2>1. CASE Step(w)
      <3>1. SafetyInv' /\ OwnSlots'
        BY <2>0, <2>1, SafetyStep, OwnSlotsStep
      <3>2. HeldInv(call[w])' /\ DoneInv(call[w])' /\ DeletedInv(call[w])'
        BY <2>0, <2>1, HeldStep, DoneStep, DeletedStep
      <3>3. QED
        BY <3>1, <3>2 DEF OneThreadInv
    <2>2. CASE Crash
      <3>1. SafetyInv' /\ UNCHANGED entryFile
        BY <2>0, <2>2, SafetyCrash DEF Crash, files
      <3>2. call'[w] = Ended(call[w], "none") /\ call[w] \in Call
        BY <2>0, <2>2, CallFacts DEF Crash
      <3>3. call'[w].at = "idle" /\ call'[w].result = "none"
        BY <3>2, EndedFacts DEF Result
      <3>4. QED
        BY <2>0, <3>1, <3>3 DEF OneThreadInv, HeldInv, DoneInv, DeletedInv,
           FeedStored, Persisting, OwnSlots
    <2>3. CASE UNCHANGED vars
      BY <2>3 DEF OneThreadInv, vars, files, history, SafetyInv, TypeOK, CallInv,
         ScreenedInv, KeptInv, WrittenInv, FeedFirstInv, CleanInv, StoredIsVerified,
         EntryHasFeed, OwnSlots, HeldInv, DoneInv, DeletedInv, ToDelete, Gone, Pending
    <2>4. QED
      BY <2>1, <2>2, <2>3 DEF Next
  <1>3. OneThreadInv => DeleteReplacesHeld
    BY DeletedIsReplaced DEF OneThreadInv, SafetyInv
  <1>4. QED
    BY <1>1, <1>2, <1>3, PTL DEF Spec

-----------------------------------------------------------------------------
(* Still one thread: stored entries keep their content.  Writes may fail.    *)

\* Entries of a document have distinct ids, as an Atom feed requires.
DistinctIds ==
    \A d \in Incoming : \A x, y \in d.entries : x.id = y.id => x = y

\* A file that was whole once is never absent, and a whole one is the last.
LastShown ==
    \A s \in Slot : /\ IsWhole(entryFile[s]) => lastEntry[s] = entryFile[s]
                    /\ IsWhole(lastEntry[s]) => Exists(entryFile[s])

Unwritten(c, x) == ~IsWhole(lastEntry[<<c.doc.feed, x.id>>])

\* What is on its way to a file is either new there or a replacement of what
\* was there, with its date.
WritesNew(c) ==
    c.at = "entryWrite" => /\ c.cur \in c.doc.entries /\ c.cur \notin c.keep
                           /\ Unwritten(c, c.cur)

ReplacesOld(c) ==
    c.at \in {"replaceOpen", "replaceWrite"} =>
        /\ IsWhole(lastEntry[<<c.doc.feed, c.tomb.id>>])
        /\ c.tomb.updated = lastEntry[<<c.doc.feed, c.tomb.id>>].doc.updated

NewInv(c) ==
    c.at # "idle" =>
        /\ c.doc \in Incoming
        /\ c.keep \subseteq c.doc.entries
        /\ \A x \in c.keep : x \notin c.todo => Unwritten(c, x)
        /\ WritesNew(c)
        /\ ReplacesOld(c)

LEMMA LastShownStep ==
    ASSUME TypeOK, LastShown, NEW w \in Worker, Step(w)
    PROVE  LastShown'
  <1> USE CallFacts
  <1>1. ASSUME UNCHANGED <<entryFile, lastEntry>> PROVE LastShown'
    BY <1>1 DEF LastShown
  <1>2. ASSUME NEW s \in Slot, Truncate(w, s), UNCHANGED lastEntry
        PROVE  LastShown'
    BY <1>2, TruncateExact DEF LastShown
  <1>3. ASSUME NEW d \in EntryDoc, Fill(w, d) PROVE LastShown'
    BY <1>3, FillExact DEF LastShown
  <1>4. ASSUME NEW x \in call[w].keep, OpenEntry(w, x) PROVE LastShown'
    <2>1. SlotOf(w, x.id) \in Slot
      BY DEF Call, EntryDoc
    <2>2. QED
      BY <1>2, <1>4, <2>1 DEF OpenEntry, history
  <1>5. CASE StoreEntry(w) \/ StoreReplacement(w)
    BY <1>3, <1>5 DEF StoreEntry, StoreReplacement
  <1>6. CASE FailEntry(w)
    BY <1>1, <1>3, <1>6 DEF FailEntry
  <1>7. CASE OpenReplacement(w)
    BY <1>2, <1>7 DEF OpenReplacement, history
  <1>8. QED
    BY <1>1, <1>4, <1>5, <1>6, <1>7 DEF Step, Receive, CheckEntry, ScreenEntry,
       CheckFeed, OpenFeed, StoreFeed, FailFeed, Accept, ReadTarget,
       FailReplacement, files, history

LEMMA NewStep ==
    ASSUME SafetyInv, OwnSlots, LastShown, DistinctIds, NEW w \in Worker,
           NewInv(call[w]), Step(w)
    PROVE  NewInv(call[w])'
  <1> DEFINE c == call[w]
             f == c.doc.feed
  <1> USE CallFacts, UpdateFacts
  <1>a. TypeOK /\ KeptInv(c)
    BY DEF SafetyInv, CallInv
  <1>b. c \in Call /\ f \in Feed /\ \A x \in EntryDoc : x.id \in Entry
    BY <1>a DEF FeedOf, EntryDoc
  <1>c. \A e \in Entry : <<f, e>> \in Slot /\ SlotOf(w, e) = <<f, e>>
    BY <1>b DEF Slot, SlotOf, FeedOf
  <1>d. c.keep \subseteq EntryDoc /\ c.doc.entries \subseteq EntryDoc
    BY <1>b DEF Call, FeedDoc
  <1>1. ASSUME call'[w].at = "idle" PROVE NewInv(call[w])'
    BY <1>1 DEF NewInv
  <1>2. ASSUME NEW how \in Result, End(w, how) PROVE NewInv(call[w])'
    BY <1>1, <1>2, <1>a, EndedCall
  \* Steps that write nothing and leave the list as it is, or shorten it.
  <1>3. ASSUME c.at # "idle", UNCHANGED lastEntry, call'[w].doc = c.doc,
               call'[w].keep \subseteq c.keep,
               \A x \in call'[w].keep : x \notin call'[w].todo => Unwritten(c, x),
               WritesNew(call'[w]), ReplacesOld(call'[w])
        PROVE  NewInv(call[w])'
    BY <1>3 DEF NewInv, Unwritten, WritesNew, ReplacesOld
  <1>4. ASSUME c.at # "idle", UNCHANGED lastEntry, call'[w].doc = c.doc,
               call'[w].keep = c.keep, call'[w].todo = c.todo,
               call'[w].at \notin {"entryWrite", "replaceOpen", "replaceWrite"}
        PROVE  NewInv(call[w])'
    <2>1. WritesNew(call'[w]) /\ ReplacesOld(call'[w])
      BY <1>4 DEF WritesNew, ReplacesOld
    <2>2. \A x \in c.keep : x \notin c.todo => Unwritten(c, x)
      BY <1>4 DEF NewInv
    <2>3. QED
      BY <1>3, <1>4, <2>1, <2>2
  <1>5. ASSUME c.at # "idle", UNCHANGED lastEntry,
               NEW label \in {"feedOpen", "entry", "mention"},
               Goto(w, label) \/ \E s : Update(w, [c EXCEPT !.at = label, !.saw = s])
        PROVE  NewInv(call[w])'
    <2>1. \/ call'[w] = [c EXCEPT !.at = label]
          \/ \E s : call'[w] = [c EXCEPT !.at = label, !.saw = s]
      BY <1>5, <1>a DEF Goto
    <2>2. QED
      BY <1>4, <1>5, <1>b, <2>1 DEF Call
  <1>6. ASSUME NEW d \in Incoming, NEW a \in Adapters(d), Receive(w, d, a)
        PROVE  NewInv(call[w])'
    <2>1. /\ call'[w].doc = d
          /\ \/ call'[w].at = "idle"
             \/ /\ call'[w].at = "check"
                /\ call'[w].keep = d.entries /\ call'[w].todo = d.entries
      BY <1>6, <1>a, ReceivedCall
    <2>2. QED
      BY <1>1, <2>1 DEF NewInv, WritesNew, ReplacesOld
  <1>7. ASSUME NEW x \in c.todo, CheckEntry(w, x)
        PROVE  NewInv(call[w])'
    <2>1. \/ End(w, "invalid")
          \/ Update(w, [c EXCEPT !.at = "screen", !.cur = x])
      BY <1>7 DEF CheckEntry
    <2>2. CASE Update(w, [c EXCEPT !.at = "screen", !.cur = x])
      <3>1. call'[w] = [c EXCEPT !.at = "screen", !.cur = x]
        BY <1>a, <2>2
      <3>2. c.at = "check" /\ UNCHANGED lastEntry
        BY <1>7 DEF CheckEntry, At, history
      <3>3. QED
        BY <1>4, <1>b, <3>1, <3>2 DEF Call
    <2>3. QED
      BY <1>2, <2>1, <2>2 DEF Result
  <1>8. CASE ScreenEntry(w)
    <2> DEFINE x == c.cur
               drop == IF Exists(entryFile[SlotOf(w, x.id)]) THEN {x} ELSE {}
    <2> DEFINE n(missed) == [c EXCEPT !.at = "check", !.todo = @ \ {x},
                                      !.keep = @ \ drop, !.missed = missed]
    <2>1. PICK missed : call'[w] = n(missed)
      <3>1. PICK missed : Update(w, n(missed))
        BY <1>8 DEF ScreenEntry
      <3> HIDE DEF n
      <3>2. QED
        BY <3>1, <1>a
    <2>2. c.at = "screen" /\ UNCHANGED lastEntry
      BY <1>8 DEF ScreenEntry, At, history
    <2>3. SlotOf(w, x.id) = <<f, x.id>> /\ <<f, x.id>> \in Slot
      BY <1>a, <1>c
    <2>4. x \notin drop => Unwritten(c, x)
      BY <2>3 DEF LastShown, Unwritten
    <2> HIDE DEF drop, x
    <2>5. /\ call'[w].at = "check" /\ call'[w].doc = c.doc
          /\ call'[w].todo = c.todo \ {x} /\ call'[w].keep = c.keep \ drop
      BY <1>b, <2>1 DEF Call
    <2>6. \A y \in c.keep : y \notin c.todo => Unwritten(c, y)
      BY <2>2 DEF NewInv
    <2>7. WritesNew(call'[w]) /\ ReplacesOld(call'[w])
      BY <2>5 DEF WritesNew, ReplacesOld
    <2>8. QED
      BY <1>3, <2>2, <2>4, <2>5, <2>6, <2>7
  <1>9. CASE CheckFeed(w)
    <2>1. c.at # "idle" /\ UNCHANGED lastEntry
      BY <1>9 DEF CheckFeed, At, history
    <2>2. QED
      BY <1>2, <1>5, <1>9, <2>1, CheckFeedGoes DEF Result
  <1>10. CASE OpenFeed(w)
    <2>1. call'[w] = [c EXCEPT !.at = "feedWrite", !.dirty = TRUE]
      BY <1>10, <1>a DEF OpenFeed
    <2>2. c.at = "feedOpen" /\ UNCHANGED lastEntry
      BY <1>10 DEF OpenFeed, At, history
    <2>3. QED
      BY <1>4, <1>b, <2>1, <2>2 DEF Call
  <1>11. CASE StoreFeed(w) \/ FailReplacement(w)
    BY <1>5, <1>11 DEF StoreFeed, FailReplacement, At, history
  <1>12. CASE FailFeed(w) \/ FailEntry(w) \/ Accept(w)
    BY <1>2, <1>12 DEF FailFeed, FailEntry, Accept, Result
  <1>13. ASSUME NEW x \in c.keep, OpenEntry(w, x)
         PROVE  NewInv(call[w])'
    <2>1. c.at \in Persisting /\ c.at # "idle" /\ UNCHANGED lastEntry
      BY <1>13 DEF OpenEntry, AtEntryLoop, At, Persisting, history
    <2>2. /\ \A y \in c.keep : Unwritten(c, y)
          /\ c.keep \subseteq c.doc.entries
      BY <1>a, <2>1 DEF NewInv, KeptInv
    <2>3. call'[w] = [c EXCEPT !.at = "entryWrite", !.cur = x,
                               !.keep = @ \ {x}, !.dirty = TRUE]
      BY <1>13, <1>a DEF OpenEntry
    <2>4. /\ call'[w].at = "entryWrite" /\ call'[w].cur = x
          /\ call'[w].keep = c.keep \ {x} /\ call'[w].doc = c.doc
      BY <1>b, <2>3 DEF Call
    <2>5. WritesNew(call'[w]) /\ ReplacesOld(call'[w])
      BY <1>13, <2>2, <2>4 DEF WritesNew, ReplacesOld, Unwritten
    <2>6. QED
      BY <1>3, <2>1, <2>2, <2>4, <2>5
  \* The entry just written is not that of any entry still on the list.
  <1>14. CASE StoreEntry(w)
    <2>1. c.at = "entryWrite" /\ Fill(w, c.cur) /\ c.at \in Persisting
      BY <1>14 DEF StoreEntry, At, Persisting
    <2>2. /\ call'[w].doc = c.doc /\ call'[w].keep = c.keep
          /\ call'[w].at \in {"entry", "mention"}
      <3>1. CASE c.cur.verb = "delete"
        <4>1. call'[w] = [c EXCEPT !.at = "mention", !.targets = c.cur.mentions]
          BY <1>14, <1>a, <3>1 DEF StoreEntry
        <4>2. QED
          BY <1>b, <4>1 DEF Call
      <3>2. CASE c.cur.verb # "delete"
        <4>1. call'[w] = [c EXCEPT !.at = "entry"]
          BY <1>14, <1>a, <3>2 DEF StoreEntry, Goto
        <4>2. QED
          BY <1>b, <4>1 DEF Call
      <3>3. QED
        BY <3>1, <3>2
    <2>3. /\ c.doc \in Incoming /\ c.keep \subseteq c.doc.entries
          /\ \A y \in c.keep : Unwritten(c, y)
          /\ c.cur \in c.doc.entries /\ c.cur \notin c.keep
      BY <1>a, <2>1 DEF NewInv, KeptInv, WritesNew
    <2>4. ASSUME NEW y \in c.keep PROVE ~IsWhole(lastEntry'[<<f, y.id>>])
      <3>1. y.id # c.cur.id /\ y.id \in Entry
        BY <1>b, <1>d, <2>3 DEF DistinctIds
      <3>2. <<f, y.id>> # SlotOf(w, c.cur.id) /\ <<f, y.id>> \in Slot
        BY <1>c, <3>1 DEF SlotOf
      <3>3. lastEntry'[<<f, y.id>>] = lastEntry[<<f, y.id>>]
        BY <1>a, <2>1, <3>2, FillExact
      <3>4. QED
        BY <2>3, <3>3 DEF Unwritten
    <2>5. QED
      BY <2>2, <2>3, <2>4 DEF NewInv, Unwritten, WritesNew, ReplacesOld
  <1>15. ASSUME NEW t \in c.targets, ReadTarget(w, t)
         PROVE  NewInv(call[w])'
    <2>1. c.at = "mention" /\ UNCHANGED lastEntry
      BY <1>15 DEF ReadTarget, At, history
    <2>2. CASE TargetThrows(w, t)
      BY <1>2, <2>2 DEF TargetThrows, Result
    <2>3. CASE TargetMissing(w, t)
      <3>1. call'[w] = [c EXCEPT !.targets = @ \ {t}]
        BY <1>a, <2>3 DEF TargetMissing
      <3>2. QED
        BY <1>4, <1>b, <2>1, <3>1 DEF Call
    <2>4. CASE TargetFound(w, t)
      <3> DEFINE old == entryFile[<<f, t>>].doc
                 r == Replacement(old, c.cur.id)
      <3>1. t \in Entry /\ IsWhole(entryFile[<<f, t>>]) /\ <<f, t>> \in Slot
        BY <1>c, <2>4 DEF TargetFound
      <3>2. old.id = t /\ old \in EntryDoc /\ lastEntry[<<f, t>>] = entryFile[<<f, t>>]
        BY <1>a, <3>1, FileDoc DEF OwnSlots, LastShown, TypeOK
      <3>3. r.id = t /\ r.updated = old.updated
        BY <3>2 DEF Replacement, EntryDoc
      <3>4. call'[w] = [c EXCEPT !.at = "replaceOpen", !.targets = @ \ {t},
                                 !.tomb = r]
        BY <1>a, <1>c, <2>4, <3>1 DEF TargetFound
      <3>5. /\ call'[w].doc = c.doc /\ call'[w].keep = c.keep
            /\ call'[w].todo = c.todo /\ call'[w].at = "replaceOpen"
            /\ call'[w].tomb = r
        BY <1>b, <3>4 DEF Call
      <3>6. WritesNew(call'[w]) /\ ReplacesOld(call'[w])
        BY <3>1, <3>2, <3>3, <3>5 DEF WritesNew, ReplacesOld
      <3> HIDE DEF r
      <3>7. \A x \in c.keep : x \notin c.todo => Unwritten(c, x)
        BY <2>1 DEF NewInv
      <3>8. QED
        BY <1>3, <2>1, <3>5, <3>6, <3>7
    <2>5. QED
      BY <1>15, <2>2, <2>3, <2>4 DEF ReadTarget
  <1>16. CASE OpenReplacement(w)
    <2>1. c.at = "replaceOpen" /\ UNCHANGED lastEntry
      BY <1>16 DEF OpenReplacement, At, history
    <2>2. call'[w] = [c EXCEPT !.at = "replaceWrite", !.dirty = TRUE]
      BY <1>16, <1>a DEF OpenReplacement
    <2>3. /\ call'[w].doc = c.doc /\ call'[w].keep = c.keep
          /\ call'[w].todo = c.todo /\ call'[w].tomb = c.tomb
          /\ call'[w].at = "replaceWrite"
      BY <1>b, <2>2 DEF Call
    <2>4. WritesNew(call'[w]) /\ ReplacesOld(call'[w])
      BY <2>1, <2>3 DEF NewInv, WritesNew, ReplacesOld
    <2>5. \A x \in c.keep : x \notin c.todo => Unwritten(c, x)
      BY <2>1 DEF NewInv
    <2>6. QED
      BY <1>3, <2>1, <2>3, <2>4, <2>5
  \* What is replaced was stored before, and so is not on the list.
  <1>17. CASE StoreReplacement(w)
    <2>1. c.at = "replaceWrite" /\ Fill(w, c.tomb) /\ c.at \in Persisting
      BY <1>17 DEF StoreReplacement, At, Persisting
    <2>2. call'[w] = [c EXCEPT !.at = "mention"]
      BY <1>17, <1>a DEF StoreReplacement, Goto
    <2>3. /\ call'[w].doc = c.doc /\ call'[w].keep = c.keep
          /\ call'[w].at = "mention"
      BY <1>b, <2>2 DEF Call
    <2>4. /\ c.doc \in Incoming /\ c.keep \subseteq c.doc.entries
          /\ \A y \in c.keep : Unwritten(c, y)
          /\ IsWhole(lastEntry[<<f, c.tomb.id>>])
      BY <1>a, <2>1 DEF NewInv, KeptInv, ReplacesOld
    <2>5. ASSUME NEW y \in c.keep PROVE ~IsWhole(lastEntry'[<<f, y.id>>])
      <3>1. y.id # c.tomb.id /\ y.id \in Entry
        BY <1>b, <1>d, <2>4 DEF Unwritten
      <3>2. <<f, y.id>> # SlotOf(w, c.tomb.id) /\ <<f, y.id>> \in Slot
        BY <1>c, <3>1 DEF SlotOf
      <3>3. lastEntry'[<<f, y.id>>] = lastEntry[<<f, y.id>>]
        BY <1>a, <2>1, <3>2, FillExact
      <3>4. QED
        BY <2>4, <3>3 DEF Unwritten
    <2>6. QED
      BY <2>3, <2>4, <2>5 DEF NewInv, Unwritten, WritesNew, ReplacesOld
  <1>18. QED
    BY <1>6, <1>7, <1>8, <1>9, <1>10, <1>11, <1>12, <1>13, <1>14, <1>15, <1>16,
       <1>17 DEF Step

\* The only change of an entry that was whole is its replacement.
LEMMA ImmutableStep ==
    ASSUME SafetyInv, LastShown, NEW w \in Worker, NewInv(call[w]), Step(w),
           NEW s \in Slot, lastEntry[s] # lastEntry'[s], IsWhole(lastEntry[s])
    PROVE  /\ lastEntry'[s].doc.verb = "deleted"
           /\ lastEntry'[s].doc.updated = lastEntry[s].doc.updated
  <1> DEFINE c == call[w]
  <1> USE CallFacts
  <1>a. TypeOK /\ WrittenInv(c)
    BY DEF SafetyInv, CallInv
  <1>1. \/ StoreEntry(w) \/ FailEntry(w) \/ StoreReplacement(w)
    BY DEF Step, Receive, CheckEntry, ScreenEntry, CheckFeed, OpenFeed, StoreFeed,
           FailFeed, OpenEntry, Accept, ReadTarget, OpenReplacement,
           FailReplacement, history
  <1>2. ~(c.at = "entryWrite" /\ Fill(w, c.cur))
    <2> SUFFICES ASSUME c.at = "entryWrite", Fill(w, c.cur) PROVE FALSE
      OBVIOUS
    <2>1. ~IsWhole(lastEntry[SlotOf(w, c.cur.id)])
      BY DEF NewInv, WritesNew, Unwritten, SlotOf, FeedOf
    <2>2. QED
      BY <1>a, <2>1, FillExact
  <1>3. StoreReplacement(w)
    BY <1>1, <1>2 DEF StoreEntry, FailEntry, At
  <1>4. c.at = "replaceWrite" /\ Fill(w, c.tomb)
    BY <1>3 DEF StoreReplacement, At
  <1>5. /\ s = SlotOf(w, c.tomb.id)
        /\ lastEntry'[s].doc = c.tomb
    BY <1>a, <1>4, FillExact
  <1>6. c.tomb.verb = "deleted" /\ c.tomb.updated = lastEntry[s].doc.updated
    BY <1>a, <1>4, <1>5 DEF WrittenInv, NewInv, ReplacesOld, SlotOf, FeedOf
  <1>7. QED
    BY <1>5, <1>6

ImmutableInv == /\ SafetyInv /\ OwnSlots /\ LastShown
                /\ \A w \in Worker : NewInv(call[w])

\* With one thread, the content of a stored entry never changes but by its
\* deletion, and deletion is for ever: whatever documents arrive again, changed
\* or newer, whatever writes fail, whatever crashes leave torn
\* (TrsstAdapter.java:870-878, :1426-1463).
THEOREM OriginalsImmutableAlone ==
    ASSUME NEW w, Worker = {w}, DistinctIds
    PROVE  Spec => OriginalsImmutable
  <1>1. Init => ImmutableInv
    <2> SUFFICES ASSUME Init PROVE ImmutableInv
      OBVIOUS
    <2> DEFINE n == NewCall(AnyDocument, AnyDocument.feed, {})
    <2>1. call[w] = Ended(n, "none")
      BY DEF Init
    <2>2. call[w].at = "idle"
      BY <2>1 DEF Ended, NewCall
    <2>3. OwnSlots /\ LastShown
      BY AbsentFacts DEF Init, OwnSlots, LastShown
    <2>4. QED
      BY <2>2, <2>3, SafetyInit DEF ImmutableInv, NewInv
  <1>2. ImmutableInv /\ [Next]_vars => ImmutableInv'
    <2> SUFFICES ASSUME ImmutableInv, [Next]_vars PROVE ImmutableInv'
      OBVIOUS
    <2>0. SafetyInv /\ TypeOK /\ OwnSlots /\ LastShown /\ NewInv(call[w])
      BY DEF ImmutableInv, SafetyInv
    <2>1. CASE Step(w)
      <3>1. SafetyInv' /\ OwnSlots' /\ LastShown'
        BY <2>0, <2>1, SafetyStep, OwnSlotsStep, LastShownStep
      <3>2. NewInv(call[w])'
        BY <2>0, <2>1, NewStep
      <3>3. QED
        BY <3>1, <3>2 DEF ImmutableInv
    <2>2. CASE Crash
      <3>1. SafetyInv' /\ UNCHANGED <<entryFile, lastEntry>>
        BY <2>0, <2>2, SafetyCrash DEF Crash, files, history
      <3>2. call'[w] = Ended(call[w], "none") /\ call[w] \in Call
        BY <2>0, <2>2, CallFacts DEF Crash
      <3>3. call'[w].at = "idle"
        BY <3>2, EndedFacts DEF Result
      <3>4. QED
        BY <2>0, <3>1, <3>3 DEF ImmutableInv, NewInv, OwnSlots, LastShown
    <2>3. CASE UNCHANGED vars
      BY <2>3 DEF ImmutableInv, vars, files, history, SafetyInv, TypeOK, CallInv,
         ScreenedInv, KeptInv, WrittenInv, FeedFirstInv, CleanInv, StoredIsVerified,
         EntryHasFeed, OwnSlots, LastShown, NewInv, WritesNew, ReplacesOld, Unwritten
    <2>4. QED
      BY <2>1, <2>2, <2>3 DEF Next
  <1> DEFINE Kept == \A s \in Slot :
                  lastEntry[s] # lastEntry'[s] /\ IsWhole(lastEntry[s])
                    => /\ lastEntry'[s].doc.verb = "deleted"
                       /\ lastEntry'[s].doc.updated = lastEntry[s].doc.updated
  <1>3. ImmutableInv /\ [Next]_vars => [Kept]_vars
    <2> SUFFICES ASSUME ImmutableInv, Next PROVE Kept
      OBVIOUS
    <2>1. CASE Step(w)
      BY <2>1, ImmutableStep DEF ImmutableInv
    <2>2. CASE Crash
      BY <2>2 DEF Crash, history
    <2>3. QED
      BY <2>1, <2>2 DEF Next
  <1>4. QED
    BY <1>1, <1>2, <1>3, PTL DEF Spec, OriginalsImmutable

-----------------------------------------------------------------------------
(* Still one thread: the feed element is never replaced by an older one.     *)

Writing(w, f) == At(w, "feedWrite") /\ call[w].via = f

OwnAdapter(c) == c.at # "idle" => c.via \in {c.doc.feed, Home}

\* Until a crash: unless it is being written, the feed file holds what was last
\* written to it, and what is about to be written is newer.
FeedInv(w) ==
    crashes = 0 =>
        \A f \in Feed :
            /\ feedFile[f] = IF Writing(w, f) THEN Torn(w) ELSE lastFeed[f]
            /\ lastFeed[f].kind # "torn"
            /\ call[w].at \in {"feedOpen", "feedWrite"} /\ call[w].via = f
                 /\ IsWhole(lastFeed[f])
               => call[w].doc.updated > lastFeed[f].doc.updated

LEMMA FeedStep ==
    ASSUME TypeOK, ~StorageMayFail, NEW w \in Worker, OwnAdapter(call[w]),
           FeedInv(w), Step(w)
    PROVE  OwnAdapter(call[w])' /\ FeedInv(w)'
  <1> DEFINE c == call[w]
  <1> USE CallFacts, UpdateFacts
  <1>b. c \in Call
    OBVIOUS
  \* Steps that have nothing to do with the feed file.
  <1>1. ASSUME UNCHANGED <<feedFile, lastFeed, crashes>>, c.at # "feedWrite",
               call'[w].at \notin {"feedOpen", "feedWrite"},
               OwnAdapter(call'[w])
        PROVE  OwnAdapter(call[w])' /\ FeedInv(w)'
    BY <1>1 DEF OwnAdapter, FeedInv, Writing, At
  <1>2. ASSUME NEW n, Update(w, n), c.at # "idle", n.via = c.via, n.doc = c.doc,
               UNCHANGED <<feedFile, lastFeed, crashes>>, c.at # "feedWrite",
               n.at \notin {"feedOpen", "feedWrite"}
        PROVE  OwnAdapter(call[w])' /\ FeedInv(w)'
    BY <1>1, <1>2 DEF OwnAdapter
  <1>3. ASSUME NEW how \in Result, End(w, how), c.at # "feedWrite",
               UNCHANGED <<feedFile, lastFeed, crashes>>
        PROVE  OwnAdapter(call[w])' /\ FeedInv(w)'
    BY <1>1, <1>3, EndedCall DEF OwnAdapter
  <1>4. ASSUME NEW label \in {"entry", "mention"}, Goto(w, label), c.at # "idle",
               UNCHANGED <<feedFile, lastFeed, crashes>>, c.at # "feedWrite"
        PROVE  OwnAdapter(call[w])' /\ FeedInv(w)'
    <2>1. /\ [c EXCEPT !.at = label].at = label
          /\ [c EXCEPT !.at = label].via = c.via
          /\ [c EXCEPT !.at = label].doc = c.doc
      BY <1>b DEF Call
    <2>2. QED
      BY <1>2, <1>4, <2>1 DEF Goto
  <1>5. ASSUME NEW d \in Incoming, NEW a \in Adapters(d), Receive(w, d, a)
        PROVE  OwnAdapter(call[w])' /\ FeedInv(w)'
    <2>1. /\ call'[w].doc = d
          /\ call'[w].at \in {"idle", "check"}
      BY <1>5, ReceivedCall
    <2>2. call'[w].via = a
      <3> DEFINE n == NewCall(d, a, {e \in Entry : Exists(entryFile[<<d.feed, e>>])})
      <3>1. n.via = a /\ Ended(n, "invalid").via = a
        BY DEF NewCall, Ended
      <3>2. call'[w] = IF d.header = "ok" THEN n ELSE Ended(n, "invalid")
        BY <1>5 DEF Receive
      <3> HIDE DEF n
      <3>3. QED
        BY <3>1, <3>2
    <2>3. a \in {d.feed, Home}
      BY DEF Adapters
    <2>4. c.at # "feedWrite" /\ UNCHANGED <<feedFile, lastFeed, crashes>>
      BY <1>5 DEF Receive, At, files, history
    <2>5. QED
      BY <1>1, <2>1, <2>2, <2>3, <2>4 DEF OwnAdapter
  <1>6. ASSUME NEW x \in c.todo, CheckEntry(w, x)
        PROVE  OwnAdapter(call[w])' /\ FeedInv(w)'
    <2> DEFINE n == [c EXCEPT !.at = "screen", !.cur = x]
    <2>1. n.at = "screen" /\ n.via = c.via /\ n.doc = c.doc
      BY <1>b DEF Call
    <2>2. c.at = "check" /\ UNCHANGED <<feedFile, lastFeed, crashes>>
      BY <1>6 DEF CheckEntry, At, files, history
    <2>3. End(w, "invalid") \/ Update(w, n)
      BY <1>6 DEF CheckEntry
    <2> HIDE DEF n
    <2>4. QED
      BY <1>2, <1>3, <2>1, <2>2, <2>3 DEF Result
  <1>7. CASE ScreenEntry(w)
    <2>1. PICK drop, missed :
             Update(w, [c EXCEPT !.at = "check", !.todo = @ \ {c.cur},
                                 !.keep = @ \ drop, !.missed = missed])
      BY <1>7 DEF ScreenEntry
    <2> DEFINE n == [c EXCEPT !.at = "check", !.todo = @ \ {c.cur},
                              !.keep = @ \ drop, !.missed = missed]
    <2>2. n.at = "check" /\ n.via = c.via /\ n.doc = c.doc
      BY <1>b DEF Call
    <2>3. c.at = "screen" /\ UNCHANGED <<feedFile, lastFeed, crashes>>
      BY <1>7 DEF ScreenEntry, At, files, history
    <2> HIDE DEF n
    <2>4. QED
      BY <1>2, <2>1, <2>2, <2>3 DEF n
  \* The feed is to be written only if the stored one is older.
  <1>8. CASE CheckFeed(w)
    <2>1. c.at = "check" /\ UNCHANGED <<feedFile, lastFeed, crashes>>
      BY <1>8 DEF CheckFeed, At, files, history
    <2> DEFINE file == feedFile[c.doc.feed]
               older == IsWhole(file) => c.doc.updated > file.doc.updated
               opened == Update(w, [c EXCEPT !.at = "feedOpen", !.saw = file])
    <2>2. CASE opened /\ older
      <3>1. call'[w] = [c EXCEPT !.at = "feedOpen", !.saw = file]
        BY <2>2
      <3>2. call'[w].at = "feedOpen" /\ call'[w].via = c.via /\ call'[w].doc = c.doc
        BY <1>b, <3>1 DEF Call
      <3>3. c.via \in {c.doc.feed, Home}
        BY <2>1 DEF OwnAdapter
      <3>4. QED
        BY <2>1, <2>2, <3>2, <3>3, IdAssumption DEF OwnAdapter, FeedInv, Writing, At
    <2>3. End(w, "invalid") \/ Goto(w, "entry") \/ (opened /\ older)
      <3> SUFFICES ASSUME ~End(w, "invalid")
                   PROVE  Goto(w, "entry") \/ (opened /\ older)
        OBVIOUS
      <3>1. \E o \in Outdated(file, c.doc.updated) :
               IF o THEN opened ELSE Goto(w, "entry")
        BY <1>8 DEF CheckFeed, FeedOf
      <3>2. CASE IsWhole(file)
        <4>1. Outdated(file, c.doc.updated) = {c.doc.updated > file.doc.updated}
          BY <3>2 DEF Outdated, IsWhole
        <4>2. IF c.doc.updated > file.doc.updated THEN opened ELSE Goto(w, "entry")
          BY <3>1, <4>1, Zenon
        <4>3. QED
          BY <4>2
      <3>3. CASE ~IsWhole(file)
        <4>1. opened \/ Goto(w, "entry")
          BY <3>1, Zenon
        <4>2. QED
          BY <3>3, <4>1
      <3>4. QED
        BY <3>2, <3>3
    <2>4. QED
      BY <1>3, <1>4, <2>1, <2>2, <2>3 DEF Result
  <1>9. CASE OpenFeed(w)
    <2>1. call'[w] = [c EXCEPT !.at = "feedWrite", !.dirty = TRUE]
      BY <1>9 DEF OpenFeed
    <2>2. call'[w].at = "feedWrite" /\ call'[w].via = c.via /\ call'[w].doc = c.doc
      BY <1>b, <2>1 DEF Call
    <2>3. /\ c.at = "feedOpen" /\ UNCHANGED <<lastFeed, crashes>>
          /\ feedFile' = [feedFile EXCEPT ![c.via] = Torn(w)]
      BY <1>9 DEF OpenFeed, At, history
    <2>4. \A f \in Feed : feedFile'[f] = IF c.via = f THEN Torn(w) ELSE feedFile[f]
      BY <2>3 DEF TypeOK
    <2>5. OwnAdapter(call[w])'
      BY <2>2, <2>3 DEF OwnAdapter
    <2>6. FeedInv(w)'
      BY <2>2, <2>3, <2>4 DEF FeedInv, Writing, At
    <2>7. QED
      BY <2>5, <2>6
  <1>10. CASE StoreFeed(w)
    <2> DEFINE g == c.via
               d == [feed |-> FeedOf(w), updated |-> c.doc.updated]
    <2>1. PICK file \in Filled(feedFile[g], w, d) :
             /\ feedFile' = [feedFile EXCEPT ![g] = file]
             /\ lastFeed' = IF IsWhole(file) THEN [lastFeed EXCEPT ![g] = file]
                                             ELSE lastFeed
      BY <1>10 DEF StoreFeed
    <2>2. c.at = "feedWrite" /\ UNCHANGED crashes
      BY <1>10 DEF StoreFeed, At
    <2>3. call'[w] = [c EXCEPT !.at = "entry", !.saw = Absent]
      BY <1>10 DEF StoreFeed
    <2>4. call'[w].at = "entry" /\ call'[w].via = g /\ call'[w].doc = c.doc
      BY <1>b, <2>3 DEF Call
    <2>5. OwnAdapter(call[w])'
      BY <2>2, <2>4 DEF OwnAdapter
    <2>6. ASSUME crashes = 0, NEW f \in Feed
          PROVE  feedFile'[f] = lastFeed'[f] /\ lastFeed'[f].kind # "torn"
      <3>1. CASE f = g
        <4>1. feedFile[g] = Torn(w)
          BY <2>2, <2>6, <3>1 DEF FeedInv, Writing, At
        <4>2. file = Whole(d)
          BY <2>1, <4>1 DEF Filled
        <4>3. IsWhole(file)
          BY <4>2 DEF Whole, IsWhole
        <4>4. QED
          BY <2>1, <3>1, <4>3 DEF TypeOK, IsWhole
      <3>2. CASE f # g
        <4>1. feedFile'[f] = feedFile[f] /\ lastFeed'[f] = lastFeed[f]
          BY <2>1, <3>2 DEF TypeOK
        <4>2. QED
          BY <2>6, <3>2, <4>1 DEF FeedInv, Writing
      <3>3. QED
        BY <3>1, <3>2
    <2>7. FeedInv(w)'
      BY <2>2, <2>4, <2>6 DEF FeedInv, Writing, At
    <2>8. QED
      BY <2>5, <2>7
  <1>11. CASE FailEntry(w) \/ FailFeed(w) \/ FailReplacement(w)
    BY <1>11 DEF FailEntry, FailFeed, FailReplacement
  <1>12. ASSUME NEW x \in c.keep, OpenEntry(w, x)
         PROVE  OwnAdapter(call[w])' /\ FeedInv(w)'
    <2> DEFINE n == [c EXCEPT !.at = "entryWrite", !.cur = x,
                              !.keep = @ \ {x}, !.dirty = TRUE]
    <2>1. n.at = "entryWrite" /\ n.via = c.via /\ n.doc = c.doc
      BY <1>b DEF Call
    <2>2. /\ c.at \notin {"idle", "feedWrite"} /\ Update(w, n)
          /\ UNCHANGED <<feedFile, lastFeed, crashes>>
      BY <1>12 DEF OpenEntry, AtEntryLoop, At, history
    <2> HIDE DEF n
    <2>3. QED
      BY <1>2, <2>1, <2>2
  <1>13. CASE StoreEntry(w)
    <2> DEFINE n == [c EXCEPT !.at = "mention", !.targets = c.cur.mentions]
    <2>1. n.at = "mention" /\ n.via = c.via /\ n.doc = c.doc
      BY <1>b DEF Call
    <2>2. c.at = "entryWrite" /\ UNCHANGED <<feedFile, lastFeed, crashes>>
      BY <1>13 DEF StoreEntry, At
    <2>3. Update(w, n) \/ Goto(w, "entry")
      BY <1>13 DEF StoreEntry
    <2> HIDE DEF n
    <2>4. QED
      BY <1>2, <1>4, <2>1, <2>2, <2>3
  <1>14. CASE Accept(w)
    BY <1>3, <1>14 DEF Accept, AtEntryLoop, At, Result, files, history
  <1>15. ASSUME NEW t \in c.targets, ReadTarget(w, t)
         PROVE  OwnAdapter(call[w])' /\ FeedInv(w)'
    <2>1. c.at = "mention" /\ UNCHANGED <<feedFile, lastFeed, crashes>>
      BY <1>15 DEF ReadTarget, At, files, history
    <2>2. CASE TargetThrows(w, t)
      BY <1>3, <2>1, <2>2 DEF TargetThrows, Result
    <2>3. CASE TargetMissing(w, t)
      <3> DEFINE n == [c EXCEPT !.targets = @ \ {t}]
      <3>1. n.at = "mention" /\ n.via = c.via /\ n.doc = c.doc
        BY <1>b, <2>1 DEF Call
      <3>2. Update(w, n)
        BY <2>3 DEF TargetMissing
      <3> HIDE DEF n
      <3>3. QED
        BY <1>2, <2>1, <3>1, <3>2
    <2>4. CASE TargetFound(w, t)
      <3>1. PICK r : Update(w, [c EXCEPT !.at = "replaceOpen",
                                         !.targets = @ \ {t}, !.tomb = r])
        BY <2>4 DEF TargetFound
      <3> DEFINE n == [c EXCEPT !.at = "replaceOpen", !.targets = @ \ {t}, !.tomb = r]
      <3>2. n.at = "replaceOpen" /\ n.via = c.via /\ n.doc = c.doc
        BY <1>b DEF Call
      <3>3. Update(w, n)
        BY <3>1
      <3> HIDE DEF n
      <3>4. QED
        BY <1>2, <2>1, <3>2, <3>3
    <2>5. QED
      BY <1>15, <2>2, <2>3, <2>4 DEF ReadTarget
  <1>16. CASE OpenReplacement(w)
    <2> DEFINE n == [c EXCEPT !.at = "replaceWrite", !.dirty = TRUE]
    <2>1. n.at = "replaceWrite" /\ n.via = c.via /\ n.doc = c.doc
      BY <1>b DEF Call
    <2>2. /\ c.at = "replaceOpen" /\ Update(w, n)
          /\ UNCHANGED <<feedFile, lastFeed, crashes>>
      BY <1>16 DEF OpenReplacement, At, history
    <2> HIDE DEF n
    <2>3. QED
      BY <1>2, <2>1, <2>2
  <1>17. CASE StoreReplacement(w)
    BY <1>4, <1>17 DEF StoreReplacement, At
  <1>18. QED
    BY <1>5, <1>6, <1>7, <1>8, <1>9, <1>10, <1>11, <1>12, <1>13, <1>14, <1>15,
       <1>16, <1>17 DEF Step

NewerInv == /\ TypeOK
            /\ \A w \in Worker : OwnAdapter(call[w]) /\ FeedInv(w)

\* With one thread and no failing writes, the stored feed element is never
\* replaced by an older one, until a crash (TrsstAdapter.java:917-931).
THEOREM FeedNeverOlderAlone ==
    ASSUME NEW w, Worker = {w}, ~StorageMayFail
    PROVE  Spec => FeedNeverOlder
  <1>1. Init => NewerInv
    <2> SUFFICES ASSUME Init PROVE NewerInv
      OBVIOUS
    <2>1. TypeOK
      BY SafetyInit DEF SafetyInv
    <2>2. call[w] = Ended(NewCall(AnyDocument, AnyDocument.feed, {}), "none")
      BY DEF Init
    <2>3. call[w].at = "idle"
      BY <2>2 DEF Ended, NewCall
    <2>4. OwnAdapter(call[w]) /\ FeedInv(w)
      BY <2>3 DEF Init, OwnAdapter, FeedInv, Writing, At, Absent
    <2>5. QED
      BY <2>1, <2>4 DEF NewerInv
  <1>2. NewerInv /\ [Next]_vars => NewerInv'
    <2> SUFFICES ASSUME NewerInv, [Next]_vars PROVE NewerInv'
      OBVIOUS
    <2>0. TypeOK /\ OwnAdapter(call[w]) /\ FeedInv(w)
      BY DEF NewerInv
    <2>1. CASE Step(w)
      BY <2>0, <2>1, StepType, FeedStep DEF NewerInv
    <2>2. CASE Crash
      <3>1. TypeOK' /\ call'[w] = Ended(call[w], "none") /\ crashes' = crashes + 1
        BY <2>0, <2>2, CrashType DEF Crash
      <3>2. call'[w].at = "idle" /\ crashes' # 0
        BY <2>0, <3>1, CallFacts, EndedFacts, BoundAssumption DEF Result, TypeOK
      <3>3. QED
        BY <3>1, <3>2 DEF NewerInv, OwnAdapter, FeedInv
    <2>3. CASE UNCHANGED vars
      BY <2>3 DEF NewerInv, vars, files, history, TypeOK, OwnAdapter, FeedInv,
         Writing, At
    <2>4. QED
      BY <2>1, <2>2, <2>3 DEF Next
  <1> DEFINE Newer == \A f \in Feed :
                         IsWhole(lastFeed[f]) /\ crashes = 0
                           => lastFeed'[f].doc.updated >= lastFeed[f].doc.updated
  <1>3. NewerInv /\ [Next]_vars => [Newer]_vars
    <2> SUFFICES ASSUME NewerInv, Next, NEW f \in Feed, IsWhole(lastFeed[f]),
                        crashes = 0
                 PROVE  lastFeed'[f].doc.updated >= lastFeed[f].doc.updated
      OBVIOUS
    <2>0. TypeOK /\ FeedInv(w)
      BY DEF NewerInv
    <2>1. lastFeed[f].doc.updated \in Nat
      <3>1. lastFeed[f] \in File(FeedContent)
        BY <2>0 DEF TypeOK
      <3>2. lastFeed[f].doc \in FeedContent
        BY <3>1, FileDoc
      <3>3. QED
        BY <3>2, TimeAssumption DEF FeedContent
    <2>2. CASE lastFeed'[f] = lastFeed[f]
      BY <2>1, <2>2
    <2>3. CASE lastFeed'[f] # lastFeed[f]
      <3>1. StoreFeed(w)
        BY <2>3 DEF Next, Step, Crash, Receive, CheckEntry, ScreenEntry, CheckFeed,
           OpenFeed, FailFeed, OpenEntry, StoreEntry, FailEntry, Accept, ReadTarget,
           OpenReplacement, StoreReplacement, FailReplacement, history
      <3> DEFINE d == [feed |-> FeedOf(w), updated |-> call[w].doc.updated]
      <3>2. PICK file \in Filled(feedFile[call[w].via], w, d) :
               lastFeed' = IF IsWhole(file)
                           THEN [lastFeed EXCEPT ![call[w].via] = file] ELSE lastFeed
        BY <3>1 DEF StoreFeed
      <3>3. IsWhole(file) /\ call[w].via = f /\ lastFeed'[f] = file
        BY <2>0, <2>3, <3>2 DEF TypeOK
      <3>4. file.doc.updated = call[w].doc.updated
        BY <3>2, <3>3 DEF Filled, Whole, Torn, IsWhole
      <3>5. call[w].doc.updated > lastFeed[f].doc.updated
        BY <2>0, <3>1, <3>3 DEF FeedInv, StoreFeed, At
      <3>6. call[w].doc.updated \in Nat
        BY <2>0, CallFacts, TimeAssumption
      <3>7. QED
        BY <2>1, <3>3, <3>4, <3>5, <3>6
    <2>4. QED
      BY <2>2, <2>3
  <1>4. QED
    BY <1>1, <1>2, <1>3, PTL DEF Spec, FeedNeverOlder

-----------------------------------------------------------------------------
(* Any number of threads again.  What is overwritten, is overwritten by a    *)
(* thread that had looked before the other wrote: the list of entries holds  *)
(* only those that its second read did not find, and a feed element is       *)
(* written only if it is newer than the one it was compared with.            *)

MissedInv(c) ==
    /\ c.at # "idle" => \A x \in c.keep : x \in c.todo \/ x.id \in c.missed
    /\ c.at = "entryWrite" => c.cur.id \in c.missed

ComparedInv(c) ==
    c.at \in {"feedOpen", "feedWrite"} /\ IsWhole(c.saw)
      => c.doc.updated > c.saw.doc.updated

RaceInv == SafetyInv /\ \A w \in Worker : MissedInv(call[w]) /\ ComparedInv(call[w])

\* The comparison with a whole copy of the feed is decided by its timestamp.
LEMMA CheckFeedCompares ==
    ASSUME NEW w \in Worker, CheckFeed(w)
    PROVE  LET file == feedFile[FeedOf(w)] IN
           \/ End(w, "invalid")
           \/ /\ IsWhole(file) => call[w].doc.updated > file.doc.updated
              /\ Update(w, [call[w] EXCEPT !.at = "feedOpen", !.saw = file])
           \/ Goto(w, "entry")
  <1> DEFINE file == feedFile[FeedOf(w)]
             opened == Update(w, [call[w] EXCEPT !.at = "feedOpen", !.saw = file])
  <1> SUFFICES ASSUME ~End(w, "invalid"), ~Goto(w, "entry")
               PROVE  opened /\ (IsWhole(file) => call[w].doc.updated > file.doc.updated)
    OBVIOUS
  <1>1. PICK o \in Outdated(file, call[w].doc.updated) : o /\ opened
    BY DEF CheckFeed
  <1>2. ASSUME IsWhole(file) PROVE call[w].doc.updated > file.doc.updated
    <2>1. Outdated(file, call[w].doc.updated) = {call[w].doc.updated > file.doc.updated}
      BY <1>2 DEF Outdated, IsWhole
    <2>2. QED
      BY <1>1, <2>1
  <1>3. QED
    BY <1>1, <1>2

LEMMA RaceStep ==
    ASSUME SafetyInv, NEW w \in Worker, MissedInv(call[w]), ComparedInv(call[w]),
           Step(w)
    PROVE  MissedInv(call'[w]) /\ ComparedInv(call'[w])
  <1> DEFINE c == call[w]
             Good(n) == MissedInv(n) /\ ComparedInv(n)
  <1> USE CallFacts, UpdateFacts
  <1>a. TypeOK /\ KeptInv(c)
    BY DEF SafetyInv, CallInv
  <1>b. c \in Call
    BY <1>a
  <1>1. ASSUME NEW how \in Result, End(w, how) PROVE Good(call'[w])
    BY <1>1, <1>a, EndedCall DEF MissedInv, ComparedInv
  \* A step that leaves the list alone, and goes to a label of no interest here.
  <1>2. ASSUME c.at # "idle", NEW n, Update(w, n),
               n.at \notin {"feedOpen", "feedWrite", "entryWrite"},
               n.keep = c.keep, n.todo = c.todo, n.missed = c.missed
        PROVE  Good(call'[w])
    <2>1. call'[w] = n
      BY <1>2, <1>a
    <2>2. QED
      BY <1>2, <2>1 DEF MissedInv, ComparedInv
  <1>3. ASSUME NEW label \in {"entry", "mention"}, Goto(w, label), c.at # "idle"
        PROVE  Good(call'[w])
    <2>1. Moved(c, call'[w], label)
      BY <1>3, <1>a, MovedFacts
    <2>2. QED
      BY <1>3, <2>1 DEF Moved, MissedInv, ComparedInv
  <1>4. ASSUME NEW d \in Incoming, NEW a \in Adapters(d), Receive(w, d, a)
        PROVE  Good(call'[w])
    BY <1>4, <1>a, ReceivedCall DEF MissedInv, ComparedInv
  <1>5. ASSUME NEW x \in c.todo, CheckEntry(w, x) PROVE Good(call'[w])
    <2> DEFINE n == [c EXCEPT !.at = "screen", !.cur = x]
    <2>1. /\ n.at = "screen" /\ n.keep = c.keep /\ n.todo = c.todo
          /\ n.missed = c.missed
      BY <1>b DEF Call
    <2>2. c.at # "idle" /\ (End(w, "invalid") \/ Update(w, n))
      BY <1>5 DEF CheckEntry, At
    <2> HIDE DEF n
    <2>3. QED
      BY <1>1, <1>2, <2>1, <2>2 DEF Result
  \* What the second read does not find is remembered, or leaves the list.
  <1>6. CASE ScreenEntry(w)
    <2> DEFINE x == c.cur
               drop == IF Exists(entryFile[SlotOf(w, x.id)]) THEN {x} ELSE {}
               new == {y.id : y \in {x} \ drop}
               n == [c EXCEPT !.at = "check", !.todo = @ \ {x}, !.keep = @ \ drop,
                              !.missed = @ \cup new]
    <2>1. c.at = "screen" /\ Update(w, n)
      BY <1>6 DEF ScreenEntry, At
    <2>2. x \notin drop => x.id \in new
      OBVIOUS
    <2> HIDE DEF drop, new
    <2>3. /\ n.at = "check" /\ n.todo = c.todo \ {x} /\ n.keep = c.keep \ drop
          /\ n.missed = c.missed \cup new
      BY <1>b DEF Call
    <2> HIDE DEF n
    <2>4. call'[w] = n
      BY <1>a, <2>1
    <2>5. QED
      BY <2>1, <2>2, <2>3, <2>4 DEF MissedInv, ComparedInv
  <1>7. CASE CheckFeed(w)
    <2> DEFINE file == feedFile[FeedOf(w)]
               n == [c EXCEPT !.at = "feedOpen", !.saw = file]
    <2>1. c.at = "check"
      BY <1>7 DEF CheckFeed, At
    <2>2. CASE Update(w, n) /\ (IsWhole(file) => c.doc.updated > file.doc.updated)
      <3>1. /\ n.at = "feedOpen" /\ n.keep = c.keep /\ n.todo = c.todo
            /\ n.missed = c.missed /\ n.saw = file /\ n.doc = c.doc
        BY <1>b DEF Call
      <3> HIDE DEF n
      <3>2. call'[w] = n
        BY <1>a, <2>2
      <3>3. QED
        BY <2>1, <2>2, <3>1, <3>2 DEF MissedInv, ComparedInv
    <2>3. QED
      BY <1>1, <1>3, <1>7, <2>1, <2>2, CheckFeedCompares DEF Result
  <1>8. CASE OpenFeed(w)
    <2> DEFINE n == [c EXCEPT !.at = "feedWrite", !.dirty = TRUE]
    <2>1. /\ n.at = "feedWrite" /\ n.keep = c.keep /\ n.todo = c.todo
          /\ n.missed = c.missed /\ n.saw = c.saw /\ n.doc = c.doc
      BY <1>b DEF Call
    <2>2. c.at = "feedOpen" /\ Update(w, n)
      BY <1>8 DEF OpenFeed, At
    <2> HIDE DEF n
    <2>3. call'[w] = n
      BY <1>a, <2>2
    <2>4. QED
      BY <2>1, <2>2, <2>3 DEF MissedInv, ComparedInv
  <1>9. CASE StoreFeed(w)
    <2> DEFINE n == [c EXCEPT !.at = "entry", !.saw = Absent]
    <2>1. /\ n.at = "entry" /\ n.keep = c.keep /\ n.todo = c.todo
          /\ n.missed = c.missed
      BY <1>b DEF Call
    <2>2. c.at # "idle" /\ Update(w, n)
      BY <1>9 DEF StoreFeed, At
    <2> HIDE DEF n
    <2>3. QED
      BY <1>2, <2>1, <2>2
  <1>10. CASE FailFeed(w) \/ FailEntry(w) \/ Accept(w)
    BY <1>1, <1>10 DEF FailFeed, FailEntry, Accept, Result
  \* Nothing is left to visit, so what is taken from the list was missed.
  <1>11. ASSUME NEW x \in c.keep, OpenEntry(w, x) PROVE Good(call'[w])
    <2> DEFINE n == [c EXCEPT !.at = "entryWrite", !.cur = x,
                              !.keep = @ \ {x}, !.dirty = TRUE]
    <2>1. /\ n.at = "entryWrite" /\ n.keep = c.keep \ {x} /\ n.todo = c.todo
          /\ n.missed = c.missed /\ n.cur = x
      BY <1>b DEF Call
    <2>2. c.at \in Persisting /\ c.at # "idle" /\ Update(w, n)
      BY <1>11 DEF OpenEntry, AtEntryLoop, At, Persisting
    <2>3. c.todo = {}
      BY <1>a, <2>2 DEF KeptInv
    <2> HIDE DEF n
    <2>4. call'[w] = n
      BY <1>a, <2>2
    <2>5. QED
      BY <2>1, <2>2, <2>3, <2>4 DEF MissedInv, ComparedInv
  <1>12. CASE StoreEntry(w)
    <2> DEFINE n == [c EXCEPT !.at = "mention", !.targets = c.cur.mentions]
    <2>1. /\ n.at = "mention" /\ n.keep = c.keep /\ n.todo = c.todo
          /\ n.missed = c.missed
      BY <1>b DEF Call
    <2>2. c.at # "idle" /\ (Update(w, n) \/ Goto(w, "entry"))
      BY <1>12 DEF StoreEntry, At
    <2> HIDE DEF n
    <2>3. QED
      BY <1>2, <1>3, <2>1, <2>2
  <1>13. ASSUME NEW t \in c.targets, ReadTarget(w, t) PROVE Good(call'[w])
    <2>1. c.at = "mention"
      BY <1>13 DEF ReadTarget, At
    <2>2. CASE TargetThrows(w, t)
      BY <1>1, <2>2 DEF TargetThrows, Result
    <2>3. CASE TargetMissing(w, t)
      <3> DEFINE n == [c EXCEPT !.targets = @ \ {t}]
      <3>1. /\ n.at = "mention" /\ n.keep = c.keep /\ n.todo = c.todo
            /\ n.missed = c.missed
        BY <1>b, <2>1 DEF Call
      <3>2. Update(w, n)
        BY <2>3 DEF TargetMissing
      <3> HIDE DEF n
      <3>3. QED
        BY <1>2, <2>1, <3>1, <3>2
    <2>4. CASE TargetFound(w, t)
      <3>1. PICK r : Update(w, [c EXCEPT !.at = "replaceOpen",
                                         !.targets = @ \ {t}, !.tomb = r])
        BY <2>4 DEF TargetFound
      <3> DEFINE n == [c EXCEPT !.at = "replaceOpen", !.targets = @ \ {t}, !.tomb = r]
      <3>2. /\ n.at = "replaceOpen" /\ n.keep = c.keep /\ n.todo = c.todo
            /\ n.missed = c.missed
        BY <1>b DEF Call
      <3>3. Update(w, n)
        BY <3>1
      <3> HIDE DEF n
      <3>4. QED
        BY <1>2, <2>1, <3>2, <3>3
    <2>5. QED
      BY <1>13, <2>2, <2>3, <2>4 DEF ReadTarget
  <1>14. CASE OpenReplacement(w)
    <2> DEFINE n == [c EXCEPT !.at = "replaceWrite", !.dirty = TRUE]
    <2>1. /\ n.at = "replaceWrite" /\ n.keep = c.keep /\ n.todo = c.todo
          /\ n.missed = c.missed
      BY <1>b DEF Call
    <2>2. c.at = "replaceOpen" /\ Update(w, n)
      BY <1>14 DEF OpenReplacement, At
    <2> HIDE DEF n
    <2>3. QED
      BY <1>2, <2>1, <2>2
  <1>15. CASE StoreReplacement(w) \/ FailReplacement(w)
    BY <1>3, <1>15 DEF StoreReplacement, FailReplacement, At
  <1>16. QED
    BY <1>4, <1>5, <1>6, <1>7, <1>8, <1>9, <1>10, <1>11, <1>12, <1>13, <1>14,
       <1>15 DEF Step

LEMMA RaceInductive == Spec => []RaceInv
  <1>1. Init => RaceInv
    <2> SUFFICES ASSUME Init PROVE RaceInv
      OBVIOUS
    <2>1. \A w \in Worker : call[w].at = "idle"
      BY DEF Init, Ended, NewCall
    <2>2. QED
      BY <2>1, SafetyInit DEF RaceInv, MissedInv, ComparedInv
  <1>2. RaceInv /\ [Next]_vars => RaceInv'
    <2> SUFFICES ASSUME RaceInv, [Next]_vars PROVE RaceInv'
      OBVIOUS
    <2> USE DEF RaceInv
    <2>0. TypeOK
      BY DEF SafetyInv
    <2>1. ASSUME NEW w \in Worker, Step(w) PROVE RaceInv'
      <3>1. SafetyInv'
        BY <2>1, SafetyStep
      <3>2. MissedInv(call'[w]) /\ ComparedInv(call'[w])
        BY <2>1, RaceStep
      <3>3. \A v \in Worker \ {w} : call'[v] = call[v]
        BY <2>0, <2>1, StepUpdates
      <3>4. \A v \in Worker : MissedInv(call'[v]) /\ ComparedInv(call'[v])
        BY <3>2, <3>3
      <3>5. QED
        BY <3>1, <3>4 DEF MissedInv, ComparedInv
    <2>2. CASE Crash
      <3>1. SafetyInv'
        BY <2>2, SafetyCrash
      <3>2. \A w \in Worker : call'[w] = Ended(call[w], "none")
        BY <2>2 DEF Crash
      <3>3. \A w \in Worker : call'[w].at = "idle"
        BY <2>0, <3>2, CallFacts, EndedFacts DEF Result
      <3>4. QED
        BY <3>1, <3>3 DEF MissedInv, ComparedInv
    <2>3. CASE UNCHANGED vars
      BY <2>3 DEF vars, files, history, SafetyInv, TypeOK, CallInv, ScreenedInv,
         KeptInv, WrittenInv, FeedFirstInv, CleanInv, StoredIsVerified,
         EntryHasFeed, MissedInv, ComparedInv
    <2>4. QED
      BY <2>1, <2>2, <2>3 DEF Next
  <1>3. QED
    BY <1>1, <1>2, PTL DEF Spec

\* Only a thread that had not found the entry overwrites it with anything but a
\* deletion, and only one that had compared with another file replaces the feed
\* element by an older one (TrsstAdapter.java:870-878, :908-940).
THEOREM OverwrittenOnlyByRaceHolds == Spec => OverwrittenOnlyByRace
  <1> DEFINE Entries ==
                 \A s \in Slot :
                    lastEntry[s] # lastEntry'[s] /\ IsWhole(lastEntry[s])
                      => \/ lastEntry'[s].doc.verb = "deleted"
                         \/ \E w \in Worker : /\ At(w, "entryWrite")
                                             /\ s = SlotOf(w, call[w].cur.id)
                                             /\ call[w].cur.id \in call[w].missed
             Feeds ==
                 \A f \in Feed :
                    IsWhole(lastFeed[f]) /\ lastFeed'[f].doc.updated < lastFeed[f].doc.updated
                      => \E w \in Worker : /\ At(w, "feedWrite") /\ call[w].via = f
                                          /\ call[w].saw # lastFeed[f]
  <1>1. ASSUME RaceInv, Next PROVE Entries
    <2> SUFFICES ASSUME NEW s \in Slot, lastEntry[s] # lastEntry'[s]
                 PROVE  \/ lastEntry'[s].doc.verb = "deleted"
                        \/ \E w \in Worker : /\ At(w, "entryWrite")
                                            /\ s = SlotOf(w, call[w].cur.id)
                                            /\ call[w].cur.id \in call[w].missed
      OBVIOUS
    <2>0. TypeOK /\ \A w \in Worker : WrittenInv(call[w]) /\ MissedInv(call[w])
      BY <1>1 DEF RaceInv, SafetyInv, CallInv
    <2>1. PICK w \in Worker : \/ At(w, "entryWrite") /\ Fill(w, call[w].cur)
                              \/ At(w, "replaceWrite") /\ Fill(w, call[w].tomb)
      BY <1>1 DEF Next, Step, Crash, Receive, CheckEntry, ScreenEntry, CheckFeed,
         OpenFeed, StoreFeed, FailFeed, OpenEntry, StoreEntry, FailEntry, Accept,
         ReadTarget, OpenReplacement, StoreReplacement, FailReplacement, history
    <2>2. ASSUME NEW d \in EntryDoc, Fill(w, d)
          PROVE  s = SlotOf(w, d.id) /\ lastEntry'[s].doc = d
      <3>1. PICK file \in Filled(entryFile[SlotOf(w, d.id)], w, d) :
               lastEntry' = IF IsWhole(file)
                            THEN [lastEntry EXCEPT ![SlotOf(w, d.id)] = file]
                            ELSE lastEntry
        BY <2>2 DEF Fill
      <3>2. IsWhole(file) /\ s = SlotOf(w, d.id) /\ lastEntry'[s] = file
        BY <2>0, <3>1 DEF TypeOK
      <3>3. QED
        BY <3>1, <3>2 DEF Filled, Whole, Torn, IsWhole
    <2>3. CASE At(w, "entryWrite") /\ Fill(w, call[w].cur)
      BY <2>0, <2>2, <2>3, CallFacts DEF MissedInv, At
    <2>4. CASE At(w, "replaceWrite") /\ Fill(w, call[w].tomb)
      BY <2>0, <2>2, <2>4, CallFacts DEF WrittenInv, At
    <2>5. QED
      BY <2>1, <2>3, <2>4
  <1>2. ASSUME RaceInv, Next PROVE Feeds
    <2> SUFFICES ASSUME NEW f \in Feed, IsWhole(lastFeed[f]),
                        lastFeed'[f].doc.updated < lastFeed[f].doc.updated
                 PROVE  \E w \in Worker : /\ At(w, "feedWrite") /\ call[w].via = f
                                         /\ call[w].saw # lastFeed[f]
      OBVIOUS
    <2>0. TypeOK /\ \A w \in Worker : ComparedInv(call[w])
      BY <1>2 DEF RaceInv, SafetyInv
    <2>1. lastFeed[f].doc.updated \in Nat
      <3>1. lastFeed[f] \in File(FeedContent)
        BY <2>0 DEF TypeOK
      <3>2. lastFeed[f].doc \in FeedContent
        BY <3>1, FileDoc
      <3>3. QED
        BY <3>2, TimeAssumption DEF FeedContent
    <2>2. lastFeed'[f] # lastFeed[f]
      BY <2>1
    <2>3. PICK w \in Worker : StoreFeed(w)
      BY <1>2, <2>2 DEF Next, Step, Crash, Receive, CheckEntry, ScreenEntry, CheckFeed,
         OpenFeed, FailFeed, OpenEntry, StoreEntry, FailEntry, Accept, ReadTarget,
         OpenReplacement, StoreReplacement, FailReplacement, history
    <2> DEFINE d == [feed |-> FeedOf(w), updated |-> call[w].doc.updated]
    <2>4. PICK file \in Filled(feedFile[call[w].via], w, d) :
             lastFeed' = IF IsWhole(file)
                         THEN [lastFeed EXCEPT ![call[w].via] = file] ELSE lastFeed
      BY <2>3 DEF StoreFeed
    <2>5. IsWhole(file) /\ call[w].via = f /\ lastFeed'[f] = file
      BY <2>0, <2>2, <2>4 DEF TypeOK
    <2>6. file.doc.updated = call[w].doc.updated
      BY <2>4, <2>5 DEF Filled, Whole, Torn, IsWhole
    <2>7. call[w].doc.updated \in Nat
      BY <2>0, CallFacts, TimeAssumption
    <2>8. call[w].saw # lastFeed[f]
      BY <2>0, <2>1, <2>3, <2>5, <2>6, <2>7 DEF ComparedInv, StoreFeed, At
    <2>9. QED
      BY <2>3, <2>5, <2>8 DEF StoreFeed
  <1>3. RaceInv /\ [Next]_vars => [Entries /\ Feeds]_vars
    BY <1>1, <1>2
  <1>4. QED
    BY <1>3, RaceInductive, PTL DEF Spec, OverwrittenOnlyByRace

=============================================================================
