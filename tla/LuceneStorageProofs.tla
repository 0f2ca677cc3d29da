------------------------ MODULE LuceneStorageProofs ------------------------
(***************************************************************************)
(* Theorems about LuceneStorage, for any number of threads, entries, updates*)
(* and crashes, with merges and failures at any point.                      *)
(***************************************************************************)
EXTENDS LuceneStorage, SequenceTheorems, FiniteSetTheorems, TLAPS

-----------------------------------------------------------------------------
(* The index *)

Slots(ix) == {ix[i].slot : i \in DOMAIN ix}

LEMMA IndexFacts ==
    ASSUME NEW ix \in Index
    PROVE  /\ Len(ix) \in Nat /\ DOMAIN ix = 1..Len(ix)
           /\ \A i \in DOMAIN ix : /\ i \in Nat \ {0} /\ ix[i] \in Doc
                                   /\ ix[i].slot \in Slot
                                   /\ ix[i].version \in 1..MaxUpdates
           /\ Slots(ix) \subseteq Slot
  <1>1. Len(ix) \in Nat /\ DOMAIN ix = 1..Len(ix)
    BY LenProperties DEF Index
  <1>2. \A i \in DOMAIN ix : i \in Nat \ {0} /\ ix[i] \in Doc
    BY <1>1, ElementOfSeq DEF Index
  <1>3. QED
    BY <1>1, <1>2 DEF Doc, Slots

\* Of the documents of an entry the last one is live.
LEMMA FoundIsSlots ==
    ASSUME NEW ix \in Index
    PROVE  Found(ix) = Slots(ix)
  <1>1. Found(ix) \subseteq Slots(ix)
    BY DEF Found, LiveDocs, Live, Slots
  <1>2. ASSUME NEW i \in DOMAIN ix
        PROVE  ix[i].slot \in Found(ix)
    <2> DEFINE T == {n \in Nat : \E j \in DOMAIN ix :
                        ix[j].slot = ix[i].slot /\ n = Len(ix) - j}
    <2>1. Len(ix) - i \in T
      BY IndexFacts
    <2>2. PICK n \in T : \A m \in T : ~(m < n)
      <3>1. T \subseteq Nat /\ T # {}
        BY <2>1
      <3> HIDE DEF T
      <3>2. \E x \in T : \A y \in T : <<y, x>> \notin OpToRel(<, Nat)
        BY <3>1, WFMin, NatLessThanWellFounded
      <3>3. QED
        BY <3>1, <3>2 DEF OpToRel
    <2>3. PICK j \in DOMAIN ix : ix[j].slot = ix[i].slot /\ n = Len(ix) - j
      OBVIOUS
    <2>4. ASSUME NEW k \in DOMAIN ix, k > j
          PROVE  ix[k].slot # ix[j].slot
      <3>1. Len(ix) - k \in Nat /\ Len(ix) - k < n
        BY <2>3, <2>4, IndexFacts
      <3>2. QED
        BY <2>2, <2>3, <3>1
    <2>5. j \in Live(ix)
      BY <2>4 DEF Live
    <2>6. QED
      BY <2>3, <2>5 DEF Found, LiveDocs
  <1>3. QED
    BY <1>1, <1>2 DEF Slots

\* A merge keeps the live documents and nothing else.
LEMMA MergeFacts ==
    ASSUME NEW ix \in Index, NEW merged \in SetToSeqs(LiveDocs(ix))
    PROVE  /\ merged \in Index
           /\ {merged[i] : i \in DOMAIN merged} = LiveDocs(ix)
           /\ Slots(merged) = Slots(ix)
  <1> DEFINE S == LiveDocs(ix)
             D == 1..Cardinality(S)
  <1>1. S \subseteq Doc
    BY IndexFacts DEF LiveDocs, Live
  <1>2. IsFiniteSet(S)
    <2> DEFINE f == [i \in Live(ix) |-> ix[i]]
    <2>1. f \in Surjection(Live(ix), S)
      BY DEF Surjection, LiveDocs
    <2>2. Live(ix) \subseteq 1..Len(ix) /\ IsFiniteSet(1..Len(ix))
      <3>1. Len(ix) \in Int /\ 1 \in Int
        BY IndexFacts
      <3>2. QED
        BY <3>1, IndexFacts, FS_Interval DEF Live
    <2>3. IsFiniteSet(Live(ix))
      BY <2>2, FS_Subset
    <2>4. QED
      BY <2>1, <2>3, FS_Surjection
  <1>3. Cardinality(S) \in Nat /\ IsFiniteSet(D) /\ Cardinality(D) = Cardinality(S)
    BY <1>2, FS_CardinalityType, FS_Interval
  <1>4. merged \in [D -> S] /\ \A i, j \in D : i # j => merged[i] # merged[j]
    BY DEF SetToSeqs
  <1> HIDE DEF S
  <1>5. merged \in Injection(D, S)
    BY <1>4 DEF Injection, IsInjective
  <1>6. merged \in Surjection(D, S)
    BY <1>2, <1>3, <1>5, FS_Injection
  <1>7. DOMAIN merged = D /\ {merged[i] : i \in D} = S
    BY <1>4, <1>6 DEF Surjection
  <1>8. merged \in Index
    <2>1. merged \in [1..Cardinality(S) -> Doc]
      BY <1>1, <1>4
    <2>2. QED
      BY <1>3, <2>1, IsASeq DEF Index
  <1>9. Slots(merged) = {d.slot : d \in S}
    BY <1>7 DEF Slots
  <1>10. Slots(merged) = Slots(ix)
    BY <1>9, FoundIsSlots DEF Found, S
  <1>11. QED
    BY <1>7, <1>8, <1>10 DEF S

LEMMA AppendedFacts ==
    ASSUME NEW ix \in Index, NEW d \in Doc
    PROVE  /\ Append(ix, d) \in Index
           /\ \A i \in DOMAIN Append(ix, d) :
                 Append(ix, d)[i] = d
                 \/ (i \in DOMAIN ix /\ Append(ix, d)[i] = ix[i])
           /\ Slots(Append(ix, d)) = Slots(ix) \cup {d.slot}
  <1> DEFINE t == Append(ix, d)
  <1>1. /\ t \in Seq(Doc) /\ Len(t) = Len(ix) + 1 /\ t[Len(ix) + 1] = d
        /\ \A i \in 1..Len(ix) : t[i] = ix[i]
    BY AppendProperties DEF Index
  <1>2. /\ Len(ix) \in Nat /\ DOMAIN ix = 1..Len(ix)
    BY IndexFacts
  <1> HIDE DEF t
  <1>3. DOMAIN t = 1..Len(ix) + 1
    BY <1>1, <1>2, LenProperties
  <1>4. \A i \in DOMAIN t : t[i] = d \/ (i \in DOMAIN ix /\ t[i] = ix[i])
    BY <1>1, <1>2, <1>3
  <1>5. Len(ix) + 1 \in DOMAIN t /\ \A i \in DOMAIN ix : i \in DOMAIN t /\ t[i] = ix[i]
    BY <1>1, <1>2, <1>3
  <1>6. Slots(t) = Slots(ix) \cup {d.slot}
    BY <1>1, <1>4, <1>5 DEF Slots
  <1>7. QED
    BY <1>1, <1>4, <1>6 DEF t, Index

-----------------------------------------------------------------------------
(* Types *)

\* What a call holds, by where it is.
LEMMA CallFields ==
    ASSUME NEW c \in Call
    PROVE  /\ c.at \in {"idle", "index", "commit", "open", "assign", "lookup",
                        "answered"}
           /\ c.at \in {"index", "commit", "open"} =>
                 c \in [at : {"index", "commit", "open"}, doc : Doc, met : BOOLEAN]
           /\ c.at = "assign" =>
                 c \in [at : {"assign"}, doc : Doc, met : BOOLEAN, opened : Index]
           /\ c.at \in {"lookup", "answered"} =>
                 c \in [at : {"lookup", "answered"}, hits : SUBSET (Nat \ {0}),
                        found : SUBSET ((Nat \ {0}) \X Slot),
                        expected : SUBSET Slot, swapped : BOOLEAN]
  BY DEF Call

LEMMA IdleType == Idle \in Call
  BY DEF Idle, Call

LEMMA BecomeType ==
    ASSUME TypeOK, NEW w \in Worker, NEW c \in Call, Become(w, c)
    PROVE  call' \in [Worker -> Call] /\ call'[w] = c
           /\ \A x \in Worker \ {w} : call'[x] = call[x]
  BY DEF TypeOK, Become

LEMMA WriteFacts ==
    ASSUME TypeOK, NEW w \in Worker, NEW s \in Slot, Write(w, s)
    PROVE  LET d == [slot |-> s, version |-> updates + 1]
           IN /\ d \in Doc /\ updates' = updates + 1 /\ updates' \in 0..MaxUpdates
              /\ file' = [file EXCEPT ![s] = updates + 1]
              /\ file' \in [Slot -> 0..MaxUpdates]
              /\ call' \in [Worker -> Call]
              /\ call'[w].at = "index" /\ call'[w].doc = d
              /\ ~call'[w].met => \A x \in Worker : ~Updating(x)
              /\ \A x \in Worker \ {w} :
                    \/ ~Updating(x) /\ call'[x] = call[x]
                    \/ Updating(x) /\ call'[x] = [call[x] EXCEPT !.met = TRUE]
  <1> DEFINE d == [slot |-> s, version |-> updates + 1]
             others == {x \in Worker : Updating(x)}
             mine == [at |-> "index", doc |-> d, met |-> others # {}]
  <1>1. /\ updates \in Nat /\ updates < MaxUpdates /\ updates' = updates + 1
        /\ file' = [file EXCEPT ![s] = updates + 1] /\ file \in [Slot -> 0..MaxUpdates]
        /\ call \in [Worker -> Call]
        /\ call' = [x \in Worker |->
                      IF x = w THEN mine
                      ELSE IF x \in others THEN [call[x] EXCEPT !.met = TRUE]
                                           ELSE call[x]]
    BY DEF Write, TypeOK, BeginUpdate
  <1>2. d \in Doc /\ updates' \in 0..MaxUpdates /\ file' \in [Slot -> 0..MaxUpdates]
    BY <1>1, BoundAssumption DEF Doc
  <1>3. mine \in Call
    BY <1>2 DEF Call
  <1>4. ASSUME NEW x \in others
        PROVE  [call[x] EXCEPT !.met = TRUE] \in Call
    BY <1>1, CallFields DEF Updating, Call
  <1>5. call' \in [Worker -> Call]
    BY <1>1, <1>3, <1>4
  <1>6. QED
    BY <1>1, <1>2, <1>5

LEMMA SwappedType ==
    ASSUME TypeOK
    PROVE  /\ Swapped \in [Worker -> Call]
           /\ \A x \in Worker :
                 /\ Swapped[x].at = call[x].at
                 /\ ~At(x, "lookup") => Swapped[x] = call[x]
                 /\ At(x, "lookup") => /\ Swapped[x].swapped
                                       /\ Swapped[x].found = call[x].found
  <1>1. ASSUME NEW x \in Worker, At(x, "lookup")
        PROVE  /\ [call[x] EXCEPT !.swapped = TRUE] \in Call
               /\ [call[x] EXCEPT !.swapped = TRUE].at = call[x].at
               /\ [call[x] EXCEPT !.swapped = TRUE].swapped
               /\ [call[x] EXCEPT !.swapped = TRUE].found = call[x].found
    <2>1. call[x] \in [at : {"lookup", "answered"}, hits : SUBSET (Nat \ {0}),
                       found : SUBSET ((Nat \ {0}) \X Slot),
                       expected : SUBSET Slot, swapped : BOOLEAN]
      BY <1>1, CallFields DEF TypeOK, At
    <2>2. QED
      BY <2>1 DEF Call
  <1>2. QED
    BY <1>1 DEF Swapped, TypeOK

LEMMA LiveType ==
    ASSUME NEW ix \in Index
    PROVE  Live(ix) \subseteq Nat \ {0} /\ Found(ix) \subseteq Slot
  BY IndexFacts, FoundIsSlots DEF Live

\* A call that searches, and what looking up one document makes of it.
LEMMA LookUpFacts ==
    ASSUME TypeOK, NEW w \in Worker, NEW n \in DOMAIN reader, LookUp(w, n)
    PROVE  LET c == call[w]
           IN /\ call' \in [Worker -> Call]
              /\ call'[w].at = "lookup"
              /\ call'[w].hits = c.hits \ {n}
              /\ call'[w].found = c.found \cup {<<n, reader[n].slot>>}
              /\ call'[w].expected = c.expected
              /\ call'[w].swapped = c.swapped
              /\ \A x \in Worker \ {w} : call'[x] = call[x]
  <1> DEFINE c == call[w]
             pair == <<n, reader[n].slot>>
             d == [c EXCEPT !.hits = @ \ {n}, !.found = @ \cup {pair}]
             Pairs == SUBSET ((Nat \ {0}) \X Slot)
  <1>1. /\ c \in [at : {"lookup", "answered"}, hits : SUBSET (Nat \ {0}),
                  found : Pairs, expected : SUBSET Slot, swapped : BOOLEAN]
        /\ c.at = "lookup"
    BY CallFields DEF LookUp, At, TypeOK
  <1>2. pair \in (Nat \ {0}) \X Slot
    BY IndexFacts DEF TypeOK
  <1>3. c.found \cup {pair} \in Pairs
    BY <1>1, <1>2
  <1> HIDE DEF pair, Pairs, c
  <1>4. /\ d \in [at : {"lookup", "answered"}, hits : SUBSET (Nat \ {0}),
                  found : Pairs, expected : SUBSET Slot, swapped : BOOLEAN]
        /\ d.at = "lookup" /\ d.hits = c.hits \ {n}
        /\ d.found = c.found \cup {pair} /\ d.expected = c.expected
        /\ d.swapped = c.swapped
    BY <1>1, <1>3
  <1> HIDE DEF d
  <1>5. d \in Call
    BY <1>4 DEF Call, Pairs
  <1>6. Become(w, d)
    BY DEF LookUp, d, pair, c
  <1>7. QED
    BY <1>4, <1>5, <1>6, BecomeType DEF c, pair

LEMMA StepType ==
    ASSUME TypeOK, NEW w \in Worker, Step(w)
    PROVE  TypeOK'
  <1> DEFINE c == call[w]
  <1>0. /\ c \in Call /\ writer \in Index /\ committed \in Index
        /\ reader \in Index /\ updates \in 0..MaxUpdates
    BY DEF TypeOK
  <1>1. ASSUME NEW s \in Slot, Write(w, s) PROVE TypeOK'
    BY <1>1, WriteFacts DEF Write, TypeOK, index
  <1>2. CASE UpdateDocument(w)
    <2>1. [c EXCEPT !.at = "commit"] \in Call /\ c.doc \in Doc
      BY <1>0, <1>2, CallFields DEF UpdateDocument, At, Call
    <2>2. writer' \in Index
      BY <1>0, <1>2, <2>1, AppendedFacts DEF UpdateDocument
    <2>3. call' \in [Worker -> Call]
      BY <1>2, <2>1, BecomeType DEF UpdateDocument
    <2>4. QED
      BY <1>2, <2>2, <2>3 DEF UpdateDocument, TypeOK
  <1>3. CASE Commit(w)
    <2>1. [c EXCEPT !.at = "open"] \in Call
      BY <1>0, <1>3, CallFields DEF Commit, At, Call
    <2>2. call' \in [Worker -> Call]
      BY <1>3, <2>1, BecomeType DEF Commit
    <2>3. QED
      BY <1>3, <2>2 DEF Commit, TypeOK
  <1>4. CASE OpenReader(w)
    <2>1. [at |-> "assign", doc |-> c.doc, met |-> c.met, opened |-> writer] \in Call
      BY <1>0, <1>4, CallFields DEF OpenReader, At, Call
    <2>2. call' \in [Worker -> Call]
      BY <1>4, <2>1, BecomeType DEF OpenReader
    <2>3. QED
      BY <1>4, <2>2 DEF OpenReader, TypeOK, index
  <1>5. CASE AssignReader(w)
    <2>1. c.opened \in Index /\ c.doc \in Doc
      BY <1>0, <1>5, CallFields DEF AssignReader, At
    <2>2. call' \in [Worker -> Call]
      BY <1>5, IdleType, SwappedType DEF AssignReader
    <2>3. acked' \in [Slot -> 0..MaxUpdates]
      <3>1. c.doc.slot \in Slot /\ c.doc.version \in 0..MaxUpdates
        BY <2>1 DEF Doc
      <3>2. QED
        BY <1>5, <3>1 DEF AssignReader, Acknowledge, TypeOK
    <2>4. raced' \subseteq Slot
      BY <1>5, <2>1 DEF AssignReader, Acknowledge, TypeOK, Doc
    <2>5. QED
      BY <1>5, <2>1, <2>2, <2>3, <2>4 DEF AssignReader, TypeOK
  <1>6. CASE FailUpdate(w)
    BY <1>6, IdleType, BecomeType DEF FailUpdate, TypeOK, index
  <1>7. CASE Search(w)
    <2>1. [at |-> "lookup", hits |-> Live(reader), found |-> {},
           expected |-> Found(reader), swapped |-> FALSE] \in Call
      BY <1>0, LiveType DEF Call
    <2>2. call' \in [Worker -> Call]
      BY <1>7, <2>1, BecomeType DEF Search
    <2>3. QED
      BY <1>7, <2>2 DEF Search, TypeOK, index
  <1>8. ASSUME NEW n \in Hits(w), LookUp(w, n) PROVE TypeOK'
    <2>1. call' \in [Worker -> Call]
      <3>1. CASE n \in DOMAIN reader
        BY <1>8, <3>1, LookUpFacts
      <3>2. CASE n \notin DOMAIN reader
        BY <1>8, <3>2, IdleType, BecomeType DEF LookUp
      <3>3. QED
        BY <3>1, <3>2
    <2>2. QED
      BY <1>8, <2>1 DEF LookUp, TypeOK, index
  <1>9. CASE AnswerSearch(w)
    <2>1. [c EXCEPT !.at = "answered"] \in Call
      BY <1>0, <1>9, CallFields DEF AnswerSearch, At, Call
    <2>2. call' \in [Worker -> Call]
      BY <1>9, <2>1, BecomeType DEF AnswerSearch
    <2>3. QED
      BY <1>9, <2>2 DEF AnswerSearch, TypeOK, index
  <1>10. QED
    BY <1>1, <1>2, <1>3, <1>4, <1>5, <1>6, <1>7, <1>8, <1>9 DEF Step

LEMMA ServerType ==
    ASSUME TypeOK, Merge \/ Crash
    PROVE  TypeOK'
  <1>1. CASE Merge
    BY <1>1, MergeFacts DEF Merge, TypeOK
  <1>2. CASE Crash
    <2>1. crashes' \in 0..MaxCrashes
      BY <1>2, BoundAssumption DEF Crash, TypeOK
    <2>2. call' \in [Worker -> Call]
      BY <1>2, IdleType DEF Crash
    <2>3. QED
      BY <1>2, <2>1, <2>2 DEF Crash, TypeOK
  <1>3. QED
    BY <1>1, <1>2

\* What a step of one worker leaves of the call of another: all but the two
\* flags of its history, which may rise.
Untouched(c, d) ==
    /\ d.at = c.at
    /\ c.at \in {"index", "commit", "open", "assign"} =>
          d.doc = c.doc /\ (c.met => d.met)
    /\ c.at = "assign" => d.opened = c.opened
    /\ c.at \in {"lookup", "answered"} =>
          /\ d.found = c.found
          /\ ~d.swapped => d = c

LEMMA OthersUntouched ==
    ASSUME TypeOK, NEW w \in Worker, Step(w), NEW x \in Worker \ {w}
    PROVE  Untouched(call[x], call'[x])
  <1>1. ASSUME NEW s \in Slot, Write(w, s) PROVE Untouched(call[x], call'[x])
    <2>1. CASE call'[x] = call[x]
      BY <2>1 DEF Untouched
    <2>2. CASE Updating(x) /\ call'[x] = [call[x] EXCEPT !.met = TRUE]
      <3>1. call[x] \in Call
        BY DEF TypeOK
      <3>2. \/ call[x] \in [at : {"index", "commit", "open"}, doc : Doc,
                            met : BOOLEAN]
            \/ call[x] \in [at : {"assign"}, doc : Doc, met : BOOLEAN,
                            opened : Index]
        BY <2>2, <3>1, CallFields DEF Updating
      <3>3. QED
        BY <2>2, <3>2 DEF Untouched, Updating
    <2>3. QED
      BY <1>1, <2>1, <2>2, WriteFacts
  <1>2. CASE AssignReader(w)
    <2>1. call'[x] = Swapped[x]
      BY <1>2, SwappedType DEF AssignReader
    <2>2. QED
      BY <2>1, SwappedType DEF Untouched, At
  <1>3. ASSUME NEW c, Become(w, c) PROVE Untouched(call[x], call'[x])
    BY <1>3 DEF Become, TypeOK, Untouched
  <1>4. QED
    BY <1>1, <1>2, <1>3 DEF Step, UpdateDocument, Commit, OpenReader,
       FailUpdate, Search, LookUp, AnswerSearch

-----------------------------------------------------------------------------
(* The index never knows more than the files *)

Behind(ix, f) == \A i \in DOMAIN ix : ix[i].version <= f[ix[i].slot]

CallBehind(c, f) ==
    /\ c.at \in {"index", "commit", "open", "assign"} =>
          c.doc.version <= f[c.doc.slot]
    /\ c.at = "assign" => Behind(c.opened, f)
    /\ c.at \in {"lookup", "answered"} => \A hit \in c.found : f[hit[2]] > 0

FileInv ==
    /\ \A s \in Slot : file[s] <= updates
    /\ Behind(writer, file) /\ Behind(committed, file) /\ Behind(reader, file)
    /\ \A x \in Worker : CallBehind(call[x], file)

LEMMA BehindGrows ==
    ASSUME NEW f \in [Slot -> 0..MaxUpdates], NEW g \in [Slot -> 0..MaxUpdates],
           \A s \in Slot : f[s] <= g[s]
    PROVE  /\ \A ix \in Index : Behind(ix, f) => Behind(ix, g)
           /\ \A c \in Call : CallBehind(c, f) => CallBehind(c, g)
  <1>1. ASSUME NEW ix \in Index, Behind(ix, f)
        PROVE  Behind(ix, g)
    <2>1. ASSUME NEW i \in DOMAIN ix
          PROVE  ix[i].version <= g[ix[i].slot]
      <3>1. ix[i].slot \in Slot /\ ix[i].version \in 1..MaxUpdates
        BY IndexFacts
      <3>2. ix[i].version <= f[ix[i].slot]
        BY <1>1 DEF Behind
      <3>3. QED
        BY <3>1, <3>2, BoundAssumption
    <2>2. QED
      BY <2>1 DEF Behind
  <1>2. ASSUME NEW c \in Call, CallBehind(c, f)
        PROVE  CallBehind(c, g)
    <2>1. CASE c.at \in {"index", "commit", "open", "assign"}
      <3>1. c.doc.slot \in Slot /\ c.doc.version \in 1..MaxUpdates
        BY <2>1, CallFields DEF Doc
      <3>2. c.at = "assign" => c.opened \in Index
        BY CallFields
      <3>3. c.doc.version <= f[c.doc.slot]
        BY <1>2, <2>1 DEF CallBehind
      <3>4. c.doc.version <= g[c.doc.slot]
        BY <3>1, <3>3, BoundAssumption
      <3>5. QED
        BY <1>1, <1>2, <2>1, <3>2, <3>4 DEF CallBehind
    <2>2. CASE c.at \in {"lookup", "answered"}
      <3>1. \A hit \in c.found : hit[2] \in Slot
        BY <2>2, CallFields
      <3>2. \A hit \in c.found : g[hit[2]] > 0
        BY <1>2, <2>2, <3>1, BoundAssumption DEF CallBehind
      <3>3. QED
        BY <2>2, <3>2 DEF CallBehind
    <2>3. CASE c.at = "idle"
      BY <2>3 DEF CallBehind
    <2>4. QED
      BY <2>1, <2>2, <2>3, CallFields
  <1>3. QED
    BY <1>1, <1>2

LEMMA FilesGrow ==
    ASSUME TypeOK, FileInv, Next
    PROVE  \A s \in Slot : file[s] <= file'[s] /\ file'[s] <= updates'
  <1>1. /\ file \in [Slot -> 0..MaxUpdates] /\ updates \in 0..MaxUpdates
        /\ \A s \in Slot : file[s] <= updates /\ file[s] \in 0..MaxUpdates
    BY DEF TypeOK, FileInv
  <1>2. ASSUME NEW w \in Worker, NEW s \in Slot, Write(w, s)
        PROVE  \A t \in Slot : file[t] <= file'[t] /\ file'[t] <= updates'
    BY <1>1, <1>2, BoundAssumption DEF Write
  <1>3. CASE UNCHANGED <<file, updates>>
    BY <1>1, <1>3, BoundAssumption
  <1>4. QED
    BY <1>2, <1>3 DEF Next, Step, UpdateDocument, Commit, OpenReader,
       AssignReader, FailUpdate, Search, LookUp, AnswerSearch, Merge, Crash

\* It is enough to look at what a step changes.
LEMMA FileStep ==
    ASSUME TypeOK, FileInv, NEW w \in Worker, Step(w)
    PROVE  FileInv'
  <1> DEFINE c == call[w]
             others == \A x \in Worker \ {w} : CallBehind(call'[x], file')
  <1>0. TypeOK' /\ \A s \in Slot : file[s] <= file'[s] /\ file'[s] <= updates'
    BY StepType, FilesGrow DEF Next
  <1>1. /\ \A ix \in Index : Behind(ix, file) => Behind(ix, file')
        /\ \A d \in Call : CallBehind(d, file) => CallBehind(d, file')
    BY <1>0, BehindGrows DEF TypeOK
  <1>2. Behind(writer, file') /\ Behind(committed, file') /\ Behind(reader, file')
    BY <1>1 DEF TypeOK, FileInv
  <1>3. \A x \in Worker : CallBehind(call[x], file')
    BY <1>1 DEF TypeOK, FileInv
  <1>4. \A x \in Worker \ {w} : CallBehind(call'[x], file')
    BY <1>3, OthersUntouched DEF CallBehind, Untouched
  <1>5. SUFFICES /\ Behind(writer', file') /\ Behind(committed', file')
                 /\ Behind(reader', file') /\ CallBehind(call'[w], file')
    BY <1>0, <1>4 DEF FileInv
  <1>6. c \in Call /\ call \in [Worker -> Call]
    BY DEF TypeOK
  <1>7. \A d : Become(w, d) => call'[w] = d
    BY <1>6 DEF Become
  <1>8. ASSUME NEW s \in Slot, Write(w, s)
        PROVE  CallBehind(call'[w], file') /\ UNCHANGED index
    <2>1. /\ call'[w].at = "index" /\ call'[w].doc = [slot |-> s, version |-> updates + 1]
          /\ file'[s] = updates + 1
      BY <1>8, WriteFacts DEF TypeOK
    <2>2. QED
      BY <1>8, <2>1, StepType DEF CallBehind, TypeOK, Write
  <1>9. CASE UpdateDocument(w)
    <2>1. c \in [at : {"index", "commit", "open"}, doc : Doc, met : BOOLEAN]
      BY <1>6, <1>9, CallFields DEF UpdateDocument, At
    <2>2. call'[w] = [c EXCEPT !.at = "commit"]
      BY <1>7, <1>9 DEF UpdateDocument
    <2>3. c.doc \in Doc /\ c.doc.version <= file'[c.doc.slot]
      BY <1>3, <1>9, <2>1 DEF CallBehind, UpdateDocument, At
    <2>4. CallBehind(call'[w], file')
      BY <2>1, <2>2, <2>3 DEF CallBehind
    <2>5. Behind(Append(writer, c.doc), file')
      BY <1>2, <2>3, AppendedFacts DEF Behind, TypeOK
    <2>6. QED
      BY <1>2, <1>9, <2>4, <2>5 DEF UpdateDocument
  <1>10. CASE Commit(w)
    <2>1. c \in [at : {"index", "commit", "open"}, doc : Doc, met : BOOLEAN]
      BY <1>6, <1>10, CallFields DEF Commit, At
    <2>2. call'[w] = [c EXCEPT !.at = "open"]
      BY <1>7, <1>10 DEF Commit
    <2>3. CallBehind(call'[w], file')
      BY <1>3, <1>10, <2>1, <2>2 DEF CallBehind, Commit, At
    <2>4. QED
      BY <1>2, <1>10, <2>3 DEF Commit
  <1>11. CASE OpenReader(w)
    <2>1. c \in [at : {"index", "commit", "open"}, doc : Doc, met : BOOLEAN]
      BY <1>6, <1>11, CallFields DEF OpenReader, At
    <2>2. call'[w] = [at |-> "assign", doc |-> c.doc, met |-> c.met,
                      opened |-> writer]
      BY <1>7, <1>11 DEF OpenReader
    <2>3. CallBehind(call'[w], file')
      BY <1>2, <1>3, <1>11, <2>1, <2>2 DEF CallBehind, OpenReader, At
    <2>4. QED
      BY <1>2, <1>11, <2>3 DEF OpenReader, index
  <1>12. CASE AssignReader(w)
    <2>1. call'[w] = Idle
      BY <1>12, SwappedType DEF AssignReader
    <2>2. Behind(c.opened, file')
      BY <1>3, <1>12 DEF AssignReader, CallBehind, At
    <2>3. QED
      BY <1>2, <1>12, <2>1, <2>2 DEF AssignReader, CallBehind, Idle
  <1>13. CASE FailUpdate(w)
    BY <1>2, <1>7, <1>13 DEF FailUpdate, CallBehind, Idle, index
  <1>14. CASE Search(w)
    BY <1>2, <1>7, <1>14 DEF Search, CallBehind, index
  <1>15. ASSUME NEW n \in Hits(w), LookUp(w, n)
         PROVE  CallBehind(call'[w], file')
    <2>1. CASE n \in DOMAIN reader
      <3>1. /\ call'[w].at = "lookup"
            /\ call'[w].found = c.found \cup {<<n, reader[n].slot>>}
        BY <1>15, <2>1, LookUpFacts
      <3>2. \A hit \in c.found : file'[hit[2]] > 0
        BY <1>3, <1>15 DEF CallBehind, LookUp, At
      <3>3. file'[reader[n].slot] > 0
        <4>1. /\ reader[n].slot \in Slot /\ reader[n].version \in 1..MaxUpdates
              /\ reader[n].version <= file'[reader[n].slot]
          BY <1>2, <2>1, IndexFacts DEF Behind, TypeOK
        <4>2. file'[reader[n].slot] \in 0..MaxUpdates
          BY <1>0, <4>1 DEF TypeOK
        <4>3. QED
          BY <4>1, <4>2, BoundAssumption
      <3>4. QED
        BY <3>1, <3>2, <3>3 DEF CallBehind
    <2>2. CASE n \notin DOMAIN reader
      <3>1. call'[w] = Idle
        BY <1>7, <1>15, <2>2 DEF LookUp
      <3>2. QED
        BY <3>1 DEF Idle, CallBehind
    <2>3. QED
      BY <2>1, <2>2
  <1>16. CASE AnswerSearch(w)
    <2>1. c \in [at : {"lookup", "answered"}, hits : SUBSET (Nat \ {0}),
                 found : SUBSET ((Nat \ {0}) \X Slot),
                 expected : SUBSET Slot, swapped : BOOLEAN]
      BY <1>6, <1>16, CallFields DEF AnswerSearch, At
    <2>2. call'[w] = [c EXCEPT !.at = "answered"]
      BY <1>7, <1>16 DEF AnswerSearch
    <2>3. QED
      BY <1>2, <1>3, <1>16, <2>1, <2>2 DEF AnswerSearch, CallBehind, index, At
  <1>17. QED
    BY <1>2, <1>8, <1>9, <1>10, <1>11, <1>12, <1>13, <1>14, <1>15, <1>16
       DEF Step, LookUp, index

LEMMA FileServer ==
    ASSUME TypeOK, FileInv, Merge \/ Crash
    PROVE  FileInv'
  <1>1. CASE Merge
    <2>1. PICK ix \in SetToSeqs(LiveDocs(writer)) : writer' = ix
      BY <1>1 DEF Merge
    <2>2. {ix[i] : i \in DOMAIN ix} = LiveDocs(writer)
      BY MergeFacts DEF TypeOK
    <2>3. \A i \in DOMAIN ix : \E j \in DOMAIN writer : ix[i] = writer[j]
      BY <2>2 DEF LiveDocs, Live
    <2>4. Behind(ix, file)
      BY <2>3 DEF FileInv, Behind
    <2>5. QED
      BY <1>1, <2>1, <2>4 DEF Merge, FileInv
  <1>2. CASE Crash
    BY <1>2 DEF Crash, FileInv, CallBehind, Idle
  <1>3. QED
    BY <1>1, <1>2

-----------------------------------------------------------------------------
(* What is acknowledged is committed *)

CallKept(c, new, kept) ==
    /\ c.at = "commit" => c.doc.slot \in Slots(new)
    /\ c.at \in {"open", "assign"} => c.doc.slot \in Slots(kept)

DurableInv ==
    /\ Slots(committed) \subseteq Slots(writer)
    /\ \A x \in Worker : CallKept(call[x], writer, committed)
    /\ \A s \in Slot : acked[s] > 0 => s \in Slots(committed)

LEMMA DurableStep ==
    ASSUME TypeOK, DurableInv, NEW w \in Worker, Step(w)
    PROVE  DurableInv'
  <1> DEFINE c == call[w]
  <1>1. /\ c \in Call /\ call \in [Worker -> Call]
        /\ \A d : Become(w, d) => call'[w] = d
        /\ CallKept(c, writer, committed)
    BY DEF TypeOK, Become, DurableInv
  <1>2. c.at \in {"index", "commit", "open"} =>
           /\ c \in [at : {"index", "commit", "open"}, doc : Doc, met : BOOLEAN]
           /\ c.doc \in Doc
    BY <1>1, CallFields
  <1>3. ASSUME Slots(writer) \subseteq Slots(writer'),
               Slots(committed) \subseteq Slots(committed'),
               Slots(committed') \subseteq Slots(writer'),
               CallKept(call'[w], writer', committed'),
               \A s \in Slot : acked'[s] > 0 => s \in Slots(committed')
        PROVE  DurableInv'
    <2>1. \A x \in Worker \ {w} : CallKept(call'[x], writer', committed')
      BY <1>3, OthersUntouched DEF DurableInv, CallKept, Untouched
    <2>2. QED
      BY <1>3, <2>1 DEF DurableInv
  <1>4. ASSUME UNCHANGED <<index, acked>>, CallKept(call'[w], writer, committed)
        PROVE  DurableInv'
    BY <1>3, <1>4 DEF index, DurableInv
  <1>5. ASSUME NEW s \in Slot, Write(w, s) PROVE DurableInv'
    <2>1. call'[w].at = "index"
      BY <1>5, WriteFacts
    <2>2. QED
      BY <1>4, <1>5, <2>1 DEF Write, CallKept
  <1>6. CASE UpdateDocument(w)
    <2>1. call'[w] = [c EXCEPT !.at = "commit"] /\ c.at = "index"
      BY <1>1, <1>6 DEF UpdateDocument, At
    <2>2. Slots(writer') = Slots(writer) \cup {c.doc.slot}
      BY <1>2, <1>6, <2>1, AppendedFacts DEF UpdateDocument, TypeOK
    <2>3. call'[w].at = "commit" /\ call'[w].doc = c.doc
      BY <1>2, <2>1
    <2>4. CallKept(call'[w], writer', committed')
      BY <2>2, <2>3 DEF CallKept
    <2>5. QED
      BY <1>3, <1>6, <2>2, <2>4 DEF UpdateDocument, DurableInv
  <1>7. CASE Commit(w)
    <2>1. call'[w] = [c EXCEPT !.at = "open"] /\ c.at = "commit"
      BY <1>1, <1>7 DEF Commit, At
    <2>2. call'[w].at = "open" /\ call'[w].doc = c.doc
      BY <1>2, <2>1
    <2>3. CallKept(call'[w], writer', committed')
      BY <1>1, <1>7, <2>1, <2>2 DEF CallKept, Commit
    <2>4. QED
      BY <1>3, <1>7, <2>3 DEF Commit, DurableInv
  <1>8. CASE OpenReader(w)
    <2>1. /\ call'[w] = [at |-> "assign", doc |-> c.doc, met |-> c.met,
                         opened |-> writer]
          /\ c.at = "open"
      BY <1>1, <1>8 DEF OpenReader, At
    <2>2. QED
      BY <1>1, <1>4, <1>8, <2>1 DEF OpenReader, CallKept
  <1>9. CASE AssignReader(w)
    <2>1. call'[w] = Idle /\ c.at = "assign"
      BY <1>9, SwappedType DEF AssignReader, At
    <2>2. \A s \in Slot : acked'[s] > 0 => acked[s] > 0 \/ s = c.doc.slot
      BY <1>9 DEF AssignReader, Acknowledge, TypeOK
    <2>3. \A s \in Slot : acked'[s] > 0 => s \in Slots(committed)
      BY <1>1, <2>1, <2>2 DEF CallKept, DurableInv
    <2>4. QED
      BY <1>3, <1>9, <2>1, <2>3 DEF AssignReader, CallKept, Idle, DurableInv
  <1>10. CASE FailUpdate(w)
    BY <1>1, <1>4, <1>10 DEF FailUpdate, CallKept, Idle
  <1>11. CASE Search(w)
    BY <1>1, <1>4, <1>11 DEF Search, CallKept
  <1>12. ASSUME NEW n \in Hits(w), LookUp(w, n) PROVE DurableInv'
    <2>1. CASE n \in DOMAIN reader
      BY <1>4, <1>12, <2>1, LookUpFacts DEF LookUp, CallKept
    <2>2. CASE n \notin DOMAIN reader
      BY <1>1, <1>4, <1>12, <2>2 DEF LookUp, CallKept, Idle
    <2>3. QED
      BY <2>1, <2>2
  <1>13. CASE AnswerSearch(w)
    <2>1. c \in [at : {"lookup", "answered"}, hits : SUBSET (Nat \ {0}),
                 found : SUBSET ((Nat \ {0}) \X Slot),
                 expected : SUBSET Slot, swapped : BOOLEAN]
      BY <1>1, <1>13, CallFields DEF AnswerSearch, At
    <2>2. call'[w].at = "answered"
      BY <1>1, <1>13, <2>1 DEF AnswerSearch
    <2>3. QED
      BY <1>4, <1>13, <2>2 DEF AnswerSearch, CallKept
  <1>14. QED
    BY <1>5, <1>6, <1>7, <1>8, <1>9, <1>10, <1>11, <1>12, <1>13 DEF Step

LEMMA DurableServer ==
    ASSUME TypeOK, DurableInv, Merge \/ Crash
    PROVE  DurableInv'
  <1>1. CASE Merge
    <2>1. Slots(writer') = Slots(writer)
      BY <1>1, MergeFacts DEF Merge, TypeOK
    <2>2. QED
      BY <1>1, <2>1 DEF Merge, DurableInv, CallKept
  <1>2. CASE Crash
    BY <1>2 DEF Crash, DurableInv, CallKept, Idle
  <1>3. QED
    BY <1>1, <1>2

-----------------------------------------------------------------------------
(* Searches *)

\* What a search has found and what it has still to look up are the live
\* documents of the reader, as long as that is the reader it searched.
Searching(c, ix) ==
    c.at = "lookup" /\ ~c.swapped =>
        /\ c.expected = Found(ix)
        /\ c.hits \cup {hit[1] : hit \in c.found} = Live(ix)
        /\ \A hit \in c.found : hit[2] = ix[hit[1]].slot

Answered(c) ==
    c.at = "answered" /\ ~c.swapped =>
        /\ {hit[2] : hit \in c.found} = c.expected
        /\ \A h, i \in c.found : h[2] = i[2] => h = i

SearchInv == \A x \in Worker : Searching(call[x], reader) /\ Answered(call[x])

LEMMA AnswerIsExact ==
    ASSUME NEW c \in Call, NEW ix \in Index, Searching(c, ix),
           c.at = "lookup", ~c.swapped, c.hits = {}
    PROVE  /\ {hit[2] : hit \in c.found} = c.expected
           /\ \A h, i \in c.found : h[2] = i[2] => h = i
  <1>1. /\ c.found \subseteq (Nat \ {0}) \X Slot
        /\ c.expected = Found(ix)
        /\ {hit[1] : hit \in c.found} = Live(ix)
        /\ \A hit \in c.found : hit[2] = ix[hit[1]].slot
    BY CallFields DEF Searching
  <1>2. {hit[2] : hit \in c.found} = {ix[n].slot : n \in Live(ix)}
    BY <1>1
  <1>3. Found(ix) = {ix[n].slot : n \in Live(ix)}
    BY DEF Found, LiveDocs
  <1>4. ASSUME NEW h \in c.found, NEW i \in c.found, h[2] = i[2]
        PROVE  h = i
    <2>1. /\ h[1] \in Live(ix) /\ i[1] \in Live(ix)
          /\ ix[h[1]].slot = ix[i[1]].slot
      BY <1>1, <1>4
    <2>2. h[1] = i[1]
      BY <2>1, LiveType DEF Live
    <2>3. QED
      BY <1>1, <1>4, <2>2
  <1>5. QED
    BY <1>1, <1>2, <1>3, <1>4

LEMMA SearchStep ==
    ASSUME TypeOK, SearchInv, NEW w \in Worker, Step(w)
    PROVE  SearchInv'
  <1> DEFINE c == call[w]
  <1>1. /\ c \in Call /\ call \in [Worker -> Call] /\ reader \in Index
        /\ \A d : Become(w, d) => call'[w] = d
        /\ Searching(c, reader) /\ Answered(c)
    BY DEF TypeOK, Become, SearchInv
  <1>2. \A x \in Worker \ {w} : Answered(call'[x])
    BY OthersUntouched DEF SearchInv, Answered, Untouched
  <1>3. ASSUME reader' = reader, Searching(call'[w], reader), Answered(call'[w])
        PROVE  SearchInv'
    <2>1. \A x \in Worker \ {w} : Searching(call'[x], reader)
      BY OthersUntouched DEF SearchInv, Searching, Untouched
    <2>2. QED
      BY <1>2, <1>3, <2>1 DEF SearchInv
  <1>4. ASSUME reader' = reader, call'[w].at \notin {"lookup", "answered"}
        PROVE  SearchInv'
    BY <1>3, <1>4 DEF Searching, Answered
  <1>5. ASSUME NEW s \in Slot, Write(w, s) PROVE SearchInv'
    BY <1>4, <1>5, WriteFacts DEF Write, index
  <1>6. CASE UpdateDocument(w) \/ Commit(w) \/ OpenReader(w)
    <2>1. call'[w].at \in {"commit", "open", "assign"}
      <3>1. c \in [at : {"index", "commit", "open"}, doc : Doc, met : BOOLEAN]
        BY <1>1, <1>6, CallFields DEF UpdateDocument, Commit, OpenReader, At
      <3>2. QED
        BY <1>1, <1>6, <3>1 DEF UpdateDocument, Commit, OpenReader
    <2>2. QED
      BY <1>4, <1>6, <2>1 DEF UpdateDocument, Commit, OpenReader, index
  <1>7. CASE AssignReader(w)
    <2>1. call'[w] = Idle
      BY <1>7, SwappedType DEF AssignReader
    <2>2. \A x \in Worker \ {w} : Searching(call'[x], reader')
      BY <1>7, SwappedType DEF AssignReader, Searching, At
    <2>3. QED
      BY <1>2, <2>1, <2>2 DEF SearchInv, Searching, Answered, Idle
  <1>8. CASE FailUpdate(w)
    BY <1>1, <1>4, <1>8 DEF FailUpdate, Idle, index
  <1>9. CASE Search(w)
    <2>1. call'[w] = [at |-> "lookup", hits |-> Live(reader), found |-> {},
                      expected |-> Found(reader), swapped |-> FALSE]
      BY <1>1, <1>9 DEF Search
    <2>2. Searching(call'[w], reader) /\ Answered(call'[w])
      BY <2>1 DEF Searching, Answered
    <2>3. QED
      BY <1>3, <1>9, <2>2 DEF Search, index
  <1>10. ASSUME NEW n \in Hits(w), LookUp(w, n) PROVE SearchInv'
    <2>1. CASE n \in DOMAIN reader
      <3> DEFINE d == call'[w]
                 pair == <<n, reader[n].slot>>
      <3>1. /\ d.at = "lookup" /\ d.hits = c.hits \ {n}
            /\ d.found = c.found \cup {pair}
            /\ d.expected = c.expected /\ d.swapped = c.swapped
            /\ n \in c.hits /\ c.at = "lookup" /\ reader' = reader
        BY <1>10, <2>1, LookUpFacts DEF LookUp, Hits, At, index
      <3>2. pair[1] = n /\ pair[2] = reader[n].slot
        OBVIOUS
      <3> HIDE DEF d, pair
      <3>3. Searching(d, reader)
        <4>1. CASE ~c.swapped
          <5>1. {hit[1] : hit \in d.found} = {hit[1] : hit \in c.found} \cup {n}
            BY <3>1, <3>2
          <5>2. QED
            BY <1>1, <3>1, <3>2, <4>1, <5>1 DEF Searching
        <4>2. CASE c.swapped
          BY <3>1, <4>2 DEF Searching
        <4>3. QED
          BY <4>1, <4>2
      <3>4. QED
        BY <1>3, <3>1, <3>3 DEF Answered, d
    <2>2. CASE n \notin DOMAIN reader
      BY <1>1, <1>4, <1>10, <2>2 DEF LookUp, Idle, index
    <2>3. QED
      BY <2>1, <2>2
  <1>11. CASE AnswerSearch(w)
    <2>1. c \in [at : {"lookup", "answered"}, hits : SUBSET (Nat \ {0}),
                 found : SUBSET ((Nat \ {0}) \X Slot),
                 expected : SUBSET Slot, swapped : BOOLEAN]
      BY <1>1, <1>11, CallFields DEF AnswerSearch, At
    <2>2. /\ call'[w].at = "answered" /\ call'[w].found = c.found
          /\ call'[w].expected = c.expected /\ call'[w].swapped = c.swapped
          /\ c.at = "lookup" /\ c.hits = {} /\ reader' = reader
      BY <1>1, <1>11, <2>1 DEF AnswerSearch, At, index
    <2>3. Answered(call'[w])
      BY <1>1, <2>2, AnswerIsExact DEF Answered
    <2>4. QED
      BY <1>3, <2>2, <2>3 DEF Searching
  <1>12. QED
    BY <1>5, <1>6, <1>7, <1>8, <1>9, <1>10, <1>11 DEF Step

LEMMA SearchServer ==
    ASSUME SearchInv, Merge \/ Crash
    PROVE  SearchInv'
  BY DEF SearchInv, Merge, Crash, Searching, Answered, Idle

-----------------------------------------------------------------------------
(* What is acknowledged, and did not meet another update, is found *)

\* Every acknowledged content, but for that of the stale entries, or a younger
\* one of its entry is live in an index.
Fresh(ix, acks, stale) ==
    \A s \in Slot \ stale : acks[s] > 0 =>
        \E d \in LiveDocs(ix) : d.slot = s /\ d.version >= acks[s]

CallFresh(c, acks, stale) ==
    /\ /\ c.at \in {"index", "commit", "open", "assign"}
       /\ c.doc.slot \notin stale \/ ~c.met
       => c.doc.version >= acks[c.doc.slot]
    /\ c.at = "assign" => Fresh(c.opened, acks, stale)

\* An update that has met no other is alone, and its document is live wherever
\* it has got.
Alone(w) ==
    LET c == call[w]
    IN Updating(w) /\ ~c.met =>
          /\ \A x \in Worker \ {w} : ~Updating(x)
          /\ c.at \in {"commit", "open", "assign"} => c.doc \in LiveDocs(writer)
          /\ c.at \in {"open", "assign"} => c.doc \in LiveDocs(committed)
          /\ c.at = "assign" => c.doc \in LiveDocs(c.opened)

FreshInv ==
    /\ \A s \in Slot : acked[s] <= updates
    /\ Fresh(writer, acked, raced) /\ Fresh(committed, acked, raced)
    /\ Fresh(reader, acked, raced)
    /\ \A x \in Worker : CallFresh(call[x], acked, raced) /\ Alone(x)

LEMMA AppendedLive ==
    ASSUME NEW ix \in Index, NEW d \in Doc
    PROVE  /\ d \in LiveDocs(Append(ix, d))
           /\ \A e \in LiveDocs(ix) :
                 e.slot # d.slot => e \in LiveDocs(Append(ix, d))
  <1> DEFINE t == Append(ix, d)
             n == Len(ix)
  <1>1. /\ n \in Nat /\ DOMAIN ix = 1..n /\ DOMAIN t = 1..n + 1 /\ t[n + 1] = d
        /\ \A i \in 1..n : t[i] = ix[i]
    BY AppendProperties, LenProperties, IndexFacts DEF Index
  <1> HIDE DEF t, n
  <1>2. n + 1 \in Live(t)
    BY <1>1 DEF Live
  <1>3. ASSUME NEW i \in Live(ix), ix[i].slot # d.slot
        PROVE  i \in Live(t) /\ t[i] = ix[i]
    BY <1>1, <1>3 DEF Live
  <1>4. QED
    BY <1>1, <1>2, <1>3 DEF LiveDocs, t

LEMMA MergedLive ==
    ASSUME NEW ix \in Index, NEW merged \in SetToSeqs(LiveDocs(ix))
    PROVE  LiveDocs(merged) = LiveDocs(ix)
  <1>1. /\ merged \in Index
        /\ {merged[i] : i \in DOMAIN merged} = LiveDocs(ix)
    BY MergeFacts
  <1>2. \A d, e \in LiveDocs(ix) : d.slot = e.slot => d = e
    BY IndexFacts DEF LiveDocs, Live
  <1>3. \A i, j \in DOMAIN merged : i # j => merged[i] # merged[j]
    BY DEF SetToSeqs
  <1>4. Live(merged) = DOMAIN merged
    <2>1. ASSUME NEW i \in DOMAIN merged, NEW j \in DOMAIN merged, j > i
          PROVE  merged[j].slot # merged[i].slot
      <3>1. merged[i] \in LiveDocs(ix) /\ merged[j] \in LiveDocs(ix)
        BY <1>1
      <3>2. i # j
        BY <1>1, <2>1, IndexFacts
      <3>3. QED
        BY <1>2, <1>3, <3>1, <3>2
    <2>2. QED
      BY <2>1 DEF Live
  <1>5. QED
    BY <1>1, <1>4 DEF LiveDocs

\* A worker that is alone and updates has no other beside it.
LEMMA AloneFacts ==
    ASSUME TypeOK, FreshInv, NEW w \in Worker, Step(w), Updating(w),
           NEW x \in Worker \ {w}
    PROVE  /\ Updating(x) => call[x].met
           /\ Alone(x)'
  <1>1. Updating(x) => call[x].met
    BY DEF FreshInv, Alone
  <1>2. Untouched(call[x], call'[x])
    BY OthersUntouched
  <1>3. QED
    BY <1>1, <1>2 DEF Alone, Updating, Untouched

\* A step that acknowledges nothing: what is left to show.
LEMMA UnackedFresh ==
    ASSUME TypeOK, FreshInv, NEW w \in Worker, Step(w),
           UNCHANGED <<acked, raced>>, updates <= updates', updates' \in Nat,
           Fresh(writer', acked, raced), Fresh(committed', acked, raced),
           Fresh(reader', acked, raced),
           CallFresh(call'[w], acked, raced), Alone(w)',
           \A x \in Worker \ {w} : Alone(x)'
    PROVE  FreshInv'
  <1>1. \A s \in Slot : acked'[s] <= updates'
    BY DEF TypeOK, FreshInv
  <1>2. ASSUME NEW x \in Worker \ {w}
        PROVE  CallFresh(call'[x], acked, raced)
    BY OthersUntouched DEF FreshInv, CallFresh, Untouched
  <1>3. QED
    BY <1>1, <1>2 DEF FreshInv

\* A step of a worker that does not update.
LEMMA IdleFresh ==
    ASSUME TypeOK, FreshInv, NEW w \in Worker, Step(w),
           UNCHANGED <<writer, committed, reader, updates, acked, raced>>,
           ~Updating(w), ~Updating(w)'
    PROVE  FreshInv'
  <1>1. \A x \in Worker \ {w} : Untouched(call[x], call'[x])
    BY OthersUntouched
  <1>2. \A x \in Worker \ {w} : Alone(x)'
    BY <1>1 DEF FreshInv, Alone, Updating, Untouched
  <1>3. CallFresh(call'[w], acked, raced) /\ Alone(w)'
    BY DEF CallFresh, Alone, Updating
  <1>4. updates <= updates' /\ updates' \in Nat
    BY DEF TypeOK
  <1>5. QED
    BY <1>2, <1>3, <1>4, UnackedFresh DEF FreshInv

LEMMA FreshWrite ==
    ASSUME TypeOK, FreshInv, NEW w \in Worker, NEW s \in Slot, Write(w, s)
    PROVE  FreshInv'
  <1> DEFINE d == [slot |-> s, version |-> updates + 1]
  <1>1. /\ updates' = updates + 1 /\ call'[w].at = "index" /\ call'[w].doc = d
        /\ ~call'[w].met => \A x \in Worker : ~Updating(x)
        /\ UNCHANGED <<writer, committed, reader, acked, raced>>
    BY WriteFacts DEF Write, index
  <1>2. \A x \in Worker \ {w} : Updating(x)' => Updating(x) /\ call'[x].met
    <2>1. ASSUME NEW x \in Worker \ {w}, ~Updating(x), call'[x] = call[x]
          PROVE  ~Updating(x)'
      BY <2>1 DEF Updating
    <2>2. ASSUME NEW x \in Worker \ {w}, Updating(x),
                 call'[x] = [call[x] EXCEPT !.met = TRUE]
          PROVE  call'[x].met
      <3>1. call[x] \in [at : {"index", "commit", "open"}, doc : Doc, met : BOOLEAN]
            \/ call[x] \in [at : {"assign"}, doc : Doc, met : BOOLEAN,
                            opened : Index]
        BY <2>2, CallFields DEF Updating, TypeOK
      <3>2. QED
        BY <2>2, <3>1
    <2>3. QED
      BY <2>1, <2>2, WriteFacts
  <1>3. updates \in Nat /\ \A t \in Slot : acked[t] \in Nat /\ acked[t] <= updates
    BY DEF TypeOK, FreshInv
  <1>4. CallFresh(call'[w], acked, raced)
    BY <1>1, <1>3 DEF CallFresh
  <1>5. Alone(w)' /\ \A x \in Worker \ {w} : Alone(x)'
    BY <1>1, <1>2 DEF Alone
  <1>6. QED
    BY <1>1, <1>3, <1>4, <1>5, UnackedFresh DEF Step, FreshInv

\* The steps of an update that are taken in the index.
LEMMA FreshIndex ==
    ASSUME TypeOK, FreshInv, NEW w \in Worker,
           UpdateDocument(w) \/ Commit(w) \/ OpenReader(w)
    PROVE  FreshInv'
  <1> DEFINE c == call[w]
  <1>1. /\ c \in [at : {"index", "commit", "open"}, doc : Doc, met : BOOLEAN]
        /\ c.doc \in Doc /\ Updating(w) /\ Step(w)
    BY CallFields DEF UpdateDocument, Commit, OpenReader, At, TypeOK, Updating, Step
  <1>2. /\ UNCHANGED <<reader, acked, raced>>
        /\ updates <= updates' /\ updates' \in Nat
    BY DEF UpdateDocument, Commit, OpenReader, TypeOK, index
  <1>3. \A x \in Worker \ {w} : Alone(x)' /\ (Updating(x) => call[x].met)
    BY <1>1, AloneFacts
  <1>4. ~c.met => \A x \in Worker \ {w} : ~Updating(x)'
    <2>1. ~c.met => \A x \in Worker \ {w} : ~Updating(x)
      BY <1>1 DEF FreshInv, Alone
    <2>2. \A x \in Worker \ {w} : Untouched(call[x], call'[x])
      BY <1>1, OthersUntouched
    <2>3. QED
      BY <2>1, <2>2 DEF Updating, Untouched
  <1>5. /\ Fresh(writer, acked, raced) /\ Fresh(committed, acked, raced)
        /\ Fresh(reader, acked, raced) /\ Alone(w)
        /\ c.doc.slot \notin raced \/ ~c.met => c.doc.version >= acked[c.doc.slot]
    BY <1>1 DEF FreshInv, CallFresh
  <1>6. \A d : Become(w, d) => call'[w] = d
    BY DEF Become, TypeOK
  <1>7. CASE UpdateDocument(w)
    <2>1. /\ call'[w].at = "commit" /\ call'[w].doc = c.doc /\ call'[w].met = c.met
          /\ writer' = Append(writer, c.doc) /\ committed' = committed
      BY <1>1, <1>6, <1>7 DEF UpdateDocument
    <2>2. /\ c.doc \in LiveDocs(writer')
          /\ \A e \in LiveDocs(writer) :
                e.slot # c.doc.slot => e \in LiveDocs(writer')
      BY <1>1, <2>1, AppendedLive DEF TypeOK
    <2>3. Fresh(writer', acked, raced)
      BY <1>5, <2>2 DEF Fresh
    <2>4. CallFresh(call'[w], acked, raced) /\ Alone(w)'
      BY <1>4, <1>5, <2>1, <2>2 DEF CallFresh, Alone
    <2>5. QED
      BY <1>1, <1>2, <1>3, <1>5, <2>1, <2>3, <2>4, UnackedFresh
  <1>8. CASE Commit(w)
    <2>1. /\ call'[w].at = "open" /\ call'[w].doc = c.doc /\ call'[w].met = c.met
          /\ writer' = writer /\ committed' = writer /\ c.at = "commit"
      BY <1>1, <1>6, <1>8 DEF Commit, At
    <2>2. CallFresh(call'[w], acked, raced) /\ Alone(w)'
      BY <1>1, <1>4, <1>5, <2>1 DEF CallFresh, Alone
    <2>3. QED
      BY <1>1, <1>2, <1>3, <1>5, <2>1, <2>2, UnackedFresh
  <1>9. CASE OpenReader(w)
    <2>1. /\ call'[w].at = "assign" /\ call'[w].doc = c.doc /\ call'[w].met = c.met
          /\ call'[w].opened = writer
          /\ writer' = writer /\ committed' = committed /\ c.at = "open"
      BY <1>1, <1>6, <1>9 DEF OpenReader, At, index
    <2>2. CallFresh(call'[w], acked, raced) /\ Alone(w)'
      BY <1>1, <1>4, <1>5, <2>1 DEF CallFresh, Alone
    <2>3. QED
      BY <1>1, <1>2, <1>3, <1>5, <2>1, <2>2, UnackedFresh
  <1>10. QED
    BY <1>7, <1>8, <1>9

\* The acknowledgement: the reader becomes what was opened, and the entry is as
\* found there unless its update met another.
LEMMA FreshAssign ==
    ASSUME TypeOK, FileInv, FreshInv, NEW w \in Worker, AssignReader(w)
    PROVE  FreshInv'
  <1> DEFINE c == call[w]
             s == c.doc.slot
             v == c.doc.version
  <1>1. /\ c \in Call /\ c.at = "assign" /\ c.doc \in Doc /\ Updating(w) /\ Step(w)
        /\ s \in Slot /\ v \in Nat
    <2>1. c \in Call /\ c.at = "assign" /\ Updating(w) /\ Step(w)
      BY DEF AssignReader, At, TypeOK, Updating, Step
    <2>2. c.doc \in Doc
      BY <2>1, CallFields
    <2>3. QED
      BY <2>1, <2>2, BoundAssumption DEF Doc
  <1>2. /\ UNCHANGED <<writer, committed, updates>> /\ reader' = c.opened
        /\ acked' = [acked EXCEPT ![s] = IF @ < v THEN v ELSE @]
        /\ raced' = IF c.met THEN raced \cup {s} ELSE raced \ {s}
        /\ call'[w] = Idle
    BY SwappedType DEF AssignReader, Acknowledge
  <1>3. /\ acked \in [Slot -> Nat] /\ updates \in Nat
        /\ \A t \in Slot : acked[t] <= updates
    BY DEF TypeOK, FreshInv
  <1>4. v <= updates
    <2>1. v <= file[s] /\ file[s] <= updates
      BY <1>1 DEF FileInv, CallBehind
    <2>2. QED
      BY <1>1, <1>3, <2>1 DEF TypeOK
  <1>5. /\ Fresh(writer, acked, raced) /\ Fresh(committed, acked, raced)
        /\ Fresh(c.opened, acked, raced) /\ Alone(w)
        /\ ~c.met => v >= acked[s]
    BY <1>1 DEF FreshInv, CallFresh
  <1> HIDE DEF c, s, v
  <1>6. \A t \in Slot \ {s} : acked'[t] = acked[t]
    BY <1>1, <1>2, <1>3
  <1>7. acked'[s] = IF acked[s] < v THEN v ELSE acked[s]
    BY <1>1, <1>2, <1>3
  <1>8. \A t \in Slot : acked'[t] <= updates'
    BY <1>1, <1>2, <1>3, <1>4, <1>6, <1>7
  <1>9. ASSUME NEW ix, Fresh(ix, acked, raced), ~c.met => c.doc \in LiveDocs(ix)
        PROVE  Fresh(ix, acked', raced')
    <2>1. CASE c.met
      BY <1>2, <1>6, <1>9, <2>1 DEF Fresh
    <2>2. CASE ~c.met
      <3>1. acked'[s] = v
        BY <1>1, <1>3, <1>5, <1>7, <2>2
      <3>2. \E d \in LiveDocs(ix) : d.slot = s /\ d.version >= acked'[s]
        BY <1>1, <1>9, <2>2, <3>1 DEF s, v
      <3>3. QED
        BY <1>2, <1>6, <1>9, <2>2, <3>2 DEF Fresh
    <2>3. QED
      BY <2>1, <2>2
  <1>10. ~c.met => /\ c.doc \in LiveDocs(writer) /\ c.doc \in LiveDocs(committed)
                   /\ c.doc \in LiveDocs(c.opened)
                   /\ \A x \in Worker \ {w} : ~Updating(x)
    BY <1>1, <1>5 DEF Alone, c
  <1>11. /\ Fresh(writer', acked', raced') /\ Fresh(committed', acked', raced')
         /\ Fresh(reader', acked', raced')
    BY <1>2, <1>5, <1>9, <1>10
  <1>12. CallFresh(call'[w], acked', raced') /\ Alone(w)'
    BY <1>2 DEF Idle, CallFresh, Alone, Updating
  <1>13. ASSUME NEW x \in Worker \ {w}
         PROVE  CallFresh(call'[x], acked', raced') /\ Alone(x)'
    <2>1. Alone(x)' /\ (Updating(x) => call[x].met)
      BY <1>1, AloneFacts
    <2>2. Untouched(call[x], call'[x]) /\ CallFresh(call[x], acked, raced)
      BY <1>1, OthersUntouched DEF FreshInv
    <2>3. CASE Updating(x)
      <3>1. /\ c.met /\ raced' = raced \cup {s}
            /\ call'[x].doc = call[x].doc /\ call'[x].at = call[x].at
            /\ call'[x].met /\ call[x].met
            /\ call[x].at = "assign" => call'[x].opened = call[x].opened
        BY <1>2, <1>10, <2>1, <2>2, <2>3 DEF Updating, Untouched
      <3>2. call[x].doc.slot \in Slot
        BY <2>3, CallFields DEF Updating, TypeOK, Doc
      <3>3. call[x].at = "assign" => Fresh(call'[x].opened, acked', raced')
        BY <1>9, <2>2, <3>1 DEF CallFresh
      <3>4. call'[x].doc.slot \notin raced' => call'[x].doc.version >= acked'[call'[x].doc.slot]
        BY <1>6, <2>2, <2>3, <3>1, <3>2 DEF CallFresh, Updating
      <3>5. QED
        BY <2>1, <3>1, <3>3, <3>4 DEF CallFresh
    <2>4. CASE ~Updating(x)
      BY <2>1, <2>2, <2>4 DEF Updating, Untouched, CallFresh
    <2>5. QED
      BY <2>3, <2>4
  <1>14. QED
    BY <1>8, <1>11, <1>12, <1>13 DEF FreshInv

LEMMA FreshStep ==
    ASSUME TypeOK, FileInv, FreshInv, NEW w \in Worker, Step(w)
    PROVE  FreshInv'
  <1>1. call[w] \in Call /\ \A d : Become(w, d) => call'[w] = d
    BY DEF TypeOK, Become
  <1>2. CASE FailUpdate(w)
    <2>1. Updating(w) /\ ~Updating(w)'
      BY <1>1, <1>2 DEF FailUpdate, Idle, Updating
    <2>2. CallFresh(call'[w], acked, raced) /\ Alone(w)'
      BY <2>1 DEF CallFresh, Alone, Updating
    <2>3. /\ UNCHANGED <<writer, committed, reader, acked, raced>>
          /\ updates <= updates' /\ updates' \in Nat
      BY <1>2 DEF FailUpdate, index, TypeOK
    <2>4. \A x \in Worker \ {w} : Alone(x)'
      BY <2>1, AloneFacts
    <2>5. QED
      BY <2>2, <2>3, <2>4, UnackedFresh DEF FreshInv
  <1>3. CASE Search(w)
    BY <1>1, <1>3, IdleFresh DEF Search, index, Updating, Free
  <1>4. ASSUME NEW n \in Hits(w), LookUp(w, n) PROVE FreshInv'
    <2>1. call'[w].at \in {"lookup", "idle"}
      <3>1. CASE n \in DOMAIN reader
        BY <1>4, <3>1, LookUpFacts
      <3>2. CASE n \notin DOMAIN reader
        BY <1>1, <1>4, <3>2 DEF LookUp, Idle
      <3>3. QED
        BY <3>1, <3>2
    <2>2. QED
      BY <1>4, <2>1, IdleFresh DEF LookUp, index, Updating, At
  <1>5. CASE AnswerSearch(w)
    <2>1. call[w] \in [at : {"lookup", "answered"}, hits : SUBSET (Nat \ {0}),
                       found : SUBSET ((Nat \ {0}) \X Slot),
                       expected : SUBSET Slot, swapped : BOOLEAN]
      BY <1>1, <1>5, CallFields DEF AnswerSearch, At
    <2>2. call'[w].at = "answered"
      BY <1>1, <1>5, <2>1 DEF AnswerSearch
    <2>3. QED
      BY <1>5, <2>2, IdleFresh DEF AnswerSearch, index, Updating, At
  <1>6. QED
    BY <1>2, <1>3, <1>4, <1>5, FreshWrite, FreshIndex, FreshAssign DEF Step

LEMMA FreshServer ==
    ASSUME TypeOK, FreshInv, Merge \/ Crash
    PROVE  FreshInv'
  <1>1. CASE Merge
    <2>1. LiveDocs(writer') = LiveDocs(writer)
      BY <1>1, MergedLive DEF Merge, TypeOK
    <2>2. QED
      BY <1>1, <2>1 DEF Merge, FreshInv, Fresh, Alone, Updating
  <1>2. CASE Crash
    BY <1>2 DEF Crash, FreshInv, CallFresh, Alone, Updating, Idle
  <1>3. QED
    BY <1>1, <1>2

-----------------------------------------------------------------------------
(* The theorems *)

SafetyInv == TypeOK /\ FileInv /\ DurableInv /\ SearchInv /\ FreshInv

LEMMA SafetyInvHolds == Spec => []SafetyInv
  <1>1. Init => SafetyInv
    <2> SUFFICES ASSUME Init PROVE SafetyInv
      OBVIOUS
    <2>1. <<>> \in Index /\ DOMAIN <<>> = {}
      BY DEF Index
    <2>2. TypeOK
      BY <2>1, IdleType, BoundAssumption DEF Init, TypeOK
    <2>3. FileInv /\ SearchInv
      BY <2>1 DEF Init, FileInv, Behind, CallBehind, SearchInv, Searching,
                  Answered, Idle
    <2>4. DurableInv /\ FreshInv
      BY <2>1 DEF Init, DurableInv, CallKept, Slots, FreshInv, Fresh, CallFresh,
                  Alone, Updating, Idle
    <2>5. QED
      BY <2>2, <2>3, <2>4 DEF SafetyInv
  <1>2. SafetyInv /\ [Next]_vars => SafetyInv'
    <2> SUFFICES ASSUME SafetyInv, [Next]_vars PROVE SafetyInv'
      OBVIOUS
    <2>1. ASSUME NEW w \in Worker, Step(w) PROVE SafetyInv'
      BY <2>1, StepType, FileStep, DurableStep, SearchStep, FreshStep DEF SafetyInv
    <2>2. CASE Merge \/ Crash
      BY <2>2, ServerType, FileServer, DurableServer, SearchServer, FreshServer
         DEF SafetyInv
    <2>3. CASE UNCHANGED vars
      BY <2>3 DEF vars, index, SafetyInv, TypeOK, FileInv, DurableInv, SearchInv,
                  FreshInv, Alone, Updating
    <2>4. QED
      BY <2>1, <2>2, <2>3 DEF Next
  <1>3. QED
    BY <1>1, <1>2, PTL DEF Spec

\* The state keeps its types: what a call holds goes with where it is
\* (LuceneStorage.java:584-615, :239-270).
THEOREM TypeCorrect == Spec => []TypeOK
  <1>1. SafetyInv => TypeOK
    BY DEF SafetyInv
  <1>2. QED
    BY <1>1, SafetyInvHolds, PTL

\* The index never knows an entry whose file has not been written, and so a
\* search returns none (LuceneStorage.java:600-607, :251-268).
THEOREM IndexBehindFileHolds == Spec => []IndexBehindFile
  <1>1. SafetyInv => IndexBehindFile
    BY DEF SafetyInv, FileInv, Behind, CallBehind, IndexBehindFile, At
  <1>2. QED
    BY <1>1, SafetyInvHolds, PTL

\* What was acknowledged is found after a crash (LuceneStorage.java:606).
THEOREM AcknowledgedIsDurableHolds == Spec => []AcknowledgedIsDurable
  <1>1. SafetyInv => AcknowledgedIsDurable
    BY FoundIsSlots DEF SafetyInv, TypeOK, DurableInv, AcknowledgedIsDurable
  <1>2. QED
    BY <1>1, SafetyInvHolds, PTL

\* What was acknowledged, and whose update met no other, is found by the next
\* search (LuceneStorage.java:139-141, :603-607).
THEOREM AcknowledgedIsFoundHolds == Spec => []AcknowledgedIsFound
  <1>1. SafetyInv => AcknowledgedIsFound
    BY DEF SafetyInv, FreshInv, Fresh, AcknowledgedIsFound
  <1>2. QED
    BY <1>1, SafetyInvHolds, PTL

\* A search that sees one reader from end to end is exact
\* (LuceneStorage.java:251, :261).
THEOREM FoundOnceHolds == Spec => []FoundOnce
  <1>1. SafetyInv => FoundOnce
    BY DEF SafetyInv, SearchInv, Answered, FoundOnce, At
  <1>2. QED
    BY <1>1, SafetyInvHolds, PTL

=============================================================================
