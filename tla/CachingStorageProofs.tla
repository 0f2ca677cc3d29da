------------------------ MODULE CachingStorageProofs ------------------------
(***************************************************************************)
(* Theorems about CachingStorage, for any number of threads, feeds, reads   *)
(* and updates, and whatever the map evicts.                                *)
(***************************************************************************)
EXTENDS CachingStorage, TLAPS

-----------------------------------------------------------------------------
(* Type correctness *)

LEMMA CurrentType ==
    ASSUME TypeOK, NEW k \in Key
    PROVE  Current(k) \in Value
  BY VersionAssumption DEF TypeOK, Current, Content, Value

LEMMA BeginType ==
    ASSUME TypeOK, NEW w \in Worker, NEW k \in Key, Begin(w, k)
    PROVE  /\ read' \in [Worker -> [key : Key, open : BOOLEAN, may : SUBSET Value,
                              answer : Value \cup {Failed, Unanswered, Null}]]
           /\ version' = version
  BY CurrentType DEF TypeOK, Begin

LEMMA AnswerType ==
    ASSUME TypeOK, NEW w \in Worker, NEW v \in Value \cup {Failed, Null},
           Answer(w, v)
    PROVE  read' \in [Worker -> [key : Key, open : BOOLEAN, may : SUBSET Value,
                              answer : Value \cup {Failed, Unanswered, Null}]]
  BY DEF TypeOK, Answer

LEMMA UpdateType ==
    ASSUME TypeOK, NEW f \in Feed, Update(f)
    PROVE  /\ version' \in [Feed -> 0..MaxVersion]
           /\ read' \in [Worker -> [key : Key, open : BOOLEAN, may : SUBSET Value,
                              answer : Value \cup {Failed, Unanswered, Null}]]
  <1>1. version' \in [Feed -> 0..MaxVersion]
    BY VersionAssumption DEF TypeOK, Update
  <1>2. \A k \in Key : Content(k, version') \in Value
    BY <1>1, VersionAssumption DEF Content, Value
  <1>3. \A w \in Worker :
           [read[w] EXCEPT !.may = @ \cup {Content(read[w].key, version')}]
             \in [key : Key, open : BOOLEAN, may : SUBSET Value,
                  answer : Value \cup {Failed, Unanswered, Null}]
    BY <1>2 DEF TypeOK
  <1>4. QED
    BY <1>1, <1>3 DEF Update, TypeOK

LEMMA BecomeType ==
    ASSUME TypeOK, NEW w \in Worker, NEW c \in Call, Become(w, c)
    PROVE  /\ call' \in [Worker -> Call]
           /\ call'[w] = c
           /\ \A v \in Worker \ {w} : call'[v] = call[v]
  BY DEF TypeOK, Become

\* The fields of a call at each of its labels.
LEMMA CallFields ==
    ASSUME TypeOK, NEW w \in Worker
    PROVE  /\ At(w, "put") => call[w].got \in Value
           /\ At(w, "updated") => call[w].feed \in Feed
           /\ At(w, "purge") =>
                 /\ call[w] = [at |-> "purge", feed |-> call[w].feed,
                               todo |-> call[w].todo]
                 /\ call[w].feed \in Feed
                 /\ call[w].todo \in SUBSET Key
           /\ read[w].key \in Key
  BY DEF TypeOK, At, Call

LEMMA IdleType == Idle \in Call
  BY DEF Idle, Call

LEMMA StepType ==
    ASSUME TypeOK, NEW w \in Worker, Step(w)
    PROVE  TypeOK'
  <1>1. ASSUME NEW k \in Key, LookUp(w, k)
        PROVE  TypeOK'
    <2>1. [at |-> IF Cached(k) THEN "hit" ELSE "miss"] \in Call
      BY DEF Call
    <2>2. QED
      BY <1>1, <2>1, BecomeType, BeginType DEF LookUp, TypeOK
  <1>2. CASE Hit(w)
    <2> DEFINE v == IF Cached(read[w].key) THEN cache[read[w].key] ELSE Null
    <2>1. v \in Value \cup {Failed, Null}
      BY CallFields DEF TypeOK, Cached
    <2>2. QED
      BY <1>2, <2>1, IdleType, BecomeType, AnswerType DEF Hit, TypeOK
  <1>3. CASE Fetch(w)
    <2> DEFINE v == Current(read[w].key)
    <2>1. v \in Value
      BY CallFields, CurrentType
    <2>2. [at |-> "put", got |-> v] \in Call
      BY <2>1 DEF Call
    <2>3. CASE NotFound(read[w].key, v)
      BY <1>3, <2>1, <2>3, IdleType, BecomeType, AnswerType DEF Fetch, TypeOK
    <2>4. CASE ~NotFound(read[w].key, v)
      BY <1>3, <2>2, <2>4, BecomeType DEF Fetch, TypeOK
    <2>5. QED
      BY <2>3, <2>4
  <1>4. CASE FailFetch(w)
    BY <1>4, IdleType, BecomeType, AnswerType DEF FailFetch, TypeOK
  <1>5. CASE Put(w)
    <2> DEFINE k == read[w].key
               v == call[w].got
    <2>1. k \in Key /\ v \in Value
      BY <1>5, CallFields DEF Put
    <2>2. cache' \in [Key -> Value \cup {Empty}]
      BY <1>5, <2>1 DEF Put, TypeOK
    <2>3. tainted' \subseteq Key
      BY <1>5, <2>1 DEF Put, TypeOK
    <2>4. QED
      BY <1>5, <2>1, <2>2, <2>3, IdleType, BecomeType, AnswerType DEF Put, TypeOK
  <1>6. ASSUME NEW f \in Feed, UpdateDelegate(w, f)
        PROVE  TypeOK'
    <2>1. [at |-> "updated", feed |-> f] \in Call
      BY DEF Call
    <2>2. QED
      BY <1>6, <2>1, BecomeType, UpdateType DEF UpdateDelegate, TypeOK
  <1>7. ASSUME NEW f \in Feed, FailUpdate(w, f)
        PROVE  TypeOK'
    BY <1>7, UpdateType DEF FailUpdate, TypeOK
  <1>8. CASE StartPurge(w)
    <2> DEFINE f == call[w].feed
               c == [at |-> "purge", feed |-> f,
                     todo |-> {k \in Prefixed[f] : Cached(k)}]
    <2>1. f \in Feed
      BY <1>8, CallFields DEF StartPurge
    <2>2. Prefixed[f] \subseteq Key
      BY <2>1, KeyAssumption
    <2>3. c \in Call
      BY <2>1, <2>2 DEF Call
    <2>4. QED
      BY <1>8, <2>3, BecomeType DEF StartPurge, TypeOK
  <1>9. ASSUME NEW k \in Key, PurgeKey(w, k)
        PROVE  TypeOK'
    <2> DEFINE f == call[w].feed
               rest == call[w].todo \ {k}
    <2>0. call[w] = [at |-> "purge", feed |-> f, todo |-> call[w].todo]
          /\ f \in Feed /\ rest \in SUBSET Key
      BY <1>9, CallFields DEF PurgeKey
    <2>a. [call[w] EXCEPT !.todo = @ \ {k}]
             = [at |-> "purge", feed |-> f, todo |-> rest]
      BY <2>0
    <2>1. [call[w] EXCEPT !.todo = @ \ {k}] \in Call
      BY <2>0, <2>a DEF Call
    <2>2. cache' \in [Key -> Value \cup {Empty}]
      BY <1>9 DEF PurgeKey, TypeOK
    <2>3. QED
      BY <1>9, <2>1, <2>2, BecomeType DEF PurgeKey, TypeOK
  <1>10. CASE EndPurge(w)
    BY <1>10, IdleType, BecomeType DEF EndPurge, TypeOK
  <1>11. QED
    BY <1>1, <1>2, <1>3, <1>4, <1>5, <1>6, <1>7, <1>8, <1>9, <1>10 DEF Step

-----------------------------------------------------------------------------
(* Staleness.  With the types, StaleOnlyByRace is inductive: an update makes *)
(* cached answers stale and stays responsible for them until it has removed  *)
(* them, and only Put can bring a stale answer back.                         *)

SafetyInv == TypeOK /\ StaleOnlyByRace

\* An answer does not depend on the feeds outside the scope of the read.
LEMMA ContentScope ==
    ASSUME TypeOK, NEW k \in Key, NEW f \in Feed, Update(f), f \notin Scope[k]
    PROVE  Content(k, version') = Content(k, version)
  BY DEF TypeOK, Update, Content

\* Steps that leave the contents and the cache alone.
LEMMA QuietStep ==
    ASSUME SafetyInv, NEW w \in Worker, UNCHANGED <<version, cache, tainted>>,
           NEW c \in Call, Become(w, c),
           \A k \in Key : FeedKey(k) /\ Cached(k) /\ WillPurge(w, k)
                             => WillPurge(w, k)'
    PROVE  StaleOnlyByRace'
  <1> USE DEF SafetyInv
  <1>1. \A v \in Worker \ {w} : \A k \in Key :
           WillPurge(v, k) => WillPurge(v, k)'
    BY BecomeType DEF WillPurge, At
  <1>2. \A k \in Key : Current(k)' = Current(k)
    BY DEF Current
  <1>3. QED
    BY <1>1, <1>2 DEF StaleOnlyByRace, FeedKey, Cached

\* A worker that has no update to purge for does not matter.
LEMMA Bystander ==
    ASSUME TypeOK, NEW w \in Worker, ~At(w, "updated"), ~At(w, "purge")
    PROVE  \A k \in Key : ~WillPurge(w, k)
  BY DEF WillPurge

LEMMA StaleStep ==
    ASSUME SafetyInv, NEW w \in Worker, Step(w)
    PROVE  StaleOnlyByRace'
  <1> USE DEF SafetyInv
  <1>1. ASSUME NEW k \in Key, LookUp(w, k)
        PROVE  StaleOnlyByRace'
    <2>1. [at |-> IF Cached(k) THEN "hit" ELSE "miss"] \in Call
      BY DEF Call
    <2>2. QED
      BY <1>1, <2>1, Bystander, QuietStep DEF LookUp, At, Begin
  <1>2. CASE Hit(w)
    BY <1>2, IdleType, Bystander, QuietStep DEF Hit, At
  <1>3. CASE Fetch(w)
    <2> DEFINE v == Current(read[w].key)
    <2>1. [at |-> "put", got |-> v] \in Call
      BY CallFields, CurrentType DEF Call
    <2>2. QED
      BY <1>3, <2>1, IdleType, Bystander, QuietStep DEF Fetch, At
  <1>4. CASE FailFetch(w)
    BY <1>4, IdleType, Bystander, QuietStep DEF FailFetch, At
  <1>5. CASE Put(w)
    <2> DEFINE k == read[w].key
               v == call[w].got
    <2>1. k \in Key
      BY CallFields
    <2>2. PICK evicted \in Victims(k) :
             cache' = [x \in Key |-> IF x = k THEN v
                                     ELSE IF x \in evicted THEN Empty
                                     ELSE cache[x]]
      BY <1>5 DEF Put
    <2>3. \A x \in Key : Current(x)' = Current(x)
      BY <1>5 DEF Put, Current
    <2>4. cache'[k] = Current(k) \/ k \in tainted'
      BY <1>5, <2>1, <2>2 DEF Put
    <2>5. \A x \in Key \ {k} : cache'[x] = Empty \/ cache'[x] = cache[x]
      BY <2>2
    <2>6. \A x \in Key \ {k} : x \in tainted => x \in tainted'
      BY <1>5 DEF Put
    <2>7. \A u \in Worker : \A x \in Key : WillPurge(u, x) => WillPurge(u, x)'
      <3>1. ~At(w, "updated") /\ ~At(w, "purge")
        BY <1>5 DEF Put, At
      <3>2. \A u \in Worker \ {w} : call'[u] = call[u]
        BY <1>5, IdleType, BecomeType DEF Put
      <3>3. QED
        BY <3>1, <3>2, Bystander DEF WillPurge, At
    <2>8. QED
      BY <2>1, <2>3, <2>4, <2>5, <2>6, <2>7 DEF StaleOnlyByRace, FeedKey, Cached
  <1>6. ASSUME NEW f \in Feed, UpdateDelegate(w, f)
        PROVE  StaleOnlyByRace'
    <2>1. [at |-> "updated", feed |-> f] \in Call
      BY DEF Call
    <2>2. call'[w] = [at |-> "updated", feed |-> f]
          /\ \A v \in Worker \ {w} : call'[v] = call[v]
      BY <1>6, <2>1, BecomeType DEF UpdateDelegate
    <2>3. \A k \in Key : f \in Scope[k] => WillPurge(w, k)'
      BY <2>2 DEF WillPurge, At
    <2>4. \A k \in Key : f \notin Scope[k] => Current(k)' = Current(k)
      BY <1>6, ContentScope DEF UpdateDelegate, Current
    <2>5. \A v \in Worker : \A k \in Key : WillPurge(v, k) => v # w
      BY <1>6, Bystander DEF UpdateDelegate, At
    <2>6. \A v \in Worker : \A k \in Key : WillPurge(v, k) => WillPurge(v, k)'
      BY <2>2, <2>5 DEF WillPurge, At
    <2>7. QED
      BY <1>6, <2>3, <2>4, <2>6 DEF UpdateDelegate, StaleOnlyByRace, FeedKey, Cached
  <1>7. ASSUME NEW f \in Feed, FailUpdate(w, f)
        PROVE  StaleOnlyByRace'
    <2>1. \A k \in Key : f \notin Scope[k] => Current(k)' = Current(k)
      BY <1>7, ContentScope DEF FailUpdate, Current
    <2>2. \A v \in Worker : \A k \in Key : WillPurge(v, k) => WillPurge(v, k)'
      BY <1>7 DEF FailUpdate, WillPurge, At
    <2>3. QED
      BY <1>7, <2>1, <2>2 DEF FailUpdate, StaleOnlyByRace, FeedKey, Cached
  <1>8. CASE StartPurge(w)
    <2> DEFINE f == call[w].feed
               c == [at |-> "purge", feed |-> f,
                     todo |-> {k \in Prefixed[f] : Cached(k)}]
    <2>1. f \in Feed
      BY <1>8, CallFields DEF StartPurge
    <2>2. c \in Call
      BY <2>1, KeyAssumption DEF Call
    <2>3. call'[w] = c
      BY <1>8, <2>2, BecomeType DEF StartPurge
    <2>4. \A k \in Key : FeedKey(k) /\ Cached(k) /\ WillPurge(w, k)
                            => WillPurge(w, k)'
      BY <1>8, <2>3 DEF StartPurge, WillPurge, FeedKey, At
    <2>5. QED
      BY <1>8, <2>2, <2>4, QuietStep DEF StartPurge
  <1>9. ASSUME NEW k \in Key, PurgeKey(w, k)
        PROVE  StaleOnlyByRace'
    <2> DEFINE f == call[w].feed
               c == [at |-> "purge", feed |-> f, todo |-> call[w].todo \ {k}]
    <2>1. call[w] = [at |-> "purge", feed |-> f, todo |-> call[w].todo]
          /\ f \in Feed /\ call[w].todo \in SUBSET Key
      BY <1>9, CallFields DEF PurgeKey
    <2>2. [call[w] EXCEPT !.todo = @ \ {k}] = c
      BY <2>1
    <2>3. c \in Call
      BY <2>1 DEF Call
    <2>4. call'[w] = c /\ \A v \in Worker \ {w} : call'[v] = call[v]
      BY <1>9, <2>2, <2>3, BecomeType DEF PurgeKey
    <2>5. \A v \in Worker : \A x \in Key \ {k} :
             WillPurge(v, x) => WillPurge(v, x)'
      BY <2>1, <2>4 DEF WillPurge, At
    <2>6. \A x \in Key : Current(x)' = Current(x)
      BY <1>9 DEF PurgeKey, Current
    <2>7. cache'[k] = Empty /\ \A x \in Key \ {k} : cache'[x] = cache[x]
      BY <1>9 DEF PurgeKey, TypeOK
    <2>8. QED
      BY <1>9, <2>5, <2>6, <2>7 DEF PurgeKey, StaleOnlyByRace, FeedKey, Cached
  <1>10. CASE EndPurge(w)
    <2>1. \A k \in Key : ~WillPurge(w, k)
      BY <1>10 DEF EndPurge, WillPurge, At
    <2>2. QED
      BY <1>10, <2>1, IdleType, QuietStep DEF EndPurge
  <1>11. QED
    BY <1>1, <1>2, <1>3, <1>4, <1>5, <1>6, <1>7, <1>8, <1>9, <1>10 DEF Step

LEMMA SafetyInductive == Spec => []SafetyInv
  <1>1. Init => SafetyInv
    <2> SUFFICES ASSUME Init PROVE SafetyInv
      OBVIOUS
    <2>1. (CHOOSE k \in Key : TRUE) \in Key
      BY VersionAssumption
    <2>2. TypeOK
      BY <2>1, VersionAssumption, IdleType DEF Init, StorageInit, TypeOK
    <2>3. StaleOnlyByRace
      BY DEF Init, StaleOnlyByRace, Cached
    <2>4. QED
      BY <2>2, <2>3 DEF SafetyInv
  <1>2. SafetyInv /\ [Next]_vars => SafetyInv'
    <2> SUFFICES ASSUME SafetyInv, [Next]_vars PROVE SafetyInv'
      OBVIOUS
    <2>1. CASE UNCHANGED vars
      BY <2>1 DEF vars, SafetyInv, TypeOK, StaleOnlyByRace, FeedKey, Cached,
                  Current, WillPurge, At
    <2>2. CASE Next
      BY <2>2, StepType, StaleStep DEF Next, SafetyInv
    <2>3. QED
      BY <2>1, <2>2
  <1>3. QED
    BY <1>1, <1>2, PTL DEF Spec

\* Every variable keeps its type (TypeOK).
THEOREM TypeCorrect == Spec => []TypeOK
  <1>1. SafetyInv => TypeOK
    BY DEF SafetyInv
  <1>2. QED
    BY <1>1, SafetyInductive, PTL

\* A cached answer about one feed is stale only while an update of the feed
\* has yet to purge it, or after a late put or a failed update
\* (CachingStorage.java:71-89, :168-195): StaleOnlyByRace always holds.
THEOREM StaleOnlyByRaceHolds == Spec => []StaleOnlyByRace
  <1>1. SafetyInv => StaleOnlyByRace
    BY DEF SafetyInv
  <1>2. QED
    BY <1>1, SafetyInductive, PTL

-----------------------------------------------------------------------------
(* One thread.  Without a second thread, a half-failed update or a read that *)
(* no update purges, the cache cannot be seen: every behaviour is one of the *)
(* abstract storage.                                                         *)

\* The hypotheses, and what then holds between the calls on the cache.
OneThread(w) == /\ Worker = {w}
                /\ \A k \in Key : FeedKey(k)
                /\ "update" \notin Failing

OneThreadInv(w) ==
    /\ SafetyInv
    /\ tainted = {}
    /\ read[w].open => Current(read[w].key) \in read[w].may
    /\ call[w].at \in {"hit", "miss", "put"} => read[w].open
    /\ At(w, "hit") => Cached(read[w].key)
    /\ At(w, "put") => call[w].got = Current(read[w].key)

\* What is cached is current when no update is in progress.
LEMMA Coherent ==
    ASSUME NEW w, OneThread(w), OneThreadInv(w), NEW k \in Key, Cached(k),
           ~At(w, "updated"), ~At(w, "purge")
    PROVE  cache[k] = Current(k)
  <1>1. SafetyInv /\ w \in Worker
    BY DEF OneThread, OneThreadInv
  <1>2. \A u \in Worker : ~WillPurge(u, k)
    BY <1>1, Bystander DEF OneThread, SafetyInv
  <1>3. QED
    BY <1>1, <1>2 DEF OneThread, OneThreadInv, SafetyInv, StaleOnlyByRace

\* Each step is a step of the abstract storage, or changes nothing it has.
LEMMA OneThreadStep ==
    ASSUME NEW w, OneThread(w), OneThreadInv(w), Step(w)
    PROVE  OneThreadInv(w)' /\ [StorageNext]_<<version, read>>
  <1> DEFINE Goal == /\ tainted' = {}
                     /\ read'[w].open => Current(read[w].key)' \in read'[w].may
                     /\ call'[w].at \in {"hit", "miss", "put"} => read'[w].open
                     /\ call'[w].at = "hit" => Cached(read[w].key)'
                     /\ call'[w].at = "put" => call'[w].got = Current(read[w].key)'
                     /\ [StorageNext]_<<version, read>>
  <1>1. w \in Worker /\ SafetyInv /\ TypeOK /\ tainted = {}
    BY DEF OneThread, OneThreadInv, SafetyInv
  <1>2. SafetyInv'
    BY <1>1, StepType, StaleStep DEF SafetyInv
  <1> SUFFICES Goal
    BY <1>2 DEF OneThreadInv, At
  <1>3. ASSUME NEW k \in Key, LookUp(w, k)
        PROVE  Goal
    <2>1. [at |-> IF Cached(k) THEN "hit" ELSE "miss"] \in Call
      BY DEF Call
    <2>2. call'[w] = [at |-> IF Cached(k) THEN "hit" ELSE "miss"]
      BY <1>1, <1>3, <2>1, BecomeType DEF LookUp
    <2>3. read'[w] = [key |-> k, open |-> TRUE, may |-> {Current(k)},
                      answer |-> Unanswered]
      BY <1>1, <1>3 DEF LookUp, Begin, TypeOK
    <2>4. Current(k)' = Current(k) /\ Cached(k)' = Cached(k)
      BY <1>3 DEF LookUp, Begin, Current, Cached
    <2>5. StorageNext
      BY <1>1, <1>3 DEF LookUp, StorageNext
    <2>6. Current(read[w].key)' = Current(k) /\ Cached(read[w].key)' = Cached(k)
      BY <2>3, <2>4 DEF Current, Cached
    <2>7. QED
      BY <1>1, <1>3, <2>2, <2>3, <2>5, <2>6 DEF LookUp
  <1>4. ASSUME NEW v \in Value, read[w].open, v \in read[w].may \cup {Failed},
               Answer(w, v), Become(w, Idle), UNCHANGED version, tainted' = {}
        PROVE  Goal
    <2>1. call'[w] = [at |-> "idle"]
      BY <1>1, <1>4, IdleType, BecomeType DEF Idle
    <2>2. read'[w].open = FALSE
      BY <1>1, <1>4 DEF Answer, TypeOK
    <2>3. StorageNext
      BY <1>1, <1>4 DEF StorageNext, Return
    <2>4. QED
      BY <1>4, <2>1, <2>2, <2>3
  <1>5. CASE Hit(w)
    <2> DEFINE k == read[w].key
    <2>1. k \in Key /\ Cached(k) /\ read[w].open /\ Current(k) \in read[w].may
      BY <1>1, <1>5, CallFields DEF Hit, OneThreadInv, At
    <2>2. cache[k] = Current(k)
      BY <1>5, <2>1, Coherent DEF Hit, At
    <2>3. Current(k) \in Value
      BY <1>1, <2>1, CurrentType
    <2>4. QED
      BY <1>1, <1>4, <1>5, <2>1, <2>2, <2>3 DEF Hit
  <1>6. CASE Fetch(w)
    <2> DEFINE k == read[w].key
               v == Current(k)
    <2>1. k \in Key /\ v \in Value /\ read[w].open /\ v \in read[w].may
      BY <1>1, <1>6, CallFields, CurrentType DEF Fetch, OneThreadInv, At
    <2>2. CASE NotFound(k, v)
      BY <1>1, <1>4, <1>6, <2>1, <2>2 DEF Fetch
    <2>3. CASE ~NotFound(k, v)
      <3>1. [at |-> "put", got |-> v] \in Call
        BY <2>1 DEF Call
      <3>2. call'[w] = [at |-> "put", got |-> v] /\ UNCHANGED <<version, read>>
        BY <1>1, <1>6, <2>3, <3>1, BecomeType DEF Fetch
      <3>3. Current(read[w].key)' = v
        BY <3>2 DEF Current
      <3>4. QED
        BY <1>1, <1>6, <2>1, <3>2, <3>3 DEF Fetch
    <2>4. QED
      BY <2>2, <2>3
  <1>7. CASE FailFetch(w)
    <2>1. read[w].open
      BY <1>7 DEF FailFetch, OneThreadInv, At
    <2>2. call'[w] = [at |-> "idle"]
      BY <1>1, <1>7, IdleType, BecomeType DEF FailFetch, Idle
    <2>3. read'[w].open = FALSE
      BY <1>1, <1>7 DEF FailFetch, Answer, TypeOK
    <2>4. StorageNext
      BY <1>1, <1>7, <2>1 DEF FailFetch, StorageNext, Return
    <2>5. QED
      BY <1>1, <1>7, <2>2, <2>3, <2>4 DEF FailFetch
  <1>8. CASE Put(w)
    <2> DEFINE k == read[w].key
               v == call[w].got
    <2>1. k \in Key /\ v = Current(k) /\ read[w].open /\ v \in read[w].may
      BY <1>1, <1>8, CallFields DEF Put, OneThreadInv, At
    <2>2. v \in Value /\ tainted' = {}
      BY <1>1, <1>8, <2>1, CurrentType DEF Put
    <2>3. QED
      BY <1>4, <1>8, <2>1, <2>2 DEF Put
  <1>9. ASSUME NEW f \in Feed, UpdateDelegate(w, f)
        PROVE  Goal
    <2>1. [at |-> "updated", feed |-> f] \in Call
      BY DEF Call
    <2>2. call'[w] = [at |-> "updated", feed |-> f]
      BY <1>1, <1>9, <2>1, BecomeType DEF UpdateDelegate
    <2>3. read'[w] = IF read[w].open
                     THEN [read[w] EXCEPT
                             !.may = @ \cup {Content(read[w].key, version')}]
                     ELSE read[w]
      BY <1>1, <1>9 DEF UpdateDelegate, Update
    <2>4. read[w].open => Current(read[w].key)' \in read'[w].may
      BY <1>1, <2>3 DEF TypeOK, Current
    <2>5. read'[w].open = read[w].open
      BY <1>1, <2>3 DEF TypeOK
    <2>6. StorageNext
      BY <1>9 DEF UpdateDelegate, StorageNext
    <2>7. QED
      BY <1>1, <1>9, <2>2, <2>4, <2>5, <2>6 DEF UpdateDelegate
  <1>10. CASE StartPurge(w) \/ (\E k \in Key : PurgeKey(w, k)) \/ EndPurge(w)
    <2>1. UNCHANGED <<version, read, tainted>>
      BY <1>10 DEF StartPurge, PurgeKey, EndPurge
    <2>2. call'[w].at \notin {"hit", "miss", "put"}
      <3>1. CASE StartPurge(w)
        BY <1>1, <3>1 DEF StartPurge, Become, TypeOK
      <3>2. CASE \E k \in Key : PurgeKey(w, k)
        <4>1. PICK k \in Key : PurgeKey(w, k)
          BY <3>2
        <4>2. call'[w] = [call[w] EXCEPT !.todo = @ \ {k}]
          BY <1>1, <4>1 DEF PurgeKey, Become, TypeOK
        <4>3. call[w] = [at |-> "purge", feed |-> call[w].feed,
                         todo |-> call[w].todo]
          BY <1>1, <4>1, CallFields DEF PurgeKey
        <4>4. QED
          BY <4>2, <4>3
      <3>3. CASE EndPurge(w)
        BY <1>1, <3>3 DEF EndPurge, Become, TypeOK, Idle
      <3>4. QED
        BY <1>10, <3>1, <3>2, <3>3
    <2>3. Current(read[w].key)' = Current(read[w].key)
      BY <2>1 DEF Current
    <2>4. QED
      BY <1>1, <2>1, <2>2, <2>3 DEF OneThreadInv
  <1>11. ~\E f \in Feed : FailUpdate(w, f)
    BY DEF OneThread, FailUpdate
  <1>12. QED
    BY <1>3, <1>5, <1>6, <1>7, <1>8, <1>9, <1>10, <1>11 DEF Step

\* With one thread, reads that updates purge and no half-failed update, the
\* cache is the "simple passthrough" of its class comment
\* (CachingStorage.java:27): it implements the abstract Storage.
THEOREM OneThreadPassthrough ==
    ASSUME NEW w, OneThread(w)
    PROVE  Spec => StorageSpec
  <1>1. Init => OneThreadInv(w) /\ StorageInit
    <2> SUFFICES ASSUME Init PROVE OneThreadInv(w) /\ StorageInit
      OBVIOUS
    <2>1. (CHOOSE k \in Key : TRUE) \in Key
      BY VersionAssumption
    <2>2. TypeOK
      BY <2>1, VersionAssumption, IdleType DEF Init, StorageInit, TypeOK
    <2>3. StaleOnlyByRace
      BY DEF Init, StaleOnlyByRace, Cached
    <2>4. w \in Worker
      BY DEF OneThread
    <2>5. read[w].open = FALSE /\ call[w].at = "idle" /\ tainted = {} /\ StorageInit
      BY <2>4 DEF Init, StorageInit, Idle
    <2>6. QED
      BY <2>2, <2>3, <2>5 DEF OneThreadInv, SafetyInv, At
  <1>2. OneThreadInv(w) /\ [Next]_vars
           => OneThreadInv(w)' /\ [StorageNext]_<<version, read>>
    <2> SUFFICES ASSUME OneThreadInv(w), [Next]_vars
                 PROVE  OneThreadInv(w)' /\ [StorageNext]_<<version, read>>
      OBVIOUS
    <2>1. CASE UNCHANGED vars
      BY <2>1 DEF vars, OneThreadInv, SafetyInv, TypeOK, StaleOnlyByRace,
                  FeedKey, Cached, Current, WillPurge, At
    <2>2. CASE Next
      BY <2>2, OneThreadStep DEF Next, OneThread
    <2>3. QED
      BY <2>1, <2>2
  <1>3. QED
    BY <1>1, <1>2, PTL DEF Spec, StorageSpec

=============================================================================
