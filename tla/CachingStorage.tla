--------------------------- MODULE CachingStorage ---------------------------
(***************************************************************************)
(* CachingStorage: a map in front of a storage, filled by reads, purged by  *)
(* updates, without a lock.  A read that misses asks the delegate and puts  *)
(* the answer; an update lets the delegate work and then removes, key by    *)
(* key, what is cached under the id of the feed.                            *)
(*                                                                          *)
(* The cache is a ConcurrentLinkedHashMap: each call on it is atomic, its   *)
(* iterators are weakly consistent, and it evicts when it is full.  The     *)
(* answers of the delegate are those of the module Storage, which `read`    *)
(* also records: `may` is history.                                          *)
(***************************************************************************)
EXTENDS Storage, FiniteSets

CONSTANTS
    FileKey,    \* reads of one file, which throw when it does not exist
    Prefixed,   \* feed -> the keys whose token begins with the feed's id
    Capacity,   \* the capacity of the cache, 256 in the code
    Failing,    \* the calls of the delegate that may throw IOException
    Empty,      \* what the cache holds for a key that it does not contain
    Null        \* Java null

ASSUME KeyAssumption ==
    /\ FileKey \subseteq Key
    /\ Prefixed \in [Feed -> SUBSET Key]
    /\ Capacity \in Nat
    /\ Failing \subseteq {"read", "update"}
ASSUME EmptyAssumption == Empty \notin Value /\ Null \notin Value

VARIABLES
    cache,      \* key -> the cached value, or Empty
    call,       \* worker -> where it is in a method, see Call
    tainted     \* history: keys cached late or left behind, see Taint

vars == <<version, read, cache, call, tainted>>

\* What a call needs: `got` is what the delegate returned to a read, `feed`
\* and `todo` are what an update purges.
Call == [at : {"idle", "hit", "miss"}]
          \cup [at : {"put"}, got : Value]
          \cup [at : {"updated"}, feed : Feed]
          \cup [at : {"purge"}, feed : Feed, todo : SUBSET Key]

Idle == [at |-> "idle"]

Init ==
    /\ StorageInit
    /\ cache = [k \in Key |-> Empty]
    /\ call = [w \in Worker |-> Idle]
    /\ tainted = {}

At(w, label) == call[w].at = label
Become(w, c) == call' = [call EXCEPT ![w] = c]
Cached(k) == cache[k] # Empty

\* The delegate throws FileNotFoundException.
NotFound(k, v) == k \in FileKey /\ \A f \in Scope[k] : v[f] = 0

-----------------------------------------------------------------------------
(* Reads *)

\* containsKey
LookUp(w, k) ==
    /\ At(w, "idle")
    /\ Begin(w, k)
    /\ Become(w, [at |-> IF Cached(k) THEN "hit" ELSE "miss"])
    /\ UNCHANGED <<cache, tainted>>

\* cache.get, which returns null if the key has gone since.
Hit(w) ==
    /\ At(w, "hit")
    /\ LET k == read[w].key IN Answer(w, IF Cached(k) THEN cache[k] ELSE Null)
    /\ Become(w, Idle)
    /\ UNCHANGED <<version, cache, tainted>>

\* The delegate answers; an exception is not cached.
Fetch(w) ==
    /\ At(w, "miss")
    /\ LET k == read[w].key
           v == Current(k)
       IN IF NotFound(k, v)
          THEN Become(w, Idle) /\ Answer(w, v)
          ELSE Become(w, [at |-> "put", got |-> v]) /\ UNCHANGED read
    /\ UNCHANGED <<version, cache, tainted>>

FailFetch(w) ==
    /\ "read" \in Failing
    /\ At(w, "miss")
    /\ Become(w, Idle)
    /\ Answer(w, Failed)
    /\ UNCHANGED <<version, cache, tainted>>

\* cache.put, and what the map evicts for it.
Victims(k) ==
    LET others == {x \in Key \ {k} : Cached(x)}
    IN IF Cardinality(others) < Capacity THEN {{}} ELSE {{x} : x \in others}

Put(w) ==
    /\ At(w, "put")
    /\ LET k == read[w].key
           v == call[w].got
       IN /\ \E evicted \in Victims(k) :
                cache' = [x \in Key |-> IF x = k THEN v
                                        ELSE IF x \in evicted THEN Empty
                                        ELSE cache[x]]
          /\ tainted' = IF v = Current(k) THEN tainted \ {k}
                                          ELSE tainted \cup {k}
          /\ Answer(w, v)
    /\ Become(w, Idle)
    /\ UNCHANGED version

-----------------------------------------------------------------------------
(* Updates: updateFeed, updateEntry and deleteEntry *)

UpdateDelegate(w, f) ==
    /\ At(w, "idle")
    /\ Update(f)
    /\ Become(w, [at |-> "updated", feed |-> f])
    /\ UNCHANGED <<cache, tainted>>

\* The delegate throws after it has changed the content, as it does when the
\* file is written and the index fails: nothing is purged.
FailUpdate(w, f) ==
    /\ "update" \in Failing
    /\ At(w, "idle")
    /\ Update(f)
    /\ tainted' = tainted \cup {k \in Key : f \in Scope[k] /\ Cached(k)}
    /\ UNCHANGED <<cache, call>>

\* Faulty variant: only the files are forgotten, the queries are not.
StartPurgeFiles(w) ==
    /\ At(w, "updated")
    /\ LET f == call[w].feed
       IN Become(w, [at |-> "purge", feed |-> f,
                     todo |-> {k \in Prefixed[f] \cap FileKey : Cached(k)}])
    /\ UNCHANGED <<version, read, cache, tainted>>

\* The iteration over the key set begins.
StartPurge(w) ==
    /\ At(w, "updated")
    /\ LET f == call[w].feed
       IN Become(w, [at |-> "purge", feed |-> f,
                     todo |-> {k \in Prefixed[f] : Cached(k)}])
    /\ UNCHANGED <<version, read, cache, tainted>>

\* It removes a key, perhaps one that was put after it began.
PurgeKey(w, k) ==
    /\ At(w, "purge")
    /\ k \in Prefixed[call[w].feed]
    /\ k \in call[w].todo \/ Cached(k)
    /\ cache' = [cache EXCEPT ![k] = Empty]
    /\ Become(w, [call[w] EXCEPT !.todo = @ \ {k}])
    /\ UNCHANGED <<version, read, tainted>>

EndPurge(w) ==
    /\ At(w, "purge")
    /\ call[w].todo = {}
    /\ Become(w, Idle)
    /\ UNCHANGED <<version, read, cache, tainted>>

Step(w) ==
    \/ \E k \in Key : LookUp(w, k)
    \/ Hit(w)
    \/ Fetch(w)
    \/ FailFetch(w)
    \/ Put(w)
    \/ \E f \in Feed : UpdateDelegate(w, f)
    \/ \E f \in Feed : FailUpdate(w, f)
    \/ StartPurge(w)
    \/ \E k \in Key : PurgeKey(w, k)
    \/ EndPurge(w)

Next == \E w \in Worker : Step(w)

Spec == Init /\ [][Next]_vars

-----------------------------------------------------------------------------
TypeOK ==
    /\ version \in [Feed -> 0..MaxVersion]
    /\ read \in [Worker -> [key : Key, open : BOOLEAN, may : SUBSET Value,
                            answer : Value \cup {Failed, Unanswered, Null}]]
    /\ cache \in [Key -> Value \cup {Empty}]
    /\ call \in [Worker -> Call]
    /\ tainted \subseteq Key

\* Is the key purged by the updates of every feed it depends on?  The keys of
\* one feed are; "getFeedIds", "getCategories", "getEntryIds" and the count
\* over all feeds are not (CachingStorage.java:92, :102, :114, :132).
FeedKey(k) == \A f \in Scope[k] : k \in Prefixed[f]

\* The update in progress that will still purge the key k.
WillPurge(w, k) ==
    \/ At(w, "updated") /\ call[w].feed \in Scope[k]
    \/ At(w, "purge") /\ call[w].feed \in Scope[k] /\ k \in call[w].todo

\* A cached answer about one feed is out of date only while an update of that
\* feed has yet to purge it, or if a read put it after the update it missed,
\* or an update failed half-way: threads, evictions and the weakly consistent
\* iteration open no other window (CachingStorage.java:71-89, :168-195).
StaleOnlyByRace ==
    \A k \in Key :
        FeedKey(k) /\ Cached(k) /\ cache[k] # Current(k) =>
            \/ k \in tainted
            \/ \E w \in Worker : WillPurge(w, k)

\* What "A simple passthrough that caches read operations" says
\* (CachingStorage.java:27): a read returns what the storage behind the cache
\* would have returned at some moment of the call.
ReadsFresh ==
    \A w \in Worker :
        ~read[w].open =>
            read[w].answer \in read[w].may \cup {Failed, Unanswered, Null}

=============================================================================
