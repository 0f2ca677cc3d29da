------------------------------- MODULE Relay -------------------------------
(***************************************************************************)
(* How servers fetch a feed from each other: currentFeed, pullLaterFromRelay*)
(* and pullFromRelay of TrsstAdapter.  A server that holds the feed answers *)
(* with what it holds and pulls it from a relay a few seconds later; one    *)
(* that does not, or that is asked to be synchronous, pulls it first, so    *)
(* that requests nest from server to server.  The list of the servers that  *)
(* forwarded a request travels with it.                                     *)
(*                                                                          *)
(* There is one feed, with a native id, and one query for it.  Each chain   *)
(* of nested requests begins at a client or at the timer thread of a        *)
(* server; an action is what one thread does between two messages.  Two     *)
(* threads may schedule the same task at once, which then runs twice; the   *)
(* model keeps the test and the registration together.                      *)
(***************************************************************************)
EXTENDS Naturals, Sequences, SequencesExt, FiniteSets

CONSTANTS
    Server,
    Client,     \* those who poll for the feed
    HomeOf,     \* client -> the server it polls
    Sync,       \* the clients that poll with the parameter "sync"
    Origin,     \* the server to which the author of the feed posts
    Relays,     \* server -> the relays it is configured with
    Covers,     \* server -> the servers whose ids begin with its own
    Limit,      \* the default relayLimit, 5
    Failing,    \* servers where the ingestion of a pulled feed may fail
    MaxVersion, \* bound on the versions of the feed
    MaxFaults,  \* bound on failed requests and failed ingestions
    Nobody      \* the relay of a server that has none

ASSUME NetworkAssumption ==
    /\ Client \cap Server = {} /\ Nobody \notin Server
    /\ HomeOf \in [Client -> Server] /\ Sync \subseteq Client
    /\ Origin \in Server
    /\ Relays \in [Server -> SUBSET Server]
    /\ Covers \in [Server -> SUBSET Server]
    /\ \A s \in Server : s \in Covers[s]
    /\ Failing \subseteq Server
ASSUME BoundAssumption ==
    Limit \in Nat /\ MaxVersion \in Nat \ {0} /\ MaxFaults \in Nat

VARIABLES
    stored,     \* server -> the version it has stored, 0 if none
    chain,      \* client or server (its timer) -> its chain of requests
    queue,      \* server -> tasks of its timer: the relay lists of their URIs
    registered, \* server -> the URIs, as relay lists, of COALESCING_TIMERS
    seen,       \* history: client -> the last version it was answered with
    faults      \* number of faults so far

vars == <<stored, chain, queue, registered, seen, faults>>

Owner == Client \cup Server
Version == 0..MaxVersion

\* stack: the servers that wait, and the one at work; base: the relay list of
\* the first request; answer: what the server at work replies, 0 for an error.
Chain == [at : {"idle", "serve", "pull", "reply"}, base : Seq(Server),
          stack : Seq(Server), answer : Version]

NoChain == [at |-> "idle", base |-> <<>>, stack |-> <<>>, answer |-> 0]

Init ==
    /\ stored = [s \in Server |-> IF s = Origin THEN 1 ELSE 0]
    /\ chain = [o \in Owner |-> NoChain]
    /\ queue = [s \in Server |-> <<>>]
    /\ registered = [s \in Server |-> {}]
    /\ seen = [c \in Client |-> 0]
    /\ faults = 0

At(o, label) == chain[o].at = label
Become(o, c) == chain' = [chain EXCEPT ![o] = c]

Worker(o) == Last(chain[o].stack)
Nested(o) == Len(chain[o].stack) > 1

\* The list of relays in the request that is being worked at.
RelayList(o) == chain[o].base \o Front(chain[o].stack)

Reply(o, v) == Become(o, [chain[o] EXCEPT !.at = "reply", !.answer = v])

-----------------------------------------------------------------------------
(* The author and the clients *)

Publish ==
    /\ stored[Origin] < MaxVersion
    /\ stored' = [stored EXCEPT ![Origin] = @ + 1]
    /\ UNCHANGED <<chain, queue, registered, seen, faults>>

Poll(c) ==
    /\ At(c, "idle")
    /\ Become(c, [at |-> "serve", base |-> <<>>, stack |-> <<HomeOf[c]>>,
                  answer |-> 0])
    /\ UNCHANGED <<stored, queue, registered, seen, faults>>

BeAnswered(c) ==
    /\ At(c, "reply")
    /\ ~Nested(c)
    /\ seen' = [seen EXCEPT ![c] = chain[c].answer]
    /\ Become(c, NoChain)
    /\ UNCHANGED <<stored, queue, registered, faults>>

-----------------------------------------------------------------------------
(* currentFeed *)

\* Unless a task for the same URI is registered, one is scheduled.
PullLater(s, relays) ==
    IF relays \in registered[s]
    THEN UNCHANGED <<queue, registered>>
    ELSE /\ queue' = [queue EXCEPT ![s] = Append(@, relays)]
         /\ registered' = [registered EXCEPT ![s] = @ \cup {relays}]

CurrentFeed(o) ==
    /\ At(o, "serve")
    /\ LET s == Worker(o)
       IN IF o \notin Sync /\ stored[s] > 0
          THEN Reply(o, stored[s]) /\ PullLater(s, RelayList(o))
          ELSE /\ Become(o, [chain[o] EXCEPT !.at = "pull"])
               /\ UNCHANGED <<queue, registered>>
    /\ UNCHANGED <<stored, seen, faults>>

-----------------------------------------------------------------------------
(* pullFromRelay *)

\* Faulty variant: what the comment says, "less than search limit".
MayForwardBelow(o) == {Len(RelayList(o)) < Limit}

\* The timer reads the parameters of a request that is over: the server may
\* have recycled it, and there is no list to count then.
MayForward(o) ==
    {Len(RelayList(o)) <= Limit} \cup (IF o \in Server /\ ~Nested(o)
                                       THEN {TRUE} ELSE {})

\* Faulty variant: only the relay that sent the request is looked at.
LoopbackLast(o) ==
    RelayList(o) # <<>> /\ Last(RelayList(o)) \in Covers[Worker(o)]

\* The loopback check finds the server's own id in the query, or one that
\* begins with it.
Loopback(o) == \E i \in DOMAIN RelayList(o) : RelayList(o)[i] \in Covers[Worker(o)]

\* getRelayPeer: a random one, also one of those on the list, for the list has
\* ids and is compared with URLs.
RelayPeers(s) == IF Relays[s] = {} THEN {Nobody} ELSE Relays[s]

\* Faulty variant: that there may be no relay is overlooked.
AskRelayUnchecked(o, p) ==
    /\ At(o, "pull")
    /\ p \in RelayPeers(Worker(o))
    /\ TRUE \in MayForward(o) /\ ~Loopback(o)
    /\ Become(o, [chain[o] EXCEPT !.at = "serve", !.stack = Append(@, p)])
    /\ UNCHANGED <<stored, queue, registered, seen, faults>>

AskRelay(o, p) ==
    /\ At(o, "pull")
    /\ p \in RelayPeers(Worker(o)) \ {Nobody}
    /\ TRUE \in MayForward(o) /\ ~Loopback(o)
    /\ Become(o, [chain[o] EXCEPT !.at = "serve", !.stack = Append(@, p)])
    /\ UNCHANGED <<stored, queue, registered, seen, faults>>

\* No relay, too many of them, or a loop: nothing is found.
AskNobody(o) ==
    /\ At(o, "pull")
    /\ Nobody \in RelayPeers(Worker(o)) \/ FALSE \in MayForward(o) \/ Loopback(o)
    /\ Reply(o, 0)
    /\ UNCHANGED <<stored, queue, registered, seen, faults>>

\* Faulty variant: what is pulled replaces what is stored.
IngestedUnseen(s, v) == [stored EXCEPT ![s] = v]

\* ingestFeed keeps a version that is newer.
Ingested(s, v) == [stored EXCEPT ![s] = IF @ < v THEN v ELSE @]

\* The server below gets the answer, ingests a feed, and passes it on.
Return(o) ==
    /\ At(o, "reply") /\ Nested(o)
    /\ LET c == [chain[o] EXCEPT !.stack = Front(@)]
       IN /\ Become(o, c)
          /\ stored' = IF c.answer > 0 THEN Ingested(Last(c.stack), c.answer)
                                       ELSE stored
    /\ UNCHANGED <<queue, registered, seen, faults>>

\* The feed does not ingest, which is logged, and is passed on all the same.
ReturnUningested(o) ==
    /\ faults < MaxFaults /\ faults' = faults + 1
    /\ At(o, "reply") /\ Nested(o)
    /\ chain[o].answer > 0
    /\ Last(Front(chain[o].stack)) \in Failing
    /\ Become(o, [chain[o] EXCEPT !.stack = Front(@)])
    /\ UNCHANGED <<stored, queue, registered, seen>>

\* The request does not reach the relay, or its answer gets lost.
Lose(o) ==
    /\ faults < MaxFaults /\ faults' = faults + 1
    /\ At(o, "serve") \/ At(o, "reply")
    /\ Nested(o)
    /\ Become(o, [chain[o] EXCEPT !.at = "reply", !.stack = Front(@),
                                  !.answer = 0])
    /\ UNCHANGED <<stored, queue, registered, seen>>

-----------------------------------------------------------------------------
(* The timer thread, TASK_QUEUE *)

StartTask(s) ==
    /\ At(s, "idle")
    /\ queue[s] # <<>>
    /\ queue' = [queue EXCEPT ![s] = Tail(@)]
    /\ Become(s, [at |-> "pull", base |-> Head(queue[s]), stack |-> <<s>>,
                  answer |-> 0])
    /\ UNCHANGED <<stored, registered, seen, faults>>

EndTask(s) ==
    /\ At(s, "reply")
    /\ ~Nested(s)
    /\ registered' = [registered EXCEPT ![s] = @ \ {chain[s].base}]
    /\ Become(s, NoChain)
    /\ UNCHANGED <<stored, queue, seen, faults>>

Next ==
    \/ Publish
    \/ \E c \in Client : Poll(c) \/ BeAnswered(c)
    \/ \E o \in Owner :
          \/ CurrentFeed(o)
          \/ \E p \in Server \cup {Nobody} : AskRelay(o, p)
          \/ AskNobody(o)
          \/ Return(o)
          \/ ReturnUningested(o)
          \/ Lose(o)
    \/ \E s \in Server : StartTask(s) \/ EndTask(s)

\* What a thread does of its own accord.
Progress(o) ==
    \/ o \in Client /\ (Poll(o) \/ BeAnswered(o))
    \/ o \in Server /\ (StartTask(o) \/ EndTask(o))
    \/ CurrentFeed(o)
    \/ \E p \in Server : AskRelay(o, p)
    \/ AskNobody(o)
    \/ Return(o)

\* Clients poll again and again, threads and timers run, and the shuffle of
\* getRelayPeer does not avoid a relay for ever.
Fairness ==
    /\ \A o \in Owner : WF_vars(Progress(o))
    /\ \A s \in Server : Cardinality(Relays[s]) > 1 => \A p \in Relays[s] :
          SF_vars(\E o \in Owner \ Sync :
                     At(o, "pull") /\ Worker(o) = s /\ AskRelay(o, p))

Spec == Init /\ [][Next]_vars /\ Fairness

-----------------------------------------------------------------------------
TypeOK ==
    /\ stored \in [Server -> Version]
    /\ chain \in [Owner -> Chain]
    /\ queue \in [Server -> Seq(Seq(Server))]
    /\ registered \in [Server -> SUBSET Seq(Server)]
    /\ seen \in [Client -> Version]
    /\ faults \in 0..MaxFaults

\* On its way, over nested requests and over tasks that were scheduled for
\* later, a request is forwarded at most once by each server: requests do not
\* go round in circles, and no two servers wait for each other though the
\* relays are not those that the list excludes (TrsstAdapter.java:339-345,
\* :435-444).
ForwardsOnce ==
    \A o \in Owner : ~At(o, "idle") =>
        LET list == RelayList(o)
        IN \A i, j \in DOMAIN list : list[i] = list[j] => i = j

\* A client that polls asynchronously is never answered with an older version
\* than before: its server answers with what it has stored, what relays bring it
\* later never goes back, and only as long as it has nothing does it pass on what
\* one of them says, which it keeps unless the ingestion fails
\* (TrsstAdapter.java:152-161, :281-309).
NeverOlder ==
    [][\A c \in Client \ Sync :
          HomeOf[c] \notin Failing /\ seen'[c] # 0 => seen'[c] >= seen[c]]_vars

\* Whoever polls is some day answered with the latest version, though every
\* server on the way first answers with what it has, and refreshes itself
\* afterwards: "refreshed on the next pull" (TrsstAdapter.java:202-229).
CatchesUp ==
    \A c \in Client \ Sync :
        (stored[Origin] = MaxVersion) ~> [](seen[c] = MaxVersion)

=============================================================================
