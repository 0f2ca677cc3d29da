-------------------------------- MODULE Sync --------------------------------
(***************************************************************************)
(* One feed, whose home is one server, and clients of its account that post *)
(* to whatever server they use (Client.post, Client.push).  A server that   *)
(* takes a document for a feed whose home is elsewhere ingests it, brings   *)
(* the feed up to date with the home (syncToService), sends the home what   *)
(* it has received (pushRawPost), and answers.                              *)
(*                                                                          *)
(* Each request to another server is a step, and so is each access to the   *)
(* server's own storage between two of them: the requests of other clients  *)
(* come in between.  A document is ingested as a whole (see Ingest).  The   *)
(* servers have no relays (see Relay).                                      *)
(***************************************************************************)
EXTENDS Integers, FiniteSets, FiniteSetsExt

CONSTANTS
    Server, Home,       \* the home is what the feed's base address names
    Device,             \* clients that hold the keys of the account
    MaxTime,            \* bound on the ids of entries
    Page,               \* entries in one document, 99
    MaxRequests,        \* bound on requests of clients
    MaxFaults           \* bound on failed requests

ASSUME SyncAssumption ==
    /\ Home \in Server
    /\ MaxTime \in Nat /\ Page \in Nat \ {0} /\ MaxRequests \in Nat /\ MaxFaults \in Nat

VARIABLES
    stored,         \* server -> its entries of the feed
    header,         \* server -> its feed element
    clock,          \* device -> timestamp of what it posted last
    request,        \* device -> its request, with the server that works on it
    requests,       \* number of requests of clients so far
    faults,         \* number of failed requests so far
    answered,       \* history: entries of the documents that were answered
    missed,         \* history: answered entries that were not sent home
    bare,           \* history: entries composed without a feed to start from
    known,          \* history: entry -> latest answered when it was composed
    dirty,          \* history: servers with a failure since their last comparison
    floor           \* history: server -> latest entry of the home at that comparison

history == <<answered, missed, bare, known, dirty, floor>>
vars == <<stored, header, clock, request, requests, faults, history>>

Time == 1..MaxTime

\* The id of an entry is its timestamp; `by` stands for its signature, `pred`
\* is the id of its predecessor (0: none), `at` the server it was composed for.
Entry == [time : Time, by : Device, pred : 0..MaxTime, at : Server]

\* A feed element; `base`: it has the address of its home.
Header == [time : 0..MaxTime, base : BOOLEAN]
NoHeader == [time |-> 0, base |-> FALSE]
Doc == [head : Header, entries : SUBSET Entry]
Nothing == [head |-> NoHeader, entries |-> {}]

\* `local` is the feed element the server read for itself, `doc` what it was
\* sent, `other` what it has been answered or is about to send.
Request == [pc : {"idle", "sent", "ask", "compare", "fetch", "take",
                  "push", "raw"},
            at : Server, doc : Doc, local : Header, other : Doc]
Idle == [pc |-> "idle", at |-> Home, doc |-> Nothing, local |-> NoHeader,
         other |-> Nothing]

Times(es) == {e.time : e \in es}
Since(es, t) == {e \in es : e.time > t}
LatestOf(es) == IF es = {} THEN 0 ELSE Max(Times(es))

\* The first page of a list of entries, latest first.
Newest(n, es) == {e \in es : Cardinality({f \in es : f.time > e.time}) < n}

Init ==
    /\ stored = [s \in Server |-> {}]
    /\ header = [s \in Server |-> NoHeader]
    /\ clock = [d \in Device |-> 0]
    /\ request = [d \in Device |-> Idle]
    /\ requests = 0 /\ faults = 0
    /\ answered = {} /\ missed = {} /\ bare = {}
    /\ known = << >>
    /\ dirty = {}
    /\ floor = [s \in Server |-> 0]

\* What a server answers to a request for n entries after a time.
Answer(s, n, t) == [head |-> header[s], entries |-> Newest(n, Since(stored[s], t))]

\* Faulty variant: entries are stored whether or not their ids are new.
AcceptAgain(s, doc) ==
    /\ header' = [header EXCEPT ![s] = IF doc.head.time > @.time THEN doc.head ELSE @]
    /\ stored' = [stored EXCEPT ![s] = @ \cup doc.entries]

\* ingestFeed: the feed element if it is newer, entries whose ids are new.
Accept(s, doc) ==
    /\ header' = [header EXCEPT ![s] = IF doc.head.time > @.time THEN doc.head ELSE @]
    /\ stored' = [stored EXCEPT ![s] =
                    @ \cup {e \in doc.entries : e.time \notin Times(@)}]

\* The request goes on at `pc`.
Goes(d, pc) == request' = [request EXCEPT ![d].pc = pc]
GoesWith(d, pc, other) == request' = [request EXCEPT ![d].pc = pc, ![d].other = other]

Fault == faults < MaxFaults /\ faults' = faults + 1

-----------------------------------------------------------------------------
(* The client *)

\* Who has made the account says where its home is; everybody else takes over
\* what the feed element says, or nothing if there is none.
Based(pulled) == pulled.base \/ \A d \in Device : clock[d] = 0

\* Faulty variant: the comparison of dates is the wrong way round.
Earliest(es) == IF es = {} THEN 0 ELSE Min(Times(es))

Predecessor(es) == LatestOf(es)

\* Client.post: pull the feed, put the entry after the latest one, sign, and
\* send.  The clock is that of the client.
Compose(d, s, t, withEntry, found) ==
    LET pulled == IF found THEN Answer(s, Page, 0) ELSE Nothing
        entry == [time |-> t, by |-> d, pred |-> Predecessor(pulled.entries), at |-> s]
        new == IF withEntry THEN {entry} ELSE {}
    IN /\ request[d].pc = "idle"
       /\ requests < MaxRequests /\ requests' = requests + 1
       /\ t > clock[d]
       /\ clock' = [clock EXCEPT ![d] = t]
       /\ IF found THEN UNCHANGED faults ELSE Fault
       /\ request' = [request EXCEPT ![d] =
                        [Idle EXCEPT !.pc = "sent", !.at = s,
                             !.doc = [head |-> [time |-> t, base |-> Based(pulled.head)],
                                      entries |-> new]]]
       /\ bare' = IF found THEN bare ELSE bare \cup new
       /\ known' = [e \in DOMAIN known \cup new |->
                        IF e \in new
                        THEN LatestOf({f \in answered \cap stored[s] : f.at = s})
                        ELSE known[e]]
       /\ UNCHANGED <<stored, header, answered, missed, dirty, floor>>

\* Client.push: what one server has of the feed is sent to another one.
Push(d, s, t) ==
    /\ request[d].pc = "idle"
    /\ requests < MaxRequests /\ requests' = requests + 1
    /\ s # t /\ header[s] # NoHeader
    /\ request' = [request EXCEPT ![d] =
                    [Idle EXCEPT !.pc = "sent", !.at = t, !.doc = Answer(s, Page, 0)]]
    /\ UNCHANGED <<stored, header, clock, faults, history>>

-----------------------------------------------------------------------------
(* The server *)

\* Is the home of the document elsewhere?
Forwards(s, doc) == s # Home /\ doc.head.base

\* The answer to the client.
Finish(d) ==
    /\ request' = [request EXCEPT ![d] = Idle]
    /\ answered' = answered \cup request[d].doc.entries

\* postEntry, up to pushRawPostIfNeeded.
Receive(d) ==
    LET s == request[d].at
        doc == request[d].doc
    IN /\ request[d].pc = "sent"
       /\ Accept(s, doc)
       /\ IF Forwards(s, doc)
          THEN Goes(d, "ask") /\ UNCHANGED <<answered, missed, dirty>>
          ELSE /\ Finish(d)
               /\ missed' = IF s = Home THEN missed ELSE missed \cup doc.entries
               /\ dirty' = dirty \cup ({s} \ {Home})
       /\ UNCHANGED <<clock, requests, faults, bare, known, floor>>

LoseRequest(d) ==
    /\ request[d].pc = "sent"
    /\ Fault
    /\ request' = [request EXCEPT ![d] = Idle]
    /\ UNCHANGED <<stored, header, clock, requests, history>>

\* syncToService: the feed element that is stored here, and the latest entry of
\* the home.  A failure looks like an empty home.
AskHome(d) ==
    LET s == request[d].at
        Hears(other) == request' = [request EXCEPT ![d].pc = "compare",
                                    ![d].local = header[s], ![d].other = other]
    IN /\ request[d].pc = "ask"
       /\ \/ Hears(Answer(Home, 1, 0)) /\ UNCHANGED faults
          \/ Hears(Nothing) /\ Fault
       /\ UNCHANGED <<stored, header, clock, requests, history>>

\* Faulty variant: to a home that is behind, only the latest entry is sent.
LatestSince(s, t) == Newest(1, Since(stored[s], t))

Difference(s, t) == Newest(Page, Since(stored[s], t))

\* Who has the later entry?  Without entries here, those of the home are taken;
\* to an empty home, or one that is behind, the difference is sent.
Compare(d) ==
    LET s == request[d].at
        other == request[d].other
        own == LatestOf(stored[s])
        theirs == LatestOf(other.entries)
    IN /\ request[d].pc = "compare"
       /\ CASE own = 0 /\ other.head # NoHeader -> Goes(d, IF theirs # 0 THEN "take" ELSE "raw")
            [] own < theirs -> Goes(d, "fetch")
            [] own = theirs /\ own # 0 -> Goes(d, "raw")
            [] OTHER -> GoesWith(d, "push", [head |-> request[d].local,
                                             entries |-> Difference(s, theirs)])
       /\ dirty' = dirty \ {s}
       /\ floor' = [floor EXCEPT ![s] = theirs]
       /\ UNCHANGED <<stored, header, clock, requests, faults, answered, missed, bare, known>>

\* The home is ahead: ask for what came after the latest entry here.
FetchLater(d) ==
    /\ request[d].pc = "fetch"
    /\ \/ /\ GoesWith(d, "take", Answer(Home, Page, LatestOf(stored[request[d].at])))
          /\ UNCHANGED faults
       \/ Goes(d, "raw") /\ Fault
    /\ UNCHANGED <<stored, header, clock, requests, history>>

TakeRemote(d) ==
    /\ request[d].pc = "take"
    /\ Accept(request[d].at, request[d].other)
    /\ Goes(d, "raw")
    /\ UNCHANGED <<clock, requests, faults, history>>

\* pushToService: the home ingests it, and forwards nothing.
PushToHome(d) ==
    /\ request[d].pc = "push"
    /\ Goes(d, "raw")
    /\ \/ Accept(Home, request[d].other) /\ UNCHANGED <<faults, dirty>>
       \/ Fault /\ dirty' = dirty \cup {request[d].at} /\ UNCHANGED <<stored, header>>
    /\ UNCHANGED <<clock, requests, answered, missed, bare, known, floor>>

\* Faulty variant: a feed that was found in sync is not sent.
PushRawUnlessSynced(d) ==
    /\ request[d].pc = "raw"
    /\ Finish(d)
    /\ IF LatestOf(request[d].other.entries) = LatestOf(stored[request[d].at])
       THEN UNCHANGED <<stored, header>>
       ELSE Accept(Home, request[d].doc)
    /\ UNCHANGED <<clock, requests, faults, missed, dirty, bare, known, floor>>

\* pushRawPost: what was received is sent home as it is.  A failure is logged,
\* and the client is answered all the same.
PushRaw(d) ==
    /\ request[d].pc = "raw"
    /\ Finish(d)
    /\ \/ Accept(Home, request[d].doc) /\ UNCHANGED <<faults, missed, dirty>>
       \/ /\ Fault
          /\ missed' = missed \cup request[d].doc.entries
          /\ dirty' = dirty \cup {request[d].at}
          /\ UNCHANGED <<stored, header>>
    /\ UNCHANGED <<clock, requests, bare, known, floor>>

Next ==
    \E d \in Device :
        \/ \E s \in Server, t \in Time, withEntry, found \in BOOLEAN :
                Compose(d, s, t, withEntry, found)
        \/ \E s, t \in Server : Push(d, s, t)
        \/ Receive(d) \/ LoseRequest(d)
        \/ AskHome(d) \/ Compare(d)
        \/ FetchLater(d) \/ TakeRemote(d) \/ PushToHome(d) \/ PushRaw(d)

Spec == Init /\ [][Next]_vars

-----------------------------------------------------------------------------
DistinctIds(es) == \A e, f \in es : e.time = f.time => e = f

TypeOK ==
    /\ stored \in [Server -> SUBSET Entry]
    /\ \A s \in Server : DistinctIds(stored[s])
    /\ header \in [Server -> Header]
    /\ clock \in [Device -> 0..MaxTime]
    /\ request \in [Device -> Request]
    /\ requests \in 0..MaxRequests /\ faults \in 0..MaxFaults
    /\ answered \subseteq Entry /\ missed \subseteq Entry /\ bare \subseteq Entry
    /\ DOMAIN known \subseteq Entry /\ known \in [DOMAIN known -> 0..MaxTime]
    /\ dirty \subseteq Server
    /\ floor \in [Server -> 0..MaxTime]

\* The chain of predecessors forks at one server only between posts that were
\* under way together, or behind a pull that found nothing: an entry comes
\* after all that were answered there before it was composed (Client.java:391-404,
\* :655-680).
ForksOnlyByRace ==
    \A e \in DOMAIN known \ bare : e.pred >= known[e]

\* What a server has accepted is at home when it answers, unless sending it
\* failed or the feed element had no home: "we still ingest a copy but we make
\* sure it gets where it needs to go" (TrsstAdapter.java:1816-1818).
ReachesHome ==
    \A e \in answered : e.time \in Times(stored[Home]) \/ e \in missed

\* The next comparison makes good for posts that did not get home: while no
\* request is under way at a server, and none has failed since it last compared
\* with the home, the home has the latest page of what came after the entry it
\* compared with (TrsstAdapter.java:1844-1936).
SyncMakesGood ==
    \A s \in Server \ ({Home} \cup dirty) :
        (\A d \in Device : request[d].pc = "idle" \/ request[d].at # s)
        => Times(Newest(Page, Since(stored[s], floor[s]))) \subseteq Times(stored[Home])

=============================================================================
