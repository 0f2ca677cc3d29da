----------------------------- MODULE SyncProofs -----------------------------
(***************************************************************************)
(* Proofs about Sync: its types, the chain of predecessors, what is certain *)
(* to be at home, and what the next comparison makes good.                  *)
(***************************************************************************)
EXTENDS Sync, FiniteSetTheorems, WellFoundedInduction, TLAPS

-----------------------------------------------------------------------------
(* Latest entries *)

\* A set of natural numbers has a least element.
LEMMA Least ==
    ASSUME NEW T, T \subseteq Nat, T # {}
    PROVE  \E x \in T : \A y \in T : x <= y
<1> DEFINE R == OpToRel(<, Nat)
<1>1. IsWellFoundedOn(R, Nat)
  BY NatLessThanWellFounded
<1>2. \A x, y \in Nat : x < y => <<x, y>> \in R
  BY DEF OpToRel
<1> HIDE DEF R
<1>3. PICK x \in T : \A y \in T : ~(<<y, x>> \in R)
  BY <1>1, WFMin
<1>4. \A y \in T : ~(y < x)
  BY <1>2, <1>3
<1>5. x \in Nat /\ \A y \in T : y \in Nat
  OBVIOUS
<1>6. \A y \in T : x <= y
  BY <1>4, <1>5
<1> QED
  BY <1>6

\* A bounded one has a greatest.
LEMMA Greatest ==
    ASSUME NEW N \in Nat, NEW T, T \subseteq 0..N, T # {}
    PROVE  /\ Max(T) \in T
           /\ \A y \in T : y <= Max(T)
<1> DEFINE U == {k \in Nat : \A y \in T : y <= k}
<1>1. N \in U
  OBVIOUS
<1>2. PICK m \in U : \A k \in U : m <= k
  BY <1>1, Least
<1>3. m \in T
  <2>1. CASE m = 0
    <3>1. PICK y \in T : TRUE
      OBVIOUS
    <3>2. y = 0
      BY <2>1
    <3> QED
      BY <3>1, <3>2, <2>1
  <2>2. CASE m # 0
    <3>1. SUFFICES ASSUME m \notin T PROVE FALSE
      OBVIOUS
    <3>2. m - 1 \in U
      BY <2>2, <3>1
    <3> QED
      BY <3>2, <1>2
  <2> QED
    BY <2>1, <2>2
<1>4. \E x \in T : \A y \in T : x >= y
  BY <1>2, <1>3
<1> QED
  BY <1>4 DEF Max

\* The latest of a set of entries is one of their times, and none is later.
LEMMA LatestIsGreatest ==
    ASSUME NEW es \in SUBSET Entry
    PROVE  /\ LatestOf(es) \in 0..MaxTime
           /\ es # {} => \E e \in es : e.time = LatestOf(es)
           /\ \A e \in es : e.time <= LatestOf(es)
<1> USE SyncAssumption
<1>1. CASE es = {}
  BY <1>1 DEF LatestOf
<1>2. CASE es # {}
  <2>1. Times(es) \subseteq 0..MaxTime /\ Times(es) # {}
    BY <1>2 DEF Times, Entry, Time
  <2>2. /\ Max(Times(es)) \in Times(es)
        /\ \A y \in Times(es) : y <= Max(Times(es))
    BY <2>1, Greatest
  <2>3. LatestOf(es) = Max(Times(es))
    BY <1>2 DEF LatestOf
  <2> QED
    BY <2>1, <2>2, <2>3, <1>2 DEF Times
<1> QED
  BY <1>1, <1>2

\* The first page has the latest entry.
LEMMA NewestHasLatest ==
    ASSUME NEW es \in SUBSET Entry, NEW n \in Nat \ {0}
    PROVE  LatestOf(Newest(n, es)) = LatestOf(es)
<1> USE SyncAssumption
<1>1. Newest(n, es) \subseteq es
  BY DEF Newest
<1>2. CASE es = {}
  BY <1>1, <1>2
<1>3. CASE es # {}
  <2>1. PICK e \in es : e.time = LatestOf(es)
    BY <1>3, LatestIsGreatest
  <2>2. \A f \in es : f.time \in Nat /\ f.time <= e.time
    BY <2>1, LatestIsGreatest DEF Entry, Time
  <2>3. {f \in es : f.time > e.time} = {}
    BY <2>2
  <2>4. e \in Newest(n, es)
    BY <2>3, FS_EmptySet DEF Newest
  <2>5. /\ LatestOf(Newest(n, es)) \in 0..MaxTime
        /\ e.time <= LatestOf(Newest(n, es))
        /\ \E g \in Newest(n, es) : g.time = LatestOf(Newest(n, es))
    BY <2>4, <1>1, LatestIsGreatest
  <2>6. LatestOf(Newest(n, es)) <= e.time
    BY <2>5, <2>2, <1>1
  <2>7. e.time \in Nat
    BY <2>2
  <2> QED
    BY <2>1, <2>5, <2>6, <2>7
<1> QED
  BY <1>2, <1>3

\* A set of entries has a latest that is no later than that of a larger one.
LEMMA LatestGrows ==
    ASSUME NEW es \in SUBSET Entry, NEW fs \in SUBSET es
    PROVE  LatestOf(fs) <= LatestOf(es)
<1> USE SyncAssumption
<1>1. LatestOf(es) \in 0..MaxTime /\ LatestOf(fs) \in 0..MaxTime
  BY LatestIsGreatest
<1>2. CASE fs = {}
  BY <1>1, <1>2 DEF LatestOf
<1>3. CASE fs # {}
  <2>1. PICK f \in fs : f.time = LatestOf(fs)
    BY <1>3, LatestIsGreatest
  <2>2. f.time <= LatestOf(es)
    BY LatestIsGreatest
  <2> QED
    BY <2>1, <2>2
<1> QED
  BY <1>2, <1>3

-----------------------------------------------------------------------------
(* Documents *)

DocInv ==
    \A d \in Device : /\ DistinctIds(request[d].doc.entries)
                      /\ DistinctIds(request[d].other.entries)

SafetyInv == TypeOK /\ DocInv /\ ForksOnlyByRace /\ ReachesHome

\* What a server answers is a document.
LEMMA AnswerIsDoc ==
    ASSUME TypeOK, NEW s \in Server, NEW n, NEW t
    PROVE  /\ Answer(s, n, t) \in Doc
           /\ DistinctIds(Answer(s, n, t).entries)
<1>1. header[s] \in Header /\ stored[s] \subseteq Entry /\ DistinctIds(stored[s])
  BY DEF TypeOK
<1>2. Newest(n, Since(stored[s], t)) \subseteq stored[s]
  BY DEF Newest, Since
<1> QED
  BY <1>1, <1>2 DEF Answer, Doc, DistinctIds

LEMMA NothingIsDoc ==
    Nothing \in Doc /\ DistinctIds(Nothing.entries) /\ NoHeader \in Header
BY SyncAssumption DEF Nothing, Doc, NoHeader, Header, DistinctIds

LEMMA IdleIsRequest ==
    Idle \in Request /\ Idle.doc = Nothing /\ Idle.other = Nothing
BY SyncAssumption, NothingIsDoc DEF Idle, Request

\* A document that is ingested is stored, or its ids were; nothing is lost.
LEMMA AcceptStores ==
    ASSUME TypeOK, NEW s \in Server, NEW doc \in Doc, DistinctIds(doc.entries),
           Accept(s, doc)
    PROVE  /\ stored' \in [Server -> SUBSET Entry]
           /\ header' \in [Server -> Header]
           /\ \A x \in Server : DistinctIds(stored'[x]) /\ stored[x] \subseteq stored'[x]
           /\ Times(doc.entries) \subseteq Times(stored'[s])
<1>1. /\ stored \in [Server -> SUBSET Entry] /\ header \in [Server -> Header]
      /\ \A x \in Server : DistinctIds(stored[x])
      /\ doc.head \in Header /\ doc.entries \subseteq Entry
  BY DEF TypeOK, Doc
<1> DEFINE new == {e \in doc.entries : e.time \notin Times(stored[s])}
<1>2. stored' = [stored EXCEPT ![s] = stored[s] \cup new]
  BY <1>1 DEF Accept
<1>3. header' = [header EXCEPT ![s] = IF doc.head.time > header[s].time
                                       THEN doc.head ELSE header[s]]
  BY <1>1 DEF Accept
<1>4. /\ stored'[s] = stored[s] \cup new
      /\ \A x \in Server \ {s} : stored'[x] = stored[x]
      /\ stored' \in [Server -> SUBSET Entry]
  BY <1>1, <1>2
<1>5. header' \in [Server -> Header]
  BY <1>1, <1>3
<1>6. DistinctIds(stored'[s])
  BY <1>1, <1>4 DEF DistinctIds, Times
<1>7. Times(doc.entries) \subseteq Times(stored'[s])
  BY <1>4 DEF Times
<1> QED
  BY <1>1, <1>4, <1>5, <1>6, <1>7

\* What is at home stays, and so does what ReachesHome says of it.
LEMMA HomeKeeps ==
    ASSUME ReachesHome, stored[Home] \subseteq stored'[Home], missed \subseteq missed',
           NEW es, answered' = answered \cup es,
           Times(es) \subseteq Times(stored'[Home]) \/ es \subseteq missed'
    PROVE  ReachesHome'
BY DEF ReachesHome, Times

-----------------------------------------------------------------------------
(* Steps *)

\* Any step of a request but composing an entry: storage only grows, and what
\* is answered is at home or noted as missed.
LEMMA StepKeeps ==
    ASSUME SafetyInv, NEW d \in Device, NEW r \in Request,
           DistinctIds(r.doc.entries), DistinctIds(r.other.entries),
           request' = [request EXCEPT ![d] = r],
           stored' \in [Server -> SUBSET Entry], header' \in [Server -> Header],
           \A x \in Server : DistinctIds(stored'[x]) /\ stored[x] \subseteq stored'[x],
           clock' = clock, bare' = bare, known' = known,
           requests' \in 0..MaxRequests, faults' \in 0..MaxFaults,
           dirty' \subseteq Server, floor' \in [Server -> 0..MaxTime],
           missed' \subseteq Entry, missed \subseteq missed',
           NEW es \in SUBSET Entry, answered' = answered \cup es,
           Times(es) \subseteq Times(stored'[Home]) \/ es \subseteq missed'
    PROVE  SafetyInv'
<1>1. TypeOK /\ DocInv /\ ForksOnlyByRace /\ ReachesHome
  BY DEF SafetyInv
<1>2. request \in [Device -> Request]
  BY <1>1 DEF TypeOK
<1>3. request' \in [Device -> Request]
  BY <1>2
<1>4. answered' \subseteq Entry
  BY <1>1 DEF TypeOK
<1>5. TypeOK'
  BY <1>1, <1>3, <1>4 DEF TypeOK
<1>6. DocInv'
  <2>1. \A x \in Device : request'[x] = IF x = d THEN r ELSE request[x]
    BY <1>2
  <2> QED
    BY <1>1, <2>1 DEF DocInv
<1>7. ForksOnlyByRace'
  BY <1>1 DEF ForksOnlyByRace
<1>8. ReachesHome'
  <2>1. stored[Home] \subseteq stored'[Home]
    BY SyncAssumption
  <2> QED
    BY <1>1, <2>1, HomeKeeps
<1> QED
  BY <1>5, <1>6, <1>7, <1>8 DEF SafetyInv

\* The same for a step that touches neither storage nor what is answered.
LEMMA QuietKeeps ==
    ASSUME SafetyInv, NEW d \in Device, NEW r \in Request,
           DistinctIds(r.doc.entries), DistinctIds(r.other.entries),
           request' = [request EXCEPT ![d] = r],
           stored' = stored, header' = header, clock' = clock,
           bare' = bare, known' = known, answered' = answered, missed' = missed,
           requests' \in 0..MaxRequests, faults' \in 0..MaxFaults,
           dirty' \subseteq Server, floor' \in [Server -> 0..MaxTime]
    PROVE  SafetyInv'
<1>1. /\ stored' \in [Server -> SUBSET Entry] /\ header' \in [Server -> Header]
      /\ \A x \in Server : DistinctIds(stored'[x]) /\ stored[x] \subseteq stored'[x]
      /\ missed' \subseteq Entry /\ missed \subseteq missed'
  BY DEF SafetyInv, TypeOK
<1>2. answered' = answered \cup {} /\ {} \in SUBSET Entry /\ {} \subseteq missed'
  OBVIOUS
<1> QED
  BY <1>1, <1>2, StepKeeps

\* A fault is counted within its bound.
LEMMA FaultCounts ==
    ASSUME TypeOK, Fault \/ UNCHANGED faults
    PROVE  faults' \in 0..MaxFaults
BY SyncAssumption DEF TypeOK, Fault

\* The parts of the types that the steps need.
LEMMA Types ==
    ASSUME SafetyInv, NEW d \in Device
    PROVE  /\ TypeOK /\ DocInv /\ request[d] \in Request /\ request \in [Device -> Request]
           /\ request[d].at \in Server /\ request[d].local \in Header
           /\ request[d].doc \in Doc /\ DistinctIds(request[d].doc.entries)
           /\ request[d].other \in Doc /\ DistinctIds(request[d].other.entries)
           /\ request[d].doc.entries \in SUBSET Entry
           /\ requests \in 0..MaxRequests /\ faults \in 0..MaxFaults
           /\ dirty \subseteq Server /\ floor \in [Server -> 0..MaxTime]
           /\ missed \subseteq Entry
           /\ stored \in [Server -> SUBSET Entry] /\ header \in [Server -> Header]
           /\ \A x \in Server : DistinctIds(stored[x])
<1>1. TypeOK /\ DocInv
  BY DEF SafetyInv
<1>2. request \in [Device -> Request] /\ request[d] \in Request
  BY <1>1 DEF TypeOK
<1>3. request[d].doc \in Doc /\ request[d].other \in Doc /\ request[d].at \in Server
      /\ request[d].local \in Header
  BY <1>2 DEF Request
<1>4. request[d].doc.entries \in SUBSET Entry
  BY <1>3 DEF Doc
<1> QED
  BY <1>1, <1>2, <1>3, <1>4 DEF TypeOK, DocInv

Steps == {"idle", "sent", "ask", "compare", "fetch", "take", "push", "raw"}

\* A request that goes on at another step is a request.
LEMMA GoesOn ==
    ASSUME NEW q \in Request, NEW pc \in Steps
    PROVE  /\ [q EXCEPT !.pc = pc] \in Request
           /\ [q EXCEPT !.pc = pc].doc = q.doc /\ [q EXCEPT !.pc = pc].other = q.other
BY DEF Request, Steps

\* The server takes a document, and answers or asks the home.
LEMMA ReceiveKeeps ==
    ASSUME SafetyInv, NEW d \in Device, Receive(d)
    PROVE  SafetyInv'
<1> DEFINE s == request[d].at
           doc == request[d].doc
<1>1. /\ TypeOK /\ DocInv /\ request[d] \in Request /\ request \in [Device -> Request]
      /\ s \in Server /\ doc \in Doc /\ DistinctIds(doc.entries)
      /\ DistinctIds(request[d].other.entries) /\ doc.entries \in SUBSET Entry
      /\ dirty \subseteq Server /\ floor \in [Server -> 0..MaxTime] /\ missed \subseteq Entry
      /\ requests \in 0..MaxRequests /\ faults \in 0..MaxFaults
      /\ request[d].local \in Header /\ request[d].other \in Doc
  BY Types
<1>2. /\ Accept(s, doc)
      /\ clock' = clock /\ requests' = requests /\ faults' = faults
      /\ bare' = bare /\ known' = known /\ floor' = floor
  BY DEF Receive
<1>3. /\ stored' \in [Server -> SUBSET Entry] /\ header' \in [Server -> Header]
      /\ \A x \in Server : DistinctIds(stored'[x]) /\ stored[x] \subseteq stored'[x]
      /\ Times(doc.entries) \subseteq Times(stored'[s])
  BY <1>1, <1>2, AcceptStores
<1>4. CASE Forwards(s, doc)
  <2>1. /\ request' = [request EXCEPT ![d] = [request[d] EXCEPT !.pc = "ask"]]
        /\ answered' = answered /\ missed' = missed /\ dirty' = dirty
    BY <1>4 DEF Receive, Goes
  <2> DEFINE r == [request[d] EXCEPT !.pc = "ask"]
  <2>2. r \in Request /\ r.doc = doc /\ r.other = request[d].other
    <3>1. "ask" \in Steps
      BY DEF Steps
    <3> QED
      BY <1>1, <3>1, GoesOn
  <2>3. answered' = answered \cup {} /\ {} \in SUBSET Entry /\ {} \subseteq missed'
    BY <2>1
  <2> HIDE DEF r, s, doc
  <2> QED
    BY <1>1, <1>2, <1>3, <2>1, <2>2, <2>3, StepKeeps DEF r
<1>5. CASE ~Forwards(s, doc)
  <2>1. /\ request' = [request EXCEPT ![d] = Idle]
        /\ answered' = answered \cup doc.entries
        /\ missed' = IF s = Home THEN missed ELSE missed \cup doc.entries
        /\ dirty' = dirty \cup ({s} \ {Home})
    BY <1>5 DEF Receive, Finish
  <2>2. Idle \in Request /\ DistinctIds(Idle.doc.entries) /\ DistinctIds(Idle.other.entries)
    BY IdleIsRequest, NothingIsDoc
  <2>3. dirty' \subseteq Server /\ missed' \subseteq Entry /\ missed \subseteq missed'
    BY <1>1, <2>1
  <2>4. Times(doc.entries) \subseteq Times(stored'[Home]) \/ doc.entries \subseteq missed'
    BY <1>3, <2>1
  <2> HIDE DEF s, doc
  <2> QED
    BY <1>1, <1>2, <1>3, <2>1, <2>2, <2>3, <2>4, StepKeeps
<1> QED
  BY <1>4, <1>5

LEMMA LoseRequestKeeps ==
    ASSUME SafetyInv, NEW d \in Device, LoseRequest(d)
    PROVE  SafetyInv'
<1>1. /\ TypeOK /\ requests \in 0..MaxRequests
      /\ dirty \subseteq Server /\ floor \in [Server -> 0..MaxTime]
  BY Types
<1>2. /\ request' = [request EXCEPT ![d] = Idle] /\ requests' = requests
      /\ stored' = stored /\ header' = header /\ clock' = clock
      /\ bare' = bare /\ known' = known /\ answered' = answered /\ missed' = missed
      /\ dirty' = dirty /\ floor' = floor
      /\ faults' \in 0..MaxFaults
  BY <1>1, FaultCounts DEF LoseRequest, history
<1>3. Idle \in Request /\ DistinctIds(Idle.doc.entries) /\ DistinctIds(Idle.other.entries)
  BY IdleIsRequest, NothingIsDoc
<1> QED
  BY <1>1, <1>2, <1>3, QuietKeeps

LEMMA AskHomeKeeps ==
    ASSUME SafetyInv, NEW d \in Device, AskHome(d)
    PROVE  SafetyInv'
<1> DEFINE s == request[d].at
<1>1. /\ TypeOK /\ requests \in 0..MaxRequests /\ s \in Server
      /\ dirty \subseteq Server /\ floor \in [Server -> 0..MaxTime]
      /\ request[d] \in Request /\ DistinctIds(request[d].doc.entries)
      /\ header[s] \in Header
  <2>1. s \in Server /\ header \in [Server -> Header]
    BY Types
  <2> QED
    BY <2>1, Types
<1>2. PICK other \in {Answer(Home, 1, 0), Nothing} :
        request' = [request EXCEPT ![d].pc = "compare", ![d].local = header[s],
                                   ![d].other = other]
  BY DEF AskHome
<1>3. /\ requests' = requests /\ faults' \in 0..MaxFaults
      /\ stored' = stored /\ header' = header /\ clock' = clock
      /\ bare' = bare /\ known' = known /\ answered' = answered /\ missed' = missed
      /\ dirty' = dirty /\ floor' = floor
  <2>1. Fault \/ UNCHANGED faults
    BY DEF AskHome
  <2> QED
    BY <1>1, <2>1, FaultCounts DEF AskHome, history
<1>4. other \in Doc /\ DistinctIds(other.entries)
  BY <1>1, <1>2, AnswerIsDoc, NothingIsDoc, SyncAssumption
<1> DEFINE r == [request[d] EXCEPT !.pc = "compare", !.local = header[s], !.other = other]
<1>5. r \in Request /\ r.doc = request[d].doc /\ r.other = other
  <2>1. "compare" \in Steps
    BY DEF Steps
  <2> QED
    BY <1>1, <1>4, <2>1 DEF Request, Steps
<1>6. request' = [request EXCEPT ![d] = r]
  BY <1>2, Types
<1> HIDE DEF r, s
<1> QED
  BY <1>1, <1>3, <1>4, <1>5, <1>6, QuietKeeps

LEMMA CompareKeeps ==
    ASSUME SafetyInv, NEW d \in Device, Compare(d)
    PROVE  SafetyInv'
<1> DEFINE s == request[d].at
           theirs == LatestOf(request[d].other.entries)
           difference == [head |-> request[d].local, entries |-> Difference(s, theirs)]
<1>1. /\ TypeOK /\ requests \in 0..MaxRequests /\ faults \in 0..MaxFaults /\ s \in Server
      /\ dirty \subseteq Server /\ floor \in [Server -> 0..MaxTime]
      /\ request[d] \in Request /\ request \in [Device -> Request]
      /\ request[d].local \in Header /\ request[d].other \in Doc
      /\ DistinctIds(request[d].doc.entries) /\ DistinctIds(request[d].other.entries)
  BY Types
<1>2. theirs \in 0..MaxTime
  BY <1>1, LatestIsGreatest DEF Doc
<1>3. /\ requests' = requests /\ faults' = faults
      /\ stored' = stored /\ header' = header /\ clock' = clock
      /\ bare' = bare /\ known' = known /\ answered' = answered /\ missed' = missed
      /\ dirty' = dirty \ {s} /\ floor' = [floor EXCEPT ![s] = theirs]
  BY DEF Compare
<1>4. dirty' \subseteq Server /\ floor' \in [Server -> 0..MaxTime]
  BY <1>1, <1>2, <1>3
<1>5. difference \in Doc /\ DistinctIds(difference.entries)
  <2>1. stored[s] \subseteq Entry /\ DistinctIds(stored[s])
    BY <1>1 DEF TypeOK
  <2>2. Difference(s, theirs) \subseteq stored[s]
    BY DEF Difference, Newest, Since
  <2> QED
    BY <1>1, <2>1, <2>2 DEF Doc, DistinctIds
<1>6. \/ \E pc \in {"take", "raw", "fetch"} : Goes(d, pc)
      \/ GoesWith(d, "push", difference)
  BY DEF Compare
<1> HIDE DEF s, theirs, difference
<1>7. CASE \E pc \in {"take", "raw", "fetch"} : Goes(d, pc)
  <2>1. PICK pc \in {"take", "raw", "fetch"} : Goes(d, pc)
    BY <1>7
  <2> DEFINE r == [request[d] EXCEPT !.pc = pc]
  <2>2. request' = [request EXCEPT ![d] = r]
    BY <2>1 DEF Goes
  <2>3. r \in Request /\ r.doc = request[d].doc /\ r.other = request[d].other
    <3>1. pc \in Steps
      BY DEF Steps
    <3> QED
      BY <1>1, <3>1, GoesOn
  <2> HIDE DEF r
  <2> QED
    BY <1>1, <1>3, <1>4, <2>2, <2>3, QuietKeeps
<1>8. CASE GoesWith(d, "push", difference)
  <2> DEFINE r == [request[d] EXCEPT !.pc = "push", !.other = difference]
  <2>1. request' = [request EXCEPT ![d] = r]
    BY <1>8, <1>1 DEF GoesWith
  <2>2. r \in Request /\ r.doc = request[d].doc /\ r.other = difference
    <3>1. "push" \in Steps
      BY DEF Steps
    <3> QED
      BY <1>1, <1>5, <3>1 DEF Request, Steps
  <2> HIDE DEF r
  <2> QED
    BY <1>1, <1>3, <1>4, <1>5, <2>1, <2>2, QuietKeeps
<1> QED
  BY <1>6, <1>7, <1>8

LEMMA FetchLaterKeeps ==
    ASSUME SafetyInv, NEW d \in Device, FetchLater(d)
    PROVE  SafetyInv'
<1> DEFINE later == Answer(Home, Page, LatestOf(stored[request[d].at]))
<1>1. /\ TypeOK /\ requests \in 0..MaxRequests
      /\ dirty \subseteq Server /\ floor \in [Server -> 0..MaxTime]
      /\ request[d] \in Request /\ request \in [Device -> Request]
      /\ DistinctIds(request[d].doc.entries) /\ DistinctIds(request[d].other.entries)
  BY Types
<1>2. /\ requests' = requests /\ faults' \in 0..MaxFaults
      /\ stored' = stored /\ header' = header /\ clock' = clock
      /\ bare' = bare /\ known' = known /\ answered' = answered /\ missed' = missed
      /\ dirty' = dirty /\ floor' = floor
  <2>1. Fault \/ UNCHANGED faults
    BY DEF FetchLater
  <2> QED
    BY <1>1, <2>1, FaultCounts DEF FetchLater, history
<1>3. later \in Doc /\ DistinctIds(later.entries)
  BY <1>1, AnswerIsDoc, SyncAssumption
<1>4. GoesWith(d, "take", later) \/ Goes(d, "raw")
  BY DEF FetchLater
<1> HIDE DEF later
<1>5. CASE GoesWith(d, "take", later)
  <2> DEFINE r == [request[d] EXCEPT !.pc = "take", !.other = later]
  <2>1. request' = [request EXCEPT ![d] = r]
    BY <1>5, <1>1 DEF GoesWith
  <2>2. r \in Request /\ r.doc = request[d].doc /\ r.other = later
    BY <1>1, <1>3 DEF Request
  <2> HIDE DEF r
  <2> QED
    BY <1>1, <1>2, <1>3, <2>1, <2>2, QuietKeeps
<1>6. CASE Goes(d, "raw")
  <2> DEFINE r == [request[d] EXCEPT !.pc = "raw"]
  <2>1. request' = [request EXCEPT ![d] = r]
    BY <1>6 DEF Goes
  <2>2. r \in Request /\ r.doc = request[d].doc /\ r.other = request[d].other
    BY <1>1 DEF Request
  <2> HIDE DEF r
  <2> QED
    BY <1>1, <1>2, <2>1, <2>2, QuietKeeps
<1> QED
  BY <1>4, <1>5, <1>6

LEMMA TakeRemoteKeeps ==
    ASSUME SafetyInv, NEW d \in Device, TakeRemote(d)
    PROVE  SafetyInv'
<1> DEFINE r == [request[d] EXCEPT !.pc = "raw"]
<1>1. /\ TypeOK /\ requests \in 0..MaxRequests /\ faults \in 0..MaxFaults
      /\ dirty \subseteq Server /\ floor \in [Server -> 0..MaxTime]
      /\ request[d] \in Request /\ request[d].at \in Server /\ missed \subseteq Entry
      /\ request[d].other \in Doc
      /\ DistinctIds(request[d].doc.entries) /\ DistinctIds(request[d].other.entries)
  BY Types
<1>2. /\ requests' = requests /\ faults' = faults /\ clock' = clock
      /\ bare' = bare /\ known' = known /\ missed' = missed
      /\ dirty' = dirty /\ floor' = floor
      /\ answered' = answered \cup {} /\ {} \in SUBSET Entry /\ {} \subseteq missed'
      /\ request' = [request EXCEPT ![d] = r]
      /\ Accept(request[d].at, request[d].other)
  BY DEF TakeRemote, Goes, history
<1>3. /\ stored' \in [Server -> SUBSET Entry] /\ header' \in [Server -> Header]
      /\ \A x \in Server : DistinctIds(stored'[x]) /\ stored[x] \subseteq stored'[x]
  BY <1>1, <1>2, AcceptStores
<1>4. r \in Request /\ r.doc = request[d].doc /\ r.other = request[d].other
  BY <1>1 DEF Request
<1> HIDE DEF r
<1> QED
  BY <1>1, <1>2, <1>3, <1>4, StepKeeps

LEMMA PushToHomeKeeps ==
    ASSUME SafetyInv, NEW d \in Device, PushToHome(d)
    PROVE  SafetyInv'
<1> DEFINE r == [request[d] EXCEPT !.pc = "raw"]
<1>1. /\ TypeOK /\ requests \in 0..MaxRequests /\ faults \in 0..MaxFaults
      /\ dirty \subseteq Server /\ floor \in [Server -> 0..MaxTime]
      /\ request[d] \in Request /\ request[d].at \in Server /\ missed \subseteq Entry
      /\ request[d].other \in Doc
      /\ DistinctIds(request[d].doc.entries) /\ DistinctIds(request[d].other.entries)
      /\ stored \in [Server -> SUBSET Entry] /\ header \in [Server -> Header]
      /\ \A x \in Server : DistinctIds(stored[x])
  BY Types
<1>2. /\ requests' = requests /\ clock' = clock
      /\ bare' = bare /\ known' = known /\ missed' = missed /\ floor' = floor
      /\ answered' = answered \cup {} /\ {} \in SUBSET Entry /\ {} \subseteq missed'
      /\ request' = [request EXCEPT ![d] = r]
  BY DEF PushToHome, Goes
<1>3. dirty' \subseteq Server
  BY <1>1 DEF PushToHome
<1>4. faults' \in 0..MaxFaults
  <2>1. Fault \/ UNCHANGED faults
    BY DEF PushToHome
  <2> QED
    BY <1>1, <2>1, FaultCounts
<1>5. /\ stored' \in [Server -> SUBSET Entry] /\ header' \in [Server -> Header]
      /\ \A x \in Server : DistinctIds(stored'[x]) /\ stored[x] \subseteq stored'[x]
  <2>1. CASE Accept(Home, request[d].other)
    BY <1>1, <2>1, AcceptStores, SyncAssumption
  <2>2. CASE UNCHANGED <<stored, header>>
    BY <1>1, <2>2
  <2> QED
    BY <2>1, <2>2 DEF PushToHome
<1>6. r \in Request /\ r.doc = request[d].doc /\ r.other = request[d].other
  BY <1>1 DEF Request
<1> HIDE DEF r
<1> QED
  BY <1>1, <1>2, <1>3, <1>4, <1>5, <1>6, StepKeeps

LEMMA PushRawKeeps ==
    ASSUME SafetyInv, NEW d \in Device, PushRaw(d)
    PROVE  SafetyInv'
<1> DEFINE doc == request[d].doc
<1>1. /\ TypeOK /\ requests \in 0..MaxRequests /\ faults \in 0..MaxFaults
      /\ dirty \subseteq Server /\ floor \in [Server -> 0..MaxTime]
      /\ request[d].at \in Server /\ missed \subseteq Entry
      /\ doc \in Doc /\ DistinctIds(doc.entries) /\ doc.entries \in SUBSET Entry
      /\ stored \in [Server -> SUBSET Entry] /\ header \in [Server -> Header]
      /\ \A x \in Server : DistinctIds(stored[x])
  BY Types
<1>2. /\ requests' = requests /\ clock' = clock
      /\ bare' = bare /\ known' = known /\ floor' = floor
      /\ answered' = answered \cup doc.entries
      /\ request' = [request EXCEPT ![d] = Idle]
  BY DEF PushRaw, Finish
<1>3. faults' \in 0..MaxFaults
  <2>1. Fault \/ UNCHANGED faults
    BY DEF PushRaw
  <2> QED
    BY <1>1, <2>1, FaultCounts
<1>4. Idle \in Request /\ DistinctIds(Idle.doc.entries) /\ DistinctIds(Idle.other.entries)
  BY IdleIsRequest, NothingIsDoc
<1>5. CASE Accept(Home, doc) /\ UNCHANGED <<faults, missed, dirty>>
  <2>1. /\ stored' \in [Server -> SUBSET Entry] /\ header' \in [Server -> Header]
        /\ \A x \in Server : DistinctIds(stored'[x]) /\ stored[x] \subseteq stored'[x]
        /\ Times(doc.entries) \subseteq Times(stored'[Home])
    BY <1>1, <1>5, AcceptStores, SyncAssumption
  <2>2. dirty' \subseteq Server /\ missed' \subseteq Entry /\ missed \subseteq missed'
    BY <1>1, <1>5
  <2> HIDE DEF doc
  <2> QED
    BY <1>1, <1>2, <1>3, <1>4, <2>1, <2>2, StepKeeps
<1>6. CASE /\ missed' = missed \cup doc.entries /\ dirty' = dirty \cup {request[d].at}
           /\ UNCHANGED <<stored, header>>
  <2>1. /\ dirty' \subseteq Server /\ missed' \subseteq Entry /\ missed \subseteq missed'
        /\ doc.entries \subseteq missed' /\ stored' = stored /\ header' = header
        /\ \A x \in Server : stored[x] \subseteq stored'[x]
    BY <1>1, <1>6
  <2> HIDE DEF doc
  <2> QED
    BY <1>1, <1>2, <1>3, <1>4, <2>1, StepKeeps
<1> QED
  BY <1>5, <1>6 DEF PushRaw

LEMMA PushKeeps ==
    ASSUME SafetyInv, NEW d \in Device, NEW s \in Server, NEW t \in Server, Push(d, s, t)
    PROVE  SafetyInv'
<1> DEFINE r == [Idle EXCEPT !.pc = "sent", !.at = t, !.doc = Answer(s, Page, 0)]
<1>1. /\ TypeOK /\ faults \in 0..MaxFaults /\ requests \in 0..MaxRequests
      /\ dirty \subseteq Server /\ floor \in [Server -> 0..MaxTime]
  BY Types
<1>2. /\ request' = [request EXCEPT ![d] = r] /\ faults' = faults
      /\ requests < MaxRequests /\ requests' = requests + 1
      /\ stored' = stored /\ header' = header /\ clock' = clock
      /\ bare' = bare /\ known' = known /\ answered' = answered /\ missed' = missed
      /\ dirty' = dirty /\ floor' = floor
  BY DEF Push, history
<1>3. requests' \in 0..MaxRequests
  BY <1>1, <1>2, SyncAssumption
<1>4. Answer(s, Page, 0) \in Doc /\ DistinctIds(Answer(s, Page, 0).entries)
  BY <1>1, AnswerIsDoc
<1>5. r \in Request /\ r.doc = Answer(s, Page, 0) /\ r.other = Idle.other
  BY <1>4, IdleIsRequest DEF Request
<1>6. DistinctIds(r.doc.entries) /\ DistinctIds(r.other.entries)
  BY <1>4, <1>5, IdleIsRequest, NothingIsDoc
<1> HIDE DEF r
<1> QED
  BY <1>1, <1>2, <1>3, <1>5, <1>6, QuietKeeps

\* A composed entry comes after the latest one that its server had stored, and
\* so after all that were answered there, if the client has found the feed.
LEMMA ComposeKeeps ==
    ASSUME SafetyInv, NEW d \in Device, NEW s \in Server, NEW t \in Time,
           NEW withEntry \in BOOLEAN, NEW found \in BOOLEAN,
           Compose(d, s, t, withEntry, found)
    PROVE  SafetyInv'
<1> DEFINE pulled == IF found THEN Answer(s, Page, 0) ELSE Nothing
           entry == [time |-> t, by |-> d, pred |-> Predecessor(pulled.entries), at |-> s]
           new == IF withEntry THEN {entry} ELSE {}
           doc == [head |-> [time |-> t, base |-> Based(pulled.head)], entries |-> new]
           r == [Idle EXCEPT !.pc = "sent", !.at = s, !.doc = doc]
           before == LatestOf({f \in answered \cap stored[s] : f.at = s})
<1>1. TypeOK /\ DocInv /\ ForksOnlyByRace /\ ReachesHome
  BY DEF SafetyInv
<1>2. /\ stored \in [Server -> SUBSET Entry] /\ stored[s] \in SUBSET Entry
      /\ clock \in [Device -> 0..MaxTime] /\ request \in [Device -> Request]
      /\ requests \in 0..MaxRequests /\ bare \subseteq Entry
      /\ DOMAIN known \subseteq Entry /\ known \in [DOMAIN known -> 0..MaxTime]
  BY <1>1 DEF TypeOK
<1>3. /\ requests < MaxRequests /\ requests' = requests + 1
      /\ clock' = [clock EXCEPT ![d] = t]
      /\ request' = [request EXCEPT ![d] = r]
      /\ bare' = IF found THEN bare ELSE bare \cup new
      /\ known' = [e \in DOMAIN known \cup new |-> IF e \in new THEN before ELSE known[e]]
      /\ stored' = stored /\ header' = header /\ answered' = answered /\ missed' = missed
      /\ dirty' = dirty /\ floor' = floor
  BY DEF Compose
<1>4. pulled \in Doc
  BY <1>1, AnswerIsDoc, NothingIsDoc
<1>5. /\ pulled.entries \in SUBSET Entry /\ pulled.head.base \in BOOLEAN
      /\ LatestOf(pulled.entries) \in 0..MaxTime
  <2>1. pulled.entries \in SUBSET Entry /\ pulled.head.base \in BOOLEAN
    BY <1>4 DEF Doc, Header
  <2> QED
    BY <2>1, LatestIsGreatest
<1>6. entry \in Entry
  BY <1>5 DEF Entry, Predecessor
<1>7. before \in 0..MaxTime /\ before <= LatestOf(stored[s])
  BY <1>2, LatestGrows, LatestIsGreatest
<1>8. found => LatestOf(pulled.entries) = LatestOf(stored[s])
  <2>1. SUFFICES ASSUME found PROVE LatestOf(Newest(Page, Since(stored[s], 0))) = LatestOf(stored[s])
    BY DEF Answer
  <2>2. Since(stored[s], 0) = stored[s]
    BY <1>2, SyncAssumption DEF Since, Entry, Time
  <2> QED
    BY <2>2, <1>2, NewestHasLatest, SyncAssumption
<1>9. found => entry.pred >= before
  BY <1>5, <1>7, <1>8, LatestIsGreatest, <1>2 DEF Predecessor
<1>10. doc \in Doc /\ DistinctIds(doc.entries)
  <2>1. t \in 0..MaxTime /\ Based(pulled.head) \in BOOLEAN
    BY <1>5, SyncAssumption DEF Based, Time
  <2>2. new \subseteq Entry /\ DistinctIds(new)
    BY <1>6 DEF DistinctIds
  <2> HIDE DEF new, pulled
  <2> QED
    BY <2>1, <2>2 DEF Doc, Header
<1>11. new \subseteq Entry /\ (found => \A e \in new : e.pred >= before)
  BY <1>6, <1>9
<1> HIDE DEF pulled, entry, new, doc, before
<1>12. r \in Request /\ r.doc = doc /\ r.other = Idle.other
  BY <1>10, IdleIsRequest DEF Request
<1> HIDE DEF r
<1>13. /\ request' \in [Device -> Request]
       /\ requests' \in 0..MaxRequests /\ clock' \in [Device -> 0..MaxTime]
  BY <1>2, <1>3, <1>12, SyncAssumption DEF Time
<1>14. /\ bare' \subseteq Entry /\ DOMAIN known' = DOMAIN known \cup new
       /\ DOMAIN known' \subseteq Entry
       /\ known' \in [DOMAIN known' -> 0..MaxTime]
  BY <1>2, <1>3, <1>7, <1>11
<1>15. faults' \in 0..MaxFaults
  <2>1. Fault \/ UNCHANGED faults
    BY DEF Compose
  <2> QED
    BY <1>1, <2>1, FaultCounts
<1>16. TypeOK'
  BY <1>1, <1>3, <1>13, <1>14, <1>15 DEF TypeOK
<1>17. DocInv'
  <2>1. \A x \in Device : request'[x] = IF x = d THEN r ELSE request[x]
    BY <1>2, <1>3
  <2>2. DistinctIds(r.doc.entries) /\ DistinctIds(r.other.entries)
    BY <1>10, <1>12, IdleIsRequest, NothingIsDoc
  <2> QED
    BY <1>1, <2>1, <2>2 DEF DocInv
<1>18. ForksOnlyByRace'
  <2>1. SUFFICES ASSUME NEW e \in DOMAIN known' \ bare' PROVE e.pred >= known'[e]
    BY DEF ForksOnlyByRace
  <2>2. CASE e \in new
    <3>1. found /\ known'[e] = before
      BY <2>1, <2>2, <1>3, <1>14
    <3> QED
      BY <3>1, <2>2, <1>11
  <2>3. CASE e \notin new
    <3>1. e \in DOMAIN known \ bare /\ known'[e] = known[e]
      BY <2>1, <2>3, <1>3, <1>14
    <3> QED
      BY <3>1, <1>1 DEF ForksOnlyByRace
  <2> QED
    BY <2>2, <2>3
<1>19. ReachesHome'
  BY <1>1, <1>3 DEF ReachesHome
<1> QED
  BY <1>16, <1>17, <1>18, <1>19 DEF SafetyInv

-----------------------------------------------------------------------------
(* The theorems *)

LEMMA InitSafe == Init => SafetyInv
<1> SUFFICES ASSUME Init PROVE SafetyInv
  OBVIOUS
<1> USE SyncAssumption
<1>1. \A d \in Device : request[d] = Idle
  BY DEF Init
<1>2. request \in [Device -> Request]
  BY <1>1, IdleIsRequest DEF Init
<1>3. header \in [Server -> Header]
  BY NothingIsDoc DEF Init
<1>4. /\ DOMAIN known = {} /\ known \in [DOMAIN known -> 0..MaxTime]
  BY DEF Init
<1>5. TypeOK
  BY <1>2, <1>3, <1>4 DEF Init, TypeOK, DistinctIds
<1>6. DocInv
  BY <1>1, IdleIsRequest, NothingIsDoc DEF DocInv
<1>7. ForksOnlyByRace /\ ReachesHome
  BY <1>4 DEF Init, ForksOnlyByRace, ReachesHome
<1> QED
  BY <1>5, <1>6, <1>7 DEF SafetyInv

LEMMA NextSafe == SafetyInv /\ [Next]_vars => SafetyInv'
<1> SUFFICES ASSUME SafetyInv, [Next]_vars PROVE SafetyInv'
  OBVIOUS
<1>1. CASE Next
  <2>1. PICK d \in Device :
          \/ \E s \in Server, t \in Time, withEntry, found \in BOOLEAN :
                Compose(d, s, t, withEntry, found)
          \/ \E s, t \in Server : Push(d, s, t)
          \/ Receive(d) \/ LoseRequest(d)
          \/ AskHome(d) \/ Compare(d)
          \/ FetchLater(d) \/ TakeRemote(d) \/ PushToHome(d) \/ PushRaw(d)
    BY <1>1 DEF Next
  <2>2. CASE \E s \in Server, t \in Time, withEntry, found \in BOOLEAN :
                Compose(d, s, t, withEntry, found)
    BY <2>2, ComposeKeeps
  <2>3. CASE \E s, t \in Server : Push(d, s, t)
    BY <2>3, PushKeeps
  <2>4. CASE Receive(d)
    BY <2>4, ReceiveKeeps
  <2>5. CASE LoseRequest(d)
    BY <2>5, LoseRequestKeeps
  <2>6. CASE AskHome(d)
    BY <2>6, AskHomeKeeps
  <2>7. CASE Compare(d)
    BY <2>7, CompareKeeps
  <2>8. CASE FetchLater(d)
    BY <2>8, FetchLaterKeeps
  <2>9. CASE TakeRemote(d)
    BY <2>9, TakeRemoteKeeps
  <2>10. CASE PushToHome(d)
    BY <2>10, PushToHomeKeeps
  <2>11. CASE PushRaw(d)
    BY <2>11, PushRawKeeps
  <2> QED
    BY <2>1, <2>2, <2>3, <2>4, <2>5, <2>6, <2>7, <2>8, <2>9, <2>10, <2>11
<1>2. CASE UNCHANGED vars
  BY <1>2 DEF SafetyInv, TypeOK, DocInv, ForksOnlyByRace, ReachesHome, vars, history
<1> QED
  BY <1>1, <1>2

\* In every state the variables have their types, and no server has two entries
\* under one id, whatever documents have come in which order
\* (TrsstAdapter.java:940-952).
THEOREM TypeCorrect == Spec => []TypeOK
<1>1. Spec => []SafetyInv
  BY InitSafe, NextSafe, PTL DEF Spec
<1>2. SafetyInv => TypeOK
  BY DEF SafetyInv
<1> QED
  BY <1>1, <1>2, PTL

\* An entry of a client that has found its feed comes after every entry that its
\* server had answered before (Client.java:391-404, :655-680).
THEOREM ForksOnlyByRaceHolds == Spec => []ForksOnlyByRace
<1>1. Spec => []SafetyInv
  BY InitSafe, NextSafe, PTL DEF Spec
<1>2. SafetyInv => ForksOnlyByRace
  BY DEF SafetyInv
<1> QED
  BY <1>1, <1>2, PTL

\* What has been answered is at home, unless sending it failed or its feed
\* element had no home (TrsstAdapter.java:1793-1826, :1946-1984).
THEOREM ReachesHomeHolds == Spec => []ReachesHome
<1>1. Spec => []SafetyInv
  BY InitSafe, NextSafe, PTL DEF Spec
<1>2. SafetyInv => ReachesHome
  BY DEF SafetyInv
<1> QED
  BY <1>1, <1>2, PTL

-----------------------------------------------------------------------------
(* What the next comparison makes good: the inductive invariant *)

Owed(s) == Newest(Page, Since(stored[s], floor[s]))

\* A request at s that has found the home behind is about to send it there.
OnTheWay(s, e) ==
    \E d \in Device : /\ request[d].at = s /\ request[d].pc = "push"
                      /\ e.time \in Times(request[d].other.entries)

\* No request at s has stored something that it has not compared yet.
Quiet(s) == \A d \in Device : request[d].at = s => request[d].pc \notin {"ask", "compare"}
GoodAt(s) == \A e \in Owed(s) : e.time \in Times(stored[Home]) \/ OnTheWay(s, e)
GoodInv == \A s \in Server \ ({Home} \cup dirty) : Quiet(s) => GoodAt(s)

\* What has been answered by the home is at home.
FromHome ==
    \A d \in Device : request[d].pc \in {"compare", "take"} =>
        Times(request[d].other.entries) \subseteq Times(stored[Home])

SyncInv == SafetyInv /\ FromHome /\ GoodInv

\* A set of entries with distinct ids is finite.
LEMMA DistinctIsFinite ==
    ASSUME NEW es \in SUBSET Entry, DistinctIds(es)
    PROVE  IsFiniteSet(es)
<1> DEFINE f == [e \in es |-> e.time]
<1>1. IsFiniteSet(Time)
  BY SyncAssumption, FS_Interval DEF Time
<1>2. \A e \in es : e.time \in Time
  BY DEF Entry
<1>3. f \in [es -> Time]
  BY <1>2
<1>4. \A e, g \in es : f[e] = f[g] => e = g
  BY DEF DistinctIds
<1>5. f \in Injection(es, Time)
  BY <1>3, <1>4 DEF Injection, IsInjective
<1> QED
  BY <1>1, <1>5, FS_Injection

\* What is among the newest of more entries was among them before.
LEMMA NewestOfMore ==
    ASSUME NEW es \in SUBSET Entry, NEW fs \in SUBSET Entry, es \subseteq fs,
           DistinctIds(fs), NEW n \in Nat, NEW e \in Newest(n, fs), e \in es
    PROVE  e \in Newest(n, es)
<1> DEFINE A == {f \in es : f.time > e.time}
           B == {f \in fs : f.time > e.time}
<1>1. IsFiniteSet(B)
  BY DistinctIsFinite, FS_Subset
<1>2. A \subseteq B
  OBVIOUS
<1>3. IsFiniteSet(A) /\ Cardinality(A) <= Cardinality(B)
  BY <1>1, <1>2, FS_Subset
<1>4. Cardinality(A) \in Nat /\ Cardinality(B) \in Nat /\ Cardinality(B) < n
  BY <1>1, <1>3, FS_CardinalityType DEF Newest
<1> QED
  BY <1>3, <1>4 DEF Newest

LEMMA TimesGrow ==
    ASSUME NEW es, NEW fs, es \subseteq fs
    PROVE  Times(es) \subseteq Times(fs)
BY DEF Times

\* A server is as good as it was while all that it gets comes from the home,
\* and what is on its way gets there or stays on its way.
LEMMA GoodKept ==
    ASSUME TypeOK, TypeOK', GoodInv, NEW d \in Device, NEW r \in Request,
           request' = [request EXCEPT ![d] = r],
           NEW s \in Server \ ({Home} \cup dirty), Quiet(s)',
           request[d].at = s => request[d].pc \notin {"ask", "compare"},
           (request[d].at = s /\ request[d].pc = "push") =>
               Times(request[d].other.entries) \subseteq Times(stored'[Home]),
           floor'[s] = floor[s], stored[s] \subseteq stored'[s],
           stored[Home] \subseteq stored'[Home],
           \A e \in stored'[s] \ stored[s] : e.time \in Times(stored'[Home])
    PROVE  GoodAt(s)'
<1>1. \A x \in Device : request'[x] = IF x = d THEN r ELSE request[x]
  BY DEF TypeOK
<1>2. Quiet(s)
  BY <1>1 DEF Quiet
<1>3. \A e \in Owed(s) : e.time \in Times(stored[Home]) \/ OnTheWay(s, e)
  BY <1>2 DEF GoodInv, GoodAt
<1>4. Times(stored[Home]) \subseteq Times(stored'[Home])
  BY TimesGrow
<1>5. /\ stored[s] \in SUBSET Entry /\ stored'[s] \in SUBSET Entry
      /\ DistinctIds(stored'[s]) /\ Page \in Nat
  BY SyncAssumption DEF TypeOK
<1>6. ASSUME NEW e \in Owed(s)'
      PROVE  e.time \in Times(stored'[Home]) \/ OnTheWay(s, e)'
  <2> DEFINE es == Since(stored[s], floor[s])
             fs == Since(stored'[s], floor[s])
  <2>1. /\ es \in SUBSET Entry /\ fs \in SUBSET Entry /\ es \subseteq fs
        /\ es \subseteq stored[s] /\ fs \subseteq stored'[s]
        /\ \A x \in fs : x \in stored[s] => x \in es
    BY <1>5 DEF Since
  <2>2. e \in Newest(Page, fs) /\ e \in fs
    <3>1. e \in Newest(Page, fs)
      BY <1>6 DEF Owed
    <3> QED
      BY <3>1 DEF Newest
  <2>3. DistinctIds(fs)
    BY <1>5, <2>1 DEF DistinctIds
  <2> HIDE DEF es, fs
  <2>4. CASE e \in es
    <3>1. e \in Newest(Page, es)
      BY <1>5, <2>1, <2>2, <2>3, <2>4, NewestOfMore
    <3>2. e \in Owed(s)
      BY <3>1 DEF Owed, es
    <3>3. CASE e.time \in Times(stored[Home])
      BY <3>3, <1>4
    <3>4. CASE OnTheWay(s, e)
      <4>1. PICK x \in Device : /\ request[x].at = s /\ request[x].pc = "push"
                                /\ e.time \in Times(request[x].other.entries)
        BY <3>4 DEF OnTheWay
      <4>2. CASE x = d
        BY <4>1, <4>2
      <4>3. CASE x # d
        BY <4>1, <4>3, <1>1 DEF OnTheWay
      <4> QED
        BY <4>2, <4>3
    <3> QED
      BY <3>2, <3>3, <3>4, <1>3
  <2>5. CASE e \notin es
    BY <2>1, <2>2, <2>5
  <2> QED
    BY <2>4, <2>5
<1> QED
  BY <1>6 DEF GoodAt

\* The other half of the invariant.
LEMMA FromHomeKept ==
    ASSUME TypeOK, FromHome, NEW d \in Device, NEW r \in Request,
           request' = [request EXCEPT ![d] = r],
           stored[Home] \subseteq stored'[Home],
           r.pc \in {"compare", "take"} =>
               Times(r.other.entries) \subseteq Times(stored'[Home])
    PROVE  FromHome'
<1>1. \A x \in Device : request'[x] = IF x = d THEN r ELSE request[x]
  BY DEF TypeOK
<1>2. Times(stored[Home]) \subseteq Times(stored'[Home])
  BY TimesGrow
<1> QED
  BY <1>1, <1>2 DEF FromHome

\* The same for a step of a request that is neither about to compare nor about
\* to send, and leaves storage alone or adds to the home only.
LEMMA PlainGood ==
    ASSUME SyncInv, TypeOK', NEW d \in Device, NEW r \in Request,
           request' = [request EXCEPT ![d] = r],
           request[d].pc \notin {"ask", "compare", "push"},
           r.pc \in {"compare", "take"} =>
               Times(r.other.entries) \subseteq Times(stored'[Home]),
           \A x \in Server : stored[x] \subseteq stored'[x] /\ (x # Home => stored'[x] = stored[x]),
           dirty \subseteq dirty', floor' = floor
    PROVE  FromHome' /\ GoodInv'
<1>1. TypeOK /\ FromHome /\ GoodInv
  BY DEF SyncInv, SafetyInv
<1>2. stored[Home] \subseteq stored'[Home]
  BY SyncAssumption
<1>3. FromHome'
  BY <1>1, <1>2, FromHomeKept
<1>4. ASSUME NEW s \in Server \ ({Home} \cup dirty'), Quiet(s)'
      PROVE  GoodAt(s)'
  <2>1. s \in Server \ ({Home} \cup dirty) /\ stored'[s] = stored[s] /\ floor'[s] = floor[s]
    BY <1>4
  <2> QED
    BY <1>1, <1>2, <1>4, <2>1, GoodKept
<1> QED
  BY <1>3, <1>4 DEF GoodInv

LEMMA AcceptAt ==
    ASSUME TypeOK, NEW s \in Server, NEW doc, Accept(s, doc)
    PROVE  /\ \A x \in Server : stored[x] \subseteq stored'[x] /\ (x # s => stored'[x] = stored[x])
           /\ \A e \in stored'[s] \ stored[s] : e \in doc.entries
<1> DEFINE new == {e \in doc.entries : e.time \notin Times(stored[s])}
<1>1. stored \in [Server -> SUBSET Entry] /\ stored' = [stored EXCEPT ![s] = stored[s] \cup new]
  BY DEF Accept, TypeOK
<1>2. \A x \in Server : stored'[x] = IF x = s THEN stored[x] \cup new ELSE stored[x]
  BY <1>1
<1>3. new \subseteq doc.entries
  OBVIOUS
<1> HIDE DEF new
<1> QED
  BY <1>2, <1>3

-----------------------------------------------------------------------------
(* Each step keeps it *)

LEMMA AnswerFromStore ==
    ASSUME NEW s \in Server, NEW n, NEW t
    PROVE  Answer(s, n, t).entries \subseteq stored[s]
<1>1. Newest(n, Since(stored[s], t)) \subseteq stored[s]
  BY DEF Newest, Since
<1>2. Answer(s, n, t).entries = Newest(n, Since(stored[s], t))
  BY DEF Answer
<1> QED
  BY <1>1, <1>2

\* What is taken is compared before the server is quiet again.
LEMMA ReceiveGood ==
    ASSUME SyncInv, TypeOK', NEW d \in Device, Receive(d)
    PROVE  FromHome' /\ GoodInv'
<1> DEFINE s0 == request[d].at
           doc == request[d].doc
<1>1. /\ TypeOK /\ FromHome /\ GoodInv /\ SafetyInv
      /\ request \in [Device -> Request] /\ request[d] \in Request /\ s0 \in Server
  BY Types DEF SyncInv, SafetyInv
<1>2. /\ Accept(s0, doc) /\ request[d].pc = "sent" /\ floor' = floor
      /\ \/ Goes(d, "ask") /\ dirty' = dirty
         \/ request' = [request EXCEPT ![d] = Idle] /\ dirty' = dirty \cup ({s0} \ {Home})
  BY DEF Receive, Finish
<1>3. \A x \in Server : stored[x] \subseteq stored'[x] /\ (x # s0 => stored'[x] = stored[x])
  BY <1>1, <1>2, AcceptAt
<1>4. PICK r \in Request :
        /\ request' = [request EXCEPT ![d] = r]
        /\ \/ r.pc = "ask" /\ r.at = s0 /\ dirty' = dirty
           \/ r.pc = "idle" /\ dirty' = dirty \cup ({s0} \ {Home})
  <2>1. CASE Goes(d, "ask") /\ dirty' = dirty
    <3> DEFINE r == [request[d] EXCEPT !.pc = "ask"]
    <3>1. r \in Request /\ r.pc = "ask" /\ r.at = s0 /\ request' = [request EXCEPT ![d] = r]
      BY <1>1, <2>1 DEF Request, Goes
    <3> QED
      BY <2>1, <3>1
  <2>2. CASE request' = [request EXCEPT ![d] = Idle] /\ dirty' = dirty \cup ({s0} \ {Home})
    <3>1. Idle \in Request /\ Idle.pc = "idle"
      BY IdleIsRequest DEF Idle
    <3> QED
      BY <2>2, <3>1
  <2> QED
    BY <1>2, <2>1, <2>2
<1>5. request'[d] = r
  BY <1>1, <1>4
<1>6. stored[Home] \subseteq stored'[Home]
  BY <1>3, SyncAssumption
<1>7. FromHome'
  BY <1>1, <1>4, <1>6, FromHomeKept
<1>8. ASSUME NEW s \in Server \ ({Home} \cup dirty'), Quiet(s)'
      PROVE  GoodAt(s)'
  <2>1. s # s0
    BY <1>4, <1>5, <1>8 DEF Quiet
  <2>2. s \in Server \ ({Home} \cup dirty) /\ stored'[s] = stored[s] /\ floor'[s] = floor[s]
    BY <1>2, <1>3, <1>4, <1>8, <2>1
  <2> QED
    BY <1>1, <1>2, <1>4, <1>6, <1>8, <2>1, <2>2, GoodKept
<1> QED
  BY <1>7, <1>8 DEF GoodInv

LEMMA AskHomeGood ==
    ASSUME SyncInv, TypeOK', NEW d \in Device, AskHome(d)
    PROVE  FromHome' /\ GoodInv'
<1> DEFINE s0 == request[d].at
<1>1. /\ TypeOK /\ FromHome /\ GoodInv /\ SafetyInv
      /\ request \in [Device -> Request] /\ request[d] \in Request /\ s0 \in Server
      /\ header[s0] \in Header
  <2>1. SafetyInv /\ FromHome /\ GoodInv
    BY DEF SyncInv
  <2>2. s0 \in Server /\ header \in [Server -> Header]
    BY <2>1, Types
  <2> QED
    BY <2>1, <2>2, Types
<1>2. /\ request[d].pc = "ask" /\ floor' = floor /\ stored' = stored /\ dirty' = dirty
  BY DEF AskHome, history
<1>3. PICK other \in {Answer(Home, 1, 0), Nothing} :
        request' = [request EXCEPT ![d].pc = "compare", ![d].local = header[s0],
                                   ![d].other = other]
  BY DEF AskHome
<1>4. other \in Doc /\ other.entries \subseteq stored[Home]
  <2>1. other \in Doc
    BY <1>1, AnswerIsDoc, NothingIsDoc, SyncAssumption
  <2>2. other.entries \subseteq stored[Home]
    BY AnswerFromStore, SyncAssumption DEF Nothing
  <2> QED
    BY <2>1, <2>2
<1> DEFINE r == [request[d] EXCEPT !.pc = "compare", !.local = header[s0], !.other = other]
<1>5. r \in Request /\ r.pc = "compare" /\ r.at = s0 /\ r.other = other
  BY <1>1, <1>4 DEF Request
<1>6. request' = [request EXCEPT ![d] = r] /\ request'[d] = r
  BY <1>1, <1>3
<1> HIDE DEF r, s0
<1>7. FromHome'
  BY <1>1, <1>2, <1>4, <1>5, <1>6, FromHomeKept, TimesGrow
<1>8. ASSUME NEW s \in Server \ ({Home} \cup dirty'), Quiet(s)'
      PROVE  GoodAt(s)'
  <2>1. s # s0
    BY <1>5, <1>6, <1>8 DEF Quiet
  <2> QED
    BY <1>1, <1>2, <1>5, <1>6, <1>8, <2>1, GoodKept DEF s0
<1> QED
  BY <1>7, <1>8 DEF GoodInv

\* Whatever the home lacks of the latest page is on its way after a comparison.
LEMMA ComparedIsGood ==
    ASSUME SyncInv, TypeOK', NEW d \in Device, Compare(d),
           NEW s \in Server, s = request[d].at
    PROVE  GoodAt(s)'
<1> DEFINE other == request[d].other
           theirs == LatestOf(other.entries)
           own == LatestOf(stored[s])
           sends == [head |-> request[d].local, entries |-> Difference(s, theirs)]
<1>1. /\ TypeOK /\ request \in [Device -> Request] /\ request[d] \in Request
      /\ stored[s] \in SUBSET Entry /\ floor \in [Server -> 0..MaxTime]
      /\ other.entries \in SUBSET Entry
  BY Types DEF SyncInv, Doc
<1>2. own \in 0..MaxTime /\ theirs \in 0..MaxTime /\ \A e \in stored[s] : e.time <= own
  BY <1>1, LatestIsGreatest
<1>3. stored' = stored /\ floor'[s] = theirs
  BY <1>1 DEF Compare
<1>4. Owed(s)' = Difference(s, theirs) /\ Owed(s)' \subseteq Since(stored[s], theirs)
  BY <1>3 DEF Owed, Difference, Newest
<1>5. CASE own <= theirs
  <2>1. \A e \in stored[s] : ~(e.time > theirs)
    <3>1. MaxTime \in Nat /\ \A e \in stored[s] : e.time \in Nat
      BY <1>1, SyncAssumption DEF Entry, Time
    <3> QED
      BY <3>1, <1>2, <1>5
  <2>2. Owed(s)' = {}
    BY <1>4, <2>1 DEF Since
  <2> QED
    BY <2>2 DEF GoodAt
<1>6. CASE ~(own <= theirs)
  <2>1. own # 0 /\ ~(own < theirs) /\ own # theirs
    BY <1>2, <1>6, SyncAssumption
  <2>2. GoesWith(d, "push", sends)
    BY <2>1 DEF Compare
  <2>3. /\ request'[d].at = s /\ request'[d].pc = "push"
        /\ request'[d].other.entries = Difference(s, theirs)
    BY <1>1, <2>2 DEF GoesWith, Request
  <2>4. \A e \in Owed(s)' : OnTheWay(s, e)'
    BY <1>4, <2>3 DEF OnTheWay, Times
  <2> QED
    BY <2>4 DEF GoodAt
<1> QED
  BY <1>5, <1>6

LEMMA CompareGood ==
    ASSUME SyncInv, TypeOK', NEW d \in Device, Compare(d)
    PROVE  FromHome' /\ GoodInv'
<1> DEFINE s0 == request[d].at
           other == request[d].other
           difference == [head |-> request[d].local,
                          entries |-> Difference(s0, LatestOf(other.entries))]
<1>1. /\ TypeOK /\ FromHome /\ GoodInv /\ SafetyInv
      /\ request \in [Device -> Request] /\ request[d] \in Request /\ s0 \in Server
  BY Types DEF SyncInv, SafetyInv
<1>2. /\ request[d].pc = "compare" /\ stored' = stored /\ dirty' = dirty \ {s0}
      /\ floor' = [floor EXCEPT ![s0] = LatestOf(other.entries)]
      /\ \/ \E pc \in {"take", "raw", "fetch"} : Goes(d, pc)
         \/ GoesWith(d, "push", difference)
  BY DEF Compare
<1>3. \A s \in Server : s # s0 => floor'[s] = floor[s]
  BY <1>1, <1>2 DEF TypeOK
<1>4. \E r \in Request : /\ request' = [request EXCEPT ![d] = r]
                         /\ r.pc \in {"compare", "take"} => r.other = other
  <2>1. request' \in [Device -> Request]
    BY DEF TypeOK
  <2>2. CASE \E pc \in {"take", "raw", "fetch"} : Goes(d, pc)
    <3>1. PICK pc \in {"take", "raw", "fetch"} : Goes(d, pc)
      BY <2>2
    <3> DEFINE r == [request[d] EXCEPT !.pc = pc]
    <3>2. request' = [request EXCEPT ![d] = r] /\ r \in Request /\ r.other = other
      BY <1>1, <3>1 DEF Goes, Request
    <3> HIDE DEF r
    <3> QED
      BY <3>2
  <2>3. CASE GoesWith(d, "push", difference)
    <3> DEFINE r == [request[d] EXCEPT !.pc = "push", !.other = difference]
    <3>1. request' = [request EXCEPT ![d] = r] /\ r.pc = "push" /\ request'[d] = r
      BY <1>1, <2>3 DEF GoesWith, Request
    <3> HIDE DEF r
    <3> QED
      BY <2>1, <3>1
  <2> QED
    BY <1>2, <2>2, <2>3
<1>5. PICK r \in Request : /\ request' = [request EXCEPT ![d] = r]
                           /\ r.pc \in {"compare", "take"} => r.other = other
  BY <1>4
<1>6. Times(other.entries) \subseteq Times(stored[Home])
  BY <1>1, <1>2 DEF FromHome
<1>7. FromHome'
  BY <1>1, <1>2, <1>5, <1>6, FromHomeKept
<1>8. ASSUME NEW s \in Server \ ({Home} \cup dirty'), Quiet(s)'
      PROVE  GoodAt(s)'
  <2>1. CASE s = s0
    BY <2>1, ComparedIsGood
  <2>2. CASE s # s0
    <3>1. s \in Server \ ({Home} \cup dirty) /\ floor'[s] = floor[s]
      BY <1>2, <1>3, <1>8, <2>2
    <3> QED
      BY <1>1, <1>2, <1>5, <1>8, <2>2, <3>1, GoodKept
  <2> QED
    BY <2>1, <2>2
<1> QED
  BY <1>7, <1>8 DEF GoodInv

LEMMA FetchLaterGood ==
    ASSUME SyncInv, TypeOK', NEW d \in Device, FetchLater(d)
    PROVE  FromHome' /\ GoodInv'
<1> DEFINE later == Answer(Home, Page, LatestOf(stored[request[d].at]))
<1>1. request \in [Device -> Request] /\ request[d] \in Request /\ Home \in Server
  BY Types, SyncAssumption DEF SyncInv
<1>2. /\ request[d].pc = "fetch" /\ stored' = stored /\ dirty' = dirty /\ floor' = floor
      /\ GoesWith(d, "take", later) \/ Goes(d, "raw")
  BY DEF FetchLater, history
<1>3. Times(later.entries) \subseteq Times(stored[Home])
  BY <1>1, AnswerFromStore, TimesGrow
<1>4. request' \in [Device -> Request]
  BY DEF TypeOK
<1> HIDE DEF later
<1>5. PICK r \in Request : /\ request' = [request EXCEPT ![d] = r]
                           /\ r.pc \in {"compare", "take"} => r.other = later
  <2>1. CASE GoesWith(d, "take", later)
    <3> DEFINE r == [request[d] EXCEPT !.pc = "take", !.other = later]
    <3>1. request' = [request EXCEPT ![d] = r] /\ r.other = later /\ request'[d] = r
      BY <1>1, <2>1 DEF GoesWith, Request
    <3> HIDE DEF r
    <3> QED
      BY <1>4, <3>1
  <2>2. CASE Goes(d, "raw")
    <3> DEFINE r == [request[d] EXCEPT !.pc = "raw"]
    <3>1. request' = [request EXCEPT ![d] = r] /\ r.pc = "raw" /\ request'[d] = r
      BY <1>1, <2>2 DEF Goes, Request
    <3> HIDE DEF r
    <3> QED
      BY <1>4, <3>1
  <2> QED
    BY <1>2, <2>1, <2>2
<1> QED
  BY <1>2, <1>3, <1>5, PlainGood

\* What is taken from the home is at home.
LEMMA TakeRemoteGood ==
    ASSUME SyncInv, TypeOK', NEW d \in Device, TakeRemote(d)
    PROVE  FromHome' /\ GoodInv'
<1> DEFINE s0 == request[d].at
           other == request[d].other
           r == [request[d] EXCEPT !.pc = "raw"]
<1>1. /\ TypeOK /\ FromHome /\ GoodInv
      /\ request \in [Device -> Request] /\ request[d] \in Request /\ s0 \in Server
  BY Types DEF SyncInv
<1>2. /\ request[d].pc = "take" /\ dirty' = dirty /\ floor' = floor
      /\ Accept(s0, other) /\ request' = [request EXCEPT ![d] = r]
  BY DEF TakeRemote, Goes, history
<1>3. r \in Request /\ r.pc = "raw" /\ r.at = s0
  BY <1>1 DEF Request
<1> HIDE DEF r
<1>4. /\ \A x \in Server : stored[x] \subseteq stored'[x] /\ (x # s0 => stored'[x] = stored[x])
      /\ \A e \in stored'[s0] \ stored[s0] : e \in other.entries
  BY <1>1, <1>2, AcceptAt
<1>5. stored[Home] \subseteq stored'[Home]
  BY <1>4, SyncAssumption
<1>6. FromHome'
  BY <1>1, <1>2, <1>3, <1>5, FromHomeKept
<1>7. Times(other.entries) \subseteq Times(stored'[Home])
  <2>1. Times(other.entries) \subseteq Times(stored[Home])
    BY <1>1, <1>2 DEF FromHome
  <2> QED
    BY <1>5, <2>1, TimesGrow
<1>8. ASSUME NEW s \in Server \ ({Home} \cup dirty'), Quiet(s)'
      PROVE  GoodAt(s)'
  <2>1. \A e \in stored'[s] \ stored[s] : e.time \in Times(stored'[Home])
    BY <1>4, <1>7 DEF Times
  <2> QED
    BY <1>1, <1>2, <1>3, <1>4, <1>5, <1>8, <2>1, GoodKept
<1> QED
  BY <1>6, <1>8 DEF GoodInv

\* What was on its way is at home, or the server is dirty.
LEMMA PushToHomeGood ==
    ASSUME SyncInv, TypeOK', NEW d \in Device, PushToHome(d)
    PROVE  FromHome' /\ GoodInv'
<1> DEFINE s0 == request[d].at
           other == request[d].other
           r == [request[d] EXCEPT !.pc = "raw"]
<1>1. /\ TypeOK /\ FromHome /\ GoodInv /\ other \in Doc /\ DistinctIds(other.entries)
      /\ request \in [Device -> Request] /\ request[d] \in Request /\ s0 \in Server
  BY Types DEF SyncInv
<1>2. /\ request[d].pc = "push" /\ floor' = floor /\ request' = [request EXCEPT ![d] = r]
      /\ \/ Accept(Home, other) /\ dirty' = dirty
         \/ dirty' = dirty \cup {s0} /\ stored' = stored
  BY DEF PushToHome, Goes
<1>3. r \in Request /\ r.pc = "raw" /\ r.at = s0
  BY <1>1 DEF Request
<1> HIDE DEF r, other, s0
<1>4. \A x \in Server : stored[x] \subseteq stored'[x] /\ (x # Home => stored'[x] = stored[x])
  <2>1. CASE Accept(Home, other)
    BY <1>1, <2>1, SyncAssumption, AcceptAt
  <2> QED
    BY <1>2, <2>1
<1>5. Times(other.entries) \subseteq Times(stored'[Home]) \/ dirty' = dirty \cup {s0}
  BY <1>1, <1>2, SyncAssumption, AcceptStores
<1>6. stored[Home] \subseteq stored'[Home]
  BY <1>4, SyncAssumption
<1>7. FromHome'
  BY <1>1, <1>2, <1>3, <1>6, FromHomeKept
<1>8. ASSUME NEW s \in Server \ ({Home} \cup dirty'), Quiet(s)'
      PROVE  GoodAt(s)'
  <2>1. s \in Server \ ({Home} \cup dirty) /\ stored'[s] = stored[s] /\ floor'[s] = floor[s]
    BY <1>2, <1>4, <1>8
  <2>2. s = s0 => Times(other.entries) \subseteq Times(stored'[Home])
    BY <1>5, <1>8
  <2> QED
    BY <1>1, <1>2, <1>3, <1>6, <1>8, <2>1, <2>2, GoodKept DEF s0, other
<1> QED
  BY <1>7, <1>8 DEF GoodInv

LEMMA PushRawGood ==
    ASSUME SyncInv, TypeOK', NEW d \in Device, PushRaw(d)
    PROVE  FromHome' /\ GoodInv'
<1>1. TypeOK
  BY DEF SyncInv, SafetyInv
<1>2. /\ request[d].pc = "raw" /\ floor' = floor /\ request' = [request EXCEPT ![d] = Idle]
      /\ \/ Accept(Home, request[d].doc) /\ dirty' = dirty
         \/ dirty' = dirty \cup {request[d].at} /\ stored' = stored
  BY DEF PushRaw, Finish
<1>3. Idle \in Request /\ Idle.pc = "idle"
  BY IdleIsRequest DEF Idle
<1>4. \A x \in Server : stored[x] \subseteq stored'[x] /\ (x # Home => stored'[x] = stored[x])
  <2>1. CASE Accept(Home, request[d].doc)
    BY <1>1, <2>1, SyncAssumption, AcceptAt
  <2> QED
    BY <1>2, <2>1
<1> QED
  BY <1>2, <1>3, <1>4, PlainGood

\* Nothing happens at the servers.
LEMMA ClientGood ==
    ASSUME SyncInv, TypeOK', NEW d \in Device, NEW r \in Request,
           request' = [request EXCEPT ![d] = r], request[d].pc \in {"idle", "sent"},
           r.pc \in {"idle", "sent"},
           UNCHANGED <<stored, dirty, floor>>
    PROVE  FromHome' /\ GoodInv'
BY PlainGood

LEMMA InitGood == Init => FromHome /\ GoodInv
<1> SUFFICES ASSUME Init PROVE FromHome /\ GoodInv
  OBVIOUS
<1>1. \A d \in Device : request[d].pc = "idle"
  BY DEF Init, Idle
<1>2. \A s \in Server : stored[s] = {}
  BY DEF Init
<1> QED
  BY <1>1, <1>2 DEF FromHome, GoodInv, GoodAt, Owed, Newest, Since

LEMMA NextGood == SyncInv /\ [Next]_vars => SyncInv'
<1> SUFFICES ASSUME SyncInv, [Next]_vars PROVE SyncInv'
  OBVIOUS
<1>1. SafetyInv' /\ TypeOK'
  BY NextSafe DEF SyncInv, SafetyInv
<1>2. ASSUME Next
      PROVE  FromHome' /\ GoodInv'
  <2>1. PICK d \in Device :
          \/ \E s \in Server, t \in Time, withEntry, found \in BOOLEAN :
                Compose(d, s, t, withEntry, found)
          \/ \E s, t \in Server : Push(d, s, t)
          \/ Receive(d) \/ LoseRequest(d)
          \/ AskHome(d) \/ Compare(d)
          \/ FetchLater(d) \/ TakeRemote(d) \/ PushToHome(d) \/ PushRaw(d)
    BY <1>2 DEF Next
  <2>2. request' \in [Device -> Request] /\ request \in [Device -> Request]
    BY <1>1 DEF TypeOK, SyncInv, SafetyInv
  <2>3. ASSUME NEW s \in Server, NEW t \in Time, NEW withEntry \in BOOLEAN,
               NEW found \in BOOLEAN, Compose(d, s, t, withEntry, found)
        PROVE  FromHome' /\ GoodInv'
    <3>1. PICK doc : request' = [request EXCEPT ![d] =
                                   [Idle EXCEPT !.pc = "sent", !.at = s, !.doc = doc]]
      BY <2>3 DEF Compose
    <3> DEFINE r == [Idle EXCEPT !.pc = "sent", !.at = s, !.doc = doc]
    <3>2. r.pc = "sent"
      BY DEF Idle
    <3> HIDE DEF r
    <3>3. request' = [request EXCEPT ![d] = r]
      BY <3>1 DEF r
    <3>4. request'[d] = r /\ r \in Request
      BY <2>2, <3>3
    <3>5. request[d].pc = "idle" /\ UNCHANGED <<stored, dirty, floor>>
      BY <2>3 DEF Compose
    <3> QED
      BY <1>1, <3>2, <3>3, <3>4, <3>5, ClientGood
  <2>4. ASSUME NEW s \in Server, NEW t \in Server, Push(d, s, t)
        PROVE  FromHome' /\ GoodInv'
    <3> DEFINE r == [Idle EXCEPT !.pc = "sent", !.at = t, !.doc = Answer(s, Page, 0)]
    <3>1. request' = [request EXCEPT ![d] = r] /\ r.pc = "sent"
      BY <2>4 DEF Push, Idle
    <3> HIDE DEF r
    <3>2. request'[d] = r /\ r \in Request
      BY <2>2, <3>1
    <3>3. request[d].pc = "idle" /\ UNCHANGED <<stored, dirty, floor>>
      BY <2>4 DEF Push, history
    <3> QED
      BY <1>1, <3>1, <3>2, <3>3, ClientGood
  <2>5. ASSUME LoseRequest(d)
        PROVE  FromHome' /\ GoodInv'
    <3>1. /\ request' = [request EXCEPT ![d] = Idle] /\ Idle.pc = "idle" /\ Idle \in Request
          /\ request[d].pc = "sent" /\ UNCHANGED <<stored, dirty, floor>>
      BY <2>5, IdleIsRequest DEF LoseRequest, history, Idle
    <3> QED
      BY <1>1, <3>1, ClientGood
  <2> QED
    BY <1>1, <2>1, <2>3, <2>4, <2>5, ReceiveGood, AskHomeGood, CompareGood, FetchLaterGood,
       TakeRemoteGood, PushToHomeGood, PushRawGood
<1>3. ASSUME UNCHANGED vars
      PROVE  FromHome' /\ GoodInv'
  <2>1. UNCHANGED <<stored, request, dirty, floor>>
    BY <1>3 DEF vars, history
  <2>2. /\ \A s : Quiet(s)' = Quiet(s) /\ GoodAt(s)' = GoodAt(s)
        /\ FromHome' = FromHome
    BY <2>1 DEF Quiet, GoodAt, Owed, OnTheWay, FromHome
  <2> QED
    BY <2>1, <2>2 DEF GoodInv, SyncInv
<1> QED
  BY <1>1, <1>2, <1>3 DEF SyncInv

\* The next comparison makes good for posts that did not get home, for any number
\* of servers and devices and any page: while no request is under way at a
\* server, and none has failed since it last compared with the home, the home has
\* the latest page of what came after the entry it compared with
\* (TrsstAdapter.java:1844-1936).
THEOREM SyncMakesGoodHolds == Spec => []SyncMakesGood
<1>1. Init => SyncInv
  BY InitSafe, InitGood DEF SyncInv
<1>2. SyncInv => SyncMakesGood
  <2> SUFFICES ASSUME SyncInv, NEW s \in Server \ ({Home} \cup dirty),
                      \A d \in Device : request[d].pc = "idle" \/ request[d].at # s
               PROVE  Times(Newest(Page, Since(stored[s], floor[s]))) \subseteq Times(stored[Home])
    BY DEF SyncMakesGood
  <2>1. Quiet(s) /\ \A e : ~OnTheWay(s, e)
    BY DEF Quiet, OnTheWay
  <2>2. \A e \in Owed(s) : e.time \in Times(stored[Home])
    BY <2>1 DEF SyncInv, GoodInv, GoodAt
  <2> QED
    BY <2>2 DEF Owed, Times
<1> QED
  BY <1>1, <1>2, NextGood, PTL DEF Spec

=============================================================================
