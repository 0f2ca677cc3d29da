---------------------------- MODULE RelayProofs ----------------------------
(***************************************************************************)
(* Theorems about Relay, for any servers, clients, relays, limit and number *)
(* of faults: requests do not go round in circles, and the answers that an  *)
(* asynchronous client gets never become older.                             *)
(***************************************************************************)
EXTENDS Relay, SequenceTheorems, TLAPS

-----------------------------------------------------------------------------
(* Lists without repetition *)

Distinct(list) == \A i, j \in DOMAIN list : list[i] = list[j] => i = j

LEMMA FrontFacts ==
    ASSUME NEW S, NEW s \in Seq(S), s # <<>>
    PROVE  /\ Front(s) \in Seq(S)
           /\ Len(s) \in Nat \ {0}
           /\ Len(Front(s)) = Len(s) - 1
           /\ \A i \in 1..Len(s) - 1 : Front(s)[i] = s[i]
           /\ Last(s) \in S
  <1>1. Len(s) \in Nat \ {0} /\ DOMAIN s = 1..Len(s)
    BY EmptySeq, LenProperties
  <1>2. s \in [1..Len(s) -> S]
    BY LenProperties
  <1>3. \A i \in 1..Len(s) - 1 : s[i] \in S
    BY <1>1, <1>2
  <1>4. QED
    BY <1>1, <1>2, <1>3, SubSeqProperties DEF Front, Last

LEMMA AppendFacts ==
    ASSUME NEW S, NEW s \in Seq(S), NEW p \in S
    PROVE  /\ Append(s, p) \in Seq(S)
           /\ Append(s, p) # <<>>
           /\ Len(Append(s, p)) = Len(s) + 1
           /\ \A i \in 1..Len(s) : Append(s, p)[i] = s[i]
           /\ Front(Append(s, p)) = s
  <1>1. /\ Append(s, p) \in Seq(S)
        /\ Append(s, p) # <<>>
        /\ Len(Append(s, p)) = Len(s) + 1
        /\ \A i \in 1..Len(s) : Append(s, p)[i] = s[i]
    BY AppendProperties
  <1> DEFINE t == Append(s, p)
  <1> HIDE DEF t
  <1>2. t \in Seq(S) /\ t # <<>>
    BY <1>1 DEF t
  <1>3. /\ Front(t) \in Seq(S) /\ Len(Front(t)) = Len(t) - 1
        /\ \A i \in 1..Len(t) - 1 : Front(t)[i] = t[i]
    BY <1>2, FrontFacts
  <1>4. Len(t) = Len(s) + 1 /\ \A i \in 1..Len(s) : t[i] = s[i]
    BY <1>1 DEF t
  <1>5. Len(Front(t)) = Len(s) /\ \A i \in 1..Len(s) : Front(t)[i] = s[i]
    BY <1>3, <1>4, LenProperties
  <1>6. Front(t) = s
    BY <1>3, <1>5, SeqEqual
  <1>7. QED
    BY <1>1, <1>6 DEF t

\* The list `long` is `short` with one more element.
JoinedBy(short, long, last) ==
    \E n \in Nat : /\ DOMAIN short = 1..n
                   /\ DOMAIN long = 1..n + 1
                   /\ long[n + 1] = last
                   /\ \A i \in 1..n : short[i] = long[i]

LEMMA DistinctJoined ==
    ASSUME NEW short, NEW long, NEW last, JoinedBy(short, long, last)
    PROVE  Distinct(long) <=> /\ Distinct(short)
                              /\ \A i \in DOMAIN short : short[i] # last
  <1>1. PICK n \in Nat : /\ DOMAIN short = 1..n
                         /\ DOMAIN long = 1..n + 1
                         /\ long[n + 1] = last
                         /\ \A i \in 1..n : short[i] = long[i]
    BY DEF JoinedBy
  <1>2. QED
    BY <1>1 DEF Distinct

\* A list with the last server and the same list without.
LEMMA FrontConcat ==
    ASSUME NEW S, NEW base \in Seq(S), NEW stack \in Seq(S), stack # <<>>
    PROVE  JoinedBy(base \o Front(stack), base \o stack, Last(stack))
  <1> DEFINE f == Front(stack)
  <1>1. /\ f \in Seq(S) /\ Len(f) = Len(stack) - 1
        /\ \A i \in 1..Len(stack) - 1 : f[i] = stack[i]
        /\ Len(stack) \in Nat \ {0} /\ Len(base) \in Nat
    BY FrontFacts, LenProperties
  <1> HIDE DEF f
  <1>2. /\ base \o f \in Seq(S) /\ Len(base \o f) = Len(base) + Len(f)
        /\ \A i \in 1..Len(base) + Len(f) :
              (base \o f)[i] = IF i <= Len(base) THEN base[i]
                               ELSE f[i - Len(base)]
    BY <1>1, ConcatProperties
  <1>3. /\ base \o stack \in Seq(S)
        /\ Len(base \o stack) = Len(base) + Len(stack)
        /\ \A i \in 1..Len(base) + Len(stack) :
              (base \o stack)[i] = IF i <= Len(base) THEN base[i]
                                   ELSE stack[i - Len(base)]
    BY <1>1, ConcatProperties
  <1> DEFINE n == Len(base) + Len(stack) - 1
  <1>4. n \in Nat /\ Len(base \o f) = n /\ Len(base \o stack) = n + 1
    BY <1>1, <1>2, <1>3
  <1>5. DOMAIN (base \o f) = 1..n /\ DOMAIN (base \o stack) = 1..n + 1
    BY <1>2, <1>3, <1>4, LenProperties
  <1>6. (base \o stack)[n + 1] = Last(stack)
    BY <1>1, <1>3 DEF Last
  <1>7. \A i \in 1..n : (base \o f)[i] = (base \o stack)[i]
    BY <1>1, <1>2, <1>3
  <1>8. QED
    BY <1>4, <1>5, <1>6, <1>7 DEF f, JoinedBy

-----------------------------------------------------------------------------
(* Types and lists *)

ListInv ==
    /\ \A o \in Owner : ~At(o, "idle") =>
          chain[o].stack # <<>> /\ Distinct(RelayList(o))
    /\ \A s \in Server : \A i \in DOMAIN queue[s] : Distinct(queue[s][i])

SafetyInv == TypeOK /\ ListInv

LEMMA ChainType ==
    ASSUME TypeOK, NEW o \in Owner
    PROVE  /\ chain[o] \in Chain
           /\ chain[o].base \in Seq(Server)
           /\ chain[o].stack \in Seq(Server)
           /\ chain[o].answer \in Version
  BY DEF TypeOK, Chain

\* What is known of the server at work and of the list in its request.
LEMMA WorkerFacts ==
    ASSUME SafetyInv, NEW o \in Owner, ~At(o, "idle")
    PROVE  /\ Worker(o) \in Server
           /\ Front(chain[o].stack) \in Seq(Server)
           /\ RelayList(o) \in Seq(Server)
           /\ Distinct(RelayList(o))
           /\ Len(chain[o].stack) \in Nat \ {0}
           /\ Len(Front(chain[o].stack)) = Len(chain[o].stack) - 1
           /\ \A i \in 1..Len(chain[o].stack) - 1 :
                 Front(chain[o].stack)[i] = chain[o].stack[i]
  <1>1. /\ chain[o].stack \in Seq(Server) /\ chain[o].stack # <<>>
        /\ chain[o].base \in Seq(Server) /\ Distinct(RelayList(o))
    BY ChainType DEF SafetyInv, ListInv
  <1>2. QED
    BY <1>1, FrontFacts, ConcatProperties DEF Worker, RelayList

\* A step that gives o the chain c and leaves the other chains alone.
LEMMA ChainStep ==
    ASSUME SafetyInv, NEW o \in Owner, NEW c \in Chain, Become(o, c),
           c.at # "idle" =>
              c.stack # <<>> /\ Distinct(c.base \o Front(c.stack))
    PROVE  /\ chain' \in [Owner -> Chain]
           /\ chain'[o] = c
           /\ \A x \in Owner \ {o} : chain'[x] = chain[x]
           /\ \A x \in Owner : ~At(x, "idle")' =>
                 chain'[x].stack # <<>> /\ Distinct(RelayList(x)')
  BY DEF Become, SafetyInv, TypeOK, ListInv, At, RelayList

\* A chain of which only the stack changes, or what is known of the answer.
LEMMA ChainExcept ==
    ASSUME NEW c \in Chain, NEW label \in {"serve", "pull", "reply"},
           NEW stack \in Seq(Server), NEW v \in Version
    PROVE  /\ [c EXCEPT !.stack = stack] \in Chain
           /\ [c EXCEPT !.at = label] \in Chain
           /\ [c EXCEPT !.at = label, !.stack = stack] \in Chain
           /\ [c EXCEPT !.at = label, !.answer = v] \in Chain
           /\ [c EXCEPT !.at = label, !.stack = stack, !.answer = v] \in Chain
  BY DEF Chain


\* A request that begins: nobody has forwarded it yet, or those of its task.
LEMMA FirstServer ==
    ASSUME NEW base \in Seq(Server), NEW s \in Server
    PROVE  <<s>> # <<>> /\ <<s>> \in Seq(Server) /\ base \o Front(<<s>>) = base
  <1> DEFINE t == <<s>>
  <1>1. t \in Seq(Server) /\ Len(t) = 1 /\ t # <<>>
    OBVIOUS
  <1> HIDE DEF t
  <1>2. Front(t) \in Seq(Server) /\ Len(Front(t)) = Len(t) - 1
    BY <1>1, FrontFacts
  <1>3. Front(t) = <<>>
    BY <1>1, <1>2, EmptySeq
  <1>4. t # <<>> /\ t \in Seq(Server) /\ base \o Front(t) = base
    BY <1>1, <1>3, ConcatEmptySeq
  <1>5. QED
    BY <1>4 DEF t

\* The list of the request that the server below gets back is distinct.
LEMMA BelowFacts ==
    ASSUME SafetyInv, NEW o \in Owner, ~At(o, "idle"), Nested(o)
    PROVE  LET below == Front(chain[o].stack)
           IN /\ below \in Seq(Server) /\ below # <<>>
              /\ Last(below) \in Server
              /\ Distinct(chain[o].base \o Front(below))
  <1> DEFINE below == Front(chain[o].stack)
  <1>1. /\ below \in Seq(Server) /\ Len(below) = Len(chain[o].stack) - 1
        /\ Len(chain[o].stack) \in Nat \ {0}
        /\ Distinct(chain[o].base \o below)
    BY WorkerFacts DEF RelayList
  <1>3. chain[o].base \in Seq(Server) /\ Len(chain[o].stack) > 1
    BY ChainType DEF SafetyInv, Nested
  <1> HIDE DEF below
  <1>2. Len(below) # 0
    BY <1>1, <1>3
  <1>4. below # <<>>
    BY <1>1, <1>2, EmptySeq
  <1>5. JoinedBy(chain[o].base \o Front(below), chain[o].base \o below,
                 Last(below))
    BY <1>1, <1>3, <1>4, FrontConcat
  <1>6. Last(below) \in Server /\ Distinct(chain[o].base \o Front(below))
    BY <1>1, <1>4, <1>5, DistinctJoined, FrontFacts
  <1>7. QED
    BY <1>1, <1>4, <1>6 DEF below

\* A step of o that leaves base and stack of its chain alone.
LEMMA Relabelled ==
    ASSUME SafetyInv, NEW o \in Owner, ~At(o, "idle"), NEW c \in Chain,
           Become(o, c), c.base = chain[o].base, c.stack = chain[o].stack
    PROVE  /\ chain' \in [Owner -> Chain]
           /\ \A x \in Owner : ~At(x, "idle")' =>
                 chain'[x].stack # <<>> /\ Distinct(RelayList(x)')
  <1>1. chain[o].stack # <<>> /\ Distinct(chain[o].base \o Front(chain[o].stack))
    BY DEF SafetyInv, ListInv, RelayList
  <1>2. QED
    BY <1>1, ChainStep

LEMMA ReplyFacts ==
    ASSUME SafetyInv, NEW o \in Owner, ~At(o, "idle"), NEW v \in Version,
           Reply(o, v)
    PROVE  /\ chain' \in [Owner -> Chain]
           /\ \A x \in Owner : ~At(x, "idle")' =>
                 chain'[x].stack # <<>> /\ Distinct(RelayList(x)')
  <1> DEFINE c == [chain[o] EXCEPT !.at = "reply", !.answer = v]
  <1>1. chain[o] \in Chain /\ c \in Chain
    BY ChainType, ChainExcept DEF SafetyInv
  <1>2. c.base = chain[o].base /\ c.stack = chain[o].stack
    BY <1>1 DEF Chain
  <1>3. Become(o, c)
    BY DEF Reply
  <1> HIDE DEF c
  <1>4. QED
    BY <1>1, <1>2, <1>3, Relabelled


-----------------------------------------------------------------------------
(* One step per action *)

LEMMA PublishSafe ==
    ASSUME SafetyInv, Publish
    PROVE  SafetyInv'
  <1>1. /\ stored' = [stored EXCEPT ![Origin] = @ + 1]
        /\ stored[Origin] < MaxVersion /\ stored \in [Server -> Version]
        /\ UNCHANGED <<chain, queue, registered, seen, faults>>
    BY DEF Publish, SafetyInv, TypeOK
  <1>2. stored' \in [Server -> Version]
    BY <1>1, NetworkAssumption, BoundAssumption DEF Version
  <1>3. QED
    BY <1>1, <1>2 DEF SafetyInv, TypeOK, ListInv, At, RelayList

LEMMA ClientSafe ==
    ASSUME SafetyInv, NEW c \in Client, Poll(c) \/ BeAnswered(c)
    PROVE  SafetyInv'
  <1>0. c \in Owner /\ HomeOf[c] \in Server /\ chain[c] \in Chain
    BY NetworkAssumption, ChainType DEF Owner, SafetyInv
  <1>1. CASE Poll(c)
    <2> DEFINE d == [at |-> "serve", base |-> <<>>, stack |-> <<HomeOf[c]>>,
                     answer |-> 0]
    <2>1. <<>> \in Seq(Server) /\ 0 \in Version
      BY BoundAssumption DEF Version
    <2>2. <<HomeOf[c]>> # <<>> /\ <<>> \o Front(<<HomeOf[c]>>) = <<>>
      BY <1>0, <2>1, FirstServer
    <2>3. d \in Chain
      BY <1>0, <2>1 DEF Chain
    <2>4. Distinct(<<>>)
      BY DEF Distinct
    <2>5. d.stack # <<>> /\ Distinct(d.base \o Front(d.stack))
      BY <2>2, <2>4
    <2>6. Become(c, d) /\ UNCHANGED <<stored, queue, registered, seen, faults>>
      BY <1>1 DEF Poll
    <2> HIDE DEF d
    <2>7. /\ chain' \in [Owner -> Chain]
          /\ \A x \in Owner : ~At(x, "idle")' =>
                chain'[x].stack # <<>> /\ Distinct(RelayList(x)')
      BY <1>0, <2>3, <2>5, <2>6, ChainStep
    <2>8. QED
      BY <2>6, <2>7 DEF SafetyInv, TypeOK, ListInv
  <1>2. CASE BeAnswered(c)
    <2>1. NoChain \in Chain /\ NoChain.at = "idle"
      BY BoundAssumption DEF NoChain, Chain, Version
    <2>2. /\ Become(c, NoChain) /\ UNCHANGED <<stored, queue, registered, faults>>
          /\ seen' = [seen EXCEPT ![c] = chain[c].answer]
      BY <1>2 DEF BeAnswered
    <2>3. /\ chain' \in [Owner -> Chain]
          /\ \A x \in Owner : ~At(x, "idle")' =>
                chain'[x].stack # <<>> /\ Distinct(RelayList(x)')
      BY <1>0, <2>1, <2>2, ChainStep
    <2>4. seen' \in [Client -> Version]
      BY <1>0, <2>2, ChainType DEF SafetyInv, TypeOK
    <2>5. QED
      BY <2>2, <2>3, <2>4 DEF SafetyInv, TypeOK, ListInv
  <1>3. QED
    BY <1>1, <1>2

LEMMA CurrentFeedSafe ==
    ASSUME SafetyInv, NEW o \in Owner, CurrentFeed(o)
    PROVE  SafetyInv'
  <1> DEFINE s == Worker(o)
             list == RelayList(o)
  <1>1. ~At(o, "idle") /\ UNCHANGED <<stored, seen, faults>>
    BY DEF CurrentFeed, At
  <1>2. s \in Server /\ list \in Seq(Server) /\ Distinct(list)
    BY <1>1, WorkerFacts
  <1>3. stored[s] \in Version
    BY <1>2 DEF SafetyInv, TypeOK
  <1>4. /\ chain' \in [Owner -> Chain]
        /\ \A x \in Owner : ~At(x, "idle")' =>
              chain'[x].stack # <<>> /\ Distinct(RelayList(x)')
    <2>1. CASE Reply(o, stored[s])
      BY <1>1, <1>3, <2>1, ReplyFacts
    <2>2. CASE Become(o, [chain[o] EXCEPT !.at = "pull"])
      <3> DEFINE c == [chain[o] EXCEPT !.at = "pull"]
      <3>0. chain[o] \in Chain
        BY ChainType DEF SafetyInv
      <3>1. c \in Chain /\ c.base = chain[o].base /\ c.stack = chain[o].stack
        BY <3>0 DEF Chain
      <3> HIDE DEF c
      <3>2. QED
        BY <1>1, <2>2, <3>1, Relabelled DEF c
    <2>3. QED
      BY <2>1, <2>2 DEF CurrentFeed
  <1>5. /\ queue' \in [Server -> Seq(Seq(Server))]
        /\ registered' \in [Server -> SUBSET Seq(Server)]
        /\ \A x \in Server : \A i \in DOMAIN queue'[x] : Distinct(queue'[x][i])
    <2>1. CASE UNCHANGED <<queue, registered>>
      BY <2>1 DEF SafetyInv, TypeOK, ListInv
    <2>2. CASE /\ queue' = [queue EXCEPT ![s] = Append(@, list)]
               /\ registered' = [registered EXCEPT ![s] = @ \cup {list}]
      <3> HIDE DEF s, list
      <3>1. queue \in [Server -> Seq(Seq(Server))]
            /\ registered \in [Server -> SUBSET Seq(Server)]
        BY DEF SafetyInv, TypeOK
      <3>2. /\ Append(queue[s], list) \in Seq(Seq(Server))
            /\ \A i \in DOMAIN Append(queue[s], list) :
                  Distinct(Append(queue[s], list)[i])
        BY <1>2, <3>1, AppendProperties, LenProperties DEF SafetyInv, ListInv
      <3>3. QED
        BY <1>2, <2>2, <3>1, <3>2 DEF SafetyInv, ListInv
    <2>3. QED
      BY <2>1, <2>2 DEF CurrentFeed, PullLater
  <1>6. QED
    BY <1>1, <1>4, <1>5 DEF SafetyInv, TypeOK, ListInv

\* The loopback check keeps the server off a list that it is on already.
LEMMA AskRelaySafe ==
    ASSUME SafetyInv, NEW o \in Owner, NEW p, AskRelay(o, p)
    PROVE  SafetyInv'
  <1> DEFINE stack == Append(chain[o].stack, p)
             c == [chain[o] EXCEPT !.at = "serve", !.stack = stack]
  <1>1. /\ ~At(o, "idle") /\ ~Loopback(o)
        /\ UNCHANGED <<stored, queue, registered, seen, faults>>
        /\ Become(o, c)
    BY DEF AskRelay, At
  <1>2. Worker(o) \in Server /\ Distinct(RelayList(o)) /\ chain[o].stack # <<>>
    BY <1>1, WorkerFacts DEF SafetyInv, ListInv
  <1>3. p \in Server
    BY <1>2, NetworkAssumption DEF AskRelay, RelayPeers
  <1>4. chain[o] \in Chain /\ chain[o].stack \in Seq(Server)
        /\ chain[o].base \in Seq(Server)
    BY ChainType DEF SafetyInv
  <1>5. stack \in Seq(Server) /\ stack # <<>> /\ Front(stack) = chain[o].stack
    BY <1>3, <1>4, AppendFacts
  <1>6. \A i \in DOMAIN RelayList(o) : RelayList(o)[i] # Worker(o)
    BY <1>1, <1>2, NetworkAssumption DEF Loopback
  <1>7. JoinedBy(RelayList(o), chain[o].base \o chain[o].stack, Worker(o))
    BY <1>2, <1>4, FrontConcat DEF RelayList, Worker
  <1>8. Distinct(chain[o].base \o chain[o].stack)
    BY <1>2, <1>6, <1>7, DistinctJoined
  <1>9. c \in Chain /\ c.base = chain[o].base /\ c.stack = stack
    BY <1>4, <1>5 DEF Chain
  <1> HIDE DEF c, stack
  <1>10. /\ chain' \in [Owner -> Chain]
         /\ \A x \in Owner : ~At(x, "idle")' =>
               chain'[x].stack # <<>> /\ Distinct(RelayList(x)')
    BY <1>1, <1>5, <1>8, <1>9, ChainStep
  <1>11. QED
    BY <1>1, <1>10 DEF SafetyInv, TypeOK, ListInv

LEMMA AskNobodySafe ==
    ASSUME SafetyInv, NEW o \in Owner, AskNobody(o)
    PROVE  SafetyInv'
  <1>1. /\ ~At(o, "idle") /\ 0 \in Version /\ Reply(o, 0)
        /\ UNCHANGED <<stored, queue, registered, seen, faults>>
    BY BoundAssumption DEF AskNobody, At, Version
  <1>2. /\ chain' \in [Owner -> Chain]
        /\ \A x \in Owner : ~At(x, "idle")' =>
              chain'[x].stack # <<>> /\ Distinct(RelayList(x)')
    BY <1>1, ReplyFacts
  <1>3. QED
    BY <1>1, <1>2 DEF SafetyInv, TypeOK, ListInv

\* The three ways back to the server below.
LEMMA BackSafe ==
    ASSUME SafetyInv, NEW o \in Owner, Return(o) \/ ReturnUningested(o) \/ Lose(o)
    PROVE  SafetyInv'
  <1> DEFINE below == Front(chain[o].stack)
             c == [chain[o] EXCEPT !.stack = below]
             d == [chain[o] EXCEPT !.at = "reply", !.stack = below, !.answer = 0]
  <1>1. ~At(o, "idle") /\ Nested(o) /\ UNCHANGED <<queue, registered, seen>>
    BY DEF Return, ReturnUningested, Lose, At
  <1>2. chain[o] \in Chain /\ 0 \in Version /\ chain[o].answer \in Version
    BY ChainType, BoundAssumption DEF SafetyInv, Version
  <1>3. /\ below \in Seq(Server) /\ below # <<>> /\ Last(below) \in Server
        /\ Distinct(chain[o].base \o Front(below))
    BY <1>1, BelowFacts
  <1>4. /\ c \in Chain /\ c.base = chain[o].base /\ c.stack = below
        /\ c.answer = chain[o].answer
        /\ d \in Chain /\ d.base = chain[o].base /\ d.stack = below
    BY <1>2, <1>3 DEF Chain
  <1>5. Become(o, c) \/ Become(o, d)
    BY DEF Return, ReturnUningested, Lose
  <1>6. stored' = stored \/ stored' = Ingested(Last(below), chain[o].answer)
    BY <1>4 DEF Return, ReturnUningested, Lose
  <1>7. faults' \in 0..MaxFaults
    BY BoundAssumption DEF Return, ReturnUningested, Lose, SafetyInv, TypeOK
  <1> HIDE DEF below, c, d
  <1>8. /\ chain' \in [Owner -> Chain]
        /\ \A x \in Owner : ~At(x, "idle")' =>
              chain'[x].stack # <<>> /\ Distinct(RelayList(x)')
    BY <1>3, <1>4, <1>5, ChainStep
  <1>9. stored' \in [Server -> Version]
    BY <1>2, <1>3, <1>6 DEF Ingested, SafetyInv, TypeOK
  <1>10. QED
    BY <1>1, <1>7, <1>8, <1>9 DEF SafetyInv, TypeOK, ListInv

LEMMA TimerSafe ==
    ASSUME SafetyInv, NEW s \in Server, StartTask(s) \/ EndTask(s)
    PROVE  SafetyInv'
  <1>0. s \in Owner /\ queue \in [Server -> Seq(Seq(Server))]
    BY DEF Owner, SafetyInv, TypeOK
  <1>1. CASE StartTask(s)
    <2> DEFINE q == queue[s]
               c == [at |-> "pull", base |-> Head(q), stack |-> <<s>>,
                     answer |-> 0]
    <2>1. /\ q # <<>> /\ queue' = [queue EXCEPT ![s] = Tail(q)]
          /\ Become(s, c) /\ UNCHANGED <<stored, registered, seen, faults>>
      BY <1>1 DEF StartTask
    <2>2. q \in Seq(Seq(Server)) /\ \A i \in DOMAIN q : Distinct(q[i])
      BY <1>0 DEF SafetyInv, ListInv
    <2>3. /\ Head(q) \in Seq(Server) /\ Distinct(Head(q))
          /\ Tail(q) \in Seq(Seq(Server))
          /\ \A i \in DOMAIN Tail(q) : Distinct(Tail(q)[i])
      <3> HIDE DEF q
      <3>1. /\ Len(q) \in Nat \ {0} /\ DOMAIN q = 1..Len(q)
            /\ Head(q) = q[1] /\ Tail(q) \in Seq(Seq(Server))
            /\ Len(Tail(q)) = Len(q) - 1
            /\ \A i \in 1..Len(q) - 1 : Tail(q)[i] = q[i + 1]
        BY <2>1, <2>2, EmptySeq, LenProperties, HeadTailProperties
      <3>2. DOMAIN Tail(q) = 1..Len(q) - 1
        BY <3>1, LenProperties
      <3>3. \A i \in DOMAIN Tail(q) : Distinct(Tail(q)[i])
        BY <2>2, <3>1, <3>2
      <3>4. 1 \in DOMAIN q /\ q[1] \in Seq(Server)
        BY <2>2, <3>1, ElementOfSeq
      <3>5. QED
        BY <2>2, <3>1, <3>3, <3>4
    <2>4. /\ <<s>> # <<>> /\ <<s>> \in Seq(Server)
          /\ Head(q) \o Front(<<s>>) = Head(q)
      BY <2>3, FirstServer
    <2> HIDE DEF q
    <2>5. c \in Chain /\ c.stack # <<>> /\ Distinct(c.base \o Front(c.stack))
      <3>1. 0 \in Version
        BY BoundAssumption DEF Version
      <3>2. c \in Chain
        BY <2>3, <2>4, <3>1 DEF Chain
      <3>3. c.base = Head(q) /\ c.stack = <<s>>
        OBVIOUS
      <3> HIDE DEF c
      <3>4. c.base \o Front(c.stack) = Head(q)
        BY <2>4, <3>3
      <3>5. QED
        BY <2>3, <2>4, <3>2, <3>3, <3>4
    <2> HIDE DEF c
    <2>6. /\ chain' \in [Owner -> Chain]
          /\ \A x \in Owner : ~At(x, "idle")' =>
                chain'[x].stack # <<>> /\ Distinct(RelayList(x)')
      BY <1>0, <2>1, <2>5, ChainStep
    <2>7. /\ queue' \in [Server -> Seq(Seq(Server))]
          /\ \A x \in Server : \A i \in DOMAIN queue'[x] : Distinct(queue'[x][i])
      BY <1>0, <2>1, <2>3 DEF SafetyInv, ListInv
    <2>8. QED
      BY <2>1, <2>6, <2>7 DEF SafetyInv, TypeOK, ListInv
  <1>2. CASE EndTask(s)
    <2>1. NoChain \in Chain /\ NoChain.at = "idle"
      BY BoundAssumption DEF NoChain, Chain, Version
    <2>2. /\ Become(s, NoChain) /\ UNCHANGED <<stored, queue, seen, faults>>
          /\ registered' = [registered EXCEPT ![s] = @ \ {chain[s].base}]
      BY <1>2 DEF EndTask
    <2>3. /\ chain' \in [Owner -> Chain]
          /\ \A x \in Owner : ~At(x, "idle")' =>
                chain'[x].stack # <<>> /\ Distinct(RelayList(x)')
      BY <1>0, <2>1, <2>2, ChainStep
    <2>4. registered' \in [Server -> SUBSET Seq(Server)]
      BY <2>2 DEF SafetyInv, TypeOK
    <2>5. QED
      BY <2>2, <2>3, <2>4 DEF SafetyInv, TypeOK, ListInv
  <1>3. QED
    BY <1>1, <1>2

LEMMA SafetyInit == Init => SafetyInv
  <1> SUFFICES ASSUME Init PROVE SafetyInv
    OBVIOUS
  <1>1. NoChain \in Chain /\ NoChain.at = "idle"
    BY BoundAssumption DEF NoChain, Chain, Version
  <1>2. TypeOK
    BY <1>1, BoundAssumption DEF Init, TypeOK, Version
  <1>3. ListInv
    BY <1>1 DEF Init, ListInv, At
  <1>4. QED
    BY <1>2, <1>3 DEF SafetyInv

LEMMA SafetyStep ==
    ASSUME SafetyInv, [Next]_vars
    PROVE  SafetyInv'
  <1>1. CASE UNCHANGED vars
    BY <1>1 DEF vars, SafetyInv, TypeOK, ListInv, At, RelayList
  <1>2. CASE Next
    BY <1>2, PublishSafe, ClientSafe, CurrentFeedSafe, AskRelaySafe,
       AskNobodySafe, BackSafe, TimerSafe DEF Next
  <1>3. QED
    BY <1>1, <1>2

LEMMA SafetyInductive == Spec => []SafetyInv
  BY SafetyInit, SafetyStep, PTL DEF Spec

\* Every variable keeps its type (TypeOK), in any network.
THEOREM TypeCorrect == Spec => []TypeOK
  <1>1. SafetyInv => TypeOK
    BY DEF SafetyInv
  <1>2. QED
    BY <1>1, SafetyInductive, PTL

\* Whatever the relays of the servers, a request is forwarded at most once by
\* each server, over nested requests and over tasks scheduled for later:
\* ForwardsOnce always holds (TrsstAdapter.java:339-345, :435-444).
THEOREM ForwardsOnceHolds == Spec => []ForwardsOnce
  <1>1. SafetyInv => ForwardsOnce
    BY DEF SafetyInv, ListInv, Distinct, ForwardsOnce
  <1>2. QED
    BY <1>1, SafetyInductive, PTL

-----------------------------------------------------------------------------
(* Order.  An asynchronous client whose server keeps what it pulls has seen  *)
(* no more than the server has stored.  So the server only pulls for it when *)
(* it has seen nothing yet, and otherwise answers with what is stored.       *)

Ordered(c) == c \in Client \ Sync /\ HomeOf[c] \notin Failing

OrderOf(c) ==
    /\ seen[c] <= stored[HomeOf[c]]
    /\ ~At(c, "idle") => chain[c].stack[1] = HomeOf[c]
    /\ ~At(c, "idle") /\ (Nested(c) \/ At(c, "pull")) => seen[c] = 0
    /\ At(c, "reply") /\ ~Nested(c) =>
          /\ chain[c].answer <= stored[HomeOf[c]]
          /\ chain[c].answer = 0 \/ seen[c] <= chain[c].answer

OrderInv == \A c \in Client : Ordered(c) => OrderOf(c)

\* No step makes a server go back.
LEMMA StoredGrows ==
    ASSUME SafetyInv, [Next]_vars
    PROVE  \A s \in Server : stored'[s] >= stored[s]
  <1>0. stored \in [Server -> Version]
    BY DEF SafetyInv, TypeOK
  <1>1. CASE UNCHANGED stored
    BY <1>0, <1>1 DEF Version
  <1>2. CASE Publish
    BY <1>0, <1>2, NetworkAssumption DEF Publish, Version
  <1>3. ASSUME NEW o \in Owner, NEW s, stored' = Ingested(s, chain[o].answer)
        PROVE  \A x \in Server : stored'[x] >= stored[x]
    <2>1. chain[o].answer \in Version
      BY ChainType DEF SafetyInv
    <2>2. QED
      BY <1>0, <1>3, <2>1 DEF Ingested, Version
  <1>4. ASSUME NEW o \in Owner, Return(o)
        PROVE  UNCHANGED stored
               \/ \E s : stored' = Ingested(s, chain[o].answer)
    <2> DEFINE c == [chain[o] EXCEPT !.stack = Front(@)]
    <2>1. c.answer = chain[o].answer
      BY ChainType DEF SafetyInv, Chain
    <2>2. UNCHANGED stored \/ stored' = Ingested(Last(c.stack), c.answer)
      BY <1>4 DEF Return
    <2> HIDE DEF c
    <2>3. QED
      BY <2>1, <2>2
  <1>5. Publish \/ UNCHANGED stored \/ \E o \in Owner : Return(o)
    BY DEF Next, vars, Poll, BeAnswered, CurrentFeed, AskRelay, AskNobody,
           ReturnUningested, Lose, StartTask, EndTask
  <1>6. QED
    BY <1>1, <1>2, <1>3, <1>4, <1>5

\* Steps of others.
LEMMA OrderKept ==
    ASSUME SafetyInv, [Next]_vars, NEW c \in Client, OrderOf(c),
           chain'[c] = chain[c], seen'[c] = seen[c]
    PROVE  OrderOf(c)'
  <1>1. /\ stored'[HomeOf[c]] >= stored[HomeOf[c]]
        /\ HomeOf[c] \in Server
    BY StoredGrows, NetworkAssumption
  <1>2. stored[HomeOf[c]] \in Version /\ stored'[HomeOf[c]] \in Version
    BY <1>1, SafetyStep DEF SafetyInv, TypeOK
  <1>3. seen[c] \in Version /\ chain[c].answer \in Version
    BY ChainType DEF SafetyInv, TypeOK, Owner
  <1>4. QED
    BY <1>1, <1>2, <1>3 DEF OrderOf, At, Nested, Version

\* Steps of the client's own chain that leave the number of servers alone.
LEMMA OrderSame ==
    ASSUME SafetyInv, NEW c \in Client, Ordered(c), OrderOf(c),
           Poll(c) \/ BeAnswered(c) \/ CurrentFeed(c) \/ AskNobody(c)
    PROVE  OrderOf(c)'
  <1>0. /\ c \in Owner /\ c \notin Sync /\ HomeOf[c] \in Server
        /\ chain \in [Owner -> Chain] /\ chain[c] \in Chain
        /\ stored \in [Server -> Version] /\ seen \in [Client -> Version]
    BY NetworkAssumption, ChainType DEF Owner, Ordered, SafetyInv, TypeOK
  <1>1. stored[HomeOf[c]] \in Nat /\ seen[c] \in Nat
    BY <1>0 DEF Version
  <1>2. CASE Poll(c)
    <2>1. /\ chain'[c] = [at |-> "serve", base |-> <<>>, stack |-> <<HomeOf[c]>>,
                          answer |-> 0]
          /\ seen' = seen /\ stored' = stored
      BY <1>0, <1>2 DEF Poll, Become
    <2>2. Len(<<HomeOf[c]>>) = 1 /\ <<HomeOf[c]>>[1] = HomeOf[c]
      OBVIOUS
    <2>3. QED
      BY <2>1, <2>2 DEF OrderOf, At, Nested
  <1>3. CASE BeAnswered(c)
    <2>1. /\ chain'[c] = NoChain /\ seen'[c] = chain[c].answer
          /\ stored' = stored /\ At(c, "reply") /\ ~Nested(c)
      BY <1>0, <1>3 DEF BeAnswered, Become
    <2>2. QED
      BY <2>1 DEF OrderOf, At, NoChain
  <1>4. CASE AskNobody(c)
    <2>1. /\ chain'[c] = [chain[c] EXCEPT !.at = "reply", !.answer = 0]
          /\ seen' = seen /\ stored' = stored /\ At(c, "pull")
      BY <1>0, <1>4 DEF AskNobody, Reply, Become
    <2>2. /\ chain'[c].at = "reply" /\ chain'[c].answer = 0
          /\ chain'[c].stack = chain[c].stack
      BY <1>0, <2>1 DEF Chain
    <2>3. QED
      BY <1>1, <2>1, <2>2 DEF OrderOf, At, Nested
  <1>5. CASE CurrentFeed(c)
    <2>1. At(c, "serve") /\ seen' = seen /\ stored' = stored
      BY <1>5 DEF CurrentFeed
    <2>2. ~Nested(c) => Worker(c) = HomeOf[c]
      <3>1. Len(chain[c].stack) \in Nat \ {0}
        BY <1>0, <2>1, WorkerFacts DEF At
      <3>2. ~Nested(c) => Len(chain[c].stack) = 1
        <4>1. \A n \in Nat \ {0} : ~(n > 1) => n = 1
          OBVIOUS
        <4>2. QED
          BY <3>1, <4>1, Zenon DEF Nested
      <3>3. chain[c].stack[1] = HomeOf[c]
        BY <2>1 DEF OrderOf, At
      <3>4. QED
        BY <3>2, <3>3 DEF Worker, Last
    <2>3. CASE stored[Worker(c)] > 0
      <3>1. chain'[c] = [chain[c] EXCEPT !.at = "reply",
                                         !.answer = stored[Worker(c)]]
        BY <1>0, <1>5, <2>3 DEF CurrentFeed, Reply, Become
      <3>2. /\ chain'[c].at = "reply" /\ chain'[c].answer = stored[Worker(c)]
            /\ chain'[c].stack = chain[c].stack
        BY <1>0, <3>1 DEF Chain
      <3>3. QED
        BY <1>1, <2>1, <2>2, <3>2 DEF OrderOf, At, Nested
    <2>4. CASE ~(stored[Worker(c)] > 0)
      <3>1. chain'[c] = [chain[c] EXCEPT !.at = "pull"]
        BY <1>0, <1>5, <2>4 DEF CurrentFeed, Become
      <3>2. chain'[c].at = "pull" /\ chain'[c].stack = chain[c].stack
        BY <1>0, <3>1 DEF Chain
      <3>3. seen[c] = 0
        <4>1. CASE Nested(c)
          BY <2>1, <4>1 DEF OrderOf, At
        <4>2. CASE ~Nested(c)
          BY <1>1, <2>2, <2>4, <4>2 DEF OrderOf
        <4>3. QED
          BY <4>1, <4>2
      <3>4. QED
        BY <2>1, <3>2, <3>3 DEF OrderOf, At, Nested
    <2>5. QED
      BY <2>3, <2>4
  <1>6. QED
    BY <1>2, <1>3, <1>4, <1>5

\* Steps of the client's own chain to a server above or below.
LEMMA OrderMoved ==
    ASSUME SafetyInv, SafetyInv', [Next]_vars,
           NEW c \in Client, Ordered(c), OrderOf(c),
           \/ \E p : AskRelay(c, p)
           \/ Return(c) \/ ReturnUningested(c) \/ Lose(c)
    PROVE  OrderOf(c)'
  <1>0. /\ c \in Owner /\ HomeOf[c] \in Server /\ HomeOf[c] \notin Failing
        /\ chain \in [Owner -> Chain] /\ chain[c] \in Chain
        /\ stored \in [Server -> Version] /\ seen \in [Client -> Version]
        /\ stored' \in [Server -> Version]
    BY NetworkAssumption, ChainType DEF Owner, Ordered, SafetyInv, TypeOK
  <1>1. /\ stored[HomeOf[c]] \in Nat /\ stored'[HomeOf[c]] \in Nat
        /\ seen[c] \in Nat /\ chain[c].answer \in Nat
        /\ stored'[HomeOf[c]] >= stored[HomeOf[c]]
    BY <1>0, StoredGrows DEF Version, Chain
  <1>2. /\ ~At(c, "idle") /\ seen' = seen /\ seen[c] = 0
        /\ chain[c].stack[1] = HomeOf[c]
    BY DEF AskRelay, Return, ReturnUningested, Lose, At, OrderOf
  <1>3. ASSUME NEW p, AskRelay(c, p)
        PROVE  OrderOf(c)'
    <2> DEFINE stack == Append(chain[c].stack, p)
    <2>1. chain'[c] = [chain[c] EXCEPT !.at = "serve", !.stack = stack]
      BY <1>0, <1>3 DEF AskRelay, Become
    <2>2. chain'[c].at = "serve" /\ chain'[c].stack = stack
      BY <1>0, <2>1 DEF Chain
    <2>3. p \in Server
      BY <1>2, <1>3, <1>0, WorkerFacts, NetworkAssumption
         DEF AskRelay, RelayPeers
    <2>4. stack[1] = chain[c].stack[1]
      <3>1. chain[c].stack \in Seq(Server) /\ Len(chain[c].stack) \in Nat \ {0}
        BY <1>0, <1>2, WorkerFacts DEF Chain
      <3>2. 1 \in 1..Len(chain[c].stack)
        BY <3>1
      <3>3. QED
        BY <2>3, <3>1, <3>2, AppendFacts
    <2> HIDE DEF stack
    <2>5. QED
      BY <1>1, <1>2, <2>2, <2>4 DEF OrderOf, At, Nested
  <1>4. CASE Return(c) \/ ReturnUningested(c) \/ Lose(c)
    <2> DEFINE below == Front(chain[c].stack)
    <2>1. Nested(c) /\ stored'[HomeOf[c]] >= stored[HomeOf[c]]
      BY <1>1, <1>4 DEF Return, ReturnUningested, Lose
    <2>2. /\ below \in Seq(Server) /\ below # <<>>
          /\ Len(below) = Len(chain[c].stack) - 1
          /\ Len(chain[c].stack) \in Nat /\ Len(chain[c].stack) > 1
          /\ below[1] = chain[c].stack[1]
      <3>1. /\ Len(chain[c].stack) \in Nat \ {0}
            /\ Len(below) = Len(chain[c].stack) - 1
            /\ \A i \in 1..Len(chain[c].stack) - 1 :
                  below[i] = chain[c].stack[i]
        BY <1>0, <1>2, WorkerFacts
      <3>2. Len(chain[c].stack) > 1
        BY <2>1 DEF Nested
      <3>3. 1 \in 1..Len(chain[c].stack) - 1
        BY <3>1, <3>2
      <3>4. below \in Seq(Server) /\ below # <<>>
        BY <1>0, <1>2, <2>1, BelowFacts
      <3> HIDE DEF below
      <3>5. QED
        BY <3>1, <3>2, <3>3, <3>4
    <2>3. chain'[c].at = "reply" /\ chain'[c].stack = below
      <3>1. CASE Return(c) \/ ReturnUningested(c)
        <4>1. /\ chain'[c] = [chain[c] EXCEPT !.stack = below]
              /\ chain[c].at = "reply"
          BY <1>0, <3>1 DEF Return, ReturnUningested, Become, At
        <4>2. QED
          BY <1>0, <4>1 DEF Chain
      <3>2. CASE Lose(c)
        <4>1. chain'[c] = [chain[c] EXCEPT !.at = "reply", !.stack = below,
                                           !.answer = 0]
          BY <1>0, <3>2 DEF Lose, Become
        <4>2. QED
          BY <1>0, <4>1 DEF Chain
      <3>3. QED
        BY <1>4, <3>1, <3>2
    <2> HIDE DEF below
    <2>4. Len(below) = 1 => Last(below) = HomeOf[c]
      BY <1>2, <2>2 DEF Last
    <2>5. Len(below) = 1 => chain'[c].answer <= stored'[HomeOf[c]]
      <3>1. CASE Return(c)
        <4>1. chain'[c] = [chain[c] EXCEPT !.stack = below]
          BY <1>0, <3>1 DEF Return, Become, below
        <4>2. chain'[c].answer = chain[c].answer
          BY <1>0, <4>1 DEF Chain
        <4>3. CASE chain[c].answer > 0
          <5>1. stored' = Ingested(Last(below), chain[c].answer)
            BY <1>0, <3>1, <4>3 DEF Return, Chain, below
          <5>2. QED
            BY <1>0, <1>1, <2>4, <4>2, <5>1 DEF Ingested
        <4>4. CASE ~(chain[c].answer > 0)
          BY <1>1, <4>2, <4>4
        <4>5. QED
          BY <4>3, <4>4
      <3>2. CASE ReturnUningested(c)
        BY <1>0, <2>4, <3>2 DEF ReturnUningested, below
      <3>3. CASE Lose(c)
        <4>1. chain'[c] = [chain[c] EXCEPT !.at = "reply", !.stack = below,
                                           !.answer = 0]
          BY <1>0, <3>3 DEF Lose, Become, below
        <4>2. chain'[c].answer = 0
          BY <1>0, <4>1 DEF Chain
        <4>3. QED
          BY <1>1, <4>2
      <3>4. QED
        BY <1>4, <3>1, <3>2, <3>3
    <2>6. chain'[c].answer \in Nat
      BY <1>0 DEF SafetyInv, TypeOK, Chain, Version
    <2>7. ~(Len(below) > 1) => Len(below) = 1
      <3>1. \A n \in Nat : n > 1 /\ ~(n - 1 > 1) => n - 1 = 1
        OBVIOUS
      <3>2. QED
        BY <2>2, <3>1
    <2>8. QED
      BY <1>1, <1>2, <2>2, <2>3, <2>5, <2>6, <2>7 DEF OrderOf, At, Nested
  <1>5. QED
    BY <1>3, <1>4

LEMMA OrderInit == Init => OrderInv
  <1> SUFFICES ASSUME Init, NEW c \in Client, Ordered(c) PROVE OrderOf(c)
    BY DEF OrderInv
  <1>1. c \in Owner /\ HomeOf[c] \in Server /\ seen[c] = 0 /\ At(c, "idle")
    BY NetworkAssumption DEF Init, Owner, At, NoChain
  <1>2. seen[c] <= stored[HomeOf[c]]
    BY <1>1 DEF Init
  <1>3. QED
    BY <1>1, <1>2 DEF OrderOf, At

\* A step of the client's chain is one of the two kinds; others leave it alone.
LEMMA OrderStep ==
    ASSUME SafetyInv, OrderInv, [Next]_vars
    PROVE  OrderInv'
  <1> SUFFICES ASSUME NEW c \in Client, Ordered(c)
               PROVE  OrderOf(c)'
    BY DEF OrderInv, Ordered
  <1>1. OrderOf(c) /\ c \in Owner /\ c \notin Server /\ SafetyInv'
    BY NetworkAssumption, SafetyStep DEF OrderInv, Owner
  <1>2. chain \in [Owner -> Chain] /\ seen \in [Client -> Version]
    BY DEF SafetyInv, TypeOK
  <1>3. CASE chain'[c] = chain[c] /\ seen'[c] = seen[c]
    BY <1>1, <1>3, OrderKept
  <1>4. CASE Poll(c) \/ BeAnswered(c) \/ CurrentFeed(c) \/ AskNobody(c)
    BY <1>1, <1>4, OrderSame
  <1>5. CASE \/ \E p : AskRelay(c, p)
             \/ Return(c) \/ ReturnUningested(c) \/ Lose(c)
    BY <1>1, <1>5, OrderMoved
  <1>6. ASSUME NEW o \in Owner, o # c,
               \/ o \in Client /\ (Poll(o) \/ BeAnswered(o))
               \/ CurrentFeed(o) \/ (\E p : AskRelay(o, p)) \/ AskNobody(o)
               \/ Return(o) \/ ReturnUningested(o) \/ Lose(o)
               \/ StartTask(o) \/ EndTask(o)
        PROVE  chain'[c] = chain[c] /\ seen'[c] = seen[c]
    BY <1>1, <1>2, <1>6 DEF Poll, BeAnswered, CurrentFeed, AskRelay, AskNobody,
       Return, ReturnUningested, Lose, StartTask, EndTask, Reply, Become
  <1>7. CASE Publish \/ UNCHANGED vars
    BY <1>3, <1>7 DEF Publish, vars
  <1>8. QED
    BY <1>1, <1>3, <1>4, <1>5, <1>6, <1>7 DEF Next, Owner

\* An asynchronous client whose server keeps what it pulls is never answered
\* with an older version than before (TrsstAdapter.java:152-161, :281-309):
\* NeverOlder holds in any network, whatever requests get lost on the way.
THEOREM NeverOlderHolds == Spec => NeverOlder
  <1> DEFINE Step == \A c \in Client \ Sync :
          HomeOf[c] \notin Failing /\ seen'[c] # 0 => seen'[c] >= seen[c]
  <1>1. SafetyInv /\ OrderInv /\ [Next]_vars => SafetyInv' /\ OrderInv'
    BY SafetyStep, OrderStep
  <1>2. SafetyInv /\ OrderInv /\ [Next]_vars => [Step]_vars
    <2> SUFFICES ASSUME SafetyInv, OrderInv, [Next]_vars,
                        NEW c \in Client, Ordered(c), seen'[c] # 0
                 PROVE  seen'[c] >= seen[c]
      BY DEF Ordered
    <2>1. seen \in [Client -> Version] /\ seen[c] \in Nat
      BY DEF SafetyInv, TypeOK, Version
    <2>2. CASE seen'[c] = seen[c]
      BY <2>1, <2>2
    <2>3. CASE BeAnswered(c)
      <3>1. seen'[c] = chain[c].answer /\ At(c, "reply") /\ ~Nested(c)
        BY <2>1, <2>3 DEF BeAnswered
      <3>2. OrderOf(c) /\ chain[c].answer \in Nat
        BY ChainType DEF OrderInv, SafetyInv, Owner, Version
      <3>3. QED
        BY <2>1, <3>1, <3>2 DEF OrderOf
    <2>4. seen'[c] = seen[c] \/ BeAnswered(c)
      BY <2>1 DEF Next, vars, Publish, Poll, BeAnswered, CurrentFeed, AskRelay,
         AskNobody, Return, ReturnUningested, Lose, StartTask, EndTask
    <2>5. QED
      BY <2>2, <2>3, <2>4
  <1>3. QED
    BY SafetyInit, OrderInit, <1>1, <1>2, PTL DEF Spec, NeverOlder

=============================================================================
