--------------------------- MODULE PollsterProofs ---------------------------
(***************************************************************************)
(* Proofs about Pollster, for every set of topics and subscribers and every *)
(* limit.  What is removed from the queue, and what moves to its rear, is   *)
(* given by positions: the first lemmas say that a part of a queue has the  *)
(* tasks at those positions, each as often as they have it.                 *)
(***************************************************************************)
EXTENDS Notify, FiniteSetTheorems, NaturalsInduction, WellFoundedInduction, TLAPS

-----------------------------------------------------------------------------
(* Parts of sequences *)

\* A set of natural numbers has a least element.
LEMMA LeastOf ==
    ASSUME NEW T, T \subseteq Nat, T # {}
    PROVE  \E x \in T : \A y \in T : x <= y
<1> DEFINE R == OpToRel(<, Nat)
<1>1. IsWellFoundedOn(R, Nat)
  BY NatLessThanWellFounded
<1>2. \A x, y \in Nat : x < y => <<x, y>> \in R
  BY DEF OpToRel
<1> HIDE DEF R
<1>3. PICK x \in T : \A y \in T : ~(<<y, x>> \in R)
  BY <1>1, WFMin
<1>4. \A y \in T : ~(y < x)
  BY <1>2, <1>3
<1>5. x \in Nat /\ \A y \in T : y \in Nat
  OBVIOUS
<1> QED
  BY <1>4, <1>5

Increasing(e) == \A i, j \in DOMAIN e : i < j => e[i] < e[j]
Ordered(K) == \E e \in [1..Cardinality(K) -> K] : Increasing(e)
AllOrdered(n) == \A K \in SUBSET (1..n) : Ordered(K)

LEMMA FiniteInterval ==
    ASSUME NEW n \in Nat, NEW K \in SUBSET (1..n)
    PROVE  IsFiniteSet(K) /\ Cardinality(K) \in Nat
<1>1. IsFiniteSet(1..n)
  BY FS_Interval
<1>2. IsFiniteSet(K)
  BY <1>1, FS_Subset
<1> QED
  BY <1>2, FS_CardinalityType

\* One position more than those that can be put in order can be, too.
LEMMA OrderedStep ==
    ASSUME NEW n \in Nat, n # 0, AllOrdered(n - 1)
    PROVE  AllOrdered(n)
<1> SUFFICES ASSUME NEW K \in SUBSET (1..n)
             PROVE  Ordered(K)
  BY DEF AllOrdered
<1>1. CASE n \notin K
  <2>1. K \in SUBSET (1..(n - 1))
    BY <1>1
  <2> QED
    BY <2>1 DEF AllOrdered
<1>2. CASE n \in K
  <2> DEFINE L == K \ {n}
             c == Cardinality(L)
  <2>1. L \in SUBSET (1..(n - 1))
    OBVIOUS
  <2>2. /\ c \in Nat
        /\ Cardinality(K) = c + 1
    <3>1. IsFiniteSet(K) /\ Cardinality(K) \in Nat
      BY FiniteInterval
    <3>2. IsFiniteSet(L) /\ Cardinality(L) = Cardinality(K) - 1
      BY <1>2, <3>1, FS_RemoveElement
    <3>3. Cardinality(L) \in Nat
      BY <3>2, FS_CardinalityType
    <3> QED
      BY <3>1, <3>2, <3>3
  <2>3. PICK e \in [1..c -> L] : Increasing(e)
    BY <2>1 DEF AllOrdered, Ordered
  <2> HIDE DEF c
  <2> DEFINE f == [i \in 1..(c + 1) |-> IF i = c + 1 THEN n ELSE e[i]]
  <2>4. f \in [1..(c + 1) -> K]
    BY <1>2, <2>2, <2>3
  <2>5. ASSUME NEW i \in 1..(c + 1), NEW j \in 1..(c + 1), i < j
        PROVE  f[i] < f[j]
    <3>1. i \in 1..c /\ e[i] \in 1..(n - 1) /\ f[i] = e[i]
      <4>1. i \in 1..c /\ i # c + 1
        BY <2>2, <2>5
      <4>2. e[i] \in L
        BY <2>3, <4>1
      <4>3. f[i] = e[i]
        BY <4>1
      <4> HIDE DEF L, f
      <4> QED
        BY <2>1, <4>1, <4>2, <4>3
    <3>2. CASE j = c + 1
      BY <3>1, <3>2
    <3>3. CASE j # c + 1
      <4>1. j \in 1..c /\ f[j] = e[j]
        BY <2>2, <3>3
      <4> QED
        BY <2>3, <2>5, <3>1, <4>1 DEF Increasing
    <3> QED
      BY <3>2, <3>3
  <2>6. Increasing(f)
    BY <2>4, <2>5 DEF Increasing
  <2> QED
    BY <2>2, <2>4, <2>6 DEF Ordered
<1> QED
  BY <1>1, <1>2

\* Every set of positions can be put in order.
LEMMA PositionsOrdered ==
    ASSUME NEW n \in Nat
    PROVE  AllOrdered(n)
<1> DEFINE T == {m \in Nat : ~AllOrdered(m)}
<1>1. SUFFICES ASSUME T # {} PROVE FALSE
  OBVIOUS
<1>2. PICK m \in T : \A k \in T : m <= k
  <2> HIDE DEF T
  <2>1. T \subseteq Nat
    BY DEF T
  <2> QED
    BY <1>1, <2>1, LeastOf
<1>3. CASE m = 0
  <2>1. ASSUME NEW K \in SUBSET (1..0) PROVE Ordered(K)
    <3>1. K = {}
      OBVIOUS
    <3>2. Cardinality(K) = 0
      BY <3>1, FS_EmptySet
    <3> DEFINE e == [i \in 1..0 |-> 0]
    <3>3. e \in [1..0 -> K] /\ Increasing(e)
      BY DEF Increasing
    <3> QED
      BY <3>2, <3>3 DEF Ordered
  <2> QED
    BY <1>3, <2>1 DEF AllOrdered
<1>4. CASE m # 0
  <2>1. m - 1 \in Nat /\ m - 1 \notin T
    BY <1>2, <1>4
  <2>2. AllOrdered(m - 1)
    BY <2>1
  <2> QED
    BY <1>4, <2>2, OrderedStep
<1> QED
  BY <1>3, <1>4

\* The positions in order: each once, and none left out.
LEMMA InOrderFacts ==
    ASSUME NEW n \in Nat, NEW K \in SUBSET (1..n)
    PROVE  /\ InOrder(K) \in [1..Cardinality(K) -> K]
           /\ \A i, j \in 1..Cardinality(K) :
                 InOrder(K)[i] = InOrder(K)[j] => i = j
           /\ \A k \in K : \E i \in 1..Cardinality(K) : InOrder(K)[i] = k
<1> DEFINE c == Cardinality(K)
           e == InOrder(K)
<1>1. c \in Nat /\ IsFiniteSet(K)
  BY FiniteInterval
<1>2. \E f \in [1..c -> K] : \A i, j \in DOMAIN f : i < j => f[i] < f[j]
  BY PositionsOrdered DEF AllOrdered, Ordered, Increasing
<1>3. e \in [1..c -> K] /\ \A i, j \in DOMAIN e : i < j => e[i] < e[j]
  BY <1>2 DEF InOrder
<1> HIDE DEF c, e
<1>4. \A i, j \in 1..c : e[i] = e[j] => i = j
  <2> SUFFICES ASSUME NEW i \in 1..c, NEW j \in 1..c, i # j
               PROVE  e[i] # e[j]
    OBVIOUS
  <2>1. i < j \/ j < i
    BY <1>1
  <2>2. e[i] \in Nat /\ e[j] \in Nat
    <3>1. e[i] \in K /\ e[j] \in K /\ K \subseteq Nat
      BY <1>3
    <3> QED
      BY <3>1
  <2>3. e[i] < e[j] \/ e[j] < e[i]
    BY <1>3, <2>1
  <2> QED
    BY <2>2, <2>3
<1>5. e \in Injection(1..c, K)
  BY <1>3, <1>4 DEF Injection, IsInjective
<1>6. IsFiniteSet(1..c) /\ Cardinality(1..c) = c
  BY <1>1, FS_Interval
<1>7. e \in Surjection(1..c, K)
  BY <1>1, <1>5, <1>6, FS_Injection DEF c
<1> QED
  BY <1>3, <1>4, <1>7 DEF Surjection, c, e

Has(q, x) == \E i \in DOMAIN q : q[i] = x
Once(q) == \A i, j \in DOMAIN q : q[i] = q[j] => i = j

\* A part of a sequence has what stands at its positions, and nothing twice
\* that the sequence has once.
LEMMA PartFacts ==
    ASSUME NEW S, NEW q \in Seq(S), NEW K \in SUBSET (DOMAIN q)
    PROVE  /\ Part(q, K) \in Seq(S)
           /\ \A x : Has(Part(q, K), x) <=> \E k \in K : q[k] = x
           /\ Once(q) => Once(Part(q, K))
<1> DEFINE c == Cardinality(K)
           e == InOrder(K)
           p == Part(q, K)
<1>1. K \in SUBSET (1..Len(q)) /\ Len(q) \in Nat
  OBVIOUS
<1>2. /\ e \in [1..c -> K]
      /\ \A i, j \in 1..c : e[i] = e[j] => i = j
      /\ \A k \in K : \E i \in 1..c : e[i] = k
  BY <1>1, InOrderFacts
<1>3. c \in Nat
  BY <1>1, FiniteInterval
<1>4. p = [i \in 1..c |-> q[e[i]]]
  BY DEF Part
<1> HIDE DEF c, e, p
<1>5. \A i \in 1..c : e[i] \in K /\ q[e[i]] \in S
  BY <1>2
<1>6. p \in [1..c -> S]
  BY <1>4, <1>5
<1>7. p \in Seq(S) /\ DOMAIN p = 1..c
  BY <1>3, <1>6
<1>8. \A x : Has(p, x) <=> \E k \in K : q[k] = x
  BY <1>2, <1>4, <1>5 DEF Has
<1>9. Once(q) => Once(p)
  BY <1>2, <1>4, <1>5 DEF Once
<1> QED
  BY <1>7, <1>8, <1>9 DEF p

\* A sequence of one part and then the rest.
LEMMA JoinFacts ==
    ASSUME NEW S, NEW p \in Seq(S), NEW r \in Seq(S)
    PROVE  /\ p \o r \in Seq(S)
           /\ \A x : Has(p \o r, x) <=> Has(p, x) \/ Has(r, x)
           /\ Once(p) /\ Once(r) /\ (\A x : ~(Has(p, x) /\ Has(r, x))) => Once(p \o r)
<1> DEFINE m == Len(p)
           n == Len(r)
           z == p \o r
<1>1. /\ m \in Nat /\ n \in Nat /\ z \in Seq(S)
      /\ DOMAIN p = 1..m /\ DOMAIN r = 1..n /\ DOMAIN z = 1..(m + n)
      /\ \A i \in 1..m : z[i] = p[i]
      /\ \A i \in (m + 1)..(m + n) : i - m \in 1..n /\ z[i] = r[i - m]
  OBVIOUS
<1>2. \A i \in 1..n : i + m \in (m + 1)..(m + n) /\ (i + m) - m = i
  BY <1>1
<1> HIDE DEF m, n, z
<1>3. \A i \in 1..(m + n) : i \in 1..m \/ i \in (m + 1)..(m + n)
  BY <1>1
<1>4. 1..m \subseteq 1..(m + n) /\ (m + 1)..(m + n) \subseteq 1..(m + n)
  BY <1>1
<1>5. ASSUME NEW x, Has(z, x) PROVE Has(p, x) \/ Has(r, x)
  BY <1>1, <1>3, <1>5 DEF Has
<1>6. ASSUME NEW x, Has(p, x) PROVE Has(z, x)
  BY <1>1, <1>4, <1>6 DEF Has
<1>7. ASSUME NEW x, Has(r, x) PROVE Has(z, x)
  <2>1. PICK i \in 1..n : r[i] = x
    BY <1>1, <1>7 DEF Has
  <2>2. z[i + m] = x /\ i + m \in 1..(m + n)
    BY <1>1, <1>2, <1>4, <2>1
  <2> QED
    BY <1>1, <2>2 DEF Has
<1>8. ASSUME Once(p), Once(r), \A x : ~(Has(p, x) /\ Has(r, x)),
             NEW i \in 1..(m + n), NEW j \in 1..(m + n), z[i] = z[j]
      PROVE  i = j
  <2>1. CASE i \in 1..m /\ j \in 1..m
    BY <1>1, <1>8, <2>1 DEF Once
  <2>2. CASE i \in (m + 1)..(m + n) /\ j \in (m + 1)..(m + n)
    <3>1. /\ i - m \in DOMAIN r /\ j - m \in DOMAIN r
          /\ r[i - m] = r[j - m]
      BY <1>1, <1>8, <2>2
    <3>2. i - m = j - m
      BY <1>8, <3>1 DEF Once
    <3> QED
      BY <1>1, <2>2, <3>2
  <2>3. CASE i \in 1..m /\ j \in (m + 1)..(m + n)
    BY <1>1, <1>8, <2>3 DEF Has
  <2>4. CASE j \in 1..m /\ i \in (m + 1)..(m + n)
    BY <1>1, <1>8, <2>4 DEF Has
  <2> QED
    BY <1>3, <2>1, <2>2, <2>3, <2>4
<1> QED
  BY <1>1, <1>5, <1>6, <1>7, <1>8 DEF Once, z

\* What moves to the rear stays in the queue.
LEMMA ToRearFacts ==
    ASSUME NEW S, NEW q \in Seq(S), NEW ts
    PROVE  /\ ToRear(q, ts) \in Seq(S)
           /\ \A x : Has(ToRear(q, ts), x) <=> Has(q, x)
           /\ Once(q) => Once(ToRear(q, ts))
<1> DEFINE K == {i \in DOMAIN q : q[i] \notin ts}
           L == {i \in DOMAIN q : q[i] \in ts}
           p == Part(q, K)
           r == Part(q, L)
<1>1. K \in SUBSET (DOMAIN q) /\ L \in SUBSET (DOMAIN q)
  OBVIOUS
<1>2. /\ p \in Seq(S) /\ r \in Seq(S)
      /\ \A x : Has(p, x) <=> \E k \in K : q[k] = x
      /\ \A x : Has(r, x) <=> \E k \in L : q[k] = x
      /\ Once(q) => Once(p) /\ Once(r)
  BY <1>1, PartFacts
<1>3. \A x : ~(Has(p, x) /\ Has(r, x))
  BY <1>2
<1>4. \A x : Has(p, x) \/ Has(r, x) <=> Has(q, x)
  BY <1>2 DEF Has
<1>5. ToRear(q, ts) = p \o r
  BY DEF ToRear
<1> HIDE DEF K, L, p, r
<1> QED
  BY <1>2, <1>3, <1>4, <1>5, JoinFacts

-----------------------------------------------------------------------------
(* The invariant *)

Busy == {t \in Topic : InFlight(t)}
Taken == {t \in Topic : InFlight(t) \/ t \in lost}

\* What has a latest feed has a task, and the counter counts no fetch twice: it
\* is raised for topics in flight, and stays up at most for those lost.
MadeFirst == \A t \in Topic : task[t].latest => task[t].made
Counted == pending <= Cardinality(Taken)

Inv == /\ TypeOK /\ TaskInOnePlace /\ PendingCoversFlights /\ LatestIsShown
       /\ MadeFirst /\ Counted

LEMMA QueuedIsHas == \A t : Queued(t) <=> Has(queue, t)
BY DEF Queued, Has

LEMMA FiniteTopics ==
    ASSUME NEW T \in SUBSET Topic
    PROVE  /\ IsFiniteSet(T) /\ Cardinality(T) \in 0..Cardinality(Topic)
           /\ Cardinality(Topic) \in Nat
<1>1. IsFiniteSet(Topic)
  BY PollsterAssumption
<1>2. IsFiniteSet(T) /\ Cardinality(T) <= Cardinality(Topic)
  BY <1>1, FS_Subset
<1>3. Cardinality(T) \in Nat /\ Cardinality(Topic) \in Nat
  BY <1>1, <1>2, FS_CardinalityType
<1> QED
  BY <1>2, <1>3

\* The counter stays between the number of fetches and that of topics.
CounterInBounds == Cardinality(Busy) <= pending /\ Counted

LEMMA CounterIsTyped ==
    ASSUME pending \in Nat, Counted
    PROVE  pending \in 0..Cardinality(Topic)
<1>1. Taken \in SUBSET Topic
  BY DEF Taken
<1>2. /\ Cardinality(Taken) \in 0..Cardinality(Topic)
      /\ Cardinality(Topic) \in Nat
  BY <1>1, FiniteTopics
<1> QED
  BY <1>2 DEF Counted

\* Two sets of topics, one of which has a member less.
LEMMA OneMore ==
    ASSUME NEW S \in SUBSET Topic, NEW t \in Topic, t \notin S
    PROVE  Cardinality(S \cup {t}) = Cardinality(S) + 1
<1>1. IsFiniteSet(S)
  BY FiniteTopics
<1> QED
  BY <1>1, FS_AddElement

LEMMA OneLess ==
    ASSUME NEW S \in SUBSET Topic, NEW t \in S
    PROVE  Cardinality(S \ {t}) = Cardinality(S) - 1
<1>1. IsFiniteSet(S)
  BY FiniteTopics
<1> QED
  BY <1>1, FS_RemoveElement

LEMMA InitInv == Init => Inv
<1> SUFFICES ASSUME Init PROVE Inv
  OBVIOUS
<1> USE DEF Init
<1>1. Busy = {} /\ Taken = {}
  BY DEF Busy, Taken, InFlight
<1>2. Cardinality(Busy) = 0 /\ Cardinality(Taken) = 0
  BY <1>1, FS_EmptySet
<1>3. Counted
  BY <1>2 DEF Counted
<1>4. pending \in 0..Cardinality(Topic)
  BY <1>3, CounterIsTyped
<1>5. TypeOK
  BY <1>4, PollsterAssumption DEF TypeOK, Task, Flight
<1>6. TaskInOnePlace
  BY DEF TaskInOnePlace, Queued, InFlight
<1>7. PendingCoversFlights
  BY <1>2 DEF PendingCoversFlights, Busy
<1>8. LatestIsShown /\ MadeFirst
  BY DEF LatestIsShown, MadeFirst
<1> QED
  BY <1>3, <1>5, <1>6, <1>7, <1>8 DEF Inv

\* How the counter may move: with a topic that is sent for, with one that has
\* been answered, or not at all while nothing leaves a flight unlost.
LEMMA CounterKept ==
    ASSUME Inv, pending' = pending, Busy' \subseteq Busy, Taken \subseteq Taken',
           Taken' \subseteq Topic
    PROVE  /\ pending' \in 0..Cardinality(Topic) /\ Counted'
           /\ Cardinality(Busy)' <= pending'
<1>1. /\ Busy \in SUBSET Topic /\ Taken \in SUBSET Topic
      /\ Busy' \in SUBSET Topic /\ Taken' \in SUBSET Topic
  BY DEF Busy, Taken
<1>2. IsFiniteSet(Busy) /\ IsFiniteSet(Taken')
  BY <1>1, FiniteTopics
<1>3. Cardinality(Busy') <= Cardinality(Busy)
  BY <1>2, FS_Subset
<1>4. Cardinality(Taken) <= Cardinality(Taken')
  BY <1>2, FS_Subset
<1>5. pending \in 0..Cardinality(Topic) /\ Cardinality(Busy) <= pending /\ Counted
  BY DEF Inv, TypeOK, PendingCoversFlights, Busy
<1>6. /\ Cardinality(Busy) \in Nat /\ Cardinality(Busy') \in Nat
      /\ Cardinality(Taken) \in Nat /\ Cardinality(Taken') \in Nat
      /\ Cardinality(Topic) \in Nat
  BY <1>1, FiniteTopics
<1> QED
  BY <1>3, <1>4, <1>5, <1>6 DEF Counted

LEMMA CounterUp ==
    ASSUME Inv, pending' = pending + 1,
           NEW t \in Topic, t \notin Taken, Busy' = Busy \cup {t},
           Taken \cup {t} \subseteq Taken', Taken' \subseteq Topic
    PROVE  /\ pending' \in 0..Cardinality(Topic) /\ Counted'
           /\ Cardinality(Busy)' <= pending'
<1>1. /\ Busy \in SUBSET Topic /\ Taken \in SUBSET Topic /\ t \notin Busy
      /\ Taken' \in SUBSET Topic
  BY DEF Busy, Taken
<1>2. /\ Cardinality(Busy') = Cardinality(Busy) + 1
      /\ Cardinality(Taken \cup {t}) = Cardinality(Taken) + 1
  BY <1>1, OneMore
<1>3. IsFiniteSet(Taken')
  BY <1>1, FiniteTopics
<1>4. Cardinality(Taken \cup {t}) <= Cardinality(Taken')
  BY <1>3, FS_Subset
<1>5. pending \in 0..Cardinality(Topic) /\ Cardinality(Busy) <= pending /\ Counted
  BY DEF Inv, TypeOK, PendingCoversFlights, Busy
<1>6. /\ Cardinality(Busy) \in Nat
      /\ Cardinality(Taken) \in Nat
      /\ Cardinality(Taken') \in 0..Cardinality(Topic)
      /\ Cardinality(Topic) \in Nat
  BY <1>1, FiniteTopics
<1> QED
  BY <1>2, <1>4, <1>5, <1>6 DEF Counted

LEMMA CounterDown ==
    ASSUME Inv, pending' = pending - 1,
           NEW t \in Busy, Busy' = Busy \ {t}, Taken \ {t} \subseteq Taken',
           Taken' \subseteq Topic
    PROVE  /\ pending' \in 0..Cardinality(Topic) /\ Counted'
           /\ Cardinality(Busy)' <= pending'
<1>1. /\ Busy \in SUBSET Topic /\ Taken \in SUBSET Topic /\ t \in Taken
      /\ Taken' \in SUBSET Topic /\ Busy' \in SUBSET Topic
  BY DEF Busy, Taken
<1>2. /\ Cardinality(Busy') = Cardinality(Busy) - 1
      /\ Cardinality(Taken \ {t}) = Cardinality(Taken) - 1
  BY <1>1, OneLess
<1>3. IsFiniteSet(Taken')
  BY <1>1, FiniteTopics
<1>4. Cardinality(Taken \ {t}) <= Cardinality(Taken')
  BY <1>3, FS_Subset
<1>5. pending \in 0..Cardinality(Topic) /\ Cardinality(Busy) <= pending /\ Counted
  BY DEF Inv, TypeOK, PendingCoversFlights, Busy
<1>6. /\ Cardinality(Busy) \in Nat /\ Cardinality(Busy') \in Nat
      /\ Cardinality(Taken) \in Nat
      /\ Cardinality(Taken') \in Nat
      /\ Cardinality(Topic) \in Nat
  BY <1>1, FiniteTopics
<1> QED
  BY <1>2, <1>4, <1>5, <1>6 DEF Counted

-----------------------------------------------------------------------------
(* Each action keeps the invariant *)

\* The places of tasks, without their order in the queue.
Placed ==
    /\ Once(queue)
    /\ \A t \in Topic :
          /\ task[t].made <=> Has(queue, t) \/ t \in Taken
          /\ ~(Has(queue, t) /\ t \in Taken)
          /\ ~(t \in lost /\ t \in Busy)

LEMMA PlacedIsOnePlace == TaskInOnePlace <=> Placed
BY DEF TaskInOnePlace, Placed, Once, Has, Queued, Taken, Busy

\* What the rest of a step has to show, once the counter is in its bounds.
LEMMA StepInv ==
    ASSUME /\ subscribers' \in [Topic -> SUBSET Subscriber]
           /\ task' \in [Topic -> Task]
           /\ queue' \in Seq(Topic)
           /\ flight' \in [Topic -> Flight]
           /\ changes' \in 0..MaxChanges
           /\ lost' \subseteq Topic
           /\ shown' \in [Topic -> SUBSET Subscriber]
           /\ unseen' \subseteq Topic,
           /\ pending' \in 0..Cardinality(Topic) /\ Counted'
           /\ Cardinality(Busy)' <= pending',
           Placed',
           \A t \in Topic : flight'[t] = "attached" => subscribers'[t] # {},
           \A t \in Topic : task'[t].latest =>
              task'[t].made /\ (subscribers'[t] \subseteq shown'[t] \/ t \in unseen')
    PROVE  Inv'
<1>1. TypeOK'
  BY DEF TypeOK
<1>2. TaskInOnePlace'
  BY DEF TaskInOnePlace, Placed, Once, Has, Queued, Taken, Busy
<1>3. PendingCoversFlights'
  BY DEF PendingCoversFlights, Busy
<1>4. LatestIsShown' /\ MadeFirst'
  BY DEF LatestIsShown, MadeFirst
<1> QED
  BY <1>1, <1>2, <1>3, <1>4 DEF Inv

\* What the invariant says of a state, in one place.
LEMMA InvFacts ==
    ASSUME Inv
    PROVE  /\ subscribers \in [Topic -> SUBSET Subscriber]
           /\ task \in [Topic -> Task]
           /\ queue \in Seq(Topic)
           /\ flight \in [Topic -> Flight]
           /\ changes \in 0..MaxChanges
           /\ lost \subseteq Topic
           /\ shown \in [Topic -> SUBSET Subscriber]
           /\ unseen \subseteq Topic
           /\ Placed
           /\ \A t \in Topic : flight[t] = "attached" => subscribers[t] # {}
           /\ \A t \in Topic : task[t].latest =>
                 task[t].made /\ (subscribers[t] \subseteq shown[t] \/ t \in unseen)
<1>1. Placed
  BY PlacedIsOnePlace DEF Inv
<1>2. TypeOK /\ PendingCoversFlights /\ LatestIsShown /\ MadeFirst
  BY DEF Inv
<1> QED
  BY <1>1, <1>2 DEF TypeOK, PendingCoversFlights, LatestIsShown, MadeFirst

\* A fetch is sent for a topic that is in no flight.
LEMMA FetchMovesCounter ==
    ASSUME Inv, NEW t \in Topic, t \notin Taken, Fetch(t),
           lost \subseteq lost', lost' \subseteq Topic
    PROVE  /\ pending' \in 0..Cardinality(Topic) /\ Counted'
           /\ Cardinality(Busy)' <= pending'
           /\ flight' \in [Topic -> Flight]
           /\ Busy' = Busy \cup {t}
<1>1. flight \in [Topic -> Flight]
  BY InvFacts
<1>2. flight' = [flight EXCEPT ![t] = "attached"] /\ pending' = pending + 1
  BY DEF Fetch
<1>3. flight' \in [Topic -> Flight]
  BY <1>1, <1>2 DEF Flight
<1>4. Busy' = Busy \cup {t}
  BY <1>1, <1>2 DEF Busy, InFlight
<1>5. Taken \cup {t} \subseteq Taken' /\ Taken' \subseteq Topic
  BY <1>1, <1>2 DEF Taken, InFlight
<1> QED
  BY <1>2, <1>3, <1>4, <1>5, CounterUp

LEMMA SubscribeInv ==
    ASSUME Inv, NEW s \in Subscriber, NEW t \in Topic, Subscribe(s, t)
    PROVE  Inv'
<1> USE InvFacts
<1>1. /\ subscribers' = [subscribers EXCEPT ![t] = @ \cup {s}]
      /\ queue' = queue /\ changes' = changes /\ lost' = lost /\ unseen' = unseen
  BY DEF Subscribe, history
<1>2. subscribers' \in [Topic -> SUBSET Subscriber]
  BY <1>1
<1>3. CASE task[t].made
  <2>1. flight' = flight /\ pending' = pending
    BY <1>3 DEF Subscribe
  <2>2. Busy' = Busy /\ Taken' = Taken /\ Taken \subseteq Topic
    BY <1>1, <2>1 DEF Busy, Taken, InFlight
  <2>3. /\ pending' \in 0..Cardinality(Topic) /\ Counted'
        /\ Cardinality(Busy)' <= pending'
    BY <2>1, <2>2, CounterKept
  <2>4. \A u \in Topic : flight'[u] = "attached" => subscribers'[u] # {}
    BY <1>1, <2>1
  <2>5. CASE task[t].latest
    <3>1. shown' = [shown EXCEPT ![t] = @ \cup {s}] /\ task' = task
      BY <1>3, <2>5 DEF Subscribe
    <3>2. shown' \in [Topic -> SUBSET Subscriber]
      BY <3>1
    <3>3. Placed'
      BY <1>1, <2>2, <3>1 DEF Placed, Once, Has
    <3>4. \A u \in Topic : task'[u].latest =>
            task'[u].made /\ (subscribers'[u] \subseteq shown'[u] \/ u \in unseen')
      BY <1>1, <3>1
    <3> QED
      BY <1>1, <1>2, <2>1, <2>3, <2>4, <3>1, <3>2, <3>3, <3>4, StepInv
  <2>6. CASE ~task[t].latest
    <3>1. shown' = shown /\ task' = [task EXCEPT ![t].due = TRUE]
      BY <1>3, <2>6 DEF Subscribe
    <3>2. /\ task' \in [Topic -> Task]
          /\ \A u \in Topic : /\ task'[u].made = task[u].made
                               /\ task'[u].latest = task[u].latest
      BY <3>1 DEF Task
    <3>3. Placed'
      BY <1>1, <2>2, <3>2 DEF Placed, Once, Has
    <3>4. \A u \in Topic : task'[u].latest =>
            task'[u].made /\ (subscribers'[u] \subseteq shown'[u] \/ u \in unseen')
      BY <1>1, <2>6, <3>1, <3>2
    <3> QED
      BY <1>1, <1>2, <2>1, <2>3, <2>4, <3>1, <3>2, <3>3, <3>4, StepInv
  <2> QED
    BY <2>5, <2>6
<1>4. CASE ~task[t].made
  <2>1. task' = [task EXCEPT ![t].made = TRUE] /\ Fetch(t) /\ shown' = shown
    BY <1>4 DEF Subscribe, history
  <2>2. t \notin Taken /\ ~Has(queue, t) /\ ~task[t].latest
    BY <1>4 DEF Placed
  <2>3. /\ pending' \in 0..Cardinality(Topic) /\ Counted'
        /\ Cardinality(Busy)' <= pending'
        /\ flight' \in [Topic -> Flight]
        /\ Busy' = Busy \cup {t}
    BY <1>1, <2>1, <2>2, FetchMovesCounter
  <2>4. /\ task' \in [Topic -> Task]
        /\ task'[t].made /\ ~task'[t].latest
        /\ \A u \in Topic \ {t} : task'[u] = task[u]
    BY <2>1, <2>2 DEF Task
  <2>5. Taken' = Taken \cup {t}
    BY <1>1, <2>3 DEF Taken, Busy
  <2>6. Placed'
    <3>1. t \notin lost
      BY <2>2 DEF Taken
    <3> QED
      BY <1>1, <2>2, <2>3, <2>4, <2>5, <3>1 DEF Placed, Once, Has
  <2>7. \A u \in Topic : flight'[u] = "attached" => subscribers'[u] # {}
    BY <1>1, <2>1 DEF Fetch
  <2>8. \A u \in Topic : task'[u].latest =>
            task'[u].made /\ (subscribers'[u] \subseteq shown'[u] \/ u \in unseen')
    BY <1>1, <2>1, <2>4
  <2> QED
    BY <1>1, <1>2, <2>1, <2>3, <2>4, <2>6, <2>7, <2>8, StepInv
<1> QED
  BY <1>3, <1>4

LEMMA UnsubscribeInv ==
    ASSUME Inv, NEW s \in Subscriber, Unsubscribe(s)
    PROVE  Inv'
<1> USE InvFacts
<1>1. /\ subscribers' = [t \in Topic |-> subscribers[t] \ {s}]
      /\ flight' = [t \in Topic |->
                    IF flight[t] = "attached" /\ subscribers[t] = {s}
                    THEN "orphaned" ELSE flight[t]]
      /\ shown' = [t \in Topic |-> shown[t] \ {s}]
      /\ UNCHANGED <<task, queue, pending, changes, lost, unseen>>
  BY DEF Unsubscribe
<1>2. /\ subscribers' \in [Topic -> SUBSET Subscriber]
      /\ shown' \in [Topic -> SUBSET Subscriber]
  BY <1>1
<1>3. flight' \in [Topic -> Flight]
  BY <1>1 DEF Flight
<1>4. Busy' = Busy
  BY <1>1 DEF Busy, InFlight
<1>5. Taken' = Taken /\ Taken \subseteq Topic
  BY <1>1, <1>4 DEF Taken, Busy
<1>6. /\ pending' \in 0..Cardinality(Topic) /\ Counted'
      /\ Cardinality(Busy)' <= pending'
  BY <1>1, <1>4, <1>5, CounterKept
<1>7. Placed'
  BY <1>1, <1>4, <1>5 DEF Placed, Once, Has
<1>8. \A t \in Topic : flight'[t] = "attached" => subscribers'[t] # {}
  BY <1>1
<1>9. \A t \in Topic : task'[t].latest =>
        task'[t].made /\ (subscribers'[t] \subseteq shown'[t] \/ t \in unseen')
  BY <1>1
<1> QED
  BY <1>1, <1>2, <1>3, <1>6, <1>7, <1>8, <1>9, StepInv

\* A step that moves queued tasks about, or only changes when they are due.
LEMMA RetimedInv ==
    ASSUME Inv, UNCHANGED <<subscribers, flight, pending, history>>,
           changes' \in 0..MaxChanges,
           task' \in [Topic -> Task],
           \A t \in Topic : /\ task'[t].made = task[t].made
                            /\ task'[t].latest = task[t].latest,
           queue' \in Seq(Topic), Once(queue) => Once(queue'),
           \A t : Has(queue', t) <=> Has(queue, t)
    PROVE  Inv'
<1> USE InvFacts
<1>1. UNCHANGED <<subscribers, flight, pending, lost, shown, unseen>>
  BY DEF history
<1>2. Busy' = Busy /\ Taken' = Taken /\ Taken \subseteq Topic
  BY <1>1 DEF Busy, Taken, InFlight
<1>3. /\ pending' \in 0..Cardinality(Topic) /\ Counted'
      /\ Cardinality(Busy)' <= pending'
  BY <1>1, <1>2, CounterKept
<1>4. Placed'
  <2>1. Once(queue)' /\ \A t : Has(queue, t)' <=> Has(queue, t)
    BY DEF Placed
  <2> QED
    BY <1>1, <1>2, <2>1 DEF Placed
<1>5. \A t \in Topic : task'[t].latest =>
        task'[t].made /\ (subscribers'[t] \subseteq shown'[t] \/ t \in unseen')
  BY <1>1
<1> QED
  BY <1>1, <1>3, <1>4, <1>5, StepInv

LEMMA LocalChangeInv ==
    ASSUME Inv, NEW ts, LocalChange(ts)
    PROVE  Inv'
<1>1. /\ queue \in Seq(Topic) /\ task \in [Topic -> Task]
      /\ changes \in 0..MaxChanges
  BY InvFacts
<1>2. /\ changes < MaxChanges /\ changes' = changes + 1
      /\ queue' = ToRear(queue, ts)
      /\ UNCHANGED <<subscribers, flight, pending, history>>
      /\ task' = [t \in Topic |-> IF t \in ts /\ Queued(t)
                                THEN [task[t] EXCEPT !.due = TRUE]
                                ELSE task[t]]
  BY DEF LocalChange
<1>3. /\ queue' \in Seq(Topic)
      /\ Once(queue) => Once(queue')
      /\ \A t : Has(queue', t) <=> Has(queue, t)
  BY <1>1, <1>2, ToRearFacts
<1>4. /\ task' \in [Topic -> Task]
      /\ \A t \in Topic : /\ task'[t].made = task[t].made
                           /\ task'[t].latest = task[t].latest
  BY <1>1, <1>2 DEF Task
<1>5. changes' \in 0..MaxChanges
  BY <1>1, <1>2, PollsterAssumption
<1>6. UNCHANGED <<subscribers, flight, pending, history>>
  BY <1>2
<1> QED
  BY <1>3, <1>4, <1>5, <1>6, RetimedInv

LEMMA ElapseInv ==
    ASSUME Inv, NEW t \in Topic, Elapse(t)
    PROVE  Inv'
<1>1. /\ queue \in Seq(Topic) /\ task \in [Topic -> Task]
      /\ changes \in 0..MaxChanges
  BY InvFacts
<1>2. /\ task' = [task EXCEPT ![t].due = TRUE]
      /\ UNCHANGED <<subscribers, queue, flight, pending, changes, history>>
  BY DEF Elapse
<1>3. /\ task' \in [Topic -> Task]
      /\ \A u \in Topic : /\ task'[u].made = task[u].made
                           /\ task'[u].latest = task[u].latest
  BY <1>1, <1>2 DEF Task
<1> QED
  BY <1>1, <1>2, <1>3, RetimedInv

LEMMA StutterInv ==
    ASSUME Inv, UNCHANGED vars
    PROVE  Inv'
BY InvFacts, RetimedInv DEF vars, history, Has

-----------------------------------------------------------------------------
(* The timer *)

LastOf(K) == CHOOSE i \in K : \A j \in K : j <= i

\* A set of positions has a last one.
LEMMA LastFacts ==
    ASSUME NEW n \in Nat, NEW K \in SUBSET (1..n), K # {}
    PROVE  LastOf(K) \in K /\ \A j \in K : j <= LastOf(K)
<1> DEFINE U == {k \in Nat : \A j \in K : j <= k}
<1>1. n \in U /\ U \subseteq Nat
  OBVIOUS
<1>2. PICK m \in U : \A k \in U : m <= k
  <2> HIDE DEF U
  <2> QED
    BY <1>1, LeastOf
<1>3. m \in K
  <2>1. SUFFICES ASSUME m \notin K PROVE FALSE
    OBVIOUS
  <2>2. PICK j \in K : TRUE
    OBVIOUS
  <2>3. m # 0 /\ m \in Nat
    BY <1>2, <2>2
  <2>4. \A i \in K : i <= m - 1
    <3>1. \A i \in K : i \in Nat /\ i <= m /\ i # m
      BY <1>2, <2>1
    <3> QED
      BY <2>3, <3>1
  <2>5. m - 1 \in U
    BY <2>3, <2>4
  <2> QED
    BY <1>2, <2>3, <2>5
<1>4. \E i \in K : \A j \in K : j <= i
  BY <1>2, <1>3
<1> QED
  BY <1>4 DEF LastOf

\* The state after a tick, in terms of the positions that leave the queue.
LEMMA TickPlaces ==
    ASSUME Inv, NEW K \in SUBSET (DOMAIN queue), NEW D \in SUBSET K,
           queue' = Without(K), lost' = lost \cup {queue[i] : i \in D},
           UNCHANGED task,
           Busy' = Busy \cup {queue[i] : i \in K \ D}
    PROVE  /\ queue' \in Seq(Topic) /\ Placed'
           /\ lost' \subseteq Topic /\ lost \subseteq lost'
<1> USE InvFacts
<1> DEFINE L == DOMAIN queue \ K
<1>1. /\ queue' \in Seq(Topic)
      /\ \A x : Has(queue', x) <=> \E k \in L : queue[k] = x
      /\ Once(queue')
  <2>1. queue' = Part(queue, L) /\ L \in SUBSET (DOMAIN queue)
    BY DEF Without
  <2> HIDE DEF L
  <2> QED
    BY <2>1, PartFacts DEF Placed
<1>2. \A i \in DOMAIN queue : queue[i] \in Topic
  OBVIOUS
<1>3. lost' \subseteq Topic /\ lost \subseteq lost'
  BY <1>2
<1>4. Taken' = Taken \cup {queue[i] : i \in K}
  <2>1. Taken = Busy \cup lost /\ Taken' = Busy' \cup lost'
    BY <1>3 DEF Taken, Busy
  <2> QED
    BY <2>1
<1>5. \A i, j \in DOMAIN queue : queue[i] = queue[j] => i = j
  BY DEF Placed, Once
<1>6. ASSUME NEW t \in Topic
      PROVE  /\ task'[t].made <=> Has(queue', t) \/ t \in Taken'
             /\ ~(Has(queue', t) /\ t \in Taken')
             /\ ~(t \in lost' /\ t \in Busy')
  <2>1. /\ task[t].made <=> Has(queue, t) \/ t \in Taken
        /\ ~(Has(queue, t) /\ t \in Taken)
        /\ ~(t \in lost /\ t \in Busy)
    BY DEF Placed
  <2>2. Has(queue, t) <=> Has(queue', t) \/ \E i \in K : queue[i] = t
    BY <1>1 DEF Has
  <2>3. ~(Has(queue', t) /\ \E i \in K : queue[i] = t)
    BY <1>1, <1>5
  <2>4. task'[t].made <=> Has(queue', t) \/ t \in Taken'
    BY <1>4, <2>1, <2>2
  <2>5. ~(Has(queue', t) /\ t \in Taken')
    BY <1>4, <2>1, <2>2, <2>3
  <2>6. ~(t \in lost' /\ t \in Busy')
    <3>1. t \in lost \/ t \in Busy => t \in Taken
      BY DEF Taken, Busy
    <3>2. (\E i \in K : queue[i] = t) => t \notin Taken
      BY <2>1, <2>2
    <3>3. ~((\E i \in D : queue[i] = t) /\ \E i \in K \ D : queue[i] = t)
      BY <1>5
    <3> QED
      BY <2>1, <3>1, <3>2, <3>3
  <2> QED
    BY <2>4, <2>5, <2>6
<1>7. Placed'
  BY <1>1, <1>6 DEF Placed
<1> QED
  BY <1>1, <1>3, <1>7

LEMMA TickInv ==
    ASSUME Inv, Tick
    PROVE  Inv'
<1> USE InvFacts
<1> DEFINE last == IF Wanted = {} THEN 0 ELSE LastOf(Wanted)
           K == {i \in Due : i >= last}
           D == {i \in Due : i > last}
<1>1. /\ UNCHANGED <<subscribers, task, changes, shown, unseen>>
      /\ queue' = Without(K)
      /\ lost' = lost \cup {queue[i] : i \in D}
      /\ IF last = 0 THEN UNCHANGED <<flight, pending>> ELSE Fetch(queue[last])
  BY DEF Tick, LastOf
<1>2. /\ DOMAIN queue = 1..Len(queue) /\ Len(queue) \in Nat
      /\ Due \in SUBSET (DOMAIN queue) /\ Wanted \subseteq Due
      /\ \A i \in DOMAIN queue : queue[i] \in Topic
  BY DEF Due, Wanted
<1>3. /\ last \in Nat
      /\ last # 0 => last \in Wanted
  <2>1. CASE Wanted = {}
    BY <2>1
  <2>2. CASE Wanted # {}
    <3>1. LastOf(Wanted) \in Wanted
      BY <1>2, <2>2, LastFacts
    <3> QED
      BY <1>2, <2>2, <3>1
  <2> QED
    BY <2>1, <2>2
<1> HIDE DEF last
<1>4. K \in SUBSET (DOMAIN queue) /\ D \in SUBSET K
  BY <1>2, <1>3
<1>5. \A u \in Topic : task'[u].latest =>
        task'[u].made /\ (subscribers'[u] \subseteq shown'[u] \/ u \in unseen')
  BY <1>1
<1>6. CASE last = 0
  <2>1. flight' = flight /\ pending' = pending
    BY <1>1, <1>6
  <2>2. K = D
    BY <1>2, <1>6
  <2>3. Busy' = Busy
    BY <2>1 DEF Busy, InFlight
  <2>4. Busy' = Busy \cup {queue[i] : i \in K \ D}
    BY <2>2, <2>3
  <2> HIDE DEF K, D
  <2>5. /\ queue' \in Seq(Topic) /\ Placed'
        /\ lost' \subseteq Topic /\ lost \subseteq lost'
    BY <1>1, <1>4, <2>4, TickPlaces
  <2>6. Taken \subseteq Taken' /\ Taken' \subseteq Topic
    BY <2>1, <2>5 DEF Taken, InFlight
  <2>7. /\ pending' \in 0..Cardinality(Topic) /\ Counted'
        /\ Cardinality(Busy)' <= pending'
    BY <2>1, <2>3, <2>6, CounterKept
  <2> QED
    BY <1>1, <1>5, <2>1, <2>5, <2>7, StepInv
<1>7. CASE last # 0
  <2> DEFINE t == queue[last]
  <2>1. last \in DOMAIN queue /\ last \in Due /\ t \in Topic /\ subscribers[t] # {}
    BY <1>2, <1>3, <1>7 DEF Wanted
  <2>2. t \notin Taken
    BY <2>1 DEF Placed, Has
  <2>3. Fetch(t)
    BY <1>1, <1>7
  <2>4. K \ D = {last}
    BY <1>2, <1>3, <2>1
  <2>5. lost \subseteq lost' /\ lost' \subseteq Topic
    BY <1>1, <1>2, <1>4
  <2> HIDE DEF K, D, t
  <2>6. /\ pending' \in 0..Cardinality(Topic) /\ Counted'
        /\ Cardinality(Busy)' <= pending'
        /\ flight' \in [Topic -> Flight]
        /\ Busy' = Busy \cup {t}
    BY <2>1, <2>2, <2>3, <2>5, FetchMovesCounter
  <2>7. Busy' = Busy \cup {queue[i] : i \in K \ D}
    BY <2>4, <2>6 DEF t
  <2>8. queue' \in Seq(Topic) /\ Placed'
    BY <1>1, <1>4, <2>7, TickPlaces
  <2>9. \A u \in Topic : flight'[u] = "attached" => subscribers'[u] # {}
    BY <1>1, <2>1, <2>3 DEF Fetch
  <2> QED
    BY <1>1, <1>5, <2>5, <2>6, <2>8, <2>9, StepInv
<1> QED
  BY <1>6, <1>7

-----------------------------------------------------------------------------
(* Answers *)

\* An answered topic is in no flight any more.
LEMMA AnsweredLeavesFlight ==
    ASSUME Inv, NEW t \in Topic, InFlight(t),
           flight' = [flight EXCEPT ![t] = "none"]
    PROVE  /\ flight' \in [Topic -> Flight] /\ t \in Busy
           /\ Busy' = Busy \ {t}
           /\ \A u \in Topic : flight'[u] = "attached" => flight[u] = "attached"
<1>1. flight \in [Topic -> Flight]
  BY InvFacts
<1> QED
  BY <1>1 DEF Busy, InFlight, Flight

\* A task that is not queued again is lost, whether or not it was counted.
LEMMA LostInv ==
    ASSUME Inv, NEW t \in Topic, InFlight(t),
           flight' = [flight EXCEPT ![t] = "none"],
           lost' = lost \cup {t},
           UNCHANGED <<subscribers, task, queue, changes, shown, unseen>>,
           pending' = pending \/ pending' = pending - 1
    PROVE  Inv'
<1> USE InvFacts
<1>1. /\ flight' \in [Topic -> Flight] /\ t \in Busy
      /\ Busy' = Busy \ {t}
      /\ \A u \in Topic : flight'[u] = "attached" => flight[u] = "attached"
  BY AnsweredLeavesFlight
<1>2. Taken' = Taken /\ Taken \subseteq Topic
  <2>1. Taken = Busy \cup lost /\ Taken' = Busy' \cup lost'
    BY DEF Taken, Busy
  <2> QED
    BY <1>1, <2>1 DEF Taken
<1>3. /\ pending' \in 0..Cardinality(Topic) /\ Counted'
      /\ Cardinality(Busy)' <= pending'
  <2>1. CASE pending' = pending
    BY <1>1, <1>2, <2>1, CounterKept
  <2>2. CASE pending' = pending - 1
    BY <1>1, <1>2, <2>2, CounterDown
  <2> QED
    BY <2>1, <2>2
<1>4. Placed'
  BY <1>1, <1>2 DEF Placed, Once, Has
<1>5. \A u \in Topic : flight'[u] = "attached" => subscribers'[u] # {}
  BY <1>1
<1>6. \A u \in Topic : task'[u].latest =>
        task'[u].made /\ (subscribers'[u] \subseteq shown'[u] \/ u \in unseen')
  OBVIOUS
<1> QED
  BY <1>1, <1>3, <1>4, <1>5, <1>6, StepInv

\* Put before a queue, a topic that it does not have.
LEMMA FrontFacts ==
    ASSUME NEW S, NEW q \in Seq(S), NEW t \in S, ~Has(q, t)
    PROVE  /\ <<t>> \o q \in Seq(S)
           /\ \A x : Has(<<t>> \o q, x) <=> x = t \/ Has(q, x)
           /\ Once(q) => Once(<<t>> \o q)
<1>1. /\ <<t>> \in Seq(S) /\ Once(<<t>>)
      /\ \A x : Has(<<t>>, x) <=> x = t
  BY DEF Once, Has
<1> QED
  BY <1>1, JoinFacts

LEMMA ReceiveInv ==
    ASSUME Inv, NEW t \in Topic, InFlight(t), NEW hasEntries \in BOOLEAN,
           Receive(t, hasEntries),
           flight' = [flight EXCEPT ![t] = "none"],
           UNCHANGED <<subscribers, changes>>
    PROVE  Inv'
<1> USE InvFacts
<1> DEFINE notified == IF flight[t] = "attached" THEN subscribers[t] ELSE {}
<1>1. /\ shown' = [shown EXCEPT ![t] = IF hasEntries THEN notified
                                       ELSE @ \cup notified]
      /\ task' = [task EXCEPT ![t].latest = @ \/ hasEntries, ![t].due = FALSE]
      /\ queue' = InsertedTask(t)
      /\ pending' = pending - 1
      /\ unseen' = IF ~hasEntries THEN unseen
                   ELSE IF flight[t] = "orphaned" THEN unseen \cup {t}
                   ELSE unseen \ {t}
      /\ lost' = lost
  BY DEF Receive
<1>2. /\ flight' \in [Topic -> Flight] /\ t \in Busy
      /\ Busy' = Busy \ {t}
      /\ \A u \in Topic : flight'[u] = "attached" => flight[u] = "attached"
  BY AnsweredLeavesFlight
<1>3. t \in Taken /\ t \notin lost /\ ~Has(queue, t) /\ task[t].made
  BY <1>2 DEF Placed, Taken, Busy
<1>4. queue' = <<t>> \o queue
  BY <1>1, <1>3, QueuedIsHas DEF InsertedTask
<1>5. /\ queue' \in Seq(Topic) /\ Once(queue')
      /\ \A x : Has(queue', x) <=> x = t \/ Has(queue, x)
  BY <1>3, <1>4, FrontFacts DEF Placed
<1>6. Taken' = Taken \ {t} /\ Taken \subseteq Topic
  <2>1. Taken = Busy \cup lost /\ Taken' = Busy' \cup lost'
    BY <1>1 DEF Taken, Busy
  <2> QED
    BY <1>1, <1>2, <1>3, <2>1 DEF Taken
<1>7. /\ pending' \in 0..Cardinality(Topic) /\ Counted'
      /\ Cardinality(Busy)' <= pending'
  BY <1>1, <1>2, <1>6, CounterDown
<1>8. /\ task' \in [Topic -> Task]
      /\ \A u \in Topic : task'[u].made = task[u].made
      /\ task'[t].latest <=> task[t].latest \/ hasEntries
      /\ \A u \in Topic \ {t} : task'[u] = task[u]
  BY <1>1 DEF Task
<1>9. shown' \in [Topic -> SUBSET Subscriber] /\ unseen' \subseteq Topic
  BY <1>1
<1>10. Placed'
  <2>1. ASSUME NEW u \in Topic
        PROVE  /\ task'[u].made <=> Has(queue', u) \/ u \in Taken'
               /\ ~(Has(queue', u) /\ u \in Taken')
               /\ ~(u \in lost' /\ u \in Busy')
    <3>1. /\ task[u].made <=> Has(queue, u) \/ u \in Taken
          /\ ~(Has(queue, u) /\ u \in Taken)
          /\ ~(u \in lost /\ u \in Busy)
      BY DEF Placed
    <3> QED
      BY <1>1, <1>2, <1>3, <1>5, <1>6, <1>8, <3>1
  <2> QED
    BY <1>5, <2>1 DEF Placed
<1>11. \A u \in Topic : flight'[u] = "attached" => subscribers'[u] # {}
  BY <1>2
<1>12. ASSUME NEW u \in Topic, task'[u].latest
       PROVE  task'[u].made /\ (subscribers'[u] \subseteq shown'[u] \/ u \in unseen')
  <2>1. CASE u # t
    BY <1>1, <1>8, <1>12, <2>1
  <2>2. CASE u = t /\ ~hasEntries
    BY <1>1, <1>3, <1>8, <1>12, <2>2
  <2>3. CASE u = t /\ hasEntries
    <3>1. flight[t] = "attached" \/ flight[t] = "orphaned"
      BY DEF InFlight, Flight
    <3> QED
      BY <1>1, <1>3, <1>8, <2>3, <3>1
  <2> QED
    BY <2>1, <2>2, <2>3
<1> QED
  BY <1>1, <1>2, <1>5, <1>7, <1>8, <1>9, <1>10, <1>11, <1>12, StepInv

LEMMA RespondInv ==
    ASSUME Inv, NEW t \in Topic, Respond(t)
    PROVE  Inv'
<1>1. /\ InFlight(t) /\ flight' = [flight EXCEPT ![t] = "none"]
      /\ UNCHANGED <<subscribers, changes>>
  BY DEF Respond
<1>2. PICK r \in Responses :
          \/ r \in {"entries", "empty"} /\ Receive(t, r = "entries")
          \/ r = "error" /\ ReceiveNothing(t)
          \/ r = "feedless" /\ NoCallback(t)
  BY DEF Respond
<1>3. CASE Receive(t, r = "entries")
  BY <1>1, <1>3, ReceiveInv
<1>4. CASE ReceiveNothing(t)
  BY <1>1, <1>4, LostInv DEF ReceiveNothing
<1>5. CASE NoCallback(t)
  BY <1>1, <1>5, LostInv DEF NoCallback
<1> QED
  BY <1>2, <1>3, <1>4, <1>5

-----------------------------------------------------------------------------
(* The theorems *)

LEMMA NextInv == Inv /\ [Next]_vars => Inv'
<1> SUFFICES ASSUME Inv, [Next]_vars PROVE Inv'
  OBVIOUS
<1>1. ASSUME NEW s \in Subscriber, NEW t \in Topic, Subscribe(s, t) PROVE Inv'
  BY <1>1, SubscribeInv
<1>2. ASSUME NEW s \in Subscriber, Unsubscribe(s) PROVE Inv'
  BY <1>2, UnsubscribeInv
<1>3. ASSUME NEW t \in Topic, Elapse(t) PROVE Inv'
  BY <1>3, ElapseInv
<1>4. ASSUME NEW t \in Topic, Respond(t) PROVE Inv'
  BY <1>4, RespondInv
<1>5. CASE Tick
  BY <1>5, TickInv
<1>6. ASSUME NEW ts \in Changes, LocalChange(ts) PROVE Inv'
  BY <1>6, LocalChangeInv
<1>7. CASE UNCHANGED vars
  BY <1>7, StutterInv
<1> QED
  BY <1>1, <1>2, <1>3, <1>4, <1>5, <1>6, <1>7 DEF Next, Work

LEMMA SpecInv == Spec => []Inv
BY InitInv, NextInv, PTL DEF Spec

\* Every variable keeps its type; the counter of fetches that are under way
\* never exceeds the number of topics, nor falls below none (pollster.js:25-49).
THEOREM TypeCorrect == Spec => []TypeOK
<1>1. Inv => TypeOK
  BY DEF Inv
<1> QED
  BY <1>1, SpecInv, PTL

\* No topic is queued twice, nor fetched while it is queued or being fetched,
\* whatever subscribers, ticks, local changes and answers do
\* (pollster.js:68-91, :240-263, :287-302, :316-337).
THEOREM TaskInOnePlaceHolds == Spec => []TaskInOnePlace
<1>1. Inv => TaskInOnePlace
  BY DEF Inv
<1> QED
  BY <1>1, SpecInv, PTL

\* No fetch escapes the counter (pollster.js:108-127, :159, :233).
THEOREM PendingCoversFlightsHolds == Spec => []PendingCoversFlights
<1>1. Inv => PendingCoversFlights
  BY DEF Inv
<1> QED
  BY <1>1, SpecInv, PTL

\* Whoever subscribes has seen the latest feed of the topic, unless that came
\* when all had left (pollster.js:68-75, :133, :172-174).
THEOREM LatestIsShownHolds == Spec => []LatestIsShown
<1>1. Inv => LatestIsShown
  BY DEF Inv
<1> QED
  BY <1>1, SpecInv, PTL

-----------------------------------------------------------------------------
(* Behind the queue of model.notify *)

\* The queue after all ids is that after one id, and then the next, and so on.
LEMMA AfterAllUnfolds ==
    ASSUME NEW ids, Len(ids) \in Nat
    PROVE  \E h : /\ AfterAll(ids) = h[Len(ids)]
                  /\ h[0] = queue
                  /\ \A n \in 1..Len(ids) : h[n] = ToRear(h[n - 1], ids[n])
<1> DEFINE step(g, n) == IF n = 0 THEN queue ELSE ToRear(g[n - 1], ids[n])
           Steps(m) == \E g : g = [n \in 0..m |-> step(g, n)]
           T == {m \in Nat : ~Steps(m)}
<1>1. T = {}
  <2> SUFFICES ASSUME T # {} PROVE FALSE
    OBVIOUS
  <2>1. PICK m \in T : \A k \in T : m <= k
    <3> HIDE DEF T
    <3>1. T \subseteq Nat
      BY DEF T
    <3> QED
      BY <3>1, LeastOf
  <2>2. CASE m = 0
    <3> DEFINE g == [n \in 0..0 |-> queue]
    <3>1. g = [n \in 0..0 |-> step(g, n)]
      OBVIOUS
    <3> QED
      BY <2>1, <2>2, <3>1
  <2>3. CASE m # 0
    <3>1. m \in Nat /\ m - 1 \in Nat /\ m - 1 \notin T
      BY <2>1, <2>3
    <3>2. PICK g : g = [n \in 0..(m - 1) |-> step(g, n)]
      BY <3>1
    <3> DEFINE f == [n \in 0..m |-> IF n = m THEN ToRear(g[m - 1], ids[m]) ELSE g[n]]
    <3>3. ASSUME NEW n \in 0..m PROVE f[n] = step(f, n)
      <4>1. CASE n = m
        <5>1. m - 1 \in 0..m /\ m - 1 # m
          BY <3>1
        <5>2. f[m - 1] = g[m - 1]
          BY <5>1
        <5>3. f[n] = ToRear(g[m - 1], ids[m])
          BY <4>1
        <5> HIDE DEF f
        <5> QED
          BY <2>3, <4>1, <5>2, <5>3
      <4>2. CASE n # m
        <5>1. n \in 0..(m - 1)
          BY <3>1, <4>2
        <5>2. g[n] = step(g, n)
          BY <3>2, <5>1
        <5>3. f[n] = g[n]
          BY <4>2
        <5>4. CASE n = 0
          <6> HIDE DEF f
          <6> QED
            BY <5>2, <5>3, <5>4
        <5>5. CASE n # 0
          <6>1. n - 1 \in 0..m /\ n - 1 # m
            BY <3>1, <5>1, <5>5
          <6>2. f[n - 1] = g[n - 1]
            BY <6>1
          <6> HIDE DEF f
          <6> QED
            BY <5>2, <5>3, <5>5, <6>2
        <5> QED
          BY <5>4, <5>5
      <4> QED
        BY <4>1, <4>2
    <3>4. f = [n \in 0..m |-> f[n]]
      OBVIOUS
    <3> HIDE DEF f
    <3>5. f = [n \in 0..m |-> step(f, n)]
      BY <3>3, <3>4
    <3> QED
      BY <2>1, <3>5
  <2> QED
    BY <2>2, <2>3
<1> DEFINE h == CHOOSE g : g = [n \in 0..Len(ids) |-> step(g, n)]
<1>2. h = [n \in 0..Len(ids) |-> step(h, n)]
  BY <1>1
<1>3. AfterAll(ids) = h[Len(ids)]
  BY DEF AfterAll
<1> HIDE DEF h
<1>4. h[0] = queue /\ \A n \in 1..Len(ids) : h[n] = ToRear(h[n - 1], ids[n])
  <2>1. \A n \in 0..Len(ids) : h[n] = step(h, n)
    BY <1>2
  <2>2. 0 \in 0..Len(ids) /\ \A n \in 1..Len(ids) : n \in 0..Len(ids) /\ n # 0
    OBVIOUS
  <2> QED
    BY <2>1, <2>2
<1> QED
  BY <1>3, <1>4

\* Ids move tasks about in the queue, and neither add nor remove any.
LEMMA AfterAllFacts ==
    ASSUME queue \in Seq(Topic), NEW ids, Len(ids) \in Nat
    PROVE  /\ AfterAll(ids) \in Seq(Topic)
           /\ \A x : Has(AfterAll(ids), x) <=> Has(queue, x)
           /\ Once(queue) => Once(AfterAll(ids))
<1>1. PICK h : /\ AfterAll(ids) = h[Len(ids)]
               /\ h[0] = queue
               /\ \A n \in 1..Len(ids) : h[n] = ToRear(h[n - 1], ids[n])
  BY AfterAllUnfolds
<1> DEFINE Same(n) == /\ h[n] \in Seq(Topic)
                      /\ \A x : Has(h[n], x) <=> Has(queue, x)
                      /\ Once(queue) => Once(h[n])
           T == {n \in 0..Len(ids) : ~Same(n)}
<1>2. T = {}
  <2> SUFFICES ASSUME T # {} PROVE FALSE
    OBVIOUS
  <2>1. PICK m \in T : \A k \in T : m <= k
    <3> HIDE DEF T
    <3>1. T \subseteq Nat
      BY DEF T
    <3> QED
      BY <3>1, LeastOf
  <2>2. m # 0
    <3>1. Same(0)
      BY <1>1
    <3> QED
      BY <2>1, <3>1
  <2>3. m \in 1..Len(ids) /\ m - 1 \in 0..Len(ids) /\ m - 1 \notin T
    BY <2>1, <2>2
  <2>4. Same(m - 1) /\ h[m] = ToRear(h[m - 1], ids[m])
    BY <1>1, <2>3
  <2>5. Same(m)
    BY <2>4, ToRearFacts
  <2> QED
    BY <2>1, <2>5
<1>3. Len(ids) \in 0..Len(ids)
  OBVIOUS
<1>4. Same(Len(ids))
  BY <1>2, <1>3
<1> QED
  BY <1>1, <1>4

\* What the loop gets through is the whole queue, or what is before the null.
LEMMA PassedIsSeq ==
    ASSUME NotifyTypeOK
    PROVE  Len(Passed) \in Nat
<1> DEFINE S == Changes \cup {NewAccount}
           k == CHOOSE i \in DOMAIN notifyQueue : notifyQueue[i] = NewAccount
<1>1. notifyQueue \in Seq(S)
  BY DEF NotifyTypeOK
<1>2. CASE queue # <<>> /\ Contains(notifyQueue, NewAccount)
  <2>1. k \in DOMAIN notifyQueue
    <3>1. \E i \in DOMAIN notifyQueue : notifyQueue[i] = NewAccount
      BY <1>1, <1>2 DEF Contains
    <3> QED
      BY <3>1
  <2>2. Passed = SubSeq(notifyQueue, 1, k - 1)
    BY <1>2 DEF Passed
  <2> HIDE DEF k, S
  <2>3. k \in 1..Len(notifyQueue)
    BY <1>1, <2>1
  <2>4. SubSeq(notifyQueue, 1, k - 1) \in Seq(S)
    BY <1>1, <2>3
  <2> QED
    BY <2>2, <2>4
<1>3. CASE ~(queue # <<>> /\ Contains(notifyQueue, NewAccount))
  BY <1>1, <1>3 DEF Passed
<1> QED
  BY <1>2, <1>3

LEMMA HearInv ==
    ASSUME Inv, NotifyTypeOK, Hear
    PROVE  Inv'
<1>1. /\ queue \in Seq(Topic) /\ task \in [Topic -> Task]
      /\ changes \in 0..MaxChanges
  BY InvFacts
<1>2. /\ queue' = AfterAll(Passed)
      /\ UNCHANGED <<subscribers, flight, pending, changes, history>>
      /\ task' = [t \in Topic |-> IF Queued(t) /\ \E c \in ToSet(Passed) : t \in c
                                  THEN [task[t] EXCEPT !.due = TRUE]
                                  ELSE task[t]]
  BY DEF Hear
<1>3. /\ queue' \in Seq(Topic)
      /\ Once(queue) => Once(queue')
      /\ \A t : Has(queue', t) <=> Has(queue, t)
  BY <1>1, <1>2, PassedIsSeq, AfterAllFacts
<1>4. /\ task' \in [Topic -> Task]
      /\ \A t \in Topic : /\ task'[t].made = task[t].made
                           /\ task'[t].latest = task[t].latest
  BY <1>1, <1>2 DEF Task
<1>5. changes' \in 0..MaxChanges /\ UNCHANGED <<subscribers, flight, pending, history>>
  BY <1>1, <1>2
<1> QED
  BY <1>3, <1>4, <1>5, RetimedInv

NotifyInv == Inv /\ NotifyTypeOK /\ ChangesKept

LEMMA EmptyIsSeq == \A S : <<>> \in Seq(S)
OBVIOUS

LEMMA NotifyInitInv == NotifyInit => NotifyInv
<1> SUFFICES ASSUME NotifyInit PROVE NotifyInv
  OBVIOUS
<1>1. Inv
  BY InitInv DEF NotifyInit
<1>2. NotifyTypeOK
  <2>1. notifyQueue = <<>> /\ notifyTimer = FALSE /\ unheard = {}
    BY DEF NotifyInit
  <2>2. notifyQueue \in Seq(Changes \cup {NewAccount})
    BY <2>1, EmptyIsSeq
  <2> QED
    BY <2>1, <2>2, Zenon DEF NotifyTypeOK
<1>3. ChangesKept
  <2>1. unheard = {} /\ notifyQueue = <<>>
    BY DEF NotifyInit
  <2> QED
    BY <2>1 DEF ChangesKept
<1> QED
  BY <1>1, <1>2, <1>3 DEF NotifyInv

LEMMA NotifyKeeps ==
    ASSUME NotifyInv, NEW c \in Changes \cup {NewAccount}, Notify(c)
    PROVE  NotifyInv'
<1> DEFINE S == Changes \cup {NewAccount}
<1>1. Inv /\ NotifyTypeOK /\ ChangesKept
  BY DEF NotifyInv
<1>2. /\ changes < MaxChanges /\ changes' = changes + 1
      /\ UNCHANGED <<subscribers, task, queue, flight, pending, history>>
      /\ unheard' = unheard \cup ({c} \ {NewAccount})
  BY DEF Notify
<1>3. Inv'
  <2>1. /\ queue \in Seq(Topic) /\ task \in [Topic -> Task]
        /\ changes \in 0..MaxChanges
    BY <1>1, InvFacts
  <2>2. changes' \in 0..MaxChanges
    BY <1>2, <2>1, PollsterAssumption
  <2>3. UNCHANGED <<subscribers, flight, pending, history>>
    BY <1>2
  <2> QED
    BY <1>1, <1>2, <2>1, <2>2, <2>3, RetimedInv
<1>4. unheard' \subseteq Changes
  BY <1>1, <1>2 DEF NotifyTypeOK
<1>5. CASE Contains(notifyQueue, c)
  <2>1. UNCHANGED <<notifyQueue, notifyTimer>>
    BY <1>5 DEF Notify
  <2>2. c \in ToSet(notifyQueue)
    BY <1>1, <1>5 DEF Contains, ToSet, NotifyTypeOK
  <2> QED
    BY <1>1, <1>2, <1>3, <1>4, <2>1, <2>2 DEF NotifyInv, NotifyTypeOK, ChangesKept, Contains
<1>6. CASE ~Contains(notifyQueue, c)
  <2>1. notifyQueue' = Append(notifyQueue, c) /\ notifyTimer' = TRUE
    BY <1>6 DEF Notify
  <2>2. notifyQueue \in Seq(S)
    BY <1>1 DEF NotifyTypeOK
  <2>3. /\ notifyQueue' \in Seq(S)
        /\ Len(notifyQueue') = Len(notifyQueue) + 1
        /\ \A i \in 1..Len(notifyQueue) : notifyQueue'[i] = notifyQueue[i]
        /\ notifyQueue'[Len(notifyQueue) + 1] = c
    BY <2>1, <2>2
  <2>4. /\ DOMAIN notifyQueue = 1..Len(notifyQueue) /\ Len(notifyQueue) \in Nat
        /\ DOMAIN notifyQueue' = 1..(Len(notifyQueue) + 1)
    BY <2>2, <2>3
  <2>5. ToSet(notifyQueue) \cup {c} \subseteq ToSet(notifyQueue')
    BY <2>3, <2>4 DEF ToSet
  <2>6. ChangesKept'
    BY <1>1, <1>2, <2>1, <2>5 DEF ChangesKept
  <2>7. NotifyTypeOK'
    BY <1>4, <2>1, <2>3 DEF NotifyTypeOK
  <2> QED
    BY <1>3, <2>6, <2>7 DEF NotifyInv
<1> QED
  BY <1>5, <1>6

LEMMA DeliverKeeps ==
    ASSUME NotifyInv, Deliver
    PROVE  NotifyInv'
<1>1. Inv /\ NotifyTypeOK /\ ChangesKept
  BY DEF NotifyInv
<1>2. /\ notifyTimer' = FALSE /\ unheard' = unheard \ ToSet(Passed)
      /\ Hear
  BY DEF Deliver, Hear
<1>3. Inv'
  BY <1>1, <1>2, HearInv
<1>4. CASE queue # <<>> /\ Contains(notifyQueue, NewAccount)
  <2>1. notifyQueue' = notifyQueue
    BY <1>4 DEF Deliver
  <2> QED
    BY <1>1, <1>2, <1>3, <1>4, <2>1 DEF NotifyInv, NotifyTypeOK, ChangesKept, Contains
<1>5. CASE ~(queue # <<>> /\ Contains(notifyQueue, NewAccount))
  <2>1. notifyQueue' = <<>> /\ Passed = notifyQueue
    BY <1>5 DEF Deliver, Passed
  <2>2. unheard' = {}
    BY <1>1, <1>2, <2>1 DEF ChangesKept
  <2>3. NotifyTypeOK'
    <3>1. notifyQueue' \in Seq(Changes \cup {NewAccount})
      BY <2>1, EmptyIsSeq
    <3> QED
      BY <1>2, <2>2, <3>1, Zenon DEF NotifyTypeOK
  <2>4. ChangesKept'
    BY <2>1, <2>2 DEF ChangesKept
  <2> QED
    BY <1>3, <2>3, <2>4 DEF NotifyInv
<1> QED
  BY <1>4, <1>5

LEMMA NotifyNextInv == NotifyInv /\ [NotifyNext]_allVars => NotifyInv'
<1> SUFFICES ASSUME NotifyInv, [NotifyNext]_allVars PROVE NotifyInv'
  OBVIOUS
<1>1. CASE Work /\ UNCHANGED notices
  <2>1. Inv'
    BY <1>1, NextInv DEF NotifyInv, Next
  <2> QED
    BY <1>1, <2>1 DEF NotifyInv, notices, NotifyTypeOK, ChangesKept
<1>2. ASSUME NEW c \in Changes \cup {NewAccount}, Notify(c) PROVE NotifyInv'
  BY <1>2, NotifyKeeps
<1>3. CASE Deliver
  BY <1>3, DeliverKeeps
<1>4. CASE UNCHANGED allVars
  <2>1. UNCHANGED vars /\ UNCHANGED notices
    BY <1>4 DEF allVars
  <2>2. Inv'
    BY <2>1, StutterInv DEF NotifyInv
  <2> QED
    BY <2>1, <2>2 DEF NotifyInv, notices, NotifyTypeOK, ChangesKept
<1> QED
  BY <1>1, <1>2, <1>3, <1>4 DEF NotifyNext

LEMMA NotifySpecInv == NotifySpec => []NotifyInv
BY NotifyInitInv, NotifyNextInv, PTL DEF NotifySpec

\* Behind the queue and the timer of model.notify, too, every variable keeps its
\* type and the pollster its promises (model.js:82-102, pollster.js:316-337).
THEOREM PollsterBehindQueue ==
    NotifySpec => [](/\ TypeOK /\ NotifyTypeOK /\ TaskInOnePlace
                     /\ PendingCoversFlights /\ LatestIsShown)
<1>1. NotifyInv => /\ TypeOK /\ NotifyTypeOK /\ TaskInOnePlace
                   /\ PendingCoversFlights /\ LatestIsShown
  BY DEF NotifyInv, Inv
<1> QED
  BY <1>1, NotifySpecInv, PTL

\* What the pollster has yet to hear of is queued, and the timer is set unless
\* the listener has thrown at a null (model.js:82-102).
THEOREM ChangesKeptHolds == NotifySpec => []ChangesKept
<1>1. NotifyInv => ChangesKept
  BY DEF NotifyInv
<1> QED
  BY <1>1, NotifySpecInv, PTL

=============================================================================
