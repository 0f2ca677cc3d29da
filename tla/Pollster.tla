------------------------------ MODULE Pollster ------------------------------
(***************************************************************************)
(* pollster.js: one task per topic (a feed query) fetches the feed again    *)
(* and again for the renderers that subscribe to it.  A task waits in the   *)
(* queue until it is due, leaves it for a fetch, and comes back when the    *)
(* fetch is answered.                                                       *)
(*                                                                          *)
(* JavaScript runs one event handler at a time: each action is a handler, a *)
(* call of the page, a tick of the timer or a callback of a fetch, whole.   *)
(* What interleaves are the fetches.  Time is abstract: a task that is not  *)
(* due becomes due some time later (Elapse).                                *)
(***************************************************************************)
EXTENDS Naturals, Sequences, SequencesExt, FiniteSets

CONSTANTS
    Topic,              \* queries, as strings
    Subscriber,         \* renderers
    Changes,            \* the sets of topics that local changes concern
    Limit,              \* fetches that the timer lets run at once, 5
    Responses,          \* what may answer a fetch: see Respond
    MayUnsubscribe,     \* may renderers be reset?
    MaxChanges          \* bound on the local changes

ASSUME PollsterAssumption ==
    /\ IsFiniteSet(Topic)
    /\ Changes \subseteq SUBSET Topic
    /\ Limit \in Nat \ {0} /\ MaxChanges \in Nat
    /\ Responses \subseteq {"entries", "empty", "error", "feedless"}
    /\ MayUnsubscribe \in BOOLEAN

VARIABLES
    subscribers,    \* topic -> subscribers (topicToSubscribers)
    task,           \* topic -> its task: [made, latest, due] (topicToTask)
    queue,          \* topics whose tasks are queued; polled from the rear
    flight,         \* topic -> its fetch: does it still hold the subscribers?
    pending,        \* concurrentFetchCount
    changes,        \* number of local changes so far
    lost,           \* history: topics whose task nothing holds any more
    shown,          \* history: topic -> subscribers that saw its latest feed
    unseen          \* history: topics whose latest feed went to an old list

history == <<lost, shown, unseen>>
vars == <<subscribers, task, queue, flight, pending, changes, history>>

\* `latest`: there is a latestFeed; `due`: noFetchBefore has passed.
Task == [made : BOOLEAN, latest : BOOLEAN, due : BOOLEAN]

\* A fetch keeps the list of subscribers it started with: the same object as
\* the topic's until the last one leaves, which deletes the topic's.
Flight == {"none", "attached", "orphaned"}

InFlight(t) == flight[t] # "none"
Queued(t) == \E i \in DOMAIN queue : queue[i] = t

Init ==
    /\ subscribers = [t \in Topic |-> {}]
    /\ task = [t \in Topic |-> [made |-> FALSE, latest |-> FALSE, due |-> TRUE]]
    /\ queue = <<>>
    /\ flight = [t \in Topic |-> "none"]
    /\ pending = 0
    /\ changes = 0
    /\ lost = {}
    /\ shown = [t \in Topic |-> {}]
    /\ unseen = {}

\* The part of a queue at the positions K, in its order.
InOrder(K) == CHOOSE e \in [1..Cardinality(K) -> K] :
                 \A i, j \in DOMAIN e : i < j => e[i] < e[j]
Part(q, K) == LET e == InOrder(K) IN [i \in 1..Cardinality(K) |-> q[e[i]]]

\* The part of doTask up to the return: the fetch is sent.
Fetch(t) ==
    /\ flight' = [flight EXCEPT ![t] = "attached"]
    /\ pending' = pending + 1

-----------------------------------------------------------------------------
(* Calls of the page *)

\* Faulty variant: the latest feed is not passed on.
SubscribeSilently(s, t) ==
    /\ s \notin subscribers[t]
    /\ subscribers' = [subscribers EXCEPT ![t] = @ \cup {s}]
    /\ IF task[t].made
       THEN /\ task' = [task EXCEPT ![t].due = @ \/ ~task[t].latest]
            /\ UNCHANGED <<flight, pending, history>>
       ELSE /\ task' = [task EXCEPT ![t].made = TRUE]
            /\ Fetch(t)
            /\ UNCHANGED history
    /\ UNCHANGED <<queue, changes>>

\* Faulty variant: a queued topic without results is fetched at once, again.
SubscribeRefetches(s, t) ==
    /\ s \notin subscribers[t]
    /\ subscribers' = [subscribers EXCEPT ![t] = @ \cup {s}]
    /\ task' = [task EXCEPT ![t].made = TRUE]
    /\ IF task[t].made /\ (task[t].latest \/ ~Queued(t))
       THEN /\ shown' = [shown EXCEPT ![t] = @ \cup {s}]
            /\ UNCHANGED <<flight, pending, lost, unseen>>
       ELSE Fetch(t) /\ UNCHANGED history
    /\ UNCHANGED <<queue, changes>>

\* A known topic shows its latest feed, or is marked for a fetch; a new one is
\* fetched at once, whatever the number of pending fetches.
Subscribe(s, t) ==
    /\ s \notin subscribers[t]
    /\ subscribers' = [subscribers EXCEPT ![t] = @ \cup {s}]
    /\ IF task[t].made
       THEN /\ IF task[t].latest
               THEN /\ shown' = [shown EXCEPT ![t] = @ \cup {s}]
                    /\ UNCHANGED task
               ELSE /\ task' = [task EXCEPT ![t].due = TRUE]
                    /\ UNCHANGED shown
            /\ UNCHANGED <<flight, pending, lost, unseen>>
       ELSE /\ task' = [task EXCEPT ![t].made = TRUE]
            /\ Fetch(t)
            /\ UNCHANGED history
    /\ UNCHANGED <<queue, changes>>

\* The renderer leaves all its topics.  Tasks stay where they are.
Unsubscribe(s) ==
    /\ MayUnsubscribe
    /\ \E t \in Topic : s \in subscribers[t]
    /\ subscribers' = [t \in Topic |-> subscribers[t] \ {s}]
    /\ flight' = [t \in Topic |->
                    IF flight[t] = "attached" /\ subscribers[t] = {s}
                    THEN "orphaned" ELSE flight[t]]
    /\ shown' = [t \in Topic |-> shown[t] \ {s}]
    /\ UNCHANGED <<task, queue, pending, changes, lost, unseen>>

\* The user has posted: queued tasks of the feed go to the rear and are due.
ToRear(q, ts) == Part(q, {i \in DOMAIN q : q[i] \notin ts})
                   \o Part(q, {i \in DOMAIN q : q[i] \in ts})

LocalChange(ts) ==
    /\ changes < MaxChanges
    /\ changes' = changes + 1
    /\ queue' = ToRear(queue, ts)
    /\ task' = [t \in Topic |-> IF t \in ts /\ Queued(t)
                                THEN [task[t] EXCEPT !.due = TRUE]
                                ELSE task[t]]
    /\ UNCHANGED <<subscribers, flight, pending, history>>

-----------------------------------------------------------------------------
(* The timer *)

Elapse(t) ==
    /\ Queued(t)
    /\ ~task[t].due
    /\ task' = [task EXCEPT ![t].due = TRUE]
    /\ UNCHANGED <<subscribers, queue, flight, pending, changes, history>>

\* Positions of the tasks that are due, and of those that will be fetched.
Due == {i \in DOMAIN queue : task[queue[i]].due}
Wanted == {i \in Due : subscribers[queue[i]] # {}}

Without(positions) == Part(queue, DOMAIN queue \ positions)

\* Faulty variant: the fetch is not counted.
TickUncounted ==
    /\ pending < Limit
    /\ Due # {}
    /\ LET last == IF Wanted = {} THEN 0 ELSE CHOOSE i \in Wanted :
                                                \A j \in Wanted : j <= i
           dropped == {i \in Due : i > last}
       IN /\ queue' = Without({i \in Due : i >= last})
          /\ lost' = lost \cup {queue[i] : i \in dropped}
          /\ IF last = 0 THEN UNCHANGED <<flight, pending>>
                         ELSE flight' = [flight EXCEPT ![queue[last]] = "attached"]
                              /\ UNCHANGED pending
    /\ UNCHANGED <<subscribers, task, changes, shown, unseen>>

\* From the rear, due tasks leave the queue until one has been fetched; those
\* that nobody subscribes to on the way are dropped.
Tick ==
    /\ pending < Limit
    /\ Due # {}
    /\ LET last == IF Wanted = {} THEN 0 ELSE CHOOSE i \in Wanted :
                                                \A j \in Wanted : j <= i
           dropped == {i \in Due : i > last}
       IN /\ queue' = Without({i \in Due : i >= last})
          /\ lost' = lost \cup {queue[i] : i \in dropped}
          /\ IF last = 0 THEN UNCHANGED <<flight, pending>>
                         ELSE Fetch(queue[last])
    /\ UNCHANGED <<subscribers, task, changes, shown, unseen>>

-----------------------------------------------------------------------------
(* Answers of fetches *)

\* Faulty variant: as its comment says, "insert at rear of queue".
InsertedAtRear(t) == IF Queued(t) THEN queue ELSE Append(queue, t)

\* No task has a nextFetch: all compare equal to none, the order is not by
\* time, and the task goes in at the front unless its topic is queued.
InsertedTask(t) == IF Queued(t) THEN queue ELSE <<t>> \o queue

\* A feed: those on the list the fetch holds are notified, and the task is
\* queued again for later.
Receive(t, hasEntries) ==
    LET notified == IF flight[t] = "attached" THEN subscribers[t] ELSE {}
    IN /\ shown' = [shown EXCEPT ![t] = IF hasEntries THEN notified
                                        ELSE @ \cup notified]
       /\ task' = [task EXCEPT ![t].latest = @ \/ hasEntries, ![t].due = FALSE]
       /\ queue' = InsertedTask(t)
       /\ pending' = pending - 1
       /\ unseen' = IF ~hasEntries THEN unseen
                    ELSE IF flight[t] = "orphaned" THEN unseen \cup {t}
                    ELSE unseen \ {t}
       /\ UNCHANGED lost

\* An error: the task is not queued again.
ReceiveNothing(t) ==
    /\ lost' = lost \cup {t}
    /\ pending' = pending - 1
    /\ UNCHANGED <<task, queue, shown, unseen>>

\* A successful answer without a feed element, as an empty one: model.pull
\* does not call back.
NoCallback(t) ==
    /\ lost' = lost \cup {t}
    /\ UNCHANGED <<task, queue, pending, shown, unseen>>

Respond(t) ==
    /\ InFlight(t)
    /\ \E r \in Responses :
          \/ r \in {"entries", "empty"} /\ Receive(t, r = "entries")
          \/ r = "error" /\ ReceiveNothing(t)
          \/ r = "feedless" /\ NoCallback(t)
    /\ flight' = [flight EXCEPT ![t] = "none"]
    /\ UNCHANGED <<subscribers, changes>>

Work ==
    \/ \E s \in Subscriber : \/ \E t \in Topic : Subscribe(s, t)
                             \/ Unsubscribe(s)
    \/ \E t \in Topic : Elapse(t) \/ Respond(t)
    \/ Tick

Next == Work \/ \E ts \in Changes : LocalChange(ts)

\* Timers fire, time passes, and every request is answered or fails.
Fairness == /\ WF_vars(Tick)
            /\ \A t \in Topic : WF_vars(Elapse(t)) /\ WF_vars(Respond(t))

Spec == Init /\ [][Next]_vars /\ Fairness

-----------------------------------------------------------------------------
TypeOK ==
    /\ subscribers \in [Topic -> SUBSET Subscriber]
    /\ task \in [Topic -> Task]
    /\ queue \in Seq(Topic)
    /\ flight \in [Topic -> Flight]
    /\ pending \in 0..Cardinality(Topic)
    /\ changes \in 0..MaxChanges
    /\ lost \subseteq Topic
    /\ shown \in [Topic -> SUBSET Subscriber]
    /\ unseen \subseteq Topic

\* A task is in one place: queued once, or in flight, or lost; so no topic is
\* fetched twice at a time, whatever subscribers, ticks, local changes and
\* answers do (pollster.js:68-91, :240-263, :287-302, :316-337).
TaskInOnePlace ==
    /\ \A i, j \in DOMAIN queue : queue[i] = queue[j] => i = j
    /\ \A t \in Topic :
          /\ task[t].made <=> Queued(t) \/ InFlight(t) \/ t \in lost
          /\ ~(Queued(t) /\ InFlight(t))
          /\ t \in lost => ~Queued(t) /\ ~InFlight(t)

\* A fetch without subscribers to notify is one whose subscribers left, and
\* the counter never misses a fetch (pollster.js:108-127, :159, :233).
PendingCoversFlights ==
    /\ pending >= Cardinality({t \in Topic : InFlight(t)})
    /\ \A t \in Topic : flight[t] = "attached" => subscribers[t] # {}

\* Whoever subscribes to a topic has been notified of its latest feed, unless
\* that answered a fetch whose subscribers had all left: "each time new results
\* are received" (pollster.js:52-53, :68-75, :133, :172-174).
LatestIsShown ==
    \A t \in Topic : task[t].latest => subscribers[t] \subseteq shown[t] \/ t \in unseen

\* The counter that holds back the timer counts fetches that are under way:
\* ticks "refetch any pending feeds" (pollster.js:283-285).
NeverStuck == pending >= Limit => \E t \in Topic : InFlight(t)

\* A topic with subscribers is fetched again and again, unless nothing holds
\* its task or the counter has leaked up to the limit (pollster.js:18-19, :287).
SubscribedIsPolled ==
    \A t \in Topic :
        [](subscribers[t] # {} => <>(\/ InFlight(t) \/ t \in lost
                                     \/ subscribers[t] = {} \/ ~NeverStuck))

=============================================================================
