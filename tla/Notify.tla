------------------------------- MODULE Notify -------------------------------
(***************************************************************************)
(* How the pollster hears of local changes: model.notify queues the id of   *)
(* the feed, and a timer passes the queue to the listener of the pollster.  *)
(* This module puts the queue and the timer in front of Pollster, whose     *)
(* LocalChange is what the listener does for one id.                        *)
(*                                                                          *)
(* pushFeed notifies of the id it was called with, which is null when an    *)
(* account has been created.  The listener throws at null when a task is    *)
(* queued: the loop over the ids ends, and the queue is not emptied.        *)
(***************************************************************************)
EXTENDS Pollster

CONSTANT NewAccount     \* the null that stands for a new account

ASSUME NewAccountAssumption == NewAccount \notin Changes

VARIABLES
    notifyQueue,    \* what has changed, and has to be passed on
    notifyTimer,    \* is the timer set that passes it on?
    unheard         \* history: changes the pollster has yet to hear of

notices == <<notifyQueue, notifyTimer, unheard>>
allVars == <<vars, notices>>

NotifyInit ==
    /\ Init
    /\ notifyQueue = <<>> /\ notifyTimer = FALSE /\ unheard = {}

\* model.notify: an id that is queued is not queued again.
Notify(c) ==
    /\ changes < MaxChanges
    /\ changes' = changes + 1
    /\ IF Contains(notifyQueue, c)
       THEN UNCHANGED <<notifyQueue, notifyTimer>>
       ELSE /\ notifyQueue' = Append(notifyQueue, c)
            /\ notifyTimer' = TRUE
    /\ unheard' = unheard \cup ({c} \ {NewAccount})
    /\ UNCHANGED <<subscribers, task, queue, flight, pending, history>>

\* What the loop over the ids gets through.
Passed == IF queue # <<>> /\ Contains(notifyQueue, NewAccount)
          THEN SubSeq(notifyQueue, 1, (CHOOSE i \in DOMAIN notifyQueue :
                                          notifyQueue[i] = NewAccount) - 1)
          ELSE notifyQueue

\* The queue of tasks when the listener has heard of one id after the other.
AfterAll(ids) ==
    LET after[n \in 0..Len(ids)] ==
            IF n = 0 THEN queue ELSE ToRear(after[n - 1], ids[n])
    IN after[Len(ids)]

Hear ==
    /\ unheard' = unheard \ ToSet(Passed)
    /\ queue' = AfterAll(Passed)
    /\ task' = [t \in Topic |-> IF Queued(t) /\ \E c \in ToSet(Passed) : t \in c
                                THEN [task[t] EXCEPT !.due = TRUE]
                                ELSE task[t]]
    /\ UNCHANGED <<subscribers, flight, pending, changes, history>>

\* Faulty variant: the queue is emptied before the loop.
DeliverEmptied ==
    /\ notifyTimer
    /\ notifyTimer' = FALSE
    /\ notifyQueue' = <<>>
    /\ Hear

\* The timer fires.  The queue is emptied if the loop comes to its end.
Deliver ==
    /\ notifyTimer
    /\ notifyTimer' = FALSE
    /\ notifyQueue' = IF queue # <<>> /\ Contains(notifyQueue, NewAccount)
                      THEN notifyQueue ELSE <<>>
    /\ Hear

NotifyNext ==
    \/ Work /\ UNCHANGED notices
    \/ \E c \in Changes \cup {NewAccount} : Notify(c)
    \/ Deliver

NotifySpec == /\ NotifyInit /\ [][NotifyNext]_allVars
              /\ Fairness /\ WF_allVars(Deliver)

-----------------------------------------------------------------------------
NotifyTypeOK ==
    /\ notifyQueue \in Seq(Changes \cup {NewAccount})
    /\ notifyTimer \in BOOLEAN
    /\ unheard \subseteq Changes

\* No change is lost on its way to the pollster: what it has yet to hear of is
\* queued, and the timer is set for it, unless the listener has thrown at a null
\* and the queue was left as it was (model.js:82-102, pollster.js:316-337).
ChangesKept ==
    /\ unheard \subseteq ToSet(notifyQueue)
    /\ notifyQueue # <<>> => notifyTimer \/ Contains(notifyQueue, NewAccount)

\* Is there a null in the queue, and no timer?
Deaf == Contains(notifyQueue, NewAccount) /\ ~notifyTimer

\* The pollster hears of every change, in whatever order changes and timers
\* come, until it has thrown at a null: "notify observers object did change on
\* next event" (model.js:82-102, pollster.js:316-337).
ChangesArrive == \A c \in Changes : [](c \in unheard => <>(c \notin unheard \/ Deaf))

=============================================================================
