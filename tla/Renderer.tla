------------------------------ MODULE Renderer ------------------------------
(***************************************************************************)
(* renderer.js: a column of entries, filled by the answers to its queries.  *)
(* The pollster brings the newest entries of a query; older ones are        *)
(* fetched page by page when the entry that is the scroll trigger of the    *)
(* query comes into view.  Replies and shares go under the entry that       *)
(* their thread began with, which may have to be fetched first.             *)
(*                                                                          *)
(* One event handler runs at a time and is one action.  A fetch is answered *)
(* with what the server has when the answer is used: what is posted in      *)
(* between is as if posted afterwards.  The first entry of a thread is no   *)
(* reply or share itself, and older than those (see FirstMention).          *)
(***************************************************************************)
EXTENDS Naturals, FiniteSets, FiniteSetsExt, Paging

CONSTANTS
    Entry,          \* entries, as timestamps
    Verb,           \* entry -> "post", "reply" or "share"
    Root,           \* reply or share -> first entry it mentions; post -> itself
    Query,          \* queries
    Matches,        \* query -> the entries that match it
    Held,           \* what the server may have in the beginning: sets of entries
    Own,            \* entries that the user of the page composes
    Forced,         \* how often an own entry is handed to this renderer
    FirstCount, PollCount, PageCount,  \* entries in an answer: 4, 99, 5
    View, Ahead,    \* rows that fit in the window, and are rendered below it
    Down,           \* how many rows the user may scroll down
    MayFail,        \* may fetches fail, or be answered without a feed?
    MaxResets       \* bound on the resets

ASSUME RendererAssumption ==
    /\ Entry \subseteq Nat \ {0} /\ IsFiniteSet(Entry)
    /\ Verb \in [Entry -> {"post", "reply", "share"}]
    /\ Root \in [Entry -> Entry]
    /\ \A e \in Entry : IF Verb[e] = "post" THEN Root[e] = e
                        ELSE Verb[Root[e]] = "post" /\ Root[e] < e
    /\ Matches \in [Query -> SUBSET Entry]
    /\ Held \subseteq SUBSET Entry /\ Own \subseteq Entry
    /\ Forced \in {1, 2}
    /\ {FirstCount, PollCount, PageCount, View} \subseteq Nat \ {0}
    /\ Ahead \in Nat /\ Down \in Nat /\ MaxResets \in Nat
    /\ MayFail \in BOOLEAN

VARIABLES
    posted,     \* entries the server has
    feed,       \* query -> entries of the last answer with any (latestFeed)
    polled,     \* queries whose task has had an answer (lastFetched)
    querySet,   \* queries of this page
    column,     \* what addDataToEntryContainer works on: see Column
    fetches,    \* fetches of previous pages
    rows,       \* top-level entries that are in the document
    down,       \* how far the window is scrolled
    scroll,     \* is a call of onScroll due? (scrollCoalescence)
    render,     \* is a call of renderNow due? (renderCoalescence)
    resets,     \* number of resets so far
    late,       \* history: entries that came when newer ones had been polled
    broken      \* history: ranges of queries that nothing will fetch any more

server == <<posted, feed, polled, late>>
window == <<rows, down>>
vars == <<server, querySet, column, fetches, window, scroll, render, resets, broken>>

\* A range of a query: the entries after one (or all) and before another.  It
\* is what a trigger, the fetch it leads to and a break in the column stand for.
Span == [query : Query, after : Entry \cup {0}, at : Entry]
Fetch == [range : Span, page : 0..MaxResets]

\* The fetch of a root, and how many cards of each entry wait for it.
Pull == [root : Entry, verb : {"reply", "share"}, page : 0..MaxResets,
         waiting : [Entry -> 0..2]]

\* cards: how many cards an entry has in the column; known: urnToEntryElement;
\* triggers: scrollTriggers.  History: firsts, the entries that began the fetch
\* of a root, which are not registered; rootless, roots that were not found;
\* mixed, roots that both replies and shares wait for; stray, what the fetch
\* of a root put into the column of a later page.
ColumnType ==
    [cards : [Entry -> Nat], known : [Entry -> {"none", "card", "dummy"}],
     pulls : SUBSET Pull, triggers : SUBSET Span,
     firsts : SUBSET Entry, rootless : SUBSET Entry, mixed : SUBSET Entry,
     stray : SUBSET Entry]

Empty(pulls) ==
    [cards |-> [e \in Entry |-> 0], known |-> [e \in Entry |-> "none"],
     pulls |-> pulls, triggers |-> {},
     firsts |-> {}, rootless |-> {}, mixed |-> {}, stray |-> {}]

In(range, e) == /\ e \in Matches[range.query]
                /\ range.after < e /\ e < range.at
TopLevel(c) == {e \in Entry : c.cards[e] > 0 /\ Verb[e] = "post"}
Latest(q) == Max(feed[q] \cup {0})

Init ==
    /\ posted \in Held
    /\ feed = [q \in Query |-> {}] /\ polled = {}
    /\ querySet = {}
    /\ column = Empty({})
    /\ fetches = {}
    /\ rows = {} /\ down = 0
    /\ scroll = FALSE /\ render = FALSE
    /\ resets = 0
    /\ late = {} /\ broken = {}

-----------------------------------------------------------------------------
(* addEntriesFromFeed: the entries of a feed, the newest first.  A root that  *)
(* is not known yet is fetched when the first of its replies and shares comes, *)
(* and is left alone when it comes itself, later in the feed.                  *)

\* Faulty variant: rows are not looked up.
IsNewPost(c, e) == c.known[e] = "none" \/ (c.known[e] = "card" /\ Verb[e] = "post")

IsNew(c, e) == c.known[e] = "none"
Kids(c, S) == {e \in S : IsNew(c, e) /\ Verb[e] # "post"}
Awaited(c, S) == {Root[e] : e \in {k \in Kids(c, S) : IsNew(c, Root[k])}}
First(c, S, r) == Max({e \in Kids(c, S) : Root[e] = r})
Tops(c, S) == {e \in S : IsNew(c, e) /\ Verb[e] = "post"} \ Awaited(c, S)

PullOf(r, verb) == [root |-> r, verb |-> verb, page |-> resets,
                    waiting |-> [e \in Entry |-> 0]]

Added(c, S) ==
    LET kids == Kids(c, S)
        tops == Tops(c, S)
        placed == {e \in kids : c.known[Root[e]] = "card"}
        queued == kids \ placed
        awaited == Awaited(c, S)
        firsts == {First(c, S, r) : r \in awaited}
        pulls == c.pulls \cup {PullOf(Root[e], Verb[e]) : e \in firsts}
        \* The dummy of a root takes replies and shares, but the answer hands
        \* out only those with the verb of the entry that began the fetch.
        mine(p) == {e \in queued : p.page = resets /\ p.root = Root[e]}
        taken(p) == {e \in mine(p) : p.verb = Verb[e]}
    IN [c EXCEPT
        !.cards = [e \in Entry |-> IF e \in tops \cup placed THEN @[e] + 1 ELSE @[e]],
        !.known = [e \in Entry |-> IF e \in awaited THEN "dummy"
                                   ELSE IF e \in (tops \cup kids) \ firsts
                                        THEN "card" ELSE @[e]],
        !.pulls = {[p EXCEPT !.waiting =
                      [e \in Entry |-> IF e \in taken(p) THEN @[e] + 1 ELSE @[e]]]
                   : p \in pulls},
        !.firsts = @ \cup firsts,
        !.mixed = @ \cup {p.root : p \in {x \in pulls : mine(x) # taken(x)}}]

\* The trigger of a feed: its oldest entry that has got a row of its own.
Triggered(c, S, q, after) ==
    IF Tops(c, S) = {} THEN {}
    ELSE {[query |-> q, after |-> after, at |-> Min(Tops(c, S))]}

\* Without one, nothing will fetch what the query has between the feed and
\* `after`.
Dropped(c, S, q, after) ==
    IF Tops(c, S) = {} /\ S # {}
    THEN {[query |-> q, after |-> after, at |-> Min(S)]}
    ELSE {}

AddEntries(S, q, after) ==
    /\ scroll' = TRUE /\ render' = TRUE
    /\ broken' = broken \cup Dropped(column, S, q, after)
    /\ column' = [Added(column, S) EXCEPT
                    !.triggers = @ \cup Triggered(column, S, q, after)]

-----------------------------------------------------------------------------
(* The server, the pollster and the page *)

\* A new entry at the server.  It is late if a query that it matches has brought
\* a newer one.
Reaches(e) ==
    /\ e \notin posted
    /\ posted' = posted \cup {e}
    /\ late' = IF \E q \in Query : e \in Matches[q] /\ e < Latest(q)
               THEN late \cup {e} ELSE late

\* An entry reaches the server, by whatever way and in any order.
Post(e) ==
    /\ Reaches(e)
    /\ UNCHANGED <<feed, polled, querySet, column, fetches, window, scroll,
                   render, resets, broken>>

\* Faulty variant: notify is called without the query.
AddQueryUnnamed(q) ==
    /\ q \notin querySet
    /\ querySet' = querySet \cup {q}
    /\ IF feed[q] # {}
       THEN /\ column' = Added(column, feed[q])
            /\ scroll' = TRUE /\ render' = TRUE
            /\ UNCHANGED broken
       ELSE UNCHANGED <<column, broken, scroll, render>>
    /\ UNCHANGED <<server, fetches, window, resets>>

\* addQuery: the pollster shows what it had for this query last, if anything.
AddQuery(q) ==
    /\ q \notin querySet
    /\ querySet' = querySet \cup {q}
    /\ IF feed[q] # {} THEN AddEntries(feed[q], q, 0)
                       ELSE UNCHANGED <<column, broken, scroll, render>>
    /\ UNCHANGED <<server, fetches, window, resets>>

\* The answer of a poll, which the pollster passes to notify.
Poll(q) ==
    /\ q \in querySet
    /\ polled' = polled \cup {q}
    /\ UNCHANGED <<posted, late, querySet, fetches, window, resets>>
    /\ LET after == Latest(q)
           count == IF q \in polled THEN PollCount ELSE FirstCount
           S == EntryIds(posted \cap Matches[q], after, 0, count)
       IN /\ feed' = IF S = {} THEN feed ELSE [feed EXCEPT ![q] = S]
          /\ AddEntries(S, q, after)

\* The composer has posted an entry and hands it to the column, in some columns
\* twice, without a query.
Compose(e) ==
    /\ e \in Own /\ Root[e] \in posted \cup {e}
    /\ Reaches(e)
    /\ column' = IF Forced = 2 THEN Added(Added(column, {e}), {e})
                               ELSE Added(column, {e})
    /\ scroll' = TRUE /\ render' = TRUE
    /\ UNCHANGED <<feed, polled, querySet, fetches, window, resets, broken>>

\* Faulty variant: the container is not emptied.
ResetKeepsRows ==
    /\ resets < MaxResets
    /\ resets' = resets + 1
    /\ querySet' = {} /\ column' = Empty(column.pulls) /\ broken' = {}
    /\ UNCHANGED <<server, fetches, rows, down, scroll, render>>

\* The page is emptied for another one.  Its fetches go on.
Reset ==
    /\ resets < MaxResets
    /\ resets' = resets + 1
    /\ querySet' = {} /\ column' = Empty(column.pulls) /\ broken' = {}
    /\ rows' = {}
    /\ UNCHANGED <<server, fetches, down, scroll, render>>

-----------------------------------------------------------------------------
(* Scrolling and rendering *)

Scroll(d) ==
    /\ d \in 0..Down \ {down}
    /\ down' = d
    /\ scroll' = (scroll \/ column.triggers # {})
    /\ UNCHANGED <<server, querySet, column, fetches, rows, render, resets, broken>>

\* Faulty variant: the height of the window is left out.
InSightAbove(e) == Cardinality(NewerIn(rows, e)) < down

\* A row is in sight when fewer rows than fit are above it.
InSight(e) == Cardinality(NewerIn(rows, e)) < View + down

\* renderNow: rows are put in until one is too far below the window.
RenderNow ==
    /\ rows' = rows \cup Newest(TopLevel(column), View + down + Ahead + 1)
    /\ UNCHANGED <<server, querySet, down, resets, broken>>

\* Triggers that have come into sight lead to fetches of what is before them.
OnScroll ==
    /\ scroll
    /\ scroll' = FALSE
    /\ LET fired == {r \in column.triggers : r.at \in rows /\ InSight(r.at)}
       IN /\ column' = [column EXCEPT !.triggers = @ \ fired]
          /\ fetches' = fetches \cup {[range |-> r, page |-> resets] : r \in fired}
    /\ RenderNow
    /\ UNCHANGED render

RenderLater ==
    /\ render
    /\ render' = FALSE
    /\ RenderNow
    /\ UNCHANGED <<column, fetches, scroll>>

-----------------------------------------------------------------------------
(* Answers of fetches *)

AnswerFetch(f) ==
    /\ f \in fetches
    /\ fetches' = fetches \ {f}
    /\ UNCHANGED <<server, querySet, window, resets>>
    /\ LET r == f.range
           S == EntryIds(posted \cap Matches[r.query], r.after, r.at, PageCount)
       IN \/ AddEntries(S, r.query, r.after)
          \/ /\ MayFail
             /\ broken' = broken \cup {r}
             /\ UNCHANGED <<column, scroll, render>>

\* Faulty variant: what waits is forgotten.
RootFoundAlone(p) ==
    LET c == [column EXCEPT !.known[p.root] = "none", !.pulls = @ \ {p}]
    IN /\ column' = [Added(c, {p.root}) EXCEPT
                       !.stray = IF p.page = resets THEN @ ELSE @ \cup {p.root}]
       /\ scroll' = TRUE /\ render' = TRUE

\* The root takes the place of the dummy, or of whatever is registered for it,
\* and what waits for it goes under it.
RootFound(p) ==
    LET c == [column EXCEPT !.known[p.root] = "none", !.pulls = @ \ {p}]
    IN /\ column' = [Added(c, {p.root}) EXCEPT
                       !.cards = [e \in Entry |-> @[e] + p.waiting[e]],
                       !.stray = IF p.page = resets THEN @
                                 ELSE @ \cup {e \in Entry : e = p.root \/ p.waiting[e] > 0}]
       /\ scroll' = TRUE /\ render' = TRUE

\* Faulty variant: what waits is shown anyway.
RootNotFoundShown(p) ==
    /\ column' = [column EXCEPT !.pulls = @ \ {p},
                                !.cards = [e \in Entry |-> @[e] + p.waiting[e]],
                                !.rootless = @ \cup {p.root}]
    /\ UNCHANGED <<scroll, render>>

\* The dummy stays, and so does what waits.
RootNotFound(p) ==
    /\ column' = [column EXCEPT !.pulls = @ \ {p},
                                !.rootless = IF p.page = resets THEN @ \cup {p.root} ELSE @]
    /\ UNCHANGED <<scroll, render>>

AnswerPull(p) ==
    /\ p \in column.pulls
    /\ \/ p.root \in posted /\ RootFound(p)
       \/ (p.root \notin posted \/ MayFail) /\ RootNotFound(p)
    /\ UNCHANGED <<server, querySet, fetches, window, resets, broken>>

Next ==
    \/ \E e \in Entry : Post(e) \/ Compose(e)
    \/ \E q \in Query : AddQuery(q) \/ Poll(q)
    \/ \E d \in 0..Down : Scroll(d)
    \/ \E f \in fetches : AnswerFetch(f)
    \/ \E p \in column.pulls : AnswerPull(p)
    \/ OnScroll \/ RenderLater \/ Reset

\* While the page has queries some poll or other is answered, and that makes a
\* call of onScroll due; its timer fires; fetches of pages are answered.  Nothing
\* else is needed.
Fairness ==
    /\ []<>(querySet # {} => scroll)
    /\ WF_vars(OnScroll)
    /\ WF_vars(\E f \in fetches : AnswerFetch(f))

Spec == Init /\ [][Next]_vars /\ Fairness

-----------------------------------------------------------------------------
TypeOK ==
    /\ {posted, late} \subseteq SUBSET Entry
    /\ feed \in [Query -> SUBSET Entry]
    /\ {polled, querySet} \subseteq SUBSET Query
    /\ column \in ColumnType
    /\ fetches \subseteq Fetch /\ broken \subseteq Span
    /\ rows \subseteq TopLevel(column)
    /\ down \in 0..Down /\ {scroll, render} \subseteq BOOLEAN
    /\ resets \in 0..MaxResets

\* Entries that a query of the page should have brought, and did not.
Missing(q) ==
    {e \in posted \cap Matches[q] : /\ column.known[e] = "none" /\ column.cards[e] = 0
                                    /\ e <= Latest(q)
                                    /\ e \notin late \cup column.firsts}

\* Ranges that a trigger or a fetch will bring, one page after the other.
Promises(q) == {r \in column.triggers \cup {f.range : f \in fetches} : r.query = q}

\* Whatever order posts, polls, pages and scrolling come in, an entry of a query
\* that is older than the newest polled one and not in the column is one that
\* a trigger or a fetch will bring, or lies where a chain of pages has broken
\* off (renderer.js:319-384, :487-537, pollster.js:147-156).
GapOnlyByLoss ==
    \A q \in querySet : \A e \in Missing(q) :
        \E r \in Promises(q) \cup broken : r.query = q /\ In(r, e)

\* The list is back-filled as far as there is something to fetch: "we may need
\* to keep fetching until there is something to display" (renderer.js:504-507).
NothingSkipped ==
    \A q \in querySet : \A e \in Missing(q) : \E r \in Promises(q) : In(r, e)

\* No entry is shown twice, but those that began the fetch of a root and those
\* added by a fetch of an earlier page (renderer.js:181-182, :220-252, :281-316).
ShownOnce ==
    \A e \in Entry : column.cards[e] > 1 => e \in column.firsts \cup column.stray

\* A reply or share that is registered is shown or waits for its root, unless
\* that was not found or has both replies and shares waiting
\* (renderer.js:204-255, :265-317).
KidsPlaced ==
    \A e \in Entry : column.known[e] = "card" /\ column.cards[e] = 0 =>
        \/ \E p \in column.pulls : p.page = resets /\ p.waiting[e] > 0
        \/ Root[e] \in column.rootless \cup column.mixed

\* What belongs in sight comes: an entry that should be the last row in the
\* window, or the one below it, does not stay missing unless its chain has
\* broken off (renderer.js:62-66, :413-420, :539-566).
Wanted(e) == /\ Cardinality(NewerIn(rows, e)) <= View + down
             /\ \E q \in querySet : /\ e \in Missing(q)
                                    /\ ~\E r \in broken : r.query = q /\ In(r, e)
GapsClose == \A e \in Entry : []<>~Wanted(e)

\* The column keeps what Column promises (renderer.js:62-65, :164-169).
Asked == querySet \cup {r.query : r \in column.triggers \cup {f.range : f \in fetches}}
Promised == INSTANCE Column WITH
    asked <- Asked,
    waiting <- UNION {{e \in Entry : p.waiting[e] > 0} : p \in column.pulls},
    shown <- {e \in Entry : column.cards[e] > 0}
ColumnSpec == Promised!Spec

=============================================================================
