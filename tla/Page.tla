-------------------------------- MODULE Page --------------------------------
(***************************************************************************)
(* The page of controller.js: onPopulate fills the panes for the path and   *)
(* the account in force, when the user follows a link or goes back, and     *)
(* when the user signs in or out.  What a pane shows is filled in by        *)
(* requests, whose answers do not look at the page they find.               *)
(*                                                                          *)
(* Each action is an event handler, whole.  A pane is the set of things it  *)
(* has been told to show since it was emptied; what Renderer and Pollster   *)
(* make of them is theirs.  The home feed is the welcome feed, as index.html *)
(* has it.  Left out: classes, the composer's addresses, and the pane of    *)
(* recommendations, which is never emptied.  The specification is PageSpec: *)
(* BrowserProofs extends this module and Renderer, whose Spec it has too.   *)
(***************************************************************************)
EXTENDS Naturals, FiniteSets

CONSTANTS
    Feed,       \* feeds, with a page each
    Account,    \* those the user may sign in to
    Home,       \* TRSST_HOME, shown to whoever is not signed in
    Permalink,  \* entries, with a page each
    Origin,     \* the path of the home page
    Null,       \* JavaScript null
    MaxPulls    \* bound on the requests under way

ASSUME PageAssumption ==
    /\ Account \subseteq Feed \ {Home} /\ Home \in Feed
    /\ Feed \cap Permalink = {} /\ Origin \notin Feed \cup Permalink
    /\ Null \notin Feed \cup Permalink \cup {Origin}
    /\ MaxPulls \in Nat \ {0}

VARIABLES
    path,       \* window.location, Null until controller.start
    uid,        \* model.getAuthenticatedAccountId()
    panes,      \* pane -> what it is to show
    feedPath,   \* feedRenderer.path: the feed whose page has been filled
    homeOf,     \* homeRenderer.homeRendererId: whose home has been filled
    pulls,      \* requests under way
    shownTo,    \* history: the account for which the page was filled last
    reused,     \* history: another page or account since feedPath was set?
    lateIn,     \* history: panes that got the answer for another page
    failed      \* history: could the entry of the page not be had?

history == <<shownTo, reused, lateIn, failed>>
pageVars == <<path, uid, panes, feedPath, homeOf, pulls, history>>

Path == Feed \cup Permalink \cup {Origin}
Request == [pane : {"entry"}, of : Permalink] \cup [pane : {"follows", "home"}, of : Feed]
pull(pane, of) == [pane |-> pane, of |-> of]

\* What a pane may be told to show: a feed or the replies to an entry, what the
\* follows of a feed post, and the conversations of an account with a feed or
\* (Null) with anybody.
By(f) == <<"by", f>>
RepliesTo(e) == <<"repliesTo", e>>
FollowsOf(f) == <<"followsOf", f>>
Talk(a, f) == <<"talk", a, f>>

Panes ==
    [profile : SUBSET Feed, entry : SUBSET Permalink,
     feed : SUBSET ({By(f) : f \in Feed} \cup {RepliesTo(e) : e \in Permalink}),
     home : SUBSET ({By(f) : f \in Feed} \cup {FollowsOf(f) : f \in Feed}),
     follows : SUBSET Feed,
     messages : SUBSET {Talk(a, f) : a \in Account, f \in Feed \cup {Null}}]

HomeId(u) == IF u = Null THEN Home ELSE u

Talks(u, f) == IF u = Null THEN {} ELSE {Talk(u, f)}

PageInit ==
    /\ path = Null
    /\ uid = Null
    /\ panes = [profile |-> {}, entry |-> {}, feed |-> {}, home |-> {},
                follows |-> {}, messages |-> {}]
    /\ feedPath = Null /\ homeOf = Null
    /\ pulls = {}
    /\ shownTo = Null /\ reused = FALSE /\ lateIn = {} /\ failed = FALSE

-----------------------------------------------------------------------------
(* onPopulate, for the path p and the account u; `filled` is feedRenderer.path *)

Send(new) ==
    /\ pulls' = pulls \cup new
    /\ Cardinality(pulls') <= MaxPulls

\* The entry is pulled.  The other panes stay, and so does feedRenderer.path.
EntryPage(e, filled) ==
    /\ panes' = [panes EXCEPT !.entry = {}, !.feed = {}]
    /\ Send({pull("entry", e)})
    /\ feedPath' = filled
    /\ reused' = TRUE
    /\ lateIn' = lateIn \ {"entry", "feed"}
    /\ UNCHANGED homeOf

\* Faulty variant: the conversations are added to those of the last page.
FeedPageTalksOn(f, u, filled) ==
    IF filled = f
    THEN /\ feedPath' = filled
         /\ reused' = (reused \/ u # shownTo)
         /\ UNCHANGED <<panes, homeOf, pulls, lateIn>>
    ELSE /\ panes' = [panes EXCEPT !.profile = {f}, !.feed = {By(f)}, !.follows = {},
                                   !.messages = @ \cup Talks(u, f)]
         /\ Send({pull("follows", f)})
         /\ feedPath' = f
         /\ reused' = FALSE
         /\ lateIn' = lateIn \ {"feed", "follows"}
         /\ UNCHANGED homeOf

\* The panes are filled unless they were filled for this feed last.
FeedPage(f, u, filled) ==
    IF filled = f
    THEN /\ feedPath' = filled
         /\ reused' = (reused \/ u # shownTo)
         /\ UNCHANGED <<panes, homeOf, pulls, lateIn>>
    ELSE /\ panes' = [panes EXCEPT !.profile = {f}, !.feed = {By(f)}, !.follows = {},
                                   !.messages = Talks(u, f)]
         /\ Send({pull("follows", f)})
         /\ feedPath' = f
         /\ reused' = FALSE
         /\ lateIn' = lateIn \ {"feed", "follows"}
         /\ UNCHANGED homeOf

\* Faulty variant: the home of the account that has left is not emptied.
HomePageKept(u, filled) ==
    LET id == HomeId(u)
    IN /\ panes' = [panes EXCEPT
                      !.profile = {id}, !.messages = Talks(u, Null),
                      !.home = IF homeOf = Null THEN {By(id), By(Home)} ELSE @]
       /\ homeOf' = id
       /\ feedPath' = filled /\ reused' = TRUE
       /\ UNCHANGED <<pulls, lateIn>>

\* The home of an account is filled with its feed, the home feed and what its
\* follows post, unless it was filled for this account last.
HomePage(u, filled) ==
    LET id == HomeId(u)
        other == homeOf # id
        own == IF other THEN {By(id), By(Home)} ELSE panes.home
    IN /\ panes' = [panes EXCEPT
                      !.profile = {id}, !.messages = Talks(u, Null), !.home = own,
                      !.follows = IF other THEN {} ELSE @]
       /\ IF other
          THEN /\ Send({pull("follows", id)}
                         \cup IF id = Home THEN {} ELSE {pull("home", id)})
               /\ lateIn' = lateIn \ {"home", "follows"}
          ELSE UNCHANGED <<pulls, lateIn>>
       /\ homeOf' = id
       /\ feedPath' = filled /\ reused' = TRUE

Populate(p, u, filled) ==
    /\ \/ p \in Permalink /\ EntryPage(p, filled)
       \/ p \in Feed /\ FeedPage(p, u, filled)
       \/ p = Origin /\ HomePage(u, filled)
    /\ shownTo' = u
    /\ failed' = FALSE

-----------------------------------------------------------------------------
\* controller.start, controller.pushState and onpopstate: any page may be next.
Go(p) ==
    /\ path' = p
    /\ Populate(p, uid, feedPath)
    /\ UNCHANGED uid

\* A post has been answered: its account is signed in, and no page is told.
Authenticate(a) ==
    /\ path # Null
    /\ uid' = a
    /\ UNCHANGED <<path, panes, feedPath, homeOf, pulls, history>>

\* onSignIn: "force refresh of feed page if we're on it".
SignIn(a) ==
    /\ path # Null
    /\ uid' = a
    /\ Populate(path, a, Null)
    /\ UNCHANGED path

\* setCurrentAccountId(null) leaves feedRenderer.path as it is.
SignOut ==
    /\ uid # Null
    /\ uid' = Null
    /\ Populate(path, Null, feedPath)
    /\ UNCHANGED path

\* Faulty variant: only the replies are asked for.
AnswerEntryReplies(r) ==
    /\ panes' = [panes EXCEPT !.feed = @ \cup {RepliesTo(r.of)}]
    /\ feedPath' = Null
    /\ lateIn' = IF path = r.of THEN lateIn ELSE lateIn \cup {"entry", "feed"}
    /\ UNCHANGED failed

\* The entry and its replies are shown, whatever the page is by now.
AnswerEntry(r) ==
    /\ panes' = [panes EXCEPT !.entry = @ \cup {r.of},
                              !.feed = @ \cup {RepliesTo(r.of)}]
    /\ feedPath' = Null
    /\ lateIn' = IF path = r.of THEN lateIn ELSE lateIn \cup {"entry", "feed"}
    /\ UNCHANGED failed

FailEntry(r) ==
    /\ failed' = (failed \/ path = r.of)
    /\ UNCHANGED <<panes, feedPath, lateIn>>

\* addFeedFollows: the follows have come, for whoever they were asked.
AnswerFollows(r, owner) ==
    /\ panes' = IF r.pane = "home"
                THEN [panes EXCEPT !.home = @ \cup {FollowsOf(r.of)}]
                ELSE [panes EXCEPT !.follows = @ \cup {r.of}]
    /\ lateIn' = IF r.of = owner THEN lateIn ELSE lateIn \cup {r.pane}
    /\ UNCHANGED <<feedPath, failed>>

\* Whose follows does the pane show?  The one it was emptied for last.
Owner(r) == IF r.pane = "follows" /\ path \in Feed THEN path ELSE homeOf

Answer(r) ==
    /\ r \in pulls
    /\ pulls' = pulls \ {r}
    /\ IF r.pane = "entry"
       THEN AnswerEntry(r) \/ FailEntry(r)
       ELSE AnswerFollows(r, Owner(r)) \/ UNCHANGED <<panes, feedPath, lateIn, failed>>
    /\ UNCHANGED <<path, uid, homeOf, shownTo, reused>>

PageNext ==
    \/ \E p \in Path : Go(p)
    \/ \E a \in Account : Authenticate(a) \/ SignIn(a)
    \/ SignOut
    \/ \E r \in pulls : Answer(r)

\* Requests are answered or fail.
PageFairness == \A r \in Request : WF_pageVars(Answer(r))

PageSpec == PageInit /\ [][PageNext]_pageVars /\ PageFairness

-----------------------------------------------------------------------------
PageTypeOK ==
    /\ path \in Path \cup {Null}
    /\ uid \in Account \cup {Null}
    /\ panes \in Panes
    /\ feedPath \in Feed \cup {Null} /\ homeOf \in Feed \cup {Null}
    /\ pulls \subseteq Request
    /\ shownTo \in Account \cup {Null}
    /\ reused \in BOOLEAN /\ failed \in BOOLEAN
    /\ lateIn \subseteq {"entry", "feed", "follows", "home"}

\* The page of a feed shows that feed, its follows and the conversations of the
\* account with it, unless the page was filled before another one was shown or
\* the account changed, or an answer for another page came late (controller.js:1398-1445, :1341-1348).
FeedPageIsFeeds ==
    path \in Feed /\ ~reused =>
        /\ panes.profile = {path}
        /\ "feed" \in lateIn \/ panes.feed = {By(path)}
        /\ "follows" \in lateIn \/ panes.follows \subseteq {path}
        /\ panes.messages = Talks(shownTo, path)

\* The page of a feed shows the profile of its owner: "page owner"
\* (controller.js:1403).
ProfileIsOwners == path \in Feed => panes.profile = {path}

\* The home page shows the feeds and conversations of the account in force and
\* of no other one, late answers aside (controller.js:1474-1520, :832-848).
HomeIsAccounts ==
    path = Origin =>
        LET id == HomeId(shownTo)
        IN /\ panes.profile = {id} /\ homeOf = id
           /\ "home" \in lateIn \/ panes.home \subseteq {By(id), By(Home), FollowsOf(id)}
           /\ panes.messages = Talks(shownTo, Null)

\* An entry comes to its page, unless it cannot be had (controller.js:1337-1354).
EntryComes ==
    \A e \in Permalink : [](path = e => <>(path # e \/ e \in panes.entry \/ failed))

=============================================================================
