----------------------------- MODULE BrowserProofs -----------------------------
(***************************************************************************)
(* Proofs about the page in the browser.  The first part is about Page: its *)
(* types, and whose things a feed page and the home page show.  The second  *)
(* is about Renderer: the types of a column, that its gaps are known, that  *)
(* entries are shown once and under their roots, and that it implements     *)
(* Column.                                                                  *)
(***************************************************************************)
EXTENDS Page, Renderer, FiniteSetTheorems, WellFoundedInduction, TLAPS

\* The feed page that has been filled is the one that is shown, while no other
\* page or account has come.
FilledIsPath == ~reused => feedPath = Null \/ feedPath = path

\* The home pane is that of the account for which it was emptied last.
HomeIsOwners ==
    homeOf # Null =>
        "home" \in lateIn \/ panes.home \subseteq {By(homeOf), By(Home), FollowsOf(homeOf)}

SafetyInv == PageTypeOK /\ FilledIsPath /\ HomeIsOwners /\ FeedPageIsFeeds /\ HomeIsAccounts

-----------------------------------------------------------------------------
(* Types *)

LEMMA HomeIdIsFeed ==
    ASSUME NEW u \in Account \cup {Null}
    PROVE  HomeId(u) \in Feed /\ HomeId(u) # Null
BY PageAssumption DEF HomeId

FeedItems == {By(f) : f \in Feed} \cup {RepliesTo(e) : e \in Permalink}
HomeItems == {By(f) : f \in Feed} \cup {FollowsOf(f) : f \in Feed}
Messages == {Talk(a, f) : a \in Account, f \in Feed \cup {Null}}

\* The panes, with names for what they may be told to show.
LEMMA PanesAre ==
    Panes = [profile : SUBSET Feed, entry : SUBSET Permalink, feed : SUBSET FeedItems,
             home : SUBSET HomeItems, follows : SUBSET Feed, messages : SUBSET Messages]
BY DEF Panes, FeedItems, HomeItems, Messages

LEMMA TalksAreMessages ==
    ASSUME NEW u \in Account \cup {Null}, NEW f \in Feed \cup {Null}
    PROVE  Talks(u, f) \subseteq Messages
BY DEF Talks, Messages

LEMMA ItemsAre ==
    /\ \A f \in Feed : By(f) \in FeedItems /\ By(f) \in HomeItems /\ FollowsOf(f) \in HomeItems
    /\ \A e \in Permalink : RepliesTo(e) \in FeedItems
BY DEF FeedItems, HomeItems

-----------------------------------------------------------------------------
(* Filling the page *)

\* What every page does when it is filled.
Filled(p, u, filled) ==
    /\ path' = p /\ shownTo' = u /\ failed' = FALSE
    /\ uid' \in Account \cup {Null}
    /\ u \in Account \cup {Null} /\ filled \in {feedPath, Null}

LEMMA SendKeepsTypes ==
    ASSUME PageTypeOK, NEW new \in SUBSET Request, Send(new)
    PROVE  pulls' \subseteq Request
BY DEF PageTypeOK, Send

LEMMA EntryPageKeeps ==
    ASSUME SafetyInv, NEW e \in Permalink, NEW u, NEW filled,
           Filled(e, u, filled), EntryPage(e, filled)
    PROVE  SafetyInv'
<1>1. PageTypeOK /\ HomeIsOwners
  BY DEF SafetyInv
<1>2. /\ path' = e /\ shownTo' = u /\ u \in Account \cup {Null} /\ failed' = FALSE
      /\ uid' \in Account \cup {Null} /\ feedPath' \in {feedPath, Null}
      /\ panes' = [panes EXCEPT !.entry = {}, !.feed = {}]
      /\ reused' = TRUE /\ homeOf' = homeOf /\ lateIn' = lateIn \ {"entry", "feed"}
  BY DEF Filled, EntryPage
<1>3. pulls' \subseteq Request
  <2>1. {pull("entry", e)} \subseteq Request
    BY DEF Request, pull
  <2> QED
    BY <1>1, <2>1, SendKeepsTypes DEF EntryPage
<1>4. panes' \in Panes /\ panes'.home = panes.home
  <2>1. panes \in Panes
    BY <1>1 DEF PageTypeOK
  <2> QED
    BY <1>2, <2>1, PanesAre
<1>5. PageTypeOK'
  BY <1>1, <1>2, <1>3, <1>4 DEF PageTypeOK, Path
<1>6. FilledIsPath' /\ FeedPageIsFeeds'
  BY <1>2 DEF FilledIsPath, FeedPageIsFeeds
<1>7. HomeIsOwners'
  BY <1>1, <1>2, <1>4 DEF HomeIsOwners
<1>8. HomeIsAccounts'
  BY <1>2, PageAssumption DEF HomeIsAccounts
<1> QED
  BY <1>5, <1>6, <1>7, <1>8 DEF SafetyInv

LEMMA FeedPageKeeps ==
    ASSUME SafetyInv, NEW f \in Feed, NEW u, NEW filled,
           Filled(f, u, filled), FeedPage(f, u, filled)
    PROVE  SafetyInv'
<1>1. PageTypeOK /\ HomeIsOwners /\ FilledIsPath /\ FeedPageIsFeeds
  BY DEF SafetyInv
<1>2. /\ path' = f /\ shownTo' = u /\ u \in Account \cup {Null} /\ failed' = FALSE
      /\ uid' \in Account \cup {Null} /\ filled \in {feedPath, Null} /\ f # Null
      /\ homeOf' = homeOf
  BY PageAssumption DEF Filled, FeedPage
<1>3. HomeIsAccounts'
  BY <1>2, PageAssumption DEF HomeIsAccounts
<1>4. CASE filled = f
  <2>1. /\ feedPath' = feedPath /\ feedPath = f /\ reused' = (reused \/ u # shownTo)
        /\ panes' = panes /\ pulls' = pulls /\ lateIn' = lateIn
    BY <1>2, <1>4 DEF FeedPage
  <2>2. PageTypeOK'
    BY <1>1, <1>2, <2>1 DEF PageTypeOK, Path
  <2>3. FilledIsPath' /\ HomeIsOwners'
    BY <1>1, <1>2, <2>1 DEF FilledIsPath, HomeIsOwners
  <2>4. FeedPageIsFeeds'
    <3>1. SUFFICES ASSUME ~reused' PROVE FeedPageIsFeeds'
      BY DEF FeedPageIsFeeds
    <3>2. ~reused /\ shownTo' = shownTo /\ path = f
      BY <3>1, <2>1, <1>1, <1>2 DEF FilledIsPath
    <3> QED
      BY <3>2, <1>1, <1>2, <2>1 DEF FeedPageIsFeeds
  <2> QED
    BY <2>2, <2>3, <2>4, <1>3 DEF SafetyInv
<1>5. CASE filled # f
  <2>1. /\ panes' = [panes EXCEPT !.profile = {f}, !.feed = {By(f)}, !.follows = {},
                                  !.messages = Talks(u, f)]
        /\ feedPath' = f /\ reused' = FALSE /\ lateIn' = lateIn \ {"feed", "follows"}
        /\ Send({pull("follows", f)})
    BY <1>5 DEF FeedPage
  <2>2. pulls' \subseteq Request
    <3>1. {pull("follows", f)} \subseteq Request
      BY DEF Request, pull
    <3> QED
      BY <1>1, <2>1, <3>1, SendKeepsTypes
  <2>3. /\ panes' \in Panes /\ panes'.home = panes.home /\ panes'.profile = {f}
        /\ panes'.feed = {By(f)} /\ panes'.follows = {} /\ panes'.messages = Talks(u, f)
    <3>1. panes \in Panes
      BY <1>1 DEF PageTypeOK
    <3>2. Talks(u, f) \subseteq Messages
      BY <1>2, TalksAreMessages
    <3> QED
      BY <2>1, <3>1, <3>2, PanesAre, ItemsAre
  <2>4. PageTypeOK'
    BY <1>1, <1>2, <2>1, <2>2, <2>3 DEF PageTypeOK, Path
  <2>5. FilledIsPath'
    BY <1>2, <2>1 DEF FilledIsPath
  <2>6. HomeIsOwners'
    BY <1>1, <1>2, <2>1, <2>3 DEF HomeIsOwners
  <2>7. FeedPageIsFeeds'
    BY <1>2, <2>3 DEF FeedPageIsFeeds
  <2> QED
    BY <2>4, <2>5, <2>6, <2>7, <1>3 DEF SafetyInv
<1> QED
  BY <1>4, <1>5

LEMMA HomePageKeeps ==
    ASSUME SafetyInv, NEW u, NEW filled, Filled(Origin, u, filled), HomePage(u, filled)
    PROVE  SafetyInv'
<1> DEFINE id == HomeId(u)
           own == IF homeOf # id THEN {By(id), By(Home)} ELSE panes.home
<1>1. PageTypeOK /\ HomeIsOwners /\ panes \in Panes
  BY DEF SafetyInv, PageTypeOK
<1>2. /\ path' = Origin /\ shownTo' = u /\ u \in Account \cup {Null} /\ failed' = FALSE
      /\ uid' \in Account \cup {Null} /\ feedPath' \in {feedPath, Null}
      /\ homeOf' = id /\ reused' = TRUE
      /\ panes' = [panes EXCEPT !.profile = {id}, !.messages = Talks(u, Null), !.home = own,
                                !.follows = IF homeOf # id THEN {} ELSE @]
  BY DEF Filled, HomePage
<1>3. id \in Feed /\ id # Null
  BY <1>2, HomeIdIsFeed
<1>4. pulls' \subseteq Request
  <2>1. pull("follows", id) \in Request /\ pull("home", id) \in Request
    BY <1>3 DEF Request, pull
  <2>2. CASE homeOf # id
    <3>1. Send({pull("follows", id)} \cup IF id = Home THEN {} ELSE {pull("home", id)})
      BY <2>2 DEF HomePage
    <3> QED
      BY <1>1, <2>1, <3>1, SendKeepsTypes
  <2>3. CASE homeOf = id
    BY <2>3, <1>1 DEF HomePage, PageTypeOK
  <2> QED
    BY <2>2, <2>3
<1>5. lateIn' = IF homeOf # id THEN lateIn \ {"home", "follows"} ELSE lateIn
  BY DEF HomePage
<1>6. /\ panes' \in Panes /\ panes'.profile = {id} /\ panes'.home = own
      /\ panes'.messages = Talks(u, Null)
  <2>1. Talks(u, Null) \subseteq Messages
    BY <1>2, TalksAreMessages
  <2>2. own \subseteq HomeItems
    BY <1>1, <1>3, PanesAre, ItemsAre, PageAssumption
  <2> HIDE DEF own, id
  <2> QED
    BY <1>1, <1>2, <1>3, <2>1, <2>2, PanesAre
<1>7. PageTypeOK'
  BY <1>1, <1>2, <1>3, <1>4, <1>5, <1>6 DEF PageTypeOK, Path
<1>8. HomeIsOwners'
  BY <1>1, <1>2, <1>3, <1>5, <1>6 DEF HomeIsOwners
<1>9. HomeIsAccounts'
  BY <1>2, <1>3, <1>6, <1>8 DEF HomeIsAccounts, HomeIsOwners
<1>10. FilledIsPath' /\ FeedPageIsFeeds'
  BY <1>2 DEF FilledIsPath, FeedPageIsFeeds
<1> QED
  BY <1>7, <1>8, <1>9, <1>10 DEF SafetyInv

LEMMA PopulateKeeps ==
    ASSUME SafetyInv, NEW p \in Path, NEW u \in Account \cup {Null},
           NEW filled \in {feedPath, Null},
           path' = p, uid' \in Account \cup {Null}, Populate(p, u, filled)
    PROVE  SafetyInv'
<1>1. Filled(p, u, filled)
  BY DEF Filled, Populate
<1>2. CASE p \in Permalink /\ EntryPage(p, filled)
  BY <1>1, <1>2, EntryPageKeeps
<1>3. CASE p \in Feed /\ FeedPage(p, u, filled)
  BY <1>1, <1>3, FeedPageKeeps
<1>4. CASE p = Origin /\ HomePage(u, filled)
  BY <1>1, <1>4, HomePageKeeps
<1> QED
  BY <1>2, <1>3, <1>4 DEF Populate

-----------------------------------------------------------------------------
(* Answers *)

\* An answer leaves the account, the path and the homes alone.
Answered == UNCHANGED <<path, uid, homeOf, shownTo, reused>>

LEMMA AnswerEntryKeeps ==
    ASSUME SafetyInv, NEW r \in Request, r.pane = "entry",
           Answered, pulls' = pulls \ {r}, AnswerEntry(r)
    PROVE  SafetyInv'
<1>1. PageTypeOK /\ HomeIsOwners /\ FeedPageIsFeeds /\ HomeIsAccounts /\ panes \in Panes
  BY DEF SafetyInv, PageTypeOK
<1>2. /\ panes' = [panes EXCEPT !.entry = @ \cup {r.of}, !.feed = @ \cup {RepliesTo(r.of)}]
      /\ feedPath' = Null /\ failed' = failed
      /\ lateIn' = IF path = r.of THEN lateIn ELSE lateIn \cup {"entry", "feed"}
      /\ path' = path /\ uid' = uid /\ homeOf' = homeOf /\ shownTo' = shownTo
      /\ reused' = reused /\ pulls' = pulls \ {r}
  BY DEF AnswerEntry, Answered
<1>3. r.of \in Permalink
  BY DEF Request
<1>4. /\ panes' \in Panes /\ panes'.home = panes.home /\ panes'.profile = panes.profile
      /\ panes'.follows = panes.follows /\ panes'.messages = panes.messages
  BY <1>1, <1>2, <1>3, PanesAre, ItemsAre
<1>5. PageTypeOK'
  BY <1>1, <1>2, <1>4 DEF PageTypeOK
<1>6. FilledIsPath'
  BY <1>2 DEF FilledIsPath
<1>7. HomeIsOwners' /\ HomeIsAccounts'
  BY <1>1, <1>2, <1>4 DEF HomeIsOwners, HomeIsAccounts
<1>8. FeedPageIsFeeds'
  <2>1. SUFFICES ASSUME path \in Feed, ~reused PROVE FeedPageIsFeeds'
    BY <1>2 DEF FeedPageIsFeeds
  <2>2. "feed" \in lateIn' /\ ("follows" \in lateIn' <=> "follows" \in lateIn)
    BY <2>1, <1>2, <1>3, PageAssumption
  <2> QED
    BY <2>1, <2>2, <1>1, <1>2, <1>4 DEF FeedPageIsFeeds
<1> QED
  BY <1>5, <1>6, <1>7, <1>8 DEF SafetyInv

\* An answer that changes no pane.
LEMMA QuietKeeps ==
    ASSUME SafetyInv, NEW r \in Request, Answered, pulls' = pulls \ {r},
           UNCHANGED <<panes, feedPath, lateIn>>, failed' \in BOOLEAN
    PROVE  SafetyInv'
BY DEF SafetyInv, PageTypeOK, FilledIsPath, HomeIsOwners, FeedPageIsFeeds, HomeIsAccounts, Answered

LEMMA AnswerFollowsKeeps ==
    ASSUME SafetyInv, NEW r \in Request, r.pane # "entry",
           Answered, pulls' = pulls \ {r}, AnswerFollows(r, Owner(r))
    PROVE  SafetyInv'
<1>1. /\ PageTypeOK /\ FilledIsPath /\ HomeIsOwners /\ FeedPageIsFeeds /\ HomeIsAccounts
      /\ panes \in Panes
  BY DEF SafetyInv, PageTypeOK
<1>2. /\ feedPath' = feedPath /\ failed' = failed
      /\ lateIn' = IF r.of = Owner(r) THEN lateIn ELSE lateIn \cup {r.pane}
      /\ path' = path /\ uid' = uid /\ homeOf' = homeOf /\ shownTo' = shownTo
      /\ reused' = reused /\ pulls' = pulls \ {r}
  BY DEF AnswerFollows, Answered
<1>3. r.of \in Feed /\ r.pane \in {"follows", "home"}
  BY DEF Request
<1>4. lateIn' \subseteq {"entry", "feed", "follows", "home"}
  BY <1>1, <1>2, <1>3 DEF PageTypeOK
<1>5. FilledIsPath'
  BY <1>1, <1>2 DEF FilledIsPath
<1>6. CASE r.pane = "home"
  <2>1. panes' = [panes EXCEPT !.home = @ \cup {FollowsOf(r.of)}]
    BY <1>6 DEF AnswerFollows
  <2>2. /\ panes' \in Panes /\ panes'.home = panes.home \cup {FollowsOf(r.of)}
        /\ panes'.profile = panes.profile /\ panes'.feed = panes.feed
        /\ panes'.follows = panes.follows /\ panes'.messages = panes.messages
    BY <1>1, <1>3, <2>1, PanesAre, ItemsAre
  <2>3. PageTypeOK'
    BY <1>1, <1>2, <1>4, <2>2 DEF PageTypeOK
  <2>4. r.of = homeOf \/ "home" \in lateIn'
    BY <1>2, <1>6 DEF Owner
  <2>5. HomeIsOwners'
    BY <1>1, <1>2, <2>2, <2>4 DEF HomeIsOwners
  <2>6. HomeIsAccounts'
    BY <1>1, <1>2, <2>2, <2>4 DEF HomeIsAccounts
  <2>7. FeedPageIsFeeds'
    BY <1>1, <1>2, <2>2 DEF FeedPageIsFeeds
  <2> QED
    BY <1>5, <2>3, <2>5, <2>6, <2>7 DEF SafetyInv
<1>7. CASE r.pane = "follows"
  <2>1. panes' = [panes EXCEPT !.follows = @ \cup {r.of}]
    BY <1>7 DEF AnswerFollows
  <2>2. /\ panes' \in Panes /\ panes'.follows = panes.follows \cup {r.of}
        /\ panes'.profile = panes.profile /\ panes'.feed = panes.feed
        /\ panes'.home = panes.home /\ panes'.messages = panes.messages
    BY <1>1, <1>3, <2>1, PanesAre, ItemsAre
  <2>3. PageTypeOK'
    BY <1>1, <1>2, <1>4, <2>2 DEF PageTypeOK
  <2>4. "home" \in lateIn <=> "home" \in lateIn'
    BY <1>2, <1>7
  <2>5. HomeIsOwners' /\ HomeIsAccounts'
    BY <1>1, <1>2, <2>2, <2>4 DEF HomeIsOwners, HomeIsAccounts
  <2>6. path \in Feed => r.of = path \/ "follows" \in lateIn'
    BY <1>2, <1>7 DEF Owner
  <2>7. FeedPageIsFeeds'
    BY <1>1, <1>2, <2>2, <2>6 DEF FeedPageIsFeeds
  <2> QED
    BY <1>5, <2>3, <2>5, <2>7 DEF SafetyInv
<1> QED
  BY <1>3, <1>6, <1>7

LEMMA AnswerKeeps ==
    ASSUME SafetyInv, NEW r \in pulls, Answer(r)
    PROVE  SafetyInv'
<1>1. r \in Request
  BY DEF SafetyInv, PageTypeOK
<1>2. Answered /\ pulls' = pulls \ {r}
  BY DEF Answer, Answered
<1>3. CASE r.pane = "entry" /\ AnswerEntry(r)
  BY <1>1, <1>2, <1>3, AnswerEntryKeeps
<1>4. CASE FailEntry(r)
  <2>1. failed' \in BOOLEAN
    BY <1>4 DEF FailEntry, SafetyInv, PageTypeOK
  <2> QED
    BY <1>1, <1>2, <1>4, <2>1, QuietKeeps DEF FailEntry
<1>5. CASE r.pane # "entry" /\ AnswerFollows(r, Owner(r))
  BY <1>1, <1>2, <1>5, AnswerFollowsKeeps
<1>6. CASE UNCHANGED <<panes, feedPath, lateIn, failed>>
  <2>1. failed' \in BOOLEAN
    BY <1>6 DEF SafetyInv, PageTypeOK
  <2> QED
    BY <1>1, <1>2, <1>6, <2>1, QuietKeeps
<1> QED
  BY <1>3, <1>4, <1>5, <1>6 DEF Answer

-----------------------------------------------------------------------------
(* The theorems *)

LEMMA InitSafe == PageInit => SafetyInv
<1> SUFFICES ASSUME PageInit PROVE SafetyInv
  OBVIOUS
<1>1. panes \in Panes
  BY PanesAre DEF PageInit
<1>2. PageTypeOK
  BY <1>1 DEF PageInit, PageTypeOK
<1>3. FilledIsPath /\ HomeIsOwners /\ FeedPageIsFeeds /\ HomeIsAccounts
  BY PageAssumption DEF PageInit, FilledIsPath, HomeIsOwners, FeedPageIsFeeds, HomeIsAccounts
<1> QED
  BY <1>2, <1>3 DEF SafetyInv

LEMMA NextSafe == SafetyInv /\ [PageNext]_pageVars => SafetyInv'
<1> SUFFICES ASSUME SafetyInv, [PageNext]_pageVars PROVE SafetyInv'
  OBVIOUS
<1>1. PageTypeOK
  BY DEF SafetyInv
<1>2. ASSUME NEW p \in Path, Go(p) PROVE SafetyInv'
  <2>1. /\ uid \in Account \cup {Null} /\ uid' \in Account \cup {Null}
        /\ path' = p /\ Populate(p, uid, feedPath)
    BY <1>1, <1>2 DEF Go, PageTypeOK
  <2> QED
    BY <2>1, PopulateKeeps
<1>3. ASSUME NEW a \in Account, Authenticate(a) PROVE SafetyInv'
  BY <1>3 DEF Authenticate, history, SafetyInv, PageTypeOK, FilledIsPath, HomeIsOwners,
              FeedPageIsFeeds, HomeIsAccounts
<1>4. ASSUME NEW a \in Account, SignIn(a) PROVE SafetyInv'
  <2>1. /\ path \in Path /\ uid' \in Account \cup {Null}
        /\ path' = path /\ Populate(path, a, Null)
    BY <1>1, <1>4 DEF SignIn, PageTypeOK
  <2> QED
    BY <2>1, PopulateKeeps
<1>5. CASE SignOut
  <2>1. /\ uid' \in Account \cup {Null} /\ path' = path /\ Populate(path, Null, feedPath)
    BY <1>5 DEF SignOut
  <2>2. path \in Path
    BY <1>1, <2>1, PageAssumption DEF PageTypeOK, Populate, Path
  <2> QED
    BY <2>1, <2>2, PopulateKeeps
<1>6. ASSUME NEW r \in pulls, Answer(r) PROVE SafetyInv'
  BY <1>6, AnswerKeeps
<1>7. CASE UNCHANGED pageVars
  BY <1>7 DEF pageVars, history, SafetyInv, PageTypeOK, FilledIsPath, HomeIsOwners,
              FeedPageIsFeeds, HomeIsAccounts
<1> QED
  BY <1>2, <1>3, <1>4, <1>5, <1>6, <1>7 DEF PageNext

\* In every state the path, the account, the panes and the requests are of
\* their types: no pane is told to show what is not for it
\* (controller.js:1316-1520).
THEOREM TypeCorrect == PageSpec => []PageTypeOK
<1>1. PageSpec => []SafetyInv
  BY InitSafe, NextSafe, PTL DEF PageSpec
<1>2. SafetyInv => PageTypeOK
  BY DEF SafetyInv
<1> QED
  BY <1>1, <1>2, PTL

\* However the user walks about and signs in and out, and whatever answers come
\* when, the page of a feed that has just been filled shows that feed
\* (controller.js:1398-1445, :1341-1348).
THEOREM FeedPageIsFeedsHolds == PageSpec => []FeedPageIsFeeds
<1>1. PageSpec => []SafetyInv
  BY InitSafe, NextSafe, PTL DEF PageSpec
<1>2. SafetyInv => FeedPageIsFeeds
  BY DEF SafetyInv
<1> QED
  BY <1>1, <1>2, PTL

\* The home page is that of the account for which it was filled, and of no
\* other (controller.js:1474-1520, :832-848).
THEOREM HomeIsAccountsHolds == PageSpec => []HomeIsAccounts
<1>1. PageSpec => []SafetyInv
  BY InitSafe, NextSafe, PTL DEF PageSpec
<1>2. SafetyInv => HomeIsAccounts
  BY DEF SafetyInv
<1> QED
  BY <1>1, <1>2, PTL


-----------------------------------------------------------------------------
(* Renderer: the parts of the inductive invariant.  A column is a value here, *)
(* because answers add to one more than once.                                *)

\* The fetches of roots: one at a time for a root and page, and what waits for
\* a root belongs under it.
PullsApart(c) ==
    \A p \in c.pulls :
        /\ p.page <= resets
        /\ Verb[p.root] = "post"
        /\ \A e \in Entry : p.waiting[e] > 0 => Verb[e] # "post" /\ Root[e] = p.root
        /\ \A o \in c.pulls : o.root = p.root /\ o.page = p.page => o = p

Current(c) == {p \in c.pulls : p.page = resets}

\* A root that is fetched has its dummy, unless a fetch for an earlier page has
\* brought it; and a dummy's root is fetched, or was not found.
DummiesFetched(c) ==
    /\ \A p \in Current(c) :
          \/ c.known[p.root] = "dummy"
          \/ c.known[p.root] = "card" /\ p.root \in c.stray
    /\ \A r \in Entry : c.known[r] = "dummy" =>
          r \in c.rootless \/ \E p \in Current(c) : p.root = r

\* Posts are registered when and only when they are shown.
PostsRegistered(c) ==
    \A e \in Entry : Verb[e] = "post" =>
        /\ c.known[e] = "card" <=> c.cards[e] > 0
        /\ e \notin c.stray => c.cards[e] <= 1
        /\ e \notin c.firsts

\* How often an entry may have been handed to the column and accepted.
Budget(c, e) ==
    (IF c.known[e] = "card" THEN 1 ELSE 0) + (IF e \in c.firsts THEN 1 ELSE 0)

\* Replies and shares are shown or wait as often as they were accepted, and
\* they are shown under a root that is shown.
KidsCounted(c) ==
    \A e \in Entry : Verb[e] # "post" =>
        /\ c.known[e] # "dummy"
        /\ e \in c.firsts => c.known[Root[e]] # "none"
        /\ c.cards[e] > 0 => c.cards[Root[e]] > 0
        /\ e \notin c.stray => c.cards[e] <= Budget(c, e)
        /\ \A p \in Current(c) : p.root = Root[e] =>
              /\ p.waiting[e] <= Budget(c, e)
              /\ e \notin c.stray => c.cards[e] + p.waiting[e] <= Budget(c, e)

\* KidsPlaced, of any column.
PlacedIn(c) ==
    \A e \in Entry : c.known[e] = "card" /\ c.cards[e] = 0 =>
        \/ \E p \in Current(c) : p.waiting[e] > 0
        \/ Root[e] \in c.rootless \cup c.mixed

ColumnInv(c) ==
    /\ c \in ColumnType
    /\ PullsApart(c) /\ DummiesFetched(c) /\ PostsRegistered(c)
    /\ KidsCounted(c) /\ PlacedIn(c)

\* The feed that was polled last is a tight one: what is older than its newest
\* entry and not in it is older than all of it, or came late.
FeedTight ==
    \A q \in Query :
        /\ feed[q] \subseteq posted \cap Matches[q]
        /\ \A e \in (posted \cap Matches[q]) \ (late \cup feed[q]) :
              e <= Latest(q) => \A x \in feed[q] : e < x

RendererInv == TypeOK /\ ColumnInv(column) /\ FeedTight /\ GapOnlyByLoss

-----------------------------------------------------------------------------
(* Sets of entries, and the newest of them *)

LEMMA EntriesAreNat ==
    \A e \in Entry : e \in Nat /\ e > 0 /\ ~(e <= 0) /\ e # 0
<1>1. Entry \subseteq Nat \ {0}
  BY RendererAssumption
<1> QED
  BY <1>1

\* A set of natural numbers has a least element.
LEMMA LeastOf ==
    ASSUME NEW T, T \subseteq Nat, T # {}
    PROVE  \E x \in T : \A y \in T : x <= y
<1> DEFINE R == OpToRel(<, Nat)
<1>1. IsWellFoundedOn(R, Nat)
  BY NatLessThanWellFounded
<1>2. \A x, y \in Nat : x < y => <<x, y>> \in R
  BY DEF OpToRel
<1> HIDE DEF R
<1>3. PICK x \in T : \A y \in T : ~(<<y, x>> \in R)
  BY <1>1, WFMin
<1>4. \A y \in T : ~(y < x)
  BY <1>2, <1>3
<1>5. x \in Nat /\ \A y \in T : y \in Nat
  OBVIOUS
<1> QED
  BY <1>4, <1>5

\* A finite one has a greatest: the one with the fewest at or above it.
LEMMA GreatestOf ==
    ASSUME NEW T, T \subseteq Nat, IsFiniteSet(T), T # {}
    PROVE  \E x \in T : \A y \in T : x >= y
<1> DEFINE Above(x) == {y \in T : y >= x}
           F == FiniteSubsetsOf(T)
           R == StrictSubsetOrdering(T)
<1>1. IsWellFoundedOn(R, F)
  BY FS_StrictSubsetOrderingWellFounded
<1>2. \A x \in T : Above(x) \in F
  BY FS_Subset DEF FiniteSubsetsOf
<1>3. \A x, y \in T : y > x => <<Above(y), Above(x)>> \in R
  <2> SUFFICES ASSUME NEW x \in T, NEW y \in T, y > x
               PROVE  <<Above(y), Above(x)>> \in R
    OBVIOUS
  <2>1. x \in Nat /\ y \in Nat /\ \A z \in T : z \in Nat
    OBVIOUS
  <2>2. \A z \in T : z >= y => z >= x
    BY <2>1
  <2>3. Above(y) \subseteq Above(x)
    BY <2>2
  <2>4. x \in Above(x) /\ x \notin Above(y)
    BY <2>1
  <2> QED
    BY <2>3, <2>4 DEF StrictSubsetOrdering
<1> DEFINE Aboves == {Above(x) : x \in T}
<1>4. Aboves \subseteq F /\ Aboves # {}
  BY <1>2
<1> HIDE DEF R, F
<1>5. PICK A \in Aboves : \A B \in Aboves : ~(<<B, A>> \in R)
  BY <1>1, <1>4, WFMin
<1>6. PICK x \in T : A = Above(x)
  BY <1>5
<1>7. \A y \in T : ~(y > x)
  BY <1>3, <1>5, <1>6
<1> QED
  BY <1>7

\* The greatest and the least of a set of entries are in it.
LEMMA MaxOfEntries ==
    ASSUME NEW T \in SUBSET (Entry \cup {0}), T # {}
    PROVE  Max(T) \in T /\ \A y \in T : y <= Max(T)
<1>1. T \subseteq Nat
  BY RendererAssumption
<1>2. IsFiniteSet(Entry \cup {0})
  BY RendererAssumption, FS_AddElement
<1>3. IsFiniteSet(T)
  BY <1>2, FS_Subset
<1>4. \E x \in T : \A y \in T : x >= y
  BY <1>1, <1>3, GreatestOf
<1>5. Max(T) \in T /\ \A y \in T : Max(T) >= y
  BY <1>4 DEF Max
<1> QED
  BY <1>5, <1>1

LEMMA MinOfEntries ==
    ASSUME NEW T \in SUBSET Entry, T # {}
    PROVE  Min(T) \in T /\ \A y \in T : Min(T) <= y
<1>1. \E x \in T : \A y \in T : x <= y
  BY LeastOf, RendererAssumption
<1> QED
  BY <1>1 DEF Min

\* What is not among the newest is older than all of them.
LEMMA NewestAreNewer ==
    ASSUME NEW T \in SUBSET Entry, NEW n \in Nat \ {0}
    PROVE  /\ Newest(T, n) \subseteq T
           /\ T # {} => Newest(T, n) # {}
           /\ \A e \in T \ Newest(T, n) : \A x \in Newest(T, n) : e < x
<1>1. IsFiniteSet(T) /\ T \subseteq Nat /\ \A y \in T : y \in Nat
  BY RendererAssumption, FS_Subset
<1>2. \A e \in T : IsFiniteSet(NewerIn(T, e)) /\ Cardinality(NewerIn(T, e)) \in Nat
  <2>1. \A e \in T : NewerIn(T, e) \in SUBSET T
    BY DEF NewerIn
  <2> QED
    BY <1>1, <2>1, FS_Subset, FS_CardinalityType
<1>3. ASSUME NEW e \in T \ Newest(T, n), NEW x \in Newest(T, n)
      PROVE  e < x
  <2>1. x \in T /\ Cardinality(NewerIn(T, x)) < n /\ ~(Cardinality(NewerIn(T, e)) < n)
    BY <1>3 DEF Newest
  <2>2. ~(x < e)
    <3> SUFFICES ASSUME x < e PROVE FALSE
      OBVIOUS
    <3>1. NewerIn(T, e) \in SUBSET NewerIn(T, x)
      <4>1. \A y \in T : e < y => x < y
        BY <1>1, <2>1, <1>3
      <4> QED
        BY <4>1 DEF NewerIn
    <3>2. Cardinality(NewerIn(T, e)) <= Cardinality(NewerIn(T, x))
      BY <3>1, <2>1, <1>2, FS_Subset
    <3> QED
      BY <3>2, <2>1, <1>2
  <2>3. x # e
    BY <1>3
  <2> QED
    BY <2>1, <2>2, <2>3, <1>1
<1>4. ASSUME T # {} PROVE Newest(T, n) # {}
  <2>1. PICK m \in T : \A y \in T : m >= y
    BY <1>1, <1>4, GreatestOf
  <2>2. NewerIn(T, m) = {}
    <3>1. \A y \in T : ~(m < y)
      BY <1>1, <2>1
    <3> QED
      BY <3>1 DEF NewerIn
  <2>3. m \in Newest(T, n)
    BY <2>2, FS_EmptySet DEF Newest
  <2> QED
    BY <2>3
<1> QED
  BY <1>3, <1>4 DEF Newest

\* The same, of the answer to a request: it has no gaps but before its oldest.
LEMMA AnswerIsTight ==
    ASSUME NEW T \in SUBSET Entry, NEW after \in Nat, NEW before \in Nat, NEW n \in Nat \ {0}
    PROVE  LET S == EntryIds(T, after, before, n) IN
           /\ S \subseteq Between(T, after, before)
           /\ S \subseteq T
           /\ \A e \in Between(T, after, before) \ S : S # {} /\ \A x \in S : e < x
<1>1. Between(T, after, before) \in SUBSET Entry /\ Between(T, after, before) \subseteq T
  BY DEF Between
<1> QED
  BY <1>1, NewestAreNewer DEF EntryIds

-----------------------------------------------------------------------------
(* What Added does, field by field *)

Placed(c, S) == {e \in Kids(c, S) : c.known[Root[e]] = "card"}
Firsts(c, S) == {First(c, S, r) : r \in Awaited(c, S)}
AllPulls(c, S) == c.pulls \cup {PullOf(Root[e], Verb[e]) : e \in Firsts(c, S)}
Mine(c, S, p) == {e \in Kids(c, S) \ Placed(c, S) : p.page = resets /\ p.root = Root[e]}
Taken(c, S, p) == {e \in Mine(c, S, p) : p.verb = Verb[e]}
Served(c, S, p) ==
    [p EXCEPT !.waiting = [e \in Entry |-> IF e \in Taken(c, S, p) THEN @[e] + 1 ELSE @[e]]]

LEMMA AddedIs ==
    ASSUME NEW c \in ColumnType, NEW S \in SUBSET Entry
    PROVE  LET a == Added(c, S) IN
           /\ a.cards = [e \in Entry |-> IF e \in Tops(c, S) \cup Placed(c, S)
                                         THEN c.cards[e] + 1 ELSE c.cards[e]]
           /\ a.known = [e \in Entry |->
                            IF e \in Awaited(c, S) THEN "dummy"
                            ELSE IF e \in (Tops(c, S) \cup Kids(c, S)) \ Firsts(c, S)
                                 THEN "card" ELSE c.known[e]]
           /\ a.pulls = {Served(c, S, p) : p \in AllPulls(c, S)}
           /\ a.firsts = c.firsts \cup Firsts(c, S)
           /\ a.mixed = c.mixed \cup {p.root : p \in {x \in AllPulls(c, S) :
                                                     Mine(c, S, x) # Taken(c, S, x)}}
           /\ a.triggers = c.triggers /\ a.rootless = c.rootless /\ a.stray = c.stray
           /\ a = [cards |-> a.cards, known |-> a.known, pulls |-> a.pulls,
                   triggers |-> c.triggers, firsts |-> a.firsts,
                   rootless |-> c.rootless, mixed |-> a.mixed, stray |-> c.stray]
<1> DEFINE K == [e \in Entry |-> IF e \in Tops(c, S) \cup Placed(c, S)
                                 THEN c.cards[e] + 1 ELSE c.cards[e]]
           N == [e \in Entry |->
                    IF e \in Awaited(c, S) THEN "dummy"
                    ELSE IF e \in (Tops(c, S) \cup Kids(c, S)) \ Firsts(c, S)
                         THEN "card" ELSE c.known[e]]
           P == {Served(c, S, p) : p \in AllPulls(c, S)}
           F == c.firsts \cup Firsts(c, S)
           M == c.mixed \cup {p.root : p \in {x \in AllPulls(c, S) :
                                                Mine(c, S, x) # Taken(c, S, x)}}
<1>1. Added(c, S) = [c EXCEPT !.cards = K, !.known = N, !.pulls = P, !.firsts = F, !.mixed = M]
  BY Zenon DEF Added, Placed, Firsts, AllPulls, Mine, Taken, Served
<1> HIDE DEF K, N, P, F, M
<1> DEFINE a == Added(c, S)
<1>2. /\ a.cards = K /\ a.known = N /\ a.pulls = P /\ a.firsts = F /\ a.mixed = M
      /\ a.triggers = c.triggers /\ a.rootless = c.rootless /\ a.stray = c.stray
  BY <1>1 DEF ColumnType
<1>3. a \in [cards : {K}, known : {N}, pulls : {P}, triggers : SUBSET Span, firsts : {F},
             rootless : SUBSET Entry, mixed : {M}, stray : SUBSET Entry]
  BY <1>1 DEF ColumnType
<1>4. a = [cards |-> a.cards, known |-> a.known, pulls |-> a.pulls, triggers |-> a.triggers,
           firsts |-> a.firsts, rootless |-> a.rootless, mixed |-> a.mixed, stray |-> a.stray]
  BY <1>3
<1> QED
  BY <1>2, <1>4 DEF K, N, P, F, M

\* A reply or share is younger than its root, which is a post.
LEMMA RootsArePosts ==
    ASSUME NEW e \in Entry
    PROVE  /\ e \in Nat /\ e > 0
           /\ Root[e] \in Entry /\ Verb[Root[e]] = "post"
           /\ Verb[e] = "post" => Root[e] = e
           /\ Verb[e] # "post" => Root[e] # e /\ Verb[e] \in {"reply", "share"}
BY RendererAssumption

\* Who begins the fetch of a root, and what is registered of both.
LEMMA FirstsAreKids ==
    ASSUME NEW c \in ColumnType, NEW S \in SUBSET Entry
    PROVE  /\ \A r \in Awaited(c, S) :
                 /\ r \in Entry /\ Verb[r] = "post" /\ c.known[r] = "none"
                 /\ First(c, S, r) \in Firsts(c, S) /\ Root[First(c, S, r)] = r
           /\ \A e \in Firsts(c, S) :
                 /\ e \in Kids(c, S) /\ Root[e] \in Awaited(c, S)
                 /\ e = First(c, S, Root[e])
                 /\ e \in Entry /\ c.known[e] = "none" /\ Verb[e] # "post"
           /\ \A e \in Kids(c, S) :
                 /\ e \in S /\ e \in Entry /\ c.known[e] = "none" /\ Verb[e] # "post"
                 /\ c.known[Root[e]] = "none" => Root[e] \in Awaited(c, S)
           /\ \A e \in Tops(c, S) :
                 /\ e \in S /\ e \in Entry /\ c.known[e] = "none" /\ Verb[e] = "post"
                 /\ e \notin Awaited(c, S)
<1>1. \A e \in Kids(c, S) :
         /\ e \in S /\ e \in Entry /\ c.known[e] = "none" /\ Verb[e] # "post"
         /\ c.known[Root[e]] = "none" => Root[e] \in Awaited(c, S)
  BY DEF Kids, IsNew, Awaited
<1>2. ASSUME NEW r \in Awaited(c, S)
      PROVE  /\ r \in Entry /\ Verb[r] = "post" /\ c.known[r] = "none"
             /\ First(c, S, r) \in Kids(c, S) /\ Root[First(c, S, r)] = r
             /\ First(c, S, r) \in Firsts(c, S)
  <2>1. PICK k \in Kids(c, S) : r = Root[k] /\ c.known[r] = "none"
    BY DEF Awaited, IsNew
  <2> DEFINE T == {e \in Kids(c, S) : Root[e] = r}
  <2>2. T \in SUBSET (Entry \cup {0}) /\ T # {}
    BY <1>1, <2>1
  <2>3. Max(T) \in T
    BY <2>2, MaxOfEntries
  <2>4. First(c, S, r) = Max(T)
    BY DEF First
  <2> QED
    BY <1>1, <2>1, <2>3, <2>4, RootsArePosts DEF Firsts
<1>3. \A e \in Firsts(c, S) :
         e \in Kids(c, S) /\ Root[e] \in Awaited(c, S) /\ e = First(c, S, Root[e])
  BY <1>2 DEF Firsts
<1>4. \A e \in Tops(c, S) :
         /\ e \in S /\ e \in Entry /\ c.known[e] = "none" /\ Verb[e] = "post"
         /\ e \notin Awaited(c, S)
  BY DEF Tops, IsNew
<1> QED
  BY <1>1, <1>2, <1>3, <1>4

\* What becomes of an entry.
LEMMA AddedPoints ==
    ASSUME NEW c \in ColumnType, NEW S \in SUBSET Entry, NEW e \in Entry
    PROVE  LET a == Added(c, S) IN
           /\ a.cards[e] = IF e \in Tops(c, S) \cup Placed(c, S)
                           THEN c.cards[e] + 1 ELSE c.cards[e]
           /\ a.known[e] = IF e \in Awaited(c, S) THEN "dummy"
                           ELSE IF e \in (Tops(c, S) \cup Kids(c, S)) \ Firsts(c, S)
                                THEN "card" ELSE c.known[e]
           /\ a.firsts = c.firsts \cup Firsts(c, S)
           /\ a.rootless = c.rootless /\ a.stray = c.stray /\ c.mixed \subseteq a.mixed
           /\ c.cards[e] \in Nat /\ a.cards[e] \in Nat
           /\ c.known[e] \in {"none", "card", "dummy"}
<1>1. c.cards[e] \in Nat /\ c.known[e] \in {"none", "card", "dummy"}
  BY DEF ColumnType
<1> DEFINE a == Added(c, S)
<1>2. /\ a.cards = [x \in Entry |-> IF x \in Tops(c, S) \cup Placed(c, S)
                                  THEN c.cards[x] + 1 ELSE c.cards[x]]
      /\ a.known = [x \in Entry |->
                      IF x \in Awaited(c, S) THEN "dummy"
                      ELSE IF x \in (Tops(c, S) \cup Kids(c, S)) \ Firsts(c, S)
                           THEN "card" ELSE c.known[x]]
      /\ a.firsts = c.firsts \cup Firsts(c, S)
      /\ a.rootless = c.rootless /\ a.stray = c.stray /\ c.mixed \subseteq a.mixed
  BY AddedIs
<1> HIDE DEF a
<1>3. a.cards[e] = IF e \in Tops(c, S) \cup Placed(c, S) THEN c.cards[e] + 1 ELSE c.cards[e]
  BY <1>2
<1>4. a.known[e] = IF e \in Awaited(c, S) THEN "dummy"
                   ELSE IF e \in (Tops(c, S) \cup Kids(c, S)) \ Firsts(c, S)
                        THEN "card" ELSE c.known[e]
  BY <1>2
<1> QED
  BY <1>1, <1>2, <1>3, <1>4 DEF a

\* The pulls there are then: those of before and the new ones.
LEMMA PullsServed ==
    ASSUME NEW c \in ColumnType, resets \in 0..MaxResets, NEW S \in SUBSET Entry,
           NEW p \in AllPulls(c, S)
    PROVE  /\ \/ p \in c.pulls
              \/ /\ p.page = resets /\ p.root \in Awaited(c, S) /\ p.waiting = [e \in Entry |-> 0]
                 /\ \E k \in Firsts(c, S) : p = PullOf(p.root, Verb[k]) /\ Root[k] = p.root
           /\ p.root \in Entry /\ p.page \in 0..MaxResets /\ p \in Pull
           /\ Served(c, S, p).root = p.root /\ Served(c, S, p).page = p.page
           /\ Served(c, S, p).verb = p.verb /\ p.verb \in {"reply", "share"}
           /\ Served(c, S, p) = [root |-> p.root, verb |-> p.verb, page |-> p.page,
                                 waiting |-> Served(c, S, p).waiting]
           /\ Served(c, S, p).waiting =
                [e \in Entry |-> IF e \in Taken(c, S, p) THEN p.waiting[e] + 1 ELSE p.waiting[e]]
<1>1. \/ p \in c.pulls /\ p \in Pull
      \/ \E k \in Firsts(c, S) : p = PullOf(Root[k], Verb[k])
  BY DEF AllPulls, ColumnType
<1>2. ASSUME NEW k \in Firsts(c, S), p = PullOf(Root[k], Verb[k])
      PROVE  /\ p.page = resets /\ p.root = Root[k] /\ p.waiting = [e \in Entry |-> 0]
             /\ Root[k] \in Awaited(c, S) /\ p \in Pull
  <2>1. k \in Entry /\ Verb[k] \in {"reply", "share"} /\ Root[k] \in Entry
        /\ Root[k] \in Awaited(c, S)
    BY FirstsAreKids, RootsArePosts
  <2> QED
    BY <1>2, <2>1 DEF PullOf, Pull
<1>3. p \in Pull
  BY <1>1, <1>2
<1> DEFINE s == Served(c, S, p)
           W == [e \in Entry |-> IF e \in Taken(c, S, p) THEN p.waiting[e] + 1 ELSE p.waiting[e]]
<1>4. s = [p EXCEPT !.waiting = W]
  BY Zenon DEF Served
<1>5. /\ s.root = p.root /\ s.page = p.page /\ s.verb = p.verb /\ s.waiting = W
      /\ s \in [root : Entry, verb : {"reply", "share"}, page : 0..MaxResets, waiting : {W}]
  BY <1>3, <1>4 DEF Pull
<1>6. s = [root |-> s.root, verb |-> s.verb, page |-> s.page, waiting |-> s.waiting]
  BY <1>5
<1>7. p.root \in Entry /\ p.page \in 0..MaxResets /\ p.verb \in {"reply", "share"}
  BY <1>3 DEF Pull
<1>8. \/ p \in c.pulls
      \/ /\ p.page = resets /\ p.root \in Awaited(c, S) /\ p.waiting = [e \in Entry |-> 0]
         /\ \E k \in Firsts(c, S) : p = PullOf(p.root, Verb[k]) /\ Root[k] = p.root
  BY <1>1, <1>2
<1> QED
  BY <1>3, <1>5, <1>6, <1>7, <1>8

-----------------------------------------------------------------------------
(* Adding entries keeps the invariant *)

\* The pulls of the new column are those of AllPulls, with more that waits.
LEMMA AddedWaits ==
    ASSUME NEW c, ColumnInv(c), resets \in 0..MaxResets, NEW S \in SUBSET Entry,
           NEW p \in AllPulls(c, S)
    PROVE  /\ p.page <= resets /\ Verb[p.root] = "post"
           /\ \A e \in Entry :
                 /\ p.waiting[e] \in 0..2
                 /\ p.waiting[e] > 0 => Verb[e] # "post" /\ Root[e] = p.root
           /\ \A e \in Taken(c, S, p) :
                 /\ e \in Kids(c, S) \ Placed(c, S) /\ e \in Entry
                 /\ p.page = resets /\ p.root = Root[e]
                 /\ p.waiting[e] <= 1
<1>1. c \in ColumnType /\ PullsApart(c) /\ KidsCounted(c)
  BY DEF ColumnInv
<1>2. /\ p \in c.pulls \/ (p.root \in Awaited(c, S) /\ p.waiting = [e \in Entry |-> 0])
      /\ p.page = resets \/ p \in c.pulls
      /\ p \in Pull
  BY <1>1, PullsServed
<1>3. p.page <= resets /\ Verb[p.root] = "post"
  BY <1>1, <1>2, FirstsAreKids DEF PullsApart
<1>4. \A e \in Entry : p.waiting[e] \in 0..2
  BY <1>2 DEF Pull
<1>5. \A e \in Entry : p.waiting[e] > 0 => Verb[e] # "post" /\ Root[e] = p.root
  BY <1>1, <1>2 DEF PullsApart
<1>6. ASSUME NEW e \in Taken(c, S, p)
      PROVE  /\ e \in Kids(c, S) \ Placed(c, S) /\ e \in Entry
             /\ p.page = resets /\ p.root = Root[e]
             /\ p.waiting[e] <= 1
  <2>1. /\ e \in Kids(c, S) \ Placed(c, S) /\ p.page = resets /\ p.root = Root[e]
        /\ e \in Entry /\ c.known[e] = "none" /\ Verb[e] # "post"
    BY <1>1, FirstsAreKids DEF Taken, Mine
  <2>2. Budget(c, e) <= 1
    BY <2>1 DEF Budget
  <2>3. CASE p \in c.pulls
    <3>1. p.waiting[e] <= Budget(c, e)
      BY <2>1, <2>3, <1>1 DEF KidsCounted, Current
    <3> QED
      BY <2>1, <2>2, <3>1, <1>4 DEF Budget
  <2>4. CASE p \notin c.pulls
    BY <2>1, <2>4, <1>2
  <2> QED
    BY <2>1, <2>3, <2>4
<1> QED
  BY <1>3, <1>4, <1>5, <1>6

LEMMA AddedType ==
    ASSUME NEW c, ColumnInv(c), resets \in 0..MaxResets, NEW S \in SUBSET Entry
    PROVE  Added(c, S) \in ColumnType
<1> DEFINE a == Added(c, S)
<1>1. c \in ColumnType
  BY DEF ColumnInv
<1>2. a.cards \in [Entry -> Nat]
  <2>1. a.cards = [e \in Entry |-> IF e \in Tops(c, S) \cup Placed(c, S)
                                   THEN c.cards[e] + 1 ELSE c.cards[e]]
    BY <1>1, AddedIs
  <2>2. \A e \in Entry : c.cards[e] \in Nat /\ c.cards[e] + 1 \in Nat
    BY <1>1 DEF ColumnType
  <2> QED
    BY <2>1, <2>2
<1>3. a.known \in [Entry -> {"none", "card", "dummy"}]
  <2>1. a.known = [e \in Entry |->
                      IF e \in Awaited(c, S) THEN "dummy"
                      ELSE IF e \in (Tops(c, S) \cup Kids(c, S)) \ Firsts(c, S)
                           THEN "card" ELSE c.known[e]]
    BY <1>1, AddedIs
  <2>2. \A e \in Entry : c.known[e] \in {"none", "card", "dummy"}
    BY <1>1 DEF ColumnType
  <2> QED
    BY <2>1, <2>2
<1>4. a.pulls \subseteq Pull
  <2>1. ASSUME NEW p \in AllPulls(c, S)
        PROVE  Served(c, S, p) \in Pull
    <3> DEFINE w == Served(c, S, p).waiting
    <3>1. w = [e \in Entry |-> IF e \in Taken(c, S, p) THEN p.waiting[e] + 1 ELSE p.waiting[e]]
      BY <1>1, PullsServed
    <3>2. \A e \in Entry : (IF e \in Taken(c, S, p) THEN p.waiting[e] + 1 ELSE p.waiting[e]) \in 0..2
      BY AddedWaits
    <3>3. w \in [Entry -> 0..2]
      BY <3>1, <3>2
    <3>4. /\ Served(c, S, p) = [root |-> p.root, verb |-> p.verb, page |-> p.page, waiting |-> w]
          /\ p.root \in Entry /\ p.verb \in {"reply", "share"} /\ p.page \in 0..MaxResets
      BY <1>1, PullsServed
    <3> HIDE DEF w
    <3> QED
      BY <3>3, <3>4 DEF Pull
  <2>2. a.pulls = {Served(c, S, p) : p \in AllPulls(c, S)}
    BY <1>1, AddedIs
  <2> QED
    BY <2>1, <2>2
<1>5. a.firsts \subseteq Entry
  <2>1. a.firsts = c.firsts \cup Firsts(c, S)
    BY <1>1, AddedIs
  <2>2. c.firsts \subseteq Entry
    BY <1>1 DEF ColumnType
  <2> QED
    BY <2>1, <2>2, <1>1, FirstsAreKids
<1>6. a.mixed \subseteq Entry
  <2>1. a.mixed = c.mixed \cup {p.root : p \in {x \in AllPulls(c, S) :
                                                Mine(c, S, x) # Taken(c, S, x)}}
    BY <1>1, AddedIs
  <2>2. c.mixed \subseteq Entry
    BY <1>1 DEF ColumnType
  <2>3. \A p \in AllPulls(c, S) : p.root \in Entry
    BY <1>1, PullsServed
  <2> QED
    BY <2>1, <2>2, <2>3
<1>7. /\ a = [cards |-> a.cards, known |-> a.known, pulls |-> a.pulls,
              triggers |-> c.triggers, firsts |-> a.firsts,
              rootless |-> c.rootless, mixed |-> a.mixed, stray |-> c.stray]
  BY <1>1, AddedIs
<1>8. c.triggers \subseteq Span /\ c.rootless \subseteq Entry /\ c.stray \subseteq Entry
  BY <1>1 DEF ColumnType
<1> HIDE DEF a
<1>9. a \in ColumnType
  BY <1>2, <1>3, <1>4, <1>5, <1>6, <1>7, <1>8 DEF ColumnType
<1> QED
  BY <1>9 DEF a

LEMMA AddedPullsApart ==
    ASSUME NEW c, ColumnInv(c), resets \in 0..MaxResets, NEW S \in SUBSET Entry
    PROVE  PullsApart(Added(c, S))
<1> DEFINE a == Added(c, S)
<1>1. c \in ColumnType /\ PullsApart(c) /\ DummiesFetched(c)
  BY DEF ColumnInv
<1>2. a.pulls = {Served(c, S, p) : p \in AllPulls(c, S)}
  BY <1>1, AddedIs
<1>3. ASSUME NEW p \in AllPulls(c, S)
      PROVE  LET s == Served(c, S, p) IN
             /\ s.root = p.root /\ s.page = p.page
             /\ s.page <= resets /\ Verb[s.root] = "post"
             /\ \A e \in Entry : s.waiting[e] > 0 => Verb[e] # "post" /\ Root[e] = s.root
  <2> DEFINE s == Served(c, S, p)
  <2>1. /\ s.root = p.root /\ s.page = p.page
        /\ s.waiting = [e \in Entry |-> IF e \in Taken(c, S, p) THEN p.waiting[e] + 1
                                        ELSE p.waiting[e]]
    BY <1>1, PullsServed
  <2> HIDE DEF s
  <2>2. /\ p.page <= resets /\ Verb[p.root] = "post"
        /\ \A e \in Entry : p.waiting[e] > 0 => Verb[e] # "post" /\ Root[e] = p.root
        /\ \A e \in Taken(c, S, p) : Verb[e] # "post" /\ Root[e] = p.root
    BY AddedWaits, <1>1, FirstsAreKids
  <2>3. \A e \in Entry : s.waiting[e] = IF e \in Taken(c, S, p) THEN p.waiting[e] + 1
                                        ELSE p.waiting[e]
    BY <2>1
  <2>4. \A e \in Entry : s.waiting[e] > 0 => Verb[e] # "post" /\ Root[e] = s.root
    BY <2>1, <2>2, <2>3
  <2> QED
    BY <2>1, <2>2, <2>4 DEF s
<1>4. ASSUME NEW p \in AllPulls(c, S), NEW o \in AllPulls(c, S),
             o.root = p.root, o.page = p.page
      PROVE  o = p
  <2>1. ASSUME NEW x \in AllPulls(c, S), x \in c.pulls, x.page = resets
        PROVE  x.root \notin Awaited(c, S)
    <3>1. c.known[x.root] # "none"
      BY <2>1, <1>1 DEF DummiesFetched, Current
    <3> QED
      BY <3>1, <1>1, FirstsAreKids
  <2>2. CASE p \in c.pulls /\ o \in c.pulls
    BY <2>2, <1>1, <1>4 DEF PullsApart
  <2>3. CASE p \notin c.pulls /\ o \notin c.pulls
    <3>1. PICK k \in Firsts(c, S) : p = PullOf(Root[k], Verb[k])
      BY <2>3 DEF AllPulls
    <3>2. PICK l \in Firsts(c, S) : o = PullOf(Root[l], Verb[l])
      BY <2>3 DEF AllPulls
    <3>5. p.root = Root[k] /\ o.root = Root[l]
      BY <3>1, <3>2 DEF PullOf
    <3>3. k = First(c, S, Root[k]) /\ l = First(c, S, Root[l])
      BY <1>1, FirstsAreKids
    <3>4. k = l
      BY <3>3, <3>5, <1>4
    <3> QED
      BY <3>1, <3>2, <3>4
  <2>4. CASE p \in c.pulls /\ o \notin c.pulls
    BY <2>4, <2>1, <1>1, <1>4, PullsServed
  <2>5. CASE p \notin c.pulls /\ o \in c.pulls
    <3>1. p.page = resets /\ p.root \in Awaited(c, S)
      BY <2>5, <1>1, PullsServed
    <3>2. o.root \notin Awaited(c, S)
      BY <3>1, <2>5, <2>1, <1>4
    <3> QED
      BY <3>1, <3>2, <1>4
  <2> QED
    BY <2>2, <2>3, <2>4, <2>5
<1> HIDE DEF a
<1>5. ASSUME NEW s \in a.pulls
      PROVE  /\ s.page <= resets /\ Verb[s.root] = "post"
             /\ \A e \in Entry : s.waiting[e] > 0 => Verb[e] # "post" /\ Root[e] = s.root
             /\ \A t \in a.pulls : t.root = s.root /\ t.page = s.page => t = s
  <2>1. PICK p \in AllPulls(c, S) : s = Served(c, S, p)
    BY <1>2
  <2>2. ASSUME NEW t \in a.pulls, t.root = s.root, t.page = s.page
        PROVE  t = s
    <3>1. PICK o \in AllPulls(c, S) : t = Served(c, S, o)
      BY <1>2
    <3>2. o.root = p.root /\ o.page = p.page
      BY <2>1, <2>2, <3>1, <1>3
    <3> QED
      BY <2>1, <3>1, <3>2, <1>4
  <2> QED
    BY <2>1, <2>2, <1>3
<1>6. PullsApart(a)
  BY <1>5 DEF PullsApart
<1> QED
  BY <1>6 DEF a

\* The pulls of this page, before and after.
LEMMA AddedCurrent ==
    ASSUME NEW c, ColumnInv(c), resets \in 0..MaxResets, NEW S \in SUBSET Entry
    PROVE  /\ \A p \in AllPulls(c, S) : p.page = resets => Served(c, S, p) \in Current(Added(c, S))
           /\ \A s \in Current(Added(c, S)) :
                 \E p \in AllPulls(c, S) : p.page = resets /\ s = Served(c, S, p)
           /\ Current(c) \subseteq AllPulls(c, S)
<1>1. c \in ColumnType
  BY DEF ColumnInv
<1>2. Added(c, S).pulls = {Served(c, S, p) : p \in AllPulls(c, S)}
  BY <1>1, AddedIs
<1>3. \A p \in AllPulls(c, S) : Served(c, S, p).page = p.page
  BY <1>1, PullsServed
<1> QED
  BY <1>2, <1>3 DEF Current, AllPulls

LEMMA AddedDummies ==
    ASSUME NEW c, ColumnInv(c), resets \in 0..MaxResets, NEW S \in SUBSET Entry
    PROVE  DummiesFetched(Added(c, S))
<1> DEFINE a == Added(c, S)
<1>1. c \in ColumnType /\ DummiesFetched(c)
  BY DEF ColumnInv
<1>2. \A e \in Entry :
         /\ a.known[e] = IF e \in Awaited(c, S) THEN "dummy"
                         ELSE IF e \in (Tops(c, S) \cup Kids(c, S)) \ Firsts(c, S)
                              THEN "card" ELSE c.known[e]
         /\ a.stray = c.stray /\ a.rootless = c.rootless
  BY <1>1, AddedPoints
<1>3. \A s \in Current(a) : \E p \in AllPulls(c, S) : p.page = resets /\ s = Served(c, S, p)
  BY AddedCurrent
<1>4. \A p \in AllPulls(c, S) : p.page = resets => Served(c, S, p) \in Current(a)
  BY AddedCurrent
<1> HIDE DEF a
<1>5. ASSUME NEW s \in Current(a)
      PROVE  a.known[s.root] = "dummy" \/ (a.known[s.root] = "card" /\ s.root \in a.stray)
  <2>1. PICK p \in AllPulls(c, S) : p.page = resets /\ s = Served(c, S, p)
    BY <1>3
  <2>2. /\ s.root = p.root /\ p.root \in Entry
        /\ p \in c.pulls \/ p.root \in Awaited(c, S)
    BY <2>1, <1>1, PullsServed
  <2>3. CASE p.root \in Awaited(c, S)
    BY <2>2, <2>3, <1>2
  <2>4. CASE p \in c.pulls
    <3>1. c.known[p.root] = "dummy" \/ (c.known[p.root] = "card" /\ p.root \in c.stray)
      BY <2>1, <2>4, <1>1 DEF DummiesFetched, Current
    <3>2. p.root \notin Awaited(c, S) /\ p.root \notin Tops(c, S) /\ p.root \notin Kids(c, S)
      BY <3>1, <1>1, FirstsAreKids
    <3> QED
      BY <2>2, <3>1, <3>2, <1>2
  <2> QED
    BY <2>2, <2>3, <2>4
<1>6. ASSUME NEW r \in Entry, a.known[r] = "dummy"
      PROVE  r \in a.rootless \/ \E s \in Current(a) : s.root = r
  <2>1. CASE r \in Awaited(c, S)
    <3> DEFINE k == First(c, S, r)
               p == PullOf(r, Verb[k])
    <3>1. k \in Firsts(c, S) /\ Root[k] = r
      BY <2>1, <1>1, FirstsAreKids
    <3>2. p \in AllPulls(c, S) /\ p.root = r /\ p.page = resets
      BY <3>1 DEF AllPulls, PullOf
    <3> HIDE DEF p
    <3>3. Served(c, S, p) \in Current(a) /\ Served(c, S, p).root = r
      BY <3>2, <1>1, <1>4, PullsServed
    <3> QED
      BY <3>3
  <2>2. CASE r \notin Awaited(c, S)
    <3>1. c.known[r] = "dummy"
      BY <2>2, <1>2, <1>6
    <3>2. CASE r \in c.rootless
      BY <3>2, <1>2
    <3>3. CASE \E p \in Current(c) : p.root = r
      <4>1. PICK p \in Current(c) : p.root = r
        BY <3>3
      <4>2. p \in AllPulls(c, S) /\ p.page = resets
        BY <4>1, AddedCurrent DEF Current
      <4>3. Served(c, S, p) \in Current(a) /\ Served(c, S, p).root = r
        BY <4>1, <4>2, <1>1, <1>4, PullsServed
      <4> QED
        BY <4>3
    <3> QED
      BY <3>1, <3>2, <3>3, <1>1 DEF DummiesFetched
  <2> QED
    BY <2>1, <2>2
<1>7. DummiesFetched(a)
  BY <1>5, <1>6 DEF DummiesFetched
<1> QED
  BY <1>7 DEF a

LEMMA AddedPosts ==
    ASSUME NEW c, ColumnInv(c), resets \in 0..MaxResets, NEW S \in SUBSET Entry
    PROVE  PostsRegistered(Added(c, S))
<1> DEFINE a == Added(c, S)
<1>1. c \in ColumnType /\ PostsRegistered(c)
  BY DEF ColumnInv
<1> SUFFICES ASSUME NEW e \in Entry, Verb[e] = "post"
             PROVE  /\ a.known[e] = "card" <=> a.cards[e] > 0
                    /\ e \notin a.stray => a.cards[e] <= 1
                    /\ e \notin a.firsts
  BY DEF PostsRegistered
<1>2. /\ c.known[e] = "card" <=> c.cards[e] > 0
      /\ e \notin c.stray => c.cards[e] <= 1
      /\ e \notin c.firsts
  BY <1>1 DEF PostsRegistered
<1>3. /\ e \notin Placed(c, S) /\ e \notin Kids(c, S) /\ e \notin Firsts(c, S)
      /\ e \in Tops(c, S) \cup Awaited(c, S) => c.known[e] = "none"
      /\ e \in Tops(c, S) => e \notin Awaited(c, S)
  BY <1>1, FirstsAreKids DEF Placed
<1> QED
  BY <1>1, <1>2, <1>3, AddedPoints

\* A reply or share that is accepted counts once more, as a card under its root
\* or as one that waits for it.
LEMMA AddedKids ==
    ASSUME NEW c, ColumnInv(c), resets \in 0..MaxResets, NEW S \in SUBSET Entry
    PROVE  KidsCounted(Added(c, S))
<1> DEFINE a == Added(c, S)
<1>1. c \in ColumnType /\ KidsCounted(c) /\ PostsRegistered(c) /\ DummiesFetched(c)
  BY DEF ColumnInv
<1>2. a \in ColumnType
  BY AddedType
<1> SUFFICES ASSUME NEW e \in Entry, Verb[e] # "post"
             PROVE  /\ a.known[e] # "dummy"
                    /\ e \in a.firsts => a.known[Root[e]] # "none"
                    /\ a.cards[e] > 0 => a.cards[Root[e]] > 0
                    /\ e \notin a.stray => a.cards[e] <= Budget(a, e)
                    /\ \A s \in Current(a) : s.root = Root[e] =>
                          /\ s.waiting[e] <= Budget(a, e)
                          /\ e \notin a.stray => a.cards[e] + s.waiting[e] <= Budget(a, e)
  BY DEF KidsCounted
<1> DEFINE r == Root[e]
<1>3. r \in Entry /\ Verb[r] = "post" /\ r # e
  BY RootsArePosts
<1>4. /\ c.known[e] # "dummy"
      /\ e \in c.firsts => c.known[r] # "none"
      /\ c.cards[e] > 0 => c.cards[r] > 0
      /\ e \notin c.stray => c.cards[e] <= Budget(c, e)
      /\ \A p \in Current(c) : p.root = r =>
            /\ p.waiting[e] <= Budget(c, e)
            /\ e \notin c.stray => c.cards[e] + p.waiting[e] <= Budget(c, e)
  BY <1>1 DEF KidsCounted
<1>5. /\ c.known[r] = "card" <=> c.cards[r] > 0
  BY <1>1, <1>3 DEF PostsRegistered
<1>6. /\ e \notin Tops(c, S) /\ e \notin Awaited(c, S)
      /\ e \in Firsts(c, S) => e \in Kids(c, S) /\ r \in Awaited(c, S)
      /\ e \in Kids(c, S) => c.known[e] = "none"
      /\ e \in Kids(c, S) /\ c.known[r] = "none" => r \in Awaited(c, S)
      /\ r \in Awaited(c, S) => c.known[r] = "none"
      /\ r \notin Kids(c, S) /\ r \notin Placed(c, S) /\ r \notin Firsts(c, S)
      /\ r \in Tops(c, S) => c.known[r] = "none"
      /\ e \in Placed(c, S) <=> e \in Kids(c, S) /\ c.known[r] = "card"
  BY <1>1, <1>3, FirstsAreKids DEF Placed
<1>7. /\ a.cards[e] = IF e \in Placed(c, S) THEN c.cards[e] + 1 ELSE c.cards[e]
      /\ a.cards[r] = IF r \in Tops(c, S) THEN c.cards[r] + 1 ELSE c.cards[r]
      /\ a.known[e] = IF e \in Kids(c, S) \ Firsts(c, S) THEN "card" ELSE c.known[e]
      /\ a.known[r] = IF r \in Awaited(c, S) THEN "dummy"
                      ELSE IF r \in Tops(c, S) THEN "card" ELSE c.known[r]
      /\ a.firsts = c.firsts \cup Firsts(c, S) /\ a.stray = c.stray
      /\ c.cards[e] \in Nat /\ c.cards[r] \in Nat
      /\ c.known[e] \in {"none", "card", "dummy"} /\ c.known[r] \in {"none", "card", "dummy"}
  <2>1. a.firsts = c.firsts \cup Firsts(c, S) /\ a.stray = c.stray
    BY <1>1, AddedPoints
  <2>2. /\ a.cards[e] = IF e \in Placed(c, S) THEN c.cards[e] + 1 ELSE c.cards[e]
        /\ a.known[e] = IF e \in Kids(c, S) \ Firsts(c, S) THEN "card" ELSE c.known[e]
        /\ c.cards[e] \in Nat /\ c.known[e] \in {"none", "card", "dummy"}
    BY <1>1, <1>6, AddedPoints
  <2>3. /\ a.cards[r] = IF r \in Tops(c, S) THEN c.cards[r] + 1 ELSE c.cards[r]
        /\ a.known[r] = IF r \in Awaited(c, S) THEN "dummy"
                        ELSE IF r \in Tops(c, S) THEN "card" ELSE c.known[r]
        /\ c.cards[r] \in Nat /\ c.known[r] \in {"none", "card", "dummy"}
    BY <1>1, <1>3, <1>6, AddedPoints
  <2> QED
    BY <2>1, <2>2, <2>3
<1>8. Budget(a, e) = IF e \in Kids(c, S) THEN Budget(c, e) + 1 ELSE Budget(c, e)
  <2>1. CASE e \in Firsts(c, S)
    <3>1. e \notin c.firsts
      BY <2>1, <1>4, <1>6
    <3> QED
      BY <2>1, <3>1, <1>6, <1>7 DEF Budget
  <2>2. CASE e \notin Firsts(c, S)
    BY <2>2, <1>6, <1>7 DEF Budget
  <2> QED
    BY <2>1, <2>2
<1>9. Budget(c, e) \in Nat
  BY DEF Budget
<1>10. a.known[e] # "dummy"
  BY <1>4, <1>7
<1>11. e \in a.firsts => a.known[r] # "none"
  BY <1>4, <1>6, <1>7
<1>12. a.cards[e] > 0 => a.cards[r] > 0
  BY <1>4, <1>5, <1>6, <1>7
<1>13. e \notin a.stray => a.cards[e] <= Budget(a, e)
  BY <1>4, <1>6, <1>7, <1>8, <1>9
<1>14. ASSUME NEW s \in Current(a), s.root = r
       PROVE  /\ s.waiting[e] <= Budget(a, e)
              /\ e \notin a.stray => a.cards[e] + s.waiting[e] <= Budget(a, e)
  <2>1. PICK p \in AllPulls(c, S) : p.page = resets /\ s = Served(c, S, p)
    BY AddedCurrent
  <2>2. /\ p.root = r
        /\ p \in c.pulls \/ (r \in Awaited(c, S) /\ p.waiting[e] = 0)
        /\ s.waiting[e] = IF e \in Taken(c, S, p) THEN p.waiting[e] + 1 ELSE p.waiting[e]
    <3>1. /\ s.root = p.root
          /\ p \in c.pulls \/ (p.root \in Awaited(c, S) /\ p.waiting = [x \in Entry |-> 0])
          /\ s.waiting = [x \in Entry |-> IF x \in Taken(c, S, p) THEN p.waiting[x] + 1
                                          ELSE p.waiting[x]]
      BY <2>1, <1>1, PullsServed
    <3> QED
      BY <3>1, <1>14
  <2>3. p.waiting[e] \in 0..2 /\ (e \in Taken(c, S, p) => e \in Kids(c, S) \ Placed(c, S))
    BY AddedWaits
  <2>4. /\ p.waiting[e] <= Budget(c, e)
        /\ e \notin c.stray => c.cards[e] + p.waiting[e] <= Budget(c, e)
    <3>1. CASE p \in c.pulls
      BY <3>1, <2>1, <2>2, <1>4 DEF Current
    <3>2. CASE p \notin c.pulls
      BY <3>2, <2>2, <1>4, <1>7, <1>9
    <3> QED
      BY <3>1, <3>2
  <2> HIDE DEF a, r
  <2>5. s.waiting[e] <= Budget(a, e)
    BY <2>2, <2>3, <2>4, <1>8, <1>9
  <2>6. e \notin a.stray => a.cards[e] + s.waiting[e] <= Budget(a, e)
    <3>1. CASE e \in Placed(c, S)
      BY <3>1, <2>2, <2>3, <2>4, <1>6, <1>7, <1>8, <1>9
    <3>2. CASE e \notin Placed(c, S)
      BY <3>2, <2>2, <2>3, <2>4, <1>6, <1>7, <1>8, <1>9
    <3> QED
      BY <3>1, <3>2
  <2> QED
    BY <2>5, <2>6
<1> QED
  BY <1>10, <1>11, <1>12, <1>13, <1>14

LEMMA AddedPlaced ==
    ASSUME NEW c, ColumnInv(c), resets \in 0..MaxResets, NEW S \in SUBSET Entry
    PROVE  PlacedIn(Added(c, S))
<1> DEFINE a == Added(c, S)
<1>1. c \in ColumnType /\ PlacedIn(c) /\ DummiesFetched(c) /\ PullsApart(c)
  BY DEF ColumnInv
<1> SUFFICES ASSUME NEW e \in Entry, a.known[e] = "card", a.cards[e] = 0
             PROVE  \/ \E s \in Current(a) : s.waiting[e] > 0
                    \/ Root[e] \in a.rootless \cup a.mixed
  BY DEF PlacedIn
<1>2. /\ a.cards[e] = IF e \in Tops(c, S) \cup Placed(c, S)
                      THEN c.cards[e] + 1 ELSE c.cards[e]
      /\ a.known[e] = IF e \in Awaited(c, S) THEN "dummy"
                      ELSE IF e \in (Tops(c, S) \cup Kids(c, S)) \ Firsts(c, S)
                           THEN "card" ELSE c.known[e]
      /\ a.rootless = c.rootless /\ c.mixed \subseteq a.mixed
      /\ c.cards[e] \in Nat
  BY <1>1, AddedPoints
<1>3. a.mixed = c.mixed \cup {p.root : p \in {x \in AllPulls(c, S) :
                                             Mine(c, S, x) # Taken(c, S, x)}}
  BY <1>1, AddedIs
<1>4. \A p \in AllPulls(c, S) : p.page = resets => Served(c, S, p) \in Current(a)
  BY AddedCurrent
<1>5. \A p \in AllPulls(c, S) :
         /\ Served(c, S, p).waiting[e] = IF e \in Taken(c, S, p) THEN p.waiting[e] + 1
                                         ELSE p.waiting[e]
         /\ p.waiting[e] \in 0..2
  <2> SUFFICES ASSUME NEW p \in AllPulls(c, S)
               PROVE  /\ Served(c, S, p).waiting[e] = IF e \in Taken(c, S, p)
                                                      THEN p.waiting[e] + 1 ELSE p.waiting[e]
                      /\ p.waiting[e] \in 0..2
    OBVIOUS
  <2>1. Served(c, S, p).waiting =
          [x \in Entry |-> IF x \in Taken(c, S, p) THEN p.waiting[x] + 1 ELSE p.waiting[x]]
    BY <1>1, PullsServed
  <2> QED
    BY <2>1, AddedWaits
<1>6. c.cards[e] = 0 /\ e \notin Tops(c, S) /\ e \notin Placed(c, S) /\ e \notin Awaited(c, S)
  BY <1>2
<1> HIDE DEF a
<1>7. CASE e \in Kids(c, S) \ Firsts(c, S)
  <2> DEFINE r == Root[e]
  <2>1. /\ r \in Entry /\ c.known[r] # "card"
        /\ c.known[r] = "none" => r \in Awaited(c, S)
        /\ c.known[r] \in {"none", "card", "dummy"}
    BY <1>1, <1>6, <1>7, FirstsAreKids, RootsArePosts DEF Placed, ColumnType
  <2>2. ASSUME NEW p \in AllPulls(c, S), p.root = r, p.page = resets
        PROVE  \/ \E s \in Current(a) : s.waiting[e] > 0
               \/ r \in a.mixed
    <3>1. e \in Mine(c, S, p)
      BY <2>2, <1>6, <1>7 DEF Mine
    <3>2. CASE e \in Taken(c, S, p)
      BY <3>2, <2>2, <1>4, <1>5
    <3>3. CASE e \notin Taken(c, S, p)
      BY <3>1, <3>3, <2>2, <1>3
    <3> QED
      BY <3>2, <3>3
  <2>3. CASE c.known[r] = "none"
    <3> DEFINE k == First(c, S, r)
               p == PullOf(r, Verb[k])
    <3>1. k \in Firsts(c, S) /\ Root[k] = r
      BY <2>1, <2>3, <1>1, FirstsAreKids
    <3>2. p \in AllPulls(c, S) /\ p.root = r /\ p.page = resets
      BY <3>1 DEF AllPulls, PullOf
    <3> QED
      BY <3>2, <2>2
  <2>4. CASE c.known[r] = "dummy"
    <3>1. r \in c.rootless \/ \E p \in Current(c) : p.root = r
      BY <2>1, <2>4, <1>1 DEF DummiesFetched
    <3>2. CASE r \in c.rootless
      BY <3>2, <1>2
    <3>3. CASE \E p \in Current(c) : p.root = r
      BY <3>3, <2>2 DEF Current, AllPulls
    <3> QED
      BY <3>1, <3>2, <3>3
  <2> QED
    BY <2>1, <2>3, <2>4
<1>8. CASE e \notin Kids(c, S) \ Firsts(c, S)
  <2>1. c.known[e] = "card"
    BY <1>2, <1>6, <1>8
  <2>2. \/ \E p \in Current(c) : p.waiting[e] > 0
        \/ Root[e] \in c.rootless \cup c.mixed
    BY <2>1, <1>1, <1>6 DEF PlacedIn
  <2>3. CASE \E p \in Current(c) : p.waiting[e] > 0
    <3>1. PICK p \in Current(c) : p.waiting[e] > 0
      BY <2>3
    <3>2. p \in AllPulls(c, S) /\ p.page = resets
      BY <3>1 DEF Current, AllPulls
    <3> QED
      BY <3>1, <3>2, <1>4, <1>5
  <2> QED
    BY <2>2, <2>3, <1>2
<1> QED
  BY <1>7, <1>8

LEMMA AddedKeeps ==
    ASSUME NEW c, ColumnInv(c), resets \in 0..MaxResets, NEW S \in SUBSET Entry
    PROVE  ColumnInv(Added(c, S))
BY AddedType, AddedPullsApart, AddedDummies, AddedPosts, AddedKids, AddedPlaced DEF ColumnInv

-----------------------------------------------------------------------------
(* A root that is found, or not *)

\* What is added to a column in which a root is not registered is that root.
LEMMA AddedRoot ==
    ASSUME NEW c \in ColumnType, resets \in 0..MaxResets,
           NEW r \in Entry, Verb[r] = "post", c.known[r] = "none"
    PROVE  LET a == Added(c, {r}) IN
           /\ a.cards = [e \in Entry |-> IF e = r THEN c.cards[e] + 1 ELSE c.cards[e]]
           /\ a.known = [e \in Entry |-> IF e = r THEN "card" ELSE c.known[e]]
           /\ a.pulls = c.pulls /\ a.firsts = c.firsts /\ a.mixed = c.mixed
           /\ a.triggers = c.triggers /\ a.rootless = c.rootless /\ a.stray = c.stray
           /\ a \in ColumnType
<1> DEFINE S == {r}
           a == Added(c, S)
<1>0. S \in SUBSET Entry /\ \A e : e \in S <=> e = r
  OBVIOUS
<1> HIDE DEF S
<1>1. Kids(c, S) = {}
  BY <1>0 DEF Kids
<1>2. Awaited(c, S) = {} /\ Placed(c, S) = {}
  BY <1>1 DEF Awaited, Placed
<1>3. Firsts(c, S) = {} /\ Tops(c, S) = {r}
  BY <1>0, <1>2 DEF Firsts, Tops, IsNew
<1>4. AllPulls(c, S) = c.pulls
  BY <1>3 DEF AllPulls
<1>5. \A p \in c.pulls : Mine(c, S, p) = {} /\ Taken(c, S, p) = {}
  BY <1>1 DEF Mine, Taken
<1>6. ASSUME NEW p \in c.pulls
      PROVE  Served(c, S, p) = p
  <2>1. p \in Pull
    BY DEF ColumnType
  <2>2. /\ Served(c, S, p) = [root |-> p.root, verb |-> p.verb, page |-> p.page,
                                waiting |-> Served(c, S, p).waiting]
        /\ Served(c, S, p).waiting =
              [e \in Entry |-> IF e \in Taken(c, S, p) THEN p.waiting[e] + 1
                               ELSE p.waiting[e]]
    <3>1. p \in AllPulls(c, S)
      BY <1>4
    <3> QED
      BY <1>0, <3>1, PullsServed
  <2>3. Served(c, S, p).waiting = [e \in Entry |-> p.waiting[e]]
    BY <2>2, <1>5
  <2>4. p.waiting = [e \in Entry |-> p.waiting[e]]
    BY <2>1 DEF Pull
  <2>5. p = [root |-> p.root, verb |-> p.verb, page |-> p.page, waiting |-> p.waiting]
    BY <2>1 DEF Pull
  <2> QED
    BY <2>2, <2>3, <2>4, <2>5
<1>7. /\ a.cards = [e \in Entry |-> IF e \in Tops(c, S) \cup Placed(c, S)
                                    THEN c.cards[e] + 1 ELSE c.cards[e]]
      /\ a.known = [e \in Entry |->
                       IF e \in Awaited(c, S) THEN "dummy"
                       ELSE IF e \in (Tops(c, S) \cup Kids(c, S)) \ Firsts(c, S)
                            THEN "card" ELSE c.known[e]]
      /\ a.pulls = {Served(c, S, p) : p \in AllPulls(c, S)}
      /\ a.firsts = c.firsts \cup Firsts(c, S)
      /\ a.mixed = c.mixed \cup {p.root : p \in {x \in AllPulls(c, S) :
                                                Mine(c, S, x) # Taken(c, S, x)}}
      /\ a.triggers = c.triggers /\ a.rootless = c.rootless /\ a.stray = c.stray
      /\ a = [cards |-> a.cards, known |-> a.known, pulls |-> a.pulls,
              triggers |-> c.triggers, firsts |-> a.firsts,
              rootless |-> c.rootless, mixed |-> a.mixed, stray |-> c.stray]
  BY <1>0, AddedIs
<1> HIDE DEF a
<1>8. a.cards = [e \in Entry |-> IF e = r THEN c.cards[e] + 1 ELSE c.cards[e]]
  BY <1>2, <1>3, <1>7
<1>9. a.known = [e \in Entry |-> IF e = r THEN "card" ELSE c.known[e]]
  BY <1>1, <1>2, <1>3, <1>7
<1>10. a.pulls = c.pulls
  <2>1. a.pulls = {Served(c, S, p) : p \in c.pulls}
    BY <1>4, <1>7
  <2> QED
    BY <1>6, <2>1
<1>11. a.firsts = c.firsts /\ a.mixed = c.mixed
  <2>1. {x \in AllPulls(c, S) : Mine(c, S, x) # Taken(c, S, x)} = {}
    BY <1>4, <1>5
  <2>2. a.mixed = c.mixed \cup {}
    BY <1>7, <2>1
  <2> QED
    BY <1>3, <1>7, <2>2
<1>12. a \in ColumnType
  <2>1. a.cards \in [Entry -> Nat] /\ a.known \in [Entry -> {"none", "card", "dummy"}]
    BY <1>8, <1>9 DEF ColumnType
  <2>2. /\ c.pulls \subseteq Pull /\ c.triggers \subseteq Span /\ c.firsts \subseteq Entry
        /\ c.rootless \subseteq Entry /\ c.mixed \subseteq Entry /\ c.stray \subseteq Entry
    BY DEF ColumnType
  <2> QED
    BY <1>7, <1>10, <1>11, <2>1, <2>2 DEF ColumnType
<1> QED
  BY <1>7, <1>8, <1>9, <1>10, <1>11, <1>12 DEF a, S

\* The column after a root has been found, field by field.
LEMMA RootFoundIs ==
    ASSUME ColumnInv(column), resets \in 0..MaxResets, NEW p \in column.pulls, RootFound(p)
    PROVE  /\ column' \in ColumnType
           /\ \A e \in Entry :
                /\ column'.cards[e] = (IF e = p.root THEN column.cards[e] + 1
                                       ELSE column.cards[e]) + p.waiting[e]
                /\ column'.known[e] = IF e = p.root THEN "card" ELSE column.known[e]
                /\ column.cards[e] \in Nat /\ p.waiting[e] \in 0..2
           /\ column'.pulls = column.pulls \ {p}
           /\ column'.firsts = column.firsts /\ column'.mixed = column.mixed
           /\ column'.triggers = column.triggers /\ column'.rootless = column.rootless
           /\ column'.stray = IF p.page = resets THEN column.stray
                              ELSE column.stray \cup
                                   {e \in Entry : e = p.root \/ p.waiting[e] > 0}
<1> DEFINE c == [column EXCEPT !.known[p.root] = "none", !.pulls = @ \ {p}]
           a == Added(c, {p.root})
           K == [e \in Entry |-> a.cards[e] + p.waiting[e]]
           S == IF p.page = resets THEN a.stray
                ELSE a.stray \cup {e \in Entry : e = p.root \/ p.waiting[e] > 0}
<1>1. column \in ColumnType /\ Verb[p.root] = "post" /\ p \in Pull
  BY DEF ColumnInv, PullsApart, ColumnType
<1>2. p.root \in Entry /\ \A e \in Entry : p.waiting[e] \in 0..2
  BY <1>1 DEF Pull
<1>3. /\ c.cards = column.cards /\ c.known = [column.known EXCEPT ![p.root] = "none"]
      /\ c.pulls = column.pulls \ {p} /\ c.triggers = column.triggers
      /\ c.firsts = column.firsts /\ c.rootless = column.rootless
      /\ c.mixed = column.mixed /\ c.stray = column.stray
  BY <1>1 DEF ColumnType
<1>4. c \in ColumnType
  <2>1. [column.known EXCEPT ![p.root] = "none"] \in [Entry -> {"none", "card", "dummy"}]
    BY <1>1 DEF ColumnType
  <2>2. column.pulls \ {p} \in SUBSET Pull
    BY <1>1 DEF ColumnType
  <2> QED
    BY <1>1, <2>1, <2>2 DEF ColumnType
<1>5. c.known[p.root] = "none"
  BY <1>1, <1>2, <1>3 DEF ColumnType
<1>6. column' = [a EXCEPT !.cards = K, !.stray = S]
  BY Zenon DEF RootFound
<1> HIDE DEF c
<1>7. /\ a.cards = [e \in Entry |-> IF e = p.root THEN c.cards[e] + 1 ELSE c.cards[e]]
      /\ a.known = [e \in Entry |-> IF e = p.root THEN "card" ELSE c.known[e]]
      /\ a.pulls = c.pulls /\ a.firsts = c.firsts /\ a.mixed = c.mixed
      /\ a.triggers = c.triggers /\ a.rootless = c.rootless /\ a.stray = c.stray
      /\ a \in ColumnType
  BY <1>1, <1>2, <1>4, <1>5, AddedRoot
<1> HIDE DEF a, K, S
<1>8. /\ column'.cards = K /\ column'.stray = S
      /\ column'.known = a.known /\ column'.pulls = a.pulls /\ column'.firsts = a.firsts
      /\ column'.mixed = a.mixed /\ column'.triggers = a.triggers
      /\ column'.rootless = a.rootless
  BY <1>6, <1>7 DEF ColumnType
<1>9. \A e \in Entry : column.cards[e] \in Nat /\ a.cards[e] \in Nat
  BY <1>1, <1>7 DEF ColumnType
<1>10. K \in [Entry -> Nat]
  BY <1>2, <1>9 DEF K
<1>11. S \in SUBSET Entry
  BY <1>7 DEF S, ColumnType
<1>12. column' \in ColumnType
  BY <1>6, <1>7, <1>10, <1>11 DEF ColumnType
<1>13. ASSUME NEW e \in Entry
       PROVE  /\ column'.cards[e] = (IF e = p.root THEN column.cards[e] + 1
                                     ELSE column.cards[e]) + p.waiting[e]
              /\ column'.known[e] = IF e = p.root THEN "card" ELSE column.known[e]
  <2>1. column'.cards[e] = a.cards[e] + p.waiting[e]
    BY <1>8 DEF K
  <2>2. a.cards[e] = IF e = p.root THEN column.cards[e] + 1 ELSE column.cards[e]
    BY <1>3, <1>7
  <2>3. column'.known[e] = IF e = p.root THEN "card" ELSE c.known[e]
    BY <1>7, <1>8
  <2>4. e # p.root => c.known[e] = column.known[e]
    BY <1>1, <1>3 DEF ColumnType
  <2> QED
    BY <2>1, <2>2, <2>3, <2>4
<1>14. column'.stray = IF p.page = resets THEN column.stray
                       ELSE column.stray \cup {e \in Entry : e = p.root \/ p.waiting[e] > 0}
  BY <1>3, <1>7, <1>8 DEF S
<1>15. /\ column'.pulls = column.pulls \ {p}
       /\ column'.firsts = column.firsts /\ column'.mixed = column.mixed
       /\ column'.triggers = column.triggers /\ column'.rootless = column.rootless
  BY <1>3, <1>7, <1>8
<1> QED
  BY <1>2, <1>9, <1>12, <1>13, <1>14, <1>15

\* The invariant of a column is about a page, and that page is the same.
LEMMA SamePage ==
    ASSUME ColumnInv(column'), resets' = resets
    PROVE  ColumnInv(column)'
<1>1. PullsApart(column)' /\ DummiesFetched(column)' /\ PostsRegistered(column)'
  BY DEF ColumnInv, PullsApart, DummiesFetched, Current, PostsRegistered
<1>2. KidsCounted(column)' /\ PlacedIn(column)'
  BY DEF ColumnInv, KidsCounted, PlacedIn, Current, Budget
<1> QED
  BY <1>1, <1>2 DEF ColumnInv

\* What waited for the root goes under it; what a fetch for an earlier page puts
\* there is stray.
LEMMA RootFoundKeeps ==
    ASSUME ColumnInv(column), resets \in 0..MaxResets, NEW p \in column.pulls, RootFound(p)
    PROVE  ColumnInv(column')
<1> DEFINE c == column
           d == column'
<1>1. /\ c \in ColumnType /\ PullsApart(c) /\ DummiesFetched(c) /\ PostsRegistered(c)
      /\ KidsCounted(c) /\ PlacedIn(c)
  BY DEF ColumnInv
<1>2. /\ d \in ColumnType
      /\ \A e \in Entry :
           /\ d.cards[e] = (IF e = p.root THEN c.cards[e] + 1 ELSE c.cards[e]) + p.waiting[e]
           /\ d.known[e] = IF e = p.root THEN "card" ELSE c.known[e]
           /\ c.cards[e] \in Nat /\ p.waiting[e] \in 0..2
      /\ d.pulls = c.pulls \ {p}
      /\ d.firsts = c.firsts /\ d.mixed = c.mixed /\ d.rootless = c.rootless
      /\ d.stray = IF p.page = resets THEN c.stray
                   ELSE c.stray \cup {e \in Entry : e = p.root \/ p.waiting[e] > 0}
  BY RootFoundIs
<1>3. /\ p.page <= resets /\ Verb[p.root] = "post" /\ p.root \in Entry
      /\ \A e \in Entry : p.waiting[e] > 0 => Verb[e] # "post" /\ Root[e] = p.root
      /\ \A o \in c.pulls : o.root = p.root /\ o.page = p.page => o = p
      /\ p.page = resets => p \in Current(c)
  BY <1>1 DEF PullsApart, ColumnType, Pull, Current
<1>4. c.stray \subseteq d.stray /\ Current(d) = Current(c) \ {p}
  BY <1>2 DEF Current
<1>5. ASSUME NEW s \in Current(d), s.root = p.root
      PROVE  p.page # resets
  BY <1>3, <1>4, <1>5 DEF Current
<1> HIDE DEF c, d
<1>6. PullsApart(d)
  BY <1>1, <1>2 DEF PullsApart
<1>7. DummiesFetched(d)
  <2>1. ASSUME NEW s \in Current(d)
        PROVE  d.known[s.root] = "dummy" \/ (d.known[s.root] = "card" /\ s.root \in d.stray)
    <3>1. s.root \in Entry /\ s \in Current(c)
      BY <1>1, <1>4 DEF Current, ColumnType, Pull
    <3>2. CASE s.root = p.root
      BY <3>1, <3>2, <1>2, <1>5
    <3>3. CASE s.root # p.root
      <4>1. d.known[s.root] = c.known[s.root]
        BY <3>1, <3>3, <1>2
      <4>2. c.known[s.root] = "dummy" \/ (c.known[s.root] = "card" /\ s.root \in c.stray)
        BY <3>1, <1>1 DEF DummiesFetched
      <4> QED
        BY <4>1, <4>2, <1>4
    <3> QED
      BY <3>2, <3>3
  <2>2. ASSUME NEW r \in Entry, d.known[r] = "dummy"
        PROVE  r \in d.rootless \/ \E s \in Current(d) : s.root = r
    <3>1. r # p.root /\ c.known[r] = "dummy"
      BY <2>2, <1>2
    <3>2. r \in c.rootless \/ \E s \in Current(c) : s.root = r
      BY <3>1, <1>1 DEF DummiesFetched
    <3> QED
      BY <3>1, <3>2, <1>2, <1>4
  <2> QED
    BY <2>1, <2>2 DEF DummiesFetched
<1>8. PostsRegistered(d)
  <2> SUFFICES ASSUME NEW e \in Entry, Verb[e] = "post"
               PROVE  /\ d.known[e] = "card" <=> d.cards[e] > 0
                      /\ e \notin d.stray => d.cards[e] <= 1
                      /\ e \notin d.firsts
    BY DEF PostsRegistered
  <2>1. /\ c.known[e] = "card" <=> c.cards[e] > 0
        /\ e \notin c.stray => c.cards[e] <= 1
        /\ e \notin c.firsts
    BY <1>1 DEF PostsRegistered
  <2>2. p.waiting[e] = 0 /\ c.cards[e] \in Nat
    BY <1>2, <1>3
  <2>3. CASE e = p.root
    <3>1. d.known[e] = "card" /\ d.cards[e] = c.cards[e] + 1
      BY <2>2, <2>3, <1>2
    <3>2. ASSUME e \notin d.stray
          PROVE  c.cards[e] = 0
      <4>1. p.page = resets /\ e \notin c.stray
        BY <3>2, <2>3, <1>2
      <4>2. c.known[e] = "dummy"
        BY <4>1, <2>3, <1>1, <1>3 DEF DummiesFetched
      <4> QED
        BY <4>2, <2>1, <2>2
    <3> QED
      BY <3>1, <3>2, <2>1, <2>2, <1>2
  <2>4. CASE e # p.root
    BY <2>1, <2>2, <2>4, <1>2, <1>4
  <2> QED
    BY <2>3, <2>4
<1>9. KidsCounted(d)
  <2> SUFFICES ASSUME NEW e \in Entry, Verb[e] # "post"
               PROVE  /\ d.known[e] # "dummy"
                      /\ e \in d.firsts => d.known[Root[e]] # "none"
                      /\ d.cards[e] > 0 => d.cards[Root[e]] > 0
                      /\ e \notin d.stray => d.cards[e] <= Budget(d, e)
                      /\ \A s \in Current(d) : s.root = Root[e] =>
                            /\ s.waiting[e] <= Budget(d, e)
                            /\ e \notin d.stray => d.cards[e] + s.waiting[e] <= Budget(d, e)
    BY DEF KidsCounted
  <2>1. /\ c.known[e] # "dummy"
        /\ e \in c.firsts => c.known[Root[e]] # "none"
        /\ c.cards[e] > 0 => c.cards[Root[e]] > 0
        /\ e \notin c.stray => c.cards[e] <= Budget(c, e)
        /\ \A s \in Current(c) : s.root = Root[e] =>
              /\ s.waiting[e] <= Budget(c, e)
              /\ e \notin c.stray => c.cards[e] + s.waiting[e] <= Budget(c, e)
    BY <1>1 DEF KidsCounted
  <2>2. Root[e] \in Entry /\ e # p.root
    BY <1>3, RootsArePosts
  <2>3. /\ d.known[e] = c.known[e] /\ d.cards[e] = c.cards[e] + p.waiting[e]
        /\ p.waiting[e] \in 0..2 /\ c.cards[e] \in Nat
        /\ p.waiting[e] > 0 => Root[e] = p.root
    BY <1>2, <1>3, <2>2
  <2>4. /\ d.known[Root[e]] = IF Root[e] = p.root THEN "card" ELSE c.known[Root[e]]
        /\ d.cards[Root[e]] >= c.cards[Root[e]]
        /\ Root[e] = p.root => d.cards[Root[e]] > 0
        /\ c.cards[Root[e]] \in Nat /\ d.cards[Root[e]] \in Nat
    BY <1>2, <2>2
  <2>5. Budget(d, e) = Budget(c, e) /\ Budget(c, e) \in Nat
    BY <2>3, <1>2 DEF Budget
  <2>6. e \notin d.stray => e \notin c.stray /\ (p.page = resets \/ p.waiting[e] = 0)
    BY <1>2, <2>3
  <2>7. d.cards[e] > 0 => d.cards[Root[e]] > 0
    BY <2>1, <2>3, <2>4
  <2>8. ASSUME e \notin d.stray
        PROVE  d.cards[e] <= Budget(d, e)
    <3>1. CASE p.waiting[e] = 0
      BY <3>1, <2>1, <2>3, <2>5, <2>6, <2>8
    <3>2. CASE p.waiting[e] > 0
      <4>1. p \in Current(c) /\ p.root = Root[e]
        BY <3>2, <2>3, <2>6, <2>8, <1>3
      <4> QED
        BY <4>1, <2>1, <2>3, <2>5, <2>6, <2>8
    <3> QED
      BY <3>1, <3>2, <2>3
  <2>9. ASSUME NEW s \in Current(d), s.root = Root[e]
        PROVE  /\ s.waiting[e] <= Budget(d, e)
               /\ e \notin d.stray => d.cards[e] + s.waiting[e] <= Budget(d, e)
    <3>1. s \in Current(c) /\ s.waiting[e] \in 0..2
      BY <1>1, <1>4 DEF Current, ColumnType, Pull
    <3>2. s.waiting[e] <= Budget(c, e)
      BY <3>1, <2>1, <2>9
    <3>3. ASSUME e \notin d.stray
          PROVE  d.cards[e] + s.waiting[e] <= Budget(d, e)
      <4>1. p.waiting[e] = 0
        BY <2>3, <2>6, <2>9, <3>3, <1>5
      <4> QED
        BY <4>1, <3>1, <3>3, <2>1, <2>3, <2>5, <2>6, <2>9
    <3> QED
      BY <3>2, <3>3, <2>5
  <2> QED
    BY <2>1, <2>3, <2>4, <2>7, <2>8, <2>9, <1>2
<1>10. PlacedIn(d)
  <2> SUFFICES ASSUME NEW e \in Entry, d.known[e] = "card", d.cards[e] = 0
               PROVE  \/ \E s \in Current(d) : s.waiting[e] > 0
                      \/ Root[e] \in d.rootless \cup d.mixed
    BY DEF PlacedIn
  <2>1. e # p.root /\ c.known[e] = "card" /\ c.cards[e] = 0 /\ p.waiting[e] = 0
    BY <1>2
  <2>2. \/ \E s \in Current(c) : s.waiting[e] > 0
        \/ Root[e] \in c.rootless \cup c.mixed
    BY <2>1, <1>1 DEF PlacedIn
  <2> QED
    BY <2>1, <2>2, <1>2, <1>4
<1>11. ColumnInv(d)
  BY <1>2, <1>6, <1>7, <1>8, <1>9, <1>10 DEF ColumnInv
<1> QED
  BY <1>11 DEF d

\* A dummy whose root cannot be had stays, and what waits for it is lost.
LEMMA RootNotFoundKeeps ==
    ASSUME ColumnInv(column), resets \in 0..MaxResets, NEW p \in column.pulls, RootNotFound(p)
    PROVE  /\ ColumnInv(column')
           /\ column'.cards = column.cards /\ column'.known = column.known
           /\ column'.pulls = column.pulls \ {p}
           /\ column'.firsts = column.firsts /\ column'.triggers = column.triggers
<1> DEFINE c == column
           d == column'
           R == IF p.page = resets THEN c.rootless \cup {p.root} ELSE c.rootless
           P == c.pulls \ {p}
<1>1. /\ c \in ColumnType /\ PullsApart(c) /\ DummiesFetched(c) /\ PostsRegistered(c)
      /\ KidsCounted(c) /\ PlacedIn(c)
  BY DEF ColumnInv
<1>2. p.root \in Entry
  BY <1>1 DEF ColumnType, Pull
<1>3. d = [c EXCEPT !.pulls = P, !.rootless = R]
  BY Zenon DEF RootNotFound
<1>4. P \in SUBSET Pull /\ R \in SUBSET Entry
  BY <1>1, <1>2 DEF ColumnType
<1>5. Current(d) = Current(c) \ {p}
  BY <1>1, <1>3 DEF Current, ColumnType
<1> HIDE DEF c, d, P, R
<1>6. /\ d \in ColumnType
      /\ d.cards = c.cards /\ d.known = c.known /\ d.firsts = c.firsts
      /\ d.mixed = c.mixed /\ d.stray = c.stray /\ d.triggers = c.triggers
      /\ d.pulls = c.pulls \ {p} /\ c.rootless \subseteq d.rootless
      /\ p.page = resets => p.root \in d.rootless
  BY <1>1, <1>3, <1>4 DEF ColumnType, P, R
<1>7. PullsApart(d)
  BY <1>1, <1>6 DEF PullsApart
<1>8. DummiesFetched(d)
  <2>1. \A s \in Current(d) :
          d.known[s.root] = "dummy" \/ (d.known[s.root] = "card" /\ s.root \in d.stray)
    BY <1>1, <1>5, <1>6 DEF DummiesFetched
  <2>2. ASSUME NEW r \in Entry, d.known[r] = "dummy"
        PROVE  r \in d.rootless \/ \E s \in Current(d) : s.root = r
    <3>1. r \in c.rootless \/ \E s \in Current(c) : s.root = r
      BY <2>2, <1>1, <1>6 DEF DummiesFetched
    <3>2. ASSUME NEW s \in Current(c), s.root = r
          PROVE  r \in d.rootless \/ \E t \in Current(d) : t.root = r
      BY <3>2, <1>5, <1>6 DEF Current
    <3> QED
      BY <3>1, <3>2, <1>6
  <2> QED
    BY <2>1, <2>2 DEF DummiesFetched
<1>9. PostsRegistered(d)
  BY <1>1, <1>6 DEF PostsRegistered
<1>10. KidsCounted(d)
  <2>1. \A e : Budget(d, e) = Budget(c, e)
    BY <1>6 DEF Budget
  <2> QED
    BY <2>1, <1>1, <1>5, <1>6 DEF KidsCounted
<1>11. PlacedIn(d)
  <2> SUFFICES ASSUME NEW e \in Entry, d.known[e] = "card", d.cards[e] = 0
               PROVE  \/ \E s \in Current(d) : s.waiting[e] > 0
                      \/ Root[e] \in d.rootless \cup d.mixed
    BY DEF PlacedIn
  <2>1. \/ \E s \in Current(c) : s.waiting[e] > 0
        \/ Root[e] \in c.rootless \cup c.mixed
    BY <1>1, <1>6 DEF PlacedIn
  <2>2. ASSUME NEW s \in Current(c), s.waiting[e] > 0
        PROVE  \/ \E t \in Current(d) : t.waiting[e] > 0
               \/ Root[e] \in d.rootless
    <3>1. Root[e] = s.root /\ s.page = resets
      BY <2>2, <1>1 DEF Current, PullsApart
    <3> QED
      BY <2>2, <3>1, <1>5, <1>6
  <2> QED
    BY <2>1, <2>2, <1>6
<1>12. ColumnInv(d)
  BY <1>6, <1>7, <1>8, <1>9, <1>10, <1>11 DEF ColumnInv
<1> QED
  BY <1>6, <1>12 DEF c, d

-----------------------------------------------------------------------------
(* Triggers, and what the column has seen *)

\* Triggers are no concern of the invariant of the column.
LEMMA TriggersKeep ==
    ASSUME NEW c, ColumnInv(c), NEW T \in SUBSET Span
    PROVE  LET d == [c EXCEPT !.triggers = T] IN
           /\ ColumnInv(d)
           /\ d.triggers = T /\ d.cards = c.cards /\ d.known = c.known
           /\ d.pulls = c.pulls /\ d.firsts = c.firsts
<1> DEFINE d == [c EXCEPT !.triggers = T]
<1>1. /\ c \in ColumnType /\ PullsApart(c) /\ DummiesFetched(c) /\ PostsRegistered(c)
      /\ KidsCounted(c) /\ PlacedIn(c)
  BY DEF ColumnInv
<1>2. /\ d \in ColumnType
      /\ d.triggers = T /\ d.cards = c.cards /\ d.known = c.known
      /\ d.pulls = c.pulls /\ d.firsts = c.firsts
      /\ d.rootless = c.rootless /\ d.mixed = c.mixed /\ d.stray = c.stray
  BY <1>1 DEF ColumnType
<1> HIDE DEF d
<1>3. Current(d) = Current(c) /\ \A e : Budget(d, e) = Budget(c, e)
  BY <1>2 DEF Current, Budget
<1>4. PullsApart(d) /\ DummiesFetched(d) /\ PostsRegistered(d)
  BY <1>1, <1>2, <1>3 DEF PullsApart, DummiesFetched, PostsRegistered
<1>5. KidsCounted(d) /\ PlacedIn(d)
  BY <1>1, <1>2, <1>3 DEF KidsCounted, PlacedIn
<1>6. ColumnInv(d)
  BY <1>2, <1>4, <1>5 DEF ColumnInv
<1> QED
  BY <1>2, <1>6 DEF d

\* The entries that are no longer missing from a column.
Seen(c, e) == c.known[e] # "none" \/ c.cards[e] > 0 \/ e \in c.firsts

\* All that is added is seen from then on, and nothing is forgotten.
LEMMA AddedShows ==
    ASSUME NEW c, ColumnInv(c), NEW S \in SUBSET Entry, NEW e \in Entry
    PROVE  /\ Seen(c, e) \/ e \in S => Seen(Added(c, S), e)
           /\ Added(c, S).cards[e] >= c.cards[e]
           /\ Added(c, S).cards[e] > c.cards[e] => e \in S
<1> DEFINE a == Added(c, S)
<1>1. c \in ColumnType
  BY DEF ColumnInv
<1>2. /\ a.cards[e] = IF e \in Tops(c, S) \cup Placed(c, S)
                      THEN c.cards[e] + 1 ELSE c.cards[e]
      /\ a.known[e] = IF e \in Awaited(c, S) THEN "dummy"
                      ELSE IF e \in (Tops(c, S) \cup Kids(c, S)) \ Firsts(c, S)
                           THEN "card" ELSE c.known[e]
      /\ a.firsts = c.firsts \cup Firsts(c, S)
      /\ c.cards[e] \in Nat
  BY <1>1, AddedPoints
<1> HIDE DEF a
<1>3. Seen(c, e) => Seen(a, e)
  BY <1>2 DEF Seen
<1>4. ASSUME e \in S, c.known[e] = "none"
      PROVE  Seen(a, e)
  <2>1. CASE Verb[e] = "post"
    <3>1. e \in Tops(c, S) \cup Awaited(c, S)
      BY <1>4, <2>1 DEF Tops, IsNew
    <3>2. e \notin Firsts(c, S)
      BY <1>1, <2>1, FirstsAreKids
    <3> QED
      BY <3>1, <3>2, <1>2 DEF Seen
  <2>2. CASE Verb[e] # "post"
    <3>1. e \in Kids(c, S)
      BY <1>4, <2>2 DEF Kids, IsNew
    <3> QED
      BY <3>1, <1>2 DEF Seen
  <2> QED
    BY <2>1, <2>2
<1>5. \A x \in Tops(c, S) \cup Placed(c, S) : x \in S
  BY <1>1, FirstsAreKids DEF Placed
<1>6. Seen(a, e) \/ ~(Seen(c, e) \/ e \in S)
  BY <1>3, <1>4 DEF Seen
<1> QED
  BY <1>2, <1>5, <1>6 DEF a

\* The answer to a query is taken in whole, and a trigger or a break is left
\* where older entries may be.
LEMMA AddEntriesKeeps ==
    ASSUME ColumnInv(column), resets \in 0..MaxResets, broken \subseteq Span,
           NEW S \in SUBSET Entry, NEW q \in Query, NEW after \in Entry \cup {0},
           AddEntries(S, q, after)
    PROVE  /\ ColumnInv(column')
           /\ broken \subseteq broken' /\ broken' \subseteq Span
           /\ column.triggers \subseteq column'.triggers
           /\ \A e \in Entry :
                 /\ Seen(column, e) \/ e \in S => Seen(column', e)
                 /\ column'.cards[e] >= column.cards[e]
                 /\ column'.cards[e] > column.cards[e] => e \in S
           /\ \A e \in Matches[q] :
                 (after < e /\ S # {} /\ (\A x \in S : e < x)) =>
                    \E r \in column'.triggers \cup broken' : r.query = q /\ In(r, e)
           /\ column'.pulls = Added(column, S).pulls
           /\ column'.cards = Added(column, S).cards
           /\ \A r \in column'.triggers \ column.triggers : r.query = q
<1> DEFINE a == Added(column, S)
           t == Triggered(column, S, q, after)
           b == Dropped(column, S, q, after)
           d == [a EXCEPT !.triggers = @ \cup t]
<1>1. column' = d /\ broken' = broken \cup b
  BY Zenon DEF AddEntries
<1>2. ColumnInv(a) /\ a.triggers = column.triggers /\ column \in ColumnType
  BY AddedKeeps, AddedIs DEF ColumnInv
<1>3. \A x \in Tops(column, S) : x \in S
  BY DEF Tops
<1>4. /\ Tops(column, S) # {} => Min(Tops(column, S)) \in Tops(column, S)
      /\ S # {} => Min(S) \in S
  <2>1. Tops(column, S) \in SUBSET Entry
    BY DEF Tops
  <2> QED
    BY <2>1, MinOfEntries
<1>5. /\ t \subseteq Span /\ b \subseteq Span
      /\ \A r \in t : r.query = q
      /\ S # {} => \E r \in t \cup b : /\ r.query = q /\ r.after = after /\ r.at \in S
  <2>1. CASE Tops(column, S) # {}
    <3> DEFINE r == [query |-> q, after |-> after, at |-> Min(Tops(column, S))]
    <3>1. t = {r} /\ b = {}
      BY <2>1 DEF Triggered, Dropped
    <3>2. r \in Span /\ r.query = q /\ r.after = after /\ r.at \in S
      BY <2>1, <1>3, <1>4 DEF Span
    <3> HIDE DEF r, t, b
    <3> QED
      BY <3>1, <3>2
  <2>2. CASE Tops(column, S) = {} /\ S # {}
    <3> DEFINE r == [query |-> q, after |-> after, at |-> Min(S)]
    <3>1. t = {} /\ b = {r}
      BY <2>2 DEF Triggered, Dropped
    <3>2. r \in Span /\ r.query = q /\ r.after = after /\ r.at \in S
      BY <2>2, <1>4 DEF Span
    <3> HIDE DEF r, t, b
    <3> QED
      BY <3>1, <3>2
  <2>3. CASE S = {}
    <3>1. t = {} /\ b = {}
      BY <2>3 DEF Triggered, Dropped, Tops
    <3> QED
      BY <3>1, <2>3
  <2> QED
    BY <2>1, <2>2, <2>3
<1>6. \A e \in Entry :
         /\ Seen(column, e) \/ e \in S => Seen(a, e)
         /\ a.cards[e] >= column.cards[e]
         /\ a.cards[e] > column.cards[e] => e \in S
  BY AddedShows
<1>7. column.triggers \subseteq Span
  BY <1>2 DEF ColumnType
<1> HIDE DEF a, t, b
<1>8. /\ ColumnInv(d)
      /\ d.triggers = column.triggers \cup t /\ d.cards = a.cards /\ d.known = a.known
      /\ d.pulls = a.pulls /\ d.firsts = a.firsts
  BY <1>2, <1>5, <1>7, TriggersKeep
<1> HIDE DEF d
<1>9. \A e \in Entry : Seen(d, e) <=> Seen(a, e)
  BY <1>8 DEF Seen
<1>10. ASSUME NEW e \in Matches[q], after < e, S # {}, \A x \in S : e < x
       PROVE  \E r \in d.triggers \cup broken' : r.query = q /\ In(r, e)
  BY <1>1, <1>5, <1>8, <1>10 DEF In
<1> QED
  BY <1>1, <1>5, <1>6, <1>8, <1>9, <1>10 DEF a

-----------------------------------------------------------------------------
(* The gaps of the column *)

\* All ranges in which an entry may still be missing.
Ranges == column.triggers \cup {f.range : f \in fetches} \cup broken
Covered(q, e) == \E r \in Ranges : r.query = q /\ In(r, e)

LEMMA GapsAreCovered ==
    GapOnlyByLoss <=> \A q \in querySet : \A e \in Missing(q) : Covered(q, e)
BY DEF GapOnlyByLoss, Covered, Ranges, Promises

LEMMA MissingIs ==
    ASSUME TypeOK, NEW q \in Query, NEW e
    PROVE  e \in Missing(q) <=> /\ e \in posted \cap Matches[q] /\ e \in Entry
                                /\ ~Seen(column, e) /\ e <= Latest(q) /\ e \notin late
<1>1. \A x \in Entry : column.cards[x] \in Nat
  BY DEF TypeOK, ColumnType
<1>2. posted \subseteq Entry
  BY DEF TypeOK
<1>3. \A x \in Entry : ~(column.cards[x] > 0) <=> column.cards[x] = 0
  BY <1>1
<1> QED
  BY <1>2, <1>3 DEF Missing, Seen

\* What is missing after a step that forgets nothing was missing before, if it
\* was posted and not newer than what had been polled.
LEMMA MissingStays ==
    ASSUME TypeOK, TypeOK', NEW q \in Query, NEW e, e \in Missing(q)',
           \A x \in Entry : Seen(column, x) => Seen(column', x),
           late \subseteq late'
    PROVE  /\ e \in posted' \cap Matches[q] /\ e \in Entry
           /\ ~Seen(column', e) /\ (e <= Latest(q))' /\ e \notin late' /\ e \notin late
           /\ e \in posted /\ e <= Latest(q) => e \in Missing(q)
<1>1. \A x \in Entry : column'.cards[x] \in Nat
  BY DEF TypeOK, ColumnType
<1>2. posted' \subseteq Entry
  BY DEF TypeOK
<1>3. /\ e \in posted' \cap Matches[q] /\ column'.known[e] = "none" /\ column'.cards[e] = 0
      /\ (e <= Latest(q))' /\ e \notin late' /\ e \notin column'.firsts
  BY DEF Missing
<1>4. ~Seen(column', e) /\ e \in Entry
  BY <1>1, <1>2, <1>3 DEF Seen
<1>5. ~Seen(column, e) /\ e \notin late
  BY <1>3, <1>4
<1> QED
  BY <1>3, <1>4, <1>5, MissingIs

\* A gap of a query that has no answer stays where it was.
LEMMA OldGapCovered ==
    ASSUME GapOnlyByLoss, NEW q \in querySet, NEW e \in Missing(q), Ranges \subseteq Ranges'
    PROVE  Covered(q, e)'
<1>1. PICK r \in Ranges : r.query = q /\ In(r, e)
  BY GapsAreCovered DEF Covered
<1>2. r \in Ranges' /\ In(r, e)'
  BY <1>1 DEF In
<1> QED
  BY <1>1, <1>2 DEF Covered

\* A step that posts nothing, polls nothing and forgets nothing leaves no gap
\* if all ranges stay.
LEMMA GapsKept ==
    ASSUME TypeOK, TypeOK', GapOnlyByLoss, UNCHANGED <<server, querySet>>,
           \A x \in Entry : Seen(column, x) => Seen(column', x),
           Ranges \subseteq Ranges'
    PROVE  GapOnlyByLoss'
<1>1. ASSUME NEW q \in querySet', NEW e \in Missing(q)'
      PROVE  Covered(q, e)'
  <2>1. q \in querySet /\ q \in Query
    BY DEF TypeOK
  <2>2. e \in posted /\ e <= Latest(q)
    BY <2>1, MissingStays DEF server, Latest
  <2>3. e \in Missing(q)
    BY <2>1, <2>2, MissingStays DEF server
  <2> QED
    BY <2>1, <2>3, OldGapCovered
<1> QED
  BY <1>1 DEF GapOnlyByLoss, Covered, Ranges, Promises

LEMMA RowsKept ==
    ASSUME rows \subseteq TopLevel(column), column \in ColumnType, column' \in ColumnType,
           \A x \in Entry : column'.cards[x] >= column.cards[x]
    PROVE  rows \subseteq TopLevel(column)'
<1>1. \A x \in Entry : column'.cards[x] \in Nat /\ column.cards[x] \in Nat
  BY DEF ColumnType
<1>2. \A x \in Entry : column.cards[x] > 0 => column'.cards[x] > 0
  BY <1>1
<1> QED
  BY <1>2 DEF TopLevel

LEMMA LatestIs ==
    ASSUME TypeOK, NEW q \in Query
    PROVE  /\ feed[q] \in SUBSET Entry
           /\ Latest(q) \in Entry \cup {0}
           /\ feed[q] = {} => Latest(q) = 0
           /\ feed[q] # {} => Latest(q) \in feed[q]
           /\ \A e \in feed[q] : e <= Latest(q)
<1>1. feed[q] \in SUBSET Entry /\ feed[q] \cup {0} \in SUBSET (Entry \cup {0})
  BY DEF TypeOK
<1>2. Latest(q) \in feed[q] \cup {0} /\ \A e \in feed[q] \cup {0} : e <= Latest(q)
  BY <1>1, MaxOfEntries DEF Latest
<1>3. \A e \in feed[q] : e > 0 /\ e \in Nat
  BY <1>1, EntriesAreNat
<1> QED
  BY <1>1, <1>2, <1>3

-----------------------------------------------------------------------------
(* Each action keeps the invariant *)

LEMMA EmptyKeeps ==
    ASSUME NEW P \in SUBSET Pull, PullsApart(Empty(P)), \A p \in P : p.page # resets
    PROVE  ColumnInv(Empty(P))
<1> DEFINE c == Empty(P)
<1>1. /\ c \in ColumnType /\ Current(c) = {} /\ PullsApart(c)
      /\ c.cards = [e \in Entry |-> 0] /\ c.known = [e \in Entry |-> "none"]
      /\ c.firsts = {} /\ c.stray = {}
  BY DEF Empty, ColumnType, Current
<1> HIDE DEF c
<1>2. DummiesFetched(c) /\ PostsRegistered(c) /\ PlacedIn(c)
  BY <1>1 DEF DummiesFetched, PostsRegistered, PlacedIn
<1>3. KidsCounted(c)
  BY <1>1 DEF KidsCounted, Budget
<1>4. ColumnInv(c)
  BY <1>1, <1>2, <1>3 DEF ColumnInv
<1> QED
  BY <1>4 DEF c

LEMMA ColumnInit == Init => RendererInv
<1> SUFFICES ASSUME Init PROVE RendererInv
  OBVIOUS
<1>1. column = Empty({}) /\ {} \in SUBSET Pull
  BY DEF Init
<1>2. PullsApart(Empty({}))
  BY DEF PullsApart, Empty
<1>3. ColumnInv(column)
  BY <1>1, <1>2, EmptyKeeps
<1>4. TypeOK
  <2>1. posted \in SUBSET Entry /\ 0 \in 0..Down /\ 0 \in 0..MaxResets
    BY RendererAssumption DEF Init
  <2> QED
    BY <1>3, <2>1 DEF Init, TypeOK, ColumnInv
<1>5. FeedTight
  <2>1. \A q \in Query : feed[q] = {}
    BY DEF Init
  <2>2. \A q \in Query : Latest(q) = 0
    BY <1>4, <2>1, LatestIs
  <2>3. \A e \in Entry : ~(e <= 0)
    BY RendererAssumption
  <2> QED
    BY <1>4, <2>1, <2>2, <2>3 DEF FeedTight, TypeOK
<1>6. GapOnlyByLoss
  BY DEF GapOnlyByLoss, Init
<1> QED
  BY <1>3, <1>4, <1>5, <1>6 DEF RendererInv

\* An entry that comes after newer ones have been polled is late, and no gap.
LEMMA ReachesKeeps ==
    ASSUME RendererInv, TypeOK', NEW e \in Entry, Reaches(e),
           UNCHANGED <<feed, querySet>>, Ranges \subseteq Ranges',
           \A x \in Entry : Seen(column, x) => Seen(column', x)
    PROVE  FeedTight' /\ GapOnlyByLoss'
<1>1. TypeOK /\ FeedTight /\ GapOnlyByLoss
  BY DEF RendererInv
<1>2. /\ e \notin posted /\ posted' = posted \cup {e} /\ late \subseteq late'
      /\ \A q \in Query : e \in Matches[q] /\ e < Latest(q) => e \in late'
  BY DEF Reaches
<1>3. ASSUME NEW q \in Query, e \in Matches[q], e <= Latest(q)
      PROVE  e \in late'
  <2>1. e # Latest(q)
    <3>1. feed[q] \subseteq posted
      BY <1>1 DEF FeedTight
    <3>2. e # 0
      BY RendererAssumption
    <3> QED
      BY <3>1, <3>2, <1>1, <1>2, LatestIs
  <2>2. e \in Nat /\ Latest(q) \in Nat
    BY <1>1, LatestIs, EntriesAreNat
  <2> QED
    BY <2>1, <2>2, <1>2, <1>3
<1>4. \A q \in Query : Latest(q)' = Latest(q)
  BY DEF Latest
<1>5. FeedTight'
  <2> SUFFICES ASSUME NEW q \in Query
               PROVE  /\ feed'[q] \subseteq posted' \cap Matches[q]
                      /\ \A x \in (posted' \cap Matches[q]) \ (late' \cup feed'[q]) :
                            x <= Latest(q)' => \A y \in feed'[q] : x < y
    BY DEF FeedTight
  <2>1. /\ feed[q] \subseteq posted \cap Matches[q]
        /\ \A x \in (posted \cap Matches[q]) \ (late \cup feed[q]) :
              x <= Latest(q) => \A y \in feed[q] : x < y
    BY <1>1 DEF FeedTight
  <2> QED
    BY <2>1, <1>2, <1>3, <1>4
<1>6. ASSUME NEW q \in querySet', NEW x \in Missing(q)'
      PROVE  Covered(q, x)'
  <2>1. q \in querySet /\ q \in Query
    BY <1>1 DEF TypeOK
  <2>2. /\ x \in posted' \cap Matches[q] /\ x <= Latest(q) /\ x \notin late'
        /\ x \in posted /\ x <= Latest(q) => x \in Missing(q)
    BY <2>1, <1>1, <1>2, <1>4, MissingStays
  <2>3. x \in Missing(q)
    BY <2>1, <2>2, <1>2, <1>3
  <2> QED
    BY <2>1, <2>3, <1>1, OldGapCovered
<1> QED
  BY <1>5, <1>6 DEF GapOnlyByLoss, Covered, Ranges, Promises

LEMMA PostKeeps ==
    ASSUME RendererInv, NEW e \in Entry, Post(e)
    PROVE  RendererInv'
<1>1. TypeOK /\ ColumnInv(column)
  BY DEF RendererInv
<1>2. ColumnInv(column)'
  BY <1>1, SamePage DEF Post
<1>3. TypeOK'
  BY <1>1 DEF TypeOK, Post, Reaches, window, TopLevel
<1>4. /\ Ranges \subseteq Ranges' /\ Reaches(e) /\ UNCHANGED <<feed, querySet>>
      /\ \A x \in Entry : Seen(column, x) => Seen(column', x)
  BY DEF Post, Ranges, Seen
<1>5. FeedTight' /\ GapOnlyByLoss'
  BY <1>3, <1>4, ReachesKeeps
<1> QED
  BY <1>2, <1>3, <1>5 DEF RendererInv

LEMMA AddedGrows ==
    ASSUME NEW c, ColumnInv(c), resets \in 0..MaxResets, NEW S \in SUBSET Entry
    PROVE  /\ ColumnInv(Added(c, S)) /\ Added(c, S).triggers = c.triggers
           /\ \A x \in Entry : /\ Seen(c, x) => Seen(Added(c, S), x)
                               /\ Added(c, S).cards[x] >= c.cards[x]
                               /\ Added(c, S).cards[x] \in Nat /\ c.cards[x] \in Nat
<1>1. c \in ColumnType
  BY DEF ColumnInv
<1>2. ColumnInv(Added(c, S)) /\ Added(c, S).triggers = c.triggers
  BY <1>1, AddedKeeps, AddedIs
<1>3. \A x \in Entry : Added(c, S).cards[x] \in Nat /\ c.cards[x] \in Nat
  BY <1>1, AddedPoints
<1> QED
  BY <1>2, <1>3, AddedShows

\* An own entry is shown wherever it belongs.
LEMMA ComposeKeeps ==
    ASSUME RendererInv, NEW e \in Entry, Compose(e)
    PROVE  RendererInv'
<1>1. TypeOK /\ ColumnInv(column) /\ column \in ColumnType /\ resets \in 0..MaxResets
  BY DEF RendererInv, ColumnInv, TypeOK
<1> DEFINE a == Added(column, {e})
           b == Added(a, {e})
<1>2. {e} \in SUBSET Entry
  OBVIOUS
<1>3. /\ ColumnInv(a) /\ a.triggers = column.triggers
      /\ \A x \in Entry : /\ Seen(column, x) => Seen(a, x)
                          /\ a.cards[x] >= column.cards[x] /\ a.cards[x] \in Nat
  BY <1>1, <1>2, AddedGrows
<1> HIDE DEF a
<1>4. /\ ColumnInv(b) /\ b.triggers = column.triggers
      /\ \A x \in Entry : /\ Seen(column, x) => Seen(b, x)
                          /\ b.cards[x] >= a.cards[x] /\ b.cards[x] \in Nat
  BY <1>1, <1>2, <1>3, AddedGrows
<1>5. column' = a \/ column' = b
  BY DEF Compose, a
<1> HIDE DEF b
<1>6. /\ ColumnInv(column') /\ column'.triggers = column.triggers
      /\ \A x \in Entry : /\ Seen(column, x) => Seen(column', x)
                          /\ column'.cards[x] >= column.cards[x]
  <2>1. \A x \in Entry : column.cards[x] \in Nat
    BY <1>1 DEF ColumnType
  <2> QED
    BY <1>3, <1>4, <1>5, <2>1
<1>7. ColumnInv(column)' /\ column' \in ColumnType
  BY <1>6, SamePage DEF Compose, ColumnInv
<1>8. rows \subseteq TopLevel(column)'
  BY <1>1, <1>6, <1>7, RowsKept DEF TypeOK
<1>9. TypeOK'
  BY <1>1, <1>7, <1>8 DEF TypeOK, Compose, Reaches, window
<1>10. Ranges \subseteq Ranges' /\ Reaches(e) /\ UNCHANGED <<feed, querySet>>
  BY <1>6 DEF Compose, Ranges
<1>11. FeedTight' /\ GapOnlyByLoss'
  BY <1>6, <1>9, <1>10, ReachesKeeps
<1> QED
  BY <1>7, <1>9, <1>11 DEF RendererInv

\* The feed of the last answer is complete down to its oldest entry, and the
\* trigger or break stands for the rest.
LEMMA AddQueryKeeps ==
    ASSUME RendererInv, NEW q \in Query, AddQuery(q)
    PROVE  RendererInv'
<1>1. /\ TypeOK /\ ColumnInv(column) /\ column \in ColumnType /\ resets \in 0..MaxResets
      /\ FeedTight /\ GapOnlyByLoss
  BY DEF RendererInv, ColumnInv, TypeOK
<1>2. UNCHANGED <<server, fetches, window, resets>> /\ querySet' = querySet \cup {q}
  BY DEF AddQuery
<1>3. FeedTight'
  BY <1>1, <1>2 DEF FeedTight, server, Latest
<1>4. CASE feed[q] = {}
  <2>1. UNCHANGED <<column, broken, scroll, render>>
    BY <1>4 DEF AddQuery
  <2>2. TypeOK'
    BY <1>1, <1>2, <2>1 DEF TypeOK, server, window, TopLevel
  <2>3. ColumnInv(column)'
    BY <1>1, <1>2, <2>1, SamePage
  <2>4. ASSUME NEW o \in querySet', NEW e \in Missing(o)'
        PROVE  Covered(o, e)'
    <3>1. o \in Query /\ Missing(o)' = Missing(o) /\ Latest(o)' = Latest(o)
      BY <1>1, <1>2, <2>1 DEF TypeOK, Missing, server, Latest
    <3>2. o # q
      <4>1. \A x \in Entry : ~(x <= 0)
        BY RendererAssumption
      <4> QED
        BY <4>1, <3>1, <2>4, <1>1, <1>4, LatestIs, MissingIs
    <3> QED
      BY <3>1, <3>2, <2>1, <2>4, <1>1, <1>2, OldGapCovered DEF Ranges
  <2> QED
    BY <2>2, <2>3, <2>4, <1>3 DEF RendererInv, GapOnlyByLoss, Covered, Ranges, Promises
<1>5. CASE feed[q] # {}
  <2>1. AddEntries(feed[q], q, 0)
    BY <1>5 DEF AddQuery
  <2>2. feed[q] \in SUBSET Entry /\ 0 \in Entry \cup {0} /\ broken \subseteq Span
    BY <1>1 DEF TypeOK
  <2>3. /\ ColumnInv(column')
        /\ broken \subseteq broken' /\ broken' \subseteq Span
        /\ column.triggers \subseteq column'.triggers
        /\ \A e \in Entry :
              /\ Seen(column, e) \/ e \in feed[q] => Seen(column', e)
              /\ column'.cards[e] >= column.cards[e]
        /\ \A e \in Matches[q] :
              (0 < e /\ feed[q] # {} /\ (\A x \in feed[q] : e < x)) =>
                 \E r \in column'.triggers \cup broken' : r.query = q /\ In(r, e)
    BY <1>1, <2>1, <2>2, AddEntriesKeeps
  <2>4. ColumnInv(column)' /\ column' \in ColumnType
    BY <1>2, <2>3, SamePage DEF ColumnInv
  <2>5. rows \subseteq TopLevel(column)'
    BY <1>1, <2>3, <2>4, RowsKept DEF TypeOK
  <2>6. TypeOK'
    BY <1>1, <1>2, <2>1, <2>3, <2>4, <2>5 DEF TypeOK, server, window, AddEntries
  <2>7. ASSUME NEW o \in querySet', NEW e \in Missing(o)'
        PROVE  Covered(o, e)'
    <3>1. o \in Query
      BY <1>1, <1>2 DEF TypeOK
    <3>2. /\ e \in posted \cap Matches[o] /\ e \in Entry /\ ~Seen(column', e)
          /\ e <= Latest(o) /\ e \notin late
          /\ e \in Missing(o)
      BY <1>1, <1>2, <2>3, <2>6, <2>7, <3>1, MissingStays DEF server, Latest
    <3>3. CASE o = q
      <4>1. e \notin feed[q]
        BY <2>3, <3>2
      <4>2. \A x \in feed[q] : e < x
        BY <1>1, <3>2, <3>3, <4>1 DEF FeedTight
      <4>3. 0 < e
        BY <3>2, RendererAssumption
      <4>4. \E r \in column'.triggers \cup broken' : r.query = q /\ In(r, e)
        BY <1>5, <2>3, <3>2, <3>3, <4>2, <4>3
      <4> QED
        BY <3>3, <4>4 DEF Covered, Ranges, In
    <3>4. CASE o # q
      BY <1>1, <1>2, <2>3, <3>2, <3>4, OldGapCovered DEF Ranges
    <3> QED
      BY <3>3, <3>4
  <2> QED
    BY <1>3, <2>4, <2>6, <2>7 DEF RendererInv, GapOnlyByLoss, Covered, Ranges, Promises
<1> QED
  BY <1>4, <1>5

\* A poll asks for what is newer than its last answer.  What it leaves out is
\* older than all it brings.
LEMMA PollKeeps ==
    ASSUME RendererInv, NEW q \in Query, Poll(q)
    PROVE  RendererInv'
<1>1. /\ TypeOK /\ ColumnInv(column) /\ column \in ColumnType /\ resets \in 0..MaxResets
      /\ FeedTight /\ GapOnlyByLoss /\ posted \in SUBSET Entry
  BY DEF RendererInv, ColumnInv, TypeOK
<1> DEFINE after == Latest(q)
           count == IF q \in polled THEN PollCount ELSE FirstCount
           T == posted \cap Matches[q]
           S == EntryIds(T, after, 0, count)
<1>2. /\ UNCHANGED <<posted, late, querySet, fetches, window, resets>>
      /\ polled' = polled \cup {q}
      /\ feed' = IF S = {} THEN feed ELSE [feed EXCEPT ![q] = S]
      /\ AddEntries(S, q, after)
  BY DEF Poll
<1>3. T \in SUBSET Entry /\ after \in Entry \cup {0} /\ after \in Nat /\ count \in Nat \ {0}
  <2>1. {FirstCount, PollCount} \subseteq Nat \ {0}
    BY RendererAssumption
  <2>2. after \in Entry \cup {0}
    BY <1>1, LatestIs
  <2> QED
    BY <2>1, <2>2, <1>1, EntriesAreNat
<1> HIDE DEF after, count, T
<1>4. /\ S \subseteq Between(T, after, 0) /\ S \subseteq T
      /\ \A e \in Between(T, after, 0) \ S : S # {} /\ \A x \in S : e < x
  BY <1>3, AnswerIsTight
<1>5. S \in SUBSET Entry /\ \A x \in S : after < x
  BY <1>3, <1>4 DEF Between
<1> HIDE DEF S
<1>6. /\ ColumnInv(column')
      /\ broken \subseteq broken' /\ broken' \subseteq Span
      /\ column.triggers \subseteq column'.triggers
      /\ \A e \in Entry :
            /\ Seen(column, e) \/ e \in S => Seen(column', e)
            /\ column'.cards[e] >= column.cards[e]
      /\ \A e \in Matches[q] :
            (after < e /\ S # {} /\ (\A x \in S : e < x)) =>
               \E r \in column'.triggers \cup broken' : r.query = q /\ In(r, e)
  <2>1. broken \subseteq Span
    BY <1>1 DEF TypeOK
  <2> QED
    BY <1>1, <1>2, <1>3, <1>5, <2>1, AddEntriesKeeps
<1>7. ColumnInv(column)' /\ column' \in ColumnType
  BY <1>2, <1>6, SamePage DEF ColumnInv
<1>8. rows \subseteq TopLevel(column)'
  BY <1>1, <1>6, <1>7, RowsKept DEF TypeOK
<1>9. TypeOK'
  <2>1. feed' \in [Query -> SUBSET Entry]
    BY <1>1, <1>2, <1>5 DEF TypeOK
  <2> QED
    BY <1>1, <1>2, <1>6, <1>7, <1>8, <2>1 DEF TypeOK, window, AddEntries
<1>10. /\ \A o \in Query : o # q => feed'[o] = feed[o] /\ Latest(o)' = Latest(o)
       /\ S = {} => feed'[q] = feed[q] /\ Latest(q)' = after
       /\ S # {} => feed'[q] = S /\ (Latest(q))' \in S
  <2>1. \A o \in Query : o # q => feed'[o] = feed[o]
    BY <1>1, <1>2 DEF TypeOK
  <2>2. S = {} => feed' = feed
    BY <1>2
  <2>3. ASSUME S # {}
        PROVE  feed'[q] = S /\ (Latest(q))' \in S
    <3>1. feed'[q] = S
      BY <1>1, <1>2, <2>3 DEF TypeOK
    <3>2. (Latest(q))' = Max(S \cup {0})
      BY <3>1 DEF Latest
    <3>3. S \cup {0} \in SUBSET (Entry \cup {0})
      BY <1>5
    <3>4. Max(S \cup {0}) \in S \cup {0} /\ \A x \in S \cup {0} : x <= Max(S \cup {0})
      BY <3>3, MaxOfEntries
    <3>5. \A x \in S : ~(x <= 0)
      BY <1>5, RendererAssumption
    <3> QED
      BY <2>3, <3>1, <3>2, <3>4, <3>5
  <2> QED
    BY <2>1, <2>2, <2>3 DEF Latest, after
<1>11. ASSUME NEW e \in T, e \notin S, S # {}
       PROVE  \A x \in S : e < x
  <2>1. e \in Nat /\ \A x \in S : x \in Nat
    BY <1>3, <1>5, RendererAssumption
  <2>2. CASE after < e
    BY <1>4, <1>11, <2>2 DEF Between
  <2>3. CASE ~(after < e)
    BY <1>3, <1>5, <2>1, <2>3
  <2> QED
    BY <2>2, <2>3
<1>12. FeedTight'
  <2> SUFFICES ASSUME NEW o \in Query
               PROVE  /\ feed'[o] \subseteq posted \cap Matches[o]
                      /\ \A e \in (posted \cap Matches[o]) \ (late \cup feed'[o]) :
                            (e <= Latest(o))' => \A x \in feed'[o] : e < x
    BY <1>2 DEF FeedTight
  <2>1. CASE o # q \/ S = {}
    <3>1. feed'[o] = feed[o] /\ Latest(o)' = Latest(o)
      BY <1>10, <2>1 DEF after
    <3> QED
      BY <3>1, <1>1 DEF FeedTight
  <2>2. CASE o = q /\ S # {}
    BY <1>4, <1>10, <1>11, <2>2 DEF T
  <2> QED
    BY <2>1, <2>2
<1>13. ASSUME NEW o \in querySet', NEW e \in Missing(o)'
       PROVE  Covered(o, e)'
  <2>1. o \in querySet /\ o \in Query
    BY <1>1, <1>2 DEF TypeOK
  <2>2. /\ e \in posted \cap Matches[o] /\ e \in Entry /\ ~Seen(column', e)
        /\ (e <= Latest(o))' /\ e \notin late
        /\ e <= Latest(o) => e \in Missing(o)
    BY <1>1, <1>2, <1>6, <1>9, <1>13, <2>1, MissingStays
  <2>3. Ranges \subseteq Ranges'
    BY <1>2, <1>6 DEF Ranges
  <2>4. CASE e <= Latest(o)
    BY <1>1, <2>1, <2>2, <2>3, <2>4, OldGapCovered
  <2>5. CASE ~(e <= Latest(o))
    <3>1. o = q /\ S # {}
      BY <1>10, <2>1, <2>2, <2>5 DEF after
    <3>2. e \notin S /\ e \in T
      BY <1>6, <2>2, <3>1 DEF T
    <3>3. after < e
      BY <1>3, <2>2, <2>5, <3>1, RendererAssumption DEF after
    <3>4. \E r \in column'.triggers \cup broken' : r.query = q /\ In(r, e)
      BY <1>6, <1>11, <2>2, <3>1, <3>2, <3>3
    <3> QED
      BY <3>1, <3>4 DEF Covered, Ranges, In
  <2> QED
    BY <2>4, <2>5
<1> QED
  BY <1>7, <1>9, <1>12, <1>13 DEF RendererInv, GapOnlyByLoss, Covered, Ranges, Promises

\* A page is asked for between the entries that are there and the one that was
\* in sight: what it leaves out gets a trigger of its own, or is lost.
LEMMA AnswerFetchKeeps ==
    ASSUME RendererInv, NEW f \in fetches, AnswerFetch(f)
    PROVE  RendererInv'
<1>1. /\ TypeOK /\ ColumnInv(column) /\ column \in ColumnType /\ resets \in 0..MaxResets
      /\ FeedTight /\ GapOnlyByLoss /\ posted \in SUBSET Entry /\ broken \subseteq Span
  BY DEF RendererInv, ColumnInv, TypeOK
<1> DEFINE r == f.range
           T == posted \cap Matches[r.query]
           S == EntryIds(T, r.after, r.at, PageCount)
<1>2. /\ UNCHANGED <<server, querySet, window, resets>> /\ fetches' = fetches \ {f}
      /\ \/ AddEntries(S, r.query, r.after)
         \/ /\ broken' = broken \cup {r}
            /\ UNCHANGED <<column, scroll, render>>
  BY DEF AnswerFetch
<1>3. /\ r \in Span /\ r.query \in Query /\ r.after \in Entry \cup {0} /\ r.at \in Entry
      /\ r.after \in Nat /\ r.at \in Nat /\ r.at # 0
  <2>1. r \in Span
    BY <1>1 DEF TypeOK, Fetch
  <2> QED
    BY <2>1, EntriesAreNat DEF Span
<1>4. T \in SUBSET Entry /\ PageCount \in Nat \ {0}
  <2>1. {PageCount} \subseteq Nat \ {0}
    BY RendererAssumption
  <2> QED
    BY <1>1, <2>1
<1> HIDE DEF r, T
<1>5. /\ S \subseteq T
      /\ \A e \in Between(T, r.after, r.at) \ S : S # {} /\ \A x \in S : e < x
  BY <1>3, <1>4, AnswerIsTight
<1>6. S \in SUBSET Entry
  BY <1>4, <1>5
<1> HIDE DEF S
<1>7. FeedTight'
  BY <1>1, <1>2 DEF FeedTight, server, Latest
<1>8. CASE AddEntries(S, r.query, r.after)
  <2>1. /\ ColumnInv(column')
        /\ broken \subseteq broken' /\ broken' \subseteq Span
        /\ column.triggers \subseteq column'.triggers
        /\ \A e \in Entry :
              /\ Seen(column, e) \/ e \in S => Seen(column', e)
              /\ column'.cards[e] >= column.cards[e]
        /\ \A e \in Matches[r.query] :
              (r.after < e /\ S # {} /\ (\A x \in S : e < x)) =>
                 \E g \in column'.triggers \cup broken' : g.query = r.query /\ In(g, e)
    BY <1>1, <1>3, <1>6, <1>8, AddEntriesKeeps
  <2>2. ColumnInv(column)' /\ column' \in ColumnType
    BY <1>2, <2>1, SamePage DEF ColumnInv
  <2>3. rows \subseteq TopLevel(column)'
    BY <1>1, <2>1, <2>2, RowsKept DEF TypeOK
  <2>4. TypeOK'
    BY <1>1, <1>2, <1>8, <2>1, <2>2, <2>3 DEF TypeOK, server, window, AddEntries
  <2>5. ASSUME NEW o \in querySet', NEW e \in Missing(o)'
        PROVE  Covered(o, e)'
    <3>1. o \in querySet /\ o \in Query
      BY <1>1, <1>2 DEF TypeOK
    <3>2. /\ e \in posted \cap Matches[o] /\ e \in Entry /\ ~Seen(column', e)
          /\ e \in Missing(o)
      BY <1>1, <1>2, <2>1, <2>4, <2>5, <3>1, MissingStays DEF server, Latest
    <3>3. PICK g \in Ranges : g.query = o /\ In(g, e)
      BY <1>1, <3>1, <3>2, GapsAreCovered DEF Covered
    <3>4. CASE g = r
      <4>1. e \in Between(T, r.after, r.at) \ S
        BY <2>1, <3>2, <3>3, <3>4 DEF In, Between, T
      <4>2. \E h \in column'.triggers \cup broken' : h.query = o /\ In(h, e)
        BY <1>5, <2>1, <3>2, <3>3, <3>4, <4>1 DEF In
      <4> QED
        BY <4>2 DEF Covered, Ranges, In
    <3>5. CASE g # r
      <4>1. g \in Ranges'
        BY <1>2, <2>1, <3>5 DEF Ranges, r
      <4> QED
        BY <3>3, <4>1 DEF Covered, In
    <3> QED
      BY <3>4, <3>5
  <2> QED
    BY <1>7, <2>2, <2>4, <2>5 DEF RendererInv, GapOnlyByLoss, Covered, Ranges, Promises
<1>9. CASE broken' = broken \cup {r} /\ UNCHANGED <<column, scroll, render>>
  <2>1. TypeOK'
    BY <1>1, <1>2, <1>3, <1>9 DEF TypeOK, server, window, TopLevel
  <2>2. ColumnInv(column)'
    BY <1>1, <1>2, <1>9, SamePage
  <2>3. Ranges \subseteq Ranges'
    BY <1>2, <1>9 DEF Ranges, r
  <2>4. GapOnlyByLoss'
    BY <1>1, <1>2, <1>9, <2>1, <2>3, GapsKept
  <2> QED
    BY <1>7, <2>1, <2>2, <2>4 DEF RendererInv
<1> QED
  BY <1>2, <1>8, <1>9

LEMMA RootFoundShows ==
    ASSUME ColumnInv(column), resets \in 0..MaxResets, NEW p \in column.pulls, RootFound(p)
    PROVE  /\ column' \in ColumnType /\ column'.triggers = column.triggers
           /\ \A x \in Entry : /\ Seen(column, x) => Seen(column', x)
                               /\ column'.cards[x] >= column.cards[x]
<1>1. /\ \A e \in Entry :
           /\ column'.cards[e] = (IF e = p.root THEN column.cards[e] + 1
                                  ELSE column.cards[e]) + p.waiting[e]
           /\ column'.known[e] = IF e = p.root THEN "card" ELSE column.known[e]
           /\ column.cards[e] \in Nat /\ p.waiting[e] \in 0..2
      /\ column'.firsts = column.firsts
      /\ column' \in ColumnType /\ column'.triggers = column.triggers
  BY RootFoundIs
<1>2. \A x \in Entry : column'.cards[x] >= column.cards[x]
  BY <1>1
<1>3. ASSUME NEW x \in Entry, Seen(column, x)
      PROVE  Seen(column', x)
  BY <1>1, <1>2, <1>3 DEF Seen
<1> QED
  BY <1>1, <1>2, <1>3

LEMMA AnswerPullKeeps ==
    ASSUME RendererInv, NEW p \in column.pulls, AnswerPull(p)
    PROVE  RendererInv'
<1>1. /\ TypeOK /\ ColumnInv(column) /\ column \in ColumnType /\ resets \in 0..MaxResets
      /\ FeedTight /\ GapOnlyByLoss
  BY DEF RendererInv, ColumnInv, TypeOK
<1>2. /\ UNCHANGED <<server, querySet, fetches, window, resets, broken>>
      /\ RootFound(p) \/ RootNotFound(p)
  BY DEF AnswerPull
<1>3. /\ ColumnInv(column') /\ column'.triggers = column.triggers
      /\ \A x \in Entry : /\ Seen(column, x) => Seen(column', x)
                          /\ column'.cards[x] >= column.cards[x]
  <2>1. CASE RootFound(p)
    BY <1>1, <2>1, RootFoundKeeps, RootFoundShows
  <2>2. CASE RootNotFound(p)
    <3>1. /\ ColumnInv(column') /\ column'.triggers = column.triggers
          /\ column'.cards = column.cards /\ column'.known = column.known
          /\ column'.firsts = column.firsts
      BY <1>1, <2>2, RootNotFoundKeeps
    <3>2. \A x \in Entry : column.cards[x] \in Nat
      BY <1>1 DEF ColumnType
    <3> QED
      BY <3>1, <3>2 DEF Seen
  <2> QED
    BY <1>2, <2>1, <2>2
<1>4. ColumnInv(column)' /\ column' \in ColumnType
  BY <1>2, <1>3, SamePage DEF ColumnInv
<1>5. rows \subseteq TopLevel(column)'
  BY <1>1, <1>3, <1>4, RowsKept DEF TypeOK
<1>6. {scroll, render}' \subseteq BOOLEAN
  BY <1>1, <1>2 DEF TypeOK, RootFound, RootNotFound
<1>7. TypeOK'
  BY <1>1, <1>2, <1>4, <1>5, <1>6 DEF TypeOK, server, window
<1>8. FeedTight'
  BY <1>1, <1>2 DEF FeedTight, server, Latest
<1>9. GapOnlyByLoss'
  <2>1. Ranges \subseteq Ranges'
    BY <1>2, <1>3 DEF Ranges
  <2> QED
    BY <1>1, <1>2, <1>3, <1>7, <2>1, GapsKept
<1> QED
  BY <1>4, <1>7, <1>8, <1>9 DEF RendererInv

LEMMA ResetKeeps ==
    ASSUME RendererInv, Reset
    PROVE  RendererInv'
<1>1. TypeOK /\ ColumnInv(column) /\ column \in ColumnType /\ FeedTight
  BY DEF RendererInv, ColumnInv
<1>2. /\ resets < MaxResets /\ resets' = resets + 1 /\ querySet' = {}
      /\ column' = Empty(column.pulls) /\ broken' = {} /\ rows' = {}
      /\ UNCHANGED <<server, fetches, down, scroll, render>>
  BY DEF Reset
<1>3. resets \in Nat /\ MaxResets \in Nat /\ resets' \in 0..MaxResets
  BY <1>1, <1>2, RendererAssumption DEF TypeOK
<1>4. \A p \in column.pulls : p.page <= resets /\ p.page \in Nat /\ p \in Pull
  BY <1>1 DEF ColumnInv, PullsApart, ColumnType, Pull
<1>5. /\ column' \in ColumnType /\ column'.pulls = column.pulls
      /\ column'.cards = [e \in Entry |-> 0] /\ column'.known = [e \in Entry |-> "none"]
      /\ column'.firsts = {} /\ column'.stray = {}
  BY <1>2, <1>4 DEF Empty, ColumnType
<1>6. Current(column)' = {}
  BY <1>2, <1>3, <1>4, <1>5 DEF Current
<1>7. PullsApart(column)'
  <2>1. \A p \in column'.pulls : p.page <= resets'
    BY <1>2, <1>3, <1>4, <1>5
  <2> QED
    BY <1>1, <1>5, <2>1 DEF PullsApart, ColumnInv
<1>8. DummiesFetched(column)' /\ PostsRegistered(column)' /\ PlacedIn(column)'
  BY <1>5, <1>6 DEF DummiesFetched, PostsRegistered, PlacedIn
<1>9. KidsCounted(column)'
  BY <1>5, <1>6 DEF KidsCounted, Budget
<1>10. ColumnInv(column)'
  BY <1>5, <1>7, <1>8, <1>9 DEF ColumnInv
<1>11. TypeOK'
  BY <1>1, <1>2, <1>3, <1>5 DEF TypeOK, server
<1>12. FeedTight'
  BY <1>1, <1>2 DEF FeedTight, server, Latest
<1>13. GapOnlyByLoss'
  BY <1>2 DEF GapOnlyByLoss
<1> QED
  BY <1>10, <1>11, <1>12, <1>13 DEF RendererInv

\* Only top-level entries of the column get rows.
LEMMA RowsRendered ==
    ASSUME TypeOK, RenderNow, column' \in ColumnType, column'.cards = column.cards
    PROVE  rows' \subseteq TopLevel(column)'
<1>1. TopLevel(column)' = TopLevel(column)
  BY DEF TopLevel
<1>2. rows' = rows \cup Newest(TopLevel(column), View + down + Ahead + 1)
  BY DEF RenderNow
<1>3. rows \subseteq TopLevel(column)
  BY DEF TypeOK
<1>4. Newest(TopLevel(column), View + down + Ahead + 1) \subseteq TopLevel(column)
  BY DEF Newest
<1> QED
  BY <1>1, <1>2, <1>3, <1>4

\* Scrolling and rendering change nothing of the column but its triggers, and
\* a trigger that goes is a fetch.
LEMMA OnScrollKeeps ==
    ASSUME RendererInv, OnScroll
    PROVE  RendererInv'
<1>1. /\ TypeOK /\ ColumnInv(column) /\ column \in ColumnType /\ resets \in 0..MaxResets
      /\ FeedTight /\ GapOnlyByLoss
  BY DEF RendererInv, ColumnInv, TypeOK
<1> DEFINE fired == {r \in column.triggers : r.at \in rows /\ InSight(r.at)}
           T == column.triggers \ fired
<1>2. /\ UNCHANGED <<server, querySet, down, resets, broken, render>> /\ scroll' = FALSE
      /\ column' = [column EXCEPT !.triggers = T]
      /\ fetches' = fetches \cup {[range |-> r, page |-> resets] : r \in fired}
      /\ RenderNow
  BY DEF OnScroll, RenderNow
<1>3. fired \subseteq column.triggers /\ fired \subseteq Span /\ T \in SUBSET Span
  BY <1>1 DEF ColumnType
<1>4. {[range |-> r, page |-> resets] : r \in fired} \subseteq Fetch
  BY <1>1, <1>3 DEF Fetch
<1> HIDE DEF fired, T
<1>5. /\ ColumnInv(column') /\ column'.triggers = T
      /\ column'.cards = column.cards /\ column'.known = column.known
      /\ column'.firsts = column.firsts
  BY <1>1, <1>2, <1>3, TriggersKeep
<1>6. ColumnInv(column)' /\ column' \in ColumnType
  BY <1>2, <1>5, SamePage DEF ColumnInv
<1>7. rows' \subseteq TopLevel(column)'
  BY <1>1, <1>2, <1>5, <1>6, RowsRendered
<1>8. TypeOK'
  BY <1>1, <1>2, <1>4, <1>6, <1>7 DEF TypeOK, server
<1>9. FeedTight'
  BY <1>1, <1>2 DEF FeedTight, server, Latest
<1>10. Ranges \subseteq Ranges'
  <2>1. column.triggers \subseteq column'.triggers \cup fired
    BY <1>5 DEF T
  <2>2. fired \subseteq {f.range : f \in fetches'}
    <3> SUFFICES ASSUME NEW r \in fired PROVE \E f \in fetches' : f.range = r
      OBVIOUS
    <3>1. [range |-> r, page |-> resets] \in fetches'
      BY <1>2
    <3> QED
      BY <3>1
  <2>3. fetches \subseteq fetches'
    BY <1>2
  <2>4. {f.range : f \in fetches} \subseteq {f.range : f \in fetches'}
    BY <2>3
  <2> QED
    BY <1>2, <2>1, <2>2, <2>4 DEF Ranges
<1>11. GapOnlyByLoss'
  BY <1>1, <1>2, <1>5, <1>8, <1>10, GapsKept DEF Seen
<1> QED
  BY <1>6, <1>8, <1>9, <1>11 DEF RendererInv

LEMMA RenderLaterKeeps ==
    ASSUME RendererInv, RenderLater
    PROVE  RendererInv'
<1>1. TypeOK /\ ColumnInv(column) /\ FeedTight /\ GapOnlyByLoss
  BY DEF RendererInv
<1>2. /\ UNCHANGED <<server, querySet, down, resets, broken, column, fetches, scroll>>
      /\ render' = FALSE /\ RenderNow
  BY DEF RenderLater, RenderNow
<1>3. ColumnInv(column)' /\ column' \in ColumnType
  BY <1>1, <1>2, SamePage DEF ColumnInv
<1>4. rows' \subseteq TopLevel(column)'
  BY <1>1, <1>2, <1>3, RowsRendered
<1>5. TypeOK'
  BY <1>1, <1>2, <1>3, <1>4 DEF TypeOK, server
<1>6. FeedTight'
  BY <1>1, <1>2 DEF FeedTight, server, Latest
<1>7. GapOnlyByLoss'
  BY <1>1, <1>2, <1>5, GapsKept DEF Seen, Ranges
<1> QED
  BY <1>3, <1>5, <1>6, <1>7 DEF RendererInv

LEMMA StillKeeps ==
    ASSUME RendererInv, UNCHANGED <<server, querySet, column, fetches, rows, resets, broken>>,
           down' \in 0..Down, {scroll, render}' \subseteq BOOLEAN
    PROVE  RendererInv'
<1>1. TypeOK /\ ColumnInv(column) /\ FeedTight /\ GapOnlyByLoss
  BY DEF RendererInv
<1>2. ColumnInv(column)'
  BY <1>1, SamePage
<1>3. TypeOK'
  BY <1>1 DEF TypeOK, server, TopLevel
<1>4. FeedTight'
  BY <1>1 DEF FeedTight, server, Latest
<1>5. GapOnlyByLoss'
  BY <1>1, <1>3, GapsKept DEF Seen, Ranges
<1> QED
  BY <1>2, <1>3, <1>4, <1>5 DEF RendererInv

LEMMA ColumnNext == RendererInv /\ [Next]_vars => RendererInv'
<1> SUFFICES ASSUME RendererInv, [Next]_vars PROVE RendererInv'
  OBVIOUS
<1>1. TypeOK /\ column.triggers \in SUBSET Span
  BY DEF RendererInv, ColumnInv, ColumnType
<1>2. ASSUME NEW e \in Entry, Post(e) \/ Compose(e)
      PROVE  RendererInv'
  BY <1>2, PostKeeps, ComposeKeeps
<1>3. ASSUME NEW q \in Query, AddQuery(q) \/ Poll(q)
      PROVE  RendererInv'
  BY <1>3, AddQueryKeeps, PollKeeps
<1>4. ASSUME NEW d \in 0..Down, Scroll(d)
      PROVE  RendererInv'
  <2>1. scroll' \in BOOLEAN
    BY <1>4 DEF Scroll
  <2> QED
    BY <1>1, <1>4, <2>1, StillKeeps DEF Scroll, TypeOK
<1>5. ASSUME NEW f \in fetches, AnswerFetch(f)
      PROVE  RendererInv'
  BY <1>5, AnswerFetchKeeps
<1>6. ASSUME NEW p \in column.pulls, AnswerPull(p)
      PROVE  RendererInv'
  BY <1>6, AnswerPullKeeps
<1>7. CASE OnScroll
  BY <1>7, OnScrollKeeps
<1>8. CASE RenderLater
  BY <1>8, RenderLaterKeeps
<1>9. CASE Reset
  BY <1>9, ResetKeeps
<1>10. CASE UNCHANGED vars
  BY <1>1, <1>10, StillKeeps DEF vars, window, TypeOK
<1> QED
  BY <1>2, <1>3, <1>4, <1>5, <1>6, <1>7, <1>8, <1>9, <1>10 DEF Next

-----------------------------------------------------------------------------
(* What holds of the column *)

\* The invariant of the renderer holds in every state.
THEOREM RendererSafe == Spec => []RendererInv
<1> QED
  BY ColumnInit, ColumnNext, PTL DEF Spec

\* Every variable keeps its type; rows are those of top-level entries that are in
\* the column (renderer.js:413-440).
THEOREM ColumnTypeCorrect == Spec => []TypeOK
<1>1. RendererInv => TypeOK
  BY DEF RendererInv
<1> QED
  BY <1>1, RendererSafe, PTL

\* Whatever order posts, polls, pages, scrolling and resets come in, for every
\* number of queries and page sizes: an entry that should be in the column
\* and is not lies in a range that a trigger or fetch stands for, or where a
\* chain of pages has broken off (renderer.js:319-384, :487-537).
THEOREM GapOnlyByLossHolds == Spec => []GapOnlyByLoss
<1>1. RendererInv => GapOnlyByLoss
  BY DEF RendererInv
<1> QED
  BY <1>1, RendererSafe, PTL

\* No entry is shown twice, but those that began the fetch of a root and those
\* added by a fetch of an earlier page (renderer.js:181-182, :220-252, :281-316).
THEOREM ShownOnceHolds == Spec => []ShownOnce
<1>1. RendererInv => ShownOnce
  <2> SUFFICES ASSUME RendererInv, NEW e \in Entry, column.cards[e] > 1,
                      e \notin column.stray
               PROVE  e \in column.firsts
    BY DEF ShownOnce
  <2>1. /\ PostsRegistered(column) /\ KidsCounted(column) /\ column.cards[e] \in Nat
    BY DEF RendererInv, ColumnInv, ColumnType
  <2>2. Verb[e] # "post"
    BY <2>1 DEF PostsRegistered
  <2>3. column.cards[e] <= Budget(column, e)
    BY <2>1, <2>2 DEF KidsCounted
  <2> QED
    BY <2>1, <2>3 DEF Budget
<1> QED
  BY <1>1, RendererSafe, PTL

\* A reply or share that is registered is shown or waits for its root, unless
\* that was not found or has both replies and shares waiting
\* (renderer.js:204-255, :265-317).
THEOREM KidsPlacedHolds == Spec => []KidsPlaced
<1>1. RendererInv => KidsPlaced
  BY DEF RendererInv, ColumnInv, PlacedIn, KidsPlaced, Current
<1> QED
  BY <1>1, RendererSafe, PTL

-----------------------------------------------------------------------------
(* The column implements Column *)

WaitingIn(c) == UNION {{e \in Entry : p.waiting[e] > 0} : p \in c.pulls}
ShownIn(c) == {e \in Entry : c.cards[e] > 0}

\* What is added appears or begins to wait; nothing else changes.
LEMMA AddedArrives ==
    ASSUME NEW c, ColumnInv(c), resets \in 0..MaxResets, NEW S \in SUBSET Entry
    PROVE  /\ ShownIn(c) \subseteq ShownIn(Added(c, S))
           /\ ShownIn(Added(c, S)) \subseteq ShownIn(c) \cup S
           /\ WaitingIn(c) \subseteq WaitingIn(Added(c, S))
           /\ WaitingIn(Added(c, S)) \subseteq WaitingIn(c) \cup S
<1> DEFINE a == Added(c, S)
<1>1. c \in ColumnType /\ a.pulls = {Served(c, S, p) : p \in AllPulls(c, S)}
  BY AddedIs DEF ColumnInv
<1>2. \A e \in Entry : /\ a.cards[e] >= c.cards[e]
                       /\ a.cards[e] > c.cards[e] => e \in S
                       /\ a.cards[e] \in Nat /\ c.cards[e] \in Nat
  BY <1>1, AddedShows, AddedPoints
<1> HIDE DEF a
<1>3. ASSUME NEW p \in AllPulls(c, S), NEW e \in Entry
      PROVE  /\ p.waiting[e] > 0 => Served(c, S, p).waiting[e] > 0
             /\ Served(c, S, p).waiting[e] > 0 => e \in S \/ (p \in c.pulls /\ p.waiting[e] > 0)
  <2>1. /\ p \in c.pulls \/ p.waiting = [x \in Entry |-> 0]
        /\ Served(c, S, p).waiting = [x \in Entry |-> IF x \in Taken(c, S, p)
                                                      THEN p.waiting[x] + 1 ELSE p.waiting[x]]
    BY <1>1, PullsServed
  <2>2. p.waiting[e] \in 0..2 /\ (e \in Taken(c, S, p) => e \in Kids(c, S))
    BY AddedWaits
  <2>3. e \in Kids(c, S) => e \in S
    BY DEF Kids
  <2>4. p.waiting[e] > 0 => p \in c.pulls
    BY <2>1
  <2> QED
    BY <2>1, <2>2, <2>3, <2>4
<1>4. ShownIn(c) \subseteq ShownIn(a) /\ ShownIn(a) \subseteq ShownIn(c) \cup S
  <2>1. \A e \in Entry : /\ c.cards[e] > 0 => a.cards[e] > 0
                         /\ a.cards[e] > 0 => c.cards[e] > 0 \/ e \in S
    BY <1>2
  <2> QED
    BY <2>1 DEF ShownIn
<1>5. ASSUME NEW e \in WaitingIn(c)
      PROVE  e \in WaitingIn(a)
  <2>1. PICK p \in c.pulls : e \in Entry /\ p.waiting[e] > 0
    BY DEF WaitingIn
  <2>2. Served(c, S, p) \in a.pulls /\ Served(c, S, p).waiting[e] > 0
    BY <1>1, <1>3, <2>1 DEF AllPulls
  <2> QED
    BY <2>1, <2>2 DEF WaitingIn
<1>6. ASSUME NEW e \in WaitingIn(a)
      PROVE  e \in WaitingIn(c) \cup S
  <2>1. PICK s \in a.pulls : e \in Entry /\ s.waiting[e] > 0
    BY DEF WaitingIn
  <2>2. PICK p \in AllPulls(c, S) : s = Served(c, S, p)
    BY <1>1
  <2> QED
    BY <1>3, <2>1, <2>2 DEF WaitingIn
<1> QED
  BY <1>4, <1>5, <1>6 DEF a

\* A reply or share is shown under its root only.
LEMMA RootsShown ==
    ASSUME NEW c, ColumnInv(c)
    PROVE  \A e \in ShownIn(c) : Root[e] \in ShownIn(c)
<1> SUFFICES ASSUME NEW e \in Entry, c.cards[e] > 0
             PROVE  Root[e] \in Entry /\ c.cards[Root[e]] > 0
  BY DEF ShownIn
<1>1. CASE Verb[e] = "post"
  BY <1>1, RootsArePosts
<1>2. CASE Verb[e] # "post"
  BY <1>2, RootsArePosts DEF ColumnInv, KidsCounted
<1> QED
  BY <1>1, <1>2

LEMMA ArriveIs ==
    ASSUME NEW S, ColumnInv(column'),
           /\ ShownIn(column) \subseteq ShownIn(column')
           /\ ShownIn(column') \subseteq ShownIn(column) \cup S
           /\ WaitingIn(column) \subseteq WaitingIn(column')
           /\ WaitingIn(column') \subseteq WaitingIn(column) \cup S
    PROVE  Promised!Arrive(S)
<1>1. \A e \in ShownIn(column') : Root[e] \in ShownIn(column')
  BY RootsShown
<1> QED
  BY <1>1 DEF Promised!Arrive, ShownIn, WaitingIn

\* An answer to a query that is asked.
LEMMA AddEntriesArrive ==
    ASSUME RendererInv, NEW S \in SUBSET Entry, NEW q \in Query, NEW after \in Entry \cup {0},
           AddEntries(S, q, after), NEW W, S \subseteq W
    PROVE  /\ Promised!Arrive(W)
           /\ \A r \in column'.triggers \ column.triggers : r.query = q
           /\ column.triggers \subseteq column'.triggers
<1>1. ColumnInv(column) /\ resets \in 0..MaxResets /\ broken \subseteq Span
  BY DEF RendererInv, TypeOK
<1>2. /\ ColumnInv(column') /\ column.triggers \subseteq column'.triggers
      /\ column'.pulls = Added(column, S).pulls
      /\ column'.cards = Added(column, S).cards
      /\ \A r \in column'.triggers \ column.triggers : r.query = q
  BY <1>1, AddEntriesKeeps
<1>3. /\ ShownIn(column') = ShownIn(Added(column, S))
      /\ WaitingIn(column') = WaitingIn(Added(column, S))
  BY <1>2 DEF ShownIn, WaitingIn
<1>4. Promised!Arrive(W)
  BY <1>1, <1>2, <1>3, AddedArrives, ArriveIs
<1> QED
  BY <1>2, <1>4

AskedBy(Q, T, F) == Q \cup {r.query : r \in T \cup {f.range : f \in F}}

LEMMA AskedIs ==
    /\ Asked = AskedBy(querySet, column.triggers, fetches)
    /\ Asked' = AskedBy(querySet', column'.triggers, fetches')
BY DEF Asked, AskedBy

\* Nothing that Column speaks of changes.
LEMMA Stutters ==
    ASSUME Asked' = Asked, column'.cards = column.cards, column'.pulls = column.pulls
    PROVE  UNCHANGED Promised!vars
BY DEF Promised!vars

LEMMA RootFoundReleases ==
    ASSUME ColumnInv(column), resets \in 0..MaxResets, NEW p \in column.pulls, RootFound(p)
    PROVE  LET kids == {w \in WaitingIn(column) : Root[w] = p.root} IN
           /\ ShownIn(column) \cup {p.root} \subseteq ShownIn(column')
           /\ ShownIn(column') \subseteq ShownIn(column) \cup {p.root} \cup kids
<1> DEFINE kids == {w \in WaitingIn(column) : Root[w] = p.root}
<1>1. /\ \A e \in Entry :
           /\ column'.cards[e] = (IF e = p.root THEN column.cards[e] + 1
                                  ELSE column.cards[e]) + p.waiting[e]
           /\ column.cards[e] \in Nat /\ p.waiting[e] \in 0..2
  BY RootFoundIs
<1>2. /\ p.root \in Entry
      /\ \A e \in Entry : p.waiting[e] > 0 => e \in kids
  <2>1. p \in Pull
    BY DEF ColumnInv, ColumnType
  <2>2. \A e \in Entry : p.waiting[e] > 0 => Root[e] = p.root
    BY DEF ColumnInv, PullsApart
  <2> QED
    BY <2>1, <2>2 DEF Pull, WaitingIn
<1> HIDE DEF kids
<1>3. \A e \in Entry : /\ column.cards[e] > 0 \/ e = p.root => column'.cards[e] > 0
                       /\ column'.cards[e] > 0 => \/ column.cards[e] > 0 \/ e = p.root
                                                  \/ e \in kids
  BY <1>1, <1>2
<1>4. /\ ShownIn(column) \cup {p.root} \subseteq ShownIn(column')
      /\ ShownIn(column') \subseteq ShownIn(column) \cup {p.root} \cup kids
  BY <1>2, <1>3 DEF ShownIn
<1> QED
  BY <1>4 DEF kids

\* An entry stops waiting only with its root.
LEMMA PullGone ==
    ASSUME ColumnInv(column), NEW p \in column.pulls, column'.pulls = column.pulls \ {p}
    PROVE  /\ WaitingIn(column') \subseteq WaitingIn(column)
           /\ \A w \in WaitingIn(column) \ WaitingIn(column') : Root[w] = p.root
<1>1. \A e \in Entry : p.waiting[e] > 0 => Root[e] = p.root
  BY DEF ColumnInv, PullsApart
<1> QED
  BY <1>1 DEF WaitingIn

LEMMA AnswerPullReleases ==
    ASSUME RendererInv, NEW p \in column.pulls, AnswerPull(p)
    PROVE  Promised!Release(p.root) /\ p.root \in Entry
<1>1. ColumnInv(column) /\ resets \in 0..MaxResets
  BY DEF RendererInv, TypeOK
<1>2. /\ UNCHANGED <<querySet, fetches>>
      /\ RootFound(p) \/ RootNotFound(p)
  BY DEF AnswerPull
<1>3. /\ column'.pulls = column.pulls \ {p} /\ column'.triggers = column.triggers
      /\ LET kids == {w \in WaitingIn(column) : Root[w] = p.root} IN
           \/ ShownIn(column') = ShownIn(column)
           \/ /\ ShownIn(column) \cup {p.root} \subseteq ShownIn(column')
              /\ ShownIn(column') \subseteq ShownIn(column) \cup {p.root} \cup kids
  <2>1. CASE RootFound(p)
    BY <1>1, <2>1, RootFoundIs, RootFoundReleases
  <2>2. CASE RootNotFound(p)
    <3>1. column'.pulls = column.pulls \ {p} /\ column'.triggers = column.triggers
          /\ column'.cards = column.cards
      BY <1>1, <2>2, RootNotFoundKeeps
    <3> QED
      BY <3>1 DEF ShownIn
  <2> QED
    BY <1>2, <2>1, <2>2
<1>4. /\ WaitingIn(column') \subseteq WaitingIn(column)
      /\ \A w \in WaitingIn(column) \ WaitingIn(column') : Root[w] = p.root
  BY <1>1, <1>3, PullGone
<1>5. Asked' = Asked
  BY <1>2, <1>3, AskedIs
<1>6. p.root \in Entry
  BY <1>1 DEF ColumnInv, ColumnType, Pull
<1> QED
  BY <1>3, <1>4, <1>5, <1>6 DEF Promised!Release, WaitingIn, ShownIn

\* Every step of the renderer is one of Column, or none.
LEMMA ColumnSteps == RendererInv /\ RendererInv' /\ [Next]_vars => [Promised!Next]_(Promised!vars)
<1> SUFFICES ASSUME RendererInv, RendererInv', [Next]_vars
             PROVE  Promised!Next \/ UNCHANGED Promised!vars
  OBVIOUS
<1>1. /\ TypeOK /\ ColumnInv(column) /\ resets \in 0..MaxResets /\ FeedTight
      /\ column \in ColumnType /\ column.triggers \subseteq Span
  BY DEF RendererInv, ColumnInv, TypeOK, ColumnType
<1>2. ColumnInv(column)' /\ column' \in ColumnType
  BY DEF RendererInv, ColumnInv
<1>3. ASSUME NEW q \in Query, AddQuery(q)
      PROVE  Promised!Next \/ UNCHANGED Promised!vars
  <2>1. fetches' = fetches /\ querySet' = querySet \cup {q}
    BY <1>3 DEF AddQuery
  <2>2. CASE feed[q] = {}
    <3>1. column' = column
      BY <1>3, <2>2 DEF AddQuery
    <3>2. Asked' = Asked \cup {q}
      BY <2>1, <3>1, AskedIs DEF AskedBy
    <3>3. ColumnInv(column')
      BY <1>1, <3>1
    <3>4. PICK W : W = Promised!Answers(Asked \cup {q})
      OBVIOUS
    <3>5. Promised!Arrive(W)
      BY <3>1, <3>3, ArriveIs
    <3>6. Promised!Arrive(Promised!Answers(Asked \cup {q}))
      BY <3>4, <3>5 DEF Promised!Arrive
    <3> QED
      BY <3>2, <3>6 DEF Promised!Next, Promised!Ask
  <2>3. CASE feed[q] # {}
    <3>1. AddEntries(feed[q], q, 0) /\ feed[q] \in SUBSET Entry /\ 0 \in Entry \cup {0}
      BY <1>1, <1>3, <2>3 DEF AddQuery, TypeOK
    <3>2. PICK W : W = Promised!Answers(Asked \cup {q})
      OBVIOUS
    <3>3. feed[q] \subseteq W
      BY <1>1, <3>2 DEF FeedTight, Promised!Answers
    <3>4. /\ Promised!Arrive(W)
          /\ \A r \in column'.triggers \ column.triggers : r.query = q
          /\ column.triggers \subseteq column'.triggers
      BY <3>1, <3>3, AddEntriesArrive
    <3>5. Asked' = Asked \cup {q}
      BY <2>1, <3>4, AskedIs DEF AskedBy
    <3>6. Promised!Arrive(Promised!Answers(Asked \cup {q}))
      BY <3>2, <3>4 DEF Promised!Arrive
    <3> QED
      BY <3>5, <3>6 DEF Promised!Next, Promised!Ask
  <2> QED
    BY <2>2, <2>3
<1>4. ASSUME NEW q \in Query, Poll(q)
      PROVE  Promised!Next
  <2> DEFINE S == EntryIds(posted \cap Matches[q], Latest(q), 0,
                           IF q \in polled THEN PollCount ELSE FirstCount)
  <2>1. q \in querySet /\ fetches' = fetches /\ querySet' = querySet
        /\ AddEntries(S, q, Latest(q))
    BY <1>4 DEF Poll
  <2>2. S \subseteq posted \cap Matches[q] /\ S \in SUBSET Entry
    BY <1>1 DEF EntryIds, Newest, Between, TypeOK
  <2>3. Latest(q) \in Entry \cup {0}
    BY <1>1, LatestIs
  <2> HIDE DEF S
  <2>4. q \in Asked
    BY <2>1, AskedIs DEF AskedBy
  <2>5. PICK W : W = Promised!Answers(Asked)
    OBVIOUS
  <2>6. S \subseteq W
    BY <2>2, <2>4, <2>5 DEF Promised!Answers
  <2>7. /\ Promised!Arrive(W)
        /\ \A r \in column'.triggers \ column.triggers : r.query = q
        /\ column.triggers \subseteq column'.triggers
    BY <2>1, <2>2, <2>3, <2>6, AddEntriesArrive
  <2>8. Asked' \subseteq Asked
    BY <2>1, <2>4, <2>7, AskedIs DEF AskedBy
  <2>9. Promised!Arrive(Promised!Answers(Asked))
    BY <2>7, <2>5 DEF Promised!Arrive
  <2> QED
    BY <2>8, <2>9 DEF Promised!Next, Promised!Answer
<1>5. ASSUME NEW f \in fetches, AnswerFetch(f)
      PROVE  Promised!Next
  <2> DEFINE r == f.range
             S == EntryIds(posted \cap Matches[r.query], r.after, r.at, PageCount)
  <2>1. /\ querySet' = querySet /\ fetches' \subseteq fetches
        /\ AddEntries(S, r.query, r.after) \/ column' = column
    BY <1>5 DEF AnswerFetch
  <2>2. r \in Span /\ r.query \in Query /\ r.after \in Entry \cup {0}
    BY <1>1 DEF TypeOK, Fetch, Span
  <2>3. S \subseteq posted \cap Matches[r.query] /\ S \in SUBSET Entry
    BY <1>1 DEF EntryIds, Newest, Between, TypeOK
  <2>4. r.query \in Asked
    BY AskedIs DEF AskedBy
  <2> HIDE DEF S, r
  <2>5. PICK W : W = Promised!Answers(Asked)
    OBVIOUS
  <2>6. S \subseteq W
    BY <2>3, <2>4, <2>5 DEF Promised!Answers
  <2>7. /\ Promised!Arrive(W)
        /\ \A g \in column'.triggers \ column.triggers : g.query = r.query
    <3>1. CASE AddEntries(S, r.query, r.after)
      BY <2>2, <2>3, <2>6, <3>1, AddEntriesArrive
    <3>2. CASE column' = column
      <4>1. ColumnInv(column')
        BY <1>1, <3>2
      <4> QED
        BY <3>2, <4>1, ArriveIs
    <3> QED
      BY <2>1, <3>1, <3>2
  <2>8. Asked' \subseteq Asked
    BY <2>1, <2>4, <2>7, AskedIs DEF AskedBy
  <2>9. Promised!Arrive(Promised!Answers(Asked))
    BY <2>7, <2>5 DEF Promised!Arrive
  <2> QED
    BY <2>8, <2>9 DEF Promised!Next, Promised!Answer
<1>6. ASSUME NEW e \in Entry, Compose(e)
      PROVE  Promised!Next
  <2> DEFINE a == Added(column, {e})
             b == Added(a, {e})
  <2>1. {e} \in SUBSET Entry
    OBVIOUS
  <2>2. ColumnInv(a) /\ a.triggers = column.triggers
    BY <1>1, <2>1, AddedGrows
  <2>3. /\ ShownIn(column) \subseteq ShownIn(a) /\ ShownIn(a) \subseteq ShownIn(column) \cup {e}
        /\ WaitingIn(column) \subseteq WaitingIn(a)
        /\ WaitingIn(a) \subseteq WaitingIn(column) \cup {e}
    BY <1>1, <2>1, AddedArrives
  <2> HIDE DEF a
  <2>4. ColumnInv(b) /\ b.triggers = column.triggers
    BY <1>1, <2>1, <2>2, AddedGrows
  <2>5. /\ ShownIn(a) \subseteq ShownIn(b) /\ ShownIn(b) \subseteq ShownIn(a) \cup {e}
        /\ WaitingIn(a) \subseteq WaitingIn(b)
        /\ WaitingIn(b) \subseteq WaitingIn(a) \cup {e}
    BY <1>1, <2>1, <2>2, AddedArrives
  <2>6. /\ column' = a \/ column' = b
        /\ UNCHANGED <<querySet, fetches>>
    BY <1>6 DEF Compose, a
  <2> HIDE DEF b
  <2>7. ColumnInv(column') /\ Asked' = Asked
    BY <2>2, <2>4, <2>6, AskedIs
  <2>8. Promised!Arrive({e})
    BY <2>3, <2>5, <2>6, <2>7, ArriveIs
  <2> QED
    BY <2>7, <2>8 DEF Promised!Next, Promised!OwnEntry
<1>7. ASSUME NEW p \in column.pulls, AnswerPull(p)
      PROVE  Promised!Next
  BY <1>7, AnswerPullReleases DEF Promised!Next
<1>8. ASSUME Reset
      PROVE  Promised!Next
  <2>1. /\ column'.pulls = column.pulls /\ column'.triggers = {}
        /\ column'.cards = [e \in Entry |-> 0] /\ querySet' = {} /\ fetches' = fetches
    BY <1>8 DEF Reset, Empty
  <2>2. ShownIn(column') = {} /\ WaitingIn(column') = WaitingIn(column)
    BY <2>1 DEF ShownIn, WaitingIn
  <2>3. Asked' \subseteq Asked
    BY <2>1, AskedIs DEF AskedBy
  <2> QED
    BY <2>2, <2>3 DEF Promised!Next, Promised!Clear, ShownIn, WaitingIn
<1>9. ASSUME OnScroll
      PROVE  UNCHANGED Promised!vars
  <2> DEFINE fired == {r \in column.triggers : r.at \in rows /\ InSight(r.at)}
             T == column.triggers \ fired
  <2>1. /\ querySet' = querySet /\ column' = [column EXCEPT !.triggers = T]
        /\ fetches' = fetches \cup {[range |-> r, page |-> resets] : r \in fired}
    BY <1>9 DEF OnScroll, RenderNow
  <2>2. fired \subseteq column.triggers
    OBVIOUS
  <2> HIDE DEF fired
  <2>3. /\ column'.triggers = T
        /\ column'.cards = column.cards /\ column'.pulls = column.pulls
    BY <1>1, <2>1 DEF ColumnType
  <2>4. {f.range : f \in fetches'} = {f.range : f \in fetches} \cup fired
    <3> DEFINE new == {[range |-> r, page |-> resets] : r \in fired}
    <3>1. {f.range : f \in new} = fired
      <4>1. \A r \in fired : [range |-> r, page |-> resets].range = r
        OBVIOUS
      <4> QED
        BY <4>1
    <3> HIDE DEF new
    <3>2. fetches' = fetches \cup new
      BY <2>1 DEF new
    <3> QED
      BY <3>1, <3>2
  <2>5. Asked' = Asked
    BY <2>1, <2>2, <2>3, <2>4, AskedIs DEF AskedBy
  <2> QED
    BY <2>3, <2>5, Stutters
<1>10. ASSUME UNCHANGED <<querySet, column, fetches>>
       PROVE  UNCHANGED Promised!vars
  BY <1>10, AskedIs, Stutters
<1>11. ASSUME NEW e \in Entry, Post(e)
       PROVE  UNCHANGED Promised!vars
  BY <1>11, <1>10 DEF Post
<1>12. ASSUME NEW d \in 0..Down, Scroll(d)
       PROVE  UNCHANGED Promised!vars
  BY <1>12, <1>10 DEF Scroll
<1>13. ASSUME RenderLater
       PROVE  UNCHANGED Promised!vars
  BY <1>13, <1>10 DEF RenderLater, RenderNow
<1>14. ASSUME UNCHANGED vars
       PROVE  UNCHANGED Promised!vars
  BY <1>14, <1>10 DEF vars
<1> QED
  BY <1>3, <1>4, <1>5, <1>6, <1>7, <1>8, <1>9, <1>11, <1>12, <1>13, <1>14 DEF Next

\* The column keeps what Column promises (renderer.js:62-65, :164-169): only
\* what was asked for appears, and the user's own; replies and shares appear
\* under their roots; and what is shown stays until the page is emptied.
THEOREM ColumnImplemented == Spec => ColumnSpec
<1>1. Init => Promised!Init
  <2> SUFFICES ASSUME Init PROVE Promised!Init
    OBVIOUS
  <2>1. /\ column.pulls = {} /\ column.triggers = {} /\ fetches = {} /\ querySet = {}
        /\ column.cards = [e \in Entry |-> 0]
    BY DEF Init, Empty
  <2>2. Asked = {}
    BY <2>1, AskedIs DEF AskedBy
  <2> QED
    BY <2>1, <2>2 DEF Promised!Init
<1> QED
  BY <1>1, ColumnSteps, RendererSafe, PTL DEF Spec, ColumnSpec, Promised!Spec

-----------------------------------------------------------------------------
(* Pages *)

\* The newest n are at most n.
LEMMA NewestAreFew ==
    ASSUME NEW T, T \subseteq Nat, IsFiniteSet(T), NEW n \in Nat
    PROVE  /\ IsFiniteSet(Newest(T, n)) /\ Cardinality(Newest(T, n)) \in Nat
           /\ Cardinality(Newest(T, n)) <= n
<1> DEFINE N == Newest(T, n)
<1>1. N \subseteq T /\ IsFiniteSet(N) /\ Cardinality(N) \in Nat
  BY FS_Subset, FS_CardinalityType DEF Newest
<1>2. CASE N = {}
  BY <1>1, <1>2, FS_EmptySet
<1>3. CASE N # {}
  <2>1. N \subseteq Nat
    BY <1>1
  <2> HIDE DEF N
  <2>2. PICK m \in N : \A y \in N : m <= y
    BY <1>3, <2>1, LeastOf
  <2>3. IsFiniteSet(NewerIn(T, m)) /\ Cardinality(NewerIn(T, m)) < n
    BY <2>2, FS_Subset DEF N, Newest, NewerIn
  <2>4. N \ {m} \subseteq NewerIn(T, m)
    <3> SUFFICES ASSUME NEW y \in N, y # m PROVE y \in NewerIn(T, m)
      OBVIOUS
    <3>1. m < y /\ y \in T
      BY <1>1, <2>1, <2>2
    <3> QED
      BY <3>1 DEF NewerIn
  <2>5. Cardinality(N \ {m}) <= Cardinality(NewerIn(T, m))
    BY <2>3, <2>4, FS_Subset
  <2>6. Cardinality(N \ {m}) = Cardinality(N) - 1
    BY <1>1, <2>2, FS_RemoveElement
  <2>7. Cardinality(NewerIn(T, m)) \in Nat
    BY <2>3, FS_CardinalityType
  <2> QED
    BY <1>1, <2>3, <2>5, <2>6, <2>7 DEF N
<1> QED
  BY <1>2, <1>3

\* The first page of a query has all that there is for it: as many ids are read
\* as a page is long, so every later page is empty, and no page has a link to the
\* next one (TrsstAdapter.java:1637-1652, :1709-1714).
THEOREM OnePageOnly ==
    ASSUME NEW T, T \subseteq Nat, IsFiniteSet(T),
           NEW after \in Nat, NEW before \in Nat, NEW count \in Nat \ {0}
    PROVE  /\ PageOf(T, after, before, count, 0) = EntryIds(T, after, before, count)
           /\ \A page \in Nat \ {0} : PageOf(T, after, before, count, page) = {}
           /\ \A page \in Nat : ~HasNext(T, after, before, count, page)
<1> DEFINE B == Between(T, after, before)
           ids == EntryIds(T, after, before, count)
<1>1. B \subseteq Nat /\ IsFiniteSet(B)
  BY FS_Subset DEF Between
<1>2. /\ ids \subseteq B /\ IsFiniteSet(ids)
      /\ Cardinality(ids) \in Nat /\ Cardinality(ids) <= count
  BY <1>1, NewestAreFew DEF EntryIds, Newest
<1>3. TotalCount(T, after, before, count) = Cardinality(ids)
  BY DEF TotalCount
<1>4. ASSUME NEW e \in ids
      PROVE  /\ Cardinality(NewerIn(ids, e)) \in Nat
             /\ Cardinality(NewerIn(ids, e)) < count
  <2>1. NewerIn(ids, e) \subseteq ids \ {e}
    <3>1. e \in Nat
      BY <1>1, <1>2
    <3>2. ~(e < e)
      BY <3>1
    <3> QED
      BY <3>2 DEF NewerIn
  <2> HIDE DEF ids
  <2>2. /\ IsFiniteSet(ids \ {e})
        /\ Cardinality(ids \ {e}) = Cardinality(ids) - 1
    BY <1>2, FS_RemoveElement
  <2>3. /\ IsFiniteSet(NewerIn(ids, e))
        /\ Cardinality(NewerIn(ids, e)) <= Cardinality(ids \ {e})
    BY <2>1, <2>2, FS_Subset
  <2>4. Cardinality(NewerIn(ids, e)) \in Nat
    BY <2>3, FS_CardinalityType
  <2> QED
    BY <1>2, <2>2, <2>3, <2>4
<1>5. /\ 0 * count = 0 /\ (0 + 1) * count = count
      /\ \A page \in Nat \ {0} : page * count \in Nat /\ page * count >= count
  <2>1. \A page \in Nat \ {0} : page * count = (page - 1) * count + count
    OBVIOUS
  <2>2. \A page \in Nat \ {0} : (page - 1) * count \in Nat
    OBVIOUS
  <2> QED
    BY <2>1, <2>2
<1>6. PageOf(T, after, before, count, 0) = ids
  <2>1. PageOf(T, after, before, count, 0) =
          {e \in ids : /\ 0 * count <= Cardinality(NewerIn(ids, e))
                       /\ Cardinality(NewerIn(ids, e)) < (0 + 1) * count}
    BY DEF PageOf
  <2>2. \A e \in ids : /\ 0 * count <= Cardinality(NewerIn(ids, e))
                       /\ Cardinality(NewerIn(ids, e)) < (0 + 1) * count
    <3> HIDE DEF ids
    <3>1. \A n \in Nat : 0 <= n
      OBVIOUS
    <3> QED
      BY <1>4, <1>5, <3>1
  <2> QED
    BY <2>1, <2>2, Zenon
<1>7. ASSUME NEW page \in Nat \ {0}
      PROVE  PageOf(T, after, before, count, page) = {}
  <2>1. PageOf(T, after, before, count, page) =
          {e \in ids : /\ page * count <= Cardinality(NewerIn(ids, e))
                       /\ Cardinality(NewerIn(ids, e)) < (page + 1) * count}
    BY DEF PageOf
  <2> HIDE DEF ids
  <2>2. \A e \in ids : ~(page * count <= Cardinality(NewerIn(ids, e)))
    BY <1>4, <1>5
  <2> QED
    BY <2>1, <2>2
<1>8. ASSUME NEW page \in Nat
      PROVE  ~HasNext(T, after, before, count, page)
  <2>1. page + 1 \in Nat \ {0}
    OBVIOUS
  <2>2. (page + 1) * count \in Nat /\ (page + 1) * count >= count
    BY <1>5, <2>1
  <2> QED
    BY <1>2, <1>3, <2>2 DEF HasNext
<1> QED
  BY <1>6, <1>7, <1>8

=============================================================================
