------------------------------- MODULE Session -------------------------------
(***************************************************************************)
(* model.js and the account menu of controller.js: who is signed in, whom   *)
(* that account follows, and what the page shows of it.                     *)
(*                                                                          *)
(* Each action is an event handler, whole: a click, a timer, or the answer  *)
(* of a request.  Requests are answered in any order, and nothing ties an   *)
(* answer to the session that sent the request: every successful post signs *)
(* its account in.  What the server does for a request happens when it is   *)
(* answered, or fails; of equal requests under way there is one.  While a   *)
(* popup is open it covers the page.                                        *)
(***************************************************************************)
EXTENDS Naturals, FiniteSets

CONSTANTS
    Account,        \* accounts
    Existing,       \* those whose keys the local server has to begin with
    Feed,           \* feeds that may be followed
    Null,           \* JavaScript null
    MaxRequests,    \* bound on the requests under way
    MaxEntries      \* bound on the follow entries of one account for one feed

ASSUME SessionAssumption ==
    /\ Existing \subseteq Account
    /\ Null \notin Account \cup Feed /\ \A S \in SUBSET Feed : S # Null
    /\ Account \cap Feed = {}
    /\ MaxRequests \in Nat \ {0} /\ MaxEntries \in Nat \ {0}

VARIABLES
    uid,            \* authenticatedUid
    follows,        \* authenticatedFollows
    signedIn,       \* is the page of the class "signed-in"?
    selected,       \* the account that the menu shows as selected
    marked,         \* feeds whose cards have the class "following"
    busy,           \* feeds whose follow buttons are disabled
    popup,          \* what the popup asks for, and of which account
    authenticating, \* has the popup the class "authenticating"?
    requests,       \* requests under way
    accounts,       \* accounts the local server has keys of
    entries,        \* account -> feed -> number of its follow entries
    astray,         \* history: has the page parted from the model?
    doubtful,       \* history: feeds for which `follows` may be wrong
    unanswered      \* history: has a sign-in lost its callback?

session == <<uid, follows>>
page == <<signedIn, selected, marked, busy, popup, authenticating>>
server == <<accounts, entries>>
history == <<astray, doubtful, unanswered>>
vars == <<session, page, requests, server, history>>

\* `by` is the account in force when the request was sent.  `of`: the account
\* that waits for its follows to be signed in, or whose entry is deleted.  The
\* model and the page look for an account before most of them.
Push == {"signIn", "create", "edit", "compose", "follow", "delete"}
Pull == {"follows", "profile", "find"}
Request ==
    {r \in [kind : Push \cup Pull, by : Account \cup {Null},
            of : Account \cup {Null}, on : Feed \cup {Null}] :
        /\ r.kind \in {"signIn", "profile", "follow", "find", "delete"} => r.by # Null
        /\ r.kind \in {"follow", "find", "delete"} => r.on # Null}
Popup == [asks : {"nothing", "password", "newPassword", "profile"},
          of : Account \cup {Null}]

request(kind, by, of, on) == [kind |-> kind, by |-> by, of |-> of, on |-> on]
Asking(what, a) == [asks |-> what, of |-> a]
NoPopup == Asking("nothing", Null)

Followed(a) == {f \in Feed : entries[a][f] > 0}
Following == IF follows = Null THEN {} ELSE follows

Init ==
    /\ uid = Null /\ follows = Null
    /\ signedIn = FALSE /\ selected = Null
    /\ marked = {} /\ busy = {}
    /\ popup = NoPopup /\ authenticating = FALSE
    /\ requests = {}
    /\ accounts = Existing
    /\ entries = [a \in Account |-> [f \in Feed |-> 0]]
    /\ astray = FALSE /\ doubtful = {} /\ unanswered = FALSE

\* A click on the page, which a popup would cover.
Click == popup = NoPopup

Send(r) ==
    /\ r \notin requests
    /\ Cardinality(requests) < MaxRequests
    /\ requests' = requests \cup {r}

-----------------------------------------------------------------------------
(* setCurrentAccountId and onSignIn *)

\* Faulty variant: the classes of the page stay as they are.
SignOutSilently ==
    /\ uid' = Null /\ follows' = Null
    /\ selected' = Null
    /\ astray' = FALSE /\ doubtful' = {}
    /\ UNCHANGED signedIn

\* setCurrentAccountId(null)
SignOut ==
    /\ uid' = Null /\ follows' = Null
    /\ selected' = Null /\ signedIn' = FALSE
    /\ astray' = FALSE /\ doubtful' = {}

\* Faulty variant: the cards that are there already keep their marks.
ShowSignedInUnmarked(a) ==
    /\ selected' = a /\ signedIn' = TRUE
    /\ UNCHANGED marked
    /\ astray' = (uid' # a)

\* onSignIn, with what the model has by then.
ShowSignedIn(a) ==
    /\ selected' = a /\ signedIn' = TRUE
    /\ marked' = IF follows' = Null THEN {} ELSE follows'
    /\ astray' = (uid' # a)

-----------------------------------------------------------------------------
(* Clicks *)

\* Signed in, the menu shows no account but the selected one, and no "create".
SelectAccount(a) ==
    /\ Click /\ a \in accounts
    /\ signedIn => a = selected
    /\ IF uid = a
       THEN UNCHANGED <<session, popup, doubtful>> /\ ShowSignedIn(a)
       ELSE /\ selected' = Null
            /\ popup' = Asking("password", a)
            /\ UNCHANGED <<session, signedIn, marked, astray, doubtful>>
    /\ UNCHANGED <<busy, authenticating, requests, server, unanswered>>

Logout ==
    /\ Click /\ signedIn
    /\ SignOut
    /\ UNCHANGED <<marked, busy, popup, authenticating, requests, server, unanswered>>

CreateAccount ==
    /\ Click /\ ~signedIn
    /\ popup' = Asking("newPassword", Null)
    /\ UNCHANGED <<session, signedIn, selected, marked, busy, authenticating,
                   requests, server, history>>

\* The profile is pulled first; without an account the handler throws.
EditAccount ==
    /\ Click /\ signedIn /\ uid # Null
    /\ Send(request("profile", uid, Null, Null))
    /\ UNCHANGED <<session, page, server, history>>

\* The password popup stays until the answer, the others are hidden at once.
Confirm ==
    /\ \/ /\ popup.asks = "password"
          /\ Send(request("signIn", popup.of, Null, Null))
          /\ authenticating' = TRUE /\ popup' = popup
       \/ /\ popup.asks = "newPassword"
          /\ Send(request("create", Null, Null, Null))
          /\ authenticating' = TRUE /\ popup' = NoPopup
       \/ /\ popup.asks = "profile"
          /\ Send(request("edit", uid, Null, Null))
          /\ popup' = NoPopup /\ UNCHANGED authenticating
    /\ UNCHANGED <<session, signedIn, selected, marked, busy, server, history>>

Cancel ==
    /\ popup # NoPopup
    /\ popup' = NoPopup
    /\ IF popup.asks = "password"
       THEN SignOut
       ELSE UNCHANGED <<session, signedIn, selected, astray, doubtful>>
    /\ UNCHANGED <<marked, busy, authenticating, requests, server, unanswered>>

\* A click beside the popup hides it and calls nobody.
HidePopup ==
    /\ popup # NoPopup
    /\ popup' = NoPopup
    /\ UNCHANGED <<session, signedIn, selected, marked, busy, authenticating,
                   requests, server, history>>

\* The composer is disabled while its request is under way.
Compose ==
    /\ Click /\ signedIn
    /\ \A r \in requests : r.kind # "compose"
    /\ Send(request("compose", uid, Null, Null))
    /\ UNCHANGED <<session, page, server, history>>

\* The button looks at the card, followFeed and unfollowFeed at the model; when
\* they disagree, or nobody is signed in, nothing is sent.
ClickFollow(f) ==
    /\ Click /\ signedIn /\ f \notin busy
    /\ busy' = busy \cup {f}
    /\ IF uid # Null /\ (f \in marked <=> f \in Following)
       THEN Send(request(IF f \in marked THEN "find" ELSE "follow", uid, Null, f))
       ELSE UNCHANGED requests
    /\ UNCHANGED <<session, signedIn, selected, marked, popup, authenticating,
                   server, history>>

\* The card of a feed is made anew, as when its profile is shown.
Redraw(f) ==
    /\ busy' = busy \ {f}
    /\ marked' = IF f \in Following THEN marked \cup {f} ELSE marked \ {f}
    /\ UNCHANGED <<session, signedIn, selected, popup, authenticating, requests,
                   server, history>>

-----------------------------------------------------------------------------
(* Answers *)

Take(r) == requests' = requests \ {r}

\* pushFeed: whoever it was sent for is signed in.
Authenticated(a) ==
    /\ uid' = a
    /\ doubtful' = IF a = uid THEN doubtful ELSE Feed

\* Faulty variant: a failure is not passed on.
SignInAnsweredSilently(r) ==
    \/ /\ r.by \in accounts
       /\ Authenticated(r.by)
       /\ requests' = (requests \ {r}) \cup {request("follows", r.by, r.by, Null)}
       /\ UNCHANGED <<follows, page, server, astray, unanswered>>
    \/ Take(r) /\ UNCHANGED <<session, page, server, history>>

\* signIn goes on to pull the follows of whom the model then thinks signed in,
\* after a failure too.
SignInAnswered(r) ==
    \/ /\ r.by \in accounts
       /\ Authenticated(r.by)
       /\ requests' = (requests \ {r}) \cup {request("follows", r.by, r.by, Null)}
       /\ UNCHANGED <<follows, page, server, astray, unanswered>>
    \/ /\ requests' = (requests \ {r}) \cup {request("follows", uid, Null, Null)}
       /\ UNCHANGED <<session, page, server, history>>

\* The follows have come, of everybody if there was no account; signIn calls
\* back, for the account or (of = Null) for the failure.
FollowsAnswered(r) ==
    /\ Take(r)
    /\ follows' = IF r.by = Null THEN UNION {Followed(a) : a \in Account}
                                 ELSE Followed(r.by)
    /\ authenticating' = FALSE /\ UNCHANGED uid
    /\ IF r.of = Null
       THEN /\ doubtful' = IF r.by = uid THEN doubtful ELSE Feed
            /\ UNCHANGED <<signedIn, selected, marked, popup, astray>>
       ELSE /\ popup' = NoPopup
            /\ doubtful' = IF r.by = uid THEN {} ELSE Feed
            /\ ShowSignedIn(r.of)
    /\ UNCHANGED <<busy, server, unanswered>>

\* fetchFilterWithSelector does not call back after an error.
FollowsFailed(r) ==
    /\ Take(r)
    /\ unanswered' = TRUE
    /\ astray' = (astray \/ r.of # Null)
    /\ UNCHANGED <<session, page, server, doubtful>>

\* A new account is shown as signed in; its follows stay those of before.
CreateAnswered(r) ==
    \/ \E a \in Account \ accounts :
          /\ accounts' = accounts \cup {a}
          /\ uid' = a /\ UNCHANGED follows
          /\ popup' = NoPopup
          /\ ShowSignedIn(a)
          /\ requests' = (requests \ {r}) \cup {request("profile", a, Null, Null)}
          /\ authenticating' = FALSE
          /\ doubtful' = IF Following = {} THEN {} ELSE Feed
          /\ UNCHANGED <<busy, entries, unanswered>>
    \/ /\ Take(r)
       /\ authenticating' = FALSE
       /\ UNCHANGED <<session, signedIn, selected, marked, busy, popup, server,
                      history>>

\* onEditAccount: the popup with the profile replaces whatever popup there is.
ProfileAnswered(r) ==
    /\ Take(r)
    /\ popup' \in {popup, Asking("profile", Null)}
    /\ UNCHANGED <<session, signedIn, selected, marked, busy, authenticating,
                   server, history>>

\* Posts of nobody fail.
EditAnswered(r) ==
    /\ Take(r)
    /\ \/ /\ r.by # Null
          /\ Authenticated(r.by)
          /\ popup' = NoPopup
          /\ UNCHANGED follows
          /\ ShowSignedIn(r.by)
          /\ UNCHANGED <<busy, authenticating, server, unanswered>>
       \/ UNCHANGED <<session, page, server, history>>

\* Has a post signed in an account that the page does not show?
Strays(r) == astray' = (astray \/ r.by # uid)

ComposeAnswered(r) ==
    /\ Take(r)
    /\ \/ /\ r.by # Null
          /\ Authenticated(r.by)
          /\ Strays(r)
          /\ UNCHANGED <<follows, page, server, unanswered>>
       \/ UNCHANGED <<session, page, server, history>>

\* What the callbacks of followFeed and unfollowFeed do, after an error too;
\* they throw when nobody has signed in, or has signed out.
Switched(r, S) ==
    IF follows = Null
    THEN UNCHANGED <<follows, marked, busy>>
    ELSE /\ follows' = S
         /\ marked' = IF r.on \in S THEN marked \cup {r.on} ELSE marked \ {r.on}
         /\ busy' = busy \ {r.on}

FollowAnswered(r) ==
    /\ Take(r)
    /\ \/ /\ entries[r.by][r.on] < MaxEntries
          /\ entries' = [entries EXCEPT ![r.by][r.on] = @ + 1]
          /\ uid' = r.by /\ Strays(r)
          /\ doubtful' = IF r.by # uid THEN Feed
                         ELSE IF follows = Null THEN doubtful \cup {r.on}
                         ELSE doubtful
       \/ /\ UNCHANGED <<uid, entries, astray>>
          /\ doubtful' = doubtful \cup {r.on}
    /\ Switched(r, Following \cup {r.on})
    /\ UNCHANGED <<signedIn, selected, popup, authenticating, accounts, unanswered>>

\* unfollowFeed: the follow entry has been looked for.
FindAnswered(r) ==
    /\ IF entries[r.by][r.on] > 0 /\ uid # Null
       THEN requests' = (requests \ {r}) \cup {request("delete", uid, r.by, r.on)}
       ELSE Take(r)
    /\ UNCHANGED <<session, page, server, history>>

FindFailed(r) ==
    /\ Take(r)
    /\ UNCHANGED <<session, page, server, history>>

\* The first of the entries that were found is deleted.
DeleteAnswered(r) ==
    /\ Take(r)
    /\ \/ /\ entries' = IF r.by = r.of /\ entries[r.of][r.on] > 0
                        THEN [entries EXCEPT ![r.of][r.on] = @ - 1]
                        ELSE entries
          /\ uid' = r.by /\ Strays(r)
          /\ doubtful' = IF r.by # uid THEN Feed
                         ELSE IF follows = Null \/ entries'[r.by][r.on] > 0
                              THEN doubtful \cup {r.on}
                         ELSE doubtful
       \/ /\ UNCHANGED <<uid, entries, astray>>
          /\ doubtful' = doubtful \cup {r.on}
    /\ Switched(r, Following \ {r.on})
    /\ UNCHANGED <<signedIn, selected, popup, authenticating, accounts, unanswered>>

Answer(r) ==
    /\ r \in requests
    /\ \/ r.kind = "signIn" /\ SignInAnswered(r)
       \/ r.kind = "follows" /\ (FollowsAnswered(r) \/ FollowsFailed(r))
       \/ r.kind = "create" /\ CreateAnswered(r)
       \/ r.kind = "profile" /\ ProfileAnswered(r)
       \/ r.kind = "edit" /\ EditAnswered(r)
       \/ r.kind = "compose" /\ ComposeAnswered(r)
       \/ r.kind = "follow" /\ FollowAnswered(r)
       \/ r.kind = "find" /\ (FindAnswered(r) \/ FindFailed(r))
       \/ r.kind = "delete" /\ DeleteAnswered(r)

Next ==
    \/ \E a \in Account : SelectAccount(a)
    \/ Logout \/ CreateAccount \/ EditAccount
    \/ Confirm \/ Cancel \/ HidePopup
    \/ Compose
    \/ \E f \in Feed : ClickFollow(f) \/ Redraw(f)
    \/ \E r \in requests : Answer(r)

\* Requests are answered or fail; of those that sign somebody in it is needed.
Fairness ==
    \A k \in {"signIn", "follows", "create"} :
        WF_vars(\E r \in requests : r.kind = k /\ Answer(r))

Spec == Init /\ [][Next]_vars /\ Fairness

-----------------------------------------------------------------------------
TypeOK ==
    /\ uid \in Account \cup {Null}
    /\ follows \in (SUBSET Feed) \cup {Null}
    /\ signedIn \in BOOLEAN /\ authenticating \in BOOLEAN
    /\ selected \in Account \cup {Null}
    /\ marked \subseteq Feed /\ busy \subseteq Feed /\ doubtful \subseteq Feed
    /\ popup \in Popup
    /\ requests \subseteq Request
    /\ accounts \subseteq Account
    /\ entries \in [Account -> [Feed -> 0..MaxEntries]]
    /\ astray \in BOOLEAN /\ unanswered \in BOOLEAN

SigningIn(a) == request("follows", a, a, Null) \in requests

\* The page shows the account in whose name the model posts, or shows nobody
\* signed in while nobody is; they part only while the follows of a new session
\* are pulled, or after an answer that came for another session
\* (controller.js:789-849, model.js:46-71, :148-168).
PageShowsUser ==
    \/ astray
    \/ uid # Null /\ SigningIn(uid)
    \/ IF signedIn THEN uid # Null /\ selected \in {uid, Null} ELSE uid = Null

\* Signed in, the feeds that the model and the cards take for followed are those
\* that the account has follow entries for, whatever was clicked and answered in
\* between, failures and answers of other sessions aside
\* (model.js:148-159, :262-314, controller.js:108-130).
FollowsOfUser ==
    signedIn /\ uid # Null /\ ~astray /\ ~SigningIn(uid) =>
        \A f \in Feed \ doubtful :
            (f \in Following <=> f \in Followed(uid)) /\ (f \in marked <=> f \in Following)

\* Signing in or creating an account comes to an end that the popup shows,
\* unless a pull of the follows has failed (model.js:148-159, controller.js:797-818).
SignInEnds == [](authenticating => <>(~authenticating \/ unanswered))

=============================================================================
