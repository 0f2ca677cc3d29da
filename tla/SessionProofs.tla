---------------------------- MODULE SessionProofs ----------------------------
(***************************************************************************)
(* Proofs about Session: its types, that the page shows the account in      *)
(* whose name the model posts, and that the follows are those of it.        *)
(***************************************************************************)
EXTENDS Session, TLAPS

\* Whoever is signed in, asked for a password, or asks for anything but to be
\* signed in is an account of the server; no other one has entries.
AccountsKnown ==
    /\ uid \in accounts \cup {Null}
    /\ popup.asks = "password" => popup.of \in accounts
    /\ \A r \in requests : r.kind # "signIn" => r.by \in accounts \cup {Null}
    /\ \A a \in Account \ accounts : \A f \in Feed : entries[a][f] = 0

\* What the model takes for followed is, doubtful feeds aside, whatever the
\* page shows.
FollowsRight ==
    uid # Null =>
        \A f \in Feed \ doubtful : f \in Following <=> entries[uid][f] > 0

\* The cards show what the model takes for followed.
MarksRight ==
    signedIn /\ uid # Null /\ ~astray /\ ~SigningIn(uid) =>
        \A f \in Feed \ doubtful : f \in marked <=> f \in Following

SafetyInv == TypeOK /\ AccountsKnown /\ FollowsRight /\ MarksRight /\ PageShowsUser

-----------------------------------------------------------------------------
(* Requests *)

\* What a step leaves of the requests: those known, and all that sign in.
RequestsFit ==
    /\ requests' \subseteq Request
    /\ \A r \in requests' : r.kind # "signIn" => r.by \in accounts' \cup {Null}

SigningKept == \A a \in Account : SigningIn(a) => SigningIn(a)'

LEMMA RequestIs ==
    ASSUME NEW kind \in Push \cup Pull, NEW by \in Account \cup {Null},
           NEW of \in Account \cup {Null}, NEW on \in Feed \cup {Null},
           kind \in {"signIn", "profile", "follow", "find", "delete"} => by # Null,
           kind \in {"follow", "find", "delete"} => on # Null
    PROVE  /\ request(kind, by, of, on) \in Request
           /\ request(kind, by, of, on).kind = kind
           /\ request(kind, by, of, on).by = by
BY DEF request, Request

LEMMA RequestHas ==
    ASSUME NEW r \in Request
    PROVE  /\ r.kind \in Push \cup Pull /\ r.by \in Account \cup {Null}
           /\ r.of \in Account \cup {Null} /\ r.on \in Feed \cup {Null}
           /\ r.kind \in {"signIn", "profile", "follow", "find", "delete"} => r.by # Null
           /\ r.kind \in {"follow", "find", "delete"} => r.on \in Feed
BY DEF Request

LEMMA SendFits ==
    ASSUME SafetyInv, accounts \subseteq accounts',
           NEW r \in Request, r.kind # "signIn" => r.by \in accounts' \cup {Null}, Send(r)
    PROVE  RequestsFit /\ SigningKept
<1>1. requests' = requests \cup {r} /\ requests \subseteq Request
  BY DEF Send, SafetyInv, TypeOK
<1>2. \A q \in requests : q.kind # "signIn" => q.by \in accounts \cup {Null}
  BY DEF SafetyInv, AccountsKnown
<1> QED
  BY <1>1, <1>2 DEF RequestsFit, SigningKept, SigningIn

\* A request is answered, and others may take its place.
LEMMA TakeFits ==
    ASSUME SafetyInv, accounts \subseteq accounts',
           NEW r \in requests, NEW new \in SUBSET Request,
           \A q \in new : q.kind # "signIn" => q.by \in accounts' \cup {Null},
           requests' = (requests \ {r}) \cup new
    PROVE  /\ RequestsFit
           /\ r.kind # "follows" \/ r.of = Null => SigningKept
<1>1. requests \subseteq Request
  BY DEF SafetyInv, TypeOK
<1>2. \A q \in requests : q.kind # "signIn" => q.by \in accounts \cup {Null}
  BY DEF SafetyInv, AccountsKnown
<1>3. RequestsFit
  BY <1>1, <1>2 DEF RequestsFit
<1>4. ASSUME r.kind # "follows" \/ r.of = Null PROVE SigningKept
  <2>1. \A a \in Account : request("follows", a, a, Null) # r
    BY <1>4, SessionAssumption DEF request
  <2> QED
    BY <2>1 DEF SigningKept, SigningIn
<1> QED
  BY <1>3, <1>4

LEMMA TakeOnly ==
    ASSUME SafetyInv, accounts \subseteq accounts', NEW r \in requests, Take(r)
    PROVE  /\ RequestsFit
           /\ r.kind # "follows" \/ r.of = Null => SigningKept
<1>1. requests' = (requests \ {r}) \cup {}
  BY DEF Take
<1>2. {} \in SUBSET Request /\ \A q \in {} : q.kind # "signIn" => q.by \in accounts' \cup {Null}
  OBVIOUS
<1> QED
  BY <1>1, <1>2, TakeFits

-----------------------------------------------------------------------------
(* Steps that leave the model and what the page shows of it alone *)

\* The types of what a popup and the requests may become.
LEMMA Types ==
    ASSUME SafetyInv
    PROVE  /\ uid \in Account \cup {Null} /\ uid \in accounts \cup {Null}
           /\ follows \in (SUBSET Feed) \cup {Null} /\ Following \subseteq Feed
           /\ signedIn \in BOOLEAN /\ authenticating \in BOOLEAN
           /\ selected \in Account \cup {Null}
           /\ marked \subseteq Feed /\ busy \subseteq Feed /\ doubtful \subseteq Feed
           /\ popup \in Popup /\ requests \subseteq Request /\ accounts \subseteq Account
           /\ entries \in [Account -> [Feed -> 0..MaxEntries]]
           /\ astray \in BOOLEAN /\ unanswered \in BOOLEAN
BY DEF SafetyInv, TypeOK, AccountsKnown, Following

\* The page and the model are unchanged.
Same ==
    UNCHANGED <<uid, follows, signedIn, selected, marked, accounts, entries, astray, doubtful>>

\* What else may change keeps its type.
RestFits ==
    /\ popup' \in Popup /\ (popup'.asks = "password" => popup'.of \in accounts')
    /\ authenticating' \in BOOLEAN /\ busy' \subseteq Feed /\ unanswered' \in BOOLEAN

LEMMA SigningStays ==
    ASSUME SafetyInv, SigningKept, uid' = uid, uid # Null, ~SigningIn(uid)'
    PROVE  ~SigningIn(uid)
<1>1. uid \in Account
  BY Types
<1> QED
  BY <1>1 DEF SigningKept, SigningIn

LEMMA SameKeeps ==
    ASSUME SafetyInv, Same, RestFits, RequestsFit, SigningKept
    PROVE  SafetyInv'
<1>1. TypeOK /\ AccountsKnown /\ FollowsRight /\ MarksRight /\ PageShowsUser
  BY DEF SafetyInv
<1>2. TypeOK'
  BY <1>1 DEF TypeOK, Same, RestFits, RequestsFit
<1>3. AccountsKnown'
  BY <1>1 DEF AccountsKnown, Same, RestFits, RequestsFit
<1>4. FollowsRight'
  BY <1>1 DEF FollowsRight, Following, Same
<1>5. uid' = uid
  BY DEF Same
<1>6. MarksRight'
  <2>1. SUFFICES ASSUME signedIn', uid' # Null, ~astray', ~SigningIn(uid)'
                 PROVE  \A f \in Feed \ doubtful' : f \in marked' <=> f \in Following'
    BY DEF MarksRight
  <2>2. ~SigningIn(uid)
    BY <2>1, <1>5, SigningStays
  <2>3. signedIn /\ uid # Null /\ ~astray /\ Following' = Following
    BY <2>1 DEF Same, Following
  <2> QED
    BY <2>2, <2>3, <1>1 DEF MarksRight, Same
<1>7. PageShowsUser'
  <2>1. CASE uid # Null /\ SigningIn(uid)
    <3>1. SigningIn(uid)'
      BY <2>1, <1>5, SigningStays
    <3> QED
      BY <2>1, <3>1, <1>5 DEF PageShowsUser
  <2>2. CASE ~(uid # Null /\ SigningIn(uid))
    BY <2>2, <1>1 DEF PageShowsUser, Same
  <2> QED
    BY <2>1, <2>2
<1> QED
  BY <1>2, <1>3, <1>4, <1>6, <1>7 DEF SafetyInv

-----------------------------------------------------------------------------
(* Showing who is signed in *)

\* The parts of the invariant for a step that changes the model or the page.
LEMMA Assemble ==
    ASSUME SafetyInv, RestFits, RequestsFit,
           uid' \in accounts' \cup {Null}, accounts' \subseteq Account,
           follows' \in (SUBSET Feed) \cup {Null}, signedIn' \in BOOLEAN,
           selected' \in Account \cup {Null}, marked' \subseteq Feed,
           doubtful' \subseteq Feed, astray' \in BOOLEAN,
           entries' \in [Account -> [Feed -> 0..MaxEntries]],
           \A a \in Account \ accounts' : \A f \in Feed : entries'[a][f] = 0,
           FollowsRight', MarksRight', PageShowsUser'
    PROVE  SafetyInv'
<1>1. TypeOK'
  BY DEF TypeOK, RestFits, RequestsFit
<1>2. AccountsKnown'
  BY DEF AccountsKnown, RestFits, RequestsFit
<1> QED
  BY <1>1, <1>2 DEF SafetyInv

\* Showing an account sets the marks and tells whether it is the model's.
LEMMA ShownFits ==
    ASSUME NEW a \in Account, ShowSignedIn(a)
    PROVE  MarksRight' /\ PageShowsUser' /\ signedIn' \in BOOLEAN /\ astray' \in BOOLEAN
           /\ selected' \in Account \cup {Null} /\ marked' = Following'
<1>1. selected' = a /\ signedIn' = TRUE /\ astray' = (uid' # a) /\ a # Null
      /\ marked' = Following'
  BY SessionAssumption DEF ShowSignedIn, Following
<1>2. MarksRight'
  BY <1>1 DEF MarksRight
<1>3. PageShowsUser'
  BY <1>1 DEF PageShowsUser
<1> QED
  BY <1>1, <1>2, <1>3

\* Signed out, there is nothing to be wrong.
LEMMA SignedOutKeeps ==
    ASSUME SafetyInv, SignOut, RestFits, RequestsFit,
           marked' = marked, accounts' = accounts, entries' = entries
    PROVE  SafetyInv'
<1>1. /\ uid' = Null /\ follows' = Null /\ selected' = Null /\ signedIn' = FALSE
      /\ astray' = FALSE /\ doubtful' = {}
  BY DEF SignOut
<1>2. FollowsRight' /\ MarksRight' /\ PageShowsUser'
  BY <1>1 DEF FollowsRight, MarksRight, PageShowsUser
<1>3. \A a \in Account \ accounts : \A f \in Feed : entries[a][f] = 0
  BY DEF SafetyInv, AccountsKnown
<1> QED
  BY <1>1, <1>2, <1>3, Types, Assemble

\* Nothing but the requests changes.
LEMMA RequestsKeep ==
    ASSUME SafetyInv, RequestsFit, SigningKept, UNCHANGED <<session, page, server, history>>
    PROVE  SafetyInv'
<1>1. Same
  BY DEF Same, session, page, server, history
<1>2. RestFits
  <2>1. popup.asks = "password" => popup.of \in accounts
    BY DEF SafetyInv, AccountsKnown
  <2> QED
    BY <2>1, Types DEF RestFits, page, server, history
<1> QED
  BY <1>1, <1>2, SameKeeps

-----------------------------------------------------------------------------
(* Clicks *)

\* Without a change, requests fit.
LEMMA RequestsStay ==
    ASSUME SafetyInv, requests' = requests, accounts' = accounts
    PROVE  RequestsFit /\ SigningKept
BY DEF SafetyInv, TypeOK, AccountsKnown, RequestsFit, SigningKept, SigningIn

\* The popup is that of before, hidden, or another one.
LEMMA PopupFits ==
    ASSUME SafetyInv
    PROVE  /\ popup \in Popup /\ (popup.asks = "password" => popup.of \in accounts)
           /\ NoPopup \in Popup /\ NoPopup.asks # "password"
           /\ \A what \in {"newPassword", "profile"} :
                Asking(what, Null) \in Popup /\ Asking(what, Null).asks # "password"
           /\ \A a \in accounts :
                Asking("password", a) \in Popup /\ Asking("password", a).of = a
BY DEF SafetyInv, TypeOK, AccountsKnown, NoPopup, Asking, Popup

LEMMA SelectAccountKeeps ==
    ASSUME SafetyInv, NEW a \in Account, SelectAccount(a)
    PROVE  SafetyInv'
<1>1. /\ a \in accounts
      /\ busy' = busy /\ authenticating' = authenticating /\ unanswered' = unanswered
      /\ requests' = requests /\ accounts' = accounts /\ entries' = entries
      /\ uid' = uid /\ follows' = follows /\ doubtful' = doubtful
  BY DEF SelectAccount, session, server
<1>2. RequestsFit
  BY <1>1, RequestsStay
<1>3. RestFits
  <2>1. popup' \in {popup, Asking("password", a)}
    BY DEF SelectAccount
  <2> QED
    BY <1>1, <2>1, Types, PopupFits DEF RestFits
<1>4. \A b \in Account \ accounts : \A f \in Feed : entries[b][f] = 0
  BY DEF SafetyInv, AccountsKnown
<1>5. Following' = Following
  BY <1>1 DEF Following
<1>6. FollowsRight'
  <2>1. FollowsRight
    BY DEF SafetyInv
  <2> QED
    BY <1>1, <1>5, <2>1 DEF FollowsRight
<1>7. CASE uid = a
  <2>1. ShowSignedIn(a)
    BY <1>7 DEF SelectAccount
  <2>2. /\ MarksRight' /\ PageShowsUser' /\ signedIn' \in BOOLEAN /\ astray' \in BOOLEAN
        /\ selected' \in Account \cup {Null} /\ marked' = Following'
    BY <2>1, ShownFits
  <2> QED
    BY <1>1, <1>2, <1>3, <1>4, <1>5, <1>6, <2>2, Types, Assemble
<1>8. CASE uid # a
  <2>1. selected' = Null /\ signedIn' = signedIn /\ marked' = marked /\ astray' = astray
    BY <1>8 DEF SelectAccount
  <2>2. MarksRight /\ PageShowsUser
    BY DEF SafetyInv
  <2>3. MarksRight'
    BY <1>1, <1>5, <2>1, <2>2 DEF MarksRight, SigningIn
  <2>4. PageShowsUser'
    BY <1>1, <2>1, <2>2 DEF PageShowsUser, SigningIn
  <2> QED
    BY <1>1, <1>2, <1>3, <1>4, <1>6, <2>1, <2>3, <2>4, Types, Assemble
<1> QED
  BY <1>7, <1>8

LEMMA LogoutKeeps ==
    ASSUME SafetyInv, Logout
    PROVE  SafetyInv'
<1>1. /\ SignOut /\ marked' = marked /\ busy' = busy /\ popup' = popup
      /\ authenticating' = authenticating /\ requests' = requests
      /\ accounts' = accounts /\ entries' = entries /\ unanswered' = unanswered
  BY DEF Logout, server
<1>2. RequestsFit
  BY <1>1, RequestsStay
<1>3. RestFits
  BY <1>1, Types, PopupFits DEF RestFits
<1> QED
  BY <1>1, <1>2, <1>3, SignedOutKeeps

\* A popup comes or goes.
LEMMA PopupKeeps ==
    ASSUME SafetyInv, Same, requests' = requests, busy' = busy,
           authenticating' = authenticating, unanswered' = unanswered,
           popup' \in {NoPopup, Asking("newPassword", Null)}
    PROVE  SafetyInv'
<1>1. RequestsFit /\ SigningKept
  BY RequestsStay DEF Same
<1>2. RestFits
  BY Types, PopupFits DEF RestFits, Same
<1> QED
  BY <1>1, <1>2, SameKeeps

LEMMA CreateAccountKeeps ==
    ASSUME SafetyInv, CreateAccount
    PROVE  SafetyInv'
BY PopupKeeps DEF CreateAccount, Same, session, server, history

LEMMA HidePopupKeeps ==
    ASSUME SafetyInv, HidePopup
    PROVE  SafetyInv'
BY PopupKeeps DEF HidePopup, Same, session, server, history

LEMMA CancelKeeps ==
    ASSUME SafetyInv, Cancel
    PROVE  SafetyInv'
<1>1. /\ popup' = NoPopup /\ marked' = marked /\ busy' = busy
      /\ authenticating' = authenticating /\ requests' = requests
      /\ accounts' = accounts /\ entries' = entries /\ unanswered' = unanswered
  BY DEF Cancel, server
<1>2. CASE popup.asks = "password"
  <2>1. SignOut
    BY <1>2 DEF Cancel
  <2>2. RequestsFit
    BY <1>1, RequestsStay
  <2>3. RestFits
    BY <1>1, Types, PopupFits DEF RestFits
  <2> QED
    BY <1>1, <2>1, <2>2, <2>3, SignedOutKeeps
<1>3. CASE popup.asks # "password"
  <2>1. Same
    BY <1>1, <1>3 DEF Cancel, Same, session
  <2> QED
    BY <1>1, <2>1, PopupKeeps
<1> QED
  BY <1>2, <1>3

LEMMA EditAccountKeeps ==
    ASSUME SafetyInv, EditAccount
    PROVE  SafetyInv'
<1> DEFINE r == request("profile", uid, Null, Null)
<1>1. Send(r) /\ UNCHANGED <<session, page, server, history>> /\ uid # Null
  BY DEF EditAccount
<1>2. r \in Request /\ r.by = uid /\ uid \in accounts \cup {Null} /\ accounts' = accounts
  BY <1>1, Types DEF request, Request, Push, Pull, server
<1> HIDE DEF r
<1>3. RequestsFit /\ SigningKept
  BY <1>1, <1>2, SendFits
<1> QED
  BY <1>1, <1>3, RequestsKeep

LEMMA ComposeKeeps ==
    ASSUME SafetyInv, Compose
    PROVE  SafetyInv'
<1> DEFINE r == request("compose", uid, Null, Null)
<1>1. Send(r) /\ UNCHANGED <<session, page, server, history>>
  BY DEF Compose
<1>2. r \in Request /\ r.by = uid /\ uid \in accounts \cup {Null} /\ accounts' = accounts
  BY <1>1, Types DEF request, Request, Push, Pull, server
<1> HIDE DEF r
<1>3. RequestsFit /\ SigningKept
  BY <1>1, <1>2, SendFits
<1> QED
  BY <1>1, <1>3, RequestsKeep

LEMMA ConfirmKeeps ==
    ASSUME SafetyInv, Confirm
    PROVE  SafetyInv'
<1>1. /\ Same /\ busy' = busy /\ unanswered' = unanswered
      /\ accounts' = accounts
  BY DEF Confirm, Same, session, server, history
<1>2. /\ popup' \in {popup, NoPopup}
      /\ authenticating' \in {TRUE, authenticating}
  BY DEF Confirm
<1>3. RestFits
  BY <1>1, <1>2, Types, PopupFits DEF RestFits
<1>4. RequestsFit /\ SigningKept
  <2>1. CASE popup.asks = "password" /\ Send(request("signIn", popup.of, Null, Null))
    <3> DEFINE r == request("signIn", popup.of, Null, Null)
    <3>1. popup.of \in accounts /\ popup.of \in Account /\ popup.of # Null
      BY <2>1, PopupFits, Types, SessionAssumption
    <3>2. r \in Request /\ r.kind = "signIn"
      BY <3>1, RequestIs DEF Push, Pull
    <3> QED
      BY <1>1, <2>1, <3>2, SendFits
  <2>2. CASE Send(request("create", Null, Null, Null))
    <3> DEFINE r == request("create", Null, Null, Null)
    <3>1. r \in Request /\ r.by = Null
      BY RequestIs DEF Push, Pull
    <3> QED
      BY <1>1, <2>2, <3>1, SendFits
  <2>3. CASE Send(request("edit", uid, Null, Null))
    <3> DEFINE r == request("edit", uid, Null, Null)
    <3>1. r \in Request /\ r.by = uid /\ uid \in accounts \cup {Null}
      BY Types DEF request, Request, Push, Pull
    <3> QED
      BY <1>1, <2>3, <3>1, SendFits
  <2> QED
    BY <2>1, <2>2, <2>3 DEF Confirm
<1> QED
  BY <1>1, <1>3, <1>4, SameKeeps

LEMMA ClickFollowKeeps ==
    ASSUME SafetyInv, NEW f \in Feed, ClickFollow(f)
    PROVE  SafetyInv'
<1>1. /\ Same /\ popup' = popup /\ authenticating' = authenticating
      /\ unanswered' = unanswered /\ accounts' = accounts /\ busy' = busy \cup {f}
  BY DEF ClickFollow, Same, session, server, history
<1>2. RestFits
  BY <1>1, Types, PopupFits DEF RestFits
<1>3. RequestsFit /\ SigningKept
  <2>1. CASE uid # Null /\ (f \in marked <=> f \in Following)
    <3> DEFINE kind == IF f \in marked THEN "find" ELSE "follow"
               r == request(kind, uid, Null, f)
    <3>1. Send(r)
      BY <2>1 DEF ClickFollow
    <3>2. kind \in Push \cup Pull
      BY DEF Push, Pull
    <3> HIDE DEF kind
    <3>3. r \in Request /\ r.by = uid /\ uid \in accounts \cup {Null}
      BY <2>1, <3>2, Types, SessionAssumption DEF request, Request
    <3> HIDE DEF r
    <3> QED
      BY <1>1, <3>1, <3>3, SendFits
  <2>2. CASE requests' = requests
    BY <1>1, <2>2, RequestsStay
  <2> QED
    BY <2>1, <2>2 DEF ClickFollow
<1> QED
  BY <1>1, <1>2, <1>3, SameKeeps

LEMMA RedrawKeeps ==
    ASSUME SafetyInv, NEW f \in Feed, Redraw(f)
    PROVE  SafetyInv'
<1>1. /\ busy' = busy \ {f}
      /\ marked' = IF f \in Following THEN marked \cup {f} ELSE marked \ {f}
      /\ uid' = uid /\ follows' = follows /\ signedIn' = signedIn /\ selected' = selected
      /\ popup' = popup /\ authenticating' = authenticating /\ requests' = requests
      /\ accounts' = accounts /\ entries' = entries
      /\ astray' = astray /\ doubtful' = doubtful /\ unanswered' = unanswered
      /\ Following' = Following
  BY DEF Redraw, session, server, history, Following
<1>2. RequestsFit
  BY <1>1, RequestsStay
<1>3. RestFits
  BY <1>1, Types, PopupFits DEF RestFits
<1>4. FollowsRight /\ MarksRight /\ PageShowsUser
      /\ \A a \in Account \ accounts : \A g \in Feed : entries[a][g] = 0
  BY DEF SafetyInv, AccountsKnown
<1>5. FollowsRight'
  BY <1>1, <1>4 DEF FollowsRight
<1>6. MarksRight'
  BY <1>1, <1>4 DEF MarksRight, SigningIn
<1>7. PageShowsUser'
  BY <1>1, <1>4 DEF PageShowsUser, SigningIn
<1>8. marked' \subseteq Feed
  BY <1>1, Types
<1> QED
  BY <1>1, <1>2, <1>3, <1>4, <1>5, <1>6, <1>7, <1>8, Types, Assemble

-----------------------------------------------------------------------------
(* Answers *)

\* What an answer may rely on.
LEMMA Facts ==
    ASSUME SafetyInv
    PROVE  /\ FollowsRight /\ MarksRight /\ PageShowsUser
           /\ \A a \in Account \ accounts : \A f \in Feed : entries[a][f] = 0
           /\ \A r \in requests : r.kind # "signIn" => r.by \in accounts \cup {Null}
           /\ requests \subseteq Request /\ accounts \subseteq Account /\ Null \notin Account
BY SessionAssumption DEF SafetyInv, TypeOK, AccountsKnown

\* A post signs its account in; if that is another one, all is in doubt.
LEMMA AuthenticatedFits ==
    ASSUME SafetyInv, NEW a \in Account, Authenticated(a),
           follows' = follows, entries' = entries
    PROVE  FollowsRight' /\ doubtful' \subseteq Feed /\ uid' = a /\ Following' = Following
<1>1. /\ uid' = a /\ doubtful' = (IF a = uid THEN doubtful ELSE Feed)
      /\ Following' = Following
  BY DEF Authenticated, Following
<1>2. FollowsRight'
  BY <1>1, Facts DEF FollowsRight
<1> QED
  BY <1>1, <1>2, Types

LEMMA SignInAnsweredKeeps ==
    ASSUME SafetyInv, NEW r \in requests, r.kind = "signIn", SignInAnswered(r)
    PROVE  SafetyInv'
<1>1. CASE /\ r.by \in accounts
           /\ Authenticated(r.by)
           /\ requests' = (requests \ {r}) \cup {request("follows", r.by, r.by, Null)}
           /\ UNCHANGED <<follows, page, server, astray, unanswered>>
  <2> DEFINE q == request("follows", r.by, r.by, Null)
  <2>1. /\ follows' = follows /\ signedIn' = signedIn /\ selected' = selected
        /\ marked' = marked /\ busy' = busy /\ popup' = popup
        /\ authenticating' = authenticating
        /\ accounts' = accounts /\ entries' = entries
        /\ astray' = astray /\ unanswered' = unanswered
    BY <1>1 DEF page, server
  <2>2. r.by \in Account /\ r.by # Null
    BY <1>1, Facts
  <2>3. q \in Request /\ q.by = r.by
    BY <2>2 DEF request, Request, Push, Pull
  <2>4. RequestsFit
    <3>1. {q} \in SUBSET Request /\ \A p \in {q} : p.kind # "signIn" => p.by \in accounts' \cup {Null}
      BY <1>1, <2>1, <2>3
    <3> QED
      BY <1>1, <2>1, <3>1, TakeFits
  <2>5. RestFits
    BY <2>1, Types, PopupFits DEF RestFits
  <2>6. FollowsRight' /\ doubtful' \subseteq Feed /\ uid' = r.by
    BY <1>1, <2>1, <2>2, AuthenticatedFits
  <2>7. SigningIn(uid)'
    BY <1>1, <2>6 DEF SigningIn
  <2>8. MarksRight' /\ PageShowsUser'
    BY <2>2, <2>6, <2>7 DEF MarksRight, PageShowsUser
  <2> QED
    BY <1>1, <2>1, <2>4, <2>5, <2>6, <2>8, Types, Facts, Assemble
<1>2. CASE /\ requests' = (requests \ {r}) \cup {request("follows", uid, Null, Null)}
           /\ UNCHANGED <<session, page, server, history>>
  <2> DEFINE q == request("follows", uid, Null, Null)
  <2>1. q \in Request /\ q.by = uid /\ uid \in accounts \cup {Null}
    BY Types DEF request, Request, Push, Pull
  <2>2. accounts' = accounts
    BY <1>2 DEF server
  <2>3. {q} \in SUBSET Request /\ \A p \in {q} : p.kind # "signIn" => p.by \in accounts' \cup {Null}
    BY <2>1, <2>2
  <2>4. RequestsFit /\ SigningKept
    BY <1>2, <2>2, <2>3, TakeFits
  <2> QED
    BY <1>2, <2>4, RequestsKeep
<1> QED
  BY <1>1, <1>2 DEF SignInAnswered

\* The follows that have come are those of the account that asked.
LEMMA FollowsAnsweredKeeps ==
    ASSUME SafetyInv, NEW r \in requests, r.kind = "follows", FollowsAnswered(r)
    PROVE  SafetyInv'
<1>1. /\ Take(r) /\ authenticating' = FALSE /\ uid' = uid
      /\ follows' = IF r.by = Null THEN UNION {Followed(a) : a \in Account}
                                   ELSE Followed(r.by)
      /\ busy' = busy /\ unanswered' = unanswered
      /\ accounts' = accounts /\ entries' = entries
  BY DEF FollowsAnswered, server
<1>2. /\ r \in Request /\ r.by \in accounts \cup {Null} /\ r.of \in Account \cup {Null}
      /\ uid \in accounts \cup {Null} /\ Null \notin Account /\ Null \notin accounts
  BY Facts, Types, RequestHas
<1>3. follows' \subseteq Feed /\ follows' # Null => Following' = follows'
  BY DEF Following
<1>4. follows' \in SUBSET Feed
  BY <1>1 DEF Followed
<1>5. \A f \in Feed : r.by = uid /\ uid # Null => (f \in Following' <=> entries[uid][f] > 0)
  <2>1. r.by = uid /\ uid # Null => follows' = Followed(uid) /\ follows' # Null
    BY <1>1, <1>2, <1>4, SessionAssumption
  <2>2. r.by = uid /\ uid # Null => Following' = Followed(uid)
    BY <2>1 DEF Following
  <2> QED
    BY <2>2 DEF Followed
<1>6. RequestsFit /\ (r.of = Null => SigningKept)
  BY <1>1, TakeOnly
<1>7. CASE r.of = Null
  <2>1. /\ doubtful' = IF r.by = uid THEN doubtful ELSE Feed
        /\ signedIn' = signedIn /\ selected' = selected /\ marked' = marked
        /\ popup' = popup /\ astray' = astray
    BY <1>7 DEF FollowsAnswered
  <2>2. RestFits
    BY <1>1, <2>1, Types, PopupFits DEF RestFits
  <2>3. FollowsRight'
    BY <1>1, <1>5, <2>1 DEF FollowsRight
  <2>4. SigningIn(uid)' \/ ~SigningIn(uid) \/ uid = Null
    BY <1>1, <1>6, <1>7, SigningStays
  <2>5. MarksRight'
    <3>1. SUFFICES ASSUME signedIn', uid' # Null, ~astray', ~SigningIn(uid)',
                          NEW f \in Feed \ doubtful'
                   PROVE  f \in marked' <=> f \in Following'
      BY DEF MarksRight
    <3>2. r.by = uid /\ f \notin doubtful /\ uid # Null
      BY <1>1, <2>1, <3>1
    <3>3. f \in marked <=> f \in Following
      BY <1>1, <2>1, <2>4, <3>1, <3>2, Facts DEF MarksRight
    <3>4. f \in Following <=> entries[uid][f] > 0
      BY <3>2, Facts DEF FollowsRight
    <3> QED
      BY <1>5, <2>1, <3>2, <3>3, <3>4
  <2>6. PageShowsUser'
    <3>1. CASE uid # Null /\ SigningIn(uid)
      <4>1. SigningIn(uid)'
        BY <2>4, <3>1
      <4> QED
        BY <1>1, <3>1, <4>1 DEF PageShowsUser
    <3>2. CASE ~(uid # Null /\ SigningIn(uid))
      BY <1>1, <2>1, <3>2, Facts DEF PageShowsUser
    <3> QED
      BY <3>1, <3>2
  <2>7. doubtful' \subseteq Feed
    BY <2>1, Types
  <2> QED
    BY <1>1, <1>2, <1>4, <1>6, <2>1, <2>2, <2>3, <2>5, <2>6, <2>7, Types, Facts, Assemble
<1>8. CASE r.of # Null
  <2>1. /\ popup' = NoPopup /\ doubtful' = (IF r.by = uid THEN {} ELSE Feed)
        /\ ShowSignedIn(r.of)
    BY <1>8 DEF FollowsAnswered
  <2>2. RestFits
    BY <1>1, <2>1, Types, PopupFits DEF RestFits
  <2>3. FollowsRight'
    BY <1>1, <1>5, <2>1 DEF FollowsRight
  <2>4. /\ MarksRight' /\ PageShowsUser' /\ signedIn' \in BOOLEAN /\ astray' \in BOOLEAN
        /\ selected' \in Account \cup {Null} /\ marked' = Following'
    BY <1>2, <1>8, <2>1, ShownFits
  <2>5. doubtful' \subseteq Feed /\ marked' \subseteq Feed
    BY <1>4, <2>1, <2>4 DEF Following
  <2> QED
    BY <1>1, <1>2, <1>4, <1>6, <2>2, <2>3, <2>4, <2>5, Types, Facts, Assemble
<1> QED
  BY <1>7, <1>8

LEMMA FollowsFailedKeeps ==
    ASSUME SafetyInv, NEW r \in requests, r.kind = "follows", FollowsFailed(r)
    PROVE  SafetyInv'
<1>1. /\ Take(r) /\ unanswered' = TRUE /\ astray' = (astray \/ r.of # Null)
      /\ uid' = uid /\ follows' = follows /\ signedIn' = signedIn /\ selected' = selected
      /\ marked' = marked /\ busy' = busy /\ popup' = popup
      /\ authenticating' = authenticating /\ accounts' = accounts /\ entries' = entries
      /\ doubtful' = doubtful
  BY DEF FollowsFailed, session, page, server
<1>2. RestFits
  BY <1>1, Types, PopupFits DEF RestFits
<1>3. RequestsFit /\ (r.of = Null => SigningKept)
  BY <1>1, TakeOnly
<1>4. CASE r.of = Null
  <2>1. Same
    BY <1>1, <1>4, Types DEF Same
  <2> QED
    BY <1>2, <1>3, <1>4, <2>1, SameKeeps
<1>5. CASE r.of # Null
  <2>1. astray' = TRUE
    BY <1>1, <1>5
  <2>2. FollowsRight' /\ MarksRight' /\ PageShowsUser'
    BY <1>1, <2>1, Facts DEF FollowsRight, MarksRight, PageShowsUser, Following
  <2> QED
    BY <1>1, <1>2, <1>3, <2>1, <2>2, Types, Facts, Assemble
<1> QED
  BY <1>4, <1>5

\* A new account has no entries, and what the model still takes for followed is
\* in doubt.
LEMMA CreateAnsweredKeeps ==
    ASSUME SafetyInv, NEW r \in requests, r.kind = "create", CreateAnswered(r)
    PROVE  SafetyInv'
<1>1. ASSUME NEW a \in Account \ accounts,
             /\ accounts' = accounts \cup {a}
             /\ uid' = a /\ UNCHANGED follows
             /\ popup' = NoPopup
             /\ ShowSignedIn(a)
             /\ requests' = (requests \ {r}) \cup {request("profile", a, Null, Null)}
             /\ authenticating' = FALSE
             /\ doubtful' = IF Following = {} THEN {} ELSE Feed
             /\ UNCHANGED <<busy, entries, unanswered>>
      PROVE  SafetyInv'
  <2> DEFINE q == request("profile", a, Null, Null)
  <2>1. q \in Request /\ q.by = a
    BY SessionAssumption DEF request, Request, Push, Pull
  <2>2. RequestsFit
    <3>1. {q} \in SUBSET Request /\ \A p \in {q} : p.kind # "signIn" => p.by \in accounts' \cup {Null}
      BY <1>1, <2>1
    <3> QED
      BY <1>1, <3>1, TakeFits
  <2>3. RestFits
    BY <1>1, Types, PopupFits DEF RestFits
  <2>4. /\ MarksRight' /\ PageShowsUser' /\ signedIn' \in BOOLEAN /\ astray' \in BOOLEAN
        /\ selected' \in Account \cup {Null} /\ marked' = Following'
    BY <1>1, ShownFits
  <2>5. Following' = Following
    BY <1>1 DEF Following
  <2>6. \A f \in Feed : entries[a][f] = 0
    BY Facts
  <2>7. FollowsRight'
    BY <1>1, <2>5, <2>6 DEF FollowsRight
  <2>8. doubtful' \subseteq Feed /\ marked' \subseteq Feed /\ accounts' \subseteq Account
    BY <1>1, <2>4, <2>5, Types
  <2>9. \A b \in Account \ accounts' : \A f \in Feed : entries'[b][f] = 0
    BY <1>1, Facts
  <2> HIDE DEF q
  <2> QED
    BY <1>1, <2>2, <2>3, <2>4, <2>7, <2>8, <2>9, Types, Assemble
<1>2. CASE /\ Take(r)
           /\ authenticating' = FALSE
           /\ UNCHANGED <<session, signedIn, selected, marked, busy, popup, server,
                          history>>
  <2>1. Same /\ RestFits
    BY <1>2, Types, PopupFits DEF Same, RestFits, session, server, history
  <2>2. RequestsFit /\ SigningKept
    BY <1>2, TakeOnly DEF server
  <2> QED
    BY <2>1, <2>2, SameKeeps
<1> QED
  BY <1>1, <1>2 DEF CreateAnswered

\* An answer that leaves all but the popup as it is.
LEMMA TakeKeeps ==
    ASSUME SafetyInv, NEW r \in requests, r.kind # "follows", Take(r),
           UNCHANGED <<session, page, server, history>>
    PROVE  SafetyInv'
<1>1. RequestsFit /\ SigningKept
  BY TakeOnly DEF server
<1> QED
  BY <1>1, RequestsKeep

LEMMA ProfileAnsweredKeeps ==
    ASSUME SafetyInv, NEW r \in requests, r.kind = "profile", ProfileAnswered(r)
    PROVE  SafetyInv'
<1>1. /\ Same /\ Take(r) /\ popup' \in {popup, Asking("profile", Null)}
      /\ busy' = busy /\ authenticating' = authenticating /\ unanswered' = unanswered
      /\ accounts' = accounts
  BY DEF ProfileAnswered, Same, session, server, history
<1>2. RestFits
  BY <1>1, Types, PopupFits DEF RestFits
<1>3. RequestsFit /\ SigningKept
  BY <1>1, TakeOnly
<1> QED
  BY <1>1, <1>2, <1>3, SameKeeps

LEMMA EditAnsweredKeeps ==
    ASSUME SafetyInv, NEW r \in requests, r.kind = "edit", EditAnswered(r)
    PROVE  SafetyInv'
<1>1. CASE /\ r.by # Null
           /\ Authenticated(r.by)
           /\ popup' = NoPopup
           /\ UNCHANGED follows
           /\ ShowSignedIn(r.by)
           /\ UNCHANGED <<busy, authenticating, server, unanswered>>
  <2>1. r.by \in accounts /\ r.by \in Account
    BY <1>1, Facts
  <2>2. /\ busy' = busy /\ authenticating' = authenticating /\ accounts' = accounts
        /\ entries' = entries /\ unanswered' = unanswered /\ follows' = follows
        /\ Take(r)
    BY <1>1 DEF server, EditAnswered
  <2>3. RequestsFit
    BY <2>2, TakeOnly
  <2>4. RestFits
    BY <1>1, <2>2, Types, PopupFits DEF RestFits
  <2>5. FollowsRight' /\ doubtful' \subseteq Feed /\ uid' = r.by /\ Following' = Following
    BY <1>1, <2>1, <2>2, AuthenticatedFits
  <2>6. /\ MarksRight' /\ PageShowsUser' /\ signedIn' \in BOOLEAN /\ astray' \in BOOLEAN
        /\ selected' \in Account \cup {Null} /\ marked' = Following'
    BY <1>1, <2>1, ShownFits
  <2> QED
    BY <2>1, <2>2, <2>3, <2>4, <2>5, <2>6, Types, Facts, Assemble
<1>2. CASE UNCHANGED <<session, page, server, history>>
  BY <1>2, TakeKeeps DEF EditAnswered
<1> QED
  BY <1>1, <1>2 DEF EditAnswered

\* Where a post signs in another account, the page has parted from the model.
LEMMA StraysFits ==
    ASSUME SafetyInv, SigningKept, NEW r, uid' = r.by, Strays(r),
           signedIn' = signedIn, selected' = selected
    PROVE  /\ PageShowsUser' /\ astray' \in BOOLEAN
           /\ r.by # uid => astray'
           /\ r.by = uid => astray' = astray
<1>1. astray' = (astray \/ r.by # uid)
  BY DEF Strays
<1>2. astray' \in BOOLEAN /\ (r.by # uid => astray') /\ (r.by = uid => astray' = astray)
  BY <1>1, Types
<1>3. ASSUME r.by # uid PROVE PageShowsUser'
  BY <1>1, <1>3 DEF PageShowsUser
<1>4. ASSUME r.by = uid PROVE PageShowsUser'
  <2>1. astray' = astray /\ uid' = uid
    BY <1>1, <1>4, Types
  <2>2. ASSUME uid # Null, SigningIn(uid) PROVE PageShowsUser'
    <3>1. SigningIn(uid)'
      BY <2>1, <2>2, SigningStays
    <3> QED
      BY <2>1, <2>2, <3>1 DEF PageShowsUser
  <2>3. ASSUME ~(uid # Null /\ SigningIn(uid)) PROVE PageShowsUser'
    BY <2>1, <2>3, Facts DEF PageShowsUser
  <2> QED
    BY <2>2, <2>3
<1> QED
  BY <1>2, <1>3, <1>4

LEMMA ComposeAnsweredKeeps ==
    ASSUME SafetyInv, NEW r \in requests, r.kind = "compose", ComposeAnswered(r)
    PROVE  SafetyInv'
<1>1. CASE /\ r.by # Null
           /\ Authenticated(r.by)
           /\ Strays(r)
           /\ UNCHANGED <<follows, page, server, unanswered>>
  <2>1. r.by \in accounts /\ r.by \in Account
    BY <1>1, Facts
  <2>2. /\ signedIn' = signedIn /\ selected' = selected /\ marked' = marked
        /\ busy' = busy /\ popup' = popup /\ authenticating' = authenticating
        /\ accounts' = accounts /\ entries' = entries /\ unanswered' = unanswered
        /\ follows' = follows /\ Take(r)
    BY <1>1 DEF page, server, ComposeAnswered
  <2>3. RequestsFit /\ SigningKept
    BY <2>2, TakeOnly
  <2>4. RestFits
    BY <2>2, Types, PopupFits DEF RestFits
  <2>5. FollowsRight' /\ doubtful' \subseteq Feed /\ uid' = r.by /\ Following' = Following
    BY <1>1, <2>1, <2>2, AuthenticatedFits
  <2>6. /\ PageShowsUser' /\ astray' \in BOOLEAN
        /\ r.by # uid => astray'
        /\ r.by = uid => astray' = astray
    BY <1>1, <2>2, <2>3, <2>5, StraysFits
  <2>7. MarksRight'
    <3>1. SUFFICES ASSUME signedIn', uid' # Null, ~astray', ~SigningIn(uid)'
                   PROVE  \A f \in Feed \ doubtful' : f \in marked' <=> f \in Following'
      BY DEF MarksRight
    <3>2. r.by = uid /\ ~astray /\ uid' = uid /\ doubtful' = doubtful
      BY <1>1, <2>5, <2>6, <3>1 DEF Authenticated
    <3>3. ~SigningIn(uid)
      BY <2>3, <3>1, <3>2, SigningStays
    <3> QED
      BY <2>2, <2>5, <3>1, <3>2, <3>3, Facts DEF MarksRight
  <2> QED
    BY <2>1, <2>2, <2>3, <2>4, <2>5, <2>6, <2>7, Types, Facts, Assemble
<1>2. CASE UNCHANGED <<session, page, server, history>>
  BY <1>2, TakeKeeps DEF ComposeAnswered
<1> QED
  BY <1>1, <1>2 DEF ComposeAnswered

LEMMA FindKeeps ==
    ASSUME SafetyInv, NEW r \in requests, r.kind = "find", FindAnswered(r) \/ FindFailed(r)
    PROVE  SafetyInv'
<1>1. UNCHANGED <<session, page, server, history>>
  BY DEF FindAnswered, FindFailed
<1>2. CASE /\ uid # Null
           /\ requests' = (requests \ {r}) \cup {request("delete", uid, r.by, r.on)}
  <2> DEFINE q == request("delete", uid, r.by, r.on)
  <2>1. r.by \in Account \cup {Null} /\ r.on \in Feed
    BY Facts, RequestHas
  <2>2. q \in Request /\ q.by = uid /\ uid \in accounts \cup {Null}
    BY <1>2, <2>1, Types, SessionAssumption DEF request, Request, Push, Pull
  <2>3. accounts' = accounts
    BY <1>1 DEF server
  <2>4. {q} \in SUBSET Request /\ \A p \in {q} : p.kind # "signIn" => p.by \in accounts' \cup {Null}
    BY <2>2, <2>3
  <2>5. RequestsFit /\ SigningKept
    BY <1>2, <2>3, <2>4, TakeFits
  <2> QED
    BY <1>1, <2>5, RequestsKeep
<1>3. CASE Take(r)
  BY <1>1, <1>3, TakeKeeps
<1> QED
  BY <1>2, <1>3 DEF FindAnswered, FindFailed

\* What the callback of a follow or a deletion does to model, card and button:
\* nothing beyond the feed it is about.
LEMMA SwitchedFits ==
    ASSUME SafetyInv, NEW r \in Request, r.on \in Feed, NEW S \in SUBSET Feed,
           S \ {r.on} = Following \ {r.on}, Switched(r, S)
    PROVE  /\ follows' \in (SUBSET Feed) \cup {Null}
           /\ marked' \subseteq Feed /\ busy' \subseteq Feed
           /\ \A f \in Feed \ {r.on} : /\ f \in Following' <=> f \in Following
                                       /\ f \in marked' <=> f \in marked
           /\ follows # Null => /\ r.on \in Following' <=> r.on \in S
                                /\ r.on \in marked' <=> r.on \in S
<1>1. CASE follows = Null
  <2>1. follows' = follows /\ marked' = marked /\ busy' = busy
    BY <1>1 DEF Switched
  <2>2. Following' = Following
    BY <2>1 DEF Following
  <2> QED
    BY <1>1, <2>1, <2>2, Types
<1>2. CASE follows # Null
  <2>1. /\ follows' = S /\ busy' = busy \ {r.on}
        /\ marked' = IF r.on \in S THEN marked \cup {r.on} ELSE marked \ {r.on}
    BY <1>2 DEF Switched
  <2>2. Following' = S
    BY <2>1, SessionAssumption DEF Following
  <2> QED
    BY <2>1, <2>2, Types
<1> QED
  BY <1>1, <1>2

\* An answer of this kind keeps the invariant, if it leaves the entries of feeds
\* alone that it does not doubt, and is right about its own feed.
LEMMA SwitchKeeps ==
    ASSUME SafetyInv, NEW r \in requests, r.kind \in {"follow", "delete"}, Take(r),
           NEW S \in SUBSET Feed, S \ {r.on} = Following \ {r.on}, Switched(r, S),
           UNCHANGED <<signedIn, selected, popup, authenticating, accounts, unanswered>>,
           entries' \in [Account -> [Feed -> 0..MaxEntries]],
           \A a \in Account \ accounts : \A f \in Feed : entries'[a][f] = 0,
           doubtful' \subseteq Feed,
           uid' \in {uid, r.by}, uid' # uid => astray' /\ doubtful' = Feed,
           PageShowsUser', astray' \in BOOLEAN, uid' = uid => astray' = astray,
           uid' = uid /\ uid # Null =>
             \A f \in Feed \ doubtful' :
               \/ f # r.on /\ f \notin doubtful /\ entries'[uid][f] = entries[uid][f]
               \/ f = r.on /\ follows # Null /\ (f \in S <=> entries'[uid][f] > 0)
    PROVE  SafetyInv'
<1>1. r \in Request /\ r.on \in Feed /\ r.by \in accounts \cup {Null}
  BY Facts, RequestHas
<1>2. /\ follows' \in (SUBSET Feed) \cup {Null}
      /\ marked' \subseteq Feed /\ busy' \subseteq Feed
      /\ \A f \in Feed \ {r.on} : /\ f \in Following' <=> f \in Following
                                  /\ f \in marked' <=> f \in marked
      /\ follows # Null => /\ r.on \in Following' <=> r.on \in S
                           /\ r.on \in marked' <=> r.on \in S
  BY <1>1, SwitchedFits
<1>3. RequestsFit /\ SigningKept
  BY TakeOnly
<1>4. RestFits
  BY <1>2, Types, PopupFits DEF RestFits
<1>5. FollowsRight'
  <2>1. SUFFICES ASSUME uid' # Null, NEW f \in Feed \ doubtful'
                 PROVE  f \in Following' <=> entries'[uid'][f] > 0
    BY DEF FollowsRight
  <2>2. uid' = uid
    BY <2>1
  <2>3. CASE f # r.on /\ f \notin doubtful /\ entries'[uid][f] = entries[uid][f]
    <3>1. f \in Following <=> entries[uid][f] > 0
      BY <2>1, <2>2, <2>3, Facts DEF FollowsRight
    <3> QED
      BY <1>2, <2>2, <2>3, <3>1
  <2>4. CASE f = r.on /\ follows # Null /\ (f \in S <=> entries'[uid][f] > 0)
    BY <1>2, <2>2, <2>4
  <2> QED
    BY <2>1, <2>2, <2>3, <2>4
<1>6. MarksRight'
  <2>1. SUFFICES ASSUME signedIn', uid' # Null, ~astray', ~SigningIn(uid)',
                        NEW f \in Feed \ doubtful'
                 PROVE  f \in marked' <=> f \in Following'
    BY DEF MarksRight
  <2>2. uid' = uid /\ astray' = astray /\ signedIn
    BY <2>1
  <2>3. ~SigningIn(uid)
    BY <1>3, <2>1, <2>2, SigningStays
  <2>4. CASE f # r.on /\ f \notin doubtful
    <3>1. f \in marked <=> f \in Following
      BY <2>1, <2>2, <2>3, <2>4, Facts DEF MarksRight
    <3> QED
      BY <1>2, <2>4, <3>1
  <2>5. CASE f = r.on /\ follows # Null
    BY <1>2, <2>5
  <2> QED
    BY <2>1, <2>2, <2>4, <2>5
<1> QED
  BY <1>1, <1>2, <1>3, <1>4, <1>5, <1>6, Types, Assemble

LEMMA FollowAnsweredKeeps ==
    ASSUME SafetyInv, NEW r \in requests, r.kind = "follow", FollowAnswered(r)
    PROVE  SafetyInv'
<1> DEFINE S == Following \cup {r.on}
<1>1. r \in Request /\ r.on \in Feed /\ r.by \in accounts /\ r.by \in Account /\ r.by # Null
  BY Facts, RequestHas
<1>2. /\ Take(r) /\ Switched(r, S) /\ S \in SUBSET Feed /\ S \ {r.on} = Following \ {r.on}
      /\ UNCHANGED <<signedIn, selected, popup, authenticating, accounts, unanswered>>
      /\ SigningKept
  BY <1>1, TakeOnly, Types DEF FollowAnswered
<1>3. r.on \in S
  OBVIOUS
<1> HIDE DEF S
<1>4. CASE /\ entries[r.by][r.on] < MaxEntries
           /\ entries' = [entries EXCEPT ![r.by][r.on] = @ + 1]
           /\ uid' = r.by /\ Strays(r)
           /\ doubtful' = IF r.by # uid THEN Feed
                          ELSE IF follows = Null THEN doubtful \cup {r.on}
                          ELSE doubtful
  <2>1. /\ entries' \in [Account -> [Feed -> 0..MaxEntries]]
        /\ entries'[r.by][r.on] > 0
        /\ \A f \in Feed \ {r.on} : entries'[r.by][f] = entries[r.by][f]
        /\ \A a \in Account \ {r.by} : entries'[a] = entries[a]
    BY <1>1, <1>4, Types, SessionAssumption
  <2>2. /\ PageShowsUser' /\ astray' \in BOOLEAN
        /\ r.by # uid => astray'
        /\ r.by = uid => astray' = astray
    BY <1>2, <1>4, StraysFits
  <2>3. \A a \in Account \ accounts : \A f \in Feed : entries'[a][f] = 0
    BY <1>1, <2>1, Facts
  <2>4. doubtful' \subseteq Feed
    BY <1>1, <1>4, Types
  <2>5. uid' = uid /\ uid # Null =>
          \A f \in Feed \ doubtful' :
            \/ f # r.on /\ f \notin doubtful /\ entries'[uid][f] = entries[uid][f]
            \/ f = r.on /\ follows # Null /\ (f \in S <=> entries'[uid][f] > 0)
    BY <1>3, <1>4, <2>1
  <2> QED
    BY <1>1, <1>2, <1>4, <2>1, <2>2, <2>3, <2>4, <2>5, SwitchKeeps
<1>5. CASE /\ UNCHANGED <<uid, entries, astray>>
           /\ doubtful' = doubtful \cup {r.on}
  <2>1. PageShowsUser'
    <3>1. ASSUME uid # Null, SigningIn(uid) PROVE PageShowsUser'
      <4>1. SigningIn(uid)'
        BY <1>2, <1>5, <3>1, SigningStays
      <4> QED
        BY <1>5, <3>1, <4>1 DEF PageShowsUser
    <3>2. ASSUME ~(uid # Null /\ SigningIn(uid)) PROVE PageShowsUser'
      BY <1>2, <1>5, <3>2, Facts DEF PageShowsUser
    <3> QED
      BY <3>1, <3>2
  <2>2. doubtful' \subseteq Feed
    BY <1>1, <1>5, Types
  <2>3. entries' = entries /\ uid' = uid /\ astray' = astray
    BY <1>5
  <2> QED
    BY <1>1, <1>2, <1>5, <2>1, <2>2, <2>3, Types, Facts, SwitchKeeps
<1> QED
  BY <1>4, <1>5 DEF FollowAnswered

LEMMA DeleteAnsweredKeeps ==
    ASSUME SafetyInv, NEW r \in requests, r.kind = "delete", DeleteAnswered(r)
    PROVE  SafetyInv'
<1> DEFINE S == Following \ {r.on}
<1>1. r \in Request /\ r.on \in Feed /\ r.by \in accounts /\ r.by \in Account /\ r.by # Null
      /\ r.of \in Account \cup {Null}
  BY Facts, RequestHas
<1>2. /\ Take(r) /\ Switched(r, S) /\ S \in SUBSET Feed /\ S \ {r.on} = Following \ {r.on}
      /\ UNCHANGED <<signedIn, selected, popup, authenticating, accounts, unanswered>>
      /\ SigningKept
  BY <1>1, TakeOnly, Types DEF DeleteAnswered
<1>3. r.on \notin S
  OBVIOUS
<1> HIDE DEF S
<1>4. CASE /\ entries' = IF r.by = r.of /\ entries[r.of][r.on] > 0
                         THEN [entries EXCEPT ![r.of][r.on] = @ - 1]
                         ELSE entries
           /\ uid' = r.by /\ Strays(r)
           /\ doubtful' = IF r.by # uid THEN Feed
                          ELSE IF follows = Null \/ entries'[r.by][r.on] > 0
                               THEN doubtful \cup {r.on}
                          ELSE doubtful
  <2>1. /\ entries' \in [Account -> [Feed -> 0..MaxEntries]]
        /\ \A f \in Feed \ {r.on} : entries'[r.by][f] = entries[r.by][f]
        /\ \A a \in Account \ {r.by} : entries'[a] = entries[a]
    <3>1. CASE r.by = r.of /\ entries[r.of][r.on] > 0
      BY <1>1, <1>4, <3>1, Types, SessionAssumption
    <3>2. CASE ~(r.by = r.of /\ entries[r.of][r.on] > 0)
      <4>1. entries' = entries
        BY <1>4, <3>2
      <4> QED
        BY <4>1, Types
    <3> QED
      BY <3>1, <3>2
  <2>2. /\ PageShowsUser' /\ astray' \in BOOLEAN
        /\ r.by # uid => astray'
        /\ r.by = uid => astray' = astray
    BY <1>2, <1>4, StraysFits
  <2>3. \A a \in Account \ accounts : \A f \in Feed : entries'[a][f] = 0
    BY <1>1, <2>1, Facts
  <2>4. doubtful' \subseteq Feed
    BY <1>1, <1>4, Types
  <2>5. uid' = uid /\ uid # Null =>
          \A f \in Feed \ doubtful' :
            \/ f # r.on /\ f \notin doubtful /\ entries'[uid][f] = entries[uid][f]
            \/ f = r.on /\ follows # Null /\ (f \in S <=> entries'[uid][f] > 0)
    BY <1>3, <1>4, <2>1
  <2> QED
    BY <1>1, <1>2, <1>4, <2>1, <2>2, <2>3, <2>4, <2>5, SwitchKeeps
<1>5. CASE /\ UNCHANGED <<uid, entries, astray>>
           /\ doubtful' = doubtful \cup {r.on}
  <2>1. PageShowsUser'
    <3>1. ASSUME uid # Null, SigningIn(uid) PROVE PageShowsUser'
      <4>1. SigningIn(uid)'
        BY <1>2, <1>5, <3>1, SigningStays
      <4> QED
        BY <1>5, <3>1, <4>1 DEF PageShowsUser
    <3>2. ASSUME ~(uid # Null /\ SigningIn(uid)) PROVE PageShowsUser'
      BY <1>2, <1>5, <3>2, Facts DEF PageShowsUser
    <3> QED
      BY <3>1, <3>2
  <2>2. doubtful' \subseteq Feed
    BY <1>1, <1>5, Types
  <2>3. entries' = entries /\ uid' = uid /\ astray' = astray
    BY <1>5
  <2> QED
    BY <1>1, <1>2, <1>5, <2>1, <2>2, <2>3, Types, Facts, SwitchKeeps
<1> QED
  BY <1>4, <1>5 DEF DeleteAnswered

LEMMA AnswerKeeps ==
    ASSUME SafetyInv, NEW r \in requests, Answer(r)
    PROVE  SafetyInv'
BY SignInAnsweredKeeps, FollowsAnsweredKeeps, FollowsFailedKeeps, CreateAnsweredKeeps,
   ProfileAnsweredKeeps, EditAnsweredKeeps, ComposeAnsweredKeeps, FollowAnsweredKeeps,
   FindKeeps, DeleteAnsweredKeeps DEF Answer

-----------------------------------------------------------------------------
(* The theorems *)

LEMMA InitSafe == Init => SafetyInv
<1> SUFFICES ASSUME Init PROVE SafetyInv
  OBVIOUS
<1>1. TypeOK
  <2>1. NoPopup \in Popup
    BY DEF NoPopup, Asking, Popup
  <2>2. entries \in [Account -> [Feed -> 0..MaxEntries]]
    <3>1. [f \in Feed |-> 0] \in [Feed -> 0..MaxEntries]
      BY SessionAssumption
    <3> QED
      BY <3>1 DEF Init
  <2> QED
    BY <2>1, <2>2, SessionAssumption DEF Init, TypeOK
<1>2. AccountsKnown
  BY DEF Init, AccountsKnown, NoPopup, Asking
<1>3. FollowsRight /\ MarksRight /\ PageShowsUser
  BY DEF Init, FollowsRight, MarksRight, PageShowsUser
<1> QED
  BY <1>1, <1>2, <1>3 DEF SafetyInv

LEMMA NextSafe == SafetyInv /\ [Next]_vars => SafetyInv'
<1> SUFFICES ASSUME SafetyInv, [Next]_vars PROVE SafetyInv'
  OBVIOUS
<1>1. CASE \E a \in Account : SelectAccount(a)
  BY <1>1, SelectAccountKeeps
<1>2. CASE Logout \/ CreateAccount \/ EditAccount
  BY <1>2, LogoutKeeps, CreateAccountKeeps, EditAccountKeeps
<1>3. CASE Confirm \/ Cancel \/ HidePopup
  BY <1>3, ConfirmKeeps, CancelKeeps, HidePopupKeeps
<1>4. CASE Compose
  BY <1>4, ComposeKeeps
<1>5. CASE \E f \in Feed : ClickFollow(f) \/ Redraw(f)
  BY <1>5, ClickFollowKeeps, RedrawKeeps
<1>6. CASE \E r \in requests : Answer(r)
  BY <1>6, AnswerKeeps
<1>7. CASE UNCHANGED vars
  BY <1>7 DEF vars, session, page, server, history, SafetyInv, TypeOK, AccountsKnown,
              FollowsRight, MarksRight, PageShowsUser, Following, SigningIn
<1> QED
  BY <1>1, <1>2, <1>3, <1>4, <1>5, <1>6, <1>7 DEF Next

\* In every state the variables have their types; in particular every request
\* has the account and the feed that its handler will look for
\* (model.js:46-71, :262-314).
THEOREM TypeCorrect == Spec => []TypeOK
<1>1. Spec => []SafetyInv
  BY InitSafe, NextSafe, PTL DEF Spec
<1>2. SafetyInv => TypeOK
  BY DEF SafetyInv
<1> QED
  BY <1>1, <1>2, PTL

\* Whatever is clicked and whatever is answered in which order, the page shows
\* the account in whose name the model posts, but for the known windows
\* (controller.js:789-849, model.js:46-71, :148-168).
THEOREM PageShowsUserHolds == Spec => []PageShowsUser
<1>1. Spec => []SafetyInv
  BY InitSafe, NextSafe, PTL DEF Spec
<1>2. SafetyInv => PageShowsUser
  BY DEF SafetyInv
<1> QED
  BY <1>1, <1>2, PTL

\* The feeds that the model and the cards take for followed are those that the
\* account has follow entries for, doubtful ones aside (model.js:148-159,
\* :262-314, controller.js:108-130).
THEOREM FollowsOfUserHolds == Spec => []FollowsOfUser
<1>1. Spec => []SafetyInv
  BY InitSafe, NextSafe, PTL DEF Spec
<1>2. SafetyInv => FollowsOfUser
  <2>1. SUFFICES ASSUME SafetyInv, signedIn, uid # Null, ~astray, ~SigningIn(uid),
                        NEW f \in Feed \ doubtful
                 PROVE  (f \in Following <=> f \in Followed(uid))
                        /\ (f \in marked <=> f \in Following)
    BY DEF FollowsOfUser
  <2>2. f \in Following <=> entries[uid][f] > 0
    BY <2>1, Facts DEF FollowsRight
  <2>3. f \in marked <=> f \in Following
    BY <2>1, Facts DEF MarksRight
  <2> QED
    BY <2>2, <2>3 DEF Followed
<1> QED
  BY <1>1, <1>2, PTL


=============================================================================
