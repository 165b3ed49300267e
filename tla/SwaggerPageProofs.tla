------------------------- MODULE SwaggerPageProofs --------------------------
(***************************************************************************)
(* What holds of the Swagger page for any number of users, tabs, tokens    *)
(* and disturbances.                                                       *)
(***************************************************************************)
EXTENDS SwaggerPage, TLAPS

Signing == {"start", "assert", "confirm", "register", "create", "listen"}

\* What is true of a page p.
PageOK(p) ==
  /\ p.pc \in Signing => p.user \in User
  /\ p.src # "none" => p.pc = "listen"
  /\ p.pc = "listen" => p.token \in Token /\ p.token[1] = p.user

PagesOK == \A t \in Tab : PageOK(page[t])

\* The server has, or is about to have, the source of a page.
Served(p) == p.src \in {"checked", "open"}

\* A page that is served has a valid token.
TokensOK ==
  \A t \in Tab : Served(page[t]) /\ page[t].token[1] \notin overlapped
                   => page[t].token \in tokens

\* While a source of a user is closed none is opened, and the list that was
\* empty is still empty when his session and its token go.
CloseOK ==
  /\ closing.pc # "idle" => closing.user \in User
  /\ closing.token # None => closing.token[1] = closing.user
  /\ closing.pc # "idle" /\ closing.user \notin overlapped =>
       \A t \in Tab : page[t].src = "checked" => page[t].token[1] # closing.user
  /\ closing.pc \in {"empty", "expired"} /\ closing.user \notin overlapped =>
       \A t \in Tab : page[t].src = "open" => page[t].token[1] # closing.user

SourcesOK == PagesOK /\ TokensOK /\ CloseOK

\* A session has a token of its user.
SessionOfUser == \A u \in User : session[u] # None => session[u][1] = u

IInv == TypeOK /\ SourcesOK /\ SessionOfUser

-----------------------------------------------------------------------------
Pc == {"closed", "dead", "load", "start", "assert", "confirm", "register",
       "create", "listen", "idle"}

LEMMA NoneIsNot ==
  None \notin User /\ None \notin Password /\ None \notin Token
BY PageAssumption DEF Token

LEMMA TokenIs ==
  ASSUME NEW k \in Token
  PROVE  k[1] \in User /\ k[2] \in 1 .. MaxToken
BY DEF Token

LEMMA BlankIs ==
  ASSUME NEW s \in {"closed", "dead", "load", "idle"}
  PROVE  /\ Blank(s) \in Page
         /\ Blank(s).pc = s /\ Blank(s).src = "none" /\ Blank(s).token = None
BY DEF Blank, Page

LEMMA NewStorageIs == NewStorage \in Storage
BY DEF NewStorage, Storage

\* What it is to go on.
LEMMA SetPc ==
  ASSUME NEW p \in Page, NEW s \in Pc
  PROVE  LET m == [p EXCEPT !.pc = s]
         IN  /\ m \in Page /\ m.pc = s /\ m.user = p.user
             /\ m.token = p.token /\ m.src = p.src
BY DEF Page, Pc

\* A step of one page that leaves it in a good state and opens no source.
LEMMA Keep ==
  ASSUME SourcesOK, page \in [Tab -> Page], NEW t \in Tab, NEW p \in Page,
         Shows(t, p), PageOK(p),
         Served(p) => p.src = page[t].src /\ p.token = page[t].token,
         tokens \subseteq tokens', UNCHANGED closing, overlapped \subseteq overlapped'
  PROVE  page' \in [Tab -> Page] /\ SourcesOK'
<1>1. /\ page'[t] = p /\ \A o \in Tab \ {t} : page'[o] = page[o]
      /\ page' \in [Tab -> Page]
  BY DEF Shows
<1>2. PagesOK'
  BY <1>1 DEF SourcesOK, PagesOK
<1>3. \A o \in Tab : page'[o].src \in {"checked", "open"} =>
        page'[o].src = page[o].src /\ page'[o].token = page[o].token
  BY <1>1 DEF Served
<1>4. TokensOK'
  BY <1>3 DEF SourcesOK, TokensOK, Served
<1>5. CloseOK'
  BY <1>3 DEF SourcesOK, CloseOK
<1>6. QED
  BY <1>1, <1>2, <1>4, <1>5 DEF SourcesOK

\* Signing in goes on, begins, ends or fails.
LEMMA GoneOn ==
  ASSUME SourcesOK, page \in [Tab -> Page], NEW t \in Tab,
         NEW s \in Signing \ {"listen"}, Goto(t, s), page[t].pc \in Signing \ {"listen"},
         tokens \subseteq tokens', UNCHANGED <<closing, overlapped>>
  PROVE  page' \in [Tab -> Page] /\ SourcesOK'
<1> DEFINE m == [page[t] EXCEPT !.pc = s]
<1>1. /\ m \in Page /\ m.pc = s /\ m.user = page[t].user
      /\ m.token = page[t].token /\ m.src = page[t].src
  <2>1. page[t] \in Page /\ s \in Pc
    BY DEF Signing, Pc
  <2>2. QED
    BY <2>1, SetPc
<1>2. page[t].user \in User /\ page[t].src = "none"
  BY DEF SourcesOK, PagesOK, PageOK
<1>3. Shows(t, m)
  BY DEF Goto
<1> HIDE DEF m
<1>4. PageOK(m)
  BY <1>1, <1>2 DEF PageOK
<1>5. QED
  BY <1>1, <1>3, <1>4, Keep

LEMMA BlankKeeps ==
  ASSUME SourcesOK, page \in [Tab -> Page], NEW t \in Tab,
         NEW s \in {"closed", "dead", "load", "idle"}, Shows(t, Blank(s)),
         tokens \subseteq tokens', UNCHANGED <<closing, overlapped>>
  PROVE  page' \in [Tab -> Page] /\ SourcesOK'
<1>1. PageOK(Blank(s))
  BY BlankIs DEF PageOK, Signing
<1>2. QED
  BY <1>1, BlankIs, Keep DEF Served

LEMMA ListenKeeps ==
  ASSUME SourcesOK, page \in [Tab -> Page], sess \in [Tab -> Storage], NEW t \in Tab,
         NEW k \in Token, k[1] = page[t].user, SignedIn(t, k),
         tokens \subseteq tokens', UNCHANGED <<closing, overlapped>>
  PROVE  page' \in [Tab -> Page] /\ SourcesOK' /\ sess' \in [Tab -> Storage]
<1> DEFINE m == [page[t] EXCEPT !.pc = "listen", !.pass = None,
                               !.token = k, !.src = "connecting"]
<1>1. /\ m \in Page /\ m.pc = "listen" /\ m.user = page[t].user
      /\ m.token = k /\ m.src = "connecting"
  BY DEF Page
<1>2. Shows(t, m)
  BY DEF SignedIn
<1> HIDE DEF m
<1>3. k[1] \in User
  BY TokenIs
<1>4. PageOK(m)
  BY <1>1, <1>3 DEF PageOK
<1>5. sess' \in [Tab -> Storage]
  <2> DEFINE n == [sess[t] EXCEPT !.token = k]
  <2>1. n \in Storage
    BY DEF Storage
  <2>2. sess' = [sess EXCEPT ![t] = n]
    BY DEF SignedIn
  <2> HIDE DEF n
  <2>3. QED
    BY <2>1, <2>2
<1>6. QED
  BY <1>1, <1>2, <1>4, <1>5, Keep DEF Served

-----------------------------------------------------------------------------
LEMMA IssueKeeps ==
  ASSUME TypeOK, SessionOfUser, NEW u \in User, NEW k \in Token, Issue(u, k)
  PROVE  /\ k[1] = u
         /\ issued' \in [User -> 0 .. MaxToken]
         /\ tokens' \in SUBSET Token /\ tokens \subseteq tokens'
         /\ session' \in [User -> Token \cup {None}] /\ SessionOfUser'
<1>1. k[1] = u
  BY DEF Issue
<1>2. issued' \in [User -> 0 .. MaxToken]
  BY TokenIs, PageAssumption DEF Issue, TypeOK
<1>3. tokens' \in SUBSET Token /\ tokens \subseteq tokens'
  BY DEF Issue, TypeOK
<1>4. session' \in [User -> Token \cup {None}] /\ SessionOfUser'
  BY <1>1 DEF Issue, TypeOK, SessionOfUser
<1>5. QED
  BY <1>1, <1>2, <1>3, <1>4

LEMMA GrantedKeeps ==
  ASSUME IInv, NEW t \in Tab, page[t].pc \in Signing \ {"listen"},
         \/ Granted(t, page[t].user, Fails(t, "confirm"))
         \/ Granted(t, page[t].user, GivesUp(t)),
         registered' \in SUBSET User
  PROVE  IInv'
<1>1. page[t].user \in User /\ UNCHANGED <<saved, late, stale, closing, overlapped, network>>
  BY DEF IInv, SourcesOK, PagesOK, PageOK, Granted, Signing, sources
<1>2. PICK k \in Token : /\ Issue(page[t].user, k)
                         /\ SignedIn(t, k) \/ Fails(t, "confirm") \/ GivesUp(t)
  BY DEF Granted
<1>3. /\ k[1] = page[t].user
      /\ issued' \in [User -> 0 .. MaxToken]
      /\ tokens' \in SUBSET Token /\ tokens \subseteq tokens'
      /\ session' \in [User -> Token \cup {None}] /\ SessionOfUser'
  BY <1>1, <1>2, IssueKeeps DEF IInv
<1>4. page' \in [Tab -> Page] /\ SourcesOK' /\ sess' \in [Tab -> Storage]
  <2>1. CASE SignedIn(t, k)
    BY <1>1, <1>3, <2>1, ListenKeeps DEF IInv, TypeOK
  <2>2. CASE Fails(t, "confirm")
    BY <1>1, <1>3, <2>2, GoneOn DEF IInv, TypeOK, Fails, Signing
  <2>3. CASE GivesUp(t)
    BY <1>1, <1>3, <2>3, BlankKeeps DEF IInv, TypeOK, GivesUp
  <2>4. QED
    BY <1>2, <2>1, <2>2, <2>3
<1>5. QED
  BY <1>1, <1>3, <1>4 DEF IInv, TypeOK, network, sources

LEMMA AbandonIs ==
  ASSUME TypeOK, NEW t \in Tab, Abandon(t)
  PROVE  late' \in [User -> Nat] /\ stale' \in [User -> Nat]
<1>1. late \in [User -> Nat] /\ stale \in [User -> Nat]
  BY DEF TypeOK
<1>2. \A u \in User : late[u] + 1 \in Nat /\ stale[u] + 1 \in Nat
  BY <1>1
<1>3. QED
  BY <1>1, <1>2 DEF Abandon

LEMMA LeaveKeeps ==
  ASSUME IInv, NEW t \in Tab, NEW s \in {"closed", "dead", "load"}, Leave(t, s),
         sess' \in [Tab -> Storage], losses' \in 0 .. MaxLoss
  PROVE  IInv'
<1>1. page' \in [Tab -> Page] /\ SourcesOK'
  BY BlankKeeps DEF Leave, accounts, IInv, TypeOK
<1>2. logouts' \in SUBSET Token
  <2>1. page[t] \in Page
    BY DEF IInv, TypeOK
  <2>2. page[t].token \in Token \cup {None}
    BY <2>1 DEF Page
  <2>3. QED
    BY <2>2 DEF Leave, IInv, TypeOK
<1>3. late' \in [User -> Nat] /\ stale' \in [User -> Nat]
  BY AbandonIs DEF Leave, IInv
<1>4. QED
  BY <1>1, <1>2, <1>3 DEF Leave, accounts, IInv, TypeOK, SessionOfUser

LEMMA ReloadKeeps ==
  ASSUME IInv, NEW t \in Tab, Reload(t), losses' \in 0 .. MaxLoss
  PROVE  IInv'
<1>1. Fetched \in {"closed", "dead", "load"}
  BY DEF Fetched
<1>2. QED
  BY <1>1, LeaveKeeps DEF Reload, IInv, TypeOK

\* A page's source is to be connected, or ends.
LEMMA SourceKeeps ==
  ASSUME SourcesOK, page \in [Tab -> Page], NEW t \in Tab, page[t].pc = "listen",
         NEW s \in {"none", "connecting"}, NEW b \in BOOLEAN,
         page' = [page EXCEPT ![t] = [page[t] EXCEPT !.src = s, !.probe = b]],
         UNCHANGED <<tokens, closing, overlapped>>
  PROVE  page' \in [Tab -> Page] /\ SourcesOK'
<1> DEFINE m == [page[t] EXCEPT !.src = s, !.probe = b]
<1>1. m \in Page /\ m.pc = "listen" /\ m.user = page[t].user /\ m.token = page[t].token /\ m.src = s
  <2>1. page[t] \in Page
    OBVIOUS
  <2>2. QED
    BY <2>1 DEF Page
<1>2. Shows(t, m)
  BY DEF Shows
<1> HIDE DEF m
<1>3. PageOK(m)
  BY <1>1 DEF SourcesOK, PagesOK, PageOK, Signing
<1>4. QED
  BY <1>1, <1>2, <1>3, Keep DEF Served

-----------------------------------------------------------------------------
\* The invariant holds at first and in every step.
LEMMA InitIInv == Init => IInv
<1> SUFFICES ASSUME Init PROVE IInv
  OBVIOUS
<1>1. TypeOK
  BY BlankIs, NewStorageIs, PageAssumption DEF Init, TypeOK, NoClose, Closing
<1>2. SourcesOK
  BY BlankIs DEF Init, SourcesOK, PagesOK, PageOK, TokensOK, CloseOK, Served, NoClose, Signing
<1>3. SessionOfUser
  BY DEF Init, SessionOfUser
<1>4. QED
  BY <1>1, <1>2, <1>3 DEF IInv

\* Another source of u comes or goes.
LEMMA AlsoWorks ==
  ASSUME TypeOK, NEW u \in User, AlsoWorksOn(u)
  PROVE  /\ overlapped \subseteq overlapped' /\ overlapped' \in SUBSET User
         /\ Busy(u) => u \in overlapped'
BY DEF AlsoWorksOn, TypeOK

\* The steps of the server.
LEMMA LogoutKeeps ==
  ASSUME IInv, NEW k \in Token, LogoutArrives(k)
  PROVE  IInv'
<1>1. session' \in [User -> Token \cup {None}] /\ SessionOfUser'
  BY TokenIs DEF LogoutArrives, IInv, TypeOK, SessionOfUser
<1>2. logouts' \in SUBSET Token
  BY DEF LogoutArrives, IInv, TypeOK
<1>3. UNCHANGED <<page, sess, saved, registered, issued, tokens, late, stale, closing,
                  overlapped, net, woken, losses>>
  BY DEF LogoutArrives, browser, sources
<1>4. SourcesOK'
  BY <1>3 DEF IInv, SourcesOK, PagesOK, TokensOK, CloseOK
<1>5. QED
  BY <1>1, <1>2, <1>3, <1>4 DEF IInv, TypeOK

LEMMA LateAddKeeps ==
  ASSUME IInv, NEW u \in User, LateAdd(u)
  PROVE  IInv'
<1>1. late' \in [User -> Nat] /\ stale' \in [User -> Nat]
  <2>1. late[u] \in Nat /\ stale[u] \in Nat /\ late[u] - 1 \in Nat /\ stale[u] + 1 \in Nat
    BY DEF LateAdd, IInv, TypeOK
  <2>2. QED
    BY <2>1 DEF LateAdd, IInv, TypeOK
<1>2. UNCHANGED <<browser, accounts, closing, overlapped, network>>
  BY DEF LateAdd
<1>3. SourcesOK'
  BY <1>2 DEF browser, accounts, IInv, SourcesOK, PagesOK, TokensOK, CloseOK
<1>4. QED
  BY <1>1, <1>2, <1>3 DEF browser, accounts, network, IInv, TypeOK, SessionOfUser

LEMMA SourceClosesKeeps ==
  ASSUME IInv, NEW u \in User, SourceCloses(u)
  PROVE  IInv'
<1>1. stale' \in [User -> Nat]
  <2>1. stale[u] \in Nat /\ stale[u] - 1 \in Nat
    BY DEF SourceCloses, IInv, TypeOK
  <2>2. QED
    BY <2>1 DEF SourceCloses, IInv, TypeOK
<1>2. /\ closing' \in Closing /\ closing'.pc = "removed" /\ closing'.user = u
      /\ closing'.token = None
  BY DEF SourceCloses, Closing
<1>3. /\ overlapped \subseteq overlapped' /\ overlapped' \in SUBSET User
      /\ Busy(u) => u \in overlapped'
  BY AlsoWorks DEF SourceCloses, IInv
<1>4. UNCHANGED <<browser, accounts, late, network>>
  BY DEF SourceCloses
<1>5. CloseOK'
  <2>1. u \notin overlapped' => WithSource(u, "checked") = {}
    BY <1>3 DEF Busy
  <2>2. u \notin overlapped' => \A t \in Tab : page[t].src = "checked" => page[t].token[1] # u
    BY <2>1 DEF WithSource
  <2>3. QED
    BY <1>2, <1>4, <2>2 DEF CloseOK, browser
<1>6. SourcesOK'
  BY <1>3, <1>4, <1>5 DEF browser, accounts, IInv, SourcesOK, PagesOK, TokensOK
<1>7. QED
  BY <1>1, <1>2, <1>3, <1>4, <1>6
  DEF browser, accounts, network, IInv, TypeOK, SessionOfUser

\* onClose goes on.
LEMMA CloseGoesOn ==
  ASSUME IInv, \/ \E b \in BOOLEAN : ListTested(b)
               \/ SessionExpires \/ TokenExpires
  PROVE  IInv'
<1>1. /\ closing \in Closing /\ closing.pc # "idle" /\ closing.user \in User
      /\ tokens \in SUBSET Token /\ session \in [User -> Token \cup {None}]
  BY DEF ListTested, SessionExpires, TokenExpires, IInv, TypeOK, SourcesOK, CloseOK
<1>2. UNCHANGED <<browser, registered, issued, late, stale, overlapped, network>>
  BY DEF ListTested, SessionExpires, TokenExpires, accounts
<1>3. NoClose \in Closing /\ NoClose.pc = "idle" /\ NoClose.token = None
  BY DEF NoClose, Closing
<1>4. /\ closing' \in Closing /\ CloseOK' /\ tokens' \subseteq tokens
      /\ session' \in [User -> Token \cup {None}] /\ SessionOfUser'
  <2>1. ASSUME NEW b \in BOOLEAN, ListTested(b)
        PROVE  closing' \in Closing /\ CloseOK' /\ UNCHANGED <<tokens, session>>
    <3>1. UNCHANGED <<page, tokens, session, overlapped>>
      BY <1>2, <2>1 DEF ListTested, accounts, browser
    <3>2. CASE ~b
      BY <1>3, <2>1, <3>1, <3>2 DEF ListTested, CloseOK
    <3>3. CASE b
      <4>1. /\ closing' \in Closing /\ closing'.pc = "empty"
            /\ closing'.user = closing.user /\ closing'.token = closing.token
        BY <1>1, <2>1, <3>3 DEF ListTested, Closing
      <4>2. closing.user \notin overlapped => WithSource(closing.user, "open") = {}
        BY <2>1, <3>3 DEF ListTested
      <4>3. closing.user \notin overlapped =>
              \A t \in Tab : page[t].src = "open" => page[t].token[1] # closing.user
        BY <4>2 DEF WithSource
      <4>4. QED
        BY <1>1, <3>1, <4>1, <4>3 DEF IInv, SourcesOK, CloseOK
    <3>4. QED
      BY <3>1, <3>2, <3>3
  <2>2. CASE SessionExpires
    <3>1. /\ closing' \in Closing /\ closing'.pc = "expired"
          /\ closing'.user = closing.user /\ closing'.token = session[closing.user]
          /\ closing.pc = "empty"
      BY <1>1, <2>2 DEF SessionExpires, Closing
    <3>2. UNCHANGED <<page, tokens, overlapped>>
      BY <1>2, <2>2 DEF SessionExpires, browser
    <3>3. session' \in [User -> Token \cup {None}] /\ SessionOfUser'
      BY <1>1, <2>2 DEF SessionExpires, IInv, SessionOfUser
    <3>4. session[closing.user] # None => session[closing.user][1] = closing.user
      BY <1>1 DEF IInv, SessionOfUser
    <3>5. QED
      BY <1>1, <3>1, <3>2, <3>3, <3>4 DEF IInv, SourcesOK, CloseOK
  <2>3. CASE TokenExpires
    BY <1>1, <1>2, <1>3, <2>3 DEF TokenExpires, browser, CloseOK, IInv, SessionOfUser
  <2>4. QED
    <3>1. \/ \E b \in BOOLEAN : ListTested(b)
          \/ SessionExpires \/ TokenExpires
      OBVIOUS
    <3>2. CASE \E b \in BOOLEAN : ListTested(b)
      BY <1>1, <2>1, <3>2 DEF IInv, SessionOfUser
    <3>3. CASE SessionExpires
      BY <2>2, <3>3 DEF SessionExpires
    <3>4. QED
      BY <2>3, <3>1, <3>2, <3>3 DEF TokenExpires
<1>5. TokensOK'
  <2>1. UNCHANGED <<page, overlapped>>
    BY <1>2 DEF browser
  <2>2. ASSUME NEW t \in Tab, Served(page[t]), page[t].token[1] \notin overlapped
        PROVE  page[t].token \in tokens'
    <3>1. page[t].token \in tokens /\ page[t].token \in Token
      BY <1>1, <2>2 DEF IInv, SourcesOK, TokensOK
    <3>2. CASE TokenExpires
      <4>1. closing.pc = "expired" /\ tokens' = tokens \ {closing.token}
        BY <3>2 DEF TokenExpires
      <4>2. page[t].token # closing.token
        <5>1. SUFFICES ASSUME page[t].token = closing.token PROVE FALSE
          OBVIOUS
        <5>2. page[t].token[1] = closing.user
          BY <3>1, <5>1, NoneIsNot DEF IInv, SourcesOK, CloseOK
        <5>3. QED
          BY <2>2, <4>1, <5>2 DEF Served, IInv, SourcesOK, CloseOK
      <4>3. QED
        BY <3>1, <4>1, <4>2
    <3>3. CASE UNCHANGED tokens
      BY <3>1, <3>3
    <3>4. QED
      BY <3>2, <3>3 DEF ListTested, SessionExpires, accounts
  <2>3. QED
    BY <2>1, <2>2 DEF TokensOK
<1>6. SourcesOK'
  BY <1>2, <1>4, <1>5 DEF browser, IInv, SourcesOK, PagesOK
<1>7. QED
  BY <1>1, <1>2, <1>4, <1>6 DEF browser, network, IInv, TypeOK

LEMMA ServerKeeps ==
  ASSUME IInv,
         \/ \E k \in Token : LogoutArrives(k)
         \/ \E u \in User : LateAdd(u) \/ SourceCloses(u)
         \/ \E b \in BOOLEAN : ListTested(b)
         \/ SessionExpires \/ TokenExpires
  PROVE  IInv'
BY LogoutKeeps, LateAddKeeps, SourceClosesKeeps, CloseGoesOn

\* The steps of signing in.
LEMMA SignInKeeps ==
  ASSUME IInv, NEW t \in Tab,
         \/ Load(t) \/ Refresh(t) \/ Challenge(t) \/ Assert(t)
         \/ Confirm(t) \/ Register(t) \/ Create(t)
  PROVE  IInv'
<1> USE DEF Fails
<1>0. page[t] \in Page /\ sess[t] \in Storage /\ page \in [Tab -> Page] /\ sess \in [Tab -> Storage]
  BY DEF IInv, TypeOK
<1>1. CASE Load(t)
  <2>1. page[t].src = "none"
    BY <1>1 DEF Load, At, IInv, SourcesOK, PagesOK, PageOK
  <2>2. PICK p \in Page : Shows(t, p) /\ PageOK(p) /\ p.src = "none"
    <3>1. ASSUME NEW u \in User, NEW w \in Password \cup {None}
          PROVE  LET m == [page[t] EXCEPT !.pc = "start", !.user = u, !.pass = w]
                 IN  m \in Page /\ PageOK(m) /\ m.src = "none"
      <4>1. LET m == [page[t] EXCEPT !.pc = "start", !.user = u, !.pass = w]
            IN  m \in Page /\ m.pc = "start" /\ m.user = u /\ m.src = "none"
        BY <1>0, <2>1 DEF Page
      <4>2. QED
        BY <4>1 DEF PageOK, Signing
    <3>2. ASSUME NEW u \in User
          PROVE  LET m == [page[t] EXCEPT !.pc = "start", !.user = u]
                 IN  m \in Page /\ PageOK(m) /\ m.src = "none"
      <4>1. LET m == [page[t] EXCEPT !.pc = "start", !.user = u]
            IN  m \in Page /\ m.pc = "start" /\ m.user = u /\ m.src = "none"
        BY <1>0, <2>1 DEF Page
      <4>2. QED
        BY <4>1 DEF PageOK, Signing
    <3>3. sess[t].user \in User \cup {None} /\ \A u \in User : saved[u] \in Password \cup {None}
      BY <1>0 DEF Storage, IInv, TypeOK
    <3>4. Blank("idle") \in Page /\ PageOK(Blank("idle")) /\ Blank("idle").src = "none"
      BY BlankIs DEF PageOK, Signing
    <3>5. QED
      BY <1>1, <3>1, <3>2, <3>3, <3>4 DEF Load, GivesUp
  <2>3. sess' \in [Tab -> Storage]
    <3>1. ASSUME NEW u \in User, sess' = [sess EXCEPT ![t].user = u]
          PROVE  sess' \in [Tab -> Storage]
      <4>1. [sess[t] EXCEPT !.user = u] \in Storage
        BY <1>0 DEF Storage
      <4>2. QED
        BY <1>0, <3>1, <4>1
    <3>2. QED
      BY <1>0, <1>1, <3>1 DEF Load, GivesUp
  <2>4. UNCHANGED <<saved, server, network>>
    BY <1>1 DEF Load
  <2>5. page' \in [Tab -> Page] /\ SourcesOK'
    BY <1>0, <2>2, <2>4, Keep DEF Served, IInv, server, accounts, sources
  <2>6. QED
    BY <2>3, <2>4, <2>5 DEF server, accounts, sources, network, IInv, TypeOK, SessionOfUser
<1>2. CASE Refresh(t)
  <2>1. sess[t].token[1] = page[t].user /\ page[t].pc \in Signing \ {"listen"}
    BY <1>2 DEF Refresh, Refreshable, At, Signing
  <2>2. registered' \in SUBSET User
    BY <1>2 DEF Refresh, IInv, TypeOK
  <2>3. Granted(t, page[t].user, Fails(t, "confirm"))
    BY <1>2, <2>1 DEF Refresh
  <2>4. QED
    BY <2>1, <2>2, <2>3, GrantedKeeps
<1>3. CASE Challenge(t)
  <2>1. page' \in [Tab -> Page] /\ SourcesOK'
    BY <1>0, <1>3, GoneOn DEF Challenge, At, Signing, IInv, server, accounts, sources
  <2>2. QED
    BY <1>3, <2>1 DEF Challenge, server, accounts, sources, network, IInv, TypeOK, SessionOfUser
<1>4. CASE Assert(t)
  <2>1. page[t].pc \in Signing \ {"listen"}
    BY <1>4 DEF Assert, At, Signing
  <2>2. CASE Granted(t, page[t].user, Fails(t, "confirm")) /\ UNCHANGED registered
    <3>1. registered' \in SUBSET User
      BY <2>2 DEF IInv, TypeOK
    <3>2. QED
      BY <2>1, <2>2, <3>1, GrantedKeeps
  <2>3. CASE Fails(t, "confirm") /\ UNCHANGED <<saved, server, network>>
    <3>1. page' \in [Tab -> Page] /\ SourcesOK'
      BY <1>0, <2>1, <2>3, GoneOn DEF Signing, IInv, server, accounts, sources
    <3>2. QED
      BY <2>3, <3>1 DEF server, accounts, sources, network, IInv, TypeOK, SessionOfUser
  <2>4. QED
    BY <1>4, <2>2, <2>3 DEF Assert
<1>5. CASE Confirm(t)
  <2>1. page[t].pc \in Signing \ {"listen"} /\ UNCHANGED <<server, network>> /\ page[t].user \in User
    BY <1>5 DEF Confirm, At, Signing, IInv, SourcesOK, PagesOK, PageOK
  <2>2. CASE GivesUp(t) /\ UNCHANGED saved
    <3>1. page' \in [Tab -> Page] /\ SourcesOK'
      BY <1>0, <2>1, <2>2, BlankKeeps DEF GivesUp, IInv, server, accounts, sources
    <3>2. QED
      BY <2>1, <2>2, <3>1 DEF GivesUp, server, accounts, sources, network, IInv, TypeOK, SessionOfUser
  <2>3. CASE Fails(t, "register") /\ UNCHANGED saved
    <3>1. page' \in [Tab -> Page] /\ SourcesOK'
      BY <1>0, <2>1, <2>3, GoneOn DEF Signing, IInv, server, accounts, sources
    <3>2. QED
      BY <2>1, <2>3, <3>1 DEF server, accounts, sources, network, IInv, TypeOK, SessionOfUser
  <2>4. ASSUME NEW p \in IF sess[t].pass # None THEN {sess[t].pass} ELSE Typed,
               sess' = [sess EXCEPT ![t].pass = p],
               Shows(t, [page[t] EXCEPT !.pc = "register", !.pass = p]),
               saved' \in {saved, [saved EXCEPT ![page[t].user] = p]}
        PROVE  IInv'
    <3> DEFINE m == [page[t] EXCEPT !.pc = "register", !.pass = p]
    <3>1. p \in Password
      BY <1>0, PageAssumption DEF Storage
    <3>2. m \in Page /\ m.pc = "register" /\ m.user = page[t].user /\ m.src = page[t].src
      BY <1>0, <3>1 DEF Page
    <3>3. Shows(t, m)
      BY <2>4
    <3> HIDE DEF m
    <3>4. page[t].src = "none"
      BY <2>1 DEF IInv, SourcesOK, PagesOK, PageOK
    <3>5. PageOK(m)
      BY <2>1, <3>2, <3>4 DEF PageOK
    <3>6. page' \in [Tab -> Page] /\ SourcesOK'
      BY <1>0, <2>1, <3>2, <3>3, <3>4, <3>5, Keep DEF Served, IInv, server, accounts, sources
    <3>7. sess' \in [Tab -> Storage]
      <4>1. [sess[t] EXCEPT !.pass = p] \in Storage
        BY <1>0, <3>1 DEF Storage
      <4>2. QED
        BY <1>0, <2>4, <4>1
    <3>8. saved' \in [User -> Password \cup {None}]
      BY <2>4, <3>1 DEF IInv, TypeOK
    <3>9. QED
      BY <2>1, <3>6, <3>7, <3>8 DEF server, accounts, sources, network, IInv, TypeOK, SessionOfUser
  <2>5. QED
    BY <1>5, <2>2, <2>3, <2>4 DEF Confirm
<1>6. CASE Register(t)
  <2>1. page[t].pc \in Signing \ {"listen"} /\ UNCHANGED <<saved, issued, tokens, session, late, stale, closing, overlapped, network>>
    BY <1>6 DEF Register, At, Signing, sources
  <2>2. registered' \in SUBSET User
    BY <1>6 DEF Register, IInv, TypeOK
  <2>3. Fails(t, "create") \/ GivesUp(t)
    BY <1>6 DEF Register
  <2>4. page' \in [Tab -> Page] /\ SourcesOK' /\ UNCHANGED sess
    <3>1. CASE Fails(t, "create")
      BY <1>0, <2>1, <3>1, GoneOn DEF Signing, IInv
    <3>2. CASE GivesUp(t)
      BY <1>0, <2>1, <3>2, BlankKeeps DEF GivesUp, IInv
    <3>3. QED
      BY <2>3, <3>1, <3>2
  <2>5. QED
    BY <2>1, <2>2, <2>4 DEF network, sources, IInv, TypeOK, SessionOfUser
<1>7. CASE Create(t)
  <2>1. page[t].pc \in Signing \ {"listen"} /\ page[t].user \in User
    BY <1>7 DEF Create, At, Signing, IInv, SourcesOK, PagesOK, PageOK
  <2>2. CASE Granted(t, page[t].user, GivesUp(t)) /\ registered' = registered \cup {page[t].user}
    <3>1. registered' \in SUBSET User
      BY <2>1, <2>2 DEF IInv, TypeOK
    <3>2. QED
      BY <2>1, <2>2, <3>1, GrantedKeeps
  <2>3. CASE GivesUp(t) /\ UNCHANGED <<saved, server, network>>
    <3>1. page' \in [Tab -> Page] /\ SourcesOK'
      BY <1>0, <2>3, BlankKeeps DEF GivesUp, IInv, server, accounts, sources
    <3>2. QED
      BY <2>3, <3>1 DEF GivesUp, server, accounts, sources, network, IInv, TypeOK, SessionOfUser
  <2>4. QED
    BY <1>7, <2>2, <2>3 DEF Create
<1>8. QED
  BY <1>1, <1>2, <1>3, <1>4, <1>5, <1>6, <1>7

\* A source is connected and opened.
LEMMA ConnectKeeps ==
  ASSUME IInv, NEW t \in Tab, Connect(t)
  PROVE  IInv'
<1>1. /\ page[t] \in Page /\ page \in [Tab -> Page] /\ page[t].pc = "listen"
      /\ page[t].src = "connecting" /\ page[t].probe \in BOOLEAN
      /\ page[t].token \in Token /\ page[t].token[1] \in User
      /\ page[t].token[1] = page[t].user
  BY TokenIs DEF Connect, At, IInv, TypeOK, SourcesOK, PagesOK, PageOK, Page
<1>2. UNCHANGED <<sess, saved, accounts, late, stale, closing, network>>
  BY DEF Connect
<1>3. ASSUME page' \in [Tab -> Page], SourcesOK', overlapped' \in SUBSET User
      PROVE  IInv'
  BY <1>2, <1>3 DEF accounts, network, IInv, TypeOK, SessionOfUser
<1>4. CASE \/ /\ Shows(t, [page[t] EXCEPT !.src = "none", !.probe = TRUE])
              /\ UNCHANGED overlapped
           \/ /\ Shows(t, [page[t] EXCEPT !.probe = TRUE])
              /\ UNCHANGED overlapped
  <2>1. [page[t] EXCEPT !.probe = TRUE] = [page[t] EXCEPT !.src = "connecting", !.probe = TRUE]
    BY <1>1 DEF Page
  <2>2. \E s \in {"none", "connecting"} :
          page' = [page EXCEPT ![t] = [page[t] EXCEPT !.src = s, !.probe = TRUE]]
    BY <1>4, <2>1 DEF Shows
  <2>3. page' \in [Tab -> Page] /\ SourcesOK'
    BY <1>1, <1>2, <1>4, <2>2, SourceKeeps DEF IInv, accounts
  <2>4. QED
    BY <1>3, <1>4, <2>3 DEF IInv, TypeOK
<1>5. CASE /\ page[t].token \in tokens
           /\ Shows(t, [page[t] EXCEPT !.src = "checked"])
           /\ AlsoWorksOn(page[t].token[1])
  <2> DEFINE m == [page[t] EXCEPT !.src = "checked"]
             u == page[t].token[1]
  <2>1. /\ m \in Page /\ m.pc = "listen" /\ m.user = page[t].user
        /\ m.token = page[t].token /\ m.src = "checked"
    BY <1>1 DEF Page
  <2>2. page' = [page EXCEPT ![t] = m]
    BY <1>5 DEF Shows
  <2> HIDE DEF m
  <2>3. /\ page' \in [Tab -> Page] /\ page'[t] = m
        /\ \A o \in Tab \ {t} : page'[o] = page[o]
    BY <1>1, <2>1, <2>2
  <2>4. /\ overlapped \subseteq overlapped' /\ overlapped' \in SUBSET User
        /\ closing.pc # "idle" /\ closing.user = u => u \in overlapped'
    BY <1>1, <1>5, AlsoWorks DEF IInv, Busy
  <2>5. UNCHANGED <<tokens, closing>>
    BY <1>2 DEF accounts
  <2>6. PagesOK'
    <3>1. PageOK(m)
      BY <1>1, <2>1 DEF PageOK
    <3>2. QED
      BY <2>3, <3>1 DEF IInv, SourcesOK, PagesOK
  <2>7. TokensOK'
    BY <1>5, <2>1, <2>3, <2>4, <2>5 DEF IInv, SourcesOK, TokensOK
  <2>8. CloseOK'
    BY <2>1, <2>3, <2>4, <2>5 DEF IInv, SourcesOK, CloseOK
  <2>9. QED
    BY <1>3, <2>3, <2>4, <2>6, <2>7, <2>8 DEF SourcesOK
<1>6. QED
  BY <1>4, <1>5 DEF Connect

LEMMA OpenKeeps ==
  ASSUME IInv, NEW t \in Tab, Open(t)
  PROVE  IInv'
<1>1. /\ page[t] \in Page /\ page \in [Tab -> Page] /\ page[t].src = "checked"
      /\ PageOK(page[t])
  BY DEF Open, IInv, TypeOK, SourcesOK, PagesOK
<1>2. UNCHANGED <<sess, saved, server, network>>
  BY DEF Open
<1> DEFINE m == [page[t] EXCEPT !.src = "open"]
<1>3. /\ m \in Page /\ m.pc = page[t].pc /\ m.user = page[t].user
      /\ m.token = page[t].token /\ m.src = "open"
  BY <1>1 DEF Page
<1>4. page' = [page EXCEPT ![t] = m]
  BY DEF Open, Shows
<1> HIDE DEF m
<1>5. /\ page' \in [Tab -> Page] /\ page'[t] = m
      /\ \A o \in Tab \ {t} : page'[o] = page[o]
  BY <1>1, <1>3, <1>4
<1>6. PagesOK'
  <2>1. PageOK(m)
    BY <1>1, <1>3 DEF PageOK
  <2>2. QED
    BY <1>5, <2>1 DEF IInv, SourcesOK, PagesOK
<1>7. UNCHANGED <<tokens, closing, overlapped>>
  BY <1>2 DEF server, accounts, sources
<1>8. TokensOK'
  BY <1>1, <1>3, <1>5, <1>7 DEF IInv, SourcesOK, TokensOK, Served
<1>9. CloseOK'
  BY <1>1, <1>3, <1>5, <1>7 DEF IInv, SourcesOK, CloseOK
<1>10. QED
  BY <1>2, <1>5, <1>6, <1>8, <1>9
  DEF server, accounts, sources, network, IInv, TypeOK, SourcesOK, SessionOfUser

\* What a listening page does.
LEMMA ListeningKeeps ==
  ASSUME IInv, NEW t \in Tab, Connect(t) \/ Open(t) \/ Probe(t) \/ WakeUp(t)
  PROVE  IInv'
<1>0. page[t] \in Page /\ page \in [Tab -> Page] /\ losses \in 0 .. MaxLoss
  BY DEF IInv, TypeOK
<1>1. CASE Connect(t) \/ Open(t)
  BY <1>1, ConnectKeeps, OpenKeeps
<1>2. CASE Probe(t)
  <2>1. CASE Reload(t) /\ UNCHANGED losses
    BY <1>0, <2>1, ReloadKeeps
  <2>2. CASE Shows(t, [page[t] EXCEPT !.probe = FALSE]) /\ UNCHANGED <<sess, saved, server, network>>
    <3> DEFINE p == [page[t] EXCEPT !.probe = FALSE]
    <3>1. /\ p \in Page /\ p.pc = page[t].pc /\ p.user = page[t].user
          /\ p.token = page[t].token /\ p.src = page[t].src
      BY <1>0 DEF Page
    <3>2. Shows(t, p) /\ UNCHANGED <<tokens, closing, overlapped>>
      BY <2>2 DEF server, accounts, sources
    <3> HIDE DEF p
    <3>3. PageOK(p)
      BY <3>1, <3>2 DEF IInv, SourcesOK, PagesOK, PageOK
    <3>4. page' \in [Tab -> Page] /\ SourcesOK'
      BY <1>0, <3>1, <3>2, <3>3, Keep DEF IInv
    <3>5. QED
      BY <2>2, <3>4 DEF server, accounts, sources, network, IInv, TypeOK, SessionOfUser
  <2>3. QED
    BY <1>2, <2>1, <2>2 DEF Probe
<1>3. CASE WakeUp(t)
  BY <1>0, <1>3, ReloadKeeps DEF WakeUp
<1>4. QED
  BY <1>1, <1>2, <1>3

\* What happens to a page.
LEMMA TabKeeps ==
  ASSUME IInv, NEW t \in Tab,
         OpenTab(t) \/ CloseTab(t) \/ UserReload(t) \/ Drop(t)
  PROVE  IInv'
<1>0. page[t] \in Page /\ page \in [Tab -> Page] /\ sess \in [Tab -> Storage]
  BY DEF IInv, TypeOK
<1>1. ASSUME Disturb PROVE losses' \in 0 .. MaxLoss
  BY <1>1, PageAssumption DEF Disturb, IInv, TypeOK
<1>2. CASE OpenTab(t)
  <2>1. page' \in [Tab -> Page] /\ SourcesOK'
    BY <1>0, <1>2, BlankKeeps DEF OpenTab, IInv, server, accounts, sources
  <2>2. sess' \in [Tab -> Storage]
    <3>1. PICK n \in {NewStorage} \cup {sess[o] : o \in {o \in Tab : Loaded(o)}} :
            sess' = [sess EXCEPT ![t] = n]
      BY <1>2 DEF OpenTab
    <3>2. n \in Storage
      BY <1>0, NewStorageIs
    <3>3. QED
      BY <1>0, <3>1, <3>2
  <2>3. QED
    BY <1>2, <2>1, <2>2 DEF OpenTab, server, accounts, sources, network, IInv, TypeOK, SessionOfUser
<1>3. CASE CloseTab(t)
  <2>1. sess' \in [Tab -> Storage]
    BY <1>0, <1>3, NewStorageIs DEF CloseTab
  <2>2. QED
    BY <1>1, <1>3, <2>1, LeaveKeeps DEF CloseTab
<1>4. CASE UserReload(t)
  BY <1>1, <1>4, ReloadKeeps DEF UserReload
<1>5. CASE Drop(t)
  <2>1. page[t].src \in {"checked", "open"} /\ page[t].pc = "listen"
    BY <1>5, TokenIs DEF Drop, IInv, SourcesOK, PagesOK, PageOK
  <2>2. page' \in [Tab -> Page] /\ SourcesOK'
    BY <1>0, <1>5, <2>1, SourceKeeps DEF Drop, Shows, IInv, accounts
  <2>3. late' \in [User -> Nat] /\ stale' \in [User -> Nat]
    BY <1>5, AbandonIs DEF Drop, IInv
  <2>4. QED
    BY <1>1, <1>5, <2>2, <2>3 DEF Drop, accounts, IInv, TypeOK, SessionOfUser
<1>6. QED
  BY <1>2, <1>3, <1>4, <1>5

\* A restart ends every source, so that no page needs its token to be valid.
LEMMA RestartKeeps ==
  ASSUME IInv, Restart
  PROVE  IInv'
<1>1. ASSUME NEW t \in Tab
      PROVE  page'[t] \in Page /\ PageOK(page'[t]) /\ ~Served(page'[t])
  <2>1. page[t] \in Page /\ PageOK(page[t])
    BY DEF IInv, TypeOK, SourcesOK, PagesOK
  <2>2. CASE page[t].src \in {"checked", "open"}
    <3> DEFINE m == [page[t] EXCEPT !.src = "connecting", !.probe = TRUE]
    <3>1. /\ m \in Page /\ m.pc = page[t].pc /\ m.user = page[t].user
          /\ m.token = page[t].token /\ m.src = "connecting"
      BY <2>1 DEF Page
    <3>2. page'[t] = m
      BY <2>2 DEF Restart
    <3> HIDE DEF m
    <3>3. QED
      BY <2>1, <2>2, <3>1, <3>2 DEF PageOK, Served
  <2>3. CASE page[t].src \notin {"checked", "open"}
    <3>1. page'[t] = page[t]
      BY <2>3 DEF Restart
    <3>2. QED
      BY <2>1, <2>3, <3>1 DEF PageOK, Served
  <2>4. QED
    BY <2>2, <2>3
<1>2. page' \in [Tab -> Page]
  BY <1>1 DEF Restart
<1>3. /\ closing' \in Closing /\ closing'.pc = "idle" /\ closing'.token = None
      /\ late' \in [User -> Nat] /\ overlapped' \in SUBSET User
  BY DEF Restart, NoClose, Closing
<1>7. SourcesOK'
  BY <1>1, <1>3 DEF SourcesOK, PagesOK, TokensOK, CloseOK
<1>4. losses' \in 0 .. MaxLoss
  <2>1. Disturb
    BY DEF Restart
  <2>2. QED
    BY <2>1, PageAssumption DEF Disturb, IInv, TypeOK
<1>5. SessionOfUser' /\ session' \in [User -> Token \cup {None}] /\ stale' \in [User -> Nat]
  BY DEF Restart, SessionOfUser
<1>6. QED
  BY <1>2, <1>3, <1>4, <1>5, <1>7 DEF Restart, IInv, TypeOK

LEMMA NetworkKeeps ==
  ASSUME IInv, NEW n \in {"up", "lying", "down"}, NetworkChanges(n)
  PROVE  IInv'
<1>1. losses' \in 0 .. MaxLoss
  BY PageAssumption DEF NetworkChanges, Disturb, IInv, TypeOK
<1>2. woken' \in SUBSET Tab /\ net' \in {"up", "lying", "down"}
  BY DEF NetworkChanges, IInv, TypeOK
<1>3. QED
  BY <1>1, <1>2 DEF NetworkChanges, browser, server, accounts, sources, IInv, TypeOK, SourcesOK, PagesOK, TokensOK, CloseOK, SessionOfUser

LEMMA StepKeeps ==
  ASSUME IInv, [Next]_vars
  PROVE  IInv'
<1>1. CASE UNCHANGED vars
  BY <1>1 DEF vars, browser, server, accounts, sources, network, IInv, TypeOK, SourcesOK, PagesOK, TokensOK, CloseOK, SessionOfUser
<1>2. CASE Next
  <2>1. ASSUME NEW t \in Tab, PageStep(t) PROVE IInv'
    BY <2>1, SignInKeeps, ListeningKeeps DEF PageStep
  <2>2. QED
    BY <1>2, <2>1, ServerKeeps, TabKeeps, RestartKeeps, NetworkKeeps DEF Next
<1>3. QED
  BY <1>1, <1>2

-----------------------------------------------------------------------------
\* The invariant the theorems rest on, for any number of users and tabs.
THEOREM Invariant == Spec => []IInv
<1>1. QED
  BY InitIInv, StepKeeps, PTL DEF Spec

\* The variables of the pages, the browser and the server keep their types.
THEOREM TypeCorrect == Spec => []TypeOK
<1>1. IInv => TypeOK
  BY DEF IInv
<1>2. QED
  BY <1>1, Invariant, PTL

\* A page that listens does so with a token of the user it asked for, whatever
\* the tab has kept of earlier users.
THEOREM ListensAsUserHolds == Spec => []ListensAsUser
<1>1. IInv => ListensAsUser
  BY DEF IInv, SourcesOK, PagesOK, PageOK, ListensAsUser, At
<1>2. QED
  BY <1>1, Invariant, PTL

\* The token of an open source stays valid, however many tabs of its user come
\* and go, unless their sources were opened and closed at the same time: nothing
\* in the servlet keeps newEventSource and onClose apart.
THEOREM OpenTokenValidHolds == Spec => []OpenTokenValid
<1>1. IInv => OpenTokenValid
  BY DEF IInv, SourcesOK, PagesOK, TokensOK, Served, OpenTokenValid
<1>2. QED
  BY <1>1, Invariant, PTL
=============================================================================
