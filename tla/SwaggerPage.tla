---------------------------- MODULE SwaggerPage ----------------------------
(***************************************************************************)
(* The Swagger page of the plugin (swagger-initializer.js) in the tabs of  *)
(* one browser: sign in with the token of the tab, an authenticator or a   *)
(* new registration, open an event source, reload when the source fails,   *)
(* log out when the page is left.  The server is reduced to what the tabs  *)
(* share there: tokens, one session per user and its event sources.        *)
(* SessionRegistry, EventSources and WebAuthn have the inside of it.  A    *)
(* step is what a page does between two awaits; an answer may get lost.    *)
(***************************************************************************)
EXTENDS Naturals

CONSTANTS User,     (* the user names, all with an account                 *)
          Tab,      (* the tabs of the browser                             *)
          None,     (* null                                                *)
          Typed,    (* the passwords a user may type, some of Password     *)
          MaxToken, (* bound: the different tokens a user is issued        *)
          MaxLoss   (* bound: how often tabs and server are disturbed      *)

Password == {"right", "wrong"}

ASSUME PageAssumption ==
       /\ None \notin User \cup Password \cup (User \X Nat)
       /\ Typed \subseteq Password
       /\ MaxToken \in Nat \ {0}
       /\ MaxLoss \in Nat

Token == User \X (1 .. MaxToken)

VARIABLES
  page,       (* the page in each tab                                      *)
  sess,       (* sessionStorage of each tab, which survives a reload       *)
  saved,      (* the passwords the browser has stored                      *)
  registered, (* the users whose credential authenticator and server know  *)
  issued,     (* how many different tokens each user has been issued       *)
  tokens,     (* SparkWeb.tokens                                           *)
  session,    (* the token of the user's connection, None without one      *)
  late,       (* the sources being opened for a page that has gone         *)
  stale,      (* the sources of a user whose browser has gone, not noticed *)
  closing,    (* the local variables of the onClose that is running        *)
  overlapped, (* the users of whom sources were opened or closed at a time *)
  logouts,    (* the logout requests on their way, with their token        *)
  net,        (* whether the server can be reached                         *)
  woken,      (* the tabs with an online event to handle                   *)
  losses      (* how often something was disturbed                         *)

browser  == <<page, sess, saved>>
accounts == <<registered, issued, tokens, session>>
sources  == <<late, stale, closing, overlapped>>
server   == <<accounts, sources>>
network  == <<logouts, net, woken, losses>>
vars     == <<browser, server, network>>

(* pc:    where the script of the page is; "closed" is a tab nobody has    *)
(*        opened yet or that was closed, "dead" the browser's error page,  *)
(*        "idle" a page whose sign-in has ended without success            *)
(* user:  username                                                         *)
(* pass:  credentials.password, later password                             *)
(* token: the token setupListeners was called with                         *)
(* src:   the EventSource: connecting, with its token checked by the       *)
(*        servlet, or open                                                 *)
(* probe: whether onerror waits for isOnline                               *)
Page ==
  [pc: {"closed", "dead", "load", "start", "assert", "confirm", "register",
        "create", "listen", "idle"},
   user: User \cup {None}, pass: Password \cup {None},
   token: Token \cup {None}, src: {"none", "connecting", "checked", "open"},
   probe: BOOLEAN]
Blank(s) == [pc |-> s, user |-> None, pass |-> None, token |-> None,
             src |-> "none", probe |-> FALSE]

\* Where onClose is: the source is out of the list, the list was empty, the
\* session is gone.  Heartbeats have one thread.
Closing == [pc: {"idle", "removed", "empty", "expired"}, user: User \cup {None},
            token: Token \cup {None}]
NoClose == [pc |-> "idle", user |-> None, token |-> None]

Storage == [user: User \cup {None}, pass: Password \cup {None},
            token: Token \cup {None}]
NewStorage == [user |-> None, pass |-> None, token |-> None]

TypeOK ==
  /\ page \in [Tab -> Page]
  /\ sess \in [Tab -> Storage]
  /\ saved \in [User -> Password \cup {None}]
  /\ registered \in SUBSET User
  /\ issued \in [User -> 0 .. MaxToken]
  /\ tokens \in SUBSET Token
  /\ session \in [User -> Token \cup {None}]
  /\ late \in [User -> Nat]
  /\ stale \in [User -> Nat]
  /\ closing \in Closing
  /\ overlapped \in SUBSET User
  /\ logouts \in SUBSET Token
  /\ net \in {"up",     (* the server answers                              *)
              "lying",  (* navigator.onLine says so, but it does not       *)
              "down"}   (* navigator.onLine is false                       *)
  /\ woken \in SUBSET Tab
  /\ losses \in 0 .. MaxLoss

Init ==
  /\ page = [t \in Tab |-> Blank("closed")]
  /\ sess = [t \in Tab |-> NewStorage]
  /\ saved = [u \in User |-> None]
  /\ registered \in SUBSET User
  /\ issued = [u \in User |-> 0]
  /\ tokens = {}
  /\ session = [u \in User |-> None]
  /\ late = [u \in User |-> 0]
  /\ stale = [u \in User |-> 0]
  /\ closing = NoClose
  /\ overlapped = {}
  /\ logouts = {}
  /\ net = "up"
  /\ woken = {}
  /\ losses = 0

At(t, s) == page[t].pc = s
Shows(t, p) == page' = [page EXCEPT ![t] = p]
Goto(t, s) == Shows(t, [page[t] EXCEPT !.pc = s])
Loaded(t) == page[t].pc \notin {"closed", "dead"}

\* The tabs of u whose event source is s on the server.
WithSource(u, s) == {t \in Tab : page[t].src = s /\ page[t].token[1] = u}

\* The list of the sources of u is being worked on.
Busy(u) == \/ WithSource(u, "checked") # {} \/ late[u] > 0
           \/ closing.pc # "idle" /\ closing.user = u

\* Another source of u is opened or closed.
AlsoWorksOn(u) == overlapped' = IF Busy(u) THEN overlapped \cup {u} ELSE overlapped

-----------------------------------------------------------------------------
(* The server                                                              *)

\* makeAccessToken: a new token, or that of the same second.  The session
\* takes it; a session that cannot be opened is not reported.
Issue(u, k) ==
  /\ k = <<u, issued[u]>> \/ k = <<u, issued[u] + 1>>
  /\ k \in Token
  /\ issued' = [issued EXCEPT ![u] = k[2]]
  /\ tokens' = tokens \cup {k}
  /\ \/ session' = [session EXCEPT ![u] = k]
     \/ session[u] = None /\ UNCHANGED session

\* POST /logout, if it arrives: the filter wants a valid token, whichever of
\* the user's it is, and the session goes with everybody's sources open.
LogoutArrives(k) ==
  /\ k \in logouts
  /\ logouts' = logouts \ {k}
  /\ session' = IF k \in tokens THEN [session EXCEPT ![k[1]] = None] ELSE session
  /\ UNCHANGED <<browser, registered, issued, tokens, sources, net, woken, losses>>

\* The source of a page that has gone is put into the list all the same.
LateAdd(u) ==
  /\ late[u] > 0
  /\ late' = [late EXCEPT ![u] = @ - 1]
  /\ stale' = [stale EXCEPT ![u] = @ + 1]
  /\ UNCHANGED <<browser, accounts, closing, overlapped, network>>

\* A heartbeat fails, and onClose takes the source out of the list of its
\* user.
SourceCloses(u) ==
  /\ stale[u] > 0 /\ closing.pc = "idle"
  /\ stale' = [stale EXCEPT ![u] = @ - 1]
  /\ closing' = [pc |-> "removed", user |-> u, token |-> None]
  /\ AlsoWorksOn(u)
  /\ UNCHANGED <<browser, accounts, late, network>>

\* Fault: whichever source goes takes the session and its token along.
ListNotTested(b) ==
  /\ closing.pc = "removed"
  /\ b
  /\ closing' = [closing EXCEPT !.pc = "empty"]
  /\ UNCHANGED <<browser, accounts, late, stale, overlapped, network>>

\* sources.size() is 0, or not.  Where the work on the list has overlapped it
\* may have lost a source, or have been done on two lists: EventSources.
ListTested(b) ==
  /\ closing.pc = "removed"
  /\ \/ closing.user \in overlapped
     \/ b <=> stale[closing.user] = 0 /\ WithSource(closing.user, "open") = {}
  /\ closing' = IF b THEN [closing EXCEPT !.pc = "empty"] ELSE NoClose
  /\ UNCHANGED <<browser, accounts, late, stale, overlapped, network>>

\* OpenfireConnection.removeConnection: with the last source goes the session,
SessionExpires ==
  /\ closing.pc = "empty"
  /\ session' = [session EXCEPT ![closing.user] = None]
  /\ closing' = [closing EXCEPT !.pc = "expired", !.token = session[closing.user]]
  /\ UNCHANGED <<browser, registered, issued, tokens, late, stale, overlapped, network>>

\* and the token it had.
TokenExpires ==
  /\ closing.pc = "expired"
  /\ tokens' = tokens \ {closing.token}
  /\ closing' = NoClose
  /\ UNCHANGED <<browser, registered, issued, session, late, stale, overlapped, network>>

-----------------------------------------------------------------------------
(* Signing in: onComplete                                                  *)

\* setupListeners: the page opens a source with the token it was given.
SignedIn(t, k) ==
  /\ sess' = [sess EXCEPT ![t].token = k]
  /\ Shows(t, [page[t] EXCEPT !.pc = "listen", !.pass = None,
                          !.token = k, !.src = "connecting"])

Fails(t, s) == Goto(t, s) /\ UNCHANGED sess
GivesUp(t) == Shows(t, Blank("idle")) /\ UNCHANGED sess

\* The server issues a token of u's to the page of t; the answer may get lost.
Granted(t, u, lost) ==
  /\ net = "up"
  /\ \E k \in Token : Issue(u, k) /\ (SignedIn(t, k) \/ lost)
  /\ UNCHANGED <<saved, sources, network>>

\* Who signs in: whom the tab remembers, a stored credential, or a prompt.
\* Only the prompt is remembered.
Load(t) ==
  /\ At(t, "load")
  /\ \/ /\ sess[t].user # None
        /\ Shows(t, [page[t] EXCEPT !.pc = "start", !.user = sess[t].user])
        /\ UNCHANGED sess
     \/ /\ sess[t].user = None
        /\ \E u \in {v \in User : saved[v] # None} :
             Shows(t, [page[t] EXCEPT !.pc = "start", !.user = u, !.pass = saved[u]])
        /\ UNCHANGED sess
     \/ /\ sess[t].user = None
        /\ \E u \in User :
             /\ sess' = [sess EXCEPT ![t].user = u]
             /\ Shows(t, [page[t] EXCEPT !.pc = "start", !.user = u])
     \/ GivesUp(t)
  /\ UNCHANGED <<saved, server, network>>

\* Fault: the server exchanges any valid token.
RefreshableForAll(t) == sess[t].token \in tokens

\* The server exchanges a valid token of the user who signs in.
Refreshable(t) == sess[t].token \in tokens /\ sess[t].token[1] = page[t].user

\* Fault: the page signs in with the token it has, without asking the server.
RefreshTrusting(t) ==
  /\ At(t, "start") /\ sess[t].token # None
  /\ SignedIn(t, sess[t].token)
  /\ UNCHANGED <<saved, server, network>>

\* webAuthenticate, authenticate/start: a new token for the one the tab has,
Refresh(t) ==
  /\ At(t, "start") /\ Refreshable(t)
  /\ Granted(t, sess[t].token[1], Fails(t, "confirm"))
  /\ UNCHANGED registered

\* or a challenge, or no answer.
Challenge(t) ==
  /\ At(t, "start")
  /\ \/ ~Refreshable(t) /\ net = "up" /\ Fails(t, "assert")
     \/ Fails(t, "confirm")
  /\ UNCHANGED <<saved, server, network>>

\* The authenticator signs the challenge, then authenticate/finish.
Assert(t) ==
  /\ At(t, "assert")
  /\ \/ /\ page[t].user \in registered
        /\ Granted(t, page[t].user, Fails(t, "confirm"))
        /\ UNCHANGED registered
     \/ /\ Fails(t, "confirm")
        /\ UNCHANGED <<saved, server, network>>

\* The catch block: register anew with the password of the credential, that of
\* the tab, or one the user types.  A typed one is stored, if the user lets the
\* browser, before the server has seen it.
Confirm(t) ==
  /\ At(t, "confirm")
  /\ LET u == page[t].user IN
     \/ GivesUp(t) /\ UNCHANGED saved
     \/ /\ page[t].pass # None
        /\ Fails(t, "register") /\ UNCHANGED saved
     \/ /\ page[t].pass = None
        /\ \E p \in IF sess[t].pass # None THEN {sess[t].pass} ELSE Typed :
             /\ sess' = [sess EXCEPT ![t].pass = p]
             /\ Shows(t, [page[t] EXCEPT !.pc = "register", !.pass = p])
             /\ saved' \in {saved, [saved EXCEPT ![u] = p]}
  /\ UNCHANGED <<server, network>>

\* webRegister, register/start: with the right password the server drops the
\* credential the user has.  Nothing catches what fails from here on.
Register(t) ==
  /\ At(t, "register")
  /\ \/ /\ net = "up" /\ page[t].pass = "right"
        /\ registered' = registered \ {page[t].user}
        /\ Fails(t, "create") \/ GivesUp(t)
     \/ /\ GivesUp(t)
        /\ UNCHANGED registered
  /\ UNCHANGED <<saved, issued, tokens, session, sources, network>>

\* The authenticator makes a credential, then register/finish.
Create(t) ==
  /\ At(t, "create")
  /\ \/ /\ Granted(t, page[t].user, GivesUp(t))
        /\ registered' = registered \cup {page[t].user}
     \/ /\ GivesUp(t)
        /\ UNCHANGED <<saved, server, network>>

-----------------------------------------------------------------------------
(* Listening                                                               *)

\* The browser (re)connects the source: the servlet finds its token valid.  One
\* that is not ends the source for good, no connection lets it try again; both
\* call onerror.
Connect(t) ==
  /\ At(t, "listen") /\ page[t].src = "connecting"
  /\ \/ /\ net = "up" /\ page[t].token \in tokens
        /\ Shows(t, [page[t] EXCEPT !.src = "checked"])
        /\ AlsoWorksOn(page[t].token[1])
     \/ /\ net = "up" /\ page[t].token \notin tokens
        /\ Shows(t, [page[t] EXCEPT !.src = "none", !.probe = TRUE])
        /\ UNCHANGED overlapped
     \/ /\ net # "up"
        /\ Shows(t, [page[t] EXCEPT !.probe = TRUE])
        /\ UNCHANGED overlapped
  /\ UNCHANGED <<sess, saved, accounts, late, stale, closing, network>>

\* sources.add, and the source is open.
Open(t) ==
  /\ page[t].src = "checked"
  /\ Shows(t, [page[t] EXCEPT !.src = "open"])
  /\ UNCHANGED <<sess, saved, server, network>>

\* The browser of page t has gone from its source.
Abandon(t) ==
  LET more(f, s) == [u \in User |-> IF t \in WithSource(u, s) THEN f[u] + 1 ELSE f[u]]
  IN  /\ late' = more(late, "checked")
      /\ stale' = more(stale, "open")

\* The page of t is left for p: the beforeunload handler asks for a logout,
\* whoever else uses the session, and nobody tells the server of the source.
Leave(t, p) ==
  /\ Shows(t, Blank(p))
  /\ logouts' = logouts \cup ({page[t].token} \ {None})
  /\ Abandon(t)
  /\ woken' = woken \ {t}
  /\ UNCHANGED <<accounts, closing, overlapped, saved, net>>

\* What a reload gets from the service worker: without the server it looks for
\* its copy of the page, but does not return it.
Fetched == IF net = "up" THEN "load" ELSE "dead"

\* location.reload
Reload(t) == Leave(t, Fetched) /\ UNCHANGED sess

\* onerror goes on after isOnline.
Probe(t) ==
  /\ page[t].probe
  /\ IF net = "up"
     THEN Reload(t) /\ UNCHANGED losses
     ELSE /\ Shows(t, [page[t] EXCEPT !.probe = FALSE])
          /\ UNCHANGED <<sess, saved, server, network>>

\* The online handler: it tests the promise isOnline returns, so never waits.
WakeUp(t) == t \in woken /\ Reload(t) /\ UNCHANGED losses

-----------------------------------------------------------------------------
(* Disturbances                                                            *)

Disturb == losses < MaxLoss /\ losses' = losses + 1

\* A new tab, empty or a duplicate of another.
OpenTab(t) ==
  /\ At(t, "closed") /\ net = "up"
  /\ Shows(t, Blank("load"))
  /\ \E s \in {NewStorage} \cup {sess[o] : o \in {o \in Tab : Loaded(o)}} :
       sess' = [sess EXCEPT ![t] = s]
  /\ UNCHANGED <<saved, server, network>>

CloseTab(t) ==
  /\ Loaded(t) /\ Disturb
  /\ Leave(t, "closed")
  /\ sess' = [sess EXCEPT ![t] = NewStorage]

UserReload(t) == ~At(t, "closed") /\ Disturb /\ Reload(t)

\* The connection of a source breaks; the browser notices.
Drop(t) ==
  /\ page[t].src \in {"checked", "open"} /\ Disturb
  /\ Shows(t, [page[t] EXCEPT !.src = "connecting", !.probe = TRUE])
  /\ Abandon(t)
  /\ UNCHANGED <<sess, saved, accounts, closing, overlapped, logouts, net, woken>>

\* Tokens, connections and sources live in memory only.
Restart ==
  /\ Disturb
  /\ tokens' = {}
  /\ session' = [u \in User |-> None]
  /\ late' = [u \in User |-> 0]
  /\ stale' = [u \in User |-> 0]
  /\ closing' = NoClose
  /\ overlapped' = {}
  /\ page' = [t \in Tab |->
       IF page[t].src \in {"checked", "open"}
       THEN [page[t] EXCEPT !.src = "connecting", !.probe = TRUE] ELSE page[t]]
  /\ UNCHANGED <<sess, saved, registered, issued, logouts, net, woken>>

NetworkChanges(n) ==
  /\ n # net
  /\ IF net = "up" THEN Disturb ELSE UNCHANGED losses
  /\ net' = n
  /\ woken' = IF net = "down" THEN {t \in Tab : Loaded(t)} ELSE woken
  /\ UNCHANGED <<browser, server, logouts>>

-----------------------------------------------------------------------------
\* What a page does by itself, the answers of its user included.
PageStep(t) ==
  \/ Load(t) \/ Refresh(t) \/ Challenge(t) \/ Assert(t)
  \/ Confirm(t) \/ Register(t) \/ Create(t)
  \/ Connect(t) \/ Open(t) \/ Probe(t) \/ WakeUp(t)

Next ==
  \/ \E t \in Tab : PageStep(t) \/ OpenTab(t) \/ CloseTab(t) \/ UserReload(t) \/ Drop(t)
  \/ \E k \in Token : LogoutArrives(k)
  \/ \E u \in User : LateAdd(u) \/ SourceCloses(u)
  \/ \E b \in BOOLEAN : ListTested(b)
  \/ SessionExpires \/ TokenExpires
  \/ \E n \in {"up", "lying", "down"} : NetworkChanges(n)
  \/ Restart

Spec == Init /\ [][Next]_vars

\* A page goes on as long as it can: its scripts run, its user answers.
FairSpec == Spec /\ \A t \in Tab : WF_vars(PageStep(t))

-----------------------------------------------------------------------------
\* Whatever tokens a tab has kept from earlier users, and however sign-in
\* attempts, reloads and lost answers mix, a page listens with a token of the
\* user it asked for: it never shows the events of somebody else.
ListensAsUser ==
  \A t \in Tab : At(t, "listen") => page[t].token[1] = page[t].user

\* As long as a source is open its token can be used for requests, although
\* other tabs of the user come, go and log out, and get tokens of their own: no
\* onClose takes it.  It can only where the sources of a user were opened or
\* closed at the same time.
OpenTokenValid ==
  \A t \in Tab : page[t].src = "open" /\ page[t].token[1] \notin overlapped
                   => page[t].token \in tokens

\* A page whose source is being connected does not hang or reload for ever when
\* the network stays: it is open in the end, or its user has to do something.
Recovers ==
  \A t \in Tab :
    (page[t].src = "connecting" /\ [](net = "up"))
      ~> (page[t].src = "open" \/ page[t].pc \in {"idle", "dead", "closed"})

=============================================================================
