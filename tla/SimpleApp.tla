----------------------------- MODULE SimpleApp ------------------------------
(***************************************************************************)
(* The sample application (docs/simple/index.js) on the SparkWeb library   *)
(* (docs/lib/sparkweb.js): every click on its button makes an instance of  *)
(* SparkWeb, which becomes the one the page knows, and logs it in with a   *)
(* stored or typed password; when that has ended the handler of the click  *)
(* opens an event source with the token of the instance the page knows by  *)
(* then.  Clicks overlap, since a handler waits for the credential store   *)
(* and for the server.                                                     *)
(***************************************************************************)
EXTENDS Naturals

CONSTANTS User,     (* the user names, all with an account                 *)
          Password, (* the passwords                                       *)
          Instance, (* the instances of SparkWeb, one for each click       *)
          None,     (* null or undefined                                   *)
          MaxToken  (* bound: the different tokens a user is issued        *)

ASSUME SimpleAssumption ==
       /\ None \notin User \cup Password \cup Instance \cup (User \X Nat)
       /\ MaxToken \in Nat \ {0}

Token == User \X (1 .. MaxToken)

VARIABLES
  sparkWeb, (* the instance the page knows                                 *)
  inst,     (* each instance, and the handler of the click that made it    *)
  source,   (* the token of the event source each handler has opened       *)
  saved,    (* the passwords the browser has stored                        *)
  password, (* the password of each account                                *)
  accepted, (* the passwords the server has accepted some time             *)
  issued,   (* the tokens the server has issued                            *)
  logouts   (* the token of the logout request when the page was last left *)

page   == <<sparkWeb, inst, source>>
server == <<password, accepted, issued>>
vars   == <<page, saved, server, logouts>>

(* found: whether credentials is set                                       *)
(* calm:  since this click there was no other one, and none was being      *)
(*        handled then                                                     *)
Object ==
  [pc: {"unused", "get", "post", "store", "open", "done", "failed"},
   user: User \cup {None}, pass: Password \cup {None}, found: BOOLEAN,
   token: Token \cup {None}, calm: BOOLEAN]
Unused == [pc |-> "unused", user |-> None, pass |-> None, found |-> FALSE,
           token |-> None, calm |-> FALSE]

TypeOK ==
  /\ sparkWeb \in Instance \cup {None}
  /\ inst \in [Instance -> Object]
  /\ source \in [Instance -> Token \cup {None}]
  /\ saved \in [User -> Password \cup {None}]
  /\ password \in [User -> Password]
  /\ accepted \in SUBSET (User \X Password)
  /\ issued \in SUBSET Token
  /\ logouts \in SUBSET Token

Init ==
  /\ sparkWeb = None
  /\ inst = [i \in Instance |-> Unused]
  /\ source = [i \in Instance |-> None]
  /\ saved = [u \in User |-> None]
  /\ password \in [User -> Password]
  /\ accepted = {}
  /\ issued = {}
  /\ logouts = {}

At(i, s) == inst[i].pc = s
Becomes(i, o) == inst' = [inst EXCEPT ![i] = o]
Goto(i, s) == Becomes(i, [inst[i] EXCEPT !.pc = s])
Resting(i) == inst[i].pc \in {"unused", "done", "failed"}

-----------------------------------------------------------------------------
\* A click: a new instance, and its login begins.
Click(i) ==
  /\ At(i, "unused")
  /\ sparkWeb' = i
  /\ inst' = [j \in Instance |->
       IF j = i THEN [Unused EXCEPT !.pc = "get",
                                    !.calm = \A o \in Instance \ {i} : Resting(o)]
       ELSE [inst[j] EXCEPT !.calm = FALSE]]
  /\ UNCHANGED <<source, saved, server, logouts>>

\* What the user types is in hand.
Typed(i, u, p) ==
  Becomes(i, [inst[i] EXCEPT !.pc = "post", !.user = u, !.pass = p])

\* Fault: what is typed is stored at once.
CredentialsStored(i) ==
  /\ At(i, "get")
  /\ \E u \in User, p \in Password :
       Typed(i, u, p) /\ saved' = [saved EXCEPT ![u] = p]
  /\ UNCHANGED <<sparkWeb, source, server, logouts>>

\* login: a stored password, or what the user types; without either there is
\* nothing to be done.  Where the browser rejects the get, the handler ends.
Credentials(i) ==
  /\ At(i, "get")
  /\ \/ \E u \in {v \in User : saved[v] # None} :
          Becomes(i, [inst[i] EXCEPT !.pc = "post", !.user = u,
                                     !.pass = saved[u], !.found = TRUE])
     \/ \E u \in User, p \in Password : Typed(i, u, p)
     \/ Goto(i, "open")
     \/ Goto(i, "failed")
  /\ UNCHANGED <<sparkWeb, source, saved, server, logouts>>

\* Fault: the handler does not wait for the answer.
PostUnawaited(i) ==
  /\ At(i, "post")
  /\ \E k \in Token :
       /\ k[1] = inst[i].user /\ inst[i].pass = password[k[1]]
       /\ accepted' = accepted \cup {<<k[1], inst[i].pass>>}
       /\ issued' = issued \cup {k}
       /\ Becomes(i, [inst[i] EXCEPT !.token = k, !.pc = "done"])
  /\ UNCHANGED <<sparkWeb, source, saved, password, logouts>>

\* POST /login: a token for the password of the user.  A refusal, like an answer
\* that is lost, is an exception in the handler of the click.
Post(i) ==
  /\ At(i, "post")
  /\ LET u == inst[i].user IN
     \/ /\ inst[i].pass = password[u]
        /\ accepted' = accepted \cup {<<u, inst[i].pass>>}
        /\ \E k \in {l \in Token : l[1] = u} :
             /\ issued' = issued \cup {k}
             /\ \/ Becomes(i, [inst[i] EXCEPT !.token = k,
                                 !.pc = IF inst[i].found THEN "open" ELSE "store"])
                \/ Goto(i, "failed")
     \/ /\ Goto(i, "failed")
        /\ UNCHANGED <<accepted, issued>>
  /\ UNCHANGED <<sparkWeb, source, saved, password, logouts>>

\* A password that was typed and is right is stored, if the user likes; where
\* the browser cannot, the handler ends here.
Store(i) ==
  /\ At(i, "store")
  /\ \/ /\ saved' \in {saved, [saved EXCEPT ![inst[i].user] = inst[i].pass]}
        /\ Goto(i, "open")
     \/ Goto(i, "failed") /\ UNCHANGED saved
  /\ UNCHANGED <<sparkWeb, source, server, logouts>>

\* The handler goes on: it asks the instance the page knows for its token.
Open(i) ==
  /\ At(i, "open")
  /\ source' = [source EXCEPT ![i] = inst[sparkWeb].token]
  /\ Goto(i, "done")
  /\ UNCHANGED <<sparkWeb, saved, server, logouts>>

\* Fault: the page has forgotten its instance.
LeaveQuietly ==
  /\ sparkWeb # None
  /\ sparkWeb' = None
  /\ inst' = [i \in Instance |-> Unused]
  /\ source' = [i \in Instance |-> None]
  /\ UNCHANGED <<saved, server, logouts>>

\* logout of the instance the page knows, when the page is left.
Leave ==
  /\ sparkWeb # None
  /\ logouts' = {inst[sparkWeb].token} \ {None}
  /\ sparkWeb' = None
  /\ inst' = [i \in Instance |-> Unused]
  /\ source' = [i \in Instance |-> None]
  /\ UNCHANGED <<saved, server>>

\* onerror of a source: reload, when isOnline.
SourceFails(i) == source[i] # None /\ Leave

\* The password of an account is changed somewhere else.
ChangePassword(u, p) ==
  /\ password' = [password EXCEPT ![u] = p]
  /\ UNCHANGED <<page, saved, accepted, issued, logouts>>

Next ==
  \/ \E i \in Instance : \/ Click(i) \/ Credentials(i) \/ Post(i) \/ Store(i)
                         \/ Open(i) \/ SourceFails(i)
  \/ Leave
  \/ \E u \in User, p \in Password : ChangePassword(u, p)

Spec == Init /\ [][Next]_vars
-----------------------------------------------------------------------------
\* A password the browser has stored is one the server has accepted for that
\* user, not one somebody has only tried (login).
StoredAccepted ==
  \A u \in User : saved[u] # None => <<u, saved[u]>> \in accepted

\* When no other click was handled meanwhile, a login that has ended listens
\* with the token it was given, and does not listen when it was given none.
CalmListens ==
  \A i \in Instance : At(i, "done") /\ inst[i].calm => source[i] = inst[i].token

\* Such a login is logged out with the very token it listens with, when the
\* page is left before another click.
CalmLogsOut ==
  [][\A i \in Instance :
       inst[i].calm /\ source[i] # None /\ sparkWeb' = None => source[i] \in logouts']_vars
=============================================================================
