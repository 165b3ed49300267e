------------------------------ MODULE WebAuthn ------------------------------
(***************************************************************************)
(* Registration and authentication with WebAuthn: the four endpoints under *)
(* /webauthn of SparkWebAPI, the shared map of pending requests, and the   *)
(* credentials that UserRegistrationStorage keeps in the properties of a   *)
(* user, one database write each.  A ceremony is a challenge the server    *)
(* has issued.  The credential an authenticator creates for a registration *)
(* and the user handle of that registration are both named after its       *)
(* ceremony.  Signature counters are only present or absent, and assumed   *)
(* to be ahead of the stored one.                                          *)
(***************************************************************************)
EXTENDS Naturals

CONSTANTS User,        (* the user names                                   *)
          Thread,      (* the servlet threads                              *)
          None,        (* null                                             *)
          MaxCeremony  (* bound: how many challenges are issued            *)

ASSUME WebAuthnAssumption ==
       /\ None \notin User \cup Nat
       /\ MaxCeremony \in Nat

Ceremony == 1 .. MaxCeremony

VARIABLES
  exists,   (* the user names with an account                              *)
  requests, (* SparkWebAPI.requests: the pending ceremony of each user     *)
  issued,   (* the number of ceremonies so far                             *)
  kind,     (* what each ceremony is for                                   *)
  who,      (* the user of each ceremony                                   *)
  allow,    (* the credentials an assertion request allows                 *)
  keys,     (* the webauthn-key- properties of each user                   *)
  userid,   (* the webauthn-userid property of each user                   *)
  counted,  (* the users with a webauthn-signature-count property          *)
  th        (* the local variables of each thread                          *)

ceremonies == <<issued, kind, who, allow>>
properties == <<keys, userid, counted>>
vars == <<exists, requests, ceremonies, properties, th>>

(* cer: the ceremony whose answer the call brings                          *)
(* key: the credential an assertion is signed with                         *)
(* req: what the call found in requests                                    *)
(* ids: the credentials an assertion request is being built for            *)
Locals ==
  [pc: {"idle", "removeId", "removeKeys", "putCreation",
        "getCreation", "verifyCreation", "addKey", "addId", "addCount",
        "buildAssertion", "putAssertion",
        "getAssertion", "verifyAssertion", "storeCount", "token"},
   user: User \cup {None}, cer: Ceremony \cup {None}, key: Ceremony \cup {None},
   req: Ceremony \cup {None}, ids: SUBSET Ceremony]
Entry(s, u, c, k) == [pc |-> s, user |-> u, cer |-> c, key |-> k,
                      req |-> None, ids |-> {}]
Idle == Entry("idle", None, None, None)

TypeOK ==
  /\ exists \in SUBSET User
  /\ requests \in [User -> Ceremony \cup {None}]
  /\ issued \in 0 .. MaxCeremony
  /\ kind \in [Ceremony -> {"none", "registration", "assertion"}]
  /\ who \in [Ceremony -> User \cup {None}]
  /\ allow \in [Ceremony -> SUBSET Ceremony]
  /\ keys \in [User -> SUBSET Ceremony]
  /\ userid \in [User -> Ceremony \cup {None}]
  /\ counted \in SUBSET User
  /\ th \in [Thread -> Locals]

Init ==
  /\ exists \in SUBSET User
  /\ requests = [u \in User |-> None]
  /\ issued = 0
  /\ kind = [c \in Ceremony |-> "none"]
  /\ who = [c \in Ceremony |-> None]
  /\ allow = [c \in Ceremony |-> {}]
  /\ keys = [u \in User |-> {}]
  /\ userid = [u \in User |-> None]
  /\ counted = {}
  /\ th = [t \in Thread |-> Idle]

At(t, s) == th[t].pc = s
Becomes(t, l) == th' = [th EXCEPT ![t] = l]
Goto(t, s) == Becomes(t, [th[t] EXCEPT !.pc = s])
Return(t) == Becomes(t, Idle)

\* The pending request of u is one of kind k.
Pending(u, k) == requests[u] # None /\ kind[requests[u]] = k

\* requests.put(username, request), for a request with a fresh challenge.
Issue(u, k, ids) ==
  /\ issued < MaxCeremony
  /\ LET c == issued + 1
     IN  /\ issued' = c
         /\ kind' = [kind EXCEPT ![c] = k]
         /\ who' = [who EXCEPT ![c] = u]
         /\ allow' = [allow EXCEPT ![c] = ids]
         /\ requests' = [requests EXCEPT ![u] = c]

-----------------------------------------------------------------------------
(* Faults: what plausible mistakes would make of some of the actions below.*)
(* No specification uses them.                                             *)

\* The challenge of the answer is not compared with the pending one.
VerifyAnyChallenge(t) ==
  /\ At(t, "verifyCreation")
  /\ Goto(t, "addKey")
  /\ UNCHANGED <<exists, requests, ceremonies, properties>>

\* The handle of the old credential is left for the new one to replace.
RemoveKeysOnly(t) ==
  /\ At(t, "removeId")
  /\ Goto(t, "removeKeys")
  /\ UNCHANGED <<exists, requests, ceremonies, properties>>

\* The challenge of the answer is not compared with the pending one.
VerifyAnyAssertion(t) ==
  /\ At(t, "verifyAssertion")
  /\ LET good == th[t].key \in keys[th[t].user] /\ th[t].user \in counted
     IN  \/ good /\ Goto(t, "storeCount")
         \/ ~good /\ Return(t)
  /\ UNCHANGED <<exists, requests, ceremonies, properties>>

\* The webauthn-userid property gets the user's name.
AddIdOfUser(t) ==
  /\ At(t, "addId")
  /\ userid' = [userid EXCEPT ![th[t].user] = th[t].user]
  /\ Goto(t, "addCount")
  /\ UNCHANGED <<exists, requests, ceremonies, keys, counted>>

-----------------------------------------------------------------------------
(* POST /webauthn/register/start/{username}                                *)

\* The account is created (in-band registration) or its password checked;
\* a call that is refused changes nothing.
RegisterStart(t, u) ==
  /\ At(t, "idle")
  /\ exists' = exists \cup {u}
  /\ Becomes(t, Entry("removeId", u, None, None))
  /\ UNCHANGED <<requests, ceremonies, properties>>

\* removeCredential: properties.remove("webauthn-userid")
RemoveId(t) ==
  /\ At(t, "removeId")
  /\ userid' = [userid EXCEPT ![th[t].user] = None]
  /\ Goto(t, "removeKeys")
  /\ UNCHANGED <<exists, requests, ceremonies, keys, counted>>

\* The loop over the keys; the signature count stays.
RemoveKeys(t) ==
  /\ At(t, "removeKeys")
  /\ keys' = [keys EXCEPT ![th[t].user] = {}]
  /\ Goto(t, "putCreation")
  /\ UNCHANGED <<exists, requests, ceremonies, userid, counted>>

\* A request with a new challenge and a new user handle.
PutCreation(t) ==
  /\ At(t, "putCreation")
  /\ Issue(th[t].user, "registration", {})
  /\ Return(t)
  /\ UNCHANGED <<exists, properties>>

-----------------------------------------------------------------------------
(* POST /webauthn/register/finish/{username}                               *)

\* The browser of u answers ceremony c; it may do so late, or twice.
RegisterFinish(t, u, c) ==
  /\ At(t, "idle")
  /\ who[c] = u /\ kind[c] = "registration"
  /\ Becomes(t, Entry("getCreation", u, c, None))
  /\ UNCHANGED <<exists, requests, ceremonies, properties>>

\* requests.get(username): null is an error, and so is an assertion request,
\* which the cast refuses.  The request stays in the map.
GetCreation(t) ==
  /\ At(t, "getCreation")
  /\ \/ ~Pending(th[t].user, "registration") /\ Return(t)
     \/ /\ Pending(th[t].user, "registration")
        /\ Becomes(t, [th[t] EXCEPT !.req = requests[th[t].user],
                                    !.pc = "verifyCreation"])
  /\ UNCHANGED <<exists, requests, ceremonies, properties>>

\* relyingParty.finishRegistration: the answer is to this challenge, and
\* lookupAll finds no such credential yet.  Without a signature count,
\* lookupAll fails and finds nothing.
VerifyCreation(t) ==
  /\ At(t, "verifyCreation")
  /\ LET known == \E u \in counted : th[t].cer \in keys[u]
     IN  \/ th[t].cer = th[t].req /\ ~known /\ Goto(t, "addKey")
         \/ (th[t].cer # th[t].req \/ known) /\ Return(t)
  /\ UNCHANGED <<exists, requests, ceremonies, properties>>

\* addCredential: three properties, one after the other.
AddKey(t) ==
  /\ At(t, "addKey")
  /\ keys' = [keys EXCEPT ![th[t].user] = @ \cup {th[t].cer}]
  /\ Goto(t, "addId")
  /\ UNCHANGED <<exists, requests, ceremonies, userid, counted>>

AddId(t) ==
  /\ At(t, "addId")
  /\ userid' = [userid EXCEPT ![th[t].user] = th[t].req]
  /\ Goto(t, "addCount")
  /\ UNCHANGED <<exists, requests, ceremonies, keys, counted>>

AddCount(t) ==
  /\ At(t, "addCount")
  /\ counted' = counted \cup {th[t].user}
  /\ Goto(t, "token")
  /\ UNCHANGED <<exists, requests, ceremonies, keys, userid>>

\* A write of addCredential throws: finishRegisterWebAuthn catches that, and
\* as its result is not null by then, the user is given a token all the same.
AddFails(t) ==
  /\ th[t].pc \in {"addKey", "addId", "addCount"}
  /\ Goto(t, "token")
  /\ UNCHANGED <<exists, requests, ceremonies, properties>>

\* The user gets a token (SessionRegistry has the rest of it).
Token(t) ==
  /\ At(t, "token")
  /\ Return(t)
  /\ UNCHANGED <<exists, requests, ceremonies, properties>>

-----------------------------------------------------------------------------
(* POST /webauthn/authenticate/start/{username}, without an active token.  *)

AuthenticateStart(t, u) ==
  /\ At(t, "idle")
  /\ Becomes(t, Entry("buildAssertion", u, None, None))
  /\ UNCHANGED <<exists, requests, ceremonies, properties>>

\* startAssertion: the request allows the credentials the user has now, which
\* may be none.
BuildAssertion(t) ==
  /\ At(t, "buildAssertion")
  /\ Becomes(t, [th[t] EXCEPT !.ids = keys[th[t].user], !.pc = "putAssertion"])
  /\ UNCHANGED <<exists, requests, ceremonies, properties>>

PutAssertion(t) ==
  /\ At(t, "putAssertion")
  /\ Issue(th[t].user, "assertion", th[t].ids)
  /\ Return(t)
  /\ UNCHANGED <<exists, properties>>

-----------------------------------------------------------------------------
(* POST /webauthn/authenticate/finish/{username}                           *)

\* The authenticator of u signs with one of the credentials allowed.
AuthenticateFinish(t, u, c) ==
  /\ At(t, "idle")
  /\ who[c] = u /\ kind[c] = "assertion"
  /\ \E k \in allow[c] : Becomes(t, Entry("getAssertion", u, c, k))
  /\ UNCHANGED <<exists, requests, ceremonies, properties>>

GetAssertion(t) ==
  /\ At(t, "getAssertion")
  /\ \/ ~Pending(th[t].user, "assertion") /\ Return(t)
     \/ /\ Pending(th[t].user, "assertion")
        /\ Becomes(t, [th[t] EXCEPT !.req = requests[th[t].user],
                                    !.pc = "verifyAssertion"])
  /\ UNCHANGED <<exists, requests, ceremonies, properties>>

\* relyingParty.finishAssertion: the answer is to this challenge, and lookup
\* finds the credential with a signature count.  With credentials of several
\* registrations, the user handle it compares with may be the wrong one.
VerifyAssertion(t) ==
  /\ At(t, "verifyAssertion")
  /\ LET u == th[t].user
         good == /\ th[t].cer = th[t].req
                 /\ th[t].key \in keys[u]
                 /\ u \in counted
     IN  \/ good /\ Goto(t, "storeCount")
         \/ (~good \/ keys[u] # {th[t].key}) /\ Return(t)
  /\ UNCHANGED <<exists, requests, ceremonies, properties>>

\* storeSignatureCount
StoreCount(t) ==
  /\ At(t, "storeCount")
  /\ counted' = counted \cup {th[t].user}
  /\ Goto(t, "token")
  /\ UNCHANGED <<exists, requests, ceremonies, keys, userid>>

-----------------------------------------------------------------------------
\* A write of removeCredential or storeSignatureCount, or the making of a
\* challenge, throws: the call is answered with an error.
CallFails(t) ==
  /\ th[t].pc \in {"removeId", "removeKeys", "putCreation", "putAssertion", "storeCount"}
  /\ Return(t)
  /\ UNCHANGED <<exists, requests, ceremonies, properties>>

\* The server restarts, or the plugin is reloaded: requests and running
\* calls are lost, the properties of the users are in the database.
Restart ==
  /\ requests' = [u \in User |-> None]
  /\ th' = [t \in Thread |-> Idle]
  /\ UNCHANGED <<exists, ceremonies, properties>>

Continue(t) ==
  \/ RemoveId(t) \/ RemoveKeys(t) \/ PutCreation(t)
  \/ GetCreation(t) \/ VerifyCreation(t)
  \/ AddKey(t) \/ AddId(t) \/ AddCount(t) \/ AddFails(t)
  \/ BuildAssertion(t) \/ PutAssertion(t)
  \/ GetAssertion(t) \/ VerifyAssertion(t) \/ StoreCount(t)
  \/ Token(t) \/ CallFails(t)

Request(t, u) ==
  \/ RegisterStart(t, u) \/ AuthenticateStart(t, u)
  \/ \E c \in Ceremony : RegisterFinish(t, u, c) \/ AuthenticateFinish(t, u, c)

Next ==
  \/ \E t \in Thread : (\E u \in User : Request(t, u)) \/ Continue(t)
  \/ Restart

Spec == Init /\ [][Next]_vars

\* No call for user u is running.
Quiet(u) == \A t \in Thread : th[t].user # u

\* The same, when the calls of one user come one at a time, as from one
\* browser; those of several users, and the ceremonies of one user,
\* interleave.  Nothing in the code keeps two calls of a user apart.
SerialNext ==
  \/ \E t \in Thread : \/ \E u \in User : Quiet(u) /\ Request(t, u)
                       \/ Continue(t)
  \/ Restart

SerialSpec == Init /\ [][SerialNext]_vars
-----------------------------------------------------------------------------
Registrations(u) == {c \in Ceremony : who[c] = u /\ kind[c] = "registration"}

\* While the calls of a user come one at a time: when a registration begins,
\* the credentials of those before it are gone for good, and only the newest registration of a user has a credential, even
\* when its ceremonies overlap, are answered late or twice, writes fail or
\* the server restarts (startRegisterWebAuthn, finishRegisterWebAuthn).
NewestOnly ==
  \A u \in User : \A k \in keys[u], c \in Registrations(u) : c <= k

\* Then, too, although the writes of removeCredential and addCredential may
\* fail or be cut off between any two, so that what is stored is incomplete,
\* a credential and a webauthn-userid stored together are of one registration.
HandleFits ==
  \A u \in User :
    keys[u] # {} /\ userid[u] # None => keys[u] = {userid[u]}

\* And a user is signed in by an answer to the newest challenge issued to him,
\* signed with the stored credential of his newest registration, whatever
\* older requests his browsers still have and answer (finishAuthentication).
SignedInByNewest ==
  \A t \in Thread : At(t, "token") /\ kind[th[t].cer] = "assertion" =>
    /\ \A c \in Ceremony : who[c] = th[t].user => c <= th[t].cer
    /\ th[t].key \in keys[th[t].user]
    /\ \A c \in Registrations(th[t].user) : c <= th[t].key
=============================================================================
