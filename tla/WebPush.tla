------------------------------ MODULE WebPush ------------------------------
(***************************************************************************)
(* Web push: the VAPID key pair of a user, made on the first request for   *)
(* its public half (SparkWebAPI.fetchWebPushPublicKey), the subscriptions  *)
(* his browsers store, and SparkWeb.postWebPush, which sends a             *)
(* notification to them.  Keys and subscriptions are properties of the     *)
(* user, one database write each, and PUT /user removes them one by one.   *)
(* A key pair is named by a number, so that two halves belong together     *)
(* when the numbers are equal.  The session makeAccessToken opens for the  *)
(* target is SessionRegistry's; a PUT /user that brings back keys or       *)
(* subscriptions it has read before is left out.                           *)
(***************************************************************************)
EXTENDS Naturals

CONSTANTS User,      (* the user names, all with an account               *)
          Resource,  (* the tags of subscriptions                         *)
          Thread,    (* the servlet threads                               *)
          None,      (* null                                              *)
          Global,    (* the key pair in the properties of the server      *)
          MaxKey     (* bound: how many key pairs are generated           *)

ASSUME WebPushAssumption ==
       /\ MaxKey \in Nat
       /\ None \notin User \cup {Global} \cup Nat
       /\ Global \notin Nat

Key == 1 .. MaxKey \cup {Global}

VARIABLES
  pub,     (* vapid.public.key of each user                                *)
  priv,    (* vapid.private.key of each user                               *)
  made,    (* the number of key pairs generated                            *)
  subs,    (* webpush.subscribe.*: the key each subscription was made with *)
  given,   (* the public keys users have been answered                     *)
  touched, (* history: the users whose properties a PUT /user has begun to *)
           (* clear, or a pair for whom could not be made or stored        *)
  th       (* the local variables of each thread                           *)

keypair == <<pub, priv, made>>
vars == <<keypair, subs, given, touched, th>>

(* pub, priv: publicKey and privateKey                                     *)
(* since: the subscriptions there were when the notification was asked for *)
(* todo: those there are when the loop over them begins                    *)
(* tried: those the loop has been through                                  *)
Locals ==
  [pc: {"idle", "readPublic", "readPrivate", "generate", "putPublic",
        "putPrivate", "readSigning", "readSigningPrivate", "loop", "answer",
        "clear"},
   user: User \cup {None}, pub: Key \cup {None}, priv: Key \cup {None},
   since: SUBSET Resource, todo: SUBSET Resource, tried: SUBSET Resource]
Entry(s, u, rs) == [pc |-> s, user |-> u, pub |-> None, priv |-> None,
                    since |-> rs, todo |-> {}, tried |-> {}]
Idle == Entry("idle", None, {})

TypeOK ==
  /\ pub \in [User -> Key \cup {None}]
  /\ priv \in [User -> Key \cup {None}]
  /\ made \in 0 .. MaxKey
  /\ subs \in [User -> [Resource -> Key \cup {None}]]
  /\ given \in [User -> SUBSET Key]
  /\ touched \in SUBSET User
  /\ th \in [Thread -> Locals]

Init ==
  /\ pub = [u \in User |-> None]
  /\ priv = [u \in User |-> None]
  /\ made = 0
  /\ subs = [u \in User |-> [r \in Resource |-> None]]
  /\ given = [u \in User |-> {}]
  /\ touched = {}
  /\ th = [t \in Thread |-> Idle]

At(t, s) == th[t].pc = s
Becomes(t, l) == th' = [th EXCEPT ![t] = l]
Goto(t, s) == Becomes(t, [th[t] EXCEPT !.pc = s])

\* The subscriptions u has in his properties.
Subscribed(u) == {r \in Resource : subs[u][r] # None}

\* GET /webpush/vapidkey of t is answered with public key k.
Given(t, k) ==
  /\ given' = [given EXCEPT ![th[t].user] = @ \cup {k}]
  /\ Becomes(t, Idle)

-----------------------------------------------------------------------------
(* Faults: what plausible mistakes would make of some of the actions below.*)
(* No specification uses them.                                             *)

\* Only the public key decides whether a pair is made.
ReadPrivateUnlessPublic(t) ==
  /\ At(t, "readPrivate")
  /\ \/ th[t].pub # None /\ Given(t, th[t].pub)
     \/ th[t].pub = None /\ Goto(t, "generate") /\ UNCHANGED given
  /\ UNCHANGED <<keypair, subs, touched>>

\* Every browser is given a key of its own.
ReadPrivateAndRenew(t) ==
  /\ At(t, "readPrivate")
  /\ Goto(t, "generate")
  /\ UNCHANGED <<keypair, subs, given, touched>>

\* The pair of the server, if it has one, goes before that of the user.
ReadSigningOfServer(t) ==
  /\ At(t, "readSigningPrivate")
  /\ Becomes(t, [th[t] EXCEPT !.pub = Global, !.priv = Global,
                              !.todo = Subscribed(th[t].user), !.pc = "loop"])
  /\ UNCHANGED <<keypair, subs, given, touched>>

-----------------------------------------------------------------------------
(* GET /webpush/vapidkey                                                   *)

FetchKey(t, u) ==
  /\ At(t, "idle")
  /\ Becomes(t, Entry("readPublic", u, {}))
  /\ UNCHANGED <<keypair, subs, given, touched>>

ReadPublic(t) ==
  /\ At(t, "readPublic")
  /\ Becomes(t, [th[t] EXCEPT !.pub = pub[th[t].user], !.pc = "readPrivate"])
  /\ UNCHANGED <<keypair, subs, given, touched>>

\* With both keys there, the public one is the answer.
ReadPrivate(t) ==
  /\ At(t, "readPrivate")
  /\ LET half == th[t].pub = None \/ priv[th[t].user] = None
     IN  \/ half /\ Goto(t, "generate") /\ UNCHANGED given
         \/ ~half /\ Given(t, th[t].pub)
  /\ UNCHANGED <<keypair, subs, touched>>

\* generateKeyPair and the encoding of its halves.
Generate(t) ==
  /\ At(t, "generate")
  /\ made < MaxKey
  /\ made' = made + 1
  /\ Becomes(t, [th[t] EXCEPT !.pub = made', !.priv = made',
                              !.pc = "putPublic"])
  /\ UNCHANGED <<pub, priv, subs, given, touched>>

\* It throws: the answer is the public key that was read, if there was one,
\* or else that of the server, or status 404.
GenerateFails(t) ==
  /\ At(t, "generate")
  /\ touched' = touched \cup {th[t].user}
  /\ \/ th[t].pub # None /\ Given(t, th[t].pub)
     \/ th[t].pub = None /\ Given(t, Global)
     \/ th[t].pub = None /\ Becomes(t, Idle) /\ UNCHANGED given
  /\ UNCHANGED <<keypair, subs>>

PutPublic(t) ==
  /\ At(t, "putPublic")
  /\ pub' = [pub EXCEPT ![th[t].user] = th[t].pub]
  /\ Goto(t, "putPrivate")
  /\ UNCHANGED <<priv, made, subs, given, touched>>

PutPrivate(t) ==
  /\ At(t, "putPrivate")
  /\ priv' = [priv EXCEPT ![th[t].user] = th[t].priv]
  /\ Given(t, th[t].pub)
  /\ UNCHANGED <<pub, made, subs, touched>>

\* One of the two writes throws: the new public key is the answer all the
\* same.
PutFails(t) ==
  /\ At(t, "putPublic") \/ At(t, "putPrivate")
  /\ touched' = touched \cup {th[t].user}
  /\ Given(t, th[t].pub)
  /\ UNCHANGED <<keypair, subs>>

-----------------------------------------------------------------------------
\* PUT /webpush/subscribe/{resource}: a browser of u has subscribed with a
\* key it was answered, and stores the subscription in place of the last one.
Subscribe(u, r) ==
  /\ \E k \in given[u] : subs' = [subs EXCEPT ![u][r] = k]
  /\ UNCHANGED <<keypair, given, touched, th>>

-----------------------------------------------------------------------------
(* PUT /user/{username}: addProperties removes what there is, one property *)
(* after the other, in the order of a hash map.                            *)

Clear(t, u) ==
  /\ At(t, "idle")
  /\ touched' = touched \cup {u}
  /\ Becomes(t, Entry("clear", u, {}))
  /\ UNCHANGED <<keypair, subs, given>>

ClearPublic(t) ==
  /\ At(t, "clear")
  /\ pub' = [pub EXCEPT ![th[t].user] = None]
  /\ UNCHANGED <<priv, made, subs, given, touched, th>>

ClearPrivate(t) ==
  /\ At(t, "clear")
  /\ priv' = [priv EXCEPT ![th[t].user] = None]
  /\ UNCHANGED <<pub, made, subs, given, touched, th>>

ClearSubscription(t, r) ==
  /\ At(t, "clear")
  /\ subs' = [subs EXCEPT ![th[t].user][r] = None]
  /\ UNCHANGED <<keypair, given, touched, th>>

\* The end of the iteration, which may not have seen what was put meanwhile,
\* or an exception.
ClearEnds(t) ==
  /\ At(t, "clear")
  /\ Becomes(t, Idle)
  /\ UNCHANGED <<keypair, subs, given, touched>>

-----------------------------------------------------------------------------
(* POST /webpush/notify/{target}, /webpush/message/{target} and            *)
(* /webpush/action: postWebPush to user u                                  *)

Notify(t, u) ==
  /\ At(t, "idle")
  /\ Becomes(t, Entry("readSigning", u, Subscribed(u)))
  /\ UNCHANGED <<keypair, subs, given, touched>>

ReadSigning(t) ==
  /\ At(t, "readSigning")
  /\ Becomes(t, [th[t] EXCEPT !.pub = pub[th[t].user],
                              !.pc = "readSigningPrivate"])
  /\ UNCHANGED <<keypair, subs, given, touched>>

\* A user without a pair of his own is sent to with that of the server, if
\* it has one.
ReadSigningPrivate(t) ==
  /\ At(t, "readSigningPrivate")
  /\ LET u == th[t].user
         half == th[t].pub = None \/ priv[u] = None
     IN  \/ Becomes(t, [th[t] EXCEPT
              !.pub = IF half THEN Global ELSE @,
              !.priv = IF half THEN Global ELSE priv[u],
              !.todo = Subscribed(u), !.pc = "loop"])
         \/ half /\ Goto(t, "answer")
  /\ UNCHANGED <<keypair, subs, given, touched>>

\* A response of the push service, whatever its status, ends the loop.
Send(t, r) ==
  /\ At(t, "loop")
  /\ r \in Subscribed(th[t].user) \ th[t].tried
  /\ Becomes(t, [th[t] EXCEPT !.tried = @ \cup {r}, !.pc = "answer"])
  /\ UNCHANGED <<keypair, subs, given, touched>>

\* An exception (no connection, no response, not a subscription) is logged,
\* and the loop goes on.
SendFails(t, r) ==
  /\ At(t, "loop")
  /\ r \in Subscribed(th[t].user) \ th[t].tried
  /\ Becomes(t, [th[t] EXCEPT !.tried = @ \cup {r}])
  /\ UNCHANGED <<keypair, subs, given, touched>>

\* The keys of the properties are a live view: the loop sees those there
\* were and still are, and perhaps one stored meanwhile.
LoopEnds(t) ==
  /\ At(t, "loop")
  /\ th[t].todo \cap Subscribed(th[t].user) \subseteq th[t].tried
  /\ Goto(t, "answer")
  /\ UNCHANGED <<keypair, subs, given, touched>>

Answer(t) ==
  /\ At(t, "answer")
  /\ Becomes(t, Idle)
  /\ UNCHANGED <<keypair, subs, given, touched>>

-----------------------------------------------------------------------------
\* The server restarts: running calls end without an answer.
Restart ==
  /\ th' = [t \in Thread |-> Idle]
  /\ UNCHANGED <<keypair, subs, given, touched>>

FetchStep(t) ==
  \/ ReadPublic(t) \/ ReadPrivate(t)
  \/ Generate(t) \/ GenerateFails(t)
  \/ PutPublic(t) \/ PutPrivate(t) \/ PutFails(t)

NotifyStep(t) ==
  \/ ReadSigning(t) \/ ReadSigningPrivate(t)
  \/ \E r \in Resource : Send(t, r) \/ SendFails(t, r)
  \/ LoopEnds(t) \/ Answer(t)

ClearStep(t) ==
  \/ ClearPublic(t) \/ ClearPrivate(t)
  \/ \E r \in Resource : ClearSubscription(t, r)
  \/ ClearEnds(t)

Fetching(t) ==
  th[t].pc \in {"readPublic", "readPrivate", "generate", "putPublic", "putPrivate"}

\* No browser of u is waiting for a key.
NoFetch(u) == \A t \in Thread : Fetching(t) => th[t].user # u

Step(t) ==
  \/ FetchStep(t) \/ NotifyStep(t) \/ ClearStep(t)
  \/ \E u \in User : Notify(t, u) \/ Clear(t, u)

Others ==
  \/ \E u \in User, r \in Resource : Subscribe(u, r)
  \/ Restart

Next == Others \/ \E t \in Thread : Step(t) \/ \E u \in User : FetchKey(t, u)

Spec == Init /\ [][Next]_vars

\* The browsers of one user ask for the key one at a time; they subscribe,
\* others notify him, and his properties are cleared meanwhile.
SerialNext ==
  \/ Others
  \/ \E t \in Thread : \/ Step(t)
                       \/ \E u \in User : NoFetch(u) /\ FetchKey(t, u)

SerialSpec == Init /\ [][SerialNext]_vars
-----------------------------------------------------------------------------
\* As long as nobody clears the properties of a user and no pair for him
\* fails to be made or stored, a public key that has been answered is, from
\* then on, one half of the pair his notifications are signed with; a restart
\* between the two writes of a pair does not change that
\* (fetchWebPushPublicKey).  For browsers that fetch one at a time.
GivenKeySigns ==
  \A u \in User \ touched : \A k \in given[u] : pub[u] = k /\ priv[u] = k

\* A fetch never replaces a complete pair, with which browsers may have
\* subscribed: whatever was read before a PUT /user, a failure or a restart
\* came between, only a PUT /user takes a half of it away
\* (fetchWebPushPublicKey).  For browsers that fetch one at a time.
PairKept ==
  [][\A u \in User : pub[u] = priv[u] /\ pub[u] # None =>
       \/ pub'[u] = pub[u] /\ priv'[u] = priv[u]
       \/ pub'[u] = None \/ priv'[u] = None]_vars

\* As long as nobody has cleared the properties of a user and no pair for him
\* failed, a notification is signed with the key of each subscription there
\* was when it was asked for, although the two halves of the pair are read
\* one after the other while they may be written (postWebPush).  For browsers
\* that fetch one at a time.
SignedForSubscribers ==
  \A t \in Thread : At(t, "loop") /\ th[t].user \notin touched =>
    \A r \in th[t].since :
      subs[th[t].user][r] = th[t].pub /\ th[t].pub = th[t].priv

\* "Send a notification to all subscriptions of another user"
\* (SparkWebAPI.java:1256): when postWebPush is about to answer, it has tried
\* each subscription the user had when it began and still has.
AllNotified ==
  \A t \in Thread : At(t, "answer") =>
    th[t].todo \cap Subscribed(th[t].user) \subseteq th[t].tried
=============================================================================
