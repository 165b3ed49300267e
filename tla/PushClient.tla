----------------------------- MODULE PushClient -----------------------------
(***************************************************************************)
(* Web push in one browser: the chain of promises with which a page of the *)
(* plugin gives its server a push subscription (swagger-initializer.js),   *)
(* and the service worker (sparkweb-sw.js), which shows notifications and  *)
(* sends replies.  A chain begins at every onConnect of an event source,   *)
(* so that those of several tabs, users and reconnections overlap; the     *)
(* browser has one subscription for all of them.  The server keeps one per *)
(* user, because every page of this kind stores it under the same resource.*)
(* WebPush has the inside of the server; that somebody clears his          *)
(* properties, and so changes his key, is in that module only.             *)
(***************************************************************************)
EXTENDS Naturals

CONSTANTS User,   (* the user names, each with a VAPID key of its own      *)
          Chain,  (* the chains of promises                                *)
          Note,   (* the notifications shown at a time                     *)
          None,   (* null                                                  *)
          MaxSub  (* bound: how many subscriptions the browser makes       *)

ASSUME PushClientAssumption ==
       /\ None \notin User \cup (User \X Nat)
       /\ MaxSub \in Nat

\* A subscription is made with the key of a user.
Sub == User \X (1 .. MaxSub)

VARIABLES
  chain,   (* the state of each chain                                      *)
  live,    (* the subscription the browser has, None without one           *)
  made,    (* how many subscriptions it has made                           *)
  denied,  (* Notification.permission === 'denied'                         *)
  stored,  (* webpush.subscribe.sparkweb-swagger of each user              *)
  note     (* the notifications shown: their data, and whether clicked     *)

browser == <<live, made, denied>>
vars    == <<chain, browser, stored, note>>

(* user: whose token the page has, and whose key it fetches                *)
(* sub:  the subscription in hand                                          *)
(* calm: since the chain began no other one has, nor was any at work, and  *)
(*       the browser has kept its subscription                             *)
Locals ==
  [pc: {"idle", "fetch", "look", "unsubscribe", "subscribe", "put", "done"},
   user: User \cup {None}, sub: Sub \cup {None}, calm: BOOLEAN]
Idle == [pc |-> "idle", user |-> None, sub |-> None, calm |-> FALSE]

(* token: the user to whom the token in a notification belongs.  The data, *)
(* to whom a reply goes, is whatever the sender has asked for.             *)
Notification == [token: User, clicked: BOOLEAN]

TypeOK ==
  /\ chain \in [Chain -> Locals]
  /\ live \in Sub \cup {None}
  /\ made \in 0 .. MaxSub
  /\ denied \in BOOLEAN
  /\ stored \in [User -> Sub \cup {None}]
  /\ note \in [Note -> Notification \cup {None}]

Init ==
  /\ chain = [c \in Chain |-> Idle]
  /\ live = None
  /\ made = 0
  /\ denied = FALSE
  /\ stored = [u \in User |-> None]
  /\ note = [n \in Note |-> None]

At(c, s) == chain[c].pc = s
Becomes(c, l) == chain' = [chain EXCEPT ![c] = l]
Goto(c, s) == Becomes(c, [chain[c] EXCEPT !.pc = s])
Resting(c) == chain[c].pc \in {"idle", "done"}
Disturbed(c) == [chain[c] EXCEPT !.calm = FALSE]

-----------------------------------------------------------------------------
(* The chain of promises                                                   *)

\* onConnect: the page registers the service worker, then initialiseState.
Connected(c, u) ==
  /\ Resting(c)
  /\ chain' = [d \in Chain |->
       IF d = c THEN [Idle EXCEPT !.pc = "fetch", !.user = u,
                                  !.calm = \A o \in Chain \ {c} : Resting(o)]
       ELSE Disturbed(d)]
  /\ UNCHANGED <<browser, stored, note>>

\* setupPushNotifications: the public key of the user.
FetchKey(c) ==
  /\ At(c, "fetch") /\ ~denied
  /\ Goto(c, "look")
  /\ UNCHANGED <<browser, stored, note>>

\* Fault: a subscription that is there is taken as it is.
LookReusing(c) ==
  /\ At(c, "look")
  /\ Becomes(c, [chain[c] EXCEPT !.sub = live,
                   !.pc = IF live = None THEN "subscribe" ELSE "put"])
  /\ UNCHANGED <<browser, stored, note>>

\* subscribeForPushNotifications: getSubscription
Look(c) ==
  /\ At(c, "look")
  /\ Becomes(c, [chain[c] EXCEPT !.sub = live,
                   !.pc = IF live = None THEN "subscribe" ELSE "unsubscribe"])
  /\ UNCHANGED <<browser, stored, note>>

\* Fault: the subscription that was found is sent, not a new one.
UnsubscribeOnly(c) ==
  /\ At(c, "unsubscribe")
  /\ Goto(c, "put")
  /\ live' = IF live = chain[c].sub THEN None ELSE live
  /\ UNCHANGED <<made, denied, stored, note>>

\* unsubscribe of the subscription found: whether it was successful, had no
\* effect as it was gone already, or failed, the chain goes on.
Unsubscribe(c) ==
  /\ At(c, "unsubscribe")
  /\ Becomes(c, [chain[c] EXCEPT !.sub = None, !.pc = "subscribe"])
  /\ live' \in {live, IF live = chain[c].sub THEN None ELSE live}
  /\ UNCHANGED <<made, denied, stored, note>>

\* registerSubscription: a new subscription, or the one there is if it was made
\* with the same key; with another key subscribe is rejected.
Subscribe(c) ==
  /\ At(c, "subscribe") /\ ~denied
  /\ \/ /\ live = None /\ made < MaxSub
        /\ made' = made + 1
        /\ live' = <<chain[c].user, made'>>
     \/ /\ live # None /\ live[1] = chain[c].user
        /\ UNCHANGED <<live, made>>
  /\ Becomes(c, [chain[c] EXCEPT !.sub = live', !.pc = "put"])
  /\ UNCHANGED <<denied, stored, note>>

\* sendSubscriptionToServer, when the PUT arrives.
Put(c) ==
  /\ At(c, "put")
  /\ stored' = [stored EXCEPT ![chain[c].user] = chain[c].sub]
  /\ Goto(c, "done")
  /\ UNCHANGED <<browser, note>>

\* Some step is rejected, a request is lost, or the page is left.
Fail(c) ==
  /\ ~Resting(c)
  /\ Becomes(c, Idle)
  /\ UNCHANGED <<browser, stored, note>>

-----------------------------------------------------------------------------
(* The browser                                                             *)

\* The browser drops the subscription, or its user denies notifications; the
\* pushsubscriptionchange handler does nothing.
DropSubscription ==
  /\ live # None
  /\ live' = None
  /\ chain' = [c \in Chain |-> Disturbed(c)]
  /\ denied' \in BOOLEAN
  /\ UNCHANGED <<made, stored, note>>

Permit == denied /\ denied' = FALSE /\ UNCHANGED <<chain, live, made, stored, note>>

-----------------------------------------------------------------------------
(* Notifications                                                           *)

\* Somebody has a notification or a message for u, or replies to him:
\* postWebPush adds a token of u's, the push service delivers to the
\* subscription, if it is live, the service worker shows it.
Notify(u, n) ==
  /\ note[n] = None
  /\ stored[u] # None /\ stored[u] = live
  /\ note' = [note EXCEPT ![n] = [token |-> u, clicked |-> FALSE]]
  /\ UNCHANGED <<chain, browser, stored>>

\* notificationclick: the reply is on its way, and the notification still there.
Click(n) ==
  /\ note[n] # None
  /\ note' = [note EXCEPT ![n].clicked = TRUE]
  /\ UNCHANGED <<chain, browser, stored>>

\* handleNotificationAction, in the name of whose token it is, whoever has
\* signed in since; whatever the answer, the notification is closed.
Reply(n) ==
  /\ note[n] # None /\ note[n].clicked
  /\ note' = [note EXCEPT ![n] = None]
  /\ UNCHANGED <<chain, browser, stored>>

\* notificationclose, or a reply that fails on its way: await throws, and the
\* notification stays until its user closes it.
Close(n) ==
  /\ note[n] # None
  /\ note' = [note EXCEPT ![n] = None]
  /\ UNCHANGED <<chain, browser, stored>>

-----------------------------------------------------------------------------
ChainStep(c) ==
  \/ FetchKey(c) \/ Look(c) \/ Unsubscribe(c) \/ Subscribe(c) \/ Put(c) \/ Fail(c)

Next ==
  \/ \E c \in Chain : ChainStep(c) \/ \E u \in User : Connected(c, u)
  \/ DropSubscription \/ Permit
  \/ \E n \in Note : \/ Click(n) \/ Reply(n) \/ Close(n)
                     \/ \E u \in User : Notify(u, n)

Spec == Init /\ [][Next]_vars
-----------------------------------------------------------------------------
\* The subscription the server has of a user was made with his own key, however
\* the chains of several users of the browser mix: the push service takes what
\* the server signs for him, and nobody gets what is for somebody else.
StoredSigns ==
  \A u \in User : stored[u] # None => stored[u][1] = u

\* When a chain was by itself and has ended well, its user can be reached: the
\* server has the subscription that is live, whatever earlier chains, of him or
\* others, have left in the browser or at the server.
CalmReaches ==
  \A c \in Chain :
    At(c, "done") /\ chain[c].calm => live # None /\ stored[chain[c].user] = live

\* When a user has subscribed by himself, every notification that the browser
\* shows from then on is for him, until somebody connects again: of those who
\* used the browser before, who may still be subscribed at the server, none.
ShownToConnected ==
  [][\A n \in Note, c \in Chain :
       note[n] = None /\ note'[n] # None /\ At(c, "done") /\ chain[c].calm
         => note'[n].token = chain[c].user]_vars
=============================================================================
