-------------------------- MODULE PushClientProofs --------------------------
(***************************************************************************)
(* What holds of push in one browser for any number of users, overlapping  *)
(* chains, subscriptions and notifications.                                *)
(***************************************************************************)
EXTENDS PushClient, TLAPS

\* A chain at work has a user, and sends what was made with his key.
InHand ==
  \A c \in Chain :
    /\ chain[c].pc # "idle" => chain[c].user \in User
    /\ At(c, "put") => chain[c].sub \in Sub /\ chain[c].sub[1] = chain[c].user

\* While a chain is calm no other one is at work.
CalmAlone ==
  \A c \in Chain : chain[c].calm => \A o \in Chain \ {c} : Resting(o)

\* A calm chain sends the subscription that is live.
CalmSends ==
  \A c \in Chain : At(c, "put") /\ chain[c].calm => chain[c].sub = live

ChainInv == TypeOK /\ InHand /\ StoredSigns /\ CalmAlone /\ CalmSends /\ CalmReaches

-----------------------------------------------------------------------------
Pc == {"idle", "fetch", "look", "unsubscribe", "subscribe", "put", "done"}

\* What the updates of a chain do.
LEMMA SetPc ==
  ASSUME NEW l \in Locals, NEW s \in Pc
  PROVE  LET m == [l EXCEPT !.pc = s]
         IN  m \in Locals /\ m.pc = s /\ m.user = l.user /\ m.sub = l.sub /\ m.calm = l.calm
BY DEF Locals, Pc

LEMMA SetSub ==
  ASSUME NEW l \in Locals, NEW s \in Pc, NEW x \in Sub \cup {None}
  PROVE  LET m == [l EXCEPT !.sub = x, !.pc = s]
         IN  m \in Locals /\ m.pc = s /\ m.user = l.user /\ m.sub = x /\ m.calm = l.calm
BY DEF Locals, Pc

LEMMA SetDisturbed ==
  ASSUME NEW l \in Locals
  PROVE  LET m == [l EXCEPT !.calm = FALSE]
         IN  m \in Locals /\ m.pc = l.pc /\ m.user = l.user /\ m.sub = l.sub /\ m.calm = FALSE
BY DEF Locals

LEMMA IdleIs ==
  Idle \in Locals /\ Idle.pc = "idle" /\ Idle.calm = FALSE
BY DEF Idle, Locals

LEMMA NoneIsNot == None \notin User /\ None \notin Sub
BY PushClientAssumption DEF Sub

\* What each step does to the chains, with the chain it is a step of.
Moves(c, s) ==
  /\ chain' \in [Chain -> Locals]
  /\ chain'[c].pc = s
  /\ \A o \in Chain \ {c} : chain'[o] = chain[o]

Keeps(c) == chain'[c].user = chain[c].user /\ chain'[c].calm = chain[c].calm

LEMMA Step ==
  ASSUME TypeOK, InHand, NEW c \in Chain
  PROVE  /\ FetchKey(c) => Moves(c, "look") /\ Keeps(c)
         /\ Look(c) => /\ Keeps(c) /\ chain'[c].sub = live
                       /\ \/ live = None /\ Moves(c, "subscribe")
                          \/ live # None /\ Moves(c, "unsubscribe")
         /\ Unsubscribe(c) => Moves(c, "subscribe") /\ Keeps(c)
         /\ Subscribe(c) => /\ Moves(c, "put") /\ Keeps(c)
                            /\ chain'[c].sub = live'
                            /\ live' \in Sub /\ made' \in 0 .. MaxSub
                            /\ live'[1] = chain[c].user
         /\ Put(c) => Moves(c, "done") /\ Keeps(c)
         /\ Fail(c) => Moves(c, "idle") /\ chain'[c].calm = FALSE
<1> USE DEF TypeOK, At, Becomes, Goto, Moves, Keeps
<1>c. chain[c] \in Locals /\ live \in Sub \cup {None}
  OBVIOUS
<1>1. ASSUME NEW l \in Locals, chain' = [chain EXCEPT ![c] = l]
      PROVE  /\ chain' \in [Chain -> Locals]
             /\ chain'[c] = l
             /\ \A o \in Chain \ {c} : chain'[o] = chain[o]
  BY <1>1
<1>2. ASSUME NEW s \in Pc, Goto(c, s)
      PROVE  Moves(c, s) /\ Keeps(c)
  <2> DEFINE m == [chain[c] EXCEPT !.pc = s]
  <2>1. m \in Locals /\ m.pc = s /\ m.user = chain[c].user /\ m.calm = chain[c].calm
    BY <1>c, SetPc
  <2>2. chain' = [chain EXCEPT ![c] = m]
    BY <1>2
  <2> HIDE DEF m
  <2>3. QED
    BY <1>1, <2>1, <2>2
<1>3. ASSUME NEW s \in Pc, NEW x \in Sub \cup {None},
             Becomes(c, [chain[c] EXCEPT !.sub = x, !.pc = s])
      PROVE  Moves(c, s) /\ Keeps(c) /\ chain'[c].sub = x
  <2> DEFINE m == [chain[c] EXCEPT !.sub = x, !.pc = s]
  <2>1. m \in Locals /\ m.pc = s /\ m.user = chain[c].user /\ m.sub = x /\ m.calm = chain[c].calm
    BY <1>c, SetSub
  <2>2. chain' = [chain EXCEPT ![c] = m]
    BY <1>3
  <2> HIDE DEF m
  <2>3. QED
    BY <1>1, <2>1, <2>2
<1>4. ASSUME FetchKey(c) PROVE Moves(c, "look") /\ Keeps(c)
  BY <1>4, <1>2 DEF FetchKey, Pc
<1>5. ASSUME Look(c)
      PROVE  /\ Keeps(c) /\ chain'[c].sub = live
             /\ \/ live = None /\ Moves(c, "subscribe")
                \/ live # None /\ Moves(c, "unsubscribe")
  <2>1. CASE live = None
    <3>1. Becomes(c, [chain[c] EXCEPT !.sub = live, !.pc = "subscribe"])
      BY <1>5, <2>1 DEF Look
    <3>2. QED
      BY <3>1, <2>1, <1>3, <1>c DEF Pc
  <2>2. CASE live # None
    <3>1. Becomes(c, [chain[c] EXCEPT !.sub = live, !.pc = "unsubscribe"])
      BY <1>5, <2>2 DEF Look
    <3>2. QED
      BY <3>1, <2>2, <1>3, <1>c DEF Pc
  <2>3. QED
    BY <2>1, <2>2
<1>6. ASSUME Unsubscribe(c) PROVE Moves(c, "subscribe") /\ Keeps(c)
  BY <1>6, <1>3 DEF Unsubscribe, Pc
<1>7. ASSUME Subscribe(c)
      PROVE  /\ Moves(c, "put") /\ Keeps(c)
             /\ chain'[c].sub = live'
             /\ live' \in Sub /\ made' \in 0 .. MaxSub
             /\ live'[1] = chain[c].user
  <2>1. live' \in Sub /\ live'[1] = chain[c].user /\ made' \in 0 .. MaxSub
    <3>1. CASE live = None /\ made < MaxSub /\ made' = made + 1
               /\ live' = <<chain[c].user, made'>>
      <4>1. chain[c].user \in User
        BY <1>7 DEF Subscribe, InHand
      <4>2. QED
        BY <3>1, <4>1, PushClientAssumption DEF Sub
    <3>2. CASE live # None /\ live[1] = chain[c].user /\ UNCHANGED <<live, made>>
      BY <3>2, <1>c
    <3>3. QED
      BY <1>7, <3>1, <3>2 DEF Subscribe
  <2>2. Becomes(c, [chain[c] EXCEPT !.sub = live', !.pc = "put"])
    BY <1>7 DEF Subscribe
  <2>3. QED
    BY <2>1, <2>2, <1>3 DEF Pc
<1>8. ASSUME Put(c) PROVE Moves(c, "done") /\ Keeps(c)
  BY <1>8, <1>2 DEF Put, Pc
<1>9. ASSUME Fail(c) PROVE Moves(c, "idle") /\ chain'[c].calm = FALSE
  BY <1>9, <1>1, IdleIs DEF Fail
<1>10. QED
  BY <1>4, <1>5, <1>6, <1>7, <1>8, <1>9

\* A new chain, and one that is disturbed.
LEMMA Begin ==
  ASSUME TypeOK, NEW c \in Chain, NEW u \in User, Connected(c, u)
  PROVE  /\ chain' \in [Chain -> Locals]
         /\ chain'[c].pc = "fetch" /\ chain'[c].user = u
         /\ chain'[c].calm => \A o \in Chain \ {c} : Resting(o)
         /\ \A o \in Chain \ {c} :
              /\ chain'[o].pc = chain[o].pc /\ chain'[o].user = chain[o].user
              /\ chain'[o].sub = chain[o].sub /\ chain'[o].calm = FALSE
<1> DEFINE alone == \A o \in Chain \ {c} : Resting(o)
           new == [Idle EXCEPT !.pc = "fetch", !.user = u, !.calm = alone]
<1>1. alone \in BOOLEAN
  OBVIOUS
<1>2. new \in Locals /\ new.pc = "fetch" /\ new.user = u /\ new.calm = alone
  <2> HIDE DEF alone
  <2> QED
    BY <1>1 DEF Locals, Idle
<1>3. chain' = [d \in Chain |-> IF d = c THEN new ELSE Disturbed(d)]
  BY DEF Connected
<1>4. \A o \in Chain :
        /\ Disturbed(o) \in Locals /\ Disturbed(o).pc = chain[o].pc
        /\ Disturbed(o).user = chain[o].user /\ Disturbed(o).sub = chain[o].sub
        /\ Disturbed(o).calm = FALSE
  BY SetDisturbed DEF Disturbed, TypeOK
<1> HIDE DEF new, alone
<1>5. QED
  BY <1>2, <1>3, <1>4 DEF alone

-----------------------------------------------------------------------------
LEMMA InitChain == Init => ChainInv
<1> SUFFICES ASSUME Init PROVE ChainInv
  OBVIOUS
<1>1. TypeOK
  <2>1. made \in 0 .. MaxSub
    BY PushClientAssumption DEF Init
  <2>2. chain \in [Chain -> Locals] /\ note \in [Note -> Notification \cup {None}]
    BY IdleIs DEF Init
  <2>3. /\ live \in Sub \cup {None} /\ stored \in [User -> Sub \cup {None}]
        /\ denied \in BOOLEAN
    BY DEF Init
  <2>4. QED
    BY <2>1, <2>2, <2>3 DEF TypeOK
<1>2. \A c \in Chain : chain[c].pc = "idle" /\ chain[c].calm = FALSE
  BY IdleIs DEF Init
<1>3. StoredSigns
  BY DEF Init, StoredSigns
<1>4. QED
  BY <1>1, <1>2, <1>3
     DEF ChainInv, InHand, CalmAlone, CalmSends, CalmReaches, At

\* Steps that leave the chains and the subscriptions alone.
LEMMA OtherType ==
  ASSUME TypeOK, NEW n \in Note,
         \/ Click(n) \/ Reply(n) \/ Close(n)
         \/ \E u \in User : Notify(u, n)
  PROVE  TypeOK' /\ UNCHANGED <<chain, browser, stored>>
<1> USE DEF TypeOK, browser
<1>1. note[n] \in Notification \cup {None}
  OBVIOUS
<1>2. CASE Click(n)
  <2> DEFINE m == [note[n] EXCEPT !.clicked = TRUE]
  <2>1. m \in Notification
    BY <1>1, <1>2 DEF Click, Notification
  <2>2. note' = [note EXCEPT ![n] = m]
    BY <1>2 DEF Click
  <2> HIDE DEF m
  <2>3. QED
    BY <1>2, <2>1, <2>2 DEF Click
<1>3. CASE Reply(n)
  BY <1>3 DEF Reply
<1>4. CASE Close(n)
  BY <1>4 DEF Close
<1>5. ASSUME NEW u \in User, Notify(u, n)
      PROVE  TypeOK' /\ UNCHANGED <<chain, browser, stored>>
  <2> DEFINE m == [token |-> u, clicked |-> FALSE]
  <2>1. m \in Notification
    BY DEF Notification
  <2>2. note' = [note EXCEPT ![n] = m]
    BY <1>5 DEF Notify
  <2> HIDE DEF m
  <2>3. note' \in [Note -> Notification \cup {None}]
    BY <2>1, <2>2
  <2>4. QED
    BY <1>5, <2>2, <2>3 DEF Notify
<1>6. QED
  BY <1>2, <1>3, <1>4, <1>5

LEMMA ChainStays ==
  ChainInv /\ [Next]_vars => ChainInv'
<1> SUFFICES ASSUME ChainInv, [Next]_vars PROVE ChainInv'
  OBVIOUS
<1> USE DEF ChainInv
<1> USE NoneIsNot
<1>0. ASSUME UNCHANGED <<chain, browser, stored>>, TypeOK' PROVE ChainInv'
  BY <1>0 DEF InHand, StoredSigns, CalmAlone, CalmSends, CalmReaches, At, Resting, browser
<1>1. CASE UNCHANGED vars
  BY <1>1, <1>0 DEF vars, TypeOK, browser
<1>2. ASSUME NEW c \in Chain, NEW u \in User, Connected(c, u) PROVE ChainInv'
  <2>1. TypeOK'
    BY <1>2, Begin DEF TypeOK, Connected, browser
  <2>2. InHand'
    <3>1. ASSUME NEW d \in Chain
          PROVE  /\ chain'[d].pc # "idle" => chain'[d].user \in User
                 /\ chain'[d].pc = "put" =>
                      chain'[d].sub \in Sub /\ chain'[d].sub[1] = chain'[d].user
      <4>1. CASE d = c
        BY <4>1, <1>2, Begin
      <4>2. CASE d # c
        BY <4>2, <1>2, Begin DEF InHand, At
      <4>3. QED
        BY <4>1, <4>2
    <3>2. QED
      BY <3>1 DEF InHand, At
  <2>6. StoredSigns'
    BY <1>2 DEF StoredSigns, Connected
  <2>3. CalmAlone'
    BY <1>2, Begin DEF CalmAlone, Resting
  <2>4. CalmSends' /\ CalmReaches'
    BY <1>2, Begin DEF CalmSends, CalmReaches, At
  <2>5. QED
    BY <2>1, <2>2, <2>3, <2>4, <2>6
<1>3. ASSUME NEW c \in Chain, ChainStep(c) PROVE ChainInv'
  <2>a. chain[c].pc \notin {"idle", "done"} /\ chain[c].user \in User
    BY <1>3 DEF ChainStep, FetchKey, Look, Unsubscribe, Subscribe, Put, Fail,
                At, Resting, InHand
  \* Only this chain can be calm, if any is.
  <2>b. \A o \in Chain \ {c} : ~chain[o].calm
    BY <2>a DEF CalmAlone, Resting
  <2>c. ASSUME \E s : Moves(c, s), chain'[c].calm => chain[c].calm PROVE CalmAlone'
    BY <2>c, <2>b DEF Moves, CalmAlone, Resting
  <2>1. CASE FetchKey(c)
    <3>1. Moves(c, "look") /\ Keeps(c) /\ UNCHANGED <<browser, stored, note>>
      BY <2>1, Step DEF FetchKey
    <3>2. QED
      BY <3>1, <2>a, <2>b, <2>c DEF Moves, Keeps, TypeOK, InHand, StoredSigns,
         CalmSends, CalmReaches, At, browser
  <2>2. CASE Look(c)
    <3>1. Keeps(c) /\ (Moves(c, "subscribe") \/ Moves(c, "unsubscribe"))
          /\ UNCHANGED <<browser, stored, note>>
      BY <2>2, Step DEF Look
    <3>2. QED
      BY <3>1, <2>a, <2>b, <2>c DEF Moves, Keeps, TypeOK, InHand, StoredSigns,
         CalmSends, CalmReaches, At, browser
  <2>3. CASE Unsubscribe(c)
    <3>1. Keeps(c) /\ Moves(c, "subscribe") /\ UNCHANGED <<made, denied, stored, note>>
          /\ live' \in {live, None}
      BY <2>3, Step DEF Unsubscribe
    <3>2. QED
      BY <3>1, <2>a, <2>b, <2>c DEF Moves, Keeps, TypeOK, InHand, StoredSigns,
         CalmSends, CalmReaches, At, browser
  <2>4. CASE Subscribe(c)
    <3>1. /\ Keeps(c) /\ Moves(c, "put") /\ UNCHANGED <<denied, stored, note>>
          /\ live' \in Sub /\ made' \in 0 .. MaxSub
          /\ chain'[c].sub = live' /\ live'[1] = chain[c].user
      BY <2>4, Step DEF Subscribe
    <3>2. QED
      BY <3>1, <2>a, <2>b, <2>c DEF Moves, Keeps, TypeOK, InHand, StoredSigns,
         CalmSends, CalmReaches, At, browser
  <2>5. CASE Put(c)
    <3>1. /\ Keeps(c) /\ Moves(c, "done") /\ UNCHANGED <<browser, note>>
          /\ stored' = [stored EXCEPT ![chain[c].user] = chain[c].sub]
          /\ chain[c].sub \in Sub /\ chain[c].sub[1] = chain[c].user
          /\ chain[c].calm => chain[c].sub = live
      BY <2>5, Step DEF Put, InHand, CalmSends
    <3>2. TypeOK' /\ InHand' /\ CalmAlone'
      BY <3>1, <2>a, <2>c DEF Moves, Keeps, TypeOK, InHand, At, browser
    <3>3. StoredSigns'
      BY <3>1 DEF StoredSigns, TypeOK
    <3>4. CalmSends' /\ CalmReaches'
      BY <3>1, <2>a, <2>b DEF Moves, Keeps, CalmSends, CalmReaches, At, TypeOK, browser
    <3>5. QED
      BY <3>2, <3>3, <3>4
  <2>6. CASE Fail(c)
    <3>1. Moves(c, "idle") /\ chain'[c].calm = FALSE /\ UNCHANGED <<browser, stored, note>>
      BY <2>6, Step DEF Fail
    <3>2. QED
      BY <3>1, <2>a, <2>b, <2>c DEF Moves, TypeOK, InHand, StoredSigns,
         CalmSends, CalmReaches, At, browser
  <2>7. QED
    BY <1>3, <2>1, <2>2, <2>3, <2>4, <2>5, <2>6 DEF ChainStep
<1>4. CASE DropSubscription
  <2>1. chain' = [c \in Chain |-> Disturbed(c)] /\ live' = None
        /\ UNCHANGED <<made, stored, note>> /\ denied' \in BOOLEAN
    BY <1>4 DEF DropSubscription
  <2>2. \A c \in Chain :
          /\ chain'[c] \in Locals /\ chain'[c].pc = chain[c].pc
          /\ chain'[c].user = chain[c].user /\ chain'[c].sub = chain[c].sub
          /\ chain'[c].calm = FALSE
    BY <2>1, SetDisturbed DEF TypeOK, Disturbed
  <2>3. chain' \in [Chain -> Locals]
    BY <2>1, <2>2
  <2>4. QED
    BY <2>1, <2>2, <2>3 DEF TypeOK, InHand, StoredSigns, CalmAlone, CalmSends,
       CalmReaches, At
<1>5. CASE Permit
  BY <1>5 DEF Permit, TypeOK, InHand, StoredSigns, CalmAlone, CalmSends,
     CalmReaches, At, Resting
<1>6. ASSUME NEW n \in Note,
             \/ Click(n) \/ Reply(n) \/ Close(n)
             \/ \E u \in User : Notify(u, n)
      PROVE  ChainInv'
  BY <1>6, <1>0, OtherType
<1>7. QED
  BY <1>1, <1>2, <1>3, <1>4, <1>5, <1>6 DEF Next

LEMMA ChainInvariant == Spec => []ChainInv
<1>1. QED
  BY InitChain, ChainStays, PTL DEF Spec

-----------------------------------------------------------------------------
\* Every variable has its type, in every behaviour of the browser
\* (swagger-initializer.js, sparkweb-sw.js).
THEOREM TypeCorrect == Spec => []TypeOK
<1>1. ChainInv => TypeOK
  BY DEF ChainInv
<1>2. QED
  BY <1>1, ChainInvariant, PTL

\* What the server has stored of a user was made with his own key, for any
\* number of users and overlapping chains (registerSubscription).
THEOREM StoredSignsHolds == Spec => []StoredSigns
<1>1. ChainInv => StoredSigns
  BY DEF ChainInv
<1>2. QED
  BY <1>1, ChainInvariant, PTL

\* A chain that was by itself leaves its user reachable
\* (subscribeForPushNotifications to sendSubscriptionToServer).
THEOREM CalmReachesHolds == Spec => []CalmReaches
<1>1. ChainInv => CalmReaches
  BY DEF ChainInv
<1>2. QED
  BY <1>1, ChainInvariant, PTL

\* While a user who has subscribed by himself is the last to have connected, a
\* notification that the browser shows is for him: nobody else's subscription
\* is live, since it was made with his key (postWebPush, the push handler).
THEOREM ShownToConnectedHolds == Spec => ShownToConnected
<1> DEFINE ShownRightly ==
      \A n \in Note, c \in Chain :
        note[n] = None /\ note'[n] # None /\ At(c, "done") /\ chain[c].calm
          => note'[n].token = chain[c].user
<1>1. ASSUME ChainInv, [Next]_vars, NEW n \in Note, NEW c \in Chain,
             note[n] = None, note'[n] # None, At(c, "done"), chain[c].calm
      PROVE  note'[n].token = chain[c].user
  <2>1. chain[c].user \in User /\ stored[chain[c].user] = live /\ live # None
    BY <1>1 DEF ChainInv, InHand, CalmReaches, At
  <2>2. live[1] = chain[c].user
    BY <2>1, <1>1 DEF ChainInv, StoredSigns
  <2>3. PICK m \in Note, u \in User : Notify(u, m)
    BY <1>1 DEF Next, vars, ChainStep, Connected, FetchKey, Look, Unsubscribe, Subscribe,
       Put, Fail, DropSubscription, Permit, Click, Reply, Close, ChainInv, TypeOK
  <2>4. m = n /\ note'[n] = [token |-> u, clicked |-> FALSE]
    BY <1>1, <2>3 DEF Notify, ChainInv, TypeOK
  <2>5. stored[u] # None /\ stored[u] = live
    BY <2>3 DEF Notify
  <2>6. u = chain[c].user
    BY <1>1, <2>2, <2>5 DEF ChainInv, StoredSigns
  <2>7. QED
    BY <2>4, <2>6
<1>2. ChainInv /\ [Next]_vars => [ShownRightly]_vars
  BY <1>1
<1>3. QED
  BY <1>2, ChainInvariant, PTL DEF Spec, ShownToConnected
=============================================================================
