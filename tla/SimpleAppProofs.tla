-------------------------- MODULE SimpleAppProofs ---------------------------
(***************************************************************************)
(* What holds of the sample application for any number of users,           *)
(* passwords and overlapping clicks.                                       *)
(***************************************************************************)
EXTENDS SimpleApp, TLAPS

\* What an instance has in hand at each point of its login.
InHand ==
  \A i \in Instance :
    /\ inst[i].pc \in {"post", "store"} => inst[i].user \in User /\ inst[i].pass \in Password
    /\ At(i, "store") => <<inst[i].user, inst[i].pass>> \in accepted
    /\ ~At(i, "unused") => sparkWeb \in Instance

\* The instance of a calm click is the one the page knows, and no other is at work.
CalmLast ==
  \A i \in Instance : inst[i].calm =>
    sparkWeb = i /\ \A o \in Instance \ {i} : Resting(o)

\* A handler opens its source when the login is over.
SourceLate == \A i \in Instance : source[i] # None => At(i, "done")

IInv == /\ TypeOK /\ InHand /\ StoredAccepted
        /\ CalmLast /\ SourceLate /\ CalmListens

-----------------------------------------------------------------------------
Pc == {"unused", "get", "post", "store", "open", "done", "failed"}

LEMMA NoneIsNot ==
  /\ None \notin User /\ None \notin Password
  /\ None \notin Instance /\ None \notin Token
BY SimpleAssumption DEF Token

LEMMA UnusedIs ==
  /\ Unused \in Object /\ Unused.pc = "unused" /\ Unused.calm = FALSE
  /\ Unused.token = None
BY DEF Unused, Object

\* What the updates of an instance do.
LEMMA SetPc ==
  ASSUME NEW o \in Object, NEW s \in Pc
  PROVE  LET m == [o EXCEPT !.pc = s]
         IN  /\ m \in Object /\ m.pc = s /\ m.user = o.user /\ m.pass = o.pass
             /\ m.token = o.token /\ m.calm = o.calm
BY DEF Object, Pc

LEMMA SetCalm ==
  ASSUME NEW o \in Object
  PROVE  LET m == [o EXCEPT !.calm = FALSE]
         IN  /\ m \in Object /\ m.pc = o.pc /\ m.user = o.user /\ m.pass = o.pass
             /\ m.token = o.token /\ m.calm = FALSE
BY DEF Object

\* What a step does to the instance it is a step of.
Moves(i, s) ==
  /\ inst' \in [Instance -> Object]
  /\ inst'[i].pc = s /\ inst'[i].calm = inst[i].calm
  /\ \A o \in Instance \ {i} : inst'[o] = inst[o]

Keeps(i) ==
  /\ inst'[i].user = inst[i].user
  /\ inst'[i].pass = inst[i].pass

LEMMA Update ==
  ASSUME TypeOK, NEW i \in Instance, NEW m \in Object, Becomes(i, m)
  PROVE  /\ inst' \in [Instance -> Object] /\ inst'[i] = m
         /\ \A o \in Instance \ {i} : inst'[o] = inst[o]
BY DEF TypeOK, Becomes

LEMMA GotoMoves ==
  ASSUME TypeOK, NEW i \in Instance, NEW s \in Pc, Goto(i, s)
  PROVE  Moves(i, s) /\ Keeps(i) /\ inst'[i].token = inst[i].token
<1> DEFINE m == [inst[i] EXCEPT !.pc = s]
<1>1. /\ m \in Object /\ m.pc = s /\ m.user = inst[i].user /\ m.pass = inst[i].pass
      /\ m.token = inst[i].token /\ m.calm = inst[i].calm
  BY SetPc DEF TypeOK
<1>2. Becomes(i, m)
  BY DEF Goto
<1> HIDE DEF m
<1>3. QED
  BY <1>1, <1>2, Update DEF Moves, Keeps

LEMMA TypedMoves ==
  ASSUME TypeOK, NEW i \in Instance, NEW u \in User, NEW p \in Password, Typed(i, u, p)
  PROVE  Moves(i, "post") /\ inst'[i].user = u /\ inst'[i].pass = p
<1> DEFINE m == [inst[i] EXCEPT !.pc = "post", !.user = u, !.pass = p]
<1>1. /\ m \in Object /\ m.pc = "post" /\ m.user = u /\ m.pass = p
      /\ m.calm = inst[i].calm
  <2>1. inst[i] \in Object
    BY DEF TypeOK
  <2>2. QED
    BY <2>1 DEF Object, Pc
<1>2. Becomes(i, m)
  BY DEF Typed
<1> HIDE DEF m
<1>3. QED
  BY <1>1, <1>2, Update DEF Moves

LEMMA FoundMoves ==
  ASSUME TypeOK, NEW i \in Instance, NEW u \in User, NEW p \in Password,
         Becomes(i, [inst[i] EXCEPT !.pc = "post", !.user = u, !.pass = p, !.found = TRUE])
  PROVE  Moves(i, "post") /\ inst'[i].user = u /\ inst'[i].pass = p
<1> DEFINE m == [inst[i] EXCEPT !.pc = "post", !.user = u, !.pass = p, !.found = TRUE]
<1>1. /\ m \in Object /\ m.pc = "post" /\ m.user = u /\ m.pass = p
      /\ m.calm = inst[i].calm
  <2>1. inst[i] \in Object
    BY DEF TypeOK
  <2>2. QED
    BY <2>1 DEF Object, Pc
<1>2. Becomes(i, m)
  OBVIOUS
<1> HIDE DEF m
<1>3. QED
  BY <1>1, <1>2, Update DEF Moves

LEMMA TokenMoves ==
  ASSUME TypeOK, NEW i \in Instance, NEW k \in Token, NEW s \in Pc,
         Becomes(i, [inst[i] EXCEPT !.token = k, !.pc = s])
  PROVE  Moves(i, s) /\ Keeps(i)
<1> DEFINE m == [inst[i] EXCEPT !.token = k, !.pc = s]
<1>1. /\ m \in Object /\ m.pc = s /\ m.user = inst[i].user /\ m.pass = inst[i].pass
      /\ m.calm = inst[i].calm
  <2>1. inst[i] \in Object
    BY DEF TypeOK
  <2>2. QED
    BY <2>1 DEF Object, Pc
<1>2. Becomes(i, m)
  OBVIOUS
<1> HIDE DEF m
<1>3. QED
  BY <1>1, <1>2, Update DEF Moves, Keeps

\* A click disturbs what the other handlers do.
LEMMA ClickBegins ==
  ASSUME TypeOK, NEW i \in Instance, Click(i)
  PROVE  /\ inst' \in [Instance -> Object]
         /\ inst'[i].pc = "get"
         /\ inst'[i].calm => \A o \in Instance \ {i} : Resting(o)
         /\ \A o \in Instance \ {i} :
              /\ inst'[o].pc = inst[o].pc /\ inst'[o].user = inst[o].user
              /\ inst'[o].pass = inst[o].pass /\ inst'[o].calm = FALSE
<1> DEFINE alone == \A o \in Instance \ {i} : Resting(o)
           new == [Unused EXCEPT !.pc = "get", !.calm = alone]
           other(o) == [inst[o] EXCEPT !.calm = FALSE]
<1>1. alone \in BOOLEAN
  OBVIOUS
<1>2. new \in Object /\ new.pc = "get" /\ new.calm = alone
  <2> HIDE DEF alone
  <2> QED
    BY <1>1 DEF Object, Unused
<1>3. inst' = [j \in Instance |-> IF j = i THEN new ELSE other(j)]
  BY DEF Click
<1>4. \A o \in Instance :
        /\ other(o) \in Object /\ other(o).pc = inst[o].pc /\ other(o).user = inst[o].user
        /\ other(o).pass = inst[o].pass /\ other(o).calm = FALSE
  BY SetCalm DEF TypeOK
<1> HIDE DEF new, alone, other
<1>5. QED
  BY <1>2, <1>3, <1>4 DEF alone

-----------------------------------------------------------------------------
LEMMA InitIInv == Init => IInv
<1> SUFFICES ASSUME Init PROVE IInv
  OBVIOUS
<1>1. \A i \in Instance :
        inst[i] \in Object /\ inst[i].pc = "unused" /\ inst[i].calm = FALSE /\ source[i] = None
  BY UnusedIs DEF Init
<1>2. TypeOK
  BY <1>1 DEF Init, TypeOK
<1>3. QED
  BY <1>1, <1>2 DEF Init, IInv, InHand, StoredAccepted, CalmLast, SourceLate, CalmListens, At

LEMMA LeaveKeeps == IInv /\ Leave => IInv'
<1> SUFFICES ASSUME IInv, Leave PROVE IInv'
  OBVIOUS
<1>1. \A i \in Instance :
        /\ inst'[i] \in Object /\ inst'[i].pc = "unused"
        /\ inst'[i].calm = FALSE /\ source'[i] = None
  BY UnusedIs DEF Leave
<1>2. sparkWeb \in Instance /\ inst[sparkWeb].token \in Token \cup {None}
  BY DEF Leave, IInv, TypeOK, Object
<1>3. TypeOK'
  BY <1>1, <1>2 DEF Leave, TypeOK, IInv, server
<1>4. QED
  BY <1>1, <1>3 DEF Leave, IInv, InHand, StoredAccepted, CalmLast, SourceLate,
     CalmListens, At, server

LEMMA StepKeeps == IInv /\ [Next]_vars => IInv'
<1> SUFFICES ASSUME IInv, [Next]_vars PROVE IInv'
  OBVIOUS
<1> USE NoneIsNot
<1> USE DEF IInv, server, page
<1>1. CASE UNCHANGED vars
  BY <1>1 DEF vars, TypeOK, InHand, StoredAccepted, CalmLast, SourceLate,
     CalmListens, At, Resting
<1>2. ASSUME NEW i \in Instance, Click(i) PROVE IInv'
  <2>1. sparkWeb' = i /\ UNCHANGED <<source, saved, server, logouts>> /\ At(i, "unused")
    BY <1>2 DEF Click
  <2>2. TypeOK'
    BY <1>2, <2>1, ClickBegins DEF TypeOK
  <2>3. InHand' /\ StoredAccepted'
    <3>1. ASSUME NEW o \in Instance
          PROVE  /\ inst'[o].pc \in {"post", "store"} =>
                      inst'[o].user \in User /\ inst'[o].pass \in Password
                 /\ inst'[o].pc = "store" => <<inst'[o].user, inst'[o].pass>> \in accepted
      <4>1. CASE o = i
        BY <4>1, <1>2, ClickBegins
      <4>2. CASE o # i
        BY <4>2, <1>2, ClickBegins DEF InHand, At
      <4>3. QED
        BY <4>1, <4>2
    <3>2. QED
      BY <3>1, <2>1 DEF InHand, StoredAccepted, At
  <2>4. CalmLast'
    BY <1>2, <2>1, ClickBegins DEF CalmLast, Resting
  <2>5. SourceLate' /\ CalmListens'
    BY <1>2, <2>1, ClickBegins DEF SourceLate, CalmListens, At
  <2>6. QED
    BY <2>2, <2>3, <2>4, <2>5
\* A step of a login that opens no source.
<1>3. ASSUME NEW i \in Instance, NEW s \in Pc \ {"unused", "done"}, Moves(i, s),
             UNCHANGED <<sparkWeb, source>>, inst[i].pc \in {"get", "post", "store", "open"},
             TypeOK', StoredAccepted', accepted \subseteq accepted',
             s \in {"post", "store"} => inst'[i].user \in User /\ inst'[i].pass \in Password,
             s = "store" => <<inst'[i].user, inst'[i].pass>> \in accepted'
      PROVE  IInv'
  <2>1. InHand'
    BY <1>3 DEF InHand, Moves, At
  <2>2. CalmLast'
    BY <1>3 DEF CalmLast, Moves, Resting
  <2>3. SourceLate' /\ CalmListens'
    BY <1>3 DEF SourceLate, CalmListens, Moves, At
  <2>4. QED
    BY <1>3, <2>1, <2>2, <2>3
<1>4. ASSUME NEW i \in Instance, Credentials(i) PROVE IInv'
  <2>0. UNCHANGED <<sparkWeb, source, saved, server, logouts>> /\ inst[i].pc = "get"
    BY <1>4 DEF Credentials, At
  <2>1. ASSUME NEW s \in {"post", "open", "failed"}, Moves(i, s),
               s = "post" => inst'[i].user \in User /\ inst'[i].pass \in Password
        PROVE  IInv'
    <3>1. TypeOK' /\ StoredAccepted'
      BY <2>0, <2>1 DEF TypeOK, Moves, StoredAccepted
    <3>2. QED
      BY <2>0, <2>1, <3>1, <1>3 DEF Pc
  <2>2. ASSUME NEW u \in User, saved[u] # None,
               Becomes(i, [inst[i] EXCEPT !.pc = "post", !.user = u,
                                          !.pass = saved[u], !.found = TRUE])
        PROVE  IInv'
    <3>1. saved[u] \in Password
      BY <2>2 DEF TypeOK
    <3>2. Moves(i, "post") /\ inst'[i].user = u /\ inst'[i].pass = saved[u]
      BY <2>2, <3>1, FoundMoves
    <3>3. QED
      BY <3>1, <3>2, <2>1
  <2>3. ASSUME NEW u \in User, NEW p \in Password, Typed(i, u, p) PROVE IInv'
    BY <2>3, <2>1, TypedMoves
  <2>4. CASE Goto(i, "open") \/ Goto(i, "failed")
    BY <2>4, <2>1, GotoMoves DEF Pc
  <2>5. QED
    BY <1>4, <2>2, <2>3, <2>4 DEF Credentials
<1>5. ASSUME NEW i \in Instance, Post(i) PROVE IInv'
  <2> DEFINE u == inst[i].user
             p == inst[i].pass
  <2>0. /\ UNCHANGED <<sparkWeb, source, saved, password, logouts>> /\ inst[i].pc = "post"
        /\ u \in User /\ p \in Password
    BY <1>5 DEF Post, At, InHand
  <2>1. CASE Goto(i, "failed") /\ UNCHANGED <<accepted, issued>>
    <3>1. Moves(i, "failed")
      BY <2>1, GotoMoves DEF Pc
    <3>2. TypeOK' /\ StoredAccepted'
      BY <2>0, <2>1, <3>1 DEF TypeOK, Moves, StoredAccepted
    <3>3. QED
      BY <2>0, <2>1, <3>1, <3>2, <1>3 DEF Pc
  <2>2. ASSUME accepted' = accepted \cup {<<u, p>>},
               NEW k \in Token, issued' = issued \cup {k},
               \/ Becomes(i, [inst[i] EXCEPT !.token = k,
                                !.pc = IF inst[i].found THEN "open" ELSE "store"])
               \/ Goto(i, "failed")
        PROVE  IInv'
    <3>1. PICK s \in {"open", "store", "failed"} : Moves(i, s) /\ Keeps(i)
      <4>1. CASE Goto(i, "failed")
        BY <4>1, GotoMoves DEF Pc
      <4>2. CASE Becomes(i, [inst[i] EXCEPT !.token = k, !.pc = "open"])
        BY <4>2, TokenMoves DEF Pc
      <4>3. CASE Becomes(i, [inst[i] EXCEPT !.token = k, !.pc = "store"])
        BY <4>3, TokenMoves DEF Pc
      <4>4. QED
        BY <2>2, <4>1, <4>2, <4>3
    <3>2. <<u, p>> \in User \X Password
      BY <2>0
    <3>3. TypeOK' /\ StoredAccepted'
      <4> HIDE DEF u, p
      <4> QED
        BY <2>0, <2>2, <3>1, <3>2 DEF TypeOK, Moves, StoredAccepted
    <3>4. accepted \subseteq accepted' /\ <<inst'[i].user, inst'[i].pass>> \in accepted'
      BY <2>2, <3>1 DEF Keeps
    <3>5. inst'[i].user \in User /\ inst'[i].pass \in Password
      BY <2>0, <3>1 DEF Keeps
    <3>6. QED
      BY <2>0, <3>1, <3>3, <3>4, <3>5, <1>3 DEF Pc
  <2>3. QED
    BY <1>5, <2>1, <2>2 DEF Post
<1>6. ASSUME NEW i \in Instance, Store(i) PROVE IInv'
  <2>0. /\ UNCHANGED <<sparkWeb, source, server, logouts>> /\ inst[i].pc = "store"
        /\ inst[i].user \in User /\ inst[i].pass \in Password
        /\ <<inst[i].user, inst[i].pass>> \in accepted
    BY <1>6 DEF Store, At, InHand
  <2>1. saved' \in {saved, [saved EXCEPT ![inst[i].user] = inst[i].pass]}
    BY <1>6 DEF Store
  <2>2. PICK s \in {"open", "failed"} : Moves(i, s)
    BY <1>6, GotoMoves DEF Store, Pc
  <2>3. TypeOK' /\ StoredAccepted'
    BY <2>0, <2>1, <2>2 DEF TypeOK, Moves, StoredAccepted
  <2>4. QED
    BY <2>0, <2>2, <2>3, <1>3 DEF Pc
<1>7. ASSUME NEW i \in Instance, Open(i) PROVE IInv'
  <2>0. /\ UNCHANGED <<sparkWeb, saved, server, logouts>> /\ inst[i].pc = "open"
        /\ source' = [source EXCEPT ![i] = inst[sparkWeb].token]
        /\ sparkWeb \in Instance
    BY <1>7 DEF Open, At, InHand
  <2>1. Moves(i, "done") /\ inst'[i].token = inst[i].token
    BY <1>7, GotoMoves DEF Open, Pc
  <2>2. inst[sparkWeb].token \in Token \cup {None}
    BY <2>0 DEF TypeOK, Object
  <2>3. TypeOK'
    BY <2>0, <2>1, <2>2 DEF TypeOK, Moves
  <2>4. InHand' /\ StoredAccepted'
    BY <2>0, <2>1 DEF InHand, Moves, StoredAccepted, At
  <2>5. CalmLast'
    BY <2>0, <2>1 DEF CalmLast, Moves, Resting
  <2>6. SourceLate' /\ CalmListens'
    BY <2>0, <2>1 DEF SourceLate, CalmListens, CalmLast, Moves, At, TypeOK
  <2>7. QED
    BY <2>3, <2>4, <2>5, <2>6
<1>8. ASSUME NEW u \in User, NEW p \in Password, ChangePassword(u, p) PROVE IInv'
  BY <1>8 DEF ChangePassword, TypeOK, InHand, StoredAccepted, CalmLast, SourceLate,
     CalmListens, At, Resting
<1>9. QED
  BY <1>1, <1>2, <1>4, <1>5, <1>6, <1>7, <1>8, LeaveKeeps DEF Next, SourceFails

LEMMA Invariant == Spec => []IInv
<1>1. QED
  BY InitIInv, StepKeeps, PTL DEF Spec

-----------------------------------------------------------------------------
\* Every variable has its type (docs/simple/index.js).
THEOREM TypeCorrect == Spec => []TypeOK
<1>1. IInv => TypeOK
  BY DEF IInv
<1>2. QED
  BY <1>1, Invariant, PTL

\* Only passwords the server has accepted are stored (login).
THEOREM StoredAcceptedHolds == Spec => []StoredAccepted
<1>1. IInv => StoredAccepted
  BY DEF IInv
<1>2. QED
  BY <1>1, Invariant, PTL

\* A login that no other click disturbs listens with its own token (the click
\* handler of index.js).
THEOREM CalmListensHolds == Spec => []CalmListens
<1>1. IInv => CalmListens
  BY DEF IInv
<1>2. QED
  BY <1>1, Invariant, PTL

\* It is logged out with the token it listens with (the beforeunload handler).
THEOREM CalmLogsOutHolds == Spec => CalmLogsOut
<1>1. ASSUME IInv, [Next]_vars, NEW i \in Instance,
             inst[i].calm, source[i] # None, sparkWeb' = None
      PROVE  source[i] \in logouts'
  <2>1. sparkWeb = i /\ source[i] = inst[sparkWeb].token
    BY <1>1 DEF IInv, CalmLast, SourceLate, CalmListens
  <2>2. Leave
    BY <1>1, <2>1, NoneIsNot DEF Next, SourceFails, Click, Credentials, Post, Store, Open,
       ChangePassword, vars, page
  <2>3. QED
    BY <1>1, <2>1, <2>2 DEF Leave
<1>2. IInv /\ [Next]_vars =>
        [\A i \in Instance :
           inst[i].calm /\ source[i] # None /\ sparkWeb' = None => source[i] \in logouts']_vars
  BY <1>1
<1>3. QED
  BY <1>2, Invariant, PTL DEF Spec, CalmLogsOut
=============================================================================
