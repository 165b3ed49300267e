--------------------------- MODULE WebAuthnProofs ---------------------------
(***************************************************************************)
(* What holds of registration and authentication with WebAuthn for any     *)
(* number of users, threads and ceremonies, as long as the calls of one    *)
(* user come one at a time (SerialSpec).                                   *)
(***************************************************************************)
EXTENDS WebAuthn, TLAPS

\* A call at work is the only one for its user.
Alone ==
  \A t, o \in Thread : t # o /\ th[t].user = th[o].user => th[t].user = None

\* A ceremony that has not been issued is nobody's.
Fresh ==
  \A c \in Ceremony : c > issued => who[c] = None /\ kind[c] = "none"

\* The pending ceremony of a user is the newest of his.
Newest ==
  \A u \in User : requests[u] # None =>
    who[requests[u]] = u /\ \A c \in Ceremony : who[c] = u => c <= requests[u]

\* A credential is of a registration of its user.
KeysOwn ==
  \A u \in User : \A k \in keys[u] : who[k] = u /\ kind[k] = "registration"

\* A user handle is that of the newest registration of its user.
HandleOwn ==
  \A u \in User : userid[u] # None =>
    /\ userid[u] \in Registrations(u)
    /\ \A c \in Registrations(u) : c <= userid[u]

Registering == {"getCreation", "verifyCreation", "addKey", "addId", "addCount"}
Asserting == {"getAssertion", "verifyAssertion", "storeCount"}

\* An answer that has been accepted is to the pending request, and signed
\* with the stored credential.
SignedIn(l) ==
  l.pc = "storeCount" \/ (l.pc = "token" /\ kind[l.cer] = "assertion") =>
    l.cer = requests[l.user] /\ l.key \in keys[l.user]

\* What a call knows at each point, its locals being l.
LocalOK(l) ==
  /\ l.user = None <=> l.pc = "idle"
  /\ l.pc \in {"removeKeys", "putCreation"} => userid[l.user] = None
  /\ l.pc = "putCreation" => keys[l.user] = {}
  /\ l.pc \in Registering =>
       l.cer \in Ceremony /\ who[l.cer] = l.user /\ kind[l.cer] = "registration"
  /\ l.pc \in Asserting \cup {"token"} =>
       l.cer \in Ceremony /\ who[l.cer] = l.user
  /\ l.pc \in Asserting => kind[l.cer] = "assertion"
  /\ l.pc \in {"verifyCreation", "addKey", "addId", "addCount", "verifyAssertion"} =>
       l.req # None /\ l.req = requests[l.user]
  /\ l.pc \in {"addKey", "addId", "addCount"} => l.cer = l.req
  /\ SignedIn(l)

LocalsOK == \A t \in Thread : LocalOK(th[t])

IInv == /\ TypeOK /\ Alone /\ Fresh /\ Newest
        /\ KeysOwn /\ HandleOwn /\ NewestOnly /\ LocalsOK

-----------------------------------------------------------------------------
Pc == {"idle", "removeId", "removeKeys", "putCreation",
       "getCreation", "verifyCreation", "addKey", "addId", "addCount",
       "buildAssertion", "putAssertion",
       "getAssertion", "verifyAssertion", "storeCount", "token"}

LEMMA NoneIsNot == None \notin User /\ None \notin Ceremony
BY WebAuthnAssumption DEF Ceremony

LEMMA IdleIs == Idle \in Locals /\ Idle.pc = "idle" /\ Idle.user = None
BY DEF Idle, Entry, Locals

LEMMA EntryIs ==
  ASSUME NEW s \in Pc, NEW u \in User,
         NEW c \in Ceremony \cup {None}, NEW k \in Ceremony \cup {None}
  PROVE  LET m == Entry(s, u, c, k)
         IN  m \in Locals /\ m.pc = s /\ m.user = u /\ m.cer = c /\ m.key = k
BY DEF Entry, Locals, Pc

LEMMA SetPc ==
  ASSUME NEW l \in Locals, NEW s \in Pc
  PROVE  LET m == [l EXCEPT !.pc = s]
         IN  m \in Locals /\ m.pc = s /\ m.user = l.user /\ m.cer = l.cer
              /\ m.req = l.req /\ m.key = l.key
BY DEF Locals, Pc

LEMMA IdleOK == LocalOK(Idle)
BY IdleIs DEF LocalOK, SignedIn, Registering, Asserting

\* A call that only moves on, or is answered, or begins for a quiet user.
LEMMA MoveKeeps ==
  ASSUME IInv, NEW t \in Thread, NEW l \in Locals, Becomes(t, l), LocalOK(l),
         l.user = None \/ l.user = th[t].user \/ Quiet(l.user),
         exists' \in SUBSET User, UNCHANGED <<requests, ceremonies, properties>>
  PROVE  IInv'
<1>1. th' \in [Thread -> Locals] /\ th'[t] = l /\ \A o \in Thread \ {t} : th'[o] = th[o]
  BY DEF IInv, TypeOK, Becomes
<1>2. Alone'
  BY <1>1 DEF Alone, IInv, Quiet
<1>3. LocalsOK'
  <2>1. ASSUME NEW o \in Thread PROVE LocalOK(th'[o])
    BY <1>1 DEF IInv, LocalsOK
  <2>2. ASSUME NEW o \in Thread PROVE LocalOK(th[o])'
    BY <2>1 DEF LocalOK, SignedIn, ceremonies, properties
  <2>3. QED
    BY <2>2 DEF LocalsOK
<1>4. QED
  BY <1>1, <1>2, <1>3 DEF IInv, TypeOK, Fresh, Newest, KeysOwn, HandleOwn, NewestOnly,
     Registrations, ceremonies, properties

\* A step for u does not disturb the calls for others.
LEMMA OthersKeep ==
  ASSUME IInv, NEW t \in Thread, NEW u \in User, th[t].user = u,
         \A o \in Thread \ {t} : th'[o] = th[o],
         \A v \in User \ {u} : /\ keys'[v] = keys[v] /\ userid'[v] = userid[v]
                               /\ requests'[v] = requests[v],
         \A c \in Ceremony : who[c] # None => who'[c] = who[c] /\ kind'[c] = kind[c],
         counted \subseteq counted',
         NEW o \in Thread \ {t}
  PROVE  LocalOK(th[o])'
<1>1. LocalOK(th[o]) /\ th'[o] = th[o] /\ th[o].user # u /\ th[o] \in Locals
  BY NoneIsNot DEF IInv, LocalsOK, TypeOK, Alone
<1>2. CASE th[o].pc = "idle"
  BY <1>1, <1>2 DEF LocalOK, SignedIn, Registering, Asserting
<1>3. CASE th[o].pc # "idle"
  <2>1. th[o].user \in User \ {u}
    BY <1>1, <1>3 DEF LocalOK, SignedIn, Locals
  <2>2. th[o].pc \in Registering \cup Asserting \cup {"token"} =>
          /\ th[o].cer \in Ceremony
          /\ who'[th[o].cer] = who[th[o].cer] /\ kind'[th[o].cer] = kind[th[o].cer]
    BY <1>1, <2>1, NoneIsNot DEF LocalOK
  <2>3. /\ keys'[th[o].user] = keys[th[o].user] /\ userid'[th[o].user] = userid[th[o].user]
        /\ requests'[th[o].user] = requests[th[o].user]
    BY <2>1
  <2>4. SignedIn(th[o])'
    BY <1>1, <2>2, <2>3 DEF LocalOK, SignedIn, Asserting
  <2>5. QED
    BY <1>1, <2>1, <2>2, <2>3, <2>4 DEF LocalOK, Registering, Asserting
<1>4. QED
  BY <1>2, <1>3

LEMMA ThreadsKeep ==
  ASSUME IInv, NEW t \in Thread, NEW u \in User, th[t].user = u,
         NEW l \in Locals, Becomes(t, l), l.user \in {u, None}, LocalOK(th[t])',
         \A v \in User \ {u} : /\ keys'[v] = keys[v] /\ userid'[v] = userid[v]
                               /\ requests'[v] = requests[v],
         \A c \in Ceremony : who[c] # None => who'[c] = who[c] /\ kind'[c] = kind[c],
         counted \subseteq counted'
  PROVE  th' \in [Thread -> Locals] /\ Alone' /\ LocalsOK'
<1>1. th' \in [Thread -> Locals] /\ th'[t] = l /\ \A o \in Thread \ {t} : th'[o] = th[o]
  BY DEF IInv, TypeOK, Becomes
<1>2. Alone'
  BY <1>1 DEF Alone, IInv
<1>3. ASSUME NEW o \in Thread \ {t} PROVE LocalOK(th[o])'
  BY <1>1, OthersKeep
<1>4. LocalsOK'
  BY <1>3 DEF LocalsOK
<1>5. QED
  BY <1>1, <1>2, <1>4

-----------------------------------------------------------------------------
LEMMA InitIInv == Init => IInv
<1> SUFFICES ASSUME Init PROVE IInv
  OBVIOUS
<1>1. TypeOK
  BY IdleIs, WebAuthnAssumption DEF Init, TypeOK, Ceremony
<1>2. Alone /\ Fresh /\ Newest /\ KeysOwn /\ HandleOwn /\ NewestOnly
  BY IdleIs DEF Init, Alone, Fresh, Newest, KeysOwn, HandleOwn, NewestOnly
<1>3. LocalsOK
  BY IdleOK DEF Init, LocalsOK
<1>4. QED
  BY <1>1, <1>2, <1>3 DEF IInv

LEMMA ReturnKeeps ==
  ASSUME IInv, NEW t \in Thread, Return(t),
         UNCHANGED <<exists, requests, ceremonies, properties>>
  PROVE  IInv'
<1>1. exists' \in SUBSET User
  BY DEF IInv, TypeOK
<1>2. QED
  BY <1>1, IdleIs, IdleOK, MoveKeeps DEF Return

\* A call begins.
LEMMA RequestKeeps ==
  ASSUME IInv, NEW t \in Thread, NEW u \in User, Quiet(u), Request(t, u)
  PROVE  IInv'
<1>1. CASE RegisterStart(t, u)
  <2> DEFINE l == Entry("removeId", u, None, None)
  <2>1. l \in Locals /\ l.pc = "removeId" /\ l.user = u
    BY EntryIs DEF Pc
  <2>2. Becomes(t, l) /\ exists' \in SUBSET User /\ UNCHANGED <<requests, ceremonies, properties>>
    BY <1>1 DEF RegisterStart, IInv, TypeOK
  <2> HIDE DEF l
  <2>3. LocalOK(l)
    BY <2>1, NoneIsNot DEF LocalOK, SignedIn, Registering, Asserting
  <2>4. QED
    BY <2>1, <2>2, <2>3, MoveKeeps
<1>2. CASE AuthenticateStart(t, u)
  <2> DEFINE l == Entry("buildAssertion", u, None, None)
  <2>1. l \in Locals /\ l.pc = "buildAssertion" /\ l.user = u
    BY EntryIs DEF Pc
  <2>2. Becomes(t, l) /\ exists' \in SUBSET User /\ UNCHANGED <<requests, ceremonies, properties>>
    BY <1>2 DEF AuthenticateStart, IInv, TypeOK
  <2> HIDE DEF l
  <2>3. LocalOK(l)
    BY <2>1, NoneIsNot DEF LocalOK, SignedIn, Registering, Asserting
  <2>4. QED
    BY <2>1, <2>2, <2>3, MoveKeeps
<1>3. ASSUME NEW c \in Ceremony, RegisterFinish(t, u, c) PROVE IInv'
  <2> DEFINE l == Entry("getCreation", u, c, None)
  <2>1. l \in Locals /\ l.pc = "getCreation" /\ l.user = u /\ l.cer = c
    BY EntryIs DEF Pc
  <2>2. /\ Becomes(t, l) /\ exists' \in SUBSET User /\ UNCHANGED <<requests, ceremonies, properties>>
        /\ who[c] = u /\ kind[c] = "registration"
    BY <1>3 DEF RegisterFinish, IInv, TypeOK
  <2> HIDE DEF l
  <2>3. LocalOK(l)
    BY <2>1, <2>2, NoneIsNot DEF LocalOK, SignedIn, Registering, Asserting
  <2>4. QED
    BY <2>1, <2>2, <2>3, MoveKeeps
<1>4. ASSUME NEW c \in Ceremony, AuthenticateFinish(t, u, c) PROVE IInv'
  <2>1. PICK k \in allow[c] : Becomes(t, Entry("getAssertion", u, c, k))
    BY <1>4 DEF AuthenticateFinish
  <2> DEFINE l == Entry("getAssertion", u, c, k)
  <2>2. l \in Locals /\ l.pc = "getAssertion" /\ l.user = u /\ l.cer = c
    <3>1. k \in Ceremony
      BY DEF IInv, TypeOK
    <3>2. QED
      BY <3>1, EntryIs DEF Pc
  <2>3. /\ Becomes(t, l) /\ exists' \in SUBSET User /\ UNCHANGED <<requests, ceremonies, properties>>
        /\ who[c] = u /\ kind[c] = "assertion"
    BY <1>4, <2>1 DEF AuthenticateFinish, IInv, TypeOK
  <2> HIDE DEF l
  <2>4. LocalOK(l)
    BY <2>2, <2>3, NoneIsNot DEF LocalOK, SignedIn, Registering, Asserting
  <2>5. QED
    BY <2>2, <2>3, <2>4, MoveKeeps
<1>5. QED
  BY <1>1, <1>2, <1>3, <1>4 DEF Request

\* A call looks at what is there and moves on.
LEMMA LookKeeps ==
  ASSUME IInv, NEW t \in Thread,
         \/ GetCreation(t) \/ VerifyCreation(t) \/ Token(t) \/ BuildAssertion(t)
         \/ GetAssertion(t) \/ VerifyAssertion(t) \/ AddFails(t) \/ CallFails(t)
  PROVE  IInv'
<1>0. /\ th[t] \in Locals /\ LocalOK(th[t]) /\ exists' \in SUBSET User
      /\ UNCHANGED <<exists, requests, ceremonies, properties>>
  BY DEF IInv, TypeOK, LocalsOK, GetCreation, VerifyCreation, Token,
     BuildAssertion, GetAssertion, VerifyAssertion, AddFails, CallFails
<1>1. CASE Return(t)
  BY <1>0, <1>1, ReturnKeeps
<1>2. CASE GetCreation(t) /\ ~Return(t)
  <2>1. /\ At(t, "getCreation") /\ Pending(th[t].user, "registration")
        /\ Becomes(t, [th[t] EXCEPT !.req = requests[th[t].user], !.pc = "verifyCreation"])
    BY <1>2 DEF GetCreation
  <2>2. th[t].user \in User /\ requests[th[t].user] \in Ceremony
    <3>1. th[t].user \in User
      BY <1>0, <2>1 DEF LocalOK, SignedIn, At, Locals
    <3>2. QED
      BY <2>1, <3>1 DEF Pending, IInv, TypeOK
  <2> DEFINE l == [th[t] EXCEPT !.req = requests[th[t].user], !.pc = "verifyCreation"]
  <2>3. /\ l \in Locals /\ l.pc = "verifyCreation" /\ l.user = th[t].user
        /\ l.cer = th[t].cer /\ l.req = requests[th[t].user]
    BY <1>0, <2>2 DEF Locals
  <2>4. Becomes(t, l)
    BY <2>1
  <2> HIDE DEF l
  <2>5. LocalOK(l)
    BY <1>0, <2>1, <2>2, <2>3, NoneIsNot DEF LocalOK, SignedIn, At, Registering, Asserting
  <2>6. QED
    BY <1>0, <2>3, <2>4, <2>5, MoveKeeps
<1>3. CASE VerifyCreation(t) /\ ~Return(t)
  <2>1. At(t, "verifyCreation") /\ th[t].cer = th[t].req /\ Goto(t, "addKey")
    BY <1>3 DEF VerifyCreation
  <2> DEFINE l == [th[t] EXCEPT !.pc = "addKey"]
  <2>2. /\ l \in Locals /\ l.pc = "addKey" /\ l.user = th[t].user
        /\ l.cer = th[t].cer /\ l.req = th[t].req
    BY <1>0, SetPc DEF Pc
  <2>3. Becomes(t, l)
    BY <2>1 DEF Goto
  <2> HIDE DEF l
  <2>4. LocalOK(l)
    BY <1>0, <2>1, <2>2 DEF LocalOK, SignedIn, At, Registering, Asserting
  <2>5. QED
    BY <1>0, <2>2, <2>3, <2>4, MoveKeeps
<1>4. CASE BuildAssertion(t)
  <2>1. th[t].user \in User /\ At(t, "buildAssertion")
    BY <1>0, <1>4 DEF LocalOK, SignedIn, At, Locals, BuildAssertion
  <2> DEFINE l == [th[t] EXCEPT !.ids = keys[th[t].user], !.pc = "putAssertion"]
  <2>2. l \in Locals /\ l.pc = "putAssertion" /\ l.user = th[t].user
    <3>1. keys[th[t].user] \in SUBSET Ceremony
      BY <2>1 DEF IInv, TypeOK
    <3>2. QED
      BY <1>0, <3>1 DEF Locals
  <2>3. Becomes(t, l)
    BY <1>4 DEF BuildAssertion
  <2> HIDE DEF l
  <2>4. LocalOK(l)
    BY <2>1, <2>2, NoneIsNot DEF LocalOK, SignedIn, Registering, Asserting
  <2>5. QED
    BY <1>0, <2>2, <2>3, <2>4, MoveKeeps
<1>5. CASE GetAssertion(t) /\ ~Return(t)
  <2>1. /\ At(t, "getAssertion") /\ Pending(th[t].user, "assertion")
        /\ Becomes(t, [th[t] EXCEPT !.req = requests[th[t].user], !.pc = "verifyAssertion"])
    BY <1>5 DEF GetAssertion
  <2>2. requests[th[t].user] \in Ceremony
    <3>1. th[t].user \in User
      BY <1>0, <2>1 DEF LocalOK, SignedIn, At, Locals
    <3>2. QED
      BY <2>1, <3>1 DEF Pending, IInv, TypeOK
  <2> DEFINE l == [th[t] EXCEPT !.req = requests[th[t].user], !.pc = "verifyAssertion"]
  <2>3. /\ l \in Locals /\ l.pc = "verifyAssertion" /\ l.user = th[t].user
        /\ l.cer = th[t].cer /\ l.req = requests[th[t].user]
    BY <1>0, <2>2 DEF Locals
  <2>4. Becomes(t, l)
    BY <2>1
  <2> HIDE DEF l
  <2>5. LocalOK(l)
    BY <1>0, <2>1, <2>2, <2>3, NoneIsNot DEF LocalOK, SignedIn, At, Registering, Asserting
  <2>6. QED
    BY <1>0, <2>3, <2>4, <2>5, MoveKeeps
<1>6. CASE VerifyAssertion(t) /\ ~Return(t)
  <2>1. /\ At(t, "verifyAssertion") /\ Goto(t, "storeCount")
        /\ th[t].cer = th[t].req /\ th[t].key \in keys[th[t].user]
    BY <1>6 DEF VerifyAssertion
  <2> DEFINE l == [th[t] EXCEPT !.pc = "storeCount"]
  <2>2. /\ l \in Locals /\ l.pc = "storeCount" /\ l.user = th[t].user
        /\ l.cer = th[t].cer /\ l.key = th[t].key
    BY <1>0, SetPc DEF Pc
  <2>3. Becomes(t, l)
    BY <2>1 DEF Goto
  <2> HIDE DEF l
  <2>4. LocalOK(l)
    BY <1>0, <2>1, <2>2 DEF LocalOK, SignedIn, At, Registering, Asserting
  <2>5. QED
    BY <1>0, <2>2, <2>3, <2>4, MoveKeeps
<1>7. CASE AddFails(t)
  <2> DEFINE l == [th[t] EXCEPT !.pc = "token"]
  <2>1. l \in Locals /\ l.pc = "token" /\ l.user = th[t].user /\ l.cer = th[t].cer
    BY <1>0, SetPc DEF Pc
  <2>2. Becomes(t, l)
    BY <1>7 DEF AddFails, Goto
  <2> HIDE DEF l
  <2>3. /\ th[t].user # None /\ th[t].cer \in Ceremony
        /\ who[th[t].cer] = th[t].user /\ kind[th[t].cer] = "registration"
    BY <1>0, <1>7 DEF AddFails, LocalOK, Registering
  <2>4. LocalOK(l)
    BY <2>1, <2>3 DEF LocalOK, SignedIn, Registering, Asserting
  <2>5. QED
    BY <1>0, <2>1, <2>2, <2>4, MoveKeeps
<1>8. QED
  BY <1>1, <1>2, <1>3, <1>4, <1>5, <1>6, <1>7 DEF Token, CallFails

-----------------------------------------------------------------------------
\* A call writes one property of its user.
LEMMA WriteKeeps ==
  ASSUME IInv, NEW t \in Thread,
         \/ RemoveId(t) \/ RemoveKeys(t) \/ AddKey(t)
         \/ AddId(t) \/ AddCount(t) \/ StoreCount(t)
  PROVE  IInv'
<1>0. /\ th[t] \in Locals /\ LocalOK(th[t])
      /\ UNCHANGED <<exists, requests, issued, kind, who, allow>>
  BY DEF IInv, TypeOK, LocalsOK, RemoveId, RemoveKeys, AddKey, AddId, AddCount,
     StoreCount, ceremonies
<1>u. th[t].user \in User
  BY <1>0 DEF LocalOK, SignedIn, Locals, At, RemoveId, RemoveKeys, AddKey, AddId, AddCount, StoreCount
<1> DEFINE u == th[t].user
<1>g. /\ exists' \in SUBSET User /\ Fresh' /\ Newest'
      /\ requests' \in [User -> Ceremony \cup {None}] /\ issued' \in 0 .. MaxCeremony
      /\ kind' \in [Ceremony -> {"none", "registration", "assertion"}]
      /\ who' \in [Ceremony -> User \cup {None}] /\ allow' \in [Ceremony -> SUBSET Ceremony]
  BY <1>0 DEF IInv, TypeOK, Fresh, Newest
<1>1. CASE RemoveId(t)
  <2> DEFINE l == [th[t] EXCEPT !.pc = "removeKeys"]
  <2>1. l \in Locals /\ l.pc = "removeKeys" /\ l.user = u
    BY <1>0, SetPc DEF Pc
  <2>2. Becomes(t, l) /\ userid' = [userid EXCEPT ![u] = None] /\ UNCHANGED <<keys, counted>>
    BY <1>1 DEF RemoveId, Goto
  <2>3. th'[t] = l
    BY <2>2 DEF Becomes, IInv, TypeOK
  <2> HIDE DEF l
  <2>4. /\ \A v \in User \ {u} : userid'[v] = userid[v]
        /\ userid' \in [User -> Ceremony \cup {None}] /\ userid'[u] = None
    BY <1>u, <2>2 DEF IInv, TypeOK
  <2>5. LocalOK(th[t])'
    BY <1>0, <1>u, <2>1, <2>3, <2>4, NoneIsNot DEF LocalOK, SignedIn, Registering, Asserting
  <2>6. th' \in [Thread -> Locals] /\ Alone' /\ LocalsOK'
    BY <1>0, <1>u, <2>1, <2>2, <2>4, <2>5, ThreadsKeep
  <2>7. KeysOwn' /\ NewestOnly'
    BY <1>0, <2>2 DEF IInv, KeysOwn, NewestOnly, Registrations
  <2>8. HandleOwn'
    BY <1>0, <2>4 DEF IInv, HandleOwn, Registrations
  <2>9. QED
    BY <1>g, <2>2, <2>4, <2>6, <2>7, <2>8 DEF IInv, TypeOK
<1>2. CASE RemoveKeys(t)
  <2> DEFINE l == [th[t] EXCEPT !.pc = "putCreation"]
  <2>1. l \in Locals /\ l.pc = "putCreation" /\ l.user = u
    BY <1>0, SetPc DEF Pc
  <2>2. Becomes(t, l) /\ keys' = [keys EXCEPT ![u] = {}] /\ UNCHANGED <<userid, counted>>
    BY <1>2 DEF RemoveKeys, Goto
  <2>3. th'[t] = l
    BY <2>2 DEF Becomes, IInv, TypeOK
  <2> HIDE DEF l
  <2>4. /\ keys' \in [User -> SUBSET Ceremony] /\ keys'[u] = {}
        /\ \A v \in User \ {u} : keys'[v] = keys[v]
    BY <1>u, <2>2 DEF IInv, TypeOK
  <2>0. userid[u] = None
    BY <1>0, <1>2 DEF LocalOK, RemoveKeys, At
  <2>5. LocalOK(th[t])'
    BY <1>0, <1>u, <2>1, <2>2, <2>3, <2>4, <2>0, NoneIsNot DEF LocalOK, SignedIn, Registering, Asserting
  <2>6. th' \in [Thread -> Locals] /\ Alone' /\ LocalsOK'
    BY <1>0, <1>u, <2>1, <2>2, <2>4, <2>5, ThreadsKeep
  <2>7. \A v \in User : keys'[v] \subseteq keys[v]
    BY <2>4
  <2>8. KeysOwn' /\ HandleOwn' /\ NewestOnly'
    BY <1>0, <2>2, <2>7 DEF IInv, KeysOwn, HandleOwn, NewestOnly, Registrations
  <2>9. QED
    BY <1>g, <2>2, <2>4, <2>6, <2>8 DEF IInv, TypeOK
<1>3. CASE AddKey(t)
  <2> DEFINE l == [th[t] EXCEPT !.pc = "addId"]
  <2> DEFINE c == th[t].cer
  <2>1. l \in Locals /\ l.pc = "addId" /\ l.user = u /\ l.cer = c /\ l.req = th[t].req
    BY <1>0, SetPc DEF Pc
  <2>2. Becomes(t, l) /\ keys' = [keys EXCEPT ![u] = @ \cup {c}] /\ UNCHANGED <<userid, counted>>
    BY <1>3 DEF AddKey, Goto
  <2>3. th'[t] = l
    BY <2>2 DEF Becomes, IInv, TypeOK
  <2> HIDE DEF l
  <2>4. /\ c \in Ceremony /\ who[c] = u /\ kind[c] = "registration"
        /\ c = th[t].req /\ c = requests[u] /\ c # None
    BY <1>0, <1>3 DEF AddKey, At, LocalOK, Registering
  <2>5. \A k \in Ceremony : who[k] = u => k <= c
    BY <1>u, <2>4 DEF IInv, Newest
  <2>6. keys[u] \subseteq {c}
    <3>1. ASSUME NEW k \in keys[u] PROVE k = c
      <4>1. k \in Ceremony /\ who[k] = u
        BY <1>u DEF IInv, TypeOK, KeysOwn
      <4>2. k <= c
        BY <2>5, <4>1
      <4>3. c <= k
        BY <1>u, <2>4 DEF IInv, NewestOnly, Registrations
      <4>4. QED
        BY <2>4, <4>1, <4>2, <4>3 DEF Ceremony
    <3>2. QED
      BY <3>1
  <2>7. /\ keys' \in [User -> SUBSET Ceremony] /\ keys'[u] = {c}
        /\ \A v \in User \ {u} : keys'[v] = keys[v]
    <3>1. keys[u] \cup {c} = {c}
      BY <2>6
    <3>2. keys' = [keys EXCEPT ![u] = {c}]
      BY <2>2, <3>1
    <3>3. QED
      BY <1>u, <2>4, <3>2 DEF IInv, TypeOK
  <2>8. LocalOK(th[t])'
    BY <1>0, <1>u, <2>1, <2>3, <2>4, <2>7, NoneIsNot DEF LocalOK, SignedIn, Registering, Asserting
  <2>9. th' \in [Thread -> Locals] /\ Alone' /\ LocalsOK'
    BY <1>0, <1>u, <2>1, <2>2, <2>7, <2>8, ThreadsKeep
  <2>10. KeysOwn'
    BY <1>0, <2>4, <2>7 DEF IInv, KeysOwn
  <2>11. NewestOnly'
    <3>1. ASSUME NEW v \in User, NEW k \in keys'[v], NEW d \in Registrations(v)
          PROVE  d <= k
      BY <2>4, <2>5, <2>7, <3>1 DEF IInv, NewestOnly, Registrations
    <3>2. QED
      BY <1>0, <3>1 DEF NewestOnly, Registrations
  <2>12. HandleOwn'
    BY <1>0, <2>2 DEF IInv, HandleOwn, Registrations
  <2>13. QED
    BY <1>g, <2>2, <2>7, <2>9, <2>10, <2>11, <2>12 DEF IInv, TypeOK
<1>4. CASE AddId(t)
  <2> DEFINE l == [th[t] EXCEPT !.pc = "addCount"]
  <2> DEFINE c == th[t].req
  <2>1. l \in Locals /\ l.pc = "addCount" /\ l.user = u /\ l.cer = th[t].cer /\ l.req = c
    BY <1>0, SetPc DEF Pc
  <2>2. Becomes(t, l) /\ userid' = [userid EXCEPT ![u] = c] /\ UNCHANGED <<keys, counted>>
    BY <1>4 DEF AddId, Goto
  <2>3. th'[t] = l
    BY <2>2 DEF Becomes, IInv, TypeOK
  <2> HIDE DEF l
  <2>4. /\ th[t].cer \in Ceremony /\ who[th[t].cer] = u /\ kind[th[t].cer] = "registration"
        /\ th[t].cer = c /\ c = requests[u] /\ c # None
    BY <1>0, <1>4 DEF AddId, At, LocalOK, Registering
  <2>5. /\ userid' \in [User -> Ceremony \cup {None}] /\ userid'[u] = c
        /\ \A v \in User \ {u} : userid'[v] = userid[v]
    BY <1>u, <2>2, <2>4 DEF IInv, TypeOK
  <2>6. LocalOK(th[t])'
    BY <1>0, <1>u, <2>1, <2>2, <2>3, <2>4, <2>5, NoneIsNot DEF LocalOK, SignedIn, Registering, Asserting
  <2>7. th' \in [Thread -> Locals] /\ Alone' /\ LocalsOK'
    BY <1>0, <1>u, <2>1, <2>2, <2>5, <2>6, ThreadsKeep
  <2>8. KeysOwn' /\ NewestOnly'
    BY <1>0, <2>2 DEF IInv, KeysOwn, NewestOnly, Registrations
  <2>9. HandleOwn'
    <3>1. c \in Registrations(u) /\ \A d \in Registrations(u) : d <= c
      BY <1>u, <2>4 DEF IInv, Newest, Registrations
    <3>2. ASSUME NEW v \in User, userid'[v] # None
          PROVE  userid'[v] \in Registrations(v) /\ \A d \in Registrations(v) : d <= userid'[v]
      BY <2>5, <3>1, <3>2 DEF IInv, HandleOwn
    <3>3. \A v \in User : Registrations(v)' = Registrations(v)
      BY <1>0 DEF Registrations
    <3>4. QED
      BY <3>2, <3>3 DEF HandleOwn
  <2>10. QED
    BY <1>g, <2>2, <2>5, <2>7, <2>8, <2>9 DEF IInv, TypeOK
<1>5. CASE AddCount(t)
  <2> DEFINE l == [th[t] EXCEPT !.pc = "token"]
  <2>1. l \in Locals /\ l.pc = "token" /\ l.user = u /\ l.cer = th[t].cer
    BY <1>0, SetPc DEF Pc
  <2>2. Becomes(t, l) /\ counted' = counted \cup {u} /\ UNCHANGED <<keys, userid>>
    BY <1>5 DEF AddCount, Goto
  <2>3. th'[t] = l
    BY <2>2 DEF Becomes, IInv, TypeOK
  <2> HIDE DEF l
  <2>4. /\ th[t].cer \in Ceremony /\ who[th[t].cer] = u
        /\ kind[th[t].cer] = "registration"
    BY <1>0, <1>5 DEF AddCount, At, LocalOK, Registering
  <2>5. LocalOK(th[t])'
    BY <1>0, <1>u, <2>1, <2>2, <2>3, <2>4, NoneIsNot DEF LocalOK, SignedIn, Registering, Asserting
  <2>6. th' \in [Thread -> Locals] /\ Alone' /\ LocalsOK'
    BY <1>0, <1>u, <2>1, <2>2, <2>5, ThreadsKeep
  <2>7. KeysOwn' /\ HandleOwn' /\ NewestOnly' /\ counted' \in SUBSET User
    BY <1>0, <1>u, <2>2 DEF IInv, TypeOK, KeysOwn, HandleOwn, NewestOnly, Registrations
  <2>8. QED
    BY <1>g, <2>2, <2>6, <2>7 DEF IInv, TypeOK
<1>6. CASE StoreCount(t)
  <2> DEFINE l == [th[t] EXCEPT !.pc = "token"]
  <2>1. l \in Locals /\ l.pc = "token" /\ l.user = u /\ l.cer = th[t].cer /\ l.key = th[t].key
    BY <1>0, SetPc DEF Pc
  <2>2. Becomes(t, l) /\ counted' = counted \cup {u} /\ UNCHANGED <<keys, userid>>
    BY <1>6 DEF StoreCount, Goto
  <2>3. th'[t] = l
    BY <2>2 DEF Becomes, IInv, TypeOK
  <2> HIDE DEF l
  <2>4. /\ th[t].cer \in Ceremony /\ who[th[t].cer] = u /\ kind[th[t].cer] = "assertion"
        /\ th[t].cer = requests[u] /\ th[t].key \in keys[u]
    BY <1>0, <1>6 DEF StoreCount, At, LocalOK, SignedIn, Asserting
  <2>5. LocalOK(th[t])'
    BY <1>0, <1>u, <2>1, <2>2, <2>3, <2>4, NoneIsNot DEF LocalOK, SignedIn, Registering, Asserting
  <2>6. th' \in [Thread -> Locals] /\ Alone' /\ LocalsOK'
    BY <1>0, <1>u, <2>1, <2>2, <2>5, ThreadsKeep
  <2>7. KeysOwn' /\ HandleOwn' /\ NewestOnly' /\ counted' \in SUBSET User
    BY <1>0, <1>u, <2>2 DEF IInv, TypeOK, KeysOwn, HandleOwn, NewestOnly, Registrations
  <2>8. QED
    BY <1>g, <2>2, <2>6, <2>7 DEF IInv, TypeOK
<1>7. QED
  BY <1>1, <1>2, <1>3, <1>4, <1>5, <1>6

\* A fresh challenge for the user of a call, which is answered.
LEMMA IssueKeeps ==
  ASSUME IInv, NEW t \in Thread, PutCreation(t) \/ PutAssertion(t)
  PROVE  IInv'
<1>0. th[t] \in Locals /\ LocalOK(th[t]) /\ UNCHANGED <<exists, properties>> /\ Return(t)
  BY DEF IInv, TypeOK, LocalsOK, PutCreation, PutAssertion
<1> DEFINE u == th[t].user
<1> DEFINE c == issued + 1
<1>u. u \in User
  BY <1>0 DEF LocalOK, SignedIn, Locals, At, PutCreation, PutAssertion
<1>1. PICK k \in {"registration", "assertion"}, ids \in SUBSET Ceremony :
        Issue(u, k, ids) /\ (k = "registration" => keys[u] = {} /\ userid[u] = None)
  <2>1. CASE PutCreation(t)
    BY <1>0, <2>1 DEF PutCreation, At, LocalOK
  <2>2. CASE PutAssertion(t)
    <3>1. th[t].ids \in SUBSET Ceremony
      BY <1>0 DEF Locals
    <3>2. QED
      BY <2>2, <3>1 DEF PutAssertion
  <2>3. QED
    BY <2>1, <2>2
<1>2. issued \in Nat /\ c \in Ceremony /\ issued' = c /\ issued' \in 0 .. MaxCeremony
  BY <1>1, WebAuthnAssumption DEF Issue, IInv, TypeOK, Ceremony
<1>3. /\ kind' = [kind EXCEPT ![c] = k] /\ who' = [who EXCEPT ![c] = u]
      /\ allow' = [allow EXCEPT ![c] = ids] /\ requests' = [requests EXCEPT ![u] = c]
  BY <1>1 DEF Issue
<1>4. who[c] = None /\ kind[c] = "none"
  BY <1>2 DEF IInv, Fresh
<1>5. /\ kind' \in [Ceremony -> {"none", "registration", "assertion"}]
      /\ who' \in [Ceremony -> User \cup {None}] /\ allow' \in [Ceremony -> SUBSET Ceremony]
      /\ requests' \in [User -> Ceremony \cup {None}]
  BY <1>u, <1>2, <1>3 DEF IInv, TypeOK
<1>6. /\ who'[c] = u /\ kind'[c] = k /\ requests'[u] = c
      /\ \A d \in Ceremony \ {c} : who'[d] = who[d] /\ kind'[d] = kind[d]
      /\ \A v \in User \ {u} : requests'[v] = requests[v]
  BY <1>u, <1>2, <1>3 DEF IInv, TypeOK
<1> HIDE DEF u
<1>7. Fresh'
  <2>1. ASSUME NEW d \in Ceremony, d > issued' PROVE who'[d] = None /\ kind'[d] = "none"
    <3>1. d \in Nat /\ d > issued /\ d # c
      BY <1>2, <2>1 DEF Ceremony
    <3>2. QED
      BY <1>6, <3>1 DEF IInv, Fresh
  <2>2. QED
    BY <2>1 DEF Fresh
<1>8. \A d \in Ceremony : who'[d] # None => d <= c
  <2>1. ASSUME NEW d \in Ceremony, ~(d <= c) PROVE who'[d] = None
    BY <1>2, <1>7, <2>1 DEF Fresh, Ceremony
  <2>2. QED
    BY <2>1
<1>9. Newest'
  <2>1. ASSUME NEW v \in User, requests'[v] # None
        PROVE  /\ who'[requests'[v]] = v
               /\ \A d \in Ceremony : who'[d] = v => d <= requests'[v]
    <3>1. CASE v = u
      BY <1>6, <1>8, <3>1, NoneIsNot
    <3>2. CASE v # u
      <4>1. requests'[v] = requests[v] /\ requests[v] \in Ceremony
        BY <1>6, <2>1, <3>2 DEF IInv, TypeOK
      <4>2. who[requests[v]] = v /\ \A d \in Ceremony : who[d] = v => d <= requests[v]
        BY <2>1, <4>1 DEF IInv, Newest
      <4>3. requests[v] # c
        BY <1>4, <4>2, NoneIsNot
      <4>4. QED
        BY <1>6, <3>2, <4>1, <4>2, <4>3
    <3>3. QED
      BY <3>1, <3>2
  <2>2. QED
    BY <2>1 DEF Newest
<1>10. keys' = keys /\ userid' = userid /\ counted' = counted
  BY <1>0 DEF properties
<1>11. KeysOwn'
  <2>1. ASSUME NEW v \in User, NEW d \in keys[v] PROVE who'[d] = v /\ kind'[d] = "registration"
    <3>1. d \in Ceremony /\ who[d] = v /\ kind[d] = "registration"
      BY DEF IInv, TypeOK, KeysOwn
    <3>2. QED
      BY <1>4, <1>6, <3>1, NoneIsNot
  <2>2. QED
    BY <1>10, <2>1 DEF KeysOwn
<1>12. NewestOnly'
  <2>1. ASSUME NEW v \in User, NEW d \in keys[v], NEW e \in Ceremony,
               who'[e] = v, kind'[e] = "registration"
        PROVE  e <= d
    <3>1. e # c
      BY <1>1, <1>6, <2>1
    <3>2. QED
      BY <1>6, <2>1, <3>1 DEF IInv, NewestOnly, Registrations
  <2>2. QED
    BY <1>10, <2>1 DEF NewestOnly, Registrations
<1>13. HandleOwn'
  <2>1. ASSUME NEW v \in User, userid[v] # None
        PROVE  /\ userid[v] \in Registrations(v)'
               /\ \A d \in Registrations(v)' : d <= userid[v]
    <3>1. userid[v] \in Registrations(v) /\ \A d \in Registrations(v) : d <= userid[v]
      BY <2>1 DEF IInv, HandleOwn
    <3>2. c \notin Registrations(v)'
      BY <1>1, <1>2, <1>6, <2>1 DEF Registrations
    <3>3. Registrations(v)' = Registrations(v)
      BY <1>4, <1>6, <3>2, NoneIsNot DEF Registrations
    <3>4. QED
      BY <3>1, <3>3
  <2>2. QED
    BY <1>10, <2>1 DEF HandleOwn
<1>14. th' \in [Thread -> Locals] /\ Alone' /\ LocalsOK'
  <2>1. th'[t] = Idle
    BY <1>0 DEF Return, Becomes, IInv, TypeOK
  <2>2. LocalOK(th[t])'
    BY <2>1, IdleIs DEF LocalOK, SignedIn, Registering, Asserting
  <2>3. \A d \in Ceremony : who[d] # None => who'[d] = who[d] /\ kind'[d] = kind[d]
    BY <1>4, <1>6
  <2>4. QED
    BY <1>0, <1>u, <1>6, <1>10, <2>2, <2>3, IdleIs, ThreadsKeep DEF Return, u
<1>15. QED
  BY <1>0, <1>2, <1>5, <1>7, <1>9, <1>10, <1>11, <1>12, <1>13, <1>14 DEF IInv, TypeOK

LEMMA RestartKeeps ==
  ASSUME IInv, Restart
  PROVE  IInv'
<1>1. th' = [t \in Thread |-> Idle] /\ th' \in [Thread -> Locals]
  BY IdleIs DEF Restart
<1>2. LocalsOK' /\ Alone'
  BY <1>1, IdleIs DEF LocalsOK, LocalOK, SignedIn, Alone, Registering, Asserting
<1>3. QED
  BY <1>1, <1>2 DEF Restart, IInv, TypeOK, Fresh, Newest, KeysOwn, HandleOwn, NewestOnly,
     Registrations, ceremonies, properties

LEMMA StepKeeps ==
  ASSUME IInv, [SerialNext]_vars
  PROVE  IInv'
<1>1. CASE UNCHANGED vars
  BY <1>1 DEF vars, ceremonies, properties, IInv, TypeOK, Alone, Fresh, Newest,
     KeysOwn, HandleOwn, NewestOnly, Registrations, LocalsOK, LocalOK, SignedIn
<1>2. CASE SerialNext
  <2>1. ASSUME NEW t \in Thread, Continue(t) PROVE IInv'
    BY <2>1, LookKeeps, WriteKeeps, IssueKeeps DEF Continue
  <2>2. QED
    BY <1>2, <2>1, RequestKeeps, RestartKeeps DEF SerialNext
<1>3. QED
  BY <1>1, <1>2

-----------------------------------------------------------------------------
\* The invariant the theorems rest on, for any number of users and ceremonies.
THEOREM Invariant == SerialSpec => []IInv
<1>1. QED
  BY InitIInv, StepKeeps, PTL DEF SerialSpec

\* The ceremonies, the properties of the users and the locals of the calls of
\* the four endpoints keep their types.
THEOREM TypeCorrect == SerialSpec => []TypeOK
<1>1. IInv => TypeOK
  BY DEF IInv
<1>2. QED
  BY <1>1, Invariant, PTL

\* While the calls of a user come one at a time, only his newest registration
\* has a credential, however his ceremonies overlap, are answered late or
\* twice, or are cut off by failures and restarts.
THEOREM NewestOnlyHolds == SerialSpec => []NewestOnly
<1>1. IInv => NewestOnly
  BY DEF IInv
<1>2. QED
  BY <1>1, Invariant, PTL

\* A credential and a handle that are stored together are of one registration,
\* whichever writes failed or were cut off.
THEOREM HandleFitsHolds == SerialSpec => []HandleFits
<1>1. IInv => HandleFits
  <2> SUFFICES ASSUME IInv, NEW u \in User, keys[u] # {}, userid[u] # None
               PROVE  keys[u] = {userid[u]}
    BY DEF HandleFits
  <2>1. userid[u] \in Registrations(u) /\ \A c \in Registrations(u) : c <= userid[u]
    BY DEF IInv, HandleOwn
  <2>2. ASSUME NEW k \in keys[u] PROVE k = userid[u]
    <3>1. k \in Registrations(u)
      BY DEF IInv, TypeOK, KeysOwn, Registrations
    <3>2. k <= userid[u] /\ userid[u] <= k
      BY <2>1, <3>1 DEF IInv, NewestOnly
    <3>3. k \in Nat /\ userid[u] \in Nat
      BY <2>1, <3>1 DEF Registrations, Ceremony
    <3>4. QED
      BY <3>2, <3>3
  <2>3. QED
    BY <2>2
<1>2. QED
  BY <1>1, Invariant, PTL

\* A user is signed in by an answer to his newest challenge, signed with the
\* credential of his newest registration.
THEOREM SignedInByNewestHolds == SerialSpec => []SignedInByNewest
<1>1. IInv => SignedInByNewest
  <2> SUFFICES ASSUME IInv, NEW t \in Thread, At(t, "token"), kind[th[t].cer] = "assertion"
               PROVE  /\ \A c \in Ceremony : who[c] = th[t].user => c <= th[t].cer
                      /\ th[t].key \in keys[th[t].user]
                      /\ \A c \in Registrations(th[t].user) : c <= th[t].key
    BY DEF SignedInByNewest
  <2>1. LocalOK(th[t]) /\ th[t] \in Locals
    BY DEF IInv, LocalsOK, TypeOK
  <2>2. th[t].user \in User /\ th[t].cer \in Ceremony
    BY <2>1 DEF LocalOK, Locals, At
  <2>3. th[t].cer = requests[th[t].user] /\ th[t].key \in keys[th[t].user]
    BY <2>1 DEF LocalOK, SignedIn, At
  <2>4. QED
    BY <2>2, <2>3, NoneIsNot DEF IInv, Newest, NewestOnly
<1>2. QED
  BY <1>1, Invariant, PTL
=============================================================================
