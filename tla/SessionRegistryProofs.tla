----------------------- MODULE SessionRegistryProofs -----------------------
(***************************************************************************)
(* What holds of the registry for any number of users, threads and         *)
(* connections: first in every interleaving, then when the requests of a   *)
(* user come one at a time, up to the refinement of UserSession.           *)
(***************************************************************************)
EXTENDS SessionRegistry, TLAPS

\* A thread at work knows its user, and a thread with a connection in hand
\* has one of that user.
LocalsOK ==
  \A t \in Thread :
    /\ th[t].pc # "idle" => th[t].who \in User
    /\ th[t].pc \in {"retoken", "publish", "wire", "discard", "disconnect"} =>
         th[t].cur \in Conn /\ owner[th[t].cur] = th[t].who

\* A registered connection belongs to the user it is registered under.
RegisteredUnderOwner ==
  \A u \in User : users[u] # NoConn => owner[users[u]] = u

\* Only a connection that was built has had a session.
SessionHasOwner == \A c \in Conn : session[c] # "none" => owner[c] \in User

Owned == /\ LocalsOK
         /\ RegisteredUnderOwner
         /\ SessionHasOwner
         /\ ExclusiveHolder

IInv == TypeOK /\ Owned

\* The local variables a thread starts with, and ends with, are well typed.
LEMMA EntryTyped ==
  ASSUME NEW s \in Step, NEW u \in User \cup {NoUser},
         NEW k \in Token \cup {NoToken}, NEW n \in Nat,
         NEW then \in {"idle", "untoken"}
  PROVE  Entry(s, u, k, n, then) \in Locals
BY DEF Entry, Locals

\* A thread that has closed session c of user u on behalf of the server.
LEMMA CloserTyped ==
  ASSUME NEW u \in User \cup {NoUser}, NEW c \in Conn
  PROVE  [Entry("retake", u, NoToken, 1, "idle") EXCEPT !.cur = c] \in Locals
BY DEF Entry, Locals, Step

LEMMA IdleTyped == Idle \in Locals
BY DEF Idle, Entry, Locals, Step

\* The types of the fields of a thread.
LEMMA FieldTypes ==
  ASSUME NEW l \in Locals
  PROVE  /\ l.pc \in Step
         /\ l.who \in User \cup {NoUser}
         /\ l.tok \in Token \cup {NoToken}
         /\ l.cur \in Conn \cup {NoConn}
         /\ l.found \in Conn \cup {NoConn}
         /\ l.calls \in Nat
         /\ l.after \in {"idle", "untoken"}
BY DEF Locals

\* The updates a step makes to its local variables are well typed.
LEMMA UpdateTyped ==
  ASSUME NEW l \in Locals, NEW s \in Step, NEW c \in Conn \cup {NoConn},
         NEW n \in Nat
  PROVE  /\ [l EXCEPT !.pc = s] \in Locals
         /\ [l EXCEPT !.cur = c, !.pc = s] \in Locals
         /\ [l EXCEPT !.cur = c, !.found = c, !.pc = s] \in Locals
         /\ [l EXCEPT !.cur = c, !.pc = s, !.calls = n] \in Locals
         /\ [l EXCEPT !.calls = n, !.cur = c, !.pc = s] \in Locals
BY DEF Locals

LEMMA InitIInv == Init => IInv
BY RegistryAssumption, IdleTyped DEF Init, IInv, Owned, TypeOK, LocalsOK,
   RegisteredUnderOwner, SessionHasOwner, ExclusiveHolder, Holds, Idle, Entry

LEMMA TypeStep == TypeOK /\ LocalsOK /\ [Next]_vars => TypeOK'
<1> SUFFICES ASSUME TypeOK, LocalsOK, [Next]_vars PROVE TypeOK'
  OBVIOUS
<1> USE DEF TypeOK, At, Return, Becomes, conns
<1>th. ASSUME NEW t \in Thread
       PROVE  /\ th[t] \in Locals
              /\ th[t].who \in User \cup {NoUser}
              /\ th[t].tok \in Token \cup {NoToken}
              /\ th[t].cur \in Conn \cup {NoConn}
              /\ th[t].calls \in Nat
              /\ ~At(t, "idle") => th[t].who \in User
  BY FieldTypes DEF LocalsOK
<1>st. \A s \in {"idle", "lookup", "retoken", "connect", "publish", "wire",
         "take", "discard", "disconnect", "retake", "untoken"} : s \in Step
  BY DEF Step
<1>1. CASE Tick
  BY <1>1, RegistryAssumption DEF Tick
<1>2. ASSUME NEW t \in Thread, NEW u \in User, Login(t, u) PROVE TypeOK'
  <2>1. <<u, now>> \in Token
    BY DEF Token
  <2>2. Entry("lookup", u, <<u, now>>, 0, "idle") \in Locals
    BY <2>1, <1>st, EntryTyped
  <2>3. QED
    BY <1>2, <2>1, <2>2 DEF Login
<1>3. ASSUME NEW t \in Thread, NEW u \in User, NEW then \in {"idle", "untoken"},
             Call(t, u, then)
      PROVE  TypeOK'
  <2>1. Entry("take", u, NoToken, 0, then) \in Locals
    BY <1>st, EntryTyped
  <2>2. QED
    BY <1>3, <2>1 DEF Call
<1>4. ASSUME NEW t \in Thread, NEW c \in Conn, ServerClose(t, c) PROVE TypeOK'
  <2> DEFINE l == [Entry("retake", owner[c], NoToken, 1, "idle") EXCEPT !.cur = c]
  <2>1. l \in Locals
    <3>1. owner[c] \in User \cup {NoUser}
      OBVIOUS
    <3>2. QED
      BY <3>1, <1>st, CloserTyped
  <2>2. Becomes(t, l)
    BY <1>4 DEF ServerClose
  <2> HIDE DEF l
  <2>3. QED
    BY <1>4, <2>1, <2>2 DEF ServerClose
<1>5. ASSUME NEW t \in Thread, Lookup(t) PROVE TypeOK'
  <2>1. users[th[t].who] \in Conn \cup {NoConn}
    BY <1>5, <1>th DEF Lookup
  <2>2. QED
    BY <1>5, <2>1, <1>th, <1>st, UpdateTyped DEF Lookup
<1>6. ASSUME NEW t \in Thread, Retoken(t) PROVE TypeOK'
  BY <1>6, <1>th, IdleTyped DEF Retoken
<1>7. ASSUME NEW t \in Thread, Connect(t) PROVE TypeOK'
  <2>1. PICK c \in Conn, s \in {"live", "none"} :
          /\ owner' = [owner EXCEPT ![c] = th[t].who]
          /\ token' = [token EXCEPT ![c] = th[t].tok]
          /\ session' = [session EXCEPT ![c] = s]
          /\ Becomes(t, [th[t] EXCEPT !.cur = c, !.pc = "publish"])
    BY <1>7 DEF Connect
  <2>2. [th[t] EXCEPT !.cur = c, !.pc = "publish"] \in Locals
    BY <1>th, <1>st, UpdateTyped
  <2>3. QED
    BY <1>7, <2>1, <2>2, <1>th DEF Connect
<1>8. ASSUME NEW t \in Thread, ConnectFails(t) PROVE TypeOK'
  BY <1>8, IdleTyped DEF ConnectFails
<1>9. ASSUME NEW t \in Thread, Publish(t) PROVE TypeOK'
  BY <1>9, <1>th, <1>st, UpdateTyped DEF Publish
<1>10. ASSUME NEW t \in Thread, Wire(t) PROVE TypeOK'
  BY <1>10, IdleTyped DEF Wire
<1>11. ASSUME NEW t \in Thread, Take(t) PROVE TypeOK'
  <2>1. users[th[t].who] \in Conn \cup {NoConn}
    BY <1>11, <1>th DEF Take
  <2>2. LET c == users[th[t].who]
        IN  [th[t] EXCEPT !.cur = c, !.found = c, !.pc = "discard"] \in Locals
    BY <2>1, <1>th, <1>st, UpdateTyped
  <2>3. QED
    BY <1>11, <2>1, <2>2, IdleTyped DEF Take
<1>12. ASSUME NEW t \in Thread, Discard(t) PROVE TypeOK'
  BY <1>12, <1>th, <1>st, UpdateTyped DEF Discard
<1>13. ASSUME NEW t \in Thread, Disconnect(t) PROVE TypeOK'
  <2> DEFINE nested == IF session[th[t].cur] = "live" THEN 2 ELSE 1
             l == [th[t] EXCEPT !.cur = NoConn, !.pc = "retake", !.calls = @ + nested]
  <2>1. th[t].calls + nested \in Nat
    BY <1>th
  <2>2. l \in Locals
    BY <2>1, <1>th, <1>st, UpdateTyped
  <2>3. session' \in [Conn -> {"none", "live", "closed"}]
    BY <1>13 DEF Disconnect
  <2>4. th' \in [Thread -> Locals]
    BY <1>13, <2>2 DEF Disconnect
  <2>5. QED
    BY <1>13, <2>3, <2>4 DEF Disconnect
<1>14. ASSUME NEW t \in Thread, Retake(t) PROVE TypeOK'
  <2>1. users[th[t].who] \in Conn \cup {NoConn}
    BY <1>14, <1>th DEF Retake
  <2>2. th[t].calls - 1 \in Nat
    BY <1>14, <1>th DEF Retake
  <2>3. QED
    BY <1>14, <2>1, <2>2, <1>th, <1>st, UpdateTyped DEF Retake
<1>15. ASSUME NEW t \in Thread, Unwind(t) PROVE TypeOK'
  <2>1. [th[t] EXCEPT !.pc = "untoken"] \in Locals
    BY <1>th, <1>st, UpdateTyped
  <2>2. QED
    BY <1>15, <2>1, IdleTyped DEF Unwind
<1>16. ASSUME NEW t \in Thread, Untoken(t) PROVE TypeOK'
  BY <1>16, IdleTyped DEF Untoken
<1>17. CASE UNCHANGED vars
  BY <1>17 DEF vars
<1>18. QED
  BY <1>1, <1>2, <1>3, <1>4, <1>5, <1>6, <1>7, <1>8, <1>9, <1>10, <1>11,
     <1>12, <1>13, <1>14, <1>15, <1>16, <1>17
     DEF Next, Request, Continue, Logout, Expire

\* The fields that the ownership argument reads, after an update.
LEMMA UpdateFields ==
  ASSUME NEW l \in Locals, NEW s, NEW c, NEW n
  PROVE  /\ [l EXCEPT !.pc = s].pc = s
         /\ [l EXCEPT !.pc = s].cur = l.cur
         /\ [l EXCEPT !.pc = s].who = l.who
         /\ [l EXCEPT !.cur = c, !.pc = s].pc = s
         /\ [l EXCEPT !.cur = c, !.pc = s].cur = c
         /\ [l EXCEPT !.cur = c, !.pc = s].who = l.who
         /\ [l EXCEPT !.cur = c, !.found = c, !.pc = s].pc = s
         /\ [l EXCEPT !.cur = c, !.found = c, !.pc = s].cur = c
         /\ [l EXCEPT !.cur = c, !.found = c, !.pc = s].who = l.who
         /\ [l EXCEPT !.cur = c, !.pc = s, !.calls = n].pc = s
         /\ [l EXCEPT !.cur = c, !.pc = s, !.calls = n].cur = c
         /\ [l EXCEPT !.cur = c, !.pc = s, !.calls = n].who = l.who
         /\ [l EXCEPT !.calls = n, !.cur = c, !.pc = s].pc = s
         /\ [l EXCEPT !.calls = n, !.cur = c, !.pc = s].cur = c
         /\ [l EXCEPT !.calls = n, !.cur = c, !.pc = s].who = l.who
BY DEF Locals

LEMMA CloserFields ==
  ASSUME NEW u, NEW c
  PROVE  LET l == [Entry("retake", u, NoToken, 1, "idle") EXCEPT !.cur = c]
         IN  /\ l.pc = "retake" /\ l.who = u /\ l.cur = c
             /\ l.calls = 1 /\ l.after = "idle"
BY DEF Entry

LEMMA EntryFields ==
  ASSUME NEW s, NEW u, NEW k, NEW n, NEW then
  PROVE  /\ Entry(s, u, k, n, then).pc = s
         /\ Entry(s, u, k, n, then).cur = NoConn
         /\ Entry(s, u, k, n, then).who = u
         /\ Idle.pc = "idle"
BY DEF Entry, Idle

\* Who owns and who holds a connection depends on four things: the map, the
\* owners, and each thread's program counter and connection.
LEMMA OwnedStep == IInv /\ [Next]_vars => Owned'
<1> SUFFICES ASSUME IInv, [Next]_vars PROVE Owned'
  OBVIOUS
<1> USE RegistryAssumption DEF IInv, Owned, At, Return, Becomes, conns
<1>th. ASSUME NEW t \in Thread
       PROVE  /\ th[t] \in Locals
              /\ th[t].cur \in Conn \cup {NoConn}
              /\ th \in [Thread -> Locals]
  BY FieldTypes DEF TypeOK
<1>us. /\ users \in [User -> Conn \cup {NoConn}]
       /\ owner \in [Conn -> User \cup {NoUser}]
       /\ session \in [Conn -> {"none", "live", "closed"}]
  BY DEF TypeOK
<1>0. ASSUME UNCHANGED <<users, owner>>,
             \A c \in Conn : session'[c] = session[c] \/ session[c] = "live",
             \A s \in Thread : \/ th'[s].pc = "idle"
                               \/ /\ th'[s].pc \in {"lookup", "connect", "take", "retake", "untoken"}
                                  /\ th'[s].who \in User
                               \/ /\ th'[s].pc = th[s].pc
                                  /\ th'[s].cur = th[s].cur
                                  /\ th'[s].who = th[s].who
      PROVE  Owned'
  BY <1>0 DEF LocalsOK, RegisteredUnderOwner, SessionHasOwner, ExclusiveHolder, Holds
<1>1. CASE Tick
  BY <1>1, <1>0 DEF Tick
<1>2. ASSUME NEW t \in Thread, NEW u \in User, Login(t, u) PROVE Owned'
  <2>1. th'[t].pc = "lookup" /\ th'[t].who = u /\ \A s \in Thread \ {t} : th'[s] = th[s]
    BY <1>2, <1>th, EntryFields DEF Login
  <2>2. UNCHANGED <<users, owner, session>>
    BY <1>2 DEF Login
  <2>3. QED
    BY <2>1, <2>2, <1>0
<1>3. ASSUME NEW t \in Thread, NEW u \in User, NEW then, Call(t, u, then)
      PROVE  Owned'
  <2>1. th'[t].pc = "take" /\ th'[t].who = u /\ \A s \in Thread \ {t} : th'[s] = th[s]
    BY <1>3, <1>th, EntryFields DEF Call
  <2>2. UNCHANGED <<users, owner, session>>
    BY <1>3 DEF Call
  <2>3. QED
    BY <2>1, <2>2, <1>0
<1>4. ASSUME NEW t \in Thread, NEW c \in Conn, ServerClose(t, c) PROVE Owned'
  <2>1. /\ th'[t].pc = "retake" /\ th'[t].who = owner[c]
        /\ \A s \in Thread \ {t} : th'[s] = th[s]
    BY <1>4, <1>th, EntryFields DEF ServerClose
  <2>2. owner[c] \in User
    BY <1>4 DEF ServerClose, SessionHasOwner
  <2>3. UNCHANGED <<users, owner>> /\ \A d \in Conn : session'[d] = session[d] \/ session[d] = "live"
    BY <1>4, <1>us DEF ServerClose
  <2>4. QED
    BY <2>1, <2>2, <2>3, <1>0
<1>5. ASSUME NEW t \in Thread, Lookup(t) PROVE Owned'
  <2> DEFINE c == users[th[t].who]
  <2>1. th[t].who \in User
    BY <1>5 DEF Lookup, LocalsOK
  <2>2. /\ th'[t].pc = IF c = NoConn THEN "connect" ELSE "retoken"
        /\ th'[t].cur = c /\ th'[t].who = th[t].who
        /\ \A s \in Thread \ {t} : th'[s] = th[s]
    BY <1>5, <1>th, UpdateFields DEF Lookup
  <2>3. UNCHANGED <<users, owner, session>>
    BY <1>5 DEF Lookup
  <2>4. c # NoConn => c \in Conn /\ owner[c] = th[t].who
    BY <2>1, <1>us DEF RegisteredUnderOwner
  <2>5. QED
    BY <2>1, <2>2, <2>3, <2>4
       DEF LocalsOK, RegisteredUnderOwner, SessionHasOwner, ExclusiveHolder, Holds
<1>6. ASSUME NEW t \in Thread, Return(t), UNCHANGED <<users, owner, session>>
      PROVE  Owned'
  <2>1. th'[t].pc = "idle" /\ \A s \in Thread \ {t} : th'[s] = th[s]
    BY <1>6, <1>th, EntryFields
  <2>2. QED
    BY <2>1, <1>6, <1>0
<1>7. ASSUME NEW t \in Thread, Connect(t) PROVE Owned'
  <2>1. PICK c \in Conn, s \in {"live", "none"} :
          /\ owner[c] = NoUser
          /\ owner' = [owner EXCEPT ![c] = th[t].who]
          /\ session' = [session EXCEPT ![c] = s]
          /\ Becomes(t, [th[t] EXCEPT !.cur = c, !.pc = "publish"])
    BY <1>7 DEF Connect
  <2>2. th[t].who \in User
    BY <1>7 DEF Connect, LocalsOK
  <2>3. /\ th'[t].pc = "publish" /\ th'[t].cur = c /\ th'[t].who = th[t].who
        /\ \A r \in Thread \ {t} : th'[r] = th[r]
    BY <2>1, <1>th, UpdateFields
  <2>4. UNCHANGED users
    BY <1>7 DEF Connect
  <2>5. \A u \in User : users[u] # c
    BY <2>1, <1>us DEF RegisteredUnderOwner
  <2>6. \A r \in Thread :
          th[r].pc \in {"retoken", "publish", "wire", "discard", "disconnect"} => th[r].cur # c
    BY <2>1, <1>us DEF LocalsOK
  <2>7. owner'[c] = th[t].who /\ \A d \in Conn \ {c} : owner'[d] = owner[d]
    BY <2>1, <1>us
  <2>8. LocalsOK'
    BY <2>2, <2>3, <2>6, <2>7 DEF LocalsOK
  <2>9. RegisteredUnderOwner'
    BY <2>4, <2>5, <2>7, <1>us DEF RegisteredUnderOwner
  <2>10. SessionHasOwner'
    BY <2>1, <2>2, <2>7, <1>us DEF SessionHasOwner
  <2>11. ExclusiveHolder'
    BY <2>3, <2>4, <2>5, <2>6 DEF ExclusiveHolder, Holds
  <2>12. QED
    BY <2>8, <2>9, <2>10, <2>11
<1>8. ASSUME NEW t \in Thread, Publish(t) PROVE Owned'
  <2>1. th[t].who \in User /\ th[t].cur \in Conn /\ owner[th[t].cur] = th[t].who
    BY <1>8 DEF Publish, LocalsOK
  <2>2. /\ th'[t].pc = "wire" /\ th'[t].cur = th[t].cur /\ th'[t].who = th[t].who
        /\ \A s \in Thread \ {t} : th'[s] = th[s]
    BY <1>8, <1>th, UpdateFields DEF Publish
  <2>3. UNCHANGED <<owner, session>>
    BY <1>8 DEF Publish
  <2>4. /\ users'[th[t].who] = th[t].cur
        /\ \A u \in User \ {th[t].who} : users'[u] = users[u]
    BY <1>8, <2>1, <1>us DEF Publish
  <2>5. Holds(t, th[t].cur)
    BY <1>8 DEF Publish, Holds
  <2>6. LocalsOK'
    BY <2>1, <2>2, <2>3 DEF LocalsOK
  <2>7. RegisteredUnderOwner' /\ SessionHasOwner'
    BY <2>1, <2>3, <2>4 DEF RegisteredUnderOwner, SessionHasOwner
  <2>8. ExclusiveHolder'
    BY <2>1, <2>2, <2>4, <2>5 DEF ExclusiveHolder, Holds
  <2>9. QED
    BY <2>6, <2>7, <2>8
<1>9. ASSUME NEW t \in Thread, Take(t) \/ Retake(t) PROVE Owned'
  <2> DEFINE c == users[th[t].who]
  <2>1. th[t].who \in User
    BY <1>9 DEF Take, Retake, LocalsOK
  <2>2. UNCHANGED <<owner, session>>
    BY <1>9 DEF Take, Retake
  <2>3. /\ users'[th[t].who] = NoConn
        /\ \A u \in User \ {th[t].who} : users'[u] = users[u]
    BY <1>9, <2>1, <1>us DEF Take, Retake
  <2>4. CASE c = NoConn
    <3>1. CASE Take(t)
      BY <1>6, <2>3, <2>4, <2>2, <3>1, <1>us DEF Take
    <3>2. CASE Retake(t)
      <4>1. /\ th'[t].pc = "retake" /\ th'[t].who = th[t].who
            /\ \A s \in Thread \ {t} : th'[s] = th[s]
        BY <3>2, <2>4, <1>th, UpdateFields DEF Retake
      <4>2. UNCHANGED <<users, owner, session>>
        BY <2>2, <2>3, <2>4, <3>2, <1>us DEF Retake
      <4>3. QED
        BY <4>1, <4>2, <2>1, <1>0
    <3>3. QED
      BY <1>9, <3>1, <3>2
  <2>5. CASE c # NoConn
    <3>1. /\ th'[t].pc = "discard" /\ th'[t].cur = c /\ th'[t].who = th[t].who
          /\ \A s \in Thread \ {t} : th'[s] = th[s]
      <4>1. CASE Take(t)
        <5>1. th' = [th EXCEPT ![t] = [th[t] EXCEPT !.cur = c, !.found = c, !.pc = "discard"]]
          BY <4>1, <2>5 DEF Take
        <5>2. th'[t] = [th[t] EXCEPT !.cur = c, !.found = c, !.pc = "discard"]
          BY <5>1, <1>th
        <5>3. QED
          BY <5>1, <5>2, <1>th, UpdateFields
      <4>2. CASE Retake(t)
        BY <4>2, <2>5, <1>th, UpdateFields DEF Retake
      <4>3. QED
        BY <1>9, <4>1, <4>2
    <3>2. c \in Conn /\ owner[c] = th[t].who
      BY <2>1, <2>5, <1>us DEF RegisteredUnderOwner
    <3>3. LocalsOK'
      BY <3>1, <3>2, <2>1, <2>2 DEF LocalsOK
    <3>4. RegisteredUnderOwner' /\ SessionHasOwner'
      BY <2>2, <2>3 DEF RegisteredUnderOwner, SessionHasOwner
    <3>5. ExclusiveHolder'
      BY <3>1, <3>2, <2>1, <2>3 DEF ExclusiveHolder, Holds
    <3>6. QED
      BY <3>3, <3>4, <3>5
  <2>6. QED
    BY <2>4, <2>5
<1>10. ASSUME NEW t \in Thread, Discard(t) PROVE Owned'
  <2>1. th[t].who \in User /\ th[t].cur \in Conn /\ owner[th[t].cur] = th[t].who
    BY <1>10 DEF Discard, LocalsOK
  <2>2. /\ th'[t].pc = "disconnect" /\ th'[t].cur = th[t].cur /\ th'[t].who = th[t].who
        /\ \A s \in Thread \ {t} : th'[s] = th[s]
    BY <1>10, <1>th, UpdateFields DEF Discard
  <2>3. UNCHANGED <<owner, session>>
    BY <1>10 DEF Discard
  <2>4. \A u \in User : users'[u] = users[u] \/ users'[u] = NoConn
    BY <1>10, <1>us DEF Discard
  <2>5. \A s \in Thread, d \in Conn : Holds(s, d)' => Holds(s, d)
    BY <1>10, <2>2 DEF Discard, Holds
  <2>6. LocalsOK'
    BY <2>1, <2>2, <2>3 DEF LocalsOK
  <2>7. RegisteredUnderOwner' /\ SessionHasOwner'
    BY <2>3, <2>4 DEF RegisteredUnderOwner, SessionHasOwner
  <2>8. ExclusiveHolder'
    BY <2>4, <2>5 DEF ExclusiveHolder
  <2>9. QED
    BY <2>6, <2>7, <2>8
<1>11. ASSUME NEW t \in Thread, Disconnect(t) PROVE Owned'
  <2>1. th[t].who \in User /\ th[t].cur \in Conn
    BY <1>11 DEF Disconnect, LocalsOK
  <2>2. /\ th'[t].pc = "retake" /\ th'[t].who = th[t].who
        /\ \A s \in Thread \ {t} : th'[s] = th[s]
    BY <1>11, <1>th, UpdateFields DEF Disconnect
  <2>3. UNCHANGED <<users, owner>> /\ \A d \in Conn : session'[d] = session[d] \/ session[d] = "live"
    BY <1>11, <2>1, <1>us DEF Disconnect
  <2>4. QED
    BY <2>1, <2>2, <2>3, <1>0
<1>12. ASSUME NEW t \in Thread, Unwind(t) PROVE Owned'
  <2>1. th[t].who \in User
    BY <1>12 DEF Unwind, LocalsOK
  <2>2. /\ \/ th'[t].pc = "idle"
           \/ th'[t].pc = "untoken" /\ th'[t].who = th[t].who
        /\ \A s \in Thread \ {t} : th'[s] = th[s]
    <3>1. CASE Return(t)
      BY <3>1, <1>th, EntryFields
    <3>2. CASE Becomes(t, [th[t] EXCEPT !.pc = "untoken"])
      BY <3>2, <1>th, UpdateFields
    <3>3. QED
      BY <1>12, <3>1, <3>2 DEF Unwind
  <2>3. UNCHANGED <<users, owner, session>>
    BY <1>12 DEF Unwind
  <2>4. QED
    BY <2>1, <2>2, <2>3, <1>0
<1>13. CASE UNCHANGED vars
  BY <1>13, <1>0 DEF vars
<1>14. ASSUME NEW t \in Thread,
              Retoken(t) \/ ConnectFails(t) \/ Wire(t) \/ Untoken(t)
       PROVE  Owned'
  BY <1>14, <1>6 DEF Retoken, ConnectFails, Wire, Untoken
<1>15. QED
  BY <1>1, <1>2, <1>3, <1>4, <1>5, <1>7, <1>8, <1>9, <1>10, <1>11, <1>12,
     <1>13, <1>14 DEF Next, Request, Continue, Logout, Expire

LEMMA IInvStep == IInv /\ [Next]_vars => IInv'
BY TypeStep, OwnedStep DEF IInv, Owned

LEMMA IInvHolds == Spec => []IInv
BY InitIInv, IInvStep, PTL DEF Spec

\* Every variable of the registry keeps its type.
THEOREM TypeCorrect == Spec => []TypeOK
<1>1. IInv => TypeOK
  BY DEF IInv
<1>2. QED
  BY IInvHolds, <1>1, PTL

\* No two threads ever tear down, or publish, the same connection, and none
\* tears down a connection that is still registered.
THEOREM ExclusiveHolderHolds == Spec => []ExclusiveHolder
<1>1. IInv => ExclusiveHolder
  BY DEF IInv, Owned
<1>2. QED
  BY IInvHolds, <1>1, PTL
-----------------------------------------------------------------------------
(* What becomes of a connection: it is published once, wired by the thread *)
(* that published it, and never registered again.                          *)

Wiring == {"publish", "wire"}

\* A step that has nothing to do with publishing: the map only shrinks.
Calm ==
  /\ UNCHANGED owner
  /\ \A u \in User : users'[u] = users[u] \/ users'[u] = NoConn
  /\ \A s \in Thread : \/ th'[s] = th[s]
                       \/ th[s].pc \notin Wiring /\ th'[s].pc \notin Wiring

\* Every step is calm but those of createConnection from Connect on.
LEMMA CalmStep ==
  ASSUME IInv, [Next]_vars
  PROVE  Calm \/ \E t \in Thread : Connect(t) \/ Publish(t) \/ Wire(t)
<1> USE DEF At, Becomes, Return, conns
<1>th. /\ th \in [Thread -> Locals]
       /\ \A t \in Thread : th[t] \in Locals
       /\ users \in [User -> Conn \cup {NoConn}]
  BY DEF IInv, TypeOK
<1>0. ASSUME NEW t \in Thread, NEW l, l.pc \notin Wiring,
             th[t].pc \notin Wiring, Becomes(t, l),
             UNCHANGED owner,
             \A u \in User : users'[u] = users[u] \/ users'[u] = NoConn
      PROVE  Calm
  BY <1>0, <1>th DEF Calm
<1>r. ASSUME NEW t \in Thread, th[t].pc \notin Wiring, Return(t),
             UNCHANGED owner,
             \A u \in User : users'[u] = users[u] \/ users'[u] = NoConn
      PROVE  Calm
  BY <1>r, <1>0 DEF Idle, Entry, Wiring
<1>1. CASE Tick \/ UNCHANGED vars
  BY <1>1 DEF Tick, vars, Calm
<1>2. ASSUME NEW t \in Thread, NEW u \in User, Request(t, u) PROVE Calm
  <2>1. PICK s, k, then : /\ s \in {"lookup", "take"}
                          /\ Becomes(t, Entry(s, u, k, 0, then))
    BY <1>2 DEF Request, Login, Logout, Expire, Call
  <2>2. Entry(s, u, k, 0, then).pc \notin Wiring
    BY <2>1 DEF Entry, Wiring
  <2>3. th[t].pc \notin Wiring /\ UNCHANGED <<users, owner>>
    BY <1>2 DEF Request, Login, Logout, Expire, Call, Wiring
  <2>4. QED
    BY <2>1, <2>2, <2>3, <1>0
<1>3. ASSUME NEW t \in Thread, NEW c \in Conn, ServerClose(t, c) PROVE Calm
  <2> DEFINE l == [Entry("retake", owner[c], NoToken, 1, "idle") EXCEPT !.cur = c]
  <2>1. l.pc \notin Wiring
    BY CloserFields DEF Wiring
  <2>2. Becomes(t, l)
    BY <1>3 DEF ServerClose
  <2> HIDE DEF l
  <2>3. QED
    BY <1>3, <2>1, <2>2, <1>0 DEF ServerClose, Wiring
<1>4. ASSUME NEW t \in Thread, Lookup(t) PROVE Calm
  <2> DEFINE c == users[th[t].who]
             l == [th[t] EXCEPT !.cur = c,
                     !.pc = IF c = NoConn THEN "connect" ELSE "retoken"]
  <2>1. l.pc \notin Wiring
    BY <1>th, UpdateFields DEF Wiring
  <2>2. Becomes(t, l)
    BY <1>4 DEF Lookup
  <2>3. th[t].pc \notin Wiring /\ UNCHANGED <<users, owner>>
    BY <1>4 DEF Lookup, Wiring
  <2> HIDE DEF l
  <2>4. QED
    BY <2>1, <2>2, <2>3, <1>0
<1>5. ASSUME NEW t \in Thread, Retoken(t) \/ ConnectFails(t) \/ Untoken(t) PROVE Calm
  BY <1>5, <1>r DEF Retoken, ConnectFails, Untoken, Wiring
<1>6. ASSUME NEW t \in Thread, Take(t) PROVE Calm
  <2> DEFINE c == users[th[t].who]
             l == [th[t] EXCEPT !.cur = c, !.found = c, !.pc = "discard"]
  <2>1. l.pc \notin Wiring
    BY <1>th, UpdateFields DEF Wiring
  <2>2. Return(t) \/ Becomes(t, l)
    BY <1>6 DEF Take
  <2>3. /\ th[t].pc \notin Wiring /\ UNCHANGED owner
        /\ \A u \in User : users'[u] = users[u] \/ users'[u] = NoConn
    BY <1>6, <1>th DEF Take, Wiring
  <2> HIDE DEF l
  <2>4. QED
    BY <2>1, <2>2, <2>3, <1>0, <1>r
<1>7. ASSUME NEW t \in Thread, Discard(t) PROVE Calm
  <2>1. [th[t] EXCEPT !.pc = "disconnect"].pc \notin Wiring
    BY <1>th, UpdateFields DEF Wiring
  <2>2. \A u \in User : users'[u] = users[u] \/ users'[u] = NoConn
    BY <1>7, <1>th DEF Discard
  <2>3. QED
    BY <1>7, <2>1, <2>2, <1>0 DEF Discard, Wiring
<1>8. ASSUME NEW t \in Thread, Disconnect(t) PROVE Calm
  <2> DEFINE n == IF session[th[t].cur] = "live" THEN 2 ELSE 1
             l == [th[t] EXCEPT !.cur = NoConn, !.pc = "retake", !.calls = @ + n]
  <2>1. l.pc \notin Wiring
    BY <1>th, UpdateFields DEF Wiring
  <2>2. Becomes(t, l)
    BY <1>8 DEF Disconnect
  <2>3. th[t].pc \notin Wiring /\ UNCHANGED <<users, owner>>
    BY <1>8 DEF Disconnect, Wiring
  <2> HIDE DEF l
  <2>4. QED
    BY <2>1, <2>2, <2>3, <1>0
<1>9. ASSUME NEW t \in Thread, Retake(t) PROVE Calm
  <2> DEFINE c == users[th[t].who]
             l == [th[t] EXCEPT !.calls = @ - 1, !.cur = c,
                     !.pc = IF c = NoConn THEN "retake" ELSE "discard"]
  <2>1. l.pc \notin Wiring
    BY <1>th, UpdateFields DEF Wiring
  <2>2. Becomes(t, l)
    BY <1>9 DEF Retake
  <2>3. /\ th[t].pc \notin Wiring /\ UNCHANGED owner
        /\ \A u \in User : users'[u] = users[u] \/ users'[u] = NoConn
    BY <1>9, <1>th DEF Retake, Wiring
  <2> HIDE DEF l
  <2>4. QED
    BY <2>1, <2>2, <2>3, <1>0
<1>10. ASSUME NEW t \in Thread, Unwind(t) PROVE Calm
  <2>1. [th[t] EXCEPT !.pc = "untoken"].pc \notin Wiring
    BY <1>th, UpdateFields DEF Wiring
  <2>2. QED
    BY <1>10, <2>1, <1>0, <1>r DEF Unwind, Wiring
<1>11. QED
  BY <1>1, <1>2, <1>3, <1>4, <1>5, <1>6, <1>7, <1>8, <1>9, <1>10
     DEF Next, Continue

\* What the three other steps do.
LEMMA WiringStep ==
  ASSUME IInv, NEW t \in Thread, Connect(t) \/ Publish(t) \/ Wire(t)
  PROVE  /\ \A s \in Thread \ {t} : th'[s] = th[s]
         /\ Connect(t) => /\ UNCHANGED users
                          /\ th[t].pc = "connect" /\ th'[t].pc = "publish"
                          /\ owner[th'[t].cur] = NoUser
                          /\ \A c \in Conn \ {th'[t].cur} : owner'[c] = owner[c]
         /\ Publish(t) => /\ UNCHANGED owner
                          /\ th[t].pc = "publish" /\ th'[t].pc = "wire"
                          /\ th'[t].cur = th[t].cur
                          /\ \A u \in User : users'[u] \in {users[u], th[t].cur}
         /\ Wire(t) => /\ UNCHANGED <<users, owner>>
                       /\ th[t].pc = "wire" /\ th'[t].pc = "idle"
<1> USE DEF At, Becomes, Return, conns
<1>th. /\ th \in [Thread -> Locals] /\ th[t] \in Locals
       /\ users \in [User -> Conn \cup {NoConn}]
       /\ owner \in [Conn -> User \cup {NoUser}]
  BY DEF IInv, TypeOK
<1>1. CASE Connect(t)
  <2>1. PICK c \in Conn :
          /\ owner[c] = NoUser
          /\ owner' = [owner EXCEPT ![c] = th[t].who]
          /\ Becomes(t, [th[t] EXCEPT !.cur = c, !.pc = "publish"])
    BY <1>1 DEF Connect
  <2>2. /\ th'[t].pc = "publish" /\ th'[t].cur = c
        /\ \A s \in Thread \ {t} : th'[s] = th[s]
    BY <2>1, <1>th, UpdateFields
  <2>3. QED
    BY <1>1, <2>1, <2>2, <1>th DEF Connect, Publish, Wire
<1>2. CASE Publish(t)
  <2>1. /\ th'[t].pc = "wire" /\ th'[t].cur = th[t].cur
        /\ \A s \in Thread \ {t} : th'[s] = th[s]
    BY <1>2, <1>th, UpdateFields DEF Publish
  <2>2. QED
    BY <1>2, <2>1, <1>th DEF Connect, Publish, Wire
<1>3. CASE Wire(t)
  <2>1. th'[t].pc = "idle" /\ \A s \in Thread \ {t} : th'[s] = th[s]
    BY <1>3, <1>th, EntryFields DEF Wire
  <2>2. th[t].cur \in Conn
    BY <1>3 DEF Wire, IInv, Owned, LocalsOK
  <2>3. QED
    BY <1>3, <2>1, <2>2, <1>th DEF Connect, Publish, Wire
<1>4. QED
  BY <1>1, <1>2, <1>3

LEMMA GoneStep ==
  ASSUME IInv, [Next]_vars, NEW c \in Conn, Gone(c)
  PROVE  Gone(c)'
<1>1. /\ owner[c] # NoUser
      /\ \A u \in User : users[u] # c
      /\ \A s \in Thread : th[s].pc = "publish" => th[s].cur # c
  BY DEF Gone, At
<1> SUFFICES /\ owner'[c] # NoUser
             /\ \A u \in User : users'[u] # c
             /\ \A s \in Thread : th'[s].pc = "publish" => th'[s].cur # c
  BY DEF Gone, At
<1>2. CASE Calm
  BY <1>1, <1>2, RegistryAssumption DEF Calm, Wiring
<1>3. ASSUME NEW t \in Thread, Connect(t) \/ Publish(t) \/ Wire(t)
      PROVE  /\ owner'[c] # NoUser
             /\ \A u \in User : users'[u] # c
             /\ \A s \in Thread : th'[s].pc = "publish" => th'[s].cur # c
  <2>1. CASE Connect(t)
    BY <1>1, <2>1, WiringStep
  <2>2. CASE Publish(t)
    BY <1>1, <2>2, WiringStep
  <2>3. CASE Wire(t)
    BY <1>1, <2>3, WiringStep
  <2>4. QED
    BY <1>3, <2>1, <2>2, <2>3
<1>4. QED
  BY <1>2, <1>3, CalmStep

\* A connection that left the map is never registered again, however the
\* calls that create and remove connections interleave.
THEOREM GoneForGoodHolds == Spec => GoneForGood
<1>1. IInv /\ [Next]_vars => [\A c \in Conn : Gone(c) => Gone(c)']_vars
  BY GoneStep
<1>2. QED
  BY <1>1, IInvHolds, PTL DEF Spec, GoneForGood

-----------------------------------------------------------------------------
(* The requests of a user one at a time: the registry implements           *)
(* UserSession.                                                            *)

\* At most one thread works for a user.
Alone ==
  /\ \A t \in Thread : th[t].pc = "idle" => th[t].who = NoUser
  /\ \A t, s \in Thread : th[t].who \in User /\ th[s].who = th[t].who => t = s

\* What the map holds for the user of a thread at work.  Between the removal
\* of a connection and its last nested call nothing else can fill the entry.
EntryOfUser ==
  \A t \in Thread :
    /\ th[t].pc \in {"connect", "publish", "discard", "disconnect", "untoken"} =>
         users[th[t].who] = NoConn
    /\ th[t].pc = "retake" /\ th[t].calls = 0 => users[th[t].who] = NoConn

SInv == IInv /\ Alone /\ EntryOfUser /\ NoOrphanSession

LEMMA InitSInv == Init => SInv
BY InitIInv, RegistryAssumption
   DEF Init, SInv, Alone, EntryOfUser, NoOrphanSession, Idle, Entry

LEMMA SerialIsNext == SerialNext => Next
BY DEF SerialNext, Next

\* Nobody holds a session of user u when the map has no entry for u and the
\* one thread that works for u is not about to publish or disconnect.
LEMMA NoSession ==
  ASSUME SInv, NEW u \in User, users[u] = NoConn,
         \A t \in Thread : th[t].who = u =>
           th[t].pc \notin {"publish", "discard", "disconnect"}
  PROVE  SessionsOf(u) = {}
<1> SUFFICES ASSUME NEW c \in Conn, owner[c] = u, session[c] = "live"
             PROVE FALSE
  BY DEF SessionsOf
<1>1. users[owner[c]] # c
  BY RegistryAssumption
<1>2. PICK t \in Thread : Holds(t, c)
  BY <1>1 DEF SInv, NoOrphanSession
<1>3. th[t].who = u
  BY <1>2 DEF SInv, IInv, Owned, LocalsOK, Holds
<1>4. QED
  BY <1>2, <1>3 DEF Holds

\* Two live sessions of one user are the same.
LEMMA Singleton == SInv => SingletonSession
<1> SUFFICES ASSUME SInv, NEW u \in User,
                    NEW c \in SessionsOf(u), NEW d \in SessionsOf(u)
             PROVE  c = d
  BY DEF SingletonSession
<1>1. ASSUME NEW x \in SessionsOf(u)
      PROVE  /\ x \in Conn
             /\ \/ users[u] = x
                \/ \E t \in Thread : Holds(t, x) /\ th[t].who = u /\ users[u] = NoConn
  BY DEF SInv, NoOrphanSession, SessionsOf, IInv, Owned, LocalsOK, Holds, EntryOfUser
<1>2. \A t, s \in Thread : Holds(t, c) /\ Holds(s, d) /\ th[t].who = u /\ th[s].who = u => c = d
  BY DEF SInv, Alone, Holds
<1>3. QED
  BY <1>1, <1>2, RegistryAssumption

\* A step of thread t, or of the clock, that the other threads do not notice.
LEMMA Frame ==
  ASSUME SInv, NEW t \in Thread,
         \A s \in Thread \ {t} : th'[s] = th[s],
         \A u \in User : users'[u] = users[u] \/ th[t].who = u
  PROVE  \A s \in Thread \ {t} :
           /\ th'[s] = th[s]
           /\ th'[s].who \in User /\ th[t].who \in User => th[s].who # th[t].who
           /\ th'[s].pc # "idle" => th'[s].who \in User /\ users'[th'[s].who] = users[th[s].who]
BY DEF SInv, Alone, IInv, Owned, LocalsOK

\* Alone and EntryOfUser after a step of thread t.
LEMMA LocalStep ==
  ASSUME SInv, NEW t \in Thread,
         \A s \in Thread \ {t} : th'[s] = th[s],
         \A u \in User : users'[u] = users[u] \/ th[t].who = u,
         \/ th'[t].pc = "idle" /\ th'[t].who = NoUser
         \/ /\ th'[t].pc # "idle"
            /\ th'[t].who \in User
            /\ th'[t].who = th[t].who \/ Quiet(th'[t].who),
         th'[t].pc \in {"connect", "publish", "discard", "disconnect", "untoken"} =>
           users'[th'[t].who] = NoConn,
         th'[t].pc = "retake" /\ th'[t].calls = 0 => users'[th'[t].who] = NoConn
  PROVE  Alone' /\ EntryOfUser'
<1>1. \A s \in Thread \ {t} :
        /\ th'[s] = th[s]
        /\ th'[s].who \in User /\ th[t].who \in User => th[s].who # th[t].who
        /\ th'[s].pc # "idle" => th'[s].who \in User /\ users'[th'[s].who] = users[th[s].who]
  BY Frame
<1>2. Alone'
  BY <1>1, RegistryAssumption DEF SInv, Alone, Quiet
<1>3. EntryOfUser'
  BY <1>1 DEF SInv, EntryOfUser
<1>4. QED
  BY <1>2, <1>3

\* NoOrphanSession after a step that neither opens a session, nor removes a
\* registered connection, nor lets go of a held one that is live.
LEMMA OrphanStep ==
  ASSUME SInv, NEW t \in Thread,
         \A s \in Thread \ {t} : th'[s] = th[s],
         \A c \in Conn : session'[c] = "live" => session[c] = "live" /\ owner'[c] = owner[c],
         \A u \in User, c \in Conn : users[u] = c => users'[u] = c \/ Holds(t, c)',
         \A c \in Conn : Holds(t, c) =>
           Holds(t, c)' \/ session'[c] # "live" \/ users'[owner[c]] = c
  PROVE  NoOrphanSession'
<1> SUFFICES ASSUME NEW c \in Conn, session'[c] = "live"
             PROVE  users'[owner'[c]] = c \/ \E s \in Thread : Holds(s, c)'
  BY DEF NoOrphanSession
<1>1. session[c] = "live" /\ owner'[c] = owner[c] /\ owner[c] \in User
  BY DEF SInv, IInv, Owned, SessionHasOwner
<1>2. CASE users[owner[c]] = c
  BY <1>1, <1>2, RegistryAssumption
<1>3. ASSUME NEW s \in Thread, Holds(s, c)
      PROVE  users'[owner'[c]] = c \/ \E r \in Thread : Holds(r, c)'
  <2>1. CASE s = t
    BY <1>1, <1>3, <2>1
  <2>2. CASE s # t
    BY <1>3, <2>2 DEF Holds
  <2>3. QED
    BY <2>1, <2>2
<1>4. QED
  BY <1>1, <1>2, <1>3 DEF SInv, NoOrphanSession

\* A new request of a user nobody works for.
LEMMA RequestStep ==
  ASSUME SInv, NEW t \in Thread, NEW u \in User, Quiet(u), Request(t, u)
  PROVE  Alone' /\ EntryOfUser' /\ NoOrphanSession'
<1> USE DEF SInv, IInv, Request, Login, Logout, Expire, Call, At, Becomes, conns
<1>1. /\ th'[t].pc \in {"lookup", "take"} /\ th'[t].who = u
      /\ \A s \in Thread \ {t} : th'[s] = th[s]
  BY EntryFields DEF TypeOK
<1>2. th[t].pc = "idle" /\ UNCHANGED <<users, owner, session>>
  OBVIOUS
<1>3. Alone' /\ EntryOfUser'
  BY <1>1, <1>2, LocalStep
<1>4. NoOrphanSession'
  BY <1>1, <1>2, OrphanStep DEF Holds
<1>5. QED
  BY <1>3, <1>4

LEMMA ServerCloseStep ==
  ASSUME SInv, NEW t \in Thread, NEW c \in Conn, Quiet(owner[c]), ServerClose(t, c)
  PROVE  Alone' /\ EntryOfUser' /\ NoOrphanSession'
<1> USE DEF SInv, IInv, ServerClose, At, Becomes
<1>1. /\ th'[t].pc = "retake" /\ th'[t].who = owner[c] /\ th'[t].calls = 1
      /\ \A s \in Thread \ {t} : th'[s] = th[s]
  <2>1. Entry("retake", owner[c], NoToken, 1, "idle").calls = 1
    BY DEF Entry
  <2>2. QED
    BY <2>1, EntryFields DEF TypeOK
<1>2. /\ th[t].pc = "idle" /\ owner[c] \in User
      /\ UNCHANGED <<users, owner>>
      /\ \A d \in Conn : session'[d] = "live" => session[d] = "live"
  BY DEF Owned, SessionHasOwner, TypeOK
<1>3. Alone' /\ EntryOfUser'
  BY <1>1, <1>2, LocalStep
<1>4. NoOrphanSession'
  BY <1>1, <1>2, OrphanStep DEF Holds
<1>5. QED
  BY <1>3, <1>4

\* The local variables of a thread after an update, calls included.
LEMMA UpdateCalls ==
  ASSUME NEW l \in Locals, NEW s, NEW c, NEW n
  PROVE  /\ [l EXCEPT !.pc = s].calls = l.calls
         /\ [l EXCEPT !.cur = c, !.pc = s, !.calls = n].calls = n
         /\ [l EXCEPT !.calls = n, !.cur = c, !.pc = s].calls = n
         /\ Idle.who = NoUser
BY DEF Locals, Idle, Entry

LEMMA ContinueStep ==
  ASSUME SInv, NEW t \in Thread, Continue(t)
  PROVE  Alone' /\ EntryOfUser' /\ NoOrphanSession'
<1> USE RegistryAssumption DEF SInv, IInv, Owned, At, Becomes, Return
<1>th. /\ th \in [Thread -> Locals]
       /\ th[t] \in Locals
       /\ th[t].calls \in Nat
       /\ th[t].who \in User
       /\ users \in [User -> Conn \cup {NoConn}]
       /\ session \in [Conn -> {"none", "live", "closed"}]
       /\ owner \in [Conn -> User \cup {NoUser}]
  BY FieldTypes DEF TypeOK, LocalsOK, Continue, Lookup, Retoken, Connect, ConnectFails,
     Publish, Wire, Take, Discard, Disconnect, Retake, Unwind, Untoken
<1> DEFINE c == users[th[t].who]
<1>1. CASE /\ Return(t) /\ UNCHANGED <<users, owner, session>>
           /\ th[t].pc \notin {"publish", "discard", "disconnect"}
  <2>1. /\ th'[t].pc = "idle" /\ th'[t].who = NoUser
        /\ \A s \in Thread \ {t} : th'[s] = th[s]
    BY <1>1, <1>th, EntryFields, UpdateCalls
  <2>2. Alone' /\ EntryOfUser'
    BY <1>1, <2>1, LocalStep
  <2>3. NoOrphanSession'
    BY <1>1, <2>1, OrphanStep DEF Holds
  <2>4. QED
    BY <2>2, <2>3
<1>2. CASE Retoken(t) \/ ConnectFails(t) \/ Wire(t) \/ Untoken(t)
  BY <1>1, <1>2 DEF Retoken, ConnectFails, Wire, Untoken, conns
<1>3. CASE Lookup(t)
  <2>1. /\ th'[t].pc = IF c = NoConn THEN "connect" ELSE "retoken"
        /\ th'[t].who = th[t].who
        /\ \A s \in Thread \ {t} : th'[s] = th[s]
    BY <1>3, <1>th, UpdateFields DEF Lookup
  <2>2. UNCHANGED <<users, owner, session>> /\ th[t].pc = "lookup"
    BY <1>3 DEF Lookup, conns
  <2>3. Alone' /\ EntryOfUser'
    BY <1>th, <2>1, <2>2, LocalStep
  <2>4. NoOrphanSession'
    BY <2>1, <2>2, OrphanStep DEF Holds
  <2>5. QED
    BY <2>3, <2>4
<1>4. CASE Connect(t)
  <2>1. PICK d \in Conn, s \in {"live", "none"} :
          /\ owner[d] = NoUser
          /\ owner' = [owner EXCEPT ![d] = th[t].who]
          /\ session' = [session EXCEPT ![d] = s]
          /\ Becomes(t, [th[t] EXCEPT !.cur = d, !.pc = "publish"])
    BY <1>4 DEF Connect
  <2>2. /\ th'[t].pc = "publish" /\ th'[t].cur = d /\ th'[t].who = th[t].who
        /\ \A r \in Thread \ {t} : th'[r] = th[r]
    BY <2>1, <1>th, UpdateFields
  <2>3. UNCHANGED users /\ th[t].pc = "connect"
    BY <1>4 DEF Connect
  <2>4. users[th[t].who] = NoConn
    BY <2>3 DEF EntryOfUser
  <2>5. Alone' /\ EntryOfUser'
    BY <1>th, <2>2, <2>3, <2>4, LocalStep
  <2>6. \A r \in Thread, x \in Conn : Holds(r, x) => Holds(r, x)'
    BY <2>2, <2>3 DEF Holds
  <2>7. \A x \in Conn \ {d} : owner'[x] = owner[x] /\ session'[x] = session[x]
    BY <2>1, <1>th
  <2>8. NoOrphanSession'
    BY <2>2, <2>3, <2>6, <2>7 DEF NoOrphanSession, Holds
  <2>9. QED
    BY <2>5, <2>8
<1>5. CASE Publish(t)
  <2>1. /\ th'[t].pc = "wire" /\ th'[t].who = th[t].who
        /\ \A s \in Thread \ {t} : th'[s] = th[s]
    BY <1>5, <1>th, UpdateFields DEF Publish
  <2>2. UNCHANGED <<owner, session>> /\ th[t].pc = "publish"
    BY <1>5 DEF Publish, conns
  <2>3. /\ users'[th[t].who] = th[t].cur
        /\ \A u \in User \ {th[t].who} : users'[u] = users[u]
    BY <1>5, <1>th DEF Publish
  <2>4. users[th[t].who] = NoConn /\ owner[th[t].cur] = th[t].who
    BY <2>2 DEF EntryOfUser, LocalsOK
  <2>5. Alone' /\ EntryOfUser'
    BY <1>th, <2>1, <2>3, LocalStep
  <2>6. NoOrphanSession'
    BY <2>1, <2>2, <2>3, <2>4, OrphanStep DEF Holds
  <2>7. QED
    BY <2>5, <2>6
<1>6. CASE Take(t)
  <2>1. users'[th[t].who] = NoConn /\ \A u \in User \ {th[t].who} : users'[u] = users[u]
    BY <1>6, <1>th DEF Take
  <2>2. UNCHANGED <<owner, session>> /\ th[t].pc = "take"
    BY <1>6 DEF Take, conns
  <2>3. CASE c = NoConn
    BY <1>1, <1>6, <1>th, <2>1, <2>2, <2>3 DEF Take
  <2>4. CASE c # NoConn
    <3>1. th' = [th EXCEPT ![t] = [th[t] EXCEPT !.cur = c, !.found = c, !.pc = "discard"]]
      BY <1>6, <2>4 DEF Take
    <3>2. th'[t] = [th[t] EXCEPT !.cur = c, !.found = c, !.pc = "discard"]
      BY <3>1, <1>th
    <3>3. /\ th'[t].pc = "discard" /\ th'[t].cur = c /\ th'[t].who = th[t].who
          /\ \A s \in Thread \ {t} : th'[s] = th[s]
      BY <3>1, <3>2, <1>th, UpdateFields
    <3>4. Alone' /\ EntryOfUser'
      BY <1>th, <2>1, <3>3, LocalStep
    <3>5. \A u \in User, d \in Conn : users[u] = d => users'[u] = d \/ Holds(t, d)'
      BY <2>1, <3>3 DEF Holds
    <3>6. NoOrphanSession'
      BY <2>2, <3>3, <3>5, OrphanStep DEF Holds
    <3>7. QED
      BY <3>4, <3>6
  <2>5. QED
    BY <2>3, <2>4
<1>7. CASE Discard(t)
  <2>1. /\ th'[t].pc = "disconnect" /\ th'[t].cur = th[t].cur /\ th'[t].who = th[t].who
        /\ \A s \in Thread \ {t} : th'[s] = th[s]
    BY <1>7, <1>th, UpdateFields DEF Discard
  <2>2. UNCHANGED <<owner, session>> /\ th[t].pc = "discard"
    BY <1>7 DEF Discard, conns
  <2>3. users[th[t].who] = NoConn /\ owner[th[t].cur] = th[t].who
    BY <2>2 DEF EntryOfUser, LocalsOK
  <2>4. users' = users
    BY <1>7, <2>3, <1>th DEF Discard
  <2>5. Alone' /\ EntryOfUser'
    BY <1>th, <2>1, <2>3, <2>4, LocalStep
  <2>6. NoOrphanSession'
    BY <2>1, <2>2, <2>4, OrphanStep DEF Holds
  <2>7. QED
    BY <2>5, <2>6
<1>8. CASE Disconnect(t)
  <2> DEFINE n == IF session[th[t].cur] = "live" THEN 2 ELSE 1
  <2>1. th' = [th EXCEPT ![t] = [th[t] EXCEPT !.cur = NoConn, !.pc = "retake", !.calls = @ + n]]
    BY <1>8 DEF Disconnect
  <2>2. th'[t] = [th[t] EXCEPT !.cur = NoConn, !.pc = "retake", !.calls = th[t].calls + n]
    BY <2>1, <1>th
  <2>3. /\ th'[t].pc = "retake" /\ th'[t].who = th[t].who /\ th'[t].calls = th[t].calls + n
        /\ \A s \in Thread \ {t} : th'[s] = th[s]
    BY <2>1, <2>2, <1>th, UpdateFields, UpdateCalls
  <2>4. UNCHANGED <<users, owner>> /\ th[t].pc = "disconnect" /\ th[t].cur \in Conn
    BY <1>8 DEF Disconnect, LocalsOK
  <2>5. users[th[t].who] = NoConn
    BY <2>4 DEF EntryOfUser
  <2>6. Alone' /\ EntryOfUser'
    BY <1>th, <2>3, <2>4, <2>5, LocalStep
  <2>7. \A d \in Conn : session'[d] = "live" => session[d] = "live" /\ d # th[t].cur
    BY <1>8, <2>4, <1>th DEF Disconnect
  <2>8. NoOrphanSession'
    BY <2>3, <2>4, <2>7, OrphanStep DEF Holds
  <2>9. QED
    BY <2>6, <2>8
<1>9. CASE Retake(t)
  <2> DEFINE l == [th[t] EXCEPT !.calls = @ - 1, !.cur = c,
                     !.pc = IF c = NoConn THEN "retake" ELSE "discard"]
  <2>1. users'[th[t].who] = NoConn /\ \A u \in User \ {th[t].who} : users'[u] = users[u]
    BY <1>9, <1>th DEF Retake
  <2>2. UNCHANGED <<owner, session>> /\ th[t].pc = "retake"
    BY <1>9 DEF Retake, conns
  <2>3. th' = [th EXCEPT ![t] = l]
    BY <1>9 DEF Retake
  <2>4. th'[t] = l
    BY <2>3, <1>th
  <2>5. /\ th'[t].pc = IF c = NoConn THEN "retake" ELSE "discard"
        /\ th'[t].cur = c /\ th'[t].who = th[t].who
        /\ \A s \in Thread \ {t} : th'[s] = th[s]
    BY <2>3, <2>4, <1>th, UpdateFields
  <2>6. Alone' /\ EntryOfUser'
    BY <1>th, <2>1, <2>5, LocalStep
  <2>8. \A u \in User, d \in Conn : users[u] = d => users'[u] = d \/ Holds(t, d)'
    BY <2>1, <2>5 DEF Holds
  <2>9. NoOrphanSession'
    BY <2>2, <2>5, <2>8, OrphanStep DEF Holds
  <2>10. QED
    BY <2>6, <2>9
<1>10. CASE Unwind(t)
  <2>1. UNCHANGED <<users, owner, session>> /\ th[t].pc = "retake" /\ th[t].calls = 0
    BY <1>10 DEF Unwind, conns
  <2>2. users[th[t].who] = NoConn
    BY <2>1 DEF EntryOfUser
  <2>3. CASE Return(t)
    BY <1>1, <2>1, <2>3
  <2>4. CASE Becomes(t, [th[t] EXCEPT !.pc = "untoken"])
    <3>1. /\ th'[t].pc = "untoken" /\ th'[t].who = th[t].who
          /\ \A s \in Thread \ {t} : th'[s] = th[s]
      BY <2>4, <1>th, UpdateFields
    <3>2. Alone' /\ EntryOfUser'
      BY <1>th, <2>1, <2>2, <3>1, LocalStep
    <3>3. NoOrphanSession'
      BY <2>1, <3>1, OrphanStep DEF Holds
    <3>4. QED
      BY <3>2, <3>3
  <2>5. QED
    BY <1>10, <2>3, <2>4 DEF Unwind
<1>11. QED
  BY <1>2, <1>3, <1>4, <1>5, <1>6, <1>7, <1>8, <1>9, <1>10 DEF Continue

LEMMA SInvStep == SInv /\ [SerialNext]_vars => SInv'
<1> SUFFICES ASSUME SInv, [SerialNext]_vars PROVE SInv'
  OBVIOUS
<1>1. IInv'
  BY SerialIsNext, IInvStep DEF SInv
<1>2. CASE Tick \/ UNCHANGED vars
  <2>1. UNCHANGED <<users, owner, session, th>>
    BY <1>2 DEF Tick, vars, conns
  <2>2. QED
    BY <1>1, <2>1 DEF SInv, Alone, EntryOfUser, NoOrphanSession, Holds
<1>3. CASE \E t \in Thread, u \in User : Quiet(u) /\ Request(t, u)
  BY <1>1, <1>3, RequestStep DEF SInv
<1>4. CASE \E t \in Thread, c \in Conn : Quiet(owner[c]) /\ ServerClose(t, c)
  BY <1>1, <1>4, ServerCloseStep DEF SInv
<1>5. CASE \E t \in Thread : Continue(t)
  BY <1>1, <1>5, ContinueStep DEF SInv
<1>6. QED
  BY <1>2, <1>3, <1>4, <1>5 DEF SerialNext

LEMMA SInvHolds == SerialSpec => []SInv
BY InitSInv, SInvStep, PTL DEF SerialSpec

\* With one request of a user at a time, a user never has two XMPP sessions.
THEOREM SerialSingleton == SerialSpec => []SingletonSession
BY SInvHolds, Singleton, PTL

\* With one request of a user at a time, no live session is lost: removing
\* the user's registered connection always reaches it.
THEOREM SerialNoOrphan == SerialSpec => []NoOrphanSession
<1>1. SInv => NoOrphanSession
  BY DEF SInv
<1>2. QED
  BY SInvHolds, <1>1, PTL
-----------------------------------------------------------------------------
(* The refinement: a login that gets a session is Open, a disconnect or a  *)
(* close by the server that ends one is Close, and every other step leaves *)
(* the sessions as they are.                                               *)

Sessions == [u \in User |-> SessionsOf(u)]
Ended == {c \in Conn : session[c] = "closed"}

LEMMA InitMaps == Init => Promise!Init
BY DEF Init, Promise!Init, SessionsOf

\* A step that changes neither the owner nor the state of any session.
LEMMA StutterMaps ==
  ASSUME UNCHANGED <<owner, session>>
  PROVE  UNCHANGED <<Sessions, Ended>>
BY DEF Sessions, Ended, SessionsOf

\* A step that ends the live session of connection c.
LEMMA CloseMaps ==
  ASSUME SInv, NEW c \in Conn, session[c] = "live",
         session' = [session EXCEPT ![c] = "closed"], UNCHANGED owner
  PROVE  Promise!Close(owner[c], c) /\ owner[c] \in User
<1>1. /\ owner[c] \in User
      /\ session \in [Conn -> {"none", "live", "closed"}]
  BY DEF SInv, IInv, Owned, SessionHasOwner, TypeOK
<1>2. SessionsOf(owner[c]) = {c}
  BY <1>1, Singleton DEF SingletonSession, SessionsOf
<1>3. /\ SessionsOf(owner[c])' = {}
      /\ \A u \in User \ {owner[c]} : SessionsOf(u)' = SessionsOf(u)
  BY <1>1, <1>2 DEF SessionsOf
<1>4. Sessions' = [Sessions EXCEPT ![owner[c]] = {}]
  BY <1>1, <1>3 DEF Sessions
<1>5. Ended' = Ended \cup {c}
  BY <1>1 DEF Ended
<1>6. QED
  BY <1>1, <1>2, <1>4, <1>5 DEF Promise!Close, Sessions, Ended

\* A login that gets a session: its user has none, and the connection is new.
LEMMA ConnectMaps ==
  ASSUME SInv, NEW t \in Thread, Connect(t)
  PROVE  (\E u \in User, c \in Conn : Promise!Open(u, c)) \/ UNCHANGED <<Sessions, Ended>>
<1>1. PICK c \in Conn, s \in {"live", "none"} :
        /\ owner[c] = NoUser
        /\ owner' = [owner EXCEPT ![c] = th[t].who]
        /\ session' = [session EXCEPT ![c] = s]
  BY DEF Connect
<1> DEFINE u == th[t].who
<1>2. /\ u \in User
      /\ users[u] = NoConn
      /\ \A r \in Thread : th[r].who = u => r = t
      /\ th[t].pc = "connect"
  BY DEF Connect, At, SInv, IInv, Owned, LocalsOK, EntryOfUser, Alone
<1>3. SessionsOf(u) = {}
  BY <1>2, NoSession
<1>4. /\ session \in [Conn -> {"none", "live", "closed"}]
      /\ owner \in [Conn -> User \cup {NoUser}]
      /\ session[c] = "none"
  BY <1>1, RegistryAssumption DEF SInv, IInv, Owned, SessionHasOwner, TypeOK
<1>5. \A d \in Conn \ {c} : owner'[d] = owner[d] /\ session'[d] = session[d]
  BY <1>1, <1>4
<1>6. owner'[c] = u /\ session'[c] = s
  BY <1>1, <1>4
<1>7. UNCHANGED Ended
  BY <1>4, <1>5, <1>6 DEF Ended
<1>8. CASE s = "none"
  <2>1. \A v \in User : {d \in Conn : owner'[d] = v /\ session'[d] = "live"}
                      = {d \in Conn : owner[d] = v /\ session[d] = "live"}
    BY <1>4, <1>5, <1>6, <1>8
  <2>2. UNCHANGED Sessions
    BY <2>1 DEF Sessions, SessionsOf
  <2>3. QED
    BY <1>7, <2>2
<1>9. CASE s = "live"
  <2>1. {d \in Conn : owner'[d] = u /\ session'[d] = "live"} = {c}
    BY <1>3, <1>4, <1>5, <1>6, <1>9 DEF SessionsOf
  <2>2. \A v \in User \ {u} : {d \in Conn : owner'[d] = v /\ session'[d] = "live"}
                            = {d \in Conn : owner[d] = v /\ session[d] = "live"}
    BY <1>4, <1>5, <1>6
  <2>3. Sessions' = [Sessions EXCEPT ![u] = {c}]
    BY <1>2, <2>1, <2>2 DEF Sessions, SessionsOf
  <2>4. Promise!Open(u, c)
    BY <1>2, <1>3, <1>4, <1>7, <2>3 DEF Promise!Open, Sessions, Ended
  <2>5. QED
    BY <1>2, <2>4
<1>10. QED
  BY <1>8, <1>9

LEMMA StepMaps ==
  SInv /\ [SerialNext]_vars => [Promise!Next]_<<Sessions, Ended>>
<1> SUFFICES ASSUME SInv, [SerialNext]_vars
             PROVE  Promise!Next \/ UNCHANGED <<Sessions, Ended>>
  OBVIOUS
<1>1. ASSUME UNCHANGED <<owner, session>>
      PROVE  UNCHANGED <<Sessions, Ended>>
  BY <1>1, StutterMaps
<1>2. CASE Tick \/ UNCHANGED vars
  BY <1>1, <1>2 DEF Tick, vars, conns
<1>3. ASSUME NEW t \in Thread, NEW u \in User, Request(t, u)
      PROVE  UNCHANGED <<Sessions, Ended>>
  BY <1>1, <1>3 DEF Request, Login, Logout, Expire, Call, conns
<1>4. ASSUME NEW t \in Thread, NEW c \in Conn, ServerClose(t, c)
      PROVE  Promise!Next
  BY <1>4, CloseMaps DEF ServerClose, Promise!Next
<1>5. ASSUME NEW t \in Thread, Continue(t)
      PROVE  Promise!Next \/ UNCHANGED <<Sessions, Ended>>
  <2>1. CASE Connect(t)
    BY <2>1, ConnectMaps DEF Promise!Next
  <2>2. CASE Disconnect(t)
    <3>1. th[t].cur \in Conn /\ UNCHANGED owner
      BY <2>2 DEF Disconnect, At, SInv, IInv, Owned, LocalsOK
    <3>2. CASE session[th[t].cur] = "live"
      <4>1. session' = [session EXCEPT ![th[t].cur] = "closed"]
        BY <2>2, <3>2 DEF Disconnect
      <4>2. QED
        BY <3>1, <3>2, <4>1, CloseMaps DEF Promise!Next
    <3>3. CASE session[th[t].cur] # "live"
      <4>1. UNCHANGED session
        BY <2>2, <3>1, <3>3 DEF Disconnect, SInv, IInv, TypeOK
      <4>2. QED
        BY <1>1, <3>1, <4>1
    <3>4. QED
      BY <3>2, <3>3
  <2>3. CASE ~Connect(t) /\ ~Disconnect(t)
    BY <1>1, <1>5, <2>3 DEF Continue, Lookup, Retoken, ConnectFails, Publish, Wire,
       Take, Discard, Retake, Unwind, Untoken, conns
  <2>4. QED
    BY <2>1, <2>2, <2>3
<1>6. QED
  BY <1>2, <1>3, <1>4, <1>5 DEF SerialNext

\* With one request of a user at a time, the registry keeps the promise of a
\* singleton session that is created on demand and removed for good.
THEOREM SerialRefinement == SerialSpec => ImplementsUserSession
<1>1. Init => Promise!Init
  BY InitMaps
<1>2. SInv /\ [SerialNext]_vars =>
        [Promise!Next]_<<[u \in User |-> SessionsOf(u)], {c \in Conn : session[c] = "closed"}>>
  BY StepMaps DEF Sessions, Ended
<1>3. QED
  BY <1>1, <1>2, SInvHolds, PTL DEF ImplementsUserSession, Promise!Spec, SerialSpec
-----------------------------------------------------------------------------
(* Tokens: the token of a registered connection is one that authenticates. *)
(* What onClose removes is the token of a connection that is gone, of a    *)
(* user nobody else works for.                                             *)

\* The steps of a login, and those of a removal once it has its connection.
LoginStep == {"lookup", "retoken", "connect"}
Ending == {"discard", "disconnect", "retake", "untoken"}

\* A connection has a token of its owner.
TokenOfOwner ==
  \A c \in Conn : owner[c] \in User => token[c] \in Token /\ token[c][1] = owner[c]

\* A login brings a valid token of its user, and its connection gets it.
LoginToken ==
  \A t \in Thread :
    /\ th[t].pc \in LoginStep => th[t].tok \in tokens /\ th[t].tok[1] = th[t].who
    /\ th[t].pc = "publish" => token[th[t].cur] \in tokens

\* What onClose gets back is a connection of its user.
FoundOfUser ==
  \A t \in Thread :
    /\ th[t].pc \in Ending /\ th[t].after = "untoken" =>
         th[t].found \in Conn /\ owner[th[t].found] = th[t].who
    /\ th[t].pc = "untoken" => th[t].after = "untoken"

TokInv == TokenOfOwner /\ LoginToken /\ FoundOfUser /\ TokenOfConnectionValid

LEMMA InitTokInv == Init => TokInv
BY RegistryAssumption
   DEF Init, TokInv, TokenOfOwner, LoginToken, FoundOfUser,
       TokenOfConnectionValid, Idle, Entry, LoginStep, Ending

LEMMA UpdateTokens ==
  ASSUME NEW l \in Locals, NEW s, NEW c, NEW n
  PROVE  /\ [l EXCEPT !.pc = s].tok = l.tok
         /\ [l EXCEPT !.pc = s].found = l.found
         /\ [l EXCEPT !.pc = s].after = l.after
         /\ [l EXCEPT !.cur = c, !.pc = s].tok = l.tok
         /\ [l EXCEPT !.cur = c, !.found = c, !.pc = s].found = c
         /\ [l EXCEPT !.cur = c, !.pc = s, !.calls = n].found = l.found
         /\ [l EXCEPT !.cur = c, !.pc = s, !.calls = n].after = l.after
         /\ [l EXCEPT !.calls = n, !.cur = c, !.pc = s].found = l.found
         /\ [l EXCEPT !.calls = n, !.cur = c, !.pc = s].after = l.after
BY DEF Locals

\* A step of thread t that takes no token away and changes no connection.
LEMMA TokFrame ==
  ASSUME SInv, TokInv, NEW t \in Thread,
         \A s \in Thread \ {t} : th'[s] = th[s],
         UNCHANGED <<owner, token>>,
         tokens \subseteq tokens',
         \A u \in User : \/ users'[u] = users[u]
                         \/ users'[u] = NoConn
                         \/ token[users'[u]] \in tokens,
         th'[t].pc \in LoginStep =>
           th'[t].tok \in tokens' /\ th'[t].tok[1] = th'[t].who,
         th'[t].pc = "publish" => token[th'[t].cur] \in tokens,
         th'[t].pc \in Ending /\ th'[t].after = "untoken" =>
           th'[t].found \in Conn /\ owner[th'[t].found] = th'[t].who,
         th'[t].pc = "untoken" => th'[t].after = "untoken"
  PROVE  TokInv'
<1>1. TokenOfOwner'
  BY DEF TokInv, TokenOfOwner
<1>2. LoginToken'
  BY DEF TokInv, LoginToken
<1>3. FoundOfUser'
  BY DEF TokInv, FoundOfUser
<1>4. TokenOfConnectionValid'
  BY DEF TokInv, TokenOfConnectionValid
<1>5. QED
  BY <1>1, <1>2, <1>3, <1>4 DEF TokInv

LEMMA TokRequest ==
  ASSUME SInv, TokInv, NEW t \in Thread, NEW u \in User, Request(t, u)
  PROVE  TokInv'
<1> USE DEF At, Becomes, conns
<1>th. th \in [Thread -> Locals]
  BY DEF SInv, IInv, TypeOK
<1>1. CASE Login(t, u)
  <2>1. th'[t] = Entry("lookup", u, <<u, now>>, 0, "idle") /\ \A s \in Thread \ {t} : th'[s] = th[s]
    BY <1>1, <1>th DEF Login
  <2>2. th'[t].pc = "lookup" /\ th'[t].tok = <<u, now>> /\ th'[t].who = u
    BY <2>1 DEF Entry
  <2>3. UNCHANGED <<users, owner, token>> /\ tokens' = tokens \cup {<<u, now>>}
    BY <1>1 DEF Login
  <2>4. QED
    BY <2>1, <2>2, <2>3, TokFrame DEF Ending
<1>2. ASSUME NEW then, Call(t, u, then) PROVE TokInv'
  <2>1. th'[t] = Entry("take", u, NoToken, 0, then) /\ \A s \in Thread \ {t} : th'[s] = th[s]
    BY <1>2, <1>th DEF Call
  <2>2. th'[t].pc = "take"
    BY <2>1 DEF Entry
  <2>3. UNCHANGED <<users, owner, token, tokens>>
    BY <1>2 DEF Call
  <2>4. QED
    BY <2>1, <2>2, <2>3, TokFrame DEF Ending, LoginStep
<1>3. QED
  BY <1>1, <1>2 DEF Request, Logout, Expire

LEMMA TokServerClose ==
  ASSUME SInv, TokInv, NEW t \in Thread, NEW c \in Conn, ServerClose(t, c)
  PROVE  TokInv'
<1> USE DEF At, Becomes, conns
<1> DEFINE l == [Entry("retake", owner[c], NoToken, 1, "idle") EXCEPT !.cur = c]
<1>l. l.pc = "retake" /\ l.after = "idle"
  BY CloserFields
<1>b. th' = [th EXCEPT ![t] = l]
  BY DEF ServerClose
<1> HIDE DEF l
<1>1. /\ th'[t] = l
      /\ \A s \in Thread \ {t} : th'[s] = th[s]
  BY <1>b DEF SInv, IInv, TypeOK
<1>2. th'[t].pc = "retake" /\ th'[t].after = "idle"
  BY <1>1, <1>l
<1>3. UNCHANGED <<users, owner, token, tokens>>
  BY DEF ServerClose
<1>4. QED
  BY <1>1, <1>2, <1>3, TokFrame DEF Ending, LoginStep

LEMMA TokContinue ==
  ASSUME SInv, TokInv, NEW t \in Thread, Continue(t)
  PROVE  TokInv'
<1> USE RegistryAssumption DEF At, Becomes, Return, conns
<1>th. /\ th \in [Thread -> Locals]
       /\ th[t] \in Locals
       /\ th[t].who \in User
       /\ users \in [User -> Conn \cup {NoConn}]
       /\ owner \in [Conn -> User \cup {NoUser}]
       /\ token \in [Conn -> Token \cup {NoToken}]
       /\ tokens \in SUBSET Token
  BY FieldTypes DEF SInv, IInv, Owned, TypeOK, LocalsOK, Continue, Lookup, Retoken, Connect,
     ConnectFails, Publish, Wire, Take, Discard, Disconnect, Retake, Unwind, Untoken
<1>inv. LoginToken /\ FoundOfUser /\ TokenOfOwner /\ TokenOfConnectionValid
  BY DEF TokInv
<1>own. LocalsOK /\ RegisteredUnderOwner
  BY DEF SInv, IInv, Owned
<1> DEFINE c == users[th[t].who]
<1>1. CASE Return(t) /\ UNCHANGED <<owner, token, tokens>>
           /\ \A u \in User : users'[u] = users[u] \/ users'[u] = NoConn
  <2>1. th'[t].pc = "idle" /\ \A s \in Thread \ {t} : th'[s] = th[s]
    BY <1>1, <1>th, EntryFields
  <2>2. QED
    BY <1>1, <2>1, TokFrame DEF Ending, LoginStep
<1>2. CASE ConnectFails(t) \/ Wire(t)
  BY <1>1, <1>2 DEF ConnectFails, Wire
<1>3. CASE Lookup(t)
  <2>1. /\ th'[t].pc = IF c = NoConn THEN "connect" ELSE "retoken"
        /\ th'[t].who = th[t].who /\ th'[t].tok = th[t].tok
        /\ \A s \in Thread \ {t} : th'[s] = th[s]
    BY <1>3, <1>th, UpdateFields, UpdateTokens DEF Lookup
  <2>2. UNCHANGED <<users, owner, token, tokens>> /\ th[t].pc = "lookup"
    BY <1>3 DEF Lookup
  <2>3. th[t].tok \in tokens /\ th[t].tok[1] = th[t].who
    BY <2>2, <1>inv DEF LoginToken, LoginStep
  <2>4. QED
    BY <2>1, <2>2, <2>3, TokFrame DEF Ending, LoginStep
<1>4. CASE Retoken(t)
  <2>1. th'[t].pc = "idle" /\ \A s \in Thread \ {t} : th'[s] = th[s]
    BY <1>4, <1>th, EntryFields DEF Retoken
  <2>2. UNCHANGED <<users, owner, tokens>> /\ th[t].pc = "retoken"
    BY <1>4 DEF Retoken
  <2>3. th[t].cur \in Conn /\ owner[th[t].cur] = th[t].who
    BY <2>2, <1>own DEF LocalsOK
  <2>4. th[t].tok \in tokens /\ th[t].tok[1] = th[t].who
    BY <2>2, <1>inv DEF LoginToken, LoginStep
  <2>5. /\ token'[th[t].cur] = th[t].tok
        /\ \A d \in Conn \ {th[t].cur} : token'[d] = token[d]
    BY <1>4, <1>th, <2>3 DEF Retoken
  <2>6. TokenOfOwner'
    BY <1>th, <1>inv, <2>2, <2>3, <2>4, <2>5 DEF TokenOfOwner
  <2>7. LoginToken'
    BY <1>inv, <1>own, <2>1, <2>2, <2>4, <2>5 DEF LoginToken, LoginStep, LocalsOK
  <2>8. FoundOfUser'
    BY <1>inv, <2>1, <2>2 DEF FoundOfUser, Ending
  <2>9. TokenOfConnectionValid'
    BY <1>th, <1>inv, <2>2, <2>4, <2>5 DEF TokenOfConnectionValid
  <2>10. QED
    BY <2>6, <2>7, <2>8, <2>9 DEF TokInv
<1>5. CASE Connect(t)
  <2>1. PICK d \in Conn :
          /\ owner[d] = NoUser
          /\ owner' = [owner EXCEPT ![d] = th[t].who]
          /\ token' = [token EXCEPT ![d] = th[t].tok]
          /\ Becomes(t, [th[t] EXCEPT !.cur = d, !.pc = "publish"])
    BY <1>5 DEF Connect
  <2>2. /\ th'[t].pc = "publish" /\ th'[t].cur = d
        /\ \A s \in Thread \ {t} : th'[s] = th[s]
    BY <2>1, <1>th, UpdateFields
  <2>3. UNCHANGED <<users, tokens>> /\ th[t].pc = "connect"
    BY <1>5 DEF Connect
  <2>4. th[t].tok \in tokens /\ th[t].tok[1] = th[t].who
    BY <2>3, <1>inv DEF LoginToken, LoginStep
  <2>5. /\ token'[d] = th[t].tok /\ owner'[d] = th[t].who
        /\ \A x \in Conn \ {d} : token'[x] = token[x] /\ owner'[x] = owner[x]
    BY <2>1, <1>th
  <2>6. TokenOfOwner'
    BY <1>th, <1>inv, <2>4, <2>5 DEF TokenOfOwner
  <2>7. LoginToken'
    BY <1>inv, <1>own, <2>1, <2>2, <2>3, <2>4, <2>5 DEF LoginToken, LoginStep, LocalsOK
  <2>8. FoundOfUser'
    <3>1. \A s \in Thread : s # t /\ th[s].pc \in Ending => th[s].who \in User
      BY <1>own DEF LocalsOK, Ending
    <3>2. QED
      BY <1>inv, <2>1, <2>2, <2>5, <3>1 DEF FoundOfUser, Ending
  <2>9. TokenOfConnectionValid'
    BY <1>th, <1>inv, <1>own, <2>1, <2>3, <2>5 DEF TokenOfConnectionValid, RegisteredUnderOwner
  <2>10. QED
    BY <2>6, <2>7, <2>8, <2>9 DEF TokInv
<1>6. CASE Publish(t)
  <2>1. th'[t].pc = "wire" /\ \A s \in Thread \ {t} : th'[s] = th[s]
    BY <1>6, <1>th, UpdateFields DEF Publish
  <2>2. UNCHANGED <<owner, token, tokens>> /\ th[t].pc = "publish"
    BY <1>6 DEF Publish
  <2>3. token[th[t].cur] \in tokens
    BY <2>2, <1>inv DEF LoginToken
  <2>4. \A u \in User : users'[u] = users[u] \/ users'[u] = th[t].cur
    BY <1>6, <1>th DEF Publish
  <2>5. QED
    BY <2>1, <2>2, <2>3, <2>4, TokFrame DEF Ending, LoginStep
<1>7. CASE Take(t)
  <2>1. UNCHANGED <<owner, token, tokens>> /\ \A u \in User : users'[u] = users[u] \/ users'[u] = NoConn
    BY <1>7, <1>th DEF Take
  <2>2. CASE c = NoConn
    BY <1>1, <1>7, <2>1, <2>2 DEF Take
  <2>3. CASE c # NoConn
    <3>1. th' = [th EXCEPT ![t] = [th[t] EXCEPT !.cur = c, !.found = c, !.pc = "discard"]]
      BY <1>7, <2>3 DEF Take
    <3>2. th'[t] = [th[t] EXCEPT !.cur = c, !.found = c, !.pc = "discard"]
      BY <3>1, <1>th
    <3>3. /\ th'[t].pc = "discard" /\ th'[t].found = c /\ th'[t].who = th[t].who
          /\ \A s \in Thread \ {t} : th'[s] = th[s]
      BY <3>1, <3>2, <1>th, UpdateFields, UpdateTokens
    <3>4. c \in Conn /\ owner[c] = th[t].who
      BY <1>th, <1>own, <2>3 DEF RegisteredUnderOwner
    <3>5. QED
      BY <2>1, <3>3, <3>4, TokFrame DEF Ending, LoginStep
  <2>4. QED
    BY <2>2, <2>3
<1>8. CASE Discard(t)
  <2>1. /\ th'[t].pc = "disconnect" /\ th'[t].who = th[t].who
        /\ th'[t].found = th[t].found /\ th'[t].after = th[t].after
        /\ \A s \in Thread \ {t} : th'[s] = th[s]
    BY <1>8, <1>th, UpdateFields, UpdateTokens DEF Discard
  <2>2. UNCHANGED <<owner, token, tokens>> /\ th[t].pc = "discard"
    BY <1>8 DEF Discard
  <2>3. \A u \in User : users'[u] = users[u] \/ users'[u] = NoConn
    BY <1>8, <1>th DEF Discard
  <2>4. QED
    BY <1>inv, <2>1, <2>2, <2>3, TokFrame DEF Ending, LoginStep, FoundOfUser
<1>9. CASE Disconnect(t)
  <2> DEFINE n == IF session[th[t].cur] = "live" THEN 2 ELSE 1
  <2>1. th' = [th EXCEPT ![t] = [th[t] EXCEPT !.cur = NoConn, !.pc = "retake", !.calls = @ + n]]
    BY <1>9 DEF Disconnect
  <2>2. th'[t] = [th[t] EXCEPT !.cur = NoConn, !.pc = "retake", !.calls = th[t].calls + n]
    BY <2>1, <1>th
  <2>3. /\ th'[t].pc = "retake" /\ th'[t].who = th[t].who
        /\ th'[t].found = th[t].found /\ th'[t].after = th[t].after
        /\ \A s \in Thread \ {t} : th'[s] = th[s]
    BY <2>1, <2>2, <1>th, UpdateFields, UpdateTokens
  <2>4. UNCHANGED <<users, owner, token, tokens>> /\ th[t].pc = "disconnect"
    BY <1>9 DEF Disconnect
  <2>5. QED
    BY <1>inv, <2>3, <2>4, TokFrame DEF Ending, LoginStep, FoundOfUser
<1>10. CASE Retake(t)
  <2> DEFINE l == [th[t] EXCEPT !.calls = @ - 1, !.cur = c,
                     !.pc = IF c = NoConn THEN "retake" ELSE "discard"]
  <2>1. th' = [th EXCEPT ![t] = l] /\ th'[t] = l
    BY <1>10, <1>th DEF Retake
  <2>2. /\ th'[t].pc = IF c = NoConn THEN "retake" ELSE "discard"
        /\ th'[t].who = th[t].who
        /\ th'[t].found = th[t].found /\ th'[t].after = th[t].after
        /\ \A s \in Thread \ {t} : th'[s] = th[s]
    BY <2>1, <1>th, UpdateFields, UpdateTokens
  <2>3. UNCHANGED <<owner, token, tokens>> /\ th[t].pc = "retake"
    BY <1>10 DEF Retake
  <2>4. \A u \in User : users'[u] = users[u] \/ users'[u] = NoConn
    BY <1>10, <1>th DEF Retake
  <2>5. QED
    BY <1>inv, <2>2, <2>3, <2>4, TokFrame DEF Ending, LoginStep, FoundOfUser
<1>11. CASE Unwind(t)
  <2>1. UNCHANGED <<users, owner, token, tokens>> /\ th[t].pc = "retake"
    BY <1>11 DEF Unwind
  <2>2. CASE Return(t)
    BY <1>1, <2>1, <2>2
  <2>3. CASE th[t].after = "untoken" /\ Becomes(t, [th[t] EXCEPT !.pc = "untoken"])
    <3>1. /\ th'[t].pc = "untoken" /\ th'[t].who = th[t].who
          /\ th'[t].found = th[t].found /\ th'[t].after = th[t].after
          /\ \A s \in Thread \ {t} : th'[s] = th[s]
      BY <2>3, <1>th, UpdateFields, UpdateTokens
    <3>2. QED
      BY <1>inv, <2>1, <2>3, <3>1, TokFrame DEF Ending, LoginStep, FoundOfUser
  <2>4. QED
    BY <1>11, <2>2, <2>3 DEF Unwind
<1>12. CASE Untoken(t)
  <2> DEFINE k == token[th[t].found]
  <2>1. th'[t].pc = "idle" /\ \A s \in Thread \ {t} : th'[s] = th[s]
    BY <1>12, <1>th, EntryFields DEF Untoken
  <2>2. UNCHANGED <<users, owner, token>> /\ tokens' = tokens \ {k} /\ th[t].pc = "untoken"
    BY <1>12 DEF Untoken
  <2>3. k[1] = th[t].who
    BY <1>th, <1>inv, <2>2 DEF FoundOfUser, Ending, TokenOfOwner
  <2>4. users[th[t].who] = NoConn
    BY <2>2 DEF SInv, EntryOfUser
  <2>5. \A s \in Thread \ {t} : th[s].who \in User => th[s].who # th[t].who
    BY <1>th DEF SInv, Alone
  <2>6. LoginToken'
    <3>1. \A s \in Thread : th[s].pc \in LoginStep \cup {"publish"} => th[s].who \in User
      BY <1>own DEF LocalsOK, LoginStep
    <3>2. \A s \in Thread : th[s].pc = "publish" => token[th[s].cur][1] = th[s].who
      BY <1>own, <1>inv, <3>1 DEF LocalsOK, TokenOfOwner
    <3> HIDE DEF k
    <3>3. QED
      BY <1>inv, <2>1, <2>2, <2>3, <2>5, <3>1, <3>2 DEF LoginToken, LoginStep
  <2>7. TokenOfConnectionValid'
    <3>1. \A u \in User : users[u] # NoConn => token[users[u]][1] = u
      BY <1>th, <1>own, <1>inv DEF RegisteredUnderOwner, TokenOfOwner
    <3> HIDE DEF k
    <3>2. QED
      BY <1>inv, <2>2, <2>3, <2>4, <3>1 DEF TokenOfConnectionValid
  <2>8. TokenOfOwner' /\ FoundOfUser'
    BY <1>inv, <2>1, <2>2 DEF TokenOfOwner, FoundOfUser, Ending
  <2>9. QED
    BY <2>6, <2>7, <2>8 DEF TokInv
<1>13. QED
  BY <1>2, <1>3, <1>4, <1>5, <1>6, <1>7, <1>8, <1>9, <1>10, <1>11, <1>12 DEF Continue

LEMMA TokStep == SInv /\ TokInv /\ [SerialNext]_vars => TokInv'
<1> SUFFICES ASSUME SInv, TokInv, [SerialNext]_vars PROVE TokInv'
  OBVIOUS
<1>1. CASE Tick \/ UNCHANGED vars
  <2>1. UNCHANGED <<users, tokens, owner, token, th>>
    BY <1>1 DEF Tick, vars, conns
  <2>2. QED
    BY <2>1 DEF TokInv, TokenOfOwner, LoginToken, FoundOfUser, TokenOfConnectionValid
<1>2. QED
  BY <1>1, TokRequest, TokServerClose, TokContinue DEF SerialNext

\* With the requests of a user one at a time, the token of a registered
\* connection authenticates its user: neither a login nor an expiry of
\* another user, or of an earlier connection, takes it away.
THEOREM SerialTokenValid == SerialSpec => []TokenOfConnectionValid
<1>1. TokInv => TokenOfConnectionValid
  BY DEF TokInv
<1>2. QED
  BY InitTokInv, SInvHolds, TokStep, <1>1, PTL DEF SerialSpec
-----------------------------------------------------------------------------
(* Connections that died at the server: while the requests of a user come  *)
(* one at a time, the thread that noticed is the one that removes them.    *)

\* A connection about to be registered is not dead, and a thread that is on
\* its way to remove the entry of a connection works for its owner.
DeadInv ==
  /\ \A t \in Thread : th[t].pc = "publish" => session[th[t].cur] # "closed"
  /\ \A t \in Thread : th[t].pc = "retake" /\ th[t].cur # NoConn =>
       th[t].cur \in Conn /\ owner[th[t].cur] = th[t].who
  /\ NoDeadEntry

\* A step of thread t that neither publishes nor starts to remove a dead
\* connection.
LEMMA DeadFrame ==
  ASSUME SInv, DeadInv, NEW t \in Thread,
         \A s \in Thread \ {t} : th'[s] = th[s],
         UNCHANGED owner,
         \A u \in User : users'[u] = users[u] \/ users'[u] = NoConn,
         \A c \in Conn : session'[c] = "closed" => session[c] = "closed" \/ Holds(t, c),
         th'[t].pc # "publish",
         th'[t].pc = "retake" => th'[t].cur \in {NoConn, th[t].cur},
         th'[t].pc = "retake" /\ th'[t].cur # NoConn =>
           th[t].pc = "retake" /\ th'[t].who = th[t].who,
         th[t].pc = "retake" => users'[th[t].who] = NoConn
  PROVE  DeadInv'
<1>0. /\ users \in [User -> Conn \cup {NoConn}]
      /\ ExclusiveHolder /\ LocalsOK /\ RegisteredUnderOwner
  BY DEF SInv, IInv, TypeOK, Owned
<1>1. \A s \in Thread : th'[s].pc = "publish" => session'[th'[s].cur] # "closed"
  <2> SUFFICES ASSUME NEW s \in Thread, th'[s].pc = "publish", session'[th'[s].cur] = "closed"
               PROVE  FALSE
    OBVIOUS
  <2>1. s # t /\ th'[s] = th[s] /\ th[s].pc = "publish" /\ th[s].cur \in Conn
    BY <1>0 DEF LocalsOK
  <2>2. session[th[s].cur] # "closed"
    BY <2>1 DEF DeadInv
  <2>3. Holds(t, th[s].cur) /\ Holds(s, th[s].cur)
    BY <2>1, <2>2 DEF Holds
  <2>4. QED
    BY <1>0, <2>1, <2>3 DEF ExclusiveHolder
<1>2. \A s \in Thread : th'[s].pc = "retake" /\ th'[s].cur # NoConn =>
        th'[s].cur \in Conn /\ owner'[th'[s].cur] = th'[s].who
  BY DEF DeadInv
<1>3. ASSUME NEW u \in User, users'[u] # NoConn, session'[users'[u]] = "closed"
      PROVE  \E s \in Thread : th'[s].pc = "retake" /\ th'[s].cur = users'[u]
  <2>1. users'[u] = users[u] /\ users[u] \in Conn /\ owner[users[u]] = u
    BY <1>0, <1>3 DEF RegisteredUnderOwner
  <2>2. session[users[u]] = "closed"
    BY <1>0, <1>3, <2>1 DEF ExclusiveHolder
  <2>3. PICK s \in Thread : th[s].pc = "retake" /\ th[s].cur = users[u]
    BY <1>3, <2>1, <2>2 DEF DeadInv, NoDeadEntry, At
  <2>4. th[s].who = u
    BY <1>3, <2>1, <2>3 DEF DeadInv
  <2>5. s # t
    BY <1>3, <2>3, <2>4
  <2>6. QED
    BY <2>1, <2>3, <2>5
<1>4. QED
  BY <1>1, <1>2, <1>3 DEF DeadInv, NoDeadEntry, At

\* The server closes the session of a user nobody works for: if the connection
\* is registered, this thread is about to remove it.
LEMMA DeadServerClose ==
  ASSUME SInv, DeadInv, NEW t \in Thread, NEW c \in Conn,
         Quiet(owner[c]), ServerClose(t, c)
  PROVE  DeadInv'
<1> USE DEF At, Becomes, conns
<1> DEFINE l == [Entry("retake", owner[c], NoToken, 1, "idle") EXCEPT !.cur = c]
<1>l. l.pc = "retake" /\ l.cur = c /\ l.who = owner[c]
  BY CloserFields
<1>b. th' = [th EXCEPT ![t] = l]
  BY DEF ServerClose
<1> HIDE DEF l
<1>0. /\ users \in [User -> Conn \cup {NoConn}]
      /\ session \in [Conn -> {"none", "live", "closed"}]
      /\ th \in [Thread -> Locals] /\ LocalsOK
  BY DEF SInv, IInv, TypeOK, Owned
<1>1. th'[t] = l /\ \A s \in Thread \ {t} : th'[s] = th[s]
  BY <1>b, <1>0
<1>2. th[t].pc = "idle" /\ UNCHANGED <<users, owner>>
      /\ session'[c] = "closed" /\ \A d \in Conn \ {c} : session'[d] = session[d]
  BY <1>0 DEF ServerClose
<1>3. \A s \in Thread : th'[s].pc = "publish" => session'[th'[s].cur] # "closed"
  <2> SUFFICES ASSUME NEW s \in Thread, th'[s].pc = "publish"
               PROVE  session'[th'[s].cur] # "closed"
    OBVIOUS
  <2>1. s # t /\ th'[s] = th[s] /\ th[s].cur \in Conn /\ owner[th[s].cur] = th[s].who
    BY <1>0, <1>1, <1>l DEF LocalsOK
  <2>2. th[s].cur # c
    BY <2>1 DEF Quiet
  <2>3. QED
    BY <1>2, <2>1, <2>2 DEF DeadInv
<1>4. \A s \in Thread : th'[s].pc = "retake" /\ th'[s].cur # NoConn =>
        th'[s].cur \in Conn /\ owner'[th'[s].cur] = th'[s].who
  BY <1>1, <1>2, <1>l DEF DeadInv
<1>5. ASSUME NEW u \in User, users'[u] # NoConn, session'[users'[u]] = "closed"
      PROVE  \E s \in Thread : th'[s].pc = "retake" /\ th'[s].cur = users'[u]
  <2>1. CASE users[u] = c
    BY <1>1, <1>2, <1>l, <2>1
  <2>2. CASE users[u] # c
    <3>1. users[u] \in Conn /\ session[users[u]] = "closed"
      BY <1>0, <1>2, <1>5, <2>2
    <3>2. PICK s \in Thread : th[s].pc = "retake" /\ th[s].cur = users[u]
      BY <1>2, <1>5, <3>1 DEF DeadInv, NoDeadEntry
    <3>3. QED
      BY <1>1, <1>2, <3>2
  <2>3. QED
    BY <2>1, <2>2
<1>6. QED
  BY <1>3, <1>4, <1>5 DEF DeadInv, NoDeadEntry

LEMMA DeadContinue ==
  ASSUME SInv, DeadInv, NEW t \in Thread, Continue(t)
  PROVE  DeadInv'
<1> USE RegistryAssumption DEF At, Becomes, Return, conns
<1>th. /\ th \in [Thread -> Locals]
       /\ th[t] \in Locals
       /\ th[t].who \in User
       /\ users \in [User -> Conn \cup {NoConn}]
       /\ owner \in [Conn -> User \cup {NoUser}]
       /\ session \in [Conn -> {"none", "live", "closed"}]
  BY FieldTypes DEF SInv, IInv, Owned, TypeOK, LocalsOK, Continue, Lookup, Retoken, Connect,
     ConnectFails, Publish, Wire, Take, Discard, Disconnect, Retake, Unwind, Untoken
<1>own. LocalsOK /\ RegisteredUnderOwner
  BY DEF SInv, IInv, Owned
<1> DEFINE c == users[th[t].who]
<1>1. CASE /\ Return(t) /\ UNCHANGED <<owner, session>>
           /\ \A u \in User : users'[u] = users[u] \/ users'[u] = NoConn
           /\ th[t].pc = "retake" => users'[th[t].who] = NoConn
  <2>1. th'[t].pc = "idle" /\ \A s \in Thread \ {t} : th'[s] = th[s]
    BY <1>1, <1>th, EntryFields
  <2>2. QED
    BY <1>1, <2>1, DeadFrame
<1>2. CASE Retoken(t) \/ ConnectFails(t) \/ Wire(t) \/ Untoken(t)
  BY <1>1, <1>2 DEF Retoken, ConnectFails, Wire, Untoken
<1>3. CASE Lookup(t)
  <2>1. /\ th'[t].pc = IF c = NoConn THEN "connect" ELSE "retoken"
        /\ \A s \in Thread \ {t} : th'[s] = th[s]
    BY <1>3, <1>th, UpdateFields DEF Lookup
  <2>2. UNCHANGED <<users, owner, session>> /\ th[t].pc = "lookup"
    BY <1>3 DEF Lookup
  <2>3. QED
    BY <2>1, <2>2, DeadFrame
<1>4. CASE Connect(t)
  <2>1. PICK d \in Conn, z \in {"live", "none"} :
          /\ owner[d] = NoUser
          /\ owner' = [owner EXCEPT ![d] = th[t].who]
          /\ session' = [session EXCEPT ![d] = z]
          /\ Becomes(t, [th[t] EXCEPT !.cur = d, !.pc = "publish"])
    BY <1>4 DEF Connect
  <2>2. /\ th'[t].pc = "publish" /\ th'[t].cur = d
        /\ \A s \in Thread \ {t} : th'[s] = th[s]
    BY <2>1, <1>th, UpdateFields
  <2>3. UNCHANGED users /\ th[t].pc = "connect"
    BY <1>4 DEF Connect
  <2>4. /\ session'[d] # "closed"
        /\ \A x \in Conn \ {d} : session'[x] = session[x] /\ owner'[x] = owner[x]
    BY <2>1, <1>th
  <2>5. \A u \in User : users[u] # d
    BY <2>1, <1>own DEF RegisteredUnderOwner
  <2>6. /\ \A s \in Thread : th[s].pc = "publish" => /\ th[s].cur \in Conn
                                                    /\ owner[th[s].cur] = th[s].who
        /\ \A s \in Thread : th[s].pc \in {"publish", "retake"} => th[s].who # NoUser
    BY <1>own DEF LocalsOK
  <2>7. \A s \in Thread : th'[s].pc = "publish" => session'[th'[s].cur] # "closed"
    BY <2>2, <2>4, <2>6 DEF DeadInv
  <2>8. \A s \in Thread : th'[s].pc = "retake" /\ th'[s].cur # NoConn =>
          th'[s].cur \in Conn /\ owner'[th'[s].cur] = th'[s].who
    BY <2>1, <2>2, <2>4, <2>6 DEF DeadInv
  <2>9. NoDeadEntry'
    BY <1>th, <2>2, <2>3, <2>4, <2>5 DEF DeadInv, NoDeadEntry
  <2>10. QED
    BY <2>7, <2>8, <2>9 DEF DeadInv
<1>5. CASE Publish(t)
  <2>1. th'[t].pc = "wire" /\ \A s \in Thread \ {t} : th'[s] = th[s]
    BY <1>5, <1>th, UpdateFields DEF Publish
  <2>2. UNCHANGED <<owner, session>> /\ th[t].pc = "publish"
    BY <1>5 DEF Publish
  <2>3. session[th[t].cur] # "closed"
    BY <2>2 DEF DeadInv
  <2>4. \A u \in User : users'[u] = users[u] \/ users'[u] = th[t].cur
    BY <1>5, <1>th DEF Publish
  <2>5. NoDeadEntry'
    BY <2>1, <2>2, <2>3, <2>4 DEF DeadInv, NoDeadEntry
  <2>6. QED
    BY <2>1, <2>2, <2>5 DEF DeadInv
<1>6. CASE Take(t)
  <2>1. UNCHANGED <<owner, session>> /\ th[t].pc = "take"
        /\ \A u \in User : users'[u] = users[u] \/ users'[u] = NoConn
    BY <1>6, <1>th DEF Take
  <2>2. CASE c = NoConn
    BY <1>1, <1>6, <2>1, <2>2 DEF Take
  <2>3. CASE c # NoConn
    <3>1. th' = [th EXCEPT ![t] = [th[t] EXCEPT !.cur = c, !.found = c, !.pc = "discard"]]
      BY <1>6, <2>3 DEF Take
    <3>2. th'[t] = [th[t] EXCEPT !.cur = c, !.found = c, !.pc = "discard"]
      BY <3>1, <1>th
    <3>3. th'[t].pc = "discard" /\ \A s \in Thread \ {t} : th'[s] = th[s]
      BY <3>1, <3>2, <1>th, UpdateFields
    <3>4. QED
      BY <2>1, <3>3, DeadFrame
  <2>4. QED
    BY <2>2, <2>3
<1>7. CASE Discard(t)
  <2>1. th'[t].pc = "disconnect" /\ \A s \in Thread \ {t} : th'[s] = th[s]
    BY <1>7, <1>th, UpdateFields DEF Discard
  <2>2. UNCHANGED <<owner, session>> /\ th[t].pc = "discard"
        /\ \A u \in User : users'[u] = users[u] \/ users'[u] = NoConn
    BY <1>7, <1>th DEF Discard
  <2>3. QED
    BY <2>1, <2>2, DeadFrame
<1>8. CASE Disconnect(t)
  <2> DEFINE n == IF session[th[t].cur] = "live" THEN 2 ELSE 1
  <2>1. th' = [th EXCEPT ![t] = [th[t] EXCEPT !.cur = NoConn, !.pc = "retake", !.calls = @ + n]]
    BY <1>8 DEF Disconnect
  <2>2. th'[t] = [th[t] EXCEPT !.cur = NoConn, !.pc = "retake", !.calls = th[t].calls + n]
    BY <2>1, <1>th
  <2>3. /\ th'[t].pc = "retake" /\ th'[t].cur = NoConn
        /\ \A s \in Thread \ {t} : th'[s] = th[s]
    BY <2>1, <2>2, <1>th, UpdateFields
  <2>4. UNCHANGED <<users, owner>> /\ th[t].pc = "disconnect"
    BY <1>8 DEF Disconnect
  <2>5. \A d \in Conn : session'[d] = "closed" => session[d] = "closed" \/ Holds(t, d)
    BY <1>8, <2>4, <1>th DEF Disconnect, Holds
  <2>6. QED
    BY <2>3, <2>4, <2>5, DeadFrame
<1>9. CASE Retake(t)
  <2> DEFINE l == [th[t] EXCEPT !.calls = @ - 1, !.cur = c,
                     !.pc = IF c = NoConn THEN "retake" ELSE "discard"]
  <2>1. th' = [th EXCEPT ![t] = l] /\ th'[t] = l
    BY <1>9, <1>th DEF Retake
  <2>2. /\ th'[t].pc = IF c = NoConn THEN "retake" ELSE "discard"
        /\ th'[t].cur = c
        /\ \A s \in Thread \ {t} : th'[s] = th[s]
    BY <2>1, <1>th, UpdateFields
  <2>3. UNCHANGED <<owner, session>> /\ users'[th[t].who] = NoConn
        /\ \A u \in User : users'[u] = users[u] \/ users'[u] = NoConn
    BY <1>9, <1>th DEF Retake
  <2>4. QED
    BY <2>2, <2>3, DeadFrame
<1>10. CASE Unwind(t)
  <2>1. /\ UNCHANGED <<users, owner, session>>
        /\ th[t].pc = "retake" /\ th[t].calls = 0
    BY <1>10 DEF Unwind
  <2>2. users[th[t].who] = NoConn
    BY <2>1 DEF SInv, EntryOfUser
  <2>3. CASE Return(t)
    BY <1>1, <2>1, <2>2, <2>3
  <2>4. CASE Becomes(t, [th[t] EXCEPT !.pc = "untoken"])
    <3>1. th'[t].pc = "untoken" /\ \A s \in Thread \ {t} : th'[s] = th[s]
      BY <2>4, <1>th, UpdateFields
    <3>2. QED
      BY <2>1, <2>2, <3>1, DeadFrame
  <2>5. QED
    BY <1>10, <2>3, <2>4 DEF Unwind
<1>11. QED
  BY <1>2, <1>3, <1>4, <1>5, <1>6, <1>7, <1>8, <1>9, <1>10 DEF Continue

LEMMA DeadStep == SInv /\ DeadInv /\ [SerialNext]_vars => DeadInv'
<1> SUFFICES ASSUME SInv, DeadInv, [SerialNext]_vars PROVE DeadInv'
  OBVIOUS
<1>1. CASE Tick \/ UNCHANGED vars
  <2>1. UNCHANGED <<users, owner, session, th>>
    BY <1>1 DEF Tick, vars, conns
  <2>2. QED
    BY <2>1 DEF DeadInv, NoDeadEntry, At
<1>2. ASSUME NEW t \in Thread, NEW u \in User, Request(t, u) PROVE DeadInv'
  <2>1. th'[t].pc \in {"lookup", "take"} /\ \A s \in Thread \ {t} : th'[s] = th[s]
    BY <1>2, EntryFields
       DEF SInv, IInv, TypeOK, Request, Login, Logout, Expire, Call, Becomes
  <2>2. th[t].pc = "idle" /\ UNCHANGED <<users, owner, session>>
    BY <1>2 DEF Request, Login, Logout, Expire, Call, At, conns
  <2>3. QED
    BY <2>1, <2>2, DeadFrame
<1>3. QED
  BY <1>1, <1>2, DeadServerClose, DeadContinue DEF SerialNext

\* With the requests of a user one at a time, no login is given a connection
\* that Openfire has closed: as soon as a registered connection dies, the
\* thread that closed it is on its way to remove it.
THEOREM NoDeadEntryHolds == SerialSpec => []NoDeadEntry
<1>1. Init => DeadInv
  BY RegistryAssumption DEF Init, DeadInv, NoDeadEntry, Idle, Entry
<1>2. DeadInv => NoDeadEntry
  BY DEF DeadInv
<1>3. QED
  BY <1>1, <1>2, SInvHolds, DeadStep, PTL DEF SerialSpec
=============================================================================
