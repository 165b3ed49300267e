-------------------------- MODULE SessionRegistry --------------------------
(***************************************************************************)
(* The registry of XMPP connections, OpenfireConnection.users, and the     *)
(* threads that use it: logins (SparkWeb.makeAccessToken, then             *)
(* OpenfireConnection.createConnection), logouts and expiries (both        *)
(* OpenfireConnection.removeConnection), and sessions that Openfire itself *)
(* closes (SmackConnection.closeVirtualConnection).  None of these methods *)
(* holds a lock: an action is one access to a shared map, or one call to   *)
(* Openfire's session manager, and threads interleave between them.        *)
(***************************************************************************)
EXTENDS Naturals

CONSTANTS User,      (* the accounts of the Openfire server                *)
          Thread,    (* the servlet and server threads                     *)
          Conn,      (* the OpenfireConnection objects that may be built   *)
          NoConn,    (* null                                               *)
          NoUser,    (* the owner of an object that was not built yet      *)
          NoToken,   (* the token of an object that was not built yet      *)
          MaxSecond  (* bound: how far the clock runs                      *)

ASSUME RegistryAssumption ==
       /\ NoConn \notin Conn
       /\ NoUser \notin User
       /\ MaxSecond \in Nat

\* A JWT is a function of its subject and of the second it is issued in: the
\* payload has no other varying part (iat and exp are epoch seconds).
Token == User \X (0 .. MaxSecond)

VARIABLES
  users,   (* OpenfireConnection.users: the connection of each user        *)
  tokens,  (* the keys of SparkWeb.tokens                                  *)
  now,     (* the clock of the server, in seconds                          *)
  owner,   (* OpenfireConnection.config: whose connection this is          *)
  session, (* its session at the server: "none", "live" or "closed"        *)
  token,   (* OpenfireConnection.token                                     *)
  th       (* the local variables of each thread                           *)

conns == <<owner, session, token>>
vars  == <<users, tokens, now, conns, th>>

Step == {"idle", "lookup", "retoken", "connect", "publish", "wire",
         "take", "discard", "disconnect", "retake", "untoken"}

(* pc:    where the thread is                                              *)
(* who:   the user name it was called for                                  *)
(* tok:   the token a login issued                                         *)
(* cur:   the connection it is building or taking down                     *)
(* found: what its outermost removeConnection returns                      *)
(* calls: the removeConnection calls that still wait on its stack          *)
(* after: what the caller of removeConnection does next                    *)
Locals == [pc: Step, who: User \cup {NoUser}, tok: Token \cup {NoToken},
           cur: Conn \cup {NoConn}, found: Conn \cup {NoConn}, calls: Nat,
           after: {"idle", "untoken"}]

\* A thread that enters step s for user u.
Entry(s, u, k, n, then) ==
  [pc |-> s, who |-> u, tok |-> k, cur |-> NoConn, found |-> NoConn,
   calls |-> n, after |-> then]
Idle == Entry("idle", NoUser, NoToken, 0, "idle")

TypeOK ==
  /\ users \in [User -> Conn \cup {NoConn}]
  /\ tokens \in SUBSET Token
  /\ now \in 0 .. MaxSecond
  /\ owner \in [Conn -> User \cup {NoUser}]
  /\ session \in [Conn -> {"none", "live", "closed"}]
  /\ token \in [Conn -> Token \cup {NoToken}]
  /\ th \in [Thread -> Locals]

Init ==
  /\ users = [u \in User |-> NoConn]
  /\ tokens = {}
  /\ now = 0
  /\ owner = [c \in Conn |-> NoUser]
  /\ session = [c \in Conn |-> "none"]
  /\ token = [c \in Conn |-> NoToken]
  /\ th = [t \in Thread |-> Idle]

At(t, s) == th[t].pc = s
Becomes(t, l) == th' = [th EXCEPT ![t] = l]
Return(t) == Becomes(t, Idle)

\* The clock is the only thing that makes two tokens of one user differ.
Tick == /\ now < MaxSecond
        /\ now' = now + 1
        /\ UNCHANGED <<users, tokens, conns, th>>

-----------------------------------------------------------------------------
(* Faults: what plausible mistakes would make of some of the actions below.*)
(* No specification uses them.                                             *)

\* createConnection does not look in the map first.
LookupIgnoringEntry(t) ==
  /\ At(t, "lookup")
  /\ Becomes(t, [th[t] EXCEPT !.cur = NoConn, !.pc = "connect"])
  /\ UNCHANGED <<users, tokens, now, conns>>

\* createConnection stores the connection it found once more.
RetokenAndPut(t) ==
  /\ At(t, "retoken")
  /\ token' = [token EXCEPT ![th[t].cur] = th[t].tok]
  /\ users' = [users EXCEPT ![th[t].who] = th[t].cur]
  /\ Return(t)
  /\ UNCHANGED <<tokens, now, owner, session>>

\* removeConnection reads the entry and leaves it to be removed later.
TakeKeepingEntry(t) ==
  /\ At(t, "take")
  /\ LET c == users[th[t].who]
     IN  \/ c = NoConn /\ Return(t)
         \/ /\ c # NoConn
            /\ Becomes(t, [th[t] EXCEPT !.cur = c, !.found = c, !.pc = "disconnect"])
  /\ UNCHANGED <<users, tokens, now, conns>>

\* The caller only gets the connection, it does not remove it.
TakeByGet(t) ==
  /\ At(t, "take")
  /\ LET c == users[th[t].who]
     IN  \/ c = NoConn /\ Return(t)
         \/ /\ c # NoConn
            /\ Becomes(t, [th[t] EXCEPT !.found = c, !.pc = th[t].after])
  /\ UNCHANGED <<users, tokens, now, conns>>

\* shutdown disconnects again whatever the state of the session.
DisconnectAgain(t) ==
  /\ At(t, "disconnect")
  /\ session' = [session EXCEPT ![th[t].cur] = "closed"]
  /\ UNCHANGED <<users, tokens, now, owner, token, th>>

\* closeVirtualConnection leaves the registry alone.
ServerCloseOnly(t, c) ==
  /\ At(t, "idle")
  /\ session[c] = "live"
  /\ session' = [session EXCEPT ![c] = "closed"]
  /\ UNCHANGED <<users, tokens, now, owner, token, th>>

\* One nested removeConnection too many.
RetakeOnceMore(t) ==
  /\ At(t, "retake")
  /\ Becomes(t, [th[t] EXCEPT !.calls = @ - 1])
  /\ UNCHANGED <<users, tokens, now, conns>>

-----------------------------------------------------------------------------
(* A login: makeAccessToken stores the token and calls createConnection.   *)

Login(t, u) ==
  /\ At(t, "idle")
  /\ tokens' = tokens \cup {<<u, now>>}
  /\ Becomes(t, Entry("lookup", u, <<u, now>>, 0, "idle"))
  /\ UNCHANGED <<users, now, conns>>

\* The first statement of createConnection, users.get(username).
Lookup(t) ==
  /\ At(t, "lookup")
  /\ LET c == users[th[t].who]
     IN  Becomes(t, [th[t] EXCEPT !.cur = c,
                     !.pc = IF c = NoConn THEN "connect" ELSE "retoken"])
  /\ UNCHANGED <<users, tokens, now, conns>>

\* The user has a connection: it is shared, and takes the newest token.
Retoken(t) ==
  /\ At(t, "retoken")
  /\ token' = [token EXCEPT ![th[t].cur] = th[t].tok]
  /\ Return(t)
  /\ UNCHANGED <<users, tokens, now, owner, session>>

\* A new connection connects and logs in.  loginInternal swallows the
\* exceptions of the session manager, and the connection goes on without a
\* session.
Connect(t) ==
  /\ At(t, "connect")
  /\ \E c \in Conn, s \in {"live", "none"} :
       /\ owner[c] = NoUser
       /\ owner' = [owner EXCEPT ![c] = th[t].who]
       /\ token' = [token EXCEPT ![c] = th[t].tok]
       /\ session' = [session EXCEPT ![c] = s]
       /\ Becomes(t, [th[t] EXCEPT !.cur = c, !.pc = "publish"])
  /\ UNCHANGED <<users, tokens, now>>

\* Any other exception: createConnection logs it, and nothing refers to the
\* connection it returns.  The token stays valid.
ConnectFails(t) ==
  /\ At(t, "connect")
  /\ Return(t)
  /\ UNCHANGED <<users, tokens, now, conns>>

\* users.put(username, connection), whatever the map holds by now.
Publish(t) ==
  /\ At(t, "publish")
  /\ users' = [users EXCEPT ![th[t].who] = th[t].cur]
  /\ Becomes(t, [th[t] EXCEPT !.pc = "wire"])
  /\ UNCHANGED <<tokens, now, conns>>

\* Only now, with the connection in the map, are its fields assigned (they
\* are left out), or not: an exception here is caught and logged like those
\* before users.put, and the connection stays in the map.
Wire(t) ==
  /\ At(t, "wire")
  /\ Return(t)
  /\ UNCHANGED <<users, tokens, now, conns>>

-----------------------------------------------------------------------------
(* removeConnection.  Its disconnect shuts the connection down, and        *)
(* shutdown calls removeConnection for the same user name again: once, and *)
(* once more from closeVirtualConnection when there was a session to close.*)
(* All these calls are the same, so a thread only counts them.             *)

Call(t, u, then) ==
  /\ At(t, "idle")
  /\ Becomes(t, Entry("take", u, NoToken, 0, then))
  /\ UNCHANGED <<users, tokens, now, conns>>

\* POST /logout.
Logout(t, u) == Call(t, u, "idle")

\* WebEventSource.onClose, when the last event source of u has gone.
Expire(t, u) == Call(t, u, "untoken")

\* users.remove(username) of the outermost call, whose result is returned.
Take(t) ==
  /\ At(t, "take")
  /\ LET c == users[th[t].who]
     IN  \/ c = NoConn /\ Return(t)
         \/ /\ c # NoConn
            /\ Becomes(t, [th[t] EXCEPT !.cur = c, !.found = c, !.pc = "discard"])
  /\ users' = [users EXCEPT ![th[t].who] = NoConn]
  /\ UNCHANGED <<tokens, now, conns>>

\* users.remove(connection.getUsername()), which drops what it removes.
Discard(t) ==
  /\ At(t, "discard")
  /\ users' = [users EXCEPT ![owner[th[t].cur]] = NoConn]
  /\ Becomes(t, [th[t] EXCEPT !.pc = "disconnect"])
  /\ UNCHANGED <<tokens, now, conns>>

\* connection.disconnect: the session is closed and removed from Openfire.
Disconnect(t) ==
  /\ At(t, "disconnect")
  /\ LET c == th[t].cur
         nested == IF session[c] = "live" THEN 2 ELSE 1
     IN  /\ session' = [session EXCEPT ![c] = IF @ = "live" THEN "closed" ELSE @]
         /\ Becomes(t, [th[t] EXCEPT !.cur = NoConn, !.pc = "retake",
                                    !.calls = @ + nested])
  /\ UNCHANGED <<users, tokens, now, owner, token>>

\* users.remove(username) of one of the nested calls.
Retake(t) ==
  /\ At(t, "retake")
  /\ th[t].calls > 0
  /\ LET c == users[th[t].who]
     IN  Becomes(t, [th[t] EXCEPT !.calls = @ - 1, !.cur = c,
                     !.pc = IF c = NoConn THEN "retake" ELSE "discard"])
  /\ users' = [users EXCEPT ![th[t].who] = NoConn]
  /\ UNCHANGED <<tokens, now, conns>>

\* The outermost removeConnection returns to logoutUser or to the server.
Unwind(t) ==
  /\ At(t, "retake")
  /\ th[t].calls = 0
  /\ \/ th[t].after = "idle" /\ Return(t)
     \/ th[t].after = "untoken" /\ Becomes(t, [th[t] EXCEPT !.pc = "untoken"])
  /\ UNCHANGED <<users, tokens, now, conns>>

\* onClose drops the token of the connection it got back: the token the
\* connection has by now, and no other token of the user.
Untoken(t) ==
  /\ At(t, "untoken")
  /\ tokens' = tokens \ {token[th[t].found]}
  /\ Return(t)
  /\ UNCHANGED <<users, now, conns>>

\* Openfire closes a session itself: closeVirtualConnection runs shutdown,
\* which removes whatever connection is registered under the user name.  That
\* may be another one than c, and c may be in the hands of another thread.
ServerClose(t, c) ==
  /\ At(t, "idle")
  /\ session[c] = "live"
  /\ session' = [session EXCEPT ![c] = "closed"]
  /\ Becomes(t, [Entry("retake", owner[c], NoToken, 1, "idle") EXCEPT !.cur = c])
  /\ UNCHANGED <<users, tokens, now, owner, token>>

-----------------------------------------------------------------------------
Request(t, u) == Login(t, u) \/ Logout(t, u) \/ Expire(t, u)

Continue(t) ==
  \/ Lookup(t) \/ Retoken(t)
  \/ Connect(t) \/ ConnectFails(t) \/ Publish(t) \/ Wire(t)
  \/ Take(t) \/ Discard(t) \/ Disconnect(t) \/ Retake(t) \/ Unwind(t)
  \/ Untoken(t)

Next ==
  \/ Tick
  \/ \E t \in Thread :
       \/ \E u \in User : Request(t, u)
       \/ \E c \in Conn : ServerClose(t, c)
       \/ Continue(t)

Spec == Init /\ [][Next]_vars

\* A thread that has something to do is scheduled again.
FairSpec == Spec /\ \A t \in Thread : WF_vars(Continue(t))

\* No thread works for user u.
Quiet(u) == \A t \in Thread : th[t].who # u

\* The same threads, when the requests of one user come one at a time;
\* requests of different users still interleave.
SerialNext ==
  \/ Tick
  \/ \E t \in Thread :
       \/ \E u \in User : Quiet(u) /\ Request(t, u)
       \/ \E c \in Conn : Quiet(owner[c]) /\ ServerClose(t, c)
       \/ Continue(t)

SerialSpec == Init /\ [][SerialNext]_vars
-----------------------------------------------------------------------------
\* Thread t is the only one with a use for connection c: it has built it and
\* not published it yet, or it has taken it out of the map.
Holds(t, c) == /\ th[t].pc \in {"publish", "discard", "disconnect"}
               /\ th[t].cur = c

\* Users, the map, and threads never compete for a connection: it is
\* registered under one user name, or in the hands of one thread that builds
\* it or takes it down (removeConnection, createConnection).  A server thread
\* in closeVirtualConnection holds nothing: until its own removeConnection it
\* only looks the session up, which is closed already.
ExclusiveHolder ==
  \A c \in Conn :
    /\ \A u, v \in User : users[u] = c /\ users[v] = c => u = v
    /\ \A t, s \in Thread : Holds(t, c) /\ Holds(s, c) => t = s
    /\ \A t \in Thread, u \in User : ~(Holds(t, c) /\ users[u] = c)

\* Out of the map, and no thread is about to put it there.
Gone(c) == /\ owner[c] # NoUser
           /\ \A u \in User : users[u] # c
           /\ \A t \in Thread : ~(At(t, "publish") /\ th[t].cur = c)

\* A connection that left the map is never registered again, however the
\* calls that remove and create connections interleave.
GoneForGood == [][\A c \in Conn : Gone(c) => Gone(c)']_vars

\* The recursion removeConnection -> disconnect -> shutdown ->
\* removeConnection ends: every call of a thread returns.
CallsReturn == \A t \in Thread : ~At(t, "idle") ~> At(t, "idle")

\* The XMPP sessions of a user.
SessionsOf(u) == {c \in Conn : owner[c] = u /\ session[c] = "live"}

\* "A user has a singleton xmpp session in Openfire" (README.md:18).
SingletonSession ==
  \A u \in User : \A c, d \in SessionsOf(u) : c = d

\* Every live session can still be found and closed: it belongs to the
\* registered connection of its user, or to one that a thread holds.
NoOrphanSession ==
  \A c \in Conn :
    session[c] = "live" => \/ users[owner[c]] = c
                           \/ \E t \in Thread : Holds(t, c)

\* A registered connection whose session Openfire has closed is about to be
\* removed by the thread that closed it (closeVirtualConnection, shutdown):
\* no later login is given a connection that is dead.
NoDeadEntry ==
  \A u \in User :
    users[u] # NoConn /\ session[users[u]] = "closed" =>
      \E t \in Thread : At(t, "retake") /\ th[t].cur = users[u]

\* The token of a registered connection authenticates its user.
TokenOfConnectionValid ==
  \A u \in User : users[u] # NoConn => token[users[u]] \in tokens

\* What README.md:18 promises, as a specification of its own.
Promise == INSTANCE UserSession WITH
             sessions <- [u \in User |-> SessionsOf(u)],
             ended <- {c \in Conn : session[c] = "closed"}
ImplementsUserSession == Promise!Spec
=============================================================================
