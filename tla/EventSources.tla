---------------------------- MODULE EventSources ----------------------------
(***************************************************************************)
(* The event sources (SSE) of the users: SparkWeb.webSources maps a user   *)
(* name to a plain ArrayList of WebEventSources.  Servlet threads add to   *)
(* the list (newEventSource, onOpen), the one heartbeat thread of the      *)
(* EventSourceServlet removes from it (onClose), and any thread iterates   *)
(* over it (SparkWeb.emitEvent); nothing is locked.  An action is one      *)
(* access to the map or one unguarded part of an ArrayList operation, as   *)
(* java.util.ArrayList has them since Java 9.                              *)
(* When the last source goes, so does the XMPP session, with one token.    *)
(***************************************************************************)
EXTENDS Naturals, FiniteSets

CONSTANTS User,      (* the accounts                                       *)
          Source,    (* the event sources that browsers may open           *)
          Thread,    (* the servlet threads and the threads that emit      *)
          Heartbeat, (* the only thread that notices closed sources        *)
          None,      (* null                                               *)
          DefaultCapacity, (* of a first array: 10 in java.util.ArrayList  *)
          MaxToken   (* bound: the tokens a user may be issued             *)

ASSUME SourcesAssumption ==
       /\ None \notin Source \cup User
       /\ Heartbeat \notin Thread
       /\ MaxToken \in Nat
       /\ DefaultCapacity \in Nat \ {0}
       /\ IsFiniteSet(Source)

VARIABLES
  webSources, (* SparkWeb.webSources: the list of each user                *)
  lists,      (* the ArrayLists; a list is named after the source whose    *)
              (* newEventSource created it                                 *)
  state,      (* what became of each source                                *)
  home,       (* WebEventSource.user                                       *)
  issued,     (* how many different tokens each user has been issued       *)
  tokens,     (* the tokens in SparkWeb.tokens, as <<user, number>>        *)
  session,    (* the token of the user's connection, 0 when there is none  *)
  th          (* the local variables of each thread                        *)

shared == <<webSources, lists, state, home>>
logins == <<issued, tokens, session>>
vars   == <<shared, logins, th>>

(* A list is its array, elementData: what is in it, as far as sources can  *)
(* fill it, how long it is, and which one it is (arrays are replaced when  *)
(* they grow); and the fields size and modCount.                           *)
Slot == 1 .. Cardinality(Source)
Slots == [Slot -> Source \cup {None}]
Blank == [i \in Slot |-> None]
Lists == [arr: Slots, cap: Nat, era: Nat, size: 0 .. Cardinality(Source),
          mods: Nat]
EmptyList == [arr |-> Blank, cap |-> 0, era |-> 0, size |-> 0, mods |-> 0]

\* ArrayList.grow: room for n + 1 elements, and for half as many again as
\* there was.
Longer(cap, n) ==
  IF cap = 0 THEN IF DefaultCapacity > n THEN DefaultCapacity ELSE n + 1
  ELSE IF n + 1 > cap + cap \div 2 THEN n + 1 ELSE cap + cap \div 2

Threads == Thread \cup {Heartbeat}

(* src:  the source a call is about                                        *)
(* who:  its user, or the user an event is for                             *)
(* list: the ArrayList read from the map                                   *)
(* n:    a size or an index that was read from the list                    *)
(* cap, era: the length and the identity of the array it works on          *)
(* copy: the longer array it has made                                      *)
(* mods: the expectedModCount of an iterator                               *)
(* hit:  the sources an event was written to                               *)
Locals ==
  [pc: {"idle", "getSources", "newSources", "add", "room", "grow", "store",
        "opening", "iterate", "next", "getClosing", "remove", "truncate",
        "lastOne", "expire"},
   src: Source \cup {None}, who: User \cup {None}, list: Source \cup {None},
   n: Nat, cap: Nat, era: Nat, copy: Slots, mods: Nat, hit: SUBSET Source]
Entry(s, src, u) == [pc |-> s, src |-> src, who |-> u, list |-> None,
                     n |-> 0, cap |-> 0, era |-> 0, copy |-> Blank,
                     mods |-> 0, hit |-> {}]
Idle == Entry("idle", None, None)

SourceState == {"unborn",  (* not constructed                              *)
                "created", (* constructed: its emitter is still null       *)
                "refused", (* its newEventSource ended with an exception   *)
                "open",    (* onOpen has set the emitter                   *)
                "broken",  (* the browser is gone, no heartbeat has failed *)
                "closed"}  (* closed by the heartbeat, onClose was called  *)

TypeOK ==
  /\ webSources \in [User -> Source \cup {None}]
  /\ lists \in [Source -> Lists]
  /\ state \in [Source -> SourceState]
  /\ home \in [Source -> User \cup {None}]
  /\ issued \in [User -> 0 .. MaxToken]
  /\ tokens \in SUBSET (User \X (1 .. MaxToken))
  /\ session \in [User -> 0 .. MaxToken]
  /\ th \in [Threads -> Locals]

Init ==
  /\ webSources = [u \in User |-> None]
  /\ lists = [l \in Source |-> EmptyList]
  /\ state = [s \in Source |-> "unborn"]
  /\ home = [s \in Source |-> None]
  /\ issued = [u \in User |-> 0]
  /\ tokens = {}
  /\ session = [u \in User |-> 0]
  /\ th = [t \in Threads |-> Idle]

At(t, s) == th[t].pc = s
Becomes(t, l) == th' = [th EXCEPT ![t] = l]
Return(t) == Becomes(t, Idle)

\* The sources in the live part of list l.
Listed(l) == {lists[l].arr[i] : i \in 1 .. lists[l].size} \ {None}

-----------------------------------------------------------------------------
(* Faults: what plausible mistakes would make of some of the actions below.*)
(* No specification uses them.                                             *)

\* onClose takes one source left for none left.
LastOneOffByOne(t) ==
  /\ At(t, "lastOne")
  /\ \/ /\ lists[th[t].list].size <= 1
        /\ webSources' = [webSources EXCEPT ![th[t].who] = None]
        /\ Becomes(t, [th[t] EXCEPT !.pc = "expire"])
     \/ /\ lists[th[t].list].size > 1
        /\ Return(t)
        /\ UNCHANGED webSources
  /\ UNCHANGED <<lists, state, home, logins>>

\* onClose leaves the empty list of a user in the map.
LastOneKeepsList(t) ==
  /\ At(t, "lastOne")
  /\ Return(t)
  /\ UNCHANGED <<shared, logins>>

\* A removal that drops the last element, whichever was asked for.
RemoveTheLast(t) ==
  /\ At(t, "remove")
  /\ LET l == lists[th[t].list]
     IN  \/ /\ th[t].src \notin Listed(th[t].list)
            /\ Becomes(t, [th[t] EXCEPT !.pc = "lastOne"])
            /\ UNCHANGED lists
         \/ /\ th[t].src \in Listed(th[t].list)
            /\ lists' = [lists EXCEPT ![th[t].list].mods = @ + 1]
            /\ Becomes(t, [th[t] EXCEPT !.n = l.size, !.era = l.era, !.pc = "truncate"])
  /\ UNCHANGED <<webSources, state, home, logins>>

\* onOpen adds the source to the list as well.
OpenedAddsAgain(t) ==
  /\ At(t, "opening")
  /\ LET l == th[t].list
     IN  lists' = [lists EXCEPT ![l].arr[lists[l].size + 1] = th[t].src,
                                ![l].size = @ + 1, ![l].mods = @ + 1]
  /\ state' = [state EXCEPT ![th[t].src] = "open"]
  /\ Return(t)
  /\ UNCHANGED <<webSources, home, logins>>

\* An iterator that starts at the second element.
IterateFromSecond(t) ==
  /\ At(t, "iterate")
  /\ LET l == webSources[th[t].who]
     IN  \/ l = None /\ Return(t)
         \/ /\ l # None
            /\ Becomes(t, [th[t] EXCEPT !.list = l, !.n = 1,
                           !.mods = lists[l].mods, !.pc = "next"])
  /\ UNCHANGED <<shared, logins>>

\* An iteration over the list of any user.
IterateOverAnyone(t) ==
  /\ At(t, "iterate")
  /\ \E u \in User :
       /\ webSources[u] # None
       /\ Becomes(t, [th[t] EXCEPT !.list = webSources[u],
                      !.mods = lists[webSources[u]].mods, !.pc = "next"])
  /\ UNCHANGED <<shared, logins>>

-----------------------------------------------------------------------------
(* Tokens and the session.  What happens inside createConnection and       *)
(* removeConnection is the subject of SessionRegistry; here each is a step.*)

\* makeAccessToken: the token is new, or, within the second of the previous
\* login, the same.  createConnection may fail to open a session; when the
\* user has one, it takes the token.
Login(u) ==
  /\ \E k \in {issued[u], issued[u] + 1} \cap (1 .. MaxToken) :
       /\ issued' = [issued EXCEPT ![u] = k]
       /\ tokens' = tokens \cup {<<u, k>>}
       /\ \/ session' = [session EXCEPT ![u] = k]
          \/ session[u] = 0 /\ UNCHANGED session
  /\ UNCHANGED <<shared, th>>

\* POST /logout, or Openfire closes the session: the sources and the tokens
\* of the user stay.
DropSession(u) ==
  /\ session[u] # 0
  /\ session' = [session EXCEPT ![u] = 0]
  /\ UNCHANGED <<shared, issued, tokens, th>>

-----------------------------------------------------------------------------
(* A browser tab opens an event source: newEventSource, then onOpen.       *)

\* getEndUser: any token in the map will do.
Subscribe(t, s, u) ==
  /\ At(t, "idle")
  /\ state[s] = "unborn" /\ home[s] = None
  /\ \E k \in 1 .. MaxToken : <<u, k>> \in tokens
  /\ home' = [home EXCEPT ![s] = u]
  /\ Becomes(t, Entry("getSources", s, u))
  /\ UNCHANGED <<webSources, lists, state, logins>>

\* webSources.get(username)
GetSources(t) ==
  /\ At(t, "getSources")
  /\ LET l == webSources[th[t].who]
     IN  Becomes(t, [th[t] EXCEPT !.list = l,
                     !.pc = IF l = None THEN "newSources" ELSE "add"])
  /\ UNCHANGED <<shared, logins>>

\* There was no list: put a new one, whatever the map holds by now.
NewSources(t) ==
  /\ At(t, "newSources")
  /\ webSources' = [webSources EXCEPT ![th[t].who] = th[t].src]
  /\ Becomes(t, [th[t] EXCEPT !.list = th[t].src, !.pc = "add"])
  /\ UNCHANGED <<lists, state, home, logins>>

\* new WebEventSource, and the start of ArrayList.add: modCount++ and the
\* read of elementData.
Add(t) ==
  /\ At(t, "add")
  /\ state' = [state EXCEPT ![th[t].src] = "created"]
  /\ lists' = [lists EXCEPT ![th[t].list].mods = @ + 1]
  /\ LET l == lists[th[t].list]
     IN  Becomes(t, [th[t] EXCEPT !.cap = l.cap, !.era = l.era, !.pc = "room"])
  /\ UNCHANGED <<webSources, home, logins>>

\* The size is read.  When it is the length of that array, grow copies the
\* array the list has by now to a longer one.
Room(t) ==
  /\ At(t, "room")
  /\ LET l == lists[th[t].list]
     IN  \/ /\ l.size # th[t].cap
            /\ Becomes(t, [th[t] EXCEPT !.n = l.size, !.pc = "store"])
         \/ /\ l.size = th[t].cap
            /\ Becomes(t, [th[t] EXCEPT !.n = l.size, !.cap = Longer(l.cap, l.size),
                           !.copy = l.arr, !.pc = "grow"])
  /\ UNCHANGED <<shared, logins>>

\* elementData is the copy, and what others stored meanwhile is not in it.
Grow(t) ==
  /\ At(t, "grow")
  /\ LET l == lists[th[t].list]
     IN  /\ lists' = [lists EXCEPT ![th[t].list] =
                [l EXCEPT !.arr = th[t].copy, !.cap = th[t].cap, !.era = @ + 1]]
         /\ Becomes(t, [th[t] EXCEPT !.era = l.era + 1, !.copy = Blank, !.pc = "store"])
  /\ UNCHANGED <<webSources, state, home, logins>>

\* The element is stored, in the array this thread works on and not in one
\* that has replaced it, and the size.
Store(t) ==
  /\ At(t, "store")
  /\ th[t].n < th[t].cap
  /\ LET l == lists[th[t].list]
     IN  lists' = [lists EXCEPT ![th[t].list] =
           [l EXCEPT !.arr = IF th[t].era = l.era
                             THEN [l.arr EXCEPT ![th[t].n + 1] = th[t].src] ELSE l.arr,
                     !.size = th[t].n + 1]]
  /\ Becomes(t, [th[t] EXCEPT !.pc = "opening"])
  /\ UNCHANGED <<webSources, state, home, logins>>

\* The size is past the end of that array, which was read before the list
\* grew: add throws, and the request for the source ends.
StoreThrows(t) ==
  /\ At(t, "store")
  /\ th[t].n >= th[t].cap
  /\ state' = [state EXCEPT ![th[t].src] = "refused"]
  /\ Return(t)
  /\ UNCHANGED <<webSources, lists, home, logins>>

\* onOpen: when the list has gone from the map meanwhile, its last statement
\* throws and the servlet gives the request up.
Opened(t) ==
  /\ At(t, "opening")
  /\ state' = [state EXCEPT ![th[t].src] =
                 IF webSources[th[t].who] = None THEN "broken" ELSE "open"]
  /\ Return(t)
  /\ UNCHANGED <<webSources, lists, home, logins>>

-----------------------------------------------------------------------------
(* A tab goes away, and a heartbeat to it fails: onClose.                  *)

BrowserGoes(s) ==
  /\ state[s] = "open"
  /\ state' = [state EXCEPT ![s] = "broken"]
  /\ UNCHANGED <<webSources, lists, home, logins, th>>

HeartbeatFails(t, s) ==
  /\ t = Heartbeat /\ At(t, "idle")
  /\ state[s] = "broken"
  /\ state' = [state EXCEPT ![s] = "closed"]
  /\ Becomes(t, Entry("getClosing", s, home[s]))
  /\ UNCHANGED <<webSources, lists, home, logins>>

\* webSources.get(username); when it is null, sources.remove throws.
GetClosing(t) ==
  /\ At(t, "getClosing")
  /\ LET l == webSources[th[t].who]
     IN  \/ l = None /\ Return(t)
         \/ l # None /\ Becomes(t, [th[t] EXCEPT !.list = l, !.pc = "remove"])
  /\ UNCHANGED <<shared, logins>>

\* ArrayList.remove(this): find the source, then modCount++, read the size
\* and shift what follows the source.  A size past the end of the array makes
\* either throw.
Remove(t) ==
  /\ At(t, "remove")
  /\ LET l == lists[th[t].list]
         at == {i \in 1 .. l.size : l.arr[i] = th[t].src /\ i <= l.cap}
     IN  \/ /\ l.size > l.cap
            /\ lists' = [lists EXCEPT ![th[t].list].mods = IF at = {} THEN @ ELSE @ + 1]
            /\ Return(t)
         \/ /\ l.size <= l.cap
            /\ at = {}
            /\ Becomes(t, [th[t] EXCEPT !.pc = "lastOne"])
            /\ UNCHANGED lists
         \/ \E i \in at :
              /\ l.size <= l.cap
              /\ \A j \in at : i <= j
              /\ lists' = [lists EXCEPT ![th[t].list] =
                   [l EXCEPT !.mods = @ + 1,
                             !.arr = [j \in Slot |-> IF i <= j /\ j < l.size
                                                     THEN l.arr[j + 1] ELSE l.arr[j]]]]
              /\ Becomes(t, [th[t] EXCEPT !.n = l.size, !.era = l.era, !.pc = "truncate"])
  /\ UNCHANGED <<webSources, state, home, logins>>

\* The rest of it: the slot past the end is cleared, in the array that was
\* shifted, and the size is stored.
Truncate(t) ==
  /\ At(t, "truncate")
  /\ LET l == lists[th[t].list]
     IN  lists' = [lists EXCEPT ![th[t].list] =
           [l EXCEPT !.arr = IF th[t].era = l.era
                             THEN [l.arr EXCEPT ![th[t].n] = None] ELSE l.arr,
                     !.size = th[t].n - 1]]
  /\ Becomes(t, [th[t] EXCEPT !.pc = "lastOne"])
  /\ UNCHANGED <<webSources, state, home, logins>>

\* sources.size() == 0: webSources.remove(username).
LastOne(t) ==
  /\ At(t, "lastOne")
  /\ \/ /\ lists[th[t].list].size = 0
        /\ webSources' = [webSources EXCEPT ![th[t].who] = None]
        /\ Becomes(t, [th[t] EXCEPT !.pc = "expire"])
     \/ /\ lists[th[t].list].size # 0
        /\ Return(t)
        /\ UNCHANGED webSources
  /\ UNCHANGED <<lists, state, home, logins>>

\* The session of the user is removed, and with it the token it has by now.
\* When there is no session, no token is removed.
ExpireSession(t) ==
  /\ At(t, "expire")
  /\ session' = [session EXCEPT ![th[t].who] = 0]
  /\ tokens' = tokens \ {<<th[t].who, session[th[t].who]>>}
  /\ Return(t)
  /\ UNCHANGED <<shared, issued>>

-----------------------------------------------------------------------------
(* SparkWeb.emitEvent(username, event, json).                              *)

\* webSources.containsKey(username)
Emit(t, u) ==
  /\ t \in Thread /\ At(t, "idle")
  /\ webSources[u] # None
  /\ Becomes(t, Entry("iterate", None, u))
  /\ UNCHANGED <<shared, logins>>

\* webSources.get(username) and the start of the for loop; null throws.
Iterate(t) ==
  /\ At(t, "iterate")
  /\ LET l == webSources[th[t].who]
     IN  \/ l = None /\ Return(t)
         \/ /\ l # None
            /\ Becomes(t, [th[t] EXCEPT !.list = l, !.mods = lists[l].mods,
                                        !.pc = "next"])
  /\ UNCHANGED <<shared, logins>>

\* hasNext is false: the iterator's position is the size of the list.
Finished(t) == /\ At(t, "next")
               /\ th[t].n = lists[th[t].list].size
Done(t) == /\ Finished(t)
           /\ Return(t)
           /\ UNCHANGED <<shared, logins>>

\* hasNext, next and the write of the event to the next source.  The loop
\* ends early, and the sources after this one get nothing, when next throws
\* (the list was modified or shrunk, or its array is too short), when the
\* element is null, when its emitter is not set yet, or when the browser has
\* gone and the write fails.
Deliver(t) ==
  /\ At(t, "next") /\ ~Finished(t)
  /\ LET l == lists[th[t].list]
         i == th[t].n + 1
         throws == l.mods # th[t].mods \/ i > l.size \/ i > l.cap
         s == l.arr[i]
     IN  \/ throws /\ Return(t)
         \/ ~throws /\ s = None /\ Return(t)
         \/ /\ ~throws /\ s # None
            /\ state[s] # "open"
            /\ Return(t)
         \/ /\ ~throws /\ s # None
            /\ state[s] \in {"open", "broken", "closed"}
            /\ Becomes(t, [th[t] EXCEPT !.n = i, !.hit = @ \cup {s}])
  /\ UNCHANGED <<shared, logins>>

-----------------------------------------------------------------------------
Opening(t) == \/ GetSources(t) \/ NewSources(t)
              \/ Add(t) \/ Room(t) \/ Grow(t) \/ Store(t) \/ StoreThrows(t)
              \/ Opened(t)

Closing(t) == \/ GetClosing(t) \/ Remove(t) \/ Truncate(t) \/ LastOne(t)
              \/ ExpireSession(t)

Emitting(t) == Iterate(t) \/ Done(t) \/ Deliver(t)

Continue(t) == Opening(t) \/ Closing(t) \/ Emitting(t)

Outside ==
  \/ \E u \in User : Login(u) \/ DropSession(u)
  \/ \E s \in Source : BrowserGoes(s)
  \/ \E t \in Thread, u \in User : Emit(t, u)

Next ==
  \/ Outside
  \/ \E t \in Thread, s \in Source, u \in User : Subscribe(t, s, u)
  \/ \E s \in Source : HeartbeatFails(Heartbeat, s)
  \/ \E t \in Threads : Continue(t)

Spec == Init /\ [][Next]_vars

\* No thread is in newEventSource, onOpen or onClose for user u.
Quiet(u) == \A t \in Threads : th[t].src # None => th[t].who # u

\* The same, when the event sources of one user open and close one at a
\* time; events are emitted at any time.
SerialNext ==
  \/ Outside
  \/ \E t \in Thread, s \in Source, u \in User : Quiet(u) /\ Subscribe(t, s, u)
  \/ \E s \in Source : Quiet(home[s]) /\ HeartbeatFails(Heartbeat, s)
  \/ \E t \in Threads : Continue(t)

SerialSpec == Init /\ [][SerialNext]_vars

\* Threads that have something to do are scheduled, and heartbeats are sent.
SerialFairness ==
  /\ \A t \in Threads : WF_vars(Continue(t))
  /\ \A s \in Source : WF_vars(Quiet(home[s]) /\ HeartbeatFails(Heartbeat, s))

FairSerialSpec == SerialSpec /\ SerialFairness
-----------------------------------------------------------------------------
\* The sources of u whose tab is open, or whose browser the server still
\* believes to be there.
SourcesOf(u) == {s \in Source : home[s] = u /\ state[s] \in {"created", "open", "broken"}}

\* Between the calls of newEventSource and onClose, the list of a user holds
\* exactly the user's sources, each once, and exists only while there is one.
ListMatchesSources ==
  \A u \in User : Quiet(u) =>
    LET l == webSources[u]
    IN  IF l = None THEN SourcesOf(u) = {}
        ELSE /\ Listed(l) = SourcesOf(u)
             /\ lists[l].size = Cardinality(SourcesOf(u))
             /\ SourcesOf(u) # {}

\* An event is written to the sources of its user only (emitEvent), in
\* whatever order the calls touch the map and the lists.
EventsStayHome ==
  \A t \in Threads : \A s \in th[t].hit : home[s] = th[t].who

\* A source whose onClose has returned is not in its user's list, so that no
\* event is lost to a write to it.
ClosedNeverListed ==
  \A s \in Source :
    /\ state[s] = "closed"
    /\ ~\E t \in Threads : th[t].src = s
    => \A u \in User : webSources[u] # None => s \notin Listed(webSources[u])

\* "token expires when last SSE is removed by user"
\* (WebEventSourceServlet.java:107): onClose never removes the session of a
\* user who has an open event source.
WatchedSessionStays ==
  [][\A t \in Threads : At(t, "expire") /\ ~At(t, "expire")'
                          => \A s \in SourcesOf(th[t].who) : state[s] # "open"]_vars

\* The same comment: when onClose has removed the session of a user, no
\* token of the user opens an event source any more.
TokensExpire ==
  [][\A t \in Threads : At(t, "expire") /\ ~At(t, "expire")' /\ session[th[t].who] # 0
                          => \A k \in 1 .. MaxToken : <<th[t].who, k>> \notin tokens']_vars

\* An event that reached the end of a list nobody was modifying was written
\* to every source in it.
NothingSkipped ==
  \A t \in Thread :
    Finished(t) /\ lists[th[t].list].mods = th[t].mods
      => Listed(th[t].list) \subseteq th[t].hit

\* A user whose browsers are all gone is forgotten: the list goes, or
\* another tab opens.
GoneUserForgotten ==
  \A u \in User :
    (webSources[u] # None /\ \A s \in SourcesOf(u) : state[s] = "broken")
      ~> (webSources[u] = None \/ \E s \in SourcesOf(u) : state[s] # "broken")
=============================================================================
