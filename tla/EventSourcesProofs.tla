------------------------ MODULE EventSourcesProofs -------------------------
(***************************************************************************)
(* What holds of the event sources for any number of users, event sources  *)
(* and threads.  The first part is about every interleaving (Spec): the    *)
(* sizes that racing adds and removes leave stay within the number of the  *)
(* sources, and an event reaches nobody but its user.  The second part is  *)
(* about event sources of a user that open and close one at a time         *)
(* (SerialSpec): the list is exact, an event skips no source, and a        *)
(* session outlives every open source.                                     *)
(***************************************************************************)
EXTENDS EventSources, FiniteSetTheorems, TLAPS

Most == Cardinality(Source)

\* The calls that bring a source in, up to onOpen.
Entering == {"getSources", "newSources", "add", "room", "grow", "store", "opening"}
\* The calls that work on a list.
Holding == {"add", "room", "grow", "store", "opening", "next", "remove", "truncate",
            "lastOne"}
\* The calls that are in the middle of ArrayList.add.
Adding == {"room", "grow", "store"}
\* The calls that have read the size of their list.
Sized == {"grow", "store", "truncate"}

\* What the locals c of a thread say of the source and the list they name.
ThreadOK(c) ==
  /\ c.pc = "idle" => c.src = None /\ c.hit = {}
  /\ c.pc # "idle" => c.who \in User
  /\ c.pc \in {"iterate", "next"} => c.src = None
  /\ c.pc = "iterate" => c.n = 0 /\ c.hit = {}
  /\ c.pc \notin {"idle", "iterate", "next"} =>
       c.src \in Source /\ home[c.src] = c.who /\ c.hit = {}
  /\ c.pc \in {"getSources", "newSources", "add"} => state[c.src] = "unborn"
  /\ c.pc \in Adding \cup {"opening"} => state[c.src] = "created"
  /\ c.pc \in Holding => c.list \in Source /\ home[c.list] = c.who
  /\ c.pc = "grow" => \A i \in Slot : c.copy[i] # None => home[c.copy[i]] = c.who
  /\ \A s \in c.hit : home[s] = c.who

\* The map, the sources and the lists keep the users apart.
HomesOK ==
  /\ \A u \in User : webSources[u] # None => home[webSources[u]] = u
  /\ \A s \in Source : state[s] # "unborn" => home[s] \in User
  /\ \A l \in Source, i \in Slot :
       lists[l].arr[i] # None => home[lists[l].arr[i]] = home[l] /\ home[l] \in User

\* One thread brings a source in.
OneEntry == \A t, o \in Threads :
  th[t].pc \in Entering /\ th[o].pc \in Entering /\ th[t].src = th[o].src => t = o

\* The sources that have been stored in a list, or would have been.
Stored == {s \in Source : /\ state[s] # "unborn"
                          /\ \A t \in Threads : th[t].pc \in Adding => th[t].src # s}

\* No list grows beyond them, not even by an add or a remove that works with
\* an old size.
RoomLeft ==
  /\ \A l \in Source : lists[l].size <= Cardinality(Stored)
  /\ \A t \in Threads :
       /\ th[t].pc \in Sized => th[t].n <= Cardinality(Stored)
       /\ th[t].pc = "truncate" => 1 <= th[t].n

RaceInv ==
  /\ TypeOK
  /\ HomesOK
  /\ \A t \in Threads : ThreadOK(th[t])
  /\ OneEntry
  /\ RoomLeft

-----------------------------------------------------------------------------
(* Lemmas about sizes and locals.                                          *)

Pc == {"idle", "getSources", "newSources", "add", "room", "grow", "store", "opening",
       "iterate", "next", "getClosing", "remove", "truncate", "lastOne", "expire"}

LEMMA SlotsNat == Most \in Nat /\ Slot = 1 .. Most
BY SourcesAssumption, FS_CardinalityType DEF Most, Slot

LEMMA NoneIsNot == None \notin Source /\ None \notin User
BY SourcesAssumption

LEMMA BlankIs == Blank \in Slots /\ \A i \in Slot : Blank[i] = None
BY DEF Blank, Slots

\* grow makes room for the element that is added.
LEMMA LongerIs ==
  ASSUME NEW cap \in Nat, NEW n \in Nat
  PROVE  Longer(cap, n) \in Nat /\ n < Longer(cap, n)
<1>1. cap + cap \div 2 \in Nat
  OBVIOUS
<1>2. QED
  BY <1>1, SourcesAssumption DEF Longer

LEMMA EntryIs ==
  ASSUME NEW p \in Pc, NEW s \in Source \cup {None}, NEW u \in User \cup {None}
  PROVE  LET m == Entry(p, s, u)
         IN  /\ m \in Locals /\ m.pc = p /\ m.src = s /\ m.who = u /\ m.list = None
             /\ m.n = 0 /\ m.mods = 0 /\ m.hit = {}
BY BlankIs DEF Entry, Locals, Pc

LEMMA IdleIs ==
  /\ Idle \in Locals /\ Idle.pc = "idle" /\ Idle.src = None /\ Idle.who = None
  /\ Idle.hit = {}
BY EntryIs DEF Idle, Pc

LEMMA Moves ==
  ASSUME th \in [Threads -> Locals], NEW t \in Threads, NEW c \in Locals, Becomes(t, c)
  PROVE  /\ th' \in [Threads -> Locals] /\ th'[t] = c
         /\ \A o \in Threads \ {t} : th'[o] = th[o]
BY DEF Becomes

\* Thread t is now at p with these locals; the others are where they were.
Now(t, p, src, who, list, n, mods, hit) ==
  /\ th' \in [Threads -> Locals]
  /\ \A o \in Threads \ {t} : th'[o] = th[o]
  /\ th'[t].pc = p /\ th'[t].src = src /\ th'[t].who = who /\ th'[t].list = list
  /\ th'[t].n = n /\ th'[t].mods = mods /\ th'[t].hit = hit

\* Thread t is now at p, with list l.
Goes(t, p, l) ==
  Now(t, p, th[t].src, th[t].who, l, th[t].n, th[t].mods, th[t].hit)

\* The call of thread t has returned.
Returned(t) ==
  /\ th' \in [Threads -> Locals]
  /\ \A o \in Threads \ {t} : th'[o] = th[o]
  /\ th'[t].pc = "idle" /\ th'[t].src = None /\ th'[t].who = None /\ th'[t].hit = {}

LEMMA Returns ==
  ASSUME TypeOK, NEW t \in Threads, Return(t)
  PROVE  Returned(t)
BY Moves, IdleIs DEF TypeOK, Return, Returned

LEMMA StepTo ==
  ASSUME TypeOK, NEW t \in Threads, NEW p \in Pc, NEW l \in Source \cup {None},
         NEW n \in Nat, NEW k \in Nat
  PROVE  /\ Becomes(t, [th[t] EXCEPT !.pc = p]) => Goes(t, p, th[t].list)
         /\ Becomes(t, [th[t] EXCEPT !.list = l, !.pc = p]) => Goes(t, p, l)
         /\ Becomes(t, [th[t] EXCEPT !.n = n, !.pc = p]) =>
              Now(t, p, th[t].src, th[t].who, th[t].list, n, th[t].mods, th[t].hit)
         /\ Becomes(t, [th[t] EXCEPT !.list = l, !.mods = k, !.pc = p]) =>
              Now(t, p, th[t].src, th[t].who, l, th[t].n, k, th[t].hit)
<1>1. th \in [Threads -> Locals] /\ th[t] \in Locals
  BY DEF TypeOK
<1> DEFINE c1 == [th[t] EXCEPT !.pc = p]
           c2 == [th[t] EXCEPT !.list = l, !.pc = p]
           c3 == [th[t] EXCEPT !.n = n, !.pc = p]
           c4 == [th[t] EXCEPT !.list = l, !.mods = k, !.pc = p]
<1>2. /\ c1 \in Locals /\ c1.pc = p /\ c1.src = th[t].src /\ c1.who = th[t].who
      /\ c1.list = th[t].list /\ c1.n = th[t].n /\ c1.mods = th[t].mods /\ c1.hit = th[t].hit
  BY <1>1 DEF Locals, Pc
<1>3. /\ c2 \in Locals /\ c2.pc = p /\ c2.src = th[t].src /\ c2.who = th[t].who
      /\ c2.list = l /\ c2.n = th[t].n /\ c2.mods = th[t].mods /\ c2.hit = th[t].hit
  BY <1>1 DEF Locals, Pc
<1>4. /\ c3 \in Locals /\ c3.pc = p /\ c3.src = th[t].src /\ c3.who = th[t].who
      /\ c3.list = th[t].list /\ c3.n = n /\ c3.mods = th[t].mods /\ c3.hit = th[t].hit
  BY <1>1 DEF Locals, Pc
<1>5. /\ c4 \in Locals /\ c4.pc = p /\ c4.src = th[t].src /\ c4.who = th[t].who
      /\ c4.list = l /\ c4.n = th[t].n /\ c4.mods = k /\ c4.hit = th[t].hit
  BY <1>1 DEF Locals, Pc
<1> HIDE DEF c1, c2, c3, c4
<1>6. Becomes(t, c1) => Goes(t, p, th[t].list)
  BY <1>1, <1>2, Moves DEF Goes, Now
<1>7. Becomes(t, c2) => Goes(t, p, l)
  BY <1>1, <1>3, Moves DEF Goes, Now
<1>8. Becomes(t, c3) => Now(t, p, th[t].src, th[t].who, th[t].list, n, th[t].mods, th[t].hit)
  BY <1>1, <1>4, Moves DEF Now
<1>9. Becomes(t, c4) => Now(t, p, th[t].src, th[t].who, l, th[t].n, k, th[t].hit)
  BY <1>1, <1>5, Moves DEF Now
<1>10. QED
  BY <1>6, <1>7, <1>8, <1>9 DEF c1, c2, c3, c4

LEMMA CallIs ==
  ASSUME TypeOK, NEW t \in Threads, NEW p \in Pc, NEW s \in Source \cup {None}, NEW u \in User,
         Becomes(t, Entry(p, s, u))
  PROVE  Now(t, p, s, u, None, 0, 0, {})
BY Moves, EntryIs DEF TypeOK, Now

-----------------------------------------------------------------------------
(* What each action does to the locals of its thread.                      *)

LEMMA SubscribeIs ==
  ASSUME TypeOK, NEW t \in Threads, NEW s \in Source, NEW u \in User, Subscribe(t, s, u)
  PROVE  Now(t, "getSources", s, u, None, 0, 0, {})
BY CallIs DEF Subscribe, Pc

LEMMA GetSourcesIs ==
  ASSUME TypeOK, NEW t \in Threads, GetSources(t), th[t].who \in User
  PROVE  Goes(t, IF webSources[th[t].who] = None THEN "newSources" ELSE "add",
              webSources[th[t].who])
<1>1. webSources[th[t].who] \in Source \cup {None}
  BY DEF TypeOK
<1>2. CASE webSources[th[t].who] = None
  BY <1>1, <1>2, StepTo DEF GetSources, Pc
<1>3. CASE webSources[th[t].who] # None
  BY <1>1, <1>3, StepTo DEF GetSources, Pc
<1>4. QED
  BY <1>2, <1>3

LEMMA NewSourcesIs ==
  ASSUME TypeOK, NEW t \in Threads, NewSources(t)
  PROVE  Goes(t, "add", th[t].src)
<1>1. th[t].src \in Source \cup {None}
  BY DEF TypeOK, Locals
<1>2. QED
  BY <1>1, StepTo DEF NewSources, Pc

LEMMA AddIs ==
  ASSUME TypeOK, NEW t \in Threads, Add(t), th[t].list \in Source
  PROVE  LET l == lists[th[t].list]
         IN  /\ Goes(t, "room", th[t].list)
             /\ th'[t].cap = l.cap /\ th'[t].era = l.era
<1> DEFINE l == lists[th[t].list]
           c == [th[t] EXCEPT !.cap = l.cap, !.era = l.era, !.pc = "room"]
<1>1. th \in [Threads -> Locals] /\ th[t] \in Locals /\ l.cap \in Nat /\ l.era \in Nat
  BY DEF TypeOK, Lists
<1>2. /\ c \in Locals /\ c.pc = "room" /\ c.src = th[t].src /\ c.who = th[t].who
      /\ c.list = th[t].list /\ c.n = th[t].n /\ c.mods = th[t].mods /\ c.hit = th[t].hit
      /\ c.cap = l.cap /\ c.era = l.era
  BY <1>1 DEF Locals
<1>3. Becomes(t, c)
  BY DEF Add
<1> HIDE DEF c
<1>4. QED
  BY <1>1, <1>2, <1>3, Moves DEF Goes, Now

LEMMA RoomIs ==
  ASSUME TypeOK, NEW t \in Threads, Room(t), th[t].list \in Source
  PROVE  LET l == lists[th[t].list]
         IN  \/ /\ l.size # th[t].cap
                /\ Now(t, "store", th[t].src, th[t].who, th[t].list, l.size, th[t].mods,
                       th[t].hit)
                /\ th'[t].cap = th[t].cap /\ th'[t].era = th[t].era
             \/ /\ l.size = th[t].cap
                /\ Now(t, "grow", th[t].src, th[t].who, th[t].list, l.size, th[t].mods,
                       th[t].hit)
                /\ th'[t].cap = Longer(l.cap, l.size) /\ th'[t].copy = l.arr
<1> DEFINE l == lists[th[t].list]
           b == Longer(l.cap, l.size)
           c == [th[t] EXCEPT !.n = l.size, !.pc = "store"]
           d == [th[t] EXCEPT !.n = l.size, !.cap = b, !.copy = l.arr, !.pc = "grow"]
<1>1. /\ th \in [Threads -> Locals] /\ th[t] \in Locals
      /\ l.cap \in Nat /\ l.size \in Nat /\ l.arr \in Slots
  BY SlotsNat DEF TypeOK, Lists, Most
<1>2. b \in Nat
  BY <1>1, LongerIs
<1>3. \/ l.size # th[t].cap /\ Becomes(t, c)
      \/ l.size = th[t].cap /\ Becomes(t, d)
  BY DEF Room
<1> HIDE DEF b
<1>4. /\ c \in Locals /\ c.pc = "store" /\ c.src = th[t].src /\ c.who = th[t].who
      /\ c.list = th[t].list /\ c.n = l.size /\ c.mods = th[t].mods /\ c.hit = th[t].hit
      /\ c.cap = th[t].cap /\ c.era = th[t].era
  BY <1>1 DEF Locals
<1>5. /\ d \in Locals /\ d.pc = "grow" /\ d.src = th[t].src /\ d.who = th[t].who
      /\ d.list = th[t].list /\ d.n = l.size /\ d.mods = th[t].mods /\ d.hit = th[t].hit
      /\ d.cap = b /\ d.copy = l.arr
  BY <1>1, <1>2 DEF Locals
<1> HIDE DEF c, d
<1>6. CASE l.size # th[t].cap /\ Becomes(t, c)
  BY <1>1, <1>4, <1>6, Moves DEF Now
<1>7. CASE l.size = th[t].cap /\ Becomes(t, d)
  BY <1>1, <1>5, <1>7, Moves DEF Now, b
<1>8. QED
  BY <1>3, <1>6, <1>7

LEMMA GrowIs ==
  ASSUME TypeOK, NEW t \in Threads, Grow(t), th[t].list \in Source
  PROVE  /\ Goes(t, "store", th[t].list)
         /\ th'[t].cap = th[t].cap /\ th'[t].era = lists[th[t].list].era + 1
<1> DEFINE e == lists[th[t].list].era + 1
           b == Blank
           c == [th[t] EXCEPT !.era = e, !.copy = b, !.pc = "store"]
<1>1. th \in [Threads -> Locals] /\ th[t] \in Locals /\ e \in Nat /\ b \in Slots
  BY BlankIs DEF TypeOK, Lists
<1>2. Becomes(t, c)
  BY DEF Grow
<1> HIDE DEF e, b
<1>3. /\ c \in Locals /\ c.pc = "store" /\ c.src = th[t].src /\ c.who = th[t].who
      /\ c.list = th[t].list /\ c.n = th[t].n /\ c.mods = th[t].mods /\ c.hit = th[t].hit
      /\ c.cap = th[t].cap /\ c.era = e
  BY <1>1 DEF Locals
<1> HIDE DEF c
<1>4. QED
  BY <1>1, <1>2, <1>3, Moves DEF Goes, Now, e

LEMMA StoreIs ==
  ASSUME TypeOK, NEW t \in Threads, Store(t)
  PROVE  Goes(t, "opening", th[t].list)
BY StepTo DEF Store, Pc

LEMMA HeartbeatFailsIs ==
  ASSUME TypeOK, NEW t \in Threads, NEW s \in Source, HeartbeatFails(t, s), home[s] \in User
  PROVE  Now(t, "getClosing", s, home[s], None, 0, 0, {})
BY CallIs DEF HeartbeatFails, Pc

LEMMA GetClosingIs ==
  ASSUME TypeOK, NEW t \in Threads, GetClosing(t), th[t].who \in User
  PROVE  \/ webSources[th[t].who] = None /\ Returned(t)
         \/ webSources[th[t].who] # None /\ Goes(t, "remove", webSources[th[t].who])
<1>1. webSources[th[t].who] \in Source \cup {None}
  BY DEF TypeOK
<1>2. QED
  BY <1>1, StepTo, Returns DEF GetClosing, Pc

LEMMA RemoveIs ==
  ASSUME TypeOK, NEW t \in Threads, Remove(t), th[t].list \in Source
  PROVE  LET l == lists[th[t].list]
         IN  \/ l.size > l.cap /\ Returned(t)
             \/ /\ Goes(t, "lastOne", th[t].list)
                /\ lists' = lists
                /\ \A i \in 1 .. l.size : i <= l.cap => l.arr[i] # th[t].src
             \/ /\ Now(t, "truncate", th[t].src, th[t].who, th[t].list, l.size, th[t].mods,
                       th[t].hit)
                /\ l.size <= l.cap /\ th'[t].era = l.era
<1> DEFINE l == lists[th[t].list]
           at == {i \in 1 .. l.size : l.arr[i] = th[t].src /\ i <= l.cap}
           k == l.size
           e == l.era
           c == [th[t] EXCEPT !.n = k, !.era = e, !.pc = "truncate"]
<1>1. /\ th \in [Threads -> Locals] /\ th[t] \in Locals
      /\ k \in Nat /\ e \in Nat
  BY SlotsNat DEF TypeOK, Lists, Most
<1>2. \/ l.size > l.cap /\ Return(t)
      \/ at = {} /\ lists' = lists /\ Becomes(t, [th[t] EXCEPT !.pc = "lastOne"])
      \/ l.size <= l.cap /\ Becomes(t, c)
  BY ZenonT(30) DEF Remove
<1> HIDE DEF k, e
<1>3. /\ c \in Locals /\ c.pc = "truncate" /\ c.src = th[t].src /\ c.who = th[t].who
      /\ c.list = th[t].list /\ c.n = k /\ c.mods = th[t].mods /\ c.hit = th[t].hit
      /\ c.era = e
  BY <1>1 DEF Locals
<1> HIDE DEF c
<1>4. CASE l.size > l.cap /\ Return(t)
  BY <1>4, Returns
<1>5. CASE at = {} /\ lists' = lists /\ Becomes(t, [th[t] EXCEPT !.pc = "lastOne"])
  <2>1. Goes(t, "lastOne", th[t].list)
    BY <1>5, StepTo DEF Pc
  <2>2. QED
    BY <1>5, <2>1
<1>6. CASE l.size <= l.cap /\ Becomes(t, c)
  BY <1>1, <1>3, <1>6, Moves DEF Now, k, e
<1>7. QED
  BY <1>2, <1>4, <1>5, <1>6

LEMMA TruncateIs ==
  ASSUME TypeOK, NEW t \in Threads, Truncate(t)
  PROVE  Goes(t, "lastOne", th[t].list)
BY StepTo DEF Truncate, Pc

LEMMA LastOneIs ==
  ASSUME TypeOK, NEW t \in Threads, LastOne(t)
  PROVE  \/ lists[th[t].list].size = 0 /\ Goes(t, "expire", th[t].list)
         \/ lists[th[t].list].size # 0 /\ Returned(t)
BY StepTo, Returns DEF LastOne, Pc

LEMMA EmitIs ==
  ASSUME TypeOK, NEW t \in Threads, NEW u \in User, Emit(t, u)
  PROVE  Now(t, "iterate", None, u, None, 0, 0, {})
BY CallIs DEF Emit, Pc

LEMMA IterateIs ==
  ASSUME TypeOK, NEW t \in Threads, Iterate(t), th[t].who \in User
  PROVE  \/ webSources[th[t].who] = None /\ Returned(t)
         \/ /\ webSources[th[t].who] # None
            /\ Now(t, "next", th[t].src, th[t].who, webSources[th[t].who], th[t].n,
                   lists[webSources[th[t].who]].mods, th[t].hit)
<1>1. webSources[th[t].who] \in Source \cup {None}
  BY DEF TypeOK
<1>2. webSources[th[t].who] # None => lists[webSources[th[t].who]].mods \in Nat
  BY <1>1 DEF TypeOK, Lists
<1>3. QED
  BY <1>1, <1>2, StepTo, Returns DEF Iterate, Pc

LEMMA DeliverIs ==
  ASSUME TypeOK, NEW t \in Threads, Deliver(t), th[t].list \in Source
  PROVE  LET l == lists[th[t].list]
             i == th[t].n + 1
         IN  \/ Returned(t)
             \/ /\ l.mods = th[t].mods /\ i <= l.size /\ l.arr[i] \in Source
                /\ Now(t, "next", th[t].src, th[t].who, th[t].list, i, th[t].mods,
                       th[t].hit \cup {l.arr[i]})
<1> DEFINE l == lists[th[t].list]
           i == th[t].n + 1
<1>1. CASE Return(t)
  BY <1>1, Returns
<1>2. CASE /\ ~(l.mods # th[t].mods \/ i > l.size \/ i > l.cap) /\ l.arr[i] # None
           /\ Becomes(t, [th[t] EXCEPT !.n = i, !.hit = @ \cup {l.arr[i]}])
  <2>1. l \in Lists /\ th[t] \in Locals /\ i \in Nat /\ th \in [Threads -> Locals]
    BY DEF TypeOK, Locals
  <2>2. l.mods = th[t].mods /\ i <= l.size /\ i \in Slot
    BY <1>2, <2>1, SlotsNat DEF Lists, Locals, Most
  <2>3. l.arr[i] \in Source
    BY <1>2, <2>1, <2>2 DEF Lists, Slots
  <2> DEFINE h == th[t].hit \cup {l.arr[i]}
             c == [th[t] EXCEPT !.n = i, !.hit = h]
  <2>4. h \in SUBSET Source
    BY <2>1, <2>3 DEF Locals
  <2>5. Becomes(t, c)
    BY <1>2, <2>1 DEF Locals
  <2> HIDE DEF h
  <2>6. /\ c \in Locals /\ c.pc = th[t].pc /\ c.src = th[t].src /\ c.who = th[t].who
        /\ c.list = th[t].list /\ c.n = i /\ c.mods = th[t].mods /\ c.hit = h
    BY <2>1, <2>4 DEF Locals
  <2> HIDE DEF c
  <2>7. th[t].pc = "next"
    BY DEF Deliver, At
  <2>8. Now(t, "next", th[t].src, th[t].who, th[t].list, i, th[t].mods, h)
    BY <2>1, <2>5, <2>6, <2>7, Moves DEF Now
  <2>9. QED
    BY <2>2, <2>3, <2>8 DEF h
<1>3. QED
  BY <1>1, <1>2 DEF Deliver

-----------------------------------------------------------------------------
(* The invariant of every interleaving.                                    *)

Others(t) == \A o \in Threads \ {t} : th'[o] = th[o]

\* What thread t does to the sources and their homes is of no concern to
\* another thread.
LEMMA OthersOK ==
  ASSUME RaceInv, NEW t \in Threads, Others(t),
         \A s \in Source : home[s] \in User => home'[s] = home[s],
         \A s \in Source : state'[s] # state[s] /\ state[s] \in {"unborn", "created"} =>
           th[t].pc \in Entering /\ th[t].src = s,
         NEW o \in Threads \ {t}
  PROVE  ThreadOK(th[o])'
<1>1. ThreadOK(th[o]) /\ th'[o] = th[o]
  BY DEF RaceInv, Others
<1>2. \A s \in th[o].hit : s \in Source
  BY DEF RaceInv, TypeOK, Locals
<1>3. th[o].pc \in Entering =>
        state[th[o].src] \in {"unborn", "created"} /\ state'[th[o].src] = state[th[o].src]
  BY <1>1 DEF RaceInv, OneEntry, ThreadOK, Entering, Adding
<1>4. th[o].pc # "idle" => th[o].who \in User
  BY <1>1 DEF ThreadOK
<1>5. th[o].pc = "idle" => th[o].hit = {}
  BY <1>1 DEF ThreadOK
<1>6. \A s \in th[o].hit : home'[s] = th[o].who
  BY <1>1, <1>2, <1>4, <1>5 DEF ThreadOK
<1>7. th[o].pc \notin {"idle", "iterate", "next"} => home'[th[o].src] = th[o].who
  BY <1>1, <1>4 DEF ThreadOK
<1>8. th[o].pc \in Holding => home'[th[o].list] = th[o].who
  BY <1>1, <1>4 DEF ThreadOK, Holding
<1>9. ASSUME th[o].pc = "grow", NEW i \in Slot, th[o].copy[i] # None
      PROVE  home'[th[o].copy[i]] = th[o].who
  <2>1. th[o].copy[i] \in Source
    BY <1>9 DEF RaceInv, TypeOK, Locals, Slots
  <2>2. QED
    BY <1>1, <1>4, <1>9, <2>1 DEF ThreadOK
<1>10. QED
  BY <1>1, <1>3, <1>6, <1>7, <1>8, <1>9 DEF ThreadOK, Entering, Holding, Adding

\* A source a thread starts to bring in has no home yet.
LEMMA EntryKept ==
  ASSUME RaceInv, NEW t \in Threads, Others(t),
         th'[t].pc \in Entering => \/ th[t].pc \in Entering /\ th'[t].src = th[t].src
                                   \/ home[th'[t].src] = None
  PROVE  OneEntry'
<1>1. \A o \in Threads \ {t} : th[o].pc \in Entering => home[th[o].src] # None
  BY NoneIsNot DEF RaceInv, ThreadOK, Entering
<1>2. QED
  BY <1>1 DEF RaceInv, OneEntry, Others

LEMMA StoredFinite ==
  ASSUME NEW S \in SUBSET Source
  PROVE  /\ IsFiniteSet(S) /\ Cardinality(S) \in Nat /\ Cardinality(S) <= Most
         /\ \A T \in SUBSET S : Cardinality(T) <= Cardinality(S)
BY SourcesAssumption, FS_Subset, FS_CardinalityType DEF Most

\* Whatever leaves the sizes of the lists alone, and reads one of them at most.
LEMMA RoomKept ==
  ASSUME RaceInv, TypeOK', NEW t \in Threads, Others(t),
         \A s \in Source : state[s] # "unborn" => state'[s] # "unborn",
         \A l \in Source : lists'[l].size = lists[l].size,
         th'[t].pc \in Adding => \/ state[th'[t].src] = "unborn"
                                 \/ th[t].pc \in Adding /\ th'[t].src = th[t].src,
         th'[t].pc \in Sized => \/ \E l \in Source : th'[t].n = lists[l].size
                                \/ th[t].pc \in Sized /\ th'[t].n = th[t].n,
         th'[t].pc = "truncate" => 1 <= th'[t].n
  PROVE  RoomLeft'
<1>1. Stored \subseteq Stored' /\ Stored' \in SUBSET Source
  BY DEF Stored, Others
<1>2. /\ Cardinality(Stored) <= Cardinality(Stored')
      /\ Cardinality(Stored) \in Nat /\ Cardinality(Stored') \in Nat
  BY <1>1, StoredFinite DEF Stored
<1>3. \A l \in Source : lists[l].size \in Nat /\ lists[l].size <= Cardinality(Stored)
  BY SlotsNat DEF RaceInv, RoomLeft, TypeOK, Lists, Most
<1>4. \A l \in Source : lists'[l].size <= Cardinality(Stored')
  BY <1>2, <1>3
<1>5. ASSUME NEW o \in Threads
      PROVE  /\ th'[o].pc \in Sized => th'[o].n <= Cardinality(Stored')
             /\ th'[o].pc = "truncate" => 1 <= th'[o].n
  <2>1. th'[o].n \in Nat
    BY DEF TypeOK, Locals
  <2>2. th[o].pc \in Sized => th[o].n <= Cardinality(Stored)
    BY DEF RaceInv, RoomLeft
  <2>3. th'[o].pc \in Sized => th'[o].n <= Cardinality(Stored)
    BY <1>3, <2>2 DEF Others
  <2>4. th'[o].pc = "truncate" => 1 <= th'[o].n
    BY DEF RaceInv, RoomLeft, Others
  <2>5. QED
    BY <1>2, <2>1, <2>3, <2>4
<1>6. QED
  BY <1>4, <1>5 DEF RoomLeft

\* A step of thread t that leaves the sources alone and the elements of the
\* lists; it may take a list from the map, or put one of the user's.
LEMMA ReadingStep ==
  ASSUME RaceInv, NEW t \in Threads, Others(t), th' \in [Threads -> Locals],
         UNCHANGED <<state, home, logins>>,
         lists' \in [Source -> Lists],
         \A l \in Source : lists'[l].arr = lists[l].arr /\ lists'[l].size = lists[l].size,
         webSources' \in [User -> Source \cup {None}],
         \A u \in User : webSources'[u] # None => home[webSources'[u]] = u,
         ThreadOK(th'[t]),
         th'[t].pc \in Entering => th[t].pc \in Entering /\ th'[t].src = th[t].src,
         th'[t].pc \in Adding => th[t].pc \in Adding,
         th'[t].pc \in Sized => \E l \in Source : th'[t].n = lists[l].size,
         th'[t].pc # "truncate"
  PROVE  RaceInv'
<1>1. TypeOK'
  BY DEF RaceInv, TypeOK, logins
<1>2. HomesOK'
  BY DEF RaceInv, HomesOK
<1>3. ThreadOK(th[t])'
  BY DEF ThreadOK
<1>4. \A o \in Threads \ {t} : ThreadOK(th[o])'
  BY OthersOK
<1>5. OneEntry'
  BY EntryKept
<1>6. th'[t].pc \in Adding => th[t].pc \in Adding /\ th'[t].src = th[t].src
  BY DEF Adding, Entering
<1>7. RoomLeft'
  BY <1>1, <1>6, RoomKept
<1>8. QED
  BY <1>1, <1>2, <1>3, <1>4, <1>5, <1>7 DEF RaceInv

LEMMA RaceInit == Init => RaceInv
<1> SUFFICES ASSUME Init PROVE RaceInv
  OBVIOUS
<1>1. EmptyList \in Lists
  BY SlotsNat, BlankIs DEF EmptyList, Lists, Most
<1>2. \A t \in Threads : th[t] = Idle
  BY DEF Init
<1>3. MaxToken \in Nat
  BY SourcesAssumption
<1>4. TypeOK
  BY <1>1, <1>3, IdleIs DEF Init, TypeOK, SourceState
<1>5. HomesOK
  BY BlankIs DEF Init, HomesOK, EmptyList
<1>6. \A t \in Threads : ThreadOK(th[t])
  BY <1>2, IdleIs DEF ThreadOK, Holding, Adding
<1>7. OneEntry
  BY <1>2, IdleIs DEF OneEntry, Entering
<1>8. RoomLeft
  <2>1. Cardinality(Stored) \in Nat
    BY StoredFinite DEF Stored
  <2>2. \A l \in Source : lists[l].size = 0
    BY DEF Init, EmptyList
  <2>3. QED
    BY <1>2, <2>1, <2>2, IdleIs DEF RoomLeft, Sized
<1>9. QED
  BY <1>4, <1>5, <1>6, <1>7, <1>8 DEF RaceInv

LEMMA RaceSubscribe ==
  ASSUME RaceInv, NEW t \in Threads, NEW s \in Source, NEW u \in User, Subscribe(t, s, u)
  PROVE  RaceInv'
<1>1. Now(t, "getSources", s, u, None, 0, 0, {})
  BY SubscribeIs DEF RaceInv
<1>2. /\ home' = [home EXCEPT ![s] = u] /\ home[s] = None /\ state[s] = "unborn"
      /\ UNCHANGED <<webSources, lists, state, logins>>
  BY DEF Subscribe
<1>3. /\ home' \in [Source -> User \cup {None}] /\ home'[s] = u
      /\ \A l \in Source \ {s} : home'[l] = home[l]
  BY <1>2 DEF RaceInv, TypeOK
<1>4. Others(t)
  BY <1>1 DEF Now, Others
<1>5. TypeOK'
  BY <1>1, <1>2, <1>3 DEF Now, RaceInv, TypeOK, logins
<1>6. HomesOK'
  <2>1. \A l \in Source : home[l] # None => home'[l] = home[l]
    BY <1>2, <1>3
  <2>2. \A l \in Source, i \in Slot : lists[l].arr[i] \in Source \cup {None}
    BY DEF RaceInv, TypeOK, Lists, Slots
  <2>3. \A v \in User : webSources[v] \in Source \cup {None}
    BY DEF RaceInv, TypeOK
  <2>4. QED
    BY <1>2, <2>1, <2>2, <2>3, NoneIsNot DEF RaceInv, HomesOK
<1>7. ThreadOK(th[t])'
  BY <1>1, <1>2, <1>3 DEF Now, ThreadOK, Holding, Adding, Sized
<1>8. \A o \in Threads \ {t} : ThreadOK(th[o])'
  BY <1>2, <1>3, <1>4, NoneIsNot, OthersOK
<1>9. OneEntry'
  BY <1>1, <1>2, <1>4, EntryKept DEF Now
<1>10. RoomLeft'
  BY <1>1, <1>2, <1>4, <1>5, RoomKept DEF Now, Adding, Sized
<1>11. QED
  BY <1>5, <1>6, <1>7, <1>8, <1>9, <1>10 DEF RaceInv

LEMMA RaceReads ==
  ASSUME RaceInv, NEW t \in Threads,
         GetSources(t) \/ GetClosing(t) \/ Iterate(t) \/ Done(t) \/ Deliver(t)
           \/ (\E u \in User : Emit(t, u)) \/ ExpireSession(t)
  PROVE  /\ Others(t) /\ th' \in [Threads -> Locals]
         /\ ThreadOK(th'[t])
         /\ th'[t].pc \in Entering => th[t].pc \in Entering /\ th'[t].src = th[t].src
         /\ th'[t].pc \notin Adding \cup Sized
<1>1. TypeOK /\ HomesOK /\ ThreadOK(th[t])
  BY DEF RaceInv
<1>2. \A u \in User :
        webSources[u] # None => webSources[u] \in Source /\ home[webSources[u]] = u
  BY <1>1 DEF TypeOK, HomesOK
<1>3. Returned(t) => Others(t) /\ th' \in [Threads -> Locals] /\ ThreadOK(th'[t])
                     /\ th'[t].pc = "idle"
  BY DEF Returned, Others, ThreadOK, Holding, Adding, Sized
<1>4. CASE GetSources(t)
  <2>1. th[t].pc = "getSources" /\ th[t].who \in User
    BY <1>1, <1>4 DEF GetSources, At, ThreadOK, Adding, Sized
  <2>2. Goes(t, IF webSources[th[t].who] = None THEN "newSources" ELSE "add",
             webSources[th[t].who])
    BY <1>1, <1>4, <2>1, GetSourcesIs
  <2>3. QED
    BY <1>1, <1>2, <2>1, <2>2 DEF Goes, Now, Others, ThreadOK, Entering, Holding, Adding, Sized
<1>5. CASE GetClosing(t)
  <2>1. th[t].pc = "getClosing" /\ th[t].who \in User
    BY <1>1, <1>5 DEF GetClosing, At, ThreadOK, Adding, Sized
  <2>2. CASE webSources[th[t].who] # None /\ Goes(t, "remove", webSources[th[t].who])
    BY <1>1, <1>2, <2>1, <2>2 DEF Goes, Now, Others, ThreadOK, Entering, Holding, Adding, Sized
  <2>3. QED
    BY <1>1, <1>3, <1>5, <2>1, <2>2, GetClosingIs DEF Entering, Adding, Sized
<1>6. CASE Iterate(t)
  <2>1. th[t].pc = "iterate" /\ th[t].who \in User
    BY <1>1, <1>6 DEF Iterate, At, ThreadOK, Adding, Sized
  <2>2. CASE /\ webSources[th[t].who] # None
             /\ Now(t, "next", th[t].src, th[t].who, webSources[th[t].who], th[t].n,
                    lists[webSources[th[t].who]].mods, th[t].hit)
    BY <1>1, <1>2, <2>1, <2>2 DEF Now, Others, ThreadOK, Entering, Holding, Adding, Sized
  <2>3. QED
    BY <1>1, <1>3, <1>6, <2>1, <2>2, IterateIs DEF Entering, Adding, Sized
<1>7. CASE Done(t) \/ ExpireSession(t)
  BY <1>1, <1>3, <1>7, Returns DEF Done, ExpireSession, Entering, Adding, Sized
<1>8. CASE Deliver(t)
  <2>1. /\ th[t].pc = "next" /\ th[t].who \in User /\ th[t].src = None
        /\ th[t].list \in Source /\ home[th[t].list] = th[t].who
        /\ \A s \in th[t].hit : home[s] = th[t].who
    BY <1>1, <1>8 DEF Deliver, At, ThreadOK, Holding, Adding, Sized
  <2> DEFINE l == lists[th[t].list]
             i == th[t].n + 1
  <2>2. CASE /\ l.mods = th[t].mods /\ i <= l.size /\ l.arr[i] \in Source
             /\ Now(t, "next", th[t].src, th[t].who, th[t].list, i, th[t].mods,
                    th[t].hit \cup {l.arr[i]})
    <3>1. i \in Slot
      BY <1>1, <2>1, <2>2, SlotsNat DEF TypeOK, Lists, Locals, Most
    <3>2. home[l.arr[i]] = th[t].who
      BY <1>1, <2>1, <2>2, <3>1, NoneIsNot DEF HomesOK
    <3>3. QED
      BY <2>1, <2>2, <3>2 DEF Now, Others, ThreadOK, Entering, Holding, Adding, Sized
  <2>3. QED
    BY <1>1, <1>3, <1>8, <2>1, <2>2, DeliverIs DEF Entering, Adding, Sized
<1>9. ASSUME NEW u \in User, Emit(t, u)
      PROVE  Others(t) /\ th' \in [Threads -> Locals] /\ ThreadOK(th'[t])
             /\ th'[t].pc = "iterate"
  BY <1>1, <1>9, EmitIs DEF Now, Others, ThreadOK, Holding, Adding, Sized
<1>10. QED
  BY <1>4, <1>5, <1>6, <1>7, <1>8, <1>9 DEF Entering, Adding, Sized

LEMMA RaceReading ==
  ASSUME RaceInv, NEW t \in Threads,
         GetSources(t) \/ GetClosing(t) \/ Iterate(t) \/ Done(t) \/ Deliver(t)
           \/ (\E u \in User : Emit(t, u))
  PROVE  RaceInv'
<1>1. UNCHANGED <<webSources, lists, state, home, logins>>
  BY DEF GetSources, GetClosing, Iterate, Done, Deliver, Emit, shared
<1>2. /\ webSources' \in [User -> Source \cup {None}]
      /\ \A u \in User : webSources'[u] # None => home[webSources'[u]] = u
  BY <1>1 DEF RaceInv, TypeOK, HomesOK
<1>3. QED
  BY <1>1, <1>2, RaceReads, ReadingStep DEF Sized, RaceInv, TypeOK

LEMMA RaceExpire ==
  ASSUME RaceInv, NEW t \in Threads, ExpireSession(t)
  PROVE  RaceInv'
<1>1. /\ UNCHANGED <<webSources, lists, state, home, issued>>
      /\ session' = [session EXCEPT ![th[t].who] = 0] /\ tokens' \subseteq tokens
  BY DEF ExpireSession, shared
<1>2. Others(t) /\ th' \in [Threads -> Locals] /\ ThreadOK(th'[t]) /\ th'[t].pc = "idle"
  BY RaceReads, Returns DEF ExpireSession, Returned, RaceInv
<1>3. TypeOK'
  <2>1. MaxToken \in Nat /\ 0 \in 0 .. MaxToken
    BY SourcesAssumption
  <2>2. session' \in [User -> 0 .. MaxToken]
    BY <1>1, <2>1 DEF RaceInv, TypeOK
  <2>3. tokens' \in SUBSET (User \X (1 .. MaxToken))
    BY <1>1 DEF RaceInv, TypeOK
  <2>4. QED
    BY <1>1, <1>2, <2>2, <2>3 DEF RaceInv, TypeOK
<1>4. HomesOK'
  BY <1>1 DEF RaceInv, HomesOK
<1>5. ThreadOK(th[t])'
  BY <1>1, <1>2 DEF ThreadOK, Adding, Sized
<1>6. \A o \in Threads \ {t} : ThreadOK(th[o])'
  BY <1>1, <1>2, OthersOK
<1>7. OneEntry'
  BY <1>2, EntryKept DEF Entering, Adding, Sized
<1>8. RoomLeft'
  BY <1>1, <1>2, <1>3, RoomKept DEF Adding, Sized
<1>9. QED
  BY <1>3, <1>4, <1>5, <1>6, <1>7, <1>8 DEF RaceInv

LEMMA RaceNewSources ==
  ASSUME RaceInv, NEW t \in Threads, NewSources(t)
  PROVE  RaceInv'
<1>1. /\ ThreadOK(th[t]) /\ th[t].pc = "newSources" /\ TypeOK /\ HomesOK
      /\ webSources' = [webSources EXCEPT ![th[t].who] = th[t].src]
      /\ UNCHANGED <<lists, state, home, logins>>
  BY DEF NewSources, At, RaceInv
<1>2. th[t].src \in Source /\ th[t].who \in User /\ home[th[t].src] = th[t].who
  BY <1>1 DEF ThreadOK, Adding, Sized
<1>3. Goes(t, "add", th[t].src)
  BY <1>1, NewSourcesIs
<1>4. /\ webSources' \in [User -> Source \cup {None}] /\ lists' \in [Source -> Lists]
      /\ \A u \in User : webSources'[u] # None => home[webSources'[u]] = u
  BY <1>1, <1>2 DEF TypeOK, HomesOK
<1>5. ThreadOK(th'[t])
  BY <1>1, <1>2, <1>3 DEF Goes, Now, ThreadOK, Holding, Adding, Sized
<1>6. QED
  BY <1>1, <1>3, <1>4, <1>5, ReadingStep DEF Goes, Now, Others, Entering, Adding, Sized

LEMMA RaceLastOne ==
  ASSUME RaceInv, NEW t \in Threads, LastOne(t)
  PROVE  RaceInv'
<1>1. /\ ThreadOK(th[t]) /\ th[t].pc = "lastOne" /\ TypeOK /\ HomesOK
      /\ UNCHANGED <<lists, state, home, logins>>
      /\ \/ webSources' = [webSources EXCEPT ![th[t].who] = None]
         \/ webSources' = webSources
  BY DEF LastOne, At, RaceInv
<1>2. /\ webSources' \in [User -> Source \cup {None}] /\ lists' \in [Source -> Lists]
      /\ \A u \in User : webSources'[u] # None => home[webSources'[u]] = u
  BY <1>1 DEF TypeOK, HomesOK
<1>3. CASE Goes(t, "expire", th[t].list)
  BY <1>1, <1>2, <1>3, ReadingStep DEF Goes, Now, Others, ThreadOK, Holding, Entering, Adding, Sized
<1>4. CASE Returned(t)
  BY <1>1, <1>2, <1>4, ReadingStep DEF Returned, Others, ThreadOK, Holding, Entering, Adding, Sized
<1>5. QED
  BY <1>1, <1>3, <1>4, LastOneIs

-----------------------------------------------------------------------------
(* What the halves of add and remove do to the list.                       *)

LEMMA AddList ==
  ASSUME RaceInv, NEW t \in Threads, Add(t)
  PROVE  LET a == th[t].list
         IN  /\ a \in Source /\ lists' \in [Source -> Lists]
             /\ lists'[a].arr = lists[a].arr /\ lists'[a].size = lists[a].size
             /\ lists'[a].cap = lists[a].cap /\ lists'[a].era = lists[a].era
             /\ lists'[a].mods = lists[a].mods + 1
             /\ \A l \in Source \ {a} : lists'[l] = lists[l]
<1> DEFINE a == th[t].list
           m == [lists[a] EXCEPT !.mods = @ + 1]
<1>1. a \in Source /\ lists \in [Source -> Lists] /\ lists[a] \in Lists
  BY DEF RaceInv, TypeOK, ThreadOK, Holding, Add, At
<1>2. /\ m \in Lists /\ m.size = lists[a].size /\ m.arr = lists[a].arr
      /\ m.cap = lists[a].cap /\ m.era = lists[a].era /\ m.mods = lists[a].mods + 1
  BY <1>1 DEF Lists
<1>3. lists' = [lists EXCEPT ![a] = m]
  BY DEF Add
<1> HIDE DEF m
<1>4. QED
  BY <1>1, <1>2, <1>3

LEMMA GrowList ==
  ASSUME RaceInv, NEW t \in Threads, Grow(t)
  PROVE  LET a == th[t].list
         IN  /\ a \in Source /\ lists' \in [Source -> Lists]
             /\ lists'[a].arr = th[t].copy /\ lists'[a].cap = th[t].cap
             /\ lists'[a].era = lists[a].era + 1
             /\ lists'[a].size = lists[a].size /\ lists'[a].mods = lists[a].mods
             /\ \A l \in Source \ {a} : lists'[l] = lists[l]
<1> DEFINE a == th[t].list
           b == th[t].copy
           n == th[t].cap
           e == lists[a].era + 1
           m == [lists[a] EXCEPT !.arr = b, !.cap = n, !.era = e]
<1>1. /\ a \in Source /\ lists \in [Source -> Lists] /\ lists[a] \in Lists
      /\ b \in Slots /\ n \in Nat /\ e \in Nat
  <2>1. a \in Source /\ lists \in [Source -> Lists] /\ lists[a] \in Lists
    BY DEF RaceInv, TypeOK, ThreadOK, Holding, Grow, At
  <2>2. b \in Slots /\ n \in Nat
    BY DEF RaceInv, TypeOK, Locals
  <2>3. QED
    BY <2>1, <2>2 DEF Lists
<1>2. lists' = [lists EXCEPT ![a] = m]
  BY DEF Grow
<1> HIDE DEF b, n, e
<1>3. /\ m \in Lists /\ m.arr = b /\ m.cap = n /\ m.era = e
      /\ m.size = lists[a].size /\ m.mods = lists[a].mods
  BY <1>1 DEF Lists
<1> HIDE DEF m
<1>4. QED
  BY <1>1, <1>2, <1>3 DEF b, n, e

LEMMA StoreList ==
  ASSUME RaceInv, NEW t \in Threads, Store(t)
  PROVE  LET a == th[t].list
             n == th[t].n
         IN  /\ a \in Source /\ n + 1 \in Slot /\ lists' \in [Source -> Lists]
             /\ th[t].era = lists[a].era => lists'[a].arr[n + 1] = th[t].src
             /\ \/ lists'[a].arr = lists[a].arr
                \/ lists'[a].arr[n + 1] = th[t].src
             /\ \A i \in Slot \ {n + 1} : lists'[a].arr[i] = lists[a].arr[i]
             /\ lists'[a].size = n + 1 /\ lists'[a].mods = lists[a].mods
             /\ lists'[a].cap = lists[a].cap /\ lists'[a].era = lists[a].era
             /\ \A l \in Source \ {a} : lists'[l] = lists[l]
             /\ Cardinality(Stored) \in Nat /\ Cardinality(Stored') = Cardinality(Stored) + 1
<1> DEFINE s == th[t].src
           a == th[t].list
           n == th[t].n
           b == IF th[t].era = lists[a].era THEN [lists[a].arr EXCEPT ![n + 1] = s]
                ELSE lists[a].arr
           m == [lists[a] EXCEPT !.arr = b, !.size = n + 1]
<1>1. /\ ThreadOK(th[t]) /\ th[t].pc = "store" /\ TypeOK
      /\ lists' = [lists EXCEPT ![a] = m]
      /\ state' = state
  BY DEF Store, At, RaceInv
<1>2. s \in Source /\ a \in Source /\ state[s] = "created" /\ n \in Nat
  BY <1>1 DEF ThreadOK, Holding, Adding, TypeOK, Locals
<1>3. Stored' = Stored \cup {s} /\ s \notin Stored
  <2>1. s \notin Stored
    BY <1>1 DEF Stored, Adding
  <2>2. \A o \in Threads \ {t} : th[o].pc \in Adding => th[o].src # s
    BY <1>1 DEF RaceInv, OneEntry, Entering, Adding
  <2>3. Goes(t, "opening", a)
    BY <1>1, StoreIs
  <2>4. \A r \in Source : r \in Stored' <=> r \in Stored \/ r = s
    BY <1>1, <1>2, <2>2, <2>3 DEF Goes, Now, Stored, Adding
  <2>5. QED
    BY <1>2, <2>1, <2>4 DEF Stored
<1>4. /\ Cardinality(Stored) \in Nat /\ Cardinality(Stored') = Cardinality(Stored) + 1
      /\ Cardinality(Stored') <= Most /\ Most \in Nat
  <2>1. IsFiniteSet(Stored) /\ Cardinality(Stored) \in Nat
    BY StoredFinite DEF Stored
  <2>2. Cardinality(Stored \cup {s}) = Cardinality(Stored) + 1
    BY <1>3, <2>1, FS_AddElement
  <2>3. Stored' \in SUBSET Source
    BY <1>2, <1>3 DEF Stored
  <2>4. QED
    BY <1>3, <2>1, <2>2, <2>3, StoredFinite, SlotsNat
<1>5. n <= Cardinality(Stored)
  BY <1>1 DEF RaceInv, RoomLeft, Sized
<1>6. n + 1 \in Slot /\ n + 1 \in 0 .. Most
  BY <1>2, <1>4, <1>5, SlotsNat
<1>7. lists[a] \in Lists /\ lists \in [Source -> Lists] /\ lists[a].arr \in Slots
  BY <1>1, <1>2 DEF TypeOK, Lists
<1>8. /\ b \in Slots
      /\ th[t].era = lists[a].era => b[n + 1] = s
      /\ b = lists[a].arr \/ b[n + 1] = s
      /\ \A i \in Slot \ {n + 1} : b[i] = lists[a].arr[i]
  <2> DEFINE q == lists[a].arr
             p == [q EXCEPT ![n + 1] = s]
  <2>1. p \in Slots /\ p[n + 1] = s /\ \A i \in Slot \ {n + 1} : p[i] = q[i]
    BY <1>2, <1>6, <1>7 DEF Slots
  <2>2. b = IF th[t].era = lists[a].era THEN p ELSE q
    OBVIOUS
  <2> HIDE DEF b, p
  <2>3. QED
    BY <1>7, <2>1, <2>2
<1> HIDE DEF b
<1>9. /\ m \in Lists /\ m.arr = b /\ m.size = n + 1 /\ m.mods = lists[a].mods
      /\ m.cap = lists[a].cap /\ m.era = lists[a].era
  <2> DEFINE x == n + 1
  <2>1. x \in 0 .. Cardinality(Source) /\ m = [lists[a] EXCEPT !.arr = b, !.size = x]
    BY <1>6 DEF Most
  <2> HIDE DEF x, m
  <2>2. /\ m \in Lists /\ m.arr = b /\ m.size = x /\ m.mods = lists[a].mods
        /\ m.cap = lists[a].cap /\ m.era = lists[a].era
    BY <1>7, <1>8, <2>1 DEF Lists
  <2>3. QED
    BY <2>2 DEF x
<1> HIDE DEF m
<1>10. QED
  BY <1>1, <1>2, <1>4, <1>6, <1>7, <1>8, <1>9

LEMMA RemoveLeaves ==
  ASSUME NEW t \in Threads, Remove(t)
  PROVE  th[t].pc = "remove" /\ UNCHANGED <<webSources, state, home, logins>>
BY Zenon DEF Remove, At

LEMMA RemoveList ==
  ASSUME RaceInv, NEW t \in Threads, Remove(t), th'[t].pc = "truncate"
  PROVE  LET a == th[t].list
             n == lists[a].size
         IN  /\ a \in Source /\ n \in Slot /\ lists' \in [Source -> Lists]
             /\ lists'[a].size = n /\ lists'[a].mods = lists[a].mods + 1
             /\ lists'[a].cap = lists[a].cap /\ lists'[a].era = lists[a].era
             /\ \A l \in Source \ {a} : lists'[l] = lists[l]
             /\ \E i \in 1 .. n :
                  /\ lists[a].arr[i] = th[t].src
                  /\ \A j \in Slot : lists'[a].arr[j] = IF i <= j /\ j < n THEN lists[a].arr[j + 1]
                                                       ELSE lists[a].arr[j]
<1> DEFINE a == th[t].list
           n == lists[a].size
<1>1. /\ a \in Source /\ lists \in [Source -> Lists] /\ lists[a] \in Lists
      /\ n \in Nat /\ n <= Most /\ Most \in Nat /\ TypeOK
  <2>1. a \in Source /\ lists \in [Source -> Lists] /\ TypeOK
    <3>1. th[t].pc = "remove"
      BY RemoveLeaves
    <3>2. QED
      BY <3>1 DEF RaceInv, TypeOK, ThreadOK, Holding
  <2>2. lists[a] \in Lists
    BY <2>1
  <2>3. QED
    BY <2>1, <2>2, SlotsNat DEF Lists, Most
<1>2. PICK i \in 1 .. n :
        /\ lists[a].arr[i] = th[t].src
        /\ lists' = [lists EXCEPT ![a] =
             [lists[a] EXCEPT !.mods = @ + 1,
                       !.arr = [j \in Slot |-> IF i <= j /\ j < n THEN lists[a].arr[j + 1]
                                               ELSE lists[a].arr[j]]]]
  <2>1. Becomes(t, [th[t] EXCEPT !.pc = "lastOne"]) => th'[t].pc = "lastOne"
    BY <1>1 DEF TypeOK, Becomes, Locals
  <2>2. Return(t) => th'[t].pc = "idle"
    BY <1>1, Returns DEF Returned
  <2>3. th'[t].pc # "lastOne" /\ th'[t].pc # "idle"
    OBVIOUS
  <2>4. QED
    BY <2>1, <2>2, <2>3, ZenonT(30) DEF Remove
<1> DEFINE b == [j \in Slot |-> IF i <= j /\ j < n THEN lists[a].arr[j + 1]
                               ELSE lists[a].arr[j]]
           m == [lists[a] EXCEPT !.mods = @ + 1, !.arr = b]
<1>3. b \in Slots
  <2>1. ASSUME NEW j \in Slot, i <= j, j < n PROVE j + 1 \in Slot
    BY <1>1, <2>1, SlotsNat
  <2>2. QED
    BY <1>1, <2>1 DEF Lists, Slots
<1>4. \A j \in Slot : b[j] = IF i <= j /\ j < n THEN lists[a].arr[j + 1] ELSE lists[a].arr[j]
  OBVIOUS
<1> HIDE DEF b
<1>5. /\ m \in Lists /\ m.arr = b /\ m.size = n /\ m.mods = lists[a].mods + 1
      /\ m.cap = lists[a].cap /\ m.era = lists[a].era
  <2>1. lists[a] \in Lists
    BY <1>1
  <2> DEFINE r == lists[a]
             k == r.mods + 1
  <2>2. r \in Lists /\ k \in Nat /\ m = [r EXCEPT !.mods = k, !.arr = b]
    BY <2>1 DEF Lists
  <2>3. k = lists[a].mods + 1 /\ r.size = n
    OBVIOUS
  <2> HIDE DEF k, m
  <2>4. /\ m \in Lists /\ m.arr = b /\ m.size = r.size /\ m.mods = k
        /\ m.cap = r.cap /\ m.era = r.era
    BY <1>3, <2>2 DEF Lists
  <2>5. QED
    BY <2>3, <2>4
<1>6. lists' = [lists EXCEPT ![a] = m]
  BY <1>2 DEF b
<1> HIDE DEF m
<1>7. n \in Slot
  BY <1>1, SlotsNat
<1>8. lists' \in [Source -> Lists] /\ lists'[a] = m /\ \A l \in Source \ {a} : lists'[l] = lists[l]
  BY <1>1, <1>5, <1>6
<1>9. /\ lists[a].arr[i] = th[t].src
      /\ \A j \in Slot : lists'[a].arr[j] = IF i <= j /\ j < n THEN lists[a].arr[j + 1]
                                             ELSE lists[a].arr[j]
  <2>1. lists[a].arr[i] = th[t].src
    BY <1>2
  <2>2. lists'[a].arr = b
    BY <1>5, <1>8
  <2>3. QED
    BY <1>4, <2>1, <2>2
<1>10. QED
  BY <1>1, <1>5, <1>7, <1>8, <1>9

LEMMA TruncateList ==
  ASSUME RaceInv, NEW t \in Threads, Truncate(t)
  PROVE  LET a == th[t].list
             n == th[t].n
         IN  /\ a \in Source /\ n \in Slot /\ n <= Cardinality(Stored)
             /\ lists' \in [Source -> Lists]
             /\ th[t].era = lists[a].era => lists'[a].arr[n] = None
             /\ lists'[a].arr = lists[a].arr \/ lists'[a].arr[n] = None
             /\ \A i \in Slot \ {n} : lists'[a].arr[i] = lists[a].arr[i]
             /\ lists'[a].size = n - 1 /\ lists'[a].mods = lists[a].mods
             /\ lists'[a].cap = lists[a].cap /\ lists'[a].era = lists[a].era
             /\ \A l \in Source \ {a} : lists'[l] = lists[l]
<1> DEFINE a == th[t].list
           n == th[t].n
           b == IF th[t].era = lists[a].era THEN [lists[a].arr EXCEPT ![n] = None]
                ELSE lists[a].arr
           m == [lists[a] EXCEPT !.arr = b, !.size = n - 1]
<1>1. /\ ThreadOK(th[t]) /\ th[t].pc = "truncate" /\ TypeOK
      /\ lists' = [lists EXCEPT ![a] = m]
  BY DEF Truncate, At, RaceInv
<1>2. /\ a \in Source /\ n \in Nat /\ lists[a] \in Lists /\ lists \in [Source -> Lists]
      /\ 1 <= n /\ n <= Cardinality(Stored) /\ lists[a].arr \in Slots
  BY <1>1 DEF ThreadOK, Holding, TypeOK, Locals, Lists, RaceInv, RoomLeft, Sized
<1>3. Cardinality(Stored) \in Nat /\ Cardinality(Stored) <= Most /\ Most \in Nat
  BY StoredFinite, SlotsNat DEF Stored
<1>4. n \in Slot /\ n - 1 \in 0 .. Most
  BY <1>2, <1>3, SlotsNat
<1>5. /\ b \in Slots
      /\ th[t].era = lists[a].era => b[n] = None
      /\ b = lists[a].arr \/ b[n] = None
      /\ \A i \in Slot \ {n} : b[i] = lists[a].arr[i]
  <2> DEFINE q == lists[a].arr
             p == [q EXCEPT ![n] = None]
  <2>1. p \in Slots /\ p[n] = None /\ \A i \in Slot \ {n} : p[i] = q[i]
    BY <1>2, <1>4 DEF Slots
  <2>2. b = IF th[t].era = lists[a].era THEN p ELSE q
    OBVIOUS
  <2> HIDE DEF b, p
  <2>3. QED
    BY <1>2, <2>1, <2>2
<1> HIDE DEF b
<1>6. /\ m \in Lists /\ m.arr = b /\ m.size = n - 1 /\ m.mods = lists[a].mods
      /\ m.cap = lists[a].cap /\ m.era = lists[a].era
  <2> DEFINE x == n - 1
  <2>1. x \in 0 .. Cardinality(Source) /\ m = [lists[a] EXCEPT !.arr = b, !.size = x]
    BY <1>4 DEF Most
  <2> HIDE DEF x, m
  <2>2. /\ m \in Lists /\ m.arr = b /\ m.size = x /\ m.mods = lists[a].mods
        /\ m.cap = lists[a].cap /\ m.era = lists[a].era
    BY <1>2, <1>5, <2>1 DEF Lists
  <2>3. QED
    BY <2>2 DEF x
<1> HIDE DEF m
<1>7. QED
  BY <1>1, <1>2, <1>4, <1>5, <1>6

-----------------------------------------------------------------------------
LEMMA RaceAdd ==
  ASSUME RaceInv, NEW t \in Threads, Add(t)
  PROVE  RaceInv'
<1> DEFINE s == th[t].src
           a == th[t].list
<1>1. /\ ThreadOK(th[t]) /\ th[t].pc = "add" /\ TypeOK /\ HomesOK
      /\ state' = [state EXCEPT ![s] = "created"]
      /\ UNCHANGED <<webSources, home, logins>>
  BY DEF Add, At, RaceInv
<1>2. /\ s \in Source /\ a \in Source /\ th[t].who \in User /\ home[s] = th[t].who
      /\ state[s] = "unborn" /\ home[a] = th[t].who /\ th[t].hit = {}
  BY <1>1 DEF ThreadOK, Holding
<1>3. Goes(t, "room", a)
  BY <1>1, <1>2, AddIs
<1>4. /\ state' \in [Source -> SourceState] /\ state'[s] = "created"
      /\ \A r \in Source \ {s} : state'[r] = state[r]
  BY <1>1, <1>2 DEF TypeOK, SourceState
<1>5. /\ lists' \in [Source -> Lists]
      /\ \A l \in Source : lists'[l].size = lists[l].size /\ lists'[l].arr = lists[l].arr
  BY AddList
<1>6. Others(t)
  BY <1>3 DEF Goes, Now, Others
<1>7. TypeOK'
  BY <1>1, <1>3, <1>4, <1>5 DEF Goes, Now, TypeOK, logins
<1>8. HomesOK'
  BY <1>1, <1>2, <1>4, <1>5 DEF HomesOK
<1>9. ThreadOK(th[t])'
  BY <1>1, <1>2, <1>3, <1>4 DEF Goes, Now, ThreadOK, Holding, Adding
<1>10. \A o \in Threads \ {t} : ThreadOK(th[o])'
  BY <1>1, <1>4, <1>6, OthersOK DEF Entering
<1>11. OneEntry'
  BY <1>1, <1>3, <1>6, EntryKept DEF Goes, Now, Entering
<1>12. RoomLeft'
  BY <1>2, <1>3, <1>4, <1>5, <1>6, <1>7, RoomKept DEF Goes, Now, Adding, Sized
<1>13. QED
  BY <1>7, <1>8, <1>9, <1>10, <1>11, <1>12 DEF RaceInv

\* The elements of a list that changes are the user's, too.
LEMMA HomesKept ==
  ASSUME RaceInv, NEW a \in Source, lists' \in [Source -> Lists],
         UNCHANGED <<webSources, state, home>>,
         \A l \in Source \ {a} : lists'[l] = lists[l],
         \A i \in Slot : \/ lists'[a].arr[i] = None
                         \/ \E j \in Slot : lists'[a].arr[i] = lists[a].arr[j]
                         \/ home[lists'[a].arr[i]] = home[a] /\ home[a] \in User
  PROVE  HomesOK'
<1>1. ASSUME NEW l \in Source, NEW i \in Slot, lists'[l].arr[i] # None
      PROVE  home[lists'[l].arr[i]] = home[l] /\ home[l] \in User
  <2>1. CASE l = a
    BY <1>1, <2>1 DEF RaceInv, HomesOK
  <2>2. CASE l # a
    BY <1>1, <2>2 DEF RaceInv, HomesOK
  <2>3. QED
    BY <2>1, <2>2
<1>2. QED
  BY <1>1 DEF RaceInv, HomesOK

LEMMA RaceRoom ==
  ASSUME RaceInv, NEW t \in Threads, Room(t)
  PROVE  RaceInv'
<1> DEFINE a == th[t].list
           n == lists[a].size
<1>1. /\ ThreadOK(th[t]) /\ th[t].pc = "room" /\ TypeOK /\ HomesOK
      /\ UNCHANGED <<webSources, lists, state, home, logins>>
  BY DEF Room, At, RaceInv, shared
<1>2. /\ th[t].src \in Source /\ a \in Source /\ th[t].who \in User
      /\ home[th[t].src] = th[t].who /\ state[th[t].src] = "created"
      /\ home[a] = th[t].who /\ th[t].hit = {}
  BY <1>1 DEF ThreadOK, Holding, Adding
<1>3. /\ webSources' \in [User -> Source \cup {None}] /\ lists' \in [Source -> Lists]
      /\ \A u \in User : webSources'[u] # None => home[webSources'[u]] = u
  BY <1>1 DEF TypeOK, HomesOK
<1>4. \A i \in Slot : lists[a].arr[i] # None => home[lists[a].arr[i]] = th[t].who
  BY <1>1, <1>2 DEF HomesOK
<1>5. /\ Others(t) /\ th' \in [Threads -> Locals] /\ th'[t].pc \in {"store", "grow"}
      /\ th'[t].src = th[t].src /\ th'[t].n = n /\ ThreadOK(th'[t])
  <2>1. CASE Now(t, "store", th[t].src, th[t].who, a, n, th[t].mods, th[t].hit)
    BY <1>2, <2>1 DEF Now, Others, ThreadOK, Holding, Adding
  <2>2. CASE /\ Now(t, "grow", th[t].src, th[t].who, a, n, th[t].mods, th[t].hit)
             /\ th'[t].copy = lists[a].arr
    BY <1>2, <1>4, <2>2 DEF Now, Others, ThreadOK, Holding, Adding
  <2>3. QED
    BY <1>1, <1>2, <2>1, <2>2, RoomIs
<1>6. QED
  BY <1>1, <1>2, <1>3, <1>5, ReadingStep DEF Entering, Adding

LEMMA RaceGrow ==
  ASSUME RaceInv, NEW t \in Threads, Grow(t)
  PROVE  RaceInv'
<1> DEFINE a == th[t].list
<1>1. /\ ThreadOK(th[t]) /\ th[t].pc = "grow" /\ TypeOK
      /\ UNCHANGED <<webSources, state, home, logins>>
  BY DEF Grow, At, RaceInv
<1>2. /\ th[t].src \in Source /\ a \in Source /\ th[t].who \in User
      /\ home[th[t].src] = th[t].who /\ state[th[t].src] = "created"
      /\ home[a] = th[t].who /\ th[t].hit = {}
      /\ \A i \in Slot : th[t].copy[i] # None => home[th[t].copy[i]] = th[t].who
  BY <1>1 DEF ThreadOK, Holding, Adding
<1>3. Goes(t, "store", a) /\ Others(t)
  BY <1>1, <1>2, GrowIs DEF Goes, Now, Others
<1>4. /\ lists' \in [Source -> Lists] /\ lists'[a].arr = th[t].copy
      /\ \A l \in Source \ {a} : lists'[l] = lists[l]
      /\ \A l \in Source : lists'[l].size = lists[l].size
  BY GrowList
<1>5. TypeOK'
  BY <1>1, <1>3, <1>4 DEF Goes, Now, TypeOK, logins
<1>6. HomesOK'
  BY <1>1, <1>2, <1>4, HomesKept
<1>7. ThreadOK(th[t])'
  BY <1>1, <1>2, <1>3 DEF Goes, Now, ThreadOK, Holding, Adding
<1>8. \A o \in Threads \ {t} : ThreadOK(th[o])'
  BY <1>1, <1>3, OthersOK
<1>9. OneEntry'
  BY <1>1, <1>3, EntryKept DEF Goes, Now, Entering
<1>10. RoomLeft'
  BY <1>1, <1>3, <1>4, <1>5, RoomKept DEF Goes, Now, Adding, Sized
<1>11. QED
  BY <1>5, <1>6, <1>7, <1>8, <1>9, <1>10 DEF RaceInv

LEMMA RaceStore ==
  ASSUME RaceInv, NEW t \in Threads, Store(t)
  PROVE  RaceInv'
<1> DEFINE s == th[t].src
           a == th[t].list
           n == th[t].n
<1>1. /\ ThreadOK(th[t]) /\ th[t].pc = "store" /\ TypeOK
      /\ UNCHANGED <<webSources, state, home, logins>>
  BY DEF Store, At, RaceInv
<1>2. /\ s \in Source /\ a \in Source /\ th[t].who \in User /\ home[s] = th[t].who
      /\ state[s] = "created" /\ home[a] = th[t].who /\ th[t].hit = {} /\ n \in Nat
  BY <1>1 DEF ThreadOK, Holding, Adding, TypeOK, Locals
<1>3. Goes(t, "opening", a) /\ Others(t)
  BY <1>1, StoreIs DEF Goes, Now, Others
<1>4. n <= Cardinality(Stored)
  BY <1>1 DEF RaceInv, RoomLeft, Sized
<1>5. TypeOK'
  BY <1>1, <1>3, StoreList DEF Goes, Now, TypeOK, logins
<1>6. HomesOK'
  <2>1. /\ lists' \in [Source -> Lists] /\ \A l \in Source \ {a} : lists'[l] = lists[l]
        /\ \A i \in Slot \ {n + 1} : lists'[a].arr[i] = lists[a].arr[i]
        /\ lists'[a].arr = lists[a].arr \/ lists'[a].arr[n + 1] = s
    BY StoreList
  <2>2. \A i \in Slot : lists'[a].arr[i] = lists[a].arr[i] \/ lists'[a].arr[i] = s
    BY <2>1
  <2>3. QED
    BY <1>1, <1>2, <2>1, <2>2, HomesKept
<1>7. ThreadOK(th[t])'
  BY <1>1, <1>2, <1>3 DEF Goes, Now, ThreadOK, Holding, Adding
<1>8. \A o \in Threads \ {t} : ThreadOK(th[o])'
  BY <1>1, <1>3, OthersOK
<1>9. OneEntry'
  BY <1>1, <1>3, EntryKept DEF Goes, Now, Entering
<1>10. RoomLeft'
  <2>1. /\ Cardinality(Stored) \in Nat /\ Cardinality(Stored') = Cardinality(Stored) + 1
        /\ lists'[a].size = n + 1 /\ \A l \in Source \ {a} : lists'[l] = lists[l]
    BY StoreList
  <2>2. \A l \in Source : lists[l].size \in Nat /\ lists[l].size <= Cardinality(Stored)
    BY <1>1, SlotsNat DEF RaceInv, RoomLeft, TypeOK, Lists, Most
  <2>3. \A l \in Source : lists'[l].size <= Cardinality(Stored')
    BY <1>2, <1>4, <2>1, <2>2
  <2>4. ASSUME NEW o \in Threads \ {t}
        PROVE  /\ th[o].pc \in Sized => th[o].n <= Cardinality(Stored')
               /\ th[o].pc = "truncate" => 1 <= th[o].n
    <3>1. th[o].n \in Nat
      BY <1>1 DEF TypeOK, Locals
    <3>2. QED
      BY <2>1, <3>1 DEF RaceInv, RoomLeft
  <2>5. QED
    BY <1>3, <2>3, <2>4 DEF Goes, Now, Others, RoomLeft, Sized
<1>11. QED
  BY <1>5, <1>6, <1>7, <1>8, <1>9, <1>10 DEF RaceInv

LEMMA RaceRemove ==
  ASSUME RaceInv, NEW t \in Threads, Remove(t)
  PROVE  RaceInv'
<1> DEFINE a == th[t].list
           n == lists[a].size
<1>1. /\ ThreadOK(th[t]) /\ th[t].pc = "remove" /\ TypeOK
      /\ UNCHANGED <<webSources, state, home, logins>>
  BY RemoveLeaves DEF RaceInv
<1>2. a \in Source /\ home[a] = th[t].who /\ th[t].who \in User
  BY <1>1 DEF ThreadOK, Holding
<1>3. /\ webSources' \in [User -> Source \cup {None}]
      /\ \A u \in User : webSources'[u] # None => home[webSources'[u]] = u
      /\ lists \in [Source -> Lists] /\ n \in Nat /\ lists[a].cap \in Nat
  BY <1>1, <1>2, SlotsNat DEF RaceInv, TypeOK, HomesOK, Lists, Most
<1>4. CASE Goes(t, "lastOne", a) /\ lists' = lists
  <2>1. ThreadOK(th'[t])
    BY <1>1, <1>2, <1>4 DEF Goes, Now, ThreadOK, Holding, Adding
  <2>2. QED
    BY <1>1, <1>2, <1>3, <1>4, <2>1, ReadingStep
       DEF Goes, Now, Others, Entering, Adding, Sized
<1>5. CASE n > lists[a].cap /\ Returned(t)
  <2>1. /\ lists' \in [Source -> Lists]
        /\ \A l \in Source : lists'[l].arr = lists[l].arr /\ lists'[l].size = lists[l].size
    <3>1. ~ (n <= lists[a].cap)
      BY <1>3, <1>5
    <3>2. th'[t].pc = "idle"
      BY <1>5 DEF Returned
    <3>3. Becomes(t, [th[t] EXCEPT !.pc = "lastOne"]) => th'[t].pc = "lastOne"
      BY <1>1 DEF TypeOK, Becomes, Locals
    <3>4. PICK k \in {lists[a].mods, lists[a].mods + 1} : lists' = [lists EXCEPT ![a].mods = k]
      BY <3>1, ZenonT(30) DEF Remove
    <3> DEFINE m == [lists[a] EXCEPT !.mods = k]
    <3>5. k \in Nat /\ lists[a] \in Lists
      BY <1>2, <1>3 DEF Lists
    <3>6. m \in Lists /\ m.arr = lists[a].arr /\ m.size = n
      BY <3>5 DEF Lists
    <3>7. lists' = [lists EXCEPT ![a] = m]
      BY <3>4
    <3> HIDE DEF m
    <3>8. QED
      BY <1>2, <1>3, <3>6, <3>7
  <2>2. ThreadOK(th'[t])
    BY <1>5 DEF Returned, ThreadOK, Holding, Adding
  <2>3. QED
    BY <1>1, <1>3, <1>5, <2>1, <2>2, ReadingStep
       DEF Returned, Others, Entering, Adding, Sized
<1>6. CASE Now(t, "truncate", th[t].src, th[t].who, a, n, th[t].mods, th[t].hit)
  <2>1. Others(t) /\ th'[t].pc = "truncate" /\ th'[t].n = n
    BY <1>6 DEF Now, Others
  <2>2. /\ n \in Slot /\ lists' \in [Source -> Lists] /\ lists'[a].size = n
        /\ \A l \in Source \ {a} : lists'[l] = lists[l]
    BY <2>1, RemoveList
  <2>3. TypeOK'
    BY <1>1, <1>6, <2>2 DEF Now, TypeOK, logins
  <2>4. HomesOK'
    <3>1. \A j \in Slot : \E k \in Slot : lists'[a].arr[j] = lists[a].arr[k]
      <4>1. \A j \in Slot : j < n => j + 1 \in Slot
        BY <2>2, SlotsNat
      <4>2. QED
        BY <2>1, <4>1, RemoveList
    <3>2. QED
      BY <1>1, <1>2, <2>2, <3>1, HomesKept
  <2>5. ThreadOK(th[t])'
    BY <1>1, <1>2, <1>6 DEF Now, ThreadOK, Holding, Adding
  <2>6. \A o \in Threads \ {t} : ThreadOK(th[o])'
    BY <1>1, <2>1, OthersOK
  <2>7. OneEntry'
    BY <2>1, EntryKept DEF Entering
  <2>8. 1 <= n
    BY <2>2, SlotsNat
  <2>9. RoomLeft'
    BY <1>1, <1>2, <2>1, <2>2, <2>3, <2>8, RoomKept DEF Adding
  <2>10. QED
    BY <2>3, <2>4, <2>5, <2>6, <2>7, <2>9 DEF RaceInv
<1>7. QED
  BY <1>1, <1>2, <1>4, <1>5, <1>6, RemoveIs

LEMMA RaceTruncate ==
  ASSUME RaceInv, NEW t \in Threads, Truncate(t)
  PROVE  RaceInv'
<1> DEFINE a == th[t].list
           n == th[t].n
<1>1. /\ ThreadOK(th[t]) /\ th[t].pc = "truncate" /\ TypeOK
      /\ UNCHANGED <<webSources, state, home, logins>>
  BY DEF Truncate, At, RaceInv
<1>2. a \in Source /\ home[a] = th[t].who /\ th[t].who \in User
  BY <1>1 DEF ThreadOK, Holding
<1>3. Goes(t, "lastOne", a) /\ Others(t)
  BY <1>1, TruncateIs DEF Goes, Now, Others
<1>4. TypeOK'
  BY <1>1, <1>3, TruncateList DEF Goes, Now, TypeOK, logins
<1>5. HomesOK'
  <2>1. /\ lists' \in [Source -> Lists] /\ \A l \in Source \ {a} : lists'[l] = lists[l]
        /\ \A i \in Slot \ {n} : lists'[a].arr[i] = lists[a].arr[i]
        /\ lists'[a].arr = lists[a].arr \/ lists'[a].arr[n] = None
    BY TruncateList
  <2>2. \A i \in Slot : lists'[a].arr[i] = lists[a].arr[i] \/ lists'[a].arr[i] = None
    BY <2>1
  <2>3. QED
    BY <1>1, <1>2, <2>1, <2>2, HomesKept
<1>6. ThreadOK(th[t])'
  BY <1>1, <1>2, <1>3 DEF Goes, Now, ThreadOK, Holding, Adding
<1>7. \A o \in Threads \ {t} : ThreadOK(th[o])'
  BY <1>1, <1>3, OthersOK
<1>8. OneEntry'
  BY <1>3, EntryKept DEF Goes, Now, Entering
<1>9. RoomLeft'
  <2>1. Stored' = Stored
    BY <1>1, <1>3 DEF Goes, Now, Others, Stored, Adding
  <2>2. /\ lists'[a].size = n - 1 /\ n <= Cardinality(Stored) /\ n \in Nat
        /\ \A l \in Source \ {a} : lists'[l] = lists[l]
    BY <1>1, TruncateList DEF TypeOK, Locals
  <2>3. Cardinality(Stored) \in Nat
    BY StoredFinite DEF Stored
  <2>4. \A l \in Source : lists'[l].size <= Cardinality(Stored)
    BY <1>2, <2>2, <2>3 DEF RaceInv, RoomLeft
  <2>5. QED
    BY <1>3, <2>1, <2>4 DEF Goes, Now, Others, RaceInv, RoomLeft, Sized
<1>10. QED
  BY <1>4, <1>5, <1>6, <1>7, <1>8, <1>9 DEF RaceInv

\* The last step of newEventSource and onOpen, and an add that throws.
LEMMA RaceOpened ==
  ASSUME RaceInv, NEW t \in Threads, Opened(t) \/ StoreThrows(t)
  PROVE  RaceInv'
<1>1. /\ ThreadOK(th[t]) /\ th[t].pc \in Adding \cup {"opening"} /\ TypeOK /\ HomesOK
      /\ UNCHANGED <<webSources, lists, home, logins>> /\ Return(t)
      /\ \E q \in {"broken", "open", "refused"} : state' = [state EXCEPT ![th[t].src] = q]
  BY DEF Opened, StoreThrows, At, RaceInv, Adding
<1>2. th[t].src \in Source /\ state[th[t].src] = "created" /\ th[t].pc \in Entering
  BY <1>1 DEF ThreadOK, Adding, Entering
<1>3. /\ state' \in [Source -> SourceState] /\ state'[th[t].src] # "unborn"
      /\ \A s \in Source \ {th[t].src} : state'[s] = state[s]
  BY <1>1, <1>2 DEF TypeOK, SourceState
<1>4. Returned(t) /\ Others(t)
  BY <1>1, Returns DEF Returned, Others
<1>5. TypeOK'
  BY <1>1, <1>3, <1>4 DEF Returned, TypeOK, logins
<1>6. HomesOK'
  BY <1>1, <1>2, <1>3 DEF HomesOK
<1>7. ThreadOK(th[t])'
  BY <1>4 DEF Returned, ThreadOK, Holding, Adding
<1>8. \A o \in Threads \ {t} : ThreadOK(th[o])'
  BY <1>1, <1>2, <1>3, <1>4, OthersOK
<1>9. OneEntry'
  BY <1>4, EntryKept DEF Returned, Entering
<1>10. RoomLeft'
  BY <1>1, <1>3, <1>4, <1>5, RoomKept DEF Returned, Adding, Sized
<1>11. QED
  BY <1>5, <1>6, <1>7, <1>8, <1>9, <1>10 DEF RaceInv

LEMMA RaceHeartbeat ==
  ASSUME RaceInv, NEW t \in Threads, NEW s \in Source, HeartbeatFails(t, s)
  PROVE  RaceInv'
<1>1. /\ state[s] = "broken" /\ TypeOK /\ HomesOK
      /\ UNCHANGED <<webSources, lists, home, logins>>
      /\ state' = [state EXCEPT ![s] = "closed"]
  BY DEF HeartbeatFails, RaceInv
<1>2. home[s] \in User
  BY <1>1 DEF HomesOK
<1>3. /\ state' \in [Source -> SourceState] /\ state'[s] = "closed"
      /\ \A r \in Source \ {s} : state'[r] = state[r]
  BY <1>1 DEF TypeOK, SourceState
<1>4. Now(t, "getClosing", s, home[s], None, 0, 0, {}) /\ Others(t)
  BY <1>1, <1>2, HeartbeatFailsIs DEF Now, Others
<1>5. TypeOK'
  BY <1>1, <1>3, <1>4 DEF Now, TypeOK, logins
<1>6. HomesOK'
  BY <1>1, <1>2, <1>3 DEF HomesOK
<1>7. ThreadOK(th[t])'
  BY <1>1, <1>2, <1>4 DEF Now, ThreadOK, Holding, Adding, Sized
<1>8. \A o \in Threads \ {t} : ThreadOK(th[o])'
  BY <1>1, <1>3, <1>4, OthersOK
<1>9. OneEntry'
  BY <1>4, EntryKept DEF Now, Entering, Adding, Sized
<1>10. RoomLeft'
  BY <1>1, <1>3, <1>4, <1>5, RoomKept DEF Now, Adding, Sized
<1>11. QED
  BY <1>5, <1>6, <1>7, <1>8, <1>9, <1>10 DEF RaceInv

\* Logins, and a browser that goes.
LEMMA RaceOutside ==
  ASSUME RaceInv,
         \/ \E u \in User : Login(u) \/ DropSession(u)
         \/ \E s \in Source : BrowserGoes(s)
  PROVE  RaceInv'
<1>1. /\ UNCHANGED <<webSources, lists, home, th>>
      /\ \/ state' = state
         \/ \E s \in Source : state[s] = "open" /\ state' = [state EXCEPT ![s] = "broken"]
  BY DEF Login, DropSession, BrowserGoes, shared
<1>2. /\ state' \in [Source -> SourceState]
      /\ \A s \in Source : /\ state[s] \in {"unborn", "created"} => state'[s] = state[s]
                           /\ state[s] = "unborn" <=> state'[s] = "unborn"
  BY <1>1 DEF RaceInv, TypeOK, SourceState
<1>3. /\ issued' \in [User -> 0 .. MaxToken] /\ session' \in [User -> 0 .. MaxToken]
      /\ tokens' \in SUBSET (User \X (1 .. MaxToken))
  <2>1. ASSUME NEW u \in User, Login(u)
        PROVE  /\ issued' \in [User -> 0 .. MaxToken] /\ session' \in [User -> 0 .. MaxToken]
               /\ tokens' \in SUBSET (User \X (1 .. MaxToken))
    <3>1. PICK k \in 1 .. MaxToken :
            /\ issued' = [issued EXCEPT ![u] = k] /\ tokens' = tokens \cup {<<u, k>>}
            /\ session' = [session EXCEPT ![u] = k] \/ session' = session
      BY <2>1 DEF Login
    <3>2. k \in 0 .. MaxToken
      BY <3>1, SourcesAssumption
    <3>3. issued' \in [User -> 0 .. MaxToken] /\ session' \in [User -> 0 .. MaxToken]
      BY <3>1, <3>2 DEF RaceInv, TypeOK
    <3>4. <<u, k>> \in User \X (1 .. MaxToken)
      BY <3>1
    <3>5. tokens' \in SUBSET (User \X (1 .. MaxToken))
      BY <3>1, <3>4 DEF RaceInv, TypeOK
    <3>6. QED
      BY <3>3, <3>5
  <2>2. ASSUME NEW u \in User, DropSession(u)
        PROVE  /\ issued' \in [User -> 0 .. MaxToken] /\ session' \in [User -> 0 .. MaxToken]
               /\ tokens' \in SUBSET (User \X (1 .. MaxToken))
    <3>1. 0 \in 0 .. MaxToken
      BY SourcesAssumption
    <3>2. QED
      BY <2>2, <3>1 DEF DropSession, RaceInv, TypeOK
  <2>3. QED
    BY <2>1, <2>2 DEF BrowserGoes, logins, RaceInv, TypeOK
<1>4. TypeOK'
  BY <1>1, <1>2, <1>3 DEF RaceInv, TypeOK
<1>5. HomesOK'
  BY <1>1, <1>2 DEF RaceInv, HomesOK
<1>6. ASSUME NEW t \in Threads PROVE ThreadOK(th[t])'
  BY <1>1, <1>2 DEF RaceInv, ThreadOK, Adding, Sized
<1>7. OneEntry'
  BY <1>1 DEF RaceInv, OneEntry
<1>8. RoomLeft'
  <2>1. Stored' = Stored
    BY <1>1, <1>2 DEF Stored
  <2>2. QED
    BY <1>1, <2>1 DEF RaceInv, RoomLeft
<1>9. QED
  BY <1>4, <1>5, <1>6, <1>7, <1>8 DEF RaceInv

LEMMA RaceNext == RaceInv /\ [Next]_vars => RaceInv'
<1> SUFFICES ASSUME RaceInv, [Next]_vars PROVE RaceInv'
  OBVIOUS
<1>1. Thread \subseteq Threads /\ Heartbeat \in Threads
  BY DEF Threads
<1>2. CASE Outside
  BY <1>1, <1>2, RaceOutside, RaceReading DEF Outside
<1>3. ASSUME NEW t \in Thread, NEW s \in Source, NEW u \in User, Subscribe(t, s, u)
      PROVE  RaceInv'
  BY <1>1, <1>3, RaceSubscribe
<1>4. ASSUME NEW s \in Source, HeartbeatFails(Heartbeat, s) PROVE RaceInv'
  BY <1>1, <1>4, RaceHeartbeat
<1>5. ASSUME NEW t \in Threads, Continue(t) PROVE RaceInv'
  BY <1>5, RaceReading, RaceNewSources, RaceAdd, RaceRoom, RaceGrow, RaceStore, RaceOpened, RaceRemove,
     RaceTruncate, RaceLastOne, RaceExpire DEF Continue, Opening, Closing, Emitting
<1>6. CASE UNCHANGED vars
  <2>1. UNCHANGED <<webSources, lists, state, home, issued, tokens, session, th>>
    BY <1>6 DEF vars, shared, logins
  <2>2. TypeOK'
    BY <2>1 DEF RaceInv, TypeOK
  <2>3. HomesOK'
    BY <2>1 DEF RaceInv, HomesOK
  <2>4. \A t \in Threads : ThreadOK(th[t])'
    BY <2>1 DEF RaceInv, ThreadOK, Adding, Sized
  <2>5. OneEntry'
    BY <2>1 DEF RaceInv, OneEntry
  <2>6. Stored' = Stored
    BY <2>1 DEF Stored
  <2>7. RoomLeft'
    BY <2>1, <2>6 DEF RaceInv, RoomLeft
  <2>8. QED
    BY <2>2, <2>3, <2>4, <2>5, <2>7 DEF RaceInv
<1>7. QED
  BY <1>2, <1>3, <1>4, <1>5, <1>6 DEF Next

\* The invariant of every interleaving.
THEOREM RaceInvariant == Spec => []RaceInv
BY RaceInit, RaceNext, PTL DEF Spec

\* However many threads are in the parts of an unlocked add or remove of a
\* list (newEventSource, onClose), the size they leave is at least 0 and at
\* most the number of the sources; the array may be shorter than that.
THEOREM TypeCorrect == Spec => []TypeOK
<1>1. RaceInv => TypeOK
  BY DEF RaceInv
<1>2. QED
  BY <1>1, RaceInvariant, PTL

\* Whatever the races do to the lists, emitEvent writes an event to sources
\* of its user only.
THEOREM EventsStayHomeHolds == Spec => []EventsStayHome
<1>1. RaceInv => EventsStayHome
  BY DEF RaceInv, ThreadOK, EventsStayHome
<1>2. QED
  BY <1>1, RaceInvariant, PTL

-----------------------------------------------------------------------------
(* The event sources of a user, opened and closed one at a time.           *)

\* The first n elements of array a are the members of S, each once.
Exactly(a, n, S) ==
  /\ \A i \in 1 .. n : a[i] \in S
  /\ \A s \in S : \E i \in 1 .. n : a[i] = s
  /\ \A i, j \in 1 .. n : a[i] = a[j] => i = j

LEMMA ExactlySame ==
  ASSUME NEW a, NEW b, NEW n \in Nat, NEW S, Exactly(a, n, S),
         \A i \in 1 .. n : b[i] = a[i]
  PROVE  Exactly(b, n, S)
BY DEF Exactly

LEMMA ExactlyAdded ==
  ASSUME NEW a, NEW b, NEW n \in Nat, NEW S, NEW s, s \notin S, Exactly(a, n, S),
         b[n + 1] = s, \A i \in 1 .. n : b[i] = a[i]
  PROVE  Exactly(b, n + 1, S \cup {s})
<1>1. \A i \in 1 .. (n + 1) : i \in 1 .. n \/ i = n + 1
  OBVIOUS
<1>2. \A i \in 1 .. n : i \in 1 .. (n + 1) /\ i # n + 1
  OBVIOUS
<1>3. n + 1 \in 1 .. (n + 1)
  OBVIOUS
<1>4. \A i \in 1 .. n : a[i] \in S /\ b[i] = a[i]
  BY DEF Exactly
<1>5. \A i, j \in 1 .. (n + 1) : b[i] = b[j] => i = j
  BY <1>1, <1>4 DEF Exactly
<1>6. \A r \in S \cup {s} : \E i \in 1 .. (n + 1) : b[i] = r
  <2>1. ASSUME NEW r \in S PROVE \E i \in 1 .. (n + 1) : b[i] = r
    <3>1. PICK i \in 1 .. n : a[i] = r
      BY DEF Exactly
    <3>2. QED
      BY <1>2, <1>4, <3>1
  <2>2. QED
    BY <1>3, <2>1
<1>7. \A i \in 1 .. (n + 1) : b[i] \in S \cup {s}
  BY <1>1, <1>4
<1>8. QED
  BY <1>5, <1>6, <1>7 DEF Exactly

\* What is behind the element that goes moves up; the last one stays, and is
\* there twice.
LEMMA ExactlyRemoved ==
  ASSUME NEW a, NEW b, NEW n \in Nat, NEW S, NEW i \in 1 .. n, Exactly(a, n, S),
         \A j \in 1 .. n : b[j] = IF i <= j /\ j < n THEN a[j + 1] ELSE a[j]
  PROVE  Exactly(b, n - 1, S \ {a[i]}) /\ b[n] \in S
<1> DEFINE from(j) == IF i <= j THEN j + 1 ELSE j
<1>1. \A j \in 1 .. (n - 1) : from(j) \in 1 .. n /\ from(j) # i /\ b[j] = a[from(j)]
  OBVIOUS
<1>2. \A j, k \in 1 .. (n - 1) : from(j) = from(k) => j = k
  OBVIOUS
<1>3. \A k \in 1 .. n : k # i => \E j \in 1 .. (n - 1) : from(j) = k
  <2>1. ASSUME NEW k \in 1 .. n, k < i PROVE k \in 1 .. (n - 1) /\ from(k) = k
    BY <2>1
  <2>2. ASSUME NEW k \in 1 .. n, i < k PROVE k - 1 \in 1 .. (n - 1) /\ from(k - 1) = k
    BY <2>2
  <2>3. QED
    BY <2>1, <2>2
<1> HIDE DEF from
<1>4. \A j \in 1 .. (n - 1) : b[j] \in S \ {a[i]}
  BY <1>1 DEF Exactly
<1>5. ASSUME NEW s \in S \ {a[i]} PROVE \E j \in 1 .. (n - 1) : b[j] = s
  <2>1. PICK k \in 1 .. n : a[k] = s
    BY DEF Exactly
  <2>2. PICK j \in 1 .. (n - 1) : from(j) = k
    BY <1>3, <2>1
  <2>3. QED
    BY <1>1, <2>1, <2>2
<1>6. \A j, k \in 1 .. (n - 1) : b[j] = b[k] => j = k
  BY <1>1, <1>2 DEF Exactly
<1>7. b[n] \in S
  <2>1. n \in 1 .. n /\ b[n] = a[n]
    OBVIOUS
  <2>2. QED
    BY <2>1 DEF Exactly
<1>8. QED
  BY <1>4, <1>5, <1>6, <1>7 DEF Exactly

LEMMA ExactlySize ==
  ASSUME NEW a, NEW n \in Nat, NEW S, Exactly(a, n, S)
  PROVE  Cardinality(S) = n
<1> DEFINE f == [i \in 1 .. n |-> a[i]]
<1>1. f \in [1 .. n -> S] /\ \A i \in 1 .. n : f[i] = a[i]
  BY DEF Exactly
<1> HIDE DEF f
<1>2. f \in Bijection(1 .. n, S)
  BY <1>1 DEF Exactly, Bijection, Injection, Surjection, IsInjective
<1>3. IsFiniteSet(1 .. n) /\ Cardinality(1 .. n) = n
  BY FS_Interval
<1>4. QED
  BY <1>2, <1>3, FS_Bijection DEF ExistsBijection

\* The event sources that have to be in list l are, and its array holds them.
Full(l, S) ==
  Exactly(lists[l].arr, lists[l].size, S) /\ lists[l].size <= lists[l].cap

\* Between two calls for user u.
Settled(u) ==
  /\ webSources[u] = None => SourcesOf(u) = {}
  /\ webSources[u] # None => Full(webSources[u], SourcesOf(u)) /\ SourcesOf(u) # {}

\* In the middle of call c for its user.
Working(c) ==
  LET u == c.who
      S == SourcesOf(u)
      l == webSources[u]
  IN  /\ c.pc = "getSources" => Settled(u) /\ lists[c.src] = EmptyList
      /\ c.pc = "newSources" => l = None /\ S = {} /\ lists[c.src] = EmptyList
      /\ c.pc \in {"add", "room", "grow", "store", "opening", "remove", "truncate",
                   "lastOne"} => l = c.list
      /\ c.pc \in {"add", "opening", "lastOne"} => Full(l, S)
      /\ c.pc \in Adding => Full(l, S \ {c.src})
      /\ c.pc \in {"room", "store"} => c.cap = lists[l].cap /\ c.era = lists[l].era
      /\ c.pc = "grow" => c.copy = lists[l].arr
      /\ c.pc \in {"grow", "store"} => c.n = lists[l].size /\ c.n < c.cap
      /\ c.pc \in {"getClosing", "remove"} =>
           l # None /\ c.src \notin S /\ Full(l, S \cup {c.src})
      /\ c.pc = "truncate" =>
           /\ c.n = lists[l].size /\ c.n \in Slot /\ c.n <= lists[l].cap
           /\ c.era = lists[l].era
           /\ Exactly(lists[l].arr, c.n - 1, S)
           /\ lists[l].arr[c.n] \in S \cup {c.src}
      /\ c.pc = "expire" => l = None /\ S = {}

\* An iterator that finds the list unmodified has written to every source
\* it passed; an element it passed is only overwritten with null.
Reading(c) ==
  c.pc = "next" =>
    /\ c.mods <= lists[c.list].mods
    /\ c.mods = lists[c.list].mods =>
         /\ \A i \in Slot : i <= c.n => lists[c.list].arr[i] \in c.hit \cup {None}
         /\ \A o \in Threads : th[o].pc \in Adding /\ th[o].list = c.list
                                 => c.n <= lists[c.list].size

\* One call at a time brings a source of a user in or out.
OneWorker == \A t, o \in Threads :
  th[t].src # None /\ th[o].src # None /\ th[t].who = th[o].who => t = o

SerialInv ==
  /\ RaceInv
  /\ OneWorker
  /\ \A u \in User : Quiet(u) => Settled(u)
  /\ \A t \in Threads : th[t].src # None => Working(th[t])
  /\ \A t \in Threads : Reading(th[t])
  /\ \A s \in Source : home[s] = None => lists[s] = EmptyList

\* Nothing that belongs to user v changes.
Untouched(v) ==
  /\ webSources'[v] = webSources[v]
  /\ SourcesOf(v)' = SourcesOf(v)
  /\ \A l \in Source : home[l] = v => lists'[l] = lists[l]

LEMMA UntouchedIs ==
  ASSUME RaceInv, NEW v \in User, Untouched(v)
  PROVE  /\ Settled(v) => Settled(v)'
         /\ \A t \in Threads : th'[t] = th[t] /\ th[t].who = v /\ th[t].src # None
                               /\ Working(th[t]) => Working(th[t])'
<1>1. webSources[v] # None => webSources[v] \in Source /\ home[webSources[v]] = v
  BY DEF RaceInv, TypeOK, HomesOK
<1>2. webSources[v] # None => lists'[webSources[v]] = lists[webSources[v]]
  BY <1>1 DEF Untouched
<1>3. Settled(v) => Settled(v)'
  BY <1>2 DEF Untouched, Settled, Full
<1>4. ASSUME NEW t \in Threads, th'[t] = th[t], th[t].who = v, th[t].src # None, Working(th[t])
      PROVE  Working(th[t])'
  <2>1. th[t].pc \in {"getSources", "newSources"} => lists'[th[t].src] = lists[th[t].src]
    BY <1>4 DEF Untouched, RaceInv, ThreadOK
  <2>2. th[t].pc \notin {"idle", "next", "iterate", "getSources", "newSources", "expire"} =>
          webSources[v] # None
    BY <1>4, NoneIsNot DEF Working, RaceInv, ThreadOK, Holding, TypeOK, Locals
  <2>3. EmptyList' = EmptyList
    BY DEF EmptyList
  <2> DEFINE c == th[t]
  <2>4. c' = c /\ c.who = v /\ Working(c)
    BY <1>4
  <2>5. c.pc = "getSources" => Settled(v)' /\ lists'[c.src] = EmptyList
    BY <1>3, <2>1, <2>4 DEF Working
  <2>6. c.pc = "newSources" =>
          webSources'[v] = None /\ SourcesOf(v)' = {} /\ lists'[c.src] = EmptyList
    BY <2>1, <2>4 DEF Working, Untouched
  <2>7. c.pc \in {"add", "opening", "lastOne"} => Full(webSources[v], SourcesOf(v))'
    BY <1>2, <2>2, <2>4 DEF Working, Untouched, Full
  <2>8. /\ c.pc \in Adding => Full(webSources[v], SourcesOf(v) \ {c.src})'
        /\ c.pc \in {"room", "store"} =>
             c.cap = lists'[webSources'[v]].cap /\ c.era = lists'[webSources'[v]].era
        /\ c.pc = "grow" => c.copy = lists'[webSources'[v]].arr
        /\ c.pc \in {"grow", "store"} => c.n = lists'[webSources'[v]].size /\ c.n < c.cap
    <3>1. c.pc \in Adding => lists'[webSources'[v]] = lists[webSources[v]]
                              /\ SourcesOf(v)' = SourcesOf(v)
      BY <1>2, <2>2 DEF Untouched, Adding
    <3>2. c' = c
      BY <2>4
    <3> HIDE DEF c
    <3>3. c.pc \in Adding => Full(webSources[v], SourcesOf(v) \ {c.src})'
      BY <2>4, <3>1, <3>2 DEF Working, Full
    <3>4. QED
      BY <2>4, <3>1, <3>3 DEF Working, Adding
  <2>9. c.pc \in {"getClosing", "remove"} =>
           /\ webSources'[v] # None /\ c.src \notin SourcesOf(v)'
           /\ Full(webSources[v], SourcesOf(v) \cup {c.src})'
    <3>1. c.pc \in {"getClosing", "remove"} =>
            lists'[webSources'[v]] = lists[webSources[v]] /\ SourcesOf(v)' = SourcesOf(v)
            /\ webSources'[v] = webSources[v]
      BY <1>2, <2>2 DEF Untouched
    <3>2. c' = c
      BY <2>4
    <3> HIDE DEF c
    <3>3. QED
      BY <2>4, <3>1, <3>2 DEF Working, Full
  <2>10. c.pc = "truncate" =>
           /\ c.n = lists'[webSources'[v]].size /\ c.n \in Slot
           /\ c.n <= lists'[webSources'[v]].cap /\ c.era = lists'[webSources'[v]].era
           /\ Exactly(lists'[webSources'[v]].arr, c.n - 1, SourcesOf(v)')
           /\ lists'[webSources'[v]].arr[c.n] \in SourcesOf(v)' \cup {c.src}
    BY <1>2, <2>2, <2>4 DEF Working, Untouched
  <2>11. c.pc = "expire" => webSources'[v] = None /\ SourcesOf(v)' = {}
    BY <2>4 DEF Working, Untouched
  <2>12. c.pc \in {"add", "room", "grow", "store", "opening", "remove", "truncate",
                   "lastOne"} => webSources'[v] = c.list
    BY <2>4 DEF Working, Untouched
  <2> HIDE DEF c
  <2>13. Working(c)'
    BY <2>4, <2>5, <2>6, <2>7, <2>8, <2>9, <2>10, <2>11, <2>12 DEF Working
  <2>14. QED
    BY <2>13 DEF c
<1>5. QED
  BY <1>3, <1>4

\* A step of a call for user u.
LEMMA SerialStep ==
  ASSUME SerialInv, RaceInv', NEW t \in Threads, Others(t), NEW u \in User,
         th[t].src # None => th[t].who = u,
         th'[t].src # None => th'[t].who = u,
         \A o \in Threads \ {t} : th[o].src # None => th[o].who # u,
         \A v \in User \ {u} : Untouched(v),
         th'[t].src = None => Settled(u)',
         th'[t].src # None => Working(th[t])',
         \A o \in Threads : Reading(th[o])',
         \A s \in Source : home'[s] = None => home[s] = None /\ lists'[s] = lists[s]
  PROVE  SerialInv'
<1>1. OneWorker'
  BY DEF SerialInv, OneWorker, Others
<1>2. ASSUME NEW v \in User, Quiet(v)' PROVE Settled(v)'
  <2>1. CASE v = u
    BY <1>2, <2>1 DEF Quiet
  <2>2. CASE v # u
    <3>1. Quiet(v)
      BY <1>2, <2>2 DEF Quiet, Others
    <3>2. QED
      BY <2>2, <3>1, UntouchedIs DEF SerialInv
  <2>3. QED
    BY <2>1, <2>2
<1>3. ASSUME NEW o \in Threads, th'[o].src # None PROVE Working(th[o])'
  <2>1. CASE o = t
    BY <1>3, <2>1
  <2>2. CASE o # t
    <3>1. th'[o] = th[o] /\ th[o].src # None /\ th[o].who # u
      BY <1>3, <2>2 DEF Others
    <3>2. th[o].who \in User
      BY <3>1 DEF SerialInv, RaceInv, ThreadOK
    <3>3. QED
      BY <3>1, <3>2, UntouchedIs DEF SerialInv
  <2>3. QED
    BY <2>1, <2>2
<1>4. \A s \in Source : home'[s] = None => lists'[s] = EmptyList
  BY DEF SerialInv
<1>5. QED
  BY <1>1, <1>2, <1>3, <1>4 DEF SerialInv

\* What iterators see of the lists is the same.
SameToRead ==
  \A l \in Source : /\ lists'[l].arr = lists[l].arr /\ lists'[l].size = lists[l].size
                    /\ lists'[l].mods = lists[l].mods

LEMMA ReadingOthers ==
  ASSUME SerialInv, NEW t \in Threads, Others(t), SameToRead,
         th'[t].pc \in Adding => th[t].pc \in Adding /\ th'[t].list = th[t].list,
         NEW o \in Threads \ {t}
  PROVE  Reading(th[o])'
<1>1. th'[o] = th[o] /\ Reading(th[o])
  BY DEF Others, SerialInv
<1>2. \A p \in Threads : th'[p].pc \in Adding => th[p].pc \in Adding /\ th'[p].list = th[p].list
  BY DEF Others
<1>3. th[o].pc = "next" => th[o].list \in Source
  BY DEF SerialInv, RaceInv, ThreadOK, Holding
<1>4. QED
  BY <1>1, <1>2, <1>3 DEF Reading, SameToRead

LEMMA ReadingSame ==
  ASSUME SerialInv, NEW t \in Threads, Others(t), SameToRead,
         th'[t].pc \in Adding => th[t].pc \in Adding /\ th'[t].list = th[t].list,
         th'[t].pc # "next"
  PROVE  \A o \in Threads : Reading(th[o])'
<1>1. \A o \in Threads \ {t} : Reading(th[o])'
  BY ReadingOthers
<1>2. Reading(th[t])'
  BY DEF Reading
<1>3. QED
  BY <1>1, <1>2

\* A list that counts a modification is read to no end by older iterators.
LEMMA ReadingModified ==
  ASSUME SerialInv, NEW t \in Threads, Others(t), NEW a \in Source,
         lists'[a].mods = lists[a].mods + 1,
         \A l \in Source \ {a} : lists'[l] = lists[l],
         th'[t].pc # "next", th'[t].pc \in Adding => th'[t].list = a
  PROVE  \A o \in Threads : Reading(th[o])'
<1>1. ASSUME NEW o \in Threads, o # t PROVE Reading(th[o])'
  <2>1. th'[o] = th[o] /\ Reading(th[o])
    BY <1>1 DEF Others, SerialInv
  <2>2. th[o].pc = "next" => th[o].list \in Source /\ th[o].mods \in Nat
    BY DEF SerialInv, RaceInv, ThreadOK, Holding, TypeOK, Locals
  <2>3. lists[a].mods \in Nat
    BY DEF SerialInv, RaceInv, TypeOK, Lists
  <2>4. CASE th[o].list = a
    <3>1. th[o].pc = "next" => th[o].mods <= lists'[a].mods /\ th[o].mods # lists'[a].mods
      BY <2>1, <2>2, <2>3, <2>4 DEF Reading
    <3>2. QED
      BY <2>1, <2>4, <3>1 DEF Reading
  <2>5. CASE th[o].list # a
    <3>1. th[o].pc = "next" => lists'[th[o].list] = lists[th[o].list]
      BY <2>2, <2>5
    <3>2. \A p \in Threads : th'[p].pc \in Adding /\ th'[p].list = th[o].list => th'[p] = th[p]
      BY <2>5 DEF Others
    <3>3. QED
      BY <2>1, <3>1, <3>2 DEF Reading
  <2>6. QED
    BY <2>4, <2>5
<1>2. Reading(th[t])'
  BY DEF Reading
<1>3. QED
  BY <1>1, <1>2

\* The second half of an add or a remove: what is overwritten is behind the
\* position of every iterator that could still come to an end, or is null.
LEMMA ReadingFinished ==
  ASSUME SerialInv, NEW t \in Threads, Others(t), NEW a \in Source, NEW n \in Slot,
         lists'[a].mods = lists[a].mods,
         \A l \in Source \ {a} : lists'[l] = lists[l],
         \A i \in Slot \ {n} : lists'[a].arr[i] = lists[a].arr[i],
         \/ lists'[a].arr[n] = None
         \/ \A o \in Threads : th[o].pc = "next" /\ th[o].list = a
                                /\ th[o].mods = lists[a].mods => th[o].n < n,
         \A o \in Threads \ {t} : th[o].pc \in Adding => th[o].list # a,
         th'[t].pc \notin Adding \cup {"next"}
  PROVE  \A o \in Threads : Reading(th[o])'
<1>1. ASSUME NEW o \in Threads, o # t PROVE Reading(th[o])'
  <2>1. th'[o] = th[o] /\ Reading(th[o])
    BY <1>1 DEF Others, SerialInv
  <2>2. th[o].pc = "next" => th[o].list \in Source /\ th[o].n \in Nat
    BY DEF SerialInv, RaceInv, ThreadOK, Holding, TypeOK, Locals
  <2>3. \A p \in Threads : th'[p].pc \in Adding => th'[p] = th[p] /\ th[p].list # a
    BY DEF Others
  <2>4. CASE th[o].list = a
    <3>1. ASSUME th[o].pc = "next", th[o].mods = lists'[a].mods, NEW i \in Slot, i <= th[o].n
          PROVE  lists'[a].arr[i] \in th[o].hit \cup {None}
      <4>1. lists[a].arr[i] \in th[o].hit \cup {None}
        BY <2>1, <2>4, <3>1 DEF Reading
      <4>2. CASE i = n
        <5>1. n \in Nat
          BY SlotsNat
        <5>2. ~ (th[o].n < n)
          BY <2>2, <3>1, <4>2, <5>1
        <5>3. lists'[a].arr[n] = None
          BY <2>4, <3>1, <5>2
        <5>4. QED
          BY <4>2, <5>3
      <4>3. CASE i # n
        BY <4>1, <4>3
      <4>4. QED
        BY <4>2, <4>3
    <3>2. th[o].pc = "next" => th[o].mods <= lists'[a].mods
      BY <2>1, <2>4 DEF Reading
    <3>3. QED
      BY <2>1, <2>3, <2>4, <3>1, <3>2 DEF Reading
  <2>5. CASE th[o].list # a
    <3>1. th[o].pc = "next" => lists'[th[o].list] = lists[th[o].list]
      BY <2>2, <2>5
    <3>2. QED
      BY <2>1, <2>3, <3>1 DEF Reading
  <2>6. QED
    BY <2>4, <2>5
<1>2. Reading(th[t])'
  BY DEF Reading
<1>3. QED
  BY <1>1, <1>2

-----------------------------------------------------------------------------
LEMMA SourcesIn == \A u \in User : SourcesOf(u) \subseteq Source
BY DEF SourcesOf

\* What a worker t of user u may rely on.
LEMMA WorkerIs ==
  ASSUME SerialInv, NEW t \in Threads, th[t].pc \notin {"idle", "iterate", "next"}
  PROVE  /\ th[t].who \in User /\ th[t].src \in Source /\ home[th[t].src] = th[t].who
         /\ th[t].src # None /\ Working(th[t])
         /\ th[t].pc \in Holding => th[t].list \in Source /\ home[th[t].list] = th[t].who
         /\ \A o \in Threads \ {t} : th[o].src # None => th[o].who # th[t].who
         /\ \A o \in Threads \ {t} : th[o].pc \in Adding /\ th[t].pc \in Holding
                                       => th[o].list # th[t].list
<1>1. /\ th[t].who \in User /\ th[t].src \in Source /\ home[th[t].src] = th[t].who
      /\ th[t].pc \in Holding => th[t].list \in Source /\ home[th[t].list] = th[t].who
  BY DEF SerialInv, RaceInv, ThreadOK
<1>2. th[t].src # None /\ Working(th[t])
  BY <1>1, NoneIsNot DEF SerialInv
<1>3. \A o \in Threads \ {t} : th[o].src # None => th[o].who # th[t].who
  BY <1>2 DEF SerialInv, OneWorker
<1>4. \A o \in Threads \ {t} : th[o].pc \in Adding =>
        th[o].src # None /\ th[o].list \in Source /\ home[th[o].list] = th[o].who
  BY NoneIsNot DEF SerialInv, RaceInv, ThreadOK, Holding, Adding
<1>5. QED
  BY <1>1, <1>2, <1>3, <1>4

LEMMA SerialSubscribe ==
  ASSUME SerialInv, RaceInv', NEW t \in Threads, NEW s \in Source, NEW u \in User,
         Quiet(u), Subscribe(t, s, u)
  PROVE  SerialInv'
<1>1. Now(t, "getSources", s, u, None, 0, 0, {}) /\ th[t].src = None
  BY SubscribeIs DEF SerialInv, RaceInv, ThreadOK, Subscribe, At
<1>2. /\ home' = [home EXCEPT ![s] = u] /\ home[s] = None /\ state[s] = "unborn"
      /\ UNCHANGED <<webSources, lists, state>>
  BY DEF Subscribe
<1>3. /\ home'[s] = u /\ \A l \in Source \ {s} : home'[l] = home[l]
  BY <1>2 DEF SerialInv, RaceInv, TypeOK
<1>4. \A v \in User : SourcesOf(v)' = SourcesOf(v)
  BY <1>2, <1>3, NoneIsNot DEF SourcesOf
<1>5. \A v \in User : Untouched(v)
  BY <1>2, <1>4 DEF Untouched
<1>6. Settled(u) /\ lists[s] = EmptyList
  BY <1>2 DEF SerialInv
<1>7. Settled(u)'
  BY <1>5, <1>6, UntouchedIs DEF SerialInv
<1>8. Working(th[t])'
  BY <1>1, <1>2, <1>6, <1>7 DEF Now, Working, EmptyList, Adding
<1>9. Others(t) /\ \A o \in Threads : Reading(th[o])'
  BY <1>1, <1>2, ReadingSame DEF Now, Others, SameToRead, Adding
<1>10. \A o \in Threads : th[o].src # None => th[o].who # u
  BY DEF Quiet
<1>11. QED
  BY <1>1, <1>2, <1>3, <1>5, <1>8, <1>9, <1>10, NoneIsNot, SerialStep DEF Now

LEMMA SerialGetSources ==
  ASSUME SerialInv, RaceInv', NEW t \in Threads, GetSources(t)
  PROVE  SerialInv'
<1> DEFINE u == th[t].who
           p == IF webSources[u] = None THEN "newSources" ELSE "add"
<1>1. th[t].pc = "getSources" /\ UNCHANGED <<webSources, lists, state, home>>
  BY DEF GetSources, At, shared
<1>2. /\ u \in User /\ th[t].src \in Source /\ th[t].src # None
      /\ Settled(u) /\ lists[th[t].src] = EmptyList
      /\ \A o \in Threads \ {t} : th[o].src # None => th[o].who # u
  BY <1>1, WorkerIs DEF Working, Adding
<1>3. Goes(t, p, webSources[u])
  BY <1>2, GetSourcesIs DEF SerialInv, RaceInv
<1>4. Others(t) /\ \A o \in Threads : Reading(th[o])'
  BY <1>1, <1>3, ReadingSame DEF Goes, Now, Others, SameToRead, Adding
<1>5. \A v \in User : SourcesOf(v)' = SourcesOf(v) /\ Untouched(v)
  BY <1>1 DEF SourcesOf, Untouched
<1>6. Working(th[t])'
  BY <1>1, <1>2, <1>3, <1>5 DEF Goes, Now, Working, Settled, Full, EmptyList, Adding
<1>7. QED
  BY <1>1, <1>2, <1>3, <1>4, <1>5, <1>6, SerialStep DEF Goes, Now

LEMMA SerialNewSources ==
  ASSUME SerialInv, RaceInv', NEW t \in Threads, NewSources(t)
  PROVE  SerialInv'
<1> DEFINE u == th[t].who
           s == th[t].src
<1>1. /\ th[t].pc = "newSources" /\ UNCHANGED <<lists, state, home>>
      /\ webSources' = [webSources EXCEPT ![u] = s]
  BY DEF NewSources, At
<1>2. /\ u \in User /\ s \in Source /\ s # None
      /\ SourcesOf(u) = {} /\ lists[s] = EmptyList
      /\ \A o \in Threads \ {t} : th[o].src # None => th[o].who # u
  BY <1>1, WorkerIs DEF Working, Adding
<1>3. webSources'[u] = s /\ \A v \in User \ {u} : webSources'[v] = webSources[v]
  BY <1>1, <1>2 DEF SerialInv, RaceInv, TypeOK
<1>4. Goes(t, "add", s)
  BY NewSourcesIs DEF SerialInv, RaceInv
<1>5. Others(t) /\ \A o \in Threads : Reading(th[o])'
  BY <1>1, <1>4, ReadingSame DEF Goes, Now, Others, SameToRead, Adding
<1>6. \A v \in User : SourcesOf(v)' = SourcesOf(v)
  BY <1>1 DEF SourcesOf
<1>7. \A v \in User \ {u} : Untouched(v)
  BY <1>1, <1>3, <1>6 DEF Untouched
<1>8. Exactly(EmptyList.arr, EmptyList.size, {})
  BY DEF Exactly, EmptyList
<1>9. /\ Exactly(lists'[s].arr, lists'[s].size, {})
      /\ lists'[s].size <= lists'[s].cap
  <2>1. EmptyList.size <= EmptyList.cap
    BY DEF EmptyList
  <2>2. QED
    BY <1>1, <1>2, <1>8, <2>1
<1>10. Working(th[t])'
  BY <1>2, <1>3, <1>4, <1>6, <1>9 DEF Goes, Now, Working, Full, Adding
<1>11. QED
  BY <1>1, <1>2, <1>4, <1>5, <1>7, <1>10, SerialStep DEF Goes, Now

LEMMA SerialAdd ==
  ASSUME SerialInv, RaceInv', NEW t \in Threads, Add(t)
  PROVE  SerialInv'
<1>0. PICK u : u = th[t].who
  OBVIOUS
<1> DEFINE s == th[t].src
           a == th[t].list
<1>1. /\ th[t].pc = "add" /\ UNCHANGED <<webSources, home>>
      /\ state' = [state EXCEPT ![s] = "created"]
  BY DEF Add, At
<1>2. /\ u \in User /\ s \in Source /\ s # None /\ home[s] = u /\ a \in Source /\ home[a] = u
      /\ webSources[u] = a /\ Full(a, SourcesOf(u)) /\ state[s] = "unborn"
      /\ \A o \in Threads \ {t} : th[o].src # None => th[o].who # u
  BY <1>0, <1>1, WorkerIs DEF Working, Holding, SerialInv, RaceInv, ThreadOK
<1>3. /\ state'[s] = "created" /\ \A r \in Source \ {s} : state'[r] = state[r]
  BY <1>1, <1>2 DEF SerialInv, RaceInv, TypeOK
<1>4. /\ Now(t, "room", s, u, a, th[t].n, th[t].mods, th[t].hit)
      /\ th'[t].cap = lists[a].cap /\ th'[t].era = lists[a].era
  BY <1>0, <1>2, AddIs DEF SerialInv, RaceInv, Goes
<1>5. /\ lists'[a].arr = lists[a].arr /\ lists'[a].size = lists[a].size
      /\ lists'[a].cap = lists[a].cap /\ lists'[a].era = lists[a].era
      /\ lists'[a].mods = lists[a].mods + 1 /\ \A l \in Source \ {a} : lists'[l] = lists[l]
  BY AddList DEF SerialInv
<1>6. Others(t) /\ \A o \in Threads : Reading(th[o])'
  BY <1>2, <1>4, <1>5, ReadingModified DEF Now, Others
<1>7. /\ SourcesOf(u)' \ {s} = SourcesOf(u)
      /\ \A v \in User \ {u} : SourcesOf(v)' = SourcesOf(v)
  BY <1>1, <1>2, <1>3 DEF SourcesOf
<1>8. \A v \in User \ {u} : Untouched(v)
  BY <1>1, <1>2, <1>5, <1>7 DEF Untouched
<1>9. Full(a, SourcesOf(u) \ {s})'
  <2>1. s' = s /\ a' = a
    BY <1>4 DEF Now
  <2> HIDE DEF s, a
  <2>2. QED
    BY <1>2, <1>5, <1>7, <2>1 DEF Full
<1>10. Working(th[t])'
  BY <1>0, <1>1, <1>2, <1>4, <1>5, <1>9 DEF Now, Working, Adding
<1>11. \A r \in Source : home'[r] = None => home[r] = None /\ lists'[r] = lists[r]
  BY <1>1, <1>2, <1>5, NoneIsNot
<1>12. QED
  BY <1>0, <1>2, <1>4, <1>6, <1>8, <1>10, <1>11, SerialStep DEF Now

LEMMA SerialRoom ==
  ASSUME SerialInv, RaceInv', NEW t \in Threads, Room(t)
  PROVE  SerialInv'
<1>0. PICK u, s, a : u = th[t].who /\ s = th[t].src /\ a = th[t].list
  OBVIOUS
<1>1. th[t].pc = "room" /\ UNCHANGED <<webSources, lists, state, home>>
  BY DEF Room, At, shared
<1>2. /\ u \in User /\ s \in Source /\ s # None /\ home[s] = u /\ a \in Source
      /\ webSources[u] = a /\ Full(a, SourcesOf(u) \ {s})
      /\ th[t].cap = lists[a].cap /\ th[t].era = lists[a].era
      /\ \A o \in Threads \ {t} : th[o].src # None => th[o].who # u
  BY <1>0, <1>1, WorkerIs DEF Working, Holding, Adding
<1>3. lists[a].size \in Nat /\ lists[a].cap \in Nat /\ lists[a].size <= lists[a].cap
  <2>1. lists[a] \in Lists
    BY <1>2 DEF SerialInv, RaceInv, TypeOK
  <2>2. QED
    BY <1>2, <2>1, SlotsNat DEF Full, Lists, Most
<1>4. \A v \in User : SourcesOf(v)' = SourcesOf(v) /\ Untouched(v)
  BY <1>1 DEF SourcesOf, Untouched
<1>5. Full(a, SourcesOf(u) \ {s})'
  BY <1>1, <1>2, <1>4 DEF Full
<1>6. /\ Others(t) /\ th'[t].pc \in {"store", "grow"}
      /\ th'[t].who = u /\ th'[t].src = s /\ th'[t].list = a /\ th'[t].n = lists[a].size
      /\ th'[t].pc = "store" => th'[t].cap = lists[a].cap /\ th'[t].era = lists[a].era
      /\ th'[t].pc = "grow" => th'[t].copy = lists[a].arr
      /\ lists[a].size < th'[t].cap
  <2>1. CASE /\ lists[a].size # th[t].cap
             /\ Now(t, "store", s, u, a, lists[a].size, th[t].mods, th[t].hit)
             /\ th'[t].cap = th[t].cap /\ th'[t].era = th[t].era
    BY <1>2, <1>3, <2>1 DEF Now, Others
  <2>2. CASE /\ Now(t, "grow", s, u, a, lists[a].size, th[t].mods, th[t].hit)
             /\ th'[t].cap = Longer(lists[a].cap, lists[a].size)
             /\ th'[t].copy = lists[a].arr
    BY <1>3, <2>2, LongerIs DEF Now, Others
  <2>3. QED
    BY <1>0, <1>2, <2>1, <2>2, RoomIs DEF SerialInv, RaceInv
<1>7. \A o \in Threads : Reading(th[o])'
  BY <1>0, <1>1, <1>6, ReadingSame DEF SameToRead, Adding
<1>8. Working(th[t])'
  BY <1>1, <1>2, <1>5, <1>6 DEF Working, Adding
<1>9. QED
  BY <1>0, <1>1, <1>2, <1>4, <1>6, <1>7, <1>8, SerialStep

LEMMA SerialGrow ==
  ASSUME SerialInv, RaceInv', NEW t \in Threads, Grow(t)
  PROVE  SerialInv'
<1>0. PICK u, s, a : u = th[t].who /\ s = th[t].src /\ a = th[t].list
  OBVIOUS
<1>1. th[t].pc = "grow" /\ UNCHANGED <<webSources, state, home>>
  BY DEF Grow, At
<1>2. /\ u \in User /\ s \in Source /\ s # None /\ home[s] = u /\ a \in Source /\ home[a] = u
      /\ webSources[u] = a /\ Full(a, SourcesOf(u) \ {s})
      /\ th[t].copy = lists[a].arr /\ th[t].n = lists[a].size /\ th[t].n < th[t].cap
      /\ \A o \in Threads \ {t} : th[o].src # None => th[o].who # u
  BY <1>0, <1>1, WorkerIs DEF Working, Holding, Adding
<1>3. /\ lists'[a].arr = lists[a].arr /\ lists'[a].size = lists[a].size
      /\ lists'[a].mods = lists[a].mods /\ lists'[a].cap = th[t].cap
      /\ lists'[a].era = lists[a].era + 1
      /\ \A l \in Source \ {a} : lists'[l] = lists[l]
  BY <1>0, <1>2, GrowList DEF SerialInv
<1>4. /\ Others(t) /\ th'[t].pc = "store" /\ th'[t].who = u /\ th'[t].src = s
      /\ th'[t].list = a /\ th'[t].n = th[t].n /\ th'[t].cap = th[t].cap
      /\ th'[t].era = lists[a].era + 1
  BY <1>0, <1>2, GrowIs DEF SerialInv, RaceInv, Goes, Now, Others
<1>5. \A v \in User : SourcesOf(v)' = SourcesOf(v)
  BY <1>1 DEF SourcesOf
<1>6. \A v \in User \ {u} : Untouched(v)
  BY <1>1, <1>2, <1>3, <1>5 DEF Untouched
<1>7. th[t].n \in Nat /\ th[t].cap \in Nat
  BY DEF SerialInv, RaceInv, TypeOK, Locals
<1>8. Full(a, SourcesOf(u) \ {s})'
  <2>1. Exactly(lists'[a].arr, lists'[a].size, SourcesOf(u)' \ {s})
    BY <1>2, <1>3, <1>5 DEF Full
  <2>2. lists'[a].size <= lists'[a].cap
    BY <1>2, <1>3, <1>7
  <2>3. QED
    BY <2>1, <2>2 DEF Full
<1>9. \A o \in Threads : Reading(th[o])'
  <2>1. SameToRead
    BY <1>3 DEF SameToRead
  <2>2. QED
    BY <1>0, <1>1, <1>4, <2>1, ReadingSame DEF Adding
<1>10. Working(th[t])'
  BY <1>1, <1>2, <1>3, <1>4, <1>8 DEF Working, Adding
<1>11. \A r \in Source : home'[r] = None => home[r] = None /\ lists'[r] = lists[r]
  BY <1>1, <1>2, <1>3, NoneIsNot
<1>12. QED
  BY <1>0, <1>2, <1>4, <1>6, <1>9, <1>10, <1>11, SerialStep

\* No add throws.
LEMMA SerialStoreThrows ==
  ASSUME SerialInv, NEW t \in Threads, StoreThrows(t)
  PROVE  FALSE
<1>1. th[t].pc = "store" /\ th[t].n >= th[t].cap
  BY DEF StoreThrows, At
<1>2. th[t].n < th[t].cap
  BY <1>1, WorkerIs DEF Working
<1>3. th[t].n \in Nat /\ th[t].cap \in Nat
  BY DEF SerialInv, RaceInv, TypeOK, Locals
<1>4. QED
  BY <1>1, <1>2, <1>3

LEMMA SerialStore ==
  ASSUME SerialInv, RaceInv', NEW t \in Threads, Store(t)
  PROVE  SerialInv'
<1> DEFINE u == th[t].who
           s == th[t].src
           a == th[t].list
           n == th[t].n
<1>1. th[t].pc = "store" /\ UNCHANGED <<webSources, state, home>>
  BY DEF Store, At
<1>2. /\ u \in User /\ s \in Source /\ s # None /\ home[s] = u /\ a \in Source /\ home[a] = u
      /\ webSources[u] = a /\ Full(a, SourcesOf(u) \ {s}) /\ n = lists[a].size
      /\ n < lists[a].cap /\ th[t].era = lists[a].era
      /\ state[s] = "created" /\ n \in Nat /\ lists[a].cap \in Nat
      /\ \A o \in Threads \ {t} : th[o].src # None => th[o].who # u
      /\ \A o \in Threads \ {t} : th[o].pc \in Adding => th[o].list # a
  <2>1. /\ u \in User /\ s \in Source /\ s # None /\ home[s] = u /\ a \in Source /\ home[a] = u
        /\ webSources[u] = a /\ Full(a, SourcesOf(u) \ {s}) /\ n = lists[a].size
        /\ n < th[t].cap /\ th[t].cap = lists[a].cap /\ th[t].era = lists[a].era
        /\ \A o \in Threads \ {t} : th[o].src # None => th[o].who # u
        /\ \A o \in Threads \ {t} : th[o].pc \in Adding => th[o].list # a
    BY <1>1, WorkerIs DEF Working, Holding, Adding
  <2>2. state[s] = "created"
    BY <1>1 DEF SerialInv, RaceInv, ThreadOK, Adding
  <2>3. n \in Nat /\ th[t].cap \in Nat
    BY DEF SerialInv, RaceInv, TypeOK, Locals
  <2>4. QED
    BY <2>1, <2>2, <2>3
<1>3. Goes(t, "opening", a)
  BY StoreIs DEF SerialInv, RaceInv
<1>4. /\ n + 1 \in Slot /\ lists'[a].arr[n + 1] = s
      /\ \A i \in Slot \ {n + 1} : lists'[a].arr[i] = lists[a].arr[i]
      /\ lists'[a].size = n + 1 /\ lists'[a].mods = lists[a].mods
      /\ lists'[a].cap = lists[a].cap
      /\ \A l \in Source \ {a} : lists'[l] = lists[l]
  BY <1>2, StoreList DEF SerialInv
<1>5. \A o \in Threads : th[o].pc = "next" /\ th[o].list = a
                           /\ th[o].mods = lists[a].mods => th[o].n < n + 1
  <2>1. ASSUME NEW o \in Threads, th[o].pc = "next", th[o].list = a, th[o].mods = lists[a].mods
        PROVE  th[o].n < n + 1
    <3>1. th[o].n <= lists[a].size
      BY <1>1, <2>1 DEF SerialInv, Reading, Adding
    <3>2. th[o].n \in Nat
      BY DEF SerialInv, RaceInv, TypeOK, Locals
    <3>3. QED
      BY <1>2, <3>1, <3>2
  <2>2. QED
    BY <2>1
<1>6. Others(t)
  BY <1>3 DEF Goes, Now, Others
<1>7. \A o \in Threads : Reading(th[o])'
  BY <1>2, <1>3, <1>4, <1>5, <1>6, ReadingFinished DEF Goes, Now, Adding
<1>8. \A v \in User : SourcesOf(v)' = SourcesOf(v)
  BY <1>1 DEF SourcesOf
<1>9. \A v \in User \ {u} : Untouched(v)
  BY <1>1, <1>2, <1>4, <1>8 DEF Untouched
<1>10. Exactly(lists'[a].arr, n + 1, SourcesOf(u)) /\ n + 1 <= lists[a].cap
  <2>1. \A i \in 1 .. n : i \in Slot /\ i # n + 1
    BY <1>2, <1>4, SlotsNat
  <2>2. \A i \in 1 .. n : lists'[a].arr[i] = lists[a].arr[i]
    BY <1>4, <2>1
  <2>3. Exactly(lists[a].arr, n, SourcesOf(u) \ {s})
    BY <1>2 DEF Full
  <2>4. Exactly(lists'[a].arr, n + 1, (SourcesOf(u) \ {s}) \cup {s})
    <3>1. n \in Nat /\ s \notin SourcesOf(u) \ {s} /\ lists'[a].arr[n + 1] = s
      BY <1>2, <1>4
    <3>2. QED
      BY <2>2, <2>3, <3>1, ExactlyAdded
  <2>5. (SourcesOf(u) \ {s}) \cup {s} = SourcesOf(u)
    BY <1>2 DEF SourcesOf
  <2>6. n + 1 <= lists[a].cap
    BY <1>2
  <2>7. QED
    BY <2>4, <2>5, <2>6
<1>11. Working(th[t])'
  BY <1>1, <1>2, <1>3, <1>4, <1>8, <1>10 DEF Goes, Now, Working, Full, Adding
<1>12. \A r \in Source : home'[r] = None => home[r] = None /\ lists'[r] = lists[r]
  BY <1>1, <1>2, <1>4, NoneIsNot
<1>13. QED
  BY <1>2, <1>3, <1>6, <1>7, <1>9, <1>11, <1>12, SerialStep DEF Goes, Now

LEMMA SerialOpened ==
  ASSUME SerialInv, RaceInv', NEW t \in Threads, Opened(t)
  PROVE  SerialInv'
<1>1. PICK u : u = th[t].who
  OBVIOUS
<1> DEFINE s == th[t].src
<1>2. /\ th[t].pc = "opening" /\ UNCHANGED <<webSources, lists, home>>
      /\ \E q \in {"broken", "open"} : state' = [state EXCEPT ![s] = q]
  BY DEF Opened, At
<1>3. /\ u \in User /\ s \in Source /\ home[s] = u /\ state[s] = "created"
      /\ webSources[u] = th[t].list /\ th[t].list \in Source /\ Full(th[t].list, SourcesOf(u))
      /\ \A o \in Threads \ {t} : th[o].src # None => th[o].who # u
  BY <1>1, <1>2, WorkerIs DEF Working, Holding, SerialInv, RaceInv, ThreadOK, Adding
<1>4. /\ state'[s] \in {"broken", "open"} /\ \A r \in Source \ {s} : state'[r] = state[r]
  BY <1>2, <1>3 DEF SerialInv, RaceInv, TypeOK
<1>5. \A v \in User : SourcesOf(v)' = SourcesOf(v)
  BY <1>2, <1>3, <1>4 DEF SourcesOf
<1>6. \A v \in User : Untouched(v)
  BY <1>2, <1>5 DEF Untouched
<1>7. Returned(t) /\ Others(t)
  BY Returns DEF Opened, Returned, Others, SerialInv, RaceInv
<1>8. \A o \in Threads : Reading(th[o])'
  BY <1>2, <1>7, ReadingSame DEF Returned, SameToRead, Adding
<1>9. Settled(u)
  BY <1>3, NoneIsNot DEF Settled, SourcesOf
<1>10. Settled(u)'
  BY <1>3, <1>6, <1>9, UntouchedIs DEF SerialInv
<1>11. \A r \in Source : home'[r] = None => home[r] = None /\ lists'[r] = lists[r]
  BY <1>2
<1>12. th'[t].src = None
  BY <1>7 DEF Returned
<1>13. QED
  BY <1>1, <1>3, <1>6, <1>7, <1>8, <1>10, <1>11, <1>12, SerialStep

LEMMA SerialHeartbeat ==
  ASSUME SerialInv, RaceInv', NEW t \in Threads, NEW s \in Source,
         Quiet(home[s]), HeartbeatFails(t, s)
  PROVE  SerialInv'
<1>1. PICK u : u = home[s]
  OBVIOUS
<1>2. /\ th[t].pc = "idle" /\ UNCHANGED <<webSources, lists, home>>
      /\ state[s] = "broken" /\ state' = [state EXCEPT ![s] = "closed"]
  BY DEF HeartbeatFails, At
<1>3. /\ u \in User /\ th[t].src = None /\ Settled(u) /\ s # None
      /\ \A o \in Threads : th[o].src # None => th[o].who # u
  BY <1>1, <1>2, NoneIsNot DEF SerialInv, RaceInv, HomesOK, ThreadOK, Quiet
<1>4. /\ state'[s] = "closed" /\ \A r \in Source \ {s} : state'[r] = state[r]
  BY <1>2 DEF SerialInv, RaceInv, TypeOK
<1>5. /\ SourcesOf(u)' \cup {s} = SourcesOf(u) /\ s \notin SourcesOf(u)'
      /\ \A v \in User \ {u} : SourcesOf(v)' = SourcesOf(v)
  BY <1>1, <1>2, <1>3, <1>4 DEF SourcesOf
<1>6. \A v \in User \ {u} : Untouched(v)
  BY <1>2, <1>5 DEF Untouched
<1>7. Now(t, "getClosing", s, u, None, 0, 0, {}) /\ Others(t)
  BY <1>1, <1>3, HeartbeatFailsIs DEF Now, Others, SerialInv, RaceInv
<1>8. \A o \in Threads : Reading(th[o])'
  BY <1>2, <1>7, ReadingSame DEF Now, SameToRead, Adding
<1>9. webSources[u] # None /\ Full(webSources[u], SourcesOf(u)' \cup {s})
  BY <1>3, <1>5 DEF Settled
<1>10. Working(th[t])'
  BY <1>2, <1>5, <1>7, <1>9 DEF Now, Working, Full, Adding
<1>11. QED
  BY <1>2, <1>3, <1>6, <1>7, <1>8, <1>10, SerialStep DEF Now

LEMMA SerialGetClosing ==
  ASSUME SerialInv, RaceInv', NEW t \in Threads, GetClosing(t)
  PROVE  SerialInv'
<1> DEFINE u == th[t].who
           s == th[t].src
<1>1. th[t].pc = "getClosing" /\ UNCHANGED <<webSources, lists, state, home>>
  BY DEF GetClosing, At, shared
<1>2. /\ u \in User /\ s \in Source /\ s # None /\ webSources[u] # None
      /\ s \notin SourcesOf(u) /\ Full(webSources[u], SourcesOf(u) \cup {s})
      /\ \A o \in Threads \ {t} : th[o].src # None => th[o].who # u
  BY <1>1, WorkerIs DEF Working, Adding
<1>3. Goes(t, "remove", webSources[u])
  BY <1>2, GetClosingIs DEF SerialInv, RaceInv
<1>4. Others(t) /\ \A o \in Threads : Reading(th[o])'
  BY <1>1, <1>3, ReadingSame DEF Goes, Now, Others, SameToRead, Adding
<1>5. \A v \in User : SourcesOf(v)' = SourcesOf(v) /\ Untouched(v)
  BY <1>1 DEF SourcesOf, Untouched
<1>6. Working(th[t])'
  BY <1>1, <1>2, <1>3, <1>5 DEF Goes, Now, Working, Full, Adding
<1>7. QED
  BY <1>1, <1>2, <1>3, <1>4, <1>5, <1>6, SerialStep DEF Goes, Now

LEMMA SerialRemove ==
  ASSUME SerialInv, RaceInv', NEW t \in Threads, Remove(t)
  PROVE  SerialInv'
<1> DEFINE u == th[t].who
           s == th[t].src
           a == th[t].list
           n == lists[a].size
<1>1. th[t].pc = "remove" /\ UNCHANGED <<webSources, state, home>>
  BY RemoveLeaves
<1>2. /\ u \in User /\ s \in Source /\ s # None /\ a \in Source /\ home[a] = u
      /\ webSources[u] = a /\ s \notin SourcesOf(u) /\ Full(a, SourcesOf(u) \cup {s})
      /\ \A o \in Threads \ {t} : th[o].src # None => th[o].who # u
  BY <1>1, WorkerIs DEF Working, Holding, Adding
<1>3. \E i \in 1 .. n : lists[a].arr[i] = s
  BY <1>2 DEF Full, Exactly
<1>4. /\ Now(t, "truncate", s, u, a, n, th[t].mods, th[t].hit)
      /\ n <= lists[a].cap /\ th'[t].era = lists[a].era
  <2>1. lists[a] \in Lists
    BY <1>2 DEF SerialInv, RaceInv, TypeOK
  <2>2. n \in Nat /\ lists[a].cap \in Nat /\ n <= lists[a].cap
    BY <1>2, <2>1, SlotsNat DEF Full, Lists, Most
  <2>3. PICK i \in 1 .. n : lists[a].arr[i] = s /\ i <= lists[a].cap
    BY <1>3, <2>2
  <2>4. ~ (n > lists[a].cap)
    BY <2>2
  <2>5. QED
    BY <1>2, <2>3, <2>4, RemoveIs DEF SerialInv, RaceInv
<1>5. Others(t) /\ th'[t].pc = "truncate"
  BY <1>4 DEF Now, Others
<1>6. /\ n \in Slot /\ lists'[a].size = n /\ lists'[a].mods = lists[a].mods + 1
      /\ lists'[a].cap = lists[a].cap /\ lists'[a].era = lists[a].era
      /\ \A l \in Source \ {a} : lists'[l] = lists[l]
  BY <1>5, RemoveList DEF SerialInv
<1>7. PICK i \in 1 .. n :
        /\ lists[a].arr[i] = s
        /\ \A j \in Slot : lists'[a].arr[j] = IF i <= j /\ j < n THEN lists[a].arr[j + 1]
                                             ELSE lists[a].arr[j]
  BY <1>5, RemoveList DEF SerialInv
<1>8. \A o \in Threads : Reading(th[o])'
  BY <1>2, <1>5, <1>6, ReadingModified DEF Adding
<1>9. \A v \in User : SourcesOf(v)' = SourcesOf(v)
  BY <1>1 DEF SourcesOf
<1>10. \A v \in User \ {u} : Untouched(v)
  BY <1>1, <1>2, <1>6, <1>9 DEF Untouched
<1>11. /\ Exactly(lists'[a].arr, n - 1, SourcesOf(u))
       /\ lists'[a].arr[n] \in SourcesOf(u) \cup {s}
  <2>1. n \in Nat /\ \A j \in 1 .. n : j \in Slot
    BY <1>6, SlotsNat
  <2>2. \A j \in 1 .. n : lists'[a].arr[j] = IF i <= j /\ j < n THEN lists[a].arr[j + 1]
                                            ELSE lists[a].arr[j]
    BY <1>7, <2>1
  <2>3. Exactly(lists[a].arr, n, SourcesOf(u) \cup {s}) /\ i \in 1 .. n
    BY <1>2 DEF Full
  <2> DEFINE b == lists[a].arr
             c == lists'[a].arr
             S == SourcesOf(u) \cup {s}
  <2> HIDE DEF n, b, c, S
  <2>4. Exactly(c, n - 1, S \ {b[i]}) /\ c[n] \in S
    <3>1. /\ Exactly(b, n, S)
          /\ \A j \in 1 .. n : c[j] = IF i <= j /\ j < n THEN b[j + 1] ELSE b[j]
      BY <2>2, <2>3 DEF b, c, S
    <3>2. QED
      BY <2>1, <2>3, <3>1, ExactlyRemoved
  <2>5. (SourcesOf(u) \cup {s}) \ {lists[a].arr[i]} = SourcesOf(u)
    BY <1>2, <1>7
  <2>6. QED
    BY <2>4, <2>5 DEF b, c, S
<1>12. Working(th[t])'
  BY <1>1, <1>2, <1>4, <1>6, <1>9, <1>11 DEF Now, Working, Adding
<1>13. \A r \in Source : home'[r] = None => home[r] = None /\ lists'[r] = lists[r]
  BY <1>1, <1>2, <1>6, NoneIsNot
<1>14. QED
  BY <1>2, <1>4, <1>5, <1>8, <1>10, <1>12, <1>13, SerialStep DEF Now

LEMMA SerialTruncate ==
  ASSUME SerialInv, RaceInv', NEW t \in Threads, Truncate(t)
  PROVE  SerialInv'
<1> DEFINE u == th[t].who
           s == th[t].src
           a == th[t].list
           n == th[t].n
<1>1. th[t].pc = "truncate" /\ UNCHANGED <<webSources, state, home>>
  BY DEF Truncate, At
<1>2. /\ u \in User /\ s \in Source /\ s # None /\ a \in Source /\ home[a] = u
      /\ webSources[u] = a /\ Exactly(lists[a].arr, n - 1, SourcesOf(u)) /\ n \in Slot
      /\ n <= lists[a].cap /\ th[t].era = lists[a].era
      /\ \A o \in Threads \ {t} : th[o].src # None => th[o].who # u
      /\ \A o \in Threads \ {t} : th[o].pc \in Adding => th[o].list # a
  BY <1>1, WorkerIs DEF Working, Holding, Adding
<1>3. Goes(t, "lastOne", a) /\ Others(t)
  BY TruncateIs DEF SerialInv, RaceInv, Goes, Now, Others
<1>4. /\ lists'[a].arr[n] = None
      /\ \A i \in Slot \ {n} : lists'[a].arr[i] = lists[a].arr[i]
      /\ lists'[a].size = n - 1 /\ lists'[a].mods = lists[a].mods
      /\ lists'[a].cap = lists[a].cap
      /\ \A l \in Source \ {a} : lists'[l] = lists[l]
  BY <1>2, TruncateList DEF SerialInv
<1>5. \A o \in Threads : Reading(th[o])'
  BY <1>2, <1>3, <1>4, ReadingFinished DEF Goes, Now, Adding
<1>6. \A v \in User : SourcesOf(v)' = SourcesOf(v)
  BY <1>1 DEF SourcesOf
<1>7. \A v \in User \ {u} : Untouched(v)
  BY <1>1, <1>2, <1>4, <1>6 DEF Untouched
<1>8. Exactly(lists'[a].arr, n - 1, SourcesOf(u)) /\ n - 1 <= lists[a].cap
  <2>1. n - 1 \in Nat /\ \A i \in 1 .. (n - 1) : i \in Slot \ {n}
    BY <1>2, SlotsNat
  <2>2. \A i \in 1 .. (n - 1) : lists'[a].arr[i] = lists[a].arr[i]
    BY <1>4, <2>1
  <2>3. lists[a] \in Lists
    BY <1>2 DEF SerialInv, RaceInv, TypeOK
  <2>4. n - 1 <= lists[a].cap
    BY <1>2, <2>1, <2>3, SlotsNat DEF Lists
  <2>5. QED
    BY <1>2, <2>1, <2>2, <2>4, ExactlySame
<1>9. Working(th[t])'
  BY <1>1, <1>2, <1>3, <1>4, <1>6, <1>8 DEF Goes, Now, Working, Full, Adding
<1>10. \A r \in Source : home'[r] = None => home[r] = None /\ lists'[r] = lists[r]
  BY <1>1, <1>2, <1>4, NoneIsNot
<1>11. QED
  BY <1>2, <1>3, <1>5, <1>7, <1>9, <1>10, SerialStep DEF Goes, Now

LEMMA SerialLastOne ==
  ASSUME SerialInv, RaceInv', NEW t \in Threads, LastOne(t)
  PROVE  SerialInv'
<1>1. PICK u : u = th[t].who
  OBVIOUS
<1> DEFINE a == th[t].list
<1>2. th[t].pc = "lastOne" /\ UNCHANGED <<lists, state, home>>
  BY DEF LastOne, At
<1>3. /\ u \in User /\ a \in Source /\ th[t].src # None
      /\ webSources[u] = a /\ Full(a, SourcesOf(u)) /\ lists[a].size \in Nat
      /\ \A o \in Threads \ {t} : th[o].src # None => th[o].who # u
  <2>1. lists[th[t].list] \in Lists
    BY <1>2, WorkerIs DEF SerialInv, RaceInv, TypeOK, Holding
  <2>2. lists[a].size \in Nat
    BY <2>1, SlotsNat DEF Lists, Most
  <2>3. Working(th[t]) /\ th[t].src # None /\ th[t].who \in User /\ a \in Source
    BY <1>2, WorkerIs DEF Holding
  <2>4. \A o \in Threads \ {t} : th[o].src # None => th[o].who # u
    BY <1>1, <1>2, WorkerIs
  <2>5. QED
    BY <1>1, <1>2, <2>2, <2>3, <2>4 DEF Working, Adding
<1>4. \A v \in User : SourcesOf(v)' = SourcesOf(v)
  BY <1>2 DEF SourcesOf
<1>5. CASE lists[a].size = 0 /\ Goes(t, "expire", a)
  <2>1. webSources' = [webSources EXCEPT ![u] = None]
    BY <1>1, <1>5 DEF LastOne
  <2>2. webSources'[u] = None /\ \A v \in User \ {u} : webSources'[v] = webSources[v]
    BY <1>3, <2>1 DEF SerialInv, RaceInv, TypeOK
  <2>3. \A v \in User \ {u} : Untouched(v)
    BY <1>2, <1>4, <2>2 DEF Untouched
  <2>4. SourcesOf(u) = {}
    BY <1>3, <1>5 DEF Full, Exactly
  <2>5. Working(th[t])'
    BY <1>1, <1>3, <1>4, <1>5, <2>2, <2>4 DEF Goes, Now, Working, Adding
  <2>6. Others(t) /\ \A o \in Threads : Reading(th[o])'
    BY <1>2, <1>5, ReadingSame DEF Goes, Now, Others, SameToRead, Adding
  <2>7. QED
    BY <1>1, <1>2, <1>3, <1>5, <2>3, <2>5, <2>6, SerialStep DEF Goes, Now
<1>6. CASE lists[a].size # 0 /\ Returned(t)
  <2>1. webSources' = webSources
    BY <1>6 DEF LastOne
  <2>2. \A v \in User : Untouched(v)
    BY <1>2, <1>4, <2>1 DEF Untouched
  <2>3. SourcesOf(u) # {}
    <3>1. 1 \in 1 .. lists[a].size
      BY <1>3, <1>6
    <3>2. QED
      BY <1>3, <3>1 DEF Full, Exactly
  <2>4. Settled(u)
    BY <1>3, <2>3, NoneIsNot DEF Settled
  <2>5. Settled(u)'
    BY <1>3, <2>2, <2>4, UntouchedIs DEF SerialInv
  <2>6. Others(t) /\ th'[t].src = None /\ \A o \in Threads : Reading(th[o])'
    BY <1>2, <1>6, ReadingSame DEF Returned, Others, SameToRead, Adding
  <2>7. QED
    BY <1>1, <1>2, <1>3, <2>2, <2>5, <2>6, SerialStep
<1>7. QED
  BY <1>5, <1>6, LastOneIs DEF SerialInv, RaceInv

LEMMA SerialExpire ==
  ASSUME SerialInv, RaceInv', NEW t \in Threads, ExpireSession(t)
  PROVE  SerialInv'
<1>1. PICK u : u = th[t].who
  OBVIOUS
<1>2. th[t].pc = "expire" /\ UNCHANGED <<webSources, lists, state, home>>
  BY DEF ExpireSession, At, shared
<1>3. /\ u \in User /\ webSources[u] = None /\ SourcesOf(u) = {}
      /\ \A o \in Threads \ {t} : th[o].src # None => th[o].who # u
  BY <1>1, <1>2, WorkerIs DEF Working, Adding
<1>4. \A v \in User : SourcesOf(v)' = SourcesOf(v) /\ Untouched(v)
  BY <1>2 DEF SourcesOf, Untouched
<1>5. Settled(u)'
  BY <1>2, <1>3, <1>4 DEF Settled
<1>6. Others(t) /\ th'[t].src = None /\ th'[t].pc = "idle"
  BY Returns DEF ExpireSession, Returned, Others, SerialInv, RaceInv
<1>7. \A o \in Threads : Reading(th[o])'
  BY <1>2, <1>6, ReadingSame DEF SameToRead, Adding
<1>8. QED
  BY <1>1, <1>2, <1>3, <1>4, <1>5, <1>6, <1>7, SerialStep

-----------------------------------------------------------------------------
\* A step that neither belongs to a call for a source nor changes a list.
LEMMA NoWorkerStep ==
  ASSUME SerialInv, RaceInv', UNCHANGED <<webSources, lists, home>>,
         \A v \in User : SourcesOf(v)' = SourcesOf(v),
         \A o \in Threads : th'[o] = th[o] \/ (th[o].src = None /\ th'[o].src = None),
         \A o \in Threads : Reading(th[o])'
  PROVE  SerialInv'
<1>1. \A v \in User : Untouched(v)
  BY DEF Untouched
<1>2. OneWorker'
  BY DEF SerialInv, OneWorker
<1>3. ASSUME NEW v \in User, Quiet(v)' PROVE Settled(v)'
  <2>1. Quiet(v)
    BY <1>3 DEF Quiet
  <2>2. QED
    BY <1>1, <2>1, UntouchedIs DEF SerialInv
<1>4. ASSUME NEW o \in Threads, th'[o].src # None PROVE Working(th[o])'
  <2>1. th'[o] = th[o] /\ th[o].src # None
    BY <1>4
  <2>2. th[o].who \in User
    BY <2>1 DEF SerialInv, RaceInv, ThreadOK
  <2>3. QED
    BY <1>1, <2>1, <2>2, UntouchedIs DEF SerialInv
<1>5. QED
  BY <1>2, <1>3, <1>4 DEF SerialInv

LEMMA SerialEmitting ==
  ASSUME SerialInv, RaceInv', NEW t \in Threads,
         Iterate(t) \/ Done(t) \/ Deliver(t) \/ (\E u \in User : Emit(t, u))
  PROVE  SerialInv'
<1>1. RaceInv /\ TypeOK /\ ThreadOK(th[t]) /\ Reading(th[t])
  BY DEF SerialInv, RaceInv
<1>2. UNCHANGED <<webSources, lists, state, home>>
  BY DEF Iterate, Done, Deliver, Emit, shared
<1>3. \A v \in User : SourcesOf(v)' = SourcesOf(v)
  BY <1>2 DEF SourcesOf
<1>4. th[t].src = None
  BY <1>1 DEF Iterate, Done, Finished, Deliver, Emit, At, ThreadOK
<1>5. /\ Others(t) /\ th'[t].src = None /\ th'[t].pc \in {"idle", "iterate", "next"}
      /\ Reading(th[t])'
  <2>1. CASE Returned(t)
    BY <2>1 DEF Returned, Others, Reading
  <2>2. CASE \E u \in User : Emit(t, u)
    BY <1>1, <2>2, EmitIs DEF Now, Others, Reading
  <2>3. CASE /\ Iterate(t) /\ webSources[th[t].who] # None
             /\ Now(t, "next", th[t].src, th[t].who, webSources[th[t].who], th[t].n,
                    lists[webSources[th[t].who]].mods, th[t].hit)
    <3>1. th[t].pc = "iterate" /\ th[t].n = 0 /\ th[t].who \in User
      BY <1>1, <2>3 DEF Iterate, At, ThreadOK
    <3>2. webSources[th[t].who] \in Source
      BY <1>1, <2>3, <3>1 DEF TypeOK
    <3>3. lists[webSources[th[t].who]] \in Lists
      BY <1>1, <3>2 DEF TypeOK
    <3>4. /\ lists[webSources[th[t].who]].mods \in Nat
          /\ lists[webSources[th[t].who]].size \in Nat
      BY <3>3, SlotsNat DEF Lists, Most
    <3>5. \A i \in Slot : ~ (i <= 0)
      BY SlotsNat
    <3>6. Reading(th[t])'
      BY <1>2, <2>3, <3>1, <3>4, <3>5 DEF Now, Reading
    <3>7. QED
      BY <1>4, <2>3, <3>6 DEF Now, Others
  <2>4. CASE LET l == lists[th[t].list]
                 i == th[t].n + 1
             IN  /\ Deliver(t) /\ l.mods = th[t].mods /\ i <= l.size /\ l.arr[i] \in Source
                 /\ Now(t, "next", th[t].src, th[t].who, th[t].list, i, th[t].mods,
                        th[t].hit \cup {l.arr[i]})
    <3>1. th[t].pc = "next" /\ th[t].n \in Nat
      BY <1>1, <2>4 DEF Deliver, At, TypeOK, Locals
    <3>2. ASSUME NEW j \in Slot, j <= th[t].n + 1
          PROVE  lists[th[t].list].arr[j]
                   \in (th[t].hit \cup {lists[th[t].list].arr[th[t].n + 1]})
                                              \cup {None}
      <4>1. j <= th[t].n \/ j = th[t].n + 1
        BY <3>1, <3>2, SlotsNat
      <4>2. QED
        BY <1>1, <2>4, <3>1, <4>1 DEF Reading
    <3>3. th[t].mods <= lists[th[t].list].mods
      BY <1>1, <3>1 DEF Reading
    <3>4. Reading(th[t])'
      BY <1>2, <2>4, <3>2, <3>3 DEF Now, Reading
    <3>5. QED
      BY <1>4, <2>4, <3>4 DEF Now, Others
  <2>5. Done(t) => Returned(t)
    BY <1>1, Returns DEF Done
  <2>6. Iterate(t) => th[t].who \in User
    BY <1>1 DEF Iterate, At, ThreadOK
  <2>7. Deliver(t) => th[t].list \in Source
    BY <1>1 DEF Deliver, At, ThreadOK, Holding
  <2>8. QED
    BY <1>1, <2>1, <2>2, <2>3, <2>4, <2>5, <2>6, <2>7, IterateIs, DeliverIs
<1>6. \A o \in Threads : Reading(th[o])'
  BY <1>2, <1>5, ReadingOthers DEF SameToRead, Adding
<1>7. QED
  BY <1>2, <1>3, <1>4, <1>5, <1>6, NoWorkerStep DEF Others

LEMMA SerialOutside ==
  ASSUME SerialInv, RaceInv',
         (\E u \in User : Login(u) \/ DropSession(u)) \/ (\E s \in Source : BrowserGoes(s))
           \/ UNCHANGED vars
  PROVE  SerialInv'
<1>1. /\ UNCHANGED <<webSources, lists, home, th>>
      /\ \/ state' = state
         \/ \E s \in Source : state[s] = "open" /\ state' = [state EXCEPT ![s] = "broken"]
  BY DEF Login, DropSession, BrowserGoes, shared, vars
<1>2. \A v \in User : SourcesOf(v)' = SourcesOf(v)
  BY <1>1 DEF SourcesOf, SerialInv, RaceInv, TypeOK
<1>3. \A o \in Threads : Reading(th[o])'
  BY <1>1 DEF SerialInv, Reading
<1>4. QED
  BY <1>1, <1>2, <1>3, NoWorkerStep

LEMMA SerialNextIsNext == SerialNext => Next
BY DEF SerialNext, Next

LEMMA SerialNextKeeps == SerialInv /\ [SerialNext]_vars => SerialInv'
<1> SUFFICES ASSUME SerialInv, [SerialNext]_vars PROVE SerialInv'
  OBVIOUS
<1>1. RaceInv'
  BY SerialNextIsNext, RaceNext DEF SerialInv
<1>2. Thread \subseteq Threads /\ Heartbeat \in Threads
  BY DEF Threads
<1>3. CASE Outside
  BY <1>1, <1>2, <1>3, SerialOutside, SerialEmitting DEF Outside
<1>4. ASSUME NEW t \in Thread, NEW s \in Source, NEW u \in User, Quiet(u), Subscribe(t, s, u)
      PROVE  SerialInv'
  BY <1>1, <1>2, <1>4, SerialSubscribe
<1>5. ASSUME NEW s \in Source, Quiet(home[s]), HeartbeatFails(Heartbeat, s)
      PROVE  SerialInv'
  BY <1>1, <1>2, <1>5, SerialHeartbeat
<1>6. ASSUME NEW t \in Threads, Continue(t) PROVE SerialInv'
  BY <1>1, <1>6, SerialGetSources, SerialNewSources, SerialAdd, SerialRoom, SerialGrow, SerialStore, SerialStoreThrows, SerialOpened,
     SerialGetClosing, SerialRemove, SerialTruncate, SerialLastOne, SerialExpire,
     SerialEmitting DEF Continue, Opening, Closing, Emitting
<1>7. CASE UNCHANGED vars
  BY <1>1, <1>7, SerialOutside
<1>8. QED
  BY <1>3, <1>4, <1>5, <1>6, <1>7 DEF SerialNext

LEMMA SerialInit == Init => SerialInv
<1> SUFFICES ASSUME Init PROVE SerialInv
  OBVIOUS
<1>1. \A t \in Threads : th[t].pc = "idle" /\ th[t].src = None
  BY IdleIs DEF Init
<1>2. \A u \in User : SourcesOf(u) = {}
  BY DEF Init, SourcesOf
<1>3. QED
  BY <1>1, <1>2, RaceInit DEF Init, SerialInv, OneWorker, Settled, Reading

\* The invariant of the event sources, when those of a user open and close
\* one at a time.
THEOREM SerialInvariant == SerialSpec => []SerialInv
BY SerialInit, SerialNextKeeps, PTL DEF SerialSpec

\* The list of a user is the user's sources, each once, and is there as long
\* as there is one: newEventSource, onOpen, onClose.
THEOREM ListMatchesSourcesHolds == SerialSpec => []ListMatchesSources
<1>1. SerialInv => ListMatchesSources
  <2> SUFFICES ASSUME SerialInv, NEW u \in User, Quiet(u), webSources[u] # None
               PROVE  /\ Listed(webSources[u]) = SourcesOf(u)
                      /\ lists[webSources[u]].size = Cardinality(SourcesOf(u))
                      /\ SourcesOf(u) # {}
    BY DEF ListMatchesSources, SerialInv, Settled
  <2> DEFINE l == lists[webSources[u]]
  <2>1. Exactly(l.arr, l.size, SourcesOf(u)) /\ SourcesOf(u) # {}
    BY DEF SerialInv, Settled, Full
  <2>2. webSources[u] \in Source
    BY DEF SerialInv, RaceInv, TypeOK
  <2>3. l.size \in Nat
    BY <2>2, SlotsNat DEF SerialInv, RaceInv, TypeOK, Lists, Most
  <2>4. None \notin SourcesOf(u)
    BY NoneIsNot DEF SourcesOf
  <2>5. Listed(webSources[u]) = SourcesOf(u)
    BY <2>1, <2>4 DEF Listed, Exactly
  <2>6. Cardinality(SourcesOf(u)) = l.size
    BY <2>1, <2>3, ExactlySize
  <2>7. QED
    BY <2>1, <2>5, <2>6
<1>2. QED
  BY <1>1, SerialInvariant, PTL

\* The loop of emitEvent skips nobody when it comes to the end of a list that
\* was not modified under it.
THEOREM NothingSkippedHolds == SerialSpec => []NothingSkipped
<1>1. SerialInv => NothingSkipped
  <2> SUFFICES ASSUME SerialInv, NEW t \in Thread, Finished(t),
                      lists[th[t].list].mods = th[t].mods,
                      NEW i \in 1 .. lists[th[t].list].size,
                      lists[th[t].list].arr[i] # None
               PROVE  lists[th[t].list].arr[i] \in th[t].hit
    BY DEF NothingSkipped, Listed
  <2>1. t \in Threads /\ th[t].pc = "next" /\ th[t].n = lists[th[t].list].size
    BY DEF Threads, Finished, At
  <2>2. Reading(th[t]) /\ th[t].list \in Source
    BY <2>1 DEF SerialInv, RaceInv, ThreadOK, Holding
  <2>3. i \in Slot /\ i <= th[t].n
    BY <2>1, <2>2, SlotsNat DEF SerialInv, RaceInv, TypeOK, Lists, Most
  <2>4. QED
    BY <2>1, <2>2, <2>3 DEF Reading
<1>2. QED
  BY <1>1, SerialInvariant, PTL

\* A source whose onClose has returned is in no list that an event goes to.
THEOREM ClosedNeverListedHolds == SerialSpec => []ClosedNeverListed
<1>1. SerialInv => ClosedNeverListed
  <2> SUFFICES ASSUME SerialInv, NEW s \in Source, state[s] = "closed",
                      \A t \in Threads : th[t].src # s,
                      NEW u \in User, webSources[u] # None
               PROVE  s \notin Listed(webSources[u])
    BY DEF ClosedNeverListed
  <2> DEFINE l == lists[webSources[u]]
  <2>1. s \notin SourcesOf(u)
    BY DEF SourcesOf
  <2>2. CASE Quiet(u)
    BY <2>1, <2>2 DEF SerialInv, Settled, Full, Exactly, Listed
  <2>3. CASE ~Quiet(u)
    <3>1. PICK t \in Threads : th[t].src # None /\ th[t].who = u
      BY <2>3 DEF Quiet
    <3>2. Working(th[t]) /\ s # th[t].src /\ th[t].pc \notin {"idle", "iterate", "next"}
      BY <3>1 DEF SerialInv, RaceInv, ThreadOK
    <3>3. \A i \in 1 .. l.size : l.arr[i] \in SourcesOf(u) \cup {th[t].src}
      <4>1. CASE th[t].pc = "getSources"
        BY <3>1, <3>2, <4>1 DEF Working, Settled, Full, Exactly
      <4>2. CASE th[t].pc \in {"add", "room", "grow", "store", "opening", "lastOne",
                               "getClosing", "remove"}
        BY <3>1, <3>2, <4>2 DEF Working, Full, Exactly, Adding
      <4>3. CASE th[t].pc = "truncate"
        <5>1. /\ th[t].n = l.size /\ th[t].n \in Nat
              /\ Exactly(l.arr, th[t].n - 1, SourcesOf(u))
              /\ l.arr[th[t].n] \in SourcesOf(u) \cup {th[t].src}
          BY <3>1, <3>2, <4>3, SlotsNat DEF Working
        <5>2. \A i \in 1 .. th[t].n : i \in 1 .. (th[t].n - 1) \/ i = th[t].n
          BY <5>1
        <5>3. QED
          BY <5>1, <5>2 DEF Exactly
      <4>4. CASE th[t].pc \in {"newSources", "expire"}
        BY <3>1, <3>2, <4>4 DEF Working
      <4>5. QED
        BY <3>2, <4>1, <4>2, <4>3, <4>4 DEF SerialInv, RaceInv, TypeOK, Locals
    <3>4. QED
      BY <2>1, <3>2, <3>3 DEF Listed
  <2>4. QED
    BY <2>2, <2>3
<1>2. QED
  BY <1>1, SerialInvariant, PTL

\* onClose removes the session of a user only when no event source of the
\* user is open: SparkWeb.removeConnection in WebEventSource.onClose.
THEOREM WatchedSessionStaysHolds == SerialSpec => WatchedSessionStays
<1> DEFINE Step == \A t \in Threads : At(t, "expire") /\ ~At(t, "expire")'
                     => \A s \in SourcesOf(th[t].who) : state[s] # "open"
<1>1. SerialInv => Step
  <2> SUFFICES ASSUME SerialInv, NEW t \in Threads, th[t].pc = "expire"
               PROVE  SourcesOf(th[t].who) = {}
    BY DEF At
  <2>1. QED
    BY WorkerIs DEF Working
<1>2. QED
  BY <1>1, SerialInvariant, PTL DEF SerialSpec, WatchedSessionStays
=============================================================================
