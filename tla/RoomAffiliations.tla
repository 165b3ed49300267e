-------------------------- MODULE RoomAffiliations --------------------------
(***************************************************************************)
(* The affiliations of a chat room, as MUCRoomController changes them:     *)
(* create or update a room, replace or extend the list of one affiliation, *)
(* remove an affiliation, destroy the room.  Every change is made under    *)
(* the lock of the room (getLock, the mutex being enabled as it is by      *)
(* default), one affiliation after the other, and then synced to the other *)
(* cluster nodes; replace and add read the old list under an earlier hold  *)
(* of the lock.  Openfire takes the same lock.                             *)
(*                                                                         *)
(* The names differ from those of UserAccounts, so that a module about     *)
(* both, AdministrationProofs, can extend the two.                         *)
(***************************************************************************)
EXTENDS Naturals

CONSTANTS Jid,    (* the users and groups that may be affiliated           *)
          Thread, (* the servlet threads                                   *)
          Nil     (* null                                                  *)

ASSUME AffiliationsAssumption == Nil \notin Jid

Affiliation == {"owner", "admin", "member", "outcast"}
Affiliations == [Jid -> Affiliation \cup {"none"}]
Nobody == [j \in Jid |-> "none"]

VARIABLES
  exists,  (* the room exists                                              *)
  aff,     (* the affiliation of each user with the room                   *)
  cluster, (* the same, as the other cluster nodes see it                  *)
  th       (* the local variables of each thread                           *)

roomVars == <<exists, aff, cluster, th>>

With(f, a) == {j \in Jid : f[j] = a}

\* What the loops of a change still have to give to whom.
Plan == [Jid -> Affiliation \cup {"none", "keep"}]
Unchanged == [j \in Jid |-> "keep"]

\* apply: between two holds of the lock; change: in the loops, with the
\* lock.  list, want, old: the affiliation, the users it is for and those
\* who had it; req: the affiliations in the entity of a room.
Locals == [pc: {"idle", "apply", "change", "done", "failed"},
           op: {Nil, "update", "replace", "add", "delete"},
           list: Affiliation \cup {Nil}, want: SUBSET Jid, old: SUBSET Jid,
           req: Affiliations, plan: Plan]
NoCall == [pc |-> "idle", op |-> Nil, list |-> Nil, want |-> {}, old |-> {},
         req |-> Nobody, plan |-> Unchanged]

RoomTypeOK ==
  /\ exists \in BOOLEAN
  /\ aff \in Affiliations
  /\ cluster \in Affiliations
  /\ th \in [Thread -> Locals]
  /\ exists => With(aff, "owner") # {}
  /\ ~exists => aff = Nobody

ThreadAt(t, s) == th[t].pc = s
Goes(t, l) == th' = [th EXCEPT ![t] = l]
Unlocked == \A t \in Thread : ~ThreadAt(t, "change")

\* MUCRoom.addOwner, addAdmin, addMember, addOutcast and addNone: the last
\* owner of a room cannot be anything else (ConflictException).
Conflict(f, j, a) == a # "owner" /\ With(f, "owner") = {j}

\* An owner or admin cannot be banned while in the room
\* (NotAllowedException).  The controller acts as the room itself, which has
\* the rights of an owner, so that nothing else is refused
\* (ForbiddenException).
MayBeInside(f, j, a) == a = "outcast" /\ f[j] \in {"owner", "admin"}

RoomInit ==
  /\ exists = FALSE
  /\ aff = Nobody
  /\ cluster = Nobody
  /\ th = [t \in Thread |-> NoCall]

-----------------------------------------------------------------------------
(* Faults: what plausible mistakes would make of some of the definitions   *)
(* below.  No specification uses them.                                     *)

\* Who is no longer wanted goes first.
RemovingFirst == <<"none", "owner", "admin", "member", "outcast">>

\* Every old user goes, after the new ones were added.
ReplacementOfAll(l) ==
  [j \in Jid |-> CASE j \in l.old          -> "none"
                   [] j \in l.want \ l.old -> l.list
                   [] OTHER                -> "keep"]

\* Everybody who is not wanted goes, whatever affiliation they have.
ReplacementOfOthers(l) ==
  [j \in Jid |-> CASE j \in l.want \ l.old                 -> l.list
                   [] j \notin l.want /\ aff[j] # "none"   -> "none"
                   [] OTHER                                -> "keep"]

-----------------------------------------------------------------------------
(* createChatRoom and updateChatRoom: createRoom and setRoles.             *)

\* setRoles gives the affiliations that are new, and takes away those that
\* are not carried over.
RoleChanges(f, req) == [j \in Jid |-> IF req[j] = f[j] THEN "keep" ELSE req[j]]

\* The entity names at least one owner, and nobody twice.
Requested == {req \in Affiliations : With(req, "owner") # {}}

\* getChatRoom creates a room that does not exist, with the first owner of
\* the entity as its owner.
Update(t, req) ==
  /\ ThreadAt(t, "idle")
  /\ Unlocked
  /\ \E o \in With(req, "owner") :
       LET f == IF exists THEN aff ELSE [Nobody EXCEPT ![o] = "owner"]
       IN  /\ aff' = f
           /\ Goes(t, [NoCall EXCEPT !.pc = "change", !.op = "update",
                                      !.req = req, !.plan = RoleChanges(f, req)])
  /\ exists' = TRUE
  /\ UNCHANGED cluster

-----------------------------------------------------------------------------
(* replaceAffiliatedUsers, addAffiliatedUsers and deleteAffiliation.       *)

\* getByAffiliation, with its own use of the lock.
Read(t, op, a, want) ==
  /\ ThreadAt(t, "idle")
  /\ Unlocked
  /\ exists
  /\ Goes(t, [NoCall EXCEPT !.pc = "apply", !.op = op, !.list = a,
                             !.want = want, !.old = With(aff, a)])
  /\ UNCHANGED <<exists, aff, cluster>>

\* The new users are added, those of the old that are not wanted go.
Replacement(l) ==
  [j \in Jid |-> CASE j \in l.want \ l.old -> l.list
                   [] j \in l.old \ l.want -> "none"
                   [] OTHER                -> "keep"]
Addition(l) == [j \in Jid |-> IF j \in l.want \ l.old THEN l.list ELSE "keep"]

\* The second use of the lock, when the room may have gone.
Apply(t) ==
  /\ ThreadAt(t, "apply")
  /\ Unlocked
  /\ \/ /\ ~exists
        /\ Goes(t, [NoCall EXCEPT !.pc = "failed"])
     \/ /\ exists /\ th[t].op = "replace"
        /\ Goes(t, [th[t] EXCEPT !.pc = "change", !.plan = Replacement(th[t])])
     \/ /\ exists /\ th[t].op = "add"
        /\ Goes(t, [th[t] EXCEPT !.pc = "change", !.plan = Addition(th[t])])
  /\ UNCHANGED <<exists, aff, cluster>>

\* Of a user who has the affiliation, or of any user (null).
DeleteAffiliation(t, a, j) ==
  /\ ThreadAt(t, "idle")
  /\ Unlocked
  /\ exists
  /\ a # Nil => aff[j] = a
  /\ Goes(t, [NoCall EXCEPT !.pc = "change", !.op = "delete",
                             !.plan = [Unchanged EXCEPT ![j] = "none"]])
  /\ UNCHANGED <<exists, aff, cluster>>

-----------------------------------------------------------------------------
(* The loops over the users, and what follows them.                        *)

\* In setRoles as in the calls for one list, every affiliation has its loop,
\* and they come in this order.
Loops == <<"owner", "admin", "member", "outcast", "none">>
Earlier(a, b) == \E i, k \in 1 .. 5 : i < k /\ Loops[i] = a /\ Loops[k] = b

\* User j is the next in the loop that is running.
Turn(t, j) ==
  LET plan == th[t].plan
  IN  /\ ThreadAt(t, "change")
      /\ plan[j] # "keep"
      /\ \A i \in Jid : ~Earlier(plan[i], plan[j])

Give(t, j) ==
  /\ Turn(t, j)
  /\ ~Conflict(aff, j, th[t].plan[j])
  /\ aff' = [aff EXCEPT ![j] = th[t].plan[j]]
  /\ Goes(t, [th[t] EXCEPT !.plan[j] = "keep"])
  /\ UNCHANGED <<exists, cluster>>

\* An exception leaves the loops; what was done stays, and is not synced.
Refuse(t, j) ==
  /\ Turn(t, j)
  /\ Conflict(aff, j, th[t].plan[j]) \/ MayBeInside(aff, j, th[t].plan[j])
  /\ Goes(t, [NoCall EXCEPT !.pc = "failed"])
  /\ UNCHANGED <<exists, aff, cluster>>

\* syncChatRoom, and the lock is given back.
Sync(t) ==
  /\ ThreadAt(t, "change")
  /\ th[t].plan = Unchanged
  /\ cluster' = aff
  /\ Goes(t, [NoCall EXCEPT !.pc = "done"])
  /\ UNCHANGED <<exists, aff>>

Answer(t) ==
  /\ th[t].pc \in {"done", "failed"}
  /\ Goes(t, NoCall)
  /\ UNCHANGED <<exists, aff, cluster>>

-----------------------------------------------------------------------------
DeleteChatRoom(t) ==
  /\ ThreadAt(t, "idle")
  /\ Unlocked
  /\ exists
  /\ exists' = FALSE
  /\ aff' = Nobody
  /\ cluster' = Nobody
  /\ UNCHANGED th

\* An owner or admin of the room changes an affiliation over XMPP; Openfire
\* takes the lock of the room and syncs it.
Grant(j, a) ==
  /\ Unlocked
  /\ exists
  /\ ~Conflict(aff, j, a)
  /\ aff' = [aff EXCEPT ![j] = a]
  /\ cluster' = aff'
  /\ UNCHANGED <<exists, th>>

-----------------------------------------------------------------------------
Begin(t) ==
  \/ \E req \in Requested : Update(t, req)
  \/ \E op \in {"replace", "add"}, a \in Affiliation, want \in SUBSET Jid :
       Read(t, op, a, want)
  \/ \E a \in Affiliation \cup {Nil}, j \in Jid : DeleteAffiliation(t, a, j)

Proceed(t) ==
  \/ Apply(t)
  \/ \E j \in Jid : Give(t, j) \/ Refuse(t, j)
  \/ Sync(t) \/ Answer(t)

RoomNext ==
  \/ \E t \in Thread : Begin(t) \/ DeleteChatRoom(t) \/ Proceed(t)
  \/ \E j \in Jid, a \in Affiliation \cup {"none"} : Grant(j, a)

RoomSpec == RoomInit /\ [][RoomNext]_roomVars

\* No call is between its first use of the lock and its last.
Quiet == \A t \in Thread : ~ThreadAt(t, "apply") /\ ~ThreadAt(t, "change")

\* The same, when nothing but the end of the room comes between the two uses
\* of the lock of a call.
SerialNext ==
  \/ Quiet /\ \E t \in Thread : Begin(t)
  \/ Quiet /\ \E j \in Jid, a \in Affiliation \cup {"none"} : Grant(j, a)
  \/ \E t \in Thread : DeleteChatRoom(t) \/ Proceed(t)

SerialSpec == RoomInit /\ [][SerialNext]_roomVars
-----------------------------------------------------------------------------
\* Call op of thread t ends its loops in this step.
Ends(t, op) == ThreadAt(t, "change") /\ th[t].op = op /\ ~ThreadAt(t, "change")'

\* Whatever the affiliations are, setRoles reaches the requested ones in every
\* order of its loops, and the last owner never gets in its way.  It is given
\* up only where an owner or admin is to be banned, and by then those who were
\* to be owners, admins and members are.
UpdateExact ==
  [][\A t \in Thread : Ends(t, "update") =>
       \/ ThreadAt(t, "done")' /\ aff' = th[t].req
       \/ /\ ThreadAt(t, "failed")'
          /\ \E j \in Jid : MayBeInside(aff, j, th[t].req[j])
          /\ \A j \in Jid : th[t].req[j] \in {"owner", "admin", "member"} =>
               aff'[j] = th[t].req[j]]_roomVars

\* "This will remove all users as having an affiliation of this type with
\* the room for users that are not in the list of replacements"
\* (MUCRoomController.java:1130-1131): a replacement that succeeds leaves exactly
\* the replacements with the affiliation.
ReplaceExact ==
  [][\A t \in Thread : Ends(t, "replace") /\ ThreadAt(t, "done")'
                          => With(aff', th[t].list) = th[t].want]_roomVars

\* Replacing the list of one affiliation, even when it is given up half-way,
\* takes no other affiliation from a user who is not among the replacements.
OthersKeepAffiliation ==
  [][\A t \in Thread : ThreadAt(t, "change") /\ th[t].op = "replace" =>
       \A j \in Jid \ th[t].want : aff[j] # th[t].list => aff'[j] = aff[j]]_roomVars

\* The owners of a room can be replaced by any others: adding comes first
\* because "some affiliations aren't allowed to be empty"
\* (MUCRoomController.java:1175).
OwnersReplaceable ==
  [][\A t \in Thread : Ends(t, "replace") /\ ThreadAt(t, "failed")' /\ th[t].list = "owner"
                          => th[t].want = {}]_roomVars

\* "Make sure that other cluster nodes see the changes made here"
\* (MUCRoomController.java:1210): between two calls the cluster knows the
\* affiliations.
ClusterInSync == Unlocked => cluster = aff
=============================================================================
