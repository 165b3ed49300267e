---------------------------- MODULE UserAccounts ----------------------------
(***************************************************************************)
(* The accounts, contacts, groups and properties of Openfire's users, as   *)
(* the endpoints of SparkWebAPI change them through UserServiceController: *)
(* register, update and rename (JustMarriedController.changeName), delete, *)
(* and the contacts and groups of the user.  A call is a sequence of       *)
(* writes to Openfire with nothing around them: any of them can fail, a    *)
(* restart can come after any of them, and the users change their contacts *)
(* over XMPP in between.  The calls come one at a time.                    *)
(*                                                                         *)
(* Left out: names, e-mail addresses, passwords, the states of a           *)
(* subscription and contacts that come from a shared group.                *)
(***************************************************************************)
EXTENDS FiniteSets

CONSTANTS Name,  (* user names                                             *)
          Group, (* group names                                            *)
          Key,   (* user properties                                        *)
          None   (* null                                                   *)

ASSUME AccountsAssumption == None \notin Name

VARIABLES
  accounts, (* the names that are users                                    *)
  contacts, (* the names on the roster kept for each name                  *)
  created,  (* the groups that exist                                       *)
  members,  (* Group.getMembers                                            *)
  admins,   (* Group.getAdmins                                             *)
  props,    (* the user properties that have a value                       *)
  call      (* the local variables of the call that is running             *)

groupLists == <<created, members, admins>>
vars == <<accounts, contacts, created, members, admins, props, call>>

\* Where a call is, the user it works on and the name he is to get, the
\* roster items and groups it still has to handle, the item at hand, all of
\* its groups, and the properties of its entity.
Call == [pc: {"idle", "roster", "item", "other", "otherItem", "properties", "groups",
              "vcard", "delete", "clear", "put", "deleteRoster", "collect", "enrol",
              "withdraw"},
         user: Name \cup {None}, new: Name \cup {None}, items: SUBSET Name,
         item: Name \cup {None}, left: SUBSET Group, all: SUBSET Group, keys: SUBSET Key]
Idle == [pc |-> "idle", user |-> None, new |-> None, items |-> {},
         item |-> None, left |-> {}, all |-> {}, keys |-> {}]

TypeOK ==
  /\ accounts \subseteq Name
  /\ contacts \in [Name -> SUBSET Name]
  /\ created \subseteq Group
  /\ members \in [Group -> SUBSET Name]
  /\ admins \in [Group -> SUBSET Name]
  /\ props \in [Name -> SUBSET Key]
  /\ call \in Call
  /\ \A g \in Group : members[g] \cap admins[g] = {}
  /\ \A g \in Group \ created : members[g] \cup admins[g] = {}

At(pc) == call.pc = pc
Becomes(l) == call' = l
Return == Becomes(Idle)

\* Group.isUser.
UsersOf(g) == members[g] \cup admins[g]

\* group.getMembers().add(u): an admin becomes a member.
Enrolled(g, u) == /\ members' = [members EXCEPT ![g] = @ \cup {u}]
                  /\ admins' = [admins EXCEPT ![g] = @ \ {u}]

\* UserManager.deleteUser: the account and its properties go, and Openfire's
\* groups forget the user.  Rosters are none of its business.
Deleted(u) == /\ accounts' = accounts \ {u}
              /\ props' = [props EXCEPT ![u] = {}]
              /\ members' = [g \in Group |-> members[g] \ {u}]
              /\ admins' = [g \in Group |-> admins[g] \ {u}]

Init ==
  /\ accounts \in SUBSET Name
  /\ contacts \in [Name -> SUBSET Name]
  /\ \A u \in Name : contacts[u] # {} => u \in accounts
  /\ created = {}
  /\ members = [g \in Group |-> {}]
  /\ admins = [g \in Group |-> {}]
  /\ props = [u \in Name |-> IF u \in accounts THEN Key ELSE {}]
  /\ call = Idle

-----------------------------------------------------------------------------
(* Faults: what plausible mistakes would make of some of the definitions   *)
(* below.  No specification uses them.                                     *)

\* The contact's item is renamed, not copied.
RenameForOther ==
  /\ At("other")
  /\ contacts' = [contacts EXCEPT ![call.item] = (@ \ {call.user}) \cup {call.new}]
  /\ Becomes([call EXCEPT !.pc = "otherItem", !.item = None, !.items = @ \ {call.item}])
  /\ UNCHANGED <<accounts, groupLists, props>>

\* The admins of the group are forgotten.
CopyToGroupOfMembers(g) ==
  /\ At("groups")
  /\ g \in call.left
  /\ \/ call.user \in members[g] /\ Enrolled(g, call.new)
     \/ call.user \notin members[g] /\ UNCHANGED <<members, admins>>
  /\ Becomes([call EXCEPT !.left = @ \ {g}])
  /\ UNCHANGED <<accounts, contacts, created, props>>

\* The membership moves from the old user to the new one.
MoveToGroup(g) ==
  /\ At("groups")
  /\ g \in call.left
  /\ members' = [members EXCEPT ![g] = IF call.user \in @
                                       THEN (@ \ {call.user}) \cup {call.new} ELSE @]
  /\ Becomes([call EXCEPT !.left = @ \ {g}])
  /\ UNCHANGED <<accounts, contacts, created, admins, props>>

\* An admin of the group is put on the other list as well.
EnrolTwice(g) ==
  /\ At("enrol")
  /\ g \in call.left
  /\ members' = [members EXCEPT ![g] = @ \cup {call.user}]
  /\ Becomes([call EXCEPT !.left = @ \ {g}])
  /\ UNCHANGED <<accounts, contacts, created, admins, props>>

-----------------------------------------------------------------------------
(* registerUser.                                                           *)

Register(u) ==
  /\ At("idle")
  /\ u \notin accounts
  /\ accounts' = accounts \cup {u}
  /\ UNCHANGED <<contacts, groupLists, props, call>>

-----------------------------------------------------------------------------
(* updateUser with another name in the entity: changeName, addProperties.  *)

\* userManager.createUser; nothing changes when there is no such user or the
\* new name is taken.
Rename(u, v, keys) ==
  /\ At("idle")
  /\ u \in accounts
  /\ v \notin accounts
  /\ accounts' = accounts \cup {v}
  /\ Becomes([Idle EXCEPT !.pc = "roster", !.user = u, !.new = v,
                          !.items = contacts[u], !.keys = keys])
  /\ UNCHANGED <<contacts, groupLists, props>>

\* createRosterItem for the new user: an item he has already ends the call.
CreateItem(j) ==
  /\ At("roster")
  /\ j \in call.items
  /\ \/ /\ j \in contacts[call.new]
        /\ Return
        /\ UNCHANGED contacts
     \/ /\ j \notin contacts[call.new]
        /\ contacts' = [contacts EXCEPT ![call.new] = @ \cup {j}]
        /\ Becomes([call EXCEPT !.pc = "item", !.item = j])
  /\ UNCHANGED <<accounts, groupLists, props>>

\* updateRosterItem: the subscription of the item.
UpdateItem ==
  /\ At("item")
  /\ Becomes([call EXCEPT !.pc = "other"])
  /\ UNCHANGED <<accounts, contacts, groupLists, props>>

\* addNewUserToOthersRoster: the contact, if a user here, gets an item for
\* the new name.  The call ends when the contact does not have the old name,
\* or has the new one already.  When the contact is the old user himself the
\* loop may or may not see the item it has just added.
AddToOther ==
  /\ At("other")
  /\ LET j == call.item
         more == IF j = call.user THEN {{}, {call.new}} ELSE {{}}
     IN  \/ /\ j \notin accounts
            /\ Becomes([call EXCEPT !.pc = "roster", !.item = None, !.items = @ \ {j}])
            /\ UNCHANGED contacts
         \/ /\ j \in accounts
            /\ call.user \notin contacts[j] \/ call.new \in contacts[j]
            /\ Return
            /\ UNCHANGED contacts
         \/ /\ j \in accounts
            /\ call.user \in contacts[j] /\ call.new \notin contacts[j]
            /\ contacts' = [contacts EXCEPT ![j] = @ \cup {call.new}]
            /\ \E seen \in more :
                 Becomes([call EXCEPT !.pc = "otherItem", !.item = None,
                                      !.items = (@ \ {j}) \cup seen])
  /\ UNCHANGED <<accounts, groupLists, props>>

\* updateRosterItem of the contact's roster.
UpdateOther ==
  /\ At("otherItem")
  /\ Becomes([call EXCEPT !.pc = "roster"])
  /\ UNCHANGED <<accounts, contacts, groupLists, props>>

RosterCopied ==
  /\ At("roster")
  /\ call.items = {}
  /\ Becomes([call EXCEPT !.pc = "properties"])
  /\ UNCHANGED <<accounts, contacts, groupLists, props>>

CopyProperties ==
  /\ At("properties")
  /\ props' = [props EXCEPT ![call.new] = @ \cup props[call.user]]
  /\ Becomes([call EXCEPT !.pc = "groups", !.left = created])
  /\ UNCHANGED <<accounts, contacts, groupLists>>

\* The new user becomes a member wherever the old one is member or admin.
CopyToGroup(g) ==
  /\ At("groups")
  /\ g \in call.left
  /\ \/ call.user \in UsersOf(g) /\ Enrolled(g, call.new)
     \/ call.user \notin UsersOf(g) /\ UNCHANGED <<members, admins>>
  /\ Becomes([call EXCEPT !.left = @ \ {g}])
  /\ UNCHANGED <<accounts, contacts, created, props>>

GroupsCopied ==
  /\ At("groups")
  /\ call.left = {}
  /\ Becomes([call EXCEPT !.pc = "vcard"])
  /\ UNCHANGED <<accounts, contacts, groupLists, props>>

\* copyVCard, which may be refused.
CopyVCard ==
  /\ At("vcard")
  /\ \/ Becomes([call EXCEPT !.pc = "delete"])
     \/ Return
  /\ UNCHANGED <<accounts, contacts, groupLists, props>>

\* deleteUser of JustMarriedController: the roster stays.
DeleteOld ==
  /\ At("delete")
  /\ Deleted(call.user)
  /\ Becomes([call EXCEPT !.pc = "clear", !.user = call.new])
  /\ UNCHANGED <<contacts, created>>

-----------------------------------------------------------------------------
(* updateUser under the same name, and addProperties.                      *)

UpdateUser(u, keys) ==
  /\ At("idle")
  /\ u \in accounts
  /\ Becomes([Idle EXCEPT !.pc = "clear", !.user = u, !.keys = keys])
  /\ UNCHANGED <<accounts, contacts, groupLists, props>>

ClearProperties ==
  /\ At("clear")
  /\ props' = [props EXCEPT ![call.user] = {}]
  /\ Becomes([call EXCEPT !.pc = "put"])
  /\ UNCHANGED <<accounts, contacts, groupLists>>

PutProperty ==
  /\ At("put")
  /\ \/ /\ call.keys = {} /\ Return
        /\ UNCHANGED props
     \/ \E k \in call.keys :
          /\ props' = [props EXCEPT ![call.user] = @ \cup {k}]
          /\ Becomes([call EXCEPT !.keys = @ \ {k}])
  /\ UNCHANGED <<accounts, contacts, groupLists>>

-----------------------------------------------------------------------------
(* deleteUser of UserServiceController.                                    *)

DeleteUser(u) ==
  /\ At("idle")
  /\ u \in accounts
  /\ Deleted(u)
  /\ Becomes([Idle EXCEPT !.pc = "deleteRoster", !.user = u])
  /\ UNCHANGED <<contacts, created>>

\* RosterManager.deleteRoster: the items of the user, and the items other
\* users have for him.
DeleteRoster ==
  /\ At("deleteRoster")
  /\ contacts' = [u \in Name |-> IF u = call.user THEN {}
                                 ELSE contacts[u] \ {call.user}]
  /\ Return
  /\ UNCHANGED <<accounts, groupLists, props>>

-----------------------------------------------------------------------------
(* addUserToGroups (addUserToGroup is the case of one group) and           *)
(* deleteUserFromGroups.  Neither looks whether the user exists: the token *)
(* of a deleted user still names him.                                      *)

AddToGroups(u, gs) ==
  /\ At("idle")
  /\ Becomes([Idle EXCEPT !.pc = "collect", !.user = u, !.left = gs, !.all = gs])
  /\ UNCHANGED <<accounts, contacts, groupLists, props>>

\* getGroup, or createGroup, which may fail, having created the group or not.
Collect(g) ==
  /\ At("collect")
  /\ g \in call.left
  /\ \/ /\ Becomes([call EXCEPT !.left = @ \ {g}])
        /\ created' = created \cup {g}
     \/ /\ g \notin created
        /\ Return
        /\ created' \in {created, created \cup {g}}
  /\ UNCHANGED <<accounts, contacts, members, admins, props>>

Collected ==
  /\ At("collect")
  /\ call.left = {}
  /\ Becomes([call EXCEPT !.pc = "enrol", !.left = call.all])
  /\ UNCHANGED <<accounts, contacts, groupLists, props>>

Enrol(g) ==
  /\ At("enrol")
  /\ g \in call.left
  /\ Enrolled(g, call.user)
  /\ Becomes([call EXCEPT !.left = @ \ {g}])
  /\ UNCHANGED <<accounts, contacts, created, props>>

DeleteFromGroups(u, gs) ==
  /\ At("idle")
  /\ Becomes([Idle EXCEPT !.pc = "withdraw", !.user = u, !.left = gs, !.all = gs])
  /\ UNCHANGED <<accounts, contacts, groupLists, props>>

\* A group that does not exist ends the call; the list of the admins is not
\* looked at.
Withdraw(g) ==
  /\ At("withdraw")
  /\ g \in call.left
  /\ \/ /\ g \notin created
        /\ Return
        /\ UNCHANGED members
     \/ /\ g \in created
        /\ members' = [members EXCEPT ![g] = @ \ {call.user}]
        /\ Becomes([call EXCEPT !.left = @ \ {g}])
  /\ UNCHANGED <<accounts, contacts, created, admins, props>>

GroupsDone ==
  /\ call.pc \in {"enrol", "withdraw"}
  /\ call.left = {}
  /\ Return
  /\ UNCHANGED <<accounts, contacts, groupLists, props>>

-----------------------------------------------------------------------------
(* addRosterItem and deleteRosterItem, or the same over XMPP; what the     *)
(* admins of Openfire do; failures.                                        *)

Befriend(u, j) ==
  /\ u \in accounts
  /\ j \notin contacts[u]
  /\ contacts' = [contacts EXCEPT ![u] = @ \cup {j}]
  /\ UNCHANGED <<accounts, groupLists, props, call>>

Unfriend(u, j) ==
  /\ u \in accounts
  /\ j \in contacts[u]
  /\ contacts' = [contacts EXCEPT ![u] = @ \ {j}]
  /\ UNCHANGED <<accounts, groupLists, props, call>>

Appoint(g, u) ==
  /\ At("idle")
  /\ g \in created
  /\ u \in members[g]
  /\ members' = [members EXCEPT ![g] = @ \ {u}]
  /\ admins' = [admins EXCEPT ![g] = @ \cup {u}]
  /\ UNCHANGED <<accounts, contacts, created, props, call>>

\* A write to the database throws, or the server is restarted.
Abort ==
  /\ ~At("idle")
  /\ Return
  /\ UNCHANGED <<accounts, contacts, groupLists, props>>
-----------------------------------------------------------------------------
\* The users the running call works on leave their contacts alone, and
\* nobody drops a contact that is just being made for the new name.
MayChange(u, j) == /\ u \notin {call.user, call.new}
                   /\ j # call.new

Request ==
  \/ \E u \in Name : Register(u) \/ DeleteUser(u)
  \/ \E u, v \in Name, keys \in SUBSET Key : Rename(u, v, keys)
  \/ \E u \in Name, keys \in SUBSET Key : UpdateUser(u, keys)
  \/ \E u \in Name, gs \in SUBSET Group : AddToGroups(u, gs) \/ DeleteFromGroups(u, gs)

Continue ==
  \/ \E j \in Name : CreateItem(j)
  \/ UpdateItem \/ AddToOther \/ UpdateOther
  \/ RosterCopied \/ CopyProperties
  \/ \E g \in Group : CopyToGroup(g)
  \/ GroupsCopied \/ CopyVCard \/ DeleteOld
  \/ ClearProperties \/ PutProperty
  \/ DeleteRoster
  \/ \E g \in Group : Collect(g) \/ Enrol(g) \/ Withdraw(g)
  \/ Collected \/ GroupsDone

Users ==
  \/ \E u, j \in Name : MayChange(u, j) /\ (Befriend(u, j) \/ Unfriend(u, j))
  \/ \E g \in Group, u \in Name : Appoint(g, u)

Next == Request \/ Continue \/ Users \/ Abort

Spec == Init /\ [][Next]_vars
-----------------------------------------------------------------------------
CopyingRoster == call.pc \in {"roster", "item", "other", "otherItem"}
Renaming == CopyingRoster \/ call.pc \in {"properties", "groups", "vcard", "delete"}

\* The standing of user u in group g.
Standing(u, g) == <<u \in members[g], u \in admins[g]>>

\* A rename that fails, at whatever write and for whatever reason, has not
\* cost the user anything: until the account is deleted as the last step it
\* keeps its contacts, its standing in every group and its properties.
OldUserIntact ==
  [][Renaming /\ ~At("delete") =>
       \A old \in {call.user} :
         /\ old \in accounts'
         /\ contacts[old] \subseteq contacts'[old]
         /\ \A g \in Group : Standing(old, g)' = Standing(old, g)
         /\ props'[old] = props[old]]_vars

\* The old account is deleted only when the new one is ready to take its
\* place: it has the contacts, the users among them have the new name, and
\* no group has lost a user, though contacts changed theirs all the while.
RenameComplete ==
  [][At("delete") /\ call.user \notin accounts' =>
       LET old == call.user
           new == call.new
       IN  /\ contacts[old] \ {new} \subseteq contacts[new]
           /\ \A j \in contacts[old] \cap accounts : j # new => new \in contacts[j]
           /\ \A g \in Group : old \in UsersOf(g) => new \in UsersOf(g)]_vars

\* A rename, even one that fails half-way, takes nothing from anybody else
\* and gives nobody anything but the new name as a contact.
BystandersUntouched ==
  [][Renaming /\ call' # call =>
       \A u \in Name \ {call.user, call.new} :
         /\ u \in accounts => u \in accounts'
         /\ contacts[u] \subseteq contacts'[u]
         /\ contacts'[u] \subseteq contacts[u] \cup {call.new}
         /\ \A g \in Group : Standing(u, g)' = Standing(u, g)]_vars
=============================================================================
