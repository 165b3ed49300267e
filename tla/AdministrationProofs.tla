------------------------ MODULE AdministrationProofs ------------------------
(***************************************************************************)
(* What the REST calls that administer users and rooms do, for any number  *)
(* of them.                                                                *)
(*                                                                         *)
(* Accounts: what a rename does to users, groups and properties: which     *)
(* failure costs the user nothing, what the new account has when the old   *)
(* one is deleted, and what it leaves alone.  Rooms: which affiliations a  *)
(* call leaves behind, and whom it spares.                                 *)
(***************************************************************************)
EXTENDS UserAccounts, RoomAffiliations, TLAPS

\* What a call knows about the user and the groups it works on.
CallOK ==
  /\ ~At("idle") => call.user \in Name
  /\ Renaming => /\ call.user \in accounts /\ call.new \in accounts
                 /\ call.user # call.new
  /\ At("item") \/ At("other") => call.item \in contacts[call.new]
  /\ At("collect") => call.all \ call.left \subseteq created
  /\ At("enrol") => call.left \subseteq created

\* The new user has every contact of the old one that is done with, and that
\* contact, if a user here, has the new name.
Copied(j) ==
  /\ j \in contacts[call.new]
  /\ j \in accounts => call.new \in contacts[j]

RosterDone ==
  Renaming =>
    /\ ~CopyingRoster => call.items = {}
    /\ \A j \in contacts[call.user] \ (call.items \cup {call.new}) : Copied(j)

\* The groups that are done with have the new user if they have the old one.
GroupsJoined ==
  At("groups") \/ At("vcard") \/ At("delete") =>
    \A g \in Group :
      \/ At("groups") /\ g \in call.left
      \/ call.user \in UsersOf(g) => call.new \in UsersOf(g)

IInv == TypeOK /\ CallOK /\ RosterDone /\ GroupsJoined

-----------------------------------------------------------------------------
Pc == {"idle", "roster", "item", "other", "otherItem", "properties", "groups", "vcard", "delete",
       "clear", "put", "deleteRoster", "collect", "enrol", "withdraw"}

LEMMA IdleIs == Idle \in Call /\ Idle.pc = "idle"
BY DEF Idle, Call

LEMMA UpdateBegins ==
  ASSUME NEW u \in Name, NEW ks \in SUBSET Key
  PROVE  LET m == [Idle EXCEPT !.pc = "clear", !.user = u, !.keys = ks]
         IN  m \in Call /\ m.pc = "clear" /\ m.user = u
BY DEF Idle, Call

LEMMA DeleteBegins ==
  ASSUME NEW u \in Name
  PROVE  LET m == [Idle EXCEPT !.pc = "deleteRoster", !.user = u]
         IN  m \in Call /\ m.pc = "deleteRoster" /\ m.user = u
BY DEF Idle, Call

LEMMA SetPc ==
  ASSUME NEW l \in Call, NEW s \in Pc
  PROVE  LET m == [l EXCEPT !.pc = s]
         IN  /\ m \in Call /\ m.pc = s /\ m.user = l.user /\ m.new = l.new
             /\ m.items = l.items /\ m.left = l.left
BY DEF Call, Pc

LEMMA OnlyLeft ==
  ASSUME NEW l \in Call, NEW gs \in SUBSET Group
  PROVE  LET m == [l EXCEPT !.left = gs]
         IN  /\ m \in Call /\ m.pc = l.pc /\ m.user = l.user /\ m.new = l.new
             /\ m.items = l.items /\ m.left = gs /\ m.all = l.all
BY DEF Call

LEMMA SetUser ==
  ASSUME NEW l \in Call, NEW u \in Name
  PROVE  LET m == [l EXCEPT !.pc = "clear", !.user = u]
         IN  m \in Call /\ m.pc = "clear" /\ m.user = u
BY DEF Call

LEMMA DropKey ==
  ASSUME NEW l \in Call, NEW k
  PROVE  LET m == [l EXCEPT !.keys = @ \ {k}]
         IN  m \in Call /\ m.pc = l.pc /\ m.user = l.user
BY DEF Call

-----------------------------------------------------------------------------
\* A step of copyRoster.
RosterStep ==
  (\E j \in Name : CreateItem(j)) \/ UpdateItem \/ AddToOther \/ UpdateOther

\* It adds contacts only: items of the old user to the new one, and the new
\* user to them.  What is done with is copied.
LEMMA RosterStepIs ==
  ASSUME IInv, RosterStep
  PROVE  /\ contacts' \in [Name -> SUBSET Name]
         /\ \A u \in Name :
              /\ contacts[u] \subseteq contacts'[u]
              /\ u # call.new => contacts'[u] \subseteq contacts[u] \cup {call.new}
         /\ UNCHANGED <<accounts, created, members, admins, props>>
         /\ \/ call' = Idle
            \/ /\ call' \in Call
               /\ call'.pc \in {"roster", "item", "other", "otherItem"}
               /\ call'.user = call.user /\ call'.new = call.new
               /\ call'.pc \in {"item", "other"} => call'.item \in contacts'[call.new]
               /\ \A i \in call.items \ call'.items :
                    /\ i \in contacts'[call.new]
                    /\ i \in accounts => call.new \in contacts'[i]
<1>1. /\ contacts \in [Name -> SUBSET Name] /\ call \in Call /\ Renaming
      /\ call.new \in Name /\ call.user \in Name /\ call.items \in SUBSET Name
      /\ call.user # call.new
  BY DEF IInv, TypeOK, CallOK, RosterStep, CreateItem, UpdateItem, AddToOther,
     UpdateOther, At, Renaming, CopyingRoster, Call
<1>2. UNCHANGED <<accounts, created, members, admins, props>>
  BY DEF RosterStep, CreateItem, UpdateItem, AddToOther, UpdateOther, groupLists
<1>3. CASE UNCHANGED contacts /\ call' = Idle
  BY <1>1, <1>2, <1>3
<1>4. ASSUME NEW j \in Name, CreateItem(j), call' # Idle
      PROVE  /\ contacts' = [contacts EXCEPT ![call.new] = @ \cup {j}]
             /\ call' \in Call /\ call'.pc = "item" /\ call'.item = j
             /\ call'.user = call.user /\ call'.new = call.new
             /\ call'.items = call.items
  <2>1. /\ contacts' = [contacts EXCEPT ![call.new] = @ \cup {j}]
        /\ call' = [call EXCEPT !.pc = "item", !.item = j]
    BY <1>4 DEF CreateItem, Return, Becomes
  <2>2. QED
    BY <1>1, <2>1 DEF Call
<1>5. CASE \E j \in Name : CreateItem(j)
  <2>1. PICK j \in Name : CreateItem(j)
    BY <1>5
  <2>2. CASE call' = Idle
    BY <1>1, <1>2, <1>3, <2>1, <2>2, IdleIs DEF CreateItem, Return, Becomes
  <2>3. CASE call' # Idle
    BY <1>1, <1>2, <1>4, <2>1, <2>3
  <2>4. QED
    BY <2>2, <2>3
<1>6. CASE UpdateItem
  <2>1. call' = [call EXCEPT !.pc = "other"] /\ contacts' = contacts /\ call.pc = "item"
    BY <1>6 DEF UpdateItem, Becomes, At
  <2>2. /\ call' \in Call /\ call'.pc = "other" /\ call'.user = call.user
        /\ call'.new = call.new /\ call'.item = call.item /\ call'.items = call.items
    BY <1>1, <2>1 DEF Call
  <2>3. call.item \in contacts[call.new]
    BY <2>1 DEF IInv, CallOK, At
  <2>4. QED
    BY <1>1, <1>2, <2>1, <2>2, <2>3
<1>7. CASE UpdateOther
  <2>1. call' = [call EXCEPT !.pc = "roster"] /\ contacts' = contacts
    BY <1>7 DEF UpdateOther, Becomes
  <2>2. /\ call' \in Call /\ call'.pc = "roster" /\ call'.user = call.user
        /\ call'.new = call.new /\ call'.items = call.items
    BY <1>1, <2>1 DEF Call
  <2>3. QED
    BY <1>1, <1>2, <2>1, <2>2
<1>8. CASE AddToOther
  <2>1. PICK j : j = call.item
    OBVIOUS
  <2>2. j \in contacts[call.new] /\ j \in Name
    BY <1>1, <1>8, <2>1 DEF AddToOther, IInv, CallOK, At
  <2>3. CASE UNCHANGED contacts /\ call' = Idle
    BY <1>3, <2>3
  <2>4. CASE /\ j \notin accounts /\ UNCHANGED contacts
             /\ call' = [call EXCEPT !.pc = "roster", !.item = None, !.items = @ \ {j}]
    <3>1. /\ call' \in Call /\ call'.pc = "roster" /\ call'.user = call.user
          /\ call'.new = call.new /\ call'.items = call.items \ {j}
      <4>1. PICK is \in SUBSET Name : is = call.items \ {j}
        BY <1>1
      <4>2. call' = [call EXCEPT !.pc = "roster", !.item = None, !.items = is]
        BY <2>4, <4>1
      <4>3. QED
        BY <1>1, <4>1, <4>2 DEF Call
    <3>2. QED
      BY <1>1, <1>2, <2>2, <2>4, <3>1
  <2>5. ASSUME NEW seen \in SUBSET {call.new},
               contacts' = [contacts EXCEPT ![j] = @ \cup {call.new}],
               call' = [call EXCEPT !.pc = "otherItem", !.item = None,
                                    !.items = (@ \ {j}) \cup seen]
        PROVE  /\ call' \in Call /\ call'.pc = "otherItem" /\ call'.user = call.user
               /\ call'.new = call.new /\ call'.items = (call.items \ {j}) \cup seen
    <3>1. PICK is \in SUBSET Name : is = (call.items \ {j}) \cup seen
      BY <1>1
    <3>2. call' = [call EXCEPT !.pc = "otherItem", !.item = None, !.items = is]
      BY <2>5, <3>1
    <3>3. QED
      BY <1>1, <3>1, <3>2 DEF Call
  <2>6. \/ UNCHANGED contacts /\ call' = Idle
        \/ /\ j \notin accounts /\ UNCHANGED contacts
           /\ call' = [call EXCEPT !.pc = "roster", !.item = None, !.items = @ \ {j}]
        \/ /\ contacts' = [contacts EXCEPT ![j] = @ \cup {call.new}]
           /\ \E seen \in SUBSET {call.new} :
                call' = [call EXCEPT !.pc = "otherItem", !.item = None,
                                     !.items = (@ \ {j}) \cup seen]
    <3>1. \A P \in {{{}, {call.new}}, {{}}} : P \subseteq SUBSET {call.new}
      OBVIOUS
    <3>2. QED
      BY <1>8, <2>1, <3>1 DEF AddToOther, Return, Becomes
  <2>7. CASE /\ contacts' = [contacts EXCEPT ![j] = @ \cup {call.new}]
             /\ \E seen \in SUBSET {call.new} :
                  call' = [call EXCEPT !.pc = "otherItem", !.item = None,
                                       !.items = (@ \ {j}) \cup seen]
    <3>1. /\ contacts' \in [Name -> SUBSET Name]
          /\ contacts'[j] = contacts[j] \cup {call.new}
          /\ \A u \in Name \ {j} : contacts'[u] = contacts[u]
      BY <1>1, <2>2, <2>7
    <3>2. /\ \A u \in Name : contacts[u] \subseteq contacts'[u]
          /\ \A u \in Name :
               u # call.new => contacts'[u] \subseteq contacts[u] \cup {call.new}
      BY <1>1, <2>2, <3>1
    <3>3. PICK seen \in SUBSET {call.new} :
            call' = [call EXCEPT !.pc = "otherItem", !.item = None,
                                 !.items = (@ \ {j}) \cup seen]
      BY <2>7
    <3>4. /\ call' \in Call /\ call'.pc = "otherItem" /\ call'.user = call.user
          /\ call'.new = call.new /\ call'.items = (call.items \ {j}) \cup seen
      BY <2>5, <2>7, <3>3
    <3>5. \A i \in call.items \ call'.items : i = j
      BY <3>4
    <3>6. j \in contacts'[call.new] /\ call.new \in contacts'[j]
      BY <1>1, <2>2, <3>1, <3>2
    <3>7. QED
      BY <1>2, <3>1, <3>2, <3>4, <3>5, <3>6
  <2>8. QED
    BY <2>3, <2>4, <2>6, <2>7
<1>9. QED
  BY <1>5, <1>6, <1>7, <1>8 DEF RosterStep

\* Steps of one group of names each.
LEMMA EnrolledIs ==
  ASSUME TypeOK, NEW g \in created, NEW u \in Name, Enrolled(g, u), created' = created
  PROVE  /\ members' \in [Group -> SUBSET Name] /\ admins' \in [Group -> SUBSET Name]
         /\ \A h \in Group : members'[h] \cap admins'[h] = {}
         /\ \A h \in Group \ created : members'[h] \cup admins'[h] = {}
         /\ u \in members'[g]
         /\ \A h \in Group, v \in Name :
              v # u \/ h # g => /\ v \in members'[h] <=> v \in members[h]
                                /\ v \in admins'[h] <=> v \in admins[h]
<1>1. /\ members \in [Group -> SUBSET Name] /\ admins \in [Group -> SUBSET Name]
      /\ g \in Group
  BY DEF TypeOK
<1>2. /\ members' \in [Group -> SUBSET Name]
      /\ members'[g] = members[g] \cup {u}
      /\ \A h \in Group \ {g} : members'[h] = members[h]
  BY <1>1 DEF Enrolled
<1>3. /\ admins' \in [Group -> SUBSET Name]
      /\ admins'[g] = admins[g] \ {u}
      /\ \A h \in Group \ {g} : admins'[h] = admins[h]
  BY <1>1 DEF Enrolled
<1>4. \A h \in Group : members'[h] \cap admins'[h] = {}
  BY <1>2, <1>3 DEF TypeOK
<1>5. \A h \in Group \ created : members'[h] \cup admins'[h] = {}
  BY <1>2, <1>3 DEF TypeOK
<1>6. QED
  BY <1>2, <1>3, <1>4, <1>5

LEMMA DeletedIs ==
  ASSUME TypeOK, NEW u \in Name, Deleted(u), created' = created
  PROVE  /\ accounts' = accounts \ {u}
         /\ accounts' \subseteq Name
         /\ props' \in [Name -> SUBSET Key]
         /\ members' \in [Group -> SUBSET Name] /\ admins' \in [Group -> SUBSET Name]
         /\ \A h \in Group : members'[h] \cap admins'[h] = {}
         /\ \A h \in Group \ created : members'[h] \cup admins'[h] = {}
         /\ \A h \in Group, v \in Name \ {u} : Standing(v, h)' = Standing(v, h)
<1>1. \A h \in Group : members'[h] = members[h] \ {u} /\ admins'[h] = admins[h] \ {u}
  BY DEF Deleted
<1>2. /\ members' \in [Group -> SUBSET Name] /\ admins' \in [Group -> SUBSET Name]
      /\ props' \in [Name -> SUBSET Key] /\ accounts' \subseteq Name
  BY DEF Deleted, TypeOK
<1>3. /\ \A h \in Group : members'[h] \cap admins'[h] = {}
      /\ \A h \in Group \ created : members'[h] \cup admins'[h] = {}
  BY <1>1 DEF TypeOK
<1>4. QED
  BY <1>1, <1>2, <1>3 DEF Deleted, Standing

-----------------------------------------------------------------------------
\* A call that ends leaves nothing to know.
LEMMA EndKeeps ==
  ASSUME TypeOK', call' = Idle
  PROVE  IInv'
BY IdleIs DEF IInv, CallOK, RosterDone, GroupsJoined, Renaming, CopyingRoster, At

\* The calls that are no rename.
LEMMA OtherCall ==
  ASSUME TypeOK', call'.user \in Name,
         call'.pc \in {"clear", "put", "deleteRoster", "collect", "enrol", "withdraw"},
         call'.pc = "collect" => call'.all \ call'.left \subseteq created',
         call'.pc = "enrol" => call'.left \subseteq created'
  PROVE  IInv'
BY DEF IInv, CallOK, RosterDone, GroupsJoined, Renaming, CopyingRoster, At

-----------------------------------------------------------------------------
\* Where a call is decides what a step of it may be.
LEMMA InitHolds == Init => IInv
<1> SUFFICES ASSUME Init PROVE IInv
  OBVIOUS
<1>1. TypeOK
  BY IdleIs DEF Init, TypeOK
<1>2. QED
  BY <1>1, IdleIs DEF Init, IInv, CallOK, RosterDone, GroupsJoined, Renaming, CopyingRoster, At

LEMMA RenameKeeps ==
  ASSUME IInv, NEW u \in Name, NEW v \in Name, NEW ks \in SUBSET Key, Rename(u, v, ks)
  PROVE  IInv'
<1>1. /\ call' \in Call /\ call'.pc = "roster" /\ call'.user = u /\ call'.new = v
      /\ call'.items = contacts[u]
  <2>1. contacts[u] \in SUBSET Name
    BY DEF IInv, TypeOK
  <2>2. call' = [Idle EXCEPT !.pc = "roster", !.user = u, !.new = v,
                             !.items = contacts[u], !.keys = ks]
    BY DEF Rename, Becomes
  <2>3. QED
    BY <2>1, <2>2 DEF Idle, Call
<1>2. u \in accounts' /\ v \in accounts' /\ u # v /\ contacts' = contacts
  BY DEF Rename
<1>3. TypeOK'
  BY <1>1 DEF Rename, IInv, TypeOK, groupLists
<1>4. RosterDone'
  BY <1>1, <1>2 DEF RosterDone, CopyingRoster, At
<1>5. QED
  BY <1>1, <1>2, <1>3, <1>4 DEF IInv, CallOK, GroupsJoined, Renaming, CopyingRoster, At

LEMMA RosterStepKeeps ==
  ASSUME IInv, RosterStep
  PROVE  IInv'
<1>1. /\ contacts' \in [Name -> SUBSET Name]
      /\ \A u \in Name : contacts[u] \subseteq contacts'[u]
      /\ \A u \in Name : u # call.new => contacts'[u] \subseteq contacts[u] \cup {call.new}
      /\ UNCHANGED <<accounts, created, members, admins, props>>
  BY RosterStepIs
<1>2. CASE call' = Idle
  <2>1. TypeOK'
    BY <1>1, <1>2, IdleIs DEF IInv, TypeOK
  <2>2. QED
    BY <1>2, <2>1, EndKeeps
<1>3. ASSUME call' \in Call,
             call'.pc \in {"roster", "item", "other", "otherItem"},
             call'.user = call.user, call'.new = call.new,
             call'.pc \in {"item", "other"} => call'.item \in contacts'[call.new],
             \A i \in call.items \ call'.items :
               /\ i \in contacts'[call.new]
               /\ i \in accounts => call.new \in contacts'[i]
      PROVE  IInv'
  <2>1. /\ call \in Call /\ call.user \in accounts /\ Renaming
        /\ call.new \in accounts /\ call.user # call.new
        /\ call.user \in Name /\ call.new \in Name
    BY DEF IInv, TypeOK, CallOK, Renaming, CopyingRoster, RosterStep, CreateItem,
       UpdateItem, AddToOther, UpdateOther, At
  <2>2. TypeOK'
    BY <1>1, <1>3 DEF IInv, TypeOK
  <2>3. ASSUME NEW i \in contacts'[call.user] \ (call'.items \cup {call.new})
        PROVE  i \in contacts'[call.new] /\ (i \in accounts => call.new \in contacts'[i])
    <3>1. i \in Name /\ i \in contacts[call.user]
      BY <1>1, <2>1, <2>3
    <3>2. CASE i \in call.items
      BY <1>3, <2>3, <3>2
    <3>3. CASE i \notin call.items
      <4>1. Copied(i)
        BY <2>1, <2>3, <3>1, <3>3 DEF IInv, RosterDone
      <4>2. QED
        BY <1>1, <2>1, <3>1, <4>1 DEF Copied
    <3>4. QED
      BY <3>2, <3>3
  <2>4. RosterDone'
    BY <1>1, <1>3, <2>3 DEF RosterDone, Copied, CopyingRoster
  <2>5. CallOK'
    BY <1>1, <1>3, <2>1 DEF CallOK, At
  <2>6. GroupsJoined'
    BY <1>3 DEF GroupsJoined, At
  <2>7. QED
    BY <2>2, <2>4, <2>5, <2>6 DEF IInv
<1>4. QED
  BY <1>2, <1>3, RosterStepIs

LEMMA RosterCopiedKeeps ==
  ASSUME IInv, RosterCopied
  PROVE  IInv'
<1>1. /\ call \in Call /\ call.pc = "roster" /\ call.items = {} /\ call.user \in Name
  BY DEF IInv, TypeOK, CallOK, RosterCopied, At
<1>2. /\ call' \in Call /\ call'.pc = "properties" /\ call'.user = call.user
      /\ call'.new = call.new /\ call'.items = {}
  BY <1>1, SetPc DEF RosterCopied, Becomes, Pc
<1>3. UNCHANGED <<accounts, contacts, created, members, admins, props>>
  BY DEF RosterCopied, groupLists
<1>4. TypeOK'
  BY <1>2, <1>3 DEF IInv, TypeOK
<1>5. RosterDone'
  BY <1>1, <1>2, <1>3 DEF IInv, RosterDone, Copied, Renaming, CopyingRoster, At
<1>6. QED
  BY <1>1, <1>2, <1>3, <1>4, <1>5 DEF IInv, CallOK, GroupsJoined, Renaming, CopyingRoster, At

LEMMA CopyPropertiesKeeps ==
  ASSUME IInv, CopyProperties
  PROVE  IInv'
<1>1. /\ call \in Call /\ call.pc = "properties" /\ call.items = {}
      /\ call.user \in Name /\ call.new \in Name /\ created \in SUBSET Group
  BY DEF IInv, TypeOK, CallOK, RosterDone, Renaming, CopyingRoster, CopyProperties, At
<1>2. /\ call' \in Call /\ call'.pc = "groups" /\ call'.user = call.user
      /\ call'.new = call.new /\ call'.items = {} /\ call'.left = created
  <2>1. call' = [call EXCEPT !.pc = "groups", !.left = created]
    BY DEF CopyProperties, Becomes
  <2>2. QED
    BY <1>1, <2>1 DEF Call
<1>3. UNCHANGED <<accounts, contacts, created, members, admins>>
  BY DEF CopyProperties, groupLists
<1>4. props' \in [Name -> SUBSET Key]
  BY <1>1 DEF IInv, TypeOK, CopyProperties
<1>5. TypeOK'
  BY <1>2, <1>3, <1>4 DEF IInv, TypeOK
<1>6. RosterDone'
  BY <1>1, <1>2, <1>3 DEF IInv, RosterDone, Copied, Renaming, CopyingRoster, At
<1>7. GroupsJoined'
  BY <1>2, <1>3 DEF IInv, TypeOK, GroupsJoined, UsersOf, At
<1>8. QED
  BY <1>1, <1>2, <1>3, <1>5, <1>6, <1>7 DEF IInv, CallOK, Renaming, CopyingRoster, At

LEMMA CopyToGroupKeeps ==
  ASSUME IInv, NEW g \in Group, CopyToGroup(g)
  PROVE  IInv'
<1>1. /\ call \in Call /\ call.pc = "groups" /\ call.items = {} /\ call.left \in SUBSET Group
      /\ call.user \in Name /\ call.new \in Name /\ call.user # call.new
  BY DEF IInv, TypeOK, CallOK, RosterDone, Renaming, CopyingRoster, CopyToGroup, At, Call
<1>2. /\ call' \in Call /\ call'.pc = "groups" /\ call'.user = call.user
      /\ call'.new = call.new /\ call'.items = {} /\ call'.left = call.left \ {g}
  BY <1>1, OnlyLeft DEF CopyToGroup, Becomes
<1>3. UNCHANGED <<accounts, contacts, created, props>>
  BY DEF CopyToGroup
<1>4. /\ members' \in [Group -> SUBSET Name] /\ admins' \in [Group -> SUBSET Name]
      /\ \A h \in Group : members'[h] \cap admins'[h] = {}
      /\ \A h \in Group \ created : members'[h] \cup admins'[h] = {}
      /\ call.user \in UsersOf(g) => call.new \in members'[g]
      /\ \A h \in Group \ {g}, v \in Name : /\ v \in members'[h] <=> v \in members[h]
                                            /\ v \in admins'[h] <=> v \in admins[h]
      /\ call.user \in members'[g] \cup admins'[g] <=> call.user \in UsersOf(g)
  <2>1. CASE call.user \in UsersOf(g) /\ Enrolled(g, call.new)
    <3>1. g \in created
      BY <2>1 DEF IInv, TypeOK, UsersOf
    <3>2. QED
      BY <1>1, <1>3, <2>1, <3>1, EnrolledIs DEF IInv, UsersOf
  <2>2. CASE call.user \notin UsersOf(g) /\ UNCHANGED <<members, admins>>
    BY <2>2 DEF IInv, TypeOK, UsersOf
  <2>3. QED
    BY <2>1, <2>2 DEF CopyToGroup
<1>5. TypeOK'
  BY <1>2, <1>3, <1>4 DEF IInv, TypeOK
<1>6. RosterDone'
  BY <1>1, <1>2, <1>3 DEF IInv, RosterDone, Copied, Renaming, CopyingRoster, At
<1>7. GroupsJoined'
  <2>1. ASSUME NEW h \in Group, h \notin call.left \ {g},
               call.user \in members'[h] \cup admins'[h]
        PROVE  call.new \in members'[h] \cup admins'[h]
    <3>1. CASE h = g
      BY <1>4, <2>1, <3>1
    <3>2. CASE h # g
      BY <1>1, <1>4, <2>1, <3>2 DEF IInv, GroupsJoined, UsersOf, At
    <3>3. QED
      BY <3>1, <3>2
  <2>2. QED
    BY <1>2, <2>1 DEF GroupsJoined, UsersOf, At
<1>8. QED
  BY <1>1, <1>2, <1>3, <1>5, <1>6, <1>7 DEF IInv, CallOK, Renaming, CopyingRoster, At

LEMMA GroupsCopiedKeeps ==
  ASSUME IInv, GroupsCopied
  PROVE  IInv'
<1>1. call \in Call /\ call.pc = "groups" /\ call.left = {} /\ call.user \in Name
  BY DEF IInv, TypeOK, CallOK, GroupsCopied, At
<1>2. /\ call' \in Call /\ call'.pc = "vcard" /\ call'.user = call.user
      /\ call'.new = call.new /\ call'.items = call.items
  BY <1>1, SetPc DEF GroupsCopied, Becomes, Pc
<1>3. UNCHANGED <<accounts, contacts, created, members, admins, props>>
  BY DEF GroupsCopied, groupLists
<1>4. TypeOK'
  BY <1>2, <1>3 DEF IInv, TypeOK
<1>5. RosterDone'
  BY <1>1, <1>2, <1>3 DEF IInv, RosterDone, Copied, Renaming, CopyingRoster, At
<1>6. GroupsJoined'
  BY <1>1, <1>2, <1>3 DEF IInv, GroupsJoined, UsersOf, At
<1>7. QED
  BY <1>1, <1>2, <1>3, <1>4, <1>5, <1>6 DEF IInv, CallOK, Renaming, CopyingRoster, At

LEMMA CopyVCardKeeps ==
  ASSUME IInv, CopyVCard
  PROVE  IInv'
<1>1. call \in Call /\ call.pc = "vcard" /\ call.user \in Name
  BY DEF IInv, TypeOK, CallOK, CopyVCard, At
<1>2. UNCHANGED <<accounts, contacts, created, members, admins, props>>
  BY DEF CopyVCard, groupLists
<1>3. CASE call' = Idle
  BY <1>2, <1>3, IdleIs, EndKeeps DEF IInv, TypeOK
<1>4. CASE call' = [call EXCEPT !.pc = "delete"]
  <2>1. /\ call' \in Call /\ call'.pc = "delete" /\ call'.user = call.user
        /\ call'.new = call.new /\ call'.items = call.items
    BY <1>1, <1>4, SetPc DEF Pc
  <2>2. TypeOK'
    BY <1>2, <2>1 DEF IInv, TypeOK
  <2>3. RosterDone'
    BY <1>1, <1>2, <2>1 DEF IInv, RosterDone, Copied, Renaming, CopyingRoster, At
  <2>4. GroupsJoined'
    BY <1>1, <1>2, <2>1 DEF IInv, GroupsJoined, UsersOf, At
  <2>5. QED
    BY <1>1, <1>2, <2>1, <2>2, <2>3, <2>4 DEF IInv, CallOK, Renaming, CopyingRoster, At
<1>5. QED
  BY <1>3, <1>4 DEF CopyVCard, Becomes, Return

LEMMA DeleteOldKeeps ==
  ASSUME IInv, DeleteOld
  PROVE  IInv'
<1>1. call \in Call /\ call.user \in Name /\ call.new \in Name
  BY DEF IInv, TypeOK, CallOK, Renaming, DeleteOld, At
<1>2. call' \in Call /\ call'.pc = "clear" /\ call'.user \in Name
  BY <1>1, SetUser DEF DeleteOld, Becomes
<1>3. TypeOK'
  BY <1>1, <1>2, DeletedIs DEF DeleteOld, IInv, TypeOK
<1>4. QED
  BY <1>2, <1>3, OtherCall

LEMMA DeleteUserKeeps ==
  ASSUME IInv, NEW u \in Name, DeleteUser(u)
  PROVE  IInv'
<1>1. call' \in Call /\ call'.pc = "deleteRoster" /\ call'.user \in Name
  BY DeleteBegins DEF DeleteUser, Becomes
<1>2. TypeOK'
  BY <1>1, DeletedIs DEF DeleteUser, IInv, TypeOK
<1>3. QED
  BY <1>1, <1>2, OtherCall

LEMMA RegisterKeeps ==
  ASSUME IInv, NEW u \in Name, Register(u)
  PROVE  IInv'
<1>1. TypeOK'
  BY DEF Register, IInv, TypeOK, groupLists
<1>2. QED
  BY <1>1 DEF Register, IInv, CallOK, RosterDone, GroupsJoined, Renaming, CopyingRoster, At

LEMMA UpdateKeeps ==
  ASSUME IInv
  PROVE  /\ \A u \in Name, ks \in SUBSET Key : UpdateUser(u, ks) => IInv'
         /\ ClearProperties => IInv'
         /\ PutProperty => IInv'
<1>1. ASSUME NEW u \in Name, NEW ks \in SUBSET Key, UpdateUser(u, ks) PROVE IInv'
  <2>1. call' \in Call /\ call'.pc = "clear" /\ call'.user \in Name
    BY <1>1, UpdateBegins DEF UpdateUser, Becomes
  <2>2. TypeOK'
    BY <1>1, <2>1 DEF UpdateUser, IInv, TypeOK, groupLists
  <2>3. QED
    BY <2>1, <2>2, OtherCall
<1>2. ASSUME ClearProperties PROVE IInv'
  <2>1. call' \in Call /\ call'.pc = "put" /\ call'.user \in Name
    BY <1>2, SetPc DEF ClearProperties, Becomes, IInv, TypeOK, CallOK, At, Pc
  <2>2. TypeOK'
    BY <1>2, <2>1 DEF ClearProperties, IInv, TypeOK, groupLists
  <2>3. QED
    BY <2>1, <2>2, OtherCall
<1>3. ASSUME PutProperty PROVE IInv'
  <2>1. call \in Call /\ call.pc = "put" /\ call.user \in Name
    BY <1>3 DEF PutProperty, IInv, TypeOK, CallOK, At
  <2>2. CASE call' = Idle /\ UNCHANGED props
    BY <1>3, <2>2, IdleIs, EndKeeps DEF PutProperty, IInv, TypeOK, groupLists
  <2>3. ASSUME NEW k \in call.keys, props' = [props EXCEPT ![call.user] = @ \cup {k}],
               call' = [call EXCEPT !.keys = @ \ {k}]
        PROVE  IInv'
    <3>1. call' \in Call /\ call'.pc = "put" /\ call'.user \in Name /\ k \in Key
      BY <2>1, <2>3, DropKey DEF Call
    <3>2. TypeOK'
      BY <1>3, <2>1, <2>3, <3>1 DEF PutProperty, IInv, TypeOK, groupLists
    <3>3. QED
      BY <3>1, <3>2, OtherCall
  <2>4. QED
    BY <1>3, <2>2, <2>3 DEF PutProperty, Return, Becomes
<1>4. QED
  BY <1>1, <1>2, <1>3

LEMMA DeleteRosterKeeps ==
  ASSUME IInv, DeleteRoster
  PROVE  IInv'
<1>1. TypeOK'
  BY IdleIs DEF DeleteRoster, Return, Becomes, IInv, TypeOK, groupLists
<1>2. QED
  BY <1>1, EndKeeps DEF DeleteRoster, Return, Becomes

LEMMA GroupCallsKeep ==
  ASSUME IInv, NEW u \in Name, NEW gs \in SUBSET Group
  PROVE  AddToGroups(u, gs) \/ DeleteFromGroups(u, gs) => IInv'
<1>1. ASSUME NEW s \in {"collect", "withdraw"},
             call' = [Idle EXCEPT !.pc = s, !.user = u, !.left = gs, !.all = gs],
             UNCHANGED <<accounts, contacts, groupLists, props>>
      PROVE  IInv'
  <2>1. /\ call' \in Call /\ call'.pc = s /\ call'.user = u
        /\ call'.left = gs /\ call'.all = gs
    BY <1>1 DEF Idle, Call
  <2>2. TypeOK'
    BY <1>1, <2>1 DEF IInv, TypeOK, groupLists
  <2>3. QED
    BY <2>1, <2>2, OtherCall
<1>2. QED
  BY <1>1 DEF AddToGroups, DeleteFromGroups, Becomes

LEMMA CollectKeeps ==
  ASSUME IInv, NEW g \in Group, Collect(g)
  PROVE  IInv'
<1>1. /\ call \in Call /\ call.pc = "collect" /\ call.user \in Name
      /\ call.left \in SUBSET Group /\ call.all \ call.left \subseteq created
  BY DEF IInv, TypeOK, CallOK, Collect, At, Call
<1>2. created \subseteq created' /\ created' \subseteq Group
  BY DEF Collect, IInv, TypeOK
<1>3. UNCHANGED <<accounts, contacts, members, admins, props>>
  BY DEF Collect
<1>4. CASE call' = Idle
  BY <1>2, <1>3, <1>4, IdleIs, EndKeeps DEF IInv, TypeOK
<1>5. CASE call' = [call EXCEPT !.left = @ \ {g}] /\ created' = created \cup {g}
  <2>1. /\ call' \in Call /\ call'.pc = "collect" /\ call'.user = call.user
        /\ call'.left = call.left \ {g} /\ call'.all = call.all
    BY <1>1, <1>5, OnlyLeft
  <2>2. TypeOK'
    BY <1>2, <1>3, <2>1 DEF IInv, TypeOK
  <2>3. QED
    BY <1>1, <1>5, <2>1, <2>2, OtherCall
<1>6. QED
  BY <1>4, <1>5 DEF Collect, Return, Becomes

LEMMA CollectedKeeps ==
  ASSUME IInv, Collected
  PROVE  IInv'
<1>1. /\ call \in Call /\ call.pc = "collect" /\ call.user \in Name
      /\ call.all \in SUBSET Group /\ call.all \subseteq created
  BY DEF IInv, TypeOK, CallOK, Collected, At, Call
<1>2. call' = [call EXCEPT !.pc = "enrol", !.left = call.all]
  BY DEF Collected, Becomes
<1>3. /\ call' \in Call /\ call'.pc = "enrol" /\ call'.user = call.user
      /\ call'.left = call.all
  BY <1>1, <1>2 DEF Call
<1>4. UNCHANGED <<accounts, contacts, created, members, admins, props>>
  BY DEF Collected, groupLists
<1>5. TypeOK'
  BY <1>3, <1>4 DEF IInv, TypeOK
<1>6. QED
  BY <1>1, <1>3, <1>4, <1>5, OtherCall

LEMMA EnrolKeeps ==
  ASSUME IInv, NEW g \in Group, Enrol(g)
  PROVE  IInv'
<1>1. /\ call \in Call /\ call.pc = "enrol" /\ call.user \in Name /\ g \in created
      /\ call.left \in SUBSET Group /\ call.left \subseteq created
  BY DEF IInv, TypeOK, CallOK, Enrol, At, Call
<1>2. /\ call' \in Call /\ call'.pc = "enrol" /\ call'.user = call.user
      /\ call'.left = call.left \ {g}
  BY <1>1, OnlyLeft DEF Enrol, Becomes
<1>3. UNCHANGED <<accounts, contacts, created, props>>
  BY DEF Enrol
<1>4. TypeOK'
  BY <1>1, <1>2, <1>3, EnrolledIs DEF Enrol, IInv, TypeOK
<1>5. QED
  BY <1>1, <1>2, <1>3, <1>4, OtherCall

LEMMA WithdrawKeeps ==
  ASSUME IInv, NEW g \in Group, Withdraw(g)
  PROVE  IInv'
<1>1. /\ call \in Call /\ call.pc = "withdraw" /\ call.user \in Name
      /\ call.left \in SUBSET Group
  BY DEF IInv, TypeOK, CallOK, Withdraw, At, Call
<1>2. UNCHANGED <<accounts, contacts, created, admins, props>>
  BY DEF Withdraw
<1>3. CASE call' = Idle /\ UNCHANGED members
  BY <1>2, <1>3, IdleIs, EndKeeps DEF IInv, TypeOK
<1>4. CASE /\ members' = [members EXCEPT ![g] = @ \ {call.user}]
           /\ call' = [call EXCEPT !.left = @ \ {g}]
  <2>1. call' \in Call /\ call'.pc = "withdraw" /\ call'.user = call.user
    BY <1>1, <1>4, OnlyLeft
  <2>2. TypeOK'
    BY <1>2, <1>4, <2>1 DEF IInv, TypeOK
  <2>3. QED
    BY <1>1, <2>1, <2>2, OtherCall
<1>5. QED
  BY <1>3, <1>4 DEF Withdraw, Return, Becomes

\* Others change their contacts; the admins appoint.
LEMMA UsersKeep ==
  ASSUME IInv, Users
  PROVE  IInv'
<1>1. ASSUME NEW u \in Name, NEW j \in Name, MayChange(u, j), Befriend(u, j) \/ Unfriend(u, j)
      PROVE  IInv'
  <2>1. UNCHANGED <<accounts, created, members, admins, props, call>>
    BY <1>1 DEF Befriend, Unfriend, groupLists
  <2>2. contacts' \in [Name -> SUBSET Name]
    BY <1>1 DEF IInv, TypeOK, Befriend, Unfriend
  <2>3. \A v \in Name : /\ v # u => contacts'[v] = contacts[v]
                        /\ contacts[v] \ {j} \subseteq contacts'[v]
    BY <1>1 DEF IInv, TypeOK, Befriend, Unfriend
  <2>4. TypeOK'
    BY <2>1, <2>2 DEF IInv, TypeOK
  <2>5. RosterDone'
    <3>1. SUFFICES ASSUME Renaming,
                          NEW i \in contacts'[call.user] \ (call.items \cup {call.new})
                   PROVE  i \in contacts'[call.new]
                          /\ (i \in accounts => call.new \in contacts'[i])
      BY <2>1 DEF IInv, RosterDone, Renaming, CopyingRoster, Copied, At
    <3>2. call.user \in Name /\ call.new \in Name /\ u # call.user /\ u # call.new /\ j # call.new
      BY <1>1, <3>1 DEF MayChange, IInv, CallOK, TypeOK
    <3>3. i \in contacts[call.user] /\ i \in Name
      BY <2>2, <2>3, <3>1, <3>2
    <3>4. Copied(i)
      BY <3>1, <3>3 DEF IInv, RosterDone
    <3>5. QED
      BY <2>3, <3>2, <3>3, <3>4 DEF Copied
  <2>6. CallOK'
    <3>1. At("item") \/ At("other") => contacts'[call.new] = contacts[call.new]
      BY <1>1, <2>3 DEF MayChange, IInv, CallOK, TypeOK, Call, Renaming, CopyingRoster, At
    <3>2. QED
      BY <2>1, <3>1 DEF IInv, CallOK, Renaming, CopyingRoster, At
  <2>7. QED
    BY <2>1, <2>4, <2>5, <2>6 DEF IInv, GroupsJoined, UsersOf, At
<1>2. ASSUME NEW g \in Group, NEW u \in Name, Appoint(g, u)
      PROVE  IInv'
  <2>1. TypeOK'
    BY <1>2 DEF Appoint, IInv, TypeOK
  <2>2. QED
    BY <1>2, <2>1 DEF Appoint, IInv, CallOK, RosterDone, GroupsJoined, Renaming, CopyingRoster, At
<1>3. QED
  BY <1>1, <1>2 DEF Users

LEMMA EndsKeep ==
  ASSUME IInv, GroupsDone \/ Abort
  PROVE  IInv'
<1>1. call' = Idle /\ UNCHANGED <<accounts, contacts, created, members, admins, props>>
  BY DEF GroupsDone, Abort, Return, Becomes, groupLists
<1>2. QED
  BY <1>1, IdleIs, EndKeeps DEF IInv, TypeOK

LEMMA NextKeeps == IInv /\ [Next]_vars => IInv'
<1> SUFFICES ASSUME IInv, [Next]_vars PROVE IInv'
  OBVIOUS
<1>1. CASE Request
  BY <1>1, RegisterKeeps, DeleteUserKeeps, RenameKeeps, UpdateKeeps, GroupCallsKeep DEF Request
<1>2. CASE Continue
  BY <1>2, RosterStepKeeps, RosterCopiedKeeps, CopyPropertiesKeeps, CopyToGroupKeeps,
     GroupsCopiedKeeps, CopyVCardKeeps, DeleteOldKeeps, UpdateKeeps, DeleteRosterKeeps,
     CollectKeeps, CollectedKeeps, EnrolKeeps, WithdrawKeeps, EndsKeep
  DEF Continue, RosterStep
<1>3. CASE Users \/ Abort
  BY <1>3, UsersKeep, EndsKeep
<1>4. CASE UNCHANGED vars
  BY <1>4 DEF vars, groupLists, IInv, TypeOK, CallOK, RosterDone, Copied, GroupsJoined,
     UsersOf, Renaming, CopyingRoster, At
<1>5. QED
  BY <1>1, <1>2, <1>3, <1>4 DEF Next

\* The invariant of the module.
THEOREM Invariant == Spec => []IInv
BY InitHolds, NextKeeps, PTL DEF Spec

\* The accounts, contacts, groups and properties keep their types: no user is
\* on both lists of a group and a group that does not exist is empty.
THEOREM TypeCorrect == Spec => []TypeOK
<1>1. IInv => TypeOK
  BY DEF IInv
<1>2. QED
  BY <1>1, Invariant, PTL

-----------------------------------------------------------------------------
\* Only these steps are steps of a rename that has begun.
LEMMA RenameSteps ==
  ASSUME Renaming, Next
  PROVE  \/ RosterStep
         \/ RosterCopied \/ CopyProperties \/ GroupsCopied \/ CopyVCard \/ DeleteOld
         \/ \E g \in Group : CopyToGroup(g)
         \/ \E u, j \in Name : MayChange(u, j) /\ (Befriend(u, j) \/ Unfriend(u, j))
         \/ Abort
<1>1. call.pc \in {"roster", "item", "other", "otherItem", "properties", "groups",
                   "vcard", "delete"}
  BY DEF Renaming, CopyingRoster
<1>2. ~Request
  BY <1>1 DEF Request, Register, DeleteUser, Rename, UpdateUser, AddToGroups,
     DeleteFromGroups, At
<1>3. ~ClearProperties /\ ~PutProperty /\ ~DeleteRoster /\ ~Collected /\ ~GroupsDone
  BY <1>1 DEF ClearProperties, PutProperty, DeleteRoster, Collected, GroupsDone, At
<1>4. \A g \in Group : ~Collect(g) /\ ~Enrol(g) /\ ~Withdraw(g)
  BY <1>1 DEF Collect, Enrol, Withdraw, At
<1>5. \A g \in Group, u \in Name : ~Appoint(g, u)
  BY <1>1 DEF Appoint, At
<1>6. QED
  BY <1>2, <1>3, <1>4, <1>5 DEF Next, Continue, Users, RosterStep

\* What the new user gets in a group changes the standing of nobody else.
LEMMA CopyToGroupIs ==
  ASSUME IInv, NEW g \in Group, CopyToGroup(g), NEW h \in Group,
         NEW u \in Name \ {call.new}
  PROVE  Standing(u, h)' = Standing(u, h)
<1>1. CASE call.user \in UsersOf(g) /\ Enrolled(g, call.new)
  <2>1. g \in created /\ call.new \in Name /\ created' = created
    BY <1>1 DEF IInv, TypeOK, UsersOf, CallOK, Renaming, CopyToGroup, At
  <2>2. /\ u \in members'[h] <=> u \in members[h]
        /\ u \in admins'[h] <=> u \in admins[h]
    BY <1>1, <2>1, EnrolledIs DEF IInv
  <2>3. QED
    BY <2>2 DEF Standing
<1>2. CASE UNCHANGED <<members, admins>>
  BY <1>2 DEF Standing
<1>3. QED
  BY <1>1, <1>2 DEF CopyToGroup

\* A rename that fails has cost the user nothing (changeName of
\* JustMarriedController): whatever write throws, before deleteUser the old
\* account is as it was.
THEOREM OldUserIntactHolds == Spec => OldUserIntact
<1> DEFINE Step == Renaming /\ ~At("delete") =>
       \A old \in {call.user} :
         /\ old \in accounts'
         /\ contacts[old] \subseteq contacts'[old]
         /\ \A g \in Group : Standing(old, g)' = Standing(old, g)
         /\ props'[old] = props[old]
<1>1. ASSUME IInv, [Next]_vars PROVE [Step]_vars
  <2> SUFFICES ASSUME Next, Renaming, ~At("delete"), NEW old, old = call.user
               PROVE  /\ old \in accounts'
                      /\ contacts[old] \subseteq contacts'[old]
                      /\ \A g \in Group : Standing(old, g)' = Standing(old, g)
                      /\ props'[old] = props[old]
    BY <1>1
  <2>1. /\ old \in accounts /\ old \in Name /\ call.new \in Name /\ old # call.new
        /\ props \in [Name -> SUBSET Key] /\ contacts \in [Name -> SUBSET Name]
    BY <1>1 DEF IInv, CallOK, TypeOK
  <2>2. CASE RosterStep
    BY <1>1, <2>1, <2>2, RosterStepIs DEF Standing
  <2>3. CASE CopyProperties
    BY <2>1, <2>3 DEF CopyProperties, groupLists, Standing
  <2>4. ASSUME NEW g \in Group, CopyToGroup(g) PROVE Step
    BY <1>1, <2>1, <2>4, CopyToGroupIs DEF CopyToGroup
  <2>5. ASSUME NEW u \in Name, NEW j \in Name, MayChange(u, j), Befriend(u, j) \/ Unfriend(u, j)
        PROVE  Step
    BY <2>1, <2>5 DEF MayChange, Befriend, Unfriend, groupLists, Standing
  <2>6. CASE RosterCopied \/ GroupsCopied \/ CopyVCard \/ Abort
    BY <2>1, <2>6 DEF RosterCopied, GroupsCopied, CopyVCard, Abort, groupLists, Standing
  <2>7. CASE DeleteOld
    BY <2>7 DEF DeleteOld
  <2>8. QED
    BY <2>2, <2>3, <2>4, <2>5, <2>6, <2>7, RenameSteps
<1>2. QED
  BY <1>1, Invariant, PTL DEF Spec, OldUserIntact

\* deleteUser of JustMarriedController comes last: by then the new account
\* has the contacts, they have the new name, and the groups have the new user.
THEOREM RenameCompleteHolds == Spec => RenameComplete
<1> DEFINE Step == At("delete") /\ call.user \notin accounts' =>
       LET old == call.user
           new == call.new
       IN  /\ contacts[old] \ {new} \subseteq contacts[new]
           /\ \A j \in contacts[old] \cap accounts : j # new => new \in contacts[j]
           /\ \A g \in Group : old \in UsersOf(g) => new \in UsersOf(g)
<1>1. IInv => Step
  BY DEF IInv, RosterDone, GroupsJoined, Copied, Renaming, CopyingRoster, At
<1>2. QED
  BY <1>1, Invariant, PTL DEF RenameComplete

\* A rename is nobody else's business: no step of changeName takes a contact,
\* a standing or the account of a bystander.
THEOREM BystandersUntouchedHolds == Spec => BystandersUntouched
<1> DEFINE Step == Renaming /\ call' # call =>
       \A u \in Name \ {call.user, call.new} :
         /\ u \in accounts => u \in accounts'
         /\ contacts[u] \subseteq contacts'[u]
         /\ contacts'[u] \subseteq contacts[u] \cup {call.new}
         /\ \A g \in Group : Standing(u, g)' = Standing(u, g)
<1>1. ASSUME IInv, [Next]_vars PROVE [Step]_vars
  <2> SUFFICES ASSUME Next, Renaming, call' # call, NEW u \in Name \ {call.user, call.new}
               PROVE  /\ u \in accounts => u \in accounts'
                      /\ contacts[u] \subseteq contacts'[u]
                      /\ contacts'[u] \subseteq contacts[u] \cup {call.new}
                      /\ \A g \in Group : Standing(u, g)' = Standing(u, g)
    BY <1>1
  <2>1. call.user \in Name /\ call.new \in Name /\ TypeOK
    BY <1>1 DEF IInv, CallOK, TypeOK
  <2>2. CASE RosterStep
    BY <1>1, <2>1, <2>2, RosterStepIs DEF Standing
  <2>3. CASE RosterCopied \/ CopyProperties \/ GroupsCopied \/ CopyVCard \/ Abort
    BY <2>3 DEF RosterCopied, CopyProperties, GroupsCopied, CopyVCard, Abort,
       groupLists, Standing
  <2>4. ASSUME NEW g \in Group, CopyToGroup(g) PROVE Step
    BY <1>1, <2>4, CopyToGroupIs DEF CopyToGroup
  <2>5. CASE DeleteOld
    <3>1. /\ accounts' = accounts \ {call.user} /\ contacts' = contacts
          /\ \A g \in Group : Standing(u, g)' = Standing(u, g)
      BY <2>1, <2>5, DeletedIs DEF DeleteOld
    <3>2. QED
      BY <2>1, <2>5, <3>1, DeletedIs DEF DeleteOld
  <2>6. ASSUME NEW v \in Name, NEW j \in Name, Befriend(v, j) \/ Unfriend(v, j)
        PROVE  FALSE
    BY <2>6 DEF Befriend, Unfriend
  <2>7. QED
    BY <2>2, <2>3, <2>4, <2>5, <2>6, RenameSteps
<1>2. QED
  BY <1>1, Invariant, PTL DEF Spec, BystandersUntouched

-----------------------------------------------------------------------------
(* Rooms: the affiliations of one room, for any number of users and        *)
(* threads.  A room and the accounts share nothing.                        *)

\* One call changes the room at a time, and a room that is being changed
\* exists.
OneHolder ==
  /\ \A t, o \in Thread : ThreadAt(t, "change") /\ ThreadAt(o, "change") => t = o
  /\ \A t \in Thread : ThreadAt(t, "change") => exists

\* In setRoles a user has the requested affiliation or is still to get it.
RolesGiven(l) ==
  /\ l.pc = "apply" => l.list \in Affiliation
  /\ l.pc = "change" /\ l.op = "update" =>
       /\ With(l.req, "owner") # {}
       /\ \A j \in Jid : /\ l.plan[j] = "keep" => aff[j] = l.req[j]
                         /\ l.plan[j] # "keep" => l.plan[j] = l.req[j]

RoomInv == RoomTypeOK /\ OneHolder /\ \A t \in Thread : RolesGiven(th[t])

LEMMA RoomConstants ==
  /\ NoCall \in Locals /\ NoCall.pc = "idle"
  /\ Nobody \in Affiliations
  /\ Unchanged \in Plan
BY DEF NoCall, Locals, Nobody, Affiliations, Unchanged, Plan

\* A call that ends, or has ended, has no locals to speak of.
LEMMA CallEnds ==
  ASSUME NEW s \in {"done", "failed"}
  PROVE  LET m == [NoCall EXCEPT !.pc = s]
         IN  m \in Locals /\ m.pc = s
BY RoomConstants DEF NoCall, Locals

\* The order of the loops: owners come first, and who is banned or goes comes
\* last.
LEMMA LoopOrder ==
  /\ \A a \in {"admin", "member", "outcast", "none"} : Earlier("owner", a)
  /\ \A a \in {"owner", "admin", "member", "outcast"} : Earlier(a, "none")
  /\ \A a \in {"owner", "admin", "member"} : Earlier(a, "outcast")
<1>1. /\ Loops[1] = "owner" /\ Loops[2] = "admin" /\ Loops[3] = "member"
      /\ Loops[4] = "outcast" /\ Loops[5] = "none"
  BY DEF Loops
<1>2. QED
  BY <1>1 DEF Earlier

\* An affiliation that is given leaves the room an owner.
LEMMA OwnerLeft ==
  ASSUME RoomTypeOK, exists, NEW j \in Jid,
         NEW a \in Affiliation \cup {"none"}, ~Conflict(aff, j, a),
         aff' = [aff EXCEPT ![j] = a]
  PROVE  /\ aff' \in Affiliations
         /\ aff'[j] = a
         /\ \A i \in Jid \ {j} : aff'[i] = aff[i]
         /\ With(aff', "owner") # {}
<1>1. aff \in Affiliations
  BY DEF RoomTypeOK
<1>2. /\ aff' \in Affiliations /\ aff'[j] = a
      /\ \A i \in Jid \ {j} : aff'[i] = aff[i]
  BY <1>1 DEF Affiliations
<1>3. CASE a = "owner"
  BY <1>2, <1>3 DEF With
<1>4. CASE a # "owner"
  <2>1. PICK i \in Jid : aff[i] = "owner" /\ i # j
    BY <1>4 DEF RoomTypeOK, Conflict, With
  <2>2. QED
    BY <1>2, <2>1 DEF With
<1>5. QED
  BY <1>2, <1>3, <1>4

\* The locals of a call that has given j what it was to get.
LEMMA Given ==
  ASSUME NEW l \in Locals, NEW j \in Jid
  PROVE  LET m == [l EXCEPT !.plan[j] = "keep"]
         IN  /\ m \in Locals /\ m.pc = l.pc /\ m.op = l.op /\ m.list = l.list
             /\ m.want = l.want /\ m.old = l.old /\ m.req = l.req
             /\ m.plan[j] = "keep"
             /\ \A i \in Jid \ {j} : m.plan[i] = l.plan[i]
<1> DEFINE m == [l EXCEPT !.plan[j] = "keep"]
           p == [l.plan EXCEPT ![j] = "keep"]
<1>1. p \in Plan /\ p[j] = "keep" /\ \A i \in Jid \ {j} : p[i] = l.plan[i]
  BY DEF Locals, Plan
<1>2. m = [l EXCEPT !.plan = p]
  BY DEF Locals
<1> HIDE DEF p
<1>3. QED
  BY <1>1, <1>2 DEF Locals

-----------------------------------------------------------------------------
LEMMA RoomStarts == RoomInit => RoomInv
<1> SUFFICES ASSUME RoomInit PROVE RoomInv
  OBVIOUS
<1>1. RoomTypeOK
  BY RoomConstants DEF RoomInit, RoomTypeOK
<1>2. \A t \in Thread : th[t].pc = "idle"
  BY RoomConstants DEF RoomInit
<1>3. QED
  BY <1>1, <1>2 DEF RoomInv, OneHolder, RolesGiven, ThreadAt

\* The call of t moves on to locals l; the room stays as it is.
LEMMA CallMoves ==
  ASSUME RoomInv, NEW t \in Thread, NEW l \in Locals,
         th' = [th EXCEPT ![t] = l], exists' = exists, aff' = aff,
         cluster' \in Affiliations,
         l.pc = "change" => exists /\ Unlocked,
         RolesGiven(l)
  PROVE  RoomInv'
<1>1. /\ th' \in [Thread -> Locals] /\ th'[t] = l
      /\ \A o \in Thread \ {t} : th'[o] = th[o]
  BY DEF RoomInv, RoomTypeOK
<1>2. RoomTypeOK'
  BY <1>1 DEF RoomInv, RoomTypeOK, With
<1>3. OneHolder'
  BY <1>1 DEF RoomInv, OneHolder, ThreadAt, Unlocked
<1>4. ASSUME NEW o \in Thread PROVE RolesGiven(th[o])'
  <2>1. RolesGiven(th'[o])
    BY <1>1 DEF RoomInv
  <2>2. QED
    BY <2>1 DEF RolesGiven, With
<1>5. QED
  BY <1>2, <1>3, <1>4 DEF RoomInv

LEMMA UpdateKeepsRoom ==
  ASSUME RoomInv, NEW t \in Thread, NEW req \in Requested, Update(t, req)
  PROVE  RoomInv'
<1>1. req \in Affiliations /\ With(req, "owner") # {}
  BY DEF Requested
<1>2. PICK first \in Jid :
        /\ aff' = IF exists THEN aff ELSE [Nobody EXCEPT ![first] = "owner"]
        /\ th' = [th EXCEPT ![t] = [NoCall EXCEPT !.pc = "change", !.op = "update",
                     !.req = req, !.plan = RoleChanges(aff', req)]]
  BY DEF Update, Goes, With
<1>3. aff' \in Affiliations /\ With(aff', "owner") # {}
  BY <1>2, RoomConstants DEF RoomInv, RoomTypeOK, With, Affiliations, Affiliation
<1> DEFINE p == RoleChanges(aff', req)
           l == [NoCall EXCEPT !.pc = "change", !.op = "update", !.req = req, !.plan = p]
<1>4. /\ p \in Plan
      /\ \A j \in Jid : p[j] = IF req[j] = aff'[j] THEN "keep" ELSE req[j]
  BY <1>1 DEF RoleChanges, Plan, Affiliations
<1>5. \A j \in Jid : req[j] # "keep"
  BY <1>1 DEF Affiliations, Affiliation
<1> HIDE DEF p
<1>6. l \in Locals /\ l.pc = "change" /\ l.op = "update" /\ l.req = req /\ l.plan = p
  BY <1>1, <1>4, RoomConstants DEF Locals, NoCall
<1>7. th' = [th EXCEPT ![t] = l]
  BY <1>2 DEF p
<1> HIDE DEF l
<1>8. /\ th' \in [Thread -> Locals] /\ th'[t] = l
      /\ \A o \in Thread \ {t} : th'[o] = th[o] /\ th[o].pc # "change"
  BY <1>6, <1>7 DEF RoomInv, RoomTypeOK, Update, Unlocked, ThreadAt
<1>9. exists' = TRUE /\ cluster' = cluster
  BY DEF Update
<1>10. RoomTypeOK'
  BY <1>3, <1>8, <1>9 DEF RoomInv, RoomTypeOK
<1>11. OneHolder'
  BY <1>8, <1>9 DEF OneHolder, ThreadAt
<1>12. ASSUME NEW o \in Thread PROVE RolesGiven(th[o])'
  <2>1. CASE o = t
    BY <1>1, <1>4, <1>5, <1>6, <1>8, <2>1 DEF RolesGiven, With
  <2>2. CASE o # t
    <3>1. th'[o] = th[o] /\ th[o].pc # "change" /\ RolesGiven(th[o])
      BY <1>8, <2>2 DEF RoomInv
    <3>2. QED
      BY <3>1 DEF RolesGiven
  <2>3. QED
    BY <2>1, <2>2
<1>13. QED
  BY <1>10, <1>11, <1>12 DEF RoomInv

LEMMA ReadKeepsRoom ==
  ASSUME RoomInv, NEW t \in Thread, NEW op \in {"replace", "add"},
         NEW a \in Affiliation, NEW want \in SUBSET Jid, Read(t, op, a, want)
  PROVE  RoomInv'
<1> DEFINE l == [NoCall EXCEPT !.pc = "apply", !.op = op, !.list = a,
                             !.want = want, !.old = With(aff, a)]
<1>1. With(aff, a) \in SUBSET Jid
  BY DEF With
<1>2. l \in Locals /\ l.pc = "apply" /\ l.list = a
  BY <1>1, RoomConstants DEF Locals, NoCall
<1>3. th' = [th EXCEPT ![t] = l]
  BY DEF Read, Goes
<1> HIDE DEF l
<1>4. QED
  BY <1>2, <1>3, CallMoves DEF Read, RolesGiven, RoomInv, RoomTypeOK

\* The plans of a replacement and of an addition.
LEMMA PlanOfList ==
  ASSUME NEW l \in Locals, l.list \in Affiliation
  PROVE  /\ Replacement(l) \in Plan
         /\ Addition(l) \in Plan
         /\ \A j \in Jid :
              Replacement(l)[j] = IF j \in l.want \ l.old THEN l.list
                                        ELSE IF j \in l.old \ l.want THEN "none"
                                        ELSE "keep"
BY DEF Replacement, Addition, Plan

LEMMA ApplyKeepsRoom ==
  ASSUME RoomInv, NEW t \in Thread, Apply(t)
  PROVE  RoomInv'
<1>1. th[t] \in Locals /\ th[t].list \in Affiliation
  BY DEF RoomInv, RoomTypeOK, RolesGiven, Apply, ThreadAt
<1>2. Replacement(th[t]) \in Plan /\ Addition(th[t]) \in Plan
  BY <1>1, PlanOfList
<1>3. /\ exists' = exists /\ aff' = aff /\ cluster' \in Affiliations
      /\ Unlocked
  BY DEF Apply, RoomInv, RoomTypeOK
<1>4. CASE th' = [th EXCEPT ![t] = [NoCall EXCEPT !.pc = "failed"]]
  BY <1>3, <1>4, CallEnds, CallMoves DEF RolesGiven
<1>5. ASSUME NEW p \in Plan, exists, th[t].op \in {"replace", "add"},
             th' = [th EXCEPT ![t] = [th[t] EXCEPT !.pc = "change", !.plan = p]]
      PROVE  RoomInv'
  <2> DEFINE l == [th[t] EXCEPT !.pc = "change", !.plan = p]
  <2>1. l \in Locals /\ l.pc = "change" /\ l.op # "update"
    BY <1>1, <1>5 DEF Locals
  <2>2. th' = [th EXCEPT ![t] = l]
    BY <1>5
  <2> HIDE DEF l
  <2>3. QED
    BY <1>3, <1>5, <2>1, <2>2, CallMoves DEF RolesGiven
<1>6. QED
  BY <1>2, <1>4, <1>5 DEF Apply, Goes

LEMMA DeleteKeepsRoom ==
  ASSUME RoomInv, NEW t \in Thread, NEW a \in Affiliation \cup {Nil}, NEW j \in Jid,
         DeleteAffiliation(t, a, j)
  PROVE  RoomInv'
<1> DEFINE p == [Unchanged EXCEPT ![j] = "none"]
           l == [NoCall EXCEPT !.pc = "change", !.op = "delete", !.plan = p]
<1>1. p \in Plan
  BY RoomConstants DEF Plan
<1>2. th' = [th EXCEPT ![t] = l]
  BY DEF DeleteAffiliation, Goes
<1> HIDE DEF p
<1>3. l \in Locals /\ l.pc = "change" /\ l.op # "update"
  BY <1>1, RoomConstants DEF Locals, NoCall
<1> HIDE DEF l
<1>4. QED
  BY <1>2, <1>3, CallMoves DEF DeleteAffiliation, RolesGiven, RoomInv, RoomTypeOK

\* A step of a loop: user j has its new affiliation and nobody else any other.
LEMMA GiveIs ==
  ASSUME RoomInv, NEW t \in Thread, NEW j \in Jid, Give(t, j)
  PROVE  /\ aff' \in Affiliations
         /\ aff'[j] = th[t].plan[j]
         /\ \A i \in Jid \ {j} : aff'[i] = aff[i]
         /\ With(aff', "owner") # {}
         /\ th' \in [Thread -> Locals]
         /\ \A o \in Thread \ {t} : th'[o] = th[o] /\ th[o].pc # "change"
         /\ th[t].pc = "change" /\ exists
         /\ th'[t].pc = "change" /\ th'[t].op = th[t].op /\ th'[t].list = th[t].list
         /\ th'[t].want = th[t].want /\ th'[t].req = th[t].req
         /\ th'[t].plan[j] = "keep"
         /\ \A i \in Jid \ {j} : th'[t].plan[i] = th[t].plan[i]
<1>1. th \in [Thread -> Locals] /\ th[t].pc = "change" /\ exists /\ RoomTypeOK
  BY DEF RoomInv, OneHolder, RoomTypeOK, Give, Turn, ThreadAt
<1>2. th[t].plan[j] \in Affiliation \cup {"none"}
  BY <1>1 DEF Give, Turn, Locals, Plan
<1>3. /\ aff' \in Affiliations
      /\ aff'[j] = th[t].plan[j]
      /\ \A i \in Jid \ {j} : aff'[i] = aff[i]
      /\ With(aff', "owner") # {}
  BY <1>1, <1>2, OwnerLeft DEF Give
<1> DEFINE l == [th[t] EXCEPT !.plan[j] = "keep"]
<1>4. th' = [th EXCEPT ![t] = l]
  BY DEF Give, Goes
<1>5. /\ l \in Locals /\ l.pc = th[t].pc /\ l.op = th[t].op /\ l.list = th[t].list
      /\ l.want = th[t].want /\ l.req = th[t].req /\ l.plan[j] = "keep"
      /\ \A i \in Jid \ {j} : l.plan[i] = th[t].plan[i]
  BY <1>1, Given
<1> HIDE DEF l
<1>6. /\ th' \in [Thread -> Locals] /\ th'[t] = l
      /\ \A o \in Thread \ {t} : th'[o] = th[o]
  BY <1>1, <1>4, <1>5
<1>7. \A o \in Thread \ {t} : th[o].pc # "change"
  BY <1>1 DEF RoomInv, OneHolder, ThreadAt
<1>8. QED
  BY <1>1, <1>3, <1>5, <1>6, <1>7

LEMMA GiveKeepsRoom ==
  ASSUME RoomInv, NEW t \in Thread, NEW j \in Jid, Give(t, j)
  PROVE  RoomInv'
<1>1. exists' = exists /\ cluster' = cluster /\ exists
  BY GiveIs DEF Give
<1>2. RoomTypeOK'
  BY <1>1, GiveIs DEF RoomInv, RoomTypeOK
<1>3. OneHolder'
  BY <1>1, GiveIs DEF OneHolder, ThreadAt
<1>4. RolesGiven(th[t])'
  <2>1. RolesGiven(th[t]) /\ th[t].plan[j] # "keep"
    BY DEF RoomInv, Give, Turn
  <2>2. ASSUME th[t].op = "update", NEW i \in Jid
        PROVE  /\ th'[t].plan[i] = "keep" => aff'[i] = th'[t].req[i]
               /\ th'[t].plan[i] # "keep" => th'[t].plan[i] = th'[t].req[i]
    <3>1. CASE i = j
      BY <2>1, <2>2, <3>1, GiveIs DEF RolesGiven
    <3>2. CASE i # j
      BY <2>1, <2>2, <3>2, GiveIs DEF RolesGiven
    <3>3. QED
      BY <3>1, <3>2
  <2>3. /\ th'[t].pc = "change" /\ th[t].pc = "change"
        /\ th'[t].op = th[t].op /\ th'[t].req = th[t].req
    BY GiveIs
  <2>4. QED
    BY <2>1, <2>2, <2>3 DEF RolesGiven, With
<1>5. ASSUME NEW o \in Thread \ {t} PROVE RolesGiven(th[o])'
  BY GiveIs DEF RoomInv, RolesGiven
<1>6. QED
  BY <1>2, <1>3, <1>4, <1>5 DEF RoomInv

LEMMA EndKeepsRoom ==
  ASSUME RoomInv, NEW t \in Thread,
         (\E j \in Jid : Refuse(t, j)) \/ Sync(t) \/ Answer(t)
  PROVE  RoomInv'
<1>1. exists' = exists /\ aff' = aff /\ cluster' \in Affiliations
  BY DEF Refuse, Sync, Answer, RoomInv, RoomTypeOK
<1>2. \/ th' = [th EXCEPT ![t] = NoCall]
      \/ \E s \in {"done", "failed"} : th' = [th EXCEPT ![t] = [NoCall EXCEPT !.pc = s]]
  BY DEF Refuse, Sync, Answer, Goes
<1>3. QED
  BY <1>1, <1>2, RoomConstants, CallEnds, CallMoves DEF RolesGiven

LEMMA RoomOnly ==
  ASSUME RoomInv, (\E t \in Thread : DeleteChatRoom(t))
                  \/ (\E j \in Jid, a \in Affiliation \cup {"none"} : Grant(j, a))
  PROVE  RoomInv'
<1>1. /\ th' = th /\ \A t \in Thread : th[t].pc # "change"
  BY DEF DeleteChatRoom, Grant, Unlocked, ThreadAt
<1>2. RoomTypeOK'
  <2>1. ASSUME NEW t \in Thread, DeleteChatRoom(t) PROVE RoomTypeOK'
    BY <2>1, RoomConstants DEF DeleteChatRoom, RoomInv, RoomTypeOK
  <2>2. ASSUME NEW j \in Jid, NEW a \in Affiliation \cup {"none"}, Grant(j, a)
        PROVE  RoomTypeOK'
    BY <2>2, OwnerLeft DEF Grant, RoomInv, RoomTypeOK
  <2>3. QED
    BY <2>1, <2>2
<1>3. QED
  BY <1>1, <1>2 DEF RoomInv, OneHolder, RolesGiven, ThreadAt

LEMMA RoomSteps == RoomInv /\ [RoomNext]_roomVars => RoomInv'
<1> SUFFICES ASSUME RoomInv, [RoomNext]_roomVars PROVE RoomInv'
  OBVIOUS
<1>1. ASSUME NEW t \in Thread, Begin(t) PROVE RoomInv'
  BY <1>1, UpdateKeepsRoom, ReadKeepsRoom, DeleteKeepsRoom DEF Begin
<1>2. ASSUME NEW t \in Thread, Proceed(t) PROVE RoomInv'
  BY <1>2, ApplyKeepsRoom, GiveKeepsRoom, EndKeepsRoom DEF Proceed
<1>3. CASE UNCHANGED roomVars
  BY <1>3 DEF roomVars, RoomInv, RoomTypeOK, OneHolder, RolesGiven, ThreadAt, With
<1>4. QED
  BY <1>1, <1>2, <1>3, RoomOnly DEF RoomNext

\* The invariant of a room, in every interleaving.
THEOREM RoomInvariant == RoomSpec => []RoomInv
BY RoomStarts, RoomSteps, PTL DEF RoomSpec

\* Affiliations keep their types; a room has an owner as long as it exists,
\* and nobody an affiliation with one that does not (MUCRoomController).
THEOREM RoomTypeCorrect == RoomSpec => []RoomTypeOK
<1>1. RoomInv => RoomTypeOK
  BY DEF RoomInv
<1>2. QED
  BY <1>1, RoomInvariant, PTL

\* While a call changes the room, only that call does.
LEMMA ChangeStep ==
  ASSUME RoomInv, RoomNext, NEW t \in Thread, th[t].pc = "change"
  PROVE  /\ aff' # aff => \E j \in Jid : Give(t, j)
         /\ th'[t].pc # "change" => Sync(t) \/ \E j \in Jid : Refuse(t, j)
<1>1. th \in [Thread -> Locals]
  BY DEF RoomInv, RoomTypeOK
<1>2. PICK o \in Thread : Proceed(o)
  BY DEF RoomNext, Begin, Update, Read, DeleteAffiliation,
     DeleteChatRoom, Grant, Unlocked, ThreadAt
<1>3. CASE Apply(o) \/ Answer(o)
  <2>1. aff' = aff /\ o # t /\ \E l : th' = [th EXCEPT ![o] = l]
    BY <1>3 DEF Apply, Answer, Goes, Unlocked, ThreadAt
  <2>2. QED
    BY <1>1, <2>1
<1>4. CASE (\E j \in Jid : Give(o, j) \/ Refuse(o, j)) \/ Sync(o)
  <2>1. o = t
    BY <1>4 DEF RoomInv, OneHolder, Give, Refuse, Turn, Sync, ThreadAt
  <2>2. CASE \E j \in Jid : Give(t, j)
    BY <2>2, GiveIs
  <2>3. CASE Sync(t) \/ \E j \in Jid : Refuse(t, j)
    BY <2>3 DEF Sync, Refuse
  <2>4. QED
    BY <1>4, <2>1, <2>2, <2>3
<1>5. QED
  BY <1>2, <1>3, <1>4 DEF Proceed

\* setRoles reaches the requested affiliations from any others, in any order
\* of its loops and whatever other calls do; it is given up only where an
\* owner or admin is to be banned, never for the last owner.
THEOREM UpdateExactHolds == RoomSpec => UpdateExact
<1> DEFINE Exact(t) == ThreadAt(t, "done")' /\ aff' = th[t].req
           Banned(t) == /\ ThreadAt(t, "failed")'
                        /\ \E j \in Jid : MayBeInside(aff, j, th[t].req[j])
                        /\ \A j \in Jid :
                             th[t].req[j] \in {"owner", "admin", "member"} =>
                               aff'[j] = th[t].req[j]
           Step == \A t \in Thread : Ends(t, "update") =>
                     \/ ThreadAt(t, "done")' /\ aff' = th[t].req
                     \/ /\ ThreadAt(t, "failed")'
                        /\ \E j \in Jid : MayBeInside(aff, j, th[t].req[j])
                        /\ \A j \in Jid :
                             th[t].req[j] \in {"owner", "admin", "member"} =>
                               aff'[j] = th[t].req[j]
<1>1. ASSUME RoomInv, [RoomNext]_roomVars PROVE [Step]_roomVars
  <2> SUFFICES ASSUME RoomNext, NEW t \in Thread, Ends(t, "update")
               PROVE  Exact(t) \/ Banned(t)
    BY <1>1
  <2>1. /\ th[t] \in Locals /\ th[t].pc = "change" /\ th[t].op = "update"
        /\ th'[t].pc # "change" /\ aff \in Affiliations /\ exists
        /\ th \in [Thread -> Locals]
    BY <1>1 DEF RoomInv, RoomTypeOK, OneHolder, Ends, ThreadAt
  <2>4. CASE Sync(t)
    <3>1. th[t].req \in Affiliations /\ aff' = aff /\ \A j \in Jid : th[t].plan[j] = "keep"
      BY <2>1, <2>4 DEF Sync, Locals, Unchanged
    <3>2. \A j \in Jid : aff[j] = th[t].req[j]
      BY <1>1, <2>1, <3>1 DEF RoomInv, RolesGiven
    <3>3. aff = th[t].req
      BY <2>1, <3>1, <3>2 DEF Affiliations
    <3>4. th'[t].pc = "done"
      BY <2>1, <2>4, CallEnds DEF Sync, Goes
    <3>5. QED
      BY <3>1, <3>3, <3>4 DEF ThreadAt
  <2>5. ASSUME NEW j \in Jid, Refuse(t, j) PROVE Banned(t)
    <3>1. PICK i \in Jid : th[t].req[i] = "owner"
      BY <1>1, <2>1 DEF RoomInv, RolesGiven, With
    <3>2. /\ th[t].plan[j] \in Affiliation \cup {"none"} /\ th[t].plan[j] # "owner"
          /\ th[t].plan[j] = th[t].req[j]
      BY <1>1, <2>1, <2>5 DEF Refuse, Turn, Conflict, MayBeInside, Locals,
         Plan, RoomInv, RolesGiven
    <3>3. th[t].plan[i] = "keep"
      BY <1>1, <2>1, <2>5, <3>1, <3>2, LoopOrder DEF Refuse, Turn, RoomInv,
         RolesGiven, Affiliation
    <3>4. aff[i] = "owner"
      BY <1>1, <2>1, <3>1, <3>3 DEF RoomInv, RolesGiven
    <3>5. MayBeInside(aff, j, th[t].req[j])
      BY <2>5, <3>1, <3>2, <3>4 DEF Refuse, Conflict, With
    <3>6. ASSUME NEW k \in Jid, th[t].req[k] \in {"owner", "admin", "member"}
          PROVE  aff'[k] = th[t].req[k]
      <4>1. th[t].plan[j] = "outcast" /\ ~Earlier(th[t].plan[k], "outcast")
        BY <2>5, <3>2, <3>5 DEF Refuse, Turn, MayBeInside
      <4>2. th[t].plan[k] = "keep"
        BY <1>1, <2>1, <3>6, <4>1, LoopOrder DEF RoomInv, RolesGiven
      <4>3. QED
        BY <1>1, <2>1, <2>5, <4>2 DEF RoomInv, RolesGiven, Refuse
    <3>7. th'[t].pc = "failed"
      BY <2>1, <2>5, CallEnds DEF Refuse, Goes
    <3>8. QED
      BY <3>5, <3>6, <3>7 DEF ThreadAt
  <2>6. QED
    BY <1>1, <2>1, <2>4, <2>5, ChangeStep
<1>2. QED
  BY <1>1, RoomInvariant, PTL DEF RoomSpec, UpdateExact

-----------------------------------------------------------------------------
(* Rooms, when no other call comes between the two uses of the lock of a   *)
(* call that replaces a list.                                              *)

Busy(l) == l.pc \in {"apply", "change"}

\* The list that was read is still the list of the affiliation.  In the loops
\* a user who is done has the affiliation just when he or she is wanted, and
\* one who is not is given it, or loses it.
Replacing(l) ==
  /\ l.pc = "apply" /\ exists => l.old = With(aff, l.list)
  /\ l.pc = "change" /\ l.op = "replace" =>
       /\ l.list \in Affiliation
       /\ \A j \in Jid :
            IF l.plan[j] = "keep" THEN j \in l.want <=> aff[j] = l.list
            ELSE IF j \in l.want THEN l.plan[j] = l.list
            ELSE l.plan[j] = "none" /\ aff[j] = l.list

SerialRoomInv ==
  /\ RoomInv
  /\ \A t, o \in Thread : Busy(th[t]) /\ Busy(th[o]) => t = o
  /\ \A t \in Thread : Replacing(th[t])

\* The call of t moves on to locals l; the room stays as it is.
LEMMA SerialMoves ==
  ASSUME SerialRoomInv, RoomInv', NEW t \in Thread, NEW l \in Locals,
         th' = [th EXCEPT ![t] = l], exists' = exists, aff' = aff,
         Busy(l) => \A o \in Thread \ {t} : ~Busy(th[o]),
         Replacing(l)
  PROVE  SerialRoomInv'
<1>1. th'[t] = l /\ \A o \in Thread \ {t} : th'[o] = th[o]
  BY DEF SerialRoomInv, RoomInv, RoomTypeOK
<1>2. \A o, p \in Thread : Busy(th'[o]) /\ Busy(th'[p]) => o = p
  BY <1>1 DEF SerialRoomInv
<1>3. ASSUME NEW o \in Thread PROVE Replacing(th[o])'
  <2>1. Replacing(th'[o])
    BY <1>1 DEF SerialRoomInv
  <2>2. QED
    BY <2>1 DEF Replacing, With
<1>4. QED
  BY <1>2, <1>3 DEF SerialRoomInv, Busy

\* Whatever happens to a room while no call is busy with it.
LEMMA QuietRoom ==
  ASSUME RoomInv', NEW t \in Thread, \A o \in Thread \ {t} : ~Busy(th[o]),
         th' = [th EXCEPT ![t] = th'[t]], th \in [Thread -> Locals],
         Replacing(th[t])'
  PROVE  SerialRoomInv'
<1>1. \A o \in Thread \ {t} : th'[o] = th[o]
  OBVIOUS
<1>2. \A o, p \in Thread : Busy(th'[o]) /\ Busy(th'[p]) => o = p
  BY <1>1
<1>3. \A o \in Thread \ {t} : Replacing(th[o])'
  BY <1>1 DEF Replacing, Busy
<1>4. QED
  BY <1>2, <1>3 DEF SerialRoomInv, Busy

LEMMA SerialUpdate ==
  ASSUME SerialRoomInv, RoomInv', NEW t \in Thread, Quiet,
         NEW req \in Requested, Update(t, req)
  PROVE  SerialRoomInv'
<1>1. th \in [Thread -> Locals] /\ \A o \in Thread : ~Busy(th[o])
  BY DEF SerialRoomInv, RoomInv, RoomTypeOK, Quiet, ThreadAt, Busy
<1>2. PICK p : th' = [th EXCEPT ![t] = [NoCall EXCEPT !.pc = "change", !.op = "update",
                                               !.req = req, !.plan = p]]
  BY DEF Update, Goes
<1>3. th'[t].pc = "change" /\ th'[t].op = "update" /\ th' = [th EXCEPT ![t] = th'[t]]
  BY <1>1, <1>2 DEF NoCall
<1>4. Replacing(th[t])'
  BY <1>3 DEF Replacing
<1>5. QED
  BY <1>1, <1>3, <1>4, QuietRoom

LEMMA SerialRead ==
  ASSUME SerialRoomInv, RoomInv', NEW t \in Thread, Quiet,
         NEW op \in {"replace", "add"}, NEW a \in Affiliation,
         NEW want \in SUBSET Jid, Read(t, op, a, want)
  PROVE  SerialRoomInv'
<1>1. th \in [Thread -> Locals] /\ \A o \in Thread : ~Busy(th[o])
  BY DEF SerialRoomInv, RoomInv, RoomTypeOK, Quiet, ThreadAt, Busy
<1> DEFINE old == With(aff, a)
           l == [NoCall EXCEPT !.pc = "apply", !.op = op, !.list = a,
                                   !.want = want, !.old = old]
<1>2. th' = [th EXCEPT ![t] = l] /\ aff' = aff
  BY DEF Read, Goes
<1>3. old' = old
  BY <1>2 DEF With
<1> HIDE DEF old
<1>4. l.pc = "apply" /\ l.list = a /\ l.old = old
  BY DEF NoCall
<1> HIDE DEF l
<1>5. th'[t] = l /\ th' = [th EXCEPT ![t] = th'[t]]
  BY <1>1, <1>2
<1>6. Replacing(th[t])'
  <2>1. th'[t].pc = "apply" /\ th'[t].old = With(aff', th'[t].list)
    BY <1>2, <1>4, <1>5 DEF old
  <2>2. QED
    BY <2>1 DEF Replacing, With
<1>7. QED
  BY <1>1, <1>5, <1>6, QuietRoom

LEMMA SerialDelete ==
  ASSUME SerialRoomInv, RoomInv', NEW t \in Thread, Quiet,
         NEW a \in Affiliation \cup {Nil}, NEW j \in Jid,
         DeleteAffiliation(t, a, j)
  PROVE  SerialRoomInv'
<1>1. th \in [Thread -> Locals] /\ \A o \in Thread : ~Busy(th[o])
  BY DEF SerialRoomInv, RoomInv, RoomTypeOK, Quiet, ThreadAt, Busy
<1>2. PICK p : th' = [th EXCEPT ![t] = [NoCall EXCEPT !.pc = "change", !.op = "delete",
                                               !.plan = p]]
  BY DEF DeleteAffiliation, Goes
<1>3. th'[t].pc = "change" /\ th'[t].op = "delete" /\ th' = [th EXCEPT ![t] = th'[t]]
  BY <1>1, <1>2 DEF NoCall
<1>4. Replacing(th[t])'
  BY <1>3 DEF Replacing
<1>5. QED
  BY <1>1, <1>3, <1>4, QuietRoom

\* The second use of the lock finds the list as the first one read it.
LEMMA SerialApply ==
  ASSUME SerialRoomInv, RoomInv', NEW t \in Thread, Apply(t)
  PROVE  SerialRoomInv'
<1>1. /\ th \in [Thread -> Locals] /\ th[t] \in Locals
      /\ th[t].list \in Affiliation
      /\ exists => th[t].old = With(aff, th[t].list)
      /\ \A o \in Thread \ {t} : ~Busy(th[o])
      /\ exists' = exists /\ aff' = aff /\ aff \in Affiliations
  BY DEF SerialRoomInv, RoomInv, RoomTypeOK, RolesGiven, Replacing, Apply, ThreadAt, Busy
<1>2. CASE th' = [th EXCEPT ![t] = [NoCall EXCEPT !.pc = "failed"]]
  BY <1>1, <1>2, CallEnds, SerialMoves DEF Replacing, Busy
<1>3. ASSUME NEW p \in Plan, exists,
             th' = [th EXCEPT ![t] = [th[t] EXCEPT !.pc = "change", !.plan = p]],
             th[t].op = "replace" => p = Replacement(th[t])
      PROVE  SerialRoomInv'
  <2> DEFINE l == [th[t] EXCEPT !.pc = "change", !.plan = p]
  <2>1. /\ l \in Locals /\ l.pc = "change" /\ l.op = th[t].op /\ l.list = th[t].list
        /\ l.want = th[t].want /\ l.plan = p
    BY <1>1, <1>3 DEF Locals
  <2>2. th' = [th EXCEPT ![t] = l]
    BY <1>3
  <2> HIDE DEF l
  <2>3. ASSUME th[t].op = "replace", NEW j \in Jid
        PROVE  IF p[j] = "keep" THEN j \in th[t].want <=> aff[j] = th[t].list
               ELSE IF j \in th[t].want THEN p[j] = th[t].list
               ELSE p[j] = "none" /\ aff[j] = th[t].list
    <3>1. p[j] = IF j \in th[t].want \ th[t].old THEN th[t].list
                 ELSE IF j \in th[t].old \ th[t].want THEN "none" ELSE "keep"
      BY <1>1, <1>3, <2>3, PlanOfList
    <3>2. j \in th[t].old <=> aff[j] = th[t].list
      BY <1>1, <1>3 DEF With
    <3>3. QED
      BY <1>1, <3>1, <3>2 DEF Affiliation
  <2>4. Replacing(l)
    BY <1>1, <2>1, <2>3 DEF Replacing
  <2>5. QED
    BY <1>1, <2>1, <2>2, <2>4, SerialMoves
<1>4. Replacement(th[t]) \in Plan /\ Addition(th[t]) \in Plan
  BY <1>1, PlanOfList
<1>5. QED
  BY <1>2, <1>3, <1>4 DEF Apply, Goes

LEMMA SerialGive ==
  ASSUME SerialRoomInv, RoomInv', NEW t \in Thread, NEW j \in Jid, Give(t, j)
  PROVE  SerialRoomInv'
<1>1. RoomInv /\ th \in [Thread -> Locals] /\ Replacing(th[t]) /\ th[t].plan[j] # "keep"
      /\ th[t].plan[j] \in Affiliation \cup {"none", "keep"}
  BY DEF SerialRoomInv, RoomInv, RoomTypeOK, Give, Turn, Locals, Plan
<1>2. \A o \in Thread \ {t} : ~Busy(th[o])
  BY <1>1, GiveIs DEF SerialRoomInv, Busy
<1>3. th' = [th EXCEPT ![t] = th'[t]]
  BY <1>1 DEF Give, Goes
<1>4. th'[t].pc = "change" /\ th[t].pc = "change" /\ th'[t].op = th[t].op
      /\ th'[t].list = th[t].list /\ th'[t].want = th[t].want
  BY <1>1, GiveIs
<1>5. ASSUME th[t].op = "replace", NEW i \in Jid
      PROVE  IF th'[t].plan[i] = "keep" THEN i \in th[t].want <=> aff'[i] = th[t].list
             ELSE IF i \in th[t].want THEN th'[t].plan[i] = th[t].list
             ELSE th'[t].plan[i] = "none" /\ aff'[i] = th[t].list
  <2>1. CASE i = j
    BY <1>1, <1>4, <1>5, <2>1, GiveIs DEF Replacing, Affiliation
  <2>2. CASE i # j
    BY <1>1, <1>4, <1>5, <2>2, GiveIs DEF Replacing
  <2>3. QED
    BY <2>1, <2>2
<1>6. th[t].op = "replace" => th[t].list \in Affiliation
  BY <1>1, <1>4 DEF Replacing
<1>7. Replacing(th[t])'
  BY <1>4, <1>5, <1>6 DEF Replacing, Affiliation
<1>8. QED
  BY <1>1, <1>2, <1>3, <1>7, QuietRoom

LEMMA SerialEnd ==
  ASSUME SerialRoomInv, RoomInv', NEW t \in Thread,
         (\E j \in Jid : Refuse(t, j)) \/ Sync(t) \/ Answer(t)
  PROVE  SerialRoomInv'
<1>1. exists' = exists /\ aff' = aff
  BY DEF Refuse, Sync, Answer
<1>2. \/ th' = [th EXCEPT ![t] = NoCall]
      \/ \E s \in {"done", "failed"} : th' = [th EXCEPT ![t] = [NoCall EXCEPT !.pc = s]]
  BY DEF Refuse, Sync, Answer, Goes
<1>3. QED
  BY <1>1, <1>2, RoomConstants, CallEnds, SerialMoves DEF Replacing, Busy

LEMMA SerialRoomNext == SerialRoomInv /\ [SerialNext]_roomVars => SerialRoomInv'
<1> SUFFICES ASSUME SerialRoomInv, [SerialNext]_roomVars PROVE SerialRoomInv'
  OBVIOUS
<1>1. RoomInv'
  <2>1. SerialNext => RoomNext
    BY DEF SerialNext, RoomNext
  <2>2. QED
    BY <2>1, RoomSteps DEF SerialRoomInv
<1>2. ASSUME NEW t \in Thread, Quiet, Begin(t) PROVE SerialRoomInv'
  BY <1>1, <1>2, SerialUpdate, SerialRead, SerialDelete DEF Begin
<1>3. ASSUME NEW t \in Thread, Proceed(t) PROVE SerialRoomInv'
  BY <1>1, <1>3, SerialApply, SerialGive, SerialEnd DEF Proceed
<1>4. ASSUME NEW t \in Thread, DeleteChatRoom(t) PROVE SerialRoomInv'
  <2>1. th' = th /\ exists' = FALSE /\ \A o \in Thread : th[o].pc # "change"
    BY <1>4 DEF DeleteChatRoom, Unlocked, ThreadAt
  <2>2. QED
    BY <1>1, <2>1 DEF SerialRoomInv, Replacing, Busy
<1>5. CASE Quiet /\ \E j \in Jid, a \in Affiliation \cup {"none"} : Grant(j, a)
  <2>1. th' = th /\ \A o \in Thread : th[o].pc # "change" /\ th[o].pc # "apply"
    BY <1>5 DEF Grant, Quiet, ThreadAt
  <2>2. QED
    BY <1>1, <2>1 DEF SerialRoomInv, Replacing, Busy
<1>6. CASE UNCHANGED roomVars
  BY <1>1, <1>6 DEF roomVars, SerialRoomInv, Replacing, Busy, With
<1>7. QED
  BY <1>2, <1>3, <1>4, <1>5, <1>6 DEF SerialNext

LEMMA SerialRoomInit == RoomInit => SerialRoomInv
<1> SUFFICES ASSUME RoomInit PROVE SerialRoomInv
  OBVIOUS
<1>1. \A t \in Thread : th[t].pc = "idle"
  BY RoomConstants DEF RoomInit
<1>2. QED
  BY <1>1, RoomStarts DEF SerialRoomInv, Replacing, Busy

\* The invariant of a room whose changes come one after the other.
THEOREM SerialRoomInvariant == SerialSpec => []SerialRoomInv
BY SerialRoomInit, SerialRoomNext, PTL DEF SerialSpec

\* A replacement that comes to its end has left exactly the replacements
\* with the affiliation.
THEOREM ReplaceExactHolds == SerialSpec => ReplaceExact
<1> DEFINE Step == \A t \in Thread :
       Ends(t, "replace") /\ ThreadAt(t, "done")'
         => With(aff', th[t].list) = th[t].want
<1>1. ASSUME SerialRoomInv, [SerialNext]_roomVars PROVE [Step]_roomVars
  <2> SUFFICES ASSUME SerialNext, NEW t \in Thread, Ends(t, "replace"),
                      ThreadAt(t, "done")'
               PROVE  With(aff', th[t].list) = th[t].want
    BY <1>1
  <2>1. /\ th[t] \in Locals /\ th[t].pc = "change" /\ th[t].op = "replace"
        /\ th'[t].pc = "done" /\ RoomInv /\ Replacing(th[t])
        /\ th \in [Thread -> Locals]
    BY <1>1 DEF SerialRoomInv, RoomInv, RoomTypeOK, Ends, ThreadAt
  <2>2. ~ \E j \in Jid : Refuse(t, j)
    <3>1. ASSUME NEW j \in Jid, Refuse(t, j) PROVE th'[t].pc = "failed"
      BY <2>1, <3>1, CallEnds DEF Refuse, Goes
    <3>2. QED
      BY <2>1, <3>1
  <2>3. Sync(t)
    BY <2>1, <2>2, ChangeStep DEF SerialNext, RoomNext
  <2>4. aff' = aff /\ th[t].want \subseteq Jid /\ \A j \in Jid : th[t].plan[j] = "keep"
    BY <2>1, <2>3 DEF Sync, Locals, Unchanged
  <2>5. \A j \in Jid : j \in th[t].want <=> aff'[j] = th[t].list
    BY <2>1, <2>4 DEF Replacing
  <2>6. QED
    BY <2>4, <2>5 DEF With
<1>2. QED
  BY <1>1, SerialRoomInvariant, PTL DEF SerialSpec, ReplaceExact

\* While a list is replaced, whoever is not a replacement and does not have
\* the affiliation keeps the one he or she has.
THEOREM OthersKeepAffiliationHolds == SerialSpec => OthersKeepAffiliation
<1> DEFINE Step == \A t \in Thread : ThreadAt(t, "change") /\ th[t].op = "replace" =>
                     \A j \in Jid \ th[t].want : aff[j] # th[t].list => aff'[j] = aff[j]
<1>1. ASSUME SerialRoomInv, [SerialNext]_roomVars PROVE [Step]_roomVars
  <2> SUFFICES ASSUME SerialNext, NEW t \in Thread, th[t].pc = "change",
                      th[t].op = "replace", NEW j \in Jid \ th[t].want, aff[j] # th[t].list
               PROVE  aff'[j] = aff[j]
    BY <1>1 DEF ThreadAt
  <2>1. RoomInv /\ Replacing(th[t])
    BY <1>1 DEF SerialRoomInv
  <2>2. aff' # aff => \E i \in Jid : Give(t, i)
    BY <2>1, ChangeStep DEF SerialNext, RoomNext
  <2>3. ASSUME NEW i \in Jid, Give(t, i) PROVE aff'[j] = aff[j]
    <3>1. th[t].plan[i] # "keep"
      BY <2>3 DEF Give, Turn
    <3>2. i # j
      BY <2>1, <3>1 DEF Replacing
    <3>3. QED
      BY <2>1, <2>3, <3>2, GiveIs
  <2>4. QED
    BY <2>2, <2>3
<1>2. QED
  BY <1>1, SerialRoomInvariant, PTL DEF SerialSpec, OthersKeepAffiliation

\* The owners can be replaced by any others that are not nobody: when an old
\* owner is taken away, the new ones have been added.
THEOREM OwnersReplaceableHolds == SerialSpec => OwnersReplaceable
<1> DEFINE Step == \A t \in Thread :
       Ends(t, "replace") /\ ThreadAt(t, "failed")' /\ th[t].list = "owner"
         => th[t].want = {}
<1>1. ASSUME SerialRoomInv, [SerialNext]_roomVars PROVE [Step]_roomVars
  <2> SUFFICES ASSUME SerialNext, NEW t \in Thread, Ends(t, "replace"),
                      ThreadAt(t, "failed")', th[t].list = "owner",
                      NEW k \in th[t].want
               PROVE  FALSE
    BY <1>1
  <2>1. /\ th[t] \in Locals /\ th[t].pc = "change" /\ th[t].op = "replace"
        /\ th'[t].pc = "failed" /\ RoomInv /\ Replacing(th[t])
        /\ th \in [Thread -> Locals] /\ k \in Jid
    BY <1>1 DEF SerialRoomInv, RoomInv, RoomTypeOK, Ends, ThreadAt, Locals
  <2>2. ~ Sync(t)
    <3>1. Sync(t) => th'[t].pc = "done"
      BY <2>1, CallEnds DEF Sync, Goes
    <3>2. QED
      BY <2>1, <3>1
  <2>3. PICK j \in Jid : Refuse(t, j)
    BY <2>1, <2>2, ChangeStep DEF SerialNext, RoomNext
  <2>4. /\ th[t].plan[j] = "none" /\ With(aff, "owner") = {j} /\ j \notin th[t].want
    BY <2>1, <2>3 DEF Refuse, Turn, Conflict, MayBeInside, Replacing
  <2>5. th[t].plan[k] # "owner"
    BY <2>1, <2>3, <2>4, LoopOrder DEF Refuse, Turn
  <2>6. aff[k] = "owner"
    BY <2>1, <2>5 DEF Replacing
  <2>7. QED
    BY <2>1, <2>4, <2>6 DEF With
<1>2. QED
  BY <1>1, SerialRoomInvariant, PTL DEF SerialSpec, OwnersReplaceable
=============================================================================
