--------------------------- MODULE WebPushProofs ---------------------------
(***************************************************************************)
(* What holds of web push for any number of users, subscriptions, threads  *)
(* and key pairs.                                                          *)
(***************************************************************************)
EXTENDS WebPush, TLAPS

\* A thread at work knows its user, and one that stores keys has some.
LocalsOK ==
  \A t \in Thread :
    /\ th[t].pc # "idle" => th[t].user \in User
    /\ th[t].pc \in {"putPublic", "putPrivate"} => th[t].pub \in Key

\* The assumption of SerialSpec, as a state predicate.
OneFetch ==
  \A t1, t2 \in Thread :
    Fetching(t1) /\ Fetching(t2) /\ th[t1].user = th[t2].user => t1 = t2

-----------------------------------------------------------------------------
(* Whatever is cleared, fails or is interrupted                            *)

Stored(k) == k = None \/ k \in 1 .. made

StoredMade == \A u \in User : Stored(pub[u]) /\ Stored(priv[u])

Complete(u) == pub[u] = priv[u] /\ pub[u] # None

\* A thread generates and stores a pair only while its user has none, and
\* what it stores is new.
FetchFresh ==
  \A t \in Thread :
    /\ At(t, "readPrivate") /\ th[t].pub = None => pub[th[t].user] = None
    /\ th[t].pc \in {"generate", "putPublic"} => ~Complete(th[t].user)
    /\ th[t].pc \in {"putPublic", "putPrivate"} =>
         /\ th[t].priv = th[t].pub /\ th[t].pub \in 1 .. made
         /\ priv[th[t].user] # th[t].pub
    /\ At(t, "putPrivate") => pub[th[t].user] \in {th[t].pub, None}

PairInv == TypeOK /\ LocalsOK /\ OneFetch /\ StoredMade /\ FetchFresh

-----------------------------------------------------------------------------
(* The users who are not in touched                                        *)

\* A stored private key is the other half of the stored public one.
PairStored ==
  \A u \in User \ touched : priv[u] # None => pub[u] = priv[u]

\* Nobody clears the properties of such a user, and what a thread knows that
\* fetches a key for him.
FetchKnows ==
  \A t \in Thread :
    /\ At(t, "clear") => th[t].user \in touched
    /\ th[t].user \notin touched =>
         /\ At(t, "readPrivate") => th[t].pub = pub[th[t].user]
         /\ th[t].pc \in {"generate", "putPublic", "putPrivate"} =>
              priv[th[t].user] = None
         /\ At(t, "putPrivate") => pub[th[t].user] = th[t].pub

KeyInv == PairInv /\ PairStored /\ FetchKnows /\ GivenKeySigns

\* Subscriptions are made with keys that were answered.
SubscribedWithGiven ==
  \A u \in User, r \in Resource : subs[u][r] \in given[u] \cup {None}

\* A notification asked for when there were subscriptions is signed with the
\* stored pair.
SendKnows ==
  \A t \in Thread : th[t].user \notin touched =>
    /\ th[t].pc \in {"readSigning", "readSigningPrivate", "loop"} =>
         \A r \in th[t].since : subs[th[t].user][r] # None
    /\ At(t, "readSigningPrivate") /\ th[t].since # {} =>
         th[t].pub = pub[th[t].user]
    /\ At(t, "loop") /\ th[t].since # {} =>
         th[t].pub = pub[th[t].user] /\ th[t].priv = th[t].pub

SendInv == KeyInv /\ SubscribedWithGiven /\ SendKnows

-----------------------------------------------------------------------------
LEMMA NoneIsNoKey == None \notin Key /\ Global \notin 1 .. MaxKey
BY WebPushAssumption DEF Key

LEMMA IdleTyped == Idle \in Locals
BY DEF Idle, Entry, Locals

LEMMA EntryTyped ==
  ASSUME NEW u \in User, NEW s \in {"readPublic", "readSigning", "clear"},
         NEW rs \in SUBSET Resource
  PROVE  Entry(s, u, rs) \in Locals
BY DEF Entry, Locals

\* The types of the fields of a thread.
LEMMA FieldTypes ==
  ASSUME NEW l \in Locals
  PROVE  /\ l.user \in User \cup {None}
         /\ l.pub \in Key \cup {None}
         /\ l.priv \in Key \cup {None}
         /\ l.since \in SUBSET Resource
         /\ l.tried \in SUBSET Resource
BY DEF Locals

\* What the updates a step makes to its local variables do.
WorkStep == {"readPrivate", "generate", "putPublic", "putPrivate",
             "readSigningPrivate", "loop", "answer"}

LEMMA SetPc ==
  ASSUME NEW l \in Locals, NEW s \in WorkStep
  PROVE  LET m == [l EXCEPT !.pc = s]
         IN  /\ m \in Locals /\ m.user = l.user /\ m.pc = s /\ m.pub = l.pub
             /\ m.priv = l.priv /\ m.since = l.since
BY DEF Locals, WorkStep

LEMMA InitTyped == Init => TypeOK /\ LocalsOK
BY WebPushAssumption, IdleTyped DEF Init, TypeOK, LocalsOK, Idle, Entry

\* The serial steps are steps.
LEMMA SerialIsNext == SerialNext => Next
BY DEF SerialNext, Next

LEMMA TypeStep == TypeOK /\ LocalsOK /\ [Next]_vars => TypeOK' /\ LocalsOK'
<1> SUFFICES ASSUME TypeOK, LocalsOK, [Next]_vars PROVE TypeOK' /\ LocalsOK'
  OBVIOUS
<1> USE DEF TypeOK, LocalsOK, At, Becomes, Goto, keypair
<1>th. ASSUME NEW t \in Thread
       PROVE  /\ th[t] \in Locals
              /\ th[t].user \in User \cup {None}
              /\ th[t].pub \in Key \cup {None}
              /\ th[t].priv \in Key \cup {None}
              /\ th[t].tried \in SUBSET Resource
              /\ th[t].pc # "idle" => th[t].user \in User
              /\ th[t].pc \in {"putPublic", "putPrivate"} => th[t].pub \in Key
  BY FieldTypes
<1>id. Idle \in Locals /\ Idle.pc = "idle"
  BY IdleTyped DEF Idle, Entry
<1>pc. ASSUME NEW t \in Thread, NEW l \in Locals,
              l.pc # "idle" => l.user \in User,
              l.pc \in {"putPublic", "putPrivate"} => l.pub \in Key,
              th' = [th EXCEPT ![t] = l]
       PROVE  th' \in [Thread -> Locals] /\ LocalsOK'
  BY <1>pc, <1>th
<1>give. ASSUME NEW t \in Thread, NEW k \in Key, th[t].pc # "idle", Given(t, k)
         PROVE  given' \in [User -> SUBSET Key] /\ th' \in [Thread -> Locals] /\ LocalsOK'
  <2>1. given' \in [User -> SUBSET Key]
    BY <1>give, <1>th DEF Given
  <2>2. QED
    BY <2>1, <1>give, <1>id, <1>pc DEF Given
<1>1. CASE UNCHANGED vars
  BY <1>1 DEF vars
<1>2. CASE Others
  <2>1. ASSUME NEW u \in User, NEW r \in Resource, Subscribe(u, r)
        PROVE  TypeOK' /\ LocalsOK'
    BY <2>1 DEF Subscribe
  <2>2. CASE Restart
    BY <2>2, <1>id DEF Restart
  <2>3. QED
    BY <1>2, <2>1, <2>2 DEF Others
<1>3. ASSUME NEW t \in Thread, NEW u \in User,
             FetchKey(t, u) \/ Notify(t, u) \/ Clear(t, u)
      PROVE  TypeOK' /\ LocalsOK'
  <2>0. Subscribed(u) \in SUBSET Resource /\ {} \in SUBSET Resource
    BY DEF Subscribed
  <2>1. \A s \in {"readPublic", "readSigning", "clear"}, rs \in SUBSET Resource :
          /\ Entry(s, u, rs) \in Locals
          /\ Entry(s, u, rs).user = u /\ Entry(s, u, rs).pc = s
    BY EntryTyped DEF Entry
  <2>2. PICK s \in {"readPublic", "readSigning", "clear"}, rs \in SUBSET Resource :
          th' = [th EXCEPT ![t] = Entry(s, u, rs)]
    BY <1>3, <2>0 DEF FetchKey, Notify, Clear
  <2>3. th' \in [Thread -> Locals] /\ LocalsOK'
    BY <2>1, <2>2, <1>pc
  <2>4. touched' \in SUBSET User /\ UNCHANGED <<keypair, subs, given>>
    BY <1>3 DEF FetchKey, Notify, Clear
  <2>5. QED
    BY <2>3, <2>4
<1>4. ASSUME NEW t \in Thread, FetchStep(t) PROVE TypeOK' /\ LocalsOK'
  <2>1. CASE ReadPublic(t)
    <3>1. pub[th[t].user] \in Key \cup {None}
      BY <2>1, <1>th DEF ReadPublic
    <3> DEFINE l == [th[t] EXCEPT !.pub = pub[th[t].user], !.pc = "readPrivate"]
    <3>2. l \in Locals /\ l.user = th[t].user /\ l.pc = "readPrivate"
      BY <3>1, <1>th DEF Locals
    <3>3. th' = [th EXCEPT ![t] = l] /\ th[t].pc # "idle"
      BY <2>1 DEF ReadPublic
    <3> HIDE DEF l
    <3>4. QED
      BY <2>1, <3>2, <3>3, <1>th, <1>pc DEF ReadPublic
  <2>2. CASE ReadPrivate(t)
    <3>1. CASE Goto(t, "generate") /\ UNCHANGED given
      BY <2>2, <3>1, <1>th, SetPc, <1>pc DEF ReadPrivate, WorkStep
    <3>2. CASE th[t].pub # None /\ Given(t, th[t].pub)
      BY <2>2, <3>2, <1>th, <1>give DEF ReadPrivate
    <3>3. QED
      BY <2>2, <3>1, <3>2 DEF ReadPrivate
  <2>3. CASE Generate(t)
    <3>1. made' \in 0 .. MaxKey /\ made' \in Key
      BY <2>3, WebPushAssumption DEF Generate, Key
    <3> DEFINE l == [th[t] EXCEPT !.pub = made', !.priv = made', !.pc = "putPublic"]
    <3>2. l \in Locals /\ l.user = th[t].user /\ l.pc = "putPublic" /\ l.pub \in Key
      BY <3>1, <1>th DEF Locals
    <3>3. th' = [th EXCEPT ![t] = l] /\ th[t].pc # "idle"
      BY <2>3 DEF Generate
    <3> HIDE DEF l
    <3>4. QED
      BY <2>3, <3>1, <3>2, <3>3, <1>th, <1>pc DEF Generate
  <2>4. CASE GenerateFails(t)
    <3>1. touched' \in SUBSET User /\ UNCHANGED <<keypair, subs>>
      BY <2>4, <1>th DEF GenerateFails
    <3>2. CASE th[t].pub # None /\ Given(t, th[t].pub)
      BY <2>4, <3>1, <3>2, <1>th, <1>give DEF GenerateFails
    <3>3. CASE Given(t, Global)
      BY <2>4, <3>1, <3>3, <1>th, <1>give DEF GenerateFails, Key
    <3>4. CASE Becomes(t, Idle) /\ UNCHANGED given
      BY <2>4, <3>1, <3>4, <1>id, <1>pc
    <3>5. QED
      BY <2>4, <3>2, <3>3, <3>4 DEF GenerateFails
  <2>5. CASE PutPublic(t)
    <3> DEFINE l == [th[t] EXCEPT !.pc = "putPrivate"]
    <3>1. l \in Locals /\ l.user = th[t].user /\ l.pc = "putPrivate" /\ l.pub = th[t].pub
      BY <1>th DEF Locals
    <3>2. th' = [th EXCEPT ![t] = l] /\ th[t].pc # "idle"
      BY <2>5 DEF PutPublic
    <3> HIDE DEF l
    <3>3. QED
      BY <2>5, <3>1, <3>2, <1>th, <1>pc DEF PutPublic
  <2>6. CASE PutPrivate(t)
    <3>1. th[t].pub \in Key /\ th[t].pc # "idle"
      BY <2>6, <1>th DEF PutPrivate
    <3>2. priv' \in [User -> Key \cup {None}] /\ UNCHANGED <<pub, made, subs, touched>>
      BY <2>6, <1>th DEF PutPrivate
    <3>3. QED
      BY <2>6, <3>1, <3>2, <1>give DEF PutPrivate
  <2>7. CASE PutFails(t)
    <3>1. th[t].pub \in Key /\ th[t].pc # "idle"
      BY <2>7, <1>th DEF PutFails
    <3>2. touched' \in SUBSET User /\ UNCHANGED <<keypair, subs>>
      BY <2>7, <1>th DEF PutFails
    <3>3. QED
      BY <2>7, <3>1, <3>2, <1>give DEF PutFails
  <2>8. QED
    BY <1>4, <2>1, <2>2, <2>3, <2>4, <2>5, <2>6, <2>7 DEF FetchStep
<1>5. ASSUME NEW t \in Thread, NotifyStep(t) PROVE TypeOK' /\ LocalsOK'
  <2>1. CASE ReadSigning(t)
    <3>1. pub[th[t].user] \in Key \cup {None}
      BY <2>1, <1>th DEF ReadSigning
    <3> DEFINE l == [th[t] EXCEPT !.pub = pub[th[t].user], !.pc = "readSigningPrivate"]
    <3>2. l \in Locals /\ l.user = th[t].user /\ l.pc = "readSigningPrivate"
      BY <3>1, <1>th DEF Locals
    <3>3. th' = [th EXCEPT ![t] = l] /\ th[t].pc # "idle"
      BY <2>1 DEF ReadSigning
    <3> HIDE DEF l
    <3>4. QED
      BY <2>1, <3>2, <3>3, <1>th, <1>pc DEF ReadSigning
  <2>2. CASE ReadSigningPrivate(t)
    <3> DEFINE u == th[t].user
               half == th[t].pub = None \/ priv[u] = None
               p == IF half THEN Global ELSE th[t].pub
               q == IF half THEN Global ELSE priv[u]
               l == [th[t] EXCEPT !.pub = p, !.priv = q, !.todo = Subscribed(u),
                                  !.pc = "loop"]
    <3>1. p \in Key \cup {None} /\ q \in Key \cup {None}
      BY <2>2, <1>th DEF ReadSigningPrivate, Key
    <3>2. Subscribed(u) \in SUBSET Resource
      BY DEF Subscribed
    <3>3. l \in Locals /\ l.user = th[t].user /\ l.pc = "loop"
      BY <3>1, <3>2, <1>th DEF Locals
    <3>4. CASE Becomes(t, l)
      <4> HIDE DEF l
      <4>1. QED
        BY <2>2, <3>3, <3>4, <1>th, <1>pc DEF ReadSigningPrivate
    <3>5. CASE Goto(t, "answer")
      BY <2>2, <3>5, <1>th, SetPc, <1>pc DEF ReadSigningPrivate, WorkStep
    <3>6. QED
      BY <2>2, <3>4, <3>5 DEF ReadSigningPrivate
  <2>3. ASSUME NEW r \in Resource, Send(t, r) \/ SendFails(t, r)
        PROVE  TypeOK' /\ LocalsOK'
    <3> DEFINE d == th[t].tried \cup {r}
               s == IF Send(t, r) THEN "answer" ELSE "loop"
               l == [th[t] EXCEPT !.tried = d, !.pc = s]
    <3>1. d \in SUBSET Resource
      BY <1>th
    <3>2. l \in Locals /\ l.user = th[t].user /\ l.pc \in {"answer", "loop"}
      BY <3>1, <1>th DEF Locals
    <3>3. th[t].pc = "loop" /\ [th[t] EXCEPT !.tried = d] = [th[t] EXCEPT !.tried = d, !.pc = "loop"]
      BY <2>3, <1>th DEF Send, SendFails, Locals
    <3>4. th' = [th EXCEPT ![t] = l]
      BY <2>3, <3>3 DEF Send, SendFails
    <3> HIDE DEF l
    <3>5. QED
      BY <2>3, <3>2, <3>3, <3>4, <1>th, <1>pc DEF Send, SendFails
  <2>4. CASE LoopEnds(t)
    BY <2>4, <1>th, SetPc, <1>pc DEF LoopEnds, WorkStep
  <2>5. CASE Answer(t)
    BY <2>5, <1>id, <1>pc DEF Answer
  <2>6. QED
    BY <1>5, <2>1, <2>2, <2>3, <2>4, <2>5 DEF NotifyStep
<1>6. ASSUME NEW t \in Thread, ClearStep(t) PROVE TypeOK' /\ LocalsOK'
  <2>1. CASE ClearPublic(t)
    BY <2>1, <1>th DEF ClearPublic
  <2>2. CASE ClearPrivate(t)
    BY <2>2, <1>th DEF ClearPrivate
  <2>3. ASSUME NEW r \in Resource, ClearSubscription(t, r) PROVE TypeOK' /\ LocalsOK'
    BY <2>3, <1>th DEF ClearSubscription
  <2>4. CASE ClearEnds(t)
    BY <2>4, <1>id, <1>pc DEF ClearEnds
  <2>5. QED
    BY <1>6, <2>1, <2>2, <2>3, <2>4 DEF ClearStep
<1>7. QED
  BY <1>1, <1>2, <1>3, <1>4, <1>5, <1>6 DEF Next, Step

\* The variables keep their types.
THEOREM TypeCorrect == Spec => []TypeOK
BY InitTyped, TypeStep, PTL DEF Spec

-----------------------------------------------------------------------------
\* The steps of the calls that fetch no key: they leave keys alone or clear
\* them, and their thread stays outside the code that fetches.
Elsewhere(t) ==
  NotifyStep(t) \/ ClearStep(t) \/ \E u \in User : Notify(t, u) \/ Clear(t, u)

FetchPcs == {"readPublic", "readPrivate", "generate", "putPublic", "putPrivate"}

LEMMA ElsewhereLeaves ==
  ASSUME TypeOK, LocalsOK, NEW t \in Thread, Elsewhere(t)
  PROVE  /\ UNCHANGED <<made, given>>
         /\ th'[t].pc \in {"idle", "readSigning", "readSigningPrivate", "loop",
                           "answer", "clear"}
         /\ NotifyStep(t) => th'[t].pc # "clear"
         /\ \A o \in Thread : o # t => th'[o] = th[o]
<1> USE DEF TypeOK, At, Becomes, Goto, keypair
<1>th. th[t] \in Locals
  OBVIOUS
<1>1. ASSUME NEW u \in User, Notify(t, u) \/ Clear(t, u)
      PROVE  th'[t].pc \in {"readSigning", "clear"}
  BY <1>1 DEF Notify, Clear, Entry
<1>2. ReadSigning(t) => th'[t].pc = "readSigningPrivate"
  BY <1>th DEF ReadSigning, Locals
<1>3. ReadSigningPrivate(t) => th'[t].pc \in {"loop", "answer"}
  BY <1>th DEF ReadSigningPrivate, Locals
<1>4. ASSUME NEW r \in Resource, Send(t, r) PROVE th'[t].pc = "answer"
  BY <1>4, <1>th DEF Send, Locals
<1>5. ASSUME NEW r \in Resource, SendFails(t, r) PROVE th'[t].pc = "loop"
  BY <1>5, <1>th DEF SendFails, Locals
<1>6. LoopEnds(t) => th'[t].pc = "answer"
  BY <1>th DEF LoopEnds, Locals
<1>7. Answer(t) \/ ClearEnds(t) => th'[t].pc = "idle"
  BY DEF Answer, ClearEnds, Idle, Entry
<1>8. ASSUME NEW r \in Resource,
             ClearPublic(t) \/ ClearPrivate(t) \/ ClearSubscription(t, r)
      PROVE  th' = th /\ th[t].pc = "clear"
  BY <1>8 DEF ClearPublic, ClearPrivate, ClearSubscription
<1>9. ClearPublic(t) \/ ClearPrivate(t) => th' = th /\ th[t].pc = "clear"
  BY DEF ClearPublic, ClearPrivate
<1>10. /\ UNCHANGED <<made, given>>
       /\ \A o \in Thread : o # t => th'[o] = th[o]
  BY DEF Elsewhere, NotifyStep, ClearStep, Notify, Clear, ReadSigning,
         ReadSigningPrivate, Send, SendFails, LoopEnds, Answer, ClearPublic,
         ClearPrivate, ClearSubscription, ClearEnds
<1>11. QED
  BY <1>1, <1>2, <1>3, <1>4, <1>5, <1>6, <1>7, <1>8, <1>9, <1>10
     DEF Elsewhere, NotifyStep, ClearStep

\* Half a pair may go with it, if the thread is clearing.
LEMMA ElsewhereKeys ==
  ASSUME TypeOK, LocalsOK, NEW t \in Thread, Elsewhere(t), NEW u \in User
  PROVE  /\ \/ UNCHANGED <<pub, priv>>
            \/ /\ At(t, "clear") /\ th[t].user \in User
               /\ \/ pub' = [pub EXCEPT ![th[t].user] = None] /\ priv' = priv
                  \/ priv' = [priv EXCEPT ![th[t].user] = None] /\ pub' = pub
         /\ touched \subseteq touched'
<1>1. ClearPublic(t) => At(t, "clear") /\ pub' = [pub EXCEPT ![th[t].user] = None]
                        /\ priv' = priv /\ touched' = touched
  BY DEF ClearPublic
<1>2. ClearPrivate(t) => At(t, "clear") /\ priv' = [priv EXCEPT ![th[t].user] = None]
                         /\ pub' = pub /\ touched' = touched
  BY DEF ClearPrivate
<1>3. At(t, "clear") => th[t].user \in User
  BY DEF At, LocalsOK
<1>4. ASSUME ~ClearPublic(t), ~ClearPrivate(t)
      PROVE  UNCHANGED <<pub, priv>> /\ touched \subseteq touched'
  BY <1>4 DEF keypair, Elsewhere, NotifyStep, ClearStep, Notify, Clear,
         ReadSigning, ReadSigningPrivate, Send, SendFails, LoopEnds, Answer,
         ClearSubscription, ClearEnds
<1>5. QED
  BY <1>1, <1>2, <1>3, <1>4

\* What each step of a fetch does to its thread and to the keys.
LEMMA FetchEffects ==
  ASSUME TypeOK, LocalsOK, NEW t \in Thread, NEW u, u = th[t].user
  PROVE  /\ FetchStep(t) => /\ u \in User /\ Fetching(t) /\ UNCHANGED subs
                            /\ \A o \in Thread : o # t => th'[o] = th[o]
                            /\ touched' \in {touched, touched \cup {u}}
         /\ ReadPublic(t) =>
              /\ At(t, "readPublic") /\ UNCHANGED <<pub, priv, made, given, touched>>
              /\ th'[t].pc = "readPrivate" /\ th'[t].user = u /\ th'[t].pub = pub[u]
         /\ ReadPrivate(t) =>
              /\ At(t, "readPrivate") /\ UNCHANGED <<pub, priv, made, touched>>
              /\ \/ /\ th[t].pub = None \/ priv[u] = None
                    /\ th'[t].pc = "generate" /\ th'[t].user = u /\ UNCHANGED given
                 \/ /\ th[t].pub # None /\ priv[u] # None /\ th'[t].pc = "idle"
                    /\ given' = [given EXCEPT ![u] = @ \cup {th[t].pub}]
         /\ Generate(t) =>
              /\ At(t, "generate") /\ UNCHANGED <<pub, priv, given, touched>>
              /\ made' = made + 1 /\ made' \in 1 .. MaxKey
              /\ th'[t].pc = "putPublic" /\ th'[t].user = u
              /\ th'[t].pub = made' /\ th'[t].priv = made'
         /\ PutPublic(t) =>
              /\ At(t, "putPublic") /\ UNCHANGED <<priv, made, given, touched>>
              /\ pub' = [pub EXCEPT ![u] = th[t].pub]
              /\ th'[t].pc = "putPrivate" /\ th'[t].user = u
              /\ th'[t].pub = th[t].pub /\ th'[t].priv = th[t].priv
         /\ PutPrivate(t) =>
              /\ At(t, "putPrivate") /\ UNCHANGED <<pub, made, touched>>
              /\ priv' = [priv EXCEPT ![u] = th[t].priv] /\ th'[t].pc = "idle"
              /\ given' = [given EXCEPT ![u] = @ \cup {th[t].pub}]
         /\ GenerateFails(t) \/ PutFails(t) =>
              /\ UNCHANGED <<pub, priv, made>> /\ u \in touched'
              /\ th'[t].pc = "idle"
              /\ \A v \in User \ {u} : given'[v] = given[v]
<1> USE DEF TypeOK, At, Becomes, Goto, keypair
<1>th. th[t] \in Locals
  OBVIOUS
<1>give. ASSUME NEW k, Given(t, k)
         PROVE  /\ given' = [given EXCEPT ![u] = @ \cup {k}] /\ th'[t].pc = "idle"
                /\ \A o \in Thread : o # t => th'[o] = th[o]
  BY <1>give DEF Given, Idle, Entry
<1>1. FetchStep(t) => Fetching(t) /\ UNCHANGED subs
  BY DEF FetchStep, Fetching, ReadPublic, ReadPrivate, Generate, GenerateFails,
         PutPublic, PutPrivate, PutFails
<1>2. FetchStep(t) => u \in User
  BY <1>1 DEF Fetching, LocalsOK
<1>3. FetchStep(t) => touched' \in {touched, touched \cup {u}}
  BY DEF FetchStep, ReadPublic, ReadPrivate, Generate, GenerateFails,
         PutPublic, PutPrivate, PutFails
<1>4. FetchStep(t) => \A o \in Thread : o # t => th'[o] = th[o]
  BY <1>give DEF FetchStep, ReadPublic, ReadPrivate, Generate, GenerateFails,
         PutPublic, PutPrivate, PutFails
<1>5. ReadPublic(t) =>
              /\ At(t, "readPublic") /\ UNCHANGED <<pub, priv, made, given, touched>>
              /\ th'[t].pc = "readPrivate" /\ th'[t].user = u /\ th'[t].pub = pub[u]
  BY <1>th DEF ReadPublic, Locals
<1>6. ASSUME ReadPrivate(t)
      PROVE   /\ At(t, "readPrivate") /\ UNCHANGED <<pub, priv, made, touched>>
              /\ \/ /\ th[t].pub = None \/ priv[u] = None
                    /\ th'[t].pc = "generate" /\ th'[t].user = u /\ UNCHANGED given
                 \/ /\ th[t].pub # None /\ priv[u] # None /\ th'[t].pc = "idle"
                    /\ given' = [given EXCEPT ![u] = @ \cup {th[t].pub}]
  <2>1. CASE th[t].pub = None \/ priv[u] = None
    <3>1. th' = [th EXCEPT ![t] = [th[t] EXCEPT !.pc = "generate"]] /\ UNCHANGED given
      BY <1>6, <2>1 DEF ReadPrivate
    <3>2. th'[t].pc = "generate" /\ th'[t].user = u
      BY <3>1, <1>th DEF Locals
    <3>3. QED
      BY <1>6, <2>1, <3>1, <3>2 DEF ReadPrivate
  <2>2. CASE ~(th[t].pub = None \/ priv[u] = None)
    <3>1. Given(t, th[t].pub)
      BY <1>6, <2>2 DEF ReadPrivate
    <3>2. QED
      BY <1>6, <2>2, <3>1, <1>give DEF ReadPrivate
  <2>3. QED
    BY <2>1, <2>2
<1>7. Generate(t) =>
              /\ At(t, "generate") /\ UNCHANGED <<pub, priv, given, touched>>
              /\ made' = made + 1 /\ made' \in 1 .. MaxKey
              /\ th'[t].pc = "putPublic" /\ th'[t].user = u
              /\ th'[t].pub = made' /\ th'[t].priv = made'
  BY <1>th, WebPushAssumption DEF Generate, Locals
<1>8. PutPublic(t) =>
              /\ At(t, "putPublic") /\ UNCHANGED <<priv, made, given, touched>>
              /\ pub' = [pub EXCEPT ![u] = th[t].pub]
              /\ th'[t].pc = "putPrivate" /\ th'[t].user = u
              /\ th'[t].pub = th[t].pub /\ th'[t].priv = th[t].priv
  BY <1>th DEF PutPublic, Locals
<1>9. PutPrivate(t) =>
              /\ At(t, "putPrivate") /\ UNCHANGED <<pub, made, touched>>
              /\ priv' = [priv EXCEPT ![u] = th[t].priv] /\ th'[t].pc = "idle"
              /\ given' = [given EXCEPT ![u] = @ \cup {th[t].pub}]
  BY <1>give DEF PutPrivate
<1>10. ASSUME GenerateFails(t) \/ PutFails(t)
       PROVE  /\ UNCHANGED <<pub, priv, made>> /\ u \in touched'
              /\ th'[t].pc = "idle"
              /\ \A v \in User \ {u} : given'[v] = given[v]
  <2>1. UNCHANGED <<pub, priv, made>> /\ u \in touched'
    BY <1>10 DEF GenerateFails, PutFails
  <2>2. CASE UNCHANGED given /\ th' = [th EXCEPT ![t] = Idle]
    BY <2>1, <2>2 DEF Idle, Entry
  <2>3. CASE \E k \in {th[t].pub, Global} : Given(t, k)
    <3>1. PICK k : Given(t, k)
      BY <2>3
    <3>2. QED
      BY <2>1, <3>1, <1>give
  <2>4. QED
    BY <1>10, <2>2, <2>3 DEF GenerateFails, PutFails
<1>11. QED
  BY <1>1, <1>2, <1>3, <1>4, <1>5, <1>6, <1>7, <1>8, <1>9, <1>10

-----------------------------------------------------------------------------
LEMMA PairInit == Init => PairInv
BY InitTyped DEF Init, PairInv, OneFetch, StoredMade, Stored, FetchFresh,
   Fetching, Idle, Entry, At

\* Only one thread fetches for each user (NoFetch).
LEMMA OneFetchStep ==
  ASSUME TypeOK, LocalsOK, OneFetch, [SerialNext]_vars
  PROVE  OneFetch'
<1> USE DEF OneFetch, Fetching, TypeOK
<1>1. CASE UNCHANGED vars
  BY <1>1 DEF vars
<1>2. CASE Restart
  BY <1>2 DEF Restart, Idle, Entry
<1>3. ASSUME NEW u \in User, NEW r \in Resource, Subscribe(u, r) PROVE OneFetch'
  BY <1>3 DEF Subscribe
<1>4. ASSUME NEW t \in Thread, NEW u \in User, NoFetch(u), FetchKey(t, u)
      PROVE  OneFetch'
  <2>1. th'[t].user = u /\ \A o \in Thread : o # t => th'[o] = th[o]
    BY <1>4 DEF FetchKey, Becomes, Entry
  <2>2. QED
    BY <1>4, <2>1 DEF NoFetch
<1>5. ASSUME NEW t \in Thread, Elsewhere(t) PROVE OneFetch'
  <2>1. th'[t].pc \notin FetchPcs /\ \A o \in Thread : o # t => th'[o] = th[o]
    BY <1>5, ElsewhereLeaves DEF FetchPcs
  <2>2. QED
    BY <2>1 DEF FetchPcs
<1>6. ASSUME NEW t \in Thread, FetchStep(t) PROVE OneFetch'
  <2>1. PICK u : u = th[t].user
    OBVIOUS
  <2>2. /\ Fetching(t) /\ \A o \in Thread : o # t => th'[o] = th[o]
        /\ th'[t].pc = "idle" \/ th'[t].user = u
    BY <1>6, <2>1, FetchEffects DEF FetchStep
  <2>3. QED
    BY <2>1, <2>2
<1>7. QED
  BY <1>1, <1>2, <1>3, <1>4, <1>5, <1>6 DEF SerialNext, Others, Step, Elsewhere

LEMMA PairStep == PairInv /\ [SerialNext]_vars => PairInv'
<1> SUFFICES ASSUME PairInv, [SerialNext]_vars PROVE PairInv'
  OBVIOUS
<1>ty. TypeOK' /\ LocalsOK' /\ OneFetch'
  BY TypeStep, SerialIsNext, OneFetchStep DEF PairInv
<1> SUFFICES StoredMade' /\ FetchFresh'
  BY <1>ty DEF PairInv
<1>inv. TypeOK /\ LocalsOK /\ OneFetch /\ StoredMade /\ FetchFresh
  BY DEF PairInv
<1> USE DEF StoredMade, Stored, FetchFresh, Complete, At
<1>made. made \in Nat
  BY <1>inv, WebPushAssumption DEF TypeOK
<1>none. None \notin Nat
  BY WebPushAssumption
\* The other threads that fetch do so for other users.
<1>o. ASSUME NEW t \in Thread, Fetching(t), NEW o \in Thread, o # t,
             th[o].pc \in FetchPcs
      PROVE  th[o].user # th[t].user
  BY <1>o, <1>inv DEF OneFetch, Fetching, FetchPcs
<1>u. ASSUME NEW o \in Thread, th[o].pc # "idle" PROVE th[o].user \in User
  BY <1>u, <1>inv DEF LocalsOK
<1>1. CASE UNCHANGED vars
  BY <1>1, <1>inv DEF vars, keypair
<1>2. CASE Restart
  BY <1>2, <1>inv DEF Restart, Idle, Entry, keypair
<1>3. ASSUME NEW u \in User, NEW r \in Resource, Subscribe(u, r)
      PROVE  StoredMade' /\ FetchFresh'
  BY <1>3, <1>inv DEF Subscribe, keypair
<1>4. ASSUME NEW t \in Thread, NEW u \in User, NoFetch(u), FetchKey(t, u)
      PROVE  StoredMade' /\ FetchFresh'
  <2>1. /\ th'[t].pc = "readPublic" /\ UNCHANGED <<pub, priv, made>>
        /\ \A o \in Thread : o # t => th'[o] = th[o]
    BY <1>4, <1>inv DEF FetchKey, Becomes, Entry, TypeOK, keypair
  <2>2. QED
    BY <2>1, <1>inv
<1>5. ASSUME NEW t \in Thread, Elsewhere(t) PROVE StoredMade' /\ FetchFresh'
  <2>1. /\ th'[t].pc \notin FetchPcs /\ made' = made
        /\ \A o \in Thread : o # t => th'[o] = th[o]
    BY <1>5, <1>inv, ElsewhereLeaves DEF FetchPcs
  <2>2. \A u \in User : pub'[u] \in {pub[u], None} /\ priv'[u] \in {priv[u], None}
                        /\ (pub'[u] = pub[u] \/ priv'[u] = priv[u])
    BY <1>5, <1>inv, ElsewhereKeys DEF TypeOK
  <2>3. StoredMade'
    BY <2>1, <2>2, <1>inv
  <2>4. \A u \in User : ~Complete(u) => ~Complete(u)'
    BY <2>2
  <2>5. \A o \in Thread : th'[o].pc \in FetchPcs => th'[o] = th[o] /\ th[o].user \in User
    BY <2>1, <1>u DEF FetchPcs
  <2>6. FetchFresh'
    BY <2>1, <2>2, <2>4, <2>5, <1>inv, <1>none DEF FetchPcs
  <2>7. QED
    BY <2>3, <2>6
<1>6. ASSUME NEW t \in Thread, FetchStep(t) PROVE StoredMade' /\ FetchFresh'
  <2>u. PICK u : u = th[t].user
    OBVIOUS
  <2>f. /\ u \in User /\ Fetching(t)
        /\ \A o \in Thread : o # t => th'[o] = th[o]
    BY <1>6, <2>u, <1>inv, FetchEffects
  <2>o. ASSUME NEW o \in Thread, o # t, th'[o].pc \in FetchPcs
        PROVE  th'[o] = th[o] /\ th[o].user \in User \ {u}
    BY <2>o, <2>u, <2>f, <1>o, <1>u DEF FetchPcs
  <2>1. CASE ReadPublic(t)
    <3>1. /\ UNCHANGED <<pub, priv, made>> /\ th'[t].pc = "readPrivate"
          /\ th'[t].user = u /\ th'[t].pub = pub[u]
      BY <2>1, <2>u, <1>inv, FetchEffects
    <3>2. QED
      BY <3>1, <2>f, <1>inv
  <2>2. CASE ReadPrivate(t)
    <3>1. /\ At(t, "readPrivate") /\ UNCHANGED <<pub, priv, made>>
          /\ \/ /\ th[t].pub = None \/ priv[u] = None
                /\ th'[t].pc = "generate" /\ th'[t].user = u
             \/ th'[t].pc = "idle"
      BY <2>2, <2>u, <1>inv, FetchEffects
    <3>2. th'[t].pc = "generate" => ~Complete(u) /\ th'[t].user = u
      BY <3>1, <2>u, <1>inv
    <3>3. th'[t].pc \in {"generate", "idle"}
      BY <3>1
    <3>4. QED
      BY <3>1, <3>2, <3>3, <2>f, <1>inv
  <2>3. CASE Generate(t)
    <3>1. /\ At(t, "generate") /\ UNCHANGED <<pub, priv>>
          /\ made' = made + 1
          /\ th'[t].pc = "putPublic" /\ th'[t].user = u
          /\ th'[t].pub = made' /\ th'[t].priv = made'
      BY <2>3, <2>u, <1>inv, FetchEffects
    <3>2. 1 .. made \subseteq 1 .. made' /\ made' \in 1 .. made' /\ made' \notin 1 .. made
      BY <3>1, <1>made
    <3>3. ~Complete(u) /\ priv[u] # made'
      BY <3>1, <3>2, <2>u, <2>f, <1>inv, <1>made, <1>none
    <3>4. StoredMade'
      BY <3>1, <3>2, <1>inv
    <3>5. FetchFresh'
      BY <3>1, <3>2, <3>3, <2>f, <1>inv
    <3>6. QED
      BY <3>4, <3>5
  <2>4. CASE PutPublic(t)
    <3>1. /\ At(t, "putPublic") /\ UNCHANGED <<priv, made>>
          /\ pub' = [pub EXCEPT ![u] = th[t].pub]
          /\ th'[t].pc = "putPrivate" /\ th'[t].user = u
          /\ th'[t].pub = th[t].pub /\ th'[t].priv = th[t].priv
      BY <2>4, <2>u, <1>inv, FetchEffects
    <3>2. th[t].priv = th[t].pub /\ th[t].pub \in 1 .. made /\ priv[u] # th[t].pub
      BY <3>1, <2>u, <1>inv
    <3>3. pub'[u] = th[t].pub /\ \A v \in User \ {u} : pub'[v] = pub[v]
      BY <3>1, <2>f, <1>inv DEF TypeOK
    <3>4. StoredMade'
      BY <3>1, <3>2, <3>3, <1>inv
    <3>5. FetchFresh'
      BY <3>1, <3>2, <3>3, <2>o, <1>inv DEF FetchPcs
    <3>6. QED
      BY <3>4, <3>5
  <2>5. CASE PutPrivate(t)
    <3>1. /\ At(t, "putPrivate") /\ UNCHANGED <<pub, made>>
          /\ priv' = [priv EXCEPT ![u] = th[t].priv] /\ th'[t].pc = "idle"
      BY <2>5, <2>u, <1>inv, FetchEffects
    <3>2. th[t].priv = th[t].pub /\ th[t].pub \in 1 .. made
      BY <3>1, <2>u, <1>inv
    <3>3. priv'[u] = th[t].pub /\ \A v \in User \ {u} : priv'[v] = priv[v]
      BY <3>1, <3>2, <2>f, <1>inv DEF TypeOK
    <3>4. StoredMade'
      BY <3>1, <3>2, <3>3, <1>inv
    <3>5. FetchFresh'
      BY <3>1, <3>3, <2>o, <1>inv DEF FetchPcs
    <3>6. QED
      BY <3>4, <3>5
  <2>6. CASE GenerateFails(t) \/ PutFails(t)
    <3>1. UNCHANGED <<pub, priv, made>> /\ th'[t].pc = "idle"
      BY <2>6, <2>u, <1>inv, FetchEffects
    <3>2. QED
      BY <3>1, <2>f, <1>inv
  <2>7. QED
    BY <1>6, <2>1, <2>2, <2>3, <2>4, <2>5, <2>6 DEF FetchStep
<1>7. QED
  BY <1>1, <1>2, <1>3, <1>4, <1>5, <1>6 DEF SerialNext, Others, Step, Elsewhere

\* A step keeps a complete pair, or clears a half of it.
LEMMA PairKeptStep ==
  ASSUME PairInv, [SerialNext]_vars, NEW v \in User, Complete(v)
  PROVE  \/ pub'[v] = pub[v] /\ priv'[v] = priv[v]
         \/ pub'[v] = None \/ priv'[v] = None
<1>inv. TypeOK /\ LocalsOK /\ FetchFresh
  BY DEF PairInv
<1>1. CASE UNCHANGED vars \/ Others \/ \E t \in Thread, u \in User : FetchKey(t, u)
  BY <1>1 DEF vars, keypair, Others, Restart, Subscribe, FetchKey
<1>2. ASSUME NEW t \in Thread, Elsewhere(t) PROVE
         \/ pub'[v] = pub[v] /\ priv'[v] = priv[v]
         \/ pub'[v] = None \/ priv'[v] = None
  BY <1>2, <1>inv, ElsewhereKeys DEF TypeOK
<1>3. ASSUME NEW t \in Thread, FetchStep(t)
      PROVE  pub'[v] = pub[v] /\ priv'[v] = priv[v]
  <2>u. PICK u : u = th[t].user
    OBVIOUS
  <2>1. CASE PutPublic(t)
    <3>1. At(t, "putPublic") /\ pub' = [pub EXCEPT ![u] = th[t].pub] /\ priv' = priv
      BY <2>1, <2>u, <1>inv, FetchEffects
    <3>2. u # v
      BY <3>1, <2>u, <1>inv DEF FetchFresh, At
    <3>3. QED
      BY <3>1, <3>2, <1>inv DEF TypeOK
  <2>2. CASE PutPrivate(t)
    <3>1. At(t, "putPrivate") /\ priv' = [priv EXCEPT ![u] = th[t].priv] /\ pub' = pub
      BY <2>2, <2>u, <1>inv, FetchEffects
    <3>2. u # v
      BY <3>1, <2>u, <1>inv DEF FetchFresh, At, Complete
    <3>3. QED
      BY <3>1, <3>2, <1>inv DEF TypeOK
  <2>3. CASE ~PutPublic(t) /\ ~PutPrivate(t)
    BY <1>3, <2>3, <2>u, <1>inv, FetchEffects DEF FetchStep
  <2>4. QED
    BY <2>1, <2>2, <2>3
<1>4. QED
  BY <1>1, <1>2, <1>3 DEF SerialNext, Step, Elsewhere

\* A fetch never replaces a complete pair (PairKept), for any number of users,
\* browsers and threads, whatever is cleared, fails or is interrupted, if the
\* browsers of a user fetch one at a time.
THEOREM PairKeptHolds == SerialSpec => PairKept
<1>1. PairInv /\ [SerialNext]_vars =>
        [\A u \in User : pub[u] = priv[u] /\ pub[u] # None =>
           \/ pub'[u] = pub[u] /\ priv'[u] = priv[u]
           \/ pub'[u] = None \/ priv'[u] = None]_vars
  BY PairKeptStep DEF Complete
<1>2. QED
  BY PairInit, PairStep, <1>1, PTL DEF SerialSpec, PairKept

-----------------------------------------------------------------------------
LEMMA KeyInit == Init => KeyInv
BY PairInit DEF Init, KeyInv, PairStored, FetchKnows, GivenKeySigns, Idle,
   Entry, At

LEMMA KeyStep == KeyInv /\ [SerialNext]_vars => KeyInv'
<1> SUFFICES ASSUME KeyInv, [SerialNext]_vars PROVE KeyInv'
  OBVIOUS
<1>ty. PairInv'
  BY PairStep DEF KeyInv
<1> DEFINE Rest == PairStored /\ FetchKnows /\ GivenKeySigns
<1> SUFFICES Rest'
  BY <1>ty DEF KeyInv
<1>inv. /\ TypeOK /\ LocalsOK /\ OneFetch /\ FetchFresh
        /\ PairStored /\ FetchKnows /\ GivenKeySigns
  BY DEF KeyInv, PairInv
<1> USE DEF PairStored, FetchKnows, GivenKeySigns, At
<1>none. None \notin Key
  BY NoneIsNoKey
<1>o. ASSUME NEW t \in Thread, Fetching(t), NEW o \in Thread, o # t,
             th[o].pc \in FetchPcs
      PROVE  th[o].user # th[t].user
  BY <1>o, <1>inv DEF OneFetch, Fetching, FetchPcs
<1>u. ASSUME NEW o \in Thread, th[o].pc # "idle" PROVE th[o].user \in User
  BY <1>u, <1>inv DEF LocalsOK
<1>1. CASE UNCHANGED vars
  BY <1>1, <1>inv DEF vars, keypair
<1>2. CASE Restart
  BY <1>2, <1>inv DEF Restart, Idle, Entry, keypair
<1>3. ASSUME NEW u \in User, NEW r \in Resource, Subscribe(u, r) PROVE Rest'
  BY <1>3, <1>inv DEF Subscribe, keypair
<1>4. ASSUME NEW t \in Thread, NEW u \in User, NoFetch(u), FetchKey(t, u)
      PROVE  Rest'
  <2>1. /\ th'[t].pc = "readPublic" /\ UNCHANGED <<pub, priv, given, touched>>
        /\ \A o \in Thread : o # t => th'[o] = th[o]
    BY <1>4, <1>inv DEF FetchKey, Becomes, Entry, TypeOK, keypair
  <2>2. QED
    BY <2>1, <1>inv
<1>5. ASSUME NEW t \in Thread, Elsewhere(t) PROVE Rest'
  <2>1. /\ th'[t].pc \notin FetchPcs /\ given' = given
        /\ \A o \in Thread : o # t => th'[o] = th[o]
    BY <1>5, <1>inv, ElsewhereLeaves DEF FetchPcs
  \* Only a user in touched loses keys.
  <2>2. touched \subseteq touched' /\ \A u \in User \ touched :
          pub'[u] = pub[u] /\ priv'[u] = priv[u]
    BY <1>5, <1>inv, ElsewhereKeys DEF TypeOK
  <2>3. th'[t].pc = "clear" => th'[t].user \in touched'
    <3>1. ASSUME NEW u \in User, Clear(t, u)
          PROVE  th'[t].user \in touched'
      BY <3>1, <1>inv DEF Clear, Becomes, Entry, TypeOK
    <3>2. ASSUME NEW u \in User, Notify(t, u) PROVE th'[t].pc = "readSigning"
      BY <3>2, <1>inv DEF Notify, Becomes, Entry, TypeOK
    <3>3. CASE NotifyStep(t)
      BY <1>5, <3>3, <1>inv, ElsewhereLeaves
    <3>4. CASE ClearStep(t)
      <4>1. (th' = th /\ th[t].pc = "clear") \/ ClearEnds(t)
        BY <3>4 DEF ClearStep, ClearPublic, ClearPrivate, ClearSubscription
      <4>2. ClearEnds(t) => th'[t].pc = "idle"
        BY <1>inv DEF ClearEnds, Becomes, Idle, Entry, TypeOK
      <4>3. QED
        BY <4>1, <4>2, <2>2, <1>inv
    <3>5. QED
      BY <1>5, <3>1, <3>2, <3>3, <3>4 DEF Elsewhere
  <2>4. PairStored' /\ GivenKeySigns'
    BY <2>1, <2>2, <1>inv
  <2>5. \A o \in Thread : th'[o].pc \in FetchPcs => th'[o] = th[o] /\ th[o].user \in User
    BY <2>1, <1>u DEF FetchPcs
  <2>6. FetchKnows'
    BY <2>1, <2>2, <2>3, <2>5, <1>inv DEF FetchPcs
  <2>7. QED
    BY <2>4, <2>6
<1>6. ASSUME NEW t \in Thread, FetchStep(t) PROVE Rest'
  <2>u. PICK u : u = th[t].user
    OBVIOUS
  <2>f. /\ u \in User /\ Fetching(t) /\ touched \subseteq touched'
        /\ \A o \in Thread : o # t => th'[o] = th[o]
    BY <1>6, <2>u, <1>inv, FetchEffects
  <2>o. ASSUME NEW o \in Thread, o # t, th'[o].pc \in FetchPcs
        PROVE  th'[o] = th[o] /\ th[o].user \in User \ {u}
    BY <2>o, <2>u, <2>f, <1>o, <1>u DEF FetchPcs
  <2>1. CASE ReadPublic(t)
    <3>1. /\ UNCHANGED <<pub, priv, given, touched>> /\ th'[t].pc = "readPrivate"
          /\ th'[t].user = u /\ th'[t].pub = pub[u]
      BY <2>1, <2>u, <1>inv, FetchEffects
    <3>2. QED
      BY <3>1, <2>f, <1>inv
  <2>2. CASE ReadPrivate(t)
    <3>1. /\ At(t, "readPrivate") /\ UNCHANGED <<pub, priv, touched>>
          /\ \/ /\ th[t].pub = None \/ priv[u] = None
                /\ th'[t].pc = "generate" /\ th'[t].user = u /\ UNCHANGED given
             \/ /\ th[t].pub # None /\ priv[u] # None /\ th'[t].pc = "idle"
                /\ given' = [given EXCEPT ![u] = @ \cup {th[t].pub}]
      BY <2>2, <2>u, <1>inv, FetchEffects
    <3>2. u \notin touched => th[t].pub = pub[u]
      BY <3>1, <2>u, <1>inv
    <3>3. PairStored'
      BY <3>1, <1>inv
    <3>4. CASE th'[t].pc = "generate" /\ th'[t].user = u /\ UNCHANGED given
               /\ (th[t].pub = None \/ priv[u] = None)
      <4>1. u \notin touched => priv[u] = None
        BY <3>2, <3>4, <2>f, <1>inv
      <4>2. QED
        BY <3>1, <3>3, <3>4, <4>1, <2>f, <1>inv
    <3>5. CASE /\ th[t].pub # None /\ priv[u] # None /\ th'[t].pc = "idle"
               /\ given' = [given EXCEPT ![u] = @ \cup {th[t].pub}]
      \* Both keys are stored, hence a pair, and the public one is answered.
      <4>1. u \notin touched => pub[u] = th[t].pub /\ priv[u] = th[t].pub
        BY <3>2, <3>5, <2>f, <1>inv
      <4>2. GivenKeySigns'
        BY <3>1, <3>5, <4>1, <2>f, <1>inv DEF TypeOK
      <4>3. QED
        BY <3>1, <3>3, <3>5, <4>2, <2>f, <1>inv
    <3>6. QED
      BY <3>1, <3>4, <3>5
  <2>3. CASE Generate(t)
    <3>1. /\ At(t, "generate") /\ UNCHANGED <<pub, priv, given, touched>>
          /\ th'[t].pc = "putPublic" /\ th'[t].user = u
      BY <2>3, <2>u, <1>inv, FetchEffects
    <3>2. QED
      BY <3>1, <2>u, <2>f, <1>inv
  <2>4. CASE PutPublic(t)
    <3>1. /\ At(t, "putPublic") /\ UNCHANGED <<priv, given, touched>>
          /\ pub' = [pub EXCEPT ![u] = th[t].pub]
          /\ th'[t].pc = "putPrivate" /\ th'[t].user = u /\ th'[t].pub = th[t].pub
      BY <2>4, <2>u, <1>inv, FetchEffects
    <3>2. u \notin touched => priv[u] = None
      BY <3>1, <2>u, <1>inv
    <3>3. pub'[u] = th[t].pub /\ \A v \in User \ {u} : pub'[v] = pub[v]
      BY <3>1, <2>f, <1>inv DEF TypeOK
    \* No key was answered before the pair is complete.
    <3>4. u \notin touched => given[u] = {}
      BY <3>2, <2>f, <1>inv, <1>none DEF TypeOK
    <3>5. PairStored' /\ GivenKeySigns'
      BY <3>1, <3>2, <3>3, <3>4, <1>inv
    <3>6. FetchKnows'
      BY <3>1, <3>2, <3>3, <2>o, <2>f, <1>inv DEF FetchPcs
    <3>7. QED
      BY <3>5, <3>6
  <2>5. CASE PutPrivate(t)
    <3>1. /\ At(t, "putPrivate") /\ UNCHANGED <<pub, touched>>
          /\ priv' = [priv EXCEPT ![u] = th[t].priv] /\ th'[t].pc = "idle"
          /\ given' = [given EXCEPT ![u] = @ \cup {th[t].pub}]
      BY <2>5, <2>u, <1>inv, FetchEffects
    <3>2. /\ th[t].priv = th[t].pub
          /\ u \notin touched => priv[u] = None /\ pub[u] = th[t].pub
      BY <3>1, <2>u, <1>inv DEF FetchFresh
    <3>3. priv'[u] = th[t].pub /\ \A v \in User \ {u} : priv'[v] = priv[v]
      BY <3>1, <3>2, <2>f, <1>inv DEF TypeOK
    <3>4. u \notin touched => given[u] = {}
      BY <3>2, <2>f, <1>inv, <1>none DEF TypeOK
    <3>5. /\ given'[u] = given[u] \cup {th[t].pub}
          /\ \A v \in User \ {u} : given'[v] = given[v]
      BY <3>1, <2>f, <1>inv DEF TypeOK
    <3>6. PairStored' /\ GivenKeySigns'
      BY <3>1, <3>2, <3>3, <3>4, <3>5, <1>inv
    <3>7. FetchKnows'
      BY <3>1, <3>3, <2>o, <2>f, <1>inv DEF FetchPcs
    <3>8. QED
      BY <3>6, <3>7
  <2>6. CASE GenerateFails(t) \/ PutFails(t)
    <3>1. /\ UNCHANGED <<pub, priv>> /\ u \in touched' /\ th'[t].pc = "idle"
          /\ \A v \in User \ {u} : given'[v] = given[v]
      BY <2>6, <2>u, <1>inv, FetchEffects
    <3>2. QED
      BY <3>1, <2>f, <1>inv
  <2>7. QED
    BY <1>6, <2>1, <2>2, <2>3, <2>4, <2>5, <2>6 DEF FetchStep
<1>7. QED
  BY <1>1, <1>2, <1>3, <1>4, <1>5, <1>6 DEF SerialNext, Others, Step, Elsewhere

\* An answered key stays the signing key (GivenKeySigns) for every number of
\* users, browsers and threads, as long as the properties of the user are not
\* cleared and no pair for him fails, if the browsers of a user fetch one at a
\* time.
THEOREM AnsweredKeySigns == SerialSpec => []GivenKeySigns
<1>1. KeyInv => GivenKeySigns
  BY DEF KeyInv
<1>2. QED
  BY KeyInit, KeyStep, <1>1, PTL DEF SerialSpec

-----------------------------------------------------------------------------
LEMMA SendInit == Init => SendInv
BY KeyInit DEF Init, SendInv, SubscribedWithGiven, SendKnows, Idle, Entry, At

\* What the steps of a notification do to its thread.
LEMMA NotifyEffects ==
  ASSUME TypeOK, NEW t \in Thread, NEW u, u = th[t].user
  PROVE  /\ NotifyStep(t) => UNCHANGED <<keypair, subs, given, touched>>
         /\ ReadSigning(t) =>
              /\ At(t, "readSigning") /\ th'[t].pc = "readSigningPrivate"
              /\ th'[t].user = u /\ th'[t].pub = pub[u] /\ th'[t].since = th[t].since
         /\ ReadSigningPrivate(t) =>
              /\ At(t, "readSigningPrivate") /\ th'[t].user = u
              /\ \/ th'[t].pc = "answer"
                 \/ /\ th'[t].pc = "loop" /\ th'[t].since = th[t].since
                    /\ th[t].pub # None /\ priv[u] # None =>
                         th'[t].pub = th[t].pub /\ th'[t].priv = priv[u]
         /\ \A r \in Resource : SendFails(t, r) =>
              /\ At(t, "loop") /\ th'[t].pc = "loop" /\ th'[t].user = u
              /\ th'[t].pub = th[t].pub /\ th'[t].priv = th[t].priv
              /\ th'[t].since = th[t].since
         /\ LoopEnds(t) \/ Answer(t) \/ (\E r \in Resource : Send(t, r)) =>
              th'[t].pc \in {"answer", "idle"}
<1> USE DEF TypeOK, At, Becomes, Goto, keypair
<1>th. th[t] \in Locals
  OBVIOUS
<1>1. NotifyStep(t) => UNCHANGED <<keypair, subs, given, touched>>
  BY Zenon DEF NotifyStep, ReadSigning, ReadSigningPrivate, Send, SendFails, LoopEnds,
     Answer
<1>2. ReadSigning(t) =>
        /\ At(t, "readSigning") /\ th'[t].pc = "readSigningPrivate"
        /\ th'[t].user = u /\ th'[t].pub = pub[u] /\ th'[t].since = th[t].since
  BY <1>th DEF ReadSigning, Locals
<1>3. ASSUME ReadSigningPrivate(t)
      PROVE  /\ At(t, "readSigningPrivate") /\ th'[t].user = u
             /\ \/ th'[t].pc = "answer"
                \/ /\ th'[t].pc = "loop" /\ th'[t].since = th[t].since
                   /\ th[t].pub # None /\ priv[u] # None =>
                        th'[t].pub = th[t].pub /\ th'[t].priv = priv[u]
  <2> DEFINE half == th[t].pub = None \/ priv[u] = None
             p == IF half THEN Global ELSE th[t].pub
             q == IF half THEN Global ELSE priv[u]
             l == [th[t] EXCEPT !.pub = p, !.priv = q, !.todo = Subscribed(u),
                                !.pc = "loop"]
             m == [th[t] EXCEPT !.pc = "answer"]
  <2>1. /\ l.pc = "loop" /\ l.user = u /\ l.since = th[t].since
        /\ l.pub = p /\ l.priv = q /\ m.pc = "answer" /\ m.user = u
    BY <1>th DEF Locals
  <2>2. th[t].pub # None /\ priv[u] # None => l.pub = th[t].pub /\ l.priv = priv[u]
    BY <2>1
  <2>3. At(t, "readSigningPrivate") /\ (th'[t] = l \/ th'[t] = m)
    BY <1>3 DEF ReadSigningPrivate
  <2> HIDE DEF l, m
  <2>4. QED
    BY <2>1, <2>2, <2>3
<1>4. ASSUME NEW r \in Resource, SendFails(t, r)
      PROVE  /\ At(t, "loop") /\ th'[t].pc = "loop" /\ th'[t].user = u
             /\ th'[t].pub = th[t].pub /\ th'[t].priv = th[t].priv
             /\ th'[t].since = th[t].since
  BY <1>4, <1>th DEF SendFails, Locals
<1>5. ASSUME NEW r \in Resource, Send(t, r) PROVE th'[t].pc = "answer"
  BY <1>5, <1>th DEF Send, Locals
<1>6. LoopEnds(t) => th'[t].pc = "answer"
  BY <1>th DEF LoopEnds, Locals
<1>7. Answer(t) => th'[t].pc = "idle"
  BY DEF Answer, Idle, Entry
<1>8. QED
  BY <1>1, <1>2, <1>3, <1>4, <1>5, <1>6, <1>7

LEMMA SendStep == SendInv /\ [SerialNext]_vars => SendInv'
<1> SUFFICES ASSUME SendInv, [SerialNext]_vars PROVE SendInv'
  OBVIOUS
<1>ty. KeyInv' /\ TypeOK'
  BY KeyStep DEF SendInv, KeyInv, PairInv
<1> DEFINE Rest == SubscribedWithGiven /\ SendKnows
<1> SUFFICES Rest'
  BY <1>ty DEF SendInv
<1>inv. /\ TypeOK /\ LocalsOK /\ FetchKnows /\ GivenKeySigns
        /\ SubscribedWithGiven /\ SendKnows
  BY DEF SendInv, KeyInv, PairInv
<1>key. GivenKeySigns'
  BY <1>ty DEF KeyInv
<1>none. None \notin Key
  BY NoneIsNoKey
\* A user in no need of a key has one: subscriptions of a user who is not in
\* touched name the stored pair.
<1>sub. ASSUME NEW u \in User \ touched, NEW r \in Resource, subs[u][r] # None
        PROVE  pub[u] = subs[u][r] /\ priv[u] = subs[u][r]
  BY <1>sub, <1>inv DEF SubscribedWithGiven, GivenKeySigns
<1> USE DEF SubscribedWithGiven, SendKnows, At
<1>u. ASSUME NEW o \in Thread, th[o].pc # "idle" PROVE th[o].user \in User
  BY <1>u, <1>inv DEF LocalsOK
<1>since. ASSUME NEW o \in Thread
          PROVE  th[o].since \in SUBSET Resource /\ th'[o].since \in SUBSET Resource
  BY <1>inv, <1>ty, FieldTypes DEF TypeOK
\* Hence it stays the stored pair.
<1>keep. ASSUME NEW u \in User \ touched', touched \subseteq touched',
                given[u] \subseteq given'[u], NEW r \in Resource, subs[u][r] # None
         PROVE  pub'[u] = pub[u] /\ priv'[u] = pub[u]
  <2>1. subs[u][r] \in given'[u] /\ pub[u] = subs[u][r]
    BY <1>keep, <1>sub, <1>inv
  <2>2. QED
    BY <2>1, <1>key DEF GivenKeySigns
\* A step outside a notification does not disturb the notifications.
<1>else. ASSUME NEW t \in Thread,
                th'[t].pc \notin {"readSigning", "readSigningPrivate", "loop"},
                \A o \in Thread : o # t => th'[o] = th[o],
                touched \subseteq touched',
                \A u \in User : given[u] \subseteq given'[u],
                \A u \in User \ touched' : subs'[u] = subs[u]
         PROVE  SendKnows'
  <2>1. ASSUME NEW o \in Thread, o # t, th[o].user \notin touched',
               th[o].pc \in {"readSigning", "readSigningPrivate", "loop"}
        PROVE  /\ th[o].user \in User \ touched'
               /\ \A r \in th[o].since : subs'[th[o].user][r] # None
               /\ th[o].since # {} => pub'[th[o].user] = pub[th[o].user]
    <3>1. PICK u \in User \ touched' : u = th[o].user
      BY <2>1, <1>u
    <3>2. u \notin touched /\ subs'[u] = subs[u] /\ given[u] \subseteq given'[u]
      BY <1>else
    <3>3. \A r \in th[o].since : subs[u][r] # None
      BY <2>1, <3>1, <3>2, <1>inv
    <3>4. ASSUME th[o].since # {} PROVE pub'[u] = pub[u]
      <4>1. PICK r \in Resource : r \in th[o].since
        BY <3>4, <1>since
      <4>2. QED
        BY <4>1, <3>2, <3>3, <1>keep, <1>else
    <3>5. QED
      BY <3>1, <3>2, <3>3, <3>4
  <2>2. \A o \in Thread : th'[o].pc \in {"readSigning", "readSigningPrivate", "loop"}
                            => o # t /\ th'[o] = th[o]
    BY <1>else
  <2>3. SUFFICES ASSUME NEW o \in Thread, th'[o].user \notin touched',
                        th'[o].pc \in {"readSigning", "readSigningPrivate", "loop"}
                 PROVE  /\ \A r \in th'[o].since : subs'[th'[o].user][r] # None
                        /\ th'[o].pc = "readSigningPrivate" /\ th'[o].since # {} =>
                             th'[o].pub = pub'[th'[o].user]
                        /\ th'[o].pc = "loop" /\ th'[o].since # {} =>
                             th'[o].pub = pub'[th'[o].user] /\ th'[o].priv = th'[o].pub
    OBVIOUS
  <2>4. o # t /\ th'[o] = th[o]
    BY <2>2, <2>3
  <2>5. th[o].user \notin touched
    BY <2>3, <2>4, <1>else
  <2>6. QED
    BY <2>1, <2>3, <2>4, <2>5, <1>inv
<1>1. CASE UNCHANGED vars
  BY <1>1, <1>inv DEF vars, keypair
<1>2. CASE Restart
  BY <1>2, <1>inv DEF Restart, Idle, Entry, keypair
<1>3. ASSUME NEW u \in User, NEW r \in Resource, Subscribe(u, r) PROVE Rest'
  <2>1. PICK k \in given[u] : subs' = [subs EXCEPT ![u][r] = k]
    BY <1>3 DEF Subscribe
  <2>2. k # None
    BY <2>1, <1>inv, <1>none DEF TypeOK
  <2>3. UNCHANGED <<keypair, given, touched, th>>
    BY <1>3 DEF Subscribe
  <2>4. \A v \in User, q \in Resource :
          subs'[v][q] = IF v = u /\ q = r THEN k ELSE subs[v][q]
    BY <2>1, <1>inv DEF TypeOK
  <2>5. SubscribedWithGiven'
    BY <2>1, <2>3, <2>4, <1>inv
  <2>6. ASSUME NEW o \in Thread, th[o].user \notin touched,
               th[o].pc \in {"readSigning", "readSigningPrivate", "loop"},
               NEW q \in th[o].since
        PROVE  subs'[th[o].user][q] # None
    BY <2>2, <2>4, <2>6, <1>inv, <1>u, <1>since
  <2>7. SendKnows'
    BY <2>3, <2>6, <1>inv DEF keypair
  <2>8. QED
    BY <2>5, <2>7
<1>4. ASSUME NEW t \in Thread, NEW u \in User, FetchKey(t, u) \/ Clear(t, u)
      PROVE  Rest'
  <2>1. /\ th'[t].pc \in {"readPublic", "clear"} /\ UNCHANGED <<subs, given>>
        /\ \A o \in Thread : o # t => th'[o] = th[o]
        /\ touched \subseteq touched'
    BY <1>4, <1>inv DEF FetchKey, Clear, Becomes, Entry, TypeOK
  <2>2. SendKnows'
    BY <2>1, <1>else
  <2>3. QED
    BY <2>1, <2>2, <1>inv
<1>5. ASSUME NEW t \in Thread, FetchStep(t) PROVE Rest'
  <2>u. PICK u : u = th[t].user
    OBVIOUS
  <2>1. /\ UNCHANGED subs /\ touched \subseteq touched'
        /\ \A o \in Thread : o # t => th'[o] = th[o]
    BY <1>5, <2>u, <1>inv, FetchEffects
  <2>2. th'[t].pc \in {"idle", "readPrivate", "generate", "putPublic", "putPrivate"}
    BY <1>5, <2>u, <1>inv, FetchEffects DEF FetchStep
  <2>3. \A v \in User : given[v] \subseteq given'[v]
    BY <1>5, <1>inv DEF FetchStep, ReadPublic, ReadPrivate, Generate,
       GenerateFails, PutPublic, PutPrivate, PutFails, Given, TypeOK
  <2>4. SendKnows'
    BY <2>1, <2>2, <2>3, <1>else
  <2>5. SubscribedWithGiven'
    BY <2>1, <2>3, <1>inv
  <2>6. QED
    BY <2>4, <2>5
<1>6. ASSUME NEW t \in Thread, ClearStep(t) PROVE Rest'
  <2>1. /\ th'[t].pc \in {"clear", "idle"} /\ UNCHANGED <<given, touched>>
        /\ \A o \in Thread : o # t => th'[o] = th[o]
    <3>1. /\ th[t].pc = "clear" /\ UNCHANGED <<given, touched>>
          /\ th' = th \/ th' = [th EXCEPT ![t] = Idle]
      BY <1>6 DEF ClearStep, ClearPublic, ClearPrivate, ClearSubscription,
         ClearEnds, At, Becomes
    <3>2. QED
      BY <3>1, <1>inv DEF Idle, Entry, TypeOK
  <2>2. th[t].pc = "clear" /\ th[t].user \in User \cap touched
    BY <1>6, <1>inv, <1>u DEF ClearStep, ClearPublic, ClearPrivate,
       ClearSubscription, ClearEnds, FetchKnows
  <2>3. subs' = subs \/ \E r \in Resource : subs' = [subs EXCEPT ![th[t].user][r] = None]
    BY <1>6 DEF ClearStep, ClearPublic, ClearPrivate, ClearSubscription, ClearEnds
  <2>4. /\ \A v \in User, q \in Resource : subs'[v][q] \in {subs[v][q], None}
        /\ \A v \in User \ touched' : subs'[v] = subs[v]
    <3> DEFINE w == th[t].user
    <3>1. w \in User /\ w \in touched'
      BY <2>1, <2>2
    <3>2. ASSUME NEW r \in Resource, subs' = [subs EXCEPT ![w][r] = None]
          PROVE  /\ \A v \in User, q \in Resource : subs'[v][q] \in {subs[v][q], None}
                 /\ \A v \in User : v # w => subs'[v] = subs[v]
      <4> HIDE DEF w
      <4>1. QED
        BY <3>2, <1>inv DEF TypeOK
    <3>3. QED
      BY <3>1, <3>2, <2>3
  <2>5. SendKnows'
    BY <2>1, <2>4, <1>else
  <2>6. SubscribedWithGiven'
    BY <2>1, <2>4, <1>inv
  <2>7. QED
    BY <2>5, <2>6
<1>7. ASSUME NEW t \in Thread, NEW u \in User, Notify(t, u) PROVE Rest'
  <2>1. /\ th'[t].pc = "readSigning" /\ th'[t].user = u
        /\ th'[t].since = Subscribed(u)
        /\ UNCHANGED <<keypair, subs, given, touched>>
        /\ \A o \in Thread : o # t => th'[o] = th[o]
    BY <1>7, <1>inv DEF Notify, Becomes, Entry, TypeOK
  <2>2. \A r \in th'[t].since : subs'[u][r] # None
    BY <2>1 DEF Subscribed
  <2>3. QED
    BY <2>1, <2>2, <1>inv DEF keypair
<1>8. ASSUME NEW t \in Thread, NotifyStep(t) PROVE Rest'
  <2>u. PICK u : u = th[t].user
    OBVIOUS
  <2>0. /\ UNCHANGED <<pub, priv, subs, given, touched>>
        /\ \A o \in Thread : o # t => th'[o] = th[o]
    BY <1>8, <2>u, <1>inv, NotifyEffects, ElsewhereLeaves DEF keypair, Elsewhere
  <2>s. SubscribedWithGiven'
    BY <2>0, <1>inv
  <2>1. CASE ReadSigning(t)
    <3>1. /\ th[t].pc = "readSigning" /\ th'[t].pc = "readSigningPrivate"
          /\ th'[t].user = u /\ th'[t].pub = pub[u] /\ th'[t].since = th[t].since
      BY <2>1, <2>u, <1>inv, NotifyEffects
    <3>2. SendKnows'
      BY <3>1, <2>u, <2>0, <1>inv
    <3>3. QED
      BY <3>2, <2>s
  <2>2. CASE ReadSigningPrivate(t)
    <3>1. /\ th[t].pc = "readSigningPrivate" /\ th'[t].user = u
          /\ \/ th'[t].pc = "answer"
             \/ /\ th'[t].pc = "loop" /\ th'[t].since = th[t].since
                /\ th[t].pub # None /\ priv[u] # None =>
                     th'[t].pub = th[t].pub /\ th'[t].priv = priv[u]
      BY <2>2, <2>u, <1>inv, NotifyEffects
    <3>2. CASE th'[t].pc = "answer"
      <4>1. SendKnows'
        BY <3>2, <2>0, <1>else
      <4>2. QED
        BY <4>1, <2>s
    <3>3. CASE th'[t].pc = "loop"
      <4>1. ASSUME u \notin touched, th[t].since # {}
            PROVE  th[t].pub = pub[u] /\ priv[u] = pub[u] /\ pub[u] # None
        <5>1. PICK r \in Resource : r \in th[t].since
          BY <4>1, <1>since
        <5>2. u \in User /\ subs[u][r] # None /\ th[t].pub = pub[u]
          BY <4>1, <5>1, <3>1, <2>u, <1>u, <1>inv
        <5>3. QED
          BY <4>1, <5>1, <5>2, <1>sub
      <4>2. u \notin touched /\ th'[t].since # {} =>
              th'[t].pub = pub[u] /\ th'[t].priv = pub[u]
        BY <3>1, <3>3, <4>1
      <4>3. u \notin touched => \A r \in th'[t].since : subs[u][r] # None
        BY <3>1, <3>3, <2>u, <1>inv
      <4>4. SendKnows'
        BY <3>1, <3>3, <4>2, <4>3, <2>0, <1>inv
      <4>5. QED
        BY <4>4, <2>s
    <3>4. QED
      BY <3>1, <3>2, <3>3
  <2>3. ASSUME NEW r \in Resource, SendFails(t, r) PROVE Rest'
    <3>1. /\ th[t].pc = "loop" /\ th'[t].pc = "loop" /\ th'[t].user = u
          /\ th'[t].pub = th[t].pub /\ th'[t].priv = th[t].priv
          /\ th'[t].since = th[t].since
      BY <2>3, <2>u, <1>inv, NotifyEffects DEF At
    <3>2. SendKnows'
      BY <3>1, <2>u, <2>0, <1>inv
    <3>3. QED
      BY <3>2, <2>s
  <2>4. CASE LoopEnds(t) \/ Answer(t) \/ \E r \in Resource : Send(t, r)
    <3>1. th'[t].pc \in {"answer", "idle"}
      BY <2>4, <2>u, <1>inv, NotifyEffects
    <3>2. SendKnows'
      BY <3>1, <2>0, <1>else
    <3>3. QED
      BY <3>2, <2>s
  <2>5. QED
    BY <1>8, <2>1, <2>2, <2>3, <2>4 DEF NotifyStep
<1>9. QED
  BY <1>1, <1>2, <1>3, <1>4, <1>5, <1>6, <1>7, <1>8
     DEF SerialNext, Others, Step

\* A notification is signed with the key of every subscription there was when
\* it was asked for (SignedForSubscribers), for any number of users, browsers
\* and threads, as long as the properties of the user are not cleared and no
\* pair for him fails, if the browsers of a user fetch one at a time.
THEOREM SignedForSubscribersHolds == SerialSpec => []SignedForSubscribers
<1>1. SendInv => SignedForSubscribers
  <2> SUFFICES ASSUME SendInv, NEW t \in Thread, At(t, "loop"),
                      th[t].user \notin touched, NEW r \in th[t].since
               PROVE  /\ subs[th[t].user][r] = th[t].pub
                      /\ th[t].pub = th[t].priv
    BY DEF SignedForSubscribers
  <2>1. PICK u \in User \ touched : u = th[t].user
    BY DEF SendInv, KeyInv, PairInv, LocalsOK, At
  <2>2. r \in Resource
    BY FieldTypes DEF SendInv, KeyInv, PairInv, TypeOK
  <2>3. /\ subs[u][r] # None /\ th[t].pub = pub[u] /\ th[t].priv = th[t].pub
    BY <2>1 DEF SendInv, SendKnows, At
  <2>4. subs[u][r] \in given[u]
    BY <2>1, <2>2, <2>3 DEF SendInv, SubscribedWithGiven
  <2>5. pub[u] = subs[u][r]
    BY <2>1, <2>4 DEF SendInv, KeyInv, GivenKeySigns
  <2>6. QED
    BY <2>1, <2>3, <2>5
<1>2. QED
  BY SendInit, SendStep, <1>1, PTL DEF SerialSpec
=============================================================================
