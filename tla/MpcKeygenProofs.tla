-------------------------- MODULE MpcKeygenProofs --------------------------
(***************************************************************************)
(* For any initiations and clients, any sizes and thresholds, and any      *)
(* number of faults and restarts: the types, and what a session owes those *)
(* who have joined it as long as its name is its own.  Two facts carry the *)
(* rest.  The numbers of a session are given out once each (NumbersDiffer, *)
(* NumbersGiven), so a client that has seen it full is in one that is      *)
(* whole.  And what is posted in such a session is posted by its members,  *)
(* under their numbers (MessagesOfMembers), so a round is complete, by the *)
(* count of its messages, only when every member has posted all of its     *)
(* own: a key is of all members (KeyOfMembers), and nobody fails.          *)
(***************************************************************************)
EXTENDS MpcKeygen, FiniteSetTheorems, TLAPS

SessionRecords == [t : Nat, n : Nat, joined : Nat, messages : SUBSET Messages]
InitiatorRecords ==
  [pc : {"idle", "named", "stored", "failed"}, name : Names \cup {0}]
ClientRecords ==
  [pc : Places, home : Initiators \cup {Nobody}, name : Names \cup {0}, id : Nat,
   t : Nat, n : Nat, parties : SUBSET Nat, commitments : SUBSET Messages]

\* The part of TypeOK that is about one kind of record.
SessionTypes ==
  /\ session \in [Initiators -> SessionRecords]
  /\ \A i \in Initiators : session[i].joined <= session[i].n
ServerTypes ==
  /\ sessions \in [Names -> Initiators \cup {Nobody}]
  /\ initiator \in [Initiators -> InitiatorRecords]
  /\ stored \in [Names -> Nat]
ClientTypes == client \in [Clients -> ClientRecords]
CountTypes == faults \in 0 .. MaxFaults /\ restarts \in 0 .. MaxRestarts

\* The initiation has stored its session; only such sessions are found.
IsStored(i) == initiator[i].pc = "stored"

\* A name is chosen before the session is stored, among the possible ones.
NamesChosen ==
  \A i \in Initiators : initiator[i].pc \in {"named", "stored"} => initiator[i].name \in Names

\* The map holds a session under the name that its initiation has chosen.
StoredUnderItsName ==
  \A name \in Names : sessions[name] # Nobody =>
    IsStored(sessions[name]) /\ initiator[sessions[name]].name = name

\* The history counts every session that was stored under a name.
StoresCounted ==
  \A i \in Initiators : IsStored(i) =>
    /\ stored[initiator[i].name] >= 1
    /\ \A j \in Initiators \ {i} :
         IsStored(j) /\ initiator[j].name = initiator[i].name
         => stored[initiator[i].name] >= 2

\* Only a restart takes a name out of the map.
KeptUntilRestart ==
  restarts = 0 =>
    \A i \in Initiators : IsStored(i) => sessions[initiator[i].name] # Nobody

Naming == NamesChosen /\ StoredUnderItsName /\ StoresCounted /\ KeptUntilRestart

\* Nobody has touched a session that is not stored yet.
EmptyUntilStored ==
  \A i \in Initiators : ~IsStored(i) =>
    session[i].joined = 0 /\ session[i].messages = {}

\* What a client knows of the session that it has joined is still true.
HomeAt(c) ==
  LET s == client[c].home IN
  IF s = Nobody THEN client[c].pc \in {"idle", "failed"}
  ELSE /\ client[c].pc # "idle"
       /\ IsStored(s)
       /\ client[c].name = initiator[s].name
       /\ client[c].id \in 1 .. session[s].joined
       /\ client[c].t = session[s].t
       /\ client[c].n = session[s].n
HomeKnown == \A c \in Clients : HomeAt(c)

\* No number of a session is given twice, ...
NumbersDiffer ==
  \A c, d \in Clients :
    c # d /\ client[c].home = client[d].home /\ client[c].home # Nobody
    => client[c].id # client[d].id
\* ... and each that counts as joined was given.
NumbersGiven ==
  \A i \in Initiators : \A k \in 1 .. session[i].joined :
    \E c \in Clients : client[c].home = i /\ client[c].id = k

\* Who is in the rounds has seen its session full.
FullAt(c) ==
  client[c].pc \in Rounds /\ ~Reused(client[c].name) =>
    /\ session[client[c].home].joined = client[c].n
    /\ client[c].parties = 1 .. client[c].n
FullInRounds == \A c \in Clients : FullAt(c)

\* A message in a session whose name is its own is by a member, under its
\* number, to all (in round 1) or to another number (in round 2).
IsOfMember(m, i) ==
  /\ client[m.by].home = i
  /\ m.from = client[m.by].id
  /\ m.round = 1 => m.to = 0
  /\ m.round = 2 => m.to \in (1 .. session[i].n) \ {m.from}
MessagesOfMembers ==
  \A i \in Initiators : ~Reused(initiator[i].name) =>
    \A m \in session[i].messages : IsOfMember(m, i)

\* Who has collected commitments has them of all members, by their numbers.
KeyAt(c) ==
  /\ client[c].pc \in {"share", "shared", "done", "hung"}
  /\ ~Reused(client[c].name)
  => /\ KeyHolders(c) = Members(client[c].home)
     /\ \A k \in client[c].commitments : k.from = client[k.by].id
KeyOfMembers == \A c \in Clients : KeyAt(c)

\* Nobody has failed without a reason.
FineAt(c) ==
  /\ client[c].home # Nobody
  /\ ~Reused(client[c].name) /\ ~Trouble
  /\ client[c].t < client[c].n
  => client[c].pc \notin {"failed", "hung"}
AllFine == \A c \in Clients : FineAt(c)

IInv ==
  /\ TypeOK /\ Naming /\ EmptyUntilStored
  /\ HomeKnown /\ NumbersDiffer /\ NumbersGiven
  /\ FullInRounds /\ MessagesOfMembers /\ KeyOfMembers /\ AllFine

\* TypeOK in its parts.
LEMMA TypeParts == TypeOK <=> SessionTypes /\ ServerTypes /\ ClientTypes /\ CountTypes
  BY DEF TypeOK, SessionTypes, ServerTypes, ClientTypes, CountTypes,
         SessionRecords, InitiatorRecords, ClientRecords

-----------------------------------------------------------------------------
\* While an initiation has not stored its session, a name is left for it:
\* the sessions in the map are those of other initiations.
LEMMA NameIsLeft ==
  ASSUME TypeOK, Naming, NEW i \in Initiators, ~IsStored(i)
  PROVE  Cardinality({name \in Names : sessions[name] # Nobody}) + 1 \in Names
<1> DEFINE live == {name \in Names : sessions[name] # Nobody}
           holder == [name \in live |-> sessions[name]]
           others == Initiators \ {i}
<1>1. IsFiniteSet(Initiators) /\ Cardinality(Initiators) \in Nat
  BY KeygenAssumption, FS_CardinalityType DEF KeygenAssumption
<1>2. IsFiniteSet(others) /\ Cardinality(others) = Cardinality(Initiators) - 1
  BY <1>1, FS_RemoveElement
<1>3. holder \in [live -> others]
  BY DEF Naming, StoredUnderItsName, TypeOK
<1>4. \A a, b \in live : holder[a] = holder[b] => a = b
  BY DEF Naming, StoredUnderItsName
<1>5. holder \in Injection(live, others)
  BY <1>3, <1>4 DEF Injection, IsInjective
<1>6. IsFiniteSet(live) /\ Cardinality(live) <= Cardinality(others)
  BY <1>2, <1>5, FS_Injection
<1>7. Cardinality(live) \in Nat
  BY <1>6, FS_CardinalityType
<1> QED
  BY <1>1, <1>2, <1>6, <1>7 DEF Names

\* Two sessions that were stored under one name make it a name that is reused.
LEMMA OwnName ==
  ASSUME TypeOK, Naming, NEW i \in Initiators, NEW j \in Initiators,
         IsStored(i), IsStored(j), initiator[i].name = initiator[j].name,
         ~Reused(initiator[i].name)
  PROVE  i = j
<1>1. initiator[i].name \in Names /\ stored[initiator[i].name] \in Nat
  BY DEF Naming, NamesChosen, IsStored, TypeOK
<1> QED
  BY <1>1 DEF Naming, StoresCounted, Reused

\* What a client finds under its name is the session that it has joined, or
\* nothing, and without a restart it is there.
LEMMA FindsItsHome ==
  ASSUME TypeOK, Naming, HomeKnown, NEW c \in Clients,
         client[c].home # Nobody, ~Reused(client[c].name)
  PROVE  /\ client[c].home \in Initiators
         /\ Found(c) \in {client[c].home, Nobody}
         /\ restarts = 0 => Found(c) = client[c].home
<1> DEFINE s == client[c].home
<1>1. s \in Initiators
  BY TypeParts DEF ClientTypes, ClientRecords
<1>2. IsStored(s) /\ client[c].name = initiator[s].name
  BY DEF HomeKnown, HomeAt
<1>3. initiator[s].name \in Names
  BY <1>1, <1>2 DEF Naming, NamesChosen, IsStored
<1>4. Found(c) = sessions[initiator[s].name] /\ Found(c) \in Initiators \cup {Nobody}
  BY <1>2, <1>3 DEF Found, TypeOK
<1>5. ASSUME Found(c) # Nobody PROVE Found(c) = s
  <2>1. Found(c) \in Initiators /\ IsStored(Found(c))
        /\ initiator[Found(c)].name = initiator[s].name
    BY <1>3, <1>4, <1>5 DEF Naming, StoredUnderItsName
  <2> QED
    BY <2>1, <1>1, <1>2, OwnName
<1>6. restarts = 0 => Found(c) # Nobody
  BY <1>1, <1>2, <1>4 DEF Naming, KeptUntilRestart
<1> QED
  BY <1>1, <1>4, <1>5, <1>6

-----------------------------------------------------------------------------
\* The numbers of n parties are n.
LEMMA UpTo ==
  ASSUME NEW n \in Nat
  PROVE  IsFiniteSet(1 .. n) /\ Cardinality(1 .. n) = n
  BY FS_Interval

\* The members of a session are as many as have joined it, one for each number.
LEMMA MembersByNumber ==
  ASSUME TypeOK, HomeKnown, NumbersDiffer, NumbersGiven, NEW s \in Initiators
  PROVE  /\ IsFiniteSet(Members(s))
         /\ Cardinality(Members(s)) = session[s].joined
         /\ {client[d].id : d \in Members(s)} = 1 .. session[s].joined
<1> DEFINE members == Members(s)
           numbers == 1 .. session[s].joined
           number == [d \in members |-> client[d].id]
<1>1. session[s].joined \in Nat /\ s # Nobody
  BY KeygenAssumption DEF TypeOK, KeygenAssumption
<1>2. \A d \in members : d \in Clients /\ client[d].home = s /\ client[d].id \in numbers
  BY <1>1 DEF Members, HomeKnown, HomeAt
<1>3. \A a, b \in members : number[a] = number[b] => a = b
  BY <1>1, <1>2 DEF NumbersDiffer
<1>4. \A k \in numbers : \E d \in members : number[d] = k
  BY DEF NumbersGiven, Members
<1>5. number \in [members -> numbers]
  BY <1>2
<1>6. IsFiniteSet(numbers) /\ Cardinality(numbers) = session[s].joined
  BY <1>1, UpTo
<1>7. IsFiniteSet(members)
  BY KeygenAssumption, FS_Subset DEF KeygenAssumption, Members
<1>8. number \in Injection(members, numbers)
  BY <1>3, <1>5 DEF Injection, IsInjective
<1>9. number \in Surjection(members, numbers)
  BY <1>4, <1>5 DEF Surjection
<1>10. Cardinality(members) = Cardinality(numbers)
  BY <1>6, <1>7, <1>8, <1>9, FS_Injection
<1> QED
  BY <1>2, <1>4, <1>6, <1>7, <1>10

\* A client that is in the rounds is in a whole session.
LEMMA RoundsAreWhole ==
  ASSUME IInv, NEW c \in Clients, client[c].pc \in Rounds, ~Reused(client[c].name)
  PROVE  LET s == client[c].home IN
         /\ s \in Initiators
         /\ client[c].n \in Nat
         /\ session[s].n = client[c].n /\ session[s].joined = client[c].n
         /\ initiator[s].name = client[c].name
         /\ client[c].id \in 1 .. client[c].n
         /\ client[c].parties = 1 .. client[c].n
         /\ IsFiniteSet(Members(s)) /\ Cardinality(Members(s)) = client[c].n
         /\ {client[d].id : d \in Members(s)} = 1 .. client[c].n
<1> DEFINE s == client[c].home
<1>1. s # Nobody
  BY DEF IInv, HomeKnown, HomeAt, Rounds
<1>2. s \in Initiators /\ client[c].n \in Nat
  BY <1>1 DEF IInv, TypeOK
<1>3. session[s].joined = client[c].n /\ client[c].parties = 1 .. client[c].n
  BY DEF IInv, FullInRounds, FullAt
<1>4. session[s].n = client[c].n /\ initiator[s].name = client[c].name
      /\ client[c].id \in 1 .. session[s].joined
  BY <1>1 DEF IInv, HomeKnown, HomeAt
<1>5. TypeOK /\ HomeKnown /\ NumbersDiffer /\ NumbersGiven
  BY DEF IInv
<1>6. /\ IsFiniteSet(Members(s)) /\ Cardinality(Members(s)) = session[s].joined
      /\ {client[d].id : d \in Members(s)} = 1 .. session[s].joined
  BY <1>2, <1>5, MembersByNumber
<1> QED
  BY <1>2, <1>3, <1>4, <1>6

\* The inductive invariant is enough for three of the properties.
LEMMA IInvIsEnough ==
  ASSUME IInv
  PROVE  TypeOK /\ WholeUnlessReused /\ OneKeyPerSession /\ NobodyFails
<1>1. WholeUnlessReused
  BY RoundsAreWhole DEF WholeUnlessReused, SessionIsWhole
<1>2. OneKeyPerSession
  BY DEF OneKeyPerSession, IInv, KeyOfMembers, KeyAt
<1>3. NobodyFails
  BY DEF NobodyFails, IInv, AllFine, FineAt
<1> QED
  BY <1>1, <1>2, <1>3 DEF IInv

-----------------------------------------------------------------------------
\* What a client's own steps leave: everybody else, and what it has of its home.
Only(c) == \A d \in Clients \ {c} : client'[d] = client[d]
SameHomes ==
  \A d \in Clients :
    /\ client'[d].home = client[d].home /\ client'[d].name = client[d].name
    /\ client'[d].id = client[d].id
    /\ client'[d].t = client[d].t /\ client'[d].n = client[d].n
\* ... of the sessions, the messages of one that is stored at most.
SameSizes ==
  \A i \in Initiators :
    /\ session'[i].t = session[i].t /\ session'[i].n = session[i].n
    /\ session'[i].joined = session[i].joined
    /\ ~IsStored(i) => session'[i].messages = session[i].messages
SameServer == UNCHANGED <<sessions, initiator, restarts, stored>>

\* Trouble does not pass.
TroubleStays == Trouble => Trouble'

\* A step of a client that has joined, or that ends, keeps the invariant when
\* the client has what its new place asks for, and posts as a member.
LEMMA MoveKeepsIInv ==
  ASSUME IInv, NEW c \in Clients,
         client[c].pc \in Rounds \cup {"joined"} \/ client'[c].pc = "failed",
         client'[c].pc # "idle",
         ClientTypes', SessionTypes', CountTypes', SameServer, SameSizes,
         Only(c), SameHomes, TroubleStays,
         FullAt(c)', MessagesOfMembers', KeyAt(c)', FineAt(c)'
  PROVE  IInv'
<1>1. client[c].home # Nobody \/ client'[c].pc = "failed"
  BY DEF IInv, HomeKnown, HomeAt, Rounds
<1>2. \A i \in Initiators : IsStored(i)' = IsStored(i)
  BY DEF SameServer, IsStored
<1>3. \A name : Reused(name)' = Reused(name)
  BY DEF SameServer, Reused
<1>4. TypeOK'
  <2>1. ServerTypes'
    BY TypeParts DEF IInv, ServerTypes, SameServer
  <2> QED
    BY <2>1, TypeParts, PTL
<1>5. Naming'
  BY <1>2 DEF IInv, Naming, NamesChosen, StoredUnderItsName, StoresCounted,
              KeptUntilRestart, IsStored, SameServer
<1>6. EmptyUntilStored'
  BY <1>2 DEF IInv, EmptyUntilStored, SameSizes
<1>7. HomeKnown'
  <2> SUFFICES ASSUME NEW d \in Clients PROVE HomeAt(d)'
    BY DEF HomeKnown
  <2>1. HomeAt(d)
    BY DEF IInv, HomeKnown
  <2>2. client[d].home \in Initiators \cup {Nobody}
    BY DEF IInv, TypeOK
  <2>3. d # c => client'[d].pc = client[d].pc
    BY DEF Only
  <2> QED
    BY <1>1, <1>2, <2>1, <2>2, <2>3 DEF HomeAt, SameHomes, SameSizes, SameServer
<1>8. NumbersDiffer' /\ NumbersGiven'
  BY DEF IInv, NumbersDiffer, NumbersGiven, SameHomes, SameSizes
<1>9. FullInRounds'
  <2> SUFFICES ASSUME NEW d \in Clients, d # c PROVE FullAt(d)'
    BY DEF FullInRounds
  <2>1. FullAt(d) /\ HomeAt(d)
    BY DEF IInv, FullInRounds, HomeKnown
  <2>2. client[d].home \in Initiators \/ client[d].pc \notin Rounds
    BY <2>1 DEF IInv, TypeOK, HomeAt, Rounds
  <2> QED
    BY <1>3, <2>1, <2>2 DEF FullAt, Only, SameSizes
<1>10. KeyOfMembers'
  <2> SUFFICES ASSUME NEW d \in Clients, d # c PROVE KeyAt(d)'
    BY DEF KeyOfMembers
  <2>1. KeyAt(d)
    BY DEF IInv, KeyOfMembers
  <2>2. \A k \in client[d].commitments : k.by \in Clients
    BY DEF IInv, TypeOK, Messages
  <2>3. client'[d] = client[d]
    BY DEF Only
  <2>4. \A s : Members(s)' = Members(s)
    BY DEF Members, SameHomes
  <2> QED
    BY <1>3, <2>1, <2>2, <2>3, <2>4 DEF KeyAt, KeyHolders, SameHomes
<1>11. AllFine'
  <2> SUFFICES ASSUME NEW d \in Clients, d # c PROVE FineAt(d)'
    BY DEF AllFine
  <2>1. FineAt(d)
    BY DEF IInv, AllFine
  <2> QED
    BY <1>3, <2>1 DEF FineAt, Only, TroubleStays
<1> QED
  BY <1>4, <1>5, <1>6, <1>7, <1>8, <1>9, <1>10, <1>11 DEF IInv

\* What going to another place changes.
LEMMA GotoChanges ==
  ASSUME IInv, NEW c \in Clients, NEW place \in Places, Goto(c, place)
  PROVE  /\ ClientTypes' /\ Only(c) /\ SameHomes
         /\ client'[c] = [client[c] EXCEPT !.pc = place]
         /\ client'[c].pc = place
         /\ client'[c].parties = client[c].parties
         /\ client'[c].commitments = client[c].commitments
<1>1. client \in [Clients -> ClientRecords]
  BY TypeParts DEF IInv, ClientTypes
<1>2. client'[c] = [client[c] EXCEPT !.pc = place] /\ Only(c)
      /\ client' \in [Clients -> ClientRecords]
  BY <1>1 DEF Goto, Only, ClientRecords
<1>3. client[c] \in ClientRecords
  BY <1>1
<1>4. SameHomes
  BY <1>2, <1>3 DEF SameHomes, Only, ClientRecords
<1> QED
  BY <1>2, <1>3, <1>4 DEF ClientRecords, ClientTypes

\* What a step of a client that does not post leaves of the server.
LEMMA QuietStep ==
  ASSUME IInv, SameServer, UNCHANGED session, faults' \in faults .. MaxFaults
  PROVE  SessionTypes' /\ CountTypes' /\ SameSizes /\ TroubleStays
<1>1. SessionTypes /\ CountTypes
  BY TypeParts DEF IInv
<1> QED
  BY <1>1 DEF SessionTypes, CountTypes, SameSizes, SameServer, TroubleStays, Trouble

\* ... of what is posted, when nobody changes its home.
LEMMA SameMessages ==
  ASSUME IInv, SameServer, UNCHANGED session, SameHomes
  PROVE  MessagesOfMembers'
<1>1. \A i \in Initiators : \A m \in session[i].messages : m.by \in Clients
  BY DEF IInv, TypeOK, Messages
<1> QED
  BY <1>1 DEF IInv, MessagesOfMembers, IsOfMember, SameServer, SameHomes, Reused

\* A client that ends by a fault keeps the invariant.
LEMMA DieKeepsIInv ==
  ASSUME IInv, NEW c \in Clients, Die(c)
  PROVE  IInv'
<1>1. SameServer /\ UNCHANGED session /\ Goto(c, "failed") /\ Fault
      /\ client[c].pc \in Rounds \cup {"joined"}
  BY DEF Die, SameServer
<1>2. faults' \in faults .. MaxFaults /\ faults' > 0
  BY <1>1, KeygenAssumption DEF IInv, TypeOK, Fault, KeygenAssumption
<1>3. /\ ClientTypes' /\ Only(c) /\ SameHomes /\ client'[c].pc = "failed"
  BY <1>1, GotoChanges DEF Places
<1>4. SessionTypes' /\ CountTypes' /\ SameSizes /\ TroubleStays /\ MessagesOfMembers'
  BY <1>1, <1>2, <1>3, QuietStep, SameMessages
<1>5. FullAt(c)' /\ KeyAt(c)'
  BY <1>3 DEF FullAt, KeyAt, Rounds
<1>6. FineAt(c)'
  BY <1>2 DEF FineAt, Trouble
<1> QED
  BY <1>1, <1>3, <1>4, <1>5, <1>6, MoveKeepsIInv

\* A client that has waited for the others has seen its own session full,
\* or one that was stored in its place.
LEMMA AwaitPartiesKeepsIInv ==
  ASSUME IInv, NEW c \in Clients, AwaitParties(c)
  PROVE  IInv'
<1> DEFINE s == Found(c)
           parties == 1 .. session[s].n
           home == client[c].home
<1>1. SameServer /\ UNCHANGED session /\ client[c].pc = "joined"
      /\ faults' \in faults .. MaxFaults
  BY KeygenAssumption DEF AwaitParties, SameServer, IInv, TypeOK, KeygenAssumption
<1>2. home # Nobody
  BY <1>1 DEF IInv, HomeKnown, HomeAt
<1>3. client[c] \in ClientRecords /\ client \in [Clients -> ClientRecords]
      /\ home \in Initiators
  BY <1>2, TypeParts DEF IInv, ClientTypes, ClientRecords
<1>4. client[c].name = initiator[home].name /\ client[c].id \in 1 .. session[home].joined
      /\ client[c].t = session[home].t /\ client[c].n = session[home].n
  BY <1>2 DEF IInv, HomeKnown, HomeAt
<1>5. session[home].joined <= session[home].n /\ session[home].joined \in Nat
      /\ session[home].n \in Nat
  BY <1>3 DEF IInv, TypeOK
<1>6. ~Reused(client[c].name) => s \in {home, Nobody} /\ (restarts = 0 => s = home)
  BY <1>2, FindsItsHome DEF IInv
<1>7. SessionTypes' /\ CountTypes' /\ SameSizes /\ TroubleStays
  BY <1>1, QuietStep
<1>8. CASE Goto(c, "failed") /\ (s = Nobody \/ ~(client[c].id \in parties /\ client[c].t < session[s].n))
  <2>1. /\ ClientTypes' /\ Only(c) /\ SameHomes /\ client'[c].pc = "failed"
    BY <1>8, GotoChanges DEF Places
  <2>2. MessagesOfMembers'
    BY <1>1, <2>1, SameMessages
  <2>3. FullAt(c)' /\ KeyAt(c)'
    BY <2>1 DEF FullAt, KeyAt, Rounds
  <2>4. Reused(client[c].name) \/ restarts # 0 \/ ~(client[c].t < client[c].n)
    BY <1>4, <1>5, <1>6, <1>8, <1>2
  <2>5. restarts \in Nat
    BY DEF IInv, TypeOK
  <2>6. FineAt(c)'
    BY <1>1, <2>1, <2>4, <2>5 DEF FineAt, Reused, SameServer, SameHomes, Trouble
  <2> QED
    BY <1>1, <1>7, <2>1, <2>2, <2>3, <2>6, MoveKeepsIInv
<1>9. CASE /\ s # Nobody /\ session[s].joined >= client[c].n
           /\ client' = [client EXCEPT ![c].pc = "commit", ![c].parties = parties]
  <2>1. parties \in SUBSET Nat
    OBVIOUS
  <2>2. client'[c] = [client[c] EXCEPT !.pc = "commit", !.parties = parties] /\ Only(c)
    BY <1>3, <1>9 DEF Only
  <2>3. client'[c] \in ClientRecords
    BY <1>3, <2>1, <2>2 DEF ClientRecords, Places, Rounds
  <2>4. client'[c].pc = "commit" /\ client'[c].parties = parties /\ SameHomes
    BY <1>3, <2>2 DEF ClientRecords, SameHomes, Only
  <2>5. ClientTypes'
    BY <1>3, <1>9, <2>2, <2>3 DEF ClientTypes, Only
  <2>6. MessagesOfMembers'
    BY <1>1, <2>4, SameMessages
  <2>7. KeyAt(c)' /\ FineAt(c)'
    BY <2>4 DEF KeyAt, FineAt
  <2>8. FullAt(c)'
    <3>1. client'[c].home = home /\ client'[c].n = client[c].n
          /\ (Reused(client[c].name)' = Reused(client[c].name))
          /\ client'[c].name = client[c].name /\ session' = session
      BY <1>1, <2>4 DEF SameHomes, Reused, SameServer
    <3>2. ASSUME ~Reused(client[c].name)
          PROVE  session[home].joined = client[c].n /\ parties = 1 .. client[c].n
      BY <3>2, <1>4, <1>5, <1>6, <1>9
    <3> QED
      BY <2>4, <3>1, <3>2 DEF FullAt
  <2> QED
    BY <1>1, <1>7, <2>2, <2>4, <2>5, <2>6, <2>7, <2>8, MoveKeepsIInv
<1> QED
  BY <1>8, <1>9 DEF AwaitParties

-----------------------------------------------------------------------------
\* What a client in the rounds posts is by a member, under its number.
LEMMA PostKeepsIInv ==
  ASSUME IInv, NEW c \in Clients, NEW round \in {1, 2}, NEW recipients \in SUBSET Nat,
         NEW place \in {"committed", "shared"},
         client[c].pc = (IF round = 1 THEN "commit" ELSE "share"),
         place = (IF round = 1 THEN "committed" ELSE "shared"),
         recipients = (IF round = 1 THEN {0} ELSE Others(c)),
         Post(c, round, recipients, place)
  PROVE  IInv'
<1> DEFINE s == Found(c)
           home == client[c].home
           messages == {[by |-> c, from |-> client[c].id, to |-> to, round |-> round]
                         : to \in recipients}
<1>1. SameServer /\ Goto(c, place) /\ client[c].pc \in Rounds
  BY DEF Post, SameServer, Rounds
<1>2. /\ ClientTypes' /\ Only(c) /\ SameHomes
      /\ client'[c].pc = place /\ client'[c].parties = client[c].parties
      /\ client'[c].commitments = client[c].commitments
  BY <1>1, GotoChanges DEF Places, Rounds
<1>3. home # Nobody /\ home \in Initiators /\ client[c].id \in Nat
      /\ client[c].name = initiator[home].name /\ client[c].n = session[home].n
  BY <1>1 DEF IInv, TypeOK, HomeKnown, HomeAt, Rounds
<1>4. initiator[home].name \in Names
  BY <1>3 DEF IInv, HomeKnown, HomeAt, Naming, NamesChosen, IsStored
<1>5. s # Nobody => s \in Initiators /\ IsStored(s) /\ initiator[s].name = client[c].name
  BY <1>3, <1>4 DEF Found, IInv, TypeOK, Naming, StoredUnderItsName
<1>6. ~Reused(client[c].name) => s \in {home, Nobody}
  BY <1>3, FindsItsHome DEF IInv
<1>7. messages \in SUBSET Messages
  BY <1>3 DEF Messages
<1> HIDE DEF messages
<1>8. \/ /\ s # Nobody /\ UNCHANGED faults
         /\ session' = [session EXCEPT ![s].messages = @ \cup messages]
      \/ Fault /\ UNCHANGED session
      \/ UNCHANGED <<session, faults>>
  BY DEF Post, messages
<1>9. session \in [Initiators -> SessionRecords]
  BY TypeParts DEF IInv, SessionTypes
<1>10. /\ \A i \in Initiators :
            /\ session'[i].t = session[i].t /\ session'[i].n = session[i].n
            /\ session'[i].joined = session[i].joined
            /\ session'[i].messages \in SUBSET Messages
            /\ i # s => session'[i].messages = session[i].messages
            /\ session'[i].messages \subseteq session[i].messages \cup messages
       /\ session' \in [Initiators -> SessionRecords]
  <2>1. CASE UNCHANGED session
    BY <2>1, <1>9 DEF SessionRecords
  <2>2. CASE s # Nobody /\ session' = [session EXCEPT ![s].messages = @ \cup messages]
    <3>1. session[s] \in SessionRecords
      BY <2>2, <1>5, <1>9
    <3>2. [session[s] EXCEPT !.messages = @ \cup messages] \in SessionRecords
      BY <3>1, <1>7 DEF SessionRecords
    <3>3. session'[s] = [session[s] EXCEPT !.messages = @ \cup messages]
      BY <2>2, <1>5, <1>9
    <3>4. \A i \in Initiators : i # s => session'[i] = session[i]
      BY <2>2, <1>9
    <3>5. session' \in [Initiators -> SessionRecords]
      BY <2>2, <1>5, <1>9, <3>2
    <3> QED
      BY <1>9, <3>1, <3>3, <3>4, <3>5 DEF SessionRecords
  <2> QED
    BY <1>8, <2>1, <2>2
<1>11. SessionTypes' /\ SameSizes
  <2>1. \A i \in Initiators : i # Nobody /\ session[i].joined <= session[i].n
    BY KeygenAssumption DEF IInv, TypeOK, KeygenAssumption
  <2> QED
    BY <1>5, <1>10, <2>1 DEF SessionTypes, SameSizes
<1>12. CountTypes' /\ TroubleStays
  BY <1>1, <1>8, TypeParts, KeygenAssumption
     DEF IInv, CountTypes, TroubleStays, Trouble, Fault, SameServer, KeygenAssumption
<1>13. MessagesOfMembers'
  <2> SUFFICES ASSUME NEW i \in Initiators, ~Reused(initiator[i].name),
                      NEW m \in session'[i].messages
               PROVE  IsOfMember(m, i)'
    BY <1>1 DEF MessagesOfMembers, SameServer, Reused
  <2>1. m \in Messages
    BY <1>10
  <2>2. IsOfMember(m, i)
    <3>1. CASE m \in session[i].messages
      BY <3>1 DEF IInv, MessagesOfMembers
    <3>2. CASE m \notin session[i].messages
      <4>1. i = s /\ m \in messages
        BY <3>2, <1>10
      <4>2. i = home
        BY <4>1, <1>3, <1>5, <1>6, KeygenAssumption DEF KeygenAssumption
      <4>3. round = 2 => client[c].parties = 1 .. session[home].n
        BY <1>1, <1>3, <4>2 DEF IInv, FullInRounds, FullAt
      <4>4. PICK to \in recipients :
              m = [by |-> c, from |-> client[c].id, to |-> to, round |-> round]
        BY <4>1 DEF messages
      <4>5. m.by = c /\ m.from = client[c].id /\ m.to \in recipients /\ m.round = round
        BY <4>4
      <4>6. CASE round = 1
        BY <4>2, <4>5, <4>6 DEF IsOfMember
      <4>7. CASE round = 2
        <5>1. recipients = (1 .. session[i].n) \ {client[c].id}
          <6>1. recipients = client[c].parties \ {client[c].id}
            BY <4>7 DEF Others
          <6>2. client[c].parties = 1 .. session[i].n
            BY <4>2, <4>3, <4>7
          <6> QED
            BY <6>1, <6>2
        <5> QED
          BY <4>2, <4>5, <4>7, <5>1 DEF IsOfMember
      <4> QED
        BY <4>6, <4>7
    <3> QED
      BY <3>1, <3>2
  <2> QED
    BY <1>2, <1>10, <2>1, <2>2 DEF IsOfMember, SameHomes, Messages
<1>14. FullAt(c)'
  BY <1>1, <1>2, <1>3, <1>10 DEF IInv, FullInRounds, FullAt, SameHomes, SameServer, Reused
<1>15. KeyAt(c)'
  <2>1. client[c].pc = "share" => KeyAt(c)
    BY DEF IInv, KeyOfMembers
  <2>2. \A k \in client[c].commitments : k.by \in Clients
    BY DEF IInv, TypeOK, Messages
  <2>3. Members(home)' = Members(home)
    BY <1>2 DEF Members, SameHomes
  <2>4. client'[c].home = home /\ client'[c].name = client[c].name
        /\ (Reused(client[c].name)' = Reused(client[c].name))
    BY <1>1, <1>2 DEF SameHomes, SameServer, Reused
  <2> QED
    BY <1>1, <1>2, <2>1, <2>2, <2>3, <2>4 DEF KeyAt, KeyHolders, SameHomes
<1>16. FineAt(c)'
  BY <1>2 DEF FineAt
<1> QED
  BY <1>1, <1>2, <1>11, <1>12, <1>13, <1>14, <1>15, <1>16, MoveKeepsIInv

\* Both rounds post so.
LEMMA PostCommitmentKeepsIInv ==
  ASSUME IInv, NEW c \in Clients, PostCommitment(c)
  PROVE  IInv'
  BY PostKeepsIInv DEF PostCommitment

\* The shares of round 2, one to every other number.
LEMMA PostSharesKeepsIInv ==
  ASSUME IInv, NEW c \in Clients, PostShares(c)
  PROVE  IInv'
<1>1. Others(c) \in SUBSET Nat
  BY DEF IInv, TypeOK, Others
<1> QED
  BY <1>1, PostKeepsIInv DEF PostShares

-----------------------------------------------------------------------------
\* The messages of a record are told apart by their four fields.
LEMMA SameMessage ==
  ASSUME NEW m \in Messages, NEW k \in Messages,
         m.by = k.by, m.from = k.from, m.to = k.to, m.round = k.round
  PROVE  m = k
  BY DEF Messages

\* What is posted in the session of a client in the rounds.
LEMMA PostedByMembers ==
  ASSUME IInv, NEW c \in Clients, client[c].pc \in Rounds, ~Reused(client[c].name),
         NEW m \in session[client[c].home].messages
  PROVE  /\ m \in Messages /\ m.by \in Members(client[c].home)
         /\ m.from = client[m.by].id
         /\ m.round = 1 => m.to = 0
         /\ m.round = 2 => m.to \in (1 .. client[c].n) \ {client[m.by].id}
<1> DEFINE s == client[c].home
<1>1. s \in Initiators /\ initiator[s].name = client[c].name /\ session[s].n = client[c].n
  BY RoundsAreWhole
<1>2. m \in Messages
  BY <1>1 DEF IInv, TypeOK
<1>3. IsOfMember(m, s)
  BY <1>1 DEF IInv, MessagesOfMembers
<1> QED
  BY <1>1, <1>2, <1>3 DEF IsOfMember, Members, Messages

\* Round 1 is complete, by its count, only when every member has posted in it.
LEMMA CommitmentsOfAll ==
  ASSUME IInv, NEW c \in Clients, client[c].pc \in Rounds, ~Reused(client[c].name),
         Complete(client[c].home, 1), NEW d \in Members(client[c].home)
  PROVE  \E m \in Posted(client[c].home, 1) : m.by = d /\ m.to = 0
<1> DEFINE s == client[c].home
           posted == Posted(s, 1)
           sender == [m \in posted |-> m.by]
<1>1. \A m \in posted : m \in Messages /\ m.by \in Members(s)
                        /\ m.from = client[m.by].id /\ m.to = 0 /\ m.round = 1
  BY PostedByMembers DEF Posted
<1>2. sender \in [posted -> Members(s)]
  BY <1>1
<1>3. \A m, k \in posted : sender[m] = sender[k] => m = k
  BY <1>1, SameMessage
<1>4. sender \in Injection(posted, Members(s))
  BY <1>2, <1>3 DEF Injection, IsInjective
<1>5. IsFiniteSet(Members(s)) /\ Cardinality(Members(s)) = session[s].n /\ session[s].n \in Nat
  BY RoundsAreWhole
<1>6. IsFiniteSet(posted) /\ Cardinality(posted) <= Cardinality(Members(s))
      /\ (Cardinality(posted) = Cardinality(Members(s)) => sender \in Surjection(posted, Members(s)))
  BY <1>4, <1>5, FS_Injection
<1>7. Cardinality(posted) \in Nat /\ Cardinality(posted) >= session[s].n
  BY <1>6, FS_CardinalityType DEF Complete, Expected
<1>8. sender \in Surjection(posted, Members(s))
  BY <1>5, <1>6, <1>7
<1>9. \E m \in posted : sender[m] = d
  BY <1>8 DEF Surjection
<1> QED
  BY <1>1, <1>9

\* Of n members and n numbers there are n * (n - 1) pairs of a member and a
\* number that is not its own.
LEMMA PairsOfMembers ==
  ASSUME NEW members, NEW n \in Nat, NEW number \in [members -> 1 .. n],
         IsFiniteSet(members), Cardinality(members) = n
  PROVE  LET pairs == {pair \in members \X (1 .. n) : pair[2] # number[pair[1]]} IN
         IsFiniteSet(pairs) /\ Cardinality(pairs) = n * (n - 1)
<1> DEFINE all == members \X (1 .. n)
           own == {pair \in all : pair[2] = number[pair[1]]}
           pairs == {pair \in all : pair[2] # number[pair[1]]}
           member == [pair \in own |-> pair[1]]
<1>1. IsFiniteSet(1 .. n) /\ Cardinality(1 .. n) = n
  BY UpTo
<1>2. IsFiniteSet(all) /\ Cardinality(all) = n * n
  <2>1. IsFiniteSet(all) /\ Cardinality(all) = Cardinality(members) * Cardinality(1 .. n)
    BY <1>1, FS_Product, Zenon
  <2> QED
    BY <2>1, <1>1
<1>3. member \in [own -> members]
  OBVIOUS
<1>4. \A a, b \in own : member[a] = member[b] => a = b
  OBVIOUS
<1>5. \A d \in members : \E pair \in own : member[pair] = d
  <2> TAKE d \in members
  <2>1. <<d, number[d]>> \in own /\ member[<<d, number[d]>>] = d
    OBVIOUS
  <2> QED
    BY <2>1
<1>6. member \in Injection(own, members) /\ member \in Surjection(own, members)
  BY <1>3, <1>4, <1>5 DEF Injection, IsInjective, Surjection
<1>7. Cardinality(own) = n
  BY <1>6, FS_Injection
<1>8. pairs = all \ own /\ all \cap own = own
  OBVIOUS
<1>9. IsFiniteSet(pairs) /\ Cardinality(pairs) = n * n - n
  <2>1. IsFiniteSet(all \ own) /\ Cardinality(all \ own) = Cardinality(all) - Cardinality(all \cap own)
    BY <1>2, FS_Difference, Zenon
  <2> HIDE DEF all, own, pairs
  <2> QED
    BY <1>2, <1>7, <1>8, <2>1
<1> HIDE DEF pairs
<1>10. n * n - n = n * (n - 1)
  OBVIOUS
<1> QED
  BY <1>9, <1>10 DEF pairs

\* Round 2 likewise: for everybody, a message of every other member.
LEMMA SharesOfAll ==
  ASSUME IInv, NEW c \in Clients, client[c].pc \in Rounds, ~Reused(client[c].name),
         Complete(client[c].home, 2), NEW d \in Members(client[c].home),
         NEW k \in (1 .. client[c].n) \ {client[d].id}
  PROVE  \E m \in Posted(client[c].home, 2) : m.by = d /\ m.to = k
<1> DEFINE s == client[c].home
           n == client[c].n
           members == Members(s)
           number == [e \in members |-> client[e].id]
           pairs == {pair \in members \X (1 .. n) : pair[2] # number[pair[1]]}
           posted == Posted(s, 2)
           way == [m \in posted |-> <<m.by, m.to>>]
<1>1. \A m \in posted : m \in Messages /\ m.by \in members
                        /\ m.from = client[m.by].id /\ m.round = 2
                        /\ m.to \in (1 .. n) \ {client[m.by].id}
  BY PostedByMembers DEF Posted
<1>2. /\ n \in Nat /\ session[s].n = n
      /\ IsFiniteSet(members) /\ Cardinality(members) = n
      /\ {client[e].id : e \in members} = 1 .. n
  BY RoundsAreWhole
<1>3. number \in [members -> 1 .. n]
  BY <1>2
<1>4. IsFiniteSet(pairs) /\ Cardinality(pairs) = n * (n - 1)
  <2> HIDE DEF number, members, n
  <2> QED
    BY <1>2, <1>3, PairsOfMembers
<1>5. way \in [posted -> pairs]
  BY <1>1
<1>6. \A m, o \in posted : way[m] = way[o] => m = o
  <2> TAKE m, o \in posted
  <2> HAVE way[m] = way[o]
  <2>1. m.by = o.by /\ m.to = o.to
    OBVIOUS
  <2> QED
    BY <2>1, <1>1, SameMessage
<1>7. way \in Injection(posted, pairs)
  BY <1>5, <1>6 DEF Injection, IsInjective
<1>8. IsFiniteSet(posted) /\ Cardinality(posted) <= Cardinality(pairs)
      /\ (Cardinality(posted) = Cardinality(pairs) => way \in Surjection(posted, pairs))
  <2> HIDE DEF way, posted, pairs
  <2> QED
    BY <1>4, <1>7, FS_Injection
<1>9. Cardinality(posted) \in Nat /\ Cardinality(posted) >= n * (n - 1)
  BY <1>2, <1>8, FS_CardinalityType DEF Complete, Expected
<1>10. Cardinality(posted) = Cardinality(pairs)
  <2> HIDE DEF posted, pairs, n
  <2>1. n * (n - 1) \in Int
    BY <1>2
  <2> QED
    BY <1>4, <1>8, <1>9, <2>1
<1>11. \A pair \in pairs : \E m \in posted : way[m] = pair
  BY <1>8, <1>10 DEF Surjection
<1>12. <<d, k>> \in pairs
  OBVIOUS
<1>13. PICK m \in posted : way[m] = <<d, k>>
  BY <1>11, <1>12
<1>14. <<m.by, m.to>> = <<d, k>>
  BY <1>13
<1> QED
  BY <1>14

\* What a member is given of a round: one message of each other member at most, ...
LEMMA GivenByOthers ==
  ASSUME IInv, NEW c \in Clients, client[c].pc \in Rounds, ~Reused(client[c].name),
         NEW round \in {1, 2},
         NEW m \in Foreign(Delivered(client[c].home, c, round), c)
  PROVE  /\ m \in Messages
         /\ m.by \in Members(client[c].home) \ {c}
         /\ m.from = client[m.by].id /\ m.from \in Others(c)
         /\ m.round = round
         /\ m.to = (IF round = 1 THEN 0 ELSE client[c].id)
<1>1. m \in session[client[c].home].messages /\ m.round = round
      /\ m.to \in {0, client[c].id} /\ m.from # client[c].id
  BY DEF Foreign, Delivered, Posted
<1>2. /\ m \in Messages /\ m.by \in Members(client[c].home)
      /\ m.from = client[m.by].id
      /\ m.round = 1 => m.to = 0
      /\ m.round = 2 => m.to \in 1 .. client[c].n
  BY <1>1, PostedByMembers
<1>3. /\ client[c].n \in Nat /\ client[c].parties = 1 .. client[c].n
      /\ {client[d].id : d \in Members(client[c].home)} = 1 .. client[c].n
  BY RoundsAreWhole
<1>4. m.from \in 1 .. client[c].n
  BY <1>2, <1>3
<1>5. m.from \in Others(c)
  BY <1>1, <1>3, <1>4 DEF Others
<1>6. m.round = 2 => m.to # 0
  BY <1>2, <1>3
<1> QED
  BY <1>1, <1>2, <1>5, <1>6

\* ... so that none of them is a reason to end, ...
LEMMA NothingIsRejected ==
  ASSUME IInv, NEW c \in Clients, client[c].pc \in Rounds, ~Reused(client[c].name),
         NEW round \in {1, 2}
  PROVE  ~Rejected(Foreign(Delivered(client[c].home, c, round), c), c)
<1> DEFINE messages == Foreign(Delivered(client[c].home, c, round), c)
<1>1. ASSUME NEW m \in messages PROVE m.from \in client[c].parties
  BY GivenByOthers DEF Others
<1>2. ASSUME NEW m \in messages, NEW k \in messages, m.from = k.from PROVE m = k
  <2>1. /\ m \in Messages /\ k \in Messages
        /\ m.by \in Members(client[c].home) /\ k.by \in Members(client[c].home)
        /\ client[m.by].id = client[k.by].id
        /\ m.round = k.round /\ m.to = k.to
    BY <1>2, GivenByOthers
  <2>2. client[c].home # Nobody
    BY DEF IInv, HomeKnown, HomeAt, Rounds
  <2>3. m.by = k.by
    BY <2>1, <2>2 DEF IInv, NumbersDiffer, Members
  <2> QED
    BY <1>2, <2>1, <2>3, SameMessage
<1> QED
  BY <1>1, <1>2 DEF Rejected

\* ... and, once the round is complete, one of each.
LEMMA EverybodyIsHeard ==
  ASSUME IInv, NEW c \in Clients, client[c].pc \in Rounds, ~Reused(client[c].name),
         NEW round \in {1, 2}, Complete(client[c].home, round)
  PROVE  HeardOf(Foreign(Delivered(client[c].home, c, round), c), c)
<1> DEFINE s == client[c].home
           messages == Foreign(Delivered(s, c, round), c)
<1>1. /\ client[c].n \in Nat /\ client[c].parties = 1 .. client[c].n
      /\ client[c].id \in 1 .. client[c].n
      /\ {client[d].id : d \in Members(s)} = 1 .. client[c].n
  BY RoundsAreWhole
<1>2. ASSUME NEW k \in Others(c) PROVE \E m \in messages : m.from = k
  <2>1. PICK d \in Members(s) : client[d].id = k
    BY <1>1 DEF Others
  <2>2. client[d].id # client[c].id
    BY <2>1 DEF Others
  <2>3. \E m \in Posted(s, round) : m.by = d /\ m.to \in {0, client[c].id}
    <3>1. CASE round = 1
      BY <3>1, CommitmentsOfAll
    <3>2. CASE round = 2
      BY <1>1, <2>2, <3>2, SharesOfAll
    <3> QED
      BY <3>1, <3>2
  <2>4. PICK m \in Posted(s, round) : m.by = d /\ m.to \in {0, client[c].id}
    BY <2>3
  <2>5. m \in session[s].messages
    BY DEF Posted
  <2>6. m.from = client[d].id
    BY <2>4, <2>5, PostedByMembers
  <2>7. m \in messages
    BY <2>2, <2>4, <2>6 DEF Foreign, Delivered
  <2> QED
    BY <2>1, <2>6, <2>7
<1>3. ASSUME NEW m \in messages PROVE m.from \in Others(c)
  BY GivenByOthers
<1> QED
  BY <1>2, <1>3 DEF HeardOf

-----------------------------------------------------------------------------
\* What a client in the rounds finds is the session that it is a member of.
LEMMA RoundsFindHome ==
  ASSUME IInv, NEW c \in Clients, client[c].pc \in Rounds, ~Reused(client[c].name),
         Found(c) # Nobody
  PROVE  Found(c) = client[c].home
  BY FindsItsHome DEF IInv, HomeKnown, HomeAt, Rounds

\* Who collects commitments from a complete round 1 has them of all members.
LEMMA CollectCommitmentsKeepsIInv ==
  ASSUME IInv, NEW c \in Clients, CollectCommitments(c)
  PROVE  IInv'
<1> DEFINE s == Found(c)
           home == client[c].home
           messages == Foreign(Delivered(s, c, 1), c)
           heard == ~Rejected(messages, c) /\ HeardOf(messages, c)
<1>1. SameServer /\ UNCHANGED session /\ client[c].pc \in Rounds /\ s # Nobody
      /\ Complete(s, 1) /\ faults' \in faults .. MaxFaults
  BY KeygenAssumption
     DEF CollectCommitments, SameServer, Rounds, IInv, TypeOK, KeygenAssumption
<1>2. client[c] \in ClientRecords /\ client \in [Clients -> ClientRecords]
  BY TypeParts DEF IInv, ClientTypes
<1>3. SessionTypes' /\ CountTypes' /\ SameSizes /\ TroubleStays
  BY <1>1, QuietStep
<1>4. ~Reused(client[c].name) => s = home
  BY <1>1, RoundsFindHome
<1>5. CASE ~heard /\ Goto(c, "failed")
  <2>1. /\ ClientTypes' /\ Only(c) /\ SameHomes /\ client'[c].pc = "failed"
    BY <1>5, GotoChanges DEF Places
  <2>2. Reused(client[c].name)
    BY <1>1, <1>4, <1>5, NothingIsRejected, EverybodyIsHeard
  <2>3. Reused(client[c].name)' /\ client'[c].name = client[c].name
    BY <1>1, <2>1, <2>2 DEF Reused, SameServer, SameHomes
  <2>4. FullAt(c)' /\ KeyAt(c)' /\ FineAt(c)'
    BY <2>3 DEF FullAt, KeyAt, FineAt, Reused
  <2>5. MessagesOfMembers'
    BY <1>1, <2>1, SameMessages
  <2> QED
    BY <1>1, <1>3, <2>1, <2>4, <2>5, MoveKeepsIInv
<1>6. CASE /\ heard
           /\ client' = [client EXCEPT ![c].pc = "share", ![c].commitments = messages]
  <2>1. messages \in SUBSET Messages
    <3>1. s \in Initiators
      <4>1. client[c].name \in Names
        BY <1>1 DEF IInv, TypeOK, HomeKnown, HomeAt, Naming, NamesChosen, IsStored, Rounds
      <4> QED
        BY <1>1, <4>1 DEF Found, IInv, TypeOK
    <3> QED
      BY <3>1 DEF IInv, TypeOK, Foreign, Delivered, Posted
  <2> HIDE DEF messages
  <2>2. client'[c] = [client[c] EXCEPT !.pc = "share", !.commitments = messages] /\ Only(c)
    BY <1>2, <1>6 DEF Only
  <2>3. client'[c] \in ClientRecords
    BY <1>2, <2>1, <2>2 DEF ClientRecords, Places, Rounds
  <2>4. /\ client'[c].pc = "share" /\ client'[c].commitments = messages
        /\ client'[c].parties = client[c].parties /\ SameHomes
    BY <1>2, <2>2 DEF ClientRecords, SameHomes, Only
  <2>5. ClientTypes'
    BY <1>2, <1>6, <2>2, <2>3 DEF ClientTypes, Only
  <2>6. MessagesOfMembers'
    BY <1>1, <2>4, SameMessages
  <2>7. FineAt(c)'
    BY <2>4 DEF FineAt
  <2>8. client'[c].home = home /\ client'[c].n = client[c].n
        /\ (Reused(client[c].name)' = Reused(client[c].name))
        /\ client'[c].name = client[c].name /\ session' = session
    BY <1>1, <2>4 DEF SameHomes, Reused, SameServer
  <2>9. FullAt(c)'
    BY <1>1, <2>4, <2>8 DEF IInv, FullInRounds, FullAt
  <2>10. ASSUME ~Reused(client[c].name)
         PROVE  /\ {c} \cup {m.by : m \in messages} = Members(home)
                /\ \A m \in messages : m.by \in Clients /\ m.from = client[m.by].id
    <3>1. s = home
      BY <1>4, <2>10
    <3>2. \A m \in messages : m.by \in Members(home) \ {c}
            /\ m.from = client[m.by].id
      BY <1>1, <2>10, <3>1, GivenByOthers DEF messages
    <3>3. ASSUME NEW d \in Members(home), d # c
          PROVE  \E m \in messages : m.by = d
      <4>1. PICK m \in Posted(home, 1) : m.by = d /\ m.to = 0
        BY <1>1, <2>10, <3>1, CommitmentsOfAll
      <4>2. m.from = client[d].id
        BY <1>1, <2>10, <4>1, PostedByMembers DEF Posted
      <4>3. home # Nobody
        BY <1>1 DEF IInv, HomeKnown, HomeAt, Rounds
      <4>4. client[d].id # client[c].id
        BY <3>3, <4>3 DEF IInv, NumbersDiffer, Members
      <4>5. m \in messages
        BY <3>1, <4>1, <4>2, <4>4 DEF messages, Foreign, Delivered
      <4> QED
        BY <4>1, <4>5
    <3>4. c \in Members(home)
      BY DEF Members
    <3> QED
      BY <3>2, <3>3, <3>4 DEF Members
  <2>11. Members(home)' = Members(home)
    BY <2>4 DEF Members, SameHomes
  <2>12. KeyAt(c)'
    BY <2>4, <2>8, <2>10, <2>11 DEF KeyAt, KeyHolders, SameHomes
  <2> QED
    BY <1>1, <1>3, <2>2, <2>4, <2>5, <2>6, <2>7, <2>9, <2>12, MoveKeepsIInv
<1> QED
  BY <1>5, <1>6 DEF CollectCommitments

\* Who collects shares from a complete round 2 finds them to fit the
\* commitments it has, so it ends with a key and not in a failure.
LEMMA CollectSharesKeepsIInv ==
  ASSUME IInv, NEW c \in Clients, CollectShares(c)
  PROVE  IInv'
<1> DEFINE s == Found(c)
           home == client[c].home
           messages == Foreign(Delivered(s, c, 2), c)
           Fits(m) == \E k \in client[c].commitments : k.from = m.from /\ k.by = m.by
           place == IF Rejected(messages, c) THEN "failed"
                    ELSE IF ~HeardOf(messages, c) THEN "hung"
                    ELSE IF \A m \in messages : Fits(m) THEN "done"
                    ELSE "failed"
<1>1. SameServer /\ UNCHANGED session /\ client[c].pc = "shared" /\ client[c].pc \in Rounds
      /\ s # Nobody /\ Complete(s, 2) /\ faults' \in faults .. MaxFaults
  BY KeygenAssumption
     DEF CollectShares, SameServer, Rounds, IInv, TypeOK, KeygenAssumption
<1>2. Goto(c, place)
  BY DEF CollectShares
<1>3. place \in {"failed", "hung", "done"}
  OBVIOUS
<1>4. ASSUME ~Reused(client[c].name) PROVE place = "done"
  <2>1. s = home
    BY <1>1, <1>4, RoundsFindHome
  <2>2. ~Rejected(messages, c) /\ HeardOf(messages, c)
    BY <1>1, <1>4, <2>1, NothingIsRejected, EverybodyIsHeard
  <2>3. /\ {c} \cup {k.by : k \in client[c].commitments} = Members(home)
        /\ \A k \in client[c].commitments : k.from = client[k.by].id
    BY <1>1, <1>4 DEF IInv, KeyOfMembers, KeyAt, KeyHolders
  <2>4. ASSUME NEW m \in messages PROVE Fits(m)
    <3>1. m.by \in Members(home) \ {c} /\ m.from = client[m.by].id
      BY <1>1, <1>4, <2>1, <2>4, GivenByOthers
    <3> QED
      BY <2>3, <3>1
  <2> QED
    BY <2>2, <2>4
<1> HIDE DEF place
<1>5. /\ ClientTypes' /\ Only(c) /\ SameHomes /\ client'[c].pc = place
      /\ client'[c].parties = client[c].parties
      /\ client'[c].commitments = client[c].commitments
  BY <1>2, <1>3, GotoChanges DEF Places, Rounds
<1>6. SessionTypes' /\ CountTypes' /\ SameSizes /\ TroubleStays /\ MessagesOfMembers'
  BY <1>1, <1>5, QuietStep, SameMessages
<1>7. client'[c].home = home /\ client'[c].n = client[c].n
      /\ (Reused(client[c].name)' = Reused(client[c].name))
      /\ client'[c].name = client[c].name /\ session' = session
  BY <1>1, <1>5 DEF SameHomes, Reused, SameServer
<1>8. FineAt(c)'
  BY <1>4, <1>5, <1>7 DEF FineAt
<1>9. FullAt(c)'
  BY <1>1, <1>5, <1>7 DEF IInv, FullInRounds, FullAt
<1>10. KeyAt(c)'
  <2>1. KeyAt(c)
    BY DEF IInv, KeyOfMembers
  <2>2. \A k \in client[c].commitments : k.by \in Clients
    BY DEF IInv, TypeOK, Messages
  <2>3. Members(home)' = Members(home)
    BY <1>5 DEF Members, SameHomes
  <2> QED
    BY <1>1, <1>5, <1>7, <2>1, <2>2, <2>3 DEF KeyAt, KeyHolders, SameHomes
<1> QED
  BY <1>1, <1>3, <1>5, <1>6, <1>8, <1>9, <1>10, MoveKeepsIInv

-----------------------------------------------------------------------------
\* Who finds no place in the session ends; it has joined nothing.
LEMMA TurnedAwayKeepsIInv ==
  ASSUME IInv, NEW c \in Clients, client[c].pc = "idle",
         Goto(c, "failed"), SameServer, UNCHANGED <<session, faults>>
  PROVE  IInv'
<1>1. /\ ClientTypes' /\ Only(c) /\ SameHomes /\ client'[c].pc = "failed"
  BY GotoChanges DEF Places
<1>2. faults' \in faults .. MaxFaults
  BY KeygenAssumption DEF IInv, TypeOK, KeygenAssumption
<1>3. SessionTypes' /\ CountTypes' /\ SameSizes /\ TroubleStays /\ MessagesOfMembers'
  BY <1>1, <1>2, QuietStep, SameMessages
<1>4. client'[c].home = Nobody
  BY <1>1 DEF IInv, HomeKnown, HomeAt, SameHomes
<1>5. FullAt(c)' /\ KeyAt(c)' /\ FineAt(c)'
  BY <1>1, <1>4 DEF FullAt, KeyAt, FineAt, Rounds
<1> QED
  BY <1>1, <1>3, <1>5, MoveKeepsIInv

\* Who finds a place takes the next number, which no member has; whoever is in
\* the rounds of a session has seen it full, so nobody joins theirs.
LEMMA TakesAPlaceKeepsIInv ==
  ASSUME IInv, NEW c \in Clients, NEW i \in Initiators,
         client[c].pc = "idle", IsStored(i), SameServer,
         NEW s, s = sessions[initiator[i].name], HasPlace(s),
         session' = [session EXCEPT ![s].joined = @ + 1],
         NEW place \in {"joined", "failed"},
         place = "failed" => Fault, place = "joined" => UNCHANGED faults,
         client' = [client EXCEPT ![c] =
           [@ EXCEPT !.pc = place, !.home = s, !.name = initiator[i].name,
                     !.id = NextId(s), !.t = session[s].t, !.n = session[s].n]]
  PROVE  IInv'
<1> DEFINE name == initiator[i].name
<1>1. name \in Names /\ s \in Initiators /\ s # Nobody
  BY DEF IInv, TypeOK, Naming, NamesChosen, IsStored, HasPlace
<1>2. IsStored(s) /\ initiator[s].name = name
  BY <1>1 DEF IInv, Naming, StoredUnderItsName
<1>3. session \in [Initiators -> SessionRecords] /\ client \in [Clients -> ClientRecords]
  BY TypeParts DEF IInv, SessionTypes, ClientTypes
<1>4. session[s] \in SessionRecords /\ client[c] \in ClientRecords
  BY <1>1, <1>3
<1>5. /\ session[s].joined \in Nat /\ session[s].n \in Nat /\ session[s].t \in Nat
      /\ session[s].joined < session[s].n
  BY <1>4 DEF SessionRecords, HasPlace, IsFull
<1>6. NextId(s) = session[s].joined + 1 /\ NextId(s) \in Nat
  BY <1>5 DEF NextId
<1>7. client[c].home = Nobody
  BY DEF IInv, HomeKnown, HomeAt
<1>8. /\ session'[s] = [session[s] EXCEPT !.joined = @ + 1]
      /\ \A j \in Initiators \ {s} : session'[j] = session[j]
      /\ session' \in [Initiators -> SessionRecords]
      /\ session'[s].joined = session[s].joined + 1
      /\ session'[s].t = session[s].t /\ session'[s].n = session[s].n
      /\ session'[s].messages = session[s].messages
  <2>1. session'[s] = [session[s] EXCEPT !.joined = @ + 1]
        /\ \A j \in Initiators \ {s} : session'[j] = session[j]
    BY <1>1, <1>3
  <2>2. [session[s] EXCEPT !.joined = @ + 1] \in SessionRecords
    BY <1>4, <1>5 DEF SessionRecords
  <2>3. session' \in [Initiators -> SessionRecords]
    BY <1>1, <1>3, <2>1, <2>2
  <2>4. /\ session'[s].joined = session[s].joined + 1
        /\ session'[s].t = session[s].t /\ session'[s].n = session[s].n
        /\ session'[s].messages = session[s].messages
    BY <1>4, <2>1 DEF SessionRecords
  <2> QED
    BY <2>1, <2>3, <2>4
<1>9. /\ Only(c) /\ ClientTypes'
      /\ client'[c].pc = place /\ client'[c].home = s /\ client'[c].name = name
      /\ client'[c].id = session[s].joined + 1
      /\ client'[c].t = session[s].t /\ client'[c].n = session[s].n
  <2> DEFINE new == [client[c] EXCEPT !.pc = place, !.home = s, !.name = name,
                       !.id = NextId(s), !.t = session[s].t, !.n = session[s].n]
  <2>1. client'[c] = new /\ Only(c)
    BY <1>3 DEF Only
  <2>2. new \in ClientRecords
    BY <1>1, <1>4, <1>5, <1>6 DEF ClientRecords, Places
  <2>3. client' \in [Clients -> ClientRecords]
    BY <1>3, <2>1, <2>2 DEF Only
  <2> QED
    BY <1>4, <1>6, <2>1, <2>3 DEF ClientRecords, ClientTypes
<1>10. \A j \in Initiators : IsStored(j)' = IsStored(j)
  BY DEF SameServer, IsStored
<1>11. \A other : Reused(other)' = Reused(other)
  BY DEF SameServer, Reused
<1>12. TypeOK'
  <2>1. ServerTypes /\ SessionTypes /\ CountTypes
    BY TypeParts DEF IInv
  <2>2. ServerTypes'
    BY <2>1 DEF ServerTypes, SameServer
  <2>3. SessionTypes'
    <3>1. session'[s].joined <= session'[s].n
      BY <1>5, <1>8, SMTT(15)
    <3>2. \A j \in Initiators \ {s} : session'[j].joined <= session'[j].n
      BY <1>8, <2>1 DEF SessionTypes
    <3> QED
      BY <1>8, <3>1, <3>2 DEF SessionTypes
  <2>4. CountTypes'
    BY <2>1, KeygenAssumption DEF CountTypes, SameServer, Fault, KeygenAssumption
  <2> QED
    BY <1>9, <2>2, <2>3, <2>4, TypeParts, PTL
<1>13. Naming'
  BY <1>10 DEF IInv, Naming, NamesChosen, StoredUnderItsName, StoresCounted,
               KeptUntilRestart, IsStored, SameServer
<1>14. EmptyUntilStored'
  BY <1>2, <1>8, <1>10 DEF IInv, EmptyUntilStored
<1>15. HomeKnown'
  <2> SUFFICES ASSUME NEW d \in Clients PROVE HomeAt(d)'
    BY DEF HomeKnown
  <2>1. CASE d = c
    <3>1. IsStored(s)' /\ initiator'[s].name = name
      BY <1>1, <1>2, <1>10 DEF SameServer
    <3>2. session[s].joined + 1 \in 1 .. session[s].joined + 1
      BY <1>5
    <3>3. client'[c].id \in 1 .. session'[s].joined
      BY <1>8, <1>9, <3>2
    <3>4. client'[c].pc # "idle" /\ client'[c].home = s /\ client'[c].name = name
          /\ client'[c].t = session'[s].t /\ client'[c].n = session'[s].n
      BY <1>8, <1>9
    <3> QED
      BY <1>1, <2>1, <3>1, <3>3, <3>4 DEF HomeAt
  <2>2. CASE d # c
    <3>1. HomeAt(d) /\ client'[d] = client[d] /\ client[d].home \in Initiators \cup {Nobody}
      BY <1>9, <2>2 DEF IInv, HomeKnown, Only, TypeOK
    <3>2. client[d].home # Nobody =>
            /\ session'[client[d].home].t = session[client[d].home].t
            /\ session'[client[d].home].n = session[client[d].home].n
            /\ 1 .. session[client[d].home].joined \subseteq 1 .. session'[client[d].home].joined
      <4>1. 1 .. session[s].joined \subseteq 1 .. session[s].joined + 1
        BY <1>5
      <4>2. client[d].home = s \/ client[d].home = Nobody \/ client[d].home \in Initiators \ {s}
        BY <3>1
      <4> QED
        BY <1>8, <4>1, <4>2
    <3> QED
      BY <1>10, <3>1, <3>2 DEF HomeAt, SameServer
  <2> QED
    BY <2>1, <2>2
<1>16. NumbersDiffer'
  <2>1. ASSUME NEW d \in Clients \ {c}, client[d].home = s
        PROVE  client[d].id # session[s].joined + 1
    <3>1. client[d].id \in 1 .. session[s].joined
      BY <1>1, <2>1 DEF IInv, HomeKnown, HomeAt
    <3> QED
      BY <1>5, <3>1
  <2> QED
    BY <1>9, <2>1 DEF IInv, NumbersDiffer, Only
<1>17. NumbersGiven'
  <2> SUFFICES ASSUME NEW j \in Initiators, NEW k \in 1 .. session'[j].joined
               PROVE  \E d \in Clients : client'[d].home = j /\ client'[d].id = k
    BY DEF NumbersGiven
  <2>1. CASE k \in 1 .. session[j].joined
    <3>1. PICK d \in Clients : client[d].home = j /\ client[d].id = k
      BY <2>1 DEF IInv, NumbersGiven
    <3>2. d # c
      BY <1>7, <3>1, KeygenAssumption DEF KeygenAssumption
    <3> QED
      BY <1>9, <3>1, <3>2 DEF Only
  <2>2. CASE k \notin 1 .. session[j].joined
    <3>1. j = s /\ k = session[s].joined + 1
      BY <1>5, <1>8, <2>2, SMTT(15)
    <3> QED
      BY <1>9, <3>1
  <2> QED
    BY <2>1, <2>2
<1>18. ASSUME NEW d \in Clients, client[d].pc \in Rounds, ~Reused(client[d].name)
       PROVE  client[d].home # s /\ client[d].home \in Initiators
  BY <1>5, <1>18, RoundsAreWhole
<1>19. c \notin {d \in Clients : client'[d].pc \in Rounds}
  BY <1>9 DEF Rounds
<1>20. FullInRounds'
  <2> SUFFICES ASSUME NEW d \in Clients, client'[d].pc \in Rounds,
                      ~Reused(client'[d].name)
               PROVE  /\ session'[client'[d].home].joined = client'[d].n
                      /\ client'[d].parties = 1 .. client'[d].n
    BY <1>11 DEF FullInRounds, FullAt, Reused, SameServer
  <2>1. client'[d] = client[d]
    BY <1>9, <1>19 DEF Only
  <2> QED
    <3>1. client[d].home # s /\ client[d].home \in Initiators
      BY <1>18, <2>1
    <3>2. session[client[d].home].joined = client[d].n
          /\ client[d].parties = 1 .. client[d].n
      BY <2>1 DEF IInv, FullInRounds, FullAt
    <3> QED
      BY <1>8, <2>1, <3>1, <3>2
<1>21. MessagesOfMembers'
  <2> SUFFICES ASSUME NEW j \in Initiators, ~Reused(initiator[j].name),
                      NEW m \in session'[j].messages
               PROVE  IsOfMember(m, j)'
    BY DEF MessagesOfMembers, SameServer, Reused
  <2>1. m \in session[j].messages /\ session'[j].n = session[j].n
    BY <1>8
  <2>2. IsOfMember(m, j) /\ m.by \in Clients
    BY <2>1 DEF IInv, MessagesOfMembers, TypeOK, Messages
  <2>3. m.by # c
    BY <1>7, <2>2, KeygenAssumption DEF IsOfMember, KeygenAssumption
  <2> QED
    BY <1>9, <2>1, <2>2, <2>3 DEF IsOfMember, Only
<1>22. KeyOfMembers'
  <2> SUFFICES ASSUME NEW d \in Clients, ~Reused(client'[d].name),
                      client'[d].pc \in {"share", "shared", "done", "hung"}
               PROVE  /\ KeyHolders(d)' = Members(client[d].home)'
                      /\ client'[d].home = client[d].home
                      /\ \A k \in client'[d].commitments : k.from = client'[k.by].id
    BY DEF KeyOfMembers, KeyAt, SameServer, Reused, Members
  <2>1. client'[d] = client[d] /\ client[d].pc \in Rounds
    BY <1>9 DEF Only, Rounds
  <2>2. /\ KeyHolders(d) = Members(client[d].home)
        /\ \A k \in client[d].commitments : k.from = client[k.by].id
    BY <2>1 DEF IInv, KeyOfMembers, KeyAt
  <2>3. client[d].home # s /\ client[d].home # Nobody
    BY <1>18, <2>1, KeygenAssumption DEF KeygenAssumption
  <2>4. Members(client[d].home)' = Members(client[d].home)
    BY <1>7, <1>9, <2>3 DEF Members, Only
  <2>5. \A k \in client[d].commitments : k.by \in Clients \ {c}
    BY <1>7, <2>2, <2>3 DEF KeyHolders, Members
  <2> QED
    BY <1>9, <2>1, <2>2, <2>4, <2>5 DEF KeyHolders, Only
<1>23. AllFine'
  <2>1. Trouble => Trouble'
    <3>1. faults \in Nat /\ restarts' = restarts
      BY KeygenAssumption DEF SameServer, IInv, TypeOK, KeygenAssumption
    <3>2. faults' = faults \/ faults' = faults + 1
      BY DEF Fault
    <3> QED
      BY <3>1, <3>2 DEF Trouble
  <2>2. place = "failed" => Trouble'
    BY DEF Trouble, Fault, IInv, TypeOK
  <2> SUFFICES ASSUME NEW d \in Clients PROVE FineAt(d)'
    BY DEF AllFine
  <2>3. CASE d = c
    BY <1>9, <2>2, <2>3 DEF FineAt
  <2>4. CASE d # c
    BY <1>9, <1>11, <2>1, <2>4 DEF FineAt, IInv, AllFine, Only
  <2> QED
    BY <2>3, <2>4
<1> QED
  BY <1>12, <1>13, <1>14, <1>15, <1>16, <1>17, <1>20, <1>21, <1>22, <1>23 DEF IInv

\* A client that joins gets the next number; one that is turned away has none.
LEMMA JoinKeepsIInv ==
  ASSUME IInv, NEW c \in Clients, NEW i \in Initiators, Join(c, i)
  PROVE  IInv'
<1> DEFINE s == sessions[initiator[i].name]
<1>1. client[c].pc = "idle" /\ IsStored(i) /\ SameServer
  BY DEF Join, IsStored, SameServer
<1>2. CASE Goto(c, "failed") /\ UNCHANGED <<session, faults>>
  BY <1>1, <1>2, TurnedAwayKeepsIInv
<1>3. CASE HasPlace(s) /\ ~(Goto(c, "failed") /\ UNCHANGED <<session, faults>>)
  <2>1. PICK place \in {"joined", "failed"} :
          /\ place = "failed" => Fault
          /\ place = "joined" => UNCHANGED faults
          /\ session' = [session EXCEPT ![s].joined = @ + 1]
          /\ client' = [client EXCEPT ![c] =
               [@ EXCEPT !.pc = place, !.home = s, !.name = initiator[i].name,
                         !.id = NextId(s), !.t = session[s].t, !.n = session[s].n]]
    BY <1>3 DEF Join
  <2> QED
    BY <1>1, <1>3, <2>1, TakesAPlaceKeepsIInv
<1> QED
  BY <1>2, <1>3 DEF Join

-----------------------------------------------------------------------------
\* The steps of the server alone keep what the clients have, as long as they
\* touch no session that is stored and free no name of its sessions.
LEMMA ServerKeepsIInv ==
  ASSUME IInv, UNCHANGED client, Trouble => Trouble',
         SessionTypes', ServerTypes', CountTypes', Naming', EmptyUntilStored',
         \A i \in Initiators : IsStored(i) =>
           /\ IsStored(i)' /\ initiator'[i].name = initiator[i].name
           /\ session'[i] = session[i],
         \A i \in Initiators : ~IsStored(i) =>
           session'[i].joined = 0 /\ session'[i].messages = {},
         \A name : Reused(name) => Reused(name)'
  PROVE  IInv'
<1>1. TypeOK'
  <2>1. ClientTypes'
    BY TypeParts DEF IInv, ClientTypes
  <2> QED
    BY <2>1, TypeParts, PTL
<1>2. \A c \in Clients : client[c].home # Nobody =>
        client[c].home \in Initiators /\ IsStored(client[c].home)
  BY DEF IInv, TypeOK, HomeKnown, HomeAt
<1>3. HomeKnown'
  <2> SUFFICES ASSUME NEW c \in Clients PROVE HomeAt(c)'
    BY DEF HomeKnown
  <2>1. HomeAt(c)
    BY DEF IInv, HomeKnown
  <2> QED
    BY <1>2, <2>1 DEF HomeAt
<1>4. NumbersDiffer'
  BY DEF IInv, NumbersDiffer
<1>5. NumbersGiven'
  <2> SUFFICES ASSUME NEW i \in Initiators, NEW k \in 1 .. session'[i].joined
               PROVE  \E c \in Clients : client[c].home = i /\ client[c].id = k
    BY DEF NumbersGiven
  <2>1. IsStored(i)
    OBVIOUS
  <2> QED
    BY <2>1 DEF IInv, NumbersGiven
<1>6. FullInRounds'
  <2> SUFFICES ASSUME NEW c \in Clients, client[c].pc \in Rounds, ~Reused(client[c].name)
               PROVE  /\ session'[client[c].home].joined = client[c].n
                      /\ client[c].parties = 1 .. client[c].n
    BY DEF FullInRounds, FullAt
  <2>1. IsStored(client[c].home) /\ client[c].home \in Initiators
    BY <1>2 DEF IInv, HomeKnown, HomeAt, Rounds
  <2> QED
    BY <2>1 DEF IInv, FullInRounds, FullAt
<1>7. MessagesOfMembers'
  <2> SUFFICES ASSUME NEW i \in Initiators, ~(Reused(initiator[i].name)'),
                      NEW m \in session'[i].messages
               PROVE  IsOfMember(m, i)'
    BY DEF MessagesOfMembers, Reused
  <2>1. IsStored(i)
    OBVIOUS
  <2>2. m \in session[i].messages /\ initiator'[i].name = initiator[i].name
    BY <2>1
  <2>3. ~Reused(initiator[i].name)
    BY <2>2 DEF Reused
  <2> QED
    BY <2>1, <2>2, <2>3 DEF IInv, MessagesOfMembers, IsOfMember
<1>8. KeyOfMembers'
  BY DEF IInv, KeyOfMembers, KeyAt, KeyHolders, Members
<1>9. AllFine'
  BY DEF IInv, AllFine, FineAt
<1> QED
  BY <1>1, <1>3, <1>4, <1>5, <1>6, <1>7, <1>8, <1>9 DEF IInv

\* A name is chosen that no session in the map has; nothing is stored yet.
LEMMA InitNameKeepsIInv ==
  ASSUME IInv, NEW i \in Initiators, InitName(i)
  PROVE  IInv'
<1> DEFINE name == Cardinality({other \in Names : sessions[other] # Nobody}) + 1
<1>1. ~IsStored(i)
  BY DEF InitName, IsStored
<1>2. name \in Names
  BY <1>1, NameIsLeft DEF IInv
<1> HIDE DEF name
<1>3. initiator \in [Initiators -> InitiatorRecords]
  BY TypeParts DEF IInv, ServerTypes
<1>4. initiator' = [initiator EXCEPT ![i] = [pc |-> "named", name |-> name]]
  BY DEF InitName, name
<1>5. initiator'[i] = [pc |-> "named", name |-> name]
      /\ \A j \in Initiators \ {i} : initiator'[j] = initiator[j]
  BY <1>3, <1>4
<1>6. initiator' \in [Initiators -> InitiatorRecords]
  BY <1>2, <1>3, <1>4 DEF InitiatorRecords
<1>7. initiator'[i].pc = "named" /\ initiator'[i].name = name /\ ~IsStored(i)'
  BY <1>5 DEF IsStored
<1>8. \A j \in Initiators : IsStored(j)' = IsStored(j)
  BY <1>1, <1>5, <1>7 DEF IsStored
<1>9. UNCHANGED <<sessions, session, client, faults, restarts, stored>>
  BY DEF InitName
<1>10. ServerTypes' /\ SessionTypes' /\ CountTypes'
  BY <1>6, <1>9, TypeParts DEF IInv, ServerTypes, SessionTypes, CountTypes
<1>11. NamesChosen'
  BY <1>2, <1>5, <1>7 DEF IInv, Naming, NamesChosen
<1>12. StoredUnderItsName'
  <2> SUFFICES ASSUME NEW other \in Names, sessions[other] # Nobody
               PROVE  /\ initiator'[sessions[other]].pc = "stored"
                      /\ initiator'[sessions[other]].name = other
    BY <1>9 DEF StoredUnderItsName, IsStored
  <2>1. sessions[other] \in Initiators /\ IsStored(sessions[other])
        /\ initiator[sessions[other]].name = other
    BY DEF IInv, TypeOK, Naming, StoredUnderItsName
  <2> QED
    BY <1>1, <1>5, <2>1 DEF IsStored
<1>13. StoresCounted' /\ KeptUntilRestart'
  <2>1. \A j \in Initiators : IsStored(j) => initiator'[j] = initiator[j]
    BY <1>1, <1>5
  <2> QED
    BY <1>8, <1>9, <2>1 DEF IInv, Naming, StoresCounted, KeptUntilRestart
<1>14. EmptyUntilStored'
  BY <1>8, <1>9 DEF IInv, EmptyUntilStored
<1>15. Trouble => Trouble'
  BY <1>9 DEF Trouble
<1>16. \A other : Reused(other) => Reused(other)'
  BY <1>9 DEF Reused
<1>17. /\ \A j \in Initiators : IsStored(j) =>
            /\ IsStored(j)' /\ initiator'[j].name = initiator[j].name
            /\ session'[j] = session[j]
       /\ \A j \in Initiators : ~IsStored(j) =>
            session'[j].joined = 0 /\ session'[j].messages = {}
  BY <1>1, <1>5, <1>8, <1>9 DEF IInv, EmptyUntilStored
<1> QED
  BY <1>9, <1>10, <1>11, <1>12, <1>13, <1>14, <1>15, <1>16, <1>17, ServerKeepsIInv DEF Naming

\* A session is stored under its name.  If the name was chosen twice, it is
\* reused from here on, and the invariant says nothing of either session.
LEMMA InitStoreKeepsIInv ==
  ASSUME IInv, NEW i \in Initiators, NEW shape \in Shapes, InitStore(i, shape)
  PROVE  IInv'
<1> DEFINE name == initiator[i].name
<1>1. ~IsStored(i) /\ name \in Names
  BY DEF InitStore, IsStored, IInv, Naming, NamesChosen
<1>2. shape[1] \in Nat /\ shape[2] \in Nat
  BY KeygenAssumption DEF KeygenAssumption
<1>3. /\ initiator \in [Initiators -> InitiatorRecords]
      /\ session \in [Initiators -> SessionRecords]
      /\ sessions \in [Names -> Initiators \cup {Nobody}]
      /\ stored \in [Names -> Nat]
  BY TypeParts DEF IInv, ServerTypes, SessionTypes
<1>4. session[i] \in SessionRecords /\ session[i].joined = 0 /\ session[i].messages = {}
      /\ initiator[i] \in InitiatorRecords
  BY <1>1, <1>3 DEF IInv, EmptyUntilStored
<1>5. /\ session'[i] = [session[i] EXCEPT !.t = shape[1], !.n = shape[2]]
      /\ \A j \in Initiators \ {i} : session'[j] = session[j]
      /\ DOMAIN session' = Initiators
      /\ session' \in [Initiators -> SessionRecords]
  <2> DEFINE new == [session[i] EXCEPT !.t = shape[1], !.n = shape[2]]
  <2>1. session' = [session EXCEPT ![i] = new]
    BY <1>3 DEF InitStore
  <2>2. new \in SessionRecords
    BY <1>2, <1>4 DEF SessionRecords
  <2> HIDE DEF new
  <2>3. /\ session'[i] = new /\ \A j \in Initiators \ {i} : session'[j] = session[j]
        /\ session' \in [Initiators -> SessionRecords]
    BY <1>3, <2>1, <2>2
  <2> QED
    BY <2>3 DEF new
<1>6. session'[i].joined = 0 /\ session'[i].messages = {}
      /\ session'[i].n \in Nat
  BY <1>2, <1>4, <1>5 DEF SessionRecords
<1>7. /\ initiator'[i] = [initiator[i] EXCEPT !.pc = "stored"]
      /\ \A j \in Initiators \ {i} : initiator'[j] = initiator[j]
      /\ initiator' \in [Initiators -> InitiatorRecords]
  BY <1>3 DEF InitStore, InitiatorRecords
<1>8. IsStored(i)' /\ initiator'[i].name = name
  BY <1>4, <1>7 DEF InitiatorRecords, IsStored
<1>9. \A j \in Initiators \ {i} : IsStored(j)' = IsStored(j)
  BY <1>7 DEF IsStored
<1>10. /\ sessions'[name] = i /\ \A other \in Names \ {name} : sessions'[other] = sessions[other]
       /\ sessions' \in [Names -> Initiators \cup {Nobody}]
  BY <1>1, <1>3 DEF InitStore
<1>11. /\ stored'[name] = stored[name] + 1
       /\ \A other \in Names \ {name} : stored'[other] = stored[other]
       /\ stored' \in [Names -> Nat]
  BY <1>1, <1>3 DEF InitStore
<1>12. UNCHANGED <<client, faults, restarts>>
  BY DEF InitStore
<1>13. ServerTypes' /\ SessionTypes' /\ CountTypes'
  <2>1. \A j \in Initiators : session'[j].joined <= session'[j].n
    <3>1. \A j \in Initiators : session[j].joined <= session[j].n
      BY TypeParts DEF IInv, SessionTypes
    <3>2. session'[i].joined <= session'[i].n
      BY <1>6
    <3> QED
      BY <1>5, <3>1, <3>2
  <2> QED
    BY <1>5, <1>7, <1>10, <1>11, <1>12, <2>1, TypeParts
       DEF IInv, ServerTypes, SessionTypes, CountTypes
<1>14. NamesChosen'
  BY <1>1, <1>7, <1>8 DEF IInv, Naming, NamesChosen
<1>15. StoredUnderItsName'
  <2> SUFFICES ASSUME NEW other \in Names, sessions'[other] # Nobody
               PROVE  /\ initiator'[sessions'[other]].pc = "stored"
                      /\ initiator'[sessions'[other]].name = other
    BY DEF StoredUnderItsName, IsStored
  <2>1. CASE other = name
    BY <1>8, <1>10, <2>1 DEF IsStored
  <2>2. CASE other # name
    <3>1. sessions'[other] = sessions[other] /\ sessions[other] \in Initiators
          /\ IsStored(sessions[other]) /\ initiator[sessions[other]].name = other
      BY <1>3, <1>10, <2>2 DEF IInv, Naming, StoredUnderItsName
    <3> QED
      BY <1>1, <1>7, <3>1 DEF IsStored
  <2> QED
    BY <2>1, <2>2
<1>16. StoresCounted'
  <2>1. \A j \in Initiators : IsStored(j) =>
          /\ j # i /\ initiator'[j].name = initiator[j].name /\ initiator[j].name \in Names
          /\ stored[initiator[j].name] >= 1 /\ stored[initiator[j].name] \in Nat
    BY <1>1, <1>3, <1>7 DEF IInv, Naming, NamesChosen, StoresCounted, IsStored
  <2>2. \A other \in Names : stored[other] \in Nat /\ stored'[other] >= stored[other]
    BY <1>3, <1>11
  <2>3. stored'[name] >= 1
    BY <1>1, <1>3, <1>11
  <2>4. \A j \in Initiators : IsStored(j) /\ initiator[j].name = name => stored'[name] >= 2
    BY <1>1, <1>11, <2>1
  <2> SUFFICES ASSUME NEW j \in Initiators, IsStored(j)'
               PROVE  /\ stored'[initiator'[j].name] >= 1
                      /\ \A k \in Initiators \ {j} :
                           IsStored(k)' /\ initiator'[k].name = initiator'[j].name
                           => stored'[initiator'[j].name] >= 2
    BY DEF StoresCounted
  <2>5. CASE j = i
    BY <1>8, <1>9, <2>1, <2>3, <2>4, <2>5
  <2>6. CASE j # i
    <3>1. IsStored(j) /\ stored'[initiator'[j].name] >= 1
      <4>1. IsStored(j)
        BY <1>9, <2>6
      <4>2. stored'[initiator[j].name] \in Nat
        BY <1>11, <2>1, <4>1
      <4> QED
        BY <2>1, <2>2, <4>1, <4>2
    <3>2. ASSUME NEW k \in Initiators \ {j}, IsStored(k)', initiator'[k].name = initiator'[j].name
          PROVE  stored'[initiator'[j].name] >= 2
      <4>1. CASE k = i
        BY <1>8, <2>1, <2>4, <3>1, <3>2, <4>1
      <4>2. CASE k # i
        <5>1. IsStored(k) /\ initiator[k].name = initiator[j].name
          BY <1>9, <2>1, <3>1, <3>2, <4>2
        <5>2. stored[initiator[j].name] >= 2
          BY <3>1, <5>1 DEF IInv, Naming, StoresCounted
        <5>3. stored'[initiator[j].name] \in Nat
          BY <1>11, <2>1, <3>1
        <5> QED
          BY <2>1, <2>2, <3>1, <5>2, <5>3
      <4> QED
        BY <4>1, <4>2
    <3> QED
      BY <3>1, <3>2
  <2> QED
    BY <2>5, <2>6
<1>17. KeptUntilRestart'
  <2>1. i # Nobody
    BY KeygenAssumption DEF KeygenAssumption
  <2>2. ASSUME restarts' = 0, NEW j \in Initiators, IsStored(j)'
        PROVE  sessions'[initiator'[j].name] # Nobody
    <3>1. CASE j = i
      BY <1>8, <1>10, <2>1, <3>1
    <3>2. CASE j # i
      <4>1. IsStored(j) /\ initiator'[j].name = initiator[j].name /\ restarts = 0
            /\ initiator[j].name \in Names
        BY <1>7, <1>9, <1>12, <2>2, <3>2 DEF IInv, Naming, NamesChosen, IsStored
      <4>2. sessions[initiator[j].name] # Nobody
        BY <4>1 DEF IInv, Naming, KeptUntilRestart
      <4> QED
        BY <1>10, <2>1, <4>1, <4>2
    <3> QED
      BY <3>1, <3>2
  <2> QED
    BY <2>2 DEF KeptUntilRestart
<1>18. EmptyUntilStored'
  BY <1>5, <1>8, <1>9 DEF IInv, EmptyUntilStored
<1>19. Trouble => Trouble'
  BY <1>12 DEF Trouble
<1>20. \A other : Reused(other) => Reused(other)'
  <2> SUFFICES ASSUME NEW other, stored[other] > 1 PROVE stored'[other] > 1
    BY DEF Reused
  <2>1. stored' = [stored EXCEPT ![name] = @ + 1] /\ DOMAIN stored = Names
    BY <1>3 DEF InitStore
  <2>2. stored[name] \in Nat
    BY <1>1, <1>3
  <2>3. CASE other = name
    BY <1>11, <2>2, <2>3
  <2>4. CASE other \in Names \ {name}
    BY <1>11, <2>4
  <2>5. CASE other \notin Names
    BY <2>1, <2>5
  <2> QED
    BY <2>3, <2>4, <2>5
<1>21. /\ \A j \in Initiators : IsStored(j) =>
            /\ IsStored(j)' /\ initiator'[j].name = initiator[j].name
            /\ session'[j] = session[j]
       /\ \A j \in Initiators : ~IsStored(j) =>
            session'[j].joined = 0 /\ session'[j].messages = {}
  BY <1>1, <1>5, <1>6, <1>7, <1>9 DEF IInv, EmptyUntilStored
<1> QED
  BY <1>12, <1>13, <1>14, <1>15, <1>16, <1>17, <1>18, <1>19, <1>20, <1>21, ServerKeepsIInv
     DEF Naming

\* A restart empties the map and keeps what the clients know.
LEMMA RestartKeepsIInv ==
  ASSUME IInv, Restart
  PROVE  IInv'
<1>1. initiator \in [Initiators -> InitiatorRecords] /\ restarts \in Nat
  BY TypeParts, KeygenAssumption DEF IInv, ServerTypes, CountTypes, KeygenAssumption
<1>2. \A i \in Initiators :
        /\ initiator'[i] = IF initiator[i].pc = "named"
                           THEN [initiator[i] EXCEPT !.pc = "failed"] ELSE initiator[i]
        /\ initiator[i] \in InitiatorRecords
  BY <1>1 DEF Restart
<1>3. \A i \in Initiators :
        /\ initiator'[i] \in InitiatorRecords
        /\ initiator'[i].name = initiator[i].name
        /\ initiator'[i].pc = "stored" <=> initiator[i].pc = "stored"
        /\ initiator'[i].pc # "named"
  BY <1>2 DEF InitiatorRecords
<1>4. initiator' \in [Initiators -> InitiatorRecords]
  BY <1>3 DEF Restart
<1>5. \A i \in Initiators : IsStored(i)' = IsStored(i)
  BY <1>3 DEF IsStored
<1>6. /\ sessions' = [name \in Names |-> Nobody]
      /\ UNCHANGED <<session, client, faults, stored>>
      /\ restarts' = restarts + 1 /\ restarts < MaxRestarts
  BY DEF Restart
<1>7. ServerTypes' /\ SessionTypes' /\ CountTypes'
  <2>1. restarts' \in 0 .. MaxRestarts
    BY <1>1, <1>6, KeygenAssumption DEF KeygenAssumption
  <2> QED
    BY <1>4, <1>6, <2>1, TypeParts DEF IInv, ServerTypes, SessionTypes, CountTypes
<1>8. Naming'
  <2>1. NamesChosen'
    BY <1>3 DEF IInv, Naming, NamesChosen
  <2>2. StoredUnderItsName'
    BY <1>6 DEF StoredUnderItsName
  <2>3. StoresCounted'
    BY <1>3, <1>5, <1>6 DEF IInv, Naming, StoresCounted
  <2>4. KeptUntilRestart'
    BY <1>1, <1>6 DEF KeptUntilRestart
  <2> QED
    BY <2>1, <2>2, <2>3, <2>4 DEF Naming
<1>9. EmptyUntilStored'
  BY <1>5, <1>6 DEF IInv, EmptyUntilStored
<1>10. Trouble'
  BY <1>1, <1>6 DEF Trouble
<1>11. \A other : Reused(other) => Reused(other)'
  BY <1>6 DEF Reused
<1>12. /\ \A j \in Initiators : IsStored(j) =>
            /\ IsStored(j)' /\ initiator'[j].name = initiator[j].name
            /\ session'[j] = session[j]
       /\ \A j \in Initiators : ~IsStored(j) =>
            session'[j].joined = 0 /\ session'[j].messages = {}
  BY <1>3, <1>5, <1>6 DEF IInv, EmptyUntilStored
<1> QED
  BY <1>6, <1>7, <1>8, <1>9, <1>10, <1>11, <1>12, ServerKeepsIInv

-----------------------------------------------------------------------------
\* Nothing is stored, joined or known at the start.
LEMMA InitIInv == Init => IInv
<1> SUFFICES ASSUME Init PROVE IInv
  OBVIOUS
<1>1. TypeOK
  <2>1. SessionTypes
    BY DEF Init, SessionTypes, SessionRecords
  <2>2. ServerTypes
    BY DEF Init, ServerTypes, InitiatorRecords
  <2>3. ClientTypes
    BY DEF Init, ClientTypes, ClientRecords, Places
  <2>4. CountTypes
    BY KeygenAssumption DEF Init, CountTypes, KeygenAssumption
  <2> QED
    BY <2>1, <2>2, <2>3, <2>4, TypeParts
<1>2. Naming
  BY DEF Init, Naming, NamesChosen, StoredUnderItsName, StoresCounted, KeptUntilRestart, IsStored
<1>3. EmptyUntilStored
  BY DEF Init, EmptyUntilStored
<1>4. \A c \in Clients : client[c].home = Nobody /\ client[c].pc = "idle"
  BY DEF Init
<1>5. HomeKnown /\ NumbersDiffer
  BY <1>4 DEF HomeKnown, HomeAt, NumbersDiffer
<1>6. NumbersGiven
  BY DEF Init, NumbersGiven
<1>7. FullInRounds /\ KeyOfMembers /\ AllFine
  BY <1>4 DEF FullInRounds, FullAt, KeyOfMembers, KeyAt, AllFine, FineAt, Rounds
<1>8. MessagesOfMembers
  BY DEF Init, MessagesOfMembers
<1> QED
  BY <1>1, <1>2, <1>3, <1>5, <1>6, <1>7, <1>8 DEF IInv

\* A step of nobody.
LEMMA StutterKeepsIInv ==
  ASSUME IInv, UNCHANGED vars
  PROVE  IInv'
<1>1. UNCHANGED <<sessions, session, initiator, client, faults, restarts, stored>>
  BY DEF vars
<1>2. TypeOK' /\ Naming' /\ EmptyUntilStored'
  BY <1>1 DEF IInv, TypeOK, Naming, NamesChosen, StoredUnderItsName, StoresCounted,
              KeptUntilRestart, IsStored, EmptyUntilStored
<1>3. HomeKnown' /\ NumbersDiffer' /\ NumbersGiven'
  BY <1>1 DEF IInv, HomeKnown, HomeAt, IsStored, NumbersDiffer, NumbersGiven
<1>4. FullInRounds' /\ MessagesOfMembers' /\ KeyOfMembers' /\ AllFine'
  BY <1>1 DEF IInv, FullInRounds, FullAt, MessagesOfMembers, IsOfMember, KeyOfMembers, KeyAt,
              KeyHolders, Members, AllFine, FineAt, Reused, Trouble
<1> QED
  BY <1>2, <1>3, <1>4 DEF IInv

\* Every step of the server, of an initiator and of a client.
LEMMA NextKeepsIInv == IInv /\ [Next]_vars => IInv'
<1> SUFFICES ASSUME IInv, [Next]_vars PROVE IInv'
  OBVIOUS
<1>1. ASSUME NEW i \in Initiators, InitName(i) PROVE IInv'
  BY <1>1, InitNameKeepsIInv
<1>2. ASSUME NEW i \in Initiators, NEW shape \in Shapes, InitStore(i, shape) PROVE IInv'
  BY <1>2, InitStoreKeepsIInv
<1>3. ASSUME NEW c \in Clients, NEW i \in Initiators, Join(c, i) PROVE IInv'
  BY <1>3, JoinKeepsIInv
<1>4. ASSUME NEW c \in Clients, Proceed(c) PROVE IInv'
  BY <1>4, AwaitPartiesKeepsIInv, PostCommitmentKeepsIInv, CollectCommitmentsKeepsIInv,
     PostSharesKeepsIInv, CollectSharesKeepsIInv DEF Proceed
<1>5. ASSUME NEW c \in Clients, Die(c) PROVE IInv'
  BY <1>5, DieKeepsIInv
<1>6. CASE Restart
  BY <1>6, RestartKeepsIInv
<1>7. CASE UNCHANGED vars
  BY <1>7, StutterKeepsIInv
<1> QED
  BY <1>1, <1>2, <1>3, <1>4, <1>5, <1>6, <1>7 DEF Next

\* So the invariant holds in every behaviour.
LEMMA IInvHolds == Spec => []IInv
  BY InitIInv, NextKeepsIInv, PTL DEF Spec

\* The types; a name is always left for who initiates, and JoinSession gives
\* no number beyond the size of the session.
THEOREM TypeCorrect == Spec => []TypeOK
<1>1. IInv => TypeOK
  BY IInvIsEnough
<1> QED
  BY <1>1, IInvHolds, PTL

\* A client that starts the rounds is in a session in which every number has
\* been given to one client, whoever was lost, killed or restarted, unless
\* another session was stored under the same name.
THEOREM SessionsAreWhole == Spec => []WholeUnlessReused
<1>1. IInv => WholeUnlessReused
  BY IInvIsEnough
<1> QED
  BY <1>1, IInvHolds, PTL

\* Under the same condition, who generates a key generates it with all the
\* members of its session and with nobody else.
THEOREM KeysAreOfAllMembers == Spec => []OneKeyPerSession
<1>1. IInv => OneKeyPerSession
  BY IInvIsEnough
<1> QED
  BY <1>1, IInvHolds, PTL

\* Without faults and restarts no member is turned away or left hanging: the
\* counts by which the server calls a round complete are exact.
THEOREM MembersNeverFail == Spec => []NobodyFails
<1>1. IInv => NobodyFails
  BY IInvIsEnough
<1> QED
  BY <1>1, IInvHolds, PTL
=============================================================================
