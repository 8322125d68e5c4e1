-------------------------- MODULE TxSigningProofs --------------------------
(***************************************************************************)
(* For any processes, holders and sessions, and any number of faults: the  *)
(* types, that a commitment serves one signature, and that no member of a  *)
(* regular session fails.  The second rests on what no step takes back:    *)
(* once a client has collected the commitments, its transaction and what   *)
(* it has heard are final (Settled), so a partial signature that fitted    *)
(* when it was checked fits for good.  The third (FineInv) rests on what   *)
(* holds as long as nothing was lost or restarted: a member finds its      *)
(* session open (Undisturbed), and a round that is complete by its count   *)
(* holds the messages of all the others (RegularFine).                     *)
(***************************************************************************)
EXTENDS TxSigning, FiniteSetTheorems, TLAPS

\* Where a client no longer changes what its signature is bound to.
Settled == {"share", "shared", "combine", "unsigned", "early", "failed"} \cup Signed

\* Who has posted a partial signature has settled.
PartialsSettled == \A e \in session.posted[2] : client[e].pc \in Settled

\* Who is in the second round has heard of other parties only, once of each.
HeardOnce ==
  \A c \in Clients :
    client[c].pc \in {"share", "shared", "combine"} =>
      ~Twice(client[c].heard) /\ Party[c] \notin PartiesOf(client[c].heard)

\* The signers of a signature cover the key, have settled, and all agree.
SignersAgree ==
  \A c \in Clients : client[c].pc \in Signed =>
    /\ PartiesOf(Signers(c)) = Holders
    /\ \A e \in Signers(c) : client[e].pc \in Settled /\ Fits(e, c)

IInv == TypeOK /\ PartialsSettled /\ HeardOnce /\ SignersAgree

Records ==
  [pc : Places, leads : BOOLEAN, transaction : Clients \cup {None},
   t : Nat, heard : SUBSET Clients]
Sessions ==
  [open : BOOLEAN, t : Nat, n : Nat, joined : SUBSET Clients,
   transaction : Clients \cup {None}, posted : [Rounds -> SUBSET Clients]]

-----------------------------------------------------------------------------
\* The session that a request finds or leaves has its type.
LEMMA ClosedType == Closed \in Sessions /\ Cardinality(Closed.joined) = 0
  BY FS_EmptySet DEF Closed, Sessions

\* ... by one more who joins, and there is a place for them.
LEMMA JoinType ==
  ASSUME TypeOK, NEW c \in Clients, ~IsFull
  PROVE  LET joined == [session EXCEPT !.joined = @ \cup {c}] IN
         /\ joined \in Sessions
         /\ Cardinality(joined.joined) <= joined.n
         /\ joined.posted = session.posted
<1> DEFINE joined == [session EXCEPT !.joined = @ \cup {c}]
<1>1. session \in Sessions /\ Cardinality(session.joined) <= session.n
  BY DEF TypeOK, Sessions
<1>2. joined \in Sessions /\ joined.joined = session.joined \cup {c}
      /\ joined.n = session.n /\ joined.posted = session.posted
  BY <1>1 DEF Sessions
<1>3. IsFiniteSet(session.joined)
  BY <1>1, SigningAssumption, FS_Subset DEF Sessions
<1>4. Cardinality(session.joined) \in Nat
  BY <1>3, FS_CardinalityType
<1>5. Cardinality(session.joined \cup {c}) <= Cardinality(session.joined) + 1
  BY <1>3, <1>4, FS_AddElement
<1>6. Cardinality(session.joined \cup {c}) \in Nat
  BY <1>3, FS_AddElement, FS_CardinalityType
<1>7. Cardinality(session.joined) < session.n /\ session.n \in Nat
  BY <1>1, <1>4 DEF IsFull, Sessions
<1>8. Cardinality(joined.joined) <= joined.n
  BY <1>2, <1>4, <1>5, <1>6, <1>7
<1> QED
  BY <1>2, <1>8

\* ... by the transaction that is broadcast.
LEMMA BroadcastType ==
  ASSUME TypeOK, NEW c \in Clients
  PROVE  LET sent == [session EXCEPT !.transaction = c] IN
         /\ sent \in Sessions
         /\ sent.joined = session.joined /\ sent.n = session.n
         /\ sent.posted = session.posted
  BY DEF TypeOK, Sessions

\* ... by a message of a round.
Posted(round, c) == [session EXCEPT !.posted[round] = @ \cup {c}]

\* ... that keeps what else the session is.
LEMMA PostedType ==
  ASSUME TypeOK, NEW c \in Clients, NEW round \in Rounds
  PROVE  LET sent == Posted(round, c) IN
         /\ sent \in Sessions
         /\ sent.joined = session.joined /\ sent.n = session.n
         /\ \A other \in Rounds :
              sent.posted[other] = IF other = round THEN session.posted[round] \cup {c}
                                   ELSE session.posted[other]
<1>1. session \in Sessions
  BY DEF TypeOK, Sessions
<1> DEFINE posted == [session.posted EXCEPT ![round] = @ \cup {c}]
<1>2. posted \in [Rounds -> SUBSET Clients]
  BY <1>1 DEF Sessions
<1>3. Posted(round, c) = [session EXCEPT !.posted = posted]
  BY <1>1 DEF Sessions, Posted
<1>4. \A other \in Rounds :
        posted[other] = IF other = round THEN session.posted[round] \cup {c}
                        ELSE session.posted[other]
  BY <1>1 DEF Sessions
<1> HIDE DEF posted
<1> QED
  BY <1>1, <1>2, <1>3, <1>4 DEF Sessions

-----------------------------------------------------------------------------
\* What an update of one client leaves: its type, and everybody else.
Only(c) == \A e \in Clients \ {c} : client'[e] = client[e]

\* A client that moves to a place is a client still.
LEMMA MovedType ==
  ASSUME NEW record \in Records, NEW place \in Places
  PROVE  /\ [record EXCEPT !.pc = place] \in Records
         /\ [record EXCEPT !.pc = place].pc = place
  BY DEF Records

\* ... and when its place is all that changes.
LEMMA GotoType ==
  ASSUME TypeOK, NEW c \in Clients, NEW place \in Places, Goto(c, place)
  PROVE  /\ client' \in [Clients -> Records] /\ Only(c)
         /\ client'[c].pc = place
         /\ client'[c].transaction = client[c].transaction
         /\ client'[c].heard = client[c].heard
<1>1. client \in [Clients -> Records]
  BY DEF TypeOK, Records
<1>2. client' = [client EXCEPT ![c] = [client[c] EXCEPT !.pc = place]]
  BY <1>1 DEF Goto
<1>3. [client[c] EXCEPT !.pc = place] \in Records
  BY <1>1 DEF Records
<1>4. client'[c] = [client[c] EXCEPT !.pc = place] /\ Only(c)
  BY <1>1, <1>2 DEF Only
<1>5. client' \in [Clients -> Records]
  BY <1>1, <1>2, <1>3
<1> QED
  BY <1>1, <1>4, <1>5 DEF Records

\* What a POST leaves, if the session it would leave has its type.
LEMMA PostType ==
  ASSUME TypeOK, NEW c \in Clients, NEW place \in Places,
         NEW sent \in Sessions, Cardinality(sent.joined) <= sent.n,
         Post(c, sent, place)
  PROVE  /\ TypeOK' /\ Only(c) /\ Party' = Party
         /\ session' \in {session, sent}
         /\ client'[c].pc \in {place, "failed"}
         /\ client'[c].transaction = client[c].transaction
         /\ client'[c].heard = client[c].heard
<1>1. PICK next \in {place, "failed"} : Goto(c, next)
  BY DEF Post
<1>2. next \in Places
  BY <1>1 DEF Places
<1>3. /\ client' \in [Clients -> Records] /\ Only(c) /\ client'[c].pc = next
      /\ client'[c].transaction = client[c].transaction
      /\ client'[c].heard = client[c].heard
  BY <1>1, <1>2, GotoType
<1>4. session' \in {session, sent} /\ Party' = Party
  BY DEF Post
<1>5. session' \in Sessions /\ Cardinality(session'.joined) <= session'.n
  BY <1>4 DEF TypeOK, Sessions
<1>6. faults' \in 0 .. MaxFaults
  BY SigningAssumption DEF TypeOK, Post, Fault
<1>7. TypeOK'
  BY <1>3, <1>4, <1>5, <1>6 DEF TypeOK, Sessions, Records
<1> QED
  BY <1>1, <1>3, <1>4, <1>7

\* What a GET leaves.
LEMMA GetType ==
  ASSUME TypeOK, NEW c \in Clients, NEW place \in Places, Get(c, place)
  PROVE  /\ TypeOK' /\ Only(c) /\ Party' = Party /\ session' = session
         /\ client'[c].pc = IF session.open THEN place ELSE "failed"
         /\ client'[c].transaction = client[c].transaction
         /\ client'[c].heard = client[c].heard
<1> DEFINE next == IF session.open THEN place ELSE "failed"
<1>1. next \in Places
  BY DEF Places
<1>2. Goto(c, next) /\ Party' = Party /\ session' = session /\ faults' = faults
  BY DEF Get
<1> HIDE DEF next
<1>3. /\ client' \in [Clients -> Records] /\ Only(c) /\ client'[c].pc = next
      /\ client'[c].transaction = client[c].transaction
      /\ client'[c].heard = client[c].heard
  BY <1>1, <1>2, GotoType
<1>4. TypeOK'
  BY <1>2, <1>3 DEF TypeOK, Records
<1> QED
  BY <1>2, <1>3, <1>4 DEF next

-----------------------------------------------------------------------------
\* A step of one client keeps the invariant if it takes back nothing that is
\* settled and adds no signature: who has agreed with whom stays as it was.
LEMMA OneClient ==
  ASSUME IInv, TypeOK', Party' = Party, NEW c \in Clients, Only(c),
         client[c].pc \in Settled =>
           /\ client'[c].pc \in Settled
           /\ client'[c].transaction = client[c].transaction
           /\ client'[c].heard = client[c].heard,
         client'[c].pc \in Signed => client[c].pc \in Signed,
         client'[c].pc \in {"share", "shared", "combine"} =>
           ~Twice(client'[c].heard) /\ Party[c] \notin PartiesOf(client'[c].heard),
         \A e \in session'.posted[2] :
           e \in session.posted[2] \/ (e = c /\ client'[c].pc \in Settled)
  PROVE  IInv'
<1>1. \A e \in Clients : client[e].pc \in Settled =>
        /\ client'[e].pc \in Settled
        /\ client'[e].transaction = client[e].transaction
        /\ client'[e].heard = client[e].heard
  BY DEF Only
<1>2. PartialsSettled'
  <2> SUFFICES ASSUME NEW e \in session'.posted[2] PROVE client'[e].pc \in Settled
    BY DEF PartialsSettled
  <2>1. CASE e = c /\ client'[c].pc \in Settled
    BY <2>1
  <2>2. CASE e \in session.posted[2]
    <3>1. e \in Clients
      BY <2>2 DEF IInv, TypeOK, Rounds
    <3> QED
      BY <1>1, <2>2, <3>1 DEF IInv, PartialsSettled
  <2> QED
    BY <2>1, <2>2
<1>3. HeardOnce'
  <2> SUFFICES ASSUME NEW e \in Clients, client'[e].pc \in {"share", "shared", "combine"}
               PROVE  ~Twice(client'[e].heard) /\ Party[e] \notin PartiesOf(client'[e].heard)
    BY DEF HeardOnce, Twice, PartiesOf
  <2>1. CASE e = c
    BY <2>1
  <2>2. CASE e # c
    BY <2>2 DEF Only, IInv, HeardOnce
  <2> QED
    BY <2>1, <2>2
<1>4. SignersAgree'
  <2> SUFFICES ASSUME NEW x \in Clients, client'[x].pc \in Signed
               PROVE  /\ PartiesOf(Signers(x)')  = Holders
                      /\ \A e \in Signers(x)' : client'[e].pc \in Settled /\ Fits(e, x)'
    BY ZenonT(30) DEF SignersAgree, PartiesOf, Holders
  <2>1. client[x].pc \in Signed
    BY DEF Only
  <2>2. x \in Signers(x) /\ Signers(x) \subseteq Clients
    BY DEF Signers, IInv, TypeOK
  <2>3. client[x].pc \in Settled
    BY <2>1 DEF Settled
  <2>4. Signers(x)' = Signers(x) /\ client'[x].transaction = client[x].transaction
    BY <1>1, <2>3 DEF Signers
  <2>5. PartiesOf(Signers(x)) = Holders
    BY <2>1 DEF IInv, SignersAgree
  <2>6. ASSUME NEW e \in Signers(x)
        PROVE  client'[e].pc \in Settled /\ Fits(e, x)'
    <3>1. e \in Clients /\ client[e].pc \in Settled /\ Fits(e, x)
      BY <2>1, <2>2 DEF IInv, SignersAgree
    <3>2. /\ client'[e].pc \in Settled
          /\ client'[e].transaction = client[e].transaction
          /\ Signers(e)' = Signers(e)
      BY <1>1, <3>1 DEF Signers
    <3> QED
      BY <2>4, <3>1, <3>2 DEF Fits
  <2> QED
    BY <2>4, <2>5, <2>6
<1> QED
  BY <1>2, <1>3, <1>4 DEF IInv

\* A step that leaves the clients as they are, and no new partial signature.
LEMMA SameClients ==
  ASSUME IInv, TypeOK', UNCHANGED <<Party, client>>,
         session'.posted[2] \subseteq session.posted[2]
  PROVE  IInv'
<1>1. PartialsSettled'
  BY DEF IInv, PartialsSettled
<1>2. HeardOnce'
  BY DEF IInv, HeardOnce, Twice, PartiesOf
<1>3. SignersAgree'
  <2> SUFFICES ASSUME NEW c \in Clients, client[c].pc \in Signed
               PROVE  /\ PartiesOf(Signers(c))' = Holders'
                      /\ \A e \in Signers(c) : client[e].pc \in Settled /\ Fits(e, c)'
    BY DEF SignersAgree, Signers
  <2>1. PartiesOf(Signers(c))' = PartiesOf(Signers(c)) /\ Holders' = Holders
    BY DEF PartiesOf, Signers, Holders
  <2>2. \A e \in Signers(c) : Fits(e, c)' = Fits(e, c)
    BY DEF Fits, Signers
  <2> QED
    BY <2>1, <2>2 DEF IInv, SignersAgree
<1> QED
  BY <1>1, <1>2, <1>3 DEF IInv

-----------------------------------------------------------------------------
\* Joining.
LEMMA JoinKeepsIInv ==
  ASSUME IInv, NEW c \in Clients, NEW leads \in BOOLEAN, Join(c, leads)
  PROVE  IInv'
<1> DEFINE joined == [session EXCEPT !.joined = @ \cup {c}]
<1>1. TypeOK /\ client[c].pc = "idle" /\ Party' = Party
  BY DEF IInv, Join
<1>2. session \in Sessions /\ Cardinality(session.joined) <= session.n
  BY <1>1 DEF TypeOK, Sessions
<1>3. session' = session \/ (~IsFull /\ session' = joined)
  BY DEF Join
<1>4. /\ session' \in Sessions /\ Cardinality(session'.joined) <= session'.n
      /\ session'.posted = session.posted
  BY <1>1, <1>2, <1>3, JoinType
<1>5. faults' \in 0 .. MaxFaults
  BY <1>1, SigningAssumption DEF TypeOK, Join, Fault
<1>6. /\ client' \in [Clients -> Records] /\ Only(c)
      /\ client'[c].pc \in {"joined", "failed"}
  <2>1. CASE Goto(c, "failed")
    BY <1>1, <2>1, GotoType DEF Places
  <2>2. CASE client' = [client EXCEPT ![c].pc = "joined", ![c].leads = leads]
    <3> DEFINE moved == [client[c] EXCEPT !.pc = "joined"]
               record == [moved EXCEPT !.leads = leads]
    <3>1. client \in [Clients -> Records]
      BY <1>1 DEF TypeOK, Records
    <3>2. client' = [client EXCEPT ![c] = record]
      BY <2>2, <3>1
    <3>3. moved \in Records /\ moved.pc = "joined"
      BY <3>1, MovedType DEF Places
    <3> HIDE DEF moved
    <3>4. record \in Records /\ record.pc = "joined"
      BY <3>3 DEF Records
    <3> HIDE DEF record
    <3>5. client' \in [Clients -> Records] /\ client'[c] = record
      BY <3>1, <3>2, <3>4
    <3>6. Only(c)
      BY <3>1, <3>2 DEF Only
    <3> QED
      BY <3>4, <3>5, <3>6
  <2> QED
    BY <2>1, <2>2 DEF Join
<1>7. TypeOK'
  BY <1>1, <1>4, <1>5, <1>6 DEF TypeOK, Sessions, Records
<1> QED
  BY <1>1, <1>4, <1>6, <1>7, OneClient DEF Settled, Signed

\* The requests that only move a client on, before it has settled and after.
LEMMA EarlyGetKeepsIInv ==
  ASSUME IInv, NEW c \in Clients, NEW place \in Places, Get(c, place),
         client[c].pc \notin Settled,
         place \notin {"share", "shared", "combine"} \cup Signed
  PROVE  IInv'
<1>1. TypeOK
  BY DEF IInv
<1>2. /\ TypeOK' /\ Only(c) /\ Party' = Party /\ session' = session
      /\ client'[c].pc \in {place, "failed"}
  BY <1>1, GetType
<1> QED
  BY <1>2, OneClient DEF Signed

\* ... after it has settled.
LEMMA LateGetKeepsIInv ==
  ASSUME IInv, NEW c \in Clients, NEW place \in Places, Get(c, place),
         client[c].pc \in {"share", "shared", "combine", "unsigned"} \cup Signed,
         place \in Settled,
         place \in Signed => client[c].pc \in Signed,
         place \in {"share", "shared", "combine"}
           => client[c].pc \in {"share", "shared", "combine"}
  PROVE  IInv'
<1>1. TypeOK
  BY DEF IInv
<1>2. /\ TypeOK' /\ Only(c) /\ Party' = Party /\ session' = session
      /\ client'[c].pc \in {place, "failed"}
      /\ client'[c].transaction = client[c].transaction
      /\ client'[c].heard = client[c].heard
  BY <1>1, GetType
<1>3. client[c].pc \in {"share", "shared", "combine"} =>
        ~Twice(client[c].heard) /\ Party[c] \notin PartiesOf(client[c].heard)
  BY DEF IInv, HeardOnce
<1> QED
  BY <1>2, <1>3, OneClient DEF Settled, Signed

\* Both kinds of waiting end in such a request.
LEMMA AwaitKeepsIInv ==
  ASSUME IInv, NEW c \in Clients, AwaitParties(c) \/ AwaitRound(c)
  PROVE  IInv'
<1>1. CASE AwaitParties(c)
  <2> DEFINE place == IF client[c].leads THEN "create" ELSE "fetch"
  <2>1. client[c].pc = "joined" /\ Get(c, place)
    BY <1>1 DEF AwaitParties
  <2>2. place \in {"create", "fetch"}
    OBVIOUS
  <2> HIDE DEF place
  <2> QED
    BY <2>1, <2>2, EarlyGetKeepsIInv DEF Settled, Signed, Places
<1>2. CASE AwaitRound(c)
  <2>1. client[c].pc \in {"committed", "shared", "signed", "unsigned"}
    BY <1>2 DEF AwaitRound, Waits
  <2>2. CASE client[c].pc = "committed"
    <3>1. Get(c, "collect")
      BY <1>2, <2>2 DEF AwaitRound, Waits
    <3> QED
      BY <2>2, <3>1, EarlyGetKeepsIInv DEF Settled, Signed, Signing, Places
  <2>3. CASE client[c].pc = "shared"
    <3>1. Get(c, "combine")
      BY <1>2, <2>3 DEF AwaitRound, Waits
    <3> QED
      BY <2>3, <3>1, LateGetKeepsIInv DEF Settled, Signed, Signing, Places
  <2>4. CASE client[c].pc = "signed"
    <3>1. Get(c, "done")
      BY <1>2, <2>4 DEF AwaitRound, Waits
    <3> QED
      BY <2>4, <3>1, LateGetKeepsIInv DEF Settled, Signed, Places
  <2>5. CASE client[c].pc = "unsigned"
    <3>1. Get(c, "failed")
      BY <1>2, <2>5 DEF AwaitRound, Waits
    <3> QED
      BY <2>5, <3>1, LateGetKeepsIInv DEF Settled, Signed, Places
  <2> QED
    BY <2>1, <2>2, <2>3, <2>4, <2>5
<1> QED
  BY <1>1, <1>2

\* The transaction, the threshold and the commitments: the three reads that
\* change what a client knows, all before it has settled.
LEMMA ReadKeepsIInv ==
  ASSUME IInv, NEW c \in Clients, FetchTransaction(c) \/ Begin(c) \/ Collect(c)
  PROVE  IInv'
<1>1. /\ TypeOK /\ Party' = Party /\ session' = session /\ faults' = faults
      /\ client[c].pc \in {"fetch", "begin", "collect"}
  BY DEF IInv, FetchTransaction, Begin, Collect
<1>2. client \in [Clients -> Records] /\ session \in Sessions
  BY <1>1 DEF TypeOK, Records, Sessions
<1>3. PICK record \in Records :
        /\ client' = [client EXCEPT ![c] = record]
        /\ record.pc \in {"failed", "early", "begin", "commit", "share"}
        /\ record.pc = "share" => /\ ~Twice(record.heard)
                                  /\ Party[c] \notin PartiesOf(record.heard)
  <2>1. CASE FetchTransaction(c)
    <3> DEFINE next == IF ~session.open THEN "failed"
                       ELSE IF session.transaction = None THEN "early" ELSE "begin"
               moved == [client[c] EXCEPT !.pc = next]
               record == [moved EXCEPT !.transaction = session.transaction]
    <3>1. next \in {"failed", "early", "begin"}
      OBVIOUS
    <3>2. client' = [client EXCEPT ![c].pc = next, ![c].transaction = session.transaction]
      BY <2>1 DEF FetchTransaction
    <3> HIDE DEF next
    <3>3. client' = [client EXCEPT ![c] = record]
      BY <1>2, <3>2
    <3>4. moved \in Records /\ moved.pc = next
      BY <1>2, <3>1, MovedType DEF Places, Signing
    <3> HIDE DEF moved
    <3>5. record \in Records /\ record.pc = next
      BY <1>2, <3>4 DEF Records, Sessions
    <3> HIDE DEF record
    <3> QED
      BY <3>1, <3>3, <3>5
  <2>2. CASE Begin(c)
    <3> DEFINE next == IF session.open THEN "commit" ELSE "failed"
               moved == [client[c] EXCEPT !.pc = next]
               record == [moved EXCEPT !.t = session.t]
    <3>1. next \in {"failed", "commit"}
      OBVIOUS
    <3>2. client' = [client EXCEPT ![c].pc = next, ![c].t = session.t]
      BY <2>2 DEF Begin
    <3> HIDE DEF next
    <3>3. client' = [client EXCEPT ![c] = record]
      BY <1>2, <3>2
    <3>4. moved \in Records /\ moved.pc = next
      BY <1>2, <3>1, MovedType DEF Places, Signing
    <3> HIDE DEF moved
    <3>5. record \in Records /\ record.pc = next
      BY <1>2, <3>4 DEF Records, Sessions
    <3> HIDE DEF record
    <3> QED
      BY <3>1, <3>3, <3>5
  <2>3. CASE Collect(c)
    <3> DEFINE senders == Foreign(session.posted[1], c)
               next == IF session.open /\ ~Twice(senders) THEN "share" ELSE "failed"
               moved == [client[c] EXCEPT !.pc = next]
               record == [moved EXCEPT !.heard = senders]
    <3>1. next \in {"failed", "share"} /\ (next = "share" => ~Twice(senders))
      OBVIOUS
    <3>2. client' = [client EXCEPT ![c].pc = next, ![c].heard = senders]
      BY <2>3 DEF Collect
    <3>3. senders \in SUBSET Clients /\ Party[c] \notin PartiesOf(senders)
      BY <1>2 DEF Sessions, Rounds, Foreign, PartiesOf
    <3> HIDE DEF senders, next
    <3>4. client' = [client EXCEPT ![c] = record]
      BY <1>2, <3>2
    <3>5. moved \in Records /\ moved.pc = next
      BY <1>2, <3>1, MovedType DEF Places, Signing
    <3> HIDE DEF moved
    <3>6. record \in Records /\ record.pc = next /\ record.heard = senders
      BY <3>3, <3>5 DEF Records
    <3> HIDE DEF record
    <3> QED
      BY <3>1, <3>3, <3>4, <3>6
  <2> QED
    BY <2>1, <2>2, <2>3
<1>4. client' \in [Clients -> Records] /\ client'[c] = record /\ Only(c)
  BY <1>2, <1>3 DEF Only
<1>5. TypeOK'
  BY <1>1, <1>4 DEF TypeOK, Records
<1> QED
  BY <1>1, <1>3, <1>4, <1>5, OneClient DEF Settled, Signed

\* The posts: of the transaction, of a commitment and of a partial signature.
LEMMA PostKeepsIInv ==
  ASSUME IInv, NEW c \in Clients, Broadcast(c) \/ PostRound(c)
  PROVE  IInv'
<1>1. TypeOK /\ Cardinality(session.joined) <= session.n
  BY DEF IInv, TypeOK
<1>2. CASE Broadcast(c)
  <2> DEFINE sent == [session EXCEPT !.transaction = c]
  <2>1. client[c].pc = "create" /\ Post(c, sent, "fetch")
    BY <1>2 DEF Broadcast
  <2>2. /\ sent \in Sessions /\ sent.joined = session.joined /\ sent.n = session.n
        /\ sent.posted = session.posted
    BY <1>1, BroadcastType
  <2> HIDE DEF sent
  <2>3. /\ TypeOK' /\ Only(c) /\ Party' = Party
        /\ session'.posted = session.posted
        /\ client'[c].pc \in {"fetch", "failed"}
    BY <1>1, <2>1, <2>2, PostType DEF Places
  <2> QED
    BY <2>1, <2>3, OneClient DEF Settled, Signed
<1>3. CASE client[c].pc = "commit" /\ PostRound(c)
  <2> DEFINE sent == Posted(1, c)
  <2>1. Post(c, sent, "committed")
    BY <1>3 DEF PostRound, Posted
  <2>2. 1 \in Rounds /\ 2 \in Rounds
    BY DEF Rounds
  <2>3. /\ sent \in Sessions /\ sent.joined = session.joined /\ sent.n = session.n
        /\ \A other \in Rounds : other # 1 => sent.posted[other] = session.posted[other]
    BY <1>1, <2>2, PostedType
  <2> HIDE DEF sent
  <2>4. sent.posted[2] = session.posted[2]
    BY <2>2, <2>3
  <2>5. /\ TypeOK' /\ Only(c) /\ Party' = Party
        /\ session'.posted[2] = session.posted[2]
        /\ client'[c].pc \in {"committed", "failed"}
    BY <1>1, <2>1, <2>3, <2>4, PostType DEF Places, Signing
  <2> QED
    BY <1>3, <2>5, OneClient DEF Settled, Signed
<1>4. CASE client[c].pc = "share" /\ PostRound(c)
  <2> DEFINE partial == Posted(2, c)
             sent == IF Ready(c) THEN partial ELSE session
  <2>1. Post(c, sent, "shared")
    BY <1>4 DEF PostRound, Posted
  <2>2. 2 \in Rounds
    BY DEF Rounds
  <2>3. /\ partial \in Sessions
        /\ partial.joined = session.joined /\ partial.n = session.n
        /\ partial.posted[2] = session.posted[2] \cup {c}
    BY <1>1, <2>2, PostedType
  <2>4. session \in Sessions
    BY <1>1 DEF TypeOK, Sessions
  <2> HIDE DEF partial
  <2>5. /\ sent \in Sessions /\ sent.joined = session.joined /\ sent.n = session.n
        /\ sent.posted[2] \subseteq session.posted[2] \cup {c}
    BY <2>3, <2>4
  <2> HIDE DEF sent
  <2>6. /\ TypeOK' /\ Only(c) /\ Party' = Party
        /\ session'.posted[2] \subseteq session.posted[2] \cup {c}
        /\ client'[c].pc \in {"shared", "failed"}
        /\ client'[c].transaction = client[c].transaction
        /\ client'[c].heard = client[c].heard
    BY <1>1, <2>1, <2>5, PostType DEF Places, Signing
  <2>7. ~Twice(client[c].heard) /\ Party[c] \notin PartiesOf(client[c].heard)
    BY <1>4 DEF IInv, HeardOnce
  <2>8. client'[c].pc \in Settled /\ client'[c].pc \notin Signed
    BY <2>6 DEF Settled, Signed
  <2>9. ~Twice(client'[c].heard) /\ Party[c] \notin PartiesOf(client'[c].heard)
    BY <2>6, <2>7
  <2> QED
    BY <2>6, <2>8, <2>9, OneClient
<1> QED
  BY <1>2, <1>3, <1>4 DEF PostRound

\* A client that signs has a partial signature of each client it has heard
\* of: of whoever else has posted one under the same number, it would not fit.
LEMMA PartialsOfAllHeard ==
  ASSUME IInv, NEW c \in Clients, client[c].pc = "combine",
         NEW senders, senders = Foreign(session.posted[2], c),
         HeardOf(client[c].heard, c), HeardOf(senders, c),
         \A d \in senders : Fits(d, c)
  PROVE  client[c].heard \subseteq senders
<1> SUFFICES ASSUME NEW e \in client[c].heard PROVE e \in senders
  OBVIOUS
<1>1. Party[e] \in PartiesOf(senders)
  BY DEF HeardOf, PartiesOf
<1>2. PICK d \in senders : Party[d] = Party[e]
  BY <1>1 DEF PartiesOf
<1>3. d \in Signers(d) /\ Signers(d) = Signers(c)
  BY <1>2 DEF Signers, Fits
<1>4. Party[d] # Party[c]
  BY DEF Foreign
<1>5. d \in client[c].heard
  BY <1>3, <1>4 DEF Signers
<1>6. ~Twice(client[c].heard)
  BY DEF IInv, HeardOnce
<1>7. d = e
  BY <1>2, <1>5, <1>6 DEF Twice
<1> QED
  BY <1>7

\* The signature itself, and every other end of the second round.
LEMMA CombineKeepsIInv ==
  ASSUME IInv, NEW c \in Clients, Combine(c)
  PROVE  IInv'
<1> DEFINE senders == Foreign(session.posted[2], c)
           rejects == IF Ready(c) THEN Twice(senders)
                      ELSE PartiesOf(senders) \cap PartiesOf(client[c].heard) # {}
           place == IF rejects THEN "failed"
                    ELSE IF ~Ready(c) \/ ~HeardOf(senders, c) THEN "unsigned"
                    ELSE IF \E d \in senders : ~Fits(d, c) THEN "failed" ELSE "signed"
<1>1. client[c].pc = "combine" /\ Get(c, place)
  BY DEF Combine
<1>2. place \in {"failed", "unsigned", "signed"}
  OBVIOUS
<1>3. place = "signed" => /\ HeardOf(client[c].heard, c) /\ HeardOf(senders, c)
                          /\ \A d \in senders : Fits(d, c)
  BY DEF Ready
<1> HIDE DEF place, rejects, senders
<1>4. CASE place # "signed"
  BY <1>1, <1>2, <1>4, LateGetKeepsIInv DEF Settled, Signed, Signing, Places
<1>5. CASE place = "signed"
  <2>1. TypeOK
    BY DEF IInv
  <2>2. /\ TypeOK' /\ Only(c) /\ Party' = Party /\ session' = session
        /\ client'[c].pc \in {"signed", "failed"}
        /\ client'[c].transaction = client[c].transaction
        /\ client'[c].heard = client[c].heard
    BY <1>1, <1>5, <2>1, GetType DEF Places, Signed
  <2>3. client'[c].pc \in Settled /\ client[c].pc \in Settled
    BY <1>1, <2>2 DEF Settled, Signed
  <2>4. \A e \in Clients :
          /\ client[e].pc \in Settled => client'[e].pc \in Settled
          /\ client'[e].transaction = client[e].transaction
          /\ client'[e].heard = client[e].heard
    BY <2>2, <2>3 DEF Only
  <2>5. session.posted[2] \subseteq Clients
    BY <2>1 DEF TypeOK, Rounds
  <2>6. PartialsSettled'
    BY <2>2, <2>4, <2>5 DEF IInv, PartialsSettled
  <2>7. HeardOnce'
    <3> SUFFICES ASSUME NEW e \in Clients, client'[e].pc \in {"share", "shared", "combine"}
                 PROVE  ~Twice(client'[e].heard) /\ Party[e] \notin PartiesOf(client'[e].heard)
      BY <2>2 DEF HeardOnce, Twice, PartiesOf
    <3>1. e # c
      BY <2>2
    <3> QED
      BY <2>2, <3>1 DEF Only, IInv, HeardOnce
  <2>8. client[c].heard \subseteq senders
    BY <1>1, <1>3, <1>5, PartialsOfAllHeard DEF senders
  <2>9. \A e \in Signers(c) : client[e].pc \in Settled /\ Fits(e, c)
    <3> SUFFICES ASSUME NEW e \in Signers(c)
                 PROVE  client[e].pc \in Settled /\ Fits(e, c)
      OBVIOUS
    <3>1. CASE e = c
      BY <2>3, <3>1 DEF Fits
    <3>2. CASE e # c
      <4>1. e \in senders
        BY <2>8, <3>2 DEF Signers
      <4>2. e \in session.posted[2]
        BY <4>1 DEF senders, Foreign
      <4> QED
        BY <1>3, <1>5, <4>1, <4>2 DEF IInv, PartialsSettled
    <3> QED
      BY <3>1, <3>2
  <2>10. PartiesOf(Signers(c)) = Holders
    <3>1. PartiesOf(Signers(c)) = PartiesOf(client[c].heard) \cup {Party[c]}
      BY DEF PartiesOf, Signers
    <3>2. Party[c] \in Holders
      BY DEF Holders
    <3> QED
      BY <1>3, <1>5, <3>1, <3>2 DEF HeardOf
  <2>11. SignersAgree'
    <3> SUFFICES ASSUME NEW x \in Clients, client'[x].pc \in Signed
                 PROVE  /\ PartiesOf(Signers(x)')  = Holders
                        /\ \A e \in Signers(x)' : client'[e].pc \in Settled /\ Fits(e, x)'
      BY <2>2 DEF SignersAgree, PartiesOf, Holders
    <3>1. /\ PartiesOf(Signers(x)) = Holders
          /\ \A e \in Signers(x) : client[e].pc \in Settled /\ Fits(e, x)
      <4>1. CASE x = c
        BY <2>9, <2>10, <4>1
      <4>2. CASE x # c
        BY <2>2, <4>2 DEF Only, IInv, SignersAgree
      <4> QED
        BY <4>1, <4>2
    <3>2. \A e \in Clients : Signers(e)' = Signers(e)
      BY <2>4 DEF Signers
    <3>3. Signers(x) \subseteq Clients
      BY <2>1 DEF TypeOK, Signers
    <3> QED
      BY <2>4, <3>1, <3>2, <3>3 DEF Fits
  <2> QED
    BY <2>2, <2>6, <2>7, <2>11 DEF IInv
<1> QED
  BY <1>4, <1>5

\* The faults and the start: a client fails, or the session is a new one.
LEMMA OthersKeepIInv ==
  ASSUME IInv, (\E shape \in Shapes : InitiateSigning(shape)) \/ Restart
                 \/ \E c \in Clients : Die(c)
  PROVE  IInv'
<1>1. CASE \E c \in Clients : Die(c)
  <2>1. PICK c \in Clients : Die(c)
    BY <1>1
  <2>2. TypeOK /\ Goto(c, "failed") /\ Party' = Party /\ session' = session
    BY <2>1 DEF IInv, Die
  <2>3. /\ client' \in [Clients -> Records] /\ Only(c)
        /\ client'[c].pc = "failed"
        /\ client'[c].transaction = client[c].transaction
        /\ client'[c].heard = client[c].heard
    BY <2>2, GotoType DEF Places
  <2>4. faults' \in 0 .. MaxFaults
    BY <2>1, <2>2, SigningAssumption DEF TypeOK, Die, Fault
  <2>5. TypeOK'
    BY <2>2, <2>3, <2>4 DEF TypeOK, Records
  <2> QED
    BY <2>2, <2>3, <2>5, OneClient DEF Settled, Signed
<1>2. CASE (\E shape \in Shapes : InitiateSigning(shape)) \/ Restart
  <2>1. /\ TypeOK /\ Party' = Party /\ client' = client
        /\ faults' = faults \/ Fault
    BY <1>2 DEF IInv, InitiateSigning, Restart
  <2>2. /\ session' \in Sessions /\ session'.posted[2] = {}
        /\ Cardinality(session'.joined) <= session'.n
    <3>1. CASE Restart
      <4>1. session' = Closed
        BY <3>1 DEF Restart
      <4> QED
        BY <4>1, ClosedType DEF Closed, Rounds
    <3>2. CASE \E shape \in Shapes : InitiateSigning(shape)
      <4>1. PICK shape \in Shapes : InitiateSigning(shape)
        BY <3>2
      <4>2. shape[1] \in Nat /\ shape[2] \in Nat
        BY SigningAssumption
      <4>3. session' = [open |-> TRUE, t |-> shape[1], n |-> shape[2], joined |-> {},
                        transaction |-> None, posted |-> [round \in Rounds |-> {}]]
        BY <4>1 DEF InitiateSigning, Closed
      <4> QED
        BY <4>2, <4>3, FS_EmptySet DEF Sessions, Rounds
    <3> QED
      BY <1>2, <3>1, <3>2
  <2>3. faults' \in 0 .. MaxFaults
    BY <2>1, SigningAssumption DEF TypeOK, Fault
  <2>4. TypeOK'
    BY <2>1, <2>2, <2>3 DEF TypeOK, Sessions
  <2> QED
    BY <2>1, <2>2, <2>4, SameClients
<1> QED
  BY <1>1, <1>2

-----------------------------------------------------------------------------
\* The first states have it.
LEMMA InitIInv == Init => IInv
<1> SUFFICES ASSUME Init PROVE IInv
  OBVIOUS
<1>1. session \in Sessions /\ session.posted[2] = {} /\ Cardinality(session.joined) <= session.n
  BY ClosedType DEF Init, Closed, Rounds
<1>2. /\ client \in [Clients -> Records]
      /\ \A c \in Clients : client[c].pc = "idle"
  BY DEF Init, Records, Places
<1>3. TypeOK
  BY <1>1, <1>2, SigningAssumption DEF Init, TypeOK, Sessions, Records
<1> QED
  BY <1>1, <1>2, <1>3 DEF IInv, PartialsSettled, HeardOnce, SignersAgree, Signed

\* Every step keeps it.
LEMMA NextKeepsIInv == IInv /\ [Next]_vars => IInv'
<1> SUFFICES ASSUME IInv, [Next]_vars PROVE IInv'
  OBVIOUS
<1>1. CASE UNCHANGED vars
  <2>1. UNCHANGED <<Party, session, client, faults>>
    BY <1>1 DEF vars
  <2>2. TypeOK'
    BY <2>1 DEF IInv, TypeOK
  <2> QED
    BY <2>1, <2>2, SameClients
<1>2. ASSUME NEW c \in Clients, NEW leads \in BOOLEAN, Join(c, leads) PROVE IInv'
  BY <1>2, JoinKeepsIInv
<1>3. ASSUME NEW c \in Clients, Proceed(c) PROVE IInv'
  BY <1>3, AwaitKeepsIInv, ReadKeepsIInv, PostKeepsIInv, CombineKeepsIInv DEF Proceed
<1>4. CASE (\E shape \in Shapes : InitiateSigning(shape)) \/ Restart
             \/ \E c \in Clients : Die(c)
  BY <1>4, OthersKeepIInv
<1> QED
  BY <1>1, <1>2, <1>3, <1>4 DEF Next

\* A signature and any other that shares a signer with it: that signer agrees
\* with both.
LEMMA AgreementIsEnough == IInv => OneSignaturePerCommitment
<1> SUFFICES ASSUME IInv, NEW c \in Clients, client[c].pc \in Signed
             PROVE  /\ PartiesOf(Signers(c)) = Holders
                    /\ \A d \in Clients :
                         /\ client[d].pc \in Signed
                         /\ Signers(d) \cap Signers(c) # {}
                         => /\ Signers(d) = Signers(c)
                            /\ client[d].transaction = client[c].transaction
  BY DEF OneSignaturePerCommitment
<1>1. /\ PartiesOf(Signers(c)) = Holders
      /\ \A e \in Signers(c) : Fits(e, c)
  BY DEF IInv, SignersAgree
<1>2. ASSUME NEW d \in Clients, client[d].pc \in Signed, NEW e \in Signers(d) \cap Signers(c)
      PROVE  /\ Signers(d) = Signers(c)
             /\ client[d].transaction = client[c].transaction
  <2>1. Fits(e, d)
    BY <1>2 DEF IInv, SignersAgree
  <2>2. Fits(e, c)
    BY <1>1
  <2> QED
    BY <2>1, <2>2 DEF Fits
<1> QED
  BY <1>1, <1>2

\* The types, and the places of a session, hold throughout.
THEOREM TypeCorrect == Spec => []TypeOK
<1>1. IInv => TypeOK
  BY DEF IInv
<1> QED
  BY <1>1, InitIInv, NextKeepsIInv, PTL DEF Spec

\* However often clients are started, killed or left waiting and the server is
\* restarted, a commitment serves signatures of one transaction by one set of
\* signers, which covers the holders of the key.
THEOREM CommitmentsServeOnce == Spec => []OneSignaturePerCommitment
  BY InitIInv, NextKeepsIInv, AgreementIsEnough, PTL DEF Spec

-----------------------------------------------------------------------------
\* What holds as long as there is no fault.  A client is past its join only as
\* a member, past the wait for the others only when they are as many as the
\* threshold, and past the wait for a round only when as many have posted; it
\* has the threshold of the session, and a transaction only of an initiator.
InRounds ==
  {"commit", "committed", "collect", "share", "shared", "combine", "unsigned"} \cup Signed
Posters == {"shared", "combine", "unsigned", "failed"} \cup Signed
IsLeaders(x) == x # None => x \in session.joined /\ client[x].leads

QuietAt(c) ==
  LET pc == client[c].pc IN
  /\ pc \notin {"idle", "failed"} => c \in session.joined
  /\ c \in session.joined =>
       /\ pc # "idle"
       /\ pc = "joined" \/ Cardinality(session.joined) >= session.t
  /\ pc \in InRounds => client[c].t = session.t
  /\ pc \in InRounds \ {"commit", "committed"} => Counted(1) >= session.t
  /\ pc = "combine" => Counted(2) >= session.t
  /\ c \in session.posted[2] => pc \in Posters
  /\ pc = "create" => client[c].leads
  /\ pc \in {"begin"} \cup InRounds => client[c].transaction # None
  /\ IsLeaders(client[c].transaction)

QuietSession ==
  /\ ~session.open => session = Closed
  /\ \A round \in Rounds : session.posted[round] \subseteq session.joined
  /\ IsLeaders(session.transaction)

Undisturbed == ~Trouble => QuietSession /\ \A c \in Clients : QuietAt(c)

\* ... and in a regular session: nobody fails, and who has collected the
\* commitments has those of all others.
RegularAt(c) ==
  c \in session.joined =>
    /\ client[c].pc \notin {"failed", "unsigned"}
    /\ client[c].pc \in {"share", "shared", "combine"} \cup Signed \/ c \in session.posted[2]
       => client[c].heard = session.joined \ {c}

RegularFine == Regular => \A c \in Clients : RegularAt(c)

\* What is inductive.
FineInv == IInv /\ Undisturbed /\ RegularFine

-----------------------------------------------------------------------------
\* Sets of clients are finite, and larger ones have no fewer members.
LEMMA ClientSets ==
  ASSUME NEW larger \in SUBSET Clients, NEW smaller \in SUBSET larger
  PROVE  /\ IsFiniteSet(larger) /\ Cardinality(larger) \in Nat
         /\ IsFiniteSet(smaller) /\ Cardinality(smaller) \in Nat
         /\ Cardinality(smaller) <= Cardinality(larger)
         /\ Cardinality(smaller) = Cardinality(larger) => smaller = larger
<1>1. IsFiniteSet(larger)
  BY SigningAssumption, FS_Subset DEF SigningAssumption
<1>2. IsFiniteSet(smaller) /\ Cardinality(smaller) <= Cardinality(larger)
      /\ (Cardinality(larger) = Cardinality(smaller) => larger = smaller)
  BY <1>1, FS_Subset
<1> QED
  BY <1>1, <1>2, FS_CardinalityType

\* In a regular session every holder is one member.
LEMMA OneEach ==
  ASSUME TypeOK, Regular
  PROVE  /\ \A d, e \in session.joined : Party[d] = Party[e] => d = e
         /\ \A c \in session.joined : PartiesOf(session.joined \ {c}) = Holders \ {Party[c]}
<1> DEFINE members == session.joined
           party == [d \in members |-> Party[d]]
<1>1. members \in SUBSET Clients
  BY DEF TypeOK
<1>2. PartiesOf(members) = Holders /\ Cardinality(members) = Cardinality(Holders)
  BY DEF Regular
<1>3. party \in [members -> Holders]
  BY <1>1 DEF Holders
<1>4. \A k \in Holders : \E d \in members : party[d] = k
  BY <1>2 DEF PartiesOf
<1>5. party \in Surjection(members, Holders)
  BY <1>3, <1>4 DEF Surjection
<1>6. IsFiniteSet(members)
  BY <1>1, ClientSets
<1>7. party \in Injection(members, Holders)
  BY <1>2, <1>5, <1>6, FS_SurjSameCardinalityImpliesInj
<1>8. \A d, e \in members : party[d] = party[e] => d = e
  BY <1>7 DEF Injection, IsInjective
<1>9. \A d, e \in members : Party[d] = Party[e] => d = e
  BY <1>8
<1>10. ASSUME NEW c \in members
       PROVE  PartiesOf(members \ {c}) = Holders \ {Party[c]}
  BY <1>2, <1>9, <1>10 DEF PartiesOf
<1> QED
  BY <1>9, <1>10

\* ... so none of them is heard twice, and all of a set of members but c
\* itself are others to c.
LEMMA OthersOnce ==
  ASSUME TypeOK, Regular, NEW senders \in SUBSET session.joined, NEW c \in session.joined
  PROVE  /\ Foreign(senders, c) = senders \ {c}
         /\ ~Twice(Foreign(senders, c))
<1>1. \A d, e \in session.joined : Party[d] = Party[e] => d = e
  BY OneEach
<1> QED
  BY <1>1 DEF Foreign, Twice

\* A round that counts to the threshold of a regular session is of all members.
LEMMA CountedAll ==
  ASSUME TypeOK, QuietSession, Regular, NEW round \in Rounds, Counted(round) >= session.t
  PROVE  session.posted[round] = session.joined
<1>1. session.joined \in SUBSET Clients /\ session.posted[round] \in SUBSET session.joined
  BY DEF TypeOK, QuietSession
<1>2. Cardinality(session.joined) = session.t /\ session.t \in Nat
  BY DEF Regular, TypeOK
<1> QED
  BY <1>1, <1>2, ClientSets DEF Counted

\* In a regular session there is one initiator, so one transaction.
LEMMA OneTransaction ==
  ASSUME TypeOK, Regular, NEW x, NEW y, x # None, y # None, IsLeaders(x), IsLeaders(y)
  PROVE  x = y
<1> DEFINE leaders == {c \in session.joined : client[c].leads}
<1>1. leaders \in SUBSET session.joined /\ session.joined \in SUBSET Clients
  BY DEF TypeOK
<1>2. IsFiniteSet(leaders) /\ Cardinality(leaders) = 1
  BY <1>1, ClientSets DEF Regular
<1>3. \E z : leaders = {z}
  BY <1>2, FS_Singleton
<1>4. x \in leaders /\ y \in leaders
  BY DEF IsLeaders
<1> QED
  BY <1>3, <1>4

-----------------------------------------------------------------------------
\* A member finds its session open, and what went without a fault was quiet.
LEMMA MembersFindItOpen ==
  ASSUME QuietSession, NEW c \in session.joined
  PROVE  session.open
  BY DEF QuietSession, Closed

\* Trouble does not end: a step after which there is none had none before it.
LEMMA StillQuiet ==
  ASSUME TypeOK, ~Trouble', Fault \/ faults' = faults
  PROVE  ~Trouble /\ faults' = faults /\ ~Fault
<1>1. faults \in Nat
  BY SigningAssumption DEF TypeOK, SigningAssumption
<1> QED
  BY <1>1 DEF Trouble, Fault

\* What the session keeps while its members work, but for what they post.
SameMembers ==
  /\ session'.open = session.open /\ session'.t = session.t /\ session'.n = session.n
  /\ session'.joined = session.joined

\* A quiet step of a member keeps what is fine, if it does for that member.
LEMMA MoveKeepsFine ==
  ASSUME FineInv, IInv', ~Trouble, faults' = faults, NEW c \in session.joined,
         Party' = Party, Only(c), client'[c].leads = client[c].leads, SameMembers,
         \A round \in Rounds :
           /\ session.posted[round] \subseteq session'.posted[round]
           /\ session'.posted[round] \subseteq session.posted[round] \cup {c},
         QuietAt(c)', IsLeaders(session.transaction)', Regular => RegularAt(c)'
  PROVE  FineInv'
<1>1. TypeOK /\ TypeOK' /\ QuietSession /\ \A d \in Clients : QuietAt(d)
  BY DEF FineInv, IInv, Undisturbed
<1>2. session.joined \in SUBSET Clients /\ c \in Clients
  BY <1>1 DEF TypeOK
<1>3. \A d \in Clients : client'[d].leads = client[d].leads
  BY DEF Only
<1>4. \A x : IsLeaders(x) => (x # None => x \in session'.joined /\ client'[x].leads)
  BY <1>2, <1>3 DEF IsLeaders, SameMembers
<1>5. \A round \in Rounds : Counted(round)' >= Counted(round)
                            /\ Counted(round) \in Nat /\ Counted(round)' \in Nat
  <2> TAKE round \in Rounds
  <2>1. session'.posted[round] \in SUBSET Clients
        /\ session.posted[round] \in SUBSET session'.posted[round]
    BY <1>1 DEF TypeOK
  <2> QED
    BY <2>1, ClientSets DEF Counted
<1>6. QuietSession'
  <2>1. session.open
    BY <1>1, MembersFindItOpen
  <2> QED
    BY <1>1, <2>1 DEF QuietSession, SameMembers
<1>7. \A d \in Clients : QuietAt(d)'
  <2> SUFFICES ASSUME NEW d \in Clients, d # c PROVE QuietAt(d)'
    OBVIOUS
  <2>1. client'[d] = client[d] /\ QuietAt(d)
    BY <1>1 DEF Only
  <2>2. session.t \in Nat /\ session'.t = session.t /\ session'.joined = session.joined
        /\ 1 \in Rounds /\ 2 \in Rounds
    BY <1>1 DEF TypeOK, SameMembers, Rounds
  <2>3. d \in session'.posted[2] => d \in session.posted[2]
    BY <2>2
  <2>4. Counted(1) >= session.t => Counted(1)' >= session.t
    BY <1>5, <2>2
  <2>5. Counted(2) >= session.t => Counted(2)' >= session.t
    BY <1>5, <2>2
  <2>6. client[d].transaction # None =>
          client[d].transaction \in session'.joined /\ client'[client[d].transaction].leads
    BY <1>4, <2>1 DEF QuietAt
  <2>7. IsLeaders(client[d].transaction)'
    BY <2>1, <2>6 DEF IsLeaders
  <2> QED
    BY <2>1, <2>2, <2>3, <2>4, <2>5, <2>7 DEF QuietAt
<1>8. RegularFine'
  <2>1. {d \in session'.joined : client'[d].leads} = {d \in session.joined : client[d].leads}
    BY <1>2, <1>3 DEF SameMembers
  <2>2. PartiesOf(session.joined)' = PartiesOf(session.joined) /\ Holders' = Holders
    BY DEF PartiesOf, SameMembers, Holders
  <2>3. Regular' => Regular
    BY <2>1, <2>2 DEF Regular, SameMembers, Trouble
  <2>4. ASSUME Regular, NEW d \in Clients, d # c PROVE RegularAt(d)'
    <3>1. client'[d] = client[d] /\ RegularAt(d)
      BY <2>4 DEF Only, FineInv, RegularFine
    <3>2. d \in session'.posted[2] => d \in session.posted[2]
      BY <2>4 DEF Rounds
    <3> QED
      BY <3>1, <3>2 DEF RegularAt, SameMembers
  <2> QED
    BY <2>3, <2>4 DEF RegularFine
<1> QED
  BY <1>6, <1>7, <1>8 DEF FineInv, Undisturbed

\* What going to another place leaves of a client.
LEMMA GotoLeaves ==
  ASSUME TypeOK, NEW c \in Clients, NEW place, Goto(c, place)
  PROVE  /\ Only(c)
         /\ client'[c].pc = place /\ client'[c].leads = client[c].leads
         /\ client'[c].t = client[c].t /\ client'[c].heard = client[c].heard
         /\ client'[c].transaction = client[c].transaction
<1>1. client \in [Clients -> Records] /\ client[c] \in Records
  BY DEF TypeOK, Records
<1>2. client'[c] = [client[c] EXCEPT !.pc = place] /\ Only(c)
  BY <1>1 DEF Goto, Only
<1> QED
  BY <1>1, <1>2 DEF Records

\* The quiet steps of a member that change nothing but its place: what its new
\* place asks for, by what held at the old one.
LEMMA GotoKeepsFine ==
  ASSUME FineInv, IInv', ~Trouble, faults' = faults, NEW c \in session.joined,
         Party' = Party, session' = session,
         NEW place, place \notin {"idle", "joined", "begin"}, Goto(c, place),
         Cardinality(session.joined) >= session.t,
         place \in InRounds => client[c].t = session.t /\ client[c].transaction # None,
         place \in InRounds \ {"commit", "committed"} => Counted(1) >= session.t,
         place = "combine" => Counted(2) >= session.t,
         c \in session.posted[2] => place \in Posters,
         place = "create" => client[c].leads,
         Regular =>
           /\ place \notin {"failed", "unsigned"}
           /\ place \in {"share", "shared", "combine"} \cup Signed \/ c \in session.posted[2]
              => client[c].heard = session.joined \ {c}
  PROVE  FineInv'
<1>1. TypeOK /\ QuietSession /\ \A d \in Clients : QuietAt(d)
  BY DEF FineInv, IInv, Undisturbed
<1>2. c \in Clients /\ session.joined \in SUBSET Clients
  BY <1>1 DEF TypeOK
<1>3. /\ Only(c)
      /\ client'[c].pc = place /\ client'[c].leads = client[c].leads
      /\ client'[c].t = client[c].t /\ client'[c].heard = client[c].heard
      /\ client'[c].transaction = client[c].transaction
  BY <1>1, <1>2, GotoLeaves
<1>4. \A d \in Clients : client'[d].leads = client[d].leads
  BY <1>3 DEF Only
<1>5. \A x : IsLeaders(x) => (x # None => x \in session'.joined /\ client'[x].leads)
  BY <1>2, <1>4 DEF IsLeaders
<1>6. IsLeaders(session.transaction)'
  BY <1>1, <1>5 DEF QuietSession, IsLeaders
<1>7. IsLeaders(client[c].transaction)'
  BY <1>1, <1>2, <1>3, <1>5 DEF QuietAt, IsLeaders
<1>8. Counted(1)' = Counted(1) /\ Counted(2)' = Counted(2)
  BY DEF Counted
<1>9. QuietAt(c)'
  BY <1>3, <1>7, <1>8 DEF QuietAt
<1>10. Regular => RegularAt(c)'
  BY <1>3 DEF RegularAt
<1>11. SameMembers
  BY DEF SameMembers
<1> QED
  BY <1>3, <1>6, <1>9, <1>10, <1>11, MoveKeepsFine

-----------------------------------------------------------------------------
\* What a client that works finds, if the step is without a fault.
LEMMA QuietMember ==
  ASSUME FineInv, ~Trouble', Fault \/ faults' = faults,
         NEW c \in Clients, client[c].pc \notin {"idle", "failed"}
  PROVE  /\ ~Trouble /\ faults' = faults /\ ~Fault
         /\ TypeOK /\ QuietSession /\ QuietAt(c)
         /\ c \in session.joined /\ session.open
         /\ Regular => RegularAt(c)
<1>1. TypeOK /\ (~Trouble => QuietSession /\ QuietAt(c)) /\ (Regular => RegularAt(c))
  BY DEF FineInv, IInv, Undisturbed, RegularFine
<1>2. ~Trouble /\ faults' = faults /\ ~Fault
  BY <1>1, StillQuiet
<1>3. c \in session.joined
  BY <1>1, <1>2 DEF QuietAt
<1> QED
  BY <1>1, <1>2, <1>3, MembersFindItOpen

\* Waiting for the parties, on a session that stays open while it lasts.
LEMMA AwaitPartiesKeepsFine ==
  ASSUME FineInv, IInv', ~Trouble', NEW c \in Clients, AwaitParties(c)
  PROVE  FineInv'
<1> DEFINE place == IF client[c].leads THEN "create" ELSE "fetch"
<1>1. /\ ~Trouble /\ faults' = faults
      /\ QuietAt(c) /\ c \in session.joined /\ session.open
  BY QuietMember DEF AwaitParties, Get
<1>2. Goto(c, place) /\ UNCHANGED <<Party, session>> /\ client[c].pc = "joined"
      /\ Cardinality(session.joined) >= session.t
  BY <1>1 DEF AwaitParties, Get
<1>3. c \notin session.posted[2]
  BY <1>1, <1>2 DEF QuietAt, Posters, Signed
<1>4. place \in {"create", "fetch"} /\ (place = "create" => client[c].leads)
  OBVIOUS
<1> HIDE DEF place
<1>5. place \notin {"idle", "joined", "begin"} /\ place \notin InRounds
      /\ place \notin {"failed", "unsigned", "combine"}
      /\ place \notin {"share", "shared", "combine"} \cup Signed
  BY <1>4 DEF InRounds, Signed
<1> QED
  BY <1>1, <1>2, <1>3, <1>4, <1>5, GotoKeepsFine

\* The initiator's transaction is that of a member who leads.
LEMMA BroadcastKeepsFine ==
  ASSUME FineInv, IInv', ~Trouble', NEW c \in Clients, Broadcast(c)
  PROVE  FineInv'
<1>1. client[c].pc = "create" /\ Party' = Party
      /\ Post(c, [session EXCEPT !.transaction = c], "fetch")
  BY DEF Broadcast, Post
<1>2. /\ ~Trouble /\ faults' = faults /\ ~Fault /\ TypeOK /\ QuietSession
      /\ QuietAt(c) /\ c \in session.joined /\ session.open
      /\ Regular => RegularAt(c)
  BY <1>1, QuietMember DEF Post
<1>3. Goto(c, "fetch") /\ session' = [session EXCEPT !.transaction = c]
  BY <1>1, <1>2 DEF Post
<1>4. /\ session'.transaction = c /\ SameMembers
      /\ session'.posted = session.posted
  BY <1>2, <1>3 DEF TypeOK, SameMembers
<1>5. /\ Only(c)
      /\ client'[c].pc = "fetch" /\ client'[c].leads = client[c].leads
      /\ client'[c].t = client[c].t /\ client'[c].heard = client[c].heard
      /\ client'[c].transaction = client[c].transaction
  BY <1>2, <1>3, GotoLeaves
<1>6. \A d \in Clients : client'[d].leads = client[d].leads
  BY <1>5 DEF Only
<1>7. IsLeaders(session.transaction)'
  BY <1>1, <1>2, <1>4, <1>5 DEF IsLeaders, QuietAt, SameMembers
<1>8. c \notin session.posted[2]
  BY <1>1, <1>2 DEF QuietAt, Posters, Signed
<1>9. QuietAt(c)'
  <2>1. IsLeaders(client[c].transaction)'
    BY <1>2, <1>4, <1>5, <1>6 DEF QuietAt, IsLeaders, SameMembers, TypeOK
  <2>2. Cardinality(session.joined) >= session.t
    BY <1>1, <1>2 DEF QuietAt
  <2> QED
    BY <1>2, <1>4, <1>5, <1>8, <2>1, <2>2 DEF QuietAt, InRounds, Signed, SameMembers
<1>10. RegularAt(c)'
  BY <1>4, <1>5, <1>8 DEF RegularAt, Signed
<1> QED
  BY <1>1, <1>2, <1>4, <1>5, <1>7, <1>9, <1>10, MoveKeepsFine

\* A client learns the transaction, or the threshold: no place, before it has
\* both, from which a member of a regular session fails.
LEMMA LearnKeepsFine ==
  ASSUME FineInv, IInv', ~Trouble', NEW c \in Clients, FetchTransaction(c) \/ Begin(c)
  PROVE  FineInv'
<1>1. client[c].pc \in {"fetch", "begin"} /\ UNCHANGED <<Party, session, faults>>
  BY DEF FetchTransaction, Begin
<1>2. /\ ~Trouble /\ TypeOK /\ QuietSession
      /\ QuietAt(c) /\ c \in session.joined /\ session.open
  BY <1>1, QuietMember
<1>3. client \in [Clients -> Records] /\ client[c] \in Records
  BY <1>2 DEF TypeOK, Records
<1>4. /\ Only(c) /\ client'[c].leads = client[c].leads
      /\ \/ client'[c].pc = "early" /\ client'[c].transaction = None
         \/ client'[c].pc = "begin" /\ client'[c].transaction = session.transaction
            /\ session.transaction # None
         \/ client'[c].pc = "commit" /\ client'[c].transaction = client[c].transaction
            /\ client'[c].t = session.t /\ client[c].pc = "begin"
  <2>1. CASE FetchTransaction(c)
    BY <1>2, <1>3, <2>1 DEF FetchTransaction, Only, Records
  <2>2. CASE Begin(c)
    BY <1>2, <1>3, <2>2 DEF Begin, Only, Records
  <2> QED
    BY <2>1, <2>2
<1>5. \A d \in Clients : client'[d].leads = client[d].leads
  BY <1>4 DEF Only
<1>6. \A x : x \in Clients \cup {None} /\ IsLeaders(x) =>
        (x # None => x \in session'.joined /\ client'[x].leads)
  BY <1>1, <1>5 DEF IsLeaders
<1>7. IsLeaders(session.transaction)'
  BY <1>1, <1>2, <1>6 DEF QuietSession, IsLeaders, TypeOK
<1>8. c \notin session.posted[2]
  BY <1>1, <1>2 DEF QuietAt, Posters, Signed
<1>9. IsLeaders(client[c].transaction)'
  <2>1. client[c].transaction \in Clients \cup {None}
    BY <1>3 DEF Records
  <2>2. IsLeaders(client[c].transaction)
    BY <1>2 DEF QuietAt
  <2>3. client'[c].transaction \in {None, client[c].transaction, session.transaction}
    BY <1>4
  <2> QED
    BY <1>1, <1>6, <1>7, <2>1, <2>2, <2>3 DEF IsLeaders
<1>10. QuietAt(c)'
  <2>1. Cardinality(session.joined) >= session.t
    BY <1>1, <1>2 DEF QuietAt
  <2>2. client[c].pc = "begin" => client[c].transaction # None
    BY <1>2 DEF QuietAt
  <2> QED
    BY <1>1, <1>2, <1>4, <1>8, <1>9, <2>1, <2>2 DEF QuietAt, InRounds, Signed
<1>11. RegularAt(c)'
  BY <1>1, <1>4, <1>8 DEF RegularAt, Signed
<1>12. SameMembers
  BY <1>1 DEF SameMembers
<1> QED
  BY <1>1, <1>2, <1>4, <1>7, <1>10, <1>11, <1>12, MoveKeepsFine

\* Who waits for a round goes on when its messages are as many as the threshold.
LEMMA AwaitRoundKeepsFine ==
  ASSUME FineInv, IInv', ~Trouble', NEW c \in Clients, AwaitRound(c)
  PROVE  FineInv'
<1>1. client[c].pc \in {"committed", "shared", "signed", "unsigned"}
      /\ UNCHANGED <<Party, session, faults>>
  BY DEF AwaitRound, Get, Waits
<1>2. /\ ~Trouble /\ TypeOK /\ QuietSession
      /\ QuietAt(c) /\ c \in session.joined /\ session.open
      /\ Regular => RegularAt(c)
  BY <1>1, QuietMember
<1>3. client[c].pc \in InRounds
  BY <1>1 DEF InRounds, Signed
<1>4. client[c].t = session.t /\ client[c].transaction # None
      /\ Cardinality(session.joined) >= session.t
  BY <1>1, <1>2, <1>3 DEF QuietAt
<1>5. CASE client[c].pc = "committed"
  <2>1. Goto(c, "collect") /\ Counted(1) >= session.t
    BY <1>2, <1>4, <1>5 DEF AwaitRound, Waits, Get, IsComplete
  <2>2. c \notin session.posted[2]
    BY <1>2, <1>5 DEF QuietAt, Posters, Signed
  <2> QED
    BY <1>1, <1>2, <1>4, <2>1, <2>2, GotoKeepsFine DEF Signed
<1>6. CASE client[c].pc = "shared"
  <2>1. Goto(c, "combine") /\ Counted(2) >= session.t
    BY <1>2, <1>4, <1>6 DEF AwaitRound, Waits, Get, IsComplete
  <2>2. Counted(1) >= session.t
    BY <1>2, <1>3, <1>6 DEF QuietAt
  <2>3. Regular => client[c].heard = session.joined \ {c}
    BY <1>2, <1>6 DEF RegularAt
  <2>4. "combine" \in Posters
    BY DEF Posters
  <2> QED
    BY <1>1, <1>2, <1>4, <2>1, <2>2, <2>3, <2>4, GotoKeepsFine
<1>7. CASE client[c].pc = "signed"
  <2>1. Goto(c, "done")
    BY <1>2, <1>7 DEF AwaitRound, Waits, Get
  <2>2. Counted(1) >= session.t
    BY <1>2, <1>3, <1>7 DEF QuietAt
  <2>3. Regular => client[c].heard = session.joined \ {c}
    BY <1>2, <1>7 DEF RegularAt, Signed
  <2>4. "done" \in Posters
    BY DEF Posters, Signed
  <2> QED
    BY <1>1, <1>2, <1>4, <2>1, <2>2, <2>3, <2>4, GotoKeepsFine
<1>8. CASE client[c].pc = "unsigned"
  <2>1. Goto(c, "failed")
    BY <1>2, <1>8 DEF AwaitRound, Waits, Get
  <2>2. ~Regular
    BY <1>2, <1>8 DEF RegularAt
  <2>3. "failed" \in Posters /\ "failed" \notin InRounds
    BY DEF Posters, InRounds, Signed
  <2> QED
    BY <1>1, <1>2, <1>4, <2>1, <2>2, <2>3, GotoKeepsFine
<1> QED
  BY <1>1, <1>5, <1>6, <1>7, <1>8

\* A commitment is posted by whoever has the transaction, and a partial
\* signature by who has heard of all others.
LEMMA PostRoundKeepsFine ==
  ASSUME FineInv, IInv', ~Trouble', NEW c \in Clients, PostRound(c)
  PROVE  FineInv'
<1>1. /\ client[c].pc \in {"commit", "share"} /\ Party' = Party
      /\ Fault \/ faults' = faults
  BY DEF PostRound, Post
<1>2. /\ ~Trouble /\ faults' = faults /\ ~Fault /\ TypeOK /\ QuietSession
      /\ QuietAt(c) /\ c \in session.joined /\ session.open
      /\ Regular => RegularAt(c)
  BY <1>1, QuietMember
<1>3. PICK round \in {1, 2}, place \in {"committed", "shared"} :
        /\ round = 1 => client[c].pc = "commit" /\ place = "committed"
        /\ round = 2 => client[c].pc = "share" /\ place = "shared"
        /\ Goto(c, place)
        /\ session' = Posted(round, c) \/ (session' = session)
  BY <1>2 DEF PostRound, Post, Posted
<1>4. round \in Rounds
  BY DEF Rounds
<1>5. Posted(round, c) = [session EXCEPT !.posted[round] = @ \cup {c}]
  BY DEF Posted
<1>6. /\ SameMembers /\ session'.transaction = session.transaction
      /\ \A other \in Rounds :
           /\ session.posted[other] \subseteq session'.posted[other]
           /\ session'.posted[other] \subseteq session.posted[other] \cup {c}
           /\ other # round => session'.posted[other] = session.posted[other]
  <2>1. CASE session' = session
    BY <2>1 DEF SameMembers
  <2>2. CASE session' = Posted(round, c)
    <3>1. session \in Sessions
      BY <1>2 DEF TypeOK, Sessions
    <3>2. /\ session'.open = session.open /\ session'.t = session.t
          /\ session'.n = session.n /\ session'.joined = session.joined
          /\ session'.transaction = session.transaction
          /\ session'.posted = [session.posted EXCEPT ![round] = @ \cup {c}]
      BY <1>5, <2>2, <3>1 DEF Sessions
    <3> QED
      BY <1>4, <3>1, <3>2 DEF Sessions, SameMembers
  <2> QED
    BY <1>3, <2>1, <2>2
<1>7. /\ Only(c)
      /\ client'[c].pc = place /\ client'[c].leads = client[c].leads
      /\ client'[c].t = client[c].t /\ client'[c].heard = client[c].heard
      /\ client'[c].transaction = client[c].transaction
  BY <1>2, <1>3, GotoLeaves
<1>8. \A d \in Clients : client'[d].leads = client[d].leads
  BY <1>7 DEF Only
<1>9. IsLeaders(session.transaction)' /\ IsLeaders(client[c].transaction)'
  <2>1. session.transaction \in Clients \cup {None} /\ client[c].transaction \in Clients \cup {None}
    BY <1>2 DEF TypeOK
  <2>2. IsLeaders(session.transaction) /\ IsLeaders(client[c].transaction)
    BY <1>2 DEF QuietSession, QuietAt
  <2> QED
    BY <1>6, <1>7, <1>8, <2>1, <2>2 DEF IsLeaders, SameMembers
<1>10. QuietAt(c)'
  <2>1. client[c].pc \in InRounds /\ client[c].pc # "joined"
    BY <1>1 DEF InRounds
  <2>2. client[c].t = session.t /\ client[c].transaction # None
        /\ Cardinality(session.joined) >= session.t
        /\ (round = 2 => Counted(1) >= session.t)
    BY <1>2, <1>3, <2>1 DEF QuietAt
  <2>3. round = 2 => Counted(1)' = Counted(1)
    BY <1>6 DEF Counted, Rounds
  <2>4. c \in session'.posted[2] => round = 2
    <3>1. c \notin session.posted[2]
      BY <1>1, <1>2 DEF QuietAt, Posters, Signed
    <3> QED
      BY <1>6, <3>1 DEF Rounds
  <2>5. place = "shared" => place \in Posters
    BY DEF Posters
  <2> QED
    BY <1>2, <1>3, <1>6, <1>7, <1>9, <2>2, <2>3, <2>4, <2>5
       DEF QuietAt, SameMembers, Signed
<1>11. Regular => RegularAt(c)'
  <2>1. c \notin session.posted[2]
    BY <1>1, <1>2 DEF QuietAt, Posters, Signed
  <2>2. round = 1 => c \notin session'.posted[2]
    BY <1>6, <2>1 DEF Rounds
  <2>3. round = 2 => (Regular => client[c].heard = session.joined \ {c})
    BY <1>2, <1>3 DEF RegularAt
  <2> QED
    BY <1>3, <1>6, <1>7, <2>2, <2>3 DEF RegularAt, SameMembers, Signed
<1> QED
  BY <1>1, <1>2, <1>6, <1>7, <1>9, <1>10, <1>11, MoveKeepsFine

\* In a regular session, who collects has the commitments of all others.
LEMMA CollectKeepsFine ==
  ASSUME FineInv, IInv', ~Trouble', NEW c \in Clients, Collect(c)
  PROVE  FineInv'
<1> DEFINE senders == Foreign(session.posted[1], c)
<1>1. client[c].pc = "collect" /\ UNCHANGED <<Party, session, faults>>
  BY DEF Collect
<1>2. /\ ~Trouble /\ TypeOK /\ QuietSession
      /\ QuietAt(c) /\ c \in session.joined /\ session.open
      /\ Regular => RegularAt(c)
  BY <1>1, QuietMember
<1>3. client[c].pc \in InRounds \ {"commit", "committed"}
  BY <1>1 DEF InRounds, Signed
<1>4. client[c].t = session.t /\ client[c].transaction # None
      /\ Cardinality(session.joined) >= session.t /\ Counted(1) >= session.t
  BY <1>1, <1>2, <1>3 DEF QuietAt
<1>5. client \in [Clients -> Records] /\ client[c] \in Records
  BY <1>2 DEF TypeOK, Records
<1>6. /\ Only(c) /\ client'[c].leads = client[c].leads /\ client'[c].t = client[c].t
      /\ client'[c].transaction = client[c].transaction
      /\ client'[c].heard = senders
      /\ client'[c].pc = (IF Twice(senders) THEN "failed" ELSE "share")
  <2> DEFINE new == [client[c] EXCEPT !.pc = IF Twice(senders) THEN "failed" ELSE "share",
                                      !.heard = senders]
  <2>1. client'[c] = new /\ Only(c)
    BY <1>2, <1>5 DEF Collect, Only
  <2> HIDE DEF senders
  <2> QED
    BY <1>5, <2>1 DEF Records
<1> HIDE DEF senders
<1>7. \A d \in Clients : client'[d].leads = client[d].leads
  BY <1>6 DEF Only
<1>8. IsLeaders(session.transaction)' /\ IsLeaders(client[c].transaction)'
  <2>1. session.transaction \in Clients \cup {None} /\ client[c].transaction \in Clients \cup {None}
    BY <1>2 DEF TypeOK
  <2>2. IsLeaders(session.transaction) /\ IsLeaders(client[c].transaction)
    BY <1>2 DEF QuietSession, QuietAt
  <2> QED
    BY <1>1, <1>6, <1>7, <2>1, <2>2 DEF IsLeaders
<1>9. c \notin session.posted[2]
  BY <1>1, <1>2 DEF QuietAt, Posters, Signed
<1>10. QuietAt(c)'
  BY <1>1, <1>2, <1>4, <1>6, <1>8, <1>9 DEF QuietAt, Counted, InRounds, Signed
<1>11. ASSUME Regular PROVE ~Twice(senders) /\ senders = session.joined \ {c}
  <2>1. session.posted[1] = session.joined
    BY <1>2, <1>4, <1>11, CountedAll DEF Rounds
  <2> QED
    BY <1>2, <1>11, <2>1, OthersOnce DEF senders
<1>12. Regular => RegularAt(c)'
  BY <1>1, <1>6, <1>11 DEF RegularAt
<1>13. SameMembers
  BY <1>1 DEF SameMembers
<1> QED
  BY <1>1, <1>2, <1>6, <1>8, <1>10, <1>12, <1>13, MoveKeepsFine

\* ... and who combines has a partial signature of every other that fits: all
\* of them have heard of the same parties, and have the one transaction.
LEMMA EverythingFits ==
  ASSUME FineInv, ~Trouble, Regular, NEW c \in Clients, client[c].pc = "combine",
         NEW senders, senders = Foreign(session.posted[2], c)
  PROVE  /\ Ready(c) /\ ~Twice(senders) /\ HeardOf(senders, c)
         /\ \A d \in senders : Fits(d, c)
<1>1. TypeOK /\ QuietSession /\ (\A d \in Clients : QuietAt(d))
      /\ (\A d \in Clients : RegularAt(d))
  BY DEF FineInv, IInv, Undisturbed, RegularFine
<1>2. c \in session.joined
  BY <1>1 DEF QuietAt
<1>3. client[c].heard = session.joined \ {c}
  BY <1>1, <1>2 DEF RegularAt
<1>4. PartiesOf(session.joined \ {c}) = Holders \ {Party[c]}
  BY <1>1, <1>2, OneEach
<1>5. Ready(c)
  BY <1>3, <1>4 DEF Ready, HeardOf
<1>6. session.posted[2] = session.joined
  <2>1. Counted(2) >= session.t /\ 2 \in Rounds
    BY <1>1 DEF QuietAt, Rounds
  <2> QED
    BY <1>1, <2>1, CountedAll
<1>7. senders = session.joined \ {c} /\ ~Twice(senders)
  BY <1>1, <1>2, <1>6, OthersOnce
<1>8. HeardOf(senders, c)
  BY <1>4, <1>7 DEF HeardOf
<1>9. ASSUME NEW d \in senders PROVE Fits(d, c)
  <2>1. d \in Clients /\ d \in session.joined /\ d \in session.posted[2]
    BY <1>1, <1>6, <1>7 DEF TypeOK
  <2>2. client[d].heard = session.joined \ {d} /\ client[d].pc \in Posters
        /\ client[d].pc # "failed"
    BY <1>1, <2>1 DEF RegularAt, QuietAt
  <2>3. Signers(d) = session.joined /\ Signers(c) = session.joined
    BY <1>2, <1>3, <2>1, <2>2 DEF Signers
  <2>4. client[d].pc \in InRounds /\ client[c].pc \in InRounds
    BY <2>2 DEF Posters, InRounds
  <2>5. client[d].transaction # None /\ client[c].transaction # None
        /\ IsLeaders(client[d].transaction) /\ IsLeaders(client[c].transaction)
    BY <1>1, <2>1, <2>4 DEF QuietAt
  <2>6. client[d].transaction = client[c].transaction
    BY <1>1, <2>5, OneTransaction
  <2> QED
    BY <2>3, <2>6 DEF Fits
<1> QED
  BY <1>5, <1>7, <1>8, <1>9

\* The partial signatures of all others fit, so the last step is a signature.
LEMMA CombineKeepsFine ==
  ASSUME FineInv, IInv', ~Trouble', NEW c \in Clients, Combine(c)
  PROVE  FineInv'
<1> DEFINE senders == Foreign(session.posted[2], c)
           rejects == IF Ready(c) THEN Twice(senders)
                      ELSE PartiesOf(senders) \cap PartiesOf(client[c].heard) # {}
           wrong   == \E d \in senders : ~Fits(d, c)
           place == IF rejects THEN "failed"
                    ELSE IF ~Ready(c) \/ ~HeardOf(senders, c) THEN "unsigned"
                    ELSE IF wrong THEN "failed" ELSE "signed"
<1>1. client[c].pc = "combine" /\ UNCHANGED <<Party, session, faults>>
  BY DEF Combine, Get
<1>2. /\ ~Trouble /\ TypeOK /\ QuietSession
      /\ QuietAt(c) /\ c \in session.joined /\ session.open
      /\ Regular => RegularAt(c)
  BY <1>1, QuietMember
<1>3. Goto(c, place)
  BY <1>2 DEF Combine, Get
<1>4. place \in {"failed", "unsigned", "signed"}
  OBVIOUS
<1>5. Regular => place = "signed"
  BY <1>1, <1>2, EverythingFits
<1> HIDE DEF place
<1>6. client[c].pc \in InRounds \ {"commit", "committed"}
  BY <1>1 DEF InRounds
<1>7. client[c].t = session.t /\ client[c].transaction # None
      /\ Cardinality(session.joined) >= session.t /\ Counted(1) >= session.t
  BY <1>1, <1>2, <1>6 DEF QuietAt
<1>8. Regular => client[c].heard = session.joined \ {c}
  BY <1>1, <1>2 DEF RegularAt
<1>9. place \in Posters /\ place \notin {"idle", "joined", "begin", "combine", "create"}
  BY <1>4 DEF Posters, Signed
<1> QED
  BY <1>1, <1>2, <1>3, <1>4, <1>5, <1>7, <1>8, <1>9, GotoKeepsFine

-----------------------------------------------------------------------------
\* Who is turned away is no member.
LEMMA TurnedAwayKeepsFine ==
  ASSUME FineInv, IInv', ~Trouble, NEW c \in Clients, client[c].pc = "idle",
         Goto(c, "failed"), UNCHANGED <<Party, session, faults>>
  PROVE  FineInv'
<1>1. TypeOK /\ QuietSession /\ \A d \in Clients : QuietAt(d)
  BY DEF FineInv, IInv, Undisturbed
<1>2. c \notin session.joined /\ c \notin session.posted[2]
  BY <1>1 DEF QuietAt, QuietSession, Rounds
<1>3. /\ Only(c) /\ client'[c].pc = "failed" /\ client'[c].leads = client[c].leads
      /\ client'[c].transaction = client[c].transaction
  BY <1>1, GotoLeaves
<1>4. \A d \in Clients : client'[d].leads = client[d].leads
                         /\ client'[d].transaction = client[d].transaction
  BY <1>3 DEF Only
<1>5. session.joined \in SUBSET Clients
  BY <1>1 DEF TypeOK
<1>6. QuietSession'
  BY <1>1, <1>4, <1>5 DEF QuietSession, IsLeaders
<1>7. \A d \in Clients : QuietAt(d)'
  <2> TAKE d \in Clients
  <2>1. IsLeaders(client[d].transaction)'
    BY <1>1, <1>4, <1>5 DEF QuietAt, IsLeaders
  <2>2. CASE d = c
    BY <1>2, <1>3, <2>1, <2>2 DEF QuietAt, InRounds, Signed
  <2>3. CASE d # c
    BY <1>1, <1>3, <2>1, <2>3 DEF QuietAt, Only, Counted
  <2> QED
    BY <2>2, <2>3
<1>8. RegularFine'
  <2>1. {d \in session.joined : client'[d].leads} = {d \in session.joined : client[d].leads}
    BY <1>4, <1>5
  <2>2. Regular' => Regular
    BY <2>1 DEF Regular, Trouble, PartiesOf, Holders
  <2>3. ASSUME Regular, NEW d \in Clients PROVE RegularAt(d)'
    BY <1>2, <1>3, <2>3 DEF RegularAt, FineInv, RegularFine, Only
  <2> QED
    BY <2>2, <2>3 DEF RegularFine
<1> QED
  BY <1>6, <1>7, <1>8 DEF FineInv, Undisturbed

\* A member more: with it a session can become regular, and then everybody
\* still waits for the others.
LEMMA EnterKeepsFine ==
  ASSUME FineInv, IInv', ~Trouble, NEW c \in Clients, NEW leads \in BOOLEAN,
         client[c].pc = "idle", session.open, ~IsFull,
         session' = [session EXCEPT !.joined = @ \cup {c}],
         client' = [client EXCEPT ![c].pc = "joined", ![c].leads = leads],
         UNCHANGED <<Party, faults>>
  PROVE  FineInv'
<1>1. TypeOK /\ QuietSession /\ \A d \in Clients : QuietAt(d)
  BY DEF FineInv, IInv, Undisturbed
<1>2. c \notin session.joined /\ session.posted[2] \subseteq session.joined
      /\ session.posted[1] \subseteq session.joined
  BY <1>1 DEF QuietAt, QuietSession, Rounds
<1>3. client \in [Clients -> Records] /\ client[c] \in Records
      /\ session.joined \in SUBSET Clients /\ session.t \in Nat /\ session \in Sessions
  BY <1>1 DEF TypeOK, Records, Sessions
<1>4. /\ Only(c) /\ client'[c].pc = "joined"
      /\ client'[c].transaction = client[c].transaction
  BY <1>3 DEF Only, Records
<1>5. /\ session'.joined = session.joined \cup {c} /\ session'.open = session.open
      /\ session'.t = session.t /\ session'.n = session.n
      /\ session'.posted = session.posted /\ session'.transaction = session.transaction
  BY <1>3 DEF Sessions
<1>6. /\ IsFiniteSet(session.joined)
      /\ Cardinality(session.joined) \in Nat
      /\ Cardinality(session'.joined) = Cardinality(session.joined) + 1
  BY <1>2, <1>3, <1>5, ClientSets, FS_AddElement
<1>7. \A x : x \in Clients \cup {None} /\ IsLeaders(x) =>
        (x # None => x \in session'.joined /\ client'[x].leads)
  BY <1>2, <1>4, <1>5 DEF IsLeaders, Only
<1>8. IsLeaders(session.transaction)'
  BY <1>1, <1>5, <1>7 DEF QuietSession, IsLeaders, TypeOK
<1>9. QuietSession'
  BY <1>1, <1>5, <1>8 DEF QuietSession
<1>10. \A d \in Clients : IsLeaders(client[d].transaction)'
  BY <1>1, <1>4, <1>7 DEF QuietAt, IsLeaders, TypeOK, Only
<1>11. \A d \in Clients : QuietAt(d)'
  <2> TAKE d \in Clients
  <2>1. CASE d = c
    BY <1>2, <1>4, <1>5, <1>10, <2>1 DEF QuietAt, InRounds, Signed
  <2>2. CASE d # c
    <3>1. QuietAt(d) /\ client'[d] = client[d]
          /\ (d \in session'.joined <=> d \in session.joined)
      BY <1>1, <1>4, <1>5, <2>2 DEF Only
    <3>2. Cardinality(session.joined) >= session.t => Cardinality(session'.joined) >= session.t
      BY <1>3, <1>6
    <3>3. Counted(1)' = Counted(1) /\ Counted(2)' = Counted(2)
      BY <1>5 DEF Counted
    <3> QED
      BY <1>5, <1>10, <3>1, <3>2, <3>3 DEF QuietAt
  <2> QED
    BY <2>1, <2>2
<1>12. RegularFine'
  <2> SUFFICES ASSUME Regular', NEW d \in Clients PROVE RegularAt(d)'
    BY DEF RegularFine
  <2>1. Cardinality(session.joined) + 1 = session.t
    BY <1>5, <1>6 DEF Regular
  <2>2. ~(Cardinality(session.joined) >= session.t)
    BY <1>3, <1>6, <2>1
  <2>3. d \in session'.joined => client'[d].pc = "joined"
    BY <1>1, <1>4, <1>5, <2>2 DEF QuietAt, Only
  <2>4. d \notin session'.posted[2]
    BY <1>1, <1>2, <1>4, <1>5, <2>2 DEF QuietAt, Posters, Signed
  <2> QED
    BY <2>3, <2>4 DEF RegularAt, Signed
<1> QED
  BY <1>9, <1>11, <1>12 DEF FineInv, Undisturbed

\* A session is opened only where there is none, so nobody is under way.
LEMMA InitiateKeepsFine ==
  ASSUME FineInv, IInv', ~Trouble, NEW shape \in Shapes, InitiateSigning(shape)
  PROVE  FineInv'
<1>1. TypeOK /\ QuietSession /\ \A d \in Clients : QuietAt(d)
  BY DEF FineInv, IInv, Undisturbed
<1>2. session = Closed /\ UNCHANGED <<Party, client, faults>>
      /\ session' = [Closed EXCEPT !.open = TRUE, !.t = shape[1], !.n = shape[2]]
  BY <1>1 DEF InitiateSigning, QuietSession
<1>3. /\ session.joined = {} /\ session'.joined = {} /\ session'.open
      /\ session'.transaction = None
      /\ \A round \in Rounds : session'.posted[round] = {}
  BY <1>2 DEF Closed
<1>4. QuietSession'
  BY <1>3 DEF QuietSession, IsLeaders
<1>5. \A d \in Clients : client[d].pc \in {"idle", "failed"} /\ client[d].transaction = None
  BY <1>1, <1>3 DEF QuietAt, IsLeaders
<1>6. \A d \in Clients : QuietAt(d)'
  BY <1>2, <1>3, <1>5 DEF QuietAt, IsLeaders, InRounds, Signed, Rounds
<1>7. RegularFine'
  BY <1>3 DEF RegularFine, RegularAt
<1> QED
  BY <1>4, <1>6, <1>7 DEF FineInv, Undisturbed

-----------------------------------------------------------------------------
\* Nobody has joined at the start.
LEMMA InitFine == Init => FineInv
<1> SUFFICES ASSUME Init PROVE FineInv
  OBVIOUS
<1>1. IInv
  BY InitIInv
<1>2. session = Closed /\ \A c \in Clients :
        client[c].pc = "idle" /\ client[c].transaction = None
  BY DEF Init
<1>3. session.joined = {} /\ session.transaction = None
      /\ \A round \in Rounds : session.posted[round] = {}
  BY <1>2 DEF Closed
<1>4. QuietSession
  BY <1>2, <1>3 DEF QuietSession, IsLeaders
<1>5. \A c \in Clients : QuietAt(c)
  BY <1>2, <1>3 DEF QuietAt, IsLeaders, InRounds, Signed, Rounds
<1>6. RegularFine
  BY <1>3 DEF RegularFine, RegularAt
<1> QED
  BY <1>1, <1>4, <1>5, <1>6 DEF FineInv, Undisturbed

\* A fault ends the quiet, and every other step keeps what is fine.
LEMMA NextKeepsFine == FineInv /\ [Next]_vars => FineInv'
<1> SUFFICES ASSUME FineInv, [Next]_vars PROVE FineInv'
  OBVIOUS
<1>1. IInv' /\ TypeOK
  BY NextKeepsIInv DEF FineInv, IInv
<1>2. CASE Trouble'
  BY <1>1, <1>2 DEF FineInv, Undisturbed, RegularFine, Regular
<1>3. ASSUME ~Trouble', NEW c \in Clients, NEW leads \in BOOLEAN, Join(c, leads)
      PROVE  FineInv'
  <2>1. ~Trouble /\ faults' = faults /\ ~Fault
    BY <1>1, <1>3, StillQuiet DEF Join
  <2>2. CASE Goto(c, "failed") /\ UNCHANGED session
    BY <1>1, <1>3, <2>1, <2>2, TurnedAwayKeepsFine DEF Join
  <2>3. CASE ~(Goto(c, "failed") /\ UNCHANGED session)
    BY <1>1, <1>3, <2>1, <2>3, EnterKeepsFine DEF Join
  <2> QED
    BY <2>2, <2>3
<1>4. ASSUME ~Trouble', NEW c \in Clients, Proceed(c) PROVE FineInv'
  BY <1>1, <1>4, AwaitPartiesKeepsFine, BroadcastKeepsFine, LearnKeepsFine,
     PostRoundKeepsFine, AwaitRoundKeepsFine, CollectKeepsFine, CombineKeepsFine DEF Proceed
<1>5. ASSUME ~Trouble', NEW shape \in Shapes, InitiateSigning(shape) PROVE FineInv'
  BY <1>1, <1>5, StillQuiet, InitiateKeepsFine DEF InitiateSigning
<1>6. ASSUME ~Trouble' PROVE ~Restart /\ \A c \in Clients : ~Die(c)
  <2>1. faults \in Nat
    BY <1>1, SigningAssumption DEF TypeOK, SigningAssumption
  <2> QED
    BY <1>6, <2>1 DEF Restart, Die, Fault, Trouble
<1>7. CASE UNCHANGED vars
  <2>1. UNCHANGED <<Party, session, client, faults>>
    BY <1>7 DEF vars
  <2>2. Undisturbed'
    BY <2>1 DEF FineInv, Undisturbed, Trouble, QuietSession, IsLeaders, QuietAt, Counted
  <2>3. RegularFine'
    BY <2>1 DEF FineInv, RegularFine, RegularAt, Regular, Trouble, PartiesOf, Holders
  <2> QED
    BY <1>1, <2>2, <2>3 DEF FineInv
<1> QED
  BY <1>2, <1>3, <1>4, <1>5, <1>6, <1>7 DEF Next

\* In a session of all holders, each started once and one as the initiator,
\* no member is turned away or left without a signature, as long as there is
\* no fault; who asks for the transaction too early gives up by itself.
THEOREM MembersNeverFail == Spec => []NobodyFails
<1>1. FineInv => NobodyFails
  BY DEF FineInv, IInv, TypeOK, RegularFine, RegularAt, NobodyFails
<1> QED
  BY <1>1, InitFine, NextKeepsFine, PTL DEF Spec
=============================================================================
