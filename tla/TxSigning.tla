----------------------------- MODULE TxSigning -----------------------------
(***************************************************************************)
(* Threshold signing of a transaction: one signing session of the MPC      *)
(* server (external-apis/mpc_api/main.go) and the clients that sign in it  *)
(* (sign_client.go).  The name of a session is chosen by its users, and    *)
(* sessions of different names share nothing, so one name is enough.  A    *)
(* request is answered in one step: what a handler does between its two    *)
(* locks touches nothing that others change.                               *)
(*                                                                         *)
(* The cryptography (frost-ed25519, vendored) is abstracted to which       *)
(* messages it accepts: one commitment of every other holder of the key,   *)
(* then one partial signature of each that fits.                           *)
(***************************************************************************)
EXTENDS Integers, FiniteSets

CONSTANTS
  Clients,    \* the processes that are started to sign
  Numberings, \* the functions client -> number of the party it is started for
  None,       \* no transaction
  Shapes,     \* the pairs <<t, n>> that are asked for
  MaxFaults   \* bound on lost requests and responses, killed clients, and
              \* restarts of the server

ASSUME SigningAssumption ==
  /\ IsFiniteSet(Clients)
  /\ Numberings \subseteq [Clients -> Nat \ {0}]
  /\ None \notin Clients
  /\ Shapes \subseteq (Nat \ {0}) \X (Nat \ {0})
  /\ \A shape \in Shapes : shape[1] <= shape[2]
  /\ MaxFaults \in Nat

VARIABLES
  Party,     \* the one of Numberings that is the case
  session,   \* open, t, n, joined, transaction, messages (posted[round])
  client,    \* client -> pc, and what it knows
  faults     \* the number of faults so far

vars == <<Party, session, client, faults>>

\* Every holder of the key has a process, started or not.
Holders == {Party[c] : c \in Clients}

\* Where a client can be, in this order: before its join; polling for the
\* others; about to build the transaction (the initiator); about to ask for
\* it; before it has the threshold; about to post its commitment; polling for
\* round 1; about to fetch it; the same for its partial signature; polling for
\* round 3 with a signature or without; and at an end.
Signed == {"signed", "done"}
Signing == {"begin", "commit", "committed", "collect", "share", "shared", "combine"}
Places ==
  {"idle", "joined", "create", "fetch", "unsigned", "early", "failed"}
    \cup Signing \cup Signed

Rounds == 1 .. 3
Closed == [open |-> FALSE, t |-> 0, n |-> 0, joined |-> {}, transaction |-> None,
           posted |-> [round \in Rounds |-> {}]]
-----------------------------------------------------------------------------
Init ==
  /\ Party \in Numberings
  /\ session = Closed
  /\ client = [c \in Clients |->
       [pc |-> "idle", leads |-> FALSE, transaction |-> None, t |-> 0, heard |-> {}]]
  /\ faults = 0

\* InitiateSigning: unless there is a session of that name.
InitiateSigning(shape) ==
  /\ ~session.open
  /\ session' = [Closed EXCEPT !.open = TRUE, !.t = shape[1], !.n = shape[2]]
  /\ UNCHANGED <<Party, client, faults>>

Goto(c, place) == client' = [client EXCEPT ![c].pc = place]
Fault == faults < MaxFaults /\ faults' = faults + 1

\* A POST of c that would leave the session as `posted`: every error ends the
\* client, and when it is the response that is lost, the server has acted.
Post(c, posted, place) ==
  /\ \/ session.open /\ session' = posted /\ Goto(c, place) /\ UNCHANGED faults
     \/ /\ session.open /\ Fault /\ Goto(c, "failed")
        /\ session' \in {posted, session}
     \/ ~session.open /\ Goto(c, "failed") /\ UNCHANGED <<session, faults>>
  /\ UNCHANGED Party

\* JoinSigningSession: while there is a place; who joins is not compared with
\* who has joined.  A client is started as the initiator or not.
IsFullLate == Cardinality(session.joined) > session.n      \* a mistake
IsFull == Cardinality(session.joined) >= session.n
Join(c, leads) ==
  LET joined == [session EXCEPT !.joined = @ \cup {c}] IN
  /\ client[c].pc = "idle"
  /\ \/ /\ session.open /\ ~IsFull
        /\ session' = joined
        /\ client' = [client EXCEPT ![c].pc = "joined", ![c].leads = leads]
        /\ UNCHANGED faults
     \/ /\ session.open /\ ~IsFull
        /\ Fault /\ Goto(c, "failed")
        /\ session' \in {joined, session}
     \/ /\ ~session.open \/ IsFull
        /\ Goto(c, "failed")
        /\ UNCHANGED <<session, faults>>
  /\ UNCHANGED Party

\* A GET of c, which ends the client when there is no session.
Get(c, place) ==
  /\ Goto(c, IF session.open THEN place ELSE "failed")
  /\ UNCHANGED <<Party, session, faults>>

\* waitForAllParties: in fact for the threshold.
AwaitParties(c) ==
  /\ client[c].pc = "joined"
  /\ session.open => Cardinality(session.joined) >= session.t
  /\ Get(c, IF client[c].leads THEN "create" ELSE "fetch")

\* createSolanaTransaction and BroadcastTransaction: a later one replaces it.
\* A transaction is told by who has built it, with the blockhash of the moment.
Broadcast(c) ==
  /\ client[c].pc = "create"
  /\ Post(c, [session EXCEPT !.transaction = c], "fetch")

\* GetTransactionHandler.  Who is not the initiator has slept for five seconds
\* before, and gives up when the transaction is not there yet.
FetchTransaction(c) ==
  /\ client[c].pc = "fetch"
  /\ client' = [client EXCEPT
       ![c].pc = IF ~session.open THEN "failed"
                 ELSE IF session.transaction = None THEN "early" ELSE "begin",
       ![c].transaction = session.transaction]
  /\ UNCHANGED <<Party, session, faults>>

\* performMPCSigning: the threshold is that of the session.
Begin(c) ==
  /\ client[c].pc = "begin"
  /\ client' = [client EXCEPT ![c].pc = IF session.open THEN "commit" ELSE "failed",
                              ![c].t = session.t]
  /\ UNCHANGED <<Party, session, faults>>

\* waitForRoundCompletion, by the number of messages of the round.  The last
\* wait is for round 3, in which no client posts; after it a client looks for
\* its signature, and the initiator has the server print it.
CountedWithOwn(round) == Cardinality(session.posted[round]) + 1  \* a mistake
Counted(round) == Cardinality(session.posted[round])
IsCompleteBeyond(c, round) == Counted(round) > client[c].t       \* a mistake
IsComplete(c, round) == Counted(round) >= client[c].t
Waits == [committed |-> [round |-> 1, next |-> "collect"],
          shared    |-> [round |-> 2, next |-> "combine"],
          signed    |-> [round |-> 3, next |-> "done"],
          unsigned  |-> [round |-> 3, next |-> "failed"]]
AwaitRound(c) ==
  LET wait == Waits[client[c].pc] IN
  /\ client[c].pc \in DOMAIN Waits
  /\ session.open => IsComplete(c, wait.round)
  /\ Get(c, wait.next)

\* The messages that the protocol of c does not ignore: those of other numbers.
Foreign(senders, c) == {d \in senders : Party[d] # Party[c]}
PartiesOf(senders) == {Party[d] : d \in senders}
HeardOf(senders, c) == PartiesOf(senders) = Holders \ {Party[c]}
Twice(senders) == \E d, e \in senders : d # e /\ Party[d] = Party[e]
Ready(c) == HeardOf(client[c].heard, c)

\* helpers.PartyRoutine, with the messages of round 1: a second one of a party
\* is an error, and too few are none.
Collect(c) ==
  LET senders == Foreign(session.posted[1], c) IN
  /\ client[c].pc = "collect"
  /\ client' = [client EXCEPT
       ![c].pc = IF session.open /\ ~Twice(senders) THEN "share" ELSE "failed",
       ![c].heard = senders]
  /\ UNCHANGED <<Party, session, faults>>

\* Both rounds post what the routine has put out: nothing, in the second,
\* unless it had heard of everybody.
PostRound(c) ==
  \/ /\ client[c].pc = "commit"
     /\ Post(c, [session EXCEPT !.posted[1] = @ \cup {c}], "committed")
  \/ /\ client[c].pc = "share"
     /\ Post(c, IF Ready(c) THEN [session EXCEPT !.posted[2] = @ \cup {c}]
                ELSE session, "shared")

\* The processes whose commitments a signature of c is bound to.
Signers(c) == client[c].heard \cup {c}
FitsInText(d, c) == client[d].transaction = client[c].transaction  \* a mistake
Fits(d, c) ==
  /\ client[d].transaction = client[c].transaction
  /\ Signers(d) = Signers(c)

\* ... with the messages of round 2.  A client that still lacks commitments
\* keeps a partial signature for later, and takes one of a party whose
\* commitment it has for a second message.
Combine(c) ==
  LET senders == Foreign(session.posted[2], c)
      rejects == IF Ready(c) THEN Twice(senders)
                 ELSE PartiesOf(senders) \cap PartiesOf(client[c].heard) # {}
      wrong   == \E d \in senders : ~Fits(d, c)
  IN
  /\ client[c].pc = "combine"
  /\ Get(c, IF rejects THEN "failed"
            ELSE IF ~Ready(c) \/ ~HeardOf(senders, c) THEN "unsigned"
            ELSE IF wrong THEN "failed" ELSE "signed")

\* A client is killed, or a GET of it or its request for a blockhash is lost.
Die(c) ==
  /\ client[c].pc \in {"joined", "create", "fetch", "unsigned"} \cup Signing
  /\ Fault
  /\ Goto(c, "failed")
  /\ UNCHANGED <<Party, session>>

\* The server is started again: its sessions are in memory only.
Restart ==
  /\ Fault
  /\ session' = Closed
  /\ UNCHANGED <<Party, client>>

\* What a client that has joined does by itself.
Proceed(c) ==
  \/ AwaitParties(c) \/ Broadcast(c) \/ FetchTransaction(c) \/ Begin(c)
  \/ PostRound(c) \/ AwaitRound(c) \/ Collect(c) \/ Combine(c)

Next ==
  \/ \E shape \in Shapes : InitiateSigning(shape)
  \/ \E c \in Clients : \/ \E leads \in BOOLEAN : Join(c, leads)
                        \/ Proceed(c)
                        \/ Die(c)
  \/ Restart

\* A client that waits polls every second and never gives up.
Spec == Init /\ [][Next]_vars /\ \A c \in Clients : WF_vars(Proceed(c))
-----------------------------------------------------------------------------
\* The types, and that no more than n processes ever join.
TypeOK ==
  /\ Party \in Numberings
  /\ session \in
       [open : BOOLEAN, t : Nat, n : Nat, joined : SUBSET Clients,
        transaction : Clients \cup {None},
        posted : [Rounds -> SUBSET Clients]]
  /\ Cardinality(session.joined) <= session.n
  /\ client \in [Clients ->
       [pc : Places, leads : BOOLEAN, transaction : Clients \cup {None},
        t : Nat, heard : SUBSET Clients]]
  /\ faults \in 0 .. MaxFaults

\* Whoever is started twice, killed or left waiting: a commitment is used in
\* signatures of one transaction only, and by the same signers, who are one
\* process for each holder of the key.
OneSignaturePerCommitment ==
  \A c \in Clients : client[c].pc \in Signed =>
    /\ PartiesOf(Signers(c)) = Holders
    /\ \A d \in Clients :
         /\ client[d].pc \in Signed
         /\ Signers(d) \cap Signers(c) # {}
         => /\ Signers(d) = Signers(c)
            /\ client[d].transaction = client[c].transaction

Trouble == faults > 0

\* A session as it is meant to be: of all holders, each started once, one of
\* them as the initiator, and asked for with the number of them.
Regular ==
  /\ ~Trouble
  /\ session.t = Cardinality(Holders) /\ session.n = session.t
  /\ Cardinality(session.joined) = session.n
  /\ PartiesOf(session.joined) = Holders
  /\ Cardinality({c \in session.joined : client[c].leads}) = 1

\* In such a session no member is turned away or left without a signature,
\* except one who asks for the transaction before it is broadcast.
NobodyFails ==
  Regular => \A c \in session.joined : client[c].pc \notin {"failed", "unsigned"}

\* ... and once all of its members have the transaction, each of them computes
\* a signature, unless something is lost, killed or restarted.
EveryoneSigns ==
  Regular /\ (\A c \in session.joined : client[c].transaction # None)
    ~> Trouble \/ \A c \in session.joined : client[c].pc \in Signed
=============================================================================
