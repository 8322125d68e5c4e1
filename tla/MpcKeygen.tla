----------------------------- MODULE MpcKeygen -----------------------------
(***************************************************************************)
(* Threshold-key generation: the sessions of the MPC server                *)
(* (external-apis/mpc_api/main.go) and the clients that generate a key     *)
(* through them (client.go).  A request is answered in one step: a handler *)
(* looks a session up under one lock and works on it under its own, and    *)
(* the lookup commutes with what others do to that session.  Only the      *)
(* initiation of a session chooses a name under a lock that it has given   *)
(* up when it stores the session.                                          *)
(*                                                                         *)
(* The cryptography (frost-ed25519, vendored) is abstracted to which       *)
(* messages it accepts: from each other party exactly one commitment, and  *)
(* then exactly one share that fits it.                                    *)
(***************************************************************************)
EXTENDS Integers, FiniteSets

CONSTANTS
  Initiators,  \* the requests that initiate a session, one session each
  Clients,     \* the processes that join one
  Nobody,      \* no session
  Shapes,      \* the pairs <<t, n>> that are asked for
  MaxFaults,   \* bound on lost requests and responses, and on killed clients
  MaxRestarts  \* bound on restarts of the server

ASSUME KeygenAssumption ==
  /\ IsFiniteSet(Initiators) /\ IsFiniteSet(Clients)
  /\ Nobody \notin Initiators
  /\ Shapes \subseteq (Nat \ {0}) \X (Nat \ {0})
  /\ \A shape \in Shapes : shape[1] <= shape[2]
  /\ MaxFaults \in Nat /\ MaxRestarts \in Nat

Names == 1 .. Cardinality(Initiators)        \* "session-%d"

VARIABLES
  sessions,   \* the server's map: name -> the session stored under it
  session,    \* initiator -> the Session it made: t, n, joined, messages
  initiator,  \* initiator -> pc, name
  client,     \* client -> pc, and what it knows
  faults,     \* the number of lost requests and responses and killed clients
  restarts,   \* the number of restarts
  stored      \* history: name -> how many sessions have been stored under it

vars == <<sessions, session, initiator, client, faults, restarts, stored>>

\* Where a client can be: polling the status ("joined"), about to post its
\* commitment, polling for those of the others, the same with shares, and at
\* an end: with a key, with an error, or waiting for a message not to come.
Rounds == {"commit", "committed", "share", "shared", "done", "hung"}
Places == Rounds \cup {"idle", "joined", "failed"}
-----------------------------------------------------------------------------
Init ==
  /\ sessions = [name \in Names |-> Nobody]
  /\ session = [i \in Initiators |-> [t |-> 0, n |-> 0, joined |-> 0, messages |-> {}]]
  /\ initiator = [i \in Initiators |-> [pc |-> "idle", name |-> 0]]
  /\ client = [c \in Clients |->
       [pc |-> "idle", home |-> Nobody, name |-> 0, id |-> 0, t |-> 0, n |-> 0,
        parties |-> {}, commitments |-> {}]]
  /\ faults = 0
  /\ restarts = 0
  /\ stored = [name \in Names |-> 0]

\* InitiateKeygen: the name, under the lock of the map, ...
InitName(i) ==
  /\ initiator[i].pc = "idle"
  /\ initiator' = [initiator EXCEPT ![i] =
       [pc |-> "named",
        name |-> Cardinality({name \in Names : sessions[name] # Nobody}) + 1]]
  /\ UNCHANGED <<sessions, session, client, faults, restarts, stored>>
\* ... and the session, under the same lock once more.
InitStore(i, shape) ==
  LET name == initiator[i].name IN
  /\ initiator[i].pc = "named"
  /\ sessions' = [sessions EXCEPT ![name] = i]
  /\ session' = [session EXCEPT ![i].t = shape[1], ![i].n = shape[2]]
  /\ initiator' = [initiator EXCEPT ![i].pc = "stored"]
  /\ stored' = [stored EXCEPT ![name] = @ + 1]
  /\ UNCHANGED <<client, faults, restarts>>

\* The session that a client's requests find, if any.
Found(c) == sessions[client[c].name]

Goto(c, place) == client' = [client EXCEPT ![c].pc = place]
Fault == faults < MaxFaults /\ faults' = faults + 1

\* JoinSession: while a place is left, the next of the numbers.
IsFullLate(s) == session[s].joined > session[s].n           \* a mistake
IsFull(s) == session[s].joined >= session[s].n
HasPlace(s) == s # Nobody /\ ~IsFull(s)
NextIdOfLast(s) ==                                          \* a mistake
  IF session[s].joined = 0 THEN 1 ELSE session[s].joined
NextId(s) == session[s].joined + 1

\* A client is started with the name that an initiator was given.  When the
\* response is lost, it exits and its place stays taken.
Join(c, i) ==
  LET name == initiator[i].name
      s    == sessions[name]
  IN
  /\ client[c].pc = "idle"
  /\ initiator[i].pc = "stored"
  /\ \/ /\ ~HasPlace(s)
        /\ Goto(c, "failed")
        /\ UNCHANGED <<session, faults>>
     \/ /\ HasPlace(s)
        /\ session' = [session EXCEPT ![s].joined = @ + 1]
        /\ \E place \in {"joined", "failed"} :
             /\ place = "failed" => Fault
             /\ place = "joined" => UNCHANGED faults
             /\ client' = [client EXCEPT ![c] =
                  [@ EXCEPT !.pc = place, !.home = s, !.name = name,
                            !.id = NextId(s), !.t = session[s].t, !.n = session[s].n]]
  /\ UNCHANGED <<sessions, initiator, restarts, stored>>

\* joinAndRetrieveSessionInfo, waiting for the others: it takes the size from
\* its own join and the parties from the status of what it finds by name.
AwaitParties(c) ==
  LET s == Found(c)
      parties == 1 .. session[s].n
  IN
  /\ client[c].pc = "joined"
  /\ \/ s = Nobody /\ Goto(c, "failed")
     \/ /\ s # Nobody /\ session[s].joined >= client[c].n
        /\ IF client[c].id \in parties /\ client[c].t < session[s].n
           THEN client' = [client EXCEPT ![c].pc = "commit", ![c].parties = parties]
           ELSE Goto(c, "failed")                           \* NewKeygenState
  /\ UNCHANGED <<sessions, session, initiator, faults, restarts, stored>>

\* submitMessages: a POST that is not answered, or answered with an error, is
\* not repeated, and the client goes on as if it had been.
Post(c, round, recipients, place) ==
  LET s == Found(c)
      messages == {[by |-> c, from |-> client[c].id, to |-> to, round |-> round]
                    : to \in recipients}
  IN
  /\ Goto(c, place)
  /\ \/ /\ s # Nobody
        /\ session' = [session EXCEPT ![s].messages = @ \cup messages]
        /\ UNCHANGED faults
     \/ s # Nobody /\ Fault /\ UNCHANGED session
     \/ s = Nobody /\ UNCHANGED <<session, faults>>
  /\ UNCHANGED <<sessions, initiator, restarts, stored>>

Others(c) == client[c].parties \ {client[c].id}
PostCommitment(c) == client[c].pc = "commit" /\ Post(c, 1, {0}, "committed")
PostShares(c) == client[c].pc = "share" /\ Post(c, 2, Others(c), "shared")

\* MessagesHandler: how many messages a round has when it is complete, ...
ExpectedOthers(s, round) ==                                 \* two mistakes
  IF round = 1 THEN session[s].n - 1 ELSE session[s].n * (session[s].n - 1)
ExpectedEveryPair(s, round) ==
  IF round = 1 THEN session[s].n ELSE session[s].n * session[s].n
Expected(s, round) ==
  IF round = 1 THEN session[s].n ELSE session[s].n * (session[s].n - 1)
Posted(s, round) == {m \in session[s].messages : m.round = round}
\* ... and those of them that c is given: to all, or to its number.
Delivered(s, c, round) == {m \in Posted(s, round) : m.to \in {0, client[c].id}}
Complete(s, round) == Cardinality(Posted(s, round)) >= Expected(s, round)

\* PartyRoutine ignores what comes from its own number, and ends the client
\* when a party is unknown or has sent twice, ...
Foreign(messages, c) == {m \in messages : m.from # client[c].id}
Rejected(messages, c) ==
  \/ \E m \in messages : m.from \notin client[c].parties
  \/ \E m, other \in messages : m # other /\ m.from = other.from
\* ... and has its result only with a message of every other party.
HeardOf(messages, c) == {m.from : m \in messages} = Others(c)

\* retrieveMessages and the routine, for the commitments: without a result
\* there are no shares to index, which ends the client as well.
CollectCommitments(c) ==
  LET s        == Found(c)
      messages == Foreign(Delivered(s, c, 1), c)
  IN
  /\ client[c].pc = "committed"
  /\ s # Nobody
  /\ Complete(s, 1)
  /\ IF ~Rejected(messages, c) /\ HeardOf(messages, c)
     THEN client' = [client EXCEPT ![c].pc = "share", ![c].commitments = messages]
     ELSE Goto(c, "failed")
  /\ UNCHANGED <<sessions, session, initiator, faults, restarts, stored>>

\* The same for the shares: each must fit the commitment of its sender, and
\* without a result the client waits for it (WaitForError).
CollectShares(c) ==
  LET s        == Found(c)
      messages == Foreign(Delivered(s, c, 2), c)
      Fits(m)  == \E k \in client[c].commitments : k.from = m.from /\ k.by = m.by
  IN
  /\ client[c].pc = "shared"
  /\ s # Nobody
  /\ Complete(s, 2)
  /\ Goto(c, IF Rejected(messages, c) THEN "failed"
             ELSE IF ~HeardOf(messages, c) THEN "hung"
             ELSE IF \A m \in messages : Fits(m) THEN "done"
             ELSE "failed")
  /\ UNCHANGED <<sessions, session, initiator, faults, restarts, stored>>

\* A client is killed, or a status request of it is lost, which ends it.
Die(c) ==
  /\ client[c].pc \in (Rounds \ {"done"}) \cup {"joined"}
  /\ Fault
  /\ Goto(c, "failed")
  /\ UNCHANGED <<sessions, session, initiator, restarts, stored>>

\* The server is started again: its sessions are in memory only.
Restart ==
  /\ restarts < MaxRestarts
  /\ restarts' = restarts + 1
  /\ sessions' = [name \in Names |-> Nobody]
  /\ initiator' = [i \in Initiators |->
       IF initiator[i].pc = "named" THEN [initiator[i] EXCEPT !.pc = "failed"]
                                    ELSE initiator[i]]
  /\ UNCHANGED <<session, client, faults, stored>>

\* What a client that has joined does by itself.
Proceed(c) ==
  \/ AwaitParties(c)
  \/ PostCommitment(c) \/ CollectCommitments(c)
  \/ PostShares(c) \/ CollectShares(c)

Next ==
  \/ \E i \in Initiators : InitName(i) \/ \E shape \in Shapes : InitStore(i, shape)
  \/ \E c \in Clients, i \in Initiators : Join(c, i)
  \/ \E c \in Clients : Proceed(c) \/ Die(c)
  \/ Restart

\* A client that waits polls every two seconds and never gives up.
Spec == Init /\ [][Next]_vars /\ \A c \in Clients : WF_vars(Proceed(c))
-----------------------------------------------------------------------------
Messages == [by : Clients, from : Nat, to : Nat, round : {1, 2}]

\* The types, and that JoinSession never indexes PartyIDs beyond its end.
TypeOK ==
  /\ sessions \in [Names -> Initiators \cup {Nobody}]
  /\ session \in [Initiators ->
       [t : Nat, n : Nat, joined : Nat, messages : SUBSET Messages]]
  /\ \A i \in Initiators : session[i].joined <= session[i].n
  /\ initiator \in [Initiators ->
       [pc : {"idle", "named", "stored", "failed"}, name : Names \cup {0}]]
  /\ client \in [Clients ->
       [pc : Places, home : Initiators \cup {Nobody}, name : Names \cup {0}, id : Nat,
        t : Nat, n : Nat, parties : SUBSET Nat, commitments : SUBSET Messages]]
  /\ faults \in 0 .. MaxFaults
  /\ restarts \in 0 .. MaxRestarts
  /\ stored \in [Names -> Nat]

Members(s) == {c \in Clients : client[c].home = s}
Reused(name) == stored[name] > 1
Trouble == faults > 0 \/ restarts > 0

\* What a client takes for granted when it starts the first round: that each
\* number of its session has been given to a client, and to one only.
SessionIsWhole(c) ==
  LET members == Members(client[c].home) IN
  /\ Cardinality(members) = client[c].n
  /\ {client[d].id : d \in members} = 1 .. client[c].n

\* "All parties have joined" (client.go:222): a client that starts the rounds
\* is in a session that is whole, under any loss, kill and restart, as long as
\* no other session has been stored under the same name (main.go:106-127 may
\* give two initiations one name, and a restart begins the names again).
WholeUnlessReused ==
  \A c \in Clients :
    client[c].pc \in Rounds /\ ~Reused(client[c].name) => SessionIsWhole(c)

\* The clients whose secrets are in the key that c is generating.
KeyHolders(c) == {c} \cup {m.by : m \in client[c].commitments}

\* All members of a session generate the same key, and it is the one of all
\* of them, whoever was lost, killed or late in between.
OneKeyPerSession ==
  \A c \in Clients :
    /\ client[c].pc \in {"share", "shared", "done", "hung"}
    /\ ~Reused(client[c].name)
    => KeyHolders(c) = Members(client[c].home)

\* Without a fault, the protocol never turns a member away: the rounds are
\* complete exactly when everybody can go on with them.
NobodyFails ==
  \A c \in Clients :
    /\ client[c].home # Nobody
    /\ ~Reused(client[c].name) /\ ~Trouble
    /\ client[c].t < client[c].n
    => client[c].pc \notin {"failed", "hung"}

\* A session that has filled up ends with a key for every member, unless
\* something is lost, killed or restarted, or its name is used again.
EveryoneFinishes ==
  \A i \in Initiators :
    session[i].n > session[i].t /\ session[i].joined = session[i].n
      ~> \/ \A c \in Members(i) : client[c].pc = "done"
         \/ Trouble
         \/ Reused(initiator[i].name)
=============================================================================
