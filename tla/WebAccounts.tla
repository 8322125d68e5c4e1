---------------------------- MODULE WebAccounts ----------------------------
(****************************************************************************)
(* What the web page (quid.io) knows of the pool and of its depositors: the *)
(* providers of React that fetch it (DepositoryProvider, DepositorProvider) *)
(* and the refetch at the end of every submission (Mint).                   *)
(*                                                                          *)
(* The page runs in one thread.  A step is one event (a wallet, a click, an *)
(* answer) or one commit of React, which runs the effects that are due,     *)
(* children first.  A handler sees the state of the render it was made in:  *)
(* what it captures is a field of the request it makes.  The chain and the  *)
(* wallet are outside; an account is told by its version.                   *)
(****************************************************************************)
EXTENDS Integers, Sequences, FiniteSets

CONSTANTS
  Wallets,      \* the wallets of the visitors, which are owners of accounts
  None,
  MaxVersion,   \* bound on the versions of an account; 0 is none
  MaxAll,       \* bound on requests for all accounts at a time; the page makes
                \* more of them, all alike
  MaxConnects,  \* bound on connections of a wallet
  MaxClicks,    \* bound on submissions
  MaxFaults     \* bound on requests that fail

ASSUME AccountsAssumption ==
  /\ None \notin Wallets
  /\ IsFiniteSet(Wallets)
  /\ {MaxVersion, MaxAll, MaxConnects, MaxClicks, MaxFaults} \subseteq Nat

VARIABLES
  chain,       \* owner -> version of the account on the chain
  wallet,      \* the wallet that is connected
  program,     \* whether DepositoryProvider has built its program
  pool,        \* DepositoryProvider: the account of the pool
  own,         \* DepositorProvider: the visitor's account
  list,        \* allDepositorAccounts
  error,       \* the errors of the two providers
  due,         \* the providers whose effects are to be run
  requests,    \* what is in flight
  open,        \* the submissions that have not ended, and what they captured
  count        \* connections, clicks and faults so far

vars == <<chain, wallet, program, pool, own, list, error, due, requests, open, count>>

Entries == [owner : Wallets, version : 1 .. MaxVersion]
Lists == Seq(Entries)
OnePerOwner(accounts) ==
  \A i, j \in DOMAIN accounts : accounts[i].owner = accounts[j].owner => i = j

Kinds == {"all", "own", "pool", "refetch"}
Requests ==
  [kind : Kinds, n : Nat, of : Wallets \cup {None}, base : Lists,
   answer : {None} \cup Lists]
Request(kind, n, of, base) ==
  [kind |-> kind, n |-> n, of |-> of, base |-> base, answer |-> None]
-----------------------------------------------------------------------------
Init ==
  /\ chain \in [Wallets -> 0 .. (IF MaxVersion = 0 THEN 0 ELSE 1)]
  /\ wallet = None
  /\ program = FALSE
  /\ pool = [pda |-> FALSE, loaded |-> FALSE]
  /\ own = [pda |-> None, depositor |-> <<>>]
  /\ list = <<>>
  /\ error = [depositor |-> "", depository |-> ""]
  /\ due = {}
  /\ requests = {}
  /\ open = {}
  /\ count = [connects |-> 0, clicks |-> 0, faults |-> 0]

Providers == {"depositor", "depository"}

\* useWallet: a wallet connects or disconnects, and all providers render.
Connect(w) ==
  /\ wallet = None
  /\ count.connects < MaxConnects
  /\ count' = [count EXCEPT !.connects = @ + 1]
  /\ wallet' = w
  /\ due' = Providers
  /\ UNCHANGED <<chain, program, pool, own, list, error, requests, open>>

Disconnect ==
  /\ wallet # None
  /\ wallet' = None
  /\ due' = Providers
  /\ UNCHANGED <<chain, program, pool, own, list, error, requests, open, count>>

\* The effect of DepositorProvider, which runs after each of its renders, for
\* fetchAllDepositorAccounts is another function in each of them.
Ready == wallet # None /\ program
LeastFree == {n \in 1 .. MaxAll :
                /\ \A r \in requests : r.kind = "all" => r.n # n
                /\ \A m \in 1 .. n - 1 : \E r \in requests : r.kind = "all" /\ r.n = m}
WantsAllAlways == Ready                                          \* a mistake
WantsAll == Ready /\ list = <<>>
WantsOwnKnown == Ready /\ own.pda # None                          \* a mistake
WantsOwn == Ready /\ own.pda = None
DepositorEffect ==
  IF "depositor" \notin due THEN {}
  ELSE (IF WantsAll THEN {Request("all", n, None, <<>>) : n \in LeastFree} ELSE {})
         \cup (IF WantsOwn THEN {Request("own", 0, wallet, <<>>)} ELSE {})

\* The effect of DepositoryProvider.  It asks for the pool by the program of
\* its render: there is none yet at the first connection.
AsksForPool == program
DepositoryEffect ==
  IF "depository" \in due /\ wallet # None /\ ~pool.pda /\ AsksForPool
  THEN {Request("pool", 0, None, <<>>)} ELSE {}

\* A commit, with the renders that its effects bring about.
Commit ==
  LET connecting == "depository" \in due /\ wallet # None
      leaving    == "depository" \in due /\ wallet = None
      asksOwn    == "depositor" \in due /\ WantsOwn
  IN
  /\ due # {}
  /\ requests' = requests \cup DepositorEffect \cup DepositoryEffect
  /\ own' = IF asksOwn THEN [own EXCEPT !.pda = wallet] ELSE own
  /\ program' = (program \/ connecting)
  /\ pool' = IF leaving THEN [pda |-> FALSE, loaded |-> FALSE]
             ELSE IF connecting THEN [pool EXCEPT !.pda = TRUE] ELSE pool
  /\ error' = IF leaving THEN [error EXCEPT !.depository = ""] ELSE error
  /\ due' = IF program' # program \/ pool'.pda # pool.pda THEN Providers
            ELSE IF asksOwn \/ error' # error THEN {"depositor"} ELSE {}
  /\ UNCHANGED <<chain, wallet, list, open, count>>

\* A submission captures the accounts and the wallet of the render it is
\* clicked in, and refetches by them when it has ended, sent or not.
Click ==
  /\ Ready
  /\ count.clicks < MaxClicks
  /\ count' = [count EXCEPT !.clicks = @ + 1]
  /\ open' = open \cup {[n |-> count.clicks + 1, of |-> wallet, base |-> list]}
  /\ UNCHANGED <<chain, wallet, program, pool, own, list, error, due, requests>>

Finish(s) ==
  /\ open' = open \ {s}
  /\ requests' = requests \cup {Request("refetch", s.n, s.of, s.base)}
  /\ UNCHANGED <<chain, wallet, program, pool, own, list, error, due, count>>

\* An account is made, or its balances change, by this page or elsewhere.
Change(w) ==
  /\ chain[w] < MaxVersion
  /\ chain' = [chain EXCEPT ![w] = @ + 1]
  /\ UNCHANGED <<wallet, program, pool, own, list, error, due, requests, open, count>>

\* The node reads the accounts that a request is for, in any order.
Asked(r) == CASE r.kind = "all" -> Wallets [] r.kind = "pool" -> {} [] OTHER -> {r.of}
Found(r) == {e \in Entries : e.owner \in Asked(r) /\ e.version = chain[e.owner]}
Answers(r) ==
  {accounts \in UNION {[1 .. n -> Found(r)] : n \in 0 .. Cardinality(Wallets)} :
     OnePerOwner(accounts) /\ \A e \in Found(r) : \E i \in DOMAIN accounts : accounts[i] = e}
Answer(r) ==
  /\ r.answer = None
  /\ \E accounts \in Answers(r) :
       requests' = (requests \ {r}) \cup {[r EXCEPT !.answer = accounts]}
  /\ UNCHANGED <<chain, wallet, program, pool, own, list, error, due, open, count>>

\* refetchDepositorAccount: an account that is in the captured list is
\* replaced in it; another is shown as the visitor's and put after the others,
\* unless it has no position, of which the logging fails before that.
Replaced(base, e) ==
  [i \in DOMAIN base |-> IF base[i].owner = e.owner THEN e ELSE base[i]]
WithAccountTwice(r) == Append(list, r.answer[1])                 \* a mistake
WithAccount(r) == Append(r.base, r.answer[1])
Refetched(r) ==
  IF r.answer = <<>> THEN UNCHANGED <<own, list, due>>
  ELSE /\ IF \E i \in DOMAIN r.base : r.base[i].owner = r.of
          THEN list' = Replaced(r.base, r.answer[1]) /\ UNCHANGED own
          ELSE /\ own' = [own EXCEPT !.depositor = r.answer]
               /\ list' \in {list, WithAccount(r)}
       /\ due' = due \cup {"depositor"}

\* An answer arrives.
Land(r) ==
  /\ r.answer # None
  /\ requests' = requests \ {r}
  /\ \/ /\ r.kind = "all"
        /\ list' = r.answer
        /\ error' = [error EXCEPT !.depositor = ""]
        /\ due' = due \cup {"depositor"}
        /\ UNCHANGED <<own, pool>>
     \/ /\ r.kind = "own"
        /\ own' = [own EXCEPT !.depositor = r.answer]
        /\ error' = [error EXCEPT !.depositor = ""]
        /\ due' = due \cup {"depositor"}
        /\ UNCHANGED <<list, pool>>
     \/ /\ r.kind = "pool"
        /\ pool' = [pool EXCEPT !.loaded = TRUE]
        /\ due' = due \cup {"depositor"}
        /\ UNCHANGED <<own, list, error>>
     \/ r.kind = "refetch" /\ Refetched(r) /\ UNCHANGED <<pool, error>>
  /\ UNCHANGED <<chain, wallet, program, open, count>>

\* A request fails.  An error renders its provider when it is another one, and
\* the refetch only logs its own.
Fail(r) ==
  /\ r.answer = None
  /\ count.faults < MaxFaults
  /\ count' = [count EXCEPT !.faults = @ + 1]
  /\ requests' = requests \ {r}
  /\ error' = CASE r.kind \in {"all", "own"} -> [error EXCEPT !.depositor = r.kind]
                [] r.kind = "pool"           -> [error EXCEPT !.depository = r.kind]
                [] OTHER                     -> error
  /\ due' = IF error' # error THEN due \cup {"depositor"} ELSE due
  /\ UNCHANGED <<chain, wallet, program, pool, own, list, open>>

\* What happens without a visitor.
Progress == Commit \/ \E r \in requests : Answer(r) \/ Land(r)

Next ==
  \/ Disconnect \/ Click \/ Progress
  \/ \E w \in Wallets : Connect(w) \/ Change(w)
  \/ \E s \in open : Finish(s)
  \/ \E r \in requests : Fail(r)

\* React commits what it has rendered, and a request that does not fail is
\* answered.  No visitor has to do anything, and a wallet need not answer.
Spec ==
  /\ Init /\ [][Next]_vars
  /\ WF_vars(Commit)
  /\ \A kind \in Kinds :
       WF_vars(\E r \in requests : r.kind = kind /\ (Answer(r) \/ Land(r)))
-----------------------------------------------------------------------------
TypeOK ==
  /\ chain \in [Wallets -> 0 .. MaxVersion]
  /\ wallet \in Wallets \cup {None}
  /\ program \in BOOLEAN
  /\ pool \in [pda : BOOLEAN, loaded : BOOLEAN]
  /\ own \in [pda : Wallets \cup {None}, depositor : Lists]
  /\ list \in Lists
  /\ due \subseteq Providers
  /\ count \in [connects : Nat, clicks : Nat, faults : Nat]
  /\ requests \subseteq Requests
  /\ open \subseteq [n : Nat, of : Wallets, base : Lists]

\* Whatever order answers arrive in, no account is in the list twice, so that
\* nothing computed from it (AppContext.getTotals) would count anybody twice.
OneEntryPerOwner == OnePerOwner(list)

\* Every render asks for all accounts again while the list is empty.  Once
\* anybody has an account, that comes to an end.
RequestsDryUp ==
  <>(\E w \in Wallets : chain[w] > 0)
    => <>[](\A r \in requests : r.kind \notin {"all", "own"})

Trouble == count.faults > 0

\* Who connects to a page nobody has used yet, and has an account, gets to
\* see it, though the effect that fetches it first runs without a program.
\* Who connects again after a disconnection that the page has seen gets the
\* account of the pool too.
AccountsLoad ==
  /\ \A w \in Wallets :
       wallet = w /\ own.pda = None /\ chain[w] > 0
         ~> \/ own.depositor # <<>> /\ own.depositor[1].owner = w
            \/ wallet # w \/ Trouble
  /\ wallet # None /\ program /\ ~pool.pda ~> pool.loaded \/ wallet = None \/ Trouble
=============================================================================
