# A verification project for IBO

IBO ("I Bet on One, with 2 virtual machines") is a dollar token with monthly
batches and a batched swap venue on Ethereum (`evm`), a leveraged exposure pool
on Solana (`svm`), a Go desktop wallet with its threshold-signature server
(`thuggable`) and a web page (`quid.io`).  This directory models the parts of it
that hold state of their own and can be wrong in ways a unit test hardly
reaches.  Every definition is a translation of the code (`PROJECT.json`, "map",
names the lines); `evm/lib` and the `vendor` directories are third-party code
and are modelled only where the system calls into them or inherits from them
(solmate's ERC6909 under the ledger, the frost library under the signatures).

## 1. Inventory

### Ethereum contracts (`src/evm/src`)

| component | state | operations | talks to |
|---|---|---|---|
| QD ledger, `Basket.sol` | balances per holder and batch (ERC6909), `perMonth` index, `totalBalances`, `totalSupplies`, `_totalSupply`, allowances | `mint`, `transfer`, `transferFrom`, `turn`, `approve`; inherited `transfer`/`transferFrom` per batch, `setOperator` | SortedSetLib; called by Auxiliary (`redeem`) and Router |
| reserves and votes, `Basket.sol` | `perVault`, `epochVoteWeights`, concentrations | `deposit`, `take`, `vote`, `_recomputeConcentrations` | ERC4626 vaults |
| batch index, `imports/SortedSet.sol` | ascending array with an `exists` map | `insert`, `remove`, `binarySearch`, `compactArray` | used by the ledger |
| clearing, `Auxiliary.sol` + `Router.sol` | `lastBlock`, `swaps[block]` in two directions | `swap`, `pushSwap`, `clearSwaps`, `batchSwap` | Uniswap v3/v4, AAVE |
| liquidity and leverage, `Auxiliary.sol` + `Router.sol` | pledges, self-managed positions, pooled liquidity | `leverOneForZero`, `leverZeroForOne`, `unwind*`, `deposit`, `withdraw`, `outOfRange`, `reclaim`, `repack` | Uniswap, AAVE |
| `BasketL2.sol` | as the ledger, other reserves | as the ledger | – |

Correctness: the books of the ledger agree, an index holds exactly the batches
that are held, only due batches are redeemed; a large swap waits in exactly one
batch, is cleared once, together with its batch, in order, and is never lost.

Hard: one transfer changes two indexes while it walks one of them; self-transfers;
boundaries of the bisection and of months; several transactions in a block that
each queue and clear; clearings that fail, or execute one direction only.

### Solana program (`src/svm/programs/quid/src`)

| component | state | operations | talks to |
|---|---|---|---|
| borrowing rate, `stay.rs`, `etc.rs` | `Depository`: deposits, drawn, profits paid, two averages, rate, last change, volatility flag | `reprice`, `utilisation`, `record_take_profit`, `compute_rate_raw` | every instruction |
| deposit shares, `lieb/entra.rs`, `out.rs`, `clutch.rs` | dollar-seconds and clocks of the pool and of each customer | `handle_in`, `handle_out`, `amortise`, `adjust_deposit_seconds` | the pool's token account |
| positions, `stay.rs` | `Depositor.balances`: pledge, exposure, clock | `repo`, `renege`, `amortise` | price feeds |
| battles, `lieb/inst.rs`, `case.rs`, `state.rs` | stakes, phases, aggregated signature | stake, open, finalise, settle | the desktop app |

Correctness: the rate stays in its band and moves towards its target, the curve
is monotone and defined; every dollar of the pool has an owner and what all may
withdraw is no more than there is; a position stays within its collar or is shrunk.

Hard: fixed-width arithmetic that aborts the instruction; damping over several
repricings within an instruction; clocks of two kinds that instructions reset in
different orders; sequences that leave one of them stale.

### Desktop app and signing service (`src/thuggable`)

| component | state | operations | talks to |
|---|---|---|---|
| key generation, `external-apis/mpc_api/main.go`, `client.go` | sessions by name: parties, messages of two rounds, done | `initName`, `initStore`, join, post and poll messages, status | HTTP clients of the parties |
| signing and battle signing, `main.go`, `sign_client.go`, `casa_battle.go` | signing sessions, three roles | create, join, rounds, broadcast | as above, both chains |
| conditional bot, rebalancing bot, `internal/ui` | conditions with a `Triggered` flag, a running flag | start, stop, check, execute | prices, both chains |
| liquidation monitor, `internal/quid/monitor.go` | running flag, tickers | `Start`, `Stop`, loop | the Solana program |
| transcription, `internal/transcription` | audio buffer, word channel | start, stop, recogniser callback | microphone, recogniser |
| wallet screens, chain clients, storage | user interface | request/response | external nodes |

Correctness: parties of a session are distinct and see the same set; nobody
finishes a round that is not complete, everybody does when all take part; a
condition fires at most once; a stopped loop stops.

Hard: goroutines and HTTP handlers in any order, state read under one lock and
used under the next, polling without end, errors that are ignored.

### Web front end (`src/quid.io`)

| component | state | operations | talks to |
|---|---|---|---|
| accounts, `DepositoryProvider`, `DepositorProvider` | the program, the pool's account, the visitor's, the list of all depositors, errors | effects that fetch, `refetchDepositorAccount` | wallet, Solana node |
| terminal, `Mint`, `Buttons`, `Modal` | amount, ticker, the last button, agreement to the terms | type, swipe, switch, submit | wallet, the Solana program |
| what it shows, `AppContext`, `PythPriceProvider`, `Header`, `App` | console, swipe flag, price, balance, totals, bar | effects, timers, `getWalletBalance`, `fetchInitialPrice` | price service, Solana node |
| `MintBar`, `DepositBar`, `NotificationProvider`, `Footer` | display only | – | – |

Correctness: nobody is listed twice; requests come to an end; what a visitor is
shown is loaded, and cleared, whatever the order of effects, timers and answers.

Hard: an effect that runs before its data exist and remembers that it has run;
handlers that capture the state of an old render; functions that are new in every
render and dependencies of effects; timers that nobody cancels; a retry that
happens only because an error renders something.

## 2. Modules

| module | what it is |
|---|---|
| `Basket` | the QD ledger: one action per entry point |
| `IndexSet` | what the ledger expects of its index: an abstract set |
| `SortedSet` | SortedSetLib; implements `IndexSet` (`INSTANCE ... WITH members <- ToSet(sortedArray)`) |
| `BatchSwaps` | queueing and clearing of large swaps over `Auxiliary` and `Router` |
| `InterestRate` | the pool's rate: the functions of `etc.rs` as operators, `reprice`, and one action per kind of instruction |
| `DepositShares` | dollar-seconds and clocks of the pool and its customers |
| `MpcKeygen` | key-generation sessions: the server's handlers and the clients that poll them |
| `TxSigning` | signing sessions of transactions: the server's handlers and the clients that sign (`sign_client.go`) |
| `Positions` | the leveraged positions of the pool: `repo`, `renege` and what the instructions book and transfer |
| `WebAccounts` | what the web page knows of the pool and its depositors: the two providers and the refetch of a submission |
| `WebTerminal` | the terminal of the web page and the effects, timers and requests around it |
| `InterestRateProofs`, `DepositSharesProofs`, `PositionsProofs`, `MpcKeygenProofs`, `TxSigningProofs` | the theorems about the module of that name |
| `EthereumProofs` | the theorems about the contracts: `Basket`, the index it keeps (`SortedSet`), and `BatchSwaps` |
| `WebProofs` | the theorems about the web page: `WebAccounts` and `WebTerminal` |
| `Sums` | lemmas on sums over functions, which three of the proof modules rest on |
| `MC...` | instances for TLC; each names its bounds in its header |

How they correspond to the code:

* **Basket.**  The variables carry the contract's names.  `TransferHelper` is
  `_transferHelper`: the loop over the batches is one step (a transaction), and
  its result is described rather than iterated: it empties all eligible batches
  above some `stop` and takes part of that one (`Drains`), either until `amount`
  is reached or until nothing eligible is left, exactly as the loop ends.  `Move`
  is the loop's body, over all batches at once; checked subtractions are guards.
  That this is what the loop does is not taken for granted: `Walk` is the loop itself,
  one `Turned` per batch of the array that `getSortedSet` returned before the first
  turn, from the position `MatureFrom` or the last one down, and `WalkAgrees` compares
  the two in every reachable state.
  `granular` is a history variable: whether one of the two inherited per-batch
  transfers has happened, which touch `balanceOf` only.
* **SortedSet.**  Slots count from 0; `remove` writes 0 and compacts in the same
  call.  The loops of `binarySearch` and `compactArray` are recursive functions, one turn
  of the loop per value.  `Basket` uses `IndexSet`'s `Add` and `Delete` as set operations; its
  invariant `NoDeletionMarker` is the assumption under which that is right.
* **BatchSwaps.**  `Swap` is `Auxiliary.swap` of at least $5,000: `pushSwap`
  chooses the block, the deadline is checked, and `_clearSwaps` runs in the same
  transaction, so the clearing sees the queue with the new trade.  `Outcomes`
  says which directions a clearing may execute; `{}` is a call that failed, whose
  result the code ignores, one direction is a batch whose other direction was
  filled elsewhere.
* **InterestRate.**  An instruction is one to three repricings with the pool's
  updates between them, in the order of the code (`Reposition`, `TakeProfit`,
  `Protect`, `Shrink`, `Save`, ...).  `Fits` is the arithmetic that must stay in
  its word; with overflow checks on, an instruction for which it does not is no step.
* **DepositShares.**  `Enter` is `handle_in`, `Withdraw`, `WithdrawPledges`,
  `Unpledge`, `Interest`, `TakeProfit` and `Protect` are the ways through
  `handle_out`, `Shrink` and `Save` are `amortise`.  Each writes the clocks the code
  writes, in the cases in which it does.  `earned` and `regular` are history.
* **MpcKeygen.**  A client's `pc` is where `client.go` is; `home` is the session it
  joined, `name` what it asks by.  A request is one step.  That is sound because a handler looks its
  session up under one lock and works on it under another, and the lookup commutes
  with everything others do to that session; `InitiateKeygen` is two steps, because it
  chooses a name under a lock it has given up when it stores the session.  `Post`
  may lose the request (`submitMessages` ignores it), `Join` may lose the response
  (the place stays taken), `Die` is a killed client or a lost status request,
  `Restart` empties the map.  `Rejected`, `HeardOf` and `Fits` are what the vendored frost
  library accepts.  `stored` is history: how many sessions a name has had.
* **TxSigning.**  One session and the processes that sign in it.  `Post` and `Get` are
  the requests of `sign_client.go`, every one of which ends the client when it fails:
  the server may have acted or not.  `Join`, `AwaitParties`, `Broadcast`,
  `FetchTransaction` and `Begin` are the steps of `performTransactionSigning` in their order;
  `PostRound`, `AwaitRound`, `Collect` and `Combine` are the loop of
  `performMPCSigning`, of which `Waits` names the waits.  A process is not its party: `Party` says
  for whom it is started, and two may be started for one holder.  The state of the frost
  library is what it has heard (`heard`): all of the other holders or not enough.
* **Positions.**  `Repo` is the set of results `repo` may return: `Long` and `Short`
  are its two halves, `Raise`, `Buy` and `Slice` the three answers to a position
  beyond its collar (the owner's deposits raise the pledge, or buy units; else a
  liquidator slices), `SellLong`, `BuyLong`, `CoverShort`, `SellShort` what a
  customer asks for inside it.  `Reneged` is `renege` over all positions, which sorts
  them and then reads the prices by the old indexes, as the code does.  An unsigned
  subtraction that would go below 0 is no step.  `Reposition` is `handle_out` with exposure,
  `Shrink` and `Save` the two ways through `amortise`.  Interest and slices are any
  number of units up to a bound, because they depend on the clock.  What a pledge or an unpledge on
  one ticker passes to `renege` is no price, so an exposed position is `Untouchable`.
* **WebAccounts.**  A step is an event or a commit of React, which runs the effects of
  the providers that have rendered (`due`), children first.  What a handler captured in
  the render it was made in is a field of the request (`base`, `of`).  The node reads
  when it answers (`Answer`) and the page hears it later (`Land`), so answers overtake
  one another.  `AsksForPool` is the `program?.` of the effect: the first connection
  remembers the address and asks for nothing.
* **WebTerminal.**  Again one step per event or commit.  `effects` are the components
  whose effects are still to be run; the visitor acts when there is none, timers, answers
  and the wallet at any time.  `Swipe` and the effect of `Mint` toggle one flag, as
  `setSwipe` does.  `Submit` is `terminalStarting` up to the wallet, with its early returns,
  `FinishSubmission` its `finally`.  `PriceAnswered` renders, and so asks again, only when an answer
  changes something.  `counts.repeated` is history: a request failed as the one before did.
  The build is taken to be the production build, in which effects run once.

## 3. Runs

| run | question | bounds |
|---|---|---|
| `basket` | does the loop do what a transfer is described to do; do the four books agree; is the index exact; is only what is due redeemed; newest batches first | 2 users, 3 months, 3 tokens, amounts up to 2 |
| `sorted_set` | does the array implement the set | values 1..8, all sequences of insert and remove |
| `batch_swaps` | one batch per trade, paid later, together, in order, whatever fails | 5 trades (3 + 2), 2 places per block, 4 blocks |
| `interest_rate` | band, no overshoot, monotone curve, words | 6 instructions, 12-bit fixed point |
| `rate_curve` (violation) | is the curve defined up to 100% utilisation | the same |
| `deposit_shares` | is every dollar owned; do shares fit in the regular case | 2 customers, 4 seconds, 6 instructions |
| `shares_covered` (violation) | do shares always fit | 5 instructions |
| `mpc_keygen` | whole sessions, one key, nobody turned away, everybody finishes | 2 initiations, 3 clients, (t, n) of (1,2), (1,3), (2,2), 1 fault, 1 restart |
| `tx_signing` | does a commitment serve one signature; does a session of all holders fail nobody and give each a signature | 3 processes of 2 or 3 holders, 1 fault or restart |
| `positions` | does the vault cover the books; does nobody gain what nobody paid in | 1 customer, 2 tickers, prices 1 and 2, 4 units, a vault of 6 dollars; a collar of 1/3, a cut of 1/4 |
| `web_accounts` | is nobody listed twice; do requests dry up; do the accounts load | 2 wallets, 2 connections, 1 submission, 1 fault, accounts that exist or not, 1 request for all of them at a time |
| `web_terminal` | does a ticker stay on its slide; do console, bar, price and balance follow the wallet | 2 connections, 1 submission, 2 faults, 2 price requests and 1 timer at a time |

Why these bounds are enough.  *Basket*: with three months a holder owns due and
not-due batches together, a transfer spans two batches and stops in the second,
both ends of a transfer may be one holder, and both approvals are used up or
unlimited.  *SortedSet*: arrays of up to eight slots have bisections of depth
three with every gap; all 256 sets are reached.  *BatchSwaps*: five trades over
two places overflow a block and the next, mix directions in them, let a trade of
the smaller direction come after an overflow of the other, and leave one
direction of a batch waiting.  *InterestRate*: scaling the fixed point keeps the curve, which
reads 7 bits of a ratio; six instructions reach both sides of every kink, both
signs of a damped change and utilisations above 100%.  *DepositShares*: two
customers are enough for a share to depend on somebody else's clock; six
instructions are two more than the longest counterexample found while modelling;
the amounts 2 and 5 do not divide one another, so that rounding shows; the customers
are symmetric, since no action, invariant or constant tells them apart.
*Positions*: a collar and a cut of the code's own size (1/10, 1/250) would round to
nothing in a small vault; with 1/3 and 1/4 both come to something, positions go beyond
the collar on either side, are raised, bought for, sliced and saved, and a second
ticker is there to be saved from.  One customer suffices: customers meet only in
the pool, and the vault and the pool are compared as sums.  *WebAccounts*: an answer and a
submission can overtake a second connection with another wallet, of which the
first may still be shown; requests for all accounts are
bounded because the page starts them without end, and two at a time, of which one
overtakes the other, take the run beyond its time.  For `OneEntryPerOwner` the bound does not matter, since
the theorem has none; `RequestsDryUp` and `AccountsLoad` are shown for one at a time only.
The visitor of `WebTerminal` acts when no effect is left to be run, because React
runs the effects of a click before it handles the next one.  *WebTerminal*: a reconnection
while a timer runs, a submission that ends after the disconnection, and a price
that fails twice, alike or not.

Deadlock is checked where the model never stops by itself (the ledger, the
index, the clearing).  It is off where a bound on the instructions stops the
model (`MaxCalls`), the pool may stop by its own arithmetic besides, clients of a
session may be done, and a page on which nothing is pending rests.

Every property of a passing run has a mutant: a plausible slip of the modelled
code, kept beside the original definition with the comment "a mistake", that
makes TLC find the property violated.

### What the violations say

* `CurveIsDefined`: the curve reads its ratios in 128ths and multiplies in `u16`.
  A withdrawal, which does not reprice, can bring the pool to a utilisation at
  which every repricing aborts.
* `ClaimsCovered`: a first deposit resets the pool's clock without accruing the
  pool's seconds; the shares of the customers then exceed the pool.  `SharesFit`
  shows the case in which they do not: nobody enters late, leaves or loses.

### What else the models show of the code

No run states these, because no document of the repository promises otherwise or
the properties above already work around them; each is a behaviour of the models.

* `_clearSwaps` clears the batch of `lastBlock` and then sets `lastBlock` to the
  current block: a trade moved on to a later block is skipped when nobody calls in
  that block, and stays queued (`BatchSwaps`).
* `InitiateKeygen` picks a name by the number of sessions, gives up the mutex, and
  stores the session later: two initiations can be given one name, and a client of the
  replaced session counts the parties of the other.  `WholeUnlessReused` excuses that.
* `Save` and a withdrawal over all pledges sort the positions before they read the prices,
  which are in the order from before (`stay.rs:501-507`): a position may be taken from at another's
  price.  `NothingPaidTwice` compares dollars and holds at any prices.
* `performMPCSigning` waits for the completion of round 3, for which it submits
  nothing: members of a session end polling with their signature computed.
  `EveryoneSigns` therefore asks for the signature and not for its return.  Nobody
  gets as far as `FinalizeTransaction` either, which would delete the session
  (`main.go:646-649`) and is no action of `TxSigning`.
* A partial take-profit of a long (`stay.rs:297-303`) pays the customer nothing: the
  dollars go from the pledge to the pool.
* A cut that nobody is paid, or interest that a branch of `repo` subtracts a second time,
  is booked to nobody and stays in the vault; therefore `NothingPaidTwice` is one-sided.
* At a first connection the page never fetches the pool's account: the effect remembers
  its address before there is a program to fetch it by (`DepositoryProvider.tsx:97-99`).
  `AccountsLoad` promises it to those who come back.
* The web page lists accounts from the render of the click: newer answers can be lost, and
  balance and own account stay those of the first visitor.
* A submission is reported as completed also after a rejection, and a second one can be
  made while the first is in flight, for the class that forbids it is never rendered
  (`Mint.jsx:207, 247-248`); agreeing to the terms clicks the last button, DEPOSIT,
  whichever was asked for (`Mint.jsx:82`).
* The premium for profits taken falls from 300 to 12 basis points where they pass 20 parts of the
  pool (`etc.rs:146-154`), under a comment that says "higher payouts INCREASE rates"; `MoreDrawnCostsMore`
  is about what is drawn, which leaves that ratio alone.
* The first dollars drawn from an undrawn pool, when they are less than four units of the fixed point,
  may lower the target by one basis point: the average rounds to what it was, and the ratio has come closer to it
  (`etc.rs:156-159`).  `Moves` excepts that from `MoreDrawnCostsMore`.
* A price that fails twice in the same way is not asked for again until something else
  runs the effect (`PythPriceProvider.tsx:61-63`).

## 4. Fairness

`MpcKeygen`, `TxSigning`, `WebAccounts` and `WebTerminal` have liveness properties.  The
fairness of the first two is weak fairness of `Proceed(c)` for every client: a client in a round posts its messages or polls
every two seconds and never gives up (`client.go:225-233, 264-298`).  No fairness is assumed of
initiators, of joining, of faults or of restarts: nobody has to start a client.
`EveryoneFinishes` therefore starts from a session that is full, and is excused by a fault,
a restart or a reuse of the name, each of which the code survives only by luck: a
client that dies after joining leaves the others polling for good.
`EveryoneSigns` is stated of a session whose members have all fetched the transaction
(`sign_client.go:357-371, 569-591` poll without end).

On the web page weak fairness of `Commit` and `CommitEffects` says that React runs the effects of what it
has rendered, of `HideBar` and `ClearConsole` that a timer runs out, and of the answers
that a request which does not fail is answered: in `WebAccounts` per kind of request,
in `WebTerminal` for the price and the balance.  Wallets and submissions (`Finish`, `FinishSubmission`)
need not go on, and a visitor need not do anything.  A failure is not retried by the page,
so the properties excuse it: `Trouble`, `counts.noBalance`, and for the price, which is asked
for again when an error renders its provider, only a repeated one.  `RequestsDryUp`
needs that somebody has an account: on an empty list every answer asks again.

The other modules state safety only; their actors need not act.

## 5. Theorems

All are proved for every value of the constants under the named assumptions of
the modules (`BasketAssumption`, `SortedSetAssumption`, `BatchAssumption`, `RateAssumption`,
`SharesAssumption`, `KeygenAssumption`, `SigningAssumption`, `AccountsAssumption`,
`TerminalAssumption`, `PositionsAssumption`), which TLC evaluates in the runs.  They say that bounds and prices are numbers,
that users, customers, initiations, and clients are finitely many, and what the source says of its
constants (a part of the pool is 1/128 of it, 0 is never stored in an index).

**Sums and loops.**  Ledger, pool and positions are compared with sums over holders, batches and
customers (`SumFunction`), and the index rests on two loops.  What a fold or a recursive
function computes is an induction over data, and the induction theorems of the
library take an operator, which no installed prover can instantiate.  These proofs descend
instead: were a lemma on sums false of a function, the subsets of its domain on which it is false would
have a least one (`LeastSubset`, because strict inclusion is well-founded on finite subsets), and one term
more or less decides that; the same for the shortest span that a bisection gets wrong and
the first slot that a compaction does (`LeastNat`).  `CHOOSE`, with which a recursive
function is defined, needs a solution to exist: `AddsUpExists`, and the closed forms
`Bisected` and `Kept`, provide it.

Proof modules that are about two components name the second one's specification after it
(`SwapSpec`, `TerminalSpec`), so that both can be extended by one module.

* **EthereumProofs, the ledger and its index.**  `Inv` is `TypeOK`, `NoDeletionMarker` and `IndexExact`
  together.  `IndexExact` needs the types (subtractions that stay in `Nat`) and
  speaks of both ends of a transfer in one step; a batch leaves an index exactly
  when the balance reaches 0.  `DrainsBound` says that the loop never takes more than
  there is, `TransferKeepsInv` does the move, `MintKeepsInv` the mint.  From
  `Inv` follow the action properties: the supply of a due batch never grows
  (`MaturedShrinks`), a redemption destroys due units only
  (`RedemptionsAreDue`), and batches leave newest first (`DrawsNewestFirst`).
  `BooksAlwaysAgree` states all four books: a transfer changes one term of the sum over the holders
  of a batch twice (`SumOfMoved`), also when both ends are one holder, and what it
  sends is the sum of what it takes (`SumOfSums`); a mint adds one term everywhere; an
  inherited transfer leaves the sums over holders alone.  For the index, `IndexInv` says that
  the array is ordered, of storable numbers and of the values present; then bisection
  returns the position that splits the array (`BinarySearchFinds`), inserting there and taking one slot out
  (`CompactDropsOne`) keep it so, and every step is one of `IndexSet` or a stutter
  (`ArrayIsTheIndex`).
* **EthereumProofs, the clearing.**  A swap queues and clears in one step, so the parts of
  the invariant (`Book`, `Later`, `AtOnce`, `Submitted`) are stated of a queue in the
  middle of the transaction and carried over the two halves in turn
  (`PushKeepsBook`, then the clearing).  `ClearsAtOnce` needs `Book`: the batch of a block
  not later than the last clearing is closed.  `NoOvertaking` needs `FullBefore`: the blocks between
  now and a queued trade are full, so nobody is put before it.
* **InterestRateProofs.**  The band is not inductive: half-way from 0 would be
  below 50.  `Banded` adds that a rate of 0 has never changed, so its first
  change cannot be a flip.  Everything is stated of accounts in the middle of an instruction
  (`Midway`), because instructions reprice several times.
  `MoreDrawnCostsMore` is proved part by part.  Where the curve is defined, the ratio is at most 96
  parts of 128 (`CurveEnds`, `PartsAre`), so both averages move as in quiet times (`Quiet`); the base rises
  (`UtilisationCurveRises`); and the volatility premium rises because an average follows a ratio by less than the
  ratio moves (`EmaRises`), so what is drawn lies no nearer to its average when more is (`DistanceRises`).
  Scaling and clamping keep the order (`ClampRises`, `TargetRises`).  The proof found two exceptions
  that TLC had not met on the run's constants and confirms on others.  A pool of which 512 times the deposits
  are drawn starts over in the curve, since `(util_q32 >> 25) as u16` does (`Unwrapped`); and in a pool of which nothing
  is drawn, a first draw of fewer than four units of the fixed point cancels the average's distance to 0 without moving
  the average, and lowers the target by a basis point (`Moves`; TLC shows it with `One` = 1024 and `Amounts` = {1, 100, 280}).
  On the run's constants neither exception excludes a state.
* **DepositSharesProofs.**  `TypeOK` is inductive; the lemmas say that products
  and quotients of dollar-seconds are naturals and that no withdrawal takes more
  off a record than is on it.  `Owned` compares the pool with its customers:
  `NothingUnowned` moves by one term in every instruction; `SharesFit` needs `Covered`, that
  deposits and dollar-seconds of all customers add up to no more than the pool's, because what a customer may
  withdraw is a quotient of the two, rounded down (`ShareSums`).
* **PositionsProofs.**  What an instruction books is decided by what `repo` returns, so
  the argument starts there: every result is `Fair` (`RepoFair`), branch by branch: deposits and pledge together do
  not grow, pledge and interest are no more than the pledge was and the delta, a slice comes out of the pledge, and
  what saves a position raises it by no more than the cut leaves.  `RenegedFair` says that
  taking dollars from all positions leaves pledges that are worth exactly what was not
  taken, less what was too small and dropped; sorting permutes a sum (`Descending` is a set of
  orders, of which the code's stable sort is the one), the deductions telescope from `dollars` to the remainder, and
  `Kept` drops terms of a sum.  Neither uses the prices, so both hold with the prices of the wrong positions too.
  Each action then has a lemma `...Honest`: its books keep their types, the vault gains at
  least what the books owe more (`Covered`), and no claim grows unless tokens came in (`Earned`).  `VaultCovers`
  is the invariant that follows, which a depositor reads: the vault is never short of the pool and the pledges.
* **MpcKeygenProofs.**  A session counts those who joined, and `WholeUnlessReused` is about who
  they are; `NumbersDiffer` and `NumbersGiven` tie the count to the clients, so a session that
  is full by its count has a member for every number.  `MessagesOfMembers` says that what is in
  such a session was posted by its members, under their numbers; a round that is complete by the
  number of its messages is then complete by its senders (`KeyOfMembers`), and a client that collects it finds
  nothing to reject (`AllFine`).  `Naming` is what makes all this hold under restarts
  and reused names: the history counts every session stored under a name, so a name that is not
  reused still leads to the session it led to.
* **TxSigningProofs.**  `OneSignaturePerCommitment` compares what two clients know
  at different times, so it is not inductive.  `IInv` says what no step takes back:
  from the moment a client has collected the commitments (`Settled`), its transaction
  and its signers are final, whoever has posted a partial signature has settled,
  and all signers of a signature have settled and agree with it (`SignersAgree`).
  Two signatures that share a signer then agree through that signer.
  `PartialsOfAllHeard` is the step at which the signature is computed: a partial
  signature of another process under the same number would not fit.  `OneClient`
  carries `IInv` over every other step of a client.  A restart of the server is
  harmless to it because it empties the session.  `NobodyFails` needs `FineInv`: as long as nothing
  was lost or restarted, a member of the session finds it open and its own posts in it
  (`Undisturbed`), and when all holders are members, a round that is complete by its count is
  complete (`RegularFine`); that nothing is amiss now means that nothing was before (`StillQuiet`).
* **WebProofs, the accounts.**  That a refetch appends nobody twice needs more than the list:
  every list that is still in flight, captured by an open submission or answered by the
  node, has one entry per owner (`RequestsSound`, `CapturedSound`), and what a refetch
  answers is the account of the wallet it captured.
* **WebProofs, the terminal.**  The flag of a swipe is toggled, not set, by two components.
  `SweepPending` says that while it is up the effect of `Mint` is still to be run,
  so a swipe, which the visitor makes on a page whose effects have run, finds it down; `CarriedOver` that a ticker is off its slide only while it is
  up; `ButtonOfSlide` that the switch of the ticker is shown on the slide of the
  withdrawal only, although the last button and the slide are kept in two places.

Every action property, the refinement and every invariant that a passing run checks, but one, is
proved.  Model-checked only are `WalkAgrees`, because what a fold over the turns of a loop
computes is an induction over data, and the liveness properties (`EveryoneFinishes`, `EveryoneSigns`, `RequestsDryUp`,
`AccountsLoad`, `ConsoleClears`, `BarFollows`, `PriceLoads` and `BalanceLoads`): they rest on fairness, hence on `ENABLED`.
Both are out of the prover's reach.

The types of `Basket`, `BatchSwaps`, `Positions` and of the two web models are proved and not checked by a run.

## 6. Not modelled, and why

Amounts and prices of swaps, leverage and liquidity provision (AMM arithmetic
against Uniswap and AAVE, whose code is not in the repository's own sources);
gas; `BasketL2` (the same ledger functions); the battles of the Solana program, a
sequence of stake, opening, judgement and settlement whose hard part, three signatures of one result,
is decided in the battle-signing sessions (both are planned); `FinalizeTransaction` of the
signing service, which no client reaches; what the web page types, sends and displays; the screens of the desktop
app, network clients, storage; the cryptography of threshold signatures, of which the sessions use only when a round is complete.
`PROJECT.json` gives the reason for every part, and under "hazards" what each
part could get wrong, with a note where no property covers it yet.

## 7. Plan

In this order:

1. **BattleSigning** (one run): the battle sessions of `main.go`, in which each role
   creates its own.
2. **Battles**: stakes and phases of a battle account (`case.rs`, `inst.rs`), settled by what
   BattleSigning signs.
3. **BasketVote**: weights of one epoch shared by all stablecoins.
4. **ConditionalBot**, **LiquidationMonitor**: loops that stop and start, a trigger that
   is tested and set in goroutines; both in one run if the number of runs requires it.
5. Liveness of the rate under repeated repricing (does damping settle?), and of
   the clearing (a batch is cleared if somebody calls in every block).
