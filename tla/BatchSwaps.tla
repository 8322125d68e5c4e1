----------------------------- MODULE BatchSwaps -----------------------------
(***************************************************************************)
(* The protected clearing of large swaps: Auxiliary.swap queues a trade    *)
(* through Router.pushSwap into the batch of a block, and the first call   *)
(* into Auxiliary of a later block clears the batch of the block in which  *)
(* the previous clearing took place.                                       *)
(*                                                                         *)
(* Amounts, prices and the sourcing of liquidity from other venues are     *)
(* abstracted to their one effect here: which directions of a batch the    *)
(* Router executes and pays out (Outcomes).  A transaction that reverts    *)
(* leaves no trace and is no step.                                         *)
(***************************************************************************)
EXTENDS Integers, Sequences, FiniteSets

CONSTANTS
  Trades,    \* the large trades, each submitted at most once
  Sells,     \* those that sell ETH (swapsOneForZero); the others buy it
  Cap,       \* 40 in the source: a block is full when it has more than Cap
  MaxBlock,  \* bound on block.number
  Outcomes   \* the sets of directions that a clearing may execute

Directions == {"forZero", "forOne"}
Direction(t) == IF t \in Sells THEN "forZero" ELSE "forOne"

\* A trade is queued at most one block further than there are trades.
Blocks == 0 .. MaxBlock + Cardinality(Trades)

ASSUME BatchAssumption ==
  /\ IsFiniteSet(Trades) /\ Sells \subseteq Trades
  /\ Cap \in Nat /\ MaxBlock \in Nat \ {0}
  /\ Outcomes \subseteq SUBSET Directions

VARIABLES
  block,      \* block.number
  lastBlock,  \* Auxiliary.lastBlock
  swaps,      \* Router: block -> the trades queued for it, both directions
  queued,     \* the block that swap returned for a trade, 0 before that
  settledAt,  \* the block in which a trade was paid out, 0 before that
  order       \* history: the trades in the order they were queued

swapVars == <<block, lastBlock, swaps, queued, settledAt, order>>
-----------------------------------------------------------------------------
SwapInit ==
  /\ block = 1
  /\ lastBlock = 0
  /\ swaps = [b \in Blocks |-> {}]
  /\ queued = [t \in Trades |-> 0]
  /\ settledAt = [t \in Trades |-> 0]
  /\ order = <<>>

NextBlock ==
  /\ block < MaxBlock
  /\ block' = block + 1
  /\ UNCHANGED <<lastBlock, swaps, queued, settledAt, order>>

\* The trades that t shares the places of block b with: both directions.
SameDirection(b, t) == {u \in swaps[b] : Direction(u) = Direction(t)} \* a mistake
Sharing(b, t) == swaps[b]

\* pushSwap: the first block from this one on that is not full.
IsPushBlock(b, t) ==
  /\ b >= block
  /\ Cardinality(Sharing(b, t)) <= Cap
  /\ \A earlier \in block .. b - 1 : Cardinality(Sharing(earlier, t)) > Cap

\* Two mistakes in the clearing below: to clear the block that is still being
\* filled, and to delete the batch when only part of it was executed.
NotYetIncludingNow == TRUE
DeletedWhole(batch, executed) == batch

\* _clearSwaps clears once per block, ...
NotYetThisBlock == lastBlock # block
\* ... and the trades it executes leave the batch: `delete` of a direction.
\* A direction that was sourced from other venues in full is not executed,
\* and a failed call executes none.
Executed(batch, executed) == {t \in batch : Direction(t) \in executed}
Deleted(batch, executed) == Executed(batch, executed)

\* _clearSwaps, when the queue is `current` at that point of the transaction.
ClearSwapsOf(current) ==
  \/ /\ ~NotYetThisBlock
     /\ swaps' = current
     /\ UNCHANGED <<lastBlock, settledAt>>
  \/ /\ NotYetThisBlock
     /\ \E executed \in Outcomes :
          LET batch == current[lastBlock] IN
          /\ swaps' = [current EXCEPT ![lastBlock] = @ \ Deleted(batch, executed)]
          /\ settledAt' = [t \in Trades |->
               IF t \in Executed(batch, executed) THEN block ELSE settledAt[t]]
     /\ lastBlock' = block

\* swap of at least $5,000: queue the trade, then clear.
Swap(t, waitable) ==
  /\ queued[t] = 0
  /\ \E b \in Blocks :
       /\ IsPushBlock(b, t)
       /\ waitable >= b - block            \* require(..., "time")
       /\ queued' = [queued EXCEPT ![t] = b]
       /\ ClearSwapsOf([swaps EXCEPT ![b] = @ \cup {t}])
  /\ order' = Append(order, t)
  /\ UNCHANGED block

\* clearSwaps, and the clearing that ends a small swap.
ClearSwaps ==
  /\ ClearSwapsOf(swaps)
  /\ UNCHANGED <<block, queued, order>>

SwapNext ==
  \/ NextBlock
  \/ \E t \in Trades, waitable \in 0 .. Cardinality(Trades) : Swap(t, waitable)
  \/ ClearSwaps

SwapSpec == SwapInit /\ [][SwapNext]_swapVars
-----------------------------------------------------------------------------
\* The types: nothing is cleared or paid in a block still to come.
SwapTypeOK ==
  /\ block \in 1 .. MaxBlock
  /\ lastBlock \in 0 .. block
  /\ swaps \in [Blocks -> SUBSET Trades]
  /\ queued \in [Trades -> Blocks]
  /\ settledAt \in [Trades -> 0 .. block]
  /\ order \in Seq(Trades)

\* A trade waits in the batch of the block it was promised and nowhere else,
\* until it is paid: clearing one direction, or a failed clearing, never
\* loses the trades it did not execute.
BookExact ==
  \A t \in Trades, b \in Blocks :
    t \in swaps[b] <=> queued[t] = b /\ b # 0 /\ settledAt[t] = 0

\* No trade executes in the block it was queued for, when others may still
\* join or be ordered around it ("no sandwiches, slower", Auxiliary.sol:195).
SettledLater ==
  \A t \in Trades : settledAt[t] # 0 => settledAt[t] > queued[t]

\* All trades of a block in one direction are paid by one clearing, so each
\* gets its share of the output of the whole batch and nobody joins later.
ClearsAtOnce ==
  \A t, u \in Trades :
    /\ queued[t] = queued[u] /\ queued[t] # 0
    /\ Direction(t) = Direction(u)
    => settledAt[t] = settledAt[u]

\* A trade is never queued for an earlier block than one submitted before it.
NoOvertaking ==
  \A i, j \in DOMAIN order : i < j => queued[order[i]] <= queued[order[j]]
=============================================================================
