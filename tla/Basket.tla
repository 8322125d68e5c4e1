------------------------------- MODULE Basket -------------------------------
(***************************************************************************)
(* The QD ledger of evm/src/Basket.sol: a token whose balances are split   *)
(* into monthly batches.  A batch is minted for a month that has not come  *)
(* yet and may be redeemed once that month is reached.                     *)
(*                                                                         *)
(* perMonth[h] is the index of the batches that h holds.  The contract     *)
(* keeps it as a SortedSetLib.Set; module SortedSet shows that such a set  *)
(* is the ascending enumeration of an abstract set, which is what stands   *)
(* here.  The reserves behind the token (perVault, deposit, take) and the  *)
(* votes on them are not part of this module: no ledger update reads them. *)
(***************************************************************************)
EXTENDS Integers, FiniteSets, Functions, Sequences, SequencesExt

CONSTANTS
  Users,      \* accounts that sign transactions
  V4,         \* the Router: sending to it burns
  Zero,       \* address(0): sending to it redeems
  Unlimited,  \* type(uint).max, the allowance that is never reduced
  MaxBatch,   \* bound on the month of a batch and on the clock
  MaxSupply,  \* bound on the tokens in circulation
  MaxAmount,  \* bound on the amount one call names
  Delegations \* the pairs <<owner, spender>> that approvals are given to

Batches == 0 .. MaxBatch
Amounts == 1 .. MaxAmount
Holders == Users \cup {V4, Zero}

ASSUME BasketAssumption ==
  /\ IsFiniteSet(Users)
  /\ MaxBatch \in Nat /\ MaxSupply \in Nat /\ MaxAmount \in Nat
  /\ V4 # Zero /\ V4 \notin Users /\ Zero \notin Users
  /\ Unlimited \notin Nat
  /\ Delegations \subseteq Users \X Users

VARIABLES
  month,          \* currentMonth(), the chain's clock in batches
  balanceOf,      \* ERC6909: holder -> batch -> amount
  perMonth,       \* holder -> the batches indexed for it
  totalBalances,  \* holder -> amount over all of its batches
  totalSupplies,  \* batch -> amount in circulation
  totalSupply,    \* _totalSupply
  allowances,     \* _allowances: owner -> spender -> amount or Unlimited
  isOperator,     \* ERC6909: the pairs <<owner, operator>>
  granular        \* history: an inherited per-batch transfer has happened

vars == <<month, balanceOf, perMonth, totalBalances, totalSupplies,
          totalSupply, allowances, isOperator, granular>>
approvals == <<allowances, isOperator>>
-----------------------------------------------------------------------------
Larger(a, b) == IF a >= b THEN a ELSE b

\* Sending to the Router or to address(0) destroys the tokens.
Burning(to) == to \in {V4, Zero}

\* The batches a transfer may draw on: every indexed one, and for a
\* redemption (to address(0)) only those whose month has been reached.
AllBatches(batches) == batches               \* a mistake: no maturity check
MatureBatches(batches) == {m \in batches : m <= month}
Eligible(from, to) ==
  IF to = Zero THEN MatureBatches(perMonth[from]) ELSE perMonth[from]

\* A mistake in the loop below: to start from the oldest batch.
DrainsFromOldest(from, eligible) ==
  {[m \in Batches |-> IF m \in eligible /\ m < stop THEN balanceOf[from][m]
                      ELSE IF m \in eligible /\ m = stop
                           THEN (IF part <= balanceOf[from][m]
                                 THEN part ELSE balanceOf[from][m])
                           ELSE 0]
    : stop \in Batches, part \in 0 .. MaxAmount}

\* The loop of _transferHelper walks the eligible batches from the newest
\* one down: it empties every batch above some `stop` and takes part of it.
Drains(from, eligible) ==
  {[m \in Batches |-> IF m \in eligible /\ m > stop THEN balanceOf[from][m]
                      ELSE IF m \in eligible /\ m = stop
                           THEN (IF part <= balanceOf[from][m]
                                 THEN part ELSE balanceOf[from][m])
                           ELSE 0]
    : stop \in Batches, part \in 0 .. MaxAmount}

\* The books after d[m] units of every batch m have left `from` and reached
\* `to` or, when burning, nobody: what the holders have, ...
HeldAfter(from, to, d) ==
  [h \in Holders |-> [m \in Batches |->
     balanceOf[h][m] - (IF h = from THEN d[m] ELSE 0)
       + (IF h = to /\ ~Burning(to) THEN d[m] ELSE 0)]]

\* ... which of the moved batches leave the index of the sender, who has
\* left[m] units of batch m, ...
EmptiedOnAnyDraw(moved, left) == moved       \* a mistake
Emptied(moved, left) == {m \in moved : left[m] = 0}

\* ... what is indexed, and what circulates.
IndexedAfter(from, to, d) ==
  LET moved == {m \in Batches : d[m] > 0}
      left  == HeldAfter(from, to, d)[from] IN
  [h \in Holders |->
     (perMonth[h] \cup (IF h = to /\ ~Burning(to) THEN moved ELSE {}))
       \ (IF h = from THEN Emptied(moved, left) ELSE {})]
CirculatingAfter(to, d) ==
  [m \in Batches |-> totalSupplies[m] - (IF Burning(to) THEN d[m] ELSE 0)]

\* A draw of `sent` in all.  The conjuncts with >= are checked subtractions.
Move(from, to, d, sent) ==
  /\ totalBalances[from] >= sent
  /\ Burning(to) => totalSupply >= sent /\ \A m \in Batches : totalSupplies[m] >= d[m]
  /\ balanceOf' = HeldAfter(from, to, d)
  /\ perMonth' = IndexedAfter(from, to, d)
  /\ totalBalances' = [h \in Holders |->
       totalBalances[h] - (IF h = from THEN sent ELSE 0)
         + (IF h = to /\ ~Burning(to) THEN sent ELSE 0)]
  /\ totalSupplies' = CirculatingAfter(to, d)
  /\ totalSupply' = totalSupply - (IF Burning(to) THEN sent ELSE 0)

TransferHelper(from, to, amount) ==
  /\ perMonth[from] # {}                    \* batches.length - 1
  /\ \E d \in Drains(from, Eligible(from, to)), sent \in 0 .. amount :
       /\ sent = SumFunction(d)
       /\ \/ sent = amount
          \/ \A m \in Eligible(from, to) : d[m] = balanceOf[from][m]
       /\ Move(from, to, d, sent)
-----------------------------------------------------------------------------
(***************************************************************************)
(* The same loop turn by turn, as the code runs it: down a copy of the     *)
(* sender's index, while every turn changes the indexes of both ends.      *)
(***************************************************************************)

\* matureBatches: the position of the newest batch that is due in an ascending
\* array, 0 for the code's -1.
MatureFromBefore(batches) ==                 \* a mistake: < for <=
  Max({0} \cup {i \in DOMAIN batches : batches[i] < month})
MatureFrom(batches) == Max({0} \cup {i \in DOMAIN batches : batches[i] <= month})

\* One turn, on batch k.
Turned(w, from, to, k) ==
  LET amt     == Min({w.amount, w.balanceOf[from][k]})
      drawn   == [w.balanceOf EXCEPT ![from][k] = @ - amt]
      held    == IF Burning(to) THEN drawn ELSE [drawn EXCEPT ![to][k] = @ + amt]
      indexed == IF Burning(to) THEN w.perMonth
                                ELSE [w.perMonth EXCEPT ![to] = @ \cup {k}]
  IN
  IF amt = 0 THEN w
  ELSE [amount        |-> w.amount - amt,
        balanceOf     |-> held,
        perMonth      |-> IF held[from][k] = 0 THEN [indexed EXCEPT ![from] = @ \ {k}]
                                               ELSE indexed,
        totalSupplies |-> IF Burning(to) THEN [w.totalSupplies EXCEPT ![k] = @ - amt]
                                         ELSE w.totalSupplies]

\* All turns: `amount` of the result is what could not be taken.
Walk(from, to, amount) ==
  LET batches == SetToSortSeq(perMonth[from], <)
      i       == IF to = Zero THEN MatureFrom(batches) ELSE Len(batches)
  IN FoldLeft(LAMBDA w, k : Turned(w, from, to, k),
              [amount |-> amount, balanceOf |-> balanceOf,
               perMonth |-> perMonth, totalSupplies |-> totalSupplies],
              Reverse(SubSeq(batches, 1, i)))
-----------------------------------------------------------------------------
Init ==
  /\ month = 0
  /\ balanceOf = [h \in Holders |-> [m \in Batches |-> 0]]
  /\ perMonth = [h \in Holders |-> {}]
  /\ totalBalances = [h \in Holders |-> 0]
  /\ totalSupplies = [m \in Batches |-> 0]
  /\ totalSupply = 0
  /\ allowances = [u \in Users |-> [s \in Users |-> 0]]
  /\ isOperator = {}
  /\ granular = FALSE

\* block.timestamp crosses a multiple of 2420000 seconds after deployment.
NextMonth ==
  /\ month < MaxBatch
  /\ month' = month + 1
  /\ UNCHANGED <<balanceOf, perMonth, totalBalances, totalSupplies,
                 totalSupply, approvals, granular>>

\* The batch that mint(..., when) issues into: never one that is due.
MintMonthDue(when) == Larger(when, month)    \* a mistake: no + 1
MintMonth(when) == Larger(when, month + 1)

\* A mistake in Mint: the batch's supply is booked under the month asked for.
MintBooksRequested(pledge, amount, when) ==
  LET m == MintMonth(when) IN
  /\ m \in Batches
  /\ totalSupply + amount <= MaxSupply
  /\ totalSupply' = totalSupply + amount
  /\ totalSupplies' = [totalSupplies EXCEPT ![when] = @ + amount]
  /\ perMonth' = [perMonth EXCEPT ![pledge] = @ \cup {m}]
  /\ totalBalances' = [totalBalances EXCEPT ![pledge] = @ + amount]
  /\ balanceOf' = [balanceOf EXCEPT ![pledge][m] = @ + amount]
  /\ UNCHANGED <<month, approvals, granular>>

\* mint, by anyone against a stable token or by AUX against QD itself; the
\* amount already includes the yield.
Mint(pledge, amount, when) ==
  LET m == MintMonth(when) IN
  /\ m \in Batches
  /\ totalSupply + amount <= MaxSupply
  /\ totalSupply' = totalSupply + amount
  /\ totalSupplies' = [totalSupplies EXCEPT ![m] = @ + amount]
  /\ perMonth' = [perMonth EXCEPT ![pledge] = @ \cup {m}]
  /\ totalBalances' = [totalBalances EXCEPT ![pledge] = @ + amount]
  /\ balanceOf' = [balanceOf EXCEPT ![pledge][m] = @ + amount]
  /\ UNCHANGED <<month, approvals, granular>>

Transfer(from, to, amount) ==
  /\ TransferHelper(from, to, amount)
  /\ UNCHANGED <<month, approvals, granular>>

TransferFrom(sender, from, to, amount) ==
  /\ sender # from
  /\ \/ /\ <<from, sender>> \in isOperator
        /\ UNCHANGED allowances
     \/ /\ <<from, sender>> \notin isOperator
        /\ to # V4                          \* only V4 itself may
        /\ \/ /\ allowances[from][sender] = Unlimited
              /\ UNCHANGED allowances
           \/ /\ allowances[from][sender] # Unlimited
              /\ allowances[from][sender] >= amount
              /\ allowances' = [allowances EXCEPT ![from][sender] = @ - amount]
  /\ TransferHelper(from, to, amount)
  /\ UNCHANGED <<month, isOperator, granular>>

\* turn, the burn behind AUX.redeem: only matured batches of `from`.
Turn(from, amount) ==
  /\ TransferHelper(from, Zero, amount)
  /\ UNCHANGED <<month, approvals, granular>>

Approve(owner, spender, value) ==
  /\ allowances' = [allowances EXCEPT ![owner][spender] = value]
  /\ UNCHANGED <<month, balanceOf, perMonth, totalBalances, totalSupplies,
                 totalSupply, isOperator, granular>>

\* ERC6909.setOperator.
SetOperator(owner, operator, approved) ==
  /\ isOperator' = IF approved THEN isOperator \cup {<<owner, operator>>}
                               ELSE isOperator \ {<<owner, operator>>}
  /\ UNCHANGED <<month, balanceOf, perMonth, totalBalances, totalSupplies,
                 totalSupply, allowances, granular>>

\* ERC6909.transfer(receiver, id, amount) and transferFrom(..., id, amount),
\* inherited and not overridden: balanceOf moves and nothing else does.
GranularTransfer(from, to, m, amount) ==
  /\ balanceOf[from][m] >= amount
  /\ balanceOf' = [h \in Holders |-> [balanceOf[h] EXCEPT ![m] =
       @ - (IF h = from THEN amount ELSE 0) + (IF h = to THEN amount ELSE 0)]]
  /\ granular' = TRUE
  /\ UNCHANGED <<month, perMonth, totalBalances, totalSupplies, totalSupply,
                 approvals>>

\* The entry points of Basket.sol, and last the two it inherits.
Next ==
  \/ NextMonth
  \/ \E u \in Users, amount \in Amounts, when \in Batches : Mint(u, amount, when)
  \/ \E u \in Users, to \in Holders, amount \in Amounts : Transfer(u, to, amount)
  \/ \E s, u \in Users, to \in Holders, amount \in Amounts :
        TransferFrom(s, u, to, amount)
  \/ \E u \in Users, amount \in Amounts : Turn(u, amount)
  \/ \E p \in Delegations, value \in {0, MaxAmount, Unlimited} :
        Approve(p[1], p[2], value)
  \/ \E p \in Delegations, approved \in BOOLEAN : SetOperator(p[1], p[2], approved)
  \/ \E u \in Users, to \in Holders, m \in Batches, amount \in Amounts :
        GranularTransfer(u, to, m, amount)

Spec == Init /\ [][Next]_vars
-----------------------------------------------------------------------------
\* The types of the ledger: no balance or supply is ever negative, and every
\* index holds batch months.
TypeOK ==
  /\ month \in Batches
  /\ balanceOf \in [Holders -> [Batches -> Nat]]
  /\ perMonth \in [Holders -> SUBSET Batches]
  /\ totalBalances \in [Holders -> Nat]
  /\ totalSupplies \in [Batches -> Nat]
  /\ totalSupply \in Nat
  /\ allowances \in [Users -> [Users -> Nat \cup {Unlimited}]]
  /\ isOperator \in SUBSET (Users \X Users)
  /\ granular \in BOOLEAN

\* The four books of the ledger agree on what is in circulation, whatever
\* mix of mints, burns, batched and granular transfers has happened: by
\* batch over the holders, by batch, by holder, and in total.  And while no
\* inherited transfer has bypassed them, each holder's total is the sum of
\* its batches.
BooksAgree ==
  /\ \A m \in Batches :
        totalSupplies[m] = SumFunction([h \in Holders |-> balanceOf[h][m]])
  /\ totalSupply = SumFunction(totalSupplies)
  /\ totalSupply = SumFunction(totalBalances)
  /\ ~granular => \A h \in Holders : totalBalances[h] = SumFunction(balanceOf[h])

\* No index ever contains month 0, the value that SortedSetLib.compactArray
\* takes for a deleted entry.
NoDeletionMarker == \A h \in Holders : 0 \notin perMonth[h]

\* The loop of _transferHelper comes to the draw that TransferHelper describes,
\* in every book it writes, though it removes from and inserts into the very
\* indexes whose copy it walks: for partial draws, for redemptions of a holder
\* none of whose batches is due, and for transfers to oneself, whose turns must
\* cancel out batch by batch.
WalkAgrees ==
  \A from \in Users, to \in Holders, amount \in Amounts :
    perMonth[from] # {} =>
      LET w        == Walk(from, to, amount)
          eligible == Eligible(from, to) IN
      \E d \in Drains(from, eligible) :
        /\ SumFunction(d) = amount - w.amount
        /\ w.amount = 0 \/ \A m \in eligible : d[m] = balanceOf[from][m]
        /\ w.balanceOf = HeldAfter(from, to, d)
        /\ w.perMonth = IndexedAfter(from, to, d)
        /\ w.totalSupplies = CirculatingAfter(to, d)

\* What is due for redemption never grows within a month: a batch that has
\* matured only shrinks, so nothing minted now can be redeemed now.
MaturedOnlyShrinks ==
  [][\A m \in Batches : m <= month => totalSupplies'[m] <= totalSupplies[m]]_vars

\* A step that destroys units of a batch that has not matured is no
\* redemption (turn), however the redeemer's batches are spread.
RedeemsOnlyMature ==
  [][(\E m \in Batches : m > month /\ totalSupplies'[m] < totalSupplies[m])
       => \A u \in Users, amount \in Amounts : ~Turn(u, amount)]_vars

\* Batches leave a holder from the newest one down (the comment above
\* _transfer): one that loses units while a newer one keeps some is due, and
\* the newer one is not, which only a redemption brings about.
NewestFirst ==
  [][\A h \in Holders, m, n \in Batches :
        /\ ~granular'
        /\ m < n
        /\ balanceOf'[h][m] < balanceOf[h][m]
        /\ balanceOf'[h][n] > 0
        => m <= month /\ n > month]_vars

\* Through the entry points Basket.sol defines, the index of a holder is
\* exactly the set of batches it holds (what redemption and transfer walk),
\* self-transfers and transfers over several batches included.
IndexExact ==
  ~granular => \A h \in Holders, m \in Batches :
                  m \in perMonth[h] <=> balanceOf[h][m] > 0
=============================================================================
