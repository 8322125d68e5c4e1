----------------------------- MODULE Positions -----------------------------
(***************************************************************************)
(* The leveraged positions of the Solana pool: what Depositor.repo and     *)
(* Depositor.renege (programs/quid/src/stay.rs) make of a position, and    *)
(* what handle_in, handle_out and amortise then book and transfer.  A      *)
(* position pledges dollars for units of a ticker (exposure, negative when *)
(* short) and is kept within a collar around what it pledges.              *)
(*                                                                         *)
(* An instruction that aborts, by an error or an unsigned subtraction, is  *)
(* no step.  Interest and the slice a liquidation takes depend on the      *)
(* clock: any small number of units.  The share of a withdrawal is what    *)
(* DepositShares is about: any value here.                                 *)
(***************************************************************************)
EXTENDS Integers, Sequences, FiniteSets, Functions

CONSTANTS
  Customers,
  Tickers,
  Amounts,      \* of dollars that are deposited, pledged or withdrawn
  Units,        \* that a reposition asks to add or to take off
  Collar,       \* a position may differ by one part in Collar (10)
  Cut,          \* a liquidator gets one part in Cut (250)
  Dust,         \* a position with no more pledged is dropped (10 dollars)
  MaxPrice,     \* bound on prices
  MaxVault,     \* bound on what the pool holds, and on a customer's deposits
  MaxUnits,     \* bound on the units of a position
  MaxInterest,  \* bound on the units accrued by one instruction
  MaxSlice      \* bound on the units one liquidation takes

ASSUME PositionsAssumption ==
  /\ IsFiniteSet(Customers)
  /\ Amounts \subseteq Nat \ {0} /\ Units \subseteq Nat \ {0}
  /\ {Collar, Cut, MaxPrice} \subseteq Nat \ {0}
  /\ {Dust, MaxVault, MaxUnits, MaxInterest, MaxSlice} \subseteq Nat

VARIABLES
  price,      \* ticker -> dollars for a unit, as the oracle has it
  deposited,  \* customer -> deposited_usd_star
  balances,   \* customer -> its positions, in the order of the account
  total,      \* Depository.total_deposits
  vault       \* the tokens in bank_token_account

vars == <<price, deposited, balances, total, vault>>

Size(x) == IF x < 0 THEN -x ELSE x
Lesser(x, y) == IF x < y THEN x ELSE y
WithCut(dollars) == dollars + dollars \div Cut
CutOff(dollars) == dollars - dollars \div Cut
High(pledged) == pledged + pledged \div Collar
Low(pledged) == pledged - pledged \div Collar

HasPosition(c, t) == \E i \in DOMAIN balances[c] : balances[c][i].ticker = t
At(c, t) == CHOOSE i \in DOMAIN balances[c] : balances[c][i].ticker = t
-----------------------------------------------------------------------------
(* repo: the results it may return for a position that pledges p, interest *)
(* deducted, and has x units, when its owner has dep dollars deposited: the *)
(* position, what is left of the deposits, delta and interest.             *)
Result(p, x, dep, delta, interest) ==
  [pledged |-> p, exposure |-> x, deposited |-> dep, delta |-> delta, interest |-> interest]

\* The owner's deposits raise what is pledged, or buy units, or nobody can but a
\* liquidator, who takes a slice of the position for so many dollars.
Raise(p, x, dep, need, i) ==
  {r \in {Result(p + CutOff(need), x, dep - need, need, i)} : dep >= need}
Buy(p, x, dep, need, at, i) ==
  {r \in {Result(p, x + CutOff(need) \div at, dep - need, need, i)} : dep >= need}
Slice(p, x, dep, need, at, amount, value, i) ==
  IF dep >= need \/ amount # 0 THEN {}
  ELSE {Result(p - s * at, IF x > 0 THEN x - s ELSE x + s, dep, -s * value, i) :
          s \in 0 .. Lesser(MaxSlice, Size(x))}

\* A long that is sold: what is beyond the pledge is taken from the pool; a part
\* of the pledge is returned as interest, with a delta of 0.
SellLong(p, x, dep, units, at, i) ==
  LET left    == IF x + units < 0 THEN 0 ELSE x + units
      dollars == (x - left) * at
      profit  == dollars - (p + i) IN
  IF dollars > p
  THEN {r \in {Result(0, left, dep, -profit, dollars)} : profit >= 0}
  ELSE {r \in {Result(p - dollars, left, dep, 0, dollars - i)} : dollars >= i}

BuyLong(p, x, dep, at, i) ==
  LET value == x * at
      over  == value - High(p) IN
  {IF over > 0
   THEN IF dep >= over THEN Result(p + over, x, dep - over, over, i)
        ELSE Result(p, x - (over \div at) \div at, dep, over, i)
   ELSE IF Low(p) > value THEN Result(p, x + (Low(p) - value) \div at, dep, 0, i)
   ELSE Result(p, x, dep, 0, i)}

Long(p, x, dep, units, at, i) ==
  LET value == x * at
      over  == WithCut(value - High(p))
      gap   == Low(p) - value - p \div Collar IN
  CASE value > High(p) ->
         Raise(p, x, dep, over, i) \cup Slice(p, x, dep, over, at, units, at, i)
    [] value <= High(p) /\ Low(p) > value /\ value > 0 ->
         IF gap < 0 THEN {}
         ELSE Buy(p, x, dep, WithCut(gap), at, i)
                \cup Slice(p, x, dep, WithCut(gap), at, units, at, i)
    [] OTHER ->
         IF units = 0 THEN {}
         ELSE IF units < 0 THEN SellLong(p, x, dep, units, at, i)
         ELSE BuyLong(p, x + units, dep, at, i)

\* A short that is bought back: the same part of the profit and of the pledge.
CoverShort(p, x, dep, units, at, i) ==
  LET value  == Size(x) * at
      bought == Lesser(units, Size(x))
      profit == ((p - value) * bought) \div value - i
      part   == (p * bought) \div value IN
  {r \in {Result(p - part, x + bought, dep, -profit, profit + part)} :
     p >= value /\ profit >= 0}

SellShort(p, x, dep, at, i) ==
  LET value == Size(x) * at
      need  == p - value IN
  IF need > 0 THEN {r \in {Result(p, x - need \div at, dep - need, need, i)} : dep >= need}
  ELSE IF value > High(p) THEN {Result(p, x + (value - High(p)) \div at, dep, 0, i)}
  ELSE {Result(p, x, dep, 0, i)}

Short(p, x, dep, units, at, i) ==
  LET value == Size(x) * at
      over  == WithCut(value - High(p))
      gap   == WithCut(Low(p) - value) IN
  CASE Low(p) >= value /\ value > 0 ->
         Buy(p, x, dep, gap, at, i) \cup Slice(p, x, dep, gap, at, units, 1, i)
    [] value > High(p) ->
         Raise(p, x, dep, over, i) \cup Slice(p, x, dep, over, at, units, 1, i)
    [] OTHER ->
         IF units = 0 THEN {Result(p, x, dep, 0, i)}
         ELSE IF units > 0 THEN CoverShort(p, x, dep, units, at, i)
         ELSE SellShort(p, x + units, dep, at, i)

\* Interest is deducted first, whatever happens then.
Repo(pod, dep, units, at) ==
  UNION {LET i == accrued * at IN
         {r \in IF pod.exposure > 0 \/ (pod.exposure = 0 /\ units > 0)
                THEN Long(pod.pledged - i, pod.exposure, dep, units, at, i)
                ELSE Short(pod.pledged - i, pod.exposure, dep, units, at, i) :
            i <= pod.pledged /\ r.pledged >= 0 /\ r.exposure \in -MaxUnits .. MaxUnits} :
         accrued \in IF pod.exposure = 0 THEN {0} ELSE 0 .. MaxInterest}
-----------------------------------------------------------------------------
\* renege on one ticker, where the callers pass no price: an exposed position
\* cannot be touched.  Whatever has too little pledged is dropped.
Kept(pods) ==
  LET kept[i \in 0 .. Len(pods)] ==
        IF i = 0 THEN <<>>
        ELSE IF pods[i].pledged > Dust THEN Append(kept[i - 1], pods[i])
        ELSE kept[i - 1]
  IN kept[Len(pods)]
Untouchable(c, t) == HasPosition(c, t) /\ balances[c][At(c, t)].exposure # 0
Adjusted(c, t, dollars) ==
  [balances[c] EXCEPT ![At(c, t)].pledged = @ + dollars]
Opened(c, t, dollars) ==
  Append(balances[c], [ticker |-> t, pledged |-> dollars, exposure |-> 0])

\* renege on all tickers: the positions by descending pledges, equal ones in the
\* order they were in, with the prices as they were fetched for the order before.
\* What can be taken from the i-th of them, and what remains to be taken after it.
Precedes(pods, i, j) ==
  pods[i].pledged > pods[j].pledged \/ (pods[i].pledged = pods[j].pledged /\ i < j)
Descending(pods) ==
  {order \in [DOMAIN pods -> DOMAIN pods] :
     \A i, j \in DOMAIN pods : i < j => Precedes(pods, order[i], order[j])}
PricesOf(pods) == [i \in DOMAIN pods |-> price[pods[i].ticker]]
Spare(pod, at) ==
  CASE pod.exposure > 0 -> High(pod.pledged) - pod.exposure * at
    [] pod.exposure < 0 -> Size(pod.exposure) * at - Low(pod.pledged)
    [] OTHER            -> pod.pledged
Remaining(pods, prices, dollars) ==
  LET left[i \in 0 .. Len(pods)] ==
        IF i = 0 THEN dollars
        ELSE IF left[i - 1] = 0 THEN 0
        ELSE left[i - 1] - Lesser(Spare(pods[i], prices[i]), left[i - 1])
  IN left
RenegedIn(order, pods, dollars) ==
  LET sorted == [i \in DOMAIN pods |-> pods[order[i]]]
      left   == Remaining(sorted, PricesOf(pods), dollars)
      taken  == [i \in DOMAIN sorted |-> left[i - 1] - left[i]]
      fits   == \A i \in DOMAIN sorted : left[i - 1] > 0 =>
                  Spare(sorted[i], PricesOf(pods)[i]) >= 0 /\ taken[i] <= sorted[i].pledged
  IN IF ~fits THEN {}
     ELSE {[pods |-> Kept([i \in DOMAIN sorted |-> [sorted[i] EXCEPT !.pledged = @ - taken[i]]]),
            remainder |-> left[Len(pods)]]}
Reneged(pods, dollars) ==
  UNION {RenegedIn(order, pods, dollars) : order \in Descending(pods)}

\* What an instruction books.
Book(c, pods, dep, dollars, tokens) ==
  /\ dep \in 0 .. MaxVault /\ total + dollars >= 0 /\ vault + tokens \in 0 .. MaxVault
  /\ balances' = [balances EXCEPT ![c] = pods]
  /\ deposited' = [deposited EXCEPT ![c] = dep]
  /\ total' = total + dollars
  /\ vault' = vault + tokens
  /\ UNCHANGED price

Init ==
  /\ price \in [Tickers -> 1 .. MaxPrice]
  /\ deposited = [c \in Customers |-> 0]
  /\ balances = [c \in Customers |-> <<>>]
  /\ total = 0
  /\ vault = 0

\* The oracle's price changes.
Trade(t, at) ==
  /\ at # price[t]
  /\ price' = [price EXCEPT ![t] = at]
  /\ UNCHANGED <<deposited, balances, total, vault>>

\* handle_in
Deposit(c, dollars) == Book(c, balances[c], deposited[c] + dollars, dollars, dollars)

Pledge(c, t, dollars) ==
  /\ ~Untouchable(c, t)
  /\ LET pods == IF HasPosition(c, t) THEN Adjusted(c, t, dollars) ELSE Opened(c, t, dollars)
     IN Book(c, Kept(pods), deposited[c], 0, dollars)

\* handle_out without a ticker: from the positions first if asked to, the rest
\* from the pool, up to the customer's share of it.
FromPool(c, pods, taken, remainder) ==
  \E value \in 0 .. remainder :
    Book(c, pods, deposited[c] - Lesser(deposited[c], value), -value, -(taken + value))

Withdraw(c, dollars) == FromPool(c, balances[c], 0, dollars)

WithdrawPledges(c, dollars) ==
  \E r \in Reneged(balances[c], dollars) :
    FromPool(c, r.pods, dollars - r.remainder, r.remainder)

\* handle_out on a ticker, without exposure
Unpledge(c, t, dollars) ==
  /\ HasPosition(c, t) /\ ~Untouchable(c, t)
  /\ balances[c][At(c, t)].pledged >= dollars
  /\ Book(c, Kept(Adjusted(c, t, -dollars)), deposited[c], 0, -dollars)

\* What repo makes of the positions of a customer.
After(c, t, r) ==
  [balances[c] EXCEPT ![At(c, t)] =
    [ticker |-> t, pledged |-> r.pledged, exposure |-> r.exposure]]
Repos(c, t, units) ==
  IF HasPosition(c, t) THEN Repo(balances[c][At(c, t)], deposited[c], units, price[t]) ELSE {}

\* handle_out with exposure: a negative delta is paid out of the pool, and
\* then the interest is what to transfer.
RetainedWithTransfer(r) == r.interest                            \* a mistake
Retained(r) == IF r.delta < 0 THEN 0 ELSE r.interest
Reposition(c, t, units) ==
  \E r \in Repos(c, t, units) :
    Book(c, After(c, t, r), r.deposited, Retained(r) - Size(r.delta),
         IF r.delta < 0 THEN -r.interest ELSE 0)

\* amortise: a liquidator has a position that is beyond its collar sliced, or
\* saved at the expense of its owner's other positions, or of the pool.
Shrink(c, t) ==
  \E r \in Repos(c, t, 0) :
    /\ r.delta < 0
    /\ Book(c, After(c, t, r), r.deposited, r.interest + CutOff(-r.delta), -(Size(r.delta) \div Cut))

CreditedWhole(r, s) == r.delta                                   \* a mistake
Credited(r, s) == r.delta - s.remainder
Save(c, t) ==
  \E r \in Repos(c, t, 0) :
    /\ r.delta > 0
    /\ \E s \in Reneged(After(c, t, r), r.delta) :
         Book(c, s.pods, r.deposited + Credited(r, s), r.interest - s.remainder,
              -(r.delta \div Cut))

Next ==
  \/ \E t \in Tickers, at \in 1 .. MaxPrice : Trade(t, at)
  \/ \E c \in Customers :
       \/ \E dollars \in Amounts :
            Deposit(c, dollars) \/ Withdraw(c, dollars) \/ WithdrawPledges(c, dollars)
       \/ \E t \in Tickers :
            \/ \E dollars \in Amounts : Pledge(c, t, dollars) \/ Unpledge(c, t, dollars)
            \/ \E units \in Units \cup {-u : u \in Units} : Reposition(c, t, units)
            \/ Shrink(c, t) \/ Save(c, t)

Spec == Init /\ [][Next]_vars
-----------------------------------------------------------------------------
Pods == [ticker : Tickers, pledged : Nat, exposure : -MaxUnits .. MaxUnits]
TypeOK ==
  /\ price \in [Tickers -> 1 .. MaxPrice]
  /\ deposited \in [Customers -> 0 .. MaxVault]
  /\ balances \in [Customers -> Seq(Pods)]
  /\ total \in Nat
  /\ vault \in 0 .. MaxVault

Pledges(pods) == SumFunction([i \in DOMAIN pods |-> pods[i].pledged])
Pledged(c) == Pledges(balances[c])
Owed == total + SumFunction([c \in Customers |-> Pledged(c)])

\* No instruction pays or books anything twice, interest included: the tokens
\* of the vault grow by at least what the books owe more, to the pool and to
\* the pledges, and shrink by no more than they owe less.  As there is neither
\* at first, the vault covers the books.
NothingPaidTwice == [][vault' - Owed' >= vault - Owed]_vars

\* Nobody is credited what was not taken from them: the deposits and pledges of
\* a customer grow only when tokens come in, also when a position is saved with
\* dollars that are taken from another and booked back.
Claims(c) == deposited[c] + Pledged(c)
NothingFromNothing ==
  [][\A c \in Customers : Claims(c)' > Claims(c) => vault' > vault]_vars
=============================================================================
