---------------------------- MODULE InterestRate ----------------------------
(***************************************************************************)
(* The borrowing rate of the Solana pool: the Depository account and       *)
(* reprice (programs/quid/src/stay.rs), with the curve compute_rate_raw    *)
(* and the averages of etc.rs.  Every instruction that moves the pool      *)
(* reprices it, one to three times, and aborts when an arithmetic step     *)
(* leaves its word (overflow-checks are on in the program's Cargo.toml):   *)
(* an aborted instruction leaves no trace and is no step.                  *)
(*                                                                         *)
(* What the positions do to the pool is abstracted to the numbers that     *)
(* repo hands over: the change of what is drawn, the change of the         *)
(* deposits, and the interest.                                             *)
(***************************************************************************)
EXTENDS Integers

CONSTANTS
  One,         \* 1.0 in the pool's fixed point: 2^32 in the source
  Part,        \* what >> 25 divides a ratio by: 2^25 in the source
  Amounts,     \* the amounts of dollars that one instruction moves
  Interests,   \* the amounts of interest that one instruction collects
  MaxDeposits, \* bound on what the pool holds
  MaxPaid,     \* bound on the profits taken from it
  MaxCalls     \* bound on the number of instructions

ASSUME RateAssumption ==
  /\ One \in Nat \ {0} /\ Part \in Nat \ {0} /\ One = 128 * Part
  /\ Amounts \subseteq Nat \ {0} /\ Interests \subseteq Nat
  /\ MaxDeposits \in Nat /\ MaxPaid \in Nat /\ MaxCalls \in Nat

VARIABLES
  bank,        \* the Depository account
  exposed,     \* some position has been opened
  calls        \* the number of instructions so far

vars == <<bank, exposed, calls>>

MaxU16 == 65535
MaxI16 == 32767
U16 == 0 .. MaxU16
I16 == -MaxI16 - 1 .. MaxI16

Lowest == 50                                 \* the band of the rate, in bps
Highest == 5000
Band == Lowest .. Highest

Magnitude(x) == IF x < 0 THEN -x ELSE x
Smaller(x, y) == IF x <= y THEN x ELSE y
Larger(x, y) == IF x >= y THEN x ELSE y
-----------------------------------------------------------------------------
\* compute_rate_raw, part by part.  A part of the pool is 1/128 of it, which
\* the source takes for a percentage.
Parts(ratio) == (ratio \div Part) % 65536

BaseRateNoStep(p) ==                         \* a mistake: no 10% at the kink
  IF p < 80 THEN (p * 1000) \div 80 ELSE ((p - 80) * 4000) \div 20
BaseRate(p) == IF p < 80 THEN (p * 1000) \div 80
                         ELSE 1000 + ((p - 80) * 4000) \div 20

PayoutPremium(p) == IF p > 20 THEN ((p - 20) * 1000) \div 80
                    ELSE IF p > 10 THEN ((p - 10) * 300) \div 10
                    ELSE 0

\* Where those two stay within u16.
BaseFits(p) == IF p < 80 THEN p * 1000 \in U16 ELSE (p - 80) * 4000 \in U16
PayoutFits(p) == p > 20 => (p - 20) * 1000 \in U16

\* The averages are Q32 already and are shifted once more: what remains of
\* them is their low half, as a whole number.
VolatilityPremium(util, maUtil, payout, maPayout) ==
  LET Far(now, average) ==
        Magnitude(now - ((average * One) % (One * One))) \div One
  IN  Smaller((Far(util, maUtil) + Far(payout, maPayout)) \div 2, 200)

ScaleFactor(rate) == IF rate > 2000 THEN 90 ELSE IF rate < 500 THEN 110 ELSE 100

ClampNone(rate) == rate                      \* a mistake
Clamp(rate) == Larger(Lowest, Smaller(rate, Highest))
-----------------------------------------------------------------------------
\* update_ema, with alpha tenths of the new value.
Ema(old, new, alpha) ==
  LET weight == (alpha * 65536) \div 10
  IN  (weight * new + (65536 - weight) * old) \div 65536

Util(b) == (b.total_drawn * One) \div b.total_deposits
Payout(b) == (b.sum_tp_paid * One) \div (b.total_deposits + 1)

\* high_vol_flag after a repricing, and the averages it selects.
Volatile(b) ==
  LET swing == Magnitude(Util(b) - b.ma_util) \div One
  IN  swing > 10 \/ (swing >= 2 /\ b.high_vol_flag)
MaUtil(b) == Ema(b.ma_util, Util(b), IF Volatile(b) THEN 2 ELSE 3)
MaPayout(b) == Ema(b.ma_payout, Payout(b), IF Volatile(b) THEN 4 ELSE 5)

\* The rate that the pool's present state calls for.
Target(b) ==
  LET raw == BaseRate(Parts(Util(b)))
             + VolatilityPremium(Util(b), MaUtil(b), Payout(b), MaPayout(b))
             + PayoutPremium(Parts(Payout(b)))
  IN  Clamp((raw * ScaleFactor(b.dyn_rate_bps)) \div 100)

\* Velocity damping: half of the way when the direction changes, rounded
\* towards zero, and the whole of it otherwise.
Delta(b) == Target(b) - b.dyn_rate_bps
Flips(b) == Delta(b) * b.last_rate_change < 0
Halved(x) == IF x < 0 THEN -(-x \div 2) ELSE x \div 2
NewRateFromTarget(b) ==                      \* a mistake: half, beyond it
  IF Flips(b) THEN Target(b) + Halved(Delta(b)) ELSE Target(b)
NewRate(b) == IF Flips(b) THEN b.dyn_rate_bps + Halved(Delta(b)) ELSE Target(b)

\* Whether reprice gets through, and what it leaves.
Fits(b) ==
  b.total_deposits # 0 =>
    /\ BaseFits(Parts(Util(b)))
    /\ PayoutFits(Parts(Payout(b)))
    /\ Delta(b) * b.last_rate_change \in I16
Reprice(b) ==
  IF b.total_deposits = 0 THEN b
  ELSE [total_deposits   |-> b.total_deposits,
        total_drawn      |-> b.total_drawn,
        sum_tp_paid      |-> b.sum_tp_paid,
        ma_util          |-> MaUtil(b),
        ma_payout        |-> MaPayout(b),
        dyn_rate_bps     |-> NewRate(b),
        last_rate_change |-> Delta(b),
        high_vol_flag    |-> Volatile(b)]
-----------------------------------------------------------------------------
\* The updates that the instructions are composed of.
Moved(b, dollars) == [b EXCEPT !.total_deposits = @ + dollars]
Drawn(b, change) == [b EXCEPT !.total_drawn = Larger(@ + change, 0)]
Paid(b, dollars) == [b EXCEPT !.sum_tp_paid = @ + dollars]

Init ==
  /\ bank = [total_deposits |-> 0, total_drawn |-> 0, sum_tp_paid |-> 0,
             ma_util |-> 0, ma_payout |-> 0, dyn_rate_bps |-> 0,
             last_rate_change |-> 0, high_vol_flag |-> FALSE]
  /\ exposed = FALSE
  /\ calls = 0

\* The end of an instruction that has brought the pool to b.
EndsIn(b) ==
  /\ b.total_deposits \in 0 .. MaxDeposits
  /\ b.sum_tp_paid <= MaxPaid
  /\ calls < MaxCalls
  /\ calls' = calls + 1
  /\ bank' = b

\* ... with a repricing, unless a checked subtraction from the deposits failed.
EndsRepriced(b) == b.total_deposits >= 0 /\ Fits(b) /\ EndsIn(Reprice(b))

\* handle_in without a ticker, and with one: that only reprices.
Deposit(amount) == EndsRepriced(Moved(bank, amount))
Pledge == EndsRepriced(bank)

\* handle_out without a ticker.  It does not reprice.
Withdraw(value) == EndsIn(Moved(bank, -value))

\* handle_out on a position: opened or grown (change > 0), shrunk, or a short
\* (no call of utilisation), ...
Reposition(change, interest) ==
  LET used == Drawn(bank, change) IN
  /\ Fits(used)
  /\ EndsRepriced(Moved(Reprice(used), interest))
Short(interest) == EndsRepriced(Moved(bank, interest))
\* ... kept within bounds by its owner's deposits, ...
Protect(change, delta, interest) ==
  LET used == Drawn(bank, change) IN
  /\ Fits(used)
  /\ EndsRepriced(Moved(Reprice(used), interest - delta))
\* ... or closed at a profit, of which `delta` comes out of the pool.
TakeProfit(change, delta) ==
  LET used == Drawn(bank, -change)
      paid == Paid(Reprice(used), delta)
  IN
  /\ Fits(used) /\ Fits(paid)
  /\ EndsRepriced(Moved(Reprice(paid), -delta))

\* amortise: a position that is shrunk for the pool's benefit, or saved, the
\* `remainder` at the pool's expense.
Shrink(change, delta, interest) ==
  LET used  == Drawn(bank, -change)
      gain  == delta - delta \div 250
      taken == Paid(Moved(Reprice(used), interest + gain), gain)
  IN
  /\ Fits(used) /\ Fits(taken)
  /\ EndsRepriced(Reprice(taken))
Save(delta, remainder, interest) ==
  LET used == Drawn(bank, delta) IN
  /\ Fits(used)
  /\ EndsRepriced(Moved(Reprice(used), interest - remainder))

Next ==
  \/ /\ \/ \E x \in Amounts : Deposit(x) \/ Withdraw(x)
        \/ Pledge
     /\ UNCHANGED exposed
  \/ /\ \/ \E x \in Amounts, i \in Interests : Reposition(x, i)
        \/ \E i \in Interests : Short(i)
     /\ exposed' = TRUE
  \/ /\ exposed
     /\ \/ \E x, i \in Amounts : i <= x /\ Reposition(-x, i)
        \/ \E x, d \in Amounts, i \in Interests : Protect(x, d, i)
        \/ \E x, d \in Amounts : d < x /\ TakeProfit(x, d)
        \/ \E x, d \in Amounts, i \in Interests : Shrink(x, d, i)
        \/ \E x \in Amounts, r \in Amounts \cup {0}, i \in Interests :
              r <= x /\ Save(x, r, i)
     /\ UNCHANGED exposed

Spec == Init /\ [][Next]_vars
-----------------------------------------------------------------------------
Accounts ==
  [total_deposits : Nat, total_drawn : Nat, sum_tp_paid : Nat,
   ma_util : Nat, ma_payout : Nat, dyn_rate_bps : U16,
   last_rate_change : I16, high_vol_flag : BOOLEAN]

\* The account stays within its words, whatever the instructions amount to.
TypeOK ==
  /\ bank \in Accounts
  /\ exposed \in BOOLEAN
  /\ calls \in 0 .. MaxCalls

\* Whatever the sequence of instructions, the rate that accrues is either
\* the one of a pool never priced or within the band "between 50bps (0.5%)
\* and 5000bps (50%)" (etc.rs:174): damping never carries it outside.
RateInBand == bank.dyn_rate_bps = 0 \/ bank.dyn_rate_bps \in Band

\* A repricing never carries the rate past its target, in either direction.
NeverPastTarget ==
  LET between == {bank.dyn_rate_bps, Target(bank)} IN
  bank.total_deposits # 0 =>
    /\ \E x \in between : x <= NewRate(bank)
    /\ \E x \in between : NewRate(bank) <= x

\* "Higher utilization -> higher rates to incentivize deposits" (etc.rs:131):
\* to draw more never makes borrowing cheaper, wherever the curve is defined,
\* with the averages and the self-scaling taken into account.  Two things are
\* excepted.  Where 512 times the deposits are drawn, (util_q32 >> 25) as u16
\* starts over from 0, and the rate with it.  And the first dollars of an
\* undrawn pool, when they are too few to move the average (Moves): they
\* come closer to it, and may cost a basis point less than none.
Unwrapped(b) == b.ma_util < One /\ Util(b) < 512 * One
Moves(b, x) == Util(b) > 0 \/ Util(Drawn(b, x)) >= 4
MoreDrawnCostsMore ==
  bank.total_deposits # 0 =>
    \A x \in Amounts :
      /\ BaseFits(Parts(Util(bank)))
      /\ BaseFits(Parts(Util(Drawn(bank, x))))
      /\ Unwrapped(Drawn(bank, x)) /\ Moves(bank, x)
      => Target(bank) <= Target(Drawn(bank, x))

\* The rate curve is defined for every utilisation it describes ("Linear up
\* to 80%", "Steep increase after 80%: 10% at 80%, 50% at 100%",
\* etc.rs:136-139), so no instruction aborts for how much of the pool is drawn.
CurveIsDefined ==
  bank.total_deposits # 0 /\ bank.total_drawn <= bank.total_deposits
    => BaseFits(Parts(Util(bank)))
=============================================================================
