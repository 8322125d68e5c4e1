------------------------- MODULE InterestRateProofs -------------------------
(***************************************************************************)
(* Theorems about the pool's borrowing rate, for every amount, every bound *)
(* and every precision of the fixed point.                                 *)
(*                                                                         *)
(* The band of the rate is not inductive on its own: damping moves the     *)
(* rate half-way to the target, and half-way from 0 would be below the     *)
(* band.  What rules that out is that a pool never priced has never        *)
(* changed its rate, so that its first change cannot be a flip.            *)
(*                                                                         *)
(* That the target rises with what is drawn follows part by part: where    *)
(* the curve is defined a ratio is below the whole, so that the averages   *)
(* move slowly, and what is drawn lies further from its average the more   *)
(* it is; scaling and clamping keep the order.                             *)
(***************************************************************************)
EXTENDS InterestRate, TLAPS

\* What every account that a repricing leaves satisfies.
Banded(b) ==
  \/ b.dyn_rate_bps = 0 /\ b.last_rate_change = 0
  \/ b.dyn_rate_bps \in Band

Inv == TypeOK /\ Banded(bank)

\* An account in the middle of an instruction: a loss that is larger than
\* the deposits shows only when the instruction ends.
Midway ==
  [total_deposits : Int, total_drawn : Nat, sum_tp_paid : Nat,
   ma_util : Nat, ma_payout : Nat, dyn_rate_bps : U16,
   last_rate_change : I16, high_vol_flag : BOOLEAN]
-----------------------------------------------------------------------------
\* How the words and the band compare: all that the proofs need of them.
LEMMA Words ==
  /\ Lowest \in Nat \ {0} /\ Highest \in Nat /\ Lowest <= Highest
  /\ MaxI16 \in Nat /\ MaxU16 \in Nat
  /\ Highest <= MaxI16 /\ Highest <= MaxU16
  BY DEF Lowest, Highest, MaxI16, MaxU16

\* An average of naturals is a natural.
LEMMA EmaType ==
  ASSUME NEW old \in Nat, NEW new \in Nat, NEW alpha \in {2, 3, 4, 5}
  PROVE  Ema(old, new, alpha) \in Nat
  <1>1. CASE alpha = 2 BY <1>1 DEF Ema
  <1>2. CASE alpha = 3 BY <1>2 DEF Ema
  <1>3. CASE alpha = 4 BY <1>3 DEF Ema
  <1>4. CASE alpha = 5 BY <1>4 DEF Ema
  <1> QED BY <1>1, <1>2, <1>3, <1>4

\* The ratios of a pool that holds something are naturals.
LEMMA RatioType ==
  ASSUME NEW b \in Midway, b.total_deposits \in Nat \ {0}
  PROVE  Util(b) \in Nat /\ Payout(b) \in Nat
  <1>1. \A x, y \in Nat : x * y \in Nat
    OBVIOUS
  <1>2. \A x \in Nat, y \in Nat \ {0} : x \div y \in Nat
    OBVIOUS
  <1>3. b.total_drawn * One \in Nat /\ b.sum_tp_paid * One \in Nat
    BY <1>1, RateAssumption DEF Midway
  <1>4. b.total_deposits + 1 \in Nat \ {0}
    OBVIOUS
  <1> QED BY <1>2, <1>3, <1>4 DEF Util, Payout

\* The averages of such a pool are naturals.
LEMMA AverageType ==
  ASSUME NEW b \in Midway, b.total_deposits \in Nat \ {0}
  PROVE  MaUtil(b) \in Nat /\ MaPayout(b) \in Nat
  BY RatioType, EmaType DEF MaUtil, MaPayout, Midway

\* The target is always within the band.
LEMMA TargetInBand ==
  ASSUME NEW b \in Midway, b.total_deposits \in Nat \ {0}
  PROVE  Target(b) \in Band
  <1>1. \A x \in Int : Clamp(x) \in Band
    BY Words DEF Clamp, Larger, Smaller, Band
  <1>2. \A x \in Nat : Parts(x) \in Nat
    BY RateAssumption DEF Parts
  <1>3. \A p \in Nat : BaseRate(p) \in Int /\ PayoutPremium(p) \in Int
    BY DEF BaseRate, PayoutPremium
  <1>4. \A u, m, p, n \in Nat : VolatilityPremium(u, m, p, n) \in Int
    <2> DEFINE low(m) == (m * One) % (One * One)
    <2>1. One * One \in Nat \ {0}
      BY RateAssumption
    <2>2. \A m \in Nat : m * One \in Nat
      BY RateAssumption
    <2>3. \A m \in Nat : low(m) \in Int
      BY <2>1, <2>2
    <2> DEFINE far(u, m) == Magnitude(u - low(m)) \div One
    <2>4. \A u, m \in Nat : far(u, m) \in Int
      <3> HIDE DEF low
      <3> QED BY <2>3, RateAssumption DEF Magnitude
    <2>5. \A u, m, p, n \in Nat :
            VolatilityPremium(u, m, p, n)
              = Smaller((far(u, m) + far(p, n)) \div 2, 200)
      BY DEF VolatilityPremium
    <2> HIDE DEF far
    <2> QED BY <2>4, <2>5 DEF Smaller
  <1> DEFINE raw == BaseRate(Parts(Util(b)))
             + VolatilityPremium(Util(b), MaUtil(b), Payout(b), MaPayout(b))
             + PayoutPremium(Parts(Payout(b)))
  <1>5. raw \in Int
    <2>1. Util(b) \in Nat /\ Payout(b) \in Nat
      BY RatioType
    <2>2. MaUtil(b) \in Nat /\ MaPayout(b) \in Nat
      BY AverageType
    <2>3. Parts(Util(b)) \in Nat /\ Parts(Payout(b)) \in Nat
      BY <1>2, <2>1
    <2>4. VolatilityPremium(Util(b), MaUtil(b), Payout(b), MaPayout(b)) \in Int
      BY <1>4, <2>1, <2>2
    <2>5. /\ BaseRate(Parts(Util(b))) \in Int
          /\ PayoutPremium(Parts(Payout(b))) \in Int
      BY <1>3, <2>3
    <2> QED BY <2>4, <2>5
  <1>6. ScaleFactor(b.dyn_rate_bps) \in {90, 100, 110}
    BY DEF ScaleFactor
  <1>7. Target(b) = Clamp((raw * ScaleFactor(b.dyn_rate_bps)) \div 100)
    BY DEF Target
  <1> HIDE DEF raw
  <1> DEFINE scaled == (raw * ScaleFactor(b.dyn_rate_bps)) \div 100
  <1>8. scaled \in Int
    BY <1>5, <1>6
  <1>9. Target(b) = Clamp(scaled)
    BY <1>7
  <1> HIDE DEF scaled
  <1> QED BY <1>1, <1>8, <1>9

\* Half of a change goes part of the way, and the way back is no further.
LEMMA HalvedBetween ==
  ASSUME NEW x \in Int
  PROVE  /\ Halved(x) \in Int
         /\ x >= 0 => Halved(x) \in 0 .. x
         /\ x < 0 => Halved(x) \in x .. 0
  BY DEF Halved

\* The new rate lies between the old one and the target.
LEMMA NewRateBetween ==
  ASSUME NEW b \in Midway, b.total_deposits \in Nat \ {0}
  PROVE  /\ NewRate(b) \in Int
         /\ b.dyn_rate_bps <= Target(b)
              => NewRate(b) \in b.dyn_rate_bps .. Target(b)
         /\ b.dyn_rate_bps > Target(b)
              => NewRate(b) \in Target(b) .. b.dyn_rate_bps
  <1>1. Target(b) \in Int /\ b.dyn_rate_bps \in Int
    BY TargetInBand, Words DEF Midway, U16, Band
  <1>2. Delta(b) \in Int /\ Target(b) = b.dyn_rate_bps + Delta(b)
    BY <1>1 DEF Delta
  <1>3. NewRate(b) = Target(b) \/ NewRate(b) = b.dyn_rate_bps + Halved(Delta(b))
    BY DEF NewRate
  <1> QED BY <1>1, <1>2, <1>3, HalvedBetween
-----------------------------------------------------------------------------
\* A repricing leaves the amounts alone, and a rate within the band.
LEMMA RepriceKeeps ==
  ASSUME NEW b \in Midway, b.total_deposits \in Nat, Banded(b)
  PROVE  /\ Reprice(b) \in Accounts
         /\ Banded(Reprice(b))
  <1>1. CASE b.total_deposits = 0
    BY <1>1 DEF Reprice, Accounts, Midway
  <1>2. CASE b.total_deposits # 0
    <2>1. b.total_deposits \in Nat \ {0}
      BY <1>2
    <2>2. Target(b) \in Band
      BY <2>1, TargetInBand
    <2>3. b.dyn_rate_bps = 0 \/ b.dyn_rate_bps \in Band
      BY DEF Banded
    <2>4. Delta(b) \in -Highest .. Highest
      BY <2>2, <2>3, Words DEF Delta, Band
    <2>5. NewRate(b) \in Band
      <3>1. CASE b.dyn_rate_bps = 0 /\ b.last_rate_change = 0
        <4>1. Delta(b) \in Int
          BY <2>4, Words
        <4>2. ~Flips(b)
          BY <4>1, <3>1 DEF Flips
        <4> QED BY <2>2, <4>2 DEF NewRate
      <3>2. CASE b.dyn_rate_bps \in Band
        BY <2>1, <2>2, <3>2, NewRateBetween, Words DEF Band
      <3> QED BY <3>1, <3>2 DEF Banded
    <2>6. MaUtil(b) \in Nat /\ MaPayout(b) \in Nat /\ Volatile(b) \in BOOLEAN
      BY <2>1, AverageType DEF Volatile
    <2>7. Reprice(b) =
            [total_deposits   |-> b.total_deposits,
             total_drawn      |-> b.total_drawn,
             sum_tp_paid      |-> b.sum_tp_paid,
             ma_util          |-> MaUtil(b),
             ma_payout        |-> MaPayout(b),
             dyn_rate_bps     |-> NewRate(b),
             last_rate_change |-> Delta(b),
             high_vol_flag    |-> Volatile(b)]
      BY <1>2 DEF Reprice
    <2>8. NewRate(b) \in U16 /\ Delta(b) \in I16
      BY <2>4, <2>5, Words DEF U16, I16, Band
    <2>9. Reprice(b) \in Accounts
      BY <2>1, <2>6, <2>7, <2>8 DEF Accounts, Midway
    <2>10. Reprice(b).dyn_rate_bps = NewRate(b)
      BY <2>7 DEF Midway
    <2> QED BY <2>5, <2>9, <2>10 DEF Banded
  <1> QED BY <1>1, <1>2

\* The amount that a repricing leaves alone, even in a loss.
LEMMA RepriceDeposits ==
  ASSUME NEW b \in Midway
  PROVE  Reprice(b).total_deposits = b.total_deposits
  BY DEF Reprice, Midway

\* The updates that an instruction makes before it reprices.
LEMMA UpdatesKeep ==
  ASSUME NEW b \in Midway, Banded(b)
  PROVE  /\ \A x \in Int : Moved(b, x) \in Midway /\ Banded(Moved(b, x))
         /\ \A x \in Int : Drawn(b, x) \in Midway /\ Banded(Drawn(b, x))
         /\ \A x \in Nat : Paid(b, x) \in Midway /\ Banded(Paid(b, x))
  <1>1. \A x \in Int : Moved(b, x) \in Midway /\ Banded(Moved(b, x))
    BY DEF Moved, Midway, Banded
  <1>2. \A x \in Int : Drawn(b, x) \in Midway /\ Banded(Drawn(b, x))
    BY DEF Drawn, Larger, Midway, Banded
  <1>3. \A x \in Nat : Paid(b, x) \in Midway /\ Banded(Paid(b, x))
    BY DEF Paid, Midway, Banded
  <1> QED BY <1>1, <1>2, <1>3

\* A repricing in the middle of an instruction.
LEMMA RepriceMidway ==
  ASSUME NEW b \in Midway, Banded(b), b.total_deposits \in Nat
  PROVE  Reprice(b) \in Midway /\ Banded(Reprice(b))
  <1>1. Accounts \subseteq Midway
    BY DEF Accounts, Midway
  <1> QED BY <1>1, RepriceKeeps

\* An instruction that ends with what it has brought the pool to.
LEMMA EndsKeeps ==
  ASSUME NEW b \in Midway, Banded(b), TypeOK, EndsIn(b), exposed' \in BOOLEAN
  PROVE  Inv'
  <1>1. b.total_deposits \in Nat
    BY RateAssumption DEF EndsIn
  <1>2. b \in Accounts
    BY <1>1 DEF Accounts, Midway
  <1>3. calls' \in 0 .. MaxCalls
    BY RateAssumption DEF EndsIn, TypeOK
  <1> QED BY <1>2, <1>3 DEF EndsIn, Inv, TypeOK

\* The same, with a last repricing.
LEMMA EndsRepricedKeeps ==
  ASSUME NEW b \in Midway, Banded(b), TypeOK, EndsRepriced(b),
         exposed' \in BOOLEAN
  PROVE  Inv'
  <1>1. Reprice(b).total_deposits = b.total_deposits
    BY RepriceDeposits
  <1>2. EndsIn(Reprice(b))
    BY DEF EndsRepriced
  <1>3. b.total_deposits \in Nat
    BY <1>1, <1>2, RateAssumption DEF EndsIn
  <1>4. Reprice(b) \in Midway /\ Banded(Reprice(b))
    BY <1>3, RepriceMidway
  <1> QED BY <1>2, <1>4, EndsKeeps
-----------------------------------------------------------------------------
\* A new account, and every instruction on one.
LEMMA InitInv == Init => Inv
  <1> SUFFICES ASSUME Init PROVE Inv
    OBVIOUS
  <1>1. 0 \in U16 /\ 0 \in I16
    BY Words DEF U16, I16
  <1>2. bank \in Accounts /\ Banded(bank)
    BY <1>1 DEF Init, Accounts, Banded
  <1>3. exposed \in BOOLEAN
    BY DEF Init
  <1>4. 0 \in 0 .. MaxCalls
    BY RateAssumption
  <1>5. calls = 0
    BY DEF Init
  <1> QED BY <1>2, <1>3, <1>4, <1>5 DEF Inv, TypeOK

\* Every instruction keeps the invariant.
LEMMA StepInv == Inv /\ [Next]_vars => Inv'
  <1> SUFFICES ASSUME Inv, [Next]_vars PROVE Inv'
    OBVIOUS
  <1>0. /\ bank \in Midway /\ Banded(bank) /\ bank.total_deposits \in Nat
        /\ TypeOK
    BY DEF Inv, TypeOK, Accounts, Midway
  <1>a. Amounts \subseteq Nat /\ Interests \subseteq Nat
    BY RateAssumption
  <1>u. ASSUME NEW x \in Int
        PROVE  /\ Drawn(bank, x) \in Midway /\ Banded(Drawn(bank, x))
               /\ Reprice(Drawn(bank, x)) \in Midway
               /\ Banded(Reprice(Drawn(bank, x)))
               /\ Reprice(Drawn(bank, x)).total_deposits \in Nat
    <2>1. Drawn(bank, x) \in Midway /\ Banded(Drawn(bank, x))
      BY <1>0, UpdatesKeep
    <2>2. Drawn(bank, x).total_deposits = bank.total_deposits
      BY <1>0 DEF Drawn, Midway
    <2> QED BY <1>0, <2>1, <2>2, RepriceMidway, RepriceDeposits
  <1>1. ASSUME NEW x \in Amounts, Deposit(x), exposed' \in BOOLEAN
        PROVE  Inv'
    BY <1>0, <1>1, <1>a, UpdatesKeep, EndsRepricedKeeps DEF Deposit
  <1>2. ASSUME Pledge, exposed' \in BOOLEAN
        PROVE  Inv'
    BY <1>0, <1>2, EndsRepricedKeeps DEF Pledge
  <1>3. ASSUME NEW x \in Amounts, Withdraw(x), exposed' \in BOOLEAN
        PROVE  Inv'
    <2>1. -x \in Int
      BY <1>a
    <2> QED BY <1>0, <1>3, <2>1, UpdatesKeep, EndsKeeps DEF Withdraw
  <1>4. ASSUME NEW x \in Int, NEW i \in Int, Reposition(x, i),
               exposed' \in BOOLEAN
        PROVE  Inv'
    BY <1>0, <1>u, <1>4, UpdatesKeep, EndsRepricedKeeps DEF Reposition
  <1>5. ASSUME NEW i \in Int, Short(i), exposed' \in BOOLEAN
        PROVE  Inv'
    BY <1>0, <1>5, UpdatesKeep, EndsRepricedKeeps DEF Short
  <1>6. ASSUME NEW x \in Nat, NEW d \in Nat, NEW i \in Nat, Protect(x, d, i),
               exposed' \in BOOLEAN
        PROVE  Inv'
    <2>1. i - d \in Int /\ x \in Int
      OBVIOUS
    <2> QED BY <1>u, <1>0, <1>6, <2>1, UpdatesKeep, EndsRepricedKeeps
            DEF Protect
  <1>7. ASSUME NEW x \in Nat, NEW d \in Nat, TakeProfit(x, d),
               exposed' \in BOOLEAN
        PROVE  Inv'
    <2> DEFINE paid == Paid(Reprice(Drawn(bank, -x)), d)
    <2>1. -x \in Int /\ -d \in Int
      OBVIOUS
    <2>2. paid \in Midway /\ Banded(paid)
      BY <1>u, <2>1, UpdatesKeep
    <2>3. paid.total_deposits \in Nat
      BY <1>u, <2>1 DEF Paid, Midway
    <2>4. Reprice(paid) \in Midway /\ Banded(Reprice(paid))
      BY <2>2, <2>3, RepriceMidway
    <2>5. EndsRepriced(Moved(Reprice(paid), -d))
      BY <1>7 DEF TakeProfit
    <2> HIDE DEF paid
    <2> QED BY <1>0, <1>7, <2>1, <2>4, <2>5, UpdatesKeep, EndsRepricedKeeps
  <1>8. ASSUME NEW x \in Nat, NEW d \in Nat, NEW i \in Nat, Shrink(x, d, i),
               exposed' \in BOOLEAN
        PROVE  Inv'
    <2> DEFINE gain == d - d \div 250
               gained == Moved(Reprice(Drawn(bank, -x)), i + gain)
               taken == Paid(gained, gain)
    <2>1. -x \in Int /\ gain \in Nat /\ i + gain \in Nat
      OBVIOUS
    <2> HIDE DEF gain
    <2>2. gained \in Midway /\ Banded(gained)
      BY <1>u, <2>1, UpdatesKeep
    <2>3. gained.total_deposits \in Nat
      BY <1>u, <2>1 DEF Moved, Midway
    <2>4. EndsRepriced(Reprice(taken))
      BY <1>8 DEF Shrink, gain
    <2> HIDE DEF gained
    <2>5. taken \in Midway /\ Banded(taken)
      BY <2>1, <2>2, UpdatesKeep
    <2>6. taken.total_deposits \in Nat
      BY <2>2, <2>3 DEF Paid, Midway
    <2> HIDE DEF taken
    <2>7. Reprice(taken) \in Midway /\ Banded(Reprice(taken))
      BY <2>5, <2>6, RepriceMidway
    <2> QED BY <1>0, <1>8, <2>4, <2>7, EndsRepricedKeeps
  <1>9. ASSUME NEW x \in Nat, NEW r \in Nat, NEW i \in Nat, Save(x, r, i),
               exposed' \in BOOLEAN
        PROVE  Inv'
    <2>1. i - r \in Int /\ x \in Int
      OBVIOUS
    <2> QED BY <1>u, <1>0, <1>9, <2>1, UpdatesKeep, EndsRepricedKeeps
            DEF Save
  <1>10. CASE UNCHANGED vars
    BY <1>10 DEF vars, Inv, TypeOK
  <1>11. CASE Next
    <2>1. exposed' \in BOOLEAN
      BY <1>0, <1>11 DEF Next, TypeOK
    <2>2. \A x \in Amounts \cup {0} : x \in Nat /\ x \in Int /\ -x \in Int
      BY <1>a
    <2>3. \A i \in Interests : i \in Nat /\ i \in Int
      BY <1>a
    <2> QED BY <1>1, <1>2, <1>3, <1>4, <1>5, <1>6, <1>7, <1>8, <1>9, <1>11,
               <2>1, <2>2, <2>3 DEF Next
  <1> QED BY <1>10, <1>11

\* The words and the band hold throughout.
THEOREM InvHolds == Spec => []Inv
  BY InitInv, StepInv, PTL DEF Spec

\* The account stays within its words (reprice, for every history of calls).
THEOREM TypeCorrect == Spec => []TypeOK
  <1>1. Inv => TypeOK
    BY DEF Inv
  <1> QED BY <1>1, InvHolds, PTL

\* The rate that accrues is never outside 50 .. 5000 bps once there is one:
\* the damped steps respect the clamp of compute_rate_raw.
THEOREM RateStaysInBand == Spec => []RateInBand
  <1>1. Inv => RateInBand
    BY DEF Inv, Banded, RateInBand
  <1> QED BY <1>1, InvHolds, PTL

\* No repricing carries the rate past its target.
THEOREM NoOvershoot == Spec => []NeverPastTarget
  <1>1. Inv => NeverPastTarget
    <2> SUFFICES ASSUME Inv, bank.total_deposits # 0 PROVE NeverPastTarget
      BY DEF NeverPastTarget
    <2>1. bank \in Midway /\ bank.total_deposits \in Nat \ {0}
      BY DEF Inv, TypeOK, Accounts, Midway
    <2>2. Target(bank) \in Int /\ bank.dyn_rate_bps \in Int
      BY <2>1, TargetInBand, Words DEF Midway, U16, Band
    <2> QED BY <2>1, <2>2, NewRateBetween DEF NeverPastTarget
  <1> QED BY <1>1, InvHolds, PTL

\* "Higher utilization -> higher rates" (etc.rs:131) for the curve by itself:
\* over every utilisation, across its kink too (compute_rate_raw).
THEOREM UtilisationCurveRises ==
  \A p, q \in Nat : p <= q => BaseRate(p) <= BaseRate(q)
<1> SUFFICES ASSUME NEW p \in Nat, NEW q \in Nat, p <= q
             PROVE  BaseRate(p) <= BaseRate(q)
  OBVIOUS
<1>1. CASE q < 80
  BY <1>1 DEF BaseRate
<1>2. CASE p < 80 /\ ~(q < 80)
  BY <1>2 DEF BaseRate
<1>3. CASE ~(p < 80)
  BY <1>3 DEF BaseRate
<1> QED
  BY <1>1, <1>2, <1>3

-----------------------------------------------------------------------------
\* A quotient is the number of times the divisor goes into the dividend, so it
\* does not shrink when that grows.
LEMMA QuotientFits ==
  \A x \in Nat, d \in Nat \ {0} :
    x \div d \in Nat /\ d * (x \div d) <= x /\ x < d * (x \div d) + d
<1>1. \A x \in Nat, d \in Nat \ {0} : x \div d \in Nat
  OBVIOUS
<1>2. \A x \in Nat, d \in Nat \ {0} : d * (x \div d) <= x
  OBVIOUS
<1>3. \A x \in Nat, d \in Nat \ {0} : x < d * (x \div d) + d
  OBVIOUS
<1> QED
  BY <1>1, <1>2, <1>3

\* Products of naturals are ordered like their factors.
LEMMA ProductRises ==
  ASSUME NEW d \in Nat, NEW p \in Nat, NEW q \in Nat, p <= q
  PROVE  d * p \in Nat /\ d * q \in Nat /\ d * p <= d * q
<1>1. q - p \in Nat /\ d * (q - p) \in Nat
  OBVIOUS
<1>2. d * q = d * p + d * (q - p)
  OBVIOUS
<1>3. d * p \in Nat /\ d * q \in Nat
  OBVIOUS
<1> QED
  BY <1>1, <1>2, <1>3

\* ... and quotients like their dividends.
LEMMA QuotientRises ==
  ASSUME NEW x \in Nat, NEW y \in Nat, x <= y, NEW d \in Nat \ {0}
  PROVE  x \div d <= y \div d
<1> DEFINE p == x \div d
           q == y \div d
<1>1. p \in Nat /\ q \in Nat /\ d * p <= x /\ y < d * q + d
  BY QuotientFits
<1> HIDE DEF p, q
<1>2. ASSUME q < p PROVE FALSE
  <2>1. q + 1 \in Nat /\ q + 1 <= p
    BY <1>1, <1>2
  <2>2. d * (q + 1) <= d * p /\ d * p \in Nat /\ d * (q + 1) \in Nat
    BY <1>1, <2>1, ProductRises
  <2>3. d * (q + 1) = d * q + d /\ d * q \in Nat
    BY <1>1
  <2> QED
    BY <1>1, <2>2, <2>3
<1>3. p <= q
  BY <1>1, <1>2
<1> QED
  BY <1>3 DEF p, q

\* A multiple and a rest.
LEMMA QuotientIs ==
  ASSUME NEW q \in Nat, NEW d \in Nat \ {0}, NEW r \in Nat, r < d
  PROVE  (d * q + r) \div d = q
<1> DEFINE x == d * q + r
           p == x \div d
<1>1. d * q \in Nat /\ x \in Nat
  OBVIOUS
<1>2. x = d * q + r
  OBVIOUS
<1> HIDE DEF x
<1>3. p \in Nat /\ d * p <= x /\ x < d * p + d
  BY <1>1, QuotientFits
<1> HIDE DEF p
<1>4. d * p \in Nat
  BY <1>3
<1>5. ASSUME q < p PROVE FALSE
  <2>1. q + 1 \in Nat /\ q + 1 <= p
    BY <1>3, <1>5
  <2>2. d * (q + 1) <= d * p
    BY <1>3, <2>1, ProductRises
  <2>3. d * (q + 1) = d * q + d
    OBVIOUS
  <2> QED
    BY <1>1, <1>2, <1>3, <1>4, <2>2, <2>3
<1>6. ASSUME p < q PROVE FALSE
  <2>1. p + 1 \in Nat /\ p + 1 <= q
    BY <1>3, <1>6
  <2>2. d * (p + 1) <= d * q
    BY <1>3, <2>1, ProductRises
  <2>3. d * (p + 1) = d * p + d
    BY <1>3
  <2> QED
    BY <1>1, <1>2, <1>3, <1>4, <2>2, <2>3
<1>7. p = q
  BY <1>3, <1>5, <1>6
<1> QED
  BY <1>7 DEF p, x

\* How far a ratio below 1 is from an average below 1, which VolatilityPremium
\* takes for a whole number: as far as the average, or one less.
Distance(now, average) == Magnitude(now - ((average * One) % (One * One))) \div One
LEMMA DistanceIs ==
  ASSUME NEW u \in Nat, u < One, NEW m \in Nat, m < One
  PROVE  Distance(u, m) = IF m = 0 THEN 0 ELSE IF u = 0 THEN m ELSE m - 1
<1>1. One \in Nat \ {0}
  BY RateAssumption
<1> DEFINE low == One * m
<1>2. low \in Nat /\ m * One = low
  BY <1>1
<1>3. (m * One) % (One * One) = low
  <2>1. One * (m + 1) <= One * One /\ One * One \in Nat
    <3>1. m + 1 \in Nat /\ m + 1 <= One
      BY <1>1
    <3> QED
      BY <1>1, <3>1, ProductRises
  <2>2. One * (m + 1) = low + One
    BY <1>1
  <2> HIDE DEF low
  <2> DEFINE all == One * One
  <2>3. all \in Nat /\ low < all
    BY <1>1, <1>2, <2>1, <2>2
  <2> HIDE DEF all
  <2>4. low % all = low
    BY <1>2, <2>3
  <2> QED
    BY <1>2, <2>4 DEF all
<1>4. Distance(u, m) = Magnitude(u - low) \div One
  BY <1>3 DEF Distance
<1>5. CASE m = 0
  <2>1. low = 0
    BY <1>1, <1>5
  <2>2. Magnitude(u - low) = One * 0 + u
    BY <1>1, <2>1 DEF Magnitude
  <2>3. (One * 0 + u) \div One = 0
    BY <1>1, QuotientIs
  <2> QED
    BY <1>4, <1>5, <2>2, <2>3
<1>6. CASE m # 0 /\ u = 0
  <2>1. Magnitude(u - low) = low + 0
    BY <1>2, <1>6 DEF Magnitude
  <2>2. (One * m + 0) \div One = m
    BY <1>1, QuotientIs
  <2> QED
    BY <1>4, <1>6, <2>1, <2>2
<1>7. CASE m # 0 /\ u # 0
  <2> DEFINE k == m - 1
             rest == One - u
  <2>1. k \in Nat /\ rest \in Nat /\ rest < One
    BY <1>1, <1>7
  <2>2. low = One * k + One /\ One * k \in Nat
    BY <1>1, <2>1
  <2>3. (One * k + rest) \div One = k
    <3> HIDE DEF k, rest
    <3> QED
      BY <1>1, <2>1, QuotientIs
  <2>4. Magnitude(u - low) = One * k + rest
    <3> HIDE DEF low, k
    <3> QED
      BY <1>1, <1>7, <2>1, <2>2 DEF Magnitude
  <2> QED
    BY <1>4, <1>7, <2>3, <2>4
<1> QED
  BY <1>5, <1>6, <1>7

\* An average moves with its last value, by one if that is raised by four.
LEMMA EmaRises ==
  ASSUME NEW m \in Nat, NEW u \in Nat, NEW v \in Nat, u <= v, NEW n \in Nat, m < n, v < n
  PROVE  /\ Ema(m, u, 3) \in Nat /\ Ema(m, v, 3) \in Nat
         /\ Ema(m, u, 3) <= Ema(m, v, 3) /\ Ema(m, v, 3) < n
         /\ v >= u + 4 => Ema(m, v, 3) >= Ema(m, u, 3) + 1
<1>1. (3 * 65536) \div 10 = 19660
  OBVIOUS
<1>2. \A x \in Nat : Ema(m, x, 3) = (19660 * x + 45876 * m) \div 65536
  BY <1>1 DEF Ema
<1> QED
  BY <1>2

\* So the distance of utilisation and average does not shrink.
LEMMA DistanceRises ==
  ASSUME NEW m \in Nat, NEW u \in Nat, NEW v \in Nat, u <= v, m < One, v < One,
         u > 0 \/ v >= 4 \/ v = u
  PROVE  /\ Distance(u, Ema(m, u, 3)) \in Nat
         /\ Distance(u, Ema(m, u, 3)) <= Distance(v, Ema(m, v, 3))
         /\ Distance(v, Ema(m, v, 3)) \in Nat
<1> DEFINE p == Ema(m, u, 3)
           q == Ema(m, v, 3)
<1>1. One \in Nat
  BY RateAssumption
<1>2. /\ p \in Nat /\ q \in Nat /\ p <= q /\ q < One
      /\ v >= u + 4 => q >= p + 1
  BY <1>1, EmaRises
<1> HIDE DEF p, q
<1>3. p < One /\ u < One
  BY <1>1, <1>2
<1>4. Distance(u, p) = IF p = 0 THEN 0 ELSE IF u = 0 THEN p ELSE p - 1
  BY <1>2, <1>3, DistanceIs
<1>5. Distance(v, q) = IF q = 0 THEN 0 ELSE IF v = 0 THEN q ELSE q - 1
  BY <1>2, <1>3, DistanceIs
<1>6. u = v => p = q
  BY DEF p, q
<1>7. /\ Distance(u, p) \in Nat /\ Distance(v, q) \in Nat
      /\ Distance(u, p) <= Distance(v, q)
  BY <1>2, <1>4, <1>5, <1>6
<1> QED
  BY <1>7 DEF p, q


\* The curve is not defined beyond 96 parts.
LEMMA CurveEnds == ASSUME NEW k \in Nat, BaseFits(k) PROVE k <= 96
<1> SUFFICES ASSUME 96 < k PROVE FALSE
  OBVIOUS
<1> DEFINE above == (k - 80) * 4000
<1>1. ~ (k < 80) /\ above \in Nat /\ 65535 < above
  OBVIOUS
<1>2. ~ (above \in U16)
  <2>1. \A n \in U16 : n <= 65535
    BY DEF U16, MaxU16
  <2> HIDE DEF above
  <2> QED
    BY <1>1, <2>1
<1>3. ASSUME k < 80 PROVE FALSE
  BY <1>1, <1>3
<1>4. IF k < 80 THEN k * 1000 \in U16 ELSE above \in U16
  BY DEF BaseFits
<1> HIDE DEF above
<1>5. above \in U16
  BY <1>3, <1>4
<1> QED
  BY <1>2, <1>5

\* Parts of a utilisation on which the curve is defined and (util_q32 >> 25)
\* as u16 does not start over: they are below the whole.
LEMMA PartsAre ==
  ASSUME NEW u \in Nat, u < 512 * One, BaseFits(Parts(u))
  PROVE  Parts(u) = u \div Part /\ Parts(u) \in 0 .. 96 /\ u < One
<1> DEFINE p == u \div Part
<1>1. Part \in Nat \ {0} /\ 512 * One = Part * 65536 /\ One = Part * 128
  BY RateAssumption
<1>2. p \in Nat /\ Part * p <= u /\ u < Part * p + Part
  BY <1>1, QuotientFits
<1> HIDE DEF p
<1>3. p < 65536
  <2> SUFFICES ASSUME 65536 <= p PROVE FALSE
    BY <1>2
  <2>1. Part * 65536 <= Part * p /\ Part * p \in Nat
    BY <1>1, <1>2, ProductRises
  <2> QED
    BY <1>1, <1>2, <2>1
<1>4. Parts(u) = p
  <2>1. Parts(u) = p % 65536
    BY DEF Parts, p
  <2> QED
    BY <1>2, <1>3, <2>1
<1>5. p <= 96
  <2>1. BaseFits(p)
    BY <1>4
  <2> QED
    BY <1>2, <2>1, CurveEnds
<1>6. u < One
  <2>1. Part * p <= Part * 96 /\ Part * p \in Nat
    BY <1>1, <1>2, <1>5, ProductRises
  <2> QED
    BY <1>1, <1>2, <2>1
<1> QED
  BY <1>2, <1>4, <1>5, <1>6 DEF p

\* While less than the whole pool is drawn, and was on average, the averages move
\* as in quiet times.
LEMMA Quiet ==
  ASSUME NEW b \in Midway, b.total_deposits \in Nat \ {0}, Util(b) < One, b.ma_util < One
  PROVE  /\ MaUtil(b) = Ema(b.ma_util, Util(b), 3)
         /\ MaPayout(b) = Ema(b.ma_payout, Payout(b), 5)
<1>1. Util(b) \in Nat /\ b.ma_util \in Nat /\ One \in Nat \ {0}
  BY RatioType, RateAssumption DEF Midway
<1> DEFINE far == Magnitude(Util(b) - b.ma_util)
<1>2. far \in Nat /\ far < One
  BY <1>1 DEF Magnitude
<1> HIDE DEF far
<1>3. far \div One = 0
  <2>1. One * 0 + far = far
    BY <1>1, <1>2
  <2>2. (One * 0 + far) \div One = 0
    BY <1>1, <1>2, QuotientIs
  <2> QED
    BY <2>1, <2>2
<1>4. ~Volatile(b)
  BY <1>3 DEF Volatile, far
<1> QED
  BY <1>4 DEF MaUtil, MaPayout

\* The distance of two naturals is an integer.
LEMMA DistanceType ==
  ASSUME NEW now \in Nat, NEW average \in Nat
  PROVE  Distance(now, average) \in Int
<1> DEFINE low == (average * One) % (One * One)
<1>1. One * One \in Nat \ {0} /\ average * One \in Nat /\ One \in Nat \ {0}
  BY RateAssumption
<1>2. low \in Int
  BY <1>1
<1>3. Distance(now, average) = Magnitude(now - low) \div One
  BY DEF Distance
<1> HIDE DEF low
<1>4. Magnitude(now - low) \in Int
  BY <1>2 DEF Magnitude
<1> QED
  BY <1>1, <1>3, <1>4

\* Scaled by the same factor and clamped, the rates stay in their order.
Scaled(rate, scale) == Clamp((rate * scale) \div 100)
LEMMA ClampRises ==
  ASSUME NEW x \in Int, NEW y \in Int, x <= y, NEW scale \in {90, 100, 110}
  PROVE  Scaled(x, scale) <= Scaled(y, scale)
<1>1. (x * scale) \div 100 <= (y * scale) \div 100
  <2>1. CASE scale = 90
    BY <2>1
  <2>2. CASE scale = 100
    BY <2>2
  <2>3. CASE scale = 110
    BY <2>3
  <2> QED
    BY <2>1, <2>2, <2>3
<1> DEFINE p == (x * scale) \div 100
           q == (y * scale) \div 100
<1>2. p \in Int /\ q \in Int /\ p <= q
  BY <1>1
<1> HIDE DEF p, q
<1>3. Clamp(p) <= Clamp(q)
  BY <1>2, Words DEF Clamp, Larger, Smaller
<1> QED
  BY <1>3 DEF Scaled, p, q

\* To draw more from a pool never lowers the rate that its state calls for.
LEMMA TargetRises ==
  ASSUME NEW b \in Midway, b.total_deposits \in Nat \ {0}, NEW x \in Nat,
         NEW c, c = Drawn(b, x), BaseFits(Parts(Util(b))), BaseFits(Parts(Util(c))),
         Unwrapped(c), Moves(b, x)
  PROVE  Target(b) <= Target(c)
<1>1. /\ c \in Midway /\ c.total_drawn = b.total_drawn + x
      /\ c.total_deposits = b.total_deposits /\ c.sum_tp_paid = b.sum_tp_paid
      /\ c.ma_util = b.ma_util /\ c.ma_payout = b.ma_payout
      /\ c.dyn_rate_bps = b.dyn_rate_bps
  BY DEF Drawn, Larger, Midway
<1>2. b.total_drawn \in Nat /\ b.ma_util \in Nat /\ b.ma_payout \in Nat
  BY DEF Midway
<1> DEFINE u == Util(b)
           v == Util(c)
           m == b.ma_util
           paid == Payout(b)
           share == Ema(b.ma_payout, paid, 5)
<1>3. u \in Nat /\ v \in Nat /\ paid \in Nat /\ Payout(c) = paid
  BY <1>1, RatioType DEF Payout
<1>4. u <= v
  <2>1. One \in Nat
    BY RateAssumption
  <2> DEFINE low == b.total_drawn * One
             high == c.total_drawn * One
             d == b.total_deposits
  <2>2. low = One * b.total_drawn /\ high = One * c.total_drawn
    BY <1>1, <1>2, <2>1
  <2>3. low \in Nat /\ high \in Nat /\ low <= high
    <3>1. b.total_drawn <= c.total_drawn /\ c.total_drawn \in Nat
      BY <1>1, <1>2
    <3> QED
      BY <1>2, <2>1, <2>2, <3>1, ProductRises
  <2>4. u = low \div d /\ v = high \div d
    BY <1>1 DEF Util
  <2>5. d \in Nat \ {0}
    OBVIOUS
  <2> HIDE DEF low, high, d, u, v
  <2> QED
    BY <2>3, <2>4, <2>5, QuotientRises
<1>5. v < 512 * One /\ m < One /\ (u > 0 \/ v >= 4)
  BY <1>1 DEF Unwrapped, Moves
<1>6. One \in Nat /\ Part \in Nat \ {0}
  BY RateAssumption
<1>7. /\ Parts(u) = u \div Part /\ Parts(u) \in 0 .. 96 /\ u < One
      /\ Parts(v) = v \div Part /\ Parts(v) \in 0 .. 96 /\ v < One
  <2>1. u < 512 * One /\ BaseFits(Parts(u)) /\ BaseFits(Parts(v))
    BY <1>3, <1>4, <1>5, <1>6
  <2> HIDE DEF u, v
  <2> QED
    BY <1>3, <1>5, <2>1, PartsAre
<1>8. /\ MaUtil(b) = Ema(m, u, 3) /\ MaPayout(b) = share
      /\ MaUtil(c) = Ema(m, v, 3) /\ MaPayout(c) = share
  <2>1. c.total_deposits \in Nat \ {0} /\ Util(c) < One /\ c.ma_util < One
    BY <1>1, <1>5, <1>7
  <2>2. MaUtil(c) = Ema(c.ma_util, Util(c), 3) /\ MaPayout(c) = Ema(c.ma_payout, Payout(c), 5)
    BY <1>1, <2>1, Quiet
  <2>3. MaUtil(b) = Ema(m, u, 3) /\ MaPayout(b) = share
    BY <1>5, <1>7, Quiet
  <2> QED
    BY <1>1, <1>3, <2>2, <2>3
<1>9. share \in Nat
  BY <1>2, <1>3, EmaType
<1> DEFINE near == Distance(u, Ema(m, u, 3))
           far == Distance(v, Ema(m, v, 3))
           other == Distance(paid, share)
           scale == ScaleFactor(b.dyn_rate_bps)
           top == PayoutPremium(Parts(paid))
           before == BaseRate(Parts(u)) + Smaller((near + other) \div 2, 200) + top
           after == BaseRate(Parts(v)) + Smaller((far + other) \div 2, 200) + top
<1>10. Target(b) = Clamp((before * scale) \div 100)
  BY <1>8 DEF Target, VolatilityPremium, Distance
<1>11. Target(c) = Clamp((after * scale) \div 100)
  BY <1>1, <1>3, <1>8 DEF Target, VolatilityPremium, Distance
<1>12. near \in Nat /\ far \in Nat /\ near <= far
  <2> HIDE DEF u, v, m
  <2>1. m \in Nat
    BY <1>2 DEF m
  <2> QED
    BY <1>3, <1>4, <1>5, <1>7, <2>1, DistanceRises
<1>13. other \in Int
  <2> HIDE DEF paid, share
  <2> QED
    BY <1>3, <1>9, DistanceType
<1>14. top \in Int
  <2>1. \A p \in Nat : PayoutPremium(p) \in Int
    BY DEF PayoutPremium
  <2>2. Parts(paid) \in Nat
    BY <1>3, <1>6 DEF Parts
  <2> QED
    BY <2>1, <2>2
<1>15. Parts(u) <= Parts(v)
  <2> HIDE DEF u, v
  <2>1. u \div Part <= v \div Part
    BY <1>3, <1>4, <1>6, QuotientRises
  <2> QED
    BY <1>7, <2>1
<1>16. BaseRate(Parts(u)) <= BaseRate(Parts(v))
  <2> HIDE DEF u, v
  <2> QED
    BY <1>7, <1>15, UtilisationCurveRises
<1>17. BaseRate(Parts(u)) \in Int /\ BaseRate(Parts(v)) \in Int
  <2>1. \A p \in Nat : BaseRate(p) \in Int
    BY DEF BaseRate
  <2> HIDE DEF u, v
  <2> QED
    BY <1>7, <2>1
<1>18. scale \in {90, 100, 110}
  BY DEF ScaleFactor
<1> HIDE DEF near, far, other, scale, top
<1>19. before \in Int /\ after \in Int /\ before <= after
  <2> DEFINE p == BaseRate(Parts(u))
             q == BaseRate(Parts(v))
  <2>1. p \in Int /\ q \in Int /\ p <= q
    BY <1>16, <1>17
  <2> HIDE DEF p, q
  <2> DEFINE low == Smaller((near + other) \div 2, 200)
             high == Smaller((far + other) \div 2, 200)
  <2>2. low \in Int /\ high \in Int /\ low <= high
    BY <1>12, <1>13 DEF Smaller
  <2>3. before = p + low + top /\ after = q + high + top
    BY DEF p, q
  <2> HIDE DEF low, high, before, after
  <2> QED
    BY <1>14, <2>1, <2>2, <2>3
<1> HIDE DEF before, after
<1>20. Scaled(before, scale) <= Scaled(after, scale)
  BY <1>18, <1>19, ClampRises
<1> QED
  BY <1>10, <1>11, <1>20 DEF Scaled

\* To draw more never makes borrowing cheaper: the target rises with what is
\* drawn, with the averages and the self-scaling.
THEOREM DearerWhenDrawn == Spec => []MoreDrawnCostsMore
<1>1. Inv => MoreDrawnCostsMore
  <2> SUFFICES ASSUME Inv, bank.total_deposits # 0, NEW x \in Amounts,
                      BaseFits(Parts(Util(bank))), BaseFits(Parts(Util(Drawn(bank, x)))),
                      Unwrapped(Drawn(bank, x)), Moves(bank, x)
               PROVE  Target(bank) <= Target(Drawn(bank, x))
    BY DEF MoreDrawnCostsMore
  <2>1. bank \in Midway /\ bank.total_deposits \in Nat \ {0} /\ x \in Nat
    BY RateAssumption DEF Inv, TypeOK, Accounts, Midway
  <2> DEFINE b == bank
             c == Drawn(bank, x)
  <2>2. /\ b \in Midway /\ b.total_deposits \in Nat \ {0} /\ x \in Nat /\ c = Drawn(b, x)
        /\ BaseFits(Parts(Util(b))) /\ BaseFits(Parts(Util(c))) /\ Unwrapped(c) /\ Moves(b, x)
    BY <2>1
  <2> HIDE DEF b, c
  <2>3. Target(b) <= Target(c)
    BY <2>2, TargetRises
  <2> QED
    BY <2>3 DEF b, c
<1> QED
  BY <1>1, InvHolds, PTL
=============================================================================
