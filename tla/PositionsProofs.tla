-------------------------- MODULE PositionsProofs --------------------------
(***************************************************************************)
(* No instruction of the pool pays or books anything twice, nobody is      *)
(* credited what was not taken from them, and so the vault always covers   *)
(* the books: for any customers and tickers, any amounts and prices, any   *)
(* collar and any cut.                                                     *)
(***************************************************************************)
EXTENDS Positions, Sums

\* Quotients and products of naturals.
LEMMA Quotients == \A x \in Nat, k \in Nat \ {0} : x \div k \in Nat /\ x \div k <= x
<1> SUFFICES ASSUME NEW x \in Nat, NEW k \in Nat \ {0} PROVE x \div k \in Nat /\ x \div k <= x
  OBVIOUS
<1>1. x \div k \in Nat /\ k * (x \div k) <= x
  OBVIOUS
<1> DEFINE q == x \div k
<1> HIDE DEF q
<1>2. \A j \in Nat, n \in Nat \ {0} : j <= n * j
  OBVIOUS
<1>3. q \in Nat /\ k * q <= x
  BY <1>1 DEF q
<1>4. q <= k * q /\ k * q \in Nat
  BY <1>2, <1>3
<1>5. q <= x
  BY <1>3, <1>4
<1> QED
  BY <1>3, <1>5 DEF q

\* Quotients of integers are integers, and so are products.
LEMMA Integral ==
  /\ \A x \in Int, k \in Nat \ {0} : x \div k \in Int
  /\ \A x, y \in Int : x * y \in Int
  /\ \A x, y \in Nat : x * y \in Nat
  OBVIOUS

\* The cut and the collar round down.
LEMMA CutAndCollar ==
  ASSUME NEW x \in Nat
  PROVE  /\ CutOff(x) \in 0 .. x /\ WithCut(x) \in Nat /\ WithCut(x) >= x /\ x \div Cut \in 0 .. x
         /\ High(x) \in Nat /\ High(x) >= x /\ Low(x) \in 0 .. x /\ x \div Collar \in 0 .. x
<1>1. Collar \in Nat \ {0} /\ Cut \in Nat \ {0}
  BY PositionsAssumption DEF PositionsAssumption
<1>2. x \div Collar \in Nat /\ x \div Collar <= x /\ x \div Cut \in Nat /\ x \div Cut <= x
  BY <1>1, Quotients
<1> QED
  BY <1>2 DEF CutOff, WithCut, High, Low

Results == [pledged : Int, exposure : Int, deposited : Int, delta : Int, interest : Nat]

\* What repo may make of a position with p dollars, of whose owner dep dollars are
\* deposited.  Deposits and pledge together do not grow; what is left of the pledge
\* and what is transferred or booked as interest was there before, or is the delta;
\* a liquidator's slice comes out of the pledge; and what saves a position is
\* raised by no more than the cut leaves of it.
Fair(p, dep, units, r) ==
  /\ r \in Results
  /\ r.deposited + r.pledged <= dep + p
  /\ r.pledged + r.interest <= p + Size(r.delta)
  /\ units = 0 /\ r.delta < 0 => r.pledged + r.interest + Size(r.delta) <= p
  /\ units = 0 /\ r.delta > 0 => r.pledged + r.interest <= p + CutOff(r.delta)

\* The owner's deposits raise what is pledged.
LEMMA RaiseFair ==
  ASSUME NEW p \in Nat, NEW x \in Int, NEW dep \in Nat, NEW need \in Nat, NEW i \in Nat, NEW units,
         NEW r \in Raise(p, x, dep, need, i)
  PROVE  Fair(p + i, dep, units, r)
<1>1. r = Result(p + CutOff(need), x, dep - need, need, i)
  BY DEF Raise
<1>2. CutOff(need) \in 0 .. need
  BY CutAndCollar
<1> QED
  BY <1>1, <1>2 DEF Result, Fair, Results, Size

\* They buy units.
LEMMA BuyFair ==
  ASSUME NEW p \in Nat, NEW x \in Int, NEW dep \in Nat, NEW need \in Nat, NEW at \in Nat \ {0},
         NEW i \in Nat, NEW units, NEW r \in Buy(p, x, dep, need, at, i)
  PROVE  Fair(p + i, dep, units, r)
<1> DEFINE bought == CutOff(need) \div at
<1>1. r = Result(p, x + bought, dep - need, need, i)
  BY DEF Buy
<1>2. CutOff(need) \in 0 .. need
  BY CutAndCollar
<1>3. bought \in Int
  BY <1>2
<1> HIDE DEF bought
<1> QED
  BY <1>1, <1>2, <1>3 DEF Result, Fair, Results, Size

\* A liquidator slices the position: what the slice is worth comes out of the pledge.
LEMMA SliceFair ==
  ASSUME NEW p \in Nat, NEW x \in Int, NEW dep \in Nat, NEW need \in Nat, NEW at \in Nat \ {0},
         NEW value \in {1, at}, NEW i \in Nat, NEW units,
         NEW r \in Slice(p, x, dep, need, at, units, value, i)
  PROVE  Fair(p + i, dep, units, r)
<1>1. PICK s \in 0 .. Lesser(MaxSlice, Size(x)) :
         r = Result(p - s * at, IF x > 0 THEN x - s ELSE x + s, dep, -s * value, i)
  BY DEF Slice
<1>2. s \in Nat
  BY <1>1
<1>3. s * at \in Nat /\ s * value \in Nat /\ s * value <= s * at
  <2>1. \A j \in Nat, k \in Nat \ {0} : j * k \in Nat /\ j * 1 = j /\ j <= j * k
    OBVIOUS
  <2>2. CASE value = 1
    BY <1>2, <2>1, <2>2
  <2>3. CASE value = at
    BY <1>2, <2>1, <2>3
  <2> QED
    BY <2>2, <2>3
<1> DEFINE gone == s * at
           paid == s * value
<1>4. -s * value = -paid
  OBVIOUS
<1> HIDE DEF gone, paid
<1>5. gone \in Nat /\ paid \in Nat /\ paid <= gone
  BY <1>3 DEF gone, paid
<1>6. r = Result(p - gone, IF x > 0 THEN x - s ELSE x + s, dep, -paid, i)
  BY <1>1, <1>4 DEF gone
<1> QED
  BY <1>2, <1>5, <1>6 DEF Result, Fair, Results, Size

\* A long is sold.
LEMMA SellLongFair ==
  ASSUME NEW p \in Nat, NEW x \in Nat, NEW dep \in Nat, NEW units \in Int, units < 0,
         NEW at \in Nat \ {0}, NEW i \in Nat, NEW r \in SellLong(p, x, dep, units, at, i)
  PROVE  Fair(p + i, dep, units, r)
<1> DEFINE left    == IF x + units < 0 THEN 0 ELSE x + units
           dollars == (x - left) * at
           profit  == dollars - (p + i)
<1>1. left \in Nat /\ x - left \in Nat
  OBVIOUS
<1>2. dollars \in Nat
  <2> HIDE DEF left
  <2> QED
    BY <1>1, Integral
<1>3. IF dollars > p
      THEN profit >= 0 /\ r = Result(0, left, dep, -profit, dollars)
      ELSE dollars >= i /\ r = Result(p - dollars, left, dep, 0, dollars - i)
  BY DEF SellLong
<1> HIDE DEF left, dollars
<1> QED
  BY <1>1, <1>2, <1>3 DEF Result, Fair, Results, Size

\* A long is bought.
LEMMA BuyLongFair ==
  ASSUME NEW p \in Nat, NEW x \in Nat, NEW dep \in Nat, NEW units \in Int, units > 0,
         NEW at \in Nat \ {0}, NEW i \in Nat, NEW r \in BuyLong(p, x, dep, at, i)
  PROVE  Fair(p + i, dep, units, r)
<1> DEFINE value == x * at
           over  == value - High(p)
           short == Low(p) - value
           fewer == (over \div at) \div at
           more  == short \div at
<1>1. High(p) \in Nat /\ Low(p) \in Nat
  BY CutAndCollar
<1>2. value \in Nat
  BY Integral
<1> HIDE DEF value
<1>3. over \in Int /\ short \in Int
  BY <1>1, <1>2
<1>4. IF over > 0
      THEN IF dep >= over THEN r = Result(p + over, x, dep - over, over, i)
           ELSE r = Result(p, x - fewer, dep, over, i)
      ELSE IF Low(p) > value THEN r = Result(p, x + more, dep, 0, i)
      ELSE r = Result(p, x, dep, 0, i)
  BY DEF BuyLong, value
<1> HIDE DEF over, short
<1>5. fewer \in Int /\ more \in Int
  BY <1>3, Integral
<1> HIDE DEF fewer, more
<1> QED
  BY <1>3, <1>4, <1>5 DEF Result, Fair, Results, Size

\* A short is bought back.
LEMMA CoverShortFair ==
  ASSUME NEW p \in Nat, NEW x \in Int, x < 0, NEW dep \in Nat, NEW units \in Int, units > 0,
         NEW at \in Nat \ {0}, NEW i \in Nat, NEW r \in CoverShort(p, x, dep, units, at, i)
  PROVE  Fair(p + i, dep, units, r)
<1> DEFINE size   == Size(x)
           value  == size * at
           bought == Lesser(units, size)
           gain   == ((p - value) * bought) \div value
           profit == gain - i
           part   == (p * bought) \div value
<1>1. size \in Nat \ {0}
  BY DEF Size
<1>2. bought \in Nat
  BY <1>1 DEF Lesser
<1>3. value \in Nat \ {0}
  <2> HIDE DEF size
  <2>1. \A j, k \in Nat \ {0} : j * k \in Nat \ {0}
    OBVIOUS
  <2> QED
    BY <1>1, <2>1
<1>4. p >= value /\ profit >= 0 /\ r = Result(p - part, x + bought, dep, -profit, profit + part)
  BY DEF CoverShort
<1> HIDE DEF size, value, bought
<1>5. gain \in Int
  <2>1. p - value \in Int /\ bought \in Int
    BY <1>2, <1>3
  <2>2. (p - value) * bought \in Int
    BY <2>1, Integral
  <2> QED
    BY <1>3, <2>2, Integral
<1>6. part \in Nat
  <2>1. p * bought \in Nat
    BY <1>2, Integral
  <2> QED
    BY <1>3, <2>1, Quotients
<1> HIDE DEF gain, part
<1> QED
  BY <1>2, <1>4, <1>5, <1>6 DEF Result, Fair, Results, Size

\* A short is sold.
LEMMA SellShortFair ==
  ASSUME NEW p \in Nat, NEW x \in Int, NEW dep \in Nat, NEW units \in Int, units < 0,
         NEW at \in Nat \ {0}, NEW i \in Nat, NEW r \in SellShort(p, x, dep, at, i)
  PROVE  Fair(p + i, dep, units, r)
<1> DEFINE value == Size(x) * at
           need  == p - value
           over  == value - High(p)
           more  == need \div at
           fewer == over \div at
<1>1. value \in Int
  <2>1. Size(x) \in Int
    BY DEF Size
  <2> QED
    BY <2>1, Integral
<1>2. IF need > 0 THEN dep >= need /\ r = Result(p, x - more, dep - need, need, i)
      ELSE IF value > High(p) THEN r = Result(p, x + fewer, dep, 0, i)
      ELSE r = Result(p, x, dep, 0, i)
  BY DEF SellShort
<1>3. High(p) \in Nat
  BY CutAndCollar
<1> HIDE DEF value
<1>4. need \in Int /\ over \in Int
  BY <1>1, <1>3
<1> HIDE DEF need, over
<1>5. more \in Int /\ fewer \in Int
  BY <1>4, Integral
<1> HIDE DEF more, fewer
<1> QED
  BY <1>2, <1>4, <1>5 DEF Result, Fair, Results, Size

\* A long position, whatever is asked of it.
LEMMA LongFair ==
  ASSUME NEW p \in Nat, NEW x \in Nat, NEW dep \in Nat, NEW units \in Int,
         x > 0 \/ units > 0,
         NEW at \in Nat \ {0}, NEW i \in Nat, NEW r \in Long(p, x, dep, units, at, i)
  PROVE  Fair(p + i, dep, units, r)
<1> DEFINE value == x * at
           over  == WithCut(value - High(p))
           gap   == Low(p) - value - p \div Collar
<1>1. value \in Nat /\ High(p) \in Nat /\ Low(p) \in Nat /\ p \div Collar \in Nat
  BY Integral, CutAndCollar
<1>2. r \in IF value > High(p)
            THEN Raise(p, x, dep, over, i) \cup Slice(p, x, dep, over, at, units, at, i)
            ELSE IF Low(p) > value /\ value > 0
            THEN IF gap < 0 THEN {}
                 ELSE Buy(p, x, dep, WithCut(gap), at, i)
                        \cup Slice(p, x, dep, WithCut(gap), at, units, at, i)
            ELSE IF units = 0 THEN {}
                 ELSE IF units < 0 THEN SellLong(p, x, dep, units, at, i)
                 ELSE BuyLong(p, x + units, dep, at, i)
  <2>1. r \in CASE value > High(p) ->
                    Raise(p, x, dep, over, i) \cup Slice(p, x, dep, over, at, units, at, i)
               [] value <= High(p) /\ Low(p) > value /\ value > 0 ->
                    IF gap < 0 THEN {}
                    ELSE Buy(p, x, dep, WithCut(gap), at, i)
                           \cup Slice(p, x, dep, WithCut(gap), at, units, at, i)
               [] OTHER ->
                    IF units = 0 THEN {}
                    ELSE IF units < 0 THEN SellLong(p, x, dep, units, at, i)
                    ELSE BuyLong(p, x + units, dep, at, i)
    BY DEF Long
  <2> HIDE DEF value, over, gap
  <2>2. CASE value > High(p)
    <3>1. ~ (value <= High(p))
      BY <1>1, <2>2
    <3> QED
      BY <2>1, <2>2, <3>1
  <2>3. CASE ~ (value > High(p))
    <3>1. value <= High(p)
      BY <1>1, <2>3
    <3> QED
      BY <2>1, <2>3, <3>1
  <2> QED
    BY <2>2, <2>3
<1> HIDE DEF value
<1>3. CASE value > High(p)
  <2>1. value - High(p) \in Nat
    BY <1>1, <1>3
  <2>2. over \in Nat
    BY <2>1, CutAndCollar
  <2> HIDE DEF over
  <2>3. r \in Raise(p, x, dep, over, i) \/ r \in Slice(p, x, dep, over, at, units, at, i)
    BY <1>2, <1>3
  <2>4. CASE r \in Raise(p, x, dep, over, i)
    BY <2>2, <2>4, RaiseFair
  <2>5. CASE r \in Slice(p, x, dep, over, at, units, at, i)
    <3>1. at \in {1, at}
      OBVIOUS
    <3> QED
      BY <2>2, <2>5, <3>1, SliceFair
  <2> QED
    BY <2>3, <2>4, <2>5
<1>4. CASE ~ (value > High(p)) /\ Low(p) > value /\ value > 0
  <2> DEFINE need == WithCut(gap)
  <2>1. ~ (gap < 0)
    BY <1>2, <1>4
  <2>2. gap \in Int
    BY <1>1
  <2>3. gap \in Nat
    <3> HIDE DEF gap
    <3> QED
      BY <2>1, <2>2
  <2>4. r \in Buy(p, x, dep, need, at, i) \/ r \in Slice(p, x, dep, need, at, units, at, i)
    BY <1>2, <1>4, <2>1
  <2> HIDE DEF gap
  <2>5. need \in Nat
    BY <2>3, CutAndCollar
  <2> HIDE DEF need
  <2>6. CASE r \in Buy(p, x, dep, need, at, i)
    BY <2>5, <2>6, BuyFair
  <2>7. CASE r \in Slice(p, x, dep, need, at, units, at, i)
    <3>1. at \in {1, at}
      OBVIOUS
    <3> QED
      BY <2>5, <2>7, <3>1, SliceFair
  <2> QED
    BY <2>4, <2>6, <2>7
<1>5. CASE ~ (value > High(p)) /\ ~ (Low(p) > value /\ value > 0)
  <2>1. units # 0 /\ r \in IF units < 0 THEN SellLong(p, x, dep, units, at, i)
                           ELSE BuyLong(p, x + units, dep, at, i)
    BY <1>2, <1>5
  <2>2. CASE units < 0
    BY <2>1, <2>2, SellLongFair
  <2>3. CASE units > 0
    <3>1. x + units \in Nat
      BY <2>3
    <3>2. r \in BuyLong(p, x + units, dep, at, i)
      BY <2>1, <2>3
    <3> DEFINE y == x + units
    <3> HIDE DEF y
    <3>3. y \in Nat /\ r \in BuyLong(p, y, dep, at, i)
      BY <3>1, <3>2 DEF y
    <3> QED
      BY <2>3, <3>3, BuyLongFair
  <2> QED
    BY <2>1, <2>2, <2>3
<1> QED
  BY <1>3, <1>4, <1>5

\* A short position, or one without units that nobody asks to add to.
LEMMA ShortFair ==
  ASSUME NEW p \in Nat, NEW x \in Int, NEW dep \in Nat, NEW units \in Int,
         x < 0 \/ (x = 0 /\ units <= 0),
         NEW at \in Nat \ {0}, NEW i \in Nat, NEW r \in Short(p, x, dep, units, at, i)
  PROVE  Fair(p + i, dep, units, r)
<1> DEFINE value == Size(x) * at
           over  == WithCut(value - High(p))
           gap   == WithCut(Low(p) - value)
<1>1. value \in Nat /\ High(p) \in Nat /\ Low(p) \in Nat /\ Low(p) <= High(p)
  <2>1. Size(x) \in Nat
    BY DEF Size
  <2>2. value \in Nat
    BY <2>1, Integral
  <2> HIDE DEF value
  <2> QED
    BY <2>2, CutAndCollar
<1>2. r \in IF Low(p) >= value /\ value > 0
            THEN Buy(p, x, dep, gap, at, i) \cup Slice(p, x, dep, gap, at, units, 1, i)
            ELSE IF value > High(p)
            THEN Raise(p, x, dep, over, i) \cup Slice(p, x, dep, over, at, units, 1, i)
            ELSE IF units = 0 THEN {Result(p, x, dep, 0, i)}
                 ELSE IF units > 0 THEN CoverShort(p, x, dep, units, at, i)
                 ELSE SellShort(p, x + units, dep, at, i)
  <2> HIDE DEF over, gap
  <2>1. ~ (Low(p) >= value /\ value > 0 /\ value > High(p))
    <3> HIDE DEF value
    <3> QED
      BY <1>1
  <2> QED
    BY <2>1 DEF Short, over, gap
<1> HIDE DEF value
<1>3. CASE Low(p) >= value /\ value > 0
  <2>1. Low(p) - value \in Nat
    BY <1>1, <1>3
  <2>2. gap \in Nat
    BY <2>1, CutAndCollar
  <2> HIDE DEF gap
  <2>3. r \in Buy(p, x, dep, gap, at, i) \/ r \in Slice(p, x, dep, gap, at, units, 1, i)
    BY <1>2, <1>3
  <2>4. CASE r \in Buy(p, x, dep, gap, at, i)
    BY <2>2, <2>4, BuyFair
  <2>5. CASE r \in Slice(p, x, dep, gap, at, units, 1, i)
    BY <2>2, <2>5, SliceFair
  <2> QED
    BY <2>3, <2>4, <2>5
<1>4. CASE ~ (Low(p) >= value /\ value > 0) /\ value > High(p)
  <2>1. value - High(p) \in Nat
    BY <1>1, <1>4
  <2>2. over \in Nat
    BY <2>1, CutAndCollar
  <2> HIDE DEF over
  <2>3. r \in Raise(p, x, dep, over, i) \/ r \in Slice(p, x, dep, over, at, units, 1, i)
    BY <1>2, <1>4
  <2>4. CASE r \in Raise(p, x, dep, over, i)
    BY <2>2, <2>4, RaiseFair
  <2>5. CASE r \in Slice(p, x, dep, over, at, units, 1, i)
    BY <2>2, <2>5, SliceFair
  <2> QED
    BY <2>3, <2>4, <2>5
<1>5. CASE ~ (Low(p) >= value /\ value > 0) /\ ~ (value > High(p))
  <2>1. r \in IF units = 0 THEN {Result(p, x, dep, 0, i)}
              ELSE IF units > 0 THEN CoverShort(p, x, dep, units, at, i)
              ELSE SellShort(p, x + units, dep, at, i)
    BY <1>2, <1>5
  <2>2. CASE units = 0
    <3>1. r = Result(p, x, dep, 0, i)
      BY <2>1, <2>2
    <3> QED
      BY <3>1 DEF Result, Fair, Results, Size
  <2>3. CASE units > 0
    BY <2>1, <2>3, CoverShortFair
  <2>4. CASE units < 0
    <3> DEFINE y == x + units
    <3>1. y \in Int /\ r \in SellShort(p, y, dep, at, i)
      BY <2>1, <2>4
    <3> HIDE DEF y
    <3> QED
      BY <2>4, <3>1, SellShortFair
  <2> QED
    BY <2>2, <2>3, <2>4
<1> QED
  BY <1>3, <1>4, <1>5

\* What repo may make of any position.
LEMMA RepoFair ==
  ASSUME NEW pod, pod.pledged \in Nat, pod.exposure \in Int, NEW dep \in Nat, NEW units \in Int,
         NEW at \in Nat \ {0}, NEW r \in Repo(pod, dep, units, at)
  PROVE  /\ Fair(pod.pledged, dep, units, r)
         /\ r.pledged \in Nat /\ r.exposure \in -MaxUnits .. MaxUnits
<1> DEFINE Of(i) == IF pod.exposure > 0 \/ (pod.exposure = 0 /\ units > 0)
                    THEN Long(pod.pledged - i, pod.exposure, dep, units, at, i)
                    ELSE Short(pod.pledged - i, pod.exposure, dep, units, at, i)
<1>1. PICK accrued \in (IF pod.exposure = 0 THEN {0} ELSE 0 .. MaxInterest) :
        /\ r \in Of(accrued * at) /\ accrued * at <= pod.pledged
        /\ r.pledged >= 0 /\ r.exposure \in -MaxUnits .. MaxUnits
  BY DEF Repo
<1>2. MaxInterest \in Nat
  BY PositionsAssumption DEF PositionsAssumption
<1> DEFINE i == accrued * at
           p == pod.pledged - i
           x == pod.exposure
<1>3. i \in Nat /\ i <= pod.pledged
  <2>1. accrued \in Nat
    BY <1>2
  <2> QED
    BY <1>1, <2>1, Integral
<1> HIDE DEF i
<1>4. p \in Nat /\ pod.pledged = p + i
  BY <1>3
<1>5. r \in Of(i)
  BY <1>1 DEF i
<1>6. r \in IF x > 0 \/ (x = 0 /\ units > 0) THEN Long(p, x, dep, units, at, i)
            ELSE Short(p, x, dep, units, at, i)
  BY <1>5
<1> HIDE DEF p, x, Of
<1>7. x \in Int
  BY DEF x
<1>8. Fair(p + i, dep, units, r)
  <2>1. CASE x > 0 \/ (x = 0 /\ units > 0)
    <3>1. x \in Nat /\ (x > 0 \/ units > 0) /\ r \in Long(p, x, dep, units, at, i)
      BY <1>6, <1>7, <2>1
    <3> QED
      BY <1>3, <1>4, <3>1, LongFair
  <2>2. CASE ~ (x > 0 \/ (x = 0 /\ units > 0))
    <3>1. (x < 0 \/ (x = 0 /\ units <= 0)) /\ r \in Short(p, x, dep, units, at, i)
      BY <1>6, <1>7, <2>2
    <3> QED
      BY <1>3, <1>4, <1>7, <3>1, ShortFair
  <2> QED
    BY <2>1, <2>2
<1>9. r.pledged \in Int
  BY <1>8 DEF Fair, Results
<1> QED
  BY <1>1, <1>4, <1>8, <1>9

-----------------------------------------------------------------------------
\* A loop of n rounds over values in V, and what it computes from start.
Loops(n, V) == [1 .. n -> [V -> V]]
Computes(F, n, V, start, step) ==
  F \in [0 .. n -> V] /\ F[0] = start /\ \A i \in 1 .. n : F[i] = step[i][F[i - 1]]

\* A loop of n rounds has a result after each of them: if it had none after some
\* round, then there would be a first such round, and the one before it has.
LEMMA Rounds ==
  ASSUME NEW n \in Nat, NEW V, NEW start \in V, NEW step \in Loops(n, V)
  PROVE  \E F : Computes(F, n, V, start, step)
<1> USE DEF Loops
<1> DEFINE Runs(F, m) == F \in [0 .. m -> V] /\ F[0] = start
                           /\ \A i \in 1 .. m : F[i] = step[i][F[i - 1]]
           T == {m \in 0 .. n : ~ \E F : Runs(F, m)}
<1>1. ASSUME T # {} PROVE FALSE
  <2>1. PICK m \in T : \A k \in T : m <= k
    <3>1. T \subseteq Nat
      OBVIOUS
    <3> HIDE DEF T
    <3> QED
      BY <1>1, <3>1, LeastNat
  <2>2. m \in 0 .. n /\ ~ \E F : Runs(F, m)
    OBVIOUS
  <2>3. CASE m = 0
    <3> DEFINE F == [i \in 0 .. 0 |-> start]
    <3>1. Runs(F, 0)
      OBVIOUS
    <3> QED
      BY <2>2, <2>3, <3>1
  <2>4. CASE m # 0
    <3>1. m - 1 \in 0 .. n /\ m \in 1 .. n /\ ~ (m <= m - 1)
      BY <2>2, <2>4
    <3>2. m - 1 \notin T
      BY <2>1, <3>1
    <3>3. PICK F : Runs(F, m - 1)
      BY <3>1, <3>2
    <3> HIDE DEF T
    <3> DEFINE G == [i \in 0 .. m |-> IF i = m THEN step[m][F[m - 1]] ELSE F[i]]
    <3>4. F[m - 1] \in V /\ step[m] \in [V -> V]
      BY <3>1, <3>3
    <3>5. step[m][F[m - 1]] \in V
      BY <3>4
    <3>6. \A i \in 0 .. m : i # m => i \in 0 .. (m - 1) /\ F[i] \in V
      BY <3>1, <3>3
    <3>7. G \in [0 .. m -> V]
      BY <3>5, <3>6
    <3>8. G[0] = start
      BY <3>1, <3>3
    <3>9. ASSUME NEW i \in 1 .. m PROVE G[i] = step[i][G[i - 1]]
      <4>1. i - 1 \in 0 .. m /\ i - 1 # m /\ G[i - 1] = F[i - 1]
        BY <3>1
      <4>2. CASE i = m
        BY <4>1, <4>2
      <4>3. CASE i # m
        <5>1. i \in 1 .. (m - 1) /\ i \in 0 .. m
          BY <3>1, <4>3
        <5>2. F[i] = step[i][F[i - 1]]
          BY <3>3, <5>1
        <5>3. G[i] = F[i]
          BY <4>3, <5>1
        <5> QED
          BY <4>1, <5>2, <5>3
      <4> QED
        BY <4>2, <4>3
    <3>10. Runs(G, m)
      <4> HIDE DEF G
      <4> QED
        BY <3>7, <3>8, <3>9
    <3> QED
      BY <2>2, <3>10
  <2> QED
    BY <2>3, <2>4
<1>2. n \notin T
  BY <1>1
<1>3. PICK F : Runs(F, n)
  BY <1>2
<1> QED
  BY <1>3 DEF Computes

\* What the positions of an account pledge, each.
Amount(pods) == [i \in DOMAIN pods |-> pods[i].pledged]

\* A position is what its three fields are.
LEMMA PodIs ==
  ASSUME NEW pod
  PROVE  pod \in Pods =>
           pod.ticker \in Tickers /\ pod.pledged \in Nat /\ pod.exposure \in -MaxUnits .. MaxUnits
  BY DEF Pods

\* The amounts are naturals, one per position.
LEMMA AmountType ==
  ASSUME NEW pods \in Seq(Pods)
  PROVE  /\ DOMAIN pods = 1 .. Len(pods) /\ Len(pods) \in Nat
         /\ Amount(pods) \in [1 .. Len(pods) -> Nat] /\ Amount(pods) \in [1 .. Len(pods) -> Int]
         /\ \A i \in 1 .. Len(pods) : pods[i] \in Pods /\ Amount(pods)[i] = pods[i].pledged
<1>1. /\ DOMAIN pods = 1 .. Len(pods) /\ Len(pods) \in Nat
      /\ \A i \in 1 .. Len(pods) : pods[i] \in Pods
  OBVIOUS
<1>2. \A i \in 1 .. Len(pods) : pods[i].pledged \in Nat
  BY <1>1, PodIs
<1> QED
  BY <1>1, <1>2 DEF Amount

\* ... and so is their sum.
LEMMA PledgesType ==
  ASSUME NEW pods \in Seq(Pods)
  PROVE  Pledges(pods) \in Nat /\ Pledges(pods) = SumFunction(Amount(pods))
<1>1. Pledges(pods) = SumFunction(Amount(pods))
  BY DEF Pledges, Amount
<1>2. IsFiniteSet(1 .. Len(pods))
  BY AmountType, FS_Interval
<1>3. SumFunction(Amount(pods)) \in Nat
  BY <1>2, AmountType, SumOfNats
<1> QED
  BY <1>1, <1>3

\* No positions pledge nothing.
LEMMA PledgesNone == <<>> \in Seq(Pods) /\ Pledges(<<>>) = 0
<1>1. <<>> \in Seq(Pods)
  OBVIOUS
<1>2. Amount(<<>>) \in [{} -> Int]
  BY DEF Amount
<1>3. SumFunction(Amount(<<>>)) = 0
  BY <1>2, SumOfNone
<1> QED
  BY <1>1, <1>3, PledgesType

\* A position more pledges what it pledges more.
LEMMA PledgesAppend ==
  ASSUME NEW pods \in Seq(Pods), NEW pod \in Pods
  PROVE  /\ Append(pods, pod) \in Seq(Pods)
         /\ Pledges(Append(pods, pod)) = Pledges(pods) + pod.pledged
<1> DEFINE more == Append(pods, pod)
           n == Len(pods)
           low == Amount(pods)
           high == Amount(more)
<1>1. more \in Seq(Pods) /\ Len(more) = n + 1 /\ n \in Nat
  OBVIOUS
<1>2. more[n + 1] = pod /\ \A i \in 1 .. n : more[i] = pods[i] /\ i \in 1 .. (n + 1)
  OBVIOUS
<1> HIDE DEF more
<1>3. low \in [1 .. n -> Int] /\ high \in [1 .. (n + 1) -> Int]
  BY <1>1, AmountType
<1>4. \A i \in 1 .. n : high[i] = more[i].pledged /\ low[i] = pods[i].pledged
  BY <1>1, <1>2, AmountType
<1>5. high[n + 1] = more[n + 1].pledged
  BY <1>1, AmountType
<1>6. (\A i \in 1 .. n : high[i] = low[i]) /\ high[n + 1] = pod.pledged
  BY <1>2, <1>4, <1>5
<1>7. Pledges(more) = SumFunction(high) /\ Pledges(pods) = SumFunction(low)
  BY <1>1, PledgesType
<1> HIDE DEF n, low, high
<1>8. SumFunction(high) = SumFunction(low) + high[n + 1]
  BY <1>1, <1>3, <1>6, SumOfLonger
<1> QED
  BY <1>1, <1>6, <1>7, <1>8 DEF more

\* Where one position changes, the sum of the pledges changes by what that one does.
LEMMA PledgesChange ==
  ASSUME NEW pods \in Seq(Pods), NEW k \in DOMAIN pods, NEW pod \in Pods
  PROVE  /\ [pods EXCEPT ![k] = pod] \in Seq(Pods)
         /\ DOMAIN [pods EXCEPT ![k] = pod] = DOMAIN pods
         /\ Pledges([pods EXCEPT ![k] = pod]) = Pledges(pods) + (pod.pledged - pods[k].pledged)
<1> DEFINE less == [pods EXCEPT ![k] = pod]
           n == Len(pods)
           before == Amount(pods)
           after == Amount(less)
<1>1. less \in Seq(Pods) /\ Len(less) = n /\ n \in Nat /\ k \in 1 .. n /\ DOMAIN less = DOMAIN pods
  OBVIOUS
<1>2. less[k] = pod /\ \A i \in 1 .. n : i # k => less[i] = pods[i]
  OBVIOUS
<1> HIDE DEF less
<1>3. before \in [1 .. n -> Int] /\ after \in [1 .. n -> Int]
  BY <1>1, AmountType
<1>4. \A i \in 1 .. n : after[i] = less[i].pledged /\ before[i] = pods[i].pledged
  BY <1>1, AmountType
<1>5. \A i \in 1 .. n : i # k => after[i] = before[i]
  BY <1>2, <1>4
<1>6. after[k] = pod.pledged /\ before[k] = pods[k].pledged
  BY <1>1, <1>2, <1>4
<1>7. Pledges(less) = SumFunction(after) /\ Pledges(pods) = SumFunction(before)
  BY <1>1, PledgesType
<1>8. IsFiniteSet(1 .. n)
  BY <1>1, FS_Interval
<1> DEFINE D == 1 .. n
<1> HIDE DEF n, before, after
<1>9. SumFunction(after) = SumFunction(before) + (after[k] - before[k])
  <2>1. k \in D /\ before \in [D -> Int] /\ after \in [D -> Int] /\ IsFiniteSet(D)
    BY <1>1, <1>3, <1>8
  <2>2. \A i \in D : i # k => after[i] = before[i]
    BY <1>5
  <2> HIDE DEF D
  <2> QED
    BY <2>1, <2>2, SumOfChange
<1> QED
  BY <1>1, <1>6, <1>7, <1>9 DEF less

\* What is in its order is what it was: positions that are sorted pledge the same.
LEMMA PledgesSorted ==
  ASSUME NEW pods \in Seq(Pods), NEW order \in Descending(pods)
  PROVE  /\ [i \in DOMAIN pods |-> pods[order[i]]] \in Seq(Pods)
         /\ Len([i \in DOMAIN pods |-> pods[order[i]]]) = Len(pods)
         /\ Pledges([i \in DOMAIN pods |-> pods[order[i]]]) = Pledges(pods)
<1> DEFINE sorted == [i \in DOMAIN pods |-> pods[order[i]]]
           n == Len(pods)
           before == Amount(pods)
           after == Amount(sorted)
<1>1. n \in Nat /\ DOMAIN pods = 1 .. n /\ \A i \in 1 .. n : pods[i] \in Pods
  OBVIOUS
<1>2. /\ order \in [1 .. n -> 1 .. n]
      /\ \A i, j \in 1 .. n : i < j => Precedes(pods, order[i], order[j])
  BY <1>1 DEF Descending
<1>3. sorted \in Seq(Pods) /\ Len(sorted) = n /\ \A i \in 1 .. n : sorted[i] = pods[order[i]]
  BY <1>1, <1>2
<1> HIDE DEF sorted
<1>4. before \in [1 .. n -> Int] /\ after \in [1 .. n -> Int]
  BY <1>3, AmountType
<1>5. \A i \in 1 .. n : after[i] = sorted[i].pledged /\ before[i] = pods[i].pledged
  BY <1>3, AmountType
<1>6. \A i \in 1 .. n : after[i] = before[order[i]]
  BY <1>2, <1>3, <1>5
<1>7. ASSUME NEW i \in 1 .. n, NEW j \in 1 .. n, order[i] = order[j] PROVE i = j
  <2>1. ASSUME NEW k \in 1 .. n PROVE ~ Precedes(pods, k, k)
    <3>1. pods[k].pledged \in Nat
      BY <1>1, PodIs
    <3> QED
      BY <3>1 DEF Precedes
  <2>2. ~ (i < j) /\ ~ (j < i)
    BY <1>2, <1>7, <2>1
  <2> QED
    BY <2>2
<1>8. Pledges(sorted) = SumFunction(after) /\ Pledges(pods) = SumFunction(before)
  BY <1>3, PledgesType
<1>9. IsFiniteSet(1 .. n)
  BY <1>1, FS_Interval
<1>10. SumFunction(after) = SumFunction(before)
  <2> DEFINE D == 1 .. n
  <2>1. after = [i \in D |-> before[order[i]]]
    BY <1>4, <1>6
  <2>2. order \in Injection(D, D)
    BY <1>2, <1>7 DEF Injection, IsInjective
  <2>3. before \in [D -> Int] /\ IsFiniteSet(D)
    BY <1>4, <1>9
  <2> HIDE DEF D, before, after
  <2>4. SumFunction([i \in D |-> before[order[i]]]) = SumFunction(before)
    BY <2>2, <2>3, SumOfPermuted
  <2> QED
    BY <2>1, <2>4
<1> QED
  BY <1>3, <1>8, <1>10 DEF sorted

\* The loop of Kept, as tlapm sees a recursive function, and a round of it.
KeptStep(pods, F, i) ==
  IF i = 0 THEN <<>>
  ELSE IF pods[i].pledged > Dust THEN Append(F[i - 1], pods[i])
  ELSE F[i - 1]

\* Kept is where the loop ends.
LEMMA KeptIs ==
  ASSUME NEW pods
  PROVE  Kept(pods) = (CHOOSE F : F = [i \in 0 .. Len(pods) |-> KeptStep(pods, F, i)])[Len(pods)]
  BY DEF Kept, KeptStep

\* What is dropped is no longer pledged: nothing else changes the sum.
LEMMA KeptNoMore ==
  ASSUME NEW pods \in Seq(Pods)
  PROVE  Kept(pods) \in Seq(Pods) /\ Pledges(Kept(pods)) <= Pledges(pods)
<1> DEFINE n == Len(pods)
           G == CHOOSE F : F = [i \in 0 .. n |-> KeptStep(pods, F, i)]
           First(i) == [j \in 1 .. i |-> pods[j]]
           T == {i \in 0 .. n : ~ (G[i] \in Seq(Pods) /\ Pledges(G[i]) <= Pledges(First(i)))}
<1>1. n \in Nat /\ \A i \in 1 .. n : pods[i] \in Pods
  OBVIOUS
<1>2. \E F : F = [i \in 0 .. n |-> KeptStep(pods, F, i)]
  <2> DEFINE V == Seq(Pods)
             step == [i \in 1 .. n |-> [v \in V |-> IF pods[i].pledged > Dust
                                                    THEN Append(v, pods[i]) ELSE v]]
  <2>1. \A i \in 1 .. n, v \in V : (IF pods[i].pledged > Dust THEN Append(v, pods[i]) ELSE v) \in V
    BY <1>1
  <2>2. step \in [1 .. n -> [V -> V]]
    BY <2>1
  <2>3. <<>> \in V
    OBVIOUS
  <2> HIDE DEF V, n
  <2>4. \A i \in 1 .. n : \A v \in V :
          step[i][v] = IF pods[i].pledged > Dust THEN Append(v, pods[i]) ELSE v
    OBVIOUS
  <2> HIDE DEF step
  <2>5. PICK F \in [0 .. n -> V] : F[0] = <<>> /\ \A i \in 1 .. n : F[i] = step[i][F[i - 1]]
    <3> DEFINE none == <<>>
    <3>1. n \in Nat /\ none \in V /\ step \in Loops(n, V)
      BY <1>1, <2>2, <2>3 DEF Loops
    <3> HIDE DEF none
    <3>2. PICK F : Computes(F, n, V, none, step)
      BY <3>1, Rounds
    <3> QED
      BY <3>2 DEF Computes, none
  <2>6. ASSUME NEW i \in 0 .. n PROVE F[i] = KeptStep(pods, F, i)
    <3>1. CASE i = 0
      BY <2>5, <3>1 DEF KeptStep
    <3>2. CASE i # 0
      <4>1. i \in 1 .. n /\ i - 1 \in 0 .. n
        BY <1>1, <3>2
      <4>2. F[i - 1] \in V /\ F[i] = step[i][F[i - 1]]
        BY <2>5, <4>1
      <4> QED
        BY <2>4, <3>2, <4>1, <4>2 DEF KeptStep
    <3> QED
      BY <3>1, <3>2
  <2>7. F = [i \in 0 .. n |-> KeptStep(pods, F, i)]
    BY <2>6
  <2> QED
    BY <2>7
<1>3. G = [i \in 0 .. n |-> KeptStep(pods, G, i)]
  BY <1>2
<1>4. Kept(pods) = G[n]
  BY KeptIs
<1> HIDE DEF G
<1>5. \A i \in 0 .. n : G[i] = KeptStep(pods, G, i)
  BY <1>3
<1>6. ASSUME T # {} PROVE FALSE
  <2>1. PICK i \in T : \A j \in T : i <= j
    <3>1. T \subseteq Nat
      OBVIOUS
    <3> HIDE DEF T
    <3> QED
      BY <1>6, <3>1, LeastNat
  <2>2. i \in 0 .. n /\ ~ (G[i] \in Seq(Pods) /\ Pledges(G[i]) <= Pledges(First(i)))
    OBVIOUS
  <2>3. CASE i = 0
    <3>1. G[i] = <<>>
      BY <1>5, <2>2, <2>3 DEF KeptStep
    <3>2. First(i) = <<>>
      BY <2>3
    <3> HIDE DEF First
    <3> QED
      BY <2>2, <3>1, <3>2, PledgesNone
  <2>4. CASE i # 0
    <3> DEFINE k == i - 1
               pod == pods[i]
    <3>1. k \in 0 .. n /\ k \in Nat /\ i = k + 1 /\ i \in 1 .. n /\ ~ (i <= k)
      BY <1>1, <2>2, <2>4
    <3>2. k \notin T
      BY <2>1, <3>1
    <3>3. G[k] \in Seq(Pods) /\ Pledges(G[k]) <= Pledges(First(k))
      <4> HIDE DEF First
      <4> QED
        BY <3>1, <3>2
    <3>4. pod \in Pods
      BY <1>1, <3>1
    <3>5. First(k) \in Seq(Pods) /\ First(i) = Append(First(k), pod)
      BY <1>1, <3>1
    <3>6. G[i] = IF pod.pledged > Dust THEN Append(G[k], pod) ELSE G[k]
      <4>1. G[i] = KeptStep(pods, G, i)
        BY <1>5, <3>1
      <4> QED
        BY <2>4, <4>1 DEF KeptStep
    <3> HIDE DEF T, First, k, pod
    <3>7. Pledges(First(i)) = Pledges(First(k)) + pod.pledged
      BY <3>4, <3>5, PledgesAppend
    <3>8. Pledges(First(k)) \in Nat /\ Pledges(G[k]) \in Nat
      BY <3>3, <3>5, PledgesType
    <3>9. pod.pledged \in Nat
      BY <3>4, PodIs
    <3>10. CASE pod.pledged > Dust
      <4>1. G[i] = Append(G[k], pod)
        BY <3>6, <3>10
      <4>2. G[i] \in Seq(Pods) /\ Pledges(G[i]) = Pledges(G[k]) + pod.pledged
        BY <3>3, <3>4, <4>1, PledgesAppend
      <4> QED
        BY <2>2, <3>3, <3>7, <3>8, <3>9, <4>2
    <3>11. CASE ~ (pod.pledged > Dust)
      <4>1. G[i] = G[k]
        BY <3>6, <3>11
      <4> QED
        BY <2>2, <3>3, <3>7, <3>8, <3>9, <4>1
    <3> QED
      BY <3>10, <3>11
  <2> QED
    BY <2>3, <2>4
<1>7. n \notin T
  BY <1>6
<1>8. G[n] \in Seq(Pods) /\ Pledges(G[n]) <= Pledges(First(n))
  <2> HIDE DEF First
  <2> QED
    BY <1>1, <1>7
<1>9. First(n) = pods
  OBVIOUS
<1> HIDE DEF First
<1> QED
  BY <1>4, <1>8, <1>9

-----------------------------------------------------------------------------
\* What can be taken from a position is a whole number of dollars.
LEMMA SpareType ==
  ASSUME NEW pod \in Pods, NEW at \in Nat
  PROVE  Spare(pod, at) \in Int
<1> DEFINE p == pod.pledged
           x == pod.exposure
<1>1. p \in Nat /\ x \in Int
  <2>1. MaxUnits \in Nat
    BY PositionsAssumption DEF PositionsAssumption
  <2> QED
    BY <2>1, PodIs
<1> HIDE DEF p, x
<1>2. High(p) \in Int /\ Low(p) \in Int /\ Size(x) \in Int
  BY <1>1, CutAndCollar DEF Size
<1>3. x * at \in Int /\ Size(x) * at \in Int
  BY <1>1, <1>2, Integral
<1> DEFINE a == x * at
           b == Size(x) * at
<1>4. Spare(pod, at) = CASE x > 0 -> High(p) - a [] x < 0 -> b - Low(p) [] OTHER -> p
  BY DEF Spare, p, x
<1> HIDE DEF a, b
<1>5. a \in Int /\ b \in Int
  BY <1>3 DEF a, b
<1> QED
  BY <1>1, <1>2, <1>4, <1>5

\* The loop of Remaining, and a round of it.
LeftStep(pods, prices, dollars, F, i) ==
  IF i = 0 THEN dollars
  ELSE IF F[i - 1] = 0 THEN 0
  ELSE F[i - 1] - Lesser(Spare(pods[i], prices[i]), F[i - 1])

\* What remains is where it comes to.
LEMMA RemainingIs ==
  ASSUME NEW pods, NEW prices, NEW dollars
  PROVE  Remaining(pods, prices, dollars) =
           CHOOSE F : F = [i \in 0 .. Len(pods) |-> LeftStep(pods, prices, dollars, F, i)]
  BY DEF Remaining, LeftStep

\* The loop goes through: it computes what remains after each position.
LEMMA RemainingStep ==
  ASSUME NEW pods \in Seq(Pods), NEW prices \in [1 .. Len(pods) -> Nat], NEW dollars \in Nat,
         NEW i \in 0 .. Len(pods)
  PROVE  Remaining(pods, prices, dollars)[i] =
           LeftStep(pods, prices, dollars, Remaining(pods, prices, dollars), i)
<1> DEFINE n == Len(pods)
           G == CHOOSE F : F = [j \in 0 .. n |-> LeftStep(pods, prices, dollars, F, j)]
           spare == [j \in 1 .. n |-> Spare(pods[j], prices[j])]
<1>1. n \in Nat /\ \A j \in 1 .. n : pods[j] \in Pods /\ prices[j] \in Nat
  OBVIOUS
<1>2. spare \in [1 .. n -> Int] /\ \A j \in 1 .. n : spare[j] = Spare(pods[j], prices[j])
  BY <1>1, SpareType
<1> HIDE DEF n, spare
<1> DEFINE step == [j \in 1 .. n |-> [v \in Int |-> IF v = 0 THEN 0 ELSE v - Lesser(spare[j], v)]]
<1>3. \A j \in 1 .. n, v \in Int : (IF v = 0 THEN 0 ELSE v - Lesser(spare[j], v)) \in Int
  BY <1>2 DEF Lesser
<1>4. n \in Nat /\ dollars \in Int /\ step \in Loops(n, Int)
  BY <1>1, <1>3 DEF Loops
<1>5. \A j \in 1 .. n : \A v \in Int : step[j][v] = IF v = 0 THEN 0 ELSE v - Lesser(spare[j], v)
  OBVIOUS
<1> HIDE DEF step
<1>6. PICK F : Computes(F, n, Int, dollars, step)
  BY <1>4, Rounds
<1>7. /\ F \in [0 .. n -> Int] /\ F[0] = dollars
      /\ \A j \in 1 .. n : F[j] = step[j][F[j - 1]]
  BY <1>6 DEF Computes
<1>8. ASSUME NEW j \in 0 .. n PROVE F[j] = LeftStep(pods, prices, dollars, F, j)
  <2>1. CASE j = 0
    BY <1>7, <2>1 DEF LeftStep
  <2>2. CASE j # 0
    <3>1. j \in 1 .. n /\ j - 1 \in 0 .. n
      BY <1>1, <2>2
    <3>2. F[j - 1] \in Int /\ F[j] = step[j][F[j - 1]]
      BY <1>7, <3>1
    <3> DEFINE v == F[j - 1]
    <3>3. F[j] = IF v = 0 THEN 0 ELSE v - Lesser(spare[j], v)
      <4> HIDE DEF v
      <4>1. v \in Int /\ F[j] = step[j][v]
        BY <3>2 DEF v
      <4> QED
        BY <1>5, <3>1, <4>1
    <3>4. spare[j] = Spare(pods[j], prices[j])
      BY <1>2, <3>1
    <3> QED
      BY <2>2, <3>3, <3>4 DEF LeftStep
  <2> QED
    BY <2>1, <2>2
<1>9. F = [j \in 0 .. n |-> LeftStep(pods, prices, dollars, F, j)]
  BY <1>7, <1>8
<1>10. G = [j \in 0 .. n |-> LeftStep(pods, prices, dollars, G, j)]
  BY <1>9
<1>11. Remaining(pods, prices, dollars) = G
  BY RemainingIs DEF n
<1> HIDE DEF G
<1>12. i \in 0 .. n
  BY DEF n
<1>13. G[i] = LeftStep(pods, prices, dollars, G, i)
  BY <1>10, <1>12
<1> QED
  BY <1>11, <1>13

\* Nothing is taken that is not there.
Fits(pods, prices, left) ==
  \A i \in 1 .. Len(pods) : left[i - 1] > 0 =>
    Spare(pods[i], prices[i]) >= 0 /\ left[i - 1] - left[i] <= pods[i].pledged

\* Where nothing is taken that is not there, what remains never grows and never
\* falls below nothing, and each position still pledges what is left of it.
LEMMA TakenType ==
  ASSUME NEW pods \in Seq(Pods), NEW prices \in [1 .. Len(pods) -> Nat], NEW dollars \in Nat,
         NEW left, left = Remaining(pods, prices, dollars), Fits(pods, prices, left)
  PROVE  /\ \A i \in 0 .. Len(pods) : left[i] \in 0 .. dollars
         /\ \A i \in 1 .. Len(pods) : left[i - 1] - left[i] \in 0 .. pods[i].pledged
         /\ left[0] = dollars
<1> DEFINE n == Len(pods)
<1>1. n \in Nat /\ \A i \in 1 .. n : pods[i] \in Pods /\ prices[i] \in Nat
  OBVIOUS
<1>2. \A i \in 0 .. n : left[i] = LeftStep(pods, prices, dollars, left, i)
  BY RemainingStep
<1>3. \A i \in 1 .. n : Spare(pods[i], prices[i]) \in Int
  BY <1>1, SpareType
<1>4. left[0] = dollars
  BY <1>1, <1>2 DEF LeftStep
<1>5. ASSUME NEW i \in 1 .. n, left[i - 1] \in 0 .. dollars
      PROVE  left[i] \in 0 .. left[i - 1]
  <2> DEFINE v == left[i - 1]
             s == Spare(pods[i], prices[i])
  <2>1. i \in 0 .. n /\ i # 0
    BY <1>1
  <2>2. left[i] = LeftStep(pods, prices, dollars, left, i)
    BY <1>2, <2>1
  <2>3. left[i] = IF v = 0 THEN 0 ELSE v - Lesser(s, v)
    BY <2>1, <2>2 DEF LeftStep
  <2>4. v > 0 => s >= 0
    BY DEF Fits
  <2>5. v \in 0 .. dollars /\ s \in Int
    BY <1>3, <1>5
  <2> HIDE DEF v, s
  <2>6. left[i] \in 0 .. v
    BY <2>3, <2>4, <2>5 DEF Lesser
  <2> QED
    BY <2>6 DEF v
<1> DEFINE T == {i \in 0 .. n : left[i] \notin 0 .. dollars}
<1>6. ASSUME T # {} PROVE FALSE
  <2>1. PICK i \in T : \A j \in T : i <= j
    <3>1. T \subseteq Nat
      OBVIOUS
    <3> HIDE DEF T
    <3> QED
      BY <1>6, <3>1, LeastNat
  <2>2. i \in 0 .. n /\ left[i] \notin 0 .. dollars
    OBVIOUS
  <2>3. i # 0
    BY <1>4, <2>2
  <2>4. i \in 1 .. n /\ i - 1 \in 0 .. n /\ ~ (i <= i - 1)
    BY <1>1, <2>2, <2>3
  <2>5. i - 1 \notin T
    BY <2>1, <2>4
  <2>6. left[i - 1] \in 0 .. dollars
    BY <2>4, <2>5
  <2>7. left[i] \in 0 .. left[i - 1]
    BY <1>5, <2>4, <2>6
  <2> HIDE DEF T
  <2> QED
    BY <2>2, <2>6, <2>7
<1>7. \A i \in 0 .. n : left[i] \in 0 .. dollars
  BY <1>6
<1>8. ASSUME NEW i \in 1 .. n PROVE left[i - 1] - left[i] \in 0 .. pods[i].pledged
  <2>1. i - 1 \in 0 .. n
    BY <1>1
  <2>2. left[i - 1] \in 0 .. dollars
    BY <1>7, <2>1
  <2>3. left[i] \in 0 .. left[i - 1]
    BY <1>5, <2>2
  <2>4. pods[i].pledged \in Nat
    BY <1>1, PodIs
  <2>5. left[i - 1] > 0 => left[i - 1] - left[i] <= pods[i].pledged
    BY DEF Fits
  <2> DEFINE v == left[i - 1]
             w == left[i]
             p == pods[i].pledged
  <2>6. v \in 0 .. dollars /\ w \in 0 .. v /\ p \in Nat /\ (v > 0 => v - w <= p)
    BY <2>2, <2>3, <2>4, <2>5
  <2> HIDE DEF v, w, p
  <2>7. v - w \in 0 .. p
    BY <2>6
  <2> QED
    BY <2>7 DEF v, w, p
<1> QED
  BY <1>4, <1>7, <1>8

\* What each of the positions of an account pledges less than it did.
Less(pods, rest, gone) ==
  /\ pods \in Seq(Pods) /\ rest \in Seq(Pods)
  /\ Len(rest) = Len(pods) /\ gone \in [1 .. Len(pods) -> Int]
  /\ \A i \in 1 .. Len(pods) : pods[i].pledged = rest[i].pledged + gone[i]

\* What is taken from the positions of an account is taken from their sum.
LEMMA PledgesLess ==
  ASSUME NEW pods, NEW rest, NEW gone, Less(pods, rest, gone)
  PROVE  Pledges(pods) = Pledges(rest) + SumFunction(gone) /\ SumFunction(gone) \in Int
<1> DEFINE D == 1 .. Len(pods)
           before == Amount(pods)
           after == Amount(rest)
<1>1. before \in [D -> Int] /\ after \in [D -> Int] /\ gone \in [D -> Int]
  BY AmountType DEF Less
<1>2. \A i \in D : before[i] = after[i] + gone[i]
  BY AmountType DEF Less
<1>3. IsFiniteSet(D)
  BY AmountType, FS_Interval
<1>4. Pledges(pods) = SumFunction(before) /\ Pledges(rest) = SumFunction(after)
  BY PledgesType DEF Less
<1> HIDE DEF D, before, after
<1>5. /\ SumFunction(before) = SumFunction(after) + SumFunction(gone)
      /\ SumFunction(gone) \in Int
  BY <1>1, <1>2, <1>3, SumOfSums
<1> QED
  BY <1>4, <1>5

\* A position that pledges less is still one.
LEMMA LessPledged ==
  ASSUME NEW pod \in Pods, NEW p \in Nat
  PROVE  [pod EXCEPT !.pledged = p] \in Pods /\ [pod EXCEPT !.pledged = p].pledged = p
  BY DEF Pods

\* What renege takes from the positions of an account is no longer pledged, and no
\* more than was to be taken is: for each order the positions may be in.
LEMMA RenegedInFair ==
  ASSUME NEW pods \in Seq(Pods), NEW dollars \in Nat, TypeOK,
         NEW order \in Descending(pods), NEW r \in RenegedIn(order, pods, dollars)
  PROVE  /\ r.pods \in Seq(Pods) /\ r.remainder \in 0 .. dollars
         /\ Pledges(r.pods) + (dollars - r.remainder) <= Pledges(pods)
<1> DEFINE n == Len(pods)
           sorted == [i \in DOMAIN pods |-> pods[order[i]]]
           prices == PricesOf(pods)
           left == Remaining(sorted, prices, dollars)
           taken == [i \in DOMAIN sorted |-> left[i - 1] - left[i]]
           rest == [i \in DOMAIN sorted |-> [sorted[i] EXCEPT !.pledged = @ - taken[i]]]
<1>1. /\ n \in Nat /\ sorted \in Seq(Pods) /\ Len(sorted) = n
      /\ Pledges(sorted) = Pledges(pods)
  BY PledgesSorted
<1>2. prices \in [1 .. n -> Nat]
  <2>1. DOMAIN pods = 1 .. n /\ \A i \in 1 .. n : pods[i].ticker \in Tickers
    BY PodIs, AmountType
  <2>2. price \in [Tickers -> 1 .. MaxPrice] /\ MaxPrice \in Nat
    BY PositionsAssumption DEF TypeOK, PositionsAssumption
  <2>3. \A t \in Tickers : price[t] \in Nat
    BY <2>2
  <2> QED
    BY <2>1, <2>3 DEF PricesOf
<1>3. /\ \A i \in DOMAIN sorted : left[i - 1] > 0 =>
           Spare(sorted[i], prices[i]) >= 0 /\ taken[i] <= sorted[i].pledged
      /\ r = [pods |-> Kept(rest), remainder |-> left[n]]
  <2> HIDE DEF sorted, prices, left
  <2> QED
    BY DEF RenegedIn, sorted, prices, left
<1> HIDE DEF n, sorted, prices
<1>4. DOMAIN sorted = 1 .. n /\ \A i \in 1 .. n : sorted[i] \in Pods /\ sorted[i].pledged \in Nat
  BY <1>1, AmountType, PodIs
<1>5. \A i \in 1 .. n : left[i - 1] > 0 =>
        Spare(sorted[i], prices[i]) >= 0 /\ left[i - 1] - left[i] <= sorted[i].pledged
  <2> HIDE DEF left
  <2> QED
    BY <1>3, <1>4
<1>6. /\ \A i \in 0 .. n : left[i] \in 0 .. dollars
      /\ \A i \in 1 .. n : left[i - 1] - left[i] \in 0 .. sorted[i].pledged
      /\ left[0] = dollars
  <2> DEFINE l == left
  <2>1. l = Remaining(sorted, prices, dollars)
    OBVIOUS
  <2>2. sorted \in Seq(Pods) /\ prices \in [1 .. Len(sorted) -> Nat]
    BY <1>1, <1>2
  <2>3. Fits(sorted, prices, l)
    BY <1>1, <1>5 DEF Fits
  <2> HIDE DEF l, left
  <2>4. /\ \A i \in 0 .. Len(sorted) : l[i] \in 0 .. dollars
        /\ \A i \in 1 .. Len(sorted) : l[i - 1] - l[i] \in 0 .. sorted[i].pledged
        /\ l[0] = dollars
    BY <2>1, <2>2, <2>3, TakenType
  <2> QED
    BY <1>1, <2>4 DEF l
<1> HIDE DEF left
<1>7. \A i \in 1 .. n : taken[i] = left[i - 1] - left[i] /\ taken[i] \in 0 .. sorted[i].pledged
  BY <1>4, <1>6
<1>8. \A i \in 1 .. n : sorted[i].pledged - taken[i] \in Nat
  BY <1>4, <1>7
<1>9. \A i \in 1 .. n : rest[i] \in Pods /\ rest[i].pledged = sorted[i].pledged - taken[i]
  <2> HIDE DEF taken
  <2> SUFFICES ASSUME NEW i \in 1 .. n
               PROVE  rest[i] \in Pods /\ rest[i].pledged = sorted[i].pledged - taken[i]
    OBVIOUS
  <2>1. rest[i] = [sorted[i] EXCEPT !.pledged = sorted[i].pledged - taken[i]]
    BY <1>4
  <2> QED
    BY <1>4, <1>8, <2>1, LessPledged
<1>10. rest \in Seq(Pods) /\ Len(rest) = n
  <2>1. DOMAIN rest = 1 .. n
    BY <1>4
  <2> HIDE DEF rest
  <2>2. rest = [i \in 1 .. n |-> rest[i]]
    BY <2>1 DEF rest
  <2> QED
    BY <1>1, <1>9, <2>2
<1> HIDE DEF taken, rest
<1>11. Pledges(rest) = Pledges(sorted) - (dollars - left[n])
  <2> DEFINE gone == [i \in 1 .. n |-> left[i - 1] - left[i]]
             l == [i \in 0 .. n |-> left[i]]
  <2>1. gone \in [1 .. n -> Int] /\ \A i \in 1 .. n : gone[i] = taken[i]
    BY <1>1, <1>6, <1>7
  <2>2. l \in [0 .. n -> Int] /\ \A i \in 0 .. n : l[i] = left[i]
    BY <1>6
  <2>3. \A i \in 1 .. n : gone[i] = l[i - 1] - l[i]
    BY <1>1
  <2>4. l[0] = dollars /\ l[n] = left[n]
    BY <1>1, <1>6
  <2> HIDE DEF gone, l
  <2>5. SumFunction(gone) = dollars - left[n]
    BY <1>1, <2>1, <2>2, <2>3, <2>4, SumOfDifferences
  <2>6. \A i \in 1 .. n : sorted[i].pledged = rest[i].pledged + gone[i]
    BY <1>4, <1>8, <1>9, <2>1
  <2>7. Pledges(sorted) = Pledges(rest) + SumFunction(gone) /\ SumFunction(gone) \in Int
    <3>1. Less(sorted, rest, gone)
      BY <1>1, <1>10, <2>1, <2>6 DEF Less
    <3> QED
      BY <1>1, <1>10, <3>1, PledgesLess
  <2>8. Pledges(rest) \in Nat
    BY <1>10, PledgesType
  <2> QED
    BY <2>5, <2>7, <2>8
<1>12. Kept(rest) \in Seq(Pods) /\ Pledges(Kept(rest)) <= Pledges(rest)
  BY <1>10, KeptNoMore
<1>13. left[n] \in 0 .. dollars
  BY <1>1, <1>6
<1>14. /\ Pledges(Kept(rest)) \in Nat /\ Pledges(rest) \in Nat /\ Pledges(pods) \in Nat
  BY <1>10, <1>12, PledgesType
<1>15. r.pods = Kept(rest) /\ r.remainder = left[n]
  BY <1>3
<1> QED
  BY <1>1, <1>11, <1>12, <1>13, <1>14, <1>15

\* ... so for renege itself.
LEMMA RenegedFair ==
  ASSUME NEW pods \in Seq(Pods), NEW dollars \in Nat, TypeOK, NEW r \in Reneged(pods, dollars)
  PROVE  /\ r.pods \in Seq(Pods) /\ r.remainder \in 0 .. dollars
         /\ Pledges(r.pods) + (dollars - r.remainder) <= Pledges(pods)
<1>1. PICK order \in Descending(pods) : r \in RenegedIn(order, pods, dollars)
  BY DEF Reneged
<1> QED
  BY <1>1, RenegedInFair


-----------------------------------------------------------------------------
\* What the positions of every customer pledge.
Worth(b) == [c \in Customers |-> Pledges(b[c])]

\* The books owe the deposits of the pool and what is pledged.
LEMMA OwedIs == Owed = total + SumFunction(Worth(balances))
  BY DEF Owed, Pledged, Worth

\* The pledges of a customer are summed over all customers but once.
LEMMA WorthChange ==
  ASSUME NEW b \in [Customers -> Seq(Pods)], NEW c \in Customers, NEW pods \in Seq(Pods)
  PROVE  /\ SumFunction(Worth(b)) \in Int /\ SumFunction(Worth([b EXCEPT ![c] = pods])) \in Int
         /\ SumFunction(Worth([b EXCEPT ![c] = pods])) =
              SumFunction(Worth(b)) + (Pledges(pods) - Pledges(b[c]))
<1> DEFINE S == Customers
           f == Worth(b)
           g == Worth([b EXCEPT ![c] = pods])
<1>1. \A a \in S : b[a] \in Seq(Pods) /\ Pledges(b[a]) \in Nat
  BY PledgesType
<1>2. Pledges(pods) \in Nat
  BY PledgesType
<1>3. f \in [S -> Int] /\ \A a \in S : f[a] = Pledges(b[a])
  BY <1>1 DEF Worth
<1>4. /\ g \in [S -> Int] /\ \A a \in S : a # c => g[a] = f[a]
      /\ g[c] = Pledges(pods)
  BY <1>1, <1>2 DEF Worth
<1>5. IsFiniteSet(S) /\ c \in S
  BY PositionsAssumption DEF PositionsAssumption
<1> HIDE DEF S, f, g
<1>6. /\ SumFunction(f) \in Int /\ SumFunction(g) \in Int
      /\ SumFunction(g) = SumFunction(f) + (g[c] - f[c])
  BY <1>3, <1>4, <1>5, SumOfChange
<1>7. f[c] = Pledges(b[c])
  BY <1>3, <1>5
<1> QED
  BY <1>4, <1>6, <1>7 DEF f, g

\* The pledges of all customers come to a natural number of dollars.
LEMMA WorthType ==
  ASSUME NEW b \in [Customers -> Seq(Pods)]
  PROVE  SumFunction(Worth(b)) \in Nat
<1> DEFINE f == Worth(b)
<1>1. \A c \in Customers : Pledges(b[c]) \in Nat
  BY PledgesType
<1>2. f \in [Customers -> Nat] /\ IsFiniteSet(Customers)
  BY <1>1, PositionsAssumption DEF Worth, PositionsAssumption
<1> HIDE DEF f
<1>3. SumFunction(f) \in Nat
  BY <1>2, SumOfNats
<1> QED
  BY <1>3 DEF f

\* A step after which the state is still well typed, the vault covers the books as
\* well as before, and nobody has more unless tokens came in.
Covered == vault' - Owed' >= vault - Owed
Earned == \A c \in Customers : Claims(c)' > Claims(c) => vault' > vault
Honest == TypeOK' /\ Covered /\ Earned

\* What an instruction books makes an honest step if what it books for the pool
\* and pledges is not more than the tokens that come in, and if they do come in
\* where its customer has more than before.
LEMMA BookHonest ==
  ASSUME TypeOK, NEW c \in Customers, NEW pods \in Seq(Pods), NEW dep \in Int,
         NEW dollars \in Int, NEW tokens \in Int,
         dollars + Pledges(pods) - Pledges(balances[c]) <= tokens,
         dep + Pledges(pods) > deposited[c] + Pledges(balances[c]) => tokens > 0,
         Book(c, pods, dep, dollars, tokens)
  PROVE  Honest
<1>1. /\ balances' = [balances EXCEPT ![c] = pods] /\ deposited' = [deposited EXCEPT ![c] = dep]
      /\ total' = total + dollars /\ vault' = vault + tokens /\ price' = price
      /\ dep \in 0 .. MaxVault /\ total + dollars >= 0 /\ vault + tokens \in 0 .. MaxVault
  BY DEF Book
<1>2. /\ price \in [Tickers -> 1 .. MaxPrice] /\ deposited \in [Customers -> 0 .. MaxVault]
      /\ balances \in [Customers -> Seq(Pods)] /\ total \in Nat /\ vault \in 0 .. MaxVault
  BY DEF TypeOK
<1>3. MaxVault \in Nat
  BY PositionsAssumption DEF PositionsAssumption
<1>4. TypeOK'
  <2>1. balances' \in [Customers -> Seq(Pods)] /\ deposited' \in [Customers -> 0 .. MaxVault]
    BY <1>1, <1>2
  <2>2. total' \in Nat
    BY <1>1, <1>2
  <2> QED
    BY <1>1, <1>2, <2>1, <2>2 DEF TypeOK
<1>5. vault \in Int /\ vault' \in Int /\ total \in Int /\ total' \in Int
  BY <1>1, <1>2, <1>3
<1>6. Covered
  <2> DEFINE before == SumFunction(Worth(balances))
             after == SumFunction(Worth(balances'))
             lost == Pledges(balances[c])
             got == Pledges(pods)
  <2>1. before \in Int /\ after \in Int /\ after = before + (got - lost)
    BY <1>1, <1>2, WorthChange
  <2>2. got \in Nat /\ lost \in Nat
    BY <1>2, PledgesType
  <2>3. Owed = total + before /\ Owed' = total' + after
    <3>1. Owed' = total' + after
      BY DEF Owed, Pledged, Worth
    <3> QED
      BY <3>1, OwedIs
  <2> HIDE DEF before, after, lost, got
  <2>4. dollars + got - lost <= tokens
    BY DEF got, lost
  <2> QED
    BY <1>1, <1>5, <2>1, <2>2, <2>3, <2>4 DEF Covered
<1>7. Earned
  <2> SUFFICES ASSUME NEW a \in Customers, Claims(a)' > Claims(a) PROVE vault' > vault
    BY DEF Earned
  <2>1. Claims(a) = deposited[a] + Pledges(balances[a])
    BY DEF Claims, Pledged
  <2>2. Claims(a)' = deposited'[a] + Pledges(balances'[a])
    BY DEF Claims, Pledged, Pledges
  <2>3. /\ deposited[a] \in Int /\ Pledges(balances[a]) \in Nat
    BY <1>2, <1>3, PledgesType
  <2>4. a = c
    <3> SUFFICES ASSUME a # c PROVE FALSE
      OBVIOUS
    <3>1. deposited'[a] = deposited[a] /\ balances'[a] = balances[a]
      BY <1>1, <1>2
    <3> QED
      BY <2>1, <2>2, <2>3, <3>1
  <2>5. deposited'[a] = dep /\ balances'[a] = pods
    BY <1>1, <1>2, <2>4
  <2>6. dep + Pledges(pods) > deposited[c] + Pledges(balances[c])
    BY <2>1, <2>2, <2>4, <2>5
  <2> QED
    BY <1>1, <1>5, <2>6
<1> QED
  BY <1>4, <1>6, <1>7 DEF Honest


\* The position of a customer on a ticker is one of its account.
LEMMA AtIs ==
  ASSUME TypeOK, NEW c \in Customers, NEW t \in Tickers, HasPosition(c, t)
  PROVE  /\ balances[c] \in Seq(Pods) /\ At(c, t) \in DOMAIN balances[c]
         /\ balances[c][At(c, t)] \in Pods /\ balances[c][At(c, t)].ticker = t
<1>1. balances[c] \in Seq(Pods)
  BY DEF TypeOK
<1>2. At(c, t) \in DOMAIN balances[c] /\ balances[c][At(c, t)].ticker = t
  BY DEF HasPosition, At
<1> QED
  BY <1>1, <1>2, AmountType

\* Dollars that are added to a position, or taken off, change the sum by as much.
LEMMA AdjustedPledges ==
  ASSUME TypeOK, NEW c \in Customers, NEW t \in Tickers, HasPosition(c, t), NEW dollars \in Int,
         balances[c][At(c, t)].pledged + dollars >= 0
  PROVE  /\ Adjusted(c, t, dollars) \in Seq(Pods)
         /\ Pledges(Adjusted(c, t, dollars)) = Pledges(balances[c]) + dollars
<1> DEFINE pods == balances[c]
           k == At(c, t)
           p == pods[k].pledged + dollars
           pod == [pods[k] EXCEPT !.pledged = p]
<1>1. pods \in Seq(Pods) /\ k \in DOMAIN pods /\ pods[k] \in Pods
  BY AtIs
<1>2. pods[k].pledged \in Nat /\ p \in Nat
  BY <1>1, PodIs
<1>3. Adjusted(c, t, dollars) = [pods EXCEPT ![k] = pod]
  BY DEF Adjusted
<1>4. p = pods[k].pledged + dollars
  OBVIOUS
<1> HIDE DEF pods, k, p
<1>5. pod \in Pods /\ pod.pledged = p
  BY <1>1, <1>2, LessPledged
<1> HIDE DEF pod
<1>6. /\ [pods EXCEPT ![k] = pod] \in Seq(Pods)
      /\ Pledges([pods EXCEPT ![k] = pod]) = Pledges(pods) + (pod.pledged - pods[k].pledged)
  BY <1>1, <1>5, PledgesChange
<1>7. pod.pledged - pods[k].pledged = dollars
  BY <1>2, <1>4, <1>5
<1> QED
  BY <1>3, <1>6, <1>7 DEF pods

\* A price changes: nothing is booked.
LEMMA TradeHonest ==
  ASSUME TypeOK, NEW t \in Tickers, NEW at \in 1 .. MaxPrice, Trade(t, at)
  PROVE  Honest
<1>1. UNCHANGED <<deposited, balances, total, vault>> /\ price' = [price EXCEPT ![t] = at]
  BY DEF Trade
<1>2. TypeOK'
  BY <1>1 DEF TypeOK
<1>3. Owed' = Owed /\ \A c \in Customers : Claims(c)' = Claims(c)
  BY <1>1 DEF Owed, Pledged, Claims, Pledges
<1>4. Owed \in Int /\ vault \in Int /\ \A c \in Customers : Claims(c) \in Int
  <2>1. deposited \in [Customers -> 0 .. MaxVault] /\ balances \in [Customers -> Seq(Pods)]
        /\ total \in Nat /\ vault \in 0 .. MaxVault /\ MaxVault \in Nat
    BY PositionsAssumption DEF TypeOK, PositionsAssumption
  <2>2. \A c \in Customers : Pledges(balances[c]) \in Nat
    BY <2>1, PledgesType
  <2>4. SumFunction(Worth(balances)) \in Nat
    BY <2>1, WorthType
  <2>5. \A c \in Customers : Claims(c) \in Int
    BY <2>1, <2>2 DEF Claims, Pledged
  <2> QED
    BY <2>1, <2>4, <2>5, OwedIs
<1> QED
  BY <1>1, <1>2, <1>3, <1>4 DEF Honest, Covered, Earned

\* What the lemmas about instructions start from.
LEMMA BookTypes ==
  ASSUME TypeOK, NEW c \in Customers
  PROVE  /\ balances[c] \in Seq(Pods) /\ Pledges(balances[c]) \in Nat
         /\ deposited[c] \in Nat /\ deposited[c] \in Int
<1>1. balances[c] \in Seq(Pods) /\ deposited[c] \in 0 .. MaxVault /\ MaxVault \in Nat
  BY PositionsAssumption DEF TypeOK, PositionsAssumption
<1> QED
  BY <1>1, PledgesType

\* A deposit.
LEMMA DepositHonest ==
  ASSUME TypeOK, NEW c \in Customers, NEW dollars \in Nat \ {0}, Deposit(c, dollars)
  PROVE  Honest
<1> DEFINE pods == balances[c]
           dep == deposited[c] + dollars
<1>1. pods \in Seq(Pods) /\ Pledges(pods) \in Nat /\ dep \in Int
  BY BookTypes
<1>2. dollars + Pledges(pods) - Pledges(balances[c]) <= dollars /\ dollars > 0
  BY <1>1
<1>3. Book(c, pods, dep, dollars, dollars)
  BY DEF Deposit
<1> HIDE DEF pods, dep
<1> QED
  BY <1>1, <1>2, <1>3, BookHonest

\* Dollars are pledged.
LEMMA PledgeHonest ==
  ASSUME TypeOK, NEW c \in Customers, NEW t \in Tickers, NEW dollars \in Nat \ {0},
         Pledge(c, t, dollars)
  PROVE  Honest
<1> DEFINE pods == IF HasPosition(c, t) THEN Adjusted(c, t, dollars) ELSE Opened(c, t, dollars)
           rest == Kept(pods)
           dep == deposited[c]
<1>1. balances[c] \in Seq(Pods) /\ Pledges(balances[c]) \in Nat /\ dep \in Int
  BY BookTypes
<1>2. pods \in Seq(Pods) /\ Pledges(pods) = Pledges(balances[c]) + dollars
  <2>1. CASE HasPosition(c, t)
    <3>1. balances[c][At(c, t)].pledged \in Nat
      BY <2>1, AtIs, PodIs
    <3>2. balances[c][At(c, t)].pledged + dollars >= 0 /\ dollars \in Int
      BY <3>1
    <3> QED
      BY <2>1, <3>2, AdjustedPledges
  <2>2. CASE ~HasPosition(c, t)
    <3> DEFINE pod == [ticker |-> t, pledged |-> dollars, exposure |-> 0]
    <3>1. pod \in Pods /\ pod.pledged = dollars
      BY PositionsAssumption DEF Pods, PositionsAssumption
    <3>2. pods = Append(balances[c], pod)
      BY <2>2 DEF Opened
    <3> HIDE DEF pod
    <3> QED
      BY <1>1, <3>1, <3>2, PledgesAppend
  <2> QED
    BY <2>1, <2>2
<1>3. Book(c, rest, dep, 0, dollars)
  BY DEF Pledge
<1> HIDE DEF pods
<1>4. rest \in Seq(Pods) /\ Pledges(rest) <= Pledges(pods)
  BY <1>2, KeptNoMore
<1>5. Pledges(rest) \in Nat
  BY <1>4, PledgesType
<1>6. 0 + Pledges(rest) - Pledges(balances[c]) <= dollars /\ dollars > 0
  BY <1>1, <1>2, <1>4, <1>5
<1> HIDE DEF rest, dep
<1> QED
  BY <1>1, <1>3, <1>4, <1>6, BookHonest

\* What is paid from the pool is taken off its books, what was taken from the
\* pledges no longer is one, and nobody has more deposits than before.
LEMMA FromPoolHonest ==
  ASSUME TypeOK, NEW c \in Customers, NEW pods \in Seq(Pods), NEW taken \in Nat,
         NEW remainder \in Nat, Pledges(pods) + taken <= Pledges(balances[c]),
         FromPool(c, pods, taken, remainder)
  PROVE  Honest
<1>1. PICK value \in 0 .. remainder :
        Book(c, pods, deposited[c] - Lesser(deposited[c], value), -value, -(taken + value))
  BY DEF FromPool
<1> DEFINE dep == deposited[c] - Lesser(deposited[c], value)
           tokens == -(taken + value)
           dollars == -value
<1>2. /\ Pledges(balances[c]) \in Nat /\ Pledges(pods) \in Nat /\ deposited[c] \in Nat
  BY BookTypes, PledgesType
<1>3. dep \in Int /\ dep <= deposited[c]
  BY <1>2 DEF Lesser
<1>4. tokens \in Int /\ dollars \in Int
      /\ dollars + Pledges(pods) - Pledges(balances[c]) <= tokens
      /\ ~ (dep + Pledges(pods) > deposited[c] + Pledges(balances[c]))
  BY <1>2, <1>3
<1>5. Book(c, pods, dep, dollars, tokens)
  BY <1>1
<1> HIDE DEF dep, tokens, dollars
<1> QED
  BY <1>3, <1>4, <1>5, BookHonest

\* A withdrawal from the pool only.
LEMMA WithdrawHonest ==
  ASSUME TypeOK, NEW c \in Customers, NEW dollars \in Nat \ {0}, Withdraw(c, dollars)
  PROVE  Honest
<1>1. balances[c] \in Seq(Pods) /\ Pledges(balances[c]) + 0 <= Pledges(balances[c])
  BY BookTypes
<1>2. FromPool(c, balances[c], 0, dollars) /\ dollars \in Nat /\ 0 \in Nat
  BY DEF Withdraw
<1> DEFINE pods == balances[c]
<1>3. pods \in Seq(Pods) /\ Pledges(pods) + 0 <= Pledges(balances[c]) /\ FromPool(c, pods, 0, dollars)
  BY <1>1, <1>2
<1> HIDE DEF pods
<1> QED
  BY <1>2, <1>3, FromPoolHonest

\* A withdrawal from the pledges first.
LEMMA WithdrawPledgesHonest ==
  ASSUME TypeOK, NEW c \in Customers, NEW dollars \in Nat \ {0}, WithdrawPledges(c, dollars)
  PROVE  Honest
<1>1. PICK r \in Reneged(balances[c], dollars) :
        FromPool(c, r.pods, dollars - r.remainder, r.remainder)
  BY DEF WithdrawPledges
<1> DEFINE had == balances[c]
<1>2. had \in Seq(Pods) /\ dollars \in Nat /\ r \in Reneged(had, dollars)
  BY BookTypes
<1> HIDE DEF had
<1>3. /\ r.pods \in Seq(Pods) /\ r.remainder \in 0 .. dollars
      /\ Pledges(r.pods) + (dollars - r.remainder) <= Pledges(had)
  BY <1>2, RenegedFair
<1> DEFINE pods == r.pods
           taken == dollars - r.remainder
           remainder == r.remainder
<1>4. taken \in Nat /\ remainder \in Nat /\ pods \in Seq(Pods)
      /\ Pledges(pods) + taken <= Pledges(balances[c])
      /\ FromPool(c, pods, taken, remainder)
  BY <1>1, <1>3 DEF had
<1> HIDE DEF pods, taken, remainder
<1> QED
  BY <1>4, FromPoolHonest

\* Dollars are taken off a position.
LEMMA UnpledgeHonest ==
  ASSUME TypeOK, NEW c \in Customers, NEW t \in Tickers, NEW dollars \in Nat \ {0},
         Unpledge(c, t, dollars)
  PROVE  Honest
<1> DEFINE less == -dollars
           pods == Adjusted(c, t, less)
           rest == Kept(pods)
           dep == deposited[c]
<1>1. balances[c] \in Seq(Pods) /\ Pledges(balances[c]) \in Nat /\ dep \in Int
  BY BookTypes
<1>2. /\ HasPosition(c, t) /\ balances[c][At(c, t)].pledged >= dollars
      /\ Book(c, rest, dep, 0, less)
  BY DEF Unpledge
<1>3. less \in Int /\ less + dollars = 0
  OBVIOUS
<1> HIDE DEF less
<1>4. pods \in Seq(Pods) /\ Pledges(pods) = Pledges(balances[c]) + less
  <2>1. balances[c][At(c, t)].pledged \in Nat
    BY <1>2, AtIs, PodIs
  <2>2. balances[c][At(c, t)].pledged + less >= 0
    BY <1>2, <1>3, <2>1
  <2> QED
    BY <1>2, <1>3, <2>2, AdjustedPledges
<1> HIDE DEF pods
<1>5. rest \in Seq(Pods) /\ Pledges(rest) <= Pledges(pods)
  BY <1>4, KeptNoMore
<1>6. Pledges(rest) \in Nat
  BY <1>5, PledgesType
<1> HIDE DEF rest
<1>7. /\ 0 + Pledges(rest) - Pledges(balances[c]) <= less
      /\ ~ (dep + Pledges(rest) > deposited[c] + Pledges(balances[c]))
  BY <1>1, <1>3, <1>4, <1>5, <1>6
<1> HIDE DEF dep
<1> QED
  BY <1>1, <1>2, <1>3, <1>5, <1>7, BookHonest


\* What repo makes of a position is booked in its place, with the sum changed by
\* as much as the position's pledge.
LEMMA AfterFair ==
  ASSUME TypeOK, NEW c \in Customers, NEW t \in Tickers, NEW units \in Int,
         NEW r \in Repos(c, t, units)
  PROVE  \E p \in Nat :
           /\ Fair(p, deposited[c], units, r)
           /\ After(c, t, r) \in Seq(Pods) /\ r.pledged \in Nat
           /\ Pledges(After(c, t, r)) = Pledges(balances[c]) + (r.pledged - p)
<1>1. HasPosition(c, t) /\ r \in Repo(balances[c][At(c, t)], deposited[c], units, price[t])
  <2>1. HasPosition(c, t)
    BY DEF Repos
  <2> QED
    BY <2>1 DEF Repos
<1> DEFINE pods == balances[c]
           k == At(c, t)
           pod == pods[k]
           p == pod.pledged
           dep == deposited[c]
           at == price[t]
           new == [ticker |-> t, pledged |-> r.pledged, exposure |-> r.exposure]
<1>2. pods \in Seq(Pods) /\ k \in DOMAIN pods /\ pod \in Pods
  BY <1>1, AtIs
<1>3. p \in Nat /\ pod.exposure \in Int /\ dep \in Nat
  <2>1. MaxUnits \in Nat
    BY PositionsAssumption DEF PositionsAssumption
  <2> QED
    BY <1>2, <2>1, PodIs, BookTypes
<1>4. at \in Nat \ {0}
  BY PositionsAssumption DEF TypeOK, PositionsAssumption
<1>5. r \in Repo(pod, dep, units, at)
  BY <1>1
<1>6. After(c, t, r) = [pods EXCEPT ![k] = new]
  BY DEF After
<1> HIDE DEF pods, k, dep, at
<1>7. Fair(p, dep, units, r) /\ r.pledged \in Nat /\ r.exposure \in -MaxUnits .. MaxUnits
  <2> HIDE DEF pod
  <2> QED
    BY <1>3, <1>4, <1>5, RepoFair
<1>8. new \in Pods /\ new.pledged = r.pledged
  BY <1>7 DEF Pods
<1> HIDE DEF new
<1>9. /\ [pods EXCEPT ![k] = new] \in Seq(Pods)
      /\ Pledges([pods EXCEPT ![k] = new]) = Pledges(pods) + (new.pledged - pods[k].pledged)
  BY <1>2, <1>8, PledgesChange
<1> QED
  BY <1>3, <1>6, <1>7, <1>8, <1>9 DEF pods, dep

\* The numbers of what repo may make.
LEMMA FairTypes ==
  ASSUME NEW p \in Nat, NEW dep \in Nat, NEW units \in Int, NEW r, Fair(p, dep, units, r)
  PROVE  /\ r.pledged \in Int /\ r.deposited \in Int /\ r.delta \in Int /\ r.interest \in Nat
         /\ r.deposited + r.pledged <= dep + p
         /\ r.pledged + r.interest <= p + Size(r.delta)
  BY DEF Fair, Results

\* handle_out with exposure.
LEMMA RepositionHonest ==
  ASSUME TypeOK, NEW c \in Customers, NEW t \in Tickers, NEW units \in Int,
         Reposition(c, t, units)
  PROVE  Honest
<1>1. PICK r \in Repos(c, t, units) :
        Book(c, After(c, t, r), r.deposited, Retained(r) - Size(r.delta),
             IF r.delta < 0 THEN -r.interest ELSE 0)
  BY DEF Reposition
<1> DEFINE pods == After(c, t, r)
           dep == r.deposited
           dollars == Retained(r) - Size(r.delta)
           tokens == IF r.delta < 0 THEN -r.interest ELSE 0
<1>2. PICK p \in Nat :
        /\ Fair(p, deposited[c], units, r)
        /\ pods \in Seq(Pods) /\ r.pledged \in Nat
        /\ Pledges(pods) = Pledges(balances[c]) + (r.pledged - p)
  BY <1>1, AfterFair
<1>3. Pledges(balances[c]) \in Nat /\ deposited[c] \in Nat
  BY BookTypes
<1>4. /\ r.pledged \in Int /\ dep \in Int /\ r.delta \in Int /\ r.interest \in Nat
      /\ dep + r.pledged <= deposited[c] + p
      /\ r.pledged + r.interest <= p + Size(r.delta)
  BY <1>2, <1>3, FairTypes
<1>5. Size(r.delta) \in Nat
  BY <1>4 DEF Size
<1>6. dollars \in Int /\ tokens \in Int
  BY <1>4, <1>5 DEF Retained
<1> DEFINE owed == Pledges(balances[c])
           owes == Pledges(pods)
           size == Size(r.delta)
<1>7. dollars + owes - owed <= tokens
  <2> HIDE DEF owed, owes, size, pods
  <2>1. owed \in Nat /\ owes = owed + (r.pledged - p) /\ size \in Nat
        /\ r.pledged + r.interest <= p + size
    BY <1>2, <1>3, <1>4, <1>5 DEF owed, owes, size
  <2>2. CASE r.delta < 0
    <3>1. dollars = 0 - size /\ tokens = -r.interest
      BY <2>2 DEF Retained, size
    <3> QED
      BY <1>2, <1>4, <2>1, <3>1
  <2>3. CASE ~(r.delta < 0)
    <3>1. dollars = r.interest - size /\ tokens = 0
      BY <2>3 DEF Retained, size
    <3> QED
      BY <1>2, <1>4, <2>1, <3>1
  <2> QED
    BY <2>2, <2>3
<1>8. ~ (dep + owes > deposited[c] + owed)
  <2> HIDE DEF dep, owed, owes, pods
  <2>1. owed \in Nat /\ owes = owed + (r.pledged - p)
    BY <1>2, <1>3 DEF owed, owes
  <2> QED
    BY <1>2, <1>3, <1>4, <2>1
<1>9. Book(c, pods, dep, dollars, tokens)
  BY <1>1
<1> HIDE DEF dep, dollars, tokens, pods
<1> QED
  BY <1>2, <1>4, <1>6, <1>7, <1>8, <1>9, BookHonest

\* A liquidator's slice.
LEMMA ShrinkHonest ==
  ASSUME TypeOK, NEW c \in Customers, NEW t \in Tickers, Shrink(c, t)
  PROVE  Honest
<1>1. PICK r \in Repos(c, t, 0) :
        /\ r.delta < 0
        /\ Book(c, After(c, t, r), r.deposited, r.interest + CutOff(-r.delta),
                -(Size(r.delta) \div Cut))
  BY DEF Shrink
<1> DEFINE pods == After(c, t, r)
           dep == r.deposited
           dollars == r.interest + CutOff(-r.delta)
           tokens == -(Size(r.delta) \div Cut)
<1>2. PICK p \in Nat :
        /\ Fair(p, deposited[c], 0, r)
        /\ pods \in Seq(Pods) /\ r.pledged \in Nat
        /\ Pledges(pods) = Pledges(balances[c]) + (r.pledged - p)
  BY <1>1, AfterFair
<1>3. Pledges(balances[c]) \in Nat /\ deposited[c] \in Nat
  BY BookTypes
<1>4. /\ r.pledged \in Int /\ dep \in Int /\ r.delta \in Int /\ r.interest \in Nat
      /\ dep + r.pledged <= deposited[c] + p
  BY <1>2, <1>3, FairTypes
<1>5. r.pledged + r.interest + Size(r.delta) <= p
  BY <1>1, <1>2 DEF Fair
<1> DEFINE size == -r.delta
           part == size \div Cut
<1>6. size \in Nat /\ Size(r.delta) = size
  BY <1>1, <1>4 DEF Size
<1>7. part \in Nat /\ CutOff(size) = size - part
  <2> HIDE DEF size
  <2>1. size \div Cut \in 0 .. size
    BY <1>6, CutAndCollar
  <2> QED
    BY <1>6, <2>1 DEF CutOff
<1>8. dollars = r.interest + (size - part) /\ tokens = -part
  BY <1>6, <1>7
<1>9. Book(c, pods, dep, dollars, tokens)
  BY <1>1
<1> HIDE DEF pods, dep, dollars, tokens, part
<1>10. dollars \in Int /\ tokens \in Int
  <2> HIDE DEF size
  <2> QED
    BY <1>4, <1>6, <1>7, <1>8
<1> DEFINE owed == Pledges(balances[c])
           owes == Pledges(pods)
<1>11. owed \in Nat /\ owes = owed + (r.pledged - p)
  BY <1>2, <1>3
<1> HIDE DEF owed, owes
<1>12. dollars + owes - owed <= tokens
  <2> DEFINE left == r.pledged
             fee == r.interest
  <2>1. left \in Nat /\ fee \in Nat /\ left + fee + size <= p
    BY <1>2, <1>4, <1>5, <1>6
  <2>2. /\ owed \in Nat /\ owes = owed + (left - p) /\ size \in Nat /\ part \in Nat
        /\ dollars = fee + (size - part) /\ tokens = -part
    BY <1>6, <1>7, <1>8, <1>11
  <2> HIDE DEF size, left, fee
  <2> QED
    BY <2>1, <2>2
<1>13. ~ (dep + owes > deposited[c] + owed)
  <2> HIDE DEF size
  <2> QED
    BY <1>2, <1>3, <1>4, <1>11
<1> QED
  BY <1>2, <1>4, <1>9, <1>10, <1>12, <1>13, BookHonest DEF owed, owes

\* A position that is saved.
LEMMA SaveHonest ==
  ASSUME TypeOK, NEW c \in Customers, NEW t \in Tickers, Save(c, t)
  PROVE  Honest
<1>1. PICK r \in Repos(c, t, 0) :
        /\ r.delta > 0
        /\ \E s \in Reneged(After(c, t, r), r.delta) :
             Book(c, s.pods, r.deposited + Credited(r, s), r.interest - s.remainder,
                  -(r.delta \div Cut))
  BY DEF Save
<1> DEFINE raised == After(c, t, r)
           owed == Pledges(balances[c])
           held == deposited[c]
           left == r.pledged
           own == r.deposited
           delta == r.delta
           fee == r.interest
<1>2. PICK p \in Nat :
        /\ Fair(p, deposited[c], 0, r)
        /\ raised \in Seq(Pods) /\ r.pledged \in Nat
        /\ Pledges(raised) = Pledges(balances[c]) + (r.pledged - p)
  BY <1>1, AfterFair
<1>3. owed \in Nat /\ held \in Nat
  BY BookTypes
<1>4. /\ left \in Nat /\ own \in Int /\ delta \in Int /\ fee \in Nat
      /\ own + left <= held + p
  BY <1>2, <1>3, FairTypes
<1>5. left + fee <= p + CutOff(delta) /\ delta > 0
  BY <1>1, <1>2 DEF Fair
<1>6. raised \in Seq(Pods) /\ Pledges(raised) = owed + (left - p)
  BY <1>2
<1>7. PICK s \in Reneged(raised, delta) :
        Book(c, s.pods, own + Credited(r, s), fee - s.remainder, -(delta \div Cut))
  BY <1>1
<1>8. \A z : Credited(r, z) = delta - z.remainder
  BY DEF Credited
<1> HIDE DEF raised, owed, held, left, own, delta, fee
<1>9. delta \in Nat
  BY <1>4, <1>5
<1> DEFINE pods == s.pods
           rest == s.remainder
           owes == Pledges(pods)
           part == delta \div Cut
           dep == own + Credited(r, s)
           dollars == fee - rest
           tokens == -part
<1>10. /\ pods \in Seq(Pods) /\ rest \in 0 .. delta
       /\ owes + (delta - rest) <= Pledges(raised)
  BY <1>6, <1>9, RenegedFair
<1>11. part \in Nat /\ CutOff(delta) = delta - part
  <2>1. delta \div Cut \in 0 .. delta
    BY <1>9, CutAndCollar
  <2> QED
    BY <1>9, <2>1 DEF CutOff
<1>12. dep = own + (delta - rest) /\ dollars = fee - rest /\ tokens = -part
  BY <1>8
<1>13. Book(c, pods, dep, dollars, tokens)
  BY <1>7
<1>14. owes \in Nat
  BY <1>10, PledgesType
<1> HIDE DEF pods, rest, owes, part, dep, dollars, tokens
<1>15. dep \in Int /\ dollars \in Int /\ tokens \in Int
  BY <1>4, <1>9, <1>10, <1>11, <1>12
<1>16. owes + (delta - rest) <= owed + (left - p)
  BY <1>6, <1>10
<1>17. dollars + owes - owed <= tokens
  <2>1. left + fee <= p + (delta - part)
    BY <1>5, <1>11
  <2> QED
    BY <1>3, <1>4, <1>9, <1>10, <1>11, <1>12, <1>14, <1>16, <2>1
<1>18. ~ (dep + owes > held + owed)
  BY <1>3, <1>4, <1>9, <1>10, <1>12, <1>14, <1>16
<1>19. /\ dollars + Pledges(pods) - Pledges(balances[c]) <= tokens
       /\ dep + Pledges(pods) > deposited[c] + Pledges(balances[c]) => tokens > 0
  BY <1>17, <1>18 DEF owes, owed, held
<1> QED
  BY <1>10, <1>13, <1>15, <1>19, BookHonest

-----------------------------------------------------------------------------
\* Whatever instruction is executed, or none is.
LEMMA StepHonest ==
  ASSUME TypeOK, [Next]_vars
  PROVE  TypeOK' /\ (Honest \/ UNCHANGED vars)
<1>1. /\ \A dollars \in Amounts : dollars \in Nat \ {0}
      /\ \A units \in Units \cup {-u : u \in Units} : units \in Int
  BY PositionsAssumption DEF PositionsAssumption
<1>2. ASSUME NEW t \in Tickers, NEW at \in 1 .. MaxPrice, Trade(t, at) PROVE Honest
  BY <1>2, TradeHonest
<1>3. ASSUME NEW c \in Customers, NEW dollars \in Amounts,
             Deposit(c, dollars) \/ Withdraw(c, dollars) \/ WithdrawPledges(c, dollars)
      PROVE  Honest
  <2>1. dollars \in Nat \ {0}
    BY <1>1
  <2>2. CASE Deposit(c, dollars)
    BY <2>1, <2>2, DepositHonest
  <2>3. CASE Withdraw(c, dollars)
    BY <2>1, <2>3, WithdrawHonest
  <2>4. CASE WithdrawPledges(c, dollars)
    BY <2>1, <2>4, WithdrawPledgesHonest
  <2> QED
    BY <1>3, <2>2, <2>3, <2>4
<1>4. ASSUME NEW c \in Customers, NEW t \in Tickers, NEW dollars \in Amounts,
             Pledge(c, t, dollars) \/ Unpledge(c, t, dollars)
      PROVE  Honest
  <2>1. dollars \in Nat \ {0}
    BY <1>1
  <2>2. CASE Pledge(c, t, dollars)
    BY <2>1, <2>2, PledgeHonest
  <2>3. CASE Unpledge(c, t, dollars)
    BY <2>1, <2>3, UnpledgeHonest
  <2> QED
    BY <1>4, <2>2, <2>3
<1>5. ASSUME NEW c \in Customers, NEW t \in Tickers,
             NEW units \in Units \cup {-u : u \in Units}, Reposition(c, t, units)
      PROVE  Honest
  <2>1. units \in Int
    BY <1>1
  <2> QED
    BY <1>5, <2>1, RepositionHonest
<1>6. ASSUME NEW c \in Customers, NEW t \in Tickers, Shrink(c, t) PROVE Honest
  BY <1>6, ShrinkHonest
<1>7. ASSUME NEW c \in Customers, NEW t \in Tickers, Save(c, t) PROVE Honest
  BY <1>7, SaveHonest
<1>8. CASE UNCHANGED vars
  BY <1>8 DEF vars, TypeOK
<1>9. CASE Next
  <2>1. Honest
    BY <1>2, <1>3, <1>4, <1>5, <1>6, <1>7, <1>9 DEF Next
  <2> QED
    BY <2>1 DEF Honest
<1> QED
  BY <1>8, <1>9

\* The prices, the accounts, the books and the vault keep their types: no
\* instruction leaves a pledge below nothing, a position beyond the bound, or the
\* books of the pool or the vault below nothing.
THEOREM TypeCorrect == Spec => []TypeOK
<1>1. Init => TypeOK
  <2> SUFFICES ASSUME Init PROVE TypeOK
    OBVIOUS
  <2>1. MaxVault \in Nat /\ <<>> \in Seq(Pods)
    BY PositionsAssumption DEF PositionsAssumption
  <2> QED
    BY <2>1 DEF Init, TypeOK
<1>2. TypeOK /\ [Next]_vars => TypeOK'
  BY StepHonest
<1> QED
  BY <1>1, <1>2, PTL DEF Spec

\* No instruction pays or books anything twice.
THEOREM PaidOnce == Spec => NothingPaidTwice
<1>1. TypeOK /\ [Next]_vars => [vault' - Owed' >= vault - Owed]_vars
  BY StepHonest DEF Honest, Covered
<1> QED
  BY <1>1, TypeCorrect, PTL DEF Spec, NothingPaidTwice

\* Nobody is credited what was not taken from them.
THEOREM FromSomething == Spec => NothingFromNothing
<1>1. TypeOK /\ [Next]_vars =>
        [\A c \in Customers : Claims(c)' > Claims(c) => vault' > vault]_vars
  BY StepHonest DEF Honest, Earned
<1> QED
  BY <1>1, TypeCorrect, PTL DEF Spec, NothingFromNothing

\* So the vault always covers what the books owe, as there is neither at first.
THEOREM VaultCovers == Spec => [](vault >= Owed)
<1> DEFINE Inv == TypeOK /\ vault >= Owed
<1>1. Init => vault >= Owed
  <2> SUFFICES ASSUME Init PROVE vault >= Owed
    OBVIOUS
  <2> DEFINE f == Worth(balances)
  <2>1. \A c \in Customers : balances[c] = <<>>
    BY DEF Init
  <2>2. f \in [Customers -> Nat] /\ f \in [Customers -> Int] /\ \A c \in Customers : f[c] = 0
    BY <2>1, PledgesNone DEF Worth
  <2>3. IsFiniteSet(Customers)
    BY PositionsAssumption DEF PositionsAssumption
  <2> HIDE DEF f
  <2>4. SumFunction(f) = 0
    <3>1. \A c \in Customers : f[c] = 0 * f[c]
      BY <2>2
    <3>2. SumFunction(f) = 0 * SumFunction(f)
      BY <2>2, <2>3, <3>1, SumOfMultiples
    <3>3. SumFunction(f) \in Nat
      BY <2>2, <2>3, SumOfNats
    <3> QED
      BY <3>2, <3>3
  <2>5. Owed = total + SumFunction(f)
    BY OwedIs DEF f
  <2> QED
    BY <2>4, <2>5 DEF Init
<1>3. TypeOK /\ TypeOK' /\ vault >= Owed /\ [Next]_vars => (vault >= Owed)'
  <2> SUFFICES ASSUME TypeOK, TypeOK', vault >= Owed, [Next]_vars PROVE vault' >= Owed'
    OBVIOUS
  <2>1. Owed \in Int /\ vault \in Int
    <3>1. balances \in [Customers -> Seq(Pods)] /\ total \in Nat /\ vault \in Int
      BY DEF TypeOK
    <3> QED
      BY <3>1, WorthType, OwedIs
  <2>2. CASE UNCHANGED vars
    <3>1. vault' = vault /\ Owed' = Owed
      BY <2>2 DEF vars, Owed, Pledged, Pledges
    <3> QED
      BY <2>1, <3>1
  <2>3. CASE Honest
    <3>1. vault' - Owed' >= vault - Owed
      BY <2>3 DEF Honest, Covered
    <3>2. balances' \in [Customers -> Seq(Pods)] /\ total' \in Nat /\ vault' \in Int
      BY DEF TypeOK
    <3>3. Owed' = total' + SumFunction(Worth(balances'))
      BY DEF Owed, Pledged, Worth
    <3>4. SumFunction(Worth(balances')) \in Nat
      BY <3>2, WorthType
    <3> QED
      BY <2>1, <3>1, <3>2, <3>3, <3>4
  <2> QED
    BY <2>2, <2>3, StepHonest
<1> QED
  BY <1>1, <1>3, TypeCorrect, PTL DEF Spec
=============================================================================
