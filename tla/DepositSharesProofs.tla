------------------------ MODULE DepositSharesProofs ------------------------
(***************************************************************************)
(* The types of the pool's accounts, that every dollar of the pool is owed *)
(* to somebody, and that shares fit in the pool as long as nobody enters   *)
(* late, leaves or loses: for any customers and any amounts.               *)
(*                                                                         *)
(* TypeOK is inductive.  What is not obvious in it is that the products    *)
(* and quotients of dollar-seconds are naturals (SecondsType, ShareType,   *)
(* AdjustedType): that no withdrawal takes more off a record than there is *)
(* on it, and that no clock is ahead of the one it is subtracted from.     *)
(* The other two compare the pool with sums over its customers (Owned);    *)
(* what one instruction does to a sum is what it does to one term          *)
(* (SumOfChange of module Sums).                                           *)
(***************************************************************************)
EXTENDS DepositShares, Sums

Entries == [entered : BOOLEAN, deposited : Nat, seconds : Nat, updated : 0 .. now]

\* Products and quotients of naturals, once and for all.
LEMMA NatProduct == \A x, y \in Nat : x * y \in Nat
  OBVIOUS

\* ... and quotients, rounded down.
LEMMA NatQuotient == \A x \in Nat, y \in Nat \ {0} : x \div y \in Nat
  OBVIOUS

\* The seconds that an account has collected by now.
LEMMA SecondsType ==
  ASSUME TypeOK, NEW entry, entry.seconds \in Nat, entry.updated \in 0 .. now,
         NEW dollars \in Nat
  PROVE  Since(entry) \in Nat /\ SecondsOf(entry, dollars) \in Nat
<1>1. Since(entry) \in Nat
  BY DEF Since, TypeOK
<1>2. dollars * Since(entry) \in Nat
  BY <1>1, NatProduct
<1> QED
  BY <1>1, <1>2 DEF SecondsOf

\* The pool, brought up to date.
LEMMA BankNowType ==
  ASSUME TypeOK
  PROVE  BankNow.deposits \in Nat /\ BankNow.seconds \in Nat
<1>1. bank.deposits \in Nat /\ bank.seconds \in Nat /\ bank.updated \in 0 .. now
  BY DEF TypeOK
<1>2. SecondsOf(bank, bank.deposits) \in Nat
  BY <1>1, SecondsType
<1> QED
  BY <1>1, <1>2 DEF BankNow

\* A share of the pool is a whole number of dollars, also of an empty pool.
LEMMA ShareType ==
  ASSUME NEW seconds \in Nat, NEW pool, pool.deposits \in Nat, pool.seconds \in Nat
  PROVE  ShareOf(seconds, pool) \in Nat
<1>1. seconds * pool.deposits \in Nat
  BY NatProduct
<1> QED
  BY <1>1, NatQuotient DEF ShareOf

\* What a withdrawal leaves of the seconds.
LEMMA AdjustedType ==
  ASSUME NEW seconds \in Nat, NEW left \in Nat, NEW value \in Nat, NEW elapsed \in Nat
  PROVE  Adjusted(seconds, left, value, elapsed) \in Nat
<1>1. elapsed * left \in Nat
  BY NatProduct
<1>2. seconds + elapsed * left \in Nat /\ left - Smaller(left, value) \in Nat
  BY <1>1 DEF Smaller
<1>3. (seconds + elapsed * left) * (left - Smaller(left, value)) \in Nat
  BY <1>2, NatProduct
<1> QED
  BY <1>3, NatQuotient DEF Adjusted
-----------------------------------------------------------------------------
Banks == [deposits : Nat, seconds : Nat, updated : 0 .. now]

\* The two writes of an instruction.
LEMMA PoolType ==
  ASSUME TypeOK, NEW dollars \in Int, Pool(dollars)
  PROVE  bank' \in Banks
<1>1. bank.deposits + dollars \in Nat /\ now \in 0 .. now
  BY SharesAssumption DEF Pool, TypeOK
<1> QED
  BY <1>1, BankNowType DEF Pool, Banks

\* What an instruction records of a customer.
LEMMA RecordType ==
  ASSUME TypeOK, NEW c \in Customers, NEW deposited \in Nat, NEW seconds \in Nat,
         NEW updated \in 0 .. now, Record(c, deposited, seconds, updated)
  PROVE  account' \in [Customers -> Entries]
  BY DEF Record, TypeOK, Entries

\* The account of a customer, and its seconds by now.
LEMMA AccountType ==
  ASSUME TypeOK, NEW c \in Customers
  PROVE  /\ account[c].deposited \in Nat /\ account[c].seconds \in Nat
         /\ account[c].updated \in 0 .. now /\ now \in 0 .. now
         /\ account[c].entered \in BOOLEAN
         /\ Since(account[c]) \in Nat
         /\ \A dollars \in Nat : SecondsOf(account[c], dollars) \in Nat
<1>1. /\ account[c].deposited \in Nat /\ account[c].seconds \in Nat
      /\ account[c].updated \in 0 .. now /\ now \in 0 .. now
      /\ account[c].entered \in BOOLEAN
  BY SharesAssumption DEF TypeOK
<1> QED
  BY <1>1, SecondsType

\* The types again, an instruction's part of them on one side.
LEMMA TypeStep ==
  ASSUME TypeOK, now' = now, calls < MaxCalls, calls' = calls + 1,
         bank' \in Banks, account' \in [Customers -> Entries],
         holders' \in SUBSET Customers, earned' \in Int, regular' \in BOOLEAN
  PROVE  TypeOK'
  BY SharesAssumption DEF TypeOK, Banks, Entries

\* Deposits and pledges.
LEMMA EnterType ==
  ASSUME TypeOK, NEW c \in Customers, NEW dollars \in Nat, Enter(c, dollars)
  PROVE  bank' \in Banks /\ account' \in [Customers -> Entries]
<1> DEFINE a == account[c]
           seconds == IF a.entered THEN SecondsOf(a, a.deposited) ELSE a.seconds
<1>1. a.deposited \in Nat /\ seconds \in Nat /\ now \in 0 .. now
  BY AccountType
<1>2. account' \in [Customers -> Entries]
  <2>1. Record(c, a.deposited + dollars, seconds, now)
    BY DEF Enter
  <2> HIDE DEF seconds
  <2> QED
    BY <1>1, <2>1, RecordType
<1>3. /\ bank.deposits + dollars \in Nat /\ bank.seconds \in Nat
      /\ BankNow.seconds \in Nat
  BY BankNowType DEF TypeOK
<1> QED
  BY <1>1, <1>2, <1>3 DEF Enter, Banks

\* A withdrawal pays a whole number of dollars and leaves one on record.
LEMMA WithdrawType ==
  ASSUME TypeOK, NEW c \in Customers, NEW amount \in Nat, Withdraw(c, amount)
  PROVE  bank' \in Banks /\ account' \in [Customers -> Entries]
<1> DEFINE a       == account[c]
           seconds == SecondsOf(a, a.deposited)
           value   == Smaller(ShareOf(seconds, BankNow), amount)
           left    == LeftOf(a.deposited, value)
           after   == IF a.deposited > 0 /\ value > 0
                      THEN Adjusted(seconds, left, value, Since(a)) ELSE seconds
<1>1. Pool(-value) /\ Record(c, left, after, now)
  BY DEF Withdraw
<1>2. a.deposited \in Nat /\ seconds \in Nat /\ Since(a) \in Nat /\ now \in 0 .. now
  BY AccountType
<1> HIDE DEF seconds
<1>3. ShareOf(seconds, BankNow) \in Nat
  BY <1>2, BankNowType, ShareType
<1>4. value \in Nat
  BY <1>3 DEF Smaller
<1> HIDE DEF value
<1>5. left \in Nat
  BY <1>2, <1>4 DEF LeftOf, Smaller
<1> HIDE DEF left
<1>6. after \in Nat
  BY <1>2, <1>4, <1>5, AdjustedType
<1> HIDE DEF after
<1>7. account' \in [Customers -> Entries]
  BY <1>1, <1>2, <1>5, <1>6, RecordType
<1>8. -value \in Int
  BY <1>4
<1> QED
  BY <1>1, <1>7, <1>8, PoolType
-----------------------------------------------------------------------------
\* Every instruction keeps the types.
LEMMA InstructionType ==
  ASSUME TypeOK, NEW c \in Customers, calls < MaxCalls, calls' = calls + 1
  PROVE  /\ \A x \in Amounts :
              Deposit(c, x) \/ Withdraw(c, x) \/ TakeProfit(c, x)
                \/ Protect(c, x) \/ Shrink(c, x) => TypeOK'
         /\ \A x \in Amounts \cup {0} : Interest(c, x) \/ Save(c, x) => TypeOK'
         /\ Pledge(c) \/ Unpledge(c) \/ WithdrawPledges(c) => TypeOK'
<1>1. \A x \in Amounts \cup {0} : x \in Nat /\ x \in Int /\ -x \in Int
  BY SharesAssumption
<1>2. /\ account[c].deposited \in Nat /\ account[c].seconds \in Nat
      /\ account[c].updated \in 0 .. now /\ now \in 0 .. now
      /\ \A dollars \in Nat : SecondsOf(account[c], dollars) \in Nat
  BY AccountType
<1>3. /\ account \in [Customers -> Entries] /\ holders \in SUBSET Customers
      /\ earned \in Int /\ regular \in BOOLEAN
  BY DEF TypeOK, Entries
<1>4. /\ holders \cup {c} \in SUBSET Customers
      /\ Dropping(c) => holders' \in SUBSET Customers
  BY <1>3 DEF Dropping
<1>5. \A x \in Amounts : Deposit(c, x) => TypeOK'
  BY <1>1, <1>3, EnterType, TypeStep DEF Deposit, EntersOnTime
<1>6. Pledge(c) => TypeOK'
  BY <1>3, <1>4, EnterType, TypeStep DEF Pledge, EntersOnTime
<1>7. \A x \in Amounts : Withdraw(c, x) => TypeOK'
  <2> SUFFICES ASSUME NEW x \in Amounts, Withdraw(c, x) PROVE TypeOK'
    OBVIOUS
  <2>1. /\ now' = now /\ earned' = earned /\ Dropping(c)
        /\ regular' \in BOOLEAN
    BY <1>3 DEF Withdraw
  <2> QED
    BY <1>1, <1>3, <1>4, <2>1, WithdrawType, TypeStep
<1>8. WithdrawPledges(c) \/ Unpledge(c) => TypeOK'
  <2>1. Pool(0) => bank' \in Banks
    BY PoolType
  <2>2. Unpledge(c) => account' \in [Customers -> Entries]
    BY <1>2, RecordType DEF Unpledge
  <2>3. WithdrawPledges(c) => account' \in [Customers -> Entries]
    BY <1>3 DEF WithdrawPledges
  <2> QED
    BY <1>3, <1>4, <2>1, <2>2, <2>3, TypeStep DEF WithdrawPledges, Unpledge
<1>9. \A x \in Amounts \cup {0} : Interest(c, x) => TypeOK'
  BY <1>1, <1>3, PoolType, TypeStep DEF Interest
<1>10. \A x \in Amounts : TakeProfit(c, x) => TypeOK'
  <2> SUFFICES ASSUME NEW x \in Amounts, TakeProfit(c, x) PROVE TypeOK'
    OBVIOUS
  <2>1. bank' \in Banks
    BY <1>1, PoolType DEF TakeProfit
  <2>2. earned' \in Int
    BY <1>1, <1>3 DEF TakeProfit
  <2> QED
    BY <1>3, <2>1, <2>2, TypeStep DEF TakeProfit
<1>11. \A x \in Amounts : Protect(c, x) => TypeOK'
  <2> SUFFICES ASSUME NEW x \in Amounts, Protect(c, x) PROVE TypeOK'
    OBVIOUS
  <2> DEFINE left == IF account[c].deposited >= x THEN account[c].deposited - x
                                                  ELSE account[c].deposited
  <2>1. Pool(-x) /\ Record(c, left, SecondsOf(account[c], left + x), now)
    BY DEF Protect
  <2>2. left \in Nat /\ left + x \in Nat
    BY <1>1, <1>2
  <2> HIDE DEF left
  <2>3. account' \in [Customers -> Entries]
    BY <1>2, <2>1, <2>2, RecordType
  <2> QED
    BY <1>1, <1>3, <2>1, <2>3, PoolType, TypeStep DEF Protect
<1>12. \A x \in Amounts : Shrink(c, x) => TypeOK'
  <2> SUFFICES ASSUME NEW x \in Amounts, Shrink(c, x) PROVE TypeOK'
    OBVIOUS
  <2>1. account' \in [Customers -> Entries]
    BY <1>2, RecordType DEF Shrink
  <2>2. bank' \in Banks
    BY <1>1, PoolType DEF Shrink
  <2>3. earned' \in Int
    BY <1>1, <1>3 DEF Shrink
  <2> QED
    BY <1>3, <2>1, <2>2, <2>3, TypeStep DEF Shrink
<1>13. \A x \in Amounts \cup {0} : Save(c, x) => TypeOK'
  <2> SUFFICES ASSUME NEW x \in Amounts \cup {0}, Save(c, x) PROVE TypeOK'
    OBVIOUS
  <2>1. account[c].deposited - x \in Nat
    BY <1>1, <1>2 DEF Save
  <2>2. account' \in [Customers -> Entries]
    BY <1>2, <2>1, RecordType DEF Save
  <2> QED
    BY <1>1, <1>3, <1>4, <2>2, PoolType, TypeStep DEF Save
<1> QED
  BY <1>5, <1>6, <1>7, <1>8, <1>9, <1>10, <1>11, <1>12, <1>13

\* An empty pool, and every step from it.
LEMMA TypeInit == Init => TypeOK
<1> SUFFICES ASSUME Init PROVE TypeOK
  OBVIOUS
<1>1. 0 \in 0 .. now
  BY DEF Init
<1> QED
  BY <1>1, SharesAssumption DEF Init, TypeOK

\* Every instruction and every second.
LEMMA TypeNext == TypeOK /\ [Next]_vars => TypeOK'
<1> SUFFICES ASSUME TypeOK, [Next]_vars PROVE TypeOK'
  OBVIOUS
<1>1. CASE Tick
  <2>1. now' \in 0 .. MaxNow /\ 0 .. now \subseteq 0 .. now'
    BY <1>1, SharesAssumption DEF Tick, TypeOK
  <2> QED
    BY <1>1, <2>1 DEF Tick, TypeOK
<1>2. CASE calls < MaxCalls /\ calls' = calls + 1 /\ Instruction
  BY <1>2, InstructionType DEF Instruction
<1>3. CASE UNCHANGED vars
  BY <1>3 DEF vars, TypeOK
<1> QED
  BY <1>1, <1>2, <1>3 DEF Next

\* No record of the pool or of a customer ever goes below nothing and no clock
\* runs ahead, whatever is deposited, withdrawn, earned and lost.
THEOREM TypeCorrect == Spec => []TypeOK
  BY TypeInit, TypeNext, PTL DEF Spec
-----------------------------------------------------------------------------
\* The dollar-seconds of all customers by now.
Seconds == [c \in Customers |-> SecondsOf(account[c], account[c].deposited)]
Dollars == [c \in Customers |-> account[c].deposited]
Collected == SumFunction(Seconds)

\* A customer that has not entered has nothing.
Opened ==
  \A c \in Customers :
    ~account[c].entered => account[c].deposited = 0 /\ account[c].seconds = 0

\* While nobody has entered late, left or lost, the dollars on record and the
\* seconds that they have collected are in the pool.
Covered == regular => Recorded <= bank.deposits /\ Collected <= BankNow.seconds

\* The terms of the sums, and the sums.
LEMMA TermsType ==
  ASSUME TypeOK
  PROVE  /\ Seconds \in [Customers -> Nat] /\ Seconds \in [Customers -> Int]
         /\ Dollars \in [Customers -> Nat] /\ Dollars \in [Customers -> Int]
         /\ Recorded \in Nat /\ Collected \in Nat
<1>1. \A c \in Customers :
        SecondsOf(account[c], account[c].deposited) \in Nat /\ account[c].deposited \in Nat
  BY AccountType
<1>2. Seconds \in [Customers -> Nat] /\ Dollars \in [Customers -> Nat]
  BY <1>1 DEF Seconds, Dollars
<1>3. Recorded \in Nat /\ Collected \in Nat
  <2>1. Recorded = SumFunction(Dollars)
    BY DEF Recorded, Dollars
  <2> QED
    BY <1>2, <2>1, SumOfNats, SharesAssumption DEF Collected
<1> QED
  BY <1>2, <1>3

\* When one record is written, both sums change by what changes in it.
LEMMA RecordSums ==
  ASSUME TypeOK, TypeOK', now' = now, NEW c \in Customers, NEW deposited, NEW seconds,
         NEW updated, Record(c, deposited, seconds, updated)
  PROVE  /\ account'[c] = [entered |-> TRUE, deposited |-> deposited, seconds |-> seconds,
                           updated |-> updated]
         /\ \A x \in Customers : x # c => account'[x] = account[x]
         /\ Recorded' = Recorded + (deposited - account[c].deposited)
         /\ Collected' = Collected + (SecondsOf(account[c], account[c].deposited)'
                                       - SecondsOf(account[c], account[c].deposited))
<1>1. /\ account'[c] = [entered |-> TRUE, deposited |-> deposited, seconds |-> seconds,
                        updated |-> updated]
      /\ \A x \in Customers : x # c => account'[x] = account[x]
  BY DEF Record, TypeOK
<1>2. /\ Seconds \in [Customers -> Int] /\ Dollars \in [Customers -> Int]
      /\ Seconds' \in [Customers -> Int] /\ Dollars' \in [Customers -> Int]
  <2>1. Seconds \in [Customers -> Int] /\ Dollars \in [Customers -> Int]
    BY TermsType
  <2>2. (Seconds \in [Customers -> Int])' /\ (Dollars \in [Customers -> Int])'
    BY TermsType, PTL
  <2> QED
    BY <2>1, <2>2
<1>3. \A x \in Customers : x # c => Seconds'[x] = Seconds[x] /\ Dollars'[x] = Dollars[x]
  BY <1>1 DEF Seconds, Dollars, SecondsOf, Since
<1>4. IsFiniteSet(Customers)
  BY SharesAssumption
<1>5. Recorded' = Recorded + (deposited - account[c].deposited)
  <2>1. Recorded = SumFunction(Dollars) /\ Recorded' = SumFunction(Dollars')
    BY DEF Recorded, Dollars
  <2>2. SumFunction(Dollars') = SumFunction(Dollars) + (Dollars'[c] - Dollars[c])
    BY <1>2, <1>3, <1>4, SumOfChange
  <2>3. Dollars'[c] = deposited /\ Dollars[c] = account[c].deposited
    BY <1>1 DEF Dollars
  <2> QED
    BY <2>1, <2>2, <2>3
<1>6. Collected' = SumFunction(Seconds) + (Seconds'[c] - Seconds[c])
  BY <1>2, <1>3, <1>4, SumOfChange DEF Collected
<1>7. /\ Seconds[c] = SecondsOf(account[c], account[c].deposited)
      /\ Seconds'[c] = SecondsOf(account[c], account[c].deposited)'
  BY DEF Seconds
<1> QED
  BY <1>1, <1>5, <1>6, <1>7 DEF Collected

\* An instruction that writes no record leaves both sums.
LEMMA SameSums ==
  ASSUME now' = now, account' = account
  PROVE  Recorded' = Recorded /\ Collected' = Collected
  BY DEF Recorded, Collected, Seconds, SecondsOf, Since

\* What Pool writes: the pool's seconds by now stay what they were.
LEMMA PoolSeconds ==
  ASSUME TypeOK, now' = now, NEW dollars \in Int, bank'.seconds = BankNow.seconds, bank'.updated = now,
         bank'.deposits = bank.deposits + dollars, bank'.deposits \in Nat
  PROVE  BankNow'.seconds = BankNow.seconds
<1>1. now \in Nat /\ BankNow.seconds \in Nat
  BY BankNowType, SharesAssumption DEF TypeOK
<1>2. BankNow'.seconds = bank'.seconds + bank'.deposits * (now' - bank'.updated)
  BY DEF BankNow, SecondsOf, Since
<1>3. now' - bank'.updated = 0
  BY <1>1
<1>4. \A x \in Nat : x * 0 = 0
  OBVIOUS
<1> QED
  BY <1>1, <1>2, <1>3, <1>4

\* A record written at this second holds the seconds that it is given.
LEMMA RecordNow ==
  ASSUME TypeOK, TypeOK', now' = now, NEW c \in Customers, NEW deposited \in Nat,
         NEW seconds \in Nat, Record(c, deposited, seconds, now)
  PROVE  /\ Recorded' = Recorded + (deposited - account[c].deposited)
         /\ Collected' = Collected + (seconds - SecondsOf(account[c], account[c].deposited))
<1>1. /\ account'[c] = [entered |-> TRUE, deposited |-> deposited, seconds |-> seconds,
                        updated |-> now]
      /\ Recorded' = Recorded + (deposited - account[c].deposited)
      /\ Collected' = Collected + (SecondsOf(account[c], account[c].deposited)'
                                    - SecondsOf(account[c], account[c].deposited))
  BY RecordSums
<1>2. SecondsOf(account[c], account[c].deposited)' = seconds + deposited * (now - now)
  BY <1>1 DEF SecondsOf, Since
<1>3. now \in Nat /\ now - now = 0 /\ deposited * 0 = 0
  BY SharesAssumption DEF TypeOK
<1>4. SecondsOf(account[c], account[c].deposited)' = seconds
  BY <1>2, <1>3
<1> QED
  BY <1>1, <1>4

\* Writing the record of a customer leaves nobody out who has something.
LEMMA RecordOpened ==
  ASSUME TypeOK, Opened, NEW c \in Customers, NEW deposited, NEW seconds, NEW updated,
         Record(c, deposited, seconds, updated)
  PROVE  Opened'
  BY DEF Opened, Record, TypeOK

\* A deposit adds to the records what it adds to the pool, and no seconds.
LEMMA EnterSums ==
  ASSUME TypeOK, TypeOK', Opened, now' = now, NEW c \in Customers, NEW dollars \in Nat,
         Enter(c, dollars)
  PROVE  /\ Opened'
         /\ Recorded' = Recorded + dollars /\ Collected' = Collected
         /\ bank'.deposits = bank.deposits + dollars
         /\ EntersOnTime(c) => BankNow'.seconds = BankNow.seconds
<1> DEFINE a == account[c]
           seconds == IF a.entered THEN SecondsOf(a, a.deposited) ELSE a.seconds
<1>1. /\ a.deposited \in Nat /\ a.seconds \in Nat /\ Since(a) \in Nat
      /\ SecondsOf(a, a.deposited) \in Nat /\ a.entered \in BOOLEAN
  BY AccountType
<1>2. /\ bank' = [deposits |-> bank.deposits + dollars,
                  seconds |-> IF a.entered THEN BankNow.seconds ELSE bank.seconds,
                  updated |-> now]
      /\ Record(c, a.deposited + dollars, seconds, now)
  BY DEF Enter
<1>3. seconds \in Nat /\ seconds = SecondsOf(a, a.deposited)
  <2>1. CASE a.entered
    BY <1>1, <2>1
  <2>2. CASE ~a.entered
    <3>1. a.deposited = 0 /\ a.seconds = 0
      BY <2>2 DEF Opened
    <3>2. 0 * Since(a) = 0
      BY <1>1
    <3> QED
      BY <2>2, <3>1, <3>2 DEF SecondsOf
  <2> QED
    BY <2>1, <2>2
<1>4. Opened'
  BY <1>2, RecordOpened
<1> HIDE DEF seconds
<1>5. a.deposited + dollars \in Nat
  BY <1>1
<1>6. /\ Recorded' = Recorded + ((a.deposited + dollars) - a.deposited)
      /\ Collected' = Collected + (seconds - SecondsOf(a, a.deposited))
  BY <1>2, <1>3, <1>5, RecordNow
<1>7. Recorded' = Recorded + dollars /\ Collected' = Collected
  BY <1>1, <1>3, <1>6, TermsType
<1>8. bank.deposits \in Nat /\ bank.seconds \in Nat /\ BankNow.seconds \in Nat
  BY BankNowType DEF TypeOK
<1>9. ASSUME EntersOnTime(c) PROVE BankNow'.seconds = BankNow.seconds
  <2>1. bank'.seconds = BankNow.seconds
    <3>1. CASE a.entered
      BY <1>2, <3>1
    <3>2. CASE ~a.entered
      <4>1. bank.deposits * Since(bank) = 0
        BY <1>9, <3>2 DEF EntersOnTime
      <4>2. BankNow.seconds = bank.seconds
        BY <1>8, <4>1 DEF BankNow, SecondsOf
      <4> QED
        BY <1>2, <3>2, <4>2
    <3> QED
      BY <3>1, <3>2
  <2> QED
    BY <1>2, <1>8, <2>1, PoolSeconds
<1> QED
  BY <1>2, <1>4, <1>7, <1>9

Owned == NothingUnowned /\ Opened /\ Covered

\* What the arithmetic of the steps below is about.
LEMMA Numbers ==
  ASSUME TypeOK
  PROVE  /\ bank.deposits \in Nat /\ BankNow.seconds \in Nat /\ earned \in Int
         /\ Recorded \in Nat /\ Collected \in Nat /\ regular \in BOOLEAN
  BY BankNowType, TermsType DEF TypeOK

\* Deposits and pledges keep the dollars owned.
LEMMA EnterOwned ==
  ASSUME TypeOK, TypeOK', Owned, NEW c \in Customers
  PROVE  /\ \A x \in Amounts : Deposit(c, x) => Owned'
         /\ Pledge(c) => Owned'
<1>1. ASSUME NEW x \in Nat, Enter(c, x), now' = now, earned' = earned,
             regular' = (regular /\ EntersOnTime(c))
      PROVE  Owned'
  <2>1. /\ Opened'
        /\ Recorded' = Recorded + x /\ Collected' = Collected
        /\ bank'.deposits = bank.deposits + x
        /\ EntersOnTime(c) => BankNow'.seconds = BankNow.seconds
    BY <1>1, EnterSums DEF Owned
  <2>2. NothingUnowned'
    BY <1>1, <2>1, Numbers DEF Owned, NothingUnowned
  <2>3. Covered'
    <3> SUFFICES ASSUME regular' PROVE /\ Recorded' <= bank'.deposits
                                       /\ Collected' <= BankNow'.seconds
      BY DEF Covered
    <3>1. regular /\ EntersOnTime(c)
      BY <1>1
    <3>2. Recorded <= bank.deposits /\ Collected <= BankNow.seconds
      BY <3>1 DEF Owned, Covered
    <3> QED
      BY <2>1, <3>1, <3>2, Numbers
  <2> QED
    BY <2>1, <2>2, <2>3 DEF Owned
<1>2. \A x \in Amounts : x \in Nat
  BY SharesAssumption
<1> QED
  BY <1>1, <1>2 DEF Deposit, Pledge

\* A withdrawal takes from the pool what it pays, and no more than that off the
\* record.
LEMMA WithdrawOwned ==
  ASSUME TypeOK, TypeOK', Owned, NEW c \in Customers, NEW amount \in Amounts,
         Withdraw(c, amount)
  PROVE  Owned'
<1> DEFINE a       == account[c]
           seconds == SecondsOf(a, a.deposited)
           value   == Smaller(ShareOf(seconds, BankNow), amount)
           left    == LeftOf(a.deposited, value)
           after   == IF a.deposited > 0 /\ value > 0
                      THEN Adjusted(seconds, left, value, Since(a)) ELSE seconds
<1>1. /\ Pool(-value) /\ Record(c, left, after, now)
      /\ regular' = (regular /\ value = 0) /\ now' = now /\ earned' = earned
  BY DEF Withdraw
<1>2. a.deposited \in Nat /\ seconds \in Nat /\ Since(a) \in Nat
  BY AccountType
<1> HIDE DEF seconds
<1>3. value \in Nat
  <2>1. ShareOf(seconds, BankNow) \in Nat /\ amount \in Nat
    BY <1>2, BankNowType, ShareType, SharesAssumption
  <2> QED
    BY <2>1 DEF Smaller
<1> HIDE DEF value
<1>4. left \in Nat /\ a.deposited - left <= value /\ (value = 0 => left = a.deposited)
  BY <1>2, <1>3 DEF LeftOf, Smaller
<1>5. (value = 0 => after = seconds) /\ after \in Nat
  <2> HIDE DEF left
  <2>1. Adjusted(seconds, left, value, Since(a)) \in Nat
    BY <1>2, <1>3, <1>4, AdjustedType
  <2> QED
    BY <1>2, <1>3, <2>1
<1> HIDE DEF left, after
<1>6. /\ Recorded' = Recorded + (left - a.deposited)
      /\ Collected' = Collected + (after - SecondsOf(a, a.deposited))
  BY <1>1, <1>4, <1>5, RecordNow
<1>7. Opened'
  BY <1>1, RecordOpened DEF Owned
<1>8. bank'.deposits = bank.deposits - value
  BY <1>1, <1>3, Numbers DEF Pool
<1>9. NothingUnowned'
  BY <1>1, <1>2, <1>3, <1>4, <1>6, <1>8, Numbers DEF Owned, NothingUnowned
<1>10. Covered'
  <2> SUFFICES ASSUME regular' PROVE Recorded' <= bank'.deposits /\ Collected' <= BankNow'.seconds
    BY DEF Covered
  <2>1. regular /\ value = 0
    BY <1>1
  <2>2. Recorded <= bank.deposits /\ Collected <= BankNow.seconds
    BY <2>1 DEF Owned, Covered
  <2>3. Recorded' = Recorded /\ Collected' = Collected /\ bank'.deposits = bank.deposits
    <3>1. seconds = SecondsOf(a, a.deposited)
      BY DEF seconds
    <3> QED
      BY <1>2, <1>4, <1>5, <1>6, <1>8, <2>1, <3>1, Numbers
  <2>4. BankNow'.seconds = BankNow.seconds
    <3>1. bank'.seconds = BankNow.seconds /\ bank'.updated = now
      BY <1>1 DEF Pool
    <3>2. bank'.deposits = bank.deposits + 0 /\ bank'.deposits \in Nat
      BY <2>3, Numbers
    <3> QED
      BY <1>1, <3>1, <3>2, PoolSeconds
  <2> QED
    BY <2>2, <2>3, <2>4
<1> QED
  BY <1>7, <1>9, <1>10 DEF Owned

\* A position's interest is earned, and what is taken from its pledge leaves
\* the sums, or lets the customer's seconds fall behind.
LEMMA PledgeOwned ==
  ASSUME TypeOK, TypeOK', Owned, NEW c \in Customers
  PROVE  /\ \A x \in Amounts \cup {0} : Interest(c, x) => Owned'
         /\ WithdrawPledges(c) => Owned'
         /\ Unpledge(c) => Owned'
<1>1. ASSUME NEW x \in Nat, Pool(x), now' = now
      PROVE  bank'.deposits = bank.deposits + x /\ BankNow'.seconds = BankNow.seconds
  <2>1. /\ bank'.seconds = BankNow.seconds /\ bank'.updated = now
        /\ bank'.deposits = bank.deposits + x
    BY <1>1 DEF Pool
  <2> QED
    BY <1>1, <2>1, Numbers, PoolSeconds
<1>2. ASSUME NEW x \in Nat, Pool(x), now' = now, account' = account, earned' = earned + x,
             regular' = regular
      PROVE  Owned'
  <2>1. Recorded' = Recorded /\ Collected' = Collected
    BY <1>2, SameSums
  <2>2. bank'.deposits = bank.deposits + x /\ BankNow'.seconds = BankNow.seconds
    BY <1>1, <1>2
  <2>3. NothingUnowned' /\ Covered'
    BY <1>2, <2>1, <2>2, Numbers DEF Owned, NothingUnowned, Covered
  <2>4. Opened'
    BY <1>2 DEF Owned, Opened
  <2> QED
    BY <2>3, <2>4 DEF Owned
<1>3. \A x \in Amounts \cup {0} : x \in Nat
  BY SharesAssumption
<1>4. \A x \in Amounts \cup {0} : Interest(c, x) => Owned'
  BY <1>2, <1>3 DEF Interest
<1>5. WithdrawPledges(c) => Owned'
  <2>1. earned + 0 = earned
    BY Numbers
  <2> QED
    BY <1>2, <2>1 DEF WithdrawPledges
<1>6. ASSUME Unpledge(c) PROVE Owned'
  <2>1. /\ Pool(0) /\ Record(c, account[c].deposited, account[c].seconds, now)
        /\ now' = now /\ earned' = earned /\ regular' = regular
    BY <1>6 DEF Unpledge
  <2>2. /\ account[c].deposited \in Nat /\ account[c].seconds \in Nat
        /\ Since(account[c]) \in Nat
    BY AccountType
  <2>3. account[c].deposited * Since(account[c]) \in Nat
    BY <2>2, NatProduct
  <2>4. /\ Recorded' = Recorded + (account[c].deposited - account[c].deposited)
        /\ Collected' = Collected
             + (account[c].seconds - SecondsOf(account[c], account[c].deposited))
    BY <2>1, <2>2, RecordNow
  <2>5. Recorded' = Recorded /\ Collected' <= Collected
    BY <2>2, <2>3, <2>4, Numbers DEF SecondsOf
  <2>6. bank'.deposits = bank.deposits + 0 /\ BankNow'.seconds = BankNow.seconds
    BY <1>1, <2>1
  <2>7. Collected' \in Nat
    <3>1. (Collected \in Nat)'
      BY TermsType, PTL
    <3> QED
      BY <3>1
  <2>8. NothingUnowned' /\ Covered'
    BY <2>1, <2>5, <2>6, <2>7, Numbers DEF Owned, NothingUnowned, Covered
  <2>9. Opened'
    BY <2>1, RecordOpened DEF Owned
  <2> QED
    BY <2>8, <2>9 DEF Owned
<1> QED
  BY <1>4, <1>5, <1>6

\* The losses: a record may keep dollars that the pool has lost, never the other
\* way round.
LEMMA LossOwned ==
  ASSUME TypeOK, TypeOK', Owned, NEW c \in Customers
  PROVE  /\ \A x \in Amounts : TakeProfit(c, x) \/ Protect(c, x) \/ Shrink(c, x) => Owned'
         /\ \A x \in Amounts \cup {0} : Save(c, x) => Owned'
<1>1. \A x \in Amounts \cup {0} : x \in Nat /\ -x \in Int
  BY SharesAssumption
<1>2. \A x \in Int : Pool(x) => bank'.deposits = bank.deposits + x
  BY DEF Pool
<1>3. regular' = FALSE => Covered'
  BY DEF Covered
<1>4. /\ account[c].deposited \in Nat
      /\ \A x \in Nat : SecondsOf(account[c], x) \in Nat
  BY AccountType
<1>5. ASSUME NEW x \in Amounts, TakeProfit(c, x) PROVE Owned'
  <2>1. bank'.deposits = bank.deposits + (-x) /\ earned' = earned - x
    BY <1>1, <1>2, <1>5 DEF TakeProfit
  <2>2. Recorded' = Recorded
    BY <1>5, SameSums DEF TakeProfit
  <2>3. NothingUnowned'
    BY <1>1, <2>1, <2>2, Numbers DEF Owned, NothingUnowned
  <2>4. Opened'
    BY <1>5 DEF TakeProfit, Owned, Opened
  <2> QED
    BY <1>3, <1>5, <2>3, <2>4 DEF Owned, TakeProfit
<1>6. ASSUME NEW x \in Amounts, Protect(c, x) PROVE Owned'
  <2> DEFINE a    == account[c]
             left == IF a.deposited >= x THEN a.deposited - x ELSE a.deposited
  <2>1. /\ Pool(-x) /\ Record(c, left, SecondsOf(a, left + x), now)
        /\ regular' = FALSE /\ now' = now /\ earned' = earned
    BY <1>6 DEF Protect
  <2>2. left \in Nat /\ a.deposited - left <= x /\ left + x \in Nat
    BY <1>1, <1>4
  <2> HIDE DEF left
  <2>3. Recorded' = Recorded + (left - a.deposited)
    BY <2>1, RecordSums
  <2>4. bank'.deposits = bank.deposits + (-x)
    BY <1>1, <1>2, <2>1
  <2>5. NothingUnowned'
    BY <1>1, <1>4, <2>1, <2>2, <2>3, <2>4, Numbers DEF Owned, NothingUnowned
  <2>6. Opened'
    BY <2>1, RecordOpened DEF Owned
  <2> QED
    BY <1>3, <2>1, <2>5, <2>6 DEF Owned
<1>7. ASSUME NEW x \in Amounts, Shrink(c, x) PROVE Owned'
  <2> DEFINE a == account[c]
  <2>1. /\ Pool(x) /\ Record(c, a.deposited, SecondsOf(a, a.deposited), a.updated)
        /\ regular' = FALSE /\ now' = now /\ earned' = earned + x
    BY <1>7 DEF Shrink
  <2>2. Recorded' = Recorded + (a.deposited - a.deposited)
    BY <2>1, RecordSums
  <2>3. bank'.deposits = bank.deposits + x
    BY <1>1, <1>2, <2>1
  <2>4. NothingUnowned'
    BY <1>1, <1>4, <2>1, <2>2, <2>3, Numbers DEF Owned, NothingUnowned
  <2>5. Opened'
    BY <2>1, RecordOpened DEF Owned
  <2> QED
    BY <1>3, <2>1, <2>4, <2>5 DEF Owned
<1>8. ASSUME NEW x \in Amounts \cup {0}, Save(c, x) PROVE Owned'
  <2> DEFINE a == account[c]
  <2>1. /\ Pool(-x) /\ Record(c, a.deposited - x, SecondsOf(a, a.deposited), a.updated)
        /\ regular' = FALSE /\ now' = now /\ earned' = earned
    BY <1>8 DEF Save
  <2>2. Recorded' = Recorded + ((a.deposited - x) - a.deposited)
    BY <2>1, RecordSums
  <2>3. bank'.deposits = bank.deposits + (-x)
    BY <1>1, <1>2, <2>1
  <2>4. NothingUnowned'
    BY <1>1, <1>4, <2>1, <2>2, <2>3, Numbers DEF Owned, NothingUnowned
  <2>5. Opened'
    BY <2>1, RecordOpened DEF Owned
  <2> QED
    BY <1>3, <2>1, <2>4, <2>5 DEF Owned
<1> QED
  BY <1>5, <1>6, <1>7, <1>8

\* In a second, every customer collects its dollars and the pool all of its own.
LEMMA TickOwned ==
  ASSUME TypeOK, TypeOK', Owned, Tick
  PROVE  Owned'
<1>1. /\ now' = now + 1 /\ bank' = bank /\ account' = account
      /\ earned' = earned /\ regular' = regular
  BY DEF Tick
<1>2. \A x, y \in Nat : x * (y + 1) = x * y + x
  OBVIOUS
<1>3. \A c \in Customers : Seconds'[c] = Seconds[c] + Dollars[c]
  <2> SUFFICES ASSUME NEW c \in Customers PROVE Seconds'[c] = Seconds[c] + Dollars[c]
    OBVIOUS
  <2> DEFINE a == account[c]
  <2>1. a.deposited \in Nat /\ a.seconds \in Nat /\ now - a.updated \in Nat
    BY AccountType DEF Since
  <2>2. now \in Nat /\ a.updated \in Int /\ (now + 1) - a.updated = (now - a.updated) + 1
    BY AccountType, SharesAssumption DEF TypeOK
  <2>3. a.deposited * ((now - a.updated) + 1)
          = a.deposited * (now - a.updated) + a.deposited
    BY <1>2, <2>1
  <2>4. /\ Seconds[c] = a.seconds + a.deposited * (now - a.updated)
        /\ Seconds'[c] = a.seconds + a.deposited * ((now + 1) - a.updated)
        /\ Dollars[c] = a.deposited
    BY <1>1 DEF Seconds, Dollars, SecondsOf, Since
  <2>5. a.deposited * (now - a.updated) \in Nat
    BY <2>1, NatProduct
  <2> HIDE DEF a
  <2> QED
    BY <2>1, <2>2, <2>3, <2>4, <2>5
<1>4. Collected' = Collected + Recorded
  <2>1. /\ Seconds \in [Customers -> Int] /\ Dollars \in [Customers -> Int]
    BY TermsType
  <2>2. (Seconds \in [Customers -> Int])'
    BY TermsType, PTL
  <2>3. SumFunction(Seconds') = SumFunction(Seconds) + SumFunction(Dollars)
    BY <1>3, <2>1, <2>2, SumOfSums, SharesAssumption
  <2> QED
    BY <2>3 DEF Collected, Recorded, Dollars
<1>5. Recorded' = Recorded
  BY <1>1 DEF Recorded
<1>6. BankNow'.seconds = BankNow.seconds + bank.deposits
  <2>1. /\ bank.deposits \in Nat /\ bank.seconds \in Nat /\ now \in Nat
        /\ bank.updated \in Int /\ now - bank.updated \in Nat
    BY SharesAssumption DEF TypeOK
  <2>2. bank.deposits * ((now - bank.updated) + 1)
          = bank.deposits * (now - bank.updated) + bank.deposits
    BY <1>2, <2>1
  <2>3. (now + 1) - bank.updated = (now - bank.updated) + 1
    BY <2>1
  <2>4. /\ BankNow.seconds = bank.seconds + bank.deposits * (now - bank.updated)
        /\ BankNow'.seconds = bank.seconds + bank.deposits * ((now + 1) - bank.updated)
    BY <1>1 DEF BankNow, SecondsOf, Since
  <2>5. bank.deposits * (now - bank.updated) \in Nat
    BY <2>1, NatProduct
  <2> QED
    BY <2>1, <2>2, <2>3, <2>4, <2>5
<1>7. NothingUnowned'
  BY <1>1, <1>5 DEF Owned, NothingUnowned
<1>8. Opened'
  BY <1>1 DEF Owned, Opened
<1>9. Covered'
  BY <1>1, <1>4, <1>5, <1>6, Numbers DEF Owned, Covered
<1> QED
  BY <1>7, <1>8, <1>9 DEF Owned

\* An empty pool is owned, and stays so by every step.
LEMMA OwnedInit == Init => Owned
<1> SUFFICES ASSUME Init PROVE Owned
  OBVIOUS
<1>1. TypeOK
  BY TypeInit
<1>2. \A c \in Customers : account[c].deposited = 0 /\ account[c].seconds = 0
  BY DEF Init
<1>3. Recorded = 0 /\ Collected = 0
  <2>1. \A c \in Customers : Seconds[c] = 0 /\ Dollars[c] = 0
    <3> SUFFICES ASSUME NEW c \in Customers PROVE Seconds[c] = 0 /\ Dollars[c] = 0
      OBVIOUS
    <3>1. Since(account[c]) \in Nat
      BY <1>1, AccountType
    <3>2. 0 * Since(account[c]) = 0
      BY <3>1
    <3> QED
      BY <1>2, <3>2 DEF Seconds, Dollars, SecondsOf
  <2>2. /\ Seconds \in [Customers -> Int] /\ Dollars \in [Customers -> Int]
        /\ Recorded \in Nat /\ Collected \in Nat
    BY <1>1, TermsType
  <2>3. /\ SumFunction(Seconds) = SumFunction(Seconds) + SumFunction(Seconds)
        /\ SumFunction(Dollars) = SumFunction(Dollars) + SumFunction(Dollars)
    BY <2>1, <2>2, SumOfSums, SharesAssumption
  <2>4. Recorded = Recorded + Recorded /\ Collected = Collected + Collected
    BY <2>3 DEF Recorded, Collected, Dollars
  <2> QED
    BY <2>2, <2>4
<1>4. bank.deposits = 0 /\ earned = 0
  BY DEF Init
<1> QED
  BY <1>1, <1>2, <1>3, <1>4, Numbers DEF Owned, NothingUnowned, Opened, Covered

\* Every instruction and every second, for the sums.
LEMMA OwnedNext == TypeOK /\ TypeOK' /\ Owned /\ [Next]_vars => Owned'
<1> SUFFICES ASSUME TypeOK, TypeOK', Owned, [Next]_vars PROVE Owned'
  OBVIOUS
<1>1. CASE Tick
  BY <1>1, TickOwned
<1>2. CASE Instruction
  BY <1>2, EnterOwned, WithdrawOwned, PledgeOwned, LossOwned DEF Instruction
<1>3. CASE UNCHANGED vars
  BY <1>3 DEF vars, Owned, NothingUnowned, Opened, Covered, Recorded, Collected, Seconds,
              SecondsOf, Since, BankNow
<1> QED
  BY <1>1, <1>2, <1>3 DEF Next

\* The invariant of all histories.
THEOREM OwnedHolds == Spec => [](TypeOK /\ Owned)
<1>1. Init => TypeOK /\ Owned
  BY TypeInit, OwnedInit
<1>2. TypeOK /\ Owned /\ [Next]_vars => (TypeOK /\ Owned)'
  BY TypeNext, OwnedNext
<1> QED
  BY <1>1, <1>2, PTL DEF Spec

\* No dollar of the pool is without an owner: whatever is deposited, paid out,
\* earned and lost, the records and the earnings cover what the pool holds.
THEOREM NoDollarUnowned == Spec => []NothingUnowned
<1>1. Owned => NothingUnowned
  BY DEF Owned
<1> QED
  BY <1>1, OwnedHolds, PTL
-----------------------------------------------------------------------------
\* Quotients of a common divisor.
LEMMA QuotientBound == \A x \in Nat, y \in Nat \ {0} : y * (x \div y) <= x
  OBVIOUS

\* Shares of what has been collected fit into what it is a share of: rounding
\* down loses dollars, it never makes any.
LEMMA ShareSums ==
  ASSUME TypeOK, Collected <= BankNow.seconds
  PROVE  Claims <= bank.deposits
<1> DEFINE P == bank.deposits
           T == BankNow.seconds
           Shares == [c \in Customers |-> Claim(c)]
           Scaled == [c \in Customers |-> T * Claim(c)]
           Parts  == [c \in Customers |-> P * Seconds[c]]
           Rest   == [c \in Customers |-> P * Seconds[c] - T * Claim(c)]
<1>1. P \in Nat /\ T \in Nat /\ Collected \in Nat /\ Seconds \in [Customers -> Nat]
  BY Numbers, TermsType
<1>2. \A c \in Customers : Claim(c) = IF T = 0 THEN 0 ELSE (Seconds[c] * P) \div T
  BY DEF Claim, ShareOf, Seconds, BankNow
<1>3. BankNow.seconds \in Nat /\ bank.deposits \in Nat
  BY Numbers
<1> HIDE DEF P, T
<1>4. \A c \in Customers :
        /\ Claim(c) \in Nat /\ T * Claim(c) \in Nat /\ P * Seconds[c] \in Nat
        /\ T * Claim(c) <= P * Seconds[c]
  <2> SUFFICES ASSUME NEW c \in Customers
               PROVE  /\ Claim(c) \in Nat /\ T * Claim(c) \in Nat /\ P * Seconds[c] \in Nat
                      /\ T * Claim(c) <= P * Seconds[c]
    OBVIOUS
  <2>1. Seconds[c] \in Nat /\ Seconds[c] * P \in Nat /\ P * Seconds[c] = Seconds[c] * P
    <3>1. Seconds[c] \in Nat
      BY <1>1
    <3>2. \A x, y \in Nat : x * y = y * x
      OBVIOUS
    <3> QED
      BY <1>1, <3>1, <3>2, NatProduct
  <2>2. CASE T = 0
    <3>1. Claim(c) = 0 /\ T * Claim(c) = 0
      BY <1>2, <2>2
    <3> QED
      BY <2>1, <3>1
  <2>3. CASE T # 0
    <3> DEFINE x == Seconds[c] * P
    <3>1. x \in Nat /\ T \in Nat \ {0} /\ Claim(c) = x \div T
      BY <1>1, <1>2, <2>1, <2>3
    <3> HIDE DEF x
    <3>2. Claim(c) \in Nat /\ T * Claim(c) <= x
      BY <3>1, NatQuotient, QuotientBound
    <3>3. T * Claim(c) \in Nat
      BY <3>1, <3>2, NatProduct
    <3> QED
      BY <2>1, <3>2, <3>3 DEF x
  <2> QED
    BY <2>2, <2>3
<1>5. IsFiniteSet(Customers)
  BY SharesAssumption
<1>6. /\ Shares \in [Customers -> Nat] /\ Shares \in [Customers -> Int]
      /\ Scaled \in [Customers -> Int] /\ Parts \in [Customers -> Int]
      /\ Rest \in [Customers -> Nat] /\ Rest \in [Customers -> Int]
      /\ Seconds \in [Customers -> Int]
  BY <1>1, <1>4
<1>7. \A c \in Customers :
        /\ Scaled[c] = T * Shares[c] /\ Parts[c] = P * Seconds[c]
        /\ Parts[c] = Scaled[c] + Rest[c]
  <2> SUFFICES ASSUME NEW c \in Customers
               PROVE  /\ Scaled[c] = T * Shares[c] /\ Parts[c] = P * Seconds[c]
                      /\ Parts[c] = Scaled[c] + Rest[c]
    OBVIOUS
  <2>1. T * Claim(c) \in Nat /\ P * Seconds[c] \in Nat
    BY <1>4
  <2>2. /\ Scaled[c] = T * Claim(c) /\ Shares[c] = Claim(c) /\ Parts[c] = P * Seconds[c]
        /\ Rest[c] = P * Seconds[c] - T * Claim(c)
    OBVIOUS
  <2> QED
    BY <2>1, <2>2
<1>8. Claims = SumFunction(Shares)
  BY DEF Claims
<1> HIDE DEF Shares, Scaled, Parts, Rest
<1>9. /\ SumFunction(Scaled) = T * SumFunction(Shares)
      /\ SumFunction(Parts) = P * SumFunction(Seconds)
  <2>1. T \in Int /\ P \in Int
    BY <1>1
  <2>2. SumFunction(Scaled) = T * SumFunction(Shares)
    BY <1>5, <1>6, <1>7, <2>1, SumOfMultiples
  <2>3. SumFunction(Parts) = P * SumFunction(Seconds)
    BY <1>5, <1>6, <1>7, <2>1, SumOfMultiples
  <2> QED
    BY <2>2, <2>3
<1>10. SumFunction(Rest) \in Nat /\ SumFunction(Shares) \in Nat
  BY <1>5, <1>6, SumOfNats
<1>11. /\ SumFunction(Parts) = SumFunction(Scaled) + SumFunction(Rest)
       /\ SumFunction(Scaled) \in Int
  BY <1>5, <1>6, <1>7, SumOfSums
<1>12. T * Claims <= P * Collected
  BY <1>8, <1>9, <1>10, <1>11 DEF Collected
<1>13. CASE T = 0
  <2>1. \A c \in Customers : Shares[c] = Shares[c] + Shares[c]
    BY <1>2, <1>13 DEF Shares
  <2>2. Shares \in [Customers -> Int]
    BY <1>6
  <2>3. SumFunction(Shares) = SumFunction(Shares) + SumFunction(Shares)
    BY <1>5, <2>1, <2>2, SumOfSums
  <2>4. \A n \in Nat : n = n + n => n = 0
    OBVIOUS
  <2>5. SumFunction(Shares) = 0
    BY <1>10, <2>3, <2>4
  <2>6. Claims = 0
    BY <1>8, <2>5
  <2> QED
    BY <1>3, <2>6
<1>14. CASE T # 0
  <2>1. \A p, q, r \in Nat : q <= r => p * q <= p * r
    OBVIOUS
  <2>2. Collected <= T
    BY DEF T
  <2>3. P * Collected <= P * T
    BY <1>1, <2>1, <2>2
  <2>4. T * Claims \in Nat /\ P * Collected \in Nat /\ P * T \in Nat /\ Claims \in Nat
    BY <1>1, <1>8, <1>10, NatProduct
  <2>5. T * Claims <= P * T
    BY <1>12, <2>3, <2>4
  <2>6. \A t \in Nat \ {0}, p, q \in Nat : t * p <= q * t => p <= q
    OBVIOUS
  <2>7. Claims <= P
    BY <1>1, <1>14, <2>4, <2>5, <2>6
  <2> QED
    BY <2>7 DEF P
<1> QED
  BY <1>13, <1>14

\* As long as every entry finds the pool up to date and nobody has left or lost,
\* all shares together can be paid.
THEOREM SharesAreCovered == Spec => []SharesFit
<1>1. TypeOK /\ Owned => SharesFit
  BY ShareSums DEF Owned, Covered, SharesFit
<1> QED
  BY <1>1, OwnedHolds, PTL
=============================================================================
