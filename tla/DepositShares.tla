---------------------------- MODULE DepositShares ----------------------------
(***************************************************************************)
(* Who owns the dollars of the Solana pool: the dollar-seconds that        *)
(* programs/quid/src keeps for every customer (Depositor) and for the pool *)
(* as a whole (Depository), and the share of the pool that a withdrawal    *)
(* pays for them.  "The faster one enter & exit, the less of an accrued    *)
(* yield one can take (slower, loyal depositors get more, pro rata)"       *)
(* (stay.rs:34).                                                           *)
(*                                                                         *)
(* Each instruction brings only the accounts it is passed up to date, at   *)
(* its own second.  What a position does to the pool is abstracted to the  *)
(* dollars it adds or takes.  An instruction that aborts is no step.       *)
(***************************************************************************)
EXTENDS Integers, FiniteSets, Functions

CONSTANTS
  Customers,
  Amounts,     \* the dollars that one instruction moves
  MaxNow,      \* bound on the clock
  MaxDeposits, \* bound on what the pool holds
  MaxCalls     \* bound on the number of instructions

ASSUME SharesAssumption ==
  /\ IsFiniteSet(Customers)
  /\ Amounts \subseteq Nat \ {0}
  /\ MaxNow \in Nat /\ MaxDeposits \in Nat /\ MaxCalls \in Nat

VARIABLES
  now,      \* the clock, in seconds
  bank,     \* Depository: deposits, seconds, updated
  account,  \* customer -> Depositor: entered, deposited, seconds, updated
  holders,  \* the customers that have a position
  earned,   \* history: what the positions have added to the pool, net
  regular,  \* history: nobody has entered late, left, or lost anything yet
  calls     \* the number of instructions so far

vars == <<now, bank, account, holders, earned, regular, calls>>
-----------------------------------------------------------------------------
Smaller(x, y) == IF x <= y THEN x ELSE y
Since(entry) == now - entry.updated

\* The dollar-seconds of an account, or of the pool, at this second.
SecondsOf(entry, dollars) == entry.seconds + dollars * Since(entry)

\* The pool, brought up to date.
BankNow == [deposits |-> bank.deposits, seconds |-> SecondsOf(bank, bank.deposits),
            updated |-> now]

\* What an instruction writes: the pool up to date, with so many dollars more or
\* less (a checked subtraction), and one customer's record.
Pool(dollars) ==
  /\ bank.deposits + dollars \in 0 .. MaxDeposits
  /\ bank' = [deposits |-> bank.deposits + dollars, seconds |-> BankNow.seconds,
              updated |-> now]
Record(c, deposited, seconds, updated) ==
  account' = [account EXCEPT ![c] = [entered |-> TRUE, deposited |-> deposited,
                                     seconds |-> seconds, updated |-> updated]]

\* handle_out's max_value, once the pool and the customer are up to date.
ShareOf(seconds, pool) ==
  IF pool.seconds = 0 THEN 0 ELSE (seconds * pool.deposits) \div pool.seconds

\* Two mistakes: a withdrawal closes the customer's record, or takes the whole
\* value off it.
LeftOfZero(deposited, value) == 0
LeftOfNegative(deposited, value) == deposited - value
LeftOf(deposited, value) == deposited - Smaller(deposited, value)

\* adjust_deposit_seconds, called when `left` remains of the deposits.  The
\* clock of the customer has not been reset yet.
Adjusted(seconds, left, value, elapsed) ==
  IF left = 0 THEN seconds
  ELSE ((seconds + elapsed * left) * (left - Smaller(left, value))) \div left

Init ==
  /\ now = 0
  /\ bank = [deposits |-> 0, seconds |-> 0, updated |-> 0]
  /\ account = [c \in Customers |->
       [entered |-> FALSE, deposited |-> 0, seconds |-> 0, updated |-> 0]]
  /\ holders = {}
  /\ earned = 0
  /\ regular = TRUE
  /\ calls = 0

Tick ==
  /\ now < MaxNow
  /\ now' = now + 1
  /\ UNCHANGED <<bank, account, holders, earned, regular, calls>>

\* handle_in: dollars for the deposits, or (0 here) for a position.  A first
\* deposit resets the pool's clock without accruing what the pool holds.
EnterUnaccrued(c, dollars) ==                \* a mistake: it never accrues
  LET a == account[c] IN
  /\ bank' = [deposits |-> bank.deposits + dollars, seconds |-> bank.seconds,
              updated |-> now]
  /\ Record(c, a.deposited + dollars,
            IF a.entered THEN SecondsOf(a, a.deposited) ELSE a.seconds, now)
Enter(c, dollars) ==
  LET a == account[c] IN
  /\ bank' = [deposits |-> bank.deposits + dollars,
              seconds |-> IF a.entered THEN BankNow.seconds ELSE bank.seconds,
              updated |-> now]
  /\ Record(c, a.deposited + dollars,
            IF a.entered THEN SecondsOf(a, a.deposited) ELSE a.seconds, now)

EntersOnTime(c) == account[c].entered \/ bank.deposits * Since(bank) = 0

Deposit(c, dollars) ==
  /\ bank.deposits + dollars <= MaxDeposits
  /\ Enter(c, dollars)
  /\ regular' = (regular /\ EntersOnTime(c))
  /\ UNCHANGED <<now, holders, earned>>

Pledge(c) ==
  /\ Enter(c, 0)
  /\ holders' = holders \cup {c}
  /\ regular' = (regular /\ EntersOnTime(c))
  /\ UNCHANGED <<now, earned>>

\* A position that keeps too little is dropped.
Dropping(c) == \E dropped \in SUBSET {c} : holders' = holders \ dropped

\* handle_out without a ticker.  The positions are emptied first if the caller
\* asks for that, and the deposits give what remains of the amount, ...
Withdraw(c, amount) ==
  LET a       == account[c]
      seconds == SecondsOf(a, a.deposited)
      value   == Smaller(ShareOf(seconds, BankNow), amount)
      left    == LeftOf(a.deposited, value)
  IN
  /\ a.entered
  /\ Pool(-value)
  /\ Record(c, left,
            IF a.deposited > 0 /\ value > 0
            THEN Adjusted(seconds, left, value, Since(a)) ELSE seconds, now)
  /\ Dropping(c)
  /\ regular' = (regular /\ value = 0)
  /\ UNCHANGED <<now, earned>>
\* ... which may be nothing.
WithdrawPledges(c) ==
  /\ c \in holders
  /\ Pool(0)
  /\ Dropping(c)
  /\ UNCHANGED <<now, account, earned, regular>>

\* handle_out from the pledge of one position: the customer's clock is reset
\* (renege) and what it has accrued since is not credited.
Unpledge(c) ==
  /\ c \in holders
  /\ Pool(0)
  /\ Record(c, account[c].deposited, account[c].seconds, now)
  /\ Dropping(c)
  /\ UNCHANGED <<now, earned, regular>>

\* handle_out on a position: interest for the pool, a profit taken from it,
\* or a protection, paid from the customer's deposits.  One that they do not
\* cover goes through where a long grows too profitable, at the pool's expense.
Interest(c, dollars) ==
  /\ c \in holders
  /\ Pool(dollars)
  /\ earned' = earned + dollars
  /\ UNCHANGED <<now, account, holders, regular>>
TakeProfit(c, dollars) ==
  /\ c \in holders
  /\ Pool(-dollars)
  /\ earned' = earned - dollars
  /\ regular' = FALSE
  /\ UNCHANGED <<now, account, holders>>
Protect(c, dollars) ==
  LET a    == account[c]
      left == IF a.deposited >= dollars THEN a.deposited - dollars
                                        ELSE a.deposited
  IN
  /\ c \in holders
  /\ Pool(-dollars)
  /\ Record(c, left, SecondsOf(a, left + dollars), now)
  /\ regular' = FALSE
  /\ UNCHANGED <<now, holders, earned>>

\* amortise: the customer is credited, but its clock is not reset.  The pool
\* gains from a position that is shrunk, or loses together with the customer
\* what it took to save one.
Shrink(c, dollars) ==
  LET a == account[c] IN
  /\ c \in holders
  /\ Pool(dollars)
  /\ Record(c, a.deposited, SecondsOf(a, a.deposited), a.updated)
  /\ earned' = earned + dollars
  /\ regular' = FALSE
  /\ UNCHANGED <<now, holders>>
Save(c, dollars) ==
  LET a == account[c] IN
  /\ c \in holders
  /\ a.deposited >= dollars
  /\ Pool(-dollars)
  /\ Record(c, a.deposited - dollars, SecondsOf(a, a.deposited), a.updated)
  /\ Dropping(c)
  /\ regular' = FALSE
  /\ UNCHANGED <<now, earned>>

Instruction ==
  \E c \in Customers :
    \/ \E x \in Amounts : Deposit(c, x) \/ Withdraw(c, x)
    \/ Pledge(c) \/ Unpledge(c) \/ WithdrawPledges(c)
    \/ \E x \in Amounts \cup {0} : Interest(c, x) \/ Save(c, x)
    \/ \E x \in Amounts : TakeProfit(c, x) \/ Protect(c, x) \/ Shrink(c, x)

Next ==
  \/ Tick
  \/ /\ calls < MaxCalls
     /\ calls' = calls + 1
     /\ Instruction

Spec == Init /\ [][Next]_vars
-----------------------------------------------------------------------------
\* No account goes below nothing, a customer who is paid more than it has
\* deposited included, and no clock runs ahead.
TypeOK ==
  /\ now \in 0 .. MaxNow
  /\ bank \in [deposits : Nat, seconds : Nat, updated : 0 .. now]
  /\ account \in [Customers ->
       [entered : BOOLEAN, deposited : Nat, seconds : Nat, updated : 0 .. now]]
  /\ holders \in SUBSET Customers
  /\ earned \in Int
  /\ regular \in BOOLEAN
  /\ calls \in 0 .. MaxCalls

\* What c would be entitled to, were it to withdraw at this second.
Claim(c) == ShareOf(SecondsOf(account[c], account[c].deposited), BankNow)

Claims == SumFunction([c \in Customers |-> Claim(c)])
Recorded == SumFunction([c \in Customers |-> account[c].deposited])

\* The deposits on record, with what the positions have earned or cost, never
\* fall short of what the pool holds: a loss may be hidden in the records, but
\* no dollar of the pool is without an owner.
NothingUnowned == bank.deposits <= Recorded + earned

\* As long as every entry finds the pool up to date and nobody has left or
\* lost, the shares fit into the pool, whatever deposits, pledges and interest
\* came in between and whenever each account was brought up to date.
SharesFit == regular => Claims <= bank.deposits

\* "Returns your pro-rata share of the pool, plus your accrued yield" (out.rs:89):
\* what all are entitled to at one moment is no more than there is.
ClaimsCovered == Claims <= bank.deposits
=============================================================================
