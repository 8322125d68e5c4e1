--------------------------- MODULE EthereumProofs ---------------------------
(***************************************************************************)
(* Theorems about the contracts: the QD ledger, for any users, months and  *)
(* amounts; the array that indexes the batches of a holder; and the        *)
(* clearing of large swaps, for any number of trades, any capacity and any *)
(* outcome of the clearings.                                               *)
(*                                                                         *)
(* Inv is inductive: the index of a holder is exact only together with the *)
(* types, and it must speak of both ends of a transfer at once, because a  *)
(* batch enters one index in the step in which it leaves the other.        *)
(*                                                                         *)
(* BooksAgree compares sums: over the holders of a batch, over the batches *)
(* of a holder, over the holders.  A move changes each by two terms at     *)
(* most (Moved) or by what it takes from every batch (SumOfSums).  The     *)
(* lemmas on sums are those of module Sums; those on the array are shown   *)
(* by descent, on a least span or slot that would break them (LeastNat).   *)
(***************************************************************************)
EXTENDS Basket, SortedSet, BatchSwaps, SequenceTheorems, Sums

\* What is inductive.
Inv == TypeOK /\ NoDeletionMarker /\ IndexExact

\* What the loop of _transferHelper takes is never more than the batch holds
\* and nothing outside the batches it walks.
LEMMA DrainsBound ==
  ASSUME TypeOK, NEW from \in Holders, NEW eligible \in SUBSET Batches,
         NEW d \in Drains(from, eligible)
  PROVE  /\ d \in [Batches -> Nat]
         /\ \A m \in Batches : d[m] <= balanceOf[from][m]
         /\ \A m \in Batches : m \notin eligible => d[m] = 0
<1>1. PICK stop \in Batches, part \in 0 .. MaxAmount :
        d = [m \in Batches |-> IF m \in eligible /\ m > stop THEN balanceOf[from][m]
                      ELSE IF m \in eligible /\ m = stop
                           THEN (IF part <= balanceOf[from][m]
                                 THEN part ELSE balanceOf[from][m])
                           ELSE 0]
  BY DEF Drains
<1>2. balanceOf[from] \in [Batches -> Nat]
  BY DEF TypeOK
<1>3. part \in Nat
  BY BasketAssumption
<1> QED
  BY <1>1, <1>2, <1>3

\* Whatever is redeemed or transferred, the batches walked are batches.
LEMMA EligibleType ==
  ASSUME TypeOK, NEW from \in Holders, NEW to \in Holders
  PROVE  /\ Eligible(from, to) \in SUBSET Batches
         /\ to = Zero => \A m \in Eligible(from, to) : m <= month
  BY DEF TypeOK, Eligible, MatureBatches

\* The draw behind a transfer, with the types and bounds the proofs need.
LEMMA TransferDraw ==
  ASSUME TypeOK, NEW from \in Holders, NEW to \in Holders, NEW amount \in Nat,
         TransferHelper(from, to, amount)
  PROVE  \E d \in [Batches -> Nat], sent \in Nat :
           /\ \A m \in Batches : d[m] <= balanceOf[from][m]
           /\ \A m \in Batches : m \notin Eligible(from, to) => d[m] = 0
           /\ sent = SumFunction(d)
           /\ Move(from, to, d, sent)
<1>1. PICK d \in Drains(from, Eligible(from, to)), sent \in 0 .. amount :
        sent = SumFunction(d) /\ Move(from, to, d, sent)
  BY DEF TransferHelper
<1>2. Eligible(from, to) \in SUBSET Batches
  BY EligibleType
<1>3. /\ d \in [Batches -> Nat]
      /\ \A m \in Batches : d[m] <= balanceOf[from][m]
      /\ \A m \in Batches : m \notin Eligible(from, to) => d[m] = 0
  BY <1>2, DrainsBound
<1> QED
  BY <1>1, <1>3

\* A draw bounded by the balances keeps the types of the five books.
LEMMA MoveTypes ==
  ASSUME TypeOK, NEW from \in Holders, NEW to \in Holders,
         NEW d \in [Batches -> Nat], NEW sent \in Nat,
         \A m \in Batches : d[m] <= balanceOf[from][m],
         Move(from, to, d, sent)
  PROVE  /\ balanceOf' \in [Holders -> [Batches -> Nat]]
         /\ perMonth' \in [Holders -> SUBSET Batches]
         /\ totalBalances' \in [Holders -> Nat]
         /\ totalSupplies' \in [Batches -> Nat]
         /\ totalSupply' \in Nat
<1>1. balanceOf' \in [Holders -> [Batches -> Nat]]
  <2>1. ASSUME NEW h \in Holders, NEW m \in Batches
        PROVE  balanceOf[h][m] - (IF h = from THEN d[m] ELSE 0)
                 + (IF h = to /\ ~Burning(to) THEN d[m] ELSE 0) \in Nat
    <3>1. balanceOf[h][m] \in Nat /\ d[m] \in Nat /\ d[m] <= balanceOf[from][m]
      BY DEF TypeOK
    <3> QED
      BY <3>1
  <2>2. balanceOf' = [h \in Holders |-> [m \in Batches |->
          balanceOf[h][m] - (IF h = from THEN d[m] ELSE 0)
            + (IF h = to /\ ~Burning(to) THEN d[m] ELSE 0)]]
    BY DEF Move, HeldAfter
  <2> QED
    BY <2>1, <2>2
<1>2. perMonth' \in [Holders -> SUBSET Batches]
  BY DEF Move, IndexedAfter, TypeOK
<1>3. totalBalances' \in [Holders -> Nat]
  BY DEF Move, TypeOK
<1>4. totalSupplies' \in [Batches -> Nat]
  BY DEF Move, CirculatingAfter, TypeOK
<1>5. totalSupply' \in Nat
  BY DEF Move, TypeOK
<1> QED
  BY <1>1, <1>2, <1>3, <1>4, <1>5

\* ... and keeps the index of both ends exact.
LEMMA MoveIndex ==
  ASSUME TypeOK, IndexExact, granular' = granular,
         NEW from \in Holders, NEW to \in Holders,
         NEW d \in [Batches -> Nat], NEW sent \in Nat,
         \A m \in Batches : d[m] <= balanceOf[from][m],
         Move(from, to, d, sent)
  PROVE  IndexExact'
<1> SUFFICES ASSUME ~granular, NEW h \in Holders, NEW m \in Batches
             PROVE  m \in perMonth'[h] <=> balanceOf'[h][m] > 0
  BY DEF IndexExact
<1>1. m \in perMonth[h] <=> balanceOf[h][m] > 0
  BY DEF IndexExact
<1>2. /\ balanceOf[h][m] \in Nat
      /\ balanceOf[from][m] \in Nat
      /\ d[m] \in Nat
      /\ d[m] <= balanceOf[from][m]
  BY DEF TypeOK
<1>3. /\ balanceOf'[h][m] = balanceOf[h][m] - (IF h = from THEN d[m] ELSE 0)
                              + (IF h = to /\ ~Burning(to) THEN d[m] ELSE 0)
      /\ balanceOf'[from][m] = balanceOf[from][m] - d[m]
                              + (IF from = to /\ ~Burning(to) THEN d[m] ELSE 0)
  BY DEF Move, HeldAfter
<1>4. m \in perMonth'[h] <=>
        /\ m \in perMonth[h] \/ (h = to /\ ~Burning(to) /\ d[m] > 0)
        /\ ~(h = from /\ d[m] > 0 /\ balanceOf'[from][m] = 0)
  BY DEF Move, IndexedAfter, Emptied
<1> QED
  BY <1>1, <1>2, <1>3, <1>4

\* Every entry point keeps the index and the types.
LEMMA TransferKeepsInv ==
  ASSUME Inv, NEW from \in Holders, NEW to \in Holders, NEW amount \in Nat,
         TransferHelper(from, to, amount),
         month' = month, granular' = granular, isOperator' = isOperator,
         allowances' \in [Users -> [Users -> Nat \cup {Unlimited}]]
  PROVE  Inv'
<1>1. PICK d \in [Batches -> Nat], sent \in Nat :
        /\ \A m \in Batches : d[m] <= balanceOf[from][m]
        /\ \A m \in Batches : m \notin Eligible(from, to) => d[m] = 0
        /\ Move(from, to, d, sent)
  BY TransferDraw DEF Inv
<1>2. TypeOK'
  <2>1. /\ balanceOf' \in [Holders -> [Batches -> Nat]]
        /\ perMonth' \in [Holders -> SUBSET Batches]
        /\ totalBalances' \in [Holders -> Nat]
        /\ totalSupplies' \in [Batches -> Nat]
        /\ totalSupply' \in Nat
    BY <1>1, MoveTypes DEF Inv
  <2> QED
    BY <2>1 DEF Inv, TypeOK
<1>3. IndexExact'
  BY <1>1, MoveIndex DEF Inv
<1>4. NoDeletionMarker'
  <2>1. \A m \in Batches : d[m] > 0 => m \in perMonth[from]
    BY <1>1 DEF Eligible, MatureBatches
  <2>2. ASSUME NEW h \in Holders PROVE 0 \notin perMonth'[h]
    <3>1. 0 \notin perMonth[h] /\ 0 \notin perMonth[from]
      BY DEF Inv, NoDeletionMarker
    <3>2. 0 \in perMonth'[h] => 0 \in perMonth[h] \/ (0 \in Batches /\ d[0] > 0)
      BY <1>1 DEF Move, IndexedAfter
    <3> QED
      BY <3>1, <3>2, <2>1
  <2> QED
    BY <2>2 DEF NoDeletionMarker
<1> QED
  BY <1>2, <1>3, <1>4 DEF Inv

\* The month a mint issues into is after the current one.
LEMMA MintMonthBound ==
  ASSUME TypeOK, NEW when \in Batches
  PROVE  MintMonth(when) \in Nat /\ MintMonth(when) > month
  BY BasketAssumption DEF TypeOK, MintMonth, Larger, Batches

\* A mint adds one batch to one holder, in its balances and its index at once.
LEMMA MintKeepsInv ==
  ASSUME Inv, NEW pledge \in Users, NEW amount \in Amounts, NEW when \in Batches,
         Mint(pledge, amount, when)
  PROVE  Inv'
<1> DEFINE m == MintMonth(when)
<1>1. m \in Batches /\ m # 0
  BY MintMonthBound DEF Inv, Mint, TypeOK, Batches
<1>2. pledge \in Holders /\ amount \in Nat /\ amount > 0
  BY DEF Holders, Amounts
<1>3. /\ totalSupply' = totalSupply + amount
      /\ totalSupplies' = [totalSupplies EXCEPT ![m] = @ + amount]
      /\ perMonth' = [perMonth EXCEPT ![pledge] = @ \cup {m}]
      /\ totalBalances' = [totalBalances EXCEPT ![pledge] = @ + amount]
      /\ balanceOf' = [balanceOf EXCEPT ![pledge][m] = @ + amount]
      /\ UNCHANGED <<month, approvals, granular>>
  BY DEF Mint
<1> HIDE DEF m
<1>4. TypeOK'
  BY <1>1, <1>2, <1>3 DEF Inv, TypeOK, approvals
<1>5. NoDeletionMarker'
  BY <1>1, <1>2, <1>3 DEF Inv, TypeOK, NoDeletionMarker
<1>6. IndexExact'
  <2> SUFFICES ASSUME ~granular, NEW h \in Holders, NEW n \in Batches
               PROVE  n \in perMonth'[h] <=> balanceOf'[h][n] > 0
    BY <1>3 DEF IndexExact
  <2>1. n \in perMonth[h] <=> balanceOf[h][n] > 0
    BY DEF Inv, IndexExact
  <2>2. balanceOf[h][n] \in Nat /\ perMonth[h] \in SUBSET Batches
    BY DEF Inv, TypeOK
  <2>3. CASE h = pledge /\ n = m
    BY <1>1, <1>2, <1>3, <2>2, <2>3 DEF Inv, TypeOK
  <2>4. CASE ~(h = pledge /\ n = m)
    BY <1>1, <1>2, <1>3, <2>1, <2>4 DEF Inv, TypeOK
  <2> QED
    BY <2>3, <2>4
<1> QED
  BY <1>4, <1>5, <1>6 DEF Inv

\* Nobody holds or indexes anything at deployment.
LEMMA InvInit == Init => Inv
<1> SUFFICES ASSUME Init PROVE Inv
  OBVIOUS
<1>1. 0 \in Batches
  BY BasketAssumption DEF Batches
<1>2. TypeOK
  BY <1>1 DEF Init, TypeOK
<1>3. NoDeletionMarker /\ IndexExact
  BY DEF Init, NoDeletionMarker, IndexExact
<1> QED
  BY <1>2, <1>3 DEF Inv

\* Every entry point keeps types, marker and index together.
LEMMA InvStep == Inv /\ [Next]_vars => Inv'
<1> SUFFICES ASSUME Inv, [Next]_vars PROVE Inv'
  OBVIOUS
<1> USE DEF Inv
<1>1. CASE NextMonth
  <2>1. month' \in Batches
    BY <1>1, BasketAssumption DEF NextMonth, TypeOK, Batches
  <2> QED
    BY <1>1, <2>1 DEF NextMonth, TypeOK, NoDeletionMarker, IndexExact, approvals
<1>2. CASE \E u \in Users, amount \in Amounts, when \in Batches : Mint(u, amount, when)
  BY <1>2, MintKeepsInv
<1>3. CASE \E u \in Users, to \in Holders, amount \in Amounts : Transfer(u, to, amount)
  <2>1. PICK u \in Users, to \in Holders, amount \in Amounts : Transfer(u, to, amount)
    BY <1>3
  <2>2. u \in Holders /\ amount \in Nat
    BY DEF Holders, Amounts
  <2> QED
    BY <2>1, <2>2, TransferKeepsInv DEF Transfer, TypeOK, approvals
<1>4. CASE \E s, u \in Users, to \in Holders, amount \in Amounts :
             TransferFrom(s, u, to, amount)
  <2>1. PICK s \in Users, u \in Users, to \in Holders, amount \in Amounts :
          TransferFrom(s, u, to, amount)
    BY <1>4
  <2>2. u \in Holders /\ amount \in Nat
    BY DEF Holders, Amounts
  <2>3. allowances' \in [Users -> [Users -> Nat \cup {Unlimited}]]
    <3>1. allowances[u][s] \in Nat \cup {Unlimited}
      BY DEF TypeOK
    <3>2. CASE UNCHANGED allowances
      BY <3>2 DEF TypeOK
    <3>3. CASE /\ allowances[u][s] # Unlimited
               /\ allowances[u][s] >= amount
               /\ allowances' = [allowances EXCEPT ![u][s] = @ - amount]
      <4>1. allowances[u][s] - amount \in Nat
        BY <2>2, <3>1, <3>3
      <4> QED
        BY <3>3, <4>1 DEF TypeOK
    <3> QED
      BY <2>1, <3>2, <3>3 DEF TransferFrom
  <2> QED
    BY <2>1, <2>2, <2>3, TransferKeepsInv DEF TransferFrom
<1>5. CASE \E u \in Users, amount \in Amounts : Turn(u, amount)
  <2>1. PICK u \in Users, amount \in Amounts : Turn(u, amount)
    BY <1>5
  <2>2. u \in Holders /\ Zero \in Holders /\ amount \in Nat
    BY DEF Holders, Amounts
  <2> QED
    BY <2>1, <2>2, TransferKeepsInv DEF Turn, TypeOK, approvals
<1>6. CASE \E p \in Delegations, value \in {0, MaxAmount, Unlimited} :
             Approve(p[1], p[2], value)
  <2>1. PICK p \in Delegations, value \in {0, MaxAmount, Unlimited} :
          Approve(p[1], p[2], value)
    BY <1>6
  <2>2. p[1] \in Users /\ p[2] \in Users /\ value \in Nat \cup {Unlimited}
    BY BasketAssumption
  <2> QED
    BY <2>1, <2>2 DEF Approve, TypeOK, NoDeletionMarker, IndexExact
<1>7. CASE \E p \in Delegations, approved \in BOOLEAN : SetOperator(p[1], p[2], approved)
  <2>1. PICK p \in Delegations, approved \in BOOLEAN : SetOperator(p[1], p[2], approved)
    BY <1>7
  <2>2. <<p[1], p[2]>> \in Users \X Users
    BY BasketAssumption
  <2> QED
    BY <2>1, <2>2 DEF SetOperator, TypeOK, NoDeletionMarker, IndexExact
<1>8. CASE \E u \in Users, to \in Holders, m \in Batches, amount \in Amounts :
             GranularTransfer(u, to, m, amount)
  <2>1. PICK u \in Users, to \in Holders, m \in Batches, amount \in Amounts :
          GranularTransfer(u, to, m, amount)
    BY <1>8
  <2>2. balanceOf' \in [Holders -> [Batches -> Nat]]
    <3>1. u \in Holders /\ amount \in Nat
      BY DEF Holders, Amounts
    <3>2. ASSUME NEW h \in Holders
          PROVE  [balanceOf[h] EXCEPT ![m] = @ - (IF h = u THEN amount ELSE 0)
                    + (IF h = to THEN amount ELSE 0)] \in [Batches -> Nat]
      <4>1. balanceOf[h] \in [Batches -> Nat] /\ balanceOf[h][m] \in Nat
        BY DEF TypeOK
      <4>2. balanceOf[h][m] - (IF h = u THEN amount ELSE 0)
              + (IF h = to THEN amount ELSE 0) \in Nat
        BY <2>1, <3>1, <4>1 DEF GranularTransfer
      <4> QED
        BY <4>1, <4>2
    <3> QED
      BY <2>1, <3>2 DEF GranularTransfer
  <2> QED
    BY <2>1, <2>2 DEF GranularTransfer, TypeOK, NoDeletionMarker, IndexExact, approvals
<1>9. CASE UNCHANGED vars
  BY <1>9 DEF vars, TypeOK, NoDeletionMarker, IndexExact
<1> QED
  BY <1>1, <1>2, <1>3, <1>4, <1>5, <1>6, <1>7, <1>8, <1>9 DEF Next

\* The inductive invariant behind all of the theorems below.
THEOREM InvHolds == Spec => []Inv
  BY InvInit, InvStep, PTL DEF Spec

\* Balances, supplies and totals never go negative, whoever calls what.
THEOREM TypeCorrect == Spec => []TypeOK
<1>1. Inv => TypeOK
  BY DEF Inv
<1> QED
  BY <1>1, InvHolds, PTL

\* The value SortedSetLib reserves for deleted slots never enters an index.
THEOREM MarkerFree == Spec => []NoDeletionMarker
<1>1. Inv => NoDeletionMarker
  BY DEF Inv
<1> QED
  BY <1>1, InvHolds, PTL

\* A holder's index is exactly the batches it holds, until the inherited
\* transfer is used.
THEOREM IndexIsExact == Spec => []IndexExact
<1>1. Inv => IndexExact
  BY DEF Inv
<1> QED
  BY <1>1, InvHolds, PTL
-----------------------------------------------------------------------------
\* A transfer, a redemption or a delegated transfer is one draw and one move.
LEMMA DrawBehind ==
  ASSUME Inv, NEW from \in Users, NEW to \in Holders, NEW amount \in Amounts,
         TransferHelper(from, to, amount)
  PROVE  \A m \in Batches :
           /\ totalSupplies'[m] <= totalSupplies[m]
           /\ to = Zero /\ m > month => totalSupplies'[m] = totalSupplies[m]
<1>1. from \in Holders /\ amount \in Nat
  BY DEF Holders, Amounts
<1>2. PICK d \in [Batches -> Nat], sent \in Nat :
        /\ \A m \in Batches : m \notin Eligible(from, to) => d[m] = 0
        /\ Move(from, to, d, sent)
  BY <1>1, TransferDraw DEF Inv
<1>3. to = Zero => \A m \in Eligible(from, to) : m <= month
  BY <1>1, EligibleType DEF Inv
<1>4. SUFFICES ASSUME NEW m \in Batches
               PROVE  /\ totalSupplies'[m] <= totalSupplies[m]
                      /\ to = Zero /\ m > month => totalSupplies'[m] = totalSupplies[m]
  OBVIOUS
<1>5. /\ totalSupplies'[m] = totalSupplies[m] - (IF Burning(to) THEN d[m] ELSE 0)
      /\ totalSupplies[m] \in Nat /\ d[m] \in Nat
  BY <1>2 DEF Move, CirculatingAfter, Inv, TypeOK
<1>6. to = Zero /\ m > month => d[m] = 0
  BY <1>2, <1>3 DEF Inv, TypeOK, Batches
<1> QED
  BY <1>5, <1>6

\* The supplies of a step: only a mint, into a later month, adds to one.
LEMMA SuppliesStep ==
  ASSUME Inv, [Next]_vars, NEW m \in Batches, m <= month
  PROVE  totalSupplies'[m] <= totalSupplies[m]
<1>1. CASE \E u \in Users, amount \in Amounts, when \in Batches : Mint(u, amount, when)
  <2>1. PICK u \in Users, amount \in Amounts, when \in Batches : Mint(u, amount, when)
    BY <1>1
  <2>2. MintMonth(when) > month /\ MintMonth(when) \in Nat
    BY MintMonthBound DEF Inv
  <2>3. totalSupplies' = [totalSupplies EXCEPT ![MintMonth(when)] = @ + amount]
    BY <2>1 DEF Mint
  <2>4. m # MintMonth(when)
    BY <2>2 DEF Inv, TypeOK, Batches
  <2> QED
    BY <2>3, <2>4 DEF Inv, TypeOK
<1>2. ASSUME NEW u \in Users, NEW to \in Holders, NEW amount \in Amounts,
             TransferHelper(u, to, amount)
      PROVE  totalSupplies'[m] <= totalSupplies[m]
  BY <1>2, DrawBehind
<1>3. CASE \E u \in Users, to \in Holders, amount \in Amounts : Transfer(u, to, amount)
  BY <1>2, <1>3 DEF Transfer
<1>4. CASE \E s, u \in Users, to \in Holders, amount \in Amounts :
             TransferFrom(s, u, to, amount)
  BY <1>2, <1>4 DEF TransferFrom
<1>5. CASE \E u \in Users, amount \in Amounts : Turn(u, amount)
  BY <1>2, <1>5 DEF Turn, Holders
<1>6. CASE UNCHANGED totalSupplies
  BY <1>6 DEF Inv, TypeOK
<1>7. \/ <1>1!1 \/ <1>3!1 \/ <1>4!1 \/ <1>5!1 \/ UNCHANGED totalSupplies
  BY DEF Next, NextMonth, Approve, SetOperator, GranularTransfer, vars
<1> QED
  BY <1>1, <1>3, <1>4, <1>5, <1>6, <1>7

\* Units that are due can only be redeemed or moved: nothing minted adds to
\* them, so no call sequence within one month both mints and redeems.
THEOREM MaturedShrinks == Spec => MaturedOnlyShrinks
<1>1. Inv /\ [Next]_vars =>
        [\A m \in Batches : m <= month => totalSupplies'[m] <= totalSupplies[m]]_vars
  BY SuppliesStep
<1> QED
  BY <1>1, InvHolds, PTL DEF Spec, MaturedOnlyShrinks

\* A redemption never destroys units of a month still to come.
THEOREM RedemptionsAreDue == Spec => RedeemsOnlyMature
<1>1. ASSUME Inv, NEW m \in Batches, m > month, totalSupplies'[m] < totalSupplies[m],
             NEW u \in Users, NEW amount \in Amounts, Turn(u, amount)
      PROVE  FALSE
  <2>1. totalSupplies'[m] = totalSupplies[m]
    BY <1>1, DrawBehind DEF Turn, Holders
  <2> QED
    BY <1>1, <2>1 DEF Inv, TypeOK
<1>2. Inv /\ [Next]_vars =>
        [(\E m \in Batches : m > month /\ totalSupplies'[m] < totalSupplies[m])
           => \A u \in Users, amount \in Amounts : ~Turn(u, amount)]_vars
  BY <1>1
<1> QED
  BY <1>2, InvHolds, PTL DEF Spec, RedeemsOnlyMature
-----------------------------------------------------------------------------
\* The units that one draw takes from a batch: once it takes from m, every
\* newer batch it walks is emptied.
LEMMA DrainsNewestFirst ==
  ASSUME TypeOK, NEW from \in Holders, NEW eligible \in SUBSET Batches,
         NEW d \in Drains(from, eligible),
         NEW m \in Batches, NEW n \in eligible, m < n, d[m] > 0
  PROVE  d[n] = balanceOf[from][n]
<1>1. PICK stop \in Batches, part \in 0 .. MaxAmount :
        d = [k \in Batches |-> IF k \in eligible /\ k > stop THEN balanceOf[from][k]
                      ELSE IF k \in eligible /\ k = stop
                           THEN (IF part <= balanceOf[from][k]
                                 THEN part ELSE balanceOf[from][k])
                           ELSE 0]
  BY DEF Drains
<1>2. m \in Int /\ n \in Int /\ stop \in Int /\ n \in Batches
  BY DEF Batches
<1>3. m >= stop
  BY <1>1, <1>2
<1> QED
  BY <1>1, <1>2, <1>3

\* What remains above a batch that a transfer drew on was not eligible.
LEMMA TransferNewestFirst ==
  ASSUME Inv, NEW from \in Users, NEW to \in Holders, NEW amount \in Amounts,
         TransferHelper(from, to, amount), granular' = granular, ~granular,
         NEW h \in Holders, NEW m \in Batches, NEW n \in Batches,
         m < n, balanceOf'[h][m] < balanceOf[h][m], balanceOf'[h][n] > 0
  PROVE  m <= month /\ n > month
<1>1. from \in Holders /\ amount \in Nat
  BY DEF Holders, Amounts
<1>2. PICK d \in Drains(from, Eligible(from, to)), sent \in 0 .. amount :
        Move(from, to, d, sent)
  BY DEF TransferHelper
<1>3. Eligible(from, to) \in SUBSET Batches
  BY <1>1, EligibleType DEF Inv
<1>4. /\ d \in [Batches -> Nat]
      /\ \A k \in Batches : d[k] <= balanceOf[from][k]
      /\ \A k \in Batches : k \notin Eligible(from, to) => d[k] = 0
  BY <1>1, <1>3, DrainsBound DEF Inv
<1>5. \A k \in Batches :
        /\ balanceOf'[h][k] = balanceOf[h][k] - (IF h = from THEN d[k] ELSE 0)
                                + (IF h = to /\ ~Burning(to) THEN d[k] ELSE 0)
        /\ balanceOf[h][k] \in Nat /\ d[k] \in Nat
  BY <1>4, <1>2 DEF Move, HeldAfter, Inv, TypeOK
<1>6. h = from /\ ~(h = to /\ ~Burning(to)) /\ d[m] > 0
  BY <1>5
<1>7. d[n] # balanceOf[from][n]
  BY <1>5, <1>6
<1>8. n \notin Eligible(from, to)
  BY <1>1, <1>3, <1>6, <1>7, DrainsNewestFirst DEF Inv
<1>9. n \in perMonth[from] /\ m \in Eligible(from, to)
  <2>1. m \in Eligible(from, to)
    BY <1>4, <1>6
  <2>2. n \in perMonth[from]
    BY <1>1, <1>5, <1>6 DEF Inv, IndexExact
  <2> QED
    BY <2>1, <2>2
<1>10. m \in Int /\ n \in Int /\ month \in Int
  BY DEF Inv, TypeOK, Batches
<1> QED
  BY <1>8, <1>9, <1>10 DEF Eligible, MatureBatches

\* Whoever moves a holder's units takes the newest ones; only a redemption
\* passes over newer ones, and only over those that are not due.
THEOREM DrawsNewestFirst == Spec => NewestFirst
<1>1. ASSUME Inv, [Next]_vars, NEW h \in Holders, NEW m \in Batches, NEW n \in Batches,
             ~granular', m < n, balanceOf'[h][m] < balanceOf[h][m], balanceOf'[h][n] > 0
      PROVE  m <= month /\ n > month
  <2>1. ASSUME NEW u \in Users, NEW to \in Holders, NEW amount \in Amounts,
               TransferHelper(u, to, amount), granular' = granular
        PROVE  m <= month /\ n > month
    BY <1>1, <2>1, TransferNewestFirst
  <2>2. CASE \E u \in Users, to \in Holders, amount \in Amounts : Transfer(u, to, amount)
    BY <2>1, <2>2 DEF Transfer
  <2>3. CASE \E s, u \in Users, to \in Holders, amount \in Amounts :
               TransferFrom(s, u, to, amount)
    BY <2>1, <2>3 DEF TransferFrom
  <2>4. CASE \E u \in Users, amount \in Amounts : Turn(u, amount)
    BY <2>1, <2>4 DEF Turn, Holders
  <2>5. CASE \E u \in Users, amount \in Amounts, when \in Batches : Mint(u, amount, when)
    <3>1. PICK u \in Users, amount \in Amounts, when \in Batches : Mint(u, amount, when)
      BY <2>5
    <3>2. /\ balanceOf' = [balanceOf EXCEPT ![u][MintMonth(when)] = @ + amount]
          /\ amount \in Nat
      BY <3>1 DEF Mint, Amounts
    <3>3. balanceOf[h][m] \in Nat
      BY <1>1 DEF Inv, TypeOK
    <3>4. balanceOf'[h][m] >= balanceOf[h][m]
      BY <3>2, <3>3 DEF Inv, TypeOK
    <3> QED
      BY <1>1, <3>2, <3>3, <3>4 DEF Inv, TypeOK
  <2>6. CASE UNCHANGED balanceOf
    BY <1>1, <2>6 DEF Inv, TypeOK
  <2> QED
    BY <1>1, <2>2, <2>3, <2>4, <2>5, <2>6
    DEF Next, NextMonth, Approve, SetOperator, GranularTransfer, vars
<1>2. Inv /\ [Next]_vars =>
        [\A h \in Holders, m, n \in Batches :
           /\ ~granular'
           /\ m < n
           /\ balanceOf'[h][m] < balanceOf[h][m]
           /\ balanceOf'[h][n] > 0
           => m <= month /\ n > month]_vars
  BY <1>1
<1> QED
  BY <1>2, InvHolds, PTL DEF Spec, NewestFirst
-----------------------------------------------------------------------------
\* What is summed over.
LEMMA FiniteBooks == IsFiniteSet(Holders) /\ IsFiniteSet(Batches)
<1>1. IsFiniteSet({V4, Zero})
  <2>1. IsFiniteSet({V4})
    BY FS_Singleton
  <2>2. IsFiniteSet({V4} \cup {Zero})
    BY <2>1, FS_AddElement
  <2>3. {V4} \cup {Zero} = {V4, Zero}
    OBVIOUS
  <2> QED
    BY <2>2, <2>3
<1>2. IsFiniteSet(Holders)
  BY <1>1, FS_Union, BasketAssumption DEF Holders
<1>3. 0 \in Int /\ MaxBatch \in Int
  BY BasketAssumption
<1>4. IsFiniteSet(Batches)
  BY <1>3, FS_Interval DEF Batches
<1> QED
  BY <1>2, <1>4

\* The books as they are summed.
OfBatch(m) == [h \in Holders |-> balanceOf[h][m]]

\* The types of what is summed.
LEMMA BookTypes ==
  ASSUME TypeOK
  PROVE  /\ \A m \in Batches : OfBatch(m) \in [Holders -> Int]
         /\ \A h \in Holders : balanceOf[h] \in [Batches -> Int]
         /\ totalSupplies \in [Batches -> Int] /\ totalBalances \in [Holders -> Int]
         /\ totalSupply \in Int
<1>1. \A h \in Holders : balanceOf[h] \in [Batches -> Nat]
  BY DEF TypeOK
<1>2. \A h \in Holders, m \in Batches : balanceOf[h][m] \in Int
  BY <1>1
<1>3. \A h \in Holders : balanceOf[h] \in [Batches -> Int]
  BY <1>1
<1>4. totalSupplies \in [Batches -> Int] /\ totalBalances \in [Holders -> Int] /\ totalSupply \in Int
  BY DEF TypeOK
<1> QED
  BY <1>2, <1>3, <1>4 DEF OfBatch

\* Nothing is booked at deployment.
LEMMA BooksInit == Init => BooksAgree
<1> SUFFICES ASSUME Init PROVE BooksAgree
  OBVIOUS
<1>1. TypeOK
  BY InvInit DEF Inv
<1>2. ASSUME NEW S, IsFiniteSet(S), NEW f \in [S -> Int], \A x \in S : f[x] = 0
      PROVE  SumFunction(f) = 0
  <2>1. \A x \in S : f[x] = f[x] + f[x]
    BY <1>2
  <2>2. SumFunction(f) = SumFunction(f) + SumFunction(f) /\ SumFunction(f) \in Int
    BY <1>2, <2>1, SumOfSums
  <2>3. \A n \in Int : n = n + n => n = 0
    OBVIOUS
  <2> QED
    BY <2>2, <2>3
<1>3. \A m \in Batches : SumFunction(OfBatch(m)) = 0
  <2> SUFFICES ASSUME NEW m \in Batches PROVE SumFunction(OfBatch(m)) = 0
    OBVIOUS
  <2>1. OfBatch(m) \in [Holders -> Int] /\ \A h \in Holders : OfBatch(m)[h] = 0
    BY <1>1, BookTypes DEF Init, OfBatch
  <2> QED
    BY <1>2, <2>1, FiniteBooks
<1>4. SumFunction(totalSupplies) = 0 /\ SumFunction(totalBalances) = 0
  <2>1. /\ totalSupplies \in [Batches -> Int] /\ \A m \in Batches : totalSupplies[m] = 0
        /\ totalBalances \in [Holders -> Int] /\ \A h \in Holders : totalBalances[h] = 0
    BY <1>1, BookTypes DEF Init
  <2> QED
    BY <1>2, <2>1, FiniteBooks
<1>5. \A h \in Holders : SumFunction(balanceOf[h]) = 0
  <2> SUFFICES ASSUME NEW h \in Holders PROVE SumFunction(balanceOf[h]) = 0
    OBVIOUS
  <2>1. balanceOf[h] \in [Batches -> Int] /\ \A m \in Batches : balanceOf[h][m] = 0
    BY <1>1, BookTypes DEF Init
  <2> QED
    BY <1>2, <2>1, FiniteBooks
<1>6. /\ \A m \in Batches : totalSupplies[m] = 0
      /\ totalSupply = 0 /\ \A h \in Holders : totalBalances[h] = 0
  BY DEF Init
<1> QED
  BY <1>3, <1>4, <1>5, <1>6 DEF BooksAgree, OfBatch

\* A move: what leaves a batch, a holder and the total is what leaves the other
\* books, burned or not, and to oneself as well.
LEMMA MoveBooks ==
  ASSUME TypeOK, TypeOK', BooksAgree, granular' = granular,
         NEW from \in Holders, NEW to \in Holders,
         NEW d \in [Batches -> Nat], NEW sent \in Nat, sent = SumFunction(d),
         Move(from, to, d, sent)
  PROVE  BooksAgree'
<1> DEFINE burning == Burning(to)
<1>1. burning \in BOOLEAN /\ d \in [Batches -> Int] /\ \A m \in Batches : d[m] \in Int
  BY DEF Burning
<1>2. /\ \A h \in Holders, m \in Batches :
           balanceOf'[h][m] = balanceOf[h][m] - (IF h = from THEN d[m] ELSE 0)
                                + (IF h = to /\ ~burning THEN d[m] ELSE 0)
      /\ \A h \in Holders :
           totalBalances'[h] = totalBalances[h] - (IF h = from THEN sent ELSE 0)
                                + (IF h = to /\ ~burning THEN sent ELSE 0)
      /\ \A m \in Batches :
           totalSupplies'[m] = totalSupplies[m] - (IF burning THEN d[m] ELSE 0)
      /\ totalSupply' = totalSupply - (IF burning THEN sent ELSE 0)
  BY DEF Move, HeldAfter, CirculatingAfter
<1> HIDE DEF burning
<1>3. /\ \A m \in Batches : OfBatch(m) \in [Holders -> Int]
      /\ \A h \in Holders : balanceOf[h] \in [Batches -> Int]
      /\ totalSupplies \in [Batches -> Int] /\ totalBalances \in [Holders -> Int]
      /\ totalSupply \in Int
  BY BookTypes
<1>4. (/\ \A m \in Batches : OfBatch(m) \in [Holders -> Int]
       /\ \A h \in Holders : balanceOf[h] \in [Batches -> Int]
       /\ totalSupplies \in [Batches -> Int] /\ totalBalances \in [Holders -> Int]
       /\ totalSupply \in Int)'
  BY BookTypes, PTL
<1>5. \A m \in Batches : totalSupplies'[m] = SumFunction(OfBatch(m)')
  <2> SUFFICES ASSUME NEW m \in Batches PROVE totalSupplies'[m] = SumFunction(OfBatch(m)')
    OBVIOUS
  <2> DEFINE gain == IF burning THEN 0 ELSE d[m]
  <2>1. \A h \in Holders : OfBatch(m)'[h] = OfBatch(m)[h] - (IF h = from THEN d[m] ELSE 0)
                               + (IF h = to THEN gain ELSE 0)
    BY <1>2 DEF OfBatch
  <2>2. d[m] \in Int /\ OfBatch(m) \in [Holders -> Int] /\ OfBatch(m)' \in [Holders -> Int]
    BY <1>1, <1>3, <1>4
  <2>3. gain \in Int
    BY <2>2
  <2> HIDE DEF gain
  <2>4. /\ SumFunction(OfBatch(m)) \in Int
        /\ SumFunction(OfBatch(m)') = SumFunction(OfBatch(m)) - d[m] + gain
    <3>1. OfBatch(m)' = Moved(OfBatch(m), from, d[m], to, gain)
      BY <2>1, <2>2 DEF Moved
    <3> QED
      BY <2>2, <2>3, <3>1, FiniteBooks, SumOfMoved
  <2>5. totalSupplies[m] = SumFunction(OfBatch(m))
    BY DEF BooksAgree, OfBatch
  <2> QED
    BY <1>2, <2>2, <2>4, <2>5 DEF gain
<1>6. totalSupply' = SumFunction(totalSupplies')
  <2>1. totalSupply = SumFunction(totalSupplies)
    BY DEF BooksAgree
  <2>2. CASE burning
    <3>1. \A m \in Batches : totalSupplies[m] = totalSupplies'[m] + d[m]
      <4> SUFFICES ASSUME NEW m \in Batches PROVE totalSupplies[m] = totalSupplies'[m] + d[m]
        OBVIOUS
      <4>1. totalSupplies'[m] = totalSupplies[m] - d[m]
        BY <1>2, <2>2
      <4>2. totalSupplies[m] \in Int /\ d[m] \in Int
        BY <1>1, <1>3
      <4> QED
        BY <4>1, <4>2
    <3>2. /\ SumFunction(totalSupplies') \in Int
          /\ SumFunction(totalSupplies) = SumFunction(totalSupplies') + SumFunction(d)
      <4> DEFINE before == totalSupplies
                 after == totalSupplies'
      <4>1. /\ before \in [Batches -> Int] /\ after \in [Batches -> Int]
            /\ d \in [Batches -> Int] /\ IsFiniteSet(Batches)
            /\ \A m \in Batches : before[m] = after[m] + d[m]
        BY <1>1, <1>3, <1>4, <3>1, FiniteBooks
      <4> HIDE DEF before, after
      <4>2. /\ SumFunction(after) \in Int
            /\ SumFunction(before) = SumFunction(after) + SumFunction(d)
        BY <4>1, SumOfSums
      <4> QED
        BY <4>2 DEF before, after
    <3>3. totalSupply' = totalSupply - sent
      BY <1>2, <2>2
    <3> QED
      BY <1>3, <2>1, <3>2, <3>3
  <2>3. CASE ~burning
    <3>1. \A m \in Batches : totalSupplies'[m] = totalSupplies[m]
      <4> SUFFICES ASSUME NEW m \in Batches PROVE totalSupplies'[m] = totalSupplies[m]
        OBVIOUS
      <4>1. totalSupplies'[m] = totalSupplies[m] - 0 /\ totalSupplies[m] \in Int
        BY <1>2, <1>3, <2>3
      <4> QED
        BY <4>1
    <3>2. totalSupplies' = totalSupplies
      BY <1>3, <1>4, <3>1
    <3>3. totalSupply' = totalSupply
      BY <1>2, <1>3, <2>3
    <3> QED
      BY <2>1, <3>2, <3>3
  <2> QED
    BY <1>1, <2>2, <2>3
<1>7. totalSupply' = SumFunction(totalBalances')
  <2> DEFINE gain == IF burning THEN 0 ELSE sent
  <2>1. \A h \in Holders : totalBalances'[h] = totalBalances[h] - (IF h = from THEN sent ELSE 0)
                               + (IF h = to THEN gain ELSE 0)
    BY <1>2
  <2>2. gain \in Int /\ sent \in Int
    OBVIOUS
  <2> HIDE DEF gain
  <2>3. /\ SumFunction(totalBalances) \in Int
        /\ SumFunction(totalBalances') = SumFunction(totalBalances) - sent + gain
    <3>1. totalBalances' = Moved(totalBalances, from, sent, to, gain)
      BY <1>3, <1>4, <2>1 DEF Moved
    <3> QED
      BY <1>3, <2>2, <3>1, FiniteBooks, SumOfMoved
  <2>4. totalSupply = SumFunction(totalBalances)
    BY DEF BooksAgree
  <2> QED
    BY <1>2, <2>2, <2>3, <2>4 DEF gain
<1>8. ASSUME ~granular', NEW h \in Holders PROVE totalBalances'[h] = SumFunction(balanceOf'[h])
  <2> DEFINE out == h = from
             in  == h = to /\ ~burning
  <2>1. totalBalances[h] = SumFunction(balanceOf[h])
    BY <1>8 DEF BooksAgree
  <2>2. /\ balanceOf[h] \in [Batches -> Int] /\ balanceOf'[h] \in [Batches -> Int]
        /\ totalBalances[h] \in Int
        /\ \A m \in Batches : /\ balanceOf[h][m] \in Int /\ balanceOf'[h][m] \in Int
                              /\ d[m] \in Int
    BY <1>1, <1>3, <1>4
  <2>3. /\ \A m \in Batches : balanceOf'[h][m] = balanceOf[h][m] - (IF out THEN d[m] ELSE 0)
                                                  + (IF in THEN d[m] ELSE 0)
        /\ totalBalances'[h] = totalBalances[h] - (IF out THEN sent ELSE 0)
                                                  + (IF in THEN sent ELSE 0)
    BY <1>2
  <2> HIDE DEF out, in
  <2>4. CASE out /\ ~in
    <3>1. \A m \in Batches : balanceOf[h][m] = balanceOf'[h][m] + d[m]
      BY <2>2, <2>3, <2>4
    <3>2. /\ SumFunction(balanceOf'[h]) \in Int
          /\ SumFunction(balanceOf[h]) = SumFunction(balanceOf'[h]) + SumFunction(d)
      BY <1>1, <2>2, <3>1, FiniteBooks, SumOfSums
    <3>3. totalBalances'[h] = totalBalances[h] - sent
      BY <2>2, <2>3, <2>4
    <3> QED
      BY <2>1, <2>2, <3>2, <3>3
  <2>5. CASE ~out /\ in
    <3>1. \A m \in Batches : balanceOf'[h][m] = balanceOf[h][m] + d[m]
      BY <2>2, <2>3, <2>5
    <3>2. SumFunction(balanceOf'[h]) = SumFunction(balanceOf[h]) + SumFunction(d)
      BY <1>1, <2>2, <3>1, FiniteBooks, SumOfSums
    <3>3. totalBalances'[h] = totalBalances[h] + sent
      BY <2>2, <2>3, <2>5
    <3> QED
      BY <2>1, <3>2, <3>3
  <2>6. CASE out <=> in
    <3>1. \A m \in Batches : balanceOf'[h][m] = balanceOf[h][m]
      BY <2>2, <2>3, <2>6
    <3>2. balanceOf'[h] = balanceOf[h]
      BY <2>2, <3>1
    <3>3. totalBalances'[h] = totalBalances[h]
      BY <2>2, <2>3, <2>6
    <3> QED
      BY <2>1, <3>2, <3>3
  <2> QED
    BY <2>4, <2>5, <2>6 DEF out, in
<1> QED
  BY <1>5, <1>6, <1>7, <1>8 DEF BooksAgree, OfBatch

\* A mint: the amount is booked once in each book.
LEMMA MintBooks ==
  ASSUME TypeOK, TypeOK', BooksAgree, NEW pledge \in Users, NEW amount \in Amounts,
         NEW when \in Batches, Mint(pledge, amount, when)
  PROVE  BooksAgree'
<1> DEFINE n == MintMonth(when)
<1>1. /\ n \in Batches /\ pledge \in Holders /\ amount \in Int
      /\ totalSupply' = totalSupply + amount
      /\ totalSupplies' = [totalSupplies EXCEPT ![n] = @ + amount]
      /\ totalBalances' = [totalBalances EXCEPT ![pledge] = @ + amount]
      /\ balanceOf' = [balanceOf EXCEPT ![pledge][n] = @ + amount]
      /\ granular' = granular
  BY DEF Mint, Amounts, Holders
<1> HIDE DEF n
<1>2. /\ \A m \in Batches : OfBatch(m) \in [Holders -> Int]
      /\ \A h \in Holders : balanceOf[h] \in [Batches -> Int]
      /\ totalSupplies \in [Batches -> Int] /\ totalBalances \in [Holders -> Int]
      /\ totalSupply \in Int
  BY BookTypes
<1>3. (/\ \A m \in Batches : OfBatch(m) \in [Holders -> Int]
       /\ \A h \in Holders : balanceOf[h] \in [Batches -> Int]
       /\ totalSupplies \in [Batches -> Int] /\ totalBalances \in [Holders -> Int]
       /\ totalSupply \in Int)'
  BY BookTypes, PTL
<1>4. /\ \A h \in Holders, m \in Batches :
           balanceOf'[h][m] = IF h = pledge /\ m = n THEN balanceOf[h][m] + amount
                                                     ELSE balanceOf[h][m]
      /\ \A m \in Batches :
           totalSupplies'[m] = IF m = n THEN totalSupplies[m] + amount ELSE totalSupplies[m]
      /\ \A h \in Holders :
           totalBalances'[h] = IF h = pledge THEN totalBalances[h] + amount
                                             ELSE totalBalances[h]
  BY <1>1 DEF TypeOK
<1>5. \A m \in Batches : totalSupplies'[m] = SumFunction(OfBatch(m)')
  <2> SUFFICES ASSUME NEW m \in Batches PROVE totalSupplies'[m] = SumFunction(OfBatch(m)')
    OBVIOUS
  <2>1. totalSupplies[m] = SumFunction(OfBatch(m)) /\ totalSupplies[m] \in Int
    BY <1>2 DEF BooksAgree, OfBatch
  <2>2. /\ \A h \in Holders : h # pledge => OfBatch(m)'[h] = OfBatch(m)[h]
        /\ OfBatch(m)'[pledge] = IF m = n THEN OfBatch(m)[pledge] + amount
                                          ELSE OfBatch(m)[pledge]
    BY <1>1, <1>4 DEF OfBatch
  <2>3. /\ OfBatch(m) \in [Holders -> Int] /\ OfBatch(m)' \in [Holders -> Int]
        /\ OfBatch(m)[pledge] \in Int
    BY <1>1, <1>2, <1>3
  <2>4. SumFunction(OfBatch(m)')
          = SumFunction(OfBatch(m)) + (OfBatch(m)'[pledge] - OfBatch(m)[pledge])
    BY <1>1, <2>2, <2>3, FiniteBooks, SumOfChange
  <2> QED
    BY <1>1, <1>4, <2>1, <2>2, <2>3, <2>4
<1>6. totalSupply' = SumFunction(totalSupplies')
  <2>1. SumFunction(totalSupplies')
          = SumFunction(totalSupplies) + (totalSupplies'[n] - totalSupplies[n])
    <3>1. \A x \in Batches : x # n => totalSupplies'[x] = totalSupplies[x]
      BY <1>4
    <3>2. /\ totalSupplies \in [Batches -> Int] /\ totalSupplies' \in [Batches -> Int]
          /\ n \in Batches
      BY <1>1, <1>2, <1>3
    <3> QED
      BY <3>1, <3>2, FiniteBooks, SumOfChange
  <2>2. totalSupplies'[n] - totalSupplies[n] = amount
    BY <1>1, <1>2, <1>4
  <2> QED
    BY <1>1, <2>1, <2>2 DEF BooksAgree
<1>7. totalSupply' = SumFunction(totalBalances')
  <2>1. SumFunction(totalBalances')
          = SumFunction(totalBalances) + (totalBalances'[pledge] - totalBalances[pledge])
    <3>1. \A x \in Holders : x # pledge => totalBalances'[x] = totalBalances[x]
      BY <1>4
    <3>2. /\ totalBalances \in [Holders -> Int] /\ totalBalances' \in [Holders -> Int]
          /\ pledge \in Holders
      BY <1>1, <1>2, <1>3
    <3> QED
      BY <3>1, <3>2, FiniteBooks, SumOfChange
  <2>2. totalBalances'[pledge] - totalBalances[pledge] = amount
    BY <1>1, <1>2, <1>4
  <2> QED
    BY <1>1, <2>1, <2>2 DEF BooksAgree
<1>8. ASSUME ~granular', NEW h \in Holders PROVE totalBalances'[h] = SumFunction(balanceOf'[h])
  <2>1. totalBalances[h] = SumFunction(balanceOf[h]) /\ totalBalances[h] \in Int
    BY <1>1, <1>2, <1>8 DEF BooksAgree
  <2>2. balanceOf[h] \in [Batches -> Int] /\ balanceOf'[h] \in [Batches -> Int]
    BY <1>2, <1>3
  <2>3. CASE h = pledge
    <3>1. /\ \A m \in Batches : m # n => balanceOf'[h][m] = balanceOf[h][m]
          /\ balanceOf'[h][n] - balanceOf[h][n] = amount
      BY <1>1, <1>4, <2>2, <2>3
    <3>2. SumFunction(balanceOf'[h])
            = SumFunction(balanceOf[h]) + (balanceOf'[h][n] - balanceOf[h][n])
      BY <1>1, <2>2, <3>1, FiniteBooks, SumOfChange
    <3> QED
      BY <1>4, <2>1, <2>3, <3>1, <3>2
  <2>4. CASE h # pledge
    <3>1. \A m \in Batches : balanceOf'[h][m] = balanceOf[h][m]
      BY <1>4, <2>4
    <3>2. balanceOf'[h] = balanceOf[h]
      BY <2>2, <3>1
    <3> QED
      BY <1>4, <2>1, <2>4, <3>2
  <2> QED
    BY <2>3, <2>4
<1> QED
  BY <1>5, <1>6, <1>7, <1>8 DEF BooksAgree, OfBatch

\* The inherited transfer moves units within a batch: of the four books, only
\* the holders' totals no longer tell how they are split.
LEMMA GranularBooks ==
  ASSUME TypeOK, TypeOK', BooksAgree, NEW from \in Users, NEW to \in Holders,
         NEW n \in Batches, NEW amount \in Amounts, GranularTransfer(from, to, n, amount)
  PROVE  BooksAgree'
<1>1. /\ from \in Holders /\ amount \in Int /\ granular' = TRUE
      /\ totalSupply' = totalSupply /\ totalSupplies' = totalSupplies
      /\ totalBalances' = totalBalances
      /\ balanceOf' = [h \in Holders |-> [balanceOf[h] EXCEPT ![n] =
           @ - (IF h = from THEN amount ELSE 0) + (IF h = to THEN amount ELSE 0)]]
  BY DEF GranularTransfer, Amounts, Holders
<1>2. \A m \in Batches : SumFunction(OfBatch(m)') = SumFunction(OfBatch(m))
  <2> SUFFICES ASSUME NEW m \in Batches PROVE SumFunction(OfBatch(m)') = SumFunction(OfBatch(m))
    OBVIOUS
  <2>1. OfBatch(m) \in [Holders -> Int]
    BY BookTypes
  <2>2. CASE m = n
    <3>1. \A h \in Holders : balanceOf'[h][m]
            = balanceOf[h][m] - (IF h = from THEN amount ELSE 0) + (IF h = to THEN amount ELSE 0)
      BY <1>1, <2>2 DEF TypeOK
    <3>2. OfBatch(m)' = Moved(OfBatch(m), from, amount, to, amount)
      BY <3>1 DEF OfBatch, Moved
    <3>3. /\ SumFunction(OfBatch(m)) \in Int
          /\ SumFunction(OfBatch(m)') = SumFunction(OfBatch(m)) - amount + amount
      BY <1>1, <2>1, <3>2, FiniteBooks, SumOfMoved
    <3> QED
      BY <1>1, <3>3
  <2>3. CASE m # n
    <3>1. \A h \in Holders : balanceOf'[h][m] = balanceOf[h][m]
      BY <1>1, <2>3 DEF TypeOK
    <3>2. OfBatch(m)' = OfBatch(m)
      BY <3>1 DEF OfBatch
    <3> QED
      BY <3>2
  <2> QED
    BY <2>2, <2>3
<1> QED
  BY <1>1, <1>2 DEF BooksAgree, OfBatch

\* No other entry point touches a book.
LEMMA BooksStep == Inv /\ Inv' /\ BooksAgree /\ [Next]_vars => BooksAgree'
<1> SUFFICES ASSUME Inv, Inv', BooksAgree, [Next]_vars PROVE BooksAgree'
  OBVIOUS
<1>1. TypeOK /\ TypeOK'
  BY DEF Inv
<1>2. ASSUME UNCHANGED <<balanceOf, totalBalances, totalSupplies, totalSupply, granular>>
      PROVE  BooksAgree'
  BY <1>2 DEF BooksAgree
<1>3. ASSUME NEW from \in Users, NEW to \in Holders, NEW amount \in Amounts,
             TransferHelper(from, to, amount), granular' = granular
      PROVE  BooksAgree'
  <2>1. from \in Holders /\ amount \in Nat
    BY DEF Holders, Amounts
  <2>2. PICK d \in [Batches -> Nat], sent \in Nat :
          sent = SumFunction(d) /\ Move(from, to, d, sent)
    BY <1>1, <1>3, <2>1, TransferDraw
  <2> QED
    BY <1>1, <1>3, <2>1, <2>2, MoveBooks
<1>4. CASE NextMonth
  BY <1>2, <1>4 DEF NextMonth
<1>5. CASE \E u \in Users, amount \in Amounts, when \in Batches : Mint(u, amount, when)
  BY <1>1, <1>5, MintBooks
<1>6. CASE \E u \in Users, to \in Holders, amount \in Amounts : Transfer(u, to, amount)
  BY <1>3, <1>6 DEF Transfer
<1>7. CASE \E s, u \in Users, to \in Holders, amount \in Amounts : TransferFrom(s, u, to, amount)
  BY <1>3, <1>7 DEF TransferFrom
<1>8. CASE \E u \in Users, amount \in Amounts : Turn(u, amount)
  <2>1. Zero \in Holders
    BY DEF Holders
  <2> QED
    BY <1>3, <1>8, <2>1 DEF Turn
<1>9. CASE \E p \in Delegations, value \in {0, MaxAmount, Unlimited} :
             Approve(p[1], p[2], value)
  BY <1>2, <1>9 DEF Approve
<1>10. CASE \E p \in Delegations, approved \in BOOLEAN : SetOperator(p[1], p[2], approved)
  BY <1>2, <1>10 DEF SetOperator
<1>11. CASE \E u \in Users, to \in Holders, m \in Batches, amount \in Amounts :
             GranularTransfer(u, to, m, amount)
  BY <1>1, <1>11, GranularBooks
<1>12. CASE UNCHANGED vars
  BY <1>2, <1>12 DEF vars
<1> QED
  BY <1>4, <1>5, <1>6, <1>7, <1>8, <1>9, <1>10, <1>11, <1>12 DEF Next

\* The four books agree on what is in circulation, whatever mix of mints, burns,
\* batched and granular transfers has happened.
THEOREM BooksAlwaysAgree == Spec => []BooksAgree
<1>1. Init => Inv /\ BooksAgree
  BY InvInit, BooksInit
<1>2. Inv /\ BooksAgree /\ [Next]_vars => (Inv /\ BooksAgree)'
  BY InvStep, BooksStep
<1> QED
  BY <1>1, <1>2, PTL DEF Spec
-----------------------------------------------------------------------------
(***************************************************************************)
(* The array behind the index of a holder (module SortedSet).  What its    *)
(* two loops compute is stated in a closed form; a loop that computed      *)
(* anything else would do so first at a least span, or at a least slot.    *)
(***************************************************************************)
\* What the array always is, as a property of a sequence.
Ascends(s) == \A i, j \in 1 .. Len(s) : i < j => s[i] < s[j]

\* `p` is where `value` is in `s`, or where it is to be put.
Splits(s, value, p) ==
  /\ p \in 0 .. Len(s)
  /\ \A i \in 1 .. p : s[i] < value
  /\ \A i \in p + 1 .. Len(s) : value <= s[i]

\* An ascending array is split by every value.
LEMMA SplitExists ==
  ASSUME NEW s \in Seq(Nat), Ascends(s), NEW value \in Nat
  PROVE  \E p : Splits(s, value, p)
<1> DEFINE T == {k \in 0 .. Len(s) : k = Len(s) \/ value <= s[k + 1]}
<1>1. Len(s) \in Nat /\ \A i \in 1 .. Len(s) : s[i] \in Nat
  OBVIOUS
<1>2. T \subseteq Nat /\ Len(s) \in T
  BY <1>1
<1>3. PICK p \in T : \A m \in T : p <= m
  <2> HIDE DEF T
  <2> QED
    BY <1>2, LeastNat, Zenon
<1>4. p \in 0 .. Len(s) /\ (p = Len(s) \/ value <= s[p + 1])
  BY <1>3
<1>5. ASSUME NEW i \in 1 .. p PROVE s[i] < value
  <2>1. i - 1 \in Nat /\ i - 1 < p /\ p <= Len(s)
    BY <1>4, <1>1
  <2>2. i - 1 \notin T
    <3>1. \A m \in T : m \in Nat /\ p <= m
      BY <1>2, <1>3
    <3> HIDE DEF T
    <3> QED
      BY <3>1, <2>1, <1>4, <1>1
  <2>3. i - 1 \in 0 .. Len(s) /\ (i - 1) + 1 = i
    BY <2>1, <1>1
  <2>4. ~ (value <= s[i])
    BY <2>2, <2>3
  <2> QED
    BY <2>4, <1>4, <1>1
<1>6. ASSUME NEW i \in p + 1 .. Len(s) PROVE value <= s[i]
  <2>1. value <= s[p + 1]
    BY <1>4, <1>1, <1>6
  <2>2. i = p + 1 \/ s[p + 1] < s[i]
    BY <1>4, <1>1, <1>6 DEF Ascends
  <2> QED
    BY <2>1, <2>2, <1>4, <1>1, <1>6
<1> QED
  BY <1>4, <1>5, <1>6 DEF Splits

\* One turn of the loop of binarySearch on `s`.
BisectStep(s, value, F, left, right) ==
  LET mid == left + (right - left) \div 2
  IN  IF left >= right           THEN <<left, FALSE>>
      ELSE IF s[mid + 1] = value THEN <<mid, TRUE>>
      ELSE IF s[mid + 1] < value THEN F[<<mid + 1, right>>]
      ELSE F[<<left, mid>>]

\* ... and what the loop comes to from the span left .. right on.
Bisected(s, value, p, left, right) ==
  IF left >= right THEN <<left, FALSE>>
  ELSE IF left <= p /\ p < right /\ s[p + 1] = value THEN <<p, TRUE>>
  ELSE <<IF p < left THEN left ELSE IF right < p THEN right ELSE p, FALSE>>

\* binarySearch is the function that BisectStep defines.
LEMMA BinarySearchIs ==
  ASSUME NEW value
  PROVE BinarySearch(value)
     = (CHOOSE F : F = [span \in (0 .. Len(sortedArray)) \X (0 .. Len(sortedArray)) |->
                       BisectStep(sortedArray, value, F, span[1], span[2])])[<<0, Len(sortedArray)>>]
  BY DEF BinarySearch, BisectStep, At

\* A turn of the loop of binarySearch is right if the turns on every shorter
\* span are.
LEMMA BisectedStep ==
  ASSUME NEW s \in Seq(Nat), Ascends(s), NEW value \in Nat, NEW p, Splits(s, value, p),
         NEW F, NEW left \in 0 .. Len(s), NEW right \in 0 .. Len(s),
         \A l, r \in 0 .. Len(s) : l < r /\ r - l < right - left => F[<<l, r>>] = Bisected(s, value, p, l, r),
         \A l \in 0 .. Len(s) : F[<<l, l>>] = Bisected(s, value, p, l, l)
  PROVE  BisectStep(s, value, F, left, right) = Bisected(s, value, p, left, right)
<1> DEFINE mid == left + (right - left) \div 2
<1>1. Len(s) \in Nat /\ \A i \in 1 .. Len(s) : s[i] \in Nat
  OBVIOUS
<1>2. CASE left >= right
  BY <1>2 DEF BisectStep, Bisected
<1>3. CASE left < right
  <2>1. mid \in left .. right - 1
    BY <1>3, <1>1
  <2> HIDE DEF mid
  <2>2. BisectStep(s, value, F, left, right)
        = IF s[mid + 1] = value      THEN <<mid, TRUE>>
          ELSE IF s[mid + 1] < value THEN F[<<mid + 1, right>>]
          ELSE F[<<left, mid>>]
    BY <1>3, <1>1 DEF BisectStep, mid
  <2>3. p \in 0 .. Len(s)
    BY DEF Splits
  <2>4. mid + 1 \in 1 .. Len(s) /\ s[mid + 1] \in Nat
    BY <2>1, <1>1
  <2>5. CASE s[mid + 1] = value
    <3>1. p <= mid
      <4> SUFFICES ASSUME mid + 1 <= p PROVE FALSE
        BY <2>1, <2>3, <1>1
      <4>1. s[mid + 1] < value
        BY <2>4, <2>3, <1>1 DEF Splits
      <4> QED
        BY <4>1, <2>5
    <3>2. ~ (p < mid)
      <4> SUFFICES ASSUME p < mid PROVE FALSE
        OBVIOUS
      <4>1. value <= s[p + 1]
        BY <2>3, <2>4, <1>1, <2>1 DEF Splits
      <4>2. p + 1 \in 1 .. Len(s) /\ p + 1 < mid + 1
        BY <2>3, <2>4, <1>1, <2>1
      <4>3. s[p + 1] < s[mid + 1]
        BY <4>2, <2>4 DEF Ascends
      <4> QED
        BY <4>1, <4>2, <4>3, <2>5, <2>4, <1>1
    <3>3. p = mid
      BY <3>1, <3>2, <2>1, <2>3
    <3> QED
      <4>1. BisectStep(s, value, F, left, right) = <<p, TRUE>>
        BY <3>3, <2>5, <2>2
      <4>2. Bisected(s, value, p, left, right) = <<p, TRUE>>
        <5>1. left <= p /\ p < right /\ s[p + 1] = value /\ ~ (left >= right)
          BY <3>3, <2>5, <2>1, <1>3, <1>1
        <5> QED
          BY <5>1, Zenon DEF Bisected
      <4> QED
        BY <4>1, <4>2
  <2>6. CASE s[mid + 1] < value
    <3>1. mid + 1 <= p
      <4> SUFFICES ASSUME ~ (mid + 1 <= p) PROVE FALSE
        OBVIOUS
      <4>1. mid + 1 \in p + 1 .. Len(s)
        BY <2>1, <2>3, <2>4, <1>1
      <4>2. value <= s[mid + 1]
        BY <4>1 DEF Splits
      <4> QED
        BY <4>2, <2>6, <2>4
    <3>2. BisectStep(s, value, F, left, right) = F[<<mid + 1, right>>]
      BY <2>2, <2>6, <2>4
    <3>3. F[<<mid + 1, right>>] = Bisected(s, value, p, mid + 1, right)
      <4>1. CASE mid + 1 = right
        BY <4>1, <2>4
      <4>2. CASE mid + 1 < right
        BY <4>2, <2>1, <2>4, <1>1
      <4> QED
        BY <4>1, <4>2, <2>1
    <3>4. Bisected(s, value, p, mid + 1, right) = Bisected(s, value, p, left, right)
      <4>1. left <= p /\ mid + 1 <= p /\ ~ (p < left) /\ ~ (p < mid + 1) /\ left < right
        BY <3>1, <2>1, <2>3, <1>1, <1>3
      <4>2. mid + 1 < right \/ (mid + 1 = right /\ ~ (p < right))
        BY <3>1, <2>1, <2>3, <1>1
      <4>3. CASE mid + 1 < right
        BY <4>1, <4>3, <2>1, <2>3, <1>1 DEF Bisected
      <4>4. CASE mid + 1 = right /\ ~ (p < right)
        <5>1. Bisected(s, value, p, mid + 1, right) = <<right, FALSE>>
          <6>1. mid + 1 >= right
            BY <4>4, <2>1, <1>1
          <6> QED
            BY <6>1, <4>4, Zenon DEF Bisected
        <5>2. (IF p < left THEN left ELSE IF right < p THEN right ELSE p) = right
          BY <4>1, <4>4, <2>1, <2>3, <1>1
        <5>3. Bisected(s, value, p, left, right) = <<right, FALSE>>
          <6>1. ~ (left >= right) /\ ~ (left <= p /\ p < right /\ s[p + 1] = value)
            BY <4>1, <4>4, <2>1, <2>3, <1>1
          <6> QED
            BY <6>1, <5>2, Zenon DEF Bisected
        <5> QED
          BY <5>1, <5>3
      <4> QED
        BY <4>2, <4>3, <4>4
    <3> QED
      BY <3>2, <3>3, <3>4
  <2>7. CASE value < s[mid + 1]
    <3>1. p <= mid
      <4> SUFFICES ASSUME mid + 1 <= p PROVE FALSE
        BY <2>1, <2>3, <1>1
      <4>1. mid + 1 \in 1 .. p
        BY <2>1, <2>3, <1>1
      <4>2. s[mid + 1] < value
        BY <4>1 DEF Splits
      <4> QED
        BY <4>2, <2>7, <2>4
    <3>2. BisectStep(s, value, F, left, right) = F[<<left, mid>>]
      BY <2>2, <2>7, <2>4
    <3>3. F[<<left, mid>>] = Bisected(s, value, p, left, mid)
      <4>1. CASE left = mid
        BY <4>1
      <4>2. CASE left < mid
        <5>1. left \in 0 .. Len(s) /\ mid \in 0 .. Len(s) /\ left < mid /\ mid - left < right - left
          BY <4>2, <2>1, <2>4, <1>1
        <5> QED
          BY <5>1
      <4> QED
        BY <4>1, <4>2, <2>1
    <3>4. p = mid => s[p + 1] # value
      BY <2>7, <2>4
    <3>5. Bisected(s, value, p, left, mid) = Bisected(s, value, p, left, right)
      <4>1. left < mid \/ left = mid
        BY <2>1, <1>1
      <4>2. p < right /\ ~ (right < p) /\ ~ (mid < p) /\ (s[p + 1] = value => p < mid)
        BY <3>1, <3>4, <2>1, <2>3, <1>1
      <4>3. CASE left < mid
        <5>1. left <= p /\ p < right /\ s[p + 1] = value
              <=> left <= p /\ p < mid /\ s[p + 1] = value
          BY <4>2, <2>1, <2>3, <1>1
        <5>2. (IF p < left THEN left ELSE IF right < p THEN right ELSE p)
              = (IF p < left THEN left ELSE IF mid < p THEN mid ELSE p)
          BY <4>2
        <5>3. ~ (left >= mid) /\ ~ (left >= right)
          BY <4>3, <1>3, <2>1, <1>1
        <5> QED
          BY <5>1, <5>2, <5>3 DEF Bisected
      <4>4. CASE left = mid
        <5>1. Bisected(s, value, p, left, mid) = <<left, FALSE>>
          <6>1. left >= mid
            BY <4>4, <2>1, <1>1
          <6> QED
            BY <6>1, Zenon DEF Bisected
        <5>2. (IF p < left THEN left ELSE IF right < p THEN right ELSE p) = left
          BY <4>2, <4>4, <2>1, <2>3, <1>1
        <5>3. ~ (left <= p /\ p < right /\ s[p + 1] = value) /\ ~ (left >= right)
          BY <4>2, <4>4, <2>1, <2>3, <1>1, <1>3
        <5>4. Bisected(s, value, p, left, right) = <<left, FALSE>>
          BY <5>2, <5>3 DEF Bisected
        <5> QED
          BY <5>1, <5>4
      <4> QED
        BY <4>1, <4>3, <4>4
    <3> QED
      BY <3>2, <3>3, <3>5
  <2> QED
    BY <2>5, <2>6, <2>7, <2>4
<1> QED
  BY <1>2, <1>3, <1>1

\* binarySearch returns the position that splits the array (SortedSetLib.
\* binarySearch): no turn of its loop is a first wrong one.
LEMMA BinarySearchSplits ==
  ASSUME sortedArray \in Seq(Nat), Ascends(sortedArray), NEW value \in Nat,
         NEW p, Splits(sortedArray, value, p)
  PROVE  BinarySearch(value)[1] = p
<1> DEFINE s == sortedArray
           Dom == 0 .. Len(s)
           F == CHOOSE G : G = [span \in Dom \X Dom |-> BisectStep(s, value, G, span[1], span[2])]
           H == [span \in Dom \X Dom |-> Bisected(s, value, p, span[1], span[2])]
<1>1. Len(s) \in Nat
  OBVIOUS
<1>2. H = [span \in Dom \X Dom |-> BisectStep(s, value, H, span[1], span[2])]
  <2>1. \A l, r \in Dom : H[<<l, r>>] = Bisected(s, value, p, l, r)
    OBVIOUS
  <2> HIDE DEF H
  <2>2. ASSUME NEW left \in Dom, NEW right \in Dom
        PROVE  BisectStep(s, value, H, left, right) = Bisected(s, value, p, left, right)
    BY <2>1, BisectedStep
  <2> QED
    BY <2>2 DEF H
<1>3. F = [span \in Dom \X Dom |-> BisectStep(s, value, F, span[1], span[2])]
  <2> HIDE DEF H
  <2> QED
    BY <1>2
<1> HIDE DEF F, H
<1>4. \A left, right \in Dom : F[<<left, right>>] = BisectStep(s, value, F, left, right)
  BY <1>3
<1>5. \A l \in Dom : F[<<l, l>>] = Bisected(s, value, p, l, l)
  <2> SUFFICES ASSUME NEW l \in Dom PROVE F[<<l, l>>] = Bisected(s, value, p, l, l)
    OBVIOUS
  <2>1. F[<<l, l>>] = BisectStep(s, value, F, l, l)
    BY <1>4
  <2>2. l >= l
    BY <1>1
  <2>3. BisectStep(s, value, F, l, l) = <<l, FALSE>>
    BY <2>2 DEF BisectStep
  <2>4. Bisected(s, value, p, l, l) = <<l, FALSE>>
    BY <2>2 DEF Bisected
  <2> QED
    BY <2>1, <2>3, <2>4
<1> DEFINE Wrong == {d \in Nat : \E l, r \in Dom :
                        l < r /\ d = r - l /\ F[<<l, r>>] # Bisected(s, value, p, l, r)}
<1>6. Wrong = {}
  <2> SUFFICES ASSUME Wrong # {} PROVE FALSE
    OBVIOUS
  <2>1. PICK d \in Wrong : \A m \in Wrong : d <= m
    <3>1. Wrong \subseteq Nat
      OBVIOUS
    <3> HIDE DEF Wrong
    <3> QED
      BY <3>1, LeastNat, Zenon
  <2>2. PICK left \in Dom, right \in Dom :
          left < right /\ d = right - left /\ F[<<left, right>>] # Bisected(s, value, p, left, right)
    BY <2>1
  <2>3. ASSUME NEW l \in Dom, NEW r \in Dom, l < r, r - l < right - left
        PROVE  F[<<l, r>>] = Bisected(s, value, p, l, r)
    <3>1. r - l \in Nat /\ r - l < d
      <4>1. d = right - left
        BY <2>2
      <4>2. r \in Int /\ l \in Int
        BY <1>1
      <4> HIDE DEF Wrong, Dom
      <4> QED
        BY <2>3, <4>1, <4>2
    <3>2. r - l \notin Wrong
      <4>1. d \in Nat
        BY <2>1
      <4>2. \A m \in Wrong : m \in Nat /\ d <= m
        BY <2>1
      <4> HIDE DEF Wrong
      <4> QED
        BY <4>1, <4>2, <3>1
    <3> QED
      BY <3>1, <3>2, <2>3
  <2>4. BisectStep(s, value, F, left, right) = Bisected(s, value, p, left, right)
    <3> HIDE DEF Wrong
    <3>1. \A l, r \in 0 .. Len(s) : l < r /\ r - l < right - left
                                   => F[<<l, r>>] = Bisected(s, value, p, l, r)
      BY <2>3
    <3> HIDE DEF s
    <3>2. left \in 0 .. Len(s) /\ right \in 0 .. Len(s)
      BY <2>2
    <3>3. s \in Seq(Nat) /\ Ascends(s) /\ Splits(s, value, p)
      BY DEF s
    <3>4. \A l \in 0 .. Len(s) : F[<<l, l>>] = Bisected(s, value, p, l, l)
      BY <1>5
    <3> QED
      BY <3>1, <3>2, <3>3, <3>4, BisectedStep
  <2> QED
    BY <2>2, <2>4, <1>4
<1>7. F[<<0, Len(s)>>] = Bisected(s, value, p, 0, Len(s))
  <2>1. CASE Len(s) = 0
    BY <2>1, <1>5, <1>1
  <2>2. CASE 0 < Len(s)
    <3> SUFFICES ASSUME F[<<0, Len(s)>>] # Bisected(s, value, p, 0, Len(s)) PROVE FALSE
      OBVIOUS
    <3>1. 0 \in Dom /\ Len(s) \in Dom /\ Len(s) = Len(s) - 0 /\ 0 < Len(s)
      BY <2>2, <1>1
    <3>2. Len(s) \in Wrong
      BY <3>1, <1>1
    <3> QED
      BY <3>2, <1>6
  <2> QED
    BY <2>1, <2>2, <1>1
<1>8. BinarySearch(value) = F[<<0, Len(s)>>]
  BY BinarySearchIs DEF F
<1>9. p \in 0 .. Len(s)
  BY DEF Splits
<1> QED
  BY <1>7, <1>8, <1>9, <1>1 DEF Bisected

\* ... so that it always splits the array at what it searches for.
LEMMA BinarySearchFinds ==
  ASSUME sortedArray \in Seq(Nat), Ascends(sortedArray), NEW value \in Nat
  PROVE  Splits(sortedArray, value, BinarySearch(value)[1])
  BY SplitExists, BinarySearchSplits

\* The sequence s without slot k.
Without(s, k) == [j \in 1 .. Len(s) - 1 |-> IF j < k THEN s[j] ELSE s[j + 1]]

\* One turn of the loop of compactArray.
CompactStep(s, F, i) ==
  IF i = 0 THEN <<>> ELSE IF s[i] = 0 THEN F[i - 1] ELSE Append(F[i - 1], s[i])

\* compactArray is the function that CompactStep defines.
LEMMA CompactIs ==
  ASSUME NEW s
  PROVE CompactArray(s) = (CHOOSE F : F = [i \in 0 .. Len(s) |-> CompactStep(s, F, i)])[Len(s)]
  BY DEF CompactArray, CompactStep

\* The slots kept of the first i of s, when slot k is the deleted one.
Kept(s, k, i) ==
  [j \in 1 .. (IF i < k THEN i ELSE i - 1) |-> IF j < k THEN s[j] ELSE s[j + 1]]

\* A turn of the loop of compactArray, on an array with one deleted slot.
LEMMA KeptStep ==
  ASSUME NEW s \in Seq(Nat), NEW k \in 1 .. Len(s), s[k] = 0,
         \A i \in 1 .. Len(s) : i # k => s[i] # 0,
         NEW F, NEW i \in 0 .. Len(s), i # 0 => F[i - 1] = Kept(s, k, i - 1)
  PROVE  CompactStep(s, F, i) = Kept(s, k, i)
<1>1. Len(s) \in Nat /\ \A j \in 1 .. Len(s) : s[j] \in Nat
  OBVIOUS
<1>2. CASE i = 0
  <2>1. Kept(s, k, 0) = <<>>
    BY DEF Kept
  <2> QED
    BY <2>1, <1>2 DEF CompactStep
<1>3. CASE i = k
  <2>1. CompactStep(s, F, i) = Kept(s, k, k - 1)
    BY <1>3 DEF CompactStep
  <2>2. Kept(s, k, k - 1) = Kept(s, k, k)
    BY <1>1 DEF Kept
  <2> QED
    BY <2>1, <2>2, <1>3
<1>4. CASE i # 0 /\ i # k
  <2> DEFINE n == IF i < k THEN i ELSE i - 1
             K == Kept(s, k, i - 1)
  <2>1. n \in Nat /\ n \in 1 .. i /\ (n < k => n = i) /\ (~ (n < k) => n + 1 = i)
    BY <1>1, <1>4
  <2>2. K = [j \in 1 .. n - 1 |-> IF j < k THEN s[j] ELSE s[j + 1]]
    BY <1>1, <1>4 DEF Kept
  <2>3. Kept(s, k, i) = [j \in 1 .. n |-> IF j < k THEN s[j] ELSE s[j + 1]]
    BY DEF Kept
  <2>4. CompactStep(s, F, i) = Append(K, s[i])
    BY <1>4 DEF CompactStep
  <2> HIDE DEF n, K
  <2>5. K \in Seq(Nat) /\ Len(K) = n - 1
    BY <2>1, <2>2, <1>1
  <2>6. Append(K, s[i]) = [j \in 1 .. n |-> IF j < k THEN s[j] ELSE s[j + 1]]
    <3>1. Append(K, s[i]) \in Seq(Nat) /\ Len(Append(K, s[i])) = n
      BY <2>5, <2>1, <1>1, AppendProperties
    <3>2. DOMAIN Append(K, s[i]) = 1 .. n
      BY <3>1
    <3>3. ASSUME NEW j \in 1 .. n
          PROVE  Append(K, s[i])[j] = IF j < k THEN s[j] ELSE s[j + 1]
      <4>1. CASE j = n
        BY <4>1, <2>5, <2>1, <1>1
      <4>2. CASE j \in 1 .. n - 1
        BY <4>2, <2>5, <2>2, <2>1, <1>1
      <4>3. j = n \/ j \in 1 .. n - 1
        BY <2>1
      <4> QED
        BY <4>1, <4>2, <4>3, Zenon
    <3> DEFINE A == Append(K, s[i])
    <3>4. A \in [1 .. n -> Nat]
      BY <3>1, LenProperties
    <3>5. A = [j \in 1 .. n |-> A[j]]
      <4> HIDE DEF A
      <4> QED
        BY <3>4
    <3> QED
      BY <3>3, <3>5
  <2> QED
    BY <2>3, <2>4, <2>6
<1> QED
  BY <1>2, <1>3, <1>4

\* compactArray takes the one deleted slot out and keeps all the others in
\* their order.
LEMMA CompactDropsOne ==
  ASSUME NEW s \in Seq(Nat), NEW k \in 1 .. Len(s), s[k] = 0,
         \A i \in 1 .. Len(s) : i # k => s[i] # 0
  PROVE  CompactArray(s) = Without(s, k)
<1> DEFINE n == Len(s)
           F == CHOOSE G : G = [i \in 0 .. n |-> CompactStep(s, G, i)]
           H == [i \in 0 .. n |-> Kept(s, k, i)]
           Wrong == {i \in 0 .. n : F[i] # Kept(s, k, i)}
<1>1. n \in Nat
  OBVIOUS
<1>2. H = [i \in 0 .. n |-> CompactStep(s, H, i)]
  <2>1. \A i \in 0 .. n : H[i] = Kept(s, k, i)
    OBVIOUS
  <2>2. \A i \in 0 .. n : i # 0 => i - 1 \in 0 .. n
    BY <1>1
  <2> HIDE DEF H
  <2>3. ASSUME NEW i \in 0 .. n PROVE CompactStep(s, H, i) = Kept(s, k, i)
    <3>1. i # 0 => H[i - 1] = Kept(s, k, i - 1)
      BY <2>1, <2>2
    <3> QED
      BY <3>1, KeptStep
  <2> QED
    BY <2>3 DEF H
<1>3. F = [i \in 0 .. n |-> CompactStep(s, F, i)]
  <2> HIDE DEF H
  <2> QED
    BY <1>2
<1> HIDE DEF F, H
<1>4. \A i \in 0 .. n : F[i] = CompactStep(s, F, i)
  BY <1>3
<1>5. Wrong = {}
  <2> SUFFICES ASSUME Wrong # {} PROVE FALSE
    OBVIOUS
  <2>1. PICK i \in Wrong : \A m \in Wrong : i <= m
    <3>1. Wrong \subseteq Nat
      BY <1>1
    <3> HIDE DEF Wrong
    <3> QED
      BY <3>1, LeastNat, Zenon
  <2>2. i \in 0 .. n /\ F[i] # Kept(s, k, i)
    BY <2>1
  <2>3. ASSUME i # 0 PROVE F[i - 1] = Kept(s, k, i - 1)
    <3>1. i - 1 \in 0 .. n /\ i - 1 < i
      BY <2>2, <2>3, <1>1
    <3>2. i - 1 \notin Wrong
      <4> HIDE DEF Wrong
      <4> QED
        BY <3>1, <2>1, <2>2, <1>1
    <3> QED
      BY <3>1, <3>2
  <2>4. CompactStep(s, F, i) = Kept(s, k, i)
    <3> HIDE DEF Wrong
    <3> QED
      BY <2>2, <2>3, KeptStep
  <2> QED
    BY <2>2, <2>4, <1>4
<1>6. F[n] = Kept(s, k, n)
  BY <1>5, <1>1
<1>7. CompactArray(s) = F[n]
  BY CompactIs DEF F
<1>8. Kept(s, k, n) = Without(s, k)
  BY <1>1 DEF Kept, Without
<1> QED
  BY <1>6, <1>7, <1>8

\* What the shifting loop of insert leaves in the array.
LEMMA InsertAtIs ==
  ASSUME NEW s \in Seq(Nat), NEW p \in 0 .. Len(s), NEW e \in Nat
  PROVE  /\ InsertAt(s, p + 1, e) \in Seq(Nat)
         /\ Len(InsertAt(s, p + 1, e)) = Len(s) + 1
         /\ \A i \in 1 .. Len(s) + 1 :
              InsertAt(s, p + 1, e)[i] = IF i <= p THEN s[i]
                                         ELSE IF i = p + 1 THEN e ELSE s[i - 1]
<1> DEFINE u == SubSeq(s, 1, p)
           w == SubSeq(s, p + 1, Len(s))
<1>1. Len(s) \in Nat /\ p \in Nat /\ p <= Len(s)
  OBVIOUS
<1>2. u \in Seq(Nat) /\ Len(u) = p /\ \A i \in 1 .. p : u[i] = s[i]
  BY <1>1, SubSeqProperties
<1>3. w \in Seq(Nat) /\ Len(w) = Len(s) - p /\ \A i \in 1 .. Len(s) - p : w[i] = s[p + i]
  BY <1>1, SubSeqProperties
<1>4. InsertAt(s, p + 1, e) = (u \o <<e>>) \o w
  <2>1. (p + 1) - 1 = p
    BY <1>1
  <2> QED
    BY <2>1 DEF InsertAt
<1> HIDE DEF u, w
<1>5. <<e>> \in Seq(Nat) /\ Len(<<e>>) = 1 /\ <<e>>[1] = e
  OBVIOUS
<1> DEFINE v == u \o <<e>>
<1>6. v \in Seq(Nat) /\ Len(v) = p + 1 /\ \A i \in 1 .. p + 1 : v[i] = IF i <= p THEN s[i] ELSE e
  <2>1. v \in Seq(Nat) /\ Len(v) = Len(u) + Len(<<e>>)
        /\ \A i \in 1 .. Len(u) + Len(<<e>>) : v[i] = IF i <= Len(u) THEN u[i] ELSE <<e>>[i - Len(u)]
    BY <1>2, <1>5, ConcatProperties
  <2> HIDE DEF v
  <2> QED
    BY <2>1, <1>2, <1>5, <1>1
<1> HIDE DEF v
<1>7. /\ v \o w \in Seq(Nat)
      /\ Len(v \o w) = Len(v) + Len(w)
      /\ \A i \in 1 .. Len(v) + Len(w) : (v \o w)[i] = IF i <= Len(v) THEN v[i] ELSE w[i - Len(v)]
  BY <1>3, <1>6, ConcatProperties
<1>8. InsertAt(s, p + 1, e) = v \o w
  BY <1>4 DEF v
<1>9. Len(v \o w) = Len(s) + 1
  BY <1>7, <1>3, <1>6, <1>1
<1>10. ASSUME NEW i \in 1 .. Len(s) + 1
       PROVE  (v \o w)[i] = IF i <= p THEN s[i] ELSE IF i = p + 1 THEN e ELSE s[i - 1]
  <2>1. (v \o w)[i] = IF i <= p + 1 THEN v[i] ELSE w[i - (p + 1)]
    <3>1. i \in 1 .. Len(v) + Len(w)
      BY <1>3, <1>6, <1>1
    <3>2. (v \o w)[i] = IF i <= Len(v) THEN v[i] ELSE w[i - Len(v)]
      BY <3>1, <1>7
    <3> QED
      BY <3>2, <1>6
  <2>2. CASE i <= p + 1
    BY <2>1, <2>2, <1>6, <1>1
  <2>3. CASE i > p + 1
    <3>1. i - (p + 1) \in 1 .. Len(s) - p /\ p + (i - (p + 1)) = i - 1
      BY <2>3, <1>1
    <3>2. w[i - (p + 1)] = s[p + (i - (p + 1))]
      BY <3>1, <1>3
    <3> QED
      BY <2>1, <2>3, <3>1, <3>2, <1>1
  <2> QED
    <3>1. i <= p + 1 \/ i > p + 1
      BY <1>1
    <3> QED
      BY <2>2, <2>3, <3>1, Zenon
<1> QED
  BY <1>7, <1>8, <1>9, <1>10

\* The invariant of the array: ordered, of storable numbers, and of exactly
\* the values present.
IndexInv == sortedArray \in Seq(Values) /\ Enumerates

\* The invariant of the array, as the proofs use it.
LEMMA IndexFacts ==
  ASSUME IndexInv
  PROVE  /\ sortedArray \in Seq(Nat) /\ Len(sortedArray) \in Nat
         /\ Ascends(sortedArray)
         /\ \A i \in 1 .. Len(sortedArray) : sortedArray[i] \in Values /\ sortedArray[i] # 0
         /\ exists = {sortedArray[i] : i \in 1 .. Len(sortedArray)}
<1>1. sortedArray \in Seq(Values) /\ Values \subseteq Nat \ {0}
  BY SortedSetAssumption DEF IndexInv
<1>2. DOMAIN sortedArray = 1 .. Len(sortedArray) /\ Len(sortedArray) \in Nat
  BY <1>1
<1>3. \A i \in 1 .. Len(sortedArray) : sortedArray[i] \in Values /\ sortedArray[i] # 0
  BY <1>1, <1>2
<1>4. sortedArray \in Seq(Nat)
  BY <1>1, SeqMonotonic
<1> QED
  BY <1>2, <1>3, <1>4 DEF IndexInv, Enumerates, Ascends, ToSet

\* A value that is present is found by bisection.
LEMMA PresentIsFound ==
  ASSUME IndexInv, NEW value \in exists
  PROVE  Found(value)
<1> DEFINE s == sortedArray
           p == BinarySearch(value)[1]
<1>1. /\ s \in Seq(Nat) /\ Len(s) \in Nat
      /\ Ascends(s)
      /\ \A i \in 1 .. Len(s) : s[i] \in Nat
      /\ exists = {s[i] : i \in 1 .. Len(s)}
  BY IndexFacts
<1>2. PICK i \in 1 .. Len(s) : s[i] = value
  BY <1>1
<1>3. value \in Nat
  BY <1>1, <1>2
<1>4. Splits(s, value, p)
  BY <1>1, <1>3, BinarySearchFinds
<1>5. Found(value) <=> p < Len(s) /\ s[p + 1] = value
  BY DEF Found, At
<1> HIDE DEF s, p
<1>6. p \in 0 .. Len(s)
  BY <1>4 DEF Splits
<1>7. p + 1 <= i
  <2> SUFFICES ASSUME i <= p PROVE FALSE
    BY <1>1, <1>6
  <2>1. s[i] < value
    BY <1>1, <1>4, <1>6 DEF Splits
  <2> QED
    BY <2>1, <1>2, <1>3
<1>8. p + 1 \in 1 .. Len(s) /\ s[p + 1] \in Nat
  BY <1>1, <1>6, <1>7
<1>9. ~ (p + 1 < i)
  <2> SUFFICES ASSUME p + 1 < i PROVE FALSE
    OBVIOUS
  <2>1. s[p + 1] < s[i]
    BY <1>1, <1>8 DEF Ascends
  <2>2. value <= s[p + 1]
    BY <1>4, <1>1, <1>6, <1>8 DEF Splits
  <2> QED
    BY <2>1, <2>2, <1>2, <1>3, <1>8
<1>10. i = p + 1
  BY <1>7, <1>9, <1>6, <1>1
<1> QED
  BY <1>10, <1>2, <1>5, <1>6, <1>8, <1>1

\* insert of a new value keeps the array in order and adds that value alone.
LEMMA InsertKeepsOrder ==
  ASSUME IndexInv, NEW value \in Values, value \notin exists, Insert(value)
  PROVE  IndexInv' /\ exists' = exists \cup {value} /\ ToSet(sortedArray)' = exists'
<1> DEFINE s == sortedArray
           n == Len(s)
           p == BinarySearch(value)[1]
           t == InsertAt(s, p + 1, value)
<1>1. /\ s \in Seq(Nat) /\ n \in Nat
      /\ Ascends(s)
      /\ \A i \in 1 .. n : s[i] \in Values /\ s[i] \in Nat
      /\ exists = {s[i] : i \in 1 .. n}
  BY IndexFacts
<1>2. value \in Nat
  BY SortedSetAssumption
<1>3. Splits(s, value, p)
  BY <1>1, <1>2, BinarySearchFinds
<1>4. sortedArray' = t /\ exists' = exists \cup {value}
  BY DEF Insert
<1>5. p \in 0 .. n
  BY <1>3 DEF Splits
<1> HIDE DEF p
<1>6. /\ t \in Seq(Nat) /\ Len(t) = n + 1
      /\ \A i \in 1 .. n + 1 : t[i] = IF i <= p THEN s[i] ELSE IF i = p + 1 THEN value ELSE s[i - 1]
  <2> HIDE DEF s
  <2>1. s \in Seq(Nat) /\ p \in 0 .. Len(s)
    BY <1>1, <1>5
  <2>2. /\ t \in Seq(Nat) /\ Len(t) = Len(s) + 1
        /\ \A i \in 1 .. Len(s) + 1 : t[i] = IF i <= p THEN s[i] ELSE IF i = p + 1 THEN value ELSE s[i - 1]
    BY <2>1, <1>2, InsertAtIs
  <2> QED
    BY <2>2
<1> HIDE DEF t, s
<1>7. \A i \in 1 .. p : i \in 1 .. n /\ t[i] = s[i] /\ s[i] < value
  BY <1>1, <1>3, <1>5, <1>6 DEF Splits
<1>8. t[p + 1] = value
  BY <1>1, <1>5, <1>6
<1>9. \A i \in p + 2 .. n + 1 : i - 1 \in 1 .. n /\ t[i] = s[i - 1]
  BY <1>1, <1>5, <1>6
<1>10. \A i \in p + 2 .. n + 1 : value < s[i - 1]
  <2> SUFFICES ASSUME NEW i \in p + 2 .. n + 1 PROVE value < s[i - 1]
    OBVIOUS
  <2>1. i - 1 \in 1 .. n /\ i - 1 \in p + 1 .. n
    BY <1>1, <1>5
  <2>2. value <= s[i - 1]
    BY <2>1, <1>3 DEF Splits
  <2>3. s[i - 1] # value /\ s[i - 1] \in Nat
    BY <2>1, <1>1
  <2> QED
    BY <2>2, <2>3, <1>2
<1>11. Ascends(t)
  <2> SUFFICES ASSUME NEW i \in 1 .. n + 1, NEW j \in 1 .. n + 1, i < j PROVE t[i] < t[j]
    BY <1>6 DEF Ascends
  <2>1. CASE j <= p
    <3>1. i \in 1 .. p /\ j \in 1 .. p
      BY <2>1, <1>5, <1>1
    <3> QED
      BY <3>1, <1>7, <1>1 DEF Ascends
  <2>2. CASE j = p + 1
    <3>1. i \in 1 .. p
      BY <2>2, <1>5, <1>1
    <3> QED
      BY <3>1, <2>2, <1>7, <1>8
  <2>3. CASE j \in p + 2 .. n + 1
    <3>1. t[j] = s[j - 1] /\ value < s[j - 1] /\ j - 1 \in 1 .. n /\ s[j - 1] \in Nat
      BY <2>3, <1>9, <1>10, <1>1
    <3>2. CASE i \in 1 .. p
      <4>1. t[i] < value /\ t[i] \in Nat
        BY <3>2, <1>7, <1>1
      <4> QED
        BY <4>1, <3>1, <1>2
    <3>3. CASE i = p + 1
      BY <3>3, <3>1, <1>8
    <3>4. CASE i \in p + 2 .. n + 1
      <4>1. t[i] = s[i - 1] /\ i - 1 \in 1 .. n /\ i - 1 < j - 1
        BY <3>4, <1>9, <1>1, <1>5
      <4> QED
        BY <4>1, <3>1, <1>1 DEF Ascends
    <3>5. i \in 1 .. p \/ i = p + 1 \/ i \in p + 2 .. n + 1
      BY <1>1, <1>5
    <3> QED
      BY <3>2, <3>3, <3>4, <3>5
  <2>4. j <= p \/ j = p + 1 \/ j \in p + 2 .. n + 1
    BY <1>1, <1>5
  <2> QED
    BY <2>1, <2>2, <2>3, <2>4
<1>12. {t[i] : i \in 1 .. n + 1} = exists \cup {value}
  <2>1. ASSUME NEW i \in 1 .. n + 1 PROVE t[i] \in exists \cup {value}
    <3>1. i \in 1 .. p \/ i = p + 1 \/ i \in p + 2 .. n + 1
      BY <1>1, <1>5
    <3> QED
      BY <3>1, <1>7, <1>8, <1>9, <1>1
  <2>2. ASSUME NEW x \in exists \cup {value} PROVE \E i \in 1 .. n + 1 : t[i] = x
    <3>1. CASE x = value
      <4>1. p + 1 \in 1 .. n + 1
        BY <1>1, <1>5
      <4> QED
        BY <4>1, <3>1, <1>8
    <3>2. CASE x \in exists
      <4>1. PICK i \in 1 .. n : s[i] = x
        BY <3>2, <1>1
      <4>2. CASE i <= p
        <5>1. i \in 1 .. p /\ i \in 1 .. n + 1
          BY <4>2, <1>1, <1>5
        <5> QED
          BY <5>1, <4>1, <1>7
      <4>3. CASE ~ (i <= p)
        <5>1. i + 1 \in p + 2 .. n + 1 /\ (i + 1) - 1 = i /\ i + 1 \in 1 .. n + 1
          BY <4>3, <1>1, <1>5
        <5>2. t[i + 1] = s[i]
          BY <5>1, <1>9
        <5> QED
          BY <5>1, <5>2, <4>1
      <4> QED
        BY <4>2, <4>3
    <3> QED
      BY <3>1, <3>2
  <2> QED
    BY <2>1, <2>2
<1>13. t \in Seq(Values)
  <2>1. exists \subseteq Values
    BY <1>1
  <2>2. \A i \in 1 .. Len(t) : t[i] \in Values
    BY <1>12, <2>1, <1>6
  <2>3. t \in Seq(Nat)
    BY <1>6
  <2> QED
    BY <2>2, <2>3
<1>14. DOMAIN t = 1 .. n + 1
  BY <1>6, <1>1
<1>15. ToSet(t) = exists \cup {value}
  BY <1>12, <1>14 DEF ToSet
<1>16. \A i, j \in DOMAIN t : i < j => t[i] < t[j]
  BY <1>11, <1>14, <1>6 DEF Ascends
<1> QED
  BY <1>4, <1>13, <1>15, <1>16 DEF IndexInv, Enumerates, ToSet

\* remove keeps the array in order and takes that value alone out.
LEMMA RemoveKeepsOrder ==
  ASSUME IndexInv, NEW value \in Values, RemoveValue(value)
  PROVE  IndexInv' /\ exists' = exists \ {value} /\ ToSet(sortedArray)' = exists'
<1> DEFINE s == sortedArray
           n == Len(s)
           k == BinarySearch(value)[1] + 1
           z == [s EXCEPT ![k] = 0]
           t == Without(s, k)
<1>1. /\ s \in Seq(Nat) /\ n \in Nat
      /\ Ascends(s)
      /\ \A i \in 1 .. n : s[i] \in Values /\ s[i] \in Nat /\ s[i] # 0
      /\ exists = {s[i] : i \in 1 .. n}
  BY IndexFacts
<1>2. value \in Nat
  BY SortedSetAssumption
<1>3. k \in 1 .. n /\ s[k] = value
  <2>1. Splits(s, value, BinarySearch(value)[1])
    BY <1>1, <1>2, BinarySearchFinds
  <2>2. BinarySearch(value)[1] \in 0 .. n
    BY <2>1 DEF Splits
  <2>3. BinarySearch(value)[1] < n /\ s[k] = value
    BY DEF RemoveValue, Found, At
  <2> QED
    BY <2>2, <2>3, <1>1
<1>4. sortedArray' = CompactArray(z) /\ exists' = exists \ {value}
  BY DEF RemoveValue
<1> HIDE DEF k
<1>5. /\ z \in Seq(Nat) /\ Len(z) = n
      /\ \A i \in 1 .. n : z[i] = IF i = k THEN 0 ELSE s[i]
  BY <1>1, <1>3, ExceptSeq
<1>6. CompactArray(z) = Without(z, k)
  <2>1. k \in 1 .. Len(z) /\ z[k] = 0 /\ \A i \in 1 .. Len(z) : i # k => z[i] # 0
    BY <1>1, <1>3, <1>5
  <2> HIDE DEF z
  <2> QED
    BY <1>5, <2>1, CompactDropsOne
<1>7. Without(z, k) = t
  <2>1. \A j \in 1 .. n - 1 : (IF j < k THEN z[j] ELSE z[j + 1]) = (IF j < k THEN s[j] ELSE s[j + 1])
    BY <1>1, <1>3, <1>5
  <2> HIDE DEF z, s
  <2> QED
    BY <2>1, <1>5 DEF Without
<1>8. sortedArray' = t
  BY <1>4, <1>6, <1>7
<1>9. DOMAIN t = 1 .. n - 1 /\ \A j \in 1 .. n - 1 : t[j] = IF j < k THEN s[j] ELSE s[j + 1]
  BY DEF Without
<1>10. t \in Seq(Values) /\ Len(t) = n - 1
  <2>1. n - 1 \in Nat
    BY <1>1, <1>3
  <2>2. \A j \in 1 .. n - 1 : (IF j < k THEN s[j] ELSE s[j + 1]) \in Values
    BY <1>1, <1>3
  <2> DEFINE m == n - 1
  <2>3. t = [j \in 1 .. m |-> IF j < k THEN s[j] ELSE s[j + 1]]
    BY DEF Without
  <2> HIDE DEF s, n, m, t
  <2>4. m \in Nat
    BY <2>1 DEF m
  <2>5. t \in Seq(Values) /\ Len(t) = m
    BY <2>2, <2>3, <2>4 DEF m
  <2> QED
    BY <2>5 DEF m
<1> HIDE DEF t, s, n, z
<1>11. \A i, j \in 1 .. n - 1 : i < j => t[i] < t[j]
  <2> SUFFICES ASSUME NEW i \in 1 .. n - 1, NEW j \in 1 .. n - 1, i < j PROVE t[i] < t[j]
    OBVIOUS
  <2> DEFINE a == IF i < k THEN i ELSE i + 1
             b == IF j < k THEN j ELSE j + 1
  <2>1. a \in 1 .. n /\ b \in 1 .. n /\ a < b
    BY <1>1, <1>3
  <2>2. t[i] = s[a] /\ t[j] = s[b]
    BY <1>9
  <2> HIDE DEF a, b
  <2> QED
    BY <2>1, <2>2, <1>1 DEF Ascends, n
<1>12. {t[j] : j \in 1 .. n - 1} = exists \ {value}
  <2>1. ASSUME NEW j \in 1 .. n - 1 PROVE t[j] \in exists \ {value}
    <3> DEFINE b == IF j < k THEN j ELSE j + 1
    <3>1. b \in 1 .. n /\ b # k
      BY <1>1, <1>3
    <3>2. t[j] = s[b]
      BY <1>9
    <3> HIDE DEF b
    <3>3. s[b] # s[k]
      <4>1. b < k \/ k < b
        BY <3>1, <1>3, <1>1
      <4>2. s[b] < s[k] \/ s[k] < s[b]
        BY <4>1, <3>1, <1>3, <1>1 DEF Ascends, n
      <4> QED
        BY <4>2, <3>1, <1>3, <1>1
    <3> QED
      BY <3>1, <3>2, <3>3, <1>1, <1>3
  <2>2. ASSUME NEW x \in exists \ {value} PROVE \E j \in 1 .. n - 1 : t[j] = x
    <3>1. PICK i \in 1 .. n : s[i] = x
      BY <1>1
    <3>2. i # k
      BY <3>1, <1>3
    <3>3. CASE i < k
      <4>1. i \in 1 .. n - 1
        BY <3>3, <1>3, <1>1
      <4> QED
        BY <4>1, <3>3, <3>1, <1>9
    <3>4. CASE k < i
      <4>1. i - 1 \in 1 .. n - 1 /\ ~ (i - 1 < k) /\ (i - 1) + 1 = i
        BY <3>4, <1>3, <1>1
      <4>2. t[i - 1] = s[i]
        BY <4>1, <1>9
      <4> QED
        BY <4>1, <4>2, <3>1
    <3> QED
      BY <3>2, <3>3, <3>4, <1>3, <1>1
  <2> QED
    BY <2>1, <2>2
<1>13. ToSet(t) = exists \ {value}
  BY <1>12, <1>9 DEF ToSet
<1>14. \A i, j \in DOMAIN t : i < j => t[i] < t[j]
  BY <1>11, <1>9
<1> QED
  BY <1>4, <1>8, <1>10, <1>13, <1>14 DEF IndexInv, Enumerates, ToSet

\* An empty array enumerates the empty set.
LEMMA SetInitIndexInv == SetInit => IndexInv
<1> SUFFICES ASSUME SetInit PROVE IndexInv
  OBVIOUS
<1>1. sortedArray = <<>> /\ exists = {}
  BY DEF SetInit
<1>2. DOMAIN sortedArray = {}
  BY <1>1
<1> QED
  BY <1>1, <1>2 DEF IndexInv, Enumerates, ToSet

\* No insertion and no removal breaks the invariant of the array.
LEMMA SetNextIndexInv == IndexInv /\ [SetNext]_setVars => IndexInv'
<1> SUFFICES ASSUME IndexInv, [SetNext]_setVars PROVE IndexInv'
  OBVIOUS
<1>1. CASE UNCHANGED setVars
  BY <1>1 DEF setVars, IndexInv, Enumerates, ToSet
<1>2. ASSUME NEW value \in Values, Insert(value) PROVE IndexInv'
  <2>1. CASE value \notin exists
    BY <1>2, <2>1, InsertKeepsOrder
  <2>2. CASE value \in exists
    <3>1. UNCHANGED setVars
      BY <1>2, <2>2 DEF Insert
    <3> QED
      BY <3>1, <1>1
  <2> QED
    BY <2>1, <2>2
<1>3. ASSUME NEW value \in Values, RemoveValue(value) PROVE IndexInv'
  BY <1>3, RemoveKeepsOrder
<1> QED
  BY <1>1, <1>2, <1>3 DEF SetNext

\* The invariant of the array holds in every behaviour.
LEMMA IndexInvHolds == SetSpec => []IndexInv
<1> QED
  BY SetInitIndexInv, SetNextIndexInv, PTL DEF SetSpec

\* The array is always the ascending enumeration of the values present, for
\* every set of storable numbers and arrays of every length (insert, remove).
THEOREM IndexEnumerates == SetSpec => []Enumerates
<1>1. IndexInv => Enumerates
  BY DEF IndexInv
<1> QED
  BY <1>1, IndexInvHolds, PTL

\* remove never reverts with "Value not found" for a value that is present, so
\* a transfer that empties a batch goes through (_transferHelper).
THEOREM RemovalsFindTheirBatch == SetSpec => []RemoveNeverRejects
<1>1. IndexInv => RemoveNeverRejects
  BY PresentIsFound DEF RemoveNeverRejects
<1> QED
  BY <1>1, IndexInvHolds, PTL

\* The bisected, compacted array implements the abstract set in which module
\* Basket keeps the batches of a holder: every insert adds its value or
\* changes nothing, every remove takes its value out.
THEOREM ArrayIsTheIndex == SetSpec => ImplementsIndexSet
<1>1. SetInit => Index!Init
  <2> SUFFICES ASSUME SetInit PROVE ToSet(sortedArray) = {}
    BY DEF Index!Init
  <2>1. DOMAIN sortedArray = {}
    BY DEF SetInit
  <2> QED
    BY <2>1 DEF ToSet
<1>2. IndexInv /\ [SetNext]_setVars => [Index!Next]_(ToSet(sortedArray))
  <2> SUFFICES ASSUME IndexInv, [SetNext]_setVars
               PROVE  Index!Next \/ ToSet(sortedArray)' = ToSet(sortedArray)
    OBVIOUS
  <2>1. ToSet(sortedArray) = exists
    BY DEF IndexInv, Enumerates
  <2>2. CASE UNCHANGED setVars
    BY <2>2 DEF setVars, ToSet
  <2>3. ASSUME NEW value \in Values, Insert(value)
        PROVE  Index!Next \/ ToSet(sortedArray)' = ToSet(sortedArray)
    <3>1. CASE value \notin exists
      <4>1. ToSet(sortedArray)' = ToSet(sortedArray) \cup {value}
        BY <2>1, <2>3, <3>1, InsertKeepsOrder
      <4>2. Index!Add(value)
        BY <4>1 DEF Index!Add
      <4> QED
        BY <4>2 DEF Index!Next
    <3>2. CASE value \in exists
      <4>1. UNCHANGED setVars
        BY <2>3, <3>2 DEF Insert
      <4> QED
        BY <4>1, <2>2
    <3> QED
      BY <3>1, <3>2
  <2>4. ASSUME NEW value \in Values, RemoveValue(value) PROVE Index!Next
    <3>1. ToSet(sortedArray)' = ToSet(sortedArray) \ {value}
      BY <2>1, <2>4, RemoveKeepsOrder
    <3>2. value \in ToSet(sortedArray)
      BY <2>1, <2>4 DEF RemoveValue
    <3>3. Index!Delete(value)
      BY <3>1, <3>2 DEF Index!Delete
    <3> QED
      BY <3>3 DEF Index!Next
  <2> QED
    BY <2>2, <2>3, <2>4 DEF SetNext
<1> QED
  BY <1>1, <1>2, IndexInvHolds, PTL DEF SetSpec, ImplementsIndexSet, Index!Spec
-----------------------------------------------------------------------------
(***************************************************************************)
(* The clearing of large swaps (module BatchSwaps).  Swap queues and clears *)
(* in one transaction, so the invariant is stated of the queue in the      *)
(* middle of it (Book, Later, AtOnce with parameters) and carried over the *)
(* two halves one after the other.                                         *)
(***************************************************************************)
Book(current, q, s) ==
  \A t \in Trades, b \in Blocks :
    t \in current[b] <=> q[t] = b /\ b # 0 /\ s[t] = 0

Later(q, s) == \A t \in Trades : s[t] # 0 => s[t] > q[t]

AtOnce(q, s) ==
  \A t, u \in Trades :
    /\ q[t] = q[u] /\ q[t] # 0
    /\ Direction(t) = Direction(u)
    => s[t] = s[u]

\* Between now and the block of a queued trade every block is full.
FullBefore ==
  \A t \in Trades, e \in Blocks :
    e >= block /\ e < queued[t] => Cardinality(swaps[e]) > Cap

\* Only a queued trade is ever paid.
Submitted(q, s) == \A t \in Trades : q[t] = 0 => s[t] = 0

SwapInv ==
  /\ SwapTypeOK
  /\ Book(swaps, queued, settledAt)
  /\ Later(queued, settledAt)
  /\ AtOnce(queued, settledAt)
  /\ Submitted(queued, settledAt)
  /\ FullBefore

\* What the proofs need to know of block numbers.
LEMMA BlocksAreNumbers ==
  /\ \A b \in Blocks : b \in Nat
  /\ 0 \in Blocks
  /\ 1 .. MaxBlock \subseteq Blocks
<1>1. Cardinality(Trades) \in Nat
  BY BatchAssumption, FS_CardinalityType
<1> QED
  BY <1>1, BatchAssumption DEF Blocks

\* Queueing a trade: the batch it joins is not yet due, so nothing in it has
\* been paid.
LEMMA PushKeepsBook ==
  ASSUME SwapInv, NEW t \in Trades, NEW b \in Blocks, queued[t] = 0, b >= block,
         NEW current, current = [swaps EXCEPT ![b] = @ \cup {t}],
         NEW q, q = [queued EXCEPT ![t] = b]
  PROVE  /\ current \in [Blocks -> SUBSET Trades]
         /\ q \in [Trades -> Blocks]
         /\ Book(current, q, settledAt)
         /\ Later(q, settledAt)
         /\ AtOnce(q, settledAt)
         /\ Submitted(q, settledAt)
<1>1. b \in Nat /\ block \in Nat /\ b # 0
  BY BlocksAreNumbers DEF SwapInv, SwapTypeOK
<1>2. settledAt[t] = 0
  BY DEF SwapInv, Submitted
<1>3. \A c \in Blocks : t \notin swaps[c]
  BY DEF SwapInv, Book
<1>4. current \in [Blocks -> SUBSET Trades] /\ q \in [Trades -> Blocks]
  BY DEF SwapInv, SwapTypeOK
<1>5. Book(current, q, settledAt)
  <2> SUFFICES ASSUME NEW u \in Trades, NEW c \in Blocks
               PROVE  u \in current[c] <=> q[u] = c /\ c # 0 /\ settledAt[u] = 0
    BY DEF Book
  <2>1. u \in swaps[c] <=> queued[u] = c /\ c # 0 /\ settledAt[u] = 0
    BY DEF SwapInv, Book
  <2> QED
    BY <1>1, <1>2, <1>3, <2>1 DEF SwapInv, SwapTypeOK
<1>6. Later(q, settledAt)
  BY <1>2 DEF SwapInv, SwapTypeOK, Later
<1>7. \A u \in Trades : queued[u] = b => settledAt[u] = 0
  <2> SUFFICES ASSUME NEW u \in Trades, queued[u] = b, settledAt[u] # 0 PROVE FALSE
    OBVIOUS
  <2>1. settledAt[u] > b /\ settledAt[u] \in 0 .. block
    BY DEF SwapInv, SwapTypeOK, Later
  <2> QED
    BY <1>1, <2>1
<1>8. AtOnce(q, settledAt)
  BY <1>2, <1>7 DEF SwapInv, SwapTypeOK, AtOnce
<1>9. Submitted(q, settledAt)
  BY <1>1, <1>2 DEF SwapInv, SwapTypeOK, Submitted
<1> QED
  BY <1>4, <1>5, <1>6, <1>8, <1>9

\* Clearing: what is paid was queued for lastBlock, an earlier block, and is
\* all that waits there in its direction.
LEMMA ClearKeepsBook ==
  ASSUME SwapTypeOK, NEW current \in [Blocks -> SUBSET Trades], NEW q \in [Trades -> Blocks],
         Book(current, q, settledAt), Later(q, settledAt), AtOnce(q, settledAt),
         Submitted(q, settledAt), ClearSwapsOf(current), block' = block
  PROVE  /\ swaps' \in [Blocks -> SUBSET Trades]
         /\ settledAt' \in [Trades -> 0 .. block]
         /\ lastBlock' \in 0 .. block
         /\ Book(swaps', q, settledAt')
         /\ Later(q, settledAt')
         /\ AtOnce(q, settledAt')
         /\ Submitted(q, settledAt')
         /\ \A b \in Blocks : b >= block => swaps'[b] = current[b]
<1>1. CASE lastBlock = block
  BY <1>1 DEF ClearSwapsOf, NotYetThisBlock, SwapTypeOK
<1>2. CASE lastBlock # block
  <2>1. PICK executed \in Outcomes :
          /\ swaps' = [current EXCEPT ![lastBlock] =
                         @ \ {t \in current[lastBlock] : Direction(t) \in executed}]
          /\ settledAt' = [t \in Trades |->
               IF t \in {u \in current[lastBlock] : Direction(u) \in executed}
               THEN block ELSE settledAt[t]]
          /\ lastBlock' = block
    BY <1>2 DEF ClearSwapsOf, NotYetThisBlock, Deleted, Executed
  <2>2. /\ block \in Nat /\ block >= 1
        /\ lastBlock \in Nat /\ lastBlock < block /\ lastBlock \in Blocks
    BY <1>2, BlocksAreNumbers, BatchAssumption DEF SwapTypeOK
  <2>3. DEFINE paid == {t \in current[lastBlock] : Direction(t) \in executed}
  <2>4. \A t \in Trades :
          /\ t \in paid <=> /\ q[t] = lastBlock /\ lastBlock # 0
                            /\ settledAt[t] = 0 /\ Direction(t) \in executed
          /\ settledAt'[t] = IF t \in paid THEN block ELSE settledAt[t]
    BY <2>1, <2>2 DEF Book
  <2>5. /\ swaps' = [current EXCEPT ![lastBlock] = @ \ paid]
        /\ paid \subseteq Trades
    BY <2>1, <2>2
  <2>6. /\ swaps' \in [Blocks -> SUBSET Trades]
        /\ settledAt' \in [Trades -> 0 .. block]
        /\ lastBlock' \in 0 .. block
    <3>1. block \in 0 .. block
      BY <2>2
    <3>2. settledAt \in [Trades -> 0 .. block]
      BY DEF SwapTypeOK
    <3> QED
      BY <2>1, <2>2, <3>1, <3>2
  <2> HIDE DEF paid
  <2>7. Book(swaps', q, settledAt')
    <3> SUFFICES ASSUME NEW t \in Trades, NEW b \in Blocks
                 PROVE  t \in swaps'[b] <=> q[t] = b /\ b # 0 /\ settledAt'[t] = 0
      BY DEF Book
    <3>1. t \in current[b] <=> q[t] = b /\ b # 0 /\ settledAt[t] = 0
      BY DEF Book
    <3>2. t \in swaps'[b] <=> t \in current[b] /\ ~(b = lastBlock /\ t \in paid)
      BY <2>2, <2>5
    <3> QED
      BY <2>2, <2>4, <3>1, <3>2
  <2>8. Later(q, settledAt')
    BY <2>2, <2>4 DEF Later
  <2>9. AtOnce(q, settledAt')
    <3> SUFFICES ASSUME NEW t \in Trades, NEW u \in Trades, q[t] = q[u], q[t] # 0,
                        Direction(t) = Direction(u)
                 PROVE  settledAt'[t] = settledAt'[u]
      BY DEF AtOnce
    <3>1. settledAt[t] = settledAt[u]
      BY DEF AtOnce
    <3> QED
      BY <2>4, <3>1
  <2>10. Submitted(q, settledAt')
    BY <2>4 DEF Submitted
  <2>11. \A b \in Blocks : b >= block => swaps'[b] = current[b]
    BY <2>2, <2>5
  <2> QED
    BY <2>6, <2>7, <2>8, <2>9, <2>10, <2>11
<1> QED
  BY <1>1, <1>2

\* No trade is queued or paid at deployment.
LEMMA SwapInvInit == SwapInit => SwapInv
<1> SUFFICES ASSUME SwapInit PROVE SwapInv
  OBVIOUS
<1>1. SwapTypeOK
  <2>1. 1 \in 1 .. MaxBlock /\ 0 \in 0 .. 1
    BY BatchAssumption
  <2> QED
    BY <2>1, BlocksAreNumbers DEF SwapInit, SwapTypeOK
<1>2. Book(swaps, queued, settledAt)
  BY DEF SwapInit, Book
<1>3. /\ Later(queued, settledAt) /\ AtOnce(queued, settledAt)
      /\ Submitted(queued, settledAt)
  BY DEF SwapInit, Later, AtOnce, Submitted
<1>4. FullBefore
  BY BlocksAreNumbers DEF SwapInit, FullBefore
<1> QED
  BY <1>1, <1>2, <1>3, <1>4 DEF SwapInv

\* Full blocks stay full: only the batch of an earlier block loses trades.
LEMMA FullStaysFull ==
  ASSUME SwapInv, NEW t \in Trades, NEW b \in Blocks, IsPushBlock(b, t),
         queued' = [queued EXCEPT ![t] = b], block' = block,
         \A e \in Blocks : e >= block =>
            swaps'[e] = [swaps EXCEPT ![b] = @ \cup {t}][e]
  PROVE  FullBefore'
<1> SUFFICES ASSUME NEW u \in Trades, NEW e \in Blocks, e >= block, e < queued'[u]
             PROVE  Cardinality(swaps'[e]) > Cap
  BY DEF FullBefore
<1>1. /\ swaps \in [Blocks -> SUBSET Trades]
      /\ queued \in [Trades -> Blocks]
      /\ block \in Nat /\ e \in Nat /\ b \in Nat
  BY BlocksAreNumbers DEF SwapInv, SwapTypeOK
<1>2. Cardinality(swaps[e]) > Cap
  <2>1. CASE u = t
    BY <1>1, <2>1 DEF IsPushBlock, Sharing
  <2>2. CASE u # t
    BY <1>1, <2>2 DEF SwapInv, FullBefore
  <2> QED
    BY <2>1, <2>2
<1>3. e # b
  BY <1>1, <1>2, BatchAssumption, FS_CardinalityType, FS_Subset
  DEF IsPushBlock, Sharing
<1> QED
  BY <1>1, <1>2, <1>3

\* Queueing, clearing and the passing of blocks keep the invariant.
LEMMA SwapInvStep == SwapInv /\ [SwapNext]_swapVars => SwapInv'
<1> SUFFICES ASSUME SwapInv, [SwapNext]_swapVars PROVE SwapInv'
  OBVIOUS
<1>1. CASE NextBlock
  <2>1. /\ swaps' = swaps /\ queued' = queued /\ settledAt' = settledAt
        /\ block' = block + 1
    BY <1>1 DEF NextBlock
  <2>2. SwapTypeOK'
    BY <1>1, BatchAssumption DEF NextBlock, SwapInv, SwapTypeOK
  <2>3. FullBefore'
    BY <2>1, BlocksAreNumbers DEF SwapInv, SwapTypeOK, FullBefore
  <2> QED
    BY <2>1, <2>2, <2>3 DEF SwapInv, Book, Later, AtOnce, Submitted
<1>2. CASE \E t \in Trades, waitable \in 0 .. Cardinality(Trades) : Swap(t, waitable)
  <2>1. PICK t \in Trades, waitable \in 0 .. Cardinality(Trades) : Swap(t, waitable)
    BY <1>2
  <2>2. PICK b \in Blocks :
          /\ IsPushBlock(b, t)
          /\ queued' = [queued EXCEPT ![t] = b]
          /\ ClearSwapsOf([swaps EXCEPT ![b] = @ \cup {t}])
    BY <2>1 DEF Swap
  <2> DEFINE current == [swaps EXCEPT ![b] = @ \cup {t}]
  <2>3. queued[t] = 0 /\ block' = block /\ b >= block /\ order' = Append(order, t)
    BY <2>1, <2>2 DEF Swap, IsPushBlock
  <2>4. /\ current \in [Blocks -> SUBSET Trades]
        /\ queued' \in [Trades -> Blocks]
        /\ Book(current, queued', settledAt)
        /\ Later(queued', settledAt)
        /\ AtOnce(queued', settledAt)
        /\ Submitted(queued', settledAt)
    BY <2>2, <2>3, PushKeepsBook
  <2>5. ClearSwapsOf(current)
    BY <2>2
  <2> HIDE DEF current
  <2>6. /\ swaps' \in [Blocks -> SUBSET Trades]
        /\ settledAt' \in [Trades -> 0 .. block]
        /\ lastBlock' \in 0 .. block
        /\ Book(swaps', queued', settledAt')
        /\ Later(queued', settledAt')
        /\ AtOnce(queued', settledAt')
        /\ Submitted(queued', settledAt')
        /\ \A c \in Blocks : c >= block => swaps'[c] = current[c]
    BY <2>3, <2>4, <2>5, ClearKeepsBook DEF SwapInv
  <2>7. FullBefore'
    BY <2>2, <2>3, <2>6, FullStaysFull DEF current
  <2>8. SwapTypeOK'
    BY <2>3, <2>4, <2>6 DEF SwapInv, SwapTypeOK
  <2> QED
    BY <2>6, <2>7, <2>8 DEF SwapInv
<1>3. CASE ClearSwaps
  <2>1. ClearSwapsOf(swaps) /\ block' = block /\ queued' = queued /\ order' = order
    BY <1>3 DEF ClearSwaps
  <2>2. /\ swaps' \in [Blocks -> SUBSET Trades]
        /\ settledAt' \in [Trades -> 0 .. block]
        /\ lastBlock' \in 0 .. block
        /\ Book(swaps', queued, settledAt')
        /\ Later(queued, settledAt')
        /\ AtOnce(queued, settledAt')
        /\ Submitted(queued, settledAt')
        /\ \A c \in Blocks : c >= block => swaps'[c] = swaps[c]
    BY <2>1, ClearKeepsBook DEF SwapInv, SwapTypeOK
  <2>3. FullBefore'
    BY <2>1, <2>2 DEF SwapInv, FullBefore
  <2> QED
    BY <2>1, <2>2, <2>3 DEF SwapInv, SwapTypeOK
<1>4. CASE UNCHANGED swapVars
  BY <1>4 DEF swapVars, SwapInv, SwapTypeOK, FullBefore
<1> QED
  BY <1>1, <1>2, <1>3, <1>4 DEF SwapNext

\* The inductive invariant behind all of the theorems below.
THEOREM SwapInvHolds == SwapSpec => []SwapInv
  BY SwapInvInit, SwapInvStep, PTL DEF SwapSpec

\* The clock, the queue and the record of payments keep their types, and
\* lastBlock never runs ahead of the chain.
THEOREM SwapTypeCorrect == SwapSpec => []SwapTypeOK
<1>1. SwapInv => SwapTypeOK
  BY DEF SwapInv
<1> QED
  BY <1>1, SwapInvHolds, PTL

\* Every queued trade is in the batch of its block exactly until it is paid.
THEOREM BookIsExact == SwapSpec => []BookExact
<1>1. SwapInv => BookExact
  BY DEF SwapInv, Book, BookExact
<1> QED
  BY <1>1, SwapInvHolds, PTL

\* No trade is paid in the block it is queued for, or before.
THEOREM NeverInItsOwnBlock == SwapSpec => []SettledLater
<1>1. SwapInv => SettledLater
  BY DEF SwapInv, Later, SettledLater
<1> QED
  BY <1>1, SwapInvHolds, PTL

\* One clearing pays all trades that a block holds in one direction.
THEOREM OneClearingPerDirection == SwapSpec => []ClearsAtOnce
<1>1. SwapInv => ClearsAtOnce
  BY DEF SwapInv, AtOnce, ClearsAtOnce
<1> QED
  BY <1>1, SwapInvHolds, PTL
-----------------------------------------------------------------------------
\* The history holds the queued trades only, in the order of their blocks.
OrderInv ==
  /\ \A i \in DOMAIN order : queued[order[i]] # 0
  /\ NoOvertaking

\* A trade is appended to the order with a block no earlier than the others.
LEMMA OrderStep == SwapInv /\ OrderInv /\ [SwapNext]_swapVars => OrderInv'
<1> SUFFICES ASSUME SwapInv, OrderInv, [SwapNext]_swapVars PROVE OrderInv'
  OBVIOUS
<1>1. CASE \E t \in Trades, waitable \in 0 .. Cardinality(Trades) : Swap(t, waitable)
  <2>1. PICK t \in Trades, waitable \in 0 .. Cardinality(Trades) : Swap(t, waitable)
    BY <1>1
  <2>2. PICK b \in Blocks :
          IsPushBlock(b, t) /\ queued' = [queued EXCEPT ![t] = b]
    BY <2>1 DEF Swap
  <2>3. /\ order' = Append(order, t) /\ queued[t] = 0
        /\ order \in Seq(Trades) /\ queued \in [Trades -> Blocks]
        /\ b \in Nat /\ b # 0 /\ block \in Nat
    BY <2>1, <2>2, BlocksAreNumbers DEF Swap, IsPushBlock, SwapInv, SwapTypeOK
  <2>4. ASSUME NEW u \in Trades, queued[u] > b PROVE FALSE
    <3>1. Cardinality(swaps[b]) > Cap
      BY <2>2, <2>4 DEF IsPushBlock, SwapInv, FullBefore
    <3>2. Cardinality(swaps[b]) <= Cap
      BY <2>2 DEF IsPushBlock, Sharing
    <3>3. Cardinality(swaps[b]) \in Nat /\ Cap \in Nat
      BY BatchAssumption, FS_CardinalityType, FS_Subset DEF SwapInv, SwapTypeOK
    <3> QED
      BY <3>1, <3>2, <3>3
  <2>5. \A i \in DOMAIN order : order[i] \in Trades /\ order[i] # t
    BY <2>3 DEF OrderInv
  <2>6. \A i \in DOMAIN order :
          /\ order'[i] = order[i]
          /\ queued'[order'[i]] = queued[order[i]]
          /\ queued[order[i]] \in Nat
          /\ queued[order[i]] <= b
    <3> SUFFICES ASSUME NEW i \in DOMAIN order
                 PROVE  /\ order'[i] = order[i]
                        /\ queued'[order'[i]] = queued[order[i]]
                        /\ queued[order[i]] \in Nat
                        /\ queued[order[i]] <= b
      OBVIOUS
    <3>1. order'[i] = order[i] /\ order[i] \in Trades /\ order[i] # t
      BY <2>3, <2>5
    <3>2. queued'[order[i]] = queued[order[i]] /\ queued[order[i]] \in Nat
      BY <2>2, <2>3, <3>1, BlocksAreNumbers
    <3>3. queued[order[i]] <= b
      BY <2>3, <2>4, <3>1, <3>2
    <3> QED
      BY <3>1, <3>2, <3>3
  <2>7. /\ DOMAIN order' = DOMAIN order \cup {Len(order) + 1}
        /\ DOMAIN order = 1 .. Len(order) /\ Len(order) \in Nat
        /\ order'[Len(order) + 1] = t
        /\ queued'[t] = b
    BY <2>2, <2>3
  <2>8. \A i \in DOMAIN order' : queued'[order'[i]] # 0
    BY <2>3, <2>6, <2>7 DEF OrderInv
  <2>9. NoOvertaking'
    <3> SUFFICES ASSUME NEW i \in DOMAIN order', NEW j \in DOMAIN order', i < j
                 PROVE  queued'[order'[i]] <= queued'[order'[j]]
      BY DEF NoOvertaking
    <3>1. i \in DOMAIN order
      BY <2>7
    <3>2. CASE j \in DOMAIN order
      BY <2>6, <3>1, <3>2 DEF OrderInv, NoOvertaking
    <3>3. CASE j = Len(order) + 1
      BY <2>6, <2>7, <3>1, <3>3
    <3> QED
      BY <2>7, <3>2, <3>3
  <2> QED
    BY <2>8, <2>9 DEF OrderInv
<1>2. CASE UNCHANGED <<queued, order>>
  BY <1>2 DEF OrderInv, NoOvertaking
<1> QED
  BY <1>1, <1>2 DEF SwapNext, NextBlock, ClearSwaps, swapVars

\* Trades are queued for blocks in the order they are submitted, however
\* many of either direction compete for the places.
THEOREM FirstComeFirstQueued == SwapSpec => []NoOvertaking
<1>1. SwapInit => OrderInv
  BY DEF SwapInit, OrderInv, NoOvertaking
<1>2. OrderInv => NoOvertaking
  BY DEF OrderInv
<1> QED
  BY <1>1, <1>2, SwapInvHolds, OrderStep, PTL DEF SwapSpec
=============================================================================
