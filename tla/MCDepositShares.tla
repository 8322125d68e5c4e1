-------------------------- MODULE MCDepositShares --------------------------
(***************************************************************************)
(* Two customers, four seconds and two amounts that do not divide one      *)
(* another: every order of six instructions, so that one customer can      *)
(* enter, earn, be updated late and leave around what the other does.      *)
(***************************************************************************)
EXTENDS DepositShares, TLC

CONSTANTS alice, bob

\* No action and no property tells the customers apart.
Interchangeable == Permutations(Customers)
=============================================================================
