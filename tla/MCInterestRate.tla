--------------------------- MODULE MCInterestRate ---------------------------
(***************************************************************************)
(* A fixed point of 12 bits instead of 32, a part of the pool still being  *)
(* 1/128 of it, and dollars of which 3 and 10 move at a time: six          *)
(* instructions reach every branch of the curve, utilisations over 100%,   *)
(* both directions of a damped change and a profit larger than the pool.   *)
(***************************************************************************)
EXTENDS InterestRate
=============================================================================
