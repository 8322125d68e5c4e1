---------------------------- MODULE MCPositions ----------------------------
(***************************************************************************)
(* One customer, who may deposit, and two tickers whose prices move apart. *)
(* The collar is one part in three and the cut one part in four, so that   *)
(* both come to something in a vault of at most six dollars.  Positions    *)
(* have up to four units, prices are 1 and 2, and an instruction accrues   *)
(* at most one unit of interest and slices at most one unit off.           *)
(***************************************************************************)
EXTENDS Positions, TLC

CONSTANTS alice, gold, coin

\* No action and no property tells the tickers apart.
Interchangeable == Permutations(Tickers)
=============================================================================
