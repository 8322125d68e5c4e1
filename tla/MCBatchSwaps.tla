---------------------------- MODULE MCBatchSwaps ----------------------------
(***************************************************************************)
(* Five trades, three in one direction and two in the other, and two       *)
(* places per block: a batch can be mixed or one-sided, overflow into the  *)
(* next block and the one after it, and be cleared several blocks late.    *)
(***************************************************************************)
EXTENDS BatchSwaps

CONSTANTS s1, s2, s3, b1, b2

AnyOutcome == SUBSET Directions      \* {} is a call that failed
=============================================================================
