---------------------------- MODULE MCTxSigning ----------------------------
(***************************************************************************)
(* Three processes: two of them of one of the two holders of a key, or one *)
(* of each of three holders.  Sessions with as many places as holders,     *)
(* with a place too many, and with a threshold below the number of them.   *)
(* One fault: a request, a response or a process is lost, or a restart.    *)
(***************************************************************************)
EXTENDS TxSigning

CONSTANTS c1, c2, c3

TwoOfOneHolder == [c \in Clients |-> IF c = c1 THEN 1 ELSE 2]
OneEach == [c \in Clients |-> IF c = c3 THEN 3 ELSE TwoOfOneHolder[c]]
Both == {TwoOfOneHolder, OneEach}
SmallShapes == {<<2, 2>>, <<2, 3>>}
=============================================================================
