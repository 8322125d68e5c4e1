---------------------------- MODULE MCMpcKeygen ----------------------------
(***************************************************************************)
(* Two initiations and three clients: two sessions beside or in place of   *)
(* one another, sessions of two and of three, one that is too small for    *)
(* its threshold, one fault and one restart.                               *)
(***************************************************************************)
EXTENDS MpcKeygen

CONSTANTS i1, i2, c1, c2, c3

SmallShapes == {<<1, 2>>, <<1, 3>>, <<2, 2>>}
=============================================================================
