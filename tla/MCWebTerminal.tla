--------------------------- MODULE MCWebTerminal ---------------------------
(***************************************************************************)
(* Two connections of a wallet, one submission and two faults; two price   *)
(* requests at a time, and one timer that clears the console.              *)
(***************************************************************************)
EXTENDS WebTerminal
=============================================================================
