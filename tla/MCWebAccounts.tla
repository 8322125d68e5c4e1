--------------------------- MODULE MCWebAccounts ---------------------------
(* Two wallets, of which each has an account or none, one request for all   *)
(* accounts at a time, two connections, one submission and one fault.       *)
EXTENDS WebAccounts
=============================================================================
