------------------------------ MODULE MCBasket ------------------------------
(***************************************************************************)
(* Two users, months 0..2 and three tokens: enough for a holder to own     *)
(* matured and immature batches at once, for a transfer to span two of     *)
(* them and stop half-way.  Only a delegates to b: the approvals of two    *)
(* owners never meet in one call.                                          *)
(***************************************************************************)
EXTENDS Basket

CONSTANTS a, b

OneWay == {<<a, b>>}
=============================================================================
