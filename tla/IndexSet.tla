------------------------------ MODULE IndexSet ------------------------------
(***************************************************************************)
(* What the users of SortedSetLib (evm/src/imports/SortedSet.sol) rely on: *)
(* a finite set of non-zero numbers, each added or removed by its value.   *)
(* Module Basket uses it in this form; module SortedSet implements it.     *)
(***************************************************************************)
EXTENDS Naturals

CONSTANT Values

VARIABLE members

Init == members = {}

Add(v) == members' = members \cup {v}

Delete(v) ==
  /\ v \in members          \* require(self.exists[value])
  /\ members' = members \ {v}

Next == \E v \in Values : Add(v) \/ Delete(v)

Spec == Init /\ [][Next]_members
=============================================================================
