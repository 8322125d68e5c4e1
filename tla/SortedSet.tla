----------------------------- MODULE SortedSet -----------------------------
(***************************************************************************)
(* SortedSetLib (evm/src/imports/SortedSet.sol), the index of the batches  *)
(* that a QD holder owns: an ascending array searched by bisection, with a *)
(* map of the values present.  A removal overwrites its slot with 0 and    *)
(* then compacts the array, dropping every 0 in it.                        *)
(*                                                                         *)
(* Positions count from 0 as in the source, so slot i is sortedArray[i+1]. *)
(***************************************************************************)
EXTENDS Integers, Sequences, SequencesExt

CONSTANT Values      \* the numbers that may be stored

\* 0 marks a deleted slot: Basket never stores it (Basket!NoDeletionMarker).
ASSUME SortedSetAssumption == Values \subseteq Nat \ {0}

VARIABLES
  sortedArray,       \* uint[]
  exists             \* mapping(uint => bool), as the set of the TRUE keys

setVars == <<sortedArray, exists>>
-----------------------------------------------------------------------------
At(i) == sortedArray[i + 1]

\* A mistake: the upper bound of the interval is taken to be inclusive.
BinarySearchInclusive(value) ==
  LET bisect[span \in (0 .. Len(sortedArray)) \X (-1 .. Len(sortedArray))] ==
        LET left  == span[1]
            right == span[2]
            mid   == left + (right - left) \div 2
        IN  IF left >= right          THEN <<left, FALSE>>
            ELSE IF At(mid) = value   THEN <<mid, TRUE>>
            ELSE IF At(mid) < value   THEN bisect[<<mid + 1, right>>]
            ELSE bisect[<<left, mid - 1>>]
  IN bisect[<<0, Len(sortedArray)>>]

\* binarySearch: where `value` is, or where it is to be inserted.  Each turn
\* of the loop is a call of bisect on the span that is left to search.
BinarySearch(value) ==
  LET bisect[span \in (0 .. Len(sortedArray)) \X (0 .. Len(sortedArray))] ==
        LET left  == span[1]
            right == span[2]
            mid   == left + (right - left) \div 2
        IN  IF left >= right          THEN <<left, FALSE>>
            ELSE IF At(mid) = value   THEN <<mid, TRUE>>
            ELSE IF At(mid) < value   THEN bisect[<<mid + 1, right>>]
            ELSE bisect[<<left, mid>>]
  IN bisect[<<0, Len(sortedArray)>>]

\* compactArray: everything but the deleted slots, in order.
CompactNothing(array) == array               \* a mistake: no cleanup
CompactArray(array) ==
  LET kept[i \in 0 .. Len(array)] ==
        IF i = 0 THEN <<>>
        ELSE IF array[i] = 0 THEN kept[i - 1] ELSE Append(kept[i - 1], array[i])
  IN kept[Len(array)]

SetInit == sortedArray = <<>> /\ exists = {}

\* insert: a value already present is ignored, another is shifted in.
Insert(value) ==
  \/ value \in exists /\ UNCHANGED setVars
  \/ /\ value \notin exists
     /\ exists' = exists \cup {value}
     /\ sortedArray' = InsertAt(sortedArray, BinarySearch(value)[1] + 1, value)

\* Whether remove(value) gets past its second require.
Found(value) ==
  LET index == BinarySearch(value)[1]
  IN  index < Len(sortedArray) /\ At(index) = value

RemoveValue(value) ==
  /\ value \in exists
  /\ Found(value)
  /\ sortedArray' =
       CompactArray([sortedArray EXCEPT ![BinarySearch(value)[1] + 1] = 0])
  /\ exists' = exists \ {value}

SetNext == \E value \in Values : Insert(value) \/ RemoveValue(value)

SetSpec == SetInit /\ [][SetNext]_setVars
-----------------------------------------------------------------------------
\* The array is always the ascending enumeration of the values present: no
\* duplicate, no gap, no leftover of a removal (getSortedSet returns it and
\* _transferHelper walks it from its end).
Enumerates ==
  /\ ToSet(sortedArray) = exists
  /\ \A i, j \in DOMAIN sortedArray : i < j => sortedArray[i] < sortedArray[j]

\* A value that is present is found by bisection, so remove never reverts
\* with "Value not found" and a transfer that empties a batch goes through.
RemoveNeverRejects == \A value \in exists : Found(value)

\* The array implements the abstract set that Basket's model uses.
Index == INSTANCE IndexSet WITH members <- ToSet(sortedArray)
ImplementsIndexSet == Index!Spec
=============================================================================
