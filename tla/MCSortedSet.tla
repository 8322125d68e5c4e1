---------------------------- MODULE MCSortedSet ----------------------------
(* Arrays of up to eight slots: bisections of depth three and every gap. *)
EXTENDS SortedSet

FirstValues == 1 .. 8
=============================================================================
