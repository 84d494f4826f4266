----------------------------- MODULE MCPageLists ----------------------------
(* Small instances of PageLists for TLC.                                     *)
EXTENDS PageLists

ListSymmetry == Permutations(Ids) \cup Permutations(Calls)
=============================================================================
