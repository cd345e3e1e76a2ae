------------------------------ MODULE MCLists ------------------------------
(***************************************************************************)
(* Any program that keeps to the comments of list.h, for TLC: two lists    *)
(* and four entries.                                                      *)
(***************************************************************************)
EXTENDS Lists, TLC

CONSTANTS h1, h2, e1, e2, e3, e4

TwoHeads == {h1, h2}
FourEntries == {e1, e2, e3, e4}
Alike == Permutations(TwoHeads) \cup Permutations(FourEntries)
============================================================================
