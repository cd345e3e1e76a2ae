---------------------------- MODULE MCSemdTable ----------------------------
(***************************************************************************)
(* Semaphores at four addresses of the nucleus' data for TLC: the first    *)
(* three share bucket 10, the last one is alone in bucket 12.  There are   *)
(* more processes than descriptors, so that these run out.                 *)
(***************************************************************************)
EXTENDS SemdTable, TLC

CONSTANTS p1, p2, p3, p4

FourKeys == {536887344, 536887412, 536887488, 536887352}
FourCallers == {p1, p2, p3, p4}
CallersAlike == Permutations(FourCallers)
============================================================================
