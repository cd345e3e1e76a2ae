------------------------------ MODULE MCCalls ------------------------------
(***************************************************************************)
(* The instances of MCNucleus, with the history of calls.                  *)
(***************************************************************************)
EXTENDS MCNucleus, NucleusCalls
============================================================================
