----------------------------- MODULE MCCpuTime -----------------------------
(***************************************************************************)
(* Two processes for TLC.                                                  *)
(***************************************************************************)
EXTENDS CpuTime

CONSTANTS p1, p2

TwoProcs == {p1, p2}
============================================================================
