----------------------------- MODULE MCContexts -----------------------------
(***************************************************************************)
(* The system calls that differ in what they do to the caller's state, and *)
(* handlers that run without the timer.                                    *)
(***************************************************************************)
EXTENDS Contexts

SomeCodes == {1, 2, 3, 5, 7, 8, 11}
NoTimer == {{}}
============================================================================
