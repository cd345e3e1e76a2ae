----------------------------- MODULE MCNucleus -----------------------------
(***************************************************************************)
(* Instances of the nucleus for TLC.                                       *)
(***************************************************************************)
EXTENDS KillRecursive, Namespaces, TLC

CONSTANTS s1, s2                    \* two semaphores of the processes

NoSems == {}
OneSem == {s1}
TwoSems == {s1, s2}

NoDevices == {}
Disk0 == {0}
Terminal0 == {32, 40}               \* receiver and transmitter

NoSupport == {FALSE}
AnySupport == BOOLEAN

\* What processes let through: everything, or also anything but the PLT's
\* interrupt, as the handlers of p2test.c (0xFD00).
Unmasked == {AllOpen}
PltMasked == {AllOpen, {"io"}}

SemSymmetry == Permutations(TwoSems)
============================================================================
