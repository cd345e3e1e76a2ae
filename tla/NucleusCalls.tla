---------------------------- MODULE NucleusCalls ----------------------------
(***************************************************************************)
(* What the processes see of P and V: the nucleus, with a history variable *)
(* that notes every PASSEREN and VERHOGEN, implements the semaphores of    *)
(* Semaphores.tla.  Every step is one of the nucleus; only the note is     *)
(* added, so that a call that does nothing is not taken for no call.       *)
(***************************************************************************)
EXTENDS NucleusProps

VARIABLE calls     \* the calls on each semaphore, P as 1 and V as 2, modulo 3

callVars == <<vars, calls>>

\* n, with the call on s that is being made.
Noted(n, s) ==
    IF Passeren(s) THEN (n + 1) % 3 ELSE IF Verhogen(s) THEN (n + 2) % 3 ELSE n

CallsInit == Init /\ calls = [s \in UserSems |-> 0]

CallsNext ==
    /\ Next
    /\ calls' = [s \in UserSems |-> Noted(calls[s], s)]

CallsSpec == CallsInit /\ [][CallsNext]_callVars

\* The processes blocked on an empty semaphore are its takers, those blocked
\* on a full one its givers.
BlockedAt(v) ==
    [s \in UserSems |-> IF sem[s] = v THEN Procq(semd_h, s) ELSE <<>>]

Runner == IF mode = "run" THEN currentProc ELSE NULL

Abstract == INSTANCE Semaphores
    WITH Sems <- UserSems, value <- [s \in UserSems |-> sem[s]],
         takers <- BlockedAt(0), givers <- BlockedAt(1),
         alive <- Active, caller <- Runner

\* The nucleus implements the semaphores: each P and each V of the executing
\* process takes or leaves its unit or waits, a unit handed over goes to the
\* first in the queue, which goes on, and nobody else enters or leaves a
\* queue, except that those who die leave all of them; whatever else happens
\* in the same step (P, V, __killProcess, the descriptors of ash.c).
ImplementsSemaphores == Abstract!Spec
============================================================================
