----------------------------- MODULE DeviceSpec -----------------------------
(***************************************************************************)
(* What DOIO promises of the queues: each device has one of its own, and a *)
(* completed operation answers the first in the queue of the device that   *)
(* completed, or nobody.                                                   *)
(***************************************************************************)
EXTENDS Queues, SequencesExt

CONSTANTS Procs, Devs

VARIABLES waiting,     \* who waits for each device, in order
          finished     \* the devices whose operation is over and not yet answered

vars == <<waiting, finished>>

Init == waiting = [d \in Devs |-> <<>>] /\ finished = {}

Wait(p, d) ==
    /\ \A e \in Devs : p \notin ToSet(waiting[e])
    /\ waiting' = [waiting EXCEPT ![d] = Append(@, p)] /\ UNCHANGED finished

\* The device is given something else to do.
Start(d) == finished' = finished \ {d} /\ UNCHANGED waiting

Finish(d) == d \notin finished /\ finished' = finished \cup {d} /\ UNCHANGED waiting

Answer(d) ==
    /\ d \in finished /\ finished' = finished \ {d}
    /\ waiting' = [waiting EXCEPT ![d] = IF @ = <<>> THEN @ ELSE Tail(@)]

Withdraw(p) ==
    waiting' = [d \in Devs |-> Without(waiting[d], {p})] /\ UNCHANGED finished

Next ==
    \/ \E p \in Procs : Withdraw(p) \/ \E d \in Devs : Wait(p, d)
    \/ \E d \in Devs : Start(d) \/ Finish(d) \/ Answer(d)

Spec == Init /\ [][Next]_vars
============================================================================
