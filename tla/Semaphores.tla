----------------------------- MODULE Semaphores -----------------------------
(***************************************************************************)
(* What P and V promise the processes, without descriptors, hash table,    *)
(* scheduler or process tree: semaphores that hold one unit or none.       *)
(* The caller that takes from an empty semaphore waits among the takers,   *)
(* the caller that gives to a full one waits among the givers; everybody   *)
(* else goes on at once.  A giver and a taker that meet cancel out, in     *)
(* order of arrival.  Nobody else leaves a queue, except by dying.         *)
(***************************************************************************)
EXTENDS Pcb

CONSTANT Sems

VARIABLES value,   \* units in each semaphore, 0 or 1
          takers,  \* the processes waiting for a unit
          givers,  \* the processes waiting to leave one
          alive,   \* the processes there are
          caller,  \* the one that may call next, or NULL
          calls    \* of each semaphore, Take as 1 and Give as 2, modulo 3

vars == <<value, takers, givers, alive, caller, calls>>

Init ==
    /\ value \in [Sems -> {0, 1}]
    /\ takers = [s \in Sems |-> <<>>]
    /\ givers = [s \in Sems |-> <<>>]
    /\ alive \subseteq Procs
    /\ caller \in alive
    /\ calls = [s \in Sems |-> 0]

\* The processes that go on: alive, and in no queue.
Free == {p \in alive : \A s \in Sems : p \notin Range(takers[s]) \cup Range(givers[s])}

\* Somebody else's turn, or nobody's.
Yield == caller' \in Free' \cup {NULL}

Count(s, n) == calls' = [calls EXCEPT ![s] = (@ + n) % 3]

TakeWaits(p, s) ==
    /\ value[s] = 0
    /\ takers' = [takers EXCEPT ![s] = Append(@, p)]
    /\ Yield
    /\ UNCHANGED <<value, givers>>

\* The unit of a waiting giver replaces the one taken.
TakeNow(s) ==
    /\ value[s] = 1
    /\ IF givers[s] = <<>>
       THEN value' = [value EXCEPT ![s] = 0] /\ UNCHANGED givers
       ELSE givers' = [givers EXCEPT ![s] = Tail(@)] /\ UNCHANGED value
    /\ UNCHANGED <<takers, caller>>

GiveWaits(p, s) ==
    /\ value[s] = 1
    /\ givers' = [givers EXCEPT ![s] = Append(@, p)]
    /\ Yield
    /\ UNCHANGED <<value, takers>>

\* The first waiting taker gets the unit.
GiveNow(s) ==
    /\ value[s] = 0
    /\ IF takers[s] = <<>>
       THEN value' = [value EXCEPT ![s] = 1] /\ UNCHANGED takers
       ELSE takers' = [takers EXCEPT ![s] = Tail(@)] /\ UNCHANGED value
    /\ UNCHANGED <<givers, caller>>

Take(p, s) ==
    /\ p = caller /\ Count(s, 1) /\ UNCHANGED alive
    /\ TakeWaits(p, s) \/ TakeNow(s)

Give(p, s) ==
    /\ p = caller /\ Count(s, 2) /\ UNCHANGED alive
    /\ GiveWaits(p, s) \/ GiveNow(s)

\* The processes in D die, and leave the queues; a caller that lives goes on.
Die(D) ==
    /\ D \subseteq alive
    /\ alive' = alive \ D
    /\ takers' = [s \in Sems |-> Without(takers[s], D)]
    /\ givers' = [s \in Sems |-> Without(givers[s], D)]
    /\ IF caller \in D THEN Yield ELSE UNCHANGED caller
    /\ UNCHANGED <<value, calls>>

\* Processes are born, and take turns for reasons of their own.
Other ==
    /\ alive \subseteq alive' /\ alive' \subseteq Procs
    /\ Yield
    /\ UNCHANGED <<value, takers, givers, calls>>

Next ==
    \/ \E p \in Procs, s \in Sems : Take(p, s) \/ Give(p, s)
    \/ \E D \in SUBSET Procs : Die(D)
    \/ Other

Spec == Init /\ [][Next]_vars
============================================================================
