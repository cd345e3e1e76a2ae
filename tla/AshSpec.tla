------------------------------ MODULE AshSpec ------------------------------
(***************************************************************************)
(* What ash.h promises, in terms of the operators of Ash that the nucleus  *)
(* is built from: a partial function h from semaphores to queues, no key   *)
(* with an empty queue.  call names the last call and ret what it returned.*)
(***************************************************************************)
EXTENDS Ash

CONSTANTS Keys, Callers     \* semaphore addresses, and the PCBs that block on them

VARIABLES h, p_semAdd, call, ret

vars == <<h, p_semAdd, call, ret>>

Init ==
    /\ h = [k \in {} |-> <<>>]
    /\ p_semAdd = [p \in Callers |-> NULL]
    /\ call = <<"initASH">> /\ ret = NULL

Called(name, args, r) == call' = <<name, args>> /\ ret' = r

Insert(s, p) ==
    /\ Called("insertBlocked", <<s, p>>, Exhausted(h, s))
    /\ IF ret' THEN UNCHANGED <<h, p_semAdd>>
       ELSE h' = InsertBlocked(h, s, p) /\ p_semAdd' = [p_semAdd EXCEPT ![p] = s]

Remove(s) ==
    /\ Called("removeBlocked", <<s>>, HeadBlocked(h, s))
    /\ IF ret' = NULL THEN UNCHANGED <<h, p_semAdd>>
       ELSE h' = RemoveBlocked(h, s) /\ p_semAdd' = [p_semAdd EXCEPT ![ret'] = NULL]

Out(p) ==
    /\ Called("outBlocked", <<p>>, IF p_semAdd[p] = NULL THEN NULL ELSE p)
    /\ h' = OutBlocked(h, p_semAdd, {p})
    /\ p_semAdd' = [p_semAdd EXCEPT ![p] = NULL]

First(s) == Called("headBlocked", <<s>>, HeadBlocked(h, s)) /\ UNCHANGED <<h, p_semAdd>>

Next ==
    \/ \E s \in Keys : Remove(s) \/ First(s) \/ \E p \in Callers : Insert(s, p)
    \/ \E p \in Callers : Out(p)

Spec == Init /\ [][Next]_vars
============================================================================
