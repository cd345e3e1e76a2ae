-------------------------------- MODULE Ash --------------------------------
(***************************************************************************)
(* The active semaphore hash of phase1/ash.c.  The hash table is the       *)
(* partial function h from semaphore addresses to the queues of processes  *)
(* blocked on them: a descriptor is in use exactly for the keys in         *)
(* DOMAIN h, and MAXPROC of them exist.                                    *)
(***************************************************************************)
EXTENDS Pcb

\* The queue of key s, empty when s has no descriptor (__scanHash).
Procq(h, s) == IF s \in DOMAIN h THEN h[s] ELSE <<>>

\* Deliberately wrong: one descriptor short.
ExhaustedEarly(h, s) == s \notin DOMAIN h /\ Cardinality(DOMAIN h) = MAXPROC - 1

\* insertBlocked must allocate a descriptor and none is left.
Exhausted(h, s) == s \notin DOMAIN h /\ Cardinality(DOMAIN h) = MAXPROC

\* h after insertBlocked(s, p), when it does not fail.
InsertBlocked(h, s, p) ==
    [k \in DOMAIN h \cup {s} |->
        IF k = s THEN InsertProcQ(Procq(h, s), p) ELSE h[k]]

\* Deliberately wrong: descriptors are never released.
IfEmptyDeallocNever(h, s) == h

\* A descriptor whose queue has become empty goes back to semdFree_h.
IfEmptyDealloc(h, s) ==
    IF Procq(h, s) = <<>> THEN Restrict(h, DOMAIN h \ {s}) ELSE h

HeadBlocked(h, s) == HeadProcQ(Procq(h, s))

\* Deliberately wrong: the last of the queue.
RemoveBlockedLast(h, s) ==
    IfEmptyDealloc([h EXCEPT ![s] = SubSeq(@, 1, Len(@) - 1)], s)

\* h after removeBlocked(s) found a descriptor for s.
RemoveBlocked(h, s) == IfEmptyDealloc([h EXCEPT ![s] = Tail(@)], s)

\* h after outBlocked(p) for every p of D, p being looked for in the queue
\* its semAdd names.
OutBlocked(h, semAdd, D) ==
    LET left(k) == Without(h[k], {p \in D : semAdd[p] = k})
    IN  [k \in {s \in DOMAIN h : left(s) # <<>>} |-> left(k)]
============================================================================
