--------------------------- MODULE KillRecursive ---------------------------
(***************************************************************************)
(* __killProcess as it is written: one process at a time, recursing into   *)
(* the children removeChild hands out.  Nucleus.tla kills in one stroke;   *)
(* this module says what that stroke must amount to.  st is the part of    *)
(* the state the recursion works on.                                       *)
(***************************************************************************)
EXTENDS NucleusProps

\* outChild(p): p leaves its parent's list, if it has a parent.
OutChild(st, p) ==
    IF st.parent[p] = NULL THEN st
    ELSE [st EXCEPT !.child[st.parent[p]] = OutProcQ(@, p), !.parent[p] = NULL]

\* The semaphore p is blocked on, if any, and the soft-blocked count.
Unblock(st, p) ==
    LET s == st.semAdd[p]
        q == OutProcQ(st.hash[s], p)
    IN  IF s = NULL THEN st
        ELSE [st EXCEPT
                !.soft = @ - IF s \in SoftSems THEN 1 ELSE 0,
                !.hash = IfEmptyDealloc([@ EXCEPT ![s] = q], s),
                !.semAdd[p] = NULL]

\* removeChild(p), for a p with children.
RemoveChild(st, p) ==
    [st EXCEPT !.child[p] = Tail(@), !.parent[Head(st.child[p])] = NULL]

FreePcb(st, p) == [st EXCEPT !.pid[p] = 0, !.free = Append(@, p)]

RECURSIVE Kill(_, _), KillChildren(_, _)

\* __killProcess(p).
Kill(st, p) ==
    LET counted == [st EXCEPT !.count = @ - 1]
        alone   == Unblock(OutChild(counted, p), p)
        off     == [alone EXCEPT !.ready = OutProcQ(@, p)]
    IN  FreePcb(KillChildren(off, p), p)

\* Its loop over the children of p.
KillChildren(st, p) ==
    IF st.child[p] = <<>> THEN st
    ELSE KillChildren(Kill(RemoveChild(st, p), Head(st.child[p])), p)

\* What the recursion reads and writes.
KillState ==
    [count |-> processCount, soft |-> softBlockCount, free |-> pcbFree,
     pid |-> p_pid, parent |-> p_parent, child |-> p_child,
     semAdd |-> p_semAdd, hash |-> semd_h, ready |-> readyQueue]

\* A step that frees PCBs leaves counters, free list, tree, semaphore queues
\* and ready queue exactly as the recursive __killProcess of one victim does,
\* the order of the free list included; the scheduler may then have taken the
\* head of the ready queue.
KillIsTheRecursion ==
    [][ LET dead == {p \in Active : p_pid'[p] = 0}
        IN  \A v \in dead : p_parent[v] \notin dead =>
               LET st == Kill(KillState, v)
               IN  \/ KillState' = st
                   \/ /\ currentProc' # NULL /\ st.ready # <<>>
                      /\ KillState' = [st EXCEPT !.ready = Tail(@)]
                      /\ currentProc' = Head(st.ready) ]_vars
============================================================================
