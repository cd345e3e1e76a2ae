-------------------------------- MODULE Pcb --------------------------------
(***************************************************************************)
(* The process control blocks of phase1/pcb.c: the process queues, the     *)
(* process table lookups and the process tree.  These are the operators    *)
(* the nucleus is built from; the state itself (who is free, whose child   *)
(* is whose) belongs to the module that uses them.                         *)
(*                                                                         *)
(* A PCB is its index in pcbFree_table counted from 1, which is also its   *)
(* PID while it is allocated.  A list of PCBs is the sequence of its       *)
(* members; nothing here depends on how list.h links them.                 *)
(*                                                                         *)
(* Operators marked 'deliberately wrong', here and in the other modules,   *)
(* are used by no definition: put in the place of the operator that        *)
(* follows them, they show which property notices.                         *)
(***************************************************************************)
EXTENDS Queues

CONSTANTS MAXPROC,  \* number of entries of pcbFree_table
          NULL      \* the null pointer

Procs == 1..MAXPROC

ASSUME PcbAssumption == /\ MAXPROC \in Nat \ {0}
                        /\ NULL \notin Procs

----------------------------------------------------------------------------
(* Queues.                                                                 *)

\* Deliberately wrong (list_add for list_add_tail).
InsertProcQAtHead(q, p) == <<p>> \o q

InsertProcQ(q, p) == Append(q, p)
HeadProcQ(q) == IF q = <<>> THEN NULL ELSE Head(q)
OutProcQ(q, p) == Without(q, {p})

----------------------------------------------------------------------------
(* The table: pids[p] is 0 for a PCB that is not allocated.                *)

GetPcb(pids, pid) ==
    IF pid \in Procs /\ pids[pid] = pid THEN pid ELSE NULL

IsPcbActive(pids, p) == p # NULL /\ pids[p] # 0

----------------------------------------------------------------------------
(* The tree: child[p] is the list of p's children.                         *)

\* Deliberately wrong: children, but not theirs.
SubtreeOneLevel(child, p) == {p} \cup Range(child[p])

\* p with all its progeny: the least set that contains p and the children
\* of each of its members.
Subtree(child, p) ==
    LET closed == {T \in SUBSET Procs :
                      p \in T /\ \A t \in T : Range(child[t]) \subseteq T}
    IN  {q \in Procs : \A T \in closed : q \in T}

\* Deliberately wrong: no order among siblings.
FreedBeforeUnordered(child, D) ==
    UNION {(Subtree(child, y) \ {y}) \X {y} : y \in D}

\* The pairs x, y of D of which the recursive kill frees x first: x descends
\* from y, or an older sibling's subtree holds x and a younger one's holds y.
FreedBefore(child, D) ==
    LET siblings == {ab \in D \X D : \E p \in D : Precedes(child[p], ab[1], ab[2])}
    IN  UNION {(Subtree(child, y) \ {y}) \X {y} : y \in D}
        \cup
        UNION {Subtree(child, ab[1]) \X Subtree(child, ab[2]) : ab \in siblings}

\* The sequences of all of D that respect the pairs of before.  With
\* FreedBefore(child, D) there is exactly one when child is a forest: the
\* order in which the recursive kill of D's root gives its PCBs back.
Orders(D, before) ==
    {o \in [1..Cardinality(D) -> D] : \A i, j \in 1..Cardinality(D) :
        i < j => o[i] # o[j] /\ <<o[j], o[i]>> \notin before}
============================================================================
