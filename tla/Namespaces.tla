----------------------------- MODULE Namespaces -----------------------------
(***************************************************************************)
(* The system calls that look at the process tree through the namespaces:  *)
(* GETPROCESSID and GETCHILDREN.  They change no state of the nucleus;     *)
(* here they are what p would be answered in the state at hand.            *)
(***************************************************************************)
EXTENDS NucleusProps

\* Deliberately wrong: looks through namespaces.
GetProcessIdAnyNs(p, parent) ==
    IF parent = 0 THEN p_pid[p]
    ELSE IF p_parent[p] = NULL THEN 0 ELSE p_pid[p_parent[p]]

\* SYSCALL 9.
GetProcessId(p, parent) ==
    IF parent = 0 THEN p_pid[p]
    ELSE IF p_parent[p] = NULL \/ p_ns[p] # p_ns[p_parent[p]] THEN 0
    ELSE p_pid[p_parent[p]]

\* SYSCALL 10: the number of children in p's namespace, and what is written
\* of their PIDs into an array of the given size.
GetChildren(p, size) ==
    LET seen == Without(p_child[p], {c \in Procs : p_ns[c] # p_ns[p]})
        written == IF size < Len(seen) THEN size ELSE Len(seen)
    IN  [count |-> Len(seen), children |-> [i \in 1..written |-> p_pid[seen[i]]]]

\* Parents and children see each other or not: a living process is told as
\* its children, each once and as many as fit, exactly those that are told it
\* is their parent, and the count does not depend on the size of the array
\* (p2test.c:880: only the children in our namespace).
SeenBothWays ==
    \A p \in Active :
        \E all \in {GetChildren(p, MAXPROC)} :
            /\ Range(all.children) = {c \in Active : GetProcessId(c, 1) = p}
            /\ all.count = Cardinality(Range(all.children))
            /\ \A size \in 0..MAXPROC :
                  \E some \in {GetChildren(p, size)} :
                      /\ some.count = all.count
                      /\ some.children = SubSeq(all.children, 1, Len(some.children))
                      /\ Len(some.children) <= size
=============================================================================
