------------------------------- MODULE Queues -------------------------------
(***************************************************************************)
(* What it means to take members out of a queue, and to stand before       *)
(* another in it.                                                          *)
(***************************************************************************)
EXTENDS Integers, Sequences, FiniteSets, Functions

\* The positions of q that hold no member of D, and the k-th smallest of a
\* set I of positions.
Kept(q, D) == {i \in 1..Len(q) : q[i] \notin D}
Nth(I, k) == CHOOSE i \in I : Cardinality({j \in I : j <= i}) = k

\* q with the members of D taken out, the others in their order.
Without(q, D) == [k \in 1..Cardinality(Kept(q, D)) |-> q[Nth(Kept(q, D), k)]]

\* x stands before y in q.
Precedes(q, x, y) == \E i, j \in 1..Len(q) : i < j /\ q[i] = x /\ q[j] = y
=============================================================================
