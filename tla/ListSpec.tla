------------------------------ MODULE ListSpec ------------------------------
(***************************************************************************)
(* What list.h promises: a list is the sequence of its entries, and each   *)
(* call does to the sequences what its comment says.  call names the last  *)
(* call with its arguments, so that an implementation cannot pass off one  *)
(* call for another.                                                       *)
(***************************************************************************)
EXTENDS SequencesExt

CONSTANTS Heads, Entries

VARIABLES lists, call

vars == <<lists, call>>

Init == lists = [h \in Heads |-> <<>>] /\ call = <<"init">>

Listed == UNION {ToSet(lists[h]) : h \in Heads}
Index(h, e) == CHOOSE i \in 1..Len(lists[h]) : lists[h][i] = e

\* One list, or two, become what the call makes of them.
Becomes(h, q) == lists' = [lists EXCEPT ![h] = q]
Become(h, q, g, r) == lists' = [lists EXCEPT ![h] = q, ![g] = r]
Called(name, args) == call' = <<name, args>>

\* A new entry goes to an end of a list.
Add(e, h) ==
    \/ Called("list_add", <<e, h>>) /\ Becomes(h, <<e>> \o lists[h])
    \/ Called("list_add_tail", <<e, h>>) /\ Becomes(h, Append(lists[h], e))

\* A listed entry leaves, moves, or gives its place to a new one.
Del(e, h) ==
    /\ Called("list_del", <<e>>) \/ Called("list_del_init", <<e>>)
    /\ Becomes(h, RemoveAt(lists[h], Index(h, e)))

Move(e, h, g) ==
    LET rest == [lists EXCEPT ![h] = RemoveAt(@, Index(h, e))]
    IN  \/ Called("list_move", <<e, g>>) /\ lists' = [rest EXCEPT ![g] = <<e>> \o @]
        \/ Called("list_move_tail", <<e, g>>) /\ lists' = [rest EXCEPT ![g] = Append(@, e)]

Replace(e, h, new) ==
    /\ Called("list_replace", <<e, new>>) \/ Called("list_replace_init", <<e, new>>)
    /\ Becomes(h, ReplaceAt(lists[h], Index(h, e), new))

\* Two listed entries change places, within a list or between two.
Swap(e, h, f, g) ==
    /\ Called("list_swap", <<e, f>>)
    /\ lists' = [[lists EXCEPT ![h][Index(h, e)] = f] EXCEPT ![g][Index(g, f)] = e]

\* Part of a list, or all of it, moves.
BulkMove(h, i, j) ==
    LET q == lists[h]
    IN  /\ Called("list_bulk_move_tail", <<h, q[i], q[j]>>)
        /\ Becomes(h, SubSeq(q, 1, i - 1) \o SubSeq(q, j + 1, Len(q)) \o SubSeq(q, i, j))

RotateLeft(h) ==
    /\ Called("list_rotate_left", <<h>>)
    /\ Becomes(h, IF lists[h] = <<>> THEN <<>> ELSE Tail(lists[h]) \o <<Head(lists[h])>>)

RotateToFront(h, i) ==
    LET q == lists[h]
    IN  /\ Called("list_rotate_to_front", <<q[i], h>>)
        /\ Becomes(h, SubSeq(q, i, Len(q)) \o SubSeq(q, 1, i - 1))

\* The first i entries of h become those of the empty list g.
Cut(g, h, i) ==
    LET q == lists[h]
    IN  /\ \/ Called("list_cut_position", <<g, h, IF i = 0 THEN h ELSE q[i]>>)
           \/ Called("list_cut_before", <<g, h, IF i = Len(q) THEN h ELSE q[i + 1]>>)
        /\ Become(g, SubSeq(q, 1, i), h, SubSeq(q, i + 1, Len(q)))

\* All entries of g go to an end of h.
Splice(g, h) ==
    \/ /\ Called("list_splice_init", <<g, h>>)
       /\ Become(g, <<>>, h, lists[g] \o lists[h])
    \/ /\ Called("list_splice_tail_init", <<g, h>>)
       /\ Become(g, <<>>, h, lists[h] \o lists[g])

Next ==
    \/ \E h \in Heads, e \in Entries \ Listed : Add(e, h)
    \/ \E h \in Heads : \E e \in ToSet(lists[h]) :
          \/ Del(e, h)
          \/ \E g \in Heads : Move(e, h, g)
          \/ \E g \in Heads : \E f \in ToSet(lists[g]) \ {e} : Swap(e, h, f, g)
          \/ \E new \in Entries \ Listed : Replace(e, h, new)
    \/ \E h \in Heads : RotateLeft(h)
    \/ \E h \in Heads : \E i \in 1..Len(lists[h]) :
          RotateToFront(h, i) \/ \E j \in i..Len(lists[h]) : BulkMove(h, i, j)
    \/ \E h, g \in Heads :
          /\ g # h
          /\ \/ Splice(g, h)
             \/ lists[g] = <<>> /\ \E i \in 0..Len(lists[h]) : Cut(g, h, i)

Spec == Init /\ [][Next]_vars
============================================================================
