------------------------------- MODULE Lists -------------------------------
(***************************************************************************)
(* Some list heads and entries in memory, and a program that makes any     *)
(* call of list.h its comments allow: an entry that is added or replaces   *)
(* another is in no list, an entry that leaves or moves is in one.  Heads  *)
(* have been initialised, entries not.                                     *)
(***************************************************************************)
EXTENDS Links, SequencesExt

CONSTANTS Heads, Entries, NULL     \* addresses, and none

Nodes == Heads \cup Entries

ASSUME ListsAssumption == IsFiniteSet(Nodes) /\ Heads \cap Entries = {}

VARIABLES links,   \* next and prev of every list_head
          call     \* the last call

vars == <<links, call>>

\* LIST_HEAD_INIT; what an entry holds before its first use does not matter.
Init ==
    /\ links = [next |-> [n \in Nodes |-> IF n \in Heads THEN n ELSE NULL],
                prev |-> [n \in Nodes |-> IF n \in Heads THEN n ELSE NULL]]
    /\ call = <<"init">>

Entry(h) == EntriesOf(links.next, h)
In(h) == ToSet(Entry(h))
Unlisted == Entries \ UNION {In(h) : h \in Heads}

Does(name, args, mem) == call' = <<name, args>> /\ links' = mem

AddCall == \E h \in Heads, e \in Unlisted :
    \/ Does("list_add", <<e, h>>, ListAdd(links, e, h))
    \/ Does("list_add_tail", <<e, h>>, ListAddTail(links, e, h))

DelCall == \E h \in Heads : \E e \in In(h) :
    \/ Does("list_del", <<e>>, ListDel(links, e, NULL))
    \/ Does("list_del_init", <<e>>, ListDelInit(links, e))

MoveCall == \E h, g \in Heads : \E e \in In(h) :
    \/ Does("list_move", <<e, g>>, ListMove(links, e, g))
    \/ Does("list_move_tail", <<e, g>>, ListMoveTail(links, e, g))

ReplaceCall == \E h \in Heads : \E e \in In(h), new \in Unlisted :
    \/ Does("list_replace", <<e, new>>, ListReplace(links, e, new))
    \/ Does("list_replace_init", <<e, new>>, ListReplaceInit(links, e, new))

SwapCall == \E h, g \in Heads : \E e \in In(h), f \in In(g) :
    e # f /\ Does("list_swap", <<e, f>>, ListSwap(links, e, f, NULL))

BulkCall == \E h \in Heads : \E i, j \in DOMAIN Entry(h) :
    /\ i <= j
    /\ Does("list_bulk_move_tail", <<h, Entry(h)[i], Entry(h)[j]>>,
            ListBulkMoveTail(links, h, Entry(h)[i], Entry(h)[j]))

RotateCall == \E h \in Heads :
    \/ Does("list_rotate_left", <<h>>, ListRotateLeft(links, h))
    \/ \E e \in In(h) :
          Does("list_rotate_to_front", <<e, h>>, ListRotateToFront(links, e, h))

SpliceCall == \E g, h \in Heads :
    /\ g # h
    /\ \/ Does("list_splice_init", <<g, h>>, ListSpliceInit(links, g, h))
       \/ Does("list_splice_tail_init", <<g, h>>, ListSpliceTailInit(links, g, h))

\* An entry of h, or h itself, marks where to cut.
CutCall == \E g, h \in Heads : \E e \in In(h) \cup {h} :
    /\ g # h /\ ListEmpty(links, g)
    /\ \/ Does("list_cut_position", <<g, h, e>>, ListCutPosition(links, g, h, e))
       \/ Does("list_cut_before", <<g, h, e>>, ListCutBefore(links, g, h, e))

Next ==
    \/ AddCall \/ DelCall \/ MoveCall \/ ReplaceCall \/ SwapCall
    \/ BulkCall \/ RotateCall \/ SpliceCall \/ CutCall

Spec == Init /\ [][Next]_vars

----------------------------------------------------------------------------
\* Every list can be walked both ways, and one way is the other reversed:
\* no call leaves a prev pointer behind (list.h writes each of the two
\* pointers of a link by itself; the nucleus relies on prev in every
\* list_add_tail and list_del).
BothWaysAgree ==
    \A h \in Heads :
        /\ Circular(links.next, h) /\ Circular(links.prev, h)
        /\ EntriesOf(links.prev, h) = Reverse(Entry(h))

Held == [h \in Heads |-> Entry(h)]

Abstract == INSTANCE ListSpec WITH lists <- Held

\* list.h implements sequences: each call has exactly the effect its comment
\* promises on the list it is about, and none on the others, also at the
\* ends, next to each other and with a single entry.
ImplementsListSpec == Abstract!Spec
============================================================================
