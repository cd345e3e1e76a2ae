------------------------------- MODULE Links -------------------------------
(***************************************************************************)
(* The doubly linked lists of lib/list.h, pointer by pointer.  A memory l  *)
(* is a record of two functions, l.next and l.prev, from the addresses of  *)
(* list_head structures to such addresses or NULL.  An operator has the    *)
(* name and the parameters of the C function and returns the memory after  *)
(* its assignments: EXCEPT makes them from left to right, as C does.       *)
(***************************************************************************)
EXTENDS Integers, Sequences, FiniteSets

InitListHead(l, n) == [l EXCEPT !.next[n] = n, !.prev[n] = n]

\* __list_add: new between two neighbours.
ListAddBetween(l, new, prev, next) ==
    [l EXCEPT !.prev[next] = new, !.next[new] = next,
              !.prev[new] = prev, !.next[prev] = new]

ListAdd(l, new, head) == ListAddBetween(l, new, head, l.next[head])
ListAddTail(l, new, head) == ListAddBetween(l, new, l.prev[head], head)

\* __list_del: two nodes become neighbours.
ListJoin(l, prev, next) == [l EXCEPT !.prev[next] = prev, !.next[prev] = next]

\* Deliberately wrong: the successor still points back to the entry.
ListDelEntryForward(l, e) == [l EXCEPT !.next[l.prev[e]] = l.next[e]]

ListDelEntry(l, e) == ListJoin(l, l.prev[e], l.next[e])

ListDel(l, e, NULL) ==
    [ListDelEntry(l, e) EXCEPT !.next[e] = NULL, !.prev[e] = NULL]
ListDelInit(l, e) == InitListHead(ListDelEntry(l, e), e)

ListMove(l, e, head) == ListAdd(ListDelEntry(l, e), e, head)
ListMoveTail(l, e, head) == ListAddTail(ListDelEntry(l, e), e, head)

\* new takes the place of old, whose own pointers stay.
ListReplace(l, old, new) ==
    LET after == [l EXCEPT !.next[new] = l.next[old], !.prev[l.next[old]] = new]
    IN  [after EXCEPT !.prev[new] = after.prev[old], !.next[after.prev[old]] = new]

ListReplaceInit(l, old, new) == InitListHead(ListReplace(l, old, new), old)

\* Deliberately wrong: forgets that entry1 may precede entry2.
ListSwapApart(l, e1, e2, NULL) ==
    ListAdd(ListReplace(ListDel(l, e2, NULL), e1, e2), e1, l.prev[e2])

ListSwap(l, e1, e2, NULL) ==
    LET pos == l.prev[e2]
    IN  ListAdd(ListReplace(ListDel(l, e2, NULL), e1, e2), e1,
                IF pos = e1 THEN e2 ELSE pos)

\* The entries from first to last go to the end of their list.
ListBulkMoveTail(l, head, first, last) ==
    LET out == [l EXCEPT !.next[l.prev[first]] = l.next[last],
                         !.prev[l.next[last]] = l.prev[first]]
        mid == [out EXCEPT !.next[out.prev[head]] = first,
                           !.prev[first] = out.prev[head]]
    IN  [mid EXCEPT !.next[last] = head, !.prev[head] = last]

ListEmpty(l, head) == l.next[head] = head
ListIsSingular(l, head) == ~ListEmpty(l, head) /\ l.next[head] = l.prev[head]

ListRotateLeft(l, head) ==
    IF ListEmpty(l, head) THEN l ELSE ListMoveTail(l, l.next[head], head)

\* The head moves, and not the entries.
ListRotateToFront(l, e, head) == ListMoveTail(l, head, e)

\* The entries of head up to e become those of list.
CutUpTo(l, list, head, e) ==
    LET newFirst == l.next[e]
        moved == [l EXCEPT !.next[list] = l.next[head],
                           !.prev[l.next[head]] = list,
                           !.prev[list] = e, !.next[e] = list]
    IN  [moved EXCEPT !.next[head] = newFirst, !.prev[newFirst] = head]

ListCutPosition(l, list, head, e) ==
    IF \/ ListEmpty(l, head)
       \/ ListIsSingular(l, head) /\ e \notin {head, l.next[head]}
    THEN l
    ELSE IF e = head THEN InitListHead(l, list)
    ELSE CutUpTo(l, list, head, e)

ListCutBefore(l, list, head, e) ==
    IF l.next[head] = e THEN InitListHead(l, list)
    ELSE LET moved == [l EXCEPT !.next[list] = l.next[head],
                                !.prev[l.next[head]] = list,
                                !.prev[list] = l.prev[e], !.next[l.prev[e]] = list]
         IN  [moved EXCEPT !.next[head] = e, !.prev[e] = head]

\* The entries of list go between two neighbours.
SpliceBetween(l, list, prev, next) ==
    LET first == l.next[list]
        last  == l.prev[list]
    IN  [l EXCEPT !.prev[first] = prev, !.next[prev] = first,
                  !.next[last] = next, !.prev[next] = last]

ListSpliceInit(l, list, head) ==
    IF ListEmpty(l, list) THEN l
    ELSE InitListHead(SpliceBetween(l, list, head, l.next[head]), list)

ListSpliceTailInit(l, list, head) ==
    IF ListEmpty(l, list) THEN l
    ELSE InitListHead(SpliceBetween(l, list, l.prev[head], head), list)

----------------------------------------------------------------------------
(* Walking a list, as list_for_each_entry does.                            *)

\* The nodes met from head in the direction of link, up to n of them.
Walk(link, head, n) ==
    LET at[i \in 0..n] ==
            IF i = 0 THEN head
            ELSE IF at[i - 1] \in DOMAIN link THEN link[at[i - 1]] ELSE at[i - 1]
    IN  at

\* The walk comes back to the head.
Circular(link, head) ==
    \E i \in 1..Cardinality(DOMAIN link) :
        Walk(link, head, i)[i] = head

\* The entries of a circular list, in the order of the walk.
EntriesOf(link, head) ==
    LET n  == Cardinality(DOMAIN link)
        at == Walk(link, head, n)
        back == CHOOSE i \in 1..n : at[i] = head /\ \A j \in 1..i - 1 : at[j] # head
    IN  [i \in 1..back - 1 |-> at[i]]
============================================================================
