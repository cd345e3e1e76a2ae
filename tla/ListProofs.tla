----------------------------- MODULE ListProofs -----------------------------
(***************************************************************************)
(* list.h is right for any number of lists and entries: whatever calls a   *)
(* program makes within the comments of the header, every list can be      *)
(* walked both ways, and each call does to the sequences of entries what   *)
(* its comment says.                                                       *)
(***************************************************************************)
EXTENDS Lists, ListLemmas

Values == Nodes \cup {NULL}

\* The memory holds the lists.
LInv == Holds(links, Held, Nodes, Values)

\* The entries of the two modules are named alike.
LEMMA SameSequences ==
    /\ \A s : Abstract!ToSet(s) = Range(s) /\ ToSet(s) = Range(s)
    /\ \A s, k : Abstract!RemoveAt(s, k) = RemoveAt(s, k)
    /\ \A s, k, e : Abstract!ReplaceAt(s, k, e) = ReplaceAt(s, k, e)
<1>1. \A s : Abstract!ToSet(s) = Range(s) /\ ToSet(s) = Range(s)
  BY DEF Abstract!ToSet, ToSet, Range
<1>2. \A s, k : Abstract!RemoveAt(s, k) = RemoveAt(s, k)
  BY DEF Abstract!RemoveAt, RemoveAt
<1>3. \A s, k, e : Abstract!ReplaceAt(s, k, e) = ReplaceAt(s, k, e)
  BY DEF Abstract!ReplaceAt, ReplaceAt
<1> QED
  BY <1>1, <1>2, <1>3

\* A memory that holds lists is read as these.
LEMMA ReadAs ==
    ASSUME NEW m, NEW P, Holds(m, P, Nodes, Values), DOMAIN P = Heads
    PROVE  /\ P = [h \in Heads |-> EntriesOf(m.next, h)]
           /\ \A h \in Heads : /\ Circular(m.next, h) /\ Circular(m.prev, h)
                               /\ EntriesOf(m.prev, h) = Reverse(P[h])
<1>1. P \in [Heads -> Seq(Nodes \ Heads)] /\ m \in Memories(Nodes, Values)
  BY DEF Holds
<1>2. PICK E : E = Nodes \ DOMAIN P
  OBVIOUS
<1>3. \A h \in Heads : ListIn(m, h, P[h], Nodes, E)
  BY <1>2 DEF Holds
<1>4. IsFiniteSet(Nodes)
  BY ListsAssumption
<1>5. \A h \in Heads : /\ EntriesOf(m.next, h) = P[h]
                       /\ Circular(m.next, h) /\ Circular(m.prev, h)
                       /\ EntriesOf(m.prev, h) = Reverse(P[h])
  BY ONLY <1>1, <1>3, <1>4, ListWalks
<1> QED
  BY <1>1, <1>5

LEMMA Reached ==
    ASSUME NEW m, m = links', NEW P, Holds(m, P, Nodes, Values), DOMAIN P = Heads
    PROVE  LInv' /\ Held' = P
<1>1. P = [h \in Heads |-> EntriesOf(m.next, h)]
  BY ReadAs
<1>2. Held' = P
  BY <1>1 DEF Held, Entry
<1> QED
  BY <1>2 DEF LInv, Nodes, Values

\* The new entries, and the listed ones, of both modules.
LEMMA SameEntries ==
    ASSUME LInv
    PROVE  /\ Unlisted = Fresh(Held, Nodes) /\ Entries \ Abstract!Listed = Unlisted
           /\ \A h \in Heads : In(h) = Abstract!ToSet(Held[h])
           /\ \A h \in Heads : \A e \in In(h) : \E k : At(Held[h], k, e)
           /\ \A h \in Heads : Held[h] = Entry(h)
<1>1. Nodes \ Heads = Entries
  BY ListsAssumption DEF Nodes
<1>2. DOMAIN Held = Heads /\ \A h \in Heads : Held[h] = Entry(h)
  BY DEF Held
<1>3. \A h \in Heads : In(h) = Range(Held[h]) /\ In(h) = Abstract!ToSet(Held[h])
  BY <1>2, SameSequences DEF In
<1>4. Listed(Held) = UNION {In(h) : h \in Heads}
  BY <1>2, <1>3 DEF Listed
<1>5. Abstract!Listed = UNION {In(h) : h \in Heads}
  BY <1>3 DEF Abstract!Listed
<1>6. \A h \in Heads : DOMAIN Held[h] = 1..Len(Held[h])
  BY <1>2, HeldList DEF LInv
<1>7. \A h \in Heads : \A e \in In(h) : \E k : At(Held[h], k, e)
  BY <1>3, <1>6 DEF At, Range
<1> QED
  BY <1>1, <1>2, <1>3, <1>4, <1>5, <1>7 DEF Unlisted, Fresh

LEMMA SameIndex ==
    ASSUME LInv, NEW h \in Heads, NEW k, NEW e, At(Held[h], k, e)
    PROVE  Abstract!Index(h, e) = k
<1>1. NoRepeats(Held[h], Len(Held[h]))
  BY DEF LInv, Holds, ListIn, Held
<1>2. k \in 1..Len(Held[h]) /\ e = Held[h][k]
  BY DEF At
<1>3. \A i \in 1..Len(Held[h]) : Held[h][i] = e <=> i = k
  BY <1>1, <1>2 DEF NoRepeats
<1> QED
  BY <1>2, <1>3 DEF Abstract!Index

LEMMA AddSteps ==
    ASSUME LInv, AddCall
    PROVE  LInv' /\ Abstract!Next
<1>1. PICK l, m, Q : l = links /\ m = links' /\ Q = Held
  OBVIOUS
<1>2. Holds(l, Q, Nodes, Values) /\ DOMAIN Q = Heads
  BY <1>1 DEF LInv, Held
<1>3. PICK h \in Heads, e \in Unlisted :
          \/ Does("list_add", <<e, h>>, ListAdd(links, e, h))
          \/ Does("list_add_tail", <<e, h>>, ListAddTail(links, e, h))
  BY DEF AddCall
<1>4. h \in DOMAIN Q /\ e \in Fresh(Q, Nodes) /\ e \in Entries \ Abstract!Listed
  BY <1>1, <1>2, SameEntries
<1>5. /\ Holds(ListAdd(l, e, h), [Q EXCEPT ![h] = <<e>> \o Q[h]], Nodes, Values)
      /\ Holds(ListAddTail(l, e, h), [Q EXCEPT ![h] = Append(Q[h], e)], Nodes, Values)
  BY ONLY <1>2, <1>4, AddCalls
<1>6. CASE Does("list_add", <<e, h>>, ListAdd(links, e, h))
  <2>1. PICK P : P = [Q EXCEPT ![h] = <<e>> \o Q[h]]
    OBVIOUS
  <2>2. Holds(m, P, Nodes, Values) /\ DOMAIN P = Heads
    BY <1>1, <1>2, <1>5, <1>6, <2>1 DEF Does
  <2>3. LInv' /\ Held' = P
    BY <1>1, <2>2, Reached
  <2>4. Abstract!Add(e, h)
    BY <1>1, <1>6, <2>1, <2>3 DEF Abstract!Add, Abstract!Becomes, Abstract!Called, Does
  <2> QED
    BY <1>4, <2>3, <2>4 DEF Abstract!Next
<1>7. CASE Does("list_add_tail", <<e, h>>, ListAddTail(links, e, h))
  <2>1. PICK P : P = [Q EXCEPT ![h] = Append(Q[h], e)]
    OBVIOUS
  <2>2. Holds(m, P, Nodes, Values) /\ DOMAIN P = Heads
    BY <1>1, <1>2, <1>5, <1>7, <2>1 DEF Does
  <2>3. LInv' /\ Held' = P
    BY <1>1, <2>2, Reached
  <2>4. Abstract!Add(e, h)
    BY <1>1, <1>7, <2>1, <2>3 DEF Abstract!Add, Abstract!Becomes, Abstract!Called, Does
  <2> QED
    BY <1>4, <2>3, <2>4 DEF Abstract!Next
<1> QED
  BY <1>3, <1>6, <1>7


LEMMA DelSteps ==
    ASSUME LInv, DelCall
    PROVE  LInv' /\ Abstract!Next
<1>1. PICK l, m, Q : l = links /\ m = links' /\ Q = Held
  OBVIOUS
<1>2. Holds(l, Q, Nodes, Values) /\ DOMAIN Q = Heads /\ NULL \in Values
  BY <1>1 DEF LInv, Held, Values
<1>3. PICK h \in Heads : \E e \in In(h) :
          \/ Does("list_del", <<e>>, ListDel(links, e, NULL))
          \/ Does("list_del_init", <<e>>, ListDelInit(links, e))
  BY DEF DelCall
<1>4. PICK e \in In(h) :
          \/ Does("list_del", <<e>>, ListDel(links, e, NULL))
          \/ Does("list_del_init", <<e>>, ListDelInit(links, e))
  BY <1>3
<1>5. PICK k : At(Q[h], k, e)
  BY <1>1, SameEntries
<1>6. Abstract!Index(h, e) = k
  BY <1>1, <1>5, SameIndex
<1>7. PICK P : Loses(P, Q, h, k)
  BY DEF Loses
<1>8. h \in DOMAIN Q /\ Deleting(m, l, e, NULL)
  BY <1>1, <1>2, <1>4 DEF Does, Deleting
<1>9. Holds(m, P, Nodes, Values)
  BY ONLY <1>2, <1>5, <1>7, <1>8, DelCalls
<1>10. P = [Q EXCEPT ![h] = Abstract!RemoveAt(Q[h], k)] /\ DOMAIN P = Heads
  BY <1>2, <1>7, SameSequences DEF Loses
<1>11. LInv' /\ Held' = P
  BY <1>1, <1>9, <1>10, Reached
<1>12. Abstract!Del(e, h)
  BY <1>1, <1>4, <1>6, <1>10, <1>11 DEF Abstract!Del, Abstract!Becomes, Abstract!Called, Does
<1>13. e \in Abstract!ToSet(Held[h])
  BY SameEntries
<1> QED
  BY <1>11, <1>12, <1>13 DEF Abstract!Next

LEMMA MoveSteps ==
    ASSUME LInv, MoveCall
    PROVE  LInv' /\ Abstract!Next
<1>1. PICK l, m, Q : l = links /\ m = links' /\ Q = Held
  OBVIOUS
<1>2. Holds(l, Q, Nodes, Values) /\ DOMAIN Q = Heads
  BY <1>1 DEF LInv, Held
<1>3. PICK h \in Heads, g \in Heads : \E e \in In(h) :
          \/ Does("list_move", <<e, g>>, ListMove(links, e, g))
          \/ Does("list_move_tail", <<e, g>>, ListMoveTail(links, e, g))
  BY DEF MoveCall
<1>4. PICK e \in In(h) :
          \/ Does("list_move", <<e, g>>, ListMove(links, e, g))
          \/ Does("list_move_tail", <<e, g>>, ListMoveTail(links, e, g))
  BY <1>3
<1>5. PICK k : At(Q[h], k, e)
  BY <1>1, SameEntries
<1>6. Abstract!Index(h, e) = k
  BY <1>1, <1>5, SameIndex
<1>7. PICK S : Loses(S, Q, h, k)
  BY DEF Loses
<1>8. h \in DOMAIN Q /\ g \in DOMAIN Q
  BY <1>2
<1>9. /\ Holds(ListMove(l, e, g), [S EXCEPT ![g] = <<e>> \o S[g]], Nodes, Values)
      /\ Holds(ListMoveTail(l, e, g), [S EXCEPT ![g] = Append(S[g], e)], Nodes, Values)
  BY ONLY <1>2, <1>5, <1>7, <1>8, MoveCalls
<1>10. S = [Q EXCEPT ![h] = Abstract!RemoveAt(@, k)] /\ DOMAIN S = Heads
  BY <1>2, <1>7, SameSequences DEF Loses
<1>11. e \in Abstract!ToSet(Held[h])
  BY SameEntries
<1>12. CASE Does("list_move", <<e, g>>, ListMove(links, e, g))
  <2>1. PICK P : P = [S EXCEPT ![g] = <<e>> \o S[g]]
    OBVIOUS
  <2>2. Holds(m, P, Nodes, Values) /\ DOMAIN P = Heads
    BY <1>1, <1>9, <1>10, <1>12, <2>1 DEF Does
  <2>3. LInv' /\ Held' = P
    BY <1>1, <2>2, Reached
  <2>4. Abstract!Move(e, h, g)
    BY <1>1, <1>6, <1>10, <1>12, <2>1, <2>3 DEF Abstract!Move, Abstract!Called, Does
  <2> QED
    BY <1>11, <2>3, <2>4 DEF Abstract!Next
<1>13. CASE Does("list_move_tail", <<e, g>>, ListMoveTail(links, e, g))
  <2>1. PICK P : P = [S EXCEPT ![g] = Append(S[g], e)]
    OBVIOUS
  <2>2. Holds(m, P, Nodes, Values) /\ DOMAIN P = Heads
    BY <1>1, <1>9, <1>10, <1>13, <2>1 DEF Does
  <2>3. LInv' /\ Held' = P
    BY <1>1, <2>2, Reached
  <2>4. Abstract!Move(e, h, g)
    BY <1>1, <1>6, <1>10, <1>13, <2>1, <2>3 DEF Abstract!Move, Abstract!Called, Does
  <2> QED
    BY <1>11, <2>3, <2>4 DEF Abstract!Next
<1> QED
  BY <1>4, <1>12, <1>13

LEMMA ReplaceSteps ==
    ASSUME LInv, ReplaceCall
    PROVE  LInv' /\ Abstract!Next
<1>1. PICK l, m, Q : l = links /\ m = links' /\ Q = Held
  OBVIOUS
<1>2. Holds(l, Q, Nodes, Values) /\ DOMAIN Q = Heads
  BY <1>1 DEF LInv, Held
<1>3. PICK h \in Heads : \E e \in In(h), new \in Unlisted :
          \/ Does("list_replace", <<e, new>>, ListReplace(links, e, new))
          \/ Does("list_replace_init", <<e, new>>, ListReplaceInit(links, e, new))
  BY DEF ReplaceCall
<1>4. PICK e \in In(h), new \in Unlisted :
          \/ Does("list_replace", <<e, new>>, ListReplace(links, e, new))
          \/ Does("list_replace_init", <<e, new>>, ListReplaceInit(links, e, new))
  BY <1>3
<1>5. PICK k : At(Q[h], k, e)
  BY <1>1, SameEntries
<1>6. Abstract!Index(h, e) = k
  BY <1>1, <1>5, SameIndex
<1>7. PICK P : Gives(P, Q, h, k, new)
  BY DEF Gives
<1>8. h \in DOMAIN Q /\ Replacing(m, l, e, new) /\ new \in Fresh(Q, Nodes)
  BY <1>1, <1>2, <1>4, SameEntries DEF Does, Replacing
<1>9. Holds(m, P, Nodes, Values)
  BY ONLY <1>2, <1>5, <1>7, <1>8, ReplaceCalls
<1>10. P = [Q EXCEPT ![h] = Abstract!ReplaceAt(Q[h], k, new)] /\ DOMAIN P = Heads
  BY <1>2, <1>7, SameSequences DEF Gives
<1>11. LInv' /\ Held' = P
  BY <1>1, <1>9, <1>10, Reached
<1>12. Abstract!Replace(e, h, new)
  BY <1>1, <1>4, <1>6, <1>10, <1>11 DEF Abstract!Replace, Abstract!Becomes, Abstract!Called, Does
<1>13. e \in Abstract!ToSet(Held[h]) /\ new \in Entries \ Abstract!Listed
  BY SameEntries
<1> QED
  BY <1>11, <1>12, <1>13 DEF Abstract!Next

LEMMA SwapSteps ==
    ASSUME LInv, SwapCall
    PROVE  LInv' /\ Abstract!Next
<1>1. PICK l, m, Q : l = links /\ m = links' /\ Q = Held
  OBVIOUS
<1>2. Holds(l, Q, Nodes, Values) /\ DOMAIN Q = Heads /\ NULL \in Values
  BY <1>1 DEF LInv, Held, Values
<1>3. PICK h \in Heads, g \in Heads : \E e \in In(h), f \in In(g) :
          e # f /\ Does("list_swap", <<e, f>>, ListSwap(links, e, f, NULL))
  BY DEF SwapCall
<1>4. PICK e \in In(h), f \in In(g) :
          e # f /\ Does("list_swap", <<e, f>>, ListSwap(links, e, f, NULL))
  BY <1>3
<1>5. PICK i : At(Q[h], i, e)
  BY <1>1, SameEntries
<1>6. PICK j : At(Q[g], j, f)
  BY <1>1, SameEntries
<1>7. Abstract!Index(h, e) = i /\ Abstract!Index(g, f) = j
  BY <1>1, <1>5, <1>6, SameIndex
<1>8. PICK P : Swapped(P, Q, h, i, f, g, j, e)
  BY DEF Swapped
<1>9. h \in DOMAIN Q /\ g \in DOMAIN Q /\ e # f
  BY <1>2, <1>4
<1>10. Holds(ListSwap(l, e, f, NULL), P, Nodes, Values)
  BY ONLY <1>2, <1>5, <1>6, <1>8, <1>9, SwapCalls
<1>11. P = [[Q EXCEPT ![h][i] = f] EXCEPT ![g][j] = e] /\ DOMAIN P = Heads
  BY <1>2, <1>8 DEF Swapped
<1>12. LInv' /\ Held' = P
  BY <1>1, <1>4, <1>10, <1>11, Reached DEF Does
<1>13. Abstract!Swap(e, h, f, g)
  BY <1>1, <1>4, <1>7, <1>11, <1>12 DEF Abstract!Swap, Abstract!Called, Does
<1>14. e \in Abstract!ToSet(Held[h]) /\ f \in Abstract!ToSet(Held[g]) \ {e}
  BY <1>4, SameEntries
<1> QED
  BY <1>12, <1>13, <1>14 DEF Abstract!Next


LEMMA BulkSteps ==
    ASSUME LInv, BulkCall
    PROVE  LInv' /\ Abstract!Next
<1>1. PICK l, m, Q : l = links /\ m = links' /\ Q = Held
  OBVIOUS
<1>2. Holds(l, Q, Nodes, Values) /\ DOMAIN Q = Heads
  BY <1>1 DEF LInv, Held
<1>3. PICK h \in Heads : \E i, j \in DOMAIN Entry(h) :
          /\ i <= j
          /\ Does("list_bulk_move_tail", <<h, Entry(h)[i], Entry(h)[j]>>,
                  ListBulkMoveTail(links, h, Entry(h)[i], Entry(h)[j]))
  BY DEF BulkCall
<1>4. PICK p : p = Q[h]
  OBVIOUS
<1>5. p = Entry(h) /\ DOMAIN p = 1..Len(p) /\ Len(p) \in Nat /\ h \in DOMAIN Q
  BY <1>1, <1>2, <1>4, HeldList, SameEntries
<1>6. PICK i \in 1..Len(p), j \in 1..Len(p) :
          /\ i <= j
          /\ Does("list_bulk_move_tail", <<h, p[i], p[j]>>, ListBulkMoveTail(l, h, p[i], p[j]))
  BY <1>1, <1>3, <1>5
<1>7. Span(p, i, j) /\ j \in i..Len(p)
  BY <1>5, <1>6 DEF Span
<1>8. PICK q : BulkMoved(q, p, i, j)
  BY DEF BulkMoved
<1>9. Holds(ListBulkMoveTail(l, h, p[i], p[j]), [Q EXCEPT ![h] = q], Nodes, Values)
  BY ONLY <1>2, <1>4, <1>5, <1>7, <1>8, BulkCalls
<1>10. PICK P : P = [Q EXCEPT ![h] = q]
  OBVIOUS
<1>11. Holds(m, P, Nodes, Values) /\ DOMAIN P = Heads
  BY <1>1, <1>2, <1>6, <1>9, <1>10 DEF Does
<1>12. LInv' /\ Held' = P
  BY <1>1, <1>11, Reached
<1>13. Abstract!BulkMove(h, i, j)
  <2>1. q = SubSeq(p, 1, i - 1) \o SubSeq(p, j + 1, Len(p)) \o SubSeq(p, i, j)
    BY <1>8 DEF BulkMoved
  <2>2. call' = <<"list_bulk_move_tail", <<h, p[i], p[j]>> >>
    BY <1>6 DEF Does
  <2> QED
    BY <1>1, <1>4, <1>10, <1>12, <2>1, <2>2 DEF Abstract!BulkMove, Abstract!Becomes, Abstract!Called
<1> QED
  BY <1>1, <1>4, <1>6, <1>7, <1>12, <1>13 DEF Abstract!Next

LEMMA RotateSteps ==
    ASSUME LInv, RotateCall
    PROVE  LInv' /\ Abstract!Next
<1>1. PICK l, m, Q : l = links /\ m = links' /\ Q = Held
  OBVIOUS
<1>2. Holds(l, Q, Nodes, Values) /\ DOMAIN Q = Heads
  BY <1>1 DEF LInv, Held
<1>3. PICK h \in Heads :
          \/ Does("list_rotate_left", <<h>>, ListRotateLeft(links, h))
          \/ \E e \in In(h) :
                Does("list_rotate_to_front", <<e, h>>, ListRotateToFront(links, e, h))
  BY DEF RotateCall
<1>4. PICK p : p = Q[h]
  OBVIOUS
<1>5. h \in DOMAIN Q
  BY <1>2
<1>6. CASE Does("list_rotate_left", <<h>>, ListRotateLeft(links, h))
  <2>1. PICK q : q = IF p = <<>> THEN <<>> ELSE Tail(p) \o <<Head(p)>>
    OBVIOUS
  <2>2. Holds(ListRotateLeft(l, h), [Q EXCEPT ![h] = q], Nodes, Values)
    BY ONLY <1>2, <1>4, <1>5, <2>1, RotateLeftCall
  <2>3. PICK P : P = [Q EXCEPT ![h] = q]
    OBVIOUS
  <2>4. Holds(m, P, Nodes, Values) /\ DOMAIN P = Heads
    BY <1>1, <1>2, <1>6, <2>2, <2>3 DEF Does
  <2>5. LInv' /\ Held' = P
    BY <1>1, <2>4, Reached
  <2>6. Abstract!RotateLeft(h)
    BY <1>1, <1>4, <1>6, <2>1, <2>3, <2>5
       DEF Abstract!RotateLeft, Abstract!Becomes, Abstract!Called, Does
  <2> QED
    BY <2>5, <2>6 DEF Abstract!Next
<1>7. CASE \E e \in In(h) :
              Does("list_rotate_to_front", <<e, h>>, ListRotateToFront(links, e, h))
  <2>1. PICK e \in In(h) :
            Does("list_rotate_to_front", <<e, h>>, ListRotateToFront(links, e, h))
    BY <1>7
  <2>2. PICK i : At(Q[h], i, e)
    BY <1>1, SameEntries
  <2>3. i \in 1..Len(p) /\ e = p[i]
    BY <1>4, <2>2 DEF At
  <2>4. PICK q : q = SubSeq(p, i, Len(p)) \o SubSeq(p, 1, i - 1)
    OBVIOUS
  <2>5. Holds(ListRotateToFront(l, p[i], h), [Q EXCEPT ![h] = q], Nodes, Values)
    BY ONLY <1>2, <1>4, <1>5, <2>3, <2>4, RotateCalls
  <2>6. PICK P : P = [Q EXCEPT ![h] = q]
    OBVIOUS
  <2>7. Holds(m, P, Nodes, Values) /\ DOMAIN P = Heads
    BY <1>1, <1>2, <2>1, <2>3, <2>5, <2>6 DEF Does
  <2>8. LInv' /\ Held' = P
    BY <1>1, <2>7, Reached
  <2>9. Abstract!RotateToFront(h, i)
    BY <1>1, <1>4, <2>1, <2>3, <2>4, <2>6, <2>8
       DEF Abstract!RotateToFront, Abstract!Becomes, Abstract!Called, Does
  <2> QED
    BY <1>1, <1>4, <2>3, <2>8, <2>9 DEF Abstract!Next
<1> QED
  BY <1>3, <1>6, <1>7

LEMMA SpliceSteps ==
    ASSUME LInv, SpliceCall
    PROVE  LInv' /\ Abstract!Next
<1>1. PICK l, m, Q : l = links /\ m = links' /\ Q = Held
  OBVIOUS
<1>2. Holds(l, Q, Nodes, Values) /\ DOMAIN Q = Heads
  BY <1>1 DEF LInv, Held
<1>3. PICK g \in Heads, h \in Heads :
          /\ g # h
          /\ \/ Does("list_splice_init", <<g, h>>, ListSpliceInit(links, g, h))
             \/ Does("list_splice_tail_init", <<g, h>>, ListSpliceTailInit(links, g, h))
  BY DEF SpliceCall
<1>4. g \in DOMAIN Q /\ h \in DOMAIN Q /\ g # h
  BY <1>2, <1>3
<1>5. /\ Holds(ListSpliceInit(l, g, h), [Q EXCEPT ![g] = <<>>, ![h] = Q[g] \o Q[h]],
               Nodes, Values)
      /\ Holds(ListSpliceTailInit(l, g, h), [Q EXCEPT ![g] = <<>>, ![h] = Q[h] \o Q[g]],
               Nodes, Values)
  BY ONLY <1>2, <1>4, SpliceCalls
<1>6. CASE Does("list_splice_init", <<g, h>>, ListSpliceInit(links, g, h))
  <2>1. PICK P : P = [Q EXCEPT ![g] = <<>>, ![h] = Q[g] \o Q[h]]
    OBVIOUS
  <2>2. Holds(m, P, Nodes, Values) /\ DOMAIN P = Heads
    BY <1>1, <1>2, <1>5, <1>6, <2>1 DEF Does
  <2>3. LInv' /\ Held' = P
    BY <1>1, <2>2, Reached
  <2>4. Abstract!Splice(g, h)
    BY <1>1, <1>6, <2>1, <2>3 DEF Abstract!Splice, Abstract!Become, Abstract!Called, Does
  <2> QED
    BY <1>4, <2>3, <2>4 DEF Abstract!Next
<1>7. CASE Does("list_splice_tail_init", <<g, h>>, ListSpliceTailInit(links, g, h))
  <2>1. PICK P : P = [Q EXCEPT ![g] = <<>>, ![h] = Q[h] \o Q[g]]
    OBVIOUS
  <2>2. Holds(m, P, Nodes, Values) /\ DOMAIN P = Heads
    BY <1>1, <1>2, <1>5, <1>7, <2>1 DEF Does
  <2>3. LInv' /\ Held' = P
    BY <1>1, <2>2, Reached
  <2>4. Abstract!Splice(g, h)
    BY <1>1, <1>7, <2>1, <2>3 DEF Abstract!Splice, Abstract!Become, Abstract!Called, Does
  <2> QED
    BY <1>4, <2>3, <2>4 DEF Abstract!Next
<1> QED
  BY <1>3, <1>6, <1>7

\* What a cut makes of the lists, in both modules.
LEMMA CutReached ==
    ASSUME NEW Q, Q = Held, NEW g \in Heads, NEW h \in Heads, g # h, Q[g] = <<>>,
           NEW k \in 0..Len(Q[h]), NEW P, PutApart(P, Q, g, h, k), NEW m, m = links',
           Holds(m, P, Nodes, Values),
           \/ Abstract!Called("list_cut_position", <<g, h, IF k = 0 THEN h ELSE Q[h][k]>>)
           \/ Abstract!Called("list_cut_before",
                              <<g, h, IF k = Len(Q[h]) THEN h ELSE Q[h][k + 1]>>)
    PROVE  LInv' /\ Abstract!Next
<1>1. /\ P = [Q EXCEPT ![g] = SubSeq(Q[h], 1, k), ![h] = SubSeq(Q[h], k + 1, Len(Q[h]))]
      /\ DOMAIN P = Heads
  BY DEF PutApart, Held
<1>2. LInv' /\ Held' = P
  BY <1>1, Reached
<1>3. Abstract!Cut(g, h, k)
  BY <1>1, <1>2 DEF Abstract!Cut, Abstract!Become
<1> QED
  BY <1>2, <1>3 DEF Abstract!Next

LEMMA CutSteps ==
    ASSUME LInv, CutCall
    PROVE  LInv' /\ Abstract!Next
<1>1. PICK l, m, Q : l = links /\ m = links' /\ Q = Held
  OBVIOUS
<1>2. Holds(l, Q, Nodes, Values) /\ DOMAIN Q = Heads
  BY <1>1 DEF LInv, Held
<1>3. PICK g \in Heads, h \in Heads : \E e \in In(h) \cup {h} :
          /\ g # h /\ ListEmpty(links, g)
          /\ \/ Does("list_cut_position", <<g, h, e>>, ListCutPosition(links, g, h, e))
             \/ Does("list_cut_before", <<g, h, e>>, ListCutBefore(links, g, h, e))
  BY DEF CutCall
<1>4. PICK e \in In(h) \cup {h} :
          /\ g # h /\ ListEmpty(links, g)
          /\ \/ Does("list_cut_position", <<g, h, e>>, ListCutPosition(links, g, h, e))
             \/ Does("list_cut_before", <<g, h, e>>, ListCutBefore(links, g, h, e))
  BY <1>3
<1>5. g \in DOMAIN Q /\ h \in DOMAIN Q /\ g # h
  BY <1>2, <1>4
<1>6. Q[g] = <<>>
  <2>1. ListEmpty(l, g)
    BY <1>1, <1>4
  <2> QED
    BY ONLY <1>2, <1>5, <2>1, EmptyAsSaid
<1>7. Len(Q[h]) \in Nat
  BY <1>1, <1>2, <1>5, HeldList
<1>8. e = h \/ \E k : At(Q[h], k, e)
  BY <1>1, SameEntries
<1>9. CASE Does("list_cut_position", <<g, h, e>>, ListCutPosition(links, g, h, e))
  <2>1. PICK k : k \in 0..Len(Q[h]) /\ e = IF k = 0 THEN h ELSE Q[h][k]
    <3>1. CASE e = h
      BY <1>7, <3>1
    <3>2. ASSUME NEW i, At(Q[h], i, e)
          PROVE  i \in 0..Len(Q[h]) /\ e = IF i = 0 THEN h ELSE Q[h][i]
      BY <1>7, <3>2 DEF At
    <3> QED
      BY <1>8, <3>1, <3>2
  <2>2. PICK P : PutApart(P, Q, g, h, k)
    BY DEF PutApart
  <2>3. Holds(ListCutPosition(l, g, h, e), P, Nodes, Values)
    BY ONLY <1>2, <1>5, <1>6, <2>1, <2>2, CutPositionCall
  <2>4. Holds(m, P, Nodes, Values)
    BY <1>1, <1>9, <2>3 DEF Does
  <2>5. Abstract!Called("list_cut_position", <<g, h, IF k = 0 THEN h ELSE Q[h][k]>>)
    BY <1>9, <2>1 DEF Does, Abstract!Called
  <2> QED
    BY <1>1, <1>5, <1>6, <2>1, <2>2, <2>4, <2>5, CutReached
<1>10. CASE Does("list_cut_before", <<g, h, e>>, ListCutBefore(links, g, h, e))
  <2>1. PICK k : k \in 0..Len(Q[h]) /\ e = IF k = Len(Q[h]) THEN h ELSE Q[h][k + 1]
    <3>1. CASE e = h
      BY <1>7, <3>1
    <3>2. ASSUME NEW i, At(Q[h], i, e)
          PROVE  /\ i - 1 \in 0..Len(Q[h])
                 /\ e = IF i - 1 = Len(Q[h]) THEN h ELSE Q[h][i - 1 + 1]
      <4>1. i \in 1..Len(Q[h]) /\ e = Q[h][i]
        BY <3>2 DEF At
      <4>2. i - 1 \in 0..Len(Q[h]) /\ i - 1 # Len(Q[h]) /\ i - 1 + 1 = i
        BY <1>7, <4>1
      <4> QED
        BY <4>1, <4>2
    <3> QED
      BY <1>8, <3>1, <3>2
  <2>2. PICK P : PutApart(P, Q, g, h, k)
    BY DEF PutApart
  <2>3. Holds(ListCutBefore(l, g, h, e), P, Nodes, Values)
    BY ONLY <1>2, <1>5, <1>6, <2>1, <2>2, CutBeforeCall
  <2>4. Holds(m, P, Nodes, Values)
    BY <1>1, <1>10, <2>3 DEF Does
  <2>5. Abstract!Called("list_cut_before", <<g, h, IF k = Len(Q[h]) THEN h ELSE Q[h][k + 1]>>)
    BY <1>10, <2>1 DEF Does, Abstract!Called
  <2> QED
    BY <1>1, <1>5, <1>6, <2>1, <2>2, <2>4, <2>5, CutReached
<1> QED
  BY <1>4, <1>9, <1>10

----------------------------------------------------------------------------
LEMMA LInvInit ==
    ASSUME Init
    PROVE  LInv /\ Abstract!Init
<1>1. PICK l, P : l = links /\ P = [h \in Heads |-> <<>>]
  OBVIOUS
<1>2. PICK E : E = Nodes \ DOMAIN P
  OBVIOUS
<1>3. DOMAIN P = Heads /\ Heads \subseteq Nodes /\ E = Nodes \ Heads
  BY <1>1, <1>2 DEF Nodes
<1>4. /\ l \in Memories(Nodes, Values) /\ Nodes \subseteq Values
      /\ \A h \in Heads : l.next[h] = h /\ l.prev[h] = h
  BY <1>1, <1>3 DEF Init, Memories, Values
<1>5. ASSUME NEW h \in Heads PROVE ListIn(l, h, P[h], Nodes, E)
  <2>1. P[h] = <<>> /\ <<>> \in Seq(E)
    BY <1>1
  <2>2. h \in Nodes \ E /\ E \subseteq Nodes
    BY <1>3
  <2>3. NoRepeats(<<>>, Len(<<>>))
    BY DEF NoRepeats
  <2>4. Around(l.next, l.prev, Ring(h, <<>>), Len(<<>>))
    <3>1. Len(<<>>) = 0
      OBVIOUS
    <3>2. Ring(h, <<>>)[0] = h /\ Ring(h, <<>>)[1] = h
      BY <3>1 DEF Ring
    <3> QED
      BY <1>4, <3>1, <3>2 DEF Around
  <2> QED
    BY <2>1, <2>2, <2>3, <2>4 DEF ListIn
<1>6. Holds(l, P, Nodes, Values)
  <2>1. Apart(P)
    BY <1>1 DEF Apart
  <2>2. P \in [Heads -> Seq(E)]
    BY <1>1
  <2> QED
    BY <1>2, <1>3, <1>4, <1>5, <2>1, <2>2 DEF Holds
<1>7. P = [h \in Heads |-> EntriesOf(l.next, h)]
  BY <1>3, <1>6, ReadAs
<1>8. Held = P
  BY <1>1, <1>7 DEF Held, Entry
<1> QED
  BY <1>1, <1>6, <1>8 DEF LInv, Abstract!Init, Init

LEMMA LInvNext ==
    ASSUME LInv, [Next]_vars
    PROVE  LInv' /\ [Abstract!Next]_Abstract!vars
<1>1. CASE Next
  BY <1>1, AddSteps, DelSteps, MoveSteps, ReplaceSteps, SwapSteps, BulkSteps,
     RotateSteps, SpliceSteps, CutSteps DEF Next
<1>2. CASE UNCHANGED vars
  <2>1. Held' = Held /\ UNCHANGED Abstract!vars
    BY <1>2 DEF vars, Held, Entry, Abstract!vars
  <2> QED
    BY <1>2, <2>1 DEF LInv, vars, Nodes, Values
<1> QED
  BY <1>1, <1>2

\* No call of list.h leaves a prev pointer behind, in lists of any number and
\* length: each can be walked both ways, to the same entries.
THEOREM PointersAgree == Spec => []BothWaysAgree
<1>1. Init => LInv
  BY LInvInit
<1>2. LInv /\ [Next]_vars => LInv'
  BY LInvNext
<1>3. LInv => BothWaysAgree
  <2> SUFFICES ASSUME LInv PROVE BothWaysAgree
    OBVIOUS
  <2>1. PICK l, Q : l = links /\ Q = Held
    OBVIOUS
  <2>2. Holds(l, Q, Nodes, Values) /\ DOMAIN Q = Heads /\ \A h \in Heads : Q[h] = Entry(h)
    BY <2>1 DEF LInv, Held
  <2> QED
    BY <2>1, <2>2, ReadAs DEF BothWaysAgree
<1> QED
  BY <1>1, <1>2, <1>3, PTL DEF Spec

\* list.h implements sequences: each call has on the entries of its lists the
\* effect its comment promises, wherever in them its arguments are, and none
\* on other lists.
THEOREM ListsAreSequences == Spec => ImplementsListSpec
<1>1. Init => LInv /\ Abstract!Init
  BY LInvInit
<1>2. LInv /\ [Next]_vars => LInv' /\ [Abstract!Next]_Abstract!vars
  BY LInvNext
<1> QED
  BY <1>1, <1>2, PTL DEF Spec, ImplementsListSpec, Abstract!Spec
============================================================================
