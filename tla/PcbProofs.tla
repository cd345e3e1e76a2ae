----------------------------- MODULE PcbProofs -----------------------------
(***************************************************************************)
(* pcb.c over list.h, for any number of PCBs and queues: the lists in use  *)
(* share no node and can be walked both ways, and the calls are those on   *)
(* sequences that the nucleus is modelled with.                            *)
(***************************************************************************)
EXTENDS PcbLists, ListLemmas

Values == Nodes \cup {NULL}

----------------------------------------------------------------------------
(* Sequences.                                                              *)

\* To remove the k-th member of a sequence without repetitions is to remove
\* whoever it is.
LEMMA RemoveIsWithout ==
    ASSUME NEW S, NEW q \in Seq(S), NoRepeats(q, Len(q)), NEW k \in 1..Len(q)
    PROVE  RemoveAt(q, k) = Without(q, {q[k]})
<1>1. PICK n, I, w, r : /\ n = Len(q) /\ I = 1..n \ {k}
                        /\ w = Without(q, {q[k]}) /\ r = RemoveAt(q, k)
  OBVIOUS
<1>2. n \in Nat /\ I \in SUBSET (1..n) /\ k \in 1..n
  BY <1>1, LenProperties
<1>3. Kept(q, {q[k]}) = I
  BY <1>1, <1>2 DEF Kept, NoRepeats
<1>4. /\ IsFiniteSet(1..n) /\ Cardinality(1..n) = n
      /\ \A i \in 1..n : IsFiniteSet(1..i) /\ Cardinality(1..i) = i
  <2>1. \A i \in Nat : IsFiniteSet(1..i) /\ Cardinality(1..i) = i
    <3> SUFFICES ASSUME NEW i \in Nat PROVE IsFiniteSet(1..i) /\ Cardinality(1..i) = i
      OBVIOUS
    <3>1. 1 \in Int /\ i \in Int
      OBVIOUS
    <3>2. IsFiniteSet(1..i) /\ Cardinality(1..i) = IF 1 > i THEN 0 ELSE i - 1 + 1
      BY <3>1, FS_Interval
    <3> QED
      BY <3>2
  <2> QED
    BY <1>2, <2>1
<1>5. Cardinality(I) = n - 1
  BY <1>1, <1>2, <1>4, FS_RemoveElement
<1>6. ASSUME NEW i \in I
      PROVE  Cardinality({j \in I : j <= i}) = IF i < k THEN i ELSE i - 1
  <2>1. i \in 1..n /\ i # k
    BY <1>1
  <2>2. CASE i < k
    <3>1. {j \in I : j <= i} = 1..i
      BY <1>1, <1>2, <2>1, <2>2
    <3> QED
      BY <1>4, <2>1, <2>2, <3>1
  <2>3. CASE i > k
    <3>1. {j \in I : j <= i} = 1..i \ {k} /\ k \in 1..i
      BY <1>1, <1>2, <2>1, <2>3
    <3>2. Cardinality(1..i \ {k}) = i - 1
      BY <1>4, <2>1, <3>1, FS_RemoveElement
    <3>3. ~(i < k)
      BY <1>2, <2>1, <2>3
    <3> QED
      BY <3>1, <3>2, <3>3
  <2> QED
    BY <1>2, <2>1, <2>2, <2>3
<1>7. ASSUME NEW j \in 1..n - 1 PROVE Nth(I, j) = IF j < k THEN j ELSE j + 1
  <2>1. Nth(I, j) \in I /\ Cardinality({i \in I : i <= Nth(I, j)}) = j
    BY <1>2, <1>5, NthProperty
  <2>2. PICK a : a = Nth(I, j)
    OBVIOUS
  <2>3. a \in 1..n /\ a # k /\ j = IF a < k THEN a ELSE a - 1
    BY <1>1, <1>6, <2>1, <2>2
  <2> QED
    BY <1>2, <2>2, <2>3
<1>8. w = [j \in 1..n - 1 |-> q[IF j < k THEN j ELSE j + 1]]
  BY <1>1, <1>3, <1>5, <1>7 DEF Without
<1>9. r \in Seq(S) /\ Len(r) = n - 1 /\ Removed(r, q, n, k)
  BY <1>1, RemoveSeq
<1>10. r = [j \in 1..n - 1 |-> q[IF j < k THEN j ELSE j + 1]]
  <2>1. r = [j \in 1..n - 1 |-> r[j]]
    BY <1>9, LenProperties
  <2>2. \A j \in 1..n - 1 : r[j] = q[IF j < k THEN j ELSE j + 1]
    BY <1>9 DEF Removed
  <2> QED
    BY <2>1, <2>2
<1> QED
  BY <1>1, <1>8, <1>10

\* The PCBs of a list of links, when one is added, removed, or taken from the
\* front.
LEMMA PcbsOf ==
    ASSUME NEW E, NEW q \in Seq(E)
    PROVE  /\ Pcbs(q) \in Seq({e[2] : e \in E}) /\ Len(Pcbs(q)) = Len(q) /\ Len(q) \in Nat
           /\ \A i \in 1..Len(q) : Pcbs(q)[i] = q[i][2]
<1>1. PICK n : n = Len(q)
  OBVIOUS
<1>2. n \in Nat /\ DOMAIN q = 1..n /\ \A i \in 1..n : q[i] \in E
  BY <1>1, LenProperties
<1>3. PICK s : s = [i \in 1..n |-> q[i][2]]
  OBVIOUS
<1>4. s \in [1..n -> {e[2] : e \in E}]
  BY <1>2, <1>3
<1>5. s \in Seq({e[2] : e \in E}) /\ Len(s) = n
  BY <1>2, <1>4
<1>6. Pcbs(q) = s
  BY <1>2, <1>3 DEF Pcbs
<1> QED
  BY <1>1, <1>2, <1>3, <1>5, <1>6

LEMMA PcbsAppend ==
    ASSUME NEW E, NEW q \in Seq(E), NEW e \in E
    PROVE  Pcbs(Append(q, e)) = Append(Pcbs(q), e[2])
<1>1. PICK a, n, s, F : a = Append(q, e) /\ n = Len(q) /\ s = Pcbs(q) /\ F = {x[2] : x \in E}
  OBVIOUS
<1>2. /\ a \in Seq(E) /\ Len(a) = n + 1 /\ n \in Nat
      /\ \A i \in 1..n : a[i] = q[i]
      /\ a[n + 1] = e
  BY <1>1, AppendProperties
<1>3. s \in Seq(F) /\ Len(s) = n /\ \A i \in 1..n : s[i] = q[i][2]
  BY <1>1, PcbsOf
<1>4. e[2] \in F
  BY <1>1
<1>5. /\ Append(s, e[2]) \in Seq(F) /\ Len(Append(s, e[2])) = n + 1
      /\ \A i \in 1..n : Append(s, e[2])[i] = s[i]
      /\ Append(s, e[2])[n + 1] = e[2]
  BY <1>2, <1>3, <1>4, AppendProperties
<1>6. Pcbs(a) \in Seq(F) /\ Len(Pcbs(a)) = n + 1 /\ \A i \in 1..n + 1 : Pcbs(a)[i] = a[i][2]
  BY <1>1, <1>2, PcbsOf
<1>7. \A i \in 1..n + 1 : Pcbs(a)[i] = Append(s, e[2])[i]
  BY <1>2, <1>3, <1>5, <1>6
<1> QED
  BY <1>1, <1>2, <1>5, <1>6, <1>7, SeqEqual

\* F are the links of one kind: a PCB has one of them.
OneKind(F) == \A x, y \in F : x[2] = y[2] => x = y

LEMMA PcbsRemove ==
    ASSUME NEW E, NEW q \in Seq(E), NoRepeats(q, Len(q)), NEW k \in 1..Len(q),
           OneKind(Range(q))
    PROVE  Pcbs(RemoveAt(q, k)) = Without(Pcbs(q), {q[k][2]})
<1>1. PICK r, n, s, F : r = RemoveAt(q, k) /\ n = Len(q) /\ s = Pcbs(q) /\ F = {x[2] : x \in E}
  OBVIOUS
<1>2. n \in Nat /\ k \in 1..n /\ DOMAIN q = 1..n
  BY <1>1, LenProperties
<1>3. s \in Seq(F) /\ Len(s) = n /\ \A i \in 1..n : s[i] = q[i][2]
  BY <1>1, PcbsOf
<1>4. NoRepeats(s, n)
  <2> SUFFICES ASSUME NEW i \in 1..n, NEW j \in 1..n, s[i] = s[j] PROVE i = j
    BY DEF NoRepeats
  <2>1. q[i] \in Range(q) /\ q[j] \in Range(q) /\ q[i][2] = q[j][2]
    BY <1>2, <1>3 DEF Range
  <2>2. q[i] = q[j]
    BY <2>1 DEF OneKind
  <2> QED
    BY <1>1, <2>2 DEF NoRepeats
<1>5. RemoveAt(s, k) = Without(s, {s[k]})
  BY <1>2, <1>3, <1>4, RemoveIsWithout
<1>6. r \in Seq(E) /\ Len(r) = n - 1 /\ Removed(r, q, n, k)
  BY <1>1, RemoveSeq
<1>7. PICK t : t = RemoveAt(s, k)
  OBVIOUS
<1>8. t \in Seq(F) /\ Len(t) = n - 1 /\ Removed(t, s, n, k)
  BY <1>2, <1>3, <1>7, RemoveSeq
<1>9. Pcbs(r) \in Seq(F) /\ Len(Pcbs(r)) = n - 1 /\ \A i \in 1..n - 1 : Pcbs(r)[i] = r[i][2]
  BY <1>1, <1>6, PcbsOf
<1>10. ASSUME NEW i \in 1..n - 1 PROVE Pcbs(r)[i] = t[i]
  <2>1. i \in 1..n /\ i + 1 \in 1..n
    BY <1>2
  <2>2. /\ r[i] = IF i < k THEN q[i] ELSE q[i + 1]
        /\ t[i] = IF i < k THEN s[i] ELSE s[i + 1]
    BY <1>6, <1>8 DEF Removed
  <2> QED
    BY <1>3, <1>9, <2>1, <2>2
<1>11. Pcbs(r) = t
  BY <1>8, <1>9, <1>10, SeqEqual
<1> QED
  BY <1>1, <1>2, <1>3, <1>5, <1>7, <1>11

LEMMA RemoveFront ==
    ASSUME NEW S, NEW q \in Seq(S), q # <<>>
    PROVE  RemoveAt(q, 1) = Tail(q)
<1>1. PICK n, r, t : n = Len(q) /\ r = RemoveAt(q, 1) /\ t = Tail(q)
  OBVIOUS
<1>2. n \in Nat /\ n # 0 /\ 1 \in 1..n
  BY <1>1, LenProperties, EmptySeq
<1>3. r \in Seq(S) /\ Len(r) = n - 1 /\ Removed(r, q, n, 1)
  BY <1>1, <1>2, RemoveSeq
<1>4. t \in Seq(S) /\ Len(t) = n - 1 /\ \A i \in 1..Len(t) : t[i] = q[i + 1]
  BY <1>1, HeadTailProperties
<1>5. \A i \in 1..n - 1 : r[i] = t[i]
  BY <1>2, <1>3, <1>4 DEF Removed
<1> QED
  BY <1>1, <1>3, <1>4, <1>5, SeqEqual


----------------------------------------------------------------------------
(* The list_heads of the PCBs, and which of them is in which list.         *)

\* No two of the list_heads are one.
LEMMA HeadsApart ==
    /\ \A p \in Procs : /\ InQueue(p)[2] = p /\ Sibling(p)[2] = p
                        /\ InQueue(p) \in Fields /\ Children(p) \in Fields /\ Sibling(p) \in Fields
    /\ \A p, q \in Procs : /\ InQueue(p) # Children(q) /\ InQueue(p) # Sibling(q)
                           /\ Children(p) # Sibling(q)
                           /\ Children(p) = Children(q) => p = q
                           /\ InQueue(p) = InQueue(q) => p = q
                           /\ Sibling(p) = Sibling(q) => p = q
    /\ pcbFree_h \notin Queues /\ pcbFree_h \notin Fields /\ Queues \cap Fields = {}
    /\ Nodes = {pcbFree_h} \cup Queues \cup Fields /\ NULL \notin Procs /\ 0 \notin Procs
<1>1. ASSUME NEW p \in Procs
      PROVE  /\ InQueue(p)[2] = p /\ Sibling(p)[2] = p
             /\ InQueue(p) \in Fields /\ Children(p) \in Fields /\ Sibling(p) \in Fields
  BY DEF InQueue, Sibling, Children, Fields
<1>2. ASSUME NEW p \in Procs, NEW q \in Procs
      PROVE  /\ InQueue(p) # Children(q) /\ InQueue(p) # Sibling(q)
             /\ Children(p) # Sibling(q)
             /\ Children(p) = Children(q) => p = q
             /\ InQueue(p) = InQueue(q) => p = q
             /\ Sibling(p) = Sibling(q) => p = q
  BY DEF InQueue, Sibling, Children
<1>3. pcbFree_h \notin Queues /\ pcbFree_h \notin Fields /\ Queues \cap Fields = {}
  BY PcbListsAssumption
<1>4. Nodes = {pcbFree_h} \cup Queues \cup Fields /\ NULL \notin Procs /\ 0 \notin Procs
  BY PcbListsAssumption DEF Nodes, Procs
<1> QED
  BY <1>1, <1>2, <1>3, <1>4

ProcQs == {pcbFree_h} \cup Queues

\* The lists in use, and the list_head by which a PCB is in one of them.
HeadsOf(pid) == ProcQs \cup {Children(p) : p \in {q \in Procs : pid[q] # 0}}
Link(h, p) == IF h \in ProcQs THEN InQueue(p) ELSE Sibling(p)

\* Who is in the lists R: the free PCBs in pcbFree_h, those with parent p among
\* the children of p, and allocated PCBs in the other queues.
InTheirLists(R, par, pid) ==
    /\ par \in [Procs -> Procs \cup {NULL}] /\ pid \in [Procs -> Procs \cup {0}]
    /\ \A p \in Procs : pid[p] \in {0, p}
    /\ \A p \in Procs : par[p] # NULL => pid[p] # 0 /\ pid[par[p]] # 0
    /\ DOMAIN R = HeadsOf(pid)
    /\ \A h \in ProcQs : R[h] \subseteq {InQueue(p) : p \in Procs}
    /\ \A p \in Procs : InQueue(p) \in R[pcbFree_h] <=> pid[p] = 0
    /\ \A p \in Procs : pid[p] # 0 =>
          R[Children(p)] = {Sibling(c) : c \in {d \in Procs : par[d] = p}}

Ranges(Q) == [h \in DOMAIN Q |-> Range(Q[h])]

\* The heads in use.
LEMMA HeadsInUse ==
    ASSUME NEW pid
    PROVE  /\ pcbFree_h \in HeadsOf(pid) /\ Queues \subseteq HeadsOf(pid)
           /\ \A p \in Procs : /\ Children(p) \in HeadsOf(pid) <=> pid[p] # 0
                               /\ InQueue(p) \notin HeadsOf(pid) /\ Sibling(p) \notin HeadsOf(pid)
           /\ \A h \in HeadsOf(pid) : h \notin ProcQs =>
                 \E p \in Procs : pid[p] # 0 /\ h = Children(p)
           /\ \A p \in Procs : Children(p) \notin ProcQs
           /\ \A h \in ProcQs, p \in Procs : Link(h, p) = InQueue(p)
           /\ \A q, p \in Procs : Link(Children(q), p) = Sibling(p)
           /\ HeadsOf(pid) \subseteq Nodes
BY HeadsApart DEF HeadsOf, ProcQs, Link

\* A PCB is in a list by one list_head.
LEMMA Linked ==
    ASSUME NEW R, NEW par, NEW pid, InTheirLists(R, par, pid), NEW h \in DOMAIN R
    PROVE  /\ OneKind(R[h])
           /\ \A x \in R[h] : x[2] \in Procs /\ x = Link(h, x[2])
<1>1. CASE h \in ProcQs
  <2>1. \A x \in R[h] : \E p \in Procs : x = InQueue(p)
    BY <1>1 DEF InTheirLists
  <2>2. \A x \in R[h] : x[2] \in Procs /\ x = InQueue(x[2])
    BY <2>1, HeadsApart
  <2> QED
    BY <1>1, <2>2 DEF Link, OneKind
<1>2. CASE h \notin ProcQs
  <2>1. PICK p \in Procs : pid[p] # 0 /\ h = Children(p)
    BY <1>2, HeadsInUse DEF InTheirLists
  <2>2. \A x \in R[h] : \E c \in Procs : x = Sibling(c)
    BY <2>1 DEF InTheirLists
  <2>3. \A x \in R[h] : x[2] \in Procs /\ x = Sibling(x[2])
    BY <2>2, HeadsApart
  <2> QED
    BY <1>2, <2>3 DEF Link, OneKind
<1> QED
  BY <1>1, <1>2

----------------------------------------------------------------------------
(* What the calls make of the lists: who is in them.                       *)

\* R2 is R with p in, or out of, the list of h.
Enters(R2, R, h, p) == R2 = [R EXCEPT ![h] = R[h] \cup {Link(h, p)}]
Leaves(R2, R, h, p) == R2 = [R EXCEPT ![h] = R[h] \ {Link(h, p)}]

LEMMA InsertIn ==
    ASSUME NEW R, NEW par, NEW pid, InTheirLists(R, par, pid),
           NEW h \in Queues, NEW p \in Procs, NEW R2, Enters(R2, R, h, p)
    PROVE  InTheirLists(R2, par, pid)
<1>1. h \in ProcQs /\ h # pcbFree_h /\ Link(h, p) = InQueue(p) /\ h \in DOMAIN R
  BY HeadsApart, HeadsInUse DEF ProcQs, InTheirLists
<1>2. DOMAIN R2 = DOMAIN R /\ R2[h] = R[h] \cup {InQueue(p)} /\ \A g \in DOMAIN R \ {h} : R2[g] = R[g]
  BY <1>1 DEF Enters
<1>3. \A q \in Procs : pid[q] # 0 => Children(q) \in DOMAIN R \ {h}
  BY <1>1, HeadsInUse DEF InTheirLists
<1>4. pcbFree_h \in DOMAIN R \ {h} /\ ProcQs \subseteq DOMAIN R
  BY <1>1, HeadsInUse DEF InTheirLists, ProcQs
<1> QED
  BY <1>1, <1>2, <1>3, <1>4 DEF InTheirLists

LEMMA RemoveIn ==
    ASSUME NEW R, NEW par, NEW pid, InTheirLists(R, par, pid),
           NEW h \in Queues, NEW p \in Procs, NEW R2, Leaves(R2, R, h, p)
    PROVE  InTheirLists(R2, par, pid)
<1>1. h \in ProcQs /\ h # pcbFree_h /\ h \in DOMAIN R
  BY HeadsApart, HeadsInUse DEF ProcQs, InTheirLists
<1>2. DOMAIN R2 = DOMAIN R /\ R2[h] \subseteq R[h] /\ \A g \in DOMAIN R \ {h} : R2[g] = R[g]
  BY <1>1 DEF Leaves
<1>3. \A q \in Procs : pid[q] # 0 => Children(q) \in DOMAIN R \ {h}
  BY <1>1, HeadsInUse DEF InTheirLists
<1>4. pcbFree_h \in DOMAIN R \ {h} /\ ProcQs \subseteq DOMAIN R
  BY <1>1, HeadsInUse DEF InTheirLists, ProcQs
<1> QED
  BY <1>1, <1>2, <1>3, <1>4 DEF InTheirLists

LEMMA ChildIn ==
    ASSUME NEW R, NEW par, NEW pid, InTheirLists(R, par, pid),
           NEW p \in Procs, NEW c \in Procs, pid[p] # 0, pid[c] # 0, par[c] = NULL,
           NEW R2, Enters(R2, R, Children(p), c)
    PROVE  InTheirLists(R2, [par EXCEPT ![c] = p], pid)
<1>1. PICK h, par2 : h = Children(p) /\ par2 = [par EXCEPT ![c] = p]
  OBVIOUS
<1>2. h \notin ProcQs /\ Link(h, c) = Sibling(c) /\ h \in DOMAIN R
  BY <1>1, HeadsInUse DEF InTheirLists
<1>3. DOMAIN R2 = DOMAIN R /\ R2[h] = R[h] \cup {Sibling(c)} /\ \A g \in DOMAIN R \ {h} : R2[g] = R[g]
  BY <1>1, <1>2 DEF Enters
<1>4. pcbFree_h \in DOMAIN R \ {h} /\ ProcQs \subseteq DOMAIN R \ {h} /\ pcbFree_h \in ProcQs
  BY <1>2, HeadsInUse DEF InTheirLists, ProcQs
<1>5. /\ par2 \in [Procs -> Procs \cup {NULL}] /\ par2[c] = p
      /\ \A d \in Procs \ {c} : par2[d] = par[d]
  BY <1>1 DEF InTheirLists
<1>6. ASSUME NEW q \in Procs, pid[q] # 0
      PROVE  R2[Children(q)] = {Sibling(x) : x \in {d \in Procs : par2[d] = q}}
  <2>1. R[Children(q)] = {Sibling(x) : x \in {d \in Procs : par[d] = q}}
    BY <1>6 DEF InTheirLists
  <2>2. Children(q) \in DOMAIN R
    BY <1>6, HeadsInUse DEF InTheirLists
  <2>3. CASE q = p
    BY <1>1, <1>3, <1>5, <2>1, <2>3
  <2>4. CASE q # p
    <3>1. R2[Children(q)] = R[Children(q)]
      BY <1>1, <1>3, <2>2, <2>4, HeadsApart
    <3>2. {d \in Procs : par2[d] = q} = {d \in Procs : par[d] = q}
      BY <1>5, <2>4, HeadsApart
    <3> QED
      BY <2>1, <3>1, <3>2
  <2> QED
    BY <2>3, <2>4
<1>7. \A d \in Procs : par2[d] # NULL => pid[d] # 0 /\ pid[par2[d]] # 0
  BY <1>5 DEF InTheirLists
<1> QED
  BY <1>1, <1>3, <1>4, <1>5, <1>6, <1>7 DEF InTheirLists

LEMMA OrphanIn ==
    ASSUME NEW R, NEW par, NEW pid, InTheirLists(R, par, pid),
           NEW p \in Procs, NEW c \in Procs, pid[p] # 0, par[c] = p,
           NEW R2, Leaves(R2, R, Children(p), c)
    PROVE  InTheirLists(R2, [par EXCEPT ![c] = NULL], pid)
<1>1. PICK h, par2 : h = Children(p) /\ par2 = [par EXCEPT ![c] = NULL]
  OBVIOUS
<1>2. h \notin ProcQs /\ Link(h, c) = Sibling(c) /\ h \in DOMAIN R
  BY <1>1, HeadsInUse DEF InTheirLists
<1>3. DOMAIN R2 = DOMAIN R /\ R2[h] = R[h] \ {Sibling(c)} /\ \A g \in DOMAIN R \ {h} : R2[g] = R[g]
  BY <1>1, <1>2 DEF Leaves
<1>4. pcbFree_h \in DOMAIN R \ {h} /\ ProcQs \subseteq DOMAIN R \ {h} /\ pcbFree_h \in ProcQs
  BY <1>2, HeadsInUse DEF InTheirLists, ProcQs
<1>5. /\ par2 \in [Procs -> Procs \cup {NULL}] /\ par2[c] = NULL
      /\ \A d \in Procs \ {c} : par2[d] = par[d]
  BY <1>1 DEF InTheirLists
<1>6. ASSUME NEW q \in Procs, pid[q] # 0
      PROVE  R2[Children(q)] = {Sibling(x) : x \in {d \in Procs : par2[d] = q}}
  <2>1. R[Children(q)] = {Sibling(x) : x \in {d \in Procs : par[d] = q}}
    BY <1>6 DEF InTheirLists
  <2>2. Children(q) \in DOMAIN R
    BY <1>6, HeadsInUse DEF InTheirLists
  <2>3. CASE q = p
    <3>1. {d \in Procs : par2[d] = q} = {d \in Procs : par[d] = q} \ {c}
      BY <1>5, <2>3, HeadsApart
    <3>2. \A d \in Procs : Sibling(d) = Sibling(c) => d = c
      BY HeadsApart
    <3>3. R2[Children(q)] = R[Children(q)] \ {Sibling(c)}
      BY <1>1, <1>3, <2>3
    <3> QED
      BY <2>1, <3>1, <3>2, <3>3
  <2>4. CASE q # p
    <3>1. R2[Children(q)] = R[Children(q)]
      BY <1>1, <1>3, <2>2, <2>4, HeadsApart
    <3>2. {d \in Procs : par2[d] = q} = {d \in Procs : par[d] = q}
      BY <1>5, <2>4, HeadsApart
    <3> QED
      BY <2>1, <3>1, <3>2
  <2> QED
    BY <2>3, <2>4
<1>7. \A d \in Procs : par2[d] # NULL => pid[d] # 0 /\ pid[par2[d]] # 0
  BY <1>5 DEF InTheirLists
<1> QED
  BY <1>1, <1>3, <1>4, <1>5, <1>6, <1>7 DEF InTheirLists

\* allocPcb: p leaves the free list and has a list of children.
LEMMA AllocIn ==
    ASSUME NEW R, NEW par, NEW pid, InTheirLists(R, par, pid),
           NEW p \in Procs, pid[p] = 0,
           NEW R1, Leaves(R1, R, pcbFree_h, p),
           NEW R2, R2 = [h \in DOMAIN R1 \cup {Children(p)} |->
                            IF h = Children(p) THEN {} ELSE R1[h]]
    PROVE  InTheirLists(R2, par, [pid EXCEPT ![p] = p])
<1>1. PICK pid2 : pid2 = [pid EXCEPT ![p] = p]
  OBVIOUS
<1>2. Link(pcbFree_h, p) = InQueue(p) /\ pcbFree_h \in DOMAIN R /\ ProcQs \subseteq DOMAIN R
  BY HeadsInUse DEF InTheirLists, ProcQs
<1>3. /\ DOMAIN R1 = DOMAIN R /\ R1[pcbFree_h] = R[pcbFree_h] \ {InQueue(p)}
      /\ \A g \in DOMAIN R \ {pcbFree_h} : R1[g] = R[g]
  BY <1>2 DEF Leaves
<1>4. Children(p) \notin DOMAIN R
  BY HeadsInUse DEF InTheirLists
<1>5. /\ pid2 \in [Procs -> Procs \cup {0}] /\ pid2[p] = p
      /\ \A q \in Procs \ {p} : pid2[q] = pid[q]
  BY <1>1 DEF InTheirLists
<1>6. /\ DOMAIN R2 = DOMAIN R \cup {Children(p)} /\ R2[Children(p)] = {}
      /\ \A h \in DOMAIN R : R2[h] = R1[h]
  BY <1>3, <1>4
<1>7. DOMAIN R2 = HeadsOf(pid2)
  <2>1. {q \in Procs : pid2[q] # 0} = {q \in Procs : pid[q] # 0} \cup {p}
    BY <1>5, HeadsApart
  <2> QED
    BY <1>6, <2>1 DEF InTheirLists, HeadsOf
<1>8. \A h \in ProcQs : R2[h] \subseteq {InQueue(q) : q \in Procs}
  BY <1>2, <1>3, <1>6 DEF InTheirLists
<1>9. ASSUME NEW q \in Procs PROVE InQueue(q) \in R2[pcbFree_h] <=> pid2[q] = 0
  <2>1. InQueue(q) \in R[pcbFree_h] <=> pid[q] = 0
    BY DEF InTheirLists
  <2>2. InQueue(q) = InQueue(p) => q = p
    BY HeadsApart
  <2> QED
    BY <1>2, <1>3, <1>5, <1>6, <2>1, <2>2, HeadsApart
<1>10. \A q \in Procs : par[q] # p
  BY HeadsApart DEF InTheirLists
<1>11. ASSUME NEW q \in Procs, pid2[q] # 0
       PROVE  R2[Children(q)] = {Sibling(x) : x \in {d \in Procs : par[d] = q}}
  <2>1. CASE q = p
    <3>1. {d \in Procs : par[d] = q} = {}
      BY <1>10, <2>1
    <3> QED
      BY <1>6, <2>1, <3>1
  <2>2. CASE q # p
    <3>1. pid[q] # 0 /\ Children(q) \in DOMAIN R /\ Children(q) # pcbFree_h
      BY <1>5, <1>11, <2>2, HeadsInUse DEF InTheirLists, ProcQs
    <3>2. R2[Children(q)] = R[Children(q)]
      BY <1>3, <1>6, <3>1
    <3> QED
      BY <3>1, <3>2 DEF InTheirLists
  <2> QED
    BY <2>1, <2>2
<1>12. \A d \in Procs : par[d] # NULL => pid2[d] # 0 /\ pid2[par[d]] # 0
  BY <1>5, <1>10, HeadsApart DEF InTheirLists
<1>13. \A q \in Procs : pid2[q] \in {0, q}
  BY <1>5 DEF InTheirLists
<1>14. par \in [Procs -> Procs \cup {NULL}]
  BY DEF InTheirLists
<1> QED
  BY <1>1, <1>5, <1>7, <1>8, <1>9, <1>11, <1>12, <1>13, <1>14 DEF InTheirLists

\* freePcb: p, which has no parent and no children, is free.
LEMMA FreeIn ==
    ASSUME NEW R, NEW par, NEW pid, InTheirLists(R, par, pid),
           NEW p \in Procs, pid[p] # 0, par[p] = NULL, R[Children(p)] = {},
           NEW R1, Enters(R1, R, pcbFree_h, p),
           NEW R2, R2 = [h \in DOMAIN R1 \ {Children(p)} |-> R1[h]]
    PROVE  InTheirLists(R2, par, [pid EXCEPT ![p] = 0])
<1>1. PICK pid2 : pid2 = [pid EXCEPT ![p] = 0]
  OBVIOUS
<1>2. Link(pcbFree_h, p) = InQueue(p) /\ pcbFree_h \in DOMAIN R /\ ProcQs \subseteq DOMAIN R
  BY HeadsInUse DEF InTheirLists, ProcQs
<1>3. /\ DOMAIN R1 = DOMAIN R /\ R1[pcbFree_h] = R[pcbFree_h] \cup {InQueue(p)}
      /\ \A g \in DOMAIN R \ {pcbFree_h} : R1[g] = R[g]
  BY <1>2 DEF Enters
<1>4. Children(p) \notin ProcQs /\ pcbFree_h \in ProcQs
  BY HeadsInUse DEF ProcQs
<1>5. /\ pid2 \in [Procs -> Procs \cup {0}] /\ pid2[p] = 0
      /\ \A q \in Procs \ {p} : pid2[q] = pid[q]
  BY <1>1 DEF InTheirLists
<1>6. DOMAIN R2 = DOMAIN R \ {Children(p)} /\ \A h \in DOMAIN R \ {Children(p)} : R2[h] = R1[h]
  BY <1>3
<1>7. DOMAIN R2 = HeadsOf(pid2)
  <2>1. {q \in Procs : pid2[q] # 0} = {q \in Procs : pid[q] # 0} \ {p}
    BY <1>5
  <2>2. \A q \in Procs : Children(q) = Children(p) => q = p
    BY HeadsApart
  <2>3. DOMAIN R = HeadsOf(pid)
    BY DEF InTheirLists
  <2> QED
    BY <1>4, <1>6, <2>1, <2>2, <2>3 DEF HeadsOf
<1>8. \A h \in ProcQs : R2[h] \subseteq {InQueue(q) : q \in Procs}
  BY <1>2, <1>3, <1>4, <1>6 DEF InTheirLists
<1>9. ASSUME NEW q \in Procs PROVE InQueue(q) \in R2[pcbFree_h] <=> pid2[q] = 0
  <2>1. InQueue(q) \in R[pcbFree_h] <=> pid[q] = 0
    BY DEF InTheirLists
  <2>2. InQueue(q) = InQueue(p) => q = p
    BY HeadsApart
  <2> QED
    BY <1>2, <1>3, <1>4, <1>5, <1>6, <2>1, <2>2
<1>10. \A q \in Procs : par[q] # p
  <2>1. R[Children(p)] = {Sibling(x) : x \in {d \in Procs : par[d] = p}}
    BY DEF InTheirLists
  <2> QED
    BY <2>1
<1>11. ASSUME NEW q \in Procs, pid2[q] # 0
       PROVE  R2[Children(q)] = {Sibling(x) : x \in {d \in Procs : par[d] = q}}
  <2>1. q # p /\ pid[q] # 0
    BY <1>5, <1>11
  <2>2. Children(q) \in DOMAIN R \ {Children(p)} /\ Children(q) # pcbFree_h
    BY <1>4, <2>1, HeadsApart, HeadsInUse DEF InTheirLists
  <2>3. R2[Children(q)] = R[Children(q)]
    BY <1>3, <1>6, <2>2
  <2> QED
    BY <2>1, <2>3 DEF InTheirLists
<1>12. \A d \in Procs : par[d] # NULL => pid2[d] # 0 /\ pid2[par[d]] # 0
  BY <1>5, <1>10, HeadsApart DEF InTheirLists
<1>13. \A q \in Procs : pid2[q] \in {0, q}
  BY <1>5 DEF InTheirLists
<1>14. par \in [Procs -> Procs \cup {NULL}]
  BY DEF InTheirLists
<1> QED
  BY <1>1, <1>5, <1>7, <1>8, <1>9, <1>11, <1>12, <1>13, <1>14 DEF InTheirLists


----------------------------------------------------------------------------
(* What the calls make of the lists: in which order.                       *)

\* P is Q with p at the end of the list of h, or no longer in it.
Joins(P, Q, h, p) ==
    /\ DOMAIN P = DOMAIN Q /\ \A g \in DOMAIN Q \ {h} : P[g] = Q[g]
    /\ Pcbs(P[h]) = Append(Pcbs(Q[h]), p)
Quits(P, Q, h, p) ==
    /\ DOMAIN P = DOMAIN Q /\ \A g \in DOMAIN Q \ {h} : P[g] = Q[g]
    /\ Pcbs(P[h]) = Without(Pcbs(Q[h]), {p})

LEMMA AddPcb ==
    ASSUME NEW l, NEW Q, Holds(l, Q, Nodes, Values), NEW h \in DOMAIN Q,
           NEW p \in Procs, Link(h, p) \in Fresh(Q, Nodes),
           NEW m, m = ListAddTail(l, Link(h, p), h)
    PROVE  \E P : /\ Holds(m, P, Nodes, Values) /\ Joins(P, Q, h, p)
                  /\ Enters(Ranges(P), Ranges(Q), h, p)
<1>1. PICK e, E, q : e = Link(h, p) /\ E = Nodes \ DOMAIN Q /\ q = Q[h]
  OBVIOUS
<1>2. PICK r : r = Append(q, e)
  OBVIOUS
<1>3. PICK P : P = [Q EXCEPT ![h] = r]
  OBVIOUS
<1>4. q \in Seq(E) /\ e \in E /\ Q \in [DOMAIN Q -> Seq(E)]
  BY <1>1, HeldList DEF Fresh, Holds
<1>5. Holds(m, P, Nodes, Values)
  <2>1. Holds(ListAddTail(l, e, h), [Q EXCEPT ![h] = Append(Q[h], e)], Nodes, Values)
    BY <1>1, AddCalls
  <2> QED
    BY <1>1, <1>2, <1>3, <2>1
<1>6. DOMAIN P = DOMAIN Q /\ P[h] = r /\ \A g \in DOMAIN Q \ {h} : P[g] = Q[g]
  BY <1>3, <1>4
<1>7. Pcbs(r) = Append(Pcbs(q), p)
  <2>1. e[2] = p
    BY <1>1, HeadsApart DEF Link
  <2>2. Pcbs(Append(q, e)) = Append(Pcbs(q), e[2])
    BY <1>4, PcbsAppend
  <2> QED
    BY <1>2, <2>1, <2>2
<1>8. Range(r) = Range(q) \cup {e}
  BY <1>2, <1>4, InsertRange
<1>9. Joins(P, Q, h, p)
  BY <1>1, <1>6, <1>7 DEF Joins
<1>10. Ranges(P) = [Ranges(Q) EXCEPT ![h] = Ranges(Q)[h] \cup {e}]
  BY <1>1, <1>6, <1>8 DEF Ranges
<1>11. Enters(Ranges(P), Ranges(Q), h, p)
  BY <1>1, <1>10 DEF Enters
<1> QED
  BY <1>5, <1>9, <1>11

LEMMA RemoveRange ==
    ASSUME NEW E, NEW q \in Seq(E), NoRepeats(q, Len(q)), NEW k, NEW e, At(q, k, e)
    PROVE  Range(RemoveAt(q, k)) = Range(q) \ {e}
<1>1. PICK r, n : r = RemoveAt(q, k) /\ n = Len(q)
  OBVIOUS
<1>2. k \in 1..n /\ e = q[k] /\ n \in Nat
  BY <1>1, LenProperties DEF At
<1>3. r \in Seq(E) /\ Len(r) = n - 1 /\ Removed(r, q, n, k)
  BY <1>1, <1>2, RemoveSeq
<1>4. DOMAIN r = 1..n - 1 /\ DOMAIN q = 1..n
  BY <1>1, <1>3, LenProperties
<1>5. \A i \in 1..n - 1 : r[i] = IF i < k THEN q[i] ELSE q[i + 1]
  BY <1>3 DEF Removed
<1>6. \A i \in 1..n : q[i] = e => i = k
  BY <1>1, <1>2 DEF NoRepeats
<1>7. ASSUME NEW x \in Range(r) PROVE x \in Range(q) \ {e}
  <2>1. PICK i \in 1..n - 1 : x = r[i]
    BY <1>4 DEF Range
  <2>2. PICK j : j = IF i < k THEN i ELSE i + 1
    OBVIOUS
  <2>3. j \in 1..n /\ j # k /\ x = q[j]
    BY <1>2, <1>5, <2>1, <2>2
  <2> QED
    BY <1>4, <1>6, <2>3 DEF Range
<1>8. ASSUME NEW x \in Range(q) \ {e} PROVE x \in Range(r)
  <2>1. PICK j \in 1..n : x = q[j]
    BY <1>4 DEF Range
  <2>2. j # k
    BY <1>2, <2>1
  <2>3. PICK i : i = IF j < k THEN j ELSE j - 1
    OBVIOUS
  <2>4. i \in 1..n - 1 /\ j = IF i < k THEN i ELSE i + 1
    BY <1>2, <2>2, <2>3
  <2>5. r[i] = x
    BY <1>5, <2>1, <2>4
  <2> QED
    BY <1>4, <2>4, <2>5 DEF Range
<1> QED
  BY <1>1, <1>7, <1>8

LEMMA DelPcb ==
    ASSUME NEW l, NEW Q, Holds(l, Q, Nodes, Values),
           NEW par, NEW pid, InTheirLists(Ranges(Q), par, pid), NEW h \in DOMAIN Q,
           NEW p \in Procs, Link(h, p) \in Range(Q[h]),
           NEW m, m = ListDel(l, Link(h, p), NULL)
    PROVE  \E P : /\ Holds(m, P, Nodes, Values) /\ Quits(P, Q, h, p)
                  /\ Leaves(Ranges(P), Ranges(Q), h, p) /\ Link(h, p) \in Fresh(P, Nodes)
<1>1. PICK e, E, q : e = Link(h, p) /\ E = Nodes \ DOMAIN Q /\ q = Q[h]
  OBVIOUS
<1>2. q \in Seq(E) /\ Q \in [DOMAIN Q -> Seq(E)] /\ NoRepeats(q, Len(q)) /\ DOMAIN q = 1..Len(q)
  <2>1. Q \in [DOMAIN Q -> Seq(E)] /\ ListIn(l, h, q, Nodes, E)
    BY <1>1 DEF Holds
  <2> QED
    BY <1>1, <2>1, HeldList DEF ListIn
<1>3. PICK k : At(q, k, e)
  BY <1>1, <1>2 DEF At, Range
<1>4. PICK r : r = RemoveAt(q, k)
  OBVIOUS
<1>5. PICK P : Loses(P, Q, h, k)
  BY DEF Loses
<1>6. Holds(m, P, Nodes, Values) /\ e \in Fresh(P, Nodes)
  <2>1. At(Q[h], k, e) /\ NULL \in Values /\ Deleting(m, l, e, NULL)
    BY <1>1, <1>3 DEF Deleting, Values
  <2> QED
    BY ONLY Holds(l, Q, Nodes, Values), h \in DOMAIN Q, <1>5, <2>1, DelCalls
<1>7. DOMAIN P = DOMAIN Q /\ P[h] = r /\ \A g \in DOMAIN Q \ {h} : P[g] = Q[g]
  BY <1>1, <1>2, <1>4, <1>5 DEF Loses
<1>8. Pcbs(r) = Without(Pcbs(q), {p})
  <2>1. k \in 1..Len(q) /\ e = q[k]
    BY <1>3 DEF At
  <2>2. e[2] = p
    BY <1>1, HeadsApart DEF Link
  <2>3. OneKind(Range(q))
    <3>1. DOMAIN Ranges(Q) = DOMAIN Q /\ Ranges(Q)[h] = Range(q)
      BY <1>1 DEF Ranges
    <3> QED
      BY <3>1, Linked
  <2>4. Pcbs(RemoveAt(q, k)) = Without(Pcbs(q), {q[k][2]})
    BY <1>2, <2>1, <2>3, PcbsRemove
  <2> QED
    BY <1>4, <2>1, <2>2, <2>4
<1>9. Range(r) = Range(q) \ {e}
  BY <1>2, <1>3, <1>4, RemoveRange
<1>10. Quits(P, Q, h, p)
  BY <1>1, <1>7, <1>8 DEF Quits
<1>11. Ranges(P) = [Ranges(Q) EXCEPT ![h] = Ranges(Q)[h] \ {e}]
  BY <1>1, <1>7, <1>9 DEF Ranges
<1>12. Leaves(Ranges(P), Ranges(Q), h, p)
  BY <1>1, <1>11 DEF Leaves
<1> QED
  BY <1>1, <1>6, <1>10, <1>12

\* Who is first in a list is found through its head.
LEMMA FirstPcb ==
    ASSUME NEW l, NEW Q, Holds(l, Q, Nodes, Values),
           NEW par, NEW pid, InTheirLists(Ranges(Q), par, pid), NEW h \in DOMAIN Q
    PROVE  /\ ListEmpty(l, h) <=> Q[h] = <<>>
           /\ Q[h] = <<>> <=> Pcbs(Q[h]) = <<>>
           /\ Q[h] # <<>> =>
                 /\ l.next[h][2] = Head(Pcbs(Q[h])) /\ l.next[h][2] \in Procs
                 /\ Link(h, l.next[h][2]) \in Range(Q[h])
                 /\ Without(Pcbs(Q[h]), {l.next[h][2]}) = Tail(Pcbs(Q[h]))
<1>1. PICK q, E, s, F : q = Q[h] /\ E = Nodes \ DOMAIN Q /\ s = Pcbs(Q[h]) /\ F = {e[2] : e \in E}
  OBVIOUS
<1>2. q \in Seq(E) /\ NoRepeats(q, Len(q)) /\ DOMAIN q = 1..Len(q) /\ Len(q) \in Nat
  <2>1. ListIn(l, h, q, Nodes, E)
    BY <1>1 DEF Holds
  <2> QED
    BY <1>1, <2>1, HeldList DEF ListIn
<1>3. s \in Seq(F) /\ Len(s) = Len(q) /\ \A i \in 1..Len(q) : s[i] = q[i][2]
  BY <1>1, <1>2, PcbsOf
<1>4. (q = <<>> <=> Len(q) = 0) /\ (s = <<>> <=> Len(s) = 0)
  BY <1>2, <1>3, EmptySeq
<1>5. ListEmpty(l, h) <=> Q[h] = <<>>
  BY EmptyAsSaid
<1>6. ASSUME q # <<>>
      PROVE  /\ l.next[h][2] = Head(s) /\ l.next[h][2] \in Procs
             /\ Link(h, l.next[h][2]) \in Range(q)
             /\ Without(s, {l.next[h][2]}) = Tail(s)
  <2>1. 1 \in 1..Len(q) /\ s # <<>>
    BY <1>2, <1>3, <1>4, <1>6
  <2>2. l.next[h] = q[1]
    <3>1. PICK R : R = Ring(h, q)
      OBVIOUS
    <3>2. R[0] = h /\ R[1] = q[1] /\ l.next[R[0]] = R[0 + 1]
      BY <1>1, <2>1, <3>1, HeldRing
    <3> QED
      BY <3>2
  <2>3. q[1] \in Range(q)
    BY <1>2, <2>1 DEF Range
  <2>4. OneKind(Range(q)) /\ q[1][2] \in Procs /\ q[1] = Link(h, q[1][2])
    <3>1. DOMAIN Ranges(Q) = DOMAIN Q /\ Ranges(Q)[h] = Range(q)
      BY <1>1 DEF Ranges
    <3> QED
      BY <2>3, <3>1, Linked
  <2>5. Head(s) = s[1] /\ s[1] = q[1][2]
    BY <1>3, <2>1
  <2>6. Without(s, {s[1]}) = Tail(s)
    <3>1. NoRepeats(s, Len(s))
      <4> SUFFICES ASSUME NEW i \in 1..Len(q), NEW j \in 1..Len(q), s[i] = s[j] PROVE i = j
        BY <1>3 DEF NoRepeats
      <4>1. q[i] \in Range(q) /\ q[j] \in Range(q) /\ q[i][2] = q[j][2]
        BY <1>2, <1>3 DEF Range
      <4>2. q[i] = q[j]
        BY <2>4, <4>1 DEF OneKind
      <4> QED
        BY <1>2, <4>2 DEF NoRepeats
    <3>2. RemoveAt(s, 1) = Without(s, {s[1]})
      BY <1>3, <2>1, <3>1, RemoveIsWithout
    <3>3. RemoveAt(s, 1) = Tail(s)
      BY <1>3, <2>1, RemoveFront
    <3> QED
      BY <3>2, <3>3
  <2> QED
    BY <2>2, <2>3, <2>4, <2>5, <2>6
<1> QED
  BY <1>1, <1>3, <1>4, <1>5, <1>6


----------------------------------------------------------------------------
(* What the calls make of the queues and child lists as sequences.         *)

FreeOf(Q) == Pcbs(Q[pcbFree_h])
QueuesOf(Q) == [h \in Queues |-> Pcbs(Q[h])]
ChildrenOf(Q, pid) == [p \in Procs |-> IF pid[p] = 0 THEN <<>> ELSE Pcbs(Q[Children(p)])]

\* Only the list of h differs, and is s.
Differs(P, Q, h, s) ==
    /\ DOMAIN P = DOMAIN Q /\ \A g \in DOMAIN Q \ {h} : P[g] = Q[g]
    /\ Pcbs(P[h]) = s

LEMMA QueueDiffers ==
    ASSUME NEW P, NEW Q, NEW s, NEW pid, DOMAIN Q = HeadsOf(pid),
           NEW h \in Queues, Differs(P, Q, h, s)
    PROVE  /\ FreeOf(P) = FreeOf(Q) /\ ChildrenOf(P, pid) = ChildrenOf(Q, pid)
           /\ QueuesOf(P) = [QueuesOf(Q) EXCEPT ![h] = s]
<1>1. pcbFree_h \in DOMAIN Q \ {h} /\ Queues \subseteq DOMAIN Q
  BY HeadsApart, HeadsInUse
<1>2. \A p \in Procs : pid[p] # 0 => Children(p) \in DOMAIN Q \ {h}
  BY HeadsApart, HeadsInUse DEF ProcQs
<1>3. ChildrenOf(P, pid) = ChildrenOf(Q, pid)
  BY <1>2 DEF Differs, ChildrenOf
<1>4. QueuesOf(P) = [QueuesOf(Q) EXCEPT ![h] = s]
  BY <1>1 DEF Differs, QueuesOf
<1> QED
  BY <1>1, <1>3, <1>4 DEF Differs, FreeOf

LEMMA ChildrenDiffer ==
    ASSUME NEW P, NEW Q, NEW s, NEW pid, DOMAIN Q = HeadsOf(pid),
           NEW p \in Procs, pid[p] # 0, Differs(P, Q, Children(p), s)
    PROVE  /\ FreeOf(P) = FreeOf(Q) /\ QueuesOf(P) = QueuesOf(Q)
           /\ ChildrenOf(P, pid) = [ChildrenOf(Q, pid) EXCEPT ![p] = s]
<1>1. pcbFree_h \in DOMAIN Q \ {Children(p)} /\ Queues \subseteq DOMAIN Q \ {Children(p)}
  BY HeadsInUse DEF ProcQs
<1>2. \A q \in Procs : pid[q] # 0 => q = p \/ Children(q) \in DOMAIN Q \ {Children(p)}
  BY HeadsApart, HeadsInUse
<1>3. QueuesOf(P) = QueuesOf(Q)
  BY <1>1 DEF Differs, QueuesOf
<1>4. ChildrenOf(P, pid) = [ChildrenOf(Q, pid) EXCEPT ![p] = s]
  BY <1>2 DEF Differs, ChildrenOf
<1> QED
  BY <1>1, <1>3, <1>4 DEF Differs, FreeOf

\* pcbFree_h becomes s, and the list of children of p is opened or closed,
\* in which there is nobody.
LEMMA FreeDiffers ==
    ASSUME NEW P, NEW Q, NEW P1, NEW s, NEW pid, NEW pid2, DOMAIN Q = HeadsOf(pid),
           Differs(P1, Q, pcbFree_h, s), NEW p \in Procs,
           DOMAIN P = HeadsOf(pid2), \A h \in DOMAIN P \ {Children(p)} : P[h] = P1[h],
           \A q \in Procs \ {p} : pid2[q] = pid[q],
           pid[p] = 0 \/ Q[Children(p)] = <<>>, pid2[p] = 0 \/ P[Children(p)] = <<>>
    PROVE  FreeOf(P) = s /\ QueuesOf(P) = QueuesOf(Q) /\ ChildrenOf(P, pid2) = ChildrenOf(Q, pid)
<1>1. Pcbs(<<>>) = <<>>
  BY DEF Pcbs
<1>2. /\ pcbFree_h \in DOMAIN P \ {Children(p)} /\ Queues \subseteq DOMAIN P \ {Children(p)}
      /\ Queues \subseteq DOMAIN Q \ {pcbFree_h}
  BY HeadsApart, HeadsInUse DEF ProcQs
<1>3. FreeOf(P) = s
  BY <1>2 DEF Differs, FreeOf
<1>4. QueuesOf(P) = QueuesOf(Q)
  BY <1>2 DEF Differs, QueuesOf
<1>5. ASSUME NEW q \in Procs
      PROVE  (IF pid2[q] = 0 THEN <<>> ELSE Pcbs(P[Children(q)]))
                 = (IF pid[q] = 0 THEN <<>> ELSE Pcbs(Q[Children(q)]))
  <2>1. CASE q = p
    BY <1>1, <2>1
  <2>2. CASE q # p /\ pid[q] # 0
    <3>1. Children(q) \in DOMAIN P \ {Children(p)} /\ Children(q) \in DOMAIN Q \ {pcbFree_h}
      BY <2>2, HeadsApart, HeadsInUse
    <3> QED
      BY <2>2, <3>1 DEF Differs
  <2> QED
    BY <2>1, <2>2
<1>6. ChildrenOf(P, pid2) = ChildrenOf(Q, pid)
  BY <1>5 DEF ChildrenOf
<1> QED
  BY <1>3, <1>4, <1>6

\* The list_heads that are in no list.
LEMMA FreshHeads ==
    ASSUME NEW Q, NEW par, NEW pid, InTheirLists(Ranges(Q), par, pid), NEW p \in Procs
    PROVE  /\ (\A h \in ProcQs : InQueue(p) \notin Range(Q[h])) => InQueue(p) \in Fresh(Q, Nodes)
           /\ par[p] = NULL => Sibling(p) \in Fresh(Q, Nodes)
           /\ pid[p] = 0 => Children(p) \in Fresh(Q, Nodes)
<1>1. DOMAIN Q = HeadsOf(pid) /\ \A h \in DOMAIN Q : Ranges(Q)[h] = Range(Q[h])
  BY DEF InTheirLists, Ranges
<1>2. InQueue(p) \in Nodes /\ Sibling(p) \in Nodes /\ Children(p) \in Nodes
  BY HeadsApart
<1>3. InQueue(p) \notin DOMAIN Q /\ Sibling(p) \notin DOMAIN Q /\ (pid[p] = 0 => Children(p) \notin DOMAIN Q)
  BY <1>1, HeadsInUse
<1>4. \A h \in DOMAIN Q \cap ProcQs : Range(Q[h]) \subseteq {InQueue(q) : q \in Procs}
  BY <1>1 DEF InTheirLists
<1>5. \A h \in DOMAIN Q \ ProcQs : \E q \in Procs :
          Range(Q[h]) = {Sibling(c) : c \in {d \in Procs : par[d] = q}}
  BY <1>1, HeadsInUse DEF InTheirLists
<1>6. ASSUME NEW h \in DOMAIN Q
      PROVE  /\ Children(p) \notin Range(Q[h])
             /\ par[p] = NULL => Sibling(p) \notin Range(Q[h])
             /\ InQueue(p) \in Range(Q[h]) => h \in ProcQs
  BY <1>4, <1>5, HeadsApart
<1> QED
  BY <1>2, <1>3, <1>6 DEF Fresh, Listed

LEMMA StillFresh ==
    ASSUME NEW P, NEW Q, NEW h, NEW p, h \in DOMAIN Q, Leaves(Ranges(P), Ranges(Q), h, p),
           NEW x \in Fresh(Q, Nodes)
    PROVE  x \in Fresh(P, Nodes)
<1>1. DOMAIN P = DOMAIN Q /\ \A g \in DOMAIN Q : Range(P[g]) \subseteq Range(Q[g])
  BY DEF Leaves, Ranges
<1> QED
  BY <1>1 DEF Fresh, Listed

----------------------------------------------------------------------------
(* The invariant.                                                          *)

Held == [h \in HeadsOf(p_pid) |-> EntriesOf(links.next, h)]

\* The memory holds the lists in use, and in them who should be there.
PInv ==
    /\ Holds(links, Held, Nodes, Values)
    /\ InTheirLists(Ranges(Held), p_parent, p_pid)

LEMMA FiniteMemory == IsFiniteSet(Nodes)
<1>1. IsFiniteSet(Procs)
  BY PcbListsAssumption, FS_Interval DEF Procs
<1>2. \A k \in {"p_list", "p_child", "p_sib"} : IsFiniteSet({k} \X Procs)
  <2> SUFFICES ASSUME NEW k \in {"p_list", "p_child", "p_sib"} PROVE IsFiniteSet({k} \X Procs)
    OBVIOUS
  <2>1. IsFiniteSet({k})
    BY FS_Singleton
  <2> QED
    BY <1>1, <2>1, FS_Product
<1>3. Fields = {"p_list"} \X Procs \cup ({"p_child"} \X Procs \cup {"p_sib"} \X Procs)
  BY DEF Fields
<1>4. IsFiniteSet(Fields)
  BY <1>2, <1>3, FS_Union
<1>5. IsFiniteSet({pcbFree_h}) /\ IsFiniteSet(Queues)
  BY PcbListsAssumption, FS_Singleton
<1>6. IsFiniteSet({pcbFree_h} \cup Queues)
  BY <1>5, FS_Union
<1> QED
  BY <1>4, <1>6, FS_Union DEF Nodes

\* A memory that holds lists is read as these.
LEMMA ReadAs ==
    ASSUME NEW m, NEW P, Holds(m, P, Nodes, Values)
    PROVE  /\ P = [h \in DOMAIN P |-> EntriesOf(m.next, h)]
           /\ \A h \in DOMAIN P : /\ Circular(m.next, h) /\ Circular(m.prev, h)
                                  /\ EntriesOf(m.prev, h) = Reverse(P[h])
<1>1. P \in [DOMAIN P -> Seq(Nodes \ DOMAIN P)] /\ m \in Memories(Nodes, Values)
  BY DEF Holds
<1>2. PICK E : E = Nodes \ DOMAIN P
  OBVIOUS
<1>3. \A h \in DOMAIN P : ListIn(m, h, P[h], Nodes, E)
  BY <1>2 DEF Holds
<1>4. IsFiniteSet(Nodes)
  BY FiniteMemory
<1>5. \A h \in DOMAIN P : /\ EntriesOf(m.next, h) = P[h]
                          /\ Circular(m.next, h) /\ Circular(m.prev, h)
                          /\ EntriesOf(m.prev, h) = Reverse(P[h])
  BY ONLY <1>1, <1>3, <1>4, ListWalks
<1> QED
  BY <1>1, <1>5

LEMMA SeqsOfLists ==
    /\ Members(pcbFree_h) = FreeOf(Held)
    /\ [h \in Queues |-> Members(h)] = QueuesOf(Held)
    /\ ChildSeqs = ChildrenOf(Held, p_pid)
    /\ \A h \in HeadsOf(p_pid) : Members(h) = Pcbs(Held[h])
<1>1. \A h \in HeadsOf(p_pid) : Members(h) = Pcbs(Held[h])
  BY DEF Members, Held
<1>2. Members(pcbFree_h) = FreeOf(Held)
  BY <1>1, HeadsInUse DEF FreeOf
<1>3. [h \in Queues |-> Members(h)] = QueuesOf(Held)
  BY <1>1, HeadsInUse DEF QueuesOf
<1>4. ChildSeqs = ChildrenOf(Held, p_pid)
  BY <1>1, HeadsInUse DEF ChildSeqs, ChildrenOf
<1> QED
  BY <1>1, <1>2, <1>3, <1>4

LEMMA Reached ==
    ASSUME NEW m, m = links', NEW pid2, pid2 = p_pid', NEW par2, par2 = p_parent',
           NEW P, Holds(m, P, Nodes, Values), InTheirLists(Ranges(P), par2, pid2)
    PROVE  /\ PInv' /\ Members(pcbFree_h)' = FreeOf(P)
           /\ [h \in Queues |-> Members(h)]' = QueuesOf(P)
           /\ ChildSeqs' = ChildrenOf(P, pid2)
<1>1. DOMAIN P = HeadsOf(pid2)
  BY DEF InTheirLists, Ranges
<1>2. P = [h \in DOMAIN P |-> EntriesOf(m.next, h)]
  BY ReadAs
<1>3. Held' = P
  BY <1>1, <1>2 DEF Held, HeadsOf
<1>4. PInv'
  BY <1>3 DEF PInv, Nodes, Values
<1>5. \A h \in HeadsOf(pid2) : Members(h)' = Pcbs(P[h])
  BY <1>1, <1>2 DEF Members, Pcbs
<1>6. Members(pcbFree_h)' = FreeOf(P)
  BY <1>5, HeadsInUse DEF FreeOf
<1>7. [h \in Queues |-> Members(h)]' = QueuesOf(P)
  BY <1>5, HeadsInUse DEF QueuesOf
<1>8. ChildSeqs' = ChildrenOf(P, pid2)
  BY <1>5, HeadsInUse DEF ChildSeqs, ChildrenOf
<1> QED
  BY <1>4, <1>6, <1>7, <1>8

\* The operators of the two modules are named alike.
LEMMA SameNotions ==
    /\ Abstract!Procs = Procs
    /\ \A q, p : Abstract!InsertProcQ(q, p) = Append(q, p)
    /\ \A q, p : Abstract!OutProcQ(q, p) = Without(q, {p})
    /\ \A q : Abstract!HeadProcQ(q) = IF q = <<>> THEN NULL ELSE Head(q)
    /\ \A q : Abstract!Range(q) = Range(q) /\ ToSet(q) = Range(q)
<1>1. Abstract!Procs = Procs
  BY DEF Abstract!Procs, Procs
<1>2. \A q, p : Abstract!InsertProcQ(q, p) = Append(q, p)
  BY DEF Abstract!InsertProcQ
<1>3. \A q, p : Abstract!OutProcQ(q, p) = Without(q, {p})
  BY DEF Abstract!OutProcQ, Abstract!Without, Without, Abstract!Kept, Kept, Abstract!Nth, Nth,
         Abstract!Cardinality, Cardinality
<1>4. \A q : Abstract!HeadProcQ(q) = IF q = <<>> THEN NULL ELSE Head(q)
  BY DEF Abstract!HeadProcQ
<1>5. \A q : Abstract!Range(q) = Range(q) /\ ToSet(q) = Range(q)
  BY DEF Abstract!Range, Range, ToSet
<1> QED
  BY <1>1, <1>2, <1>3, <1>4, <1>5

\* Who is in a list, and first in it.
LEMMA InList ==
    ASSUME PInv, NEW h \in HeadsOf(p_pid)
    PROVE  /\ \A p \in Procs : p \in In(h) <=> Link(h, p) \in Range(Held[h])
           /\ In(h) = Range(Pcbs(Held[h]))
           /\ HeadProcQ(h) = Abstract!HeadProcQ(Pcbs(Held[h]))
           /\ Held[h] = <<>> <=> HeadProcQ(h) = NULL
           /\ Held[h] = <<>> <=> Pcbs(Held[h]) = <<>>
           /\ Held[h] # <<>> =>
                 /\ HeadProcQ(h) \in Procs /\ Link(h, HeadProcQ(h)) \in Range(Held[h])
                 /\ Without(Pcbs(Held[h]), {HeadProcQ(h)}) = Tail(Pcbs(Held[h]))
<1>1. PICK l, Q, par, pid : l = links /\ Q = Held /\ par = p_parent /\ pid = p_pid
  OBVIOUS
<1>2. Holds(l, Q, Nodes, Values) /\ InTheirLists(Ranges(Q), par, pid) /\ h \in DOMAIN Q
  BY <1>1 DEF PInv, Held
<1>3. PICK q, s : q = Q[h] /\ s = Pcbs(Q[h])
  OBVIOUS
<1>4. Members(h) = s
  BY <1>1, <1>3, SeqsOfLists
<1>5. DOMAIN q = DOMAIN s /\ \A i \in DOMAIN q : s[i] = q[i][2]
  BY <1>3 DEF Pcbs
<1>6. \A x \in Range(q) : x[2] \in Procs /\ x = Link(h, x[2])
  <2>1. h \in DOMAIN Ranges(Q) /\ Ranges(Q)[h] = Range(q)
    BY <1>2, <1>3 DEF Ranges
  <2> QED
    BY ONLY <1>2, <2>1, Linked
<1>7. In(h) = Range(s)
  BY <1>4, SameNotions DEF In
<1>8. ASSUME NEW p \in Procs PROVE p \in In(h) <=> Link(h, p) \in Range(q)
  <2>1. Link(h, p)[2] = p
    BY HeadsApart DEF Link
  <2>2. p \in Range(s) <=> \E i \in DOMAIN q : q[i][2] = p
    BY <1>5 DEF Range
  <2>3. \A i \in DOMAIN q : q[i] \in Range(q)
    BY DEF Range
  <2>4. \A x \in Range(q) : \E i \in DOMAIN q : q[i] = x
    BY DEF Range
  <2> QED
    BY <1>6, <1>7, <2>1, <2>2, <2>3, <2>4
<1>9. /\ ListEmpty(l, h) <=> q = <<>>
      /\ q = <<>> <=> s = <<>>
      /\ q # <<>> =>
            /\ l.next[h][2] = Head(s) /\ l.next[h][2] \in Procs
            /\ Link(h, l.next[h][2]) \in Range(q)
            /\ Without(s, {l.next[h][2]}) = Tail(s)
  BY ONLY <1>2, <1>3, FirstPcb
<1>10. HeadProcQ(h) = IF q = <<>> THEN NULL ELSE l.next[h][2]
  BY <1>1, <1>9 DEF HeadProcQ
<1> QED
  BY <1>1, <1>3, <1>7, <1>8, <1>9, <1>10, SameNotions, HeadsApart

----------------------------------------------------------------------------
(* The calls of pcb.h.                                                     *)

\* Nothing is done to the lists.
LEMMA NoChange ==
    ASSUME PInv, UNCHANGED <<links, p_parent, p_pid>>
    PROVE  /\ PInv' /\ Members(pcbFree_h)' = Members(pcbFree_h)
           /\ [h \in Queues |-> Members(h)]' = [h \in Queues |-> Members(h)]
           /\ ChildSeqs' = ChildSeqs
<1>1. Held' = Held
  BY DEF Held, HeadsOf
<1>2. PInv'
  BY <1>1 DEF PInv, Nodes, Values
<1>3. \A h : Members(h)' = Members(h)
  BY DEF Members, Pcbs
<1>4. ChildSeqs' = ChildSeqs
  BY <1>3 DEF ChildSeqs
<1> QED
  BY <1>2, <1>3, <1>4

LEMMA InsertSteps ==
    ASSUME PInv, NEW h \in Queues, NEW p \in Active, ~Queued(p), InsertProcQ(h, p)
    PROVE  PInv' /\ Abstract!Insert(h, p)
<1>1. PICK l, m, Q, par, pid :
          l = links /\ m = links' /\ Q = Held /\ par = p_parent /\ pid = p_pid
  OBVIOUS
<1>2. /\ Holds(l, Q, Nodes, Values) /\ InTheirLists(Ranges(Q), par, pid)
      /\ DOMAIN Q = HeadsOf(pid) /\ h \in DOMAIN Q /\ p \in Procs /\ pid[p] # 0
      /\ p_pid' = pid /\ p_parent' = par
  BY <1>1, HeadsInUse DEF PInv, Held, Active, InsertProcQ
<1>3. Link(h, p) = InQueue(p) /\ InQueue(p) \in Fresh(Q, Nodes)
  <2>1. InQueue(p) \notin Range(Q[pcbFree_h])
    <3>1. Ranges(Q)[pcbFree_h] = Range(Q[pcbFree_h])
      BY <1>2, HeadsInUse DEF Ranges
    <3> QED
      BY <1>2, <3>1 DEF InTheirLists
  <2>2. ASSUME NEW g \in Queues PROVE InQueue(p) \notin Range(Q[g])
    <3>1. p \notin In(g)
      BY DEF Queued
    <3>2. g \in HeadsOf(p_pid) /\ Link(g, p) = InQueue(p)
      BY <1>2, HeadsInUse DEF ProcQs
    <3> QED
      BY <1>1, <1>2, <3>1, <3>2, InList
  <2> QED
    BY <1>2, <2>1, <2>2, FreshHeads, HeadsInUse DEF ProcQs
<1>4. m = ListAddTail(l, Link(h, p), h)
  BY <1>1, <1>3 DEF InsertProcQ
<1>5. PICK P : /\ Holds(m, P, Nodes, Values) /\ Joins(P, Q, h, p)
               /\ Enters(Ranges(P), Ranges(Q), h, p)
  BY <1>2, <1>3, <1>4, AddPcb
<1>6. InTheirLists(Ranges(P), par, pid)
  BY <1>2, <1>5, InsertIn
<1>7. PICK s : s = Append(Pcbs(Q[h]), p) /\ Differs(P, Q, h, s)
  BY <1>5 DEF Joins, Differs
<1>8. /\ FreeOf(P) = FreeOf(Q) /\ ChildrenOf(P, pid) = ChildrenOf(Q, pid)
      /\ QueuesOf(P) = [QueuesOf(Q) EXCEPT ![h] = s]
  <2>1. Differs(P, Q, h, s)
    BY <1>7
  <2> QED
    BY ONLY h \in Queues, <1>2, <2>1, QueueDiffers
<1>9. /\ PInv' /\ Members(pcbFree_h)' = FreeOf(P)
      /\ [g \in Queues |-> Members(g)]' = QueuesOf(P)
      /\ ChildSeqs' = ChildrenOf(P, pid)
  BY <1>1, <1>2, <1>5, <1>6, Reached
<1>10. Abstract!InsertProcQ(QueuesOf(Q)[h], p) = s
  BY <1>7, SameNotions DEF QueuesOf
<1> QED
  BY <1>1, <1>8, <1>9, <1>10, SeqsOfLists
     DEF Abstract!Insert, Abstract!Called, Abstract!tree, InsertProcQ, Does

\* p leaves queue h, as removeProcQ and outProcQ have it.
LEMMA LeaveQueue ==
    ASSUME PInv, NEW h \in Queues, NEW p \in Procs, Link(h, p) \in Range(Held[h]),
           links' = ListDel(links, InQueue(p), NULL), UNCHANGED <<p_parent, p_pid>>
    PROVE  /\ PInv' /\ Members(pcbFree_h)' = Members(pcbFree_h) /\ ChildSeqs' = ChildSeqs
           /\ [g \in Queues |-> Members(g)]' =
                 [QueuesOf(Held) EXCEPT ![h] = Without(Pcbs(Held[h]), {p})]
<1>1. PICK l, m, Q, par, pid :
          l = links /\ m = links' /\ Q = Held /\ par = p_parent /\ pid = p_pid
  OBVIOUS
<1>2. /\ Holds(l, Q, Nodes, Values) /\ InTheirLists(Ranges(Q), par, pid)
      /\ DOMAIN Q = HeadsOf(pid) /\ h \in DOMAIN Q /\ Link(h, p) \in Range(Q[h])
      /\ p_pid' = pid /\ p_parent' = par
  BY <1>1, HeadsInUse DEF PInv, Held
<1>3. m = ListDel(l, Link(h, p), NULL)
  BY <1>1, HeadsInUse DEF ProcQs
<1>4. PICK P : /\ Holds(m, P, Nodes, Values) /\ Quits(P, Q, h, p)
               /\ Leaves(Ranges(P), Ranges(Q), h, p)
  BY <1>2, <1>3, DelPcb
<1>5. InTheirLists(Ranges(P), par, pid)
  BY <1>2, <1>4, RemoveIn
<1>6. Differs(P, Q, h, Without(Pcbs(Q[h]), {p}))
  BY <1>4 DEF Quits, Differs
<1>7. /\ FreeOf(P) = FreeOf(Q) /\ ChildrenOf(P, pid) = ChildrenOf(Q, pid)
      /\ QueuesOf(P) = [QueuesOf(Q) EXCEPT ![h] = Without(Pcbs(Q[h]), {p})]
  BY <1>2, <1>6, QueueDiffers
<1>8. /\ PInv' /\ Members(pcbFree_h)' = FreeOf(P)
      /\ [g \in Queues |-> Members(g)]' = QueuesOf(P)
      /\ ChildSeqs' = ChildrenOf(P, pid)
  BY <1>1, <1>2, <1>4, <1>5, Reached
<1> QED
  BY <1>1, <1>7, <1>8, SeqsOfLists

LEMMA RemoveSteps ==
    ASSUME PInv, NEW h \in Queues, RemoveProcQ(h)
    PROVE  PInv' /\ Abstract!Remove(h)
<1>1. PICK Q, s : Q = Held /\ s = Pcbs(Held[h])
  OBVIOUS
<1>2. h \in HeadsOf(p_pid) /\ \A p \in Procs : Link(h, p) = InQueue(p)
  BY HeadsInUse DEF ProcQs
<1>3. /\ HeadProcQ(h) = Abstract!HeadProcQ(s)
      /\ Q[h] = <<>> <=> HeadProcQ(h) = NULL
      /\ Q[h] = <<>> <=> s = <<>>
      /\ Q[h] # <<>> => /\ HeadProcQ(h) \in Procs /\ Link(h, HeadProcQ(h)) \in Range(Q[h])
                        /\ Without(s, {HeadProcQ(h)}) = Tail(s)
  BY <1>1, <1>2, InList
<1>4. ret' = HeadProcQ(h) /\ QueuesOf(Q)[h] = s /\ Abstract!Called("removeProcQ", <<h>>, Abstract!HeadProcQ(s))
  BY <1>1, <1>3 DEF RemoveProcQ, Does, QueuesOf, Abstract!Called
<1>5. CASE ret' = NULL
  <2>1. UNCHANGED <<links, p_parent, p_pid>>
    BY <1>5 DEF RemoveProcQ
  <2>2. /\ PInv' /\ Members(pcbFree_h)' = Members(pcbFree_h)
        /\ [g \in Queues |-> Members(g)]' = [g \in Queues |-> Members(g)]
        /\ ChildSeqs' = ChildSeqs
    BY <2>1, NoChange
  <2>3. QueuesOf(Q) = [QueuesOf(Q) EXCEPT ![h] = IF s = <<>> THEN s ELSE Tail(s)]
    BY <1>3, <1>4, <1>5 DEF QueuesOf
  <2> QED
    BY <1>1, <1>4, <2>1, <2>2, <2>3, SeqsOfLists DEF Abstract!Remove, Abstract!tree
<1>6. CASE ret' # NULL
  <2>1. PICK p : p = ret'
    OBVIOUS
  <2>2. p \in Procs /\ Link(h, p) \in Range(Q[h]) /\ Without(s, {p}) = Tail(s) /\ s # <<>>
    BY <1>3, <1>4, <1>6, <2>1
  <2>3. links' = ListDel(links, InQueue(p), NULL) /\ UNCHANGED <<p_parent, p_pid>>
    BY <1>6, <2>1 DEF RemoveProcQ
  <2>4. /\ PInv' /\ Members(pcbFree_h)' = Members(pcbFree_h) /\ ChildSeqs' = ChildSeqs
        /\ [g \in Queues |-> Members(g)]' = [QueuesOf(Q) EXCEPT ![h] = Without(s, {p})]
    BY <1>1, <2>2, <2>3, LeaveQueue
  <2> QED
    BY <1>1, <1>4, <2>2, <2>3, <2>4, SeqsOfLists DEF Abstract!Remove, Abstract!tree
<1> QED
  BY <1>5, <1>6

LEMMA OutSteps ==
    ASSUME PInv, NEW h \in Queues, NEW p \in Procs, OutProcQ(h, p)
    PROVE  PInv' /\ Abstract!Out(h, p)
<1>1. PICK Q, s : Q = Held /\ s = Pcbs(Held[h])
  OBVIOUS
<1>2. h \in HeadsOf(p_pid) /\ Link(h, p) = InQueue(p)
  BY HeadsInUse DEF ProcQs
<1>3. (p \in In(h) <=> Link(h, p) \in Range(Q[h])) /\ In(h) = Range(s)
  BY <1>1, <1>2, InList
<1>4. QueuesOf(Q)[h] = s /\ Abstract!OutProcQ(s, p) = Without(s, {p}) /\ Abstract!Range(s) = Range(s)
  BY <1>1, SameNotions DEF QueuesOf
<1>5. Abstract!Called("outProcQ", <<h, p>>, IF p \in Range(s) THEN p ELSE NULL)
  BY <1>3 DEF OutProcQ, Does, Abstract!Called
<1>6. UNCHANGED <<p_parent, p_pid>> /\ NULL \notin Procs
  BY HeadsApart DEF OutProcQ
<1>7. CASE p \in In(h)
  <2>1. links' = ListDel(links, InQueue(p), NULL)
    BY <1>6, <1>7 DEF OutProcQ, Does
  <2>2. /\ PInv' /\ Members(pcbFree_h)' = Members(pcbFree_h) /\ ChildSeqs' = ChildSeqs
        /\ [g \in Queues |-> Members(g)]' = [QueuesOf(Q) EXCEPT ![h] = Without(s, {p})]
    BY <1>1, <1>3, <1>6, <1>7, <2>1, LeaveQueue
  <2> QED
    BY <1>1, <1>4, <1>5, <1>6, <2>2, SeqsOfLists DEF Abstract!Out, Abstract!tree
<1>8. CASE p \notin In(h)
  <2>1. UNCHANGED <<links, p_parent, p_pid>>
    BY <1>6, <1>8 DEF OutProcQ, Does
  <2>2. /\ PInv' /\ Members(pcbFree_h)' = Members(pcbFree_h)
        /\ [g \in Queues |-> Members(g)]' = [g \in Queues |-> Members(g)]
        /\ ChildSeqs' = ChildSeqs
    BY <2>1, NoChange
  <2>3. Without(s, {p}) = s
    <3>1. PICK E : E = Nodes \ DOMAIN Q
      OBVIOUS
    <3>2. Q[h] \in Seq(E)
      BY <1>1, <1>2, <3>1 DEF PInv, Holds, Held
    <3>3. s \in Seq({e[2] : e \in E})
      BY <1>1, <3>2, PcbsOf
    <3>4. Range(s) \cap {p} = {}
      BY <1>3, <1>8
    <3> QED
      BY ONLY <3>3, <3>4, WithoutNobody
  <2>4. QueuesOf(Q) = [QueuesOf(Q) EXCEPT ![h] = Without(s, {p})]
    BY <1>4, <2>3 DEF QueuesOf
  <2> QED
    BY <1>1, <1>4, <1>5, <2>1, <2>2, <2>4, SeqsOfLists DEF Abstract!Out, Abstract!tree
<1> QED
  BY <1>7, <1>8

LEMMA InsertChildSteps ==
    ASSUME PInv, NEW p \in Active, p_parent[p] = NULL, NEW prnt \in Active, InsertChild(prnt, p)
    PROVE  PInv' /\ Abstract!InsertChild(prnt, p)
<1>1. PICK l, m, Q, par, pid, h :
          /\ l = links /\ m = links' /\ Q = Held /\ par = p_parent /\ pid = p_pid
          /\ h = Children(prnt)
  OBVIOUS
<1>2. PICK par2 : par2 = [par EXCEPT ![p] = prnt]
  OBVIOUS
<1>3. /\ Holds(l, Q, Nodes, Values) /\ InTheirLists(Ranges(Q), par, pid)
      /\ DOMAIN Q = HeadsOf(pid) /\ p \in Procs /\ pid[p] # 0 /\ par[p] = NULL
      /\ prnt \in Procs /\ pid[prnt] # 0
      /\ p_pid' = pid /\ p_parent' = par2
  BY <1>1, <1>2 DEF PInv, Held, Active, InsertChild
<1>4. h \in DOMAIN Q /\ Link(h, p) = Sibling(p) /\ Sibling(p) \in Fresh(Q, Nodes)
  BY <1>1, <1>3, HeadsInUse, FreshHeads
<1>5. m = ListAddTail(l, Link(h, p), h)
  BY <1>1, <1>4 DEF InsertChild
<1>6. PICK P : /\ Holds(m, P, Nodes, Values) /\ Joins(P, Q, h, p)
               /\ Enters(Ranges(P), Ranges(Q), h, p)
  BY <1>3, <1>4, <1>5, AddPcb
<1>7. InTheirLists(Ranges(P), par2, pid)
  BY <1>1, <1>2, <1>3, <1>6, ChildIn
<1>8. PICK s : s = Append(Pcbs(Q[h]), p) /\ Differs(P, Q, Children(prnt), s)
  BY <1>1, <1>6 DEF Joins, Differs
<1>9. /\ FreeOf(P) = FreeOf(Q) /\ QueuesOf(P) = QueuesOf(Q)
      /\ ChildrenOf(P, pid) = [ChildrenOf(Q, pid) EXCEPT ![prnt] = s]
  <2>1. Differs(P, Q, Children(prnt), s)
    BY <1>8
  <2> QED
    BY ONLY <1>3, <2>1, ChildrenDiffer
<1>10. /\ PInv' /\ Members(pcbFree_h)' = FreeOf(P)
       /\ [g \in Queues |-> Members(g)]' = QueuesOf(P)
       /\ ChildSeqs' = ChildrenOf(P, pid)
  BY <1>1, <1>3, <1>6, <1>7, Reached
<1>11. Abstract!InsertProcQ(ChildrenOf(Q, pid)[prnt], p) = s
  BY <1>1, <1>3, <1>8, SameNotions DEF ChildrenOf
<1>12. Abstract!Called("insertChild", <<prnt, p>>, NULL) /\ UNCHANGED p_pid
  BY DEF InsertChild, Does, Abstract!Called
<1> QED
  BY <1>1, <1>2, <1>3, <1>9, <1>10, <1>11, <1>12, SeqsOfLists DEF Abstract!InsertChild

\* c leaves its parent p, as removeChild and outChild have it.
LEMMA LeaveParent ==
    ASSUME PInv, NEW p \in Procs, NEW c \in Procs, p_pid[p] # 0,
           Link(Children(p), c) \in Range(Held[Children(p)]), Orphan(c), UNCHANGED p_pid
    PROVE  PInv' /\ Abstract!Orphan(p, c)
<1>1. PICK l, m, Q, par, pid, h :
          /\ l = links /\ m = links' /\ Q = Held /\ par = p_parent /\ pid = p_pid
          /\ h = Children(p)
  OBVIOUS
<1>2. PICK par2 : par2 = [par EXCEPT ![c] = NULL]
  OBVIOUS
<1>3. /\ Holds(l, Q, Nodes, Values) /\ InTheirLists(Ranges(Q), par, pid)
      /\ DOMAIN Q = HeadsOf(pid) /\ pid[p] # 0
      /\ p_pid' = pid /\ p_parent' = par2
  BY <1>1, <1>2 DEF PInv, Held, Orphan
<1>4. h \in DOMAIN Q /\ Link(h, c) = Sibling(c) /\ Sibling(c) \in Range(Q[h])
  BY <1>1, <1>3, HeadsInUse
<1>5. par[c] = p
  <2>1. Range(Q[h]) = {Sibling(x) : x \in {d \in Procs : par[d] = p}}
    <3>1. Ranges(Q)[h] = Range(Q[h])
      BY <1>4 DEF Ranges
    <3> QED
      BY <1>1, <1>3, <3>1 DEF InTheirLists
  <2> QED
    BY <1>4, <2>1, HeadsApart
<1>6. m = ListDel(l, Link(h, c), NULL)
  BY <1>1, <1>4 DEF Orphan
<1>7. PICK P : /\ Holds(m, P, Nodes, Values) /\ Quits(P, Q, h, c)
               /\ Leaves(Ranges(P), Ranges(Q), h, c)
  BY <1>3, <1>4, <1>6, DelPcb
<1>8. InTheirLists(Ranges(P), par2, pid)
  BY <1>1, <1>2, <1>3, <1>5, <1>7, OrphanIn
<1>9. Differs(P, Q, Children(p), Without(Pcbs(Q[h]), {c}))
  BY <1>1, <1>7 DEF Quits, Differs
<1>10. /\ FreeOf(P) = FreeOf(Q) /\ QueuesOf(P) = QueuesOf(Q)
       /\ ChildrenOf(P, pid) = [ChildrenOf(Q, pid) EXCEPT ![p] = Without(Pcbs(Q[h]), {c})]
  BY <1>3, <1>9, ChildrenDiffer
<1>11. /\ PInv' /\ Members(pcbFree_h)' = FreeOf(P)
       /\ [g \in Queues |-> Members(g)]' = QueuesOf(P)
       /\ ChildSeqs' = ChildrenOf(P, pid)
  BY <1>1, <1>3, <1>7, <1>8, Reached
<1>12. Abstract!OutProcQ(ChildrenOf(Q, pid)[p], c) = Without(Pcbs(Q[h]), {c})
  BY <1>1, <1>3, SameNotions DEF ChildrenOf
<1> QED
  BY <1>1, <1>2, <1>3, <1>10, <1>11, <1>12, SeqsOfLists DEF Abstract!Orphan

LEMMA RemoveChildSteps ==
    ASSUME PInv, NEW p \in Active, RemoveChild(p)
    PROVE  PInv' /\ Abstract!RemoveChild(p)
<1>1. PICK Q, h, s : Q = Held /\ h = Children(p) /\ s = Pcbs(Held[Children(p)])
  OBVIOUS
<1>2. p \in Procs /\ p_pid[p] # 0 /\ h \in HeadsOf(p_pid)
  BY <1>1, HeadsInUse DEF Active
<1>3. /\ HeadProcQ(h) = Abstract!HeadProcQ(s)
      /\ Q[h] = <<>> <=> HeadProcQ(h) = NULL
      /\ Q[h] = <<>> <=> s = <<>>
      /\ Q[h] # <<>> => HeadProcQ(h) \in Procs /\ Link(h, HeadProcQ(h)) \in Range(Q[h])
  BY <1>1, <1>2, InList
<1>4. ret' = HeadProcQ(h) /\ UNCHANGED p_pid /\ ChildSeqs[p] = s
  BY <1>1, <1>2, SeqsOfLists DEF RemoveChild, Does, ChildrenOf
<1>5. Abstract!Called("removeChild", <<p>>, Abstract!HeadProcQ(ChildSeqs[p]))
  BY <1>1, <1>3, <1>4 DEF RemoveChild, Does, Abstract!Called
<1>6. CASE ret' = NULL
  <2>1. UNCHANGED <<links, p_parent, p_pid>>
    BY <1>4, <1>6 DEF RemoveChild
  <2>2. /\ PInv' /\ Members(pcbFree_h)' = Members(pcbFree_h)
        /\ [g \in Queues |-> Members(g)]' = [g \in Queues |-> Members(g)]
        /\ ChildSeqs' = ChildSeqs
    BY <2>1, NoChange
  <2> QED
    BY <1>3, <1>4, <1>5, <1>6, <2>1, <2>2 DEF Abstract!RemoveChild, Abstract!tree
<1>7. CASE ret' # NULL
  <2>1. PICK c : c = ret'
    OBVIOUS
  <2>2. c \in Procs /\ Link(h, c) \in Range(Q[h]) /\ s # <<>> /\ c = Head(s)
    BY <1>3, <1>4, <1>7, <2>1, SameNotions
  <2>3. Orphan(c)
    BY <1>7, <2>1 DEF RemoveChild
  <2>4. PInv' /\ Abstract!Orphan(p, c)
    BY <1>1, <1>2, <1>4, <2>2, <2>3, LeaveParent
  <2> QED
    BY <1>4, <1>5, <2>2, <2>4 DEF Abstract!RemoveChild
<1> QED
  BY <1>6, <1>7

LEMMA OutChildSteps ==
    ASSUME PInv, NEW p \in Active, OutChild(p)
    PROVE  PInv' /\ Abstract!OutChild(p)
<1>1. PICK Q, par, q : Q = Held /\ par = p_parent /\ q = p_parent[p]
  OBVIOUS
<1>2. p \in Procs /\ UNCHANGED p_pid
  BY DEF Active, OutChild
<1>3. CASE q = NULL
  <2>1. Does("outChild", <<p>>, NULL) /\ UNCHANGED <<links, p_parent, p_pid>>
    BY <1>1, <1>2, <1>3 DEF OutChild
  <2>2. /\ PInv' /\ Members(pcbFree_h)' = Members(pcbFree_h)
        /\ [g \in Queues |-> Members(g)]' = [g \in Queues |-> Members(g)]
        /\ ChildSeqs' = ChildSeqs
    BY <2>1, NoChange
  <2> QED
    BY <1>1, <1>3, <2>1, <2>2 DEF Abstract!OutChild, Abstract!Called, Abstract!tree, Does
<1>4. CASE q # NULL
  <2>1. q \in Procs /\ p_pid[q] # 0
    BY <1>1, <1>2, <1>4 DEF PInv, InTheirLists
  <2>2. Children(q) \in HeadsOf(p_pid) /\ Link(Children(q), p) = Sibling(p)
    BY <1>2, <2>1, HeadsInUse
  <2>3. Sibling(p) \in Range(Q[Children(q)])
    <3>1. Ranges(Q)[Children(q)] = Range(Q[Children(q)])
      BY <1>1, <2>2 DEF Ranges, Held
    <3>2. Ranges(Q)[Children(q)] = {Sibling(c) : c \in {d \in Procs : par[d] = q}}
      BY <1>1, <2>1 DEF PInv, InTheirLists
    <3> QED
      BY <1>1, <1>2, <3>1, <3>2
  <2>4. p \in In(Children(q))
    BY <1>1, <1>2, <2>2, <2>3, InList
  <2>5. Does("outChild", <<p>>, p) /\ Orphan(p)
    BY <1>1, <1>4, <2>4 DEF OutChild
  <2>6. PInv' /\ Abstract!Orphan(q, p)
    BY <1>1, <1>2, <2>1, <2>2, <2>3, <2>5, LeaveParent
  <2> QED
    BY <1>1, <1>4, <2>5, <2>6 DEF Abstract!OutChild, Abstract!Called, Does
<1> QED
  BY <1>3, <1>4


LEMMA AllocSteps ==
    ASSUME PInv, AllocPcb
    PROVE  PInv' /\ Abstract!Alloc
<1>1. PICK l, m, Q, par, pid, s :
          /\ l = links /\ m = links' /\ Q = Held /\ par = p_parent /\ pid = p_pid
          /\ s = Pcbs(Held[pcbFree_h])
  OBVIOUS
<1>2. /\ Holds(l, Q, Nodes, Values) /\ InTheirLists(Ranges(Q), par, pid)
      /\ DOMAIN Q = HeadsOf(pid) /\ pcbFree_h \in DOMAIN Q
  BY <1>1, HeadsInUse DEF PInv, Held
<1>3. /\ HeadProcQ(pcbFree_h) = Abstract!HeadProcQ(s)
      /\ Q[pcbFree_h] = <<>> <=> HeadProcQ(pcbFree_h) = NULL
      /\ Q[pcbFree_h] = <<>> <=> s = <<>>
      /\ Q[pcbFree_h] # <<>> =>
            /\ HeadProcQ(pcbFree_h) \in Procs
            /\ Link(pcbFree_h, HeadProcQ(pcbFree_h)) \in Range(Q[pcbFree_h])
            /\ Without(s, {HeadProcQ(pcbFree_h)}) = Tail(s)
  BY <1>1, <1>2, InList
<1>4. /\ ret' = HeadProcQ(pcbFree_h) /\ Members(pcbFree_h) = s
      /\ Abstract!Called("allocPcb", <<>>, Abstract!HeadProcQ(s))
  BY <1>1, <1>3, SeqsOfLists DEF AllocPcb, Does, Abstract!Called, FreeOf
<1>5. CASE ret' = NULL
  <2>1. UNCHANGED <<links, p_parent, p_pid>>
    BY <1>5 DEF AllocPcb
  <2>2. /\ PInv' /\ Members(pcbFree_h)' = Members(pcbFree_h)
        /\ [g \in Queues |-> Members(g)]' = [g \in Queues |-> Members(g)]
        /\ ChildSeqs' = ChildSeqs
    BY <2>1, NoChange
  <2> QED
    BY <1>3, <1>4, <1>5, <2>1, <2>2 DEF Abstract!Alloc, Abstract!tree
<1>6. CASE ret' # NULL
  <2>1. PICK p, c, b : p = ret' /\ c = Children(p) /\ b = Sibling(p)
    OBVIOUS
  <2>2. PICK pid2, m1, m2 : /\ pid2 = [pid EXCEPT ![p] = p]
                            /\ m1 = ListDel(l, InQueue(p), NULL) /\ m2 = InitListHead(m1, c)
    OBVIOUS
  <2>3. /\ p \in Procs /\ Link(pcbFree_h, p) = InQueue(p) /\ InQueue(p) \in Range(Q[pcbFree_h])
        /\ Without(s, {p}) = Tail(s) /\ s # <<>>
    BY <1>3, <1>4, <1>6, <2>1, HeadsInUse DEF ProcQs
  <2>4. /\ m = InitListHead(m2, b)
        /\ p_parent' = [par EXCEPT ![p] = NULL] /\ p_pid' = pid2
    BY <1>1, <1>6, <2>1, <2>2 DEF AllocPcb, ResetLinks
  <2>5. pid[p] = 0 /\ par[p] = NULL /\ p_parent' = par
    <3>1. Ranges(Q)[pcbFree_h] = Range(Q[pcbFree_h])
      BY <1>2 DEF Ranges
    <3>2. pid[p] = 0 /\ par[p] = NULL /\ par \in [Procs -> Procs \cup {NULL}]
      BY <1>2, <2>3, <3>1 DEF InTheirLists
    <3> QED
      BY <2>3, <2>4, <3>2
  <2>6. c \in Fresh(Q, Nodes)
    BY <1>2, <2>1, <2>3, <2>5, FreshHeads
  <2>7. PICK P1 : /\ Holds(m1, P1, Nodes, Values) /\ Quits(P1, Q, pcbFree_h, p)
                  /\ Leaves(Ranges(P1), Ranges(Q), pcbFree_h, p)
    BY <1>2, <2>2, <2>3, DelPcb
  <2>8. PICK P : Opens(P, P1, c)
    BY DEF Opens
  <2>9. Holds(m2, P, Nodes, Values)
    <3>1. c \in Fresh(P1, Nodes)
      BY <1>2, <2>6, <2>7, StillFresh
    <3> QED
      BY <2>2, <2>7, <2>8, <3>1, OpenHolds
  <2>10. /\ DOMAIN P = DOMAIN P1 \cup {c} /\ P[c] = <<>>
         /\ \A h \in DOMAIN P \ {c} : P[h] = P1[h]
    BY <2>8 DEF Opens
  <2>11. InTheirLists(Ranges(P), par, pid2)
    <3>1. Range(<<>>) = {}
      BY DEF Range
    <3>2. Ranges(P) = [h \in DOMAIN Ranges(P1) \cup {c} |-> IF h = c THEN {} ELSE Ranges(P1)[h]]
      BY <2>10, <3>1 DEF Ranges
    <3>3. PICK R, R1, R2 : R = Ranges(Q) /\ R1 = Ranges(P1) /\ R2 = Ranges(P)
      OBVIOUS
    <3>4. R2 = [h \in DOMAIN R1 \cup {Children(p)} |-> IF h = Children(p) THEN {} ELSE R1[h]]
      BY <2>1, <3>2, <3>3
    <3>5. InTheirLists(R, par, pid) /\ Leaves(R1, R, pcbFree_h, p)
      BY <1>2, <2>7, <3>3
    <3>6. InTheirLists(R2, par, [pid EXCEPT ![p] = p])
      BY ONLY <2>3, <2>5, <3>4, <3>5, AllocIn
    <3> QED
      BY <2>2, <3>3, <3>6
  <2>12. Holds(m, P, Nodes, Values)
    <3>1. b \in Fresh(P, Nodes)
      BY <2>1, <2>3, <2>5, <2>11, FreshHeads
    <3> QED
      BY <2>4, <2>9, <3>1, FreshInit
  <2>13. FreeOf(P) = Tail(s) /\ QueuesOf(P) = QueuesOf(Q) /\ ChildrenOf(P, pid2) = ChildrenOf(Q, pid)
    <3>1. PICK t : t = Tail(s)
      OBVIOUS
    <3>2. Differs(P1, Q, pcbFree_h, t)
      BY <1>1, <2>3, <2>7, <3>1 DEF Quits, Differs
    <3>3. \A q \in Procs \ {p} : pid2[q] = pid[q]
      BY <1>2, <2>2 DEF InTheirLists
    <3>4. DOMAIN P = HeadsOf(pid2)
      BY <2>11 DEF InTheirLists, Ranges
    <3>5. FreeOf(P) = t /\ QueuesOf(P) = QueuesOf(Q) /\ ChildrenOf(P, pid2) = ChildrenOf(Q, pid)
      BY <1>2, <2>1, <2>3, <2>5, <2>10, <3>2, <3>3, <3>4, FreeDiffers
    <3> QED
      BY <3>1, <3>5
  <2>14. /\ PInv' /\ Members(pcbFree_h)' = FreeOf(P)
         /\ [g \in Queues |-> Members(g)]' = QueuesOf(P)
         /\ ChildSeqs' = ChildrenOf(P, pid2)
    BY <1>1, <2>4, <2>5, <2>11, <2>12, Reached
  <2> QED
    BY <1>1, <1>4, <2>1, <2>2, <2>3, <2>4, <2>5, <2>13, <2>14, SeqsOfLists
       DEF Abstract!Alloc, Abstract!tree
<1> QED
  BY <1>5, <1>6

LEMMA FreeSteps ==
    ASSUME PInv, NEW p \in Active, p_parent[p] = NULL, Childless(p), ~Queued(p), FreePcb(p)
    PROVE  PInv' /\ Abstract!Free(p)
<1>1. PICK l, m, Q, par, pid, c :
          /\ l = links /\ m = links' /\ Q = Held /\ par = p_parent /\ pid = p_pid
          /\ c = Children(p)
  OBVIOUS
<1>2. PICK pid2 : pid2 = [pid EXCEPT ![p] = 0]
  OBVIOUS
<1>3. /\ Holds(l, Q, Nodes, Values) /\ InTheirLists(Ranges(Q), par, pid)
      /\ DOMAIN Q = HeadsOf(pid) /\ pcbFree_h \in DOMAIN Q /\ p \in Procs /\ pid[p] # 0
      /\ par[p] = NULL /\ p_pid' = pid2 /\ p_parent' = par
  BY <1>1, <1>2, HeadsInUse DEF PInv, Held, Active, FreePcb
<1>4. Link(pcbFree_h, p) = InQueue(p) /\ InQueue(p) \in Fresh(Q, Nodes)
  <2>1. InQueue(p) \notin Range(Q[pcbFree_h])
    <3>1. Ranges(Q)[pcbFree_h] = Range(Q[pcbFree_h])
      BY <1>3 DEF Ranges
    <3> QED
      BY <1>3, <3>1 DEF InTheirLists
  <2>2. ASSUME NEW g \in Queues PROVE InQueue(p) \notin Range(Q[g])
    <3>1. p \notin In(g)
      BY DEF Queued
    <3>2. g \in HeadsOf(p_pid) /\ Link(g, p) = InQueue(p)
      BY <1>3, HeadsInUse DEF ProcQs
    <3> QED
      BY <1>1, <1>3, <3>1, <3>2, InList
  <2> QED
    BY <1>3, <2>1, <2>2, FreshHeads, HeadsInUse DEF ProcQs
<1>5. c \in DOMAIN Q /\ Q[c] = <<>>
  <2>1. c \in DOMAIN Q /\ ListEmpty(l, c)
    BY <1>1, <1>3, HeadsInUse DEF Childless
  <2> QED
    BY <1>3, <2>1, EmptyAsSaid
<1>6. m = ListAddTail(l, Link(pcbFree_h, p), pcbFree_h)
  BY <1>1, <1>4 DEF FreePcb
<1>7. PICK P1 : /\ Holds(m, P1, Nodes, Values) /\ Joins(P1, Q, pcbFree_h, p)
                /\ Enters(Ranges(P1), Ranges(Q), pcbFree_h, p)
  BY <1>3, <1>4, <1>6, AddPcb
<1>8. DOMAIN P1 = DOMAIN Q /\ P1[c] = <<>>
  <2>1. c # pcbFree_h
    BY <1>1, <1>3, HeadsInUse DEF ProcQs
  <2> QED
    BY <1>5, <1>7, <2>1 DEF Joins
<1>9. PICK P : P = [h \in DOMAIN P1 \ {c} |-> P1[h]]
  OBVIOUS
<1>10. Holds(m, P, Nodes, Values)
  <2>1. Closes(P, P1, c)
    BY <1>8, <1>9 DEF Closes
  <2> QED
    BY <1>5, <1>7, <1>8, <2>1, CloseHolds
<1>11. InTheirLists(Ranges(P), par, pid2)
  <2>1. Ranges(Q)[c] = {}
    BY <1>5 DEF Ranges, Range
  <2>2. Ranges(P) = [h \in DOMAIN Ranges(P1) \ {c} |-> Ranges(P1)[h]]
    BY <1>9 DEF Ranges
  <2> QED
    BY <1>1, <1>2, <1>3, <1>7, <2>1, <2>2, FreeIn
<1>12. PICK s : s = Append(Pcbs(Q[pcbFree_h]), p) /\ Differs(P1, Q, pcbFree_h, s)
  BY <1>7 DEF Joins, Differs
<1>13. FreeOf(P) = s /\ QueuesOf(P) = QueuesOf(Q) /\ ChildrenOf(P, pid2) = ChildrenOf(Q, pid)
  <2>1. Differs(P1, Q, pcbFree_h, s)
    BY <1>12
  <2>2. pid2[p] = 0 /\ \A q \in Procs \ {p} : pid2[q] = pid[q]
    BY <1>2, <1>3 DEF InTheirLists
  <2>3. DOMAIN P = HeadsOf(pid2) /\ \A h \in DOMAIN P \ {c} : P[h] = P1[h]
    BY <1>9, <1>11 DEF InTheirLists, Ranges
  <2> QED
    BY ONLY <1>1, <1>3, <1>5, <2>1, <2>2, <2>3, FreeDiffers
<1>14. /\ PInv' /\ Members(pcbFree_h)' = FreeOf(P)
       /\ [g \in Queues |-> Members(g)]' = QueuesOf(P)
       /\ ChildSeqs' = ChildrenOf(P, pid2)
  BY <1>1, <1>3, <1>10, <1>11, Reached
<1>15. Abstract!InsertProcQ(FreeOf(Q), p) = s /\ Abstract!Called("freePcb", <<p>>, NULL)
  BY <1>12, SameNotions DEF FreeOf, FreePcb, Does, Abstract!Called
<1> QED
  BY <1>1, <1>2, <1>3, <1>13, <1>14, <1>15, SeqsOfLists DEF Abstract!Free, Abstract!tree

LEMMA PInvNext ==
    ASSUME PInv, [Next]_vars
    PROVE  PInv' /\ [Abstract!Next]_Abstract!vars
<1>1. \A p \in Active : p \in Procs /\ p \in Abstract!Procs
  BY SameNotions DEF Active
<1>2. CASE AllocPcb
  BY <1>2, AllocSteps DEF Abstract!Next
<1>3. ASSUME NEW h \in Queues, RemoveProcQ(h) PROVE PInv' /\ Abstract!Next
  BY <1>3, RemoveSteps DEF Abstract!Next
<1>4. ASSUME NEW h \in Queues, NEW p \in Active, OutProcQ(h, p) PROVE PInv' /\ Abstract!Next
  BY <1>1, <1>4, OutSteps DEF Abstract!Next
<1>5. ASSUME NEW h \in Queues, NEW p \in Active, ~Queued(p), InsertProcQ(h, p)
      PROVE  PInv' /\ Abstract!Next
  BY <1>1, <1>5, InsertSteps DEF Abstract!Next
<1>6. ASSUME NEW p \in Active, RemoveChild(p) PROVE PInv' /\ Abstract!Next
  BY <1>1, <1>6, RemoveChildSteps DEF Abstract!Next
<1>7. ASSUME NEW p \in Active, OutChild(p) PROVE PInv' /\ Abstract!Next
  BY <1>1, <1>7, OutChildSteps DEF Abstract!Next
<1>8. ASSUME NEW p \in Active, p_parent[p] = NULL, Childless(p), ~Queued(p), FreePcb(p)
      PROVE  PInv' /\ Abstract!Next
  BY <1>1, <1>8, FreeSteps DEF Abstract!Next
<1>9. ASSUME NEW p \in Active, p_parent[p] = NULL, NEW prnt \in Active, InsertChild(prnt, p)
      PROVE  PInv' /\ Abstract!Next
  BY <1>1, <1>9, InsertChildSteps DEF Abstract!Next
<1>10. CASE UNCHANGED vars
  <2>1. UNCHANGED <<links, p_parent, p_pid>> /\ call' = call /\ ret' = ret
    BY <1>10 DEF vars
  <2> QED
    BY <2>1, NoChange DEF Abstract!vars
<1> QED
  BY <1>2, <1>3, <1>4, <1>5, <1>6, <1>7, <1>8, <1>9, <1>10 DEF Next


----------------------------------------------------------------------------
(* initPcbs, and mkEmptyProcQ of each queue.                               *)

\* One round of the loop of initPcbs.
Round(l, i) == ListAddTail(l, InQueue(i), pcbFree_h)

LEMMA LoopExists ==
    ASSUME NEW l, NEW n \in Nat
    PROVE  \E f : f = [i \in 0..n |-> IF i = 0 THEN l ELSE Round(f[i - 1], i)]
<1> DEFINE IsLoop(f, k) == f = [i \in 0..k |-> IF i = 0 THEN l ELSE Round(f[i - 1], i)]
           S == {k \in Nat : \E f : IsLoop(f, k)}
<1>1. 0 \in S
  <2> DEFINE f == [i \in 0..0 |-> l]
  <2>1. f = [i \in 0..0 |-> IF i = 0 THEN l ELSE Round(f[i - 1], i)]
    OBVIOUS
  <2> QED
    BY <2>1
<1>2. ASSUME NEW k \in Nat, k \in S PROVE k + 1 \in S
  <2>1. PICK f : IsLoop(f, k)
    BY <1>2
  <2> DEFINE g == [i \in 0..k + 1 |-> IF i = k + 1 THEN Round(f[k], k + 1) ELSE f[i]]
  <2>2. \A i \in 0..k + 1 : g[i] = IF i = 0 THEN l ELSE Round(g[i - 1], i)
    <3> SUFFICES ASSUME NEW i \in 0..k + 1
                 PROVE  g[i] = IF i = 0 THEN l ELSE Round(g[i - 1], i)
      OBVIOUS
    <3>1. CASE i = 0
      BY <2>1, <3>1
    <3>2. CASE i \in 1..k
      <4>1. i - 1 \in 0..k + 1 /\ i - 1 # k + 1 /\ i # k + 1 /\ i # 0 /\ i \in 0..k
        BY <3>2
      <4>2. g[i] = f[i] /\ g[i - 1] = f[i - 1]
        BY <4>1
      <4> HIDE DEF g
      <4>3. f[i] = Round(f[i - 1], i)
        BY <2>1, <4>1
      <4> QED
        BY <4>1, <4>2, <4>3
    <3>3. CASE i = k + 1
      <4>1. i - 1 = k /\ k \in 0..k + 1 /\ k # k + 1 /\ i # 0
        BY <3>3
      <4> QED
        BY <3>3, <4>1
    <3> QED
      BY <3>1, <3>2, <3>3
  <2>3. g = [i \in 0..k + 1 |-> g[i]]
    OBVIOUS
  <2> HIDE DEF g
  <2>4. IsLoop(g, k + 1)
    BY <2>2, <2>3
  <2> QED
    BY <2>4
<1> HIDE DEF S
<1>3. Nat \subseteq S
  BY <1>1, <1>2, NatSetInduction
<1> QED
  BY <1>3 DEF S

\* The memory before anything is linked, and the lists after k rounds.
Zeros == [next |-> [x \in Nodes |-> NULL], prev |-> [x \in Nodes |-> NULL]]
FirstPcbs(k) == [i \in 1..k |-> InQueue(i)]
FreeUpTo(k) == [h \in {pcbFree_h} |-> FirstPcbs(k)]

LEMMA LoopProperty ==
    ASSUME NEW n \in Nat
    PROVE  \E f : /\ f[0] = InitListHead(Zeros, pcbFree_h)
                  /\ \A i \in 1..n : f[i] = Round(f[i - 1], i)
                  /\ LinkAll(n) = f[n]
<1>1. PICK l : l = InitListHead(Zeros, pcbFree_h)
  OBVIOUS
<1>2. PICK f : f = CHOOSE g : g = [i \in 0..n |-> IF i = 0 THEN l ELSE Round(g[i - 1], i)]
  OBVIOUS
<1>3. LinkAll(n) = f[n]
  BY <1>1, <1>2 DEF LinkAll, Round, Zeros
<1>4. f = [i \in 0..n |-> IF i = 0 THEN l ELSE Round(f[i - 1], i)]
  BY <1>2, LoopExists
<1>5. f[0] = l /\ \A i \in 1..n : f[i] = Round(f[i - 1], i)
  BY <1>4
<1> QED
  BY <1>1, <1>3, <1>5

LEMMA FirstPcbsSeq ==
    ASSUME NEW k \in Nat, NEW S, \A i \in 1..k : InQueue(i) \in S
    PROVE  /\ FirstPcbs(k) \in Seq(S) /\ Len(FirstPcbs(k)) = k
           /\ Range(FirstPcbs(k)) = {InQueue(i) : i \in 1..k}
<1>1. PICK q : q = FirstPcbs(k)
  OBVIOUS
<1>2. q \in [1..k -> S]
  BY <1>1 DEF FirstPcbs
<1>3. Range(q) = {InQueue(i) : i \in 1..k}
  BY <1>1 DEF FirstPcbs, Range
<1> QED
  BY <1>1, <1>2, <1>3

\* initPcbs links all PCBs into pcbFree_h.
LEMMA AllFree == Holds(LinkAll(MAXPROC), FreeUpTo(MAXPROC), Nodes, Values)
<1>0. MAXPROC \in Nat /\ Procs = 1..MAXPROC
  BY PcbListsAssumption DEF Procs
<1>1. PICK f : /\ f[0] = InitListHead(Zeros, pcbFree_h)
               /\ \A i \in 1..MAXPROC : f[i] = Round(f[i - 1], i)
               /\ LinkAll(MAXPROC) = f[MAXPROC]
  BY <1>0, LoopProperty
<1> DEFINE S == {k \in Nat : k <= MAXPROC => Holds(f[k], FreeUpTo(k), Nodes, Values)}
<1>2. 0 \in S
  <2>1. PICK Q : Q = [h \in {} |-> <<>>]
    OBVIOUS
  <2>2. Holds(Zeros, Q, Nodes, Values)
    <3>1. Zeros \in Memories(Nodes, Values) /\ Nodes \subseteq Values
      BY DEF Zeros, Memories, Values
    <3>2. DOMAIN Q = {} /\ Q \in [DOMAIN Q -> Seq(Nodes \ DOMAIN Q)]
      BY <2>1
    <3> QED
      BY <3>1, <3>2 DEF Holds, Apart
  <2>3. pcbFree_h \in Fresh(Q, Nodes)
    BY <2>1, HeadsApart DEF Fresh, Listed
  <2>4. Opens(FreeUpTo(0), Q, pcbFree_h)
    <3>1. FirstPcbs(0) = <<>>
      BY DEF FirstPcbs
    <3> QED
      BY <2>1, <3>1 DEF Opens, FreeUpTo
  <2>5. Holds(f[0], FreeUpTo(0), Nodes, Values)
    BY <1>1, <2>2, <2>3, <2>4, OpenHolds
  <2> QED
    BY <2>5
<1>3. ASSUME NEW k \in Nat, k \in S PROVE k + 1 \in S
  <2> SUFFICES ASSUME k + 1 <= MAXPROC
               PROVE  Holds(f[k + 1], FreeUpTo(k + 1), Nodes, Values)
    OBVIOUS
  <2>1. k <= MAXPROC /\ k + 1 \in 1..MAXPROC /\ k + 1 \in Procs /\ 1..k \subseteq Procs
    BY <1>0
  <2>2. PICK Q, l, e : Q = FreeUpTo(k) /\ l = f[k] /\ e = InQueue(k + 1)
    OBVIOUS
  <2>3. Holds(l, Q, Nodes, Values) /\ DOMAIN Q = {pcbFree_h} /\ Q[pcbFree_h] = FirstPcbs(k)
    BY <1>3, <2>1, <2>2 DEF FreeUpTo
  <2>4. \A i \in 1..k : InQueue(i) \in Fields
    BY <2>1, HeadsApart
  <2>5. /\ FirstPcbs(k) \in Seq(Fields) /\ Len(FirstPcbs(k)) = k
        /\ Range(FirstPcbs(k)) = {InQueue(i) : i \in 1..k}
    BY <2>4, FirstPcbsSeq
  <2>6. e \in Fields /\ e \notin Range(FirstPcbs(k))
    <3>1. \A i \in 1..k : i # k + 1 /\ InQueue(i) # InQueue(k + 1)
      BY <2>1, HeadsApart
    <3> QED
      BY <2>1, <2>2, <2>5, <3>1, HeadsApart
  <2>7. e \in Fresh(Q, Nodes)
    BY <2>3, <2>6, HeadsApart DEF Fresh, Listed
  <2>8. Append(FirstPcbs(k), e) = FirstPcbs(k + 1)
    <3>1. PICK q, a : q = FirstPcbs(k) /\ a = Append(q, e)
      OBVIOUS
    <3>2. a \in Seq(Fields) /\ Len(a) = k + 1 /\ (\A i \in 1..k : a[i] = q[i]) /\ a[k + 1] = e
      BY <2>5, <2>6, <3>1, AppendProperties
    <3>3. a = [i \in 1..k + 1 |-> a[i]]
      BY <3>2, LenProperties
    <3>4. \A i \in 1..k + 1 : a[i] = InQueue(i)
      BY <2>2, <3>1, <3>2 DEF FirstPcbs
    <3> QED
      BY <3>1, <3>3, <3>4 DEF FirstPcbs
  <2>9. Holds(ListAddTail(l, e, pcbFree_h), [Q EXCEPT ![pcbFree_h] = Append(Q[pcbFree_h], e)],
              Nodes, Values)
    <3>1. pcbFree_h \in DOMAIN Q /\ Holds(l, Q, Nodes, Values)
      BY <2>3
    <3> QED
      BY ONLY <2>7, <3>1, AddCalls
  <2>10. f[k + 1] = ListAddTail(l, e, pcbFree_h)
    BY <1>1, <2>1, <2>2 DEF Round
  <2>11. [Q EXCEPT ![pcbFree_h] = Append(Q[pcbFree_h], e)] = FreeUpTo(k + 1)
    BY <2>2, <2>3, <2>8 DEF FreeUpTo
  <2> QED
    BY <2>9, <2>10, <2>11
<1> HIDE DEF S
<1>4. Nat \subseteq S
  BY <1>2, <1>3, NatSetInduction
<1> QED
  BY <1>0, <1>1, <1>4 DEF S

\* mkEmptyProcQ writes in the head of its queue only.
LEMMA QueuesOpen ==
    ASSUME NEW P, P = [h \in ProcQs |-> IF h = pcbFree_h THEN FirstPcbs(MAXPROC) ELSE <<>>]
    PROVE  Holds(MkEmptyProcQs(LinkAll(MAXPROC)), P, Nodes, Values)
<1>1. PICK l, m, q, n, E : /\ l = LinkAll(MAXPROC) /\ m = MkEmptyProcQs(l)
                           /\ q = FirstPcbs(MAXPROC) /\ n = MAXPROC /\ E = Nodes \ ProcQs
  OBVIOUS
<1>2. /\ Nodes \subseteq Values /\ l \in Memories(Nodes, Values)
      /\ ListIn(l, pcbFree_h, q, Nodes, Nodes \ {pcbFree_h})
  BY <1>1, AllFree DEF Holds, FreeUpTo
<1>3. /\ n \in Nat /\ q \in Seq(Fields) /\ Len(q) = n /\ \A i \in 1..n : q[i] \in Fields
  <2>1. MAXPROC \in Nat /\ \A i \in 1..MAXPROC : InQueue(i) \in Fields
    BY PcbListsAssumption, HeadsApart DEF Procs
  <2>2. q \in Seq(Fields) /\ Len(q) = n
    BY <1>1, <2>1, FirstPcbsSeq
  <2> QED
    BY <1>1, <2>1, <2>2, LenProperties
<1>4. /\ DOMAIN P = ProcQs /\ P[pcbFree_h] = q /\ \A h \in Queues : P[h] = <<>>
      /\ ProcQs = {pcbFree_h} \cup Queues /\ ProcQs \subseteq Nodes /\ Fields \subseteq E
  BY <1>1, HeadsApart DEF ProcQs
<1>5. /\ m \in Memories(Nodes, Values)
      /\ \A h \in Queues : m.next[h] = h /\ m.prev[h] = h
      /\ \A x \in Nodes \ Queues : m.next[x] = l.next[x] /\ m.prev[x] = l.prev[x]
  BY <1>1, <1>2, <1>4 DEF MkEmptyProcQs, Memories
<1>6. ListIn(m, pcbFree_h, q, Nodes, E)
  <2>1. PICK R : R = Ring(pcbFree_h, q)
    OBVIOUS
  <2>2. \A i \in 0..n + 1 : R[i] \in Nodes \ Queues
    BY <1>3, <2>1, HeadsApart DEF Ring
  <2>3. Around(l.next, l.prev, R, n) /\ NoRepeats(q, n)
    BY <1>2, <1>3, <2>1 DEF ListIn
  <2>4. Around(m.next, m.prev, R, n)
    <3> SUFFICES ASSUME NEW i \in 0..n
                 PROVE  m.next[R[i]] = R[i + 1] /\ m.prev[R[i + 1]] = R[i]
      BY DEF Around
    <3>1. l.next[R[i]] = R[i + 1] /\ l.prev[R[i + 1]] = R[i]
      BY <2>3 DEF Around
    <3>2. R[i] \in Nodes \ Queues /\ R[i + 1] \in Nodes \ Queues
      <4>1. i \in 0..n + 1 /\ i + 1 \in 0..n + 1
        BY <1>3
      <4> QED
        BY <2>2, <4>1
    <3> QED
      BY <1>5, <3>1, <3>2
  <2>5. q \in Seq(E)
    <3>1. \A i \in 1..n : q[i] \in E
      BY <1>3, <1>4
    <3>2. q \in [1..n -> E]
      BY <1>3, <3>1, LenProperties
    <3> QED
      BY <1>3, <3>2
  <2> QED
    BY <1>1, <1>3, <1>4, <2>1, <2>3, <2>4, <2>5 DEF ListIn
<1>7. ASSUME NEW h \in Queues PROVE ListIn(m, h, <<>>, Nodes, E)
  <2>1. <<>> \in Seq(E) /\ h \in Nodes \ E /\ E \subseteq Nodes
    BY <1>1, <1>4
  <2>2. NoRepeats(<<>>, Len(<<>>))
    BY DEF NoRepeats
  <2>3. Around(m.next, m.prev, Ring(h, <<>>), Len(<<>>))
    <3>1. Len(<<>>) = 0
      OBVIOUS
    <3>2. Ring(h, <<>>)[0] = h /\ Ring(h, <<>>)[1] = h
      BY <3>1 DEF Ring
    <3> QED
      BY <1>5, <3>1, <3>2 DEF Around
  <2> QED
    BY <2>1, <2>2, <2>3 DEF ListIn
<1>8. \A h \in DOMAIN P : ListIn(m, h, P[h], Nodes, Nodes \ DOMAIN P)
  BY <1>1, <1>4, <1>6, <1>7
<1>9. P \in [DOMAIN P -> Seq(Nodes \ DOMAIN P)]
  <2>1. q \in Seq(E)
    BY <1>6 DEF ListIn
  <2> QED
    BY <1>1, <1>4, <2>1
<1>10. Apart(P)
  <2>1. NoRepeats(q, Len(q))
    BY <1>6 DEF ListIn
  <2>2. Len(<<>>) = 0
    OBVIOUS
  <2> QED
    BY <1>4, <2>1, <2>2 DEF Apart, NoRepeats
<1> QED
  BY <1>1, <1>2, <1>5, <1>8, <1>9, <1>10 DEF Holds

LEMMA PInvInit ==
    ASSUME Init
    PROVE  PInv /\ Abstract!Init
<1>1. PICK P, par, pid :
          /\ P = [h \in ProcQs |-> IF h = pcbFree_h THEN FirstPcbs(MAXPROC) ELSE <<>>]
          /\ par = p_parent /\ pid = p_pid
  OBVIOUS
<1>2. Holds(links, P, Nodes, Values)
  BY <1>1, QueuesOpen DEF Init
<1>3. /\ par = [p \in Procs |-> NULL] /\ pid = [p \in Procs |-> 0]
      /\ DOMAIN P = ProcQs /\ P[pcbFree_h] = FirstPcbs(MAXPROC) /\ \A h \in Queues : P[h] = <<>>
      /\ HeadsOf(pid) = ProcQs
  BY <1>1, HeadsApart DEF Init, HeadsOf, ProcQs
<1>4. Held = P
  <2>1. P = [h \in DOMAIN P |-> EntriesOf(links.next, h)]
    <3>1. PICK l : l = links
      OBVIOUS
    <3> QED
      BY <1>2, <3>1, ReadAs
  <2> QED
    BY <1>1, <1>3, <2>1 DEF Held
<1>5. InTheirLists(Ranges(P), par, pid)
  <2>1. Range(FirstPcbs(MAXPROC)) = {InQueue(p) : p \in Procs}
    BY DEF FirstPcbs, Range, Procs
  <2>2. Range(<<>>) = {}
    BY DEF Range
  <2>3. /\ DOMAIN Ranges(P) = ProcQs /\ Ranges(P)[pcbFree_h] = {InQueue(p) : p \in Procs}
        /\ \A h \in Queues : Ranges(P)[h] = {}
    BY <1>3, <2>1, <2>2 DEF Ranges, ProcQs
  <2> QED
    BY <1>3, <2>3 DEF InTheirLists, ProcQs
<1>6. /\ FreeOf(P) = [i \in Abstract!Procs |-> i]
      /\ QueuesOf(P) = [h \in Queues |-> <<>>]
      /\ ChildrenOf(P, pid) = [p \in Abstract!Procs |-> <<>>]
  <2>1. Pcbs(FirstPcbs(MAXPROC)) = [i \in Procs |-> i]
    BY HeadsApart DEF Pcbs, FirstPcbs, Procs
  <2>2. Pcbs(<<>>) = <<>>
    BY DEF Pcbs
  <2> QED
    BY <1>3, <2>1, <2>2, SameNotions DEF FreeOf, QueuesOf, ChildrenOf
<1> QED
  BY <1>1, <1>2, <1>3, <1>4, <1>5, <1>6, SeqsOfLists, SameNotions DEF PInv, Abstract!Init, Init

----------------------------------------------------------------------------
\* No two lists in use share a node, and each can be walked both ways, with
\* any number of PCBs and queues, however often the PCBs are given back and
\* taken again.
THEOREM ListsShareNothing == Spec => []ListsApart
<1>1. Init => PInv
  BY PInvInit
<1>2. PInv /\ [Next]_vars => PInv'
  BY PInvNext
<1>3. PInv => ListsApart
  <2> SUFFICES ASSUME PInv PROVE ListsApart
    OBVIOUS
  <2>1. PICK l, Q : l = links /\ Q = Held
    OBVIOUS
  <2>2. Holds(l, Q, Nodes, Values) /\ DOMAIN Q = HeadsOf(p_pid)
    BY <2>1 DEF PInv, Held
  <2>3. {pcbFree_h} \cup Queues \cup {Children(p) : p \in Active} = DOMAIN Q
    BY <2>2 DEF HeadsOf, ProcQs, Active
  <2>4. \A h \in DOMAIN Q : /\ Circular(l.next, h) /\ Circular(l.prev, h)
                            /\ EntriesOf(l.next, h) = Q[h]
                            /\ EntriesOf(l.prev, h) = Reverse(Q[h])
    BY <2>2, ReadAs
  <2>5. ASSUME NEW g \in DOMAIN Q, NEW h \in DOMAIN Q, g # h
        PROVE  ToSet(Q[g]) \cap ToSet(Q[h]) = {}
    <3>1. ({g} \cup Range(Q[g])) \cap ({h} \cup Range(Q[h])) = {}
      BY <2>2, <2>5, HeldApart
    <3> QED
      BY <3>1, SameNotions
  <2> QED
    BY <2>1, <2>3, <2>4, <2>5 DEF ListsApart
<1> QED
  BY <1>1, <1>2, <1>3, PTL DEF Spec

\* pcb.c over list.h does to its queues and child lists what is said of
\* sequences, and returns what is said, whatever calls are made in whatever
\* order: the queues of the nucleus may be modelled with sequences.
THEOREM PcbsAreSequences == Spec => ImplementsPcbSpec
<1>1. Init => PInv /\ Abstract!Init
  BY PInvInit
<1>2. PInv /\ [Next]_vars => PInv' /\ [Abstract!Next]_Abstract!vars
  BY PInvNext
<1> QED
  BY <1>1, <1>2, PTL DEF Spec, ImplementsPcbSpec, Abstract!Spec
============================================================================
