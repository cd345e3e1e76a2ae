----------------------------- MODULE ListLemmas -----------------------------
(***************************************************************************)
(* What the operators on queues return, for queues of any length; and the  *)
(* lists of Links as sequences, for memories of any size: what a walk      *)
(* meets, and what each call makes of the list it is about.                *)
(***************************************************************************)
EXTENDS Links, Queues, SequencesExt, FiniteSetTheorems, SequenceTheorems, TLAPS

----------------------------------------------------------------------------
(* Queues.                                                                 *)

\* Every nonempty set of naturals has a least element.
LEMMA LeastNat ==
    ASSUME NEW S \in SUBSET Nat, S # {}
    PROVE  \E n \in S : \A m \in S : n <= m
<1> DEFINE Below == {0..n - 1 : n \in S}
<1>1. Below \subseteq FiniteSubsetsOf(Nat) /\ Below # {}
  <2>1. \A n \in S : 0..n - 1 \subseteq Nat /\ IsFiniteSet(0..n - 1)
    BY FS_Interval
  <2> QED
    BY <2>1 DEF FiniteSubsetsOf
<1>2. PICK x \in Below : \A y \in Below : ~(<<y, x>> \in StrictSubsetOrdering(Nat))
  BY <1>1, FS_StrictSubsetOrderingWellFounded, WFMin
<1>3. PICK n \in S : x = 0..n - 1
  BY <1>2
<1>4. ASSUME NEW m \in S, m < n PROVE FALSE
  <2>1. 0..m - 1 \in SUBSET Nat /\ 0..m - 1 # x /\ 0..m - 1 \subseteq x /\ x \in SUBSET Nat
    BY <1>3, <1>4
  <2>2. <<0..m - 1, x>> \in StrictSubsetOrdering(Nat)
    BY <2>1 DEF StrictSubsetOrdering
  <2> QED
    BY <1>2, <2>2
<1> QED
  BY <1>4

\* A set that holds 0 and with each natural its successor holds them all.
LEMMA NatSetInduction ==
    ASSUME NEW S, 0 \in S, \A n \in Nat : n \in S => n + 1 \in S
    PROVE  Nat \subseteq S
<1> SUFFICES ASSUME Nat \ S # {} PROVE FALSE
  OBVIOUS
<1>1. PICK n \in Nat \ S : \A m \in Nat \ S : n <= m
  BY LeastNat
<1>2. n - 1 \in Nat /\ n - 1 \notin Nat \ S
  BY <1>1
<1> QED
  BY <1>1, <1>2
\* The k-th smallest element of a finite set of positions exists for every k
\* up to its cardinality and differs for different k (Nth, by which outProcQ
\* keeps the order of a queue).
LEMMA NthProperty ==
    ASSUME NEW n \in Nat, NEW I \in SUBSET (1..n)
    PROVE  /\ Cardinality(I) \in Nat
           /\ \A k \in 1..Cardinality(I) :
                 /\ Nth(I, k) \in I
                 /\ Cardinality({j \in I : j <= Nth(I, k)}) = k
           /\ \A i \in I : \E k \in 1..Cardinality(I) : i = Nth(I, k)
<1> DEFINE upTo(i) == {j \in I : j <= i}
           m       == Cardinality(I)
           rank    == [i \in I |-> Cardinality(upTo(i))]
<1>1. IsFiniteSet(I) /\ m \in Nat
  <2>1. IsFiniteSet(1..n)
    BY FS_Interval
  <2>2. IsFiniteSet(I)
    BY <2>1, FS_Subset
  <2> QED
    BY <2>2, FS_CardinalityType
<1>2. \A i \in I : IsFiniteSet(upTo(i)) /\ Cardinality(upTo(i)) \in 1..m
  <2> SUFFICES ASSUME NEW i \in I
               PROVE  IsFiniteSet(upTo(i)) /\ Cardinality(upTo(i)) \in 1..m
    OBVIOUS
  <2>1. upTo(i) \in SUBSET I
    OBVIOUS
  <2>2. IsFiniteSet(upTo(i)) /\ Cardinality(upTo(i)) <= m
    BY <1>1, <2>1, FS_Subset
  <2>3. Cardinality(upTo(i)) \in Nat
    BY <2>2, FS_CardinalityType
  <2>4. Cardinality(upTo(i)) # 0
    <3>1. i \in upTo(i)
      OBVIOUS
    <3> QED
      BY <2>2, <3>1, FS_EmptySet
  <2> QED
    BY <1>1, <2>2, <2>3, <2>4
<1>3. rank \in Injection(I, 1..m)
  <2>1. rank \in [I -> 1..m]
    BY <1>2
  <2>2. ASSUME NEW i \in I, NEW j \in I, i < j
        PROVE  rank[i] # rank[j]
    <3>1. upTo(i) \in SUBSET upTo(j)
      <4>1. \A k \in I : k \in Nat
        OBVIOUS
      <4>2. \A k \in I : k <= i => k <= j
        BY <2>2, <4>1
      <4> QED
        BY <4>2
    <3>2. j \in upTo(j) /\ j \notin upTo(i)
      BY <2>2
    <3>3. Cardinality(upTo(i)) # Cardinality(upTo(j))
      BY <1>2, <3>1, <3>2, FS_Subset
    <3> QED
      BY <3>3
  <2>3. \A i, j \in I : rank[i] = rank[j] => i = j
    <3> HIDE DEF rank
    <3> SUFFICES ASSUME NEW i \in I, NEW j \in I, rank[i] = rank[j], i # j
                 PROVE  FALSE
      OBVIOUS
    <3>1. i \in Nat /\ j \in Nat
      OBVIOUS
    <3>2. i < j \/ j < i
      BY <3>1
    <3> QED
      BY <2>2, <3>2
  <2> HIDE DEF rank
  <2> QED
    BY <2>1, <2>3 DEF Injection, IsInjective
<1>4. rank \in Surjection(I, 1..m)
  <2>1. IsFiniteSet(1..m) /\ Cardinality(1..m) = m
    BY <1>1, FS_Interval
  <2> HIDE DEF rank
  <2> QED
    BY <1>3, <2>1, FS_Injection
<1>5. \A k \in 1..m : \E i \in I : Cardinality(upTo(i)) = k
  BY <1>4 DEF Surjection
<1>6. \A k \in 1..m : Nth(I, k) \in I /\ Cardinality(upTo(Nth(I, k))) = k
  BY <1>5 DEF Nth
<1>7. \A i \in I : \E k \in 1..m : i = Nth(I, k)
  <2> SUFFICES ASSUME NEW i \in I
               PROVE  \E k \in 1..m : i = Nth(I, k)
    OBVIOUS
  <2>1. rank[i] \in 1..m
    BY <1>2
  <2>2. Nth(I, rank[i]) \in I /\ rank[Nth(I, rank[i])] = rank[i]
    BY <1>6, <2>1
  <2>3. i = Nth(I, rank[i])
    <3> HIDE DEF rank
    <3> QED
      BY <1>3, <2>2 DEF Injection, IsInjective
  <2> QED
    BY <2>1, <2>3
<1> QED
  BY <1>1, <1>6, <1>7

\* A queue of one PCB.
LEMMA OneElement ==
    ASSUME NEW S, NEW x \in S
    PROVE  /\ <<x>> \in Seq(S) /\ Len(<<x>>) = 1 /\ <<x>>[1] = x
           /\ Range(<<x>>) = {x}
<1>1. <<x>> \in Seq(S) /\ Len(<<x>>) = 1 /\ <<x>>[1] = x
  OBVIOUS
<1>2. DOMAIN <<x>> = {1}
  OBVIOUS
<1>3. Range(<<x>>) = {x}
  BY <1>1, <1>2 DEF Range
<1> QED
  BY <1>1, <1>3

\* Taking PCBs out of a queue leaves a queue, of exactly the other PCBs, each
\* as often as before if that was once (outProcQ, and the dead leaving a
\* queue in __killProcess).
LEMMA WithoutProperty ==
    ASSUME NEW S, NEW q \in Seq(S), NEW D
    PROVE  /\ Without(q, D) \in Seq(S)
           /\ Range(Without(q, D)) = Range(q) \ D
           /\ IsInjective(q) => IsInjective(Without(q, D))
<1> DEFINE I == Kept(q, D)
           w == Without(q, D)
<1>1. Len(q) \in Nat /\ q \in [1..Len(q) -> S]
  BY LenProperties
<1>2. I \in SUBSET (1..Len(q))
  BY DEF Kept
<1>3. /\ Cardinality(I) \in Nat
      /\ \A k \in 1..Cardinality(I) :
            Nth(I, k) \in I /\ Cardinality({j \in I : j <= Nth(I, k)}) = k
      /\ \A i \in I : \E k \in 1..Cardinality(I) : i = Nth(I, k)
  <2> HIDE DEF I
  <2> QED
    BY <1>1, <1>2, NthProperty
<1>4. w = [k \in 1..Cardinality(I) |-> q[Nth(I, k)]]
  BY DEF Without
<1>5. w \in [1..Cardinality(I) -> S]
  BY <1>1, <1>2, <1>3, <1>4
<1>6. w \in Seq(S)
  BY <1>3, <1>5, SeqDef
<1>7. Range(w) = Range(q) \ D
  <2>1. Range(w) \subseteq Range(q) \ D
    <3> SUFFICES ASSUME NEW k \in 1..Cardinality(I)
                 PROVE  w[k] \in Range(q) \ D
      BY <1>4 DEF Range
    <3>1. Nth(I, k) \in I
      BY <1>3
    <3> QED
      BY <1>1, <1>4, <3>1 DEF Kept, Range
  <2>2. Range(q) \ D \subseteq Range(w)
    <3> SUFFICES ASSUME NEW x \in Range(q) \ D
                 PROVE  x \in Range(w)
      OBVIOUS
    <3>1. PICK i \in 1..Len(q) : q[i] = x
      BY <1>1 DEF Range
    <3>2. i \in I
      BY <3>1 DEF Kept
    <3>3. PICK k \in 1..Cardinality(I) : i = Nth(I, k)
      BY <1>3, <3>2
    <3> QED
      BY <1>4, <3>1, <3>3 DEF Range
  <2> QED
    BY <2>1, <2>2
<1>8. IsInjective(q) => IsInjective(w)
  <2> SUFFICES ASSUME IsInjective(q),
                      NEW k \in 1..Cardinality(I), NEW l \in 1..Cardinality(I),
                      w[k] = w[l]
               PROVE  k = l
    BY <1>4 DEF IsInjective
  <2>1. Nth(I, k) \in 1..Len(q) /\ Nth(I, l) \in 1..Len(q)
    BY <1>2, <1>3
  <2>2. q[Nth(I, k)] = q[Nth(I, l)]
    BY <1>4
  <2>3. Nth(I, k) = Nth(I, l)
    BY <1>1, <2>1, <2>2 DEF IsInjective
  <2> QED
    BY <1>3, <2>3
<1> QED
  BY <1>6, <1>7, <1>8

\* To take out somebody who is not there.
LEMMA WithoutNobody ==
    ASSUME NEW S, NEW q \in Seq(S), NEW D, Range(q) \cap D = {}
    PROVE  Without(q, D) = q
<1>1. PICK n, I : n = Len(q) /\ I = 1..n
  OBVIOUS
<1>2. n \in Nat /\ DOMAIN q = 1..n /\ q = [i \in 1..n |-> q[i]]
  BY <1>1, LenProperties
<1>3. Kept(q, D) = I
  BY <1>1, <1>2 DEF Kept, Range
<1>4. \A i \in Nat : IsFiniteSet(1..i) /\ Cardinality(1..i) = i
  <2> SUFFICES ASSUME NEW i \in Nat PROVE IsFiniteSet(1..i) /\ Cardinality(1..i) = i
    OBVIOUS
  <2>1. 1 \in Int /\ i \in Int
    OBVIOUS
  <2>2. IsFiniteSet(1..i) /\ Cardinality(1..i) = IF 1 > i THEN 0 ELSE i - 1 + 1
    BY <2>1, FS_Interval
  <2> QED
    BY <2>2
<1>5. Cardinality(I) = n
  BY <1>1, <1>2, <1>4
<1>6. ASSUME NEW k \in 1..n PROVE Nth(I, k) = k
  <2>1. PICK a : a = Nth(I, k)
    OBVIOUS
  <2>2. a \in I /\ Cardinality({i \in I : i <= a}) = k
    <3>1. n \in Nat /\ I \in SUBSET (1..n) /\ k \in 1..Cardinality(I)
      BY <1>1, <1>2, <1>5
    <3> QED
      BY ONLY <2>1, <3>1, NthProperty
  <2>3. {i \in I : i <= a} = 1..a /\ a \in Nat
    BY <1>1, <1>2, <2>2
  <2> QED
    BY <1>4, <2>1, <2>2, <2>3
<1> QED
  BY <1>2, <1>3, <1>5, <1>6 DEF Without

\* What joining the ends of two queues holds (insertProcQ and its loops).
LEMMA ConcatRange ==
    ASSUME NEW S, NEW q \in Seq(S), NEW r \in Seq(S)
    PROVE  /\ q \o r \in Seq(S)
           /\ Range(q \o r) = Range(q) \cup Range(r)
           /\ IsInjective(q) /\ IsInjective(r) /\ Range(q) \cap Range(r) = {} =>
                 IsInjective(q \o r)
<1> DEFINE c == q \o r
<1>1. /\ c \in Seq(S) /\ Len(c) = Len(q) + Len(r)
      /\ \A i \in 1..Len(q) + Len(r) :
            c[i] = IF i <= Len(q) THEN q[i] ELSE r[i - Len(q)]
  BY ConcatProperties
<1>2. /\ Len(q) \in Nat /\ DOMAIN q = 1..Len(q)
      /\ Len(r) \in Nat /\ DOMAIN r = 1..Len(r)
      /\ DOMAIN c = 1..Len(q) + Len(r)
  BY <1>1, LenProperties
<1> HIDE DEF c
<1>3. \A i \in DOMAIN q : i \in DOMAIN c /\ c[i] = q[i]
  BY <1>1, <1>2
<1>4. \A i \in DOMAIN r : i + Len(q) \in DOMAIN c /\ c[i + Len(q)] = r[i]
  BY <1>1, <1>2
<1>5. \A i \in DOMAIN c : \/ i \in DOMAIN q /\ c[i] = q[i]
                          \/ i - Len(q) \in DOMAIN r /\ c[i] = r[i - Len(q)]
  BY <1>1, <1>2
<1>6. Range(c) = Range(q) \cup Range(r)
  <2>1. Range(c) \subseteq Range(q) \cup Range(r)
    BY <1>5 DEF Range
  <2>2. Range(q) \subseteq Range(c)
    BY <1>3 DEF Range
  <2>3. Range(r) \subseteq Range(c)
    BY <1>4 DEF Range
  <2> QED
    BY <2>1, <2>2, <2>3
<1>7. ASSUME IsInjective(q), IsInjective(r), Range(q) \cap Range(r) = {}
      PROVE  IsInjective(c)
  <2> SUFFICES ASSUME NEW i \in DOMAIN c, NEW j \in DOMAIN c, c[i] = c[j]
               PROVE  i = j
    BY DEF IsInjective
  <2>1. i \in Int /\ j \in Int
    BY <1>2
  <2>2. CASE i \in DOMAIN q /\ c[i] = q[i] /\ j \in DOMAIN q /\ c[j] = q[j]
    BY <1>7, <2>2 DEF IsInjective
  <2>3. CASE /\ i - Len(q) \in DOMAIN r /\ c[i] = r[i - Len(q)]
             /\ j - Len(q) \in DOMAIN r /\ c[j] = r[j - Len(q)]
    <3>1. i - Len(q) = j - Len(q)
      BY <1>7, <2>3 DEF IsInjective
    <3> QED
      BY <1>2, <2>1, <3>1
  <2>4. CASE \/ /\ i \in DOMAIN q /\ c[i] = q[i]
                /\ j - Len(q) \in DOMAIN r /\ c[j] = r[j - Len(q)]
             \/ /\ j \in DOMAIN q /\ c[j] = q[j]
                /\ i - Len(q) \in DOMAIN r /\ c[i] = r[i - Len(q)]
    <3>1. c[i] \in Range(q) /\ c[i] \in Range(r)
      BY <2>4 DEF Range
    <3> QED
      BY <1>7, <3>1
  <2> QED
    BY <1>5, <2>2, <2>3, <2>4
<1> QED
  BY <1>1, <1>6, <1>7 DEF c

\* A PCB joins a queue it is not in (insertProcQ).
LEMMA InsertRange ==
    ASSUME NEW S, NEW q \in Seq(S), NEW x \in S
    PROVE  /\ Append(q, x) \in Seq(S)
           /\ Range(Append(q, x)) = Range(q) \cup {x}
           /\ IsInjective(q) /\ x \notin Range(q) => IsInjective(Append(q, x))
<1>1. <<x>> \in Seq(S) /\ Range(<<x>>) = {x}
  BY OneElement
<1>2. IsInjective(<<x>>)
  BY DEF IsInjective
<1>3. Append(q, x) = q \o <<x>>
  BY AppendIsConcat
<1> DEFINE r == <<x>>
<1> HIDE DEF r
<1>4. /\ q \o r \in Seq(S)
      /\ Range(q \o r) = Range(q) \cup Range(r)
      /\ IsInjective(q) /\ IsInjective(r) /\ Range(q) \cap Range(r) = {} =>
            IsInjective(q \o r)
  BY <1>1, ConcatRange DEF r
<1> QED
  BY <1>1, <1>2, <1>3, <1>4 DEF r

\* The head leaves a queue without duplicates (removeProcQ).
LEMMA TailRange ==
    ASSUME NEW S, NEW q \in Seq(S), q # <<>>, IsInjective(q)
    PROVE  /\ Head(q) \in Range(q) /\ Head(q) \in S
           /\ Tail(q) \in Seq(S) /\ IsInjective(Tail(q))
           /\ Range(Tail(q)) = Range(q) \ {Head(q)}
<1> DEFINE t == Tail(q)
<1>1. /\ Head(q) \in S /\ t \in Seq(S) /\ Len(t) = Len(q) - 1
      /\ \A i \in 1..Len(t) : t[i] = q[i + 1]
  BY HeadTailProperties
<1>2. /\ Len(q) \in Nat /\ DOMAIN q = 1..Len(q) /\ Len(q) # 0
      /\ DOMAIN t = 1..Len(q) - 1
  BY <1>1, LenProperties, EmptySeq
<1>3. Head(q) = q[1] /\ 1 \in DOMAIN q
  BY <1>2
<1> HIDE DEF t
<1>4. \A i \in DOMAIN t : i + 1 \in DOMAIN q /\ t[i] = q[i + 1] /\ i + 1 # 1
  BY <1>1, <1>2
<1>5. \A i \in DOMAIN q : i # 1 => i - 1 \in DOMAIN t /\ t[i - 1] = q[i]
  BY <1>1, <1>2
<1>6. IsInjective(t)
  <2> SUFFICES ASSUME NEW i \in DOMAIN t, NEW j \in DOMAIN t, t[i] = t[j]
               PROVE  i = j
    BY DEF IsInjective
  <2>1. i + 1 = j + 1
    BY <1>4 DEF IsInjective
  <2> QED
    BY <1>2, <2>1
<1>7. Range(t) = Range(q) \ {Head(q)}
  <2>1. Range(t) \subseteq Range(q) \ {Head(q)}
    <3> SUFFICES ASSUME NEW i \in DOMAIN t PROVE t[i] \in Range(q) \ {Head(q)}
      BY DEF Range
    <3>1. t[i] = q[i + 1] /\ i + 1 \in DOMAIN q /\ i + 1 # 1
      BY <1>4
    <3> QED
      BY <1>3, <3>1 DEF Range, IsInjective
  <2>2. Range(q) \ {Head(q)} \subseteq Range(t)
    <3> SUFFICES ASSUME NEW i \in DOMAIN q, q[i] # Head(q) PROVE q[i] \in Range(t)
      BY DEF Range
    <3>1. i - 1 \in DOMAIN t /\ t[i - 1] = q[i]
      BY <1>3, <1>5
    <3> QED
      BY <3>1 DEF Range
  <2> QED
    BY <2>1, <2>2
<1> QED
  BY <1>1, <1>3, <1>6, <1>7 DEF Range, t


----------------------------------------------------------------------------
(* Who stands before whom.                                                 *)

\* A larger position holds a later member of a set of positions.
LEMMA NthMonotone ==
    ASSUME NEW n \in Nat, NEW I \in SUBSET (1..n),
           NEW k \in 1..Cardinality(I), NEW l \in 1..Cardinality(I),
           Nth(I, k) < Nth(I, l)
    PROVE  k < l
<1> DEFINE a == Nth(I, k)
           b == Nth(I, l)
           A == {j \in I : j <= a}
           B == {j \in I : j <= b}
<1>1. a \in I /\ Cardinality(A) = k /\ b \in I /\ Cardinality(B) = l
  BY NthProperty
<1>2. a < b /\ \A j \in I : j \in Nat
  OBVIOUS
<1>3. IsFiniteSet(I) /\ Cardinality(I) \in Nat
  <2>1. IsFiniteSet(1..n)
    BY FS_Interval
  <2>2. IsFiniteSet(I)
    BY <2>1, FS_Subset
  <2> QED
    BY <2>2, FS_CardinalityType
<1> HIDE DEF a, b
<1>4. B \in SUBSET I /\ A \in SUBSET B /\ A # B
  <2>1. \A j \in I : j <= a => j <= b
    BY <1>1, <1>2
  <2>2. b \in B /\ b \notin A
    BY <1>1, <1>2
  <2> QED
    BY <2>1, <2>2
<1> HIDE DEF A, B
<1>5. IsFiniteSet(B)
  BY <1>3, <1>4, FS_Subset
<1>6. Cardinality(A) <= Cardinality(B) /\ Cardinality(A) # Cardinality(B)
  BY <1>4, <1>5, FS_Subset
<1> QED
  BY <1>1, <1>3, <1>6

\* Those that are not taken out of a queue keep their order.
LEMMA WithoutPrecedes ==
    ASSUME NEW S, NEW q \in Seq(S), NEW D, NEW x, NEW y,
           Precedes(q, x, y), x \notin D, y \notin D
    PROVE  Precedes(Without(q, D), x, y)
<1> DEFINE I == Kept(q, D)
           w == Without(q, D)
<1>1. Len(q) \in Nat
  BY LenProperties
<1>2. I \in SUBSET (1..Len(q))
  BY DEF Kept
<1>3. PICK i, j \in 1..Len(q) : i < j /\ q[i] = x /\ q[j] = y
  BY DEF Precedes
<1>4. i \in I /\ j \in I
  BY <1>3 DEF Kept
<1>5. w = [k \in 1..Cardinality(I) |-> q[Nth(I, k)]]
  BY DEF Without
<1> HIDE DEF I, w
<1>6. /\ Cardinality(I) \in Nat
      /\ \E k \in 1..Cardinality(I) : i = Nth(I, k)
      /\ \E l \in 1..Cardinality(I) : j = Nth(I, l)
  BY <1>1, <1>2, <1>4, NthProperty
<1>7. PICK k, l \in 1..Cardinality(I) : i = Nth(I, k) /\ j = Nth(I, l)
  BY <1>6
<1>8. k < l
  BY <1>1, <1>2, <1>3, <1>7, NthMonotone
<1>9. Len(w) = Cardinality(I) /\ w[k] = x /\ w[l] = y
  BY <1>3, <1>5, <1>6, <1>7
<1> QED
  BY <1>7, <1>8, <1>9 DEF Precedes, w

\* In two queues joined, the first keeps its order and goes first.
LEMMA ConcatPrecedes ==
    ASSUME NEW S, NEW q \in Seq(S), NEW r \in Seq(S), NEW x, NEW y,
           Precedes(q, x, y) \/ (x \in Range(q) /\ y \in Range(r))
    PROVE  Precedes(q \o r, x, y)
<1> DEFINE c == q \o r
<1>1. /\ Len(c) = Len(q) + Len(r)
      /\ \A i \in 1..Len(q) + Len(r) :
            c[i] = IF i <= Len(q) THEN q[i] ELSE r[i - Len(q)]
  BY ConcatProperties
<1>2. /\ Len(q) \in Nat /\ DOMAIN q = 1..Len(q)
      /\ Len(r) \in Nat /\ DOMAIN r = 1..Len(r)
  BY LenProperties
<1> HIDE DEF c
<1>3. CASE Precedes(q, x, y)
  <2>1. PICK i, j \in 1..Len(q) : i < j /\ q[i] = x /\ q[j] = y
    BY <1>3 DEF Precedes
  <2>2. i \in 1..Len(c) /\ j \in 1..Len(c) /\ c[i] = x /\ c[j] = y
    BY <1>1, <1>2, <2>1
  <2> QED
    BY <2>1, <2>2 DEF Precedes, c
<1>4. CASE x \in Range(q) /\ y \in Range(r)
  <2>1. PICK i \in 1..Len(q), j \in 1..Len(r) : q[i] = x /\ r[j] = y
    BY <1>2, <1>4 DEF Range
  <2>2. /\ i \in 1..Len(c) /\ c[i] = x
    BY <1>1, <1>2, <2>1
  <2>3. Len(q) + j \in 1..Len(c) /\ i < Len(q) + j /\ ~(Len(q) + j <= Len(q))
        /\ Len(q) + j - Len(q) = j
    BY <1>1, <1>2, <2>1
  <2>4. c[Len(q) + j] = y
    BY <1>1, <2>1, <2>3
  <2> QED
    BY <2>2, <2>3, <2>4 DEF Precedes, c
<1> QED
  BY <1>3, <1>4

\* When the head has left a queue, the others stand as they stood.
LEMMA TailPrecedes ==
    ASSUME NEW S, NEW q \in Seq(S), q # <<>>, NEW x, NEW y, x # Head(q),
           Precedes(q, x, y)
    PROVE  Precedes(Tail(q), x, y)
<1> DEFINE t == Tail(q)
<1>1. /\ Len(q) \in Nat \ {0} /\ Len(t) = Len(q) - 1
      /\ \A i \in 1..Len(t) : t[i] = q[i + 1]
  BY HeadTailProperties, LenProperties, EmptySeq
<1>2. Head(q) = q[1]
  OBVIOUS
<1> HIDE DEF t
<1>3. PICK i, j \in 1..Len(q) : i < j /\ q[i] = x /\ q[j] = y
  BY DEF Precedes
<1>4. i # 1
  BY <1>2, <1>3
<1>5. /\ i - 1 \in 1..Len(t) /\ j - 1 \in 1..Len(t) /\ i - 1 < j - 1
      /\ i - 1 + 1 = i /\ j - 1 + 1 = j
  BY <1>1, <1>3, <1>4
<1>6. t[i - 1] = x /\ t[j - 1] = y
  BY <1>1, <1>3, <1>5
<1> QED
  BY <1>5, <1>6 DEF Precedes, t

----------------------------------------------------------------------------
(* Walks.                                                                  *)

\* Where a walk along link goes from x.
Onward(link, x) == IF x \in DOMAIN link THEN link[x] ELSE x

\* There is a walk of every length.
LEMMA WalkExists ==
    ASSUME NEW link, NEW head, NEW n \in Nat
    PROVE  \E f : f = [i \in 0..n |-> IF i = 0 THEN head ELSE Onward(link, f[i - 1])]
<1> DEFINE IsWalk(f, k) == f = [i \in 0..k |-> IF i = 0 THEN head ELSE Onward(link, f[i - 1])]
           S == {k \in Nat : \E f : IsWalk(f, k)}
<1>1. 0 \in S
  <2> DEFINE f == [i \in 0..0 |-> head]
  <2>1. f = [i \in 0..0 |-> IF i = 0 THEN head ELSE Onward(link, f[i - 1])]
    OBVIOUS
  <2> QED
    BY <2>1
<1>2. ASSUME NEW k \in Nat, k \in S PROVE k + 1 \in S
  <2>1. PICK f : IsWalk(f, k)
    BY <1>2
  <2> DEFINE g == [i \in 0..k + 1 |-> IF i = k + 1 THEN Onward(link, f[k]) ELSE f[i]]
  <2>2. \A i \in 0..k + 1 : g[i] = IF i = 0 THEN head ELSE Onward(link, g[i - 1])
    <3> SUFFICES ASSUME NEW i \in 0..k + 1
                 PROVE  g[i] = IF i = 0 THEN head ELSE Onward(link, g[i - 1])
      OBVIOUS
    <3>1. CASE i = 0
      BY <2>1, <3>1
    <3>2. CASE i \in 1..k
      <4>1. i - 1 \in 0..k + 1 /\ i - 1 # k + 1 /\ i # k + 1 /\ i # 0 /\ i \in 0..k
        BY <3>2
      <4>2. g[i] = f[i] /\ g[i - 1] = f[i - 1]
        BY <4>1
      <4> HIDE DEF g
      <4>3. f[i] = Onward(link, f[i - 1])
        BY <2>1, <4>1
      <4> QED
        BY <4>1, <4>2, <4>3
    <3>3. CASE i = k + 1
      <4>1. i - 1 = k /\ k \in 0..k + 1 /\ k # k + 1 /\ i # 0
        BY <3>3
      <4> QED
        BY <3>3, <4>1
    <3> QED
      BY <3>1, <3>2, <3>3
  <2>3. g = [i \in 0..k + 1 |-> g[i]]
    OBVIOUS
  <2> HIDE DEF g
  <2>4. IsWalk(g, k + 1)
    BY <2>2, <2>3
  <2> QED
    BY <2>4
<1> HIDE DEF S
<1>3. Nat \subseteq S
  BY <1>1, <1>2, NatSetInduction
<1> QED
  BY <1>3 DEF S

\* What Walk is.
LEMMA WalkProperty ==
    ASSUME NEW link, NEW head, NEW n \in Nat
    PROVE  /\ Walk(link, head, n)[0] = head
           /\ \A i \in 1..n :
                 Walk(link, head, n)[i] = Onward(link, Walk(link, head, n)[i - 1])
<1> DEFINE at == Walk(link, head, n)
<1>1. at = CHOOSE f : f = [i \in 0..n |-> IF i = 0 THEN head ELSE Onward(link, f[i - 1])]
  BY DEF Walk, Onward
<1>2. at = [i \in 0..n |-> IF i = 0 THEN head ELSE Onward(link, at[i - 1])]
  BY <1>1, WalkExists
<1> HIDE DEF at
<1>3. at[0] = head /\ \A i \in 1..n : at[i] = Onward(link, at[i - 1])
  BY <1>2
<1> QED
  BY <1>3 DEF at


----------------------------------------------------------------------------
(* Lists as rings.                                                         *)

\* The nodes of the list q of head h, once around.
Ring(h, q) == [i \in 0..Len(q) + 1 |-> IF i \in 1..Len(q) THEN q[i] ELSE h]

LEMMA RingProperty ==
    ASSUME NEW S, NEW q \in Seq(S), NEW h
    PROVE  /\ Len(q) \in Nat
           /\ Ring(h, q)[0] = h /\ Ring(h, q)[Len(q) + 1] = h
           /\ \A i \in 1..Len(q) : Ring(h, q)[i] = q[i] /\ q[i] \in S /\ q[i] \in Range(q)
           /\ \A x \in Range(q) : \E i \in 1..Len(q) : x = q[i]
           /\ \A i \in 0..Len(q) + 1 : Ring(h, q)[i] \in {h} \cup Range(q)
<1>1. Len(q) \in Nat /\ DOMAIN q = 1..Len(q) /\ \A i \in 1..Len(q) : q[i] \in S
  BY LenProperties
<1>2. \A i \in 1..Len(q) : q[i] \in Range(q)
  BY <1>1 DEF Range
<1>3. \A x \in Range(q) : \E i \in 1..Len(q) : x = q[i]
  BY <1>1 DEF Range
<1>4. \A i \in 0..Len(q) + 1 : Ring(h, q)[i] = IF i \in 1..Len(q) THEN q[i] ELSE h
  BY DEF Ring
<1>5. /\ 0 \in 0..Len(q) + 1 /\ 0 \notin 1..Len(q)
      /\ Len(q) + 1 \in 0..Len(q) + 1 /\ Len(q) + 1 \notin 1..Len(q)
      /\ \A i \in 1..Len(q) : i \in 0..Len(q) + 1
  BY <1>1
<1> QED
  BY <1>1, <1>2, <1>3, <1>4, <1>5

\* No node of a ring occurs twice, but for the head at both ends.
LEMMA RingInjective ==
    ASSUME NEW S, NEW q \in Seq(S), NEW h, IsInjective(q), h \notin Range(q)
    PROVE  /\ \A i, j \in 0..Len(q) : Ring(h, q)[i] = Ring(h, q)[j] => i = j
           /\ \A i, j \in 1..Len(q) + 1 : Ring(h, q)[i] = Ring(h, q)[j] => i = j
<1> DEFINE R == Ring(h, q)
           m == Len(q)
<1>1. /\ m \in Nat /\ R[0] = h /\ R[m + 1] = h
      /\ \A i \in 1..m : R[i] = q[i] /\ q[i] # h
  BY RingProperty
<1>2. \A i, j \in 1..m : q[i] = q[j] => i = j
  BY LenProperties DEF IsInjective
<1> HIDE DEF R, m
<1>3. \A i, j \in 0..m : R[i] = R[j] => i = j
  <2>1. \A i \in 0..m : i = 0 \/ i \in 1..m
    BY <1>1
  <2> QED
    BY <1>1, <1>2, <2>1
<1>4. \A i, j \in 1..m + 1 : R[i] = R[j] => i = j
  <2>1. \A i \in 1..m + 1 : i = m + 1 \/ i \in 1..m
    BY <1>1
  <2> QED
    BY <1>1, <1>2, <2>1
<1> QED
  BY <1>3, <1>4 DEF R, m

\* A list is shorter than the memory.
LEMMA RingFits ==
    ASSUME NEW N, IsFiniteSet(N), NEW h \in N, NEW q \in Seq(N),
           IsInjective(q), h \notin Range(q)
    PROVE  Cardinality(N) \in Nat /\ Len(q) + 1 <= Cardinality(N)
<1>1. Len(q) \in Nat /\ DOMAIN q = 1..Len(q) /\ q \in [1..Len(q) -> N]
  BY LenProperties
<1>2. q \in Injection(1..Len(q), N \ {h})
  <2>1. q \in [1..Len(q) -> N \ {h}]
    BY <1>1 DEF Range
  <2> QED
    BY <2>1 DEF Injection
<1>3. /\ Cardinality(N) \in Nat
      /\ IsFiniteSet(N \ {h}) /\ Cardinality(N \ {h}) = Cardinality(N) - 1
  BY FS_CardinalityType, FS_RemoveElement
<1>4. Cardinality(1..Len(q)) = Len(q)
  BY <1>1, FS_Interval
<1>5. Len(q) <= Cardinality(N) - 1
  BY <1>2, <1>3, <1>4, FS_Injection
<1> QED
  BY <1>1, <1>3, <1>5

\* A walk goes around the ring.
LEMMA WalkAround ==
    ASSUME NEW link, NEW h, NEW S, NEW q \in Seq(S), NEW n \in Nat, Len(q) + 1 <= n,
           \A i \in 0..Len(q) : /\ Ring(h, q)[i] \in DOMAIN link
                                /\ link[Ring(h, q)[i]] = Ring(h, q)[i + 1]
    PROVE  \A i \in 0..Len(q) + 1 : Walk(link, h, n)[i] = Ring(h, q)[i]
<1> DEFINE at == Walk(link, h, n)
           R  == Ring(h, q)
           T  == {i \in Nat : i <= Len(q) + 1 => at[i] = R[i]}
<1>1. Len(q) \in Nat /\ R[0] = h
  BY RingProperty
<1>2. at[0] = h /\ \A i \in 1..n : at[i] = Onward(link, at[i - 1])
  BY WalkProperty
<1> HIDE DEF at, R
<1>3. 0 \in T
  BY <1>1, <1>2
<1>4. ASSUME NEW i \in Nat, i \in T PROVE i + 1 \in T
  <2> SUFFICES ASSUME i + 1 <= Len(q) + 1 PROVE at[i + 1] = R[i + 1]
    BY <1>4
  <2>1. at[i] = R[i] /\ i \in 0..Len(q) /\ i + 1 \in 1..n /\ i + 1 - 1 = i
    BY <1>1, <1>4
  <2>2. at[i + 1] = Onward(link, at[i])
    BY <1>2, <2>1
  <2> QED
    BY <2>1, <2>2 DEF Onward, R
<1> HIDE DEF T
<1>5. Nat \subseteq T
  BY <1>3, <1>4, NatSetInduction
<1>6. \A i \in 0..Len(q) + 1 : i \in Nat /\ i <= Len(q) + 1
  BY <1>1
<1> QED
  BY <1>5, <1>6 DEF T, at, R

\* The walk at is back at h after m + 1 steps, and not before.
LEMMA FirstBack ==
    ASSUME NEW at, NEW h, NEW m \in Nat, NEW n \in Nat, m + 1 <= n,
           at[m + 1] = h, \A i \in 1..m : at[i] # h
    PROVE  (CHOOSE i \in 1..n : at[i] = h /\ \A j \in 1..i - 1 : at[j] # h) = m + 1
<1>1. m + 1 \in 1..n /\ 1..m + 1 - 1 = 1..m
  OBVIOUS
<1>2. ASSUME NEW i \in 1..n, at[i] = h, \A j \in 1..i - 1 : at[j] # h
      PROVE  i = m + 1
  <2>1. i \notin 1..m
    BY <1>2
  <2>2. m + 1 < i => m + 1 \in 1..i - 1
    OBVIOUS
  <2> QED
    BY <1>2, <2>1, <2>2
<1>3. at[m + 1] = h /\ \A j \in 1..m + 1 - 1 : at[j] # h
  BY <1>1
<1> QED
  BY <1>1, <1>2, <1>3

\* A walk along the ring of q comes back, having met q.
LEMMA WalkMeets ==
    ASSUME NEW N, IsFiniteSet(N), NEW link, DOMAIN link = N,
           NEW h \in N, NEW q \in Seq(N), IsInjective(q), h \notin Range(q),
           \A i \in 0..Len(q) : link[Ring(h, q)[i]] = Ring(h, q)[i + 1]
    PROVE  Circular(link, h) /\ EntriesOf(link, h) = q
<1> DEFINE R == Ring(h, q)
           m == Len(q)
           n == Cardinality(N)
           at == Walk(link, h, n)
           back == CHOOSE i \in 1..n : at[i] = h /\ \A j \in 1..i - 1 : at[j] # h
<1>0. EntriesOf(link, h) = [i \in 1..back - 1 |-> at[i]]
  BY DEF EntriesOf
<1> HIDE DEF back
<1>1. /\ m \in Nat /\ R[m + 1] = h
      /\ \A i \in 1..m : R[i] = q[i] /\ q[i] # h
      /\ \A i \in 0..m : R[i] \in N
  <2>1. \A i \in 0..m : i \in 1..m \/ i = 0
    BY RingProperty
  <2> QED
    BY <2>1, RingProperty
<1>2. n \in Nat /\ m + 1 <= n
  BY RingFits
<1>3. ASSUME NEW k \in Nat, m + 1 <= k
      PROVE  \A i \in 0..m + 1 : Walk(link, h, k)[i] = R[i]
  BY <1>1, <1>3, WalkAround
<1>4. Circular(link, h)
  <2>1. m + 1 \in 1..n /\ m + 1 \in Nat /\ m + 1 \in 0..m + 1 /\ m + 1 <= m + 1
    BY <1>1, <1>2
  <2>2. Walk(link, h, m + 1)[m + 1] = h
    BY <1>1, <1>3, <2>1
  <2> HIDE DEF m
  <2> QED
    BY <2>1, <2>2 DEF Circular
<1>5. \A i \in 0..m + 1 : at[i] = R[i]
  BY <1>2, <1>3
<1>6. \A i \in 1..m : at[i] = q[i] /\ at[i] # h
  BY <1>1, <1>5
<1>7. at[m + 1] = h /\ m + 1 \in 1..n
  BY <1>1, <1>2, <1>5
<1>8. back = m + 1
  <2> HIDE DEF m, n, at
  <2> QED
    BY <1>1, <1>2, <1>6, <1>7, FirstBack DEF back
<1>9. EntriesOf(link, h) = [i \in 1..m + 1 - 1 |-> at[i]]
  BY <1>0, <1>8
<1>10. [i \in 1..m + 1 - 1 |-> at[i]] = [i \in 1..m |-> q[i]]
  <2> HIDE DEF m, n, at
  <2> QED
    BY <1>1, <1>6
<1>11. q = [i \in 1..m |-> q[i]]
  BY LenProperties
<1> QED
  BY <1>4, <1>9, <1>10, <1>11


----------------------------------------------------------------------------
(* Rings of nodes R[0], ..., R[m + 1], and what each rearrangement needs   *)
(* of the two pointers of every node.                                      *)

\* R is the ring of h and the first n places of q.
IsRing(R, h, q, n) == \A i \in 0..n + 1 : R[i] = IF i \in 1..n THEN q[i] ELSE h

\* The pointers go around the ring, in both directions.
Around(next, prev, R, m) ==
    \A i \in 0..m : next[R[i]] = R[i + 1] /\ prev[R[i + 1]] = R[i]

\* The ends are one node, and no other node occurs twice; all are in N.
Simple(R, m, N) ==
    /\ R[0] = R[m + 1] /\ \A i \in 0..m + 1 : R[i] \in N
    /\ \A i, j \in 0..m : R[i] = R[j] => i = j
    /\ \A i, j \in 1..m + 1 : R[i] = R[j] => i = j

\* Two functions agree on N except on D.
Agree(f, g, N, D) == \A x \in N \ D : f[x] = g[x]

\* S is the ring R with e behind place k.
RingInserted(S, R, n, k, e) ==
    \A i \in 0..n + 2 : S[i] = IF i <= k THEN R[i] ELSE IF i = k + 1 THEN e ELSE R[i - 1]

\* e comes after R[k].
LEMMA InsertInRing ==
    ASSUME NEW N, NEW next, NEW prev, NEW next2, NEW prev2, NEW R, NEW S, NEW e,
           NEW m \in Nat, NEW k \in 0..m,
           Around(next, prev, R, m), Simple(R, m, N), \A i \in 0..m + 1 : R[i] # e,
           Agree(next2, next, N, {R[k], e}), Agree(prev2, prev, N, {R[k + 1], e}),
           next2[R[k]] = e, prev2[e] = R[k], next2[e] = R[k + 1], prev2[R[k + 1]] = e,
           RingInserted(S, R, m, k, e)
    PROVE  Around(next2, prev2, S, m + 1)
<1> SUFFICES ASSUME NEW i \in 0..m + 1
             PROVE  next2[S[i]] = S[i + 1] /\ prev2[S[i + 1]] = S[i]
  BY DEF Around
<1>1. i \in 0..m + 2 /\ i + 1 \in 0..m + 2
  OBVIOUS
<1>2. CASE i < k
  <2>1. S[i] = R[i] /\ S[i + 1] = R[i + 1]
    BY <1>1, <1>2 DEF RingInserted
  <2>2. i \in 0..m /\ i # k /\ i + 1 # k + 1 /\ i + 1 \in 1..m + 1 /\ k + 1 \in 1..m + 1
    BY <1>2
  <2>3. R[i] \in N \ {R[k], e} /\ R[i + 1] \in N \ {R[k + 1], e}
    BY <2>2 DEF Simple
  <2> QED
    BY <2>1, <2>2, <2>3 DEF Agree, Around
<1>3. CASE i = k
  BY <1>1, <1>3 DEF RingInserted
<1>4. CASE i = k + 1
  BY <1>1, <1>4 DEF RingInserted
<1>5. CASE i > k + 1
  <2>1. S[i] = R[i - 1] /\ S[i + 1] = R[i]
    BY <1>1, <1>5 DEF RingInserted
  <2>2. /\ i - 1 \in 0..m /\ i - 1 # k /\ i # k + 1 /\ i \in 1..m + 1
        /\ k + 1 \in 1..m + 1 /\ i - 1 + 1 = i
    BY <1>5
  <2>3. R[i - 1] \in N \ {R[k], e} /\ R[i] \in N \ {R[k + 1], e}
    BY <2>2 DEF Simple
  <2>4. next[R[i - 1]] = R[i] /\ prev[R[i]] = R[i - 1]
    BY <2>2 DEF Around
  <2> QED
    BY <2>1, <2>3, <2>4 DEF Agree
<1> QED
  BY <1>2, <1>3, <1>4, <1>5

\* S is the ring R without place k.
RingRemoved(S, R, n, k) == \A i \in 0..n : S[i] = IF i < k THEN R[i] ELSE R[i + 1]

\* R[k] goes.
LEMMA RemoveFromRing ==
    ASSUME NEW N, NEW next, NEW prev, NEW next2, NEW prev2, NEW R, NEW S,
           NEW m \in Nat, NEW k \in 1..m,
           Around(next, prev, R, m), Simple(R, m, N),
           Agree(next2, next, N, {R[k - 1], R[k]}), Agree(prev2, prev, N, {R[k], R[k + 1]}),
           next2[R[k - 1]] = R[k + 1], prev2[R[k + 1]] = R[k - 1],
           RingRemoved(S, R, m, k)
    PROVE  Around(next2, prev2, S, m - 1)
<1> SUFFICES ASSUME NEW i \in 0..m - 1
             PROVE  next2[S[i]] = S[i + 1] /\ prev2[S[i + 1]] = S[i]
  BY DEF Around
<1>1. i \in 0..m /\ i + 1 \in 0..m
  OBVIOUS
<1>2. CASE i < k - 1
  <2>1. S[i] = R[i] /\ S[i + 1] = R[i + 1]
    BY <1>1, <1>2 DEF RingRemoved
  <2>2. /\ i # k /\ i # k - 1 /\ i + 1 # k + 1 /\ i + 1 # k
        /\ i + 1 \in 1..m + 1 /\ k + 1 \in 1..m + 1 /\ k - 1 \in 0..m /\ k \in 0..m
        /\ k \in 1..m + 1
    BY <1>2
  <2>3. R[i] \in N \ {R[k - 1], R[k]} /\ R[i + 1] \in N \ {R[k], R[k + 1]}
    BY <1>1, <2>2 DEF Simple
  <2> QED
    BY <1>1, <2>1, <2>3 DEF Agree, Around
<1>3. CASE i = k - 1
  BY <1>1, <1>3 DEF RingRemoved
<1>4. CASE i > k - 1
  <2>1. S[i] = R[i + 1] /\ S[i + 1] = R[i + 1 + 1]
    BY <1>1, <1>4 DEF RingRemoved
  <2>2. /\ i + 1 # k /\ i + 1 # k - 1 /\ i + 1 + 1 # k + 1 /\ i + 1 + 1 # k
        /\ i + 1 \in 0..m /\ i + 1 + 1 \in 1..m + 1 /\ k + 1 \in 1..m + 1
        /\ k - 1 \in 0..m /\ k \in 0..m /\ k \in 1..m + 1
    BY <1>4
  <2>3. R[i + 1] \in N \ {R[k - 1], R[k]} /\ R[i + 1 + 1] \in N \ {R[k], R[k + 1]}
    BY <2>2 DEF Simple
  <2>4. next[R[i + 1]] = R[i + 1 + 1] /\ prev[R[i + 1 + 1]] = R[i + 1]
    BY <2>2 DEF Around
  <2> QED
    BY <2>1, <2>3, <2>4 DEF Agree
<1> QED
  BY <1>2, <1>3, <1>4

\* S is the ring R with e in place k.
RingReplaced(S, R, n, k, e) == \A i \in 0..n + 1 : S[i] = IF i = k THEN e ELSE R[i]

\* e takes the place of R[k].
LEMMA ReplaceInRing ==
    ASSUME NEW N, NEW next, NEW prev, NEW next2, NEW prev2, NEW R, NEW S, NEW e,
           NEW m \in Nat, NEW k \in 1..m,
           Around(next, prev, R, m), Simple(R, m, N), \A i \in 0..m + 1 : R[i] # e,
           Agree(next2, next, N, {R[k - 1], R[k], e}),
           Agree(prev2, prev, N, {R[k], R[k + 1], e}),
           next2[R[k - 1]] = e, prev2[e] = R[k - 1], next2[e] = R[k + 1], prev2[R[k + 1]] = e,
           RingReplaced(S, R, m, k, e)
    PROVE  Around(next2, prev2, S, m)
<1> SUFFICES ASSUME NEW i \in 0..m
             PROVE  next2[S[i]] = S[i + 1] /\ prev2[S[i + 1]] = S[i]
  BY DEF Around
<1>1. i \in 0..m + 1 /\ i + 1 \in 0..m + 1 /\ i + 1 \in 1..m + 1
  OBVIOUS
<1>2. CASE i = k
  BY <1>1, <1>2 DEF RingReplaced
<1>3. CASE i = k - 1
  BY <1>1, <1>3 DEF RingReplaced
<1>4. CASE i # k /\ i # k - 1
  <2>1. S[i] = R[i] /\ S[i + 1] = R[i + 1]
    BY <1>1, <1>4 DEF RingReplaced
  <2>2. /\ i + 1 # k + 1 /\ i + 1 # k
        /\ k + 1 \in 1..m + 1 /\ k - 1 \in 0..m /\ k \in 0..m /\ k \in 1..m + 1
    BY <1>4
  <2>3. R[i] \in N \ {R[k - 1], R[k], e} /\ R[i + 1] \in N \ {R[k], R[k + 1], e}
    BY <1>1, <1>4, <2>2 DEF Simple
  <2> QED
    BY <2>1, <2>3 DEF Agree, Around
<1> QED
  BY <1>2, <1>3, <1>4


\* S is the ring R with the places from a to b at the end.
RingBulked(S, R, m, a, b) ==
    \A i \in 0..m + 1 : S[i] = IF i < a \/ i = m + 1 THEN R[i]
                               ELSE IF i < a + (m - b) THEN R[i + (b - a) + 1]
                               ELSE R[i - (m - b)]

\* R[a], ..., R[b] go to the end, behind R[m].
LEMMA BulkInRing ==
    ASSUME NEW N, NEW next, NEW prev, NEW next2, NEW prev2, NEW R, NEW S,
           NEW m \in Nat, NEW a \in 1..m, NEW b \in a..m - 1,
           Around(next, prev, R, m), Simple(R, m, N),
           Agree(next2, next, N, {R[a - 1], R[m], R[b]}),
           Agree(prev2, prev, N, {R[b + 1], R[a], R[m + 1]}),
           next2[R[a - 1]] = R[b + 1], prev2[R[b + 1]] = R[a - 1],
           next2[R[m]] = R[a], prev2[R[a]] = R[m],
           next2[R[b]] = R[m + 1], prev2[R[m + 1]] = R[b],
           RingBulked(S, R, m, a, b)
    PROVE  Around(next2, prev2, S, m)
<1> SUFFICES ASSUME NEW i \in 0..m
             PROVE  next2[S[i]] = S[i + 1] /\ prev2[S[i + 1]] = S[i]
  BY DEF Around
<1>0. /\ i \in 0..m + 1 /\ i + 1 \in 0..m + 1 /\ a \in Nat /\ b \in Nat /\ a <= b /\ b < m
      /\ 1 <= a
  OBVIOUS
<1>1. ASSUME NEW j \in 0..m, j \notin {a - 1, m, b}
      PROVE  next2[R[j]] = R[j + 1] /\ prev2[R[j + 1]] = R[j]
  <2>1. /\ j + 1 \notin {a, m + 1, b + 1} /\ j + 1 \in 1..m + 1
        /\ a - 1 \in 0..m /\ m \in 0..m /\ b \in 0..m
        /\ a \in 1..m + 1 /\ m + 1 \in 1..m + 1 /\ b + 1 \in 1..m + 1
    BY <1>0, <1>1
  <2>2. R[j] \in N \ {R[a - 1], R[m], R[b]} /\ R[j + 1] \in N \ {R[b + 1], R[a], R[m + 1]}
    BY <1>1, <2>1 DEF Simple
  <2> QED
    BY <2>2 DEF Agree, Around
<1>2. CASE i < a - 1
  <2>1. S[i] = R[i] /\ S[i + 1] = R[i + 1]
    BY <1>0, <1>2 DEF RingBulked
  <2>2. i \in 0..m /\ i \notin {a - 1, m, b}
    BY <1>0, <1>2
  <2> QED
    BY <1>1, <2>1, <2>2
<1>3. CASE i = a - 1
  <2>1. S[i] = R[a - 1] /\ S[i + 1] = R[a + (b - a) + 1] /\ a + (b - a) + 1 = b + 1
    BY <1>0, <1>3 DEF RingBulked
  <2> QED
    BY <2>1
<1>4. CASE a <= i /\ i < a + (m - b) - 1
  <2>1. S[i] = R[i + (b - a) + 1] /\ S[i + 1] = R[i + 1 + (b - a) + 1]
    BY <1>0, <1>4 DEF RingBulked
  <2>2. PICK j \in 0..m : j = i + (b - a) + 1 /\ j \notin {a - 1, m, b}
    BY <1>0, <1>4
  <2>3. i + 1 + (b - a) + 1 = j + 1
    BY <1>0, <2>2
  <2> QED
    BY <1>1, <2>1, <2>2, <2>3
<1>5. CASE i = a + (m - b) - 1
  <2>1. i + (b - a) + 1 = m /\ i + 1 - (m - b) = a
    BY <1>0, <1>5
  <2>2. S[i] = R[m] /\ S[i + 1] = R[a]
    BY <1>0, <1>5, <2>1 DEF RingBulked
  <2> QED
    BY <2>2
<1>6. CASE a + (m - b) <= i /\ i < m
  <2>1. S[i] = R[i - (m - b)] /\ S[i + 1] = R[i + 1 - (m - b)]
    <3>1. /\ ~(i < a \/ i = m + 1) /\ ~(i < a + (m - b))
          /\ ~(i + 1 < a \/ i + 1 = m + 1) /\ ~(i + 1 < a + (m - b))
      BY <1>0, <1>6
    <3> QED
      BY <1>0, <3>1 DEF RingBulked
  <2>2. PICK j \in 0..m : j = i - (m - b) /\ j \notin {a - 1, m, b}
    BY <1>0, <1>6
  <2>3. i + 1 - (m - b) = j + 1
    BY <1>0, <2>2
  <2> QED
    BY <1>1, <2>1, <2>2, <2>3
<1>7. CASE i = m
  <2>1. S[i] = R[i - (m - b)] /\ i - (m - b) = b /\ S[i + 1] = R[m + 1]
    BY <1>0, <1>7 DEF RingBulked
  <2> QED
    BY <2>1
<1> QED
  BY <1>0, <1>2, <1>3, <1>4, <1>5, <1>6, <1>7

\* S is the ring R with its end before place k.
RingRotated(S, R, m, k) ==
    \A i \in 0..m + 1 : S[i] = IF i = 0 \/ i = m + 1 THEN R[0]
                               ELSE IF i <= m - k + 1 THEN R[i + k - 1]
                               ELSE R[i - (m - k + 1)]

\* The head R[0] leaves its place and goes before R[k].
LEMMA HeadInRing ==
    ASSUME NEW N, NEW next, NEW prev, NEW next2, NEW prev2, NEW R, NEW S,
           NEW m \in Nat, NEW k \in 2..m,
           Around(next, prev, R, m), Simple(R, m, N),
           Agree(next2, next, N, {R[0], R[m], R[k - 1]}),
           Agree(prev2, prev, N, {R[0], R[1], R[k]}),
           next2[R[m]] = R[1], prev2[R[1]] = R[m],
           next2[R[0]] = R[k], prev2[R[k]] = R[0],
           next2[R[k - 1]] = R[0], prev2[R[0]] = R[k - 1],
           RingRotated(S, R, m, k)
    PROVE  Around(next2, prev2, S, m)
<1> SUFFICES ASSUME NEW i \in 0..m
             PROVE  next2[S[i]] = S[i + 1] /\ prev2[S[i + 1]] = S[i]
  BY DEF Around
<1>0. i \in 0..m + 1 /\ i + 1 \in 0..m + 1 /\ k \in Nat /\ 2 <= k /\ k <= m
  OBVIOUS
<1>1. ASSUME NEW j \in 1..m - 1, j # k - 1
      PROVE  next2[R[j]] = R[j + 1] /\ prev2[R[j + 1]] = R[j]
  <2>1. /\ j \notin {0, m} /\ j + 1 \notin {m + 1, 1, k} /\ j + 1 \in 1..m + 1 /\ j \in 0..m
        /\ 0 \in 0..m /\ m \in 0..m /\ k - 1 \in 0..m
        /\ m + 1 \in 1..m + 1 /\ 1 \in 1..m + 1 /\ k \in 1..m + 1
    BY <1>0, <1>1
  <2>2. R[j] \in N \ {R[0], R[m], R[k - 1]} /\ R[j + 1] \in N \ {R[m + 1], R[1], R[k]}
    BY <1>1, <2>1 DEF Simple
  <2>3. R[m + 1] = R[0]
    BY DEF Simple
  <2>4. next[R[j]] = R[j + 1] /\ prev[R[j + 1]] = R[j]
    BY <2>1 DEF Around
  <2> QED
    BY <2>2, <2>3, <2>4 DEF Agree
<1>2. CASE i = 0
  <2>1. S[0] = R[0] /\ S[1] = R[1 + k - 1] /\ 1 + k - 1 = k
    BY <1>0 DEF RingRotated
  <2> QED
    BY <1>2, <2>1
<1>3. CASE 1 <= i /\ i < m - k + 1
  <2>1. S[i] = R[i + k - 1] /\ S[i + 1] = R[i + 1 + k - 1]
    BY <1>0, <1>3 DEF RingRotated
  <2>2. PICK j \in 1..m - 1 : j = i + k - 1 /\ j # k - 1
    BY <1>0, <1>3
  <2>3. i + 1 + k - 1 = j + 1
    BY <1>0, <2>2
  <2> QED
    BY <1>1, <2>1, <2>2, <2>3
<1>4. CASE i = m - k + 1
  <2>1. i + k - 1 = m /\ i + 1 - (m - k + 1) = 1 /\ i # 0 /\ i + 1 # m + 1
    BY <1>0, <1>4
  <2>2. S[i] = R[m] /\ S[i + 1] = R[1]
    BY <1>0, <1>4, <2>1 DEF RingRotated
  <2> QED
    BY <2>2
<1>5. CASE m - k + 1 < i /\ i < m
  <2>1. S[i] = R[i - (m - k + 1)] /\ S[i + 1] = R[i + 1 - (m - k + 1)]
    BY <1>0, <1>5 DEF RingRotated
  <2>2. PICK j \in 1..m - 1 : j = i - (m - k + 1) /\ j # k - 1
    BY <1>0, <1>5
  <2>3. i + 1 - (m - k + 1) = j + 1
    BY <1>0, <2>2
  <2> QED
    BY <1>1, <2>1, <2>2, <2>3
<1>6. CASE i = m /\ m - k + 1 < m
  <2>1. i - (m - k + 1) = k - 1 /\ S[i + 1] = R[0]
    BY <1>0, <1>6 DEF RingRotated
  <2>2. S[i] = R[k - 1]
    BY <1>0, <1>6, <2>1 DEF RingRotated
  <2> QED
    BY <2>1, <2>2
<1> QED
  BY <1>0, <1>2, <1>3, <1>4, <1>5, <1>6

\* S is the ring R with the nodes of A behind place k; no node is in R and A.
RingJoined(S, R, A, m, a, k) ==
    \A i \in 0..m + a + 1 : S[i] = IF i <= k THEN R[i]
                                   ELSE IF i <= k + a THEN A[i - k]
                                   ELSE R[i - a]
RingsApart(R, m, A, a) == \A i \in 0..m + 1, j \in 0..a + 1 : R[i] # A[j]

\* The nodes A[1], ..., A[a] of another ring go behind R[k].
LEMMA JoinRings ==
    ASSUME NEW N, NEW next, NEW prev, NEW next2, NEW prev2, NEW R, NEW S, NEW A,
           NEW m \in Nat, NEW k \in 0..m, NEW a \in Nat \ {0},
           Around(next, prev, R, m), Simple(R, m, N),
           Around(next, prev, A, a), Simple(A, a, N),
           RingsApart(R, m, A, a),
           Agree(next2, next, N, {R[k], A[a], A[0]}),
           Agree(prev2, prev, N, {R[k + 1], A[1], A[0]}),
           next2[R[k]] = A[1], prev2[A[1]] = R[k],
           next2[A[a]] = R[k + 1], prev2[R[k + 1]] = A[a],
           RingJoined(S, R, A, m, a, k)
    PROVE  Around(next2, prev2, S, m + a)
<1>00. /\ \A i \in 0..m + 1, j \in 0..a + 1 : R[i] # A[j]
       /\ \A i \in 0..m + a + 1 : S[i] = IF i <= k THEN R[i]
                                          ELSE IF i <= k + a THEN A[i - k]
                                          ELSE R[i - a]
  BY DEF RingsApart, RingJoined
<1> USE <1>00
<1> SUFFICES ASSUME NEW i \in 0..m + a
             PROVE  next2[S[i]] = S[i + 1] /\ prev2[S[i + 1]] = S[i]
  BY DEF Around
<1>0. i \in 0..m + a + 1 /\ i + 1 \in 0..m + a + 1 /\ k \in Nat /\ k <= m /\ 1 <= a
  OBVIOUS
<1>1. ASSUME NEW j \in 0..m, j # k
      PROVE  next2[R[j]] = R[j + 1] /\ prev2[R[j + 1]] = R[j]
  <2>1. /\ j + 1 # k + 1 /\ j + 1 \in 1..m + 1 /\ k + 1 \in 1..m + 1
        /\ j \in 0..m + 1 /\ j + 1 \in 0..m + 1
        /\ 0 \in 0..a + 1 /\ 1 \in 0..a + 1 /\ a \in 0..a + 1
    BY <1>0, <1>1
  <2>2. R[j] \in N \ {R[k], A[a], A[0]} /\ R[j + 1] \in N \ {R[k + 1], A[1], A[0]}
    BY <1>1, <2>1 DEF Simple
  <2>3. next[R[j]] = R[j + 1] /\ prev[R[j + 1]] = R[j]
    BY <2>1 DEF Around
  <2> QED
    BY <2>2, <2>3 DEF Agree
<1>2. ASSUME NEW j \in 1..a - 1
      PROVE  next2[A[j]] = A[j + 1] /\ prev2[A[j + 1]] = A[j]
  <2>1. /\ j \notin {0, a} /\ j + 1 \notin {1, a + 1} /\ j + 1 \in 1..a + 1 /\ a + 1 \in 1..a + 1
        /\ j \in 0..a + 1 /\ j + 1 \in 0..a + 1 /\ 1 \in 1..a + 1 /\ a \in 0..a /\ 0 \in 0..a
        /\ j \in 0..a /\ k \in 0..m + 1 /\ k + 1 \in 0..m + 1
    BY <1>0
  <2>2. R[k] # A[j] /\ R[k + 1] # A[j + 1] /\ A[0] = A[a + 1]
    BY <2>1 DEF Simple
  <2>3. A[j] \in N \ {R[k], A[a], A[0]} /\ A[j + 1] \in N \ {R[k + 1], A[1], A[0]}
    BY <2>1, <2>2 DEF Simple
  <2>4. next[A[j]] = A[j + 1] /\ prev[A[j + 1]] = A[j]
    BY <2>1 DEF Around
  <2> QED
    BY <2>3, <2>4 DEF Agree
<1>3. CASE i < k
  BY <1>0, <1>1, <1>3
<1>4. CASE i = k
  <2>1. S[i] = R[k] /\ S[i + 1] = A[k + 1 - k] /\ k + 1 - k = 1
    BY <1>0, <1>4
  <2> QED
    BY <2>1
<1>5. CASE k < i /\ i < k + a
  <2>1. S[i] = A[i - k] /\ S[i + 1] = A[i + 1 - k]
    BY <1>0, <1>5
  <2>2. i - k \in 1..a - 1 /\ i + 1 - k = i - k + 1
    BY <1>0, <1>5
  <2> QED
    BY <1>2, <2>1, <2>2
<1>6. CASE i = k + a
  <2>1. S[i] = A[a] /\ S[i + 1] = R[k + 1]
    <3>1. i - k = a /\ i + 1 - a = k + 1 /\ ~(i <= k) /\ ~(i + 1 <= k) /\ ~(i + 1 <= k + a)
      BY <1>0, <1>6
    <3> QED
      BY <1>0, <1>6, <3>1
  <2> QED
    BY <2>1
<1>7. CASE k + a < i
  <2>1. S[i] = R[i - a] /\ S[i + 1] = R[i + 1 - a]
    BY <1>0, <1>7
  <2>2. i - a \in 0..m /\ i - a # k /\ i + 1 - a = i - a + 1
    BY <1>0, <1>7
  <2> QED
    BY <1>1, <2>1, <2>2
<1> QED
  BY <1>0, <1>3, <1>4, <1>5, <1>6, <1>7

\* S is the ring R without its places from 1 to k.
RingRest(S, R, m, k) ==
    \A i \in 0..m - k + 1 : S[i] = IF i = 0 THEN R[0] ELSE R[k + i]

\* The nodes R[1], ..., R[k] become the ring of g.
LEMMA CutRing ==
    ASSUME NEW N, NEW next, NEW prev, NEW next2, NEW prev2, NEW R, NEW S, NEW A, NEW g,
           NEW m \in Nat, NEW k \in 1..m,
           Around(next, prev, R, m), Simple(R, m, N), \A i \in 0..m + 1 : R[i] # g,
           Agree(next2, next, N, {R[0], R[k], g}), Agree(prev2, prev, N, {R[1], R[k + 1], g}),
           next2[g] = R[1], prev2[R[1]] = g, next2[R[k]] = g, prev2[g] = R[k],
           next2[R[0]] = R[k + 1], prev2[R[k + 1]] = R[0],
           IsRing(A, g, R, k), RingRest(S, R, m, k)
    PROVE  Around(next2, prev2, A, k) /\ Around(next2, prev2, S, m - k)
<1>00. /\ \A i \in 0..k + 1 : A[i] = IF i \in 1..k THEN R[i] ELSE g
       /\ \A i \in 0..m - k + 1 : S[i] = IF i = 0 THEN R[0] ELSE R[k + i]
  BY DEF IsRing, RingRest
<1> USE <1>00
<1>0. k \in Nat /\ 1 <= k /\ k <= m
  OBVIOUS
<1>1. ASSUME NEW j \in 1..m, j # k
      PROVE  next2[R[j]] = R[j + 1] /\ prev2[R[j + 1]] = R[j]
  <2>1. /\ j # 0 /\ j + 1 # 1 /\ j + 1 # k + 1 /\ j + 1 \in 1..m + 1 /\ j \in 0..m + 1
        /\ k + 1 \in 1..m + 1 /\ 1 \in 1..m + 1 /\ j + 1 \in 0..m + 1 /\ j \in 0..m /\ k \in 0..m
        /\ 0 \in 0..m
    BY <1>0, <1>1
  <2>2. R[j] \in N \ {R[0], R[k], g} /\ R[j + 1] \in N \ {R[1], R[k + 1], g}
    BY <1>1, <2>1 DEF Simple
  <2>3. next[R[j]] = R[j + 1] /\ prev[R[j + 1]] = R[j]
    BY <2>1 DEF Around
  <2> QED
    BY <2>2, <2>3 DEF Agree
<1>2. ASSUME NEW i \in 0..k PROVE next2[A[i]] = A[i + 1] /\ prev2[A[i + 1]] = A[i]
  <2>1. i \in 0..k + 1 /\ i + 1 \in 0..k + 1
    BY <1>0
  <2>2. CASE i = 0
    BY <1>0, <2>1, <2>2
  <2>3. CASE i \in 1..k - 1
    <3>1. A[i] = R[i] /\ A[i + 1] = R[i + 1] /\ i \in 1..m /\ i # k
      BY <1>0, <2>1, <2>3
    <3> QED
      BY <1>1, <3>1
  <2>4. CASE i = k
    BY <1>0, <2>1, <2>4
  <2> QED
    BY <1>0, <2>2, <2>3, <2>4
<1>3. ASSUME NEW i \in 0..m - k PROVE next2[S[i]] = S[i + 1] /\ prev2[S[i + 1]] = S[i]
  <2>1. i \in 0..m - k + 1 /\ i + 1 \in 0..m - k + 1
    BY <1>0
  <2>2. CASE i = 0
    BY <1>0, <2>1, <2>2
  <2>3. CASE i # 0
    <3>1. S[i] = R[k + i] /\ S[i + 1] = R[k + (i + 1)] /\ k + (i + 1) = k + i + 1
      BY <1>0, <2>1, <2>3
    <3>2. k + i \in 1..m /\ k + i # k
      BY <1>0, <2>3
    <3> QED
      BY <1>1, <3>1, <3>2
  <2> QED
    BY <2>2, <2>3
<1> QED
  BY <1>2, <1>3 DEF Around


----------------------------------------------------------------------------
(* Several lists in one memory.                                            *)

Memories(N, V) == [next : [N -> V], prev : [N -> V]]

\* Memory m is l with next written in A and prev in B.
Writes(m, l, N, V, A, B) ==
    m \in Memories(N, V) /\ Agree(m.next, l.next, N, A) /\ Agree(m.prev, l.prev, N, B)

\* ... and the pairs of J have become neighbours.
Rewires(m, l, N, V, A, B, J) ==
    Writes(m, l, N, V, A, B) /\ \A j \in J : m.next[j[1]] = j[2] /\ m.prev[j[2]] = j[1]

\* The entries of all lists Q; the nodes of those that are not of H.
Listed(Q) == UNION {Range(Q[h]) : h \in DOMAIN Q}
Others(Q, H) == UNION {{h} \cup Range(Q[h]) : h \in DOMAIN Q \ H}

\* No entry occurs twice.
Apart(Q) ==
    \A g, h \in DOMAIN Q : \A i \in 1..Len(Q[g]), j \in 1..Len(Q[h]) :
        Q[g][i] = Q[h][j] => g = h /\ i = j

\* The first n places of q are of A, and differ.
Among(q, n, A) == \A i \in 1..n : q[i] \in A
NoRepeats(q, n) == \A i, j \in 1..n : q[i] = q[j] => i = j

\* In memory l, the list of head h has the entries q, of E.
ListIn(l, h, q, N, E) ==
    /\ E \subseteq N /\ h \in N \ E /\ q \in Seq(E)
    /\ NoRepeats(q, Len(q)) /\ Around(l.next, l.prev, Ring(h, q), Len(q))

\* Memory l of the nodes N holds the lists Q[h] of the heads h.
Holds(l, Q, N, V) ==
    /\ N \subseteq V /\ l \in Memories(N, V) /\ Apart(Q)
    /\ \A h \in DOMAIN Q : ListIn(l, h, Q[h], N, N \ DOMAIN Q)
    /\ Q \in [DOMAIN Q -> Seq(N \ DOMAIN Q)]

\* The ring of a list.
LEMMA ListRing ==
    ASSUME NEW l, NEW h, NEW q, NEW N, NEW E, ListIn(l, h, q, N, E),
           NEW R, R = Ring(h, q), NEW n, n = Len(q)
    PROVE  /\ n \in Nat /\ R[0] = h /\ R[n + 1] = h
           /\ IsRing(R, h, q, n)
           /\ \A i \in 0..n + 1 : R[i] \in {h} \cup Range(q) /\ R[i] \in N
           /\ Around(l.next, l.prev, R, n) /\ Simple(R, n, N)
<1>1. /\ h \in N /\ q \in Seq(E) /\ h \notin E /\ E \subseteq N
      /\ NoRepeats(q, Len(q))
      /\ Around(l.next, l.prev, R, n)
  BY DEF ListIn
<1>2. n \in Nat /\ DOMAIN q = 1..n /\ \A i \in 1..n : q[i] \in E
  BY <1>1, LenProperties
<1>3. IsInjective(q) /\ h \notin Range(q)
  BY <1>1, <1>2 DEF IsInjective, Range, NoRepeats
<1>4. \A i \in 0..n + 1 : R[i] = IF i \in 1..n THEN q[i] ELSE h
  BY DEF Ring
<1>5. R[0] = h /\ R[n + 1] = h
  BY <1>2, <1>4
<1>6. \A i \in 0..n + 1 : R[i] \in {h} \cup Range(q) /\ R[i] \in N
  BY <1>1, <1>2, <1>4 DEF Range
<1>7. /\ \A i, j \in 0..n : R[i] = R[j] => i = j
      /\ \A i, j \in 1..n + 1 : R[i] = R[j] => i = j
  BY <1>1, <1>3, RingInjective
<1>8. Simple(R, n, N)
  BY <1>5, <1>6, <1>7 DEF Simple
<1> QED
  BY <1>1, <1>2, <1>4, <1>5, <1>6, <1>8 DEF IsRing

\* Its entries.
LEMMA ListEntries ==
    ASSUME NEW l, NEW h, NEW q, NEW N, NEW E, ListIn(l, h, q, N, E)
    PROVE  /\ Len(q) \in Nat /\ DOMAIN q = 1..Len(q) /\ IsInjective(q)
           /\ Range(q) \subseteq E /\ E \subseteq N /\ h \in N \ E
           /\ Among(q, Len(q), Range(q)) /\ NoRepeats(q, Len(q))
           /\ \A x \in Range(q) : \E i \in 1..Len(q) : x = q[i]
<1>1. /\ E \subseteq N /\ h \in N \ E /\ q \in Seq(E)
      /\ NoRepeats(q, Len(q))
  BY DEF ListIn
<1>2. Len(q) \in Nat /\ DOMAIN q = 1..Len(q) /\ \A i \in 1..Len(q) : q[i] \in E
  BY <1>1, LenProperties
<1>3. IsInjective(q)
  BY <1>1, <1>2 DEF IsInjective, NoRepeats
<1>4. /\ Range(q) \subseteq E
      /\ Among(q, Len(q), Range(q))
      /\ \A x \in Range(q) : \E i \in 1..Len(q) : x = q[i]
  BY <1>2 DEF Range, Among
<1> QED
  BY <1>1, <1>2, <1>3, <1>4

\* The nodes of two lists differ.
LEMMA HeldApart ==
    ASSUME NEW l, NEW Q, NEW N, NEW V, Holds(l, Q, N, V),
           NEW g \in DOMAIN Q, NEW h \in DOMAIN Q, g # h
    PROVE  ({g} \cup Range(Q[g])) \cap ({h} \cup Range(Q[h])) = {}
<1>1. ASSUME NEW f \in DOMAIN Q
      PROVE  /\ Range(Q[f]) \cap DOMAIN Q = {}
             /\ \A x \in Range(Q[f]) : \E i \in 1..Len(Q[f]) : x = Q[f][i]
  <2>1. ListIn(l, f, Q[f], N, N \ DOMAIN Q)
    BY DEF Holds
  <2>2. PICK q : q = Q[f]
    OBVIOUS
  <2>3. /\ Range(q) \subseteq N \ DOMAIN Q
        /\ \A x \in Range(q) : \E i \in 1..Len(q) : x = q[i]
    BY <2>1, <2>2, ListEntries
  <2> QED
    BY <2>2, <2>3
<1>2. Range(Q[g]) \cap Range(Q[h]) = {}
  BY <1>1 DEF Holds, Apart
<1> QED
  BY <1>1, <1>2

\* The lists of H are in m those of P, made of nodes of D, the others those of Q.
Become(P, Q, H, m, N, D) ==
    /\ \A g \in DOMAIN Q \ H : P[g] = Q[g]
    /\ \A h \in H : ListIn(m, h, P[h], N, N \ DOMAIN Q) /\ Among(P[h], Len(P[h]), D)
    /\ \A g, h \in H : \A i \in 1..Len(P[g]), j \in 1..Len(P[h]) :
           P[g][i] = P[h][j] => g = h /\ i = j

\* The lists of H become those of P, made of nodes of no other list, and no
\* node of another list is touched.
LEMMA ListsChange ==
    ASSUME NEW l, NEW Q, NEW N, NEW V, Holds(l, Q, N, V),
           NEW H \in SUBSET DOMAIN Q, NEW D, Others(Q, H) \cap D = {},
           NEW m, Writes(m, l, N, V, D, D),
           NEW P \in [DOMAIN Q -> Seq(N \ DOMAIN Q)], Become(P, Q, H, m, N, D)
    PROVE  Holds(m, P, N, V)
<1>00. /\ \A g \in DOMAIN Q \ H : P[g] = Q[g]
       /\ \A h \in H : ListIn(m, h, P[h], N, N \ DOMAIN Q) /\ Among(P[h], Len(P[h]), D)
       /\ \A g, h \in H : \A i \in 1..Len(P[g]), j \in 1..Len(P[h]) :
               P[g][i] = P[h][j] => g = h /\ i = j
  BY DEF Become
<1> DEFINE E == N \ DOMAIN Q
<1>1. \A g \in DOMAIN Q \ H : {g} \cup Range(Q[g]) \subseteq Others(Q, H)
  BY DEF Others
<1>2. ASSUME NEW g \in DOMAIN Q \ H PROVE ListIn(m, g, P[g], N, E)
  <2>1. PICK q : q = Q[g]
    OBVIOUS
  <2>2. PICK R : R = Ring(g, q)
    OBVIOUS
  <2>3. PICK k : k = Len(q)
    OBVIOUS
  <2>4. ListIn(l, g, q, N, E)
    BY <2>1 DEF Holds
  <2>5. /\ k \in Nat /\ Around(l.next, l.prev, R, k)
        /\ \A i \in 0..k + 1 : R[i] \in {g} \cup Range(q) /\ R[i] \in N
    BY <2>2, <2>3, <2>4, ListRing
  <2>6. \A i \in 0..k + 1 : R[i] \in N \ D
    BY <1>1, <2>1, <2>5
  <2>7. \A i \in 0..k : R[i] \in N \ D /\ R[i + 1] \in N \ D
    BY <2>5, <2>6
  <2>8. Around(m.next, m.prev, R, k)
    BY <2>5, <2>7 DEF Around, Writes, Agree
  <2>9. P[g] = q
    BY <1>00, <2>1
  <2> QED
    BY <2>2, <2>3, <2>4, <2>8, <2>9 DEF ListIn
<1>3. \A h \in DOMAIN Q : ListIn(m, h, P[h], N, E)
  BY <1>00, <1>2
<1>4. \A g \in DOMAIN Q \ H : \A i \in 1..Len(P[g]) : P[g][i] \notin D
  <2> SUFFICES ASSUME NEW g \in DOMAIN Q \ H PROVE \A i \in 1..Len(P[g]) : P[g][i] \notin D
    OBVIOUS
  <2>1. PICK q : q = P[g]
    OBVIOUS
  <2>2. \A i \in 1..Len(q) : q[i] \in Range(q)
    BY <1>2, <2>1, ListEntries DEF Among
  <2> QED
    BY <1>00, <1>1, <2>1, <2>2
<1>5. Apart(P)
  <2> SUFFICES ASSUME NEW g \in DOMAIN Q, NEW h \in DOMAIN Q,
                      NEW i \in 1..Len(P[g]), NEW j \in 1..Len(P[h]), P[g][i] = P[h][j]
               PROVE  g = h /\ i = j
    BY DEF Apart
  <2>1. CASE g \in H /\ h \in H
    BY <1>00, <2>1
  <2>2. CASE g \notin H /\ h \notin H
    BY <1>00, <2>2 DEF Holds, Apart
  <2>3. CASE g \in H /\ h \notin H
    BY <1>00, <1>4, <2>3 DEF Among
  <2>4. CASE g \notin H /\ h \in H
    BY <1>00, <1>4, <2>4 DEF Among
  <2> QED
    BY <2>1, <2>2, <2>3, <2>4
<1>6. DOMAIN P = DOMAIN Q
  OBVIOUS
<1>7. N \subseteq V /\ m \in Memories(N, V)
  BY DEF Holds, Writes
<1> QED
  BY <1>3, <1>5, <1>6, <1>7 DEF Holds

----------------------------------------------------------------------------
(* What the calls write.                                                   *)

LEMMA InitWrites ==
    ASSUME NEW N, NEW V, N \subseteq V, NEW l \in Memories(N, V), NEW n \in N,
           NEW m, m = InitListHead(l, n)
    PROVE  Rewires(m, l, N, V, {n}, {n}, {<<n, n>>})
<1>1. /\ m = [next |-> [l.next EXCEPT ![n] = n], prev |-> [l.prev EXCEPT ![n] = n]]
      /\ l.next \in [N -> V] /\ l.prev \in [N -> V]
  BY DEF InitListHead, Memories
<1> QED
  BY <1>1 DEF Rewires, Writes, Memories, Agree

LEMMA BetweenWrites ==
    ASSUME NEW N, NEW V, N \subseteq V, NEW l \in Memories(N, V),
           NEW e \in N, NEW x \in N, NEW y \in N, x # e, y # e,
           NEW m, m = ListAddBetween(l, e, x, y)
    PROVE  Rewires(m, l, N, V, {x, e}, {y, e}, {<<x, e>>, <<e, y>>})
<1>1. /\ m = [next |-> [l.next EXCEPT ![e] = y, ![x] = e],
              prev |-> [l.prev EXCEPT ![y] = e, ![e] = x]]
      /\ l.next \in [N -> V] /\ l.prev \in [N -> V]
  BY DEF ListAddBetween, Memories
<1>2. /\ Writes(m, l, N, V, {x, e}, {y, e})
      /\ m.next[x] = e /\ m.prev[e] = x /\ m.next[e] = y /\ m.prev[y] = e
  BY <1>1 DEF Writes, Memories, Agree
<1> QED
  BY <1>2 DEF Rewires

LEMMA JoinWrites ==
    ASSUME NEW N, NEW V, N \subseteq V, NEW l \in Memories(N, V), NEW x \in N, NEW y \in N,
           NEW m, m = ListJoin(l, x, y)
    PROVE  Rewires(m, l, N, V, {x}, {y}, {<<x, y>>})
<1>1. /\ m = [next |-> [l.next EXCEPT ![x] = y], prev |-> [l.prev EXCEPT ![y] = x]]
      /\ l.next \in [N -> V] /\ l.prev \in [N -> V]
  BY DEF ListJoin, Memories
<1> QED
  BY <1>1 DEF Rewires, Writes, Memories, Agree

\* What an entry that leaves keeps of its own pointers does not matter.
LEMMA DelWrites ==
    ASSUME NEW N, NEW V, N \subseteq V, NEW nil \in V, NEW l \in Memories(N, V), NEW e \in N,
           NEW x \in N, NEW y \in N, x # e, y # e, l.prev[e] = x, l.next[e] = y,
           NEW m, m \in {ListDelEntry(l, e), ListDel(l, e, nil), ListDelInit(l, e)}
    PROVE  Rewires(m, l, N, V, {x, e}, {e, y}, {<<x, y>>})
<1>1. PICK d : d = ListDelEntry(l, e)
  OBVIOUS
<1>2. Rewires(d, l, N, V, {x}, {y}, {<<x, y>>})
  BY <1>1, JoinWrites DEF ListDelEntry
<1>3. /\ Writes(d, l, N, V, {x}, {y}) /\ d.next[x] = y /\ d.prev[y] = x
      /\ d \in Memories(N, V)
  BY <1>2 DEF Rewires, Writes
<1>4. /\ Writes(m, d, N, V, {e}, {e})
  <2>1. CASE m = d
    BY <1>3, <2>1 DEF Writes, Agree
  <2>2. CASE m = ListDel(l, e, nil)
    <3>1. m = [d EXCEPT !.next[e] = nil, !.prev[e] = nil]
      BY <1>1, <2>2 DEF ListDel
    <3>2. /\ m = [next |-> [d.next EXCEPT ![e] = nil], prev |-> [d.prev EXCEPT ![e] = nil]]
          /\ d.next \in [N -> V] /\ d.prev \in [N -> V]
      BY <1>3, <3>1 DEF Memories
    <3> QED
      BY <3>2 DEF Writes, Agree, Memories
  <2>3. CASE m = ListDelInit(l, e)
    <3>1. m = InitListHead(d, e)
      BY <1>1, <2>3 DEF ListDelInit
    <3> QED
      BY <1>3, <3>1, InitWrites DEF Rewires
  <2> QED
    BY <1>1, <2>1, <2>2, <2>3
<1>5. /\ Writes(m, l, N, V, {x, e}, {e, y}) /\ m.next[x] = y /\ m.prev[y] = x
  BY <1>3, <1>4 DEF Writes, Agree
<1> QED
  BY <1>5 DEF Rewires

LEMMA ReplaceWrites ==
    ASSUME NEW N, NEW V, N \subseteq V, NEW l \in Memories(N, V), NEW e \in N,
           NEW x \in N, NEW y \in N, x # e, y # e, l.prev[e] = x, l.next[e] = y,
           NEW f \in N, f \notin {e, x, y},
           NEW m, m \in {ListReplace(l, e, f), ListReplaceInit(l, e, f)}
    PROVE  Rewires(m, l, N, V, {x, e, f}, {e, y, f}, {<<x, f>>, <<f, y>>})
<1> DEFINE a == [l EXCEPT !.next[f] = l.next[e], !.prev[l.next[e]] = f]
           r == ListReplace(l, e, f)
<1>1. /\ a = [next |-> [l.next EXCEPT ![f] = y], prev |-> [l.prev EXCEPT ![y] = f]]
      /\ l.next \in [N -> V] /\ l.prev \in [N -> V] /\ a \in Memories(N, V)
  <2>1. a = [l EXCEPT !.next[f] = y, !.prev[y] = f]
    OBVIOUS
  <2> HIDE DEF a
  <2> QED
    BY <2>1 DEF Memories
<1> HIDE DEF a
<1>2. a.prev[e] = x /\ a.next = [l.next EXCEPT ![f] = y] /\ a.prev = [l.prev EXCEPT ![y] = f]
  BY <1>1
<1>3. r = [a EXCEPT !.next[x] = f, !.prev[f] = x]
  <2>1. r = [a EXCEPT !.prev[f] = a.prev[e], !.next[a.prev[e]] = f]
    BY DEF ListReplace, a
  <2>2. r = [a EXCEPT !.prev[f] = x, !.next[x] = f]
    BY <1>2, <2>1
  <2> HIDE DEF r
  <2> QED
    BY <1>1, <2>2 DEF Memories
<1> HIDE DEF r
<1>4. r = [next |-> [l.next EXCEPT ![f] = y, ![x] = f], prev |-> [l.prev EXCEPT ![y] = f, ![f] = x]]
  <2>1. r = [next |-> [a.next EXCEPT ![x] = f], prev |-> [a.prev EXCEPT ![f] = x]]
    BY <1>1, <1>3 DEF Memories
  <2> QED
    BY <1>2, <2>1
<1>5. /\ Writes(r, l, N, V, {x, f}, {y, f}) /\ r \in Memories(N, V)
      /\ r.next[x] = f /\ r.prev[f] = x /\ r.next[f] = y /\ r.prev[y] = f
  BY <1>1, <1>4 DEF Writes, Memories, Agree
<1>6. Writes(m, r, N, V, {e}, {e})
  <2>1. CASE m = r
    BY <1>5, <2>1 DEF Writes, Agree
  <2>2. CASE m = ListReplaceInit(l, e, f)
    <3>1. m = InitListHead(r, e)
      BY <2>2 DEF ListReplaceInit, r
    <3> QED
      BY <1>5, <3>1, InitWrites DEF Rewires
  <2> QED
    BY <2>1, <2>2 DEF r
<1>7. /\ Writes(m, l, N, V, {x, e, f}, {e, y, f})
      /\ m.next[x] = f /\ m.prev[f] = x /\ m.next[f] = y /\ m.prev[y] = f
  BY <1>5, <1>6 DEF Writes, Agree
<1> QED
  BY <1>7 DEF Rewires

\* The entries from first to last move, but not from the end of the list ...
LEMMA BulkWrites ==
    ASSUME NEW N, NEW V, N \subseteq V, NEW l \in Memories(N, V),
           NEW h \in N, NEW first \in N, NEW last \in N,
           NEW x \in N, NEW y \in N, NEW z \in N,
           l.prev[first] = x, l.next[last] = y, l.prev[h] = z,
           h # first, y # h, y # first, x # z, x # last, z # last,
           NEW m, m = ListBulkMoveTail(l, h, first, last)
    PROVE  Rewires(m, l, N, V, {x, z, last}, {y, first, h},
                   {<<x, y>>, <<z, first>>, <<last, h>>})
<1> DEFINE out == [l EXCEPT !.next[l.prev[first]] = l.next[last],
                            !.prev[l.next[last]] = l.prev[first]]
           mid == [out EXCEPT !.next[out.prev[h]] = first, !.prev[first] = out.prev[h]]
<1>0. first \in V /\ last \in V /\ h \in V /\ x \in V /\ y \in V /\ z \in V
  OBVIOUS
<1>1. /\ out = [next |-> [l.next EXCEPT ![x] = y], prev |-> [l.prev EXCEPT ![y] = x]]
      /\ l.next \in [N -> V] /\ l.prev \in [N -> V] /\ out \in Memories(N, V)
  <2>1. out = [l EXCEPT !.next[x] = y, !.prev[y] = x]
    OBVIOUS
  <2> HIDE DEF out
  <2> QED
    BY <1>0, <2>1 DEF Memories
<1> HIDE DEF out
<1>2. out.prev[h] = z
  BY <1>1
<1>3. /\ mid = [next |-> [l.next EXCEPT ![x] = y, ![z] = first],
                prev |-> [l.prev EXCEPT ![y] = x, ![first] = z]]
      /\ mid \in Memories(N, V)
  <2>1. mid = [out EXCEPT !.next[z] = first, !.prev[first] = z]
    BY <1>2
  <2> HIDE DEF mid
  <2>2. /\ mid = [next |-> [out.next EXCEPT ![z] = first], prev |-> [out.prev EXCEPT ![first] = z]]
        /\ mid \in Memories(N, V)
    BY <1>0, <1>1, <2>1 DEF Memories
  <2>3. out.next = [l.next EXCEPT ![x] = y] /\ out.prev = [l.prev EXCEPT ![y] = x]
    BY <1>1
  <2> QED
    BY <2>2, <2>3
<1>4. m = [mid EXCEPT !.next[last] = h, !.prev[h] = last]
  BY DEF ListBulkMoveTail, mid, out
<1> HIDE DEF mid
<1>5. m = [next |-> [l.next EXCEPT ![x] = y, ![z] = first, ![last] = h],
           prev |-> [l.prev EXCEPT ![y] = x, ![first] = z, ![h] = last]]
  <2>1. m = [next |-> [mid.next EXCEPT ![last] = h], prev |-> [mid.prev EXCEPT ![h] = last]]
    BY <1>0, <1>3, <1>4 DEF Memories
  <2>2. /\ mid.next = [l.next EXCEPT ![x] = y, ![z] = first]
        /\ mid.prev = [l.prev EXCEPT ![y] = x, ![first] = z]
    BY <1>3
  <2> QED
    BY <2>1, <2>2
<1>6. /\ Writes(m, l, N, V, {x, z, last}, {y, first, h})
      /\ m.next[x] = y /\ m.prev[y] = x /\ m.next[z] = first /\ m.prev[first] = z
      /\ m.next[last] = h /\ m.prev[h] = last
  BY <1>1, <1>5 DEF Writes, Memories, Agree
<1> QED
  BY <1>6 DEF Rewires

\* ... where nothing changes.
LEMMA BulkRewrites ==
    ASSUME NEW N, NEW V, N \subseteq V, NEW l \in Memories(N, V),
           NEW h \in N, NEW first \in N, NEW last \in N, NEW x \in N,
           l.prev[first] = x, l.next[x] = first, l.next[last] = h, l.prev[h] = last,
           h # first, x # last,
           NEW m, m = ListBulkMoveTail(l, h, first, last)
    PROVE  Writes(m, l, N, V, {}, {})
<1> DEFINE out == [l EXCEPT !.next[l.prev[first]] = l.next[last],
                            !.prev[l.next[last]] = l.prev[first]]
           mid == [out EXCEPT !.next[out.prev[h]] = first, !.prev[first] = out.prev[h]]
<1>0. first \in V /\ last \in V /\ h \in V /\ x \in V
  OBVIOUS
<1>1. /\ out = [next |-> [l.next EXCEPT ![x] = h], prev |-> [l.prev EXCEPT ![h] = x]]
      /\ l.next \in [N -> V] /\ l.prev \in [N -> V] /\ out \in Memories(N, V)
  <2>1. out = [l EXCEPT !.next[x] = h, !.prev[h] = x]
    OBVIOUS
  <2> HIDE DEF out
  <2> QED
    BY <1>0, <2>1 DEF Memories
<1> HIDE DEF out
<1>2. out.prev[h] = x
  BY <1>1
<1>3. /\ mid = [next |-> [l.next EXCEPT ![x] = h, ![x] = first],
                prev |-> [l.prev EXCEPT ![h] = x, ![first] = x]]
      /\ mid \in Memories(N, V)
  <2>1. mid = [out EXCEPT !.next[x] = first, !.prev[first] = x]
    BY <1>2
  <2> HIDE DEF mid
  <2>2. /\ mid = [next |-> [out.next EXCEPT ![x] = first], prev |-> [out.prev EXCEPT ![first] = x]]
        /\ mid \in Memories(N, V)
    BY <1>0, <1>1, <2>1 DEF Memories
  <2>3. out.next = [l.next EXCEPT ![x] = h] /\ out.prev = [l.prev EXCEPT ![h] = x]
    BY <1>1
  <2> QED
    BY <2>2, <2>3
<1>4. m = [mid EXCEPT !.next[last] = h, !.prev[h] = last]
  BY DEF ListBulkMoveTail, mid, out
<1> HIDE DEF mid
<1>5. m = [next |-> [l.next EXCEPT ![x] = h, ![x] = first, ![last] = h],
           prev |-> [l.prev EXCEPT ![h] = x, ![first] = x, ![h] = last]]
  <2>1. m = [next |-> [mid.next EXCEPT ![last] = h], prev |-> [mid.prev EXCEPT ![h] = last]]
    BY <1>0, <1>3, <1>4 DEF Memories
  <2>2. /\ mid.next = [l.next EXCEPT ![x] = h, ![x] = first]
        /\ mid.prev = [l.prev EXCEPT ![h] = x, ![first] = x]
    BY <1>3
  <2> QED
    BY <2>1, <2>2
<1> QED
  BY <1>1, <1>5 DEF Writes, Memories, Agree

\* The entries of g go between two neighbours.
LEMMA SpliceWrites ==
    ASSUME NEW N, NEW V, N \subseteq V, NEW l \in Memories(N, V), NEW g \in N,
           NEW first \in N \ {g}, NEW last \in N \ {g}, l.next[g] = first, l.prev[g] = last,
           NEW x \in N \ {g, first, last}, NEW y \in N \ {g, first, last},
           NEW m, m = InitListHead(SpliceBetween(l, g, x, y), g)
    PROVE  Rewires(m, l, N, V, {x, last, g}, {y, first, g},
                   {<<x, first>>, <<last, y>>, <<g, g>>})
<1> DEFINE s == SpliceBetween(l, g, x, y)
<1>1. /\ s = [next |-> [l.next EXCEPT ![x] = first, ![last] = y],
              prev |-> [l.prev EXCEPT ![first] = x, ![y] = last]]
      /\ l.next \in [N -> V] /\ l.prev \in [N -> V]
  <2>1. s = [l EXCEPT !.prev[first] = x, !.next[x] = first, !.next[last] = y, !.prev[y] = last]
    BY DEF SpliceBetween
  <2> HIDE DEF s
  <2> QED
    BY <2>1 DEF Memories
<1> HIDE DEF s
<1>2. /\ Writes(s, l, N, V, {x, last}, {first, y})
      /\ s.next[x] = first /\ s.prev[first] = x /\ s.next[last] = y /\ s.prev[y] = last
  BY <1>1 DEF Writes, Memories, Agree
<1>3. Writes(m, s, N, V, {g}, {g}) /\ m.next[g] = g /\ m.prev[g] = g
  <2>1. m = InitListHead(s, g) /\ s \in Memories(N, V)
    BY <1>2 DEF s, Writes
  <2>2. Rewires(m, s, N, V, {g}, {g}, {<<g, g>>})
    BY <2>1, InitWrites
  <2> QED
    BY <2>2 DEF Rewires
<1>4. /\ Writes(m, l, N, V, {x, last, g}, {y, first, g})
      /\ m.next[x] = first /\ m.prev[first] = x /\ m.next[last] = y /\ m.prev[y] = last
  BY <1>2, <1>3 DEF Writes, Agree
<1> QED
  BY <1>3, <1>4 DEF Rewires

\* The entries of h up to x, before y, become those of g.
LEMMA CutWrites ==
    ASSUME NEW N, NEW V, N \subseteq V, NEW l \in Memories(N, V), NEW h \in N,
           NEW first \in N \ {h}, NEW x \in N \ {h}, NEW y \in N \ {first, x},
           NEW g \in N \ {h, first, x, y},
           l.next[h] = first, l.next[x] = y, l.prev[y] = x,
           NEW m, \/ m = CutUpTo(l, g, h, x)
                  \/ l.next[h] # y /\ m = ListCutBefore(l, g, h, y)
    PROVE  Rewires(m, l, N, V, {h, x, g}, {first, y, g},
                   {<<g, first>>, <<x, g>>, <<h, y>>})
<1> DEFINE moved == [l EXCEPT !.next[g] = l.next[h], !.prev[l.next[h]] = g,
                              !.prev[g] = x, !.next[x] = g]
<1>1. /\ moved = [next |-> [l.next EXCEPT ![g] = first, ![x] = g],
                  prev |-> [l.prev EXCEPT ![first] = g, ![g] = x]]
      /\ l.next \in [N -> V] /\ l.prev \in [N -> V]
  <2>1. moved = [l EXCEPT !.next[g] = first, !.prev[first] = g, !.prev[g] = x, !.next[x] = g]
    OBVIOUS
  <2> HIDE DEF moved
  <2> QED
    BY <2>1 DEF Memories
<1>2. m = [moved EXCEPT !.next[h] = y, !.prev[y] = h]
  BY DEF CutUpTo, ListCutBefore
<1> HIDE DEF moved
<1>3. m = [next |-> [l.next EXCEPT ![g] = first, ![x] = g, ![h] = y],
           prev |-> [l.prev EXCEPT ![first] = g, ![g] = x, ![y] = h]]
  BY <1>1, <1>2
<1>4. /\ Writes(m, l, N, V, {h, x, g}, {first, y, g})
      /\ m.next[g] = first /\ m.prev[first] = g /\ m.next[x] = g /\ m.prev[g] = x
      /\ m.next[h] = y /\ m.prev[y] = h
  BY <1>1, <1>3 DEF Writes, Memories, Agree
<1> QED
  BY <1>4 DEF Rewires


----------------------------------------------------------------------------
(* What the calls make of a list.                                          *)

\* The list of h becomes q, made of nodes of D; no other node is touched.
Changes(m, l, h, q, N, V, E, D) ==
    ListIn(m, h, q, N, E) /\ Writes(m, l, N, V, D, D) /\ Among(q, Len(q), D)

LEMMA WritesMore ==
    ASSUME NEW m, NEW l, NEW N, NEW V, NEW A, NEW B, Writes(m, l, N, V, A, B),
           NEW D, A \subseteq D, B \subseteq D
    PROVE  Writes(m, l, N, V, D, D)
  BY DEF Writes, Agree

\* q is the sequence p of n members with e behind place k.
Inserted(q, p, n, k, e) ==
    \A i \in 1..n + 1 : q[i] = IF i <= k THEN p[i] ELSE IF i = k + 1 THEN e ELSE p[i - 1]

LEMMA InsertIndex ==
    ASSUME NEW n \in Nat, NEW k \in 0..n, NEW A, NEW e, NEW h, NEW p, NEW q, NEW R, NEW S,
           Among(p, n, A), e \notin A, NoRepeats(p, n), IsRing(R, h, p, n),
           IsRing(S, h, q, n + 1), Inserted(q, p, n, k, e)
    PROVE  /\ Among(q, n + 1, A \cup {e}) /\ NoRepeats(q, n + 1)
           /\ RingInserted(S, R, n, k, e)
<1>0. /\ \A i \in 1..n : p[i] \in A
      /\ \A i, j \in 1..n : p[i] = p[j] => i = j
      /\ \A i \in 0..n + 1 : R[i] = IF i \in 1..n THEN p[i] ELSE h
      /\ \A i \in 0..n + 2 : S[i] = IF i \in 1..n + 1 THEN q[i] ELSE h
  BY DEF Among, NoRepeats, IsRing
<1>1. ASSUME NEW i \in 1..n + 1
      PROVE  \/ i <= k /\ i \in 1..n /\ q[i] = p[i]
             \/ i = k + 1 /\ q[i] = e
             \/ i > k + 1 /\ i - 1 \in 1..n /\ q[i] = p[i - 1]
  BY DEF Inserted
<1>2. Among(q, n + 1, A \cup {e})
  BY <1>0, <1>1 DEF Among
<1>3. NoRepeats(q, n + 1)
  <2> SUFFICES ASSUME NEW i \in 1..n + 1, NEW j \in 1..n + 1, q[i] = q[j] PROVE i = j
    BY DEF NoRepeats
  <2>1. CASE i <= k
    BY <1>0, <1>1, <2>1
  <2>2. CASE i = k + 1
    BY <1>0, <1>1, <2>2
  <2>3. CASE i > k + 1
    BY <1>0, <1>1, <2>3
  <2> QED
    BY <2>1, <2>2, <2>3
<1>4. ASSUME NEW i \in 0..n + 2
      PROVE  S[i] = IF i <= k THEN R[i] ELSE IF i = k + 1 THEN e ELSE R[i - 1]
  <2>1. CASE i = 0
    BY <1>0, <2>1
  <2>2. CASE i = n + 2
    BY <1>0, <2>2
  <2>3. CASE i \in 1..n + 1
    BY <1>0, <1>1, <2>3
  <2> QED
    BY <2>1, <2>2, <2>3
<1> QED
  BY <1>2, <1>3, <1>4 DEF RingInserted

\* __list_add between two neighbours.
LEMMA AddToList ==
    ASSUME NEW N, NEW V, N \subseteq V, NEW l \in Memories(N, V), NEW E, NEW h, NEW p,
           ListIn(l, h, p, N, E), NEW k \in 0..Len(p), NEW e \in E \ Range(p),
           NEW q \in Seq(E), Len(q) = Len(p) + 1, Inserted(q, p, Len(p), k, e),
           NEW m, m = ListAddBetween(l, e, Ring(h, p)[k], Ring(h, p)[k + 1]),
           NEW D, D = {h} \cup Range(p) \cup {e}
    PROVE  Changes(m, l, h, q, N, V, E, D)
<1>0. PICK R, S, n, A : R = Ring(h, p) /\ S = Ring(h, q) /\ n = Len(p) /\ A = Range(p)
  OBVIOUS
<1>00. N \subseteq V /\ l \in Memories(N, V)
  OBVIOUS
<1>1. /\ n \in Nat /\ R[0] = h /\ R[n + 1] = h /\ IsRing(R, h, p, n)
      /\ \A i \in 0..n + 1 : R[i] \in {h} \cup A /\ R[i] \in N
      /\ Around(l.next, l.prev, R, n) /\ Simple(R, n, N)
  BY <1>0, ListRing
<1>2. /\ A \subseteq E /\ E \subseteq N /\ h \in N \ E /\ Among(p, n, A) /\ NoRepeats(p, n)
  BY <1>0, ListEntries
<1>3. k \in 0..n /\ k \in 0..n + 1 /\ k + 1 \in 0..n + 1 /\ Len(q) = n + 1 /\ e \notin A
  BY <1>0, <1>1
<1>4. IsRing(S, h, q, n + 1) /\ Inserted(q, p, n, k, e)
  BY <1>0, <1>1 DEF Ring, IsRing
<1>5. /\ Among(q, n + 1, A \cup {e}) /\ NoRepeats(q, n + 1)
      /\ RingInserted(S, R, n, k, e)
  BY ONLY <1>1, <1>2, <1>3, <1>4, InsertIndex
<1>7. PICK x, y : x = R[k] /\ y = R[k + 1]
  OBVIOUS
<1>8. /\ x \in N /\ x # e /\ y \in N /\ y # e /\ e \in N
      /\ {x, e} \subseteq D /\ {y, e} \subseteq D
      /\ \A i \in 0..n + 1 : R[i] # e
  BY <1>0, <1>1, <1>2, <1>3, <1>7
<1>9. Rewires(m, l, N, V, {x, e}, {y, e}, {<<x, e>>, <<e, y>>})
  <2>1. m = ListAddBetween(l, e, x, y)
    BY <1>0, <1>7
  <2> QED
    BY ONLY <1>00, <1>8, <2>1, BetweenWrites
<1>10. /\ Writes(m, l, N, V, {x, e}, {y, e})
       /\ m.next[x] = e /\ m.prev[e] = x /\ m.next[e] = y /\ m.prev[y] = e
  BY <1>9 DEF Rewires
<1>11. Around(m.next, m.prev, S, n + 1)
  <2>1. Agree(m.next, l.next, N, {R[k], e}) /\ Agree(m.prev, l.prev, N, {R[k + 1], e})
    BY <1>7, <1>10 DEF Writes
  <2>2. m.next[R[k]] = e /\ m.prev[e] = R[k] /\ m.next[e] = R[k + 1] /\ m.prev[R[k + 1]] = e
    BY <1>7, <1>10
  <2> QED
    BY <1>1, <1>3, <1>5, <1>8, <2>1, <2>2, InsertInRing
<1>12. Among(q, n + 1, D)
  BY <1>0, <1>5 DEF Among
<1>13. Writes(m, l, N, V, D, D)
  BY <1>8, <1>10, WritesMore
<1> QED
  BY <1>0, <1>2, <1>3, <1>5, <1>11, <1>12, <1>13 DEF Changes, ListIn

\* q is the sequence p of n members without place k.
Removed(q, p, n, k) == \A i \in 1..n - 1 : q[i] = IF i < k THEN p[i] ELSE p[i + 1]

LEMMA RemoveIndex ==
    ASSUME NEW n \in Nat, NEW k \in 1..n, NEW A, NEW h, NEW p, NEW q, NEW R, NEW S,
           Among(p, n, A), NoRepeats(p, n), IsRing(R, h, p, n),
           IsRing(S, h, q, n - 1), Removed(q, p, n, k)
    PROVE  Among(q, n - 1, A) /\ NoRepeats(q, n - 1) /\ RingRemoved(S, R, n, k)
<1>0. /\ \A i \in 1..n : p[i] \in A
      /\ \A i, j \in 1..n : p[i] = p[j] => i = j
      /\ \A i \in 0..n + 1 : R[i] = IF i \in 1..n THEN p[i] ELSE h
      /\ \A i \in 0..n : S[i] = IF i \in 1..n - 1 THEN q[i] ELSE h
  BY DEF Among, NoRepeats, IsRing
<1>1. ASSUME NEW i \in 1..n - 1
      PROVE  \/ i < k /\ i \in 1..n /\ q[i] = p[i]
             \/ ~(i < k) /\ i + 1 \in 1..n /\ q[i] = p[i + 1]
  BY DEF Removed
<1>2. Among(q, n - 1, A)
  BY <1>0, <1>1 DEF Among
<1>3. NoRepeats(q, n - 1)
  <2> SUFFICES ASSUME NEW i \in 1..n - 1, NEW j \in 1..n - 1, q[i] = q[j] PROVE i = j
    BY DEF NoRepeats
  <2>1. CASE i < k
    BY <1>0, <1>1, <2>1
  <2>2. CASE ~(i < k)
    BY <1>0, <1>1, <2>2
  <2> QED
    BY <2>1, <2>2
<1>4. ASSUME NEW i \in 0..n PROVE S[i] = IF i < k THEN R[i] ELSE R[i + 1]
  <2>1. CASE i = 0
    BY <1>0, <2>1
  <2>2. CASE i = n
    BY <1>0, <2>2
  <2>3. CASE i \in 1..n - 1
    BY <1>0, <1>1, <2>3
  <2> QED
    BY <2>1, <2>2, <2>3
<1> QED
  BY <1>2, <1>3, <1>4 DEF RingRemoved

\* list_del, list_del_init, and the first half of list_move.
LEMMA RemoveFromList ==
    ASSUME NEW N, NEW V, N \subseteq V, NEW nil \in V, NEW l \in Memories(N, V), NEW E,
           NEW h, NEW p, ListIn(l, h, p, N, E), NEW k \in 1..Len(p), NEW e, e = p[k],
           NEW q \in Seq(E), Len(q) = Len(p) - 1, Removed(q, p, Len(p), k),
           NEW m, m \in {ListDelEntry(l, e), ListDel(l, e, nil), ListDelInit(l, e)},
           NEW D, D = {h} \cup Range(p)
    PROVE  Changes(m, l, h, q, N, V, E, D)
<1>00. N \subseteq V /\ nil \in V /\ l \in Memories(N, V)
  OBVIOUS
<1>0. PICK R, S, n, A : R = Ring(h, p) /\ S = Ring(h, q) /\ n = Len(p) /\ A = Range(p)
  OBVIOUS
<1>1. /\ n \in Nat /\ R[0] = h /\ R[n + 1] = h /\ IsRing(R, h, p, n)
      /\ \A i \in 0..n + 1 : R[i] \in {h} \cup A /\ R[i] \in N
      /\ Around(l.next, l.prev, R, n) /\ Simple(R, n, N)
  BY <1>0, ListRing
<1>2. /\ A \subseteq E /\ E \subseteq N /\ h \in N \ E /\ Among(p, n, A) /\ NoRepeats(p, n)
  BY <1>0, ListEntries
<1>3. /\ k \in 1..n /\ Len(q) = n - 1 /\ k \in 0..n + 1 /\ k - 1 \in 0..n + 1 /\ k + 1 \in 0..n + 1
      /\ k - 1 \in 0..n /\ k \in 0..n /\ k \in 1..n + 1 /\ k + 1 \in 1..n + 1
      /\ k - 1 + 1 = k /\ k # k - 1 /\ k # k + 1
  BY <1>0, <1>1
<1>4. IsRing(S, h, q, n - 1) /\ Removed(q, p, n, k)
  <2>1. n - 1 + 1 = n /\ Len(q) = n - 1
    BY <1>0, <1>1
  <2>2. S = [i \in 0..n - 1 + 1 |-> IF i \in 1..n - 1 THEN q[i] ELSE h]
    BY <1>0, <2>1 DEF Ring
  <2> QED
    BY <1>0, <2>2 DEF IsRing
<1>5. Among(q, n - 1, A) /\ NoRepeats(q, n - 1) /\ RingRemoved(S, R, n, k)
  BY ONLY <1>1, <1>2, <1>3, <1>4, RemoveIndex
<1>6. PICK x, y : x = R[k - 1] /\ y = R[k + 1]
  OBVIOUS
<1>7. R[k] = e /\ e \in N /\ x \in N /\ y \in N
  <2>1. R[k] = p[k]
    BY <1>1, <1>3 DEF IsRing
  <2> QED
    BY <1>1, <1>3, <1>6, <2>1
<1>8. x # e /\ y # e /\ l.prev[e] = x /\ l.next[e] = y
  BY ONLY <1>1, <1>3, <1>6, <1>7 DEF Simple, Around
<1>9. Rewires(m, l, N, V, {x, e}, {e, y}, {<<x, y>>})
  <2>1. m \in {ListDelEntry(l, e), ListDel(l, e, nil), ListDelInit(l, e)}
    OBVIOUS
  <2> QED
    BY ONLY <1>00, <1>7, <1>8, <2>1, DelWrites
<1>10. Writes(m, l, N, V, {x, e}, {e, y}) /\ m.next[x] = y /\ m.prev[y] = x
  BY <1>9 DEF Rewires
<1>11. Around(m.next, m.prev, S, n - 1)
  <2>1. /\ Agree(m.next, l.next, N, {R[k - 1], R[k]}) /\ Agree(m.prev, l.prev, N, {R[k], R[k + 1]})
        /\ m.next[R[k - 1]] = R[k + 1] /\ m.prev[R[k + 1]] = R[k - 1]
    BY <1>6, <1>7, <1>10 DEF Writes
  <2> QED
    BY ONLY <1>1, <1>3, <1>5, <2>1, RemoveFromRing
<1>12. Among(q, n - 1, D)
  BY <1>0, <1>5 DEF Among
<1>13. Writes(m, l, N, V, D, D)
  <2>1. {x, e} \subseteq D /\ {e, y} \subseteq D
    BY <1>0, <1>1, <1>3, <1>6, <1>7
  <2> QED
    BY <1>10, <2>1, WritesMore
<1> QED
  BY <1>0, <1>2, <1>3, <1>5, <1>11, <1>12, <1>13 DEF Changes, ListIn

\* q is the sequence p of n members with e in place k.
Replaced(q, p, n, k, e) == \A i \in 1..n : q[i] = IF i = k THEN e ELSE p[i]

LEMMA ReplaceIndex ==
    ASSUME NEW n \in Nat, NEW k \in 1..n, NEW A, NEW e, NEW h, NEW p, NEW q, NEW R, NEW S,
           Among(p, n, A), e \notin A, NoRepeats(p, n), IsRing(R, h, p, n),
           IsRing(S, h, q, n), Replaced(q, p, n, k, e)
    PROVE  Among(q, n, A \cup {e}) /\ NoRepeats(q, n) /\ RingReplaced(S, R, n, k, e)
<1>0. /\ \A i \in 1..n : p[i] \in A
      /\ \A i, j \in 1..n : p[i] = p[j] => i = j
      /\ \A i \in 0..n + 1 : R[i] = IF i \in 1..n THEN p[i] ELSE h
      /\ \A i \in 0..n + 1 : S[i] = IF i \in 1..n THEN q[i] ELSE h
      /\ \A i \in 1..n : q[i] = IF i = k THEN e ELSE p[i]
  BY DEF Among, NoRepeats, IsRing, Replaced
<1>1. Among(q, n, A \cup {e})
  BY <1>0 DEF Among
<1>2. NoRepeats(q, n)
  BY <1>0 DEF NoRepeats
<1>3. RingReplaced(S, R, n, k, e)
  BY <1>0 DEF RingReplaced
<1> QED
  BY <1>1, <1>2, <1>3

\* list_replace and list_replace_init.
LEMMA ReplaceInList ==
    ASSUME NEW N, NEW V, N \subseteq V, NEW l \in Memories(N, V), NEW E, NEW h, NEW p,
           ListIn(l, h, p, N, E), NEW k \in 1..Len(p), NEW e, e = p[k],
           NEW f \in E \ Range(p), NEW q \in Seq(E), Len(q) = Len(p),
           Replaced(q, p, Len(p), k, f),
           NEW m, m \in {ListReplace(l, e, f), ListReplaceInit(l, e, f)},
           NEW D, D = {h} \cup Range(p) \cup {f}
    PROVE  Changes(m, l, h, q, N, V, E, D)
<1>00. N \subseteq V /\ l \in Memories(N, V)
  OBVIOUS
<1>0. PICK R, S, n, A : R = Ring(h, p) /\ S = Ring(h, q) /\ n = Len(p) /\ A = Range(p)
  OBVIOUS
<1>1. /\ n \in Nat /\ R[0] = h /\ R[n + 1] = h /\ IsRing(R, h, p, n)
      /\ \A i \in 0..n + 1 : R[i] \in {h} \cup A /\ R[i] \in N
      /\ Around(l.next, l.prev, R, n) /\ Simple(R, n, N)
  BY <1>0, ListRing
<1>2. /\ A \subseteq E /\ E \subseteq N /\ h \in N \ E /\ Among(p, n, A) /\ NoRepeats(p, n)
  BY <1>0, ListEntries
<1>3. /\ k \in 1..n /\ k \in 0..n + 1 /\ k - 1 \in 0..n + 1 /\ k + 1 \in 0..n + 1
      /\ k - 1 \in 0..n /\ k \in 0..n /\ k \in 1..n + 1 /\ k + 1 \in 1..n + 1
      /\ k - 1 + 1 = k /\ k # k - 1 /\ k # k + 1 /\ f \notin A /\ f \in E
  BY <1>0, <1>1
<1>4. IsRing(S, h, q, n) /\ Replaced(q, p, n, k, f)
  BY <1>0, <1>1 DEF Ring, IsRing
<1>5. Among(q, n, A \cup {f}) /\ NoRepeats(q, n) /\ RingReplaced(S, R, n, k, f)
  BY ONLY <1>1, <1>2, <1>3, <1>4, ReplaceIndex
<1>6. PICK x, y : x = R[k - 1] /\ y = R[k + 1]
  OBVIOUS
<1>7. R[k] = e /\ e \in N /\ x \in N /\ y \in N
  <2>1. R[k] = p[k]
    BY <1>1, <1>3 DEF IsRing
  <2> QED
    BY <1>1, <1>3, <1>6, <2>1
<1>8. x # e /\ y # e /\ l.prev[e] = x /\ l.next[e] = y
  BY ONLY <1>1, <1>3, <1>6, <1>7 DEF Simple, Around
<1>9. /\ f \in N /\ f \notin {e, x, y} /\ \A i \in 0..n + 1 : R[i] # f
  BY ONLY <1>1, <1>2, <1>3, <1>6, <1>7
<1>10. Rewires(m, l, N, V, {x, e, f}, {e, y, f}, {<<x, f>>, <<f, y>>})
  <2>1. m \in {ListReplace(l, e, f), ListReplaceInit(l, e, f)}
    OBVIOUS
  <2> QED
    BY ONLY <1>00, <1>7, <1>8, <1>9, <2>1, ReplaceWrites
<1>11. /\ Writes(m, l, N, V, {x, e, f}, {e, y, f})
       /\ m.next[x] = f /\ m.prev[f] = x /\ m.next[f] = y /\ m.prev[y] = f
  BY <1>10 DEF Rewires
<1>12. Around(m.next, m.prev, S, n)
  <2>1. /\ Agree(m.next, l.next, N, {R[k - 1], R[k], f})
        /\ Agree(m.prev, l.prev, N, {R[k], R[k + 1], f})
        /\ m.next[R[k - 1]] = f /\ m.prev[f] = R[k - 1]
        /\ m.next[f] = R[k + 1] /\ m.prev[R[k + 1]] = f
    BY <1>6, <1>7, <1>11 DEF Writes
  <2> QED
    BY ONLY <1>1, <1>3, <1>5, <1>9, <2>1, ReplaceInRing
<1>13. Among(q, n, D)
  BY <1>0, <1>5 DEF Among
<1>14. Writes(m, l, N, V, D, D)
  <2>1. {x, e, f} \subseteq D /\ {e, y, f} \subseteq D
    BY <1>0, <1>1, <1>3, <1>6, <1>7
  <2> QED
    BY <1>11, <2>1, WritesMore
<1> QED
  BY <1>0, <1>2, <1>5, <1>12, <1>13, <1>14 DEF Changes, ListIn


\* q is the sequence p of n members with the places from a to b at the end.
Bulked(q, p, n, a, b) ==
    \A i \in 1..n : q[i] = IF i < a THEN p[i]
                           ELSE IF i < a + (n - b) THEN p[i + (b - a) + 1]
                           ELSE p[i - (n - b)]

LEMMA BulkIndex ==
    ASSUME NEW n \in Nat, NEW a \in 1..n, NEW b \in a..n, NEW A, NEW h, NEW p, NEW q,
           NEW R, NEW S, Among(p, n, A), NoRepeats(p, n), IsRing(R, h, p, n),
           IsRing(S, h, q, n), Bulked(q, p, n, a, b)
    PROVE  Among(q, n, A) /\ NoRepeats(q, n) /\ RingBulked(S, R, n, a, b)
<1>0. /\ \A i \in 1..n : p[i] \in A
      /\ \A i, j \in 1..n : p[i] = p[j] => i = j
      /\ \A i \in 0..n + 1 : R[i] = IF i \in 1..n THEN p[i] ELSE h
      /\ \A i \in 0..n + 1 : S[i] = IF i \in 1..n THEN q[i] ELSE h
      /\ a \in Nat /\ b \in Nat /\ 1 <= a /\ a <= b /\ b <= n
  BY DEF Among, NoRepeats, IsRing
<1>1. ASSUME NEW i \in 1..n
      PROVE  \/ i < a /\ q[i] = p[i]
             \/ /\ ~(i < a) /\ i < a + (n - b) /\ i + (b - a) + 1 \in 1..n
                /\ i + (b - a) + 1 > b /\ q[i] = p[i + (b - a) + 1]
             \/ /\ ~(i < a + (n - b)) /\ ~(i < a) /\ i - (n - b) \in 1..n
                /\ i - (n - b) \in a..b /\ q[i] = p[i - (n - b)]
  BY <1>0 DEF Bulked
<1>2. Among(q, n, A)
  BY <1>0, <1>1 DEF Among
<1>3. NoRepeats(q, n)
  <2> SUFFICES ASSUME NEW i \in 1..n, NEW j \in 1..n, q[i] = q[j] PROVE i = j
    BY DEF NoRepeats
  <2>1. CASE i < a
    BY <1>0, <1>1, <2>1
  <2>2. CASE ~(i < a) /\ i < a + (n - b)
    BY <1>0, <1>1, <2>2
  <2>3. CASE ~(i < a + (n - b))
    BY <1>0, <1>1, <2>3
  <2> QED
    BY <1>0, <2>1, <2>2, <2>3
<1>4. ASSUME NEW i \in 0..n + 1
      PROVE  S[i] = IF i < a \/ i = n + 1 THEN R[i]
                    ELSE IF i < a + (n - b) THEN R[i + (b - a) + 1]
                    ELSE R[i - (n - b)]
  <2>1. CASE i = 0 \/ i = n + 1
    <3>1. S[i] = h /\ R[i] = h /\ (i = 0 => i < a)
      BY <1>0, <2>1
    <3> QED
      BY <2>1, <3>1
  <2>2. CASE i \in 1..n
    <3>1. S[i] = q[i] /\ R[i] = p[i] /\ i # n + 1
      BY <1>0, <2>2
    <3>2. ASSUME NEW j \in 1..n PROVE R[j] = p[j]
      BY <1>0
    <3> QED
      BY <1>1, <2>2, <3>1, <3>2
  <2> QED
    BY <1>0, <2>1, <2>2
<1> QED
  BY <1>2, <1>3, <1>4 DEF RingBulked

\* list_bulk_move_tail.
LEMMA BulkInList ==
    ASSUME NEW N, NEW V, N \subseteq V, NEW l \in Memories(N, V), NEW E, NEW h, NEW p,
           ListIn(l, h, p, N, E), NEW a \in 1..Len(p), NEW b \in a..Len(p),
           NEW q \in Seq(E), Len(q) = Len(p), Bulked(q, p, Len(p), a, b),
           NEW m, m = ListBulkMoveTail(l, h, p[a], p[b]), NEW D, D = {h} \cup Range(p)
    PROVE  Changes(m, l, h, q, N, V, E, D)
<1>00. N \subseteq V /\ l \in Memories(N, V)
  OBVIOUS
<1>0. PICK R, S, n, A : R = Ring(h, p) /\ S = Ring(h, q) /\ n = Len(p) /\ A = Range(p)
  OBVIOUS
<1>1. /\ n \in Nat /\ R[0] = h /\ R[n + 1] = h /\ IsRing(R, h, p, n)
      /\ \A i \in 0..n + 1 : R[i] \in {h} \cup A /\ R[i] \in N
      /\ Around(l.next, l.prev, R, n) /\ Simple(R, n, N)
  BY <1>0, ListRing
<1>2. /\ A \subseteq E /\ E \subseteq N /\ h \in N \ E /\ Among(p, n, A) /\ NoRepeats(p, n)
  BY <1>0, ListEntries
<1>3. /\ a \in 1..n /\ b \in a..n /\ b \in 1..n /\ Len(q) = n
      /\ {a, b, n} \subseteq 1..n /\ {a - 1, b, n} \subseteq 0..n
      /\ {a, b + 1, n + 1} \subseteq 1..n + 1 /\ {a - 1, a, b, b + 1, n, n + 1} \subseteq 0..n + 1
      /\ a - 1 + 1 = a /\ a - 1 < b /\ a < b + 1 /\ a < n + 1
  BY <1>0, <1>1
<1>4. IsRing(S, h, q, n) /\ Bulked(q, p, n, a, b)
  BY <1>0, <1>1 DEF Ring, IsRing
<1>5. Among(q, n, A) /\ NoRepeats(q, n) /\ RingBulked(S, R, n, a, b)
  BY ONLY <1>1, <1>2, <1>3, <1>4, BulkIndex
<1>6. PICK first, last, x, y, z :
          first = R[a] /\ last = R[b] /\ x = R[a - 1] /\ y = R[b + 1] /\ z = R[n]
  OBVIOUS
<1>7. /\ h \in N /\ first \in N /\ last \in N /\ x \in N /\ y \in N /\ z \in N
      /\ {x, z, last, y, first, h} \subseteq D
  <2>1. \A i \in {a - 1, a, b, b + 1, n} : R[i] \in N /\ R[i] \in {h} \cup A
    BY ONLY <1>1, <1>3
  <2> QED
    BY <1>0, <1>2, <1>6, <2>1
<1>8. /\ l.prev[first] = x /\ l.next[x] = first /\ l.next[last] = y /\ l.prev[h] = z
      /\ h # first /\ x # last /\ y # first
  BY ONLY <1>1, <1>3, <1>6 DEF Simple, Around
<1>9. m = ListBulkMoveTail(l, h, first, last)
  BY <1>1, <1>3, <1>6 DEF IsRing
<1>10. Around(m.next, m.prev, S, n) /\ Writes(m, l, N, V, D, D)
  <2>1. CASE b = n
    <3>1. y = h /\ last = z
      BY <1>1, <1>6, <2>1
    <3>2. Writes(m, l, N, V, {}, {})
      BY ONLY <1>00, <1>7, <1>8, <1>9, <3>1, BulkRewrites
    <3>3. \A i \in 0..n + 1 : S[i] = R[i]
      <4> SUFFICES ASSUME NEW i \in 0..n + 1 PROVE S[i] = R[i]
        OBVIOUS
      <4>1. n - b = 0 /\ i - (n - b) = i
        BY <1>1, <2>1
      <4>2. ~(i < a) => ~(i < a + (n - b))
        BY <1>1, <1>3, <4>1
      <4> QED
        BY ONLY <1>5, <4>1, <4>2 DEF RingBulked
    <3>4. \A i \in 0..n : /\ i \in 0..n + 1 /\ i + 1 \in 0..n + 1
                          /\ R[i] \in N /\ R[i + 1] \in N
      BY ONLY <1>1
    <3>5. Around(m.next, m.prev, S, n)
      BY ONLY <1>1, <3>2, <3>3, <3>4 DEF Around, Writes, Agree
    <3> QED
      BY <3>2, <3>5, WritesMore
  <2>2. CASE b # n
    <3>1. b < n /\ b \in a..n - 1
      BY <1>1, <1>3, <2>2
    <3>2. y # h /\ x # z /\ z # last
      BY ONLY <1>1, <1>3, <1>6, <3>1 DEF Simple
    <3>3. Rewires(m, l, N, V, {x, z, last}, {y, first, h},
                  {<<x, y>>, <<z, first>>, <<last, h>>})
      BY ONLY <1>00, <1>7, <1>8, <1>9, <3>2, BulkWrites
    <3>4. /\ Writes(m, l, N, V, {x, z, last}, {y, first, h})
          /\ m.next[x] = y /\ m.prev[y] = x /\ m.next[z] = first /\ m.prev[first] = z
          /\ m.next[last] = h /\ m.prev[h] = last
      BY <3>3 DEF Rewires
    <3>5. /\ Agree(m.next, l.next, N, {R[a - 1], R[n], R[b]})
          /\ Agree(m.prev, l.prev, N, {R[b + 1], R[a], R[n + 1]})
          /\ m.next[R[a - 1]] = R[b + 1] /\ m.prev[R[b + 1]] = R[a - 1]
          /\ m.next[R[n]] = R[a] /\ m.prev[R[a]] = R[n]
          /\ m.next[R[b]] = R[n + 1] /\ m.prev[R[n + 1]] = R[b]
      BY <1>1, <1>6, <3>4 DEF Writes
    <3>6. Around(m.next, m.prev, S, n)
      BY ONLY <1>1, <1>3, <1>5, <3>1, <3>5, BulkInRing
    <3>7. {x, z, last} \subseteq D /\ {y, first, h} \subseteq D
      BY <1>7
    <3> QED
      BY <3>4, <3>6, <3>7, WritesMore
  <2> QED
    BY <2>1, <2>2
<1>11. Among(q, n, D)
  BY <1>0, <1>5 DEF Among
<1> QED
  BY <1>0, <1>2, <1>3, <1>5, <1>10, <1>11 DEF Changes, ListIn

\* q is the sequence p of n members from place k on, then up to it.
Rotated(q, p, n, k) ==
    \A i \in 1..n : q[i] = IF i <= n - k + 1 THEN p[i + k - 1] ELSE p[i - (n - k + 1)]

LEMMA RotateIndex ==
    ASSUME NEW n \in Nat, NEW k \in 1..n, NEW A, NEW h, NEW p, NEW q,
           NEW R, NEW S, Among(p, n, A), NoRepeats(p, n), IsRing(R, h, p, n),
           IsRing(S, h, q, n), Rotated(q, p, n, k)
    PROVE  Among(q, n, A) /\ NoRepeats(q, n) /\ RingRotated(S, R, n, k)
<1>0. /\ \A i \in 1..n : p[i] \in A
      /\ \A i, j \in 1..n : p[i] = p[j] => i = j
      /\ \A i \in 0..n + 1 : R[i] = IF i \in 1..n THEN p[i] ELSE h
      /\ \A i \in 0..n + 1 : S[i] = IF i \in 1..n THEN q[i] ELSE h
      /\ k \in Nat /\ 1 <= k /\ k <= n
  BY DEF Among, NoRepeats, IsRing
<1>1. ASSUME NEW i \in 1..n
      PROVE  \/ /\ i <= n - k + 1 /\ i + k - 1 \in 1..n /\ i + k - 1 >= k
                /\ q[i] = p[i + k - 1]
             \/ /\ ~(i <= n - k + 1) /\ i - (n - k + 1) \in 1..n /\ i - (n - k + 1) < k
                /\ q[i] = p[i - (n - k + 1)]
  BY <1>0 DEF Rotated
<1>2. Among(q, n, A)
  BY <1>0, <1>1 DEF Among
<1>3. NoRepeats(q, n)
  <2> SUFFICES ASSUME NEW i \in 1..n, NEW j \in 1..n, q[i] = q[j] PROVE i = j
    BY DEF NoRepeats
  <2>1. CASE i <= n - k + 1
    BY <1>0, <1>1, <2>1
  <2>2. CASE ~(i <= n - k + 1)
    BY <1>0, <1>1, <2>2
  <2> QED
    BY <2>1, <2>2
<1>4. ASSUME NEW i \in 0..n + 1
      PROVE  S[i] = IF i = 0 \/ i = n + 1 THEN R[0]
                    ELSE IF i <= n - k + 1 THEN R[i + k - 1]
                    ELSE R[i - (n - k + 1)]
  <2>1. CASE i = 0 \/ i = n + 1
    <3>1. S[i] = h /\ R[0] = h
      BY <1>0, <2>1
    <3> QED
      BY <2>1, <3>1
  <2>2. CASE i \in 1..n
    <3>1. S[i] = q[i] /\ i # 0 /\ i # n + 1
      BY <1>0, <2>2
    <3>2. ASSUME NEW j \in 1..n PROVE R[j] = p[j]
      BY <1>0
    <3> QED
      BY <1>1, <2>2, <3>1, <3>2
  <2> QED
    BY <1>0, <2>1, <2>2
<1> QED
  BY <1>2, <1>3, <1>4 DEF RingRotated


\* list_rotate_to_front.
LEMMA RotateInList ==
    ASSUME NEW N, NEW V, N \subseteq V, NEW l \in Memories(N, V), NEW E, NEW h, NEW p,
           ListIn(l, h, p, N, E), NEW k \in 1..Len(p),
           NEW q \in Seq(E), Len(q) = Len(p), Rotated(q, p, Len(p), k),
           NEW m, m = ListRotateToFront(l, p[k], h), NEW D, D = {h} \cup Range(p)
    PROVE  Changes(m, l, h, q, N, V, E, D)
<1>00. N \subseteq V /\ l \in Memories(N, V)
  OBVIOUS
<1>0. PICK R, S, n, A : R = Ring(h, p) /\ S = Ring(h, q) /\ n = Len(p) /\ A = Range(p)
  OBVIOUS
<1>1. /\ n \in Nat /\ R[0] = h /\ R[n + 1] = h /\ IsRing(R, h, p, n)
      /\ \A i \in 0..n + 1 : R[i] \in {h} \cup A /\ R[i] \in N
      /\ Around(l.next, l.prev, R, n) /\ Simple(R, n, N)
  BY <1>0, ListRing
<1>2. /\ A \subseteq E /\ E \subseteq N /\ h \in N \ E /\ Among(p, n, A) /\ NoRepeats(p, n)
  BY <1>0, ListEntries
<1>3. /\ k \in 1..n /\ Len(q) = n
      /\ {k, k - 1, n} \subseteq 0..n /\ {k, 1, n + 1} \subseteq 1..n + 1
      /\ {0, 1, k - 1, k, n, n + 1} \subseteq 0..n + 1
      /\ 0 + 1 = 1 /\ k - 1 + 1 = k /\ k < n + 1 /\ 0 < n /\ k - 1 < n
      /\ 0 \in 0..n
  BY <1>0, <1>1
<1>4. IsRing(S, h, q, n) /\ Rotated(q, p, n, k)
  BY <1>0, <1>1 DEF Ring, IsRing
<1>5. Among(q, n, A) /\ NoRepeats(q, n) /\ RingRotated(S, R, n, k)
  BY ONLY <1>1, <1>2, <1>3, <1>4, RotateIndex
<1>6. PICK x, y, z : x = R[n] /\ y = R[1] /\ z = R[k]
  OBVIOUS
<1>7. PICK d : d = ListJoin(l, x, y)
  OBVIOUS
<1>8. /\ h \in N /\ x \in N /\ y \in N /\ z \in N /\ {x, y, z, h} \subseteq D
      /\ l.prev[h] = x /\ l.next[h] = y /\ x # h /\ z # h /\ y # h
  <2>1. \A i \in {k, 1, n} : R[i] \in N /\ R[i] \in {h} \cup A
    BY ONLY <1>1, <1>3
  <2>2. l.prev[h] = x /\ l.next[h] = y /\ x # h /\ z # h /\ y # h
    BY ONLY <1>1, <1>3, <1>6 DEF Simple, Around
  <2> QED
    BY <1>0, <1>2, <1>6, <2>1, <2>2
<1>9. Rewires(d, l, N, V, {x}, {y}, {<<x, y>>})
  BY ONLY <1>00, <1>7, <1>8, JoinWrites
<1>10. Writes(d, l, N, V, {x}, {y}) /\ d.next[x] = y /\ d.prev[y] = x /\ d \in Memories(N, V)
  BY <1>9 DEF Rewires, Writes
<1>11. PICK w : w = d.prev[z]
  OBVIOUS
<1>12. m = ListAddBetween(d, h, w, z)
  <2>1. p[k] = z
    BY <1>1, <1>3, <1>6 DEF IsRing
  <2>2. m = ListMoveTail(l, h, z)
    BY <2>1 DEF ListRotateToFront
  <2>3. d = ListDelEntry(l, h)
    BY <1>7, <1>8 DEF ListDelEntry
  <2> QED
    BY <1>11, <2>2, <2>3 DEF ListMoveTail, ListAddTail
<1>13. Around(m.next, m.prev, S, n) /\ Writes(m, l, N, V, D, D)
  <2>1. CASE k = 1
    <3>1. z = y /\ w = x
      BY <1>6, <1>10, <1>11, <2>1
    <3>2. Rewires(m, d, N, V, {x, h}, {y, h}, {<<x, h>>, <<h, y>>})
      BY ONLY <1>00, <1>8, <1>10, <1>12, <3>1, BetweenWrites
    <3>3. /\ Writes(m, d, N, V, {x, h}, {y, h})
          /\ m.next[x] = h /\ m.prev[h] = x /\ m.next[h] = y /\ m.prev[y] = h
      BY <3>2 DEF Rewires
    <3>4. l.next[x] = h /\ l.prev[y] = h
      BY ONLY <1>1, <1>3, <1>6 DEF Around
    <3>5. Writes(m, l, N, V, {}, {})
      BY ONLY <1>8, <1>10, <3>3, <3>4 DEF Writes, Agree
    <3>6. \A i \in 0..n + 1 : S[i] = R[i]
      <4> SUFFICES ASSUME NEW i \in 0..n + 1 PROVE S[i] = R[i]
        OBVIOUS
      <4>1. n - k + 1 = n /\ i + k - 1 = i
        BY <1>1, <2>1
      <4>2. i = 0 \/ i = n + 1 \/ i <= n
        BY <1>1
      <4>3. CASE i = 0 \/ i = n + 1
        BY ONLY <1>1, <1>5, <4>3 DEF RingRotated
      <4>4. CASE i # 0 /\ i # n + 1
        <5>1. i <= n - k + 1
          BY <4>1, <4>2, <4>4
        <5> QED
          BY ONLY <1>5, <4>1, <4>4, <5>1 DEF RingRotated
      <4> QED
        BY <4>3, <4>4
    <3>7. \A i \in 0..n : /\ i \in 0..n + 1 /\ i + 1 \in 0..n + 1
                          /\ R[i] \in N /\ R[i + 1] \in N
      BY ONLY <1>1
    <3>8. Around(m.next, m.prev, S, n)
      <4>1. \A u \in N : m.next[u] = l.next[u] /\ m.prev[u] = l.prev[u]
        BY ONLY <3>5 DEF Writes, Agree
      <4>2. Around(m.next, m.prev, R, n)
        BY ONLY <1>1, <3>7, <4>1 DEF Around
      <4> QED
        BY ONLY <3>6, <3>7, <4>2 DEF Around
    <3> QED
      BY <3>5, <3>8, WritesMore
  <2>2. CASE k # 1
    <3>1. k \in 2..n
      BY <1>1, <1>3, <2>2
    <3>2. z # y /\ z \in N /\ w = R[k - 1] /\ x # w /\ w # h /\ w \in N /\ w \in D
      <4>1. z # y
        BY ONLY <1>3, <1>6, <1>1, <3>1 DEF Simple
      <4>2. w = l.prev[z]
        BY <1>8, <1>10, <1>11, <4>1 DEF Writes, Agree
      <4>3. w = R[k - 1]
        BY ONLY <1>1, <1>3, <1>6, <4>2 DEF Around
      <4>4. w \in N /\ w \in {h} \cup A
        BY ONLY <1>1, <1>3, <4>3
      <4>5. x # w /\ w # h
        BY ONLY <1>1, <1>3, <1>6, <3>1, <4>3 DEF Simple
      <4> QED
        BY <1>0, <1>8, <4>1, <4>3, <4>4, <4>5
    <3>3. Rewires(m, d, N, V, {w, h}, {z, h}, {<<w, h>>, <<h, z>>})
      BY ONLY <1>00, <1>8, <1>10, <1>12, <3>2, BetweenWrites
    <3>4. /\ Writes(m, d, N, V, {w, h}, {z, h})
          /\ m.next[w] = h /\ m.prev[h] = w /\ m.next[h] = z /\ m.prev[z] = h
      BY <3>3 DEF Rewires
    <3>5. Writes(m, l, N, V, {h, x, w}, {h, y, z}) /\ m.next[x] = y /\ m.prev[y] = x
      BY ONLY <1>8, <1>10, <3>2, <3>4 DEF Writes, Agree
    <3>6. /\ Agree(m.next, l.next, N, {R[0], R[n], R[k - 1]})
          /\ Agree(m.prev, l.prev, N, {R[0], R[1], R[k]})
          /\ m.next[R[n]] = R[1] /\ m.prev[R[1]] = R[n]
          /\ m.next[R[0]] = R[k] /\ m.prev[R[k]] = R[0]
          /\ m.next[R[k - 1]] = R[0] /\ m.prev[R[0]] = R[k - 1]
      BY ONLY <1>1, <1>6, <3>2, <3>4, <3>5 DEF Writes
    <3>7. Around(m.next, m.prev, S, n)
      BY ONLY <1>1, <1>3, <1>5, <3>1, <3>6, HeadInRing
    <3>8. {h, x, w} \subseteq D /\ {h, y, z} \subseteq D
      BY <1>8, <3>2
    <3> QED
      BY <3>5, <3>7, <3>8, WritesMore
  <2> QED
    BY <2>1, <2>2
<1>14. Among(q, n, D)
  BY <1>0, <1>5 DEF Among
<1> QED
  BY <1>0, <1>2, <1>3, <1>5, <1>13, <1>14 DEF Changes, ListIn


----------------------------------------------------------------------------
(* What the calls make of all the lists.                                   *)

\* The nodes that are in no list and head none.
Fresh(Q, N) == (N \ DOMAIN Q) \ Listed(Q)

\* The list of h changes, with the entries F that were in none.
LEMMA OneListChanges ==
    ASSUME NEW l, NEW Q, NEW N, NEW V, Holds(l, Q, N, V), NEW h \in DOMAIN Q,
           NEW F \in SUBSET Fresh(Q, N), NEW E, E = N \ DOMAIN Q, NEW q \in Seq(E),
           NEW D, D = {h} \cup Range(Q[h]) \cup F,
           NEW m, Changes(m, l, h, q, N, V, E, D)
    PROVE  Holds(m, [Q EXCEPT ![h] = q], N, V)
<1>1. PICK P, H : P = [Q EXCEPT ![h] = q] /\ H = {h}
  OBVIOUS
<1>2. ASSUME NEW g \in DOMAIN Q, g # h PROVE ({g} \cup Range(Q[g])) \cap D = {}
  <2>1. ({g} \cup Range(Q[g])) \cap ({h} \cup Range(Q[h])) = {}
    BY <1>2, HeldApart
  <2>2. ({g} \cup Range(Q[g])) \cap F = {}
    BY DEF Fresh, Listed
  <2> QED
    BY <2>1, <2>2
<1>3. Others(Q, H) \cap D = {} /\ H \in SUBSET DOMAIN Q
  BY <1>1, <1>2 DEF Others
<1>4. /\ P \in [DOMAIN Q -> Seq(N \ DOMAIN Q)] /\ P[h] = q
      /\ \A g \in DOMAIN Q \ H : P[g] = Q[g]
  BY <1>1 DEF Holds
<1>5. /\ ListIn(m, h, q, N, E) /\ Writes(m, l, N, V, D, D)
      /\ Among(q, Len(q), D) /\ NoRepeats(q, Len(q))
  BY DEF Changes, ListIn
<1>6. \A f \in H : ListIn(m, f, P[f], N, N \ DOMAIN Q) /\ Among(P[f], Len(P[f]), D)
  BY <1>1, <1>4, <1>5
<1>7. \A f, g \in H : \A i \in 1..Len(P[f]), j \in 1..Len(P[g]) :
          P[f][i] = P[g][j] => f = g /\ i = j
  BY ONLY <1>1, <1>4, <1>5 DEF NoRepeats
<1>8. Holds(l, Q, N, V)
  OBVIOUS
<1>9. Holds(m, P, N, V)
  <2>1. P \in [DOMAIN Q -> Seq(N \ DOMAIN Q)] /\ Writes(m, l, N, V, D, D)
    BY ONLY <1>4, <1>5
  <2>2. Become(P, Q, H, m, N, D)
    BY ONLY <1>4, <1>6, <1>7 DEF Become
  <2> QED
    BY ONLY <1>3, <1>8, <2>1, <2>2, ListsChange
<1> QED
  BY <1>1, <1>9

NoneShared(p, n, q, m) == \A i \in 1..n, j \in 1..m : p[i] # q[j]

\* The lists of g and h change, with each other's entries.
LEMMA TwoListsChange ==
    ASSUME NEW l, NEW Q, NEW N, NEW V, Holds(l, Q, N, V),
           NEW g \in DOMAIN Q, NEW h \in DOMAIN Q, g # h, NEW E, E = N \ DOMAIN Q,
           NEW p \in Seq(E), NEW q \in Seq(E),
           NEW D, D = {g, h} \cup Range(Q[g]) \cup Range(Q[h]),
           NEW m, Changes(m, l, g, p, N, V, E, D), Changes(m, l, h, q, N, V, E, D),
           NoneShared(p, Len(p), q, Len(q))
    PROVE  Holds(m, [Q EXCEPT ![g] = p, ![h] = q], N, V)
<1>1. PICK P, H : P = [Q EXCEPT ![g] = p, ![h] = q] /\ H = {g, h}
  OBVIOUS
<1>2. ASSUME NEW f \in DOMAIN Q, f \notin {g, h} PROVE ({f} \cup Range(Q[f])) \cap D = {}
  <2>1. /\ ({f} \cup Range(Q[f])) \cap ({h} \cup Range(Q[h])) = {}
        /\ ({f} \cup Range(Q[f])) \cap ({g} \cup Range(Q[g])) = {}
    BY <1>2, HeldApart
  <2> QED
    BY <2>1
<1>3. Others(Q, H) \cap D = {} /\ H \in SUBSET DOMAIN Q
  BY <1>1, <1>2 DEF Others
<1>4. /\ P \in [DOMAIN Q -> Seq(N \ DOMAIN Q)] /\ P[h] = q /\ P[g] = p
      /\ \A f \in DOMAIN Q \ H : P[f] = Q[f]
  BY <1>1 DEF Holds
<1>5. /\ ListIn(m, h, q, N, E) /\ ListIn(m, g, p, N, E) /\ Writes(m, l, N, V, D, D)
      /\ Among(q, Len(q), D) /\ NoRepeats(q, Len(q))
      /\ Among(p, Len(p), D) /\ NoRepeats(p, Len(p))
  BY DEF Changes, ListIn
<1>6. \A f \in H : ListIn(m, f, P[f], N, N \ DOMAIN Q) /\ Among(P[f], Len(P[f]), D)
  BY <1>1, <1>4, <1>5
<1>7. \A f, e \in H : \A i \in 1..Len(P[f]), j \in 1..Len(P[e]) :
          P[f][i] = P[e][j] => f = e /\ i = j
  <2>1. \A i \in 1..Len(p), j \in 1..Len(q) : p[i] # q[j]
    BY DEF NoneShared
  <2> QED
    BY ONLY <1>1, <1>4, <1>5, <2>1 DEF NoRepeats
<1>8. Holds(l, Q, N, V)
  OBVIOUS
<1>9. Holds(m, P, N, V)
  <2>1. P \in [DOMAIN Q -> Seq(N \ DOMAIN Q)] /\ Writes(m, l, N, V, D, D)
    BY ONLY <1>4, <1>5
  <2>2. Become(P, Q, H, m, N, D)
    BY ONLY <1>4, <1>6, <1>7 DEF Become
  <2> QED
    BY ONLY <1>3, <1>8, <2>1, <2>2, ListsChange
<1> QED
  BY <1>1, <1>9

\* What is known of a list of Q.
LEMMA HeldList ==
    ASSUME NEW l, NEW Q, NEW N, NEW V, Holds(l, Q, N, V), NEW h \in DOMAIN Q,
           NEW E, E = N \ DOMAIN Q, NEW p, p = Q[h]
    PROVE  /\ ListIn(l, h, p, N, E) /\ p \in Seq(E) /\ Len(p) \in Nat /\ DOMAIN p = 1..Len(p)
           /\ N \subseteq V /\ l \in Memories(N, V) /\ E \subseteq N
           /\ \A e \in Fresh(Q, N) : e \in E \ Range(p)
<1>1. ListIn(l, h, p, N, E) /\ p \in Seq(E) /\ N \subseteq V /\ l \in Memories(N, V)
  BY DEF Holds
<1>2. Len(p) \in Nat /\ DOMAIN p = 1..Len(p)
  BY <1>1, LenProperties
<1>3. \A e \in Fresh(Q, N) : e \in E \ Range(p)
  BY DEF Fresh, Listed
<1> QED
  BY <1>1, <1>2, <1>3

LEMMA AddHolds ==
    ASSUME NEW l, NEW Q, NEW N, NEW V, Holds(l, Q, N, V), NEW h \in DOMAIN Q,
           NEW p, p = Q[h], NEW k \in 0..Len(p), NEW e \in Fresh(Q, N),
           NEW q \in Seq(N \ DOMAIN Q), Len(q) = Len(p) + 1, Inserted(q, p, Len(p), k, e),
           NEW m, m = ListAddBetween(l, e, Ring(h, p)[k], Ring(h, p)[k + 1])
    PROVE  Holds(m, [Q EXCEPT ![h] = q], N, V)
<1>0. PICK E, D : E = N \ DOMAIN Q /\ D = {h} \cup Range(p) \cup {e}
  OBVIOUS
<1>1. /\ ListIn(l, h, p, N, E) /\ N \subseteq V /\ l \in Memories(N, V)
      /\ e \in E \ Range(p) /\ q \in Seq(E)
  BY <1>0, HeldList
<1>2. Changes(m, l, h, q, N, V, E, D)
  BY <1>0, <1>1, AddToList
<1>3. {e} \in SUBSET Fresh(Q, N) /\ D = {h} \cup Range(Q[h]) \cup {e}
  BY <1>0
<1> QED
  BY <1>0, <1>1, <1>2, <1>3, OneListChanges

\* e is the k-th of p.  It leaves its list, or gives its place to f.
At(p, k, e) == k \in 1..Len(p) /\ e = p[k]
Deleting(m, l, e, nil) == m \in {ListDelEntry(l, e), ListDel(l, e, nil), ListDelInit(l, e)}
Replacing(m, l, e, f) == m \in {ListReplace(l, e, f), ListReplaceInit(l, e, f)}

LEMMA DelHolds ==
    ASSUME NEW l, NEW Q, NEW N, NEW V, Holds(l, Q, N, V), NEW h \in DOMAIN Q,
           NEW p, p = Q[h], NEW k, NEW e, At(p, k, e), NEW nil \in V,
           NEW q \in Seq(N \ DOMAIN Q), Len(q) = Len(p) - 1, Removed(q, p, Len(p), k),
           NEW m, Deleting(m, l, e, nil)
    PROVE  Holds(m, [Q EXCEPT ![h] = q], N, V) /\ e \in Fresh([Q EXCEPT ![h] = q], N)
<1> k \in 1..Len(p) /\ e = p[k]
  BY DEF At
<1> m \in {ListDelEntry(l, e), ListDel(l, e, nil), ListDelInit(l, e)}
  BY DEF Deleting
<1>0. PICK E, D, n : E = N \ DOMAIN Q /\ D = {h} \cup Range(p) /\ n = Len(p)
  OBVIOUS
<1>1. /\ ListIn(l, h, p, N, E) /\ N \subseteq V /\ l \in Memories(N, V)
      /\ q \in Seq(E) /\ n \in Nat /\ DOMAIN p = 1..n
  BY <1>0, HeldList
<1>2. Changes(m, l, h, q, N, V, E, D)
  BY <1>0, <1>1, RemoveFromList
<1>3. {} \in SUBSET Fresh(Q, N) /\ D = {h} \cup Range(Q[h]) \cup {}
  BY <1>0
<1>4. Holds(m, [Q EXCEPT ![h] = q], N, V)
  BY <1>0, <1>1, <1>2, <1>3, OneListChanges
<1>5. e \in E /\ e \in Range(p)
  <2>1. e \in Range(p)
    BY <1>0, <1>1 DEF Range
  <2> QED
    BY <1>1, <2>1, ListEntries
<1>6. e \notin Range(q)
  <2>1. DOMAIN q = 1..n - 1
    BY <1>0, LenProperties
  <2>2. ASSUME NEW i \in 1..n - 1 PROVE q[i] # e
    <3>1. \A j \in 1..n : p[j] = p[k] => j = k
      BY <1>0, <1>1 DEF ListIn, NoRepeats
    <3>2. q[i] = IF i < k THEN p[i] ELSE p[i + 1]
      BY <1>0 DEF Removed
    <3> QED
      BY <1>0, <1>1, <3>1, <3>2
  <2> QED
    BY <2>1, <2>2 DEF Range
<1>7. \A g \in DOMAIN Q : g # h => e \notin Range(Q[g])
  <2> SUFFICES ASSUME NEW g \in DOMAIN Q, g # h PROVE e \notin Range(Q[g])
    OBVIOUS
  <2>1. ({g} \cup Range(Q[g])) \cap ({h} \cup Range(Q[h])) = {}
    BY HeldApart
  <2> QED
    BY <1>5, <2>1
<1>8. PICK P : P = [Q EXCEPT ![h] = q]
  OBVIOUS
<1>9. DOMAIN P = DOMAIN Q /\ P[h] = q /\ \A g \in DOMAIN Q : g # h => P[g] = Q[g]
  BY <1>8
<1>10. e \in Fresh(P, N)
  BY <1>0, <1>5, <1>6, <1>7, <1>9 DEF Fresh, Listed
<1> QED
  BY <1>4, <1>8, <1>10

LEMMA ReplaceHolds ==
    ASSUME NEW l, NEW Q, NEW N, NEW V, Holds(l, Q, N, V), NEW h \in DOMAIN Q,
           NEW p, p = Q[h], NEW k, NEW e, At(p, k, e), NEW f \in Fresh(Q, N),
           NEW q \in Seq(N \ DOMAIN Q), Len(q) = Len(p), Replaced(q, p, Len(p), k, f),
           NEW m, Replacing(m, l, e, f)
    PROVE  Holds(m, [Q EXCEPT ![h] = q], N, V) /\ e \in Fresh([Q EXCEPT ![h] = q], N)
<1> k \in 1..Len(p) /\ e = p[k]
  BY DEF At
<1> m \in {ListReplace(l, e, f), ListReplaceInit(l, e, f)}
  BY DEF Replacing
<1>0. PICK E, D, n : E = N \ DOMAIN Q /\ D = {h} \cup Range(p) \cup {f} /\ n = Len(p)
  OBVIOUS
<1>1. /\ ListIn(l, h, p, N, E) /\ N \subseteq V /\ l \in Memories(N, V)
      /\ f \in E \ Range(p) /\ q \in Seq(E) /\ n \in Nat /\ DOMAIN p = 1..n
  BY <1>0, HeldList
<1>2. Changes(m, l, h, q, N, V, E, D)
  BY <1>0, <1>1, ReplaceInList
<1>3. {f} \in SUBSET Fresh(Q, N) /\ D = {h} \cup Range(Q[h]) \cup {f}
  BY <1>0
<1>4. Holds(m, [Q EXCEPT ![h] = q], N, V)
  BY <1>0, <1>1, <1>2, <1>3, OneListChanges
<1>5. e \in E /\ e \in Range(p) /\ e # f
  <2>1. e \in Range(p)
    BY <1>0, <1>1 DEF Range
  <2> QED
    BY <1>1, <2>1, ListEntries
<1>6. e \notin Range(q)
  <2>1. DOMAIN q = 1..n
    BY <1>0, LenProperties
  <2>2. ASSUME NEW i \in 1..n PROVE q[i] # e
    <3>1. \A j \in 1..n : p[j] = p[k] => j = k
      BY <1>0, <1>1 DEF ListIn, NoRepeats
    <3>2. q[i] = IF i = k THEN f ELSE p[i]
      BY <1>0 DEF Replaced
    <3> QED
      BY <1>0, <1>1, <1>5, <3>1, <3>2
  <2> QED
    BY <2>1, <2>2 DEF Range
<1>7. \A g \in DOMAIN Q : g # h => e \notin Range(Q[g])
  <2> SUFFICES ASSUME NEW g \in DOMAIN Q, g # h PROVE e \notin Range(Q[g])
    OBVIOUS
  <2>1. ({g} \cup Range(Q[g])) \cap ({h} \cup Range(Q[h])) = {}
    BY HeldApart
  <2> QED
    BY <1>5, <2>1
<1>8. PICK P : P = [Q EXCEPT ![h] = q]
  OBVIOUS
<1>9. DOMAIN P = DOMAIN Q /\ P[h] = q /\ \A g \in DOMAIN Q : g # h => P[g] = Q[g]
  BY <1>8
<1>10. e \in Fresh(P, N)
  BY <1>0, <1>5, <1>6, <1>7, <1>9 DEF Fresh, Listed
<1> QED
  BY <1>4, <1>8, <1>10

\* Places from a to b.
Span(p, a, b) == a \in 1..Len(p) /\ b \in a..Len(p)

LEMMA BulkHolds ==
    ASSUME NEW l, NEW Q, NEW N, NEW V, Holds(l, Q, N, V), NEW h \in DOMAIN Q,
           NEW p, p = Q[h], NEW a, NEW b, Span(p, a, b),
           NEW q \in Seq(N \ DOMAIN Q), Len(q) = Len(p), Bulked(q, p, Len(p), a, b),
           NEW m, m = ListBulkMoveTail(l, h, p[a], p[b])
    PROVE  Holds(m, [Q EXCEPT ![h] = q], N, V)
<1>0. PICK E, D : E = N \ DOMAIN Q /\ D = {h} \cup Range(p)
  OBVIOUS
<1>1. /\ ListIn(l, h, p, N, E) /\ N \subseteq V /\ l \in Memories(N, V) /\ q \in Seq(E)
  BY <1>0, HeldList
<1>2. Changes(m, l, h, q, N, V, E, D)
  BY <1>0, <1>1, BulkInList DEF Span
<1>3. {} \in SUBSET Fresh(Q, N) /\ D = {h} \cup Range(Q[h]) \cup {}
  BY <1>0
<1> QED
  BY <1>0, <1>1, <1>2, <1>3, OneListChanges

LEMMA RotateHolds ==
    ASSUME NEW l, NEW Q, NEW N, NEW V, Holds(l, Q, N, V), NEW h \in DOMAIN Q,
           NEW p, p = Q[h], NEW k \in 1..Len(p),
           NEW q \in Seq(N \ DOMAIN Q), Len(q) = Len(p), Rotated(q, p, Len(p), k),
           NEW m, m = ListRotateToFront(l, p[k], h)
    PROVE  Holds(m, [Q EXCEPT ![h] = q], N, V)
<1>0. PICK E, D : E = N \ DOMAIN Q /\ D = {h} \cup Range(p)
  OBVIOUS
<1>1. /\ ListIn(l, h, p, N, E) /\ N \subseteq V /\ l \in Memories(N, V) /\ q \in Seq(E)
  BY <1>0, HeldList
<1>2. Changes(m, l, h, q, N, V, E, D)
  BY <1>0, <1>1, RotateInList
<1>3. {} \in SUBSET Fresh(Q, N) /\ D = {h} \cup Range(Q[h]) \cup {}
  BY <1>0
<1> QED
  BY <1>0, <1>1, <1>2, <1>3, OneListChanges


\* A list whose head points to itself is empty.
LEMMA EmptyList ==
    ASSUME NEW m, NEW N, NEW E, E \subseteq N, NEW g \in N \ E, NEW p \in Seq(E), Len(p) = 0,
           m.next[g] = g, m.prev[g] = g
    PROVE  ListIn(m, g, p, N, E)
<1>1. NoRepeats(p, Len(p))
  BY DEF NoRepeats
<1>2. \A i \in 0..1 : Ring(g, p)[i] = g
  BY DEF Ring
<1>3. Around(m.next, m.prev, Ring(g, p), Len(p))
  BY <1>2 DEF Around
<1> QED
  BY <1>1, <1>3 DEF ListIn

\* q is the sequence p of n members with the a members of r behind place k.
Spliced(q, p, n, r, a, k) ==
    \A i \in 1..n + a : q[i] = IF i <= k THEN p[i]
                               ELSE IF i <= k + a THEN r[i - k]
                               ELSE p[i - a]

LEMMA SpliceIndex ==
    ASSUME NEW n \in Nat, NEW a \in Nat, NEW k \in 0..n, NEW A, NEW B, A \cap B = {},
           NEW p, NEW r, NEW q, NEW h, NEW g, NEW R, NEW T, NEW S,
           Among(p, n, A), NoRepeats(p, n), IsRing(R, h, p, n),
           Among(r, a, B), NoRepeats(r, a), IsRing(T, g, r, a),
           Spliced(q, p, n, r, a, k), IsRing(S, h, q, n + a)
    PROVE  /\ Among(q, n + a, A \cup B) /\ NoRepeats(q, n + a)
           /\ RingJoined(S, R, T, n, a, k)
<1>0. /\ \A i \in 1..n : p[i] \in A
      /\ \A i, j \in 1..n : p[i] = p[j] => i = j
      /\ \A i \in 1..a : r[i] \in B
      /\ \A i, j \in 1..a : r[i] = r[j] => i = j
      /\ \A i \in 0..n + 1 : R[i] = IF i \in 1..n THEN p[i] ELSE h
      /\ \A i \in 0..a + 1 : T[i] = IF i \in 1..a THEN r[i] ELSE g
      /\ \A i \in 0..n + a + 1 : S[i] = IF i \in 1..n + a THEN q[i] ELSE h
      /\ k \in Nat /\ k <= n
  BY DEF Among, NoRepeats, IsRing
<1>1. ASSUME NEW i \in 1..n + a
      PROVE  \/ i <= k /\ i \in 1..n /\ q[i] = p[i]
             \/ /\ ~(i <= k) /\ i <= k + a /\ i - k \in 1..a /\ q[i] = r[i - k]
             \/ /\ ~(i <= k) /\ ~(i <= k + a) /\ i - a \in 1..n /\ i - a > k /\ q[i] = p[i - a]
  BY <1>0 DEF Spliced
<1>2. Among(q, n + a, A \cup B)
  BY <1>0, <1>1 DEF Among
<1>3. NoRepeats(q, n + a)
  <2> SUFFICES ASSUME NEW i \in 1..n + a, NEW j \in 1..n + a, q[i] = q[j] PROVE i = j
    BY DEF NoRepeats
  <2>1. CASE i <= k
    BY <1>0, <1>1, <2>1
  <2>2. CASE ~(i <= k) /\ i <= k + a
    BY <1>0, <1>1, <2>2
  <2>3. CASE ~(i <= k + a) /\ ~(i <= k)
    BY <1>0, <1>1, <2>3
  <2> QED
    BY <2>1, <2>2, <2>3
<1>4. ASSUME NEW i \in 0..n + a + 1
      PROVE  S[i] = IF i <= k THEN R[i] ELSE IF i <= k + a THEN T[i - k] ELSE R[i - a]
  <2>1. CASE i = 0
    BY <1>0, <2>1
  <2>2. CASE i = n + a + 1
    <3>1. S[i] = h /\ R[n + 1] = h /\ i - a = n + 1 /\ ~(i <= k) /\ ~(i <= k + a)
      BY <1>0, <2>2
    <3> QED
      BY <3>1
  <2>3. CASE i \in 1..n + a
    <3>1. S[i] = q[i]
      BY <1>0, <2>3
    <3>2. /\ \A j \in 1..n : R[j] = p[j]
          /\ \A j \in 1..a : T[j] = r[j]
      BY <1>0
    <3> QED
      BY <1>1, <2>3, <3>1, <3>2
  <2> QED
    BY <2>1, <2>2, <2>3
<1> QED
  BY <1>2, <1>3, <1>4 DEF RingJoined

\* list_splice_init and list_splice_tail_init of a list that is not empty.
LEMMA SpliceHolds ==
    ASSUME NEW l, NEW Q, NEW N, NEW V, Holds(l, Q, N, V),
           NEW g \in DOMAIN Q, NEW h \in DOMAIN Q, g # h,
           NEW r, r = Q[g], Len(r) # 0, NEW p, p = Q[h], NEW k \in 0..Len(p),
           NEW q \in Seq(N \ DOMAIN Q), Len(q) = Len(p) + Len(r),
           Spliced(q, p, Len(p), r, Len(r), k),
           NEW m, m = InitListHead(SpliceBetween(l, g, Ring(h, p)[k], Ring(h, p)[k + 1]), g)
    PROVE  Holds(m, [Q EXCEPT ![g] = <<>>, ![h] = q], N, V)
<1>0. PICK E, D, A, B, n, a, R, T, S :
          /\ E = N \ DOMAIN Q /\ D = {g, h} \cup Range(r) \cup Range(p)
          /\ A = Range(p) /\ B = Range(r) /\ n = Len(p) /\ a = Len(r)
          /\ R = Ring(h, p) /\ T = Ring(g, r) /\ S = Ring(h, q)
  OBVIOUS
<1>1. /\ ListIn(l, h, p, N, E) /\ ListIn(l, g, r, N, E)
      /\ N \subseteq V /\ l \in Memories(N, V) /\ q \in Seq(E)
  BY <1>0, HeldList
<1>2. /\ n \in Nat /\ R[0] = h /\ R[n + 1] = h /\ IsRing(R, h, p, n)
      /\ \A i \in 0..n + 1 : R[i] \in {h} \cup A /\ R[i] \in N
      /\ Around(l.next, l.prev, R, n) /\ Simple(R, n, N)
  BY <1>0, <1>1, ListRing
<1>3. /\ a \in Nat /\ T[0] = g /\ T[a + 1] = g /\ IsRing(T, g, r, a)
      /\ \A i \in 0..a + 1 : T[i] \in {g} \cup B /\ T[i] \in N
      /\ Around(l.next, l.prev, T, a) /\ Simple(T, a, N)
  BY <1>0, <1>1, ListRing
<1>4. /\ A \subseteq E /\ B \subseteq E /\ E \subseteq N /\ h \in N \ E /\ g \in N \ E
      /\ Among(p, n, A) /\ NoRepeats(p, n) /\ Among(r, a, B) /\ NoRepeats(r, a)
  BY <1>0, <1>1, ListEntries
<1>5. ({g} \cup B) \cap ({h} \cup A) = {}
  BY <1>0, HeldApart
<1>6. RingsApart(R, n, T, a)
  BY <1>2, <1>3, <1>5 DEF RingsApart
<1>7. /\ a \in Nat \ {0} /\ k \in 0..n /\ Len(q) = n + a
      /\ {k, k + 1} \subseteq 0..n + 1 /\ {0, 1, a, a + 1} \subseteq 0..a + 1
      /\ {0, a} \subseteq 0..a /\ 0 + 1 = 1 /\ {1, a + 1} \subseteq 1..a + 1
      /\ Spliced(q, p, n, r, a, k) /\ A \cap B = {}
  BY <1>0, <1>2, <1>3, <1>5
<1>8. IsRing(S, h, q, n + a)
  BY <1>0, <1>7 DEF Ring, IsRing
<1>9. /\ Among(q, n + a, A \cup B) /\ NoRepeats(q, n + a) /\ RingJoined(S, R, T, n, a, k)
  BY ONLY <1>2, <1>3, <1>4, <1>7, <1>8, SpliceIndex
<1>10. PICK x, y, first, last : x = R[k] /\ y = R[k + 1] /\ first = T[1] /\ last = T[a]
  OBVIOUS
<1>11. /\ x \in N \ {g, first, last} /\ y \in N \ {g, first, last}
       /\ first \in N \ {g} /\ last \in N \ {g} /\ g \in N
       /\ l.next[g] = first /\ l.prev[g] = last
       /\ {x, y, first, last, g} \subseteq D
  <2>1. /\ x \in N /\ y \in N /\ x \in {h} \cup A /\ y \in {h} \cup A
        /\ first \in N /\ last \in N /\ first \in {g} \cup B /\ last \in {g} \cup B
    BY ONLY <1>2, <1>3, <1>7, <1>10
  <2>2. first # g /\ last # g /\ l.next[g] = first /\ l.prev[g] = last
    BY ONLY <1>3, <1>7, <1>10 DEF Simple, Around
  <2> QED
    BY ONLY <1>0, <1>4, <1>5, <2>1, <2>2
<1>12. m = InitListHead(SpliceBetween(l, g, x, y), g)
  BY <1>0, <1>10
<1>13. Rewires(m, l, N, V, {x, last, g}, {y, first, g},
               {<<x, first>>, <<last, y>>, <<g, g>>})
  BY ONLY <1>1, <1>11, <1>12, SpliceWrites
<1>14. /\ Writes(m, l, N, V, {x, last, g}, {y, first, g})
       /\ m.next[x] = first /\ m.prev[first] = x /\ m.next[last] = y /\ m.prev[y] = last
       /\ m.next[g] = g /\ m.prev[g] = g
  BY <1>13 DEF Rewires
<1>15. Around(m.next, m.prev, S, n + a)
  <2>1. /\ Agree(m.next, l.next, N, {R[k], T[a], T[0]})
        /\ Agree(m.prev, l.prev, N, {R[k + 1], T[1], T[0]})
        /\ m.next[R[k]] = T[1] /\ m.prev[T[1]] = R[k]
        /\ m.next[T[a]] = R[k + 1] /\ m.prev[R[k + 1]] = T[a]
    BY <1>3, <1>10, <1>14 DEF Writes
  <2> QED
    BY ONLY <1>2, <1>3, <1>6, <1>7, <1>9, <2>1, JoinRings
<1>16. PICK e : e = <<>>
  OBVIOUS
<1>17. e \in Seq(E) /\ Len(e) = 0
  BY <1>16
<1>18. ListIn(m, g, e, N, E)
  BY ONLY <1>4, <1>14, <1>17, EmptyList
<1>19. Writes(m, l, N, V, D, D)
  <2>1. {x, last, g} \subseteq D /\ {y, first, g} \subseteq D
    BY <1>11
  <2> QED
    BY <1>14, <2>1, WritesMore
<1>20. Changes(m, l, g, e, N, V, E, D)
  BY <1>17, <1>18, <1>19 DEF Changes, Among
<1>21. Changes(m, l, h, q, N, V, E, D)
  <2>1. Among(q, n + a, D)
    BY <1>0, <1>9 DEF Among
  <2> QED
    BY <1>0, <1>1, <1>4, <1>7, <1>9, <1>15, <1>19, <2>1 DEF Changes, ListIn
<1>22. NoneShared(e, Len(e), q, Len(q))
  BY <1>17 DEF NoneShared
<1>23. D = {g, h} \cup Range(Q[g]) \cup Range(Q[h]) /\ E = N \ DOMAIN Q
  BY <1>0
<1>24. Holds(l, Q, N, V) /\ g \in DOMAIN Q /\ h \in DOMAIN Q /\ g # h
  OBVIOUS
<1>25. Holds(m, [Q EXCEPT ![g] = e, ![h] = q], N, V)
  BY ONLY <1>1, <1>17, <1>20, <1>21, <1>22, <1>23, <1>24, TwoListsChange
<1> QED
  BY <1>16, <1>25


\* r is the first k of the n members of p, q the rest.
Parted(r, q, p, n, k) ==
    (\A i \in 1..k : r[i] = p[i]) /\ (\A i \in 1..n - k : q[i] = p[k + i])

LEMMA CutIndex ==
    ASSUME NEW n \in Nat, NEW k \in 1..n, NEW A,
           NEW p, NEW r, NEW q, NEW h, NEW g, NEW R, NEW T, NEW S,
           Among(p, n, A), NoRepeats(p, n), IsRing(R, h, p, n),
           Parted(r, q, p, n, k), IsRing(T, g, r, k), IsRing(S, h, q, n - k)
    PROVE  /\ Among(r, k, A) /\ NoRepeats(r, k) /\ Among(q, n - k, A) /\ NoRepeats(q, n - k)
           /\ IsRing(T, g, R, k) /\ RingRest(S, R, n, k)
           /\ NoneShared(r, k, q, n - k)
<1>0. /\ \A i \in 1..n : p[i] \in A
      /\ \A i, j \in 1..n : p[i] = p[j] => i = j
      /\ \A i \in 0..n + 1 : R[i] = IF i \in 1..n THEN p[i] ELSE h
      /\ \A i \in 0..k + 1 : T[i] = IF i \in 1..k THEN r[i] ELSE g
      /\ \A i \in 0..n - k + 1 : S[i] = IF i \in 1..n - k THEN q[i] ELSE h
      /\ k \in Nat /\ 1 <= k /\ k <= n
  BY DEF Among, NoRepeats, IsRing
<1>1. /\ \A i \in 1..k : i \in 1..n /\ r[i] = p[i]
      /\ \A i \in 1..n - k : k + i \in 1..n /\ q[i] = p[k + i]
  BY <1>0 DEF Parted
<1>2. Among(r, k, A) /\ Among(q, n - k, A)
  BY <1>0, <1>1 DEF Among
<1>3. NoRepeats(r, k) /\ NoRepeats(q, n - k)
  BY <1>0, <1>1 DEF NoRepeats
<1>4. IsRing(T, g, R, k)
  BY <1>0, <1>1 DEF IsRing
<1>5. RingRest(S, R, n, k)
  <2> SUFFICES ASSUME NEW i \in 0..n - k + 1 PROVE S[i] = IF i = 0 THEN R[0] ELSE R[k + i]
    BY DEF RingRest
  <2>1. CASE i = 0
    BY <1>0, <2>1
  <2>2. CASE i = n - k + 1
    <3>1. k + i = n + 1 /\ i # 0
      BY <1>0, <2>2
    <3> QED
      BY <1>0, <2>2, <3>1
  <2>3. CASE i \in 1..n - k
    <3>1. S[i] = q[i] /\ k + i \in 1..n
      BY <1>0, <2>3
    <3>2. R[k + i] = p[k + i]
      BY <1>0, <3>1
    <3> QED
      BY <1>1, <2>3, <3>1, <3>2
  <2> QED
    BY <2>1, <2>2, <2>3
<1>6. NoneShared(r, k, q, n - k)
  BY <1>0, <1>1 DEF NoneShared
<1> QED
  BY <1>2, <1>3, <1>4, <1>5, <1>6

\* list_cut_position and list_cut_before, behind the k-th entry.
Cutting(m, l, g, h, p, k) ==
    m \in {CutUpTo(l, g, h, Ring(h, p)[k]), ListCutBefore(l, g, h, Ring(h, p)[k + 1])}

LEMMA CutHolds ==
    ASSUME NEW l, NEW Q, NEW N, NEW V, Holds(l, Q, N, V),
           NEW g \in DOMAIN Q, NEW h \in DOMAIN Q, g # h,
           NEW p, p = Q[h], NEW k \in 1..Len(p),
           NEW r \in Seq(N \ DOMAIN Q), Len(r) = k,
           NEW q \in Seq(N \ DOMAIN Q), Len(q) = Len(p) - k, Parted(r, q, p, Len(p), k),
           NEW m, Cutting(m, l, g, h, p, k)
    PROVE  Holds(m, [Q EXCEPT ![g] = r, ![h] = q], N, V)
<1>0. PICK E, D, A, n, R, T, S :
          /\ E = N \ DOMAIN Q /\ D = {g, h} \cup Range(Q[g]) \cup Range(p)
          /\ A = Range(p) /\ n = Len(p)
          /\ R = Ring(h, p) /\ T = Ring(g, r) /\ S = Ring(h, q)
  OBVIOUS
<1>1. /\ ListIn(l, h, p, N, E) /\ ListIn(l, g, Q[g], N, E)
      /\ N \subseteq V /\ l \in Memories(N, V) /\ q \in Seq(E) /\ r \in Seq(E)
  BY <1>0, HeldList
<1>2. /\ n \in Nat /\ R[0] = h /\ R[n + 1] = h /\ IsRing(R, h, p, n)
      /\ \A i \in 0..n + 1 : R[i] \in {h} \cup A /\ R[i] \in N
      /\ Around(l.next, l.prev, R, n) /\ Simple(R, n, N)
  BY <1>0, <1>1, ListRing
<1>3. /\ A \subseteq E /\ E \subseteq N /\ h \in N \ E /\ g \in N \ E
      /\ Among(p, n, A) /\ NoRepeats(p, n)
  <2>1. g \in N \ E
    BY <1>1 DEF ListIn
  <2> QED
    BY <1>0, <1>1, <2>1, ListEntries
<1>4. /\ k \in 1..n /\ k \in Nat /\ Len(r) = k /\ Len(q) = n - k /\ n - k \in Nat
      /\ Parted(r, q, p, n, k)
      /\ {0, 1, k, k + 1} \subseteq 0..n + 1 /\ {0, k} \subseteq 0..n
      /\ {1, k, k + 1, n + 1} \subseteq 1..n + 1 /\ 0 + 1 = 1 /\ k + 1 # 1 /\ k # k + 1
  BY <1>0, <1>2
<1>5. IsRing(T, g, r, k) /\ IsRing(S, h, q, n - k)
  <2>1. IsRing(T, g, r, k)
    BY <1>0, <1>4 DEF Ring, IsRing
  <2>2. Len(q) = n - k /\ S = Ring(h, q)
    BY <1>0, <1>4
  <2> QED
    BY ONLY <2>1, <2>2 DEF Ring, IsRing
<1>6. /\ Among(r, k, A) /\ NoRepeats(r, k) /\ Among(q, n - k, A) /\ NoRepeats(q, n - k)
      /\ IsRing(T, g, R, k) /\ RingRest(S, R, n, k)
      /\ NoneShared(r, k, q, n - k)
  BY ONLY <1>2, <1>3, <1>4, <1>5, CutIndex
<1>7. PICK x, y, first : x = R[k] /\ y = R[k + 1] /\ first = R[1]
  OBVIOUS
<1>8. \A i \in 0..n + 1 : R[i] # g
  BY <1>0, <1>2, <1>3
<1>9. /\ h \in N /\ first \in N \ {h} /\ x \in N \ {h} /\ y \in N \ {first, x}
      /\ g \in N \ {h, first, x, y} /\ {g, h, x, y, first} \subseteq D
      /\ l.next[h] = first /\ l.next[x] = y /\ l.prev[y] = x
  <2>1. \A i \in {0, 1, k, k + 1} : R[i] \in N /\ R[i] \in {h} \cup A /\ R[i] # g
    BY ONLY <1>2, <1>4, <1>8
  <2>2. /\ first # h /\ x # h /\ y # first /\ y # x
        /\ l.next[h] = first /\ l.next[x] = y /\ l.prev[y] = x
    BY ONLY <1>2, <1>4, <1>7 DEF Simple, Around
  <2>3. g \in N /\ h \in N /\ g # h
    BY <1>3
  <2>4. {g, h, x, y, first} \subseteq D
    BY <1>0, <1>7, <2>1
  <2> QED
    BY ONLY <1>7, <2>1, <2>2, <2>3, <2>4
<1>10. Rewires(m, l, N, V, {h, x, g}, {first, y, g}, {<<g, first>>, <<x, g>>, <<h, y>>})
  <2>1. m = CutUpTo(l, g, h, x) \/ (l.next[h] # y /\ m = ListCutBefore(l, g, h, y))
    BY <1>0, <1>7, <1>9 DEF Cutting
  <2> QED
    BY ONLY <1>1, <1>9, <2>1, CutWrites
<1>11. /\ Writes(m, l, N, V, {h, x, g}, {first, y, g})
       /\ m.next[g] = first /\ m.prev[first] = g /\ m.next[x] = g /\ m.prev[g] = x
       /\ m.next[h] = y /\ m.prev[y] = h
  BY <1>10 DEF Rewires
<1>12. Around(m.next, m.prev, T, k) /\ Around(m.next, m.prev, S, n - k)
  <2>1. /\ Agree(m.next, l.next, N, {R[0], R[k], g}) /\ Agree(m.prev, l.prev, N, {R[1], R[k + 1], g})
        /\ m.next[g] = R[1] /\ m.prev[R[1]] = g /\ m.next[R[k]] = g /\ m.prev[g] = R[k]
        /\ m.next[R[0]] = R[k + 1] /\ m.prev[R[k + 1]] = R[0]
    BY <1>2, <1>7, <1>11 DEF Writes
  <2>2. /\ n \in Nat /\ k \in 1..n /\ Around(l.next, l.prev, R, n) /\ Simple(R, n, N)
        /\ \A i \in 0..n + 1 : R[i] # g
        /\ IsRing(T, g, R, k) /\ RingRest(S, R, n, k)
    BY ONLY <1>2, <1>4, <1>6, <1>8
  <2>3. Around(m.next, m.prev, T, k)
    BY ONLY <2>1, <2>2, CutRing
  <2>4. Around(m.next, m.prev, S, n - k)
    BY ONLY <2>1, <2>2, CutRing
  <2> QED
    BY ONLY <2>3, <2>4
<1>13. Writes(m, l, N, V, D, D)
  <2>1. {h, x, g} \subseteq D /\ {first, y, g} \subseteq D
    BY <1>9
  <2> QED
    BY <1>11, <2>1, WritesMore
<1>14. Among(r, k, D) /\ Among(q, n - k, D)
  BY <1>0, <1>6 DEF Among
<1>15. Changes(m, l, g, r, N, V, E, D)
  BY <1>0, <1>1, <1>3, <1>4, <1>6, <1>12, <1>13, <1>14 DEF Changes, ListIn
<1>16. Changes(m, l, h, q, N, V, E, D)
  BY <1>0, <1>1, <1>3, <1>4, <1>6, <1>12, <1>13, <1>14 DEF Changes, ListIn
<1>17. NoneShared(r, Len(r), q, Len(q))
  BY <1>4, <1>6
<1>18. D = {g, h} \cup Range(Q[g]) \cup Range(Q[h]) /\ E = N \ DOMAIN Q
  BY <1>0
<1>19. Holds(l, Q, N, V) /\ g \in DOMAIN Q /\ h \in DOMAIN Q /\ g # h
  OBVIOUS
<1> QED
  BY ONLY <1>1, <1>15, <1>16, <1>17, <1>18, <1>19, TwoListsChange

\* INIT_LIST_HEAD of a list that is empty.
LEMMA InitHolds ==
    ASSUME NEW l, NEW Q, NEW N, NEW V, Holds(l, Q, N, V),
           NEW g \in DOMAIN Q, Len(Q[g]) = 0, NEW m, m = InitListHead(l, g)
    PROVE  Holds(m, Q, N, V)
<1>0. PICK E, D, q : E = N \ DOMAIN Q /\ q = Q[g] /\ D = {g} \cup Range(q)
  OBVIOUS
<1>1. /\ ListIn(l, g, q, N, E) /\ N \subseteq V /\ l \in Memories(N, V) /\ q \in Seq(E)
  BY <1>0, HeldList
<1>2. E \subseteq N /\ g \in N \ E /\ Len(q) = 0 /\ g \in N
  BY <1>0, <1>1 DEF ListIn
<1>3. Rewires(m, l, N, V, {g}, {g}, {<<g, g>>})
  BY <1>1, <1>2, InitWrites
<1>4. Writes(m, l, N, V, {g}, {g}) /\ m.next[g] = g /\ m.prev[g] = g
  BY <1>3 DEF Rewires
<1>5. ListIn(m, g, q, N, E)
  BY <1>1, <1>2, <1>4, EmptyList
<1>6. {g} \subseteq D
  BY <1>0
<1>7. Changes(m, l, g, q, N, V, E, D)
  BY <1>2, <1>4, <1>5, <1>6, WritesMore DEF Changes, Among
<1>8. {} \in SUBSET Fresh(Q, N) /\ D = {g} \cup Range(Q[g]) \cup {}
  BY <1>0
<1>9. Holds(m, [Q EXCEPT ![g] = q], N, V)
  BY <1>0, <1>1, <1>7, <1>8, OneListChanges
<1>10. [Q EXCEPT ![g] = q] = Q
  BY <1>0 DEF Holds
<1> QED
  BY <1>9, <1>10


----------------------------------------------------------------------------
(* Walking a list, both ways.                                              *)

LEMMA ListWalks ==
    ASSUME NEW N, IsFiniteSet(N), NEW V, NEW l \in Memories(N, V), NEW h, NEW q, NEW E,
           ListIn(l, h, q, N, E)
    PROVE  /\ Circular(l.next, h) /\ EntriesOf(l.next, h) = q
           /\ Circular(l.prev, h) /\ EntriesOf(l.prev, h) = Reverse(q)
<1>0. PICK R, n, r, S : R = Ring(h, q) /\ n = Len(q) /\ r = Reverse(q) /\ S = Ring(h, r)
  OBVIOUS
<1>1. /\ E \subseteq N /\ h \in N \ E /\ q \in Seq(E) /\ NoRepeats(q, n) /\ n \in Nat
      /\ Around(l.next, l.prev, R, n) /\ DOMAIN q = 1..n
  BY <1>0, LenProperties DEF ListIn
<1>2. /\ DOMAIN l.next = N /\ DOMAIN l.prev = N
  BY DEF Memories
<1>3. q \in Seq(N) /\ IsInjective(q) /\ h \notin Range(q) /\ h \in N
  <2>1. \A i \in 1..n : q[i] \in E
    BY <1>1
  <2> QED
    BY <1>1, <2>1 DEF IsInjective, NoRepeats, Range
<1>4. Circular(l.next, h) /\ EntriesOf(l.next, h) = q
  <2>1. \A i \in 0..Len(q) : l.next[Ring(h, q)[i]] = Ring(h, q)[i + 1]
    BY <1>0, <1>1 DEF Around
  <2>2. IsFiniteSet(N)
    OBVIOUS
  <2> QED
    BY ONLY <1>2, <1>3, <2>1, <2>2, WalkMeets
<1>5. /\ r \in Seq(N) /\ Len(r) = n /\ DOMAIN r = 1..n
      /\ \A i \in 1..n : n - i + 1 \in 1..n /\ r[i] = q[n - i + 1]
  <2>1. r = [i \in 1..n |-> q[n - i + 1]]
    BY <1>0 DEF Reverse
  <2>2. \A i \in 1..n : n - i + 1 \in 1..n /\ q[n - i + 1] \in N
    BY <1>1
  <2> QED
    BY <1>1, <2>1, <2>2
<1>6. IsInjective(r) /\ h \notin Range(r)
  <2>1. \A i, j \in 1..n : q[n - i + 1] = q[n - j + 1] => i = j
    <3>1. \A i, j \in 1..n : q[i] = q[j] => i = j
      BY <1>1 DEF NoRepeats
    <3> QED
      BY <1>1, <1>5, <3>1
  <2>2. \A i \in 1..n : q[n - i + 1] # h
    BY <1>1, <1>3, <1>5 DEF Range
  <2> QED
    <3>1. \A i, j \in 1..n : r[i] = r[j] => i = j
      BY ONLY <1>5, <2>1
    <3>2. \A i \in 1..n : r[i] # h
      BY ONLY <1>5, <2>2
    <3>3. IsInjective(r)
      BY ONLY <1>5, <3>1 DEF IsInjective
    <3>4. h \notin Range(r)
      BY ONLY <1>5, <3>2 DEF Range
    <3> QED
      BY ONLY <3>3, <3>4
<1>7. \A i \in 0..n + 1 : n + 1 - i \in 0..n + 1 /\ S[i] = R[n + 1 - i]
  <2> SUFFICES ASSUME NEW i \in 0..n + 1 PROVE n + 1 - i \in 0..n + 1 /\ S[i] = R[n + 1 - i]
    OBVIOUS
  <2>1. /\ \A j \in 0..n + 1 : R[j] = IF j \in 1..n THEN q[j] ELSE h
        /\ \A j \in 0..n + 1 : S[j] = IF j \in 1..n THEN r[j] ELSE h
    BY <1>0, <1>5 DEF Ring
  <2>2. n + 1 - i \in 0..n + 1 /\ (i \in 1..n => n + 1 - i \in 1..n /\ n + 1 - i = n - i + 1)
        /\ (i \notin 1..n => n + 1 - i \notin 1..n)
    BY <1>1
  <2> QED
    BY <1>5, <2>1, <2>2
<1>8. \A i \in 0..n : l.prev[S[i]] = S[i + 1]
  <2> SUFFICES ASSUME NEW i \in 0..n PROVE l.prev[S[i]] = S[i + 1]
    OBVIOUS
  <2>1. /\ n - i \in 0..n /\ n + 1 - i = n - i + 1 /\ n + 1 - (i + 1) = n - i
        /\ i \in 0..n + 1 /\ i + 1 \in 0..n + 1
    BY <1>1
  <2>2. S[i] = R[n - i + 1] /\ S[i + 1] = R[n - i]
    BY <1>7, <2>1
  <2> QED
    BY <1>1, <2>1, <2>2 DEF Around
<1>9. Circular(l.prev, h) /\ EntriesOf(l.prev, h) = r
  <2>1. \A i \in 0..Len(r) : l.prev[Ring(h, r)[i]] = Ring(h, r)[i + 1]
    BY <1>0, <1>5, <1>8
  <2>2. IsFiniteSet(N)
    OBVIOUS
  <2> QED
    BY ONLY <1>2, <1>3, <1>5, <1>6, <2>1, <2>2, WalkMeets
<1> QED
  BY <1>0, <1>4, <1>9


----------------------------------------------------------------------------
(* The same on sequences, with the operators of the library.               *)

LEMMA PushSeq ==
    ASSUME NEW E, NEW p \in Seq(E), NEW e \in E, NEW q, q = <<e>> \o p
    PROVE  q \in Seq(E) /\ Len(q) = Len(p) + 1 /\ Inserted(q, p, Len(p), 0, e)
<1>1. PICK s : s = <<e>>
  OBVIOUS
<1>2. s \in Seq(E) /\ Len(s) = 1 /\ s[1] = e
  BY <1>1
<1>3. /\ q \in Seq(E) /\ Len(q) = 1 + Len(p)
      /\ \A i \in 1..1 + Len(p) : q[i] = IF i <= 1 THEN s[i] ELSE p[i - 1]
  BY <1>1, <1>2, ConcatProperties
<1>4. Len(p) \in Nat
  BY LenProperties
<1>5. Inserted(q, p, Len(p), 0, e)
  BY <1>2, <1>3, <1>4 DEF Inserted
<1> QED
  BY <1>3, <1>4, <1>5

LEMMA AppendSeq ==
    ASSUME NEW E, NEW p \in Seq(E), NEW e \in E, NEW q, q = Append(p, e)
    PROVE  q \in Seq(E) /\ Len(q) = Len(p) + 1 /\ Inserted(q, p, Len(p), Len(p), e)
<1>1. /\ q \in Seq(E) /\ Len(q) = Len(p) + 1 /\ q[Len(p) + 1] = e
      /\ \A i \in 1..Len(p) : q[i] = p[i]
  BY AppendProperties
<1>2. Len(p) \in Nat
  BY LenProperties
<1> QED
  BY <1>1, <1>2 DEF Inserted

LEMMA RemoveSeq ==
    ASSUME NEW E, NEW p \in Seq(E), NEW k \in 1..Len(p), NEW q, q = RemoveAt(p, k)
    PROVE  q \in Seq(E) /\ Len(q) = Len(p) - 1 /\ Removed(q, p, Len(p), k)
<1>1. PICK n, a, b : n = Len(p) /\ a = SubSeq(p, 1, k - 1) /\ b = SubSeq(p, k + 1, n)
  OBVIOUS
<1>2. n \in Nat /\ k \in Nat /\ 1 <= k /\ k <= n
  BY <1>1, LenProperties
<1>3. /\ a \in Seq(E) /\ Len(a) = k - 1 /\ \A i \in 1..k - 1 : a[i] = p[i]
  <2>1. \A i \in 1..k - 1 : i \in 1..n
    BY <1>2
  <2> QED
    BY <1>1, <1>2, <2>1, SubSeqProperties
<1>4. /\ b \in Seq(E) /\ Len(b) = n - k /\ \A i \in 1..n - k : b[i] = p[k + i]
  <2>1. \A i \in k + 1..n : i \in 1..n
    BY <1>2
  <2>2. /\ b \in Seq(E) /\ Len(b) = (IF k + 1 <= n THEN n - (k + 1) + 1 ELSE 0)
        /\ \A i \in 1..n - (k + 1) + 1 : b[i] = p[k + 1 + i - 1]
    BY <1>1, <1>2, <2>1, SubSeqProperties
  <2>3. \A i \in 1..n - k : k + 1 + i - 1 = k + i
    BY <1>2
  <2>4. n - (k + 1) + 1 = n - k
    BY <1>2
  <2> QED
    BY <1>2, <2>2, <2>3, <2>4
<1>5. q = a \o b
  BY <1>1 DEF RemoveAt
<1>6. /\ q \in Seq(E) /\ Len(q) = k - 1 + (n - k)
      /\ \A i \in 1..k - 1 + (n - k) : q[i] = IF i <= k - 1 THEN a[i] ELSE b[i - (k - 1)]
  BY ONLY <1>3, <1>4, <1>5, ConcatProperties
<1>7. Removed(q, p, n, k)
  <2> SUFFICES ASSUME NEW i \in 1..n - 1 PROVE q[i] = IF i < k THEN p[i] ELSE p[i + 1]
    BY DEF Removed
  <2>1. CASE i < k
    BY <1>2, <1>3, <1>6, <2>1
  <2>2. CASE ~(i < k)
    <3>1. i - (k - 1) \in 1..n - k /\ k + (i - (k - 1)) = i + 1
      BY <1>2, <2>2
    <3> QED
      BY <1>2, <1>4, <1>6, <2>2, <3>1
  <2> QED
    BY <2>1, <2>2
<1> QED
  BY <1>1, <1>2, <1>6, <1>7

LEMMA ReplaceSeq ==
    ASSUME NEW E, NEW p \in Seq(E), NEW k \in 1..Len(p), NEW e \in E,
           NEW q, q = ReplaceAt(p, k, e)
    PROVE  q \in Seq(E) /\ Len(q) = Len(p) /\ Replaced(q, p, Len(p), k, e)
<1>1. q = [p EXCEPT ![k] = e]
  BY DEF ReplaceAt
<1>2. p \in [1..Len(p) -> E] /\ Len(p) \in Nat
  BY LenProperties
<1>3. q \in Seq(E) /\ Len(q) = Len(p)
  BY <1>1, ExceptSeq
<1> QED
  BY <1>1, <1>2, <1>3 DEF Replaced

LEMMA PartSeq ==
    ASSUME NEW E, NEW p \in Seq(E), NEW a \in 1..Len(p) + 1, NEW b \in a - 1..Len(p),
           NEW q, q = SubSeq(p, a, b)
    PROVE  q \in Seq(E) /\ Len(q) = b - a + 1 /\ \A i \in 1..b - a + 1 : q[i] = p[a + i - 1]
<1>1. Len(p) \in Nat
  BY LenProperties
<1>2. \A i \in a..b : i \in 1..Len(p)
  BY <1>1
<1>3. a \in Int /\ b \in Int /\ \A i \in 1..b - a + 1 : i - 1 + a = a + i - 1
  BY <1>1
<1> QED
  BY <1>1, <1>2, <1>3, SubSeqProperties

\* q is p with the places from a to b at its end.
BulkMoved(q, p, a, b) ==
    q = SubSeq(p, 1, a - 1) \o SubSeq(p, b + 1, Len(p)) \o SubSeq(p, a, b)

LEMMA BulkSeq ==
    ASSUME NEW E, NEW p \in Seq(E), NEW a, NEW b, Span(p, a, b),
           NEW q, BulkMoved(q, p, a, b)
    PROVE  q \in Seq(E) /\ Len(q) = Len(p) /\ Bulked(q, p, Len(p), a, b)
<1>1. PICK n, x, y, z, w : /\ n = Len(p) /\ x = SubSeq(p, 1, a - 1)
                           /\ y = SubSeq(p, b + 1, n) /\ z = SubSeq(p, a, b) /\ w = x \o y
  OBVIOUS
<1>2. n \in Nat /\ a \in Nat /\ b \in Nat /\ 1 <= a /\ a <= b /\ b <= n
  BY <1>1, LenProperties DEF Span
<1>3. x \in Seq(E) /\ Len(x) = a - 1 /\ \A i \in 1..a - 1 : x[i] = p[i]
  <2>1. 1 \in 1..n + 1 /\ a - 1 \in 1 - 1..n
    BY <1>2
  <2>2. /\ x \in Seq(E) /\ Len(x) = a - 1 - 1 + 1
        /\ \A i \in 1..a - 1 - 1 + 1 : x[i] = p[1 + i - 1]
    BY <1>1, <2>1, PartSeq
  <2>3. a - 1 - 1 + 1 = a - 1 /\ \A i \in 1..a - 1 : 1 + i - 1 = i
    BY <1>2
  <2> QED
    BY <2>2, <2>3
<1>4. y \in Seq(E) /\ Len(y) = n - b /\ \A i \in 1..n - b : y[i] = p[b + i]
  <2>1. b + 1 \in 1..n + 1 /\ n \in b + 1 - 1..n
    BY <1>2
  <2>2. /\ y \in Seq(E) /\ Len(y) = n - (b + 1) + 1
        /\ \A i \in 1..n - (b + 1) + 1 : y[i] = p[b + 1 + i - 1]
    BY <1>1, <2>1, PartSeq
  <2>3. n - (b + 1) + 1 = n - b /\ \A i \in 1..n - b : b + 1 + i - 1 = b + i
    BY <1>2
  <2> QED
    BY <2>2, <2>3
<1>5. z \in Seq(E) /\ Len(z) = b - a + 1 /\ \A i \in 1..b - a + 1 : z[i] = p[a + i - 1]
  <2>1. a \in 1..n + 1 /\ b \in a - 1..n
    BY <1>2
  <2> QED
    BY <1>1, <2>1, PartSeq
<1>6. /\ w \in Seq(E) /\ Len(w) = a - 1 + (n - b)
      /\ \A i \in 1..a - 1 + (n - b) : w[i] = IF i <= a - 1 THEN x[i] ELSE y[i - (a - 1)]
  <2>0. x \in Seq(E) /\ y \in Seq(E) /\ w = x \o y
    BY <1>1, <1>3, <1>4
  <2>1. /\ w \in Seq(E) /\ Len(w) = Len(x) + Len(y)
        /\ \A i \in 1..Len(x) + Len(y) : w[i] = IF i <= Len(x) THEN x[i] ELSE y[i - Len(x)]
    BY ONLY <2>0, ConcatProperties
  <2>2. Len(x) = a - 1 /\ Len(y) = n - b
    BY <1>3, <1>4
  <2> QED
    BY ONLY <2>1, <2>2
<1>7. q = w \o z
  BY <1>1 DEF BulkMoved
<1>8. /\ q \in Seq(E) /\ Len(q) = a - 1 + (n - b) + (b - a + 1)
      /\ \A i \in 1..a - 1 + (n - b) + (b - a + 1) :
            q[i] = IF i <= a - 1 + (n - b) THEN w[i] ELSE z[i - (a - 1 + (n - b))]
  <2>0. w \in Seq(E) /\ z \in Seq(E) /\ q = w \o z
    BY <1>5, <1>6, <1>7
  <2>1. /\ q \in Seq(E) /\ Len(q) = Len(w) + Len(z)
        /\ \A i \in 1..Len(w) + Len(z) : q[i] = IF i <= Len(w) THEN w[i] ELSE z[i - Len(w)]
    BY ONLY <2>0, ConcatProperties
  <2>2. Len(w) = a - 1 + (n - b) /\ Len(z) = b - a + 1
    BY <1>5, <1>6
  <2> QED
    BY ONLY <2>1, <2>2
<1>9. a - 1 + (n - b) + (b - a + 1) = n
  BY <1>2
<1>10. Bulked(q, p, n, a, b)
  <2> SUFFICES ASSUME NEW i \in 1..n
               PROVE  q[i] = IF i < a THEN p[i]
                             ELSE IF i < a + (n - b) THEN p[i + (b - a) + 1]
                             ELSE p[i - (n - b)]
    BY DEF Bulked
  <2>1. CASE i < a
    <3>1. i \in 1..a - 1 /\ i <= a - 1 /\ i <= a - 1 + (n - b) /\ i \in 1..a - 1 + (n - b)
      BY <1>2, <2>1
    <3> QED
      BY <1>3, <1>6, <1>8, <1>9, <2>1, <3>1
  <2>2. CASE ~(i < a) /\ i < a + (n - b)
    <3>1. /\ ~(i <= a - 1) /\ i <= a - 1 + (n - b) /\ i \in 1..a - 1 + (n - b)
          /\ i - (a - 1) \in 1..n - b /\ b + (i - (a - 1)) = i + (b - a) + 1
      BY <1>2, <2>2
    <3> QED
      BY <1>4, <1>6, <1>8, <1>9, <2>2, <3>1
  <2>3. CASE ~(i < a) /\ ~(i < a + (n - b))
    <3>1. /\ ~(i <= a - 1 + (n - b)) /\ i - (a - 1 + (n - b)) \in 1..b - a + 1
          /\ a + (i - (a - 1 + (n - b))) - 1 = i - (n - b)
      BY <1>2, <2>3
    <3> QED
      BY <1>5, <1>8, <1>9, <2>3, <3>1
  <2> QED
    BY <1>2, <2>1, <2>2, <2>3
<1> QED
  BY <1>1, <1>8, <1>9, <1>10

LEMMA RotateSeq ==
    ASSUME NEW E, NEW p \in Seq(E), NEW k \in 1..Len(p),
           NEW q, q = SubSeq(p, k, Len(p)) \o SubSeq(p, 1, k - 1)
    PROVE  q \in Seq(E) /\ Len(q) = Len(p) /\ Rotated(q, p, Len(p), k)
<1>1. PICK n, x, y : n = Len(p) /\ x = SubSeq(p, 1, k - 1) /\ y = SubSeq(p, k, n)
  OBVIOUS
<1>2. n \in Nat /\ k \in Nat /\ 1 <= k /\ k <= n
  BY <1>1, LenProperties
<1>3. x \in Seq(E) /\ Len(x) = k - 1 /\ \A i \in 1..k - 1 : x[i] = p[i]
  <2>1. 1 \in 1..n + 1 /\ k - 1 \in 1 - 1..n
    BY <1>2
  <2>2. /\ x \in Seq(E) /\ Len(x) = k - 1 - 1 + 1
        /\ \A i \in 1..k - 1 - 1 + 1 : x[i] = p[1 + i - 1]
    BY <1>1, <2>1, PartSeq
  <2>3. k - 1 - 1 + 1 = k - 1 /\ \A i \in 1..k - 1 : 1 + i - 1 = i
    BY <1>2
  <2> QED
    BY <2>2, <2>3
<1>4. y \in Seq(E) /\ Len(y) = n - k + 1 /\ \A i \in 1..n - k + 1 : y[i] = p[k + i - 1]
  <2>1. k \in 1..n + 1 /\ n \in k - 1..n
    BY <1>2
  <2> QED
    BY <1>1, <2>1, PartSeq
<1>5. /\ q \in Seq(E) /\ Len(q) = n - k + 1 + (k - 1)
      /\ \A i \in 1..n - k + 1 + (k - 1) :
            q[i] = IF i <= n - k + 1 THEN y[i] ELSE x[i - (n - k + 1)]
  <2>0. y \in Seq(E) /\ x \in Seq(E) /\ q = y \o x
    BY <1>1, <1>3, <1>4
  <2>1. /\ q \in Seq(E) /\ Len(q) = Len(y) + Len(x)
        /\ \A i \in 1..Len(y) + Len(x) : q[i] = IF i <= Len(y) THEN y[i] ELSE x[i - Len(y)]
    BY ONLY <2>0, ConcatProperties
  <2>2. Len(y) = n - k + 1 /\ Len(x) = k - 1
    BY <1>3, <1>4
  <2> QED
    BY ONLY <2>1, <2>2
<1>6. n - k + 1 + (k - 1) = n
  BY <1>2
<1>7. Rotated(q, p, n, k)
  <2> SUFFICES ASSUME NEW i \in 1..n
               PROVE  q[i] = IF i <= n - k + 1 THEN p[i + k - 1] ELSE p[i - (n - k + 1)]
    BY DEF Rotated
  <2>1. CASE i <= n - k + 1
    <3>1. i \in 1..n - k + 1 /\ k + i - 1 = i + k - 1
      BY <1>2, <2>1
    <3> QED
      BY <1>4, <1>5, <1>6, <2>1, <3>1
  <2>2. CASE ~(i <= n - k + 1)
    <3>1. i - (n - k + 1) \in 1..k - 1
      BY <1>2, <2>2
    <3> QED
      BY <1>3, <1>5, <1>6, <2>2, <3>1
  <2> QED
    BY <2>1, <2>2
<1> QED
  BY <1>1, <1>5, <1>6, <1>7

LEMMA SpliceSeq ==
    ASSUME NEW E, NEW p \in Seq(E), NEW r \in Seq(E),
           NEW q, NEW k, \/ q = r \o p /\ k = 0
                         \/ q = p \o r /\ k = Len(p)
    PROVE  q \in Seq(E) /\ Len(q) = Len(p) + Len(r) /\ Spliced(q, p, Len(p), r, Len(r), k)
<1>1. PICK n, a : n = Len(p) /\ a = Len(r)
  OBVIOUS
<1>2. n \in Nat /\ a \in Nat
  BY <1>1, LenProperties
<1>3. CASE q = r \o p /\ k = 0
  <2>1. /\ q \in Seq(E) /\ Len(q) = a + n
        /\ \A i \in 1..a + n : q[i] = IF i <= a THEN r[i] ELSE p[i - a]
    BY <1>1, <1>3, ConcatProperties
  <2>2. Spliced(q, p, n, r, a, 0)
    BY <1>2, <2>1 DEF Spliced
  <2> QED
    BY <1>1, <1>2, <1>3, <2>1, <2>2
<1>4. CASE q = p \o r /\ k = Len(p)
  <2>1. /\ q \in Seq(E) /\ Len(q) = n + a
        /\ \A i \in 1..n + a : q[i] = IF i <= n THEN p[i] ELSE r[i - n]
    BY <1>1, <1>4, ConcatProperties
  <2>2. Spliced(q, p, n, r, a, n)
    BY <1>2, <2>1 DEF Spliced
  <2> QED
    BY <1>1, <1>4, <2>1, <2>2
<1> QED
  BY <1>3, <1>4

\* r and q are the parts of p up to its k-th entry and behind it.
CutParts(r, q, p, k) == r = SubSeq(p, 1, k) /\ q = SubSeq(p, k + 1, Len(p))

LEMMA CutSeq ==
    ASSUME NEW E, NEW p \in Seq(E), NEW k \in 1..Len(p), NEW r, NEW q, CutParts(r, q, p, k)
    PROVE  /\ r \in Seq(E) /\ Len(r) = k /\ q \in Seq(E) /\ Len(q) = Len(p) - k
           /\ Parted(r, q, p, Len(p), k)
<1> r = SubSeq(p, 1, k) /\ q = SubSeq(p, k + 1, Len(p))
  BY DEF CutParts
<1>1. PICK n : n = Len(p)
  OBVIOUS
<1>2. n \in Nat /\ k \in Nat /\ 1 <= k /\ k <= n
  BY <1>1, LenProperties
<1>3. r \in Seq(E) /\ Len(r) = k /\ \A i \in 1..k : r[i] = p[i]
  <2>1. 1 \in 1..n + 1 /\ k \in 1 - 1..n
    BY <1>2
  <2>2. r \in Seq(E) /\ Len(r) = k - 1 + 1 /\ \A i \in 1..k - 1 + 1 : r[i] = p[1 + i - 1]
    BY <1>1, <2>1, PartSeq
  <2>3. k - 1 + 1 = k /\ \A i \in 1..k : 1 + i - 1 = i
    BY <1>2
  <2> QED
    BY <2>2, <2>3
<1>4. q \in Seq(E) /\ Len(q) = n - k /\ \A i \in 1..n - k : q[i] = p[k + i]
  <2>1. k + 1 \in 1..n + 1 /\ n \in k + 1 - 1..n
    BY <1>2
  <2>2. /\ q \in Seq(E) /\ Len(q) = n - (k + 1) + 1
        /\ \A i \in 1..n - (k + 1) + 1 : q[i] = p[k + 1 + i - 1]
    BY <1>1, <2>1, PartSeq
  <2>3. n - (k + 1) + 1 = n - k /\ \A i \in 1..n - k : k + 1 + i - 1 = k + i
    BY <1>2
  <2> QED
    BY <2>2, <2>3
<1> QED
  BY <1>1, <1>3, <1>4 DEF Parted


----------------------------------------------------------------------------
(* The calls of list.h, as operations on sequences.                        *)

\* The pointers of a list follow its ring.
LEMMA HeldRing ==
    ASSUME NEW l, NEW Q, NEW N, NEW V, Holds(l, Q, N, V), NEW h \in DOMAIN Q,
           NEW p, p = Q[h], NEW R, R = Ring(h, p)
    PROVE  /\ Len(p) \in Nat /\ R[0] = h /\ R[Len(p) + 1] = h
           /\ \A i \in 1..Len(p) : R[i] = p[i] /\ p[i] # h
           /\ \A i \in 0..Len(p) : l.next[R[i]] = R[i + 1] /\ l.prev[R[i + 1]] = R[i]
<1>1. ListIn(l, h, p, N, N \ DOMAIN Q)
  BY DEF Holds
<1>2. /\ Len(p) \in Nat /\ R[0] = h /\ R[Len(p) + 1] = h /\ IsRing(R, h, p, Len(p))
      /\ Around(l.next, l.prev, R, Len(p))
  BY <1>1, ListRing
<1>3. \A i \in 1..Len(p) : p[i] # h
  <2>1. p \in Seq(N \ DOMAIN Q)
    BY <1>1 DEF ListIn
  <2> QED
    BY <2>1, LenProperties
<1> QED
  BY <1>2, <1>3 DEF IsRing, Around

\* list_add and list_add_tail.
LEMMA AddCalls ==
    ASSUME NEW l, NEW Q, NEW N, NEW V, Holds(l, Q, N, V), NEW h \in DOMAIN Q,
           NEW e \in Fresh(Q, N)
    PROVE  /\ Holds(ListAdd(l, e, h), [Q EXCEPT ![h] = <<e>> \o Q[h]], N, V)
           /\ Holds(ListAddTail(l, e, h), [Q EXCEPT ![h] = Append(Q[h], e)], N, V)
<1>1. PICK p, E, R : p = Q[h] /\ E = N \ DOMAIN Q /\ R = Ring(h, p)
  OBVIOUS
<1>2. p \in Seq(E) /\ e \in E /\ Len(p) \in Nat /\ e \in Fresh(Q, N)
  BY <1>1, HeldList
<1>3. /\ R[0] = h /\ R[Len(p) + 1] = h
      /\ \A i \in 0..Len(p) : l.next[R[i]] = R[i + 1] /\ l.prev[R[i + 1]] = R[i]
  BY <1>1, HeldRing
<1>4. Holds(l, Q, N, V) /\ h \in DOMAIN Q /\ p = Q[h] /\ e \in Fresh(Q, N)
  BY <1>1
<1>5. PICK a : a = <<e>> \o p
  OBVIOUS
<1>6. PICK b : b = Append(p, e)
  OBVIOUS
<1>7. Holds(ListAdd(l, e, h), [Q EXCEPT ![h] = a], N, V)
  <2>1. a \in Seq(E) /\ Len(a) = Len(p) + 1 /\ Inserted(a, p, Len(p), 0, e)
    BY ONLY <1>2, <1>5, PushSeq
  <2>2. a \in Seq(N \ DOMAIN Q) /\ 0 \in 0..Len(p)
    BY ONLY <1>1, <1>2, <2>1
  <2>3. PICK m : m = ListAdd(l, e, h)
    OBVIOUS
  <2>4. m = ListAddBetween(l, e, Ring(h, p)[0], Ring(h, p)[0 + 1])
    <3>1. l.next[h] = R[0 + 1]
      BY ONLY <1>2, <1>3
    <3> QED
      BY ONLY <1>1, <1>3, <2>3, <3>1 DEF ListAdd
  <2>5. Holds(m, [Q EXCEPT ![h] = a], N, V)
    BY ONLY <1>4, <2>1, <2>2, <2>4, AddHolds
  <2> QED
    BY <2>3, <2>5
<1>8. Holds(ListAddTail(l, e, h), [Q EXCEPT ![h] = b], N, V)
  <2>1. b \in Seq(E) /\ Len(b) = Len(p) + 1 /\ Inserted(b, p, Len(p), Len(p), e)
    BY ONLY <1>2, <1>6, AppendSeq
  <2>2. b \in Seq(N \ DOMAIN Q) /\ Len(p) \in 0..Len(p)
    BY ONLY <1>1, <1>2, <2>1
  <2>3. PICK m : m = ListAddTail(l, e, h)
    OBVIOUS
  <2>4. m = ListAddBetween(l, e, Ring(h, p)[Len(p)], Ring(h, p)[Len(p) + 1])
    <3>1. l.prev[h] = R[Len(p)]
      BY ONLY <1>2, <1>3
    <3> QED
      BY ONLY <1>1, <1>3, <2>3, <3>1 DEF ListAddTail
  <2>5. Holds(m, [Q EXCEPT ![h] = b], N, V)
    BY ONLY <1>4, <2>1, <2>2, <2>4, AddHolds
  <2> QED
    BY <2>3, <2>5
<1> QED
  BY <1>1, <1>5, <1>6, <1>7, <1>8

\* In P the list of h has lost its k-th entry, or has f instead.
Loses(P, Q, h, k) == P = [Q EXCEPT ![h] = RemoveAt(Q[h], k)]
Gives(P, Q, h, k, f) == P = [Q EXCEPT ![h] = ReplaceAt(Q[h], k, f)]

\* list_del, list_del_init; __list_del_entry, as list_move begins.
LEMMA DelCalls ==
    ASSUME NEW l, NEW Q, NEW N, NEW V, Holds(l, Q, N, V), NEW h \in DOMAIN Q,
           NEW k, NEW e, At(Q[h], k, e), NEW nil \in V,
           NEW P, Loses(P, Q, h, k),
           NEW m, Deleting(m, l, e, nil)
    PROVE  Holds(m, P, N, V) /\ e \in Fresh(P, N)
<1>1. PICK p : p = Q[h]
  OBVIOUS
<1>2. PICK q : q = RemoveAt(p, k)
  OBVIOUS
<1>3. /\ Holds(l, Q, N, V) /\ h \in DOMAIN Q /\ At(p, k, e) /\ p = Q[h]
      /\ nil \in V /\ Deleting(m, l, e, nil)
  BY <1>1
<1>4. p \in Seq(N \ DOMAIN Q) /\ k \in 1..Len(p)
  BY <1>3, HeldList DEF At
<1>5. q \in Seq(N \ DOMAIN Q) /\ Len(q) = Len(p) - 1 /\ Removed(q, p, Len(p), k)
  BY ONLY <1>2, <1>4, RemoveSeq
<1>6. Holds(m, [Q EXCEPT ![h] = q], N, V) /\ e \in Fresh([Q EXCEPT ![h] = q], N)
  BY ONLY <1>3, <1>5, DelHolds
<1> QED
  BY <1>1, <1>2, <1>6 DEF Loses

\* list_move and list_move_tail.
LEMMA MoveCalls ==
    ASSUME NEW l, NEW Q, NEW N, NEW V, Holds(l, Q, N, V), NEW h \in DOMAIN Q,
           NEW k, NEW e, At(Q[h], k, e), NEW g \in DOMAIN Q,
           NEW P, Loses(P, Q, h, k)
    PROVE  /\ Holds(ListMove(l, e, g), [P EXCEPT ![g] = <<e>> \o P[g]], N, V)
           /\ Holds(ListMoveTail(l, e, g), [P EXCEPT ![g] = Append(P[g], e)], N, V)
<1>1. PICK m : m = ListDelEntry(l, e)
  OBVIOUS
<1>2. PICK nil : nil \in V
  <2>1. h \in N /\ N \subseteq V
    BY DEF Holds, ListIn
  <2> QED
    BY <2>1
<1>3. Holds(m, P, N, V) /\ e \in Fresh(P, N)
  <2>1. /\ Holds(l, Q, N, V) /\ h \in DOMAIN Q /\ At(Q[h], k, e)
        /\ Loses(P, Q, h, k)
    OBVIOUS
  <2>2. Deleting(m, l, e, nil)
    BY <1>1 DEF Deleting
  <2> QED
    BY ONLY <1>2, <2>1, <2>2, DelCalls
<1>4. g \in DOMAIN P
  BY DEF Loses
<1>5. /\ Holds(ListAdd(m, e, g), [P EXCEPT ![g] = <<e>> \o P[g]], N, V)
      /\ Holds(ListAddTail(m, e, g), [P EXCEPT ![g] = Append(P[g], e)], N, V)
  BY ONLY <1>3, <1>4, AddCalls
<1> QED
  BY <1>1, <1>5 DEF ListMove, ListMoveTail

\* list_replace and list_replace_init.
LEMMA ReplaceCalls ==
    ASSUME NEW l, NEW Q, NEW N, NEW V, Holds(l, Q, N, V), NEW h \in DOMAIN Q,
           NEW k, NEW e, At(Q[h], k, e), NEW f \in Fresh(Q, N),
           NEW P, Gives(P, Q, h, k, f),
           NEW m, Replacing(m, l, e, f)
    PROVE  Holds(m, P, N, V) /\ e \in Fresh(P, N)
<1>0. PICK p : p = Q[h]
  OBVIOUS
<1>00. PICK q : q = ReplaceAt(p, k, f)
  OBVIOUS
<1>1. /\ Holds(l, Q, N, V) /\ h \in DOMAIN Q /\ At(p, k, e) /\ p = Q[h]
      /\ f \in Fresh(Q, N) /\ Replacing(m, l, e, f)
  BY <1>0
<1>2. PICK E : E = N \ DOMAIN Q
  OBVIOUS
<1>3. q \in Seq(N \ DOMAIN Q) /\ Len(q) = Len(p) /\ Replaced(q, p, Len(p), k, f)
  <2>1. p \in Seq(E) /\ f \in E /\ k \in 1..Len(p)
    BY ONLY <1>1, <1>2, HeldList DEF At
  <2>2. q \in Seq(E) /\ Len(q) = Len(p) /\ Replaced(q, p, Len(p), k, f)
    BY ONLY <1>00, <2>1, ReplaceSeq
  <2> QED
    BY ONLY <1>2, <2>2
<1>4. Holds(m, [Q EXCEPT ![h] = q], N, V) /\ e \in Fresh([Q EXCEPT ![h] = q], N)
  BY ONLY <1>1, <1>3, ReplaceHolds
<1> QED
  BY <1>0, <1>00, <1>4 DEF Gives

\* list_bulk_move_tail.
LEMMA BulkCalls ==
    ASSUME NEW l, NEW Q, NEW N, NEW V, Holds(l, Q, N, V), NEW h \in DOMAIN Q,
           NEW p, p = Q[h], NEW a, NEW b, Span(p, a, b),
           NEW q, BulkMoved(q, p, a, b)
    PROVE  Holds(ListBulkMoveTail(l, h, p[a], p[b]), [Q EXCEPT ![h] = q], N, V)
<1>1. Holds(l, Q, N, V) /\ h \in DOMAIN Q /\ p = Q[h] /\ Span(p, a, b)
  OBVIOUS
<1>0. PICK E : E = N \ DOMAIN Q
  OBVIOUS
<1>2. p \in Seq(E)
  BY ONLY <1>0, <1>1, HeldList
<1>3. Span(p, a, b) /\ BulkMoved(q, p, a, b)
  OBVIOUS
<1>4. q \in Seq(N \ DOMAIN Q) /\ Len(q) = Len(p) /\ Bulked(q, p, Len(p), a, b)
  <2>1. q \in Seq(E) /\ Len(q) = Len(p) /\ Bulked(q, p, Len(p), a, b)
    BY ONLY <1>2, <1>3, BulkSeq
  <2> QED
    BY ONLY <1>0, <2>1
<1> QED
  BY ONLY <1>1, <1>4, BulkHolds

\* list_rotate_to_front.
LEMMA RotateCalls ==
    ASSUME NEW l, NEW Q, NEW N, NEW V, Holds(l, Q, N, V), NEW h \in DOMAIN Q,
           NEW p, p = Q[h], NEW k \in 1..Len(p),
           NEW q, q = SubSeq(p, k, Len(p)) \o SubSeq(p, 1, k - 1)
    PROVE  Holds(ListRotateToFront(l, p[k], h), [Q EXCEPT ![h] = q], N, V)
<1>1. Holds(l, Q, N, V) /\ h \in DOMAIN Q /\ p = Q[h] /\ k \in 1..Len(p)
  OBVIOUS
<1>2. p \in Seq(N \ DOMAIN Q)
  BY ONLY <1>1, HeldList
<1>3. k \in 1..Len(p) /\ q = SubSeq(p, k, Len(p)) \o SubSeq(p, 1, k - 1)
  OBVIOUS
<1>4. q \in Seq(N \ DOMAIN Q) /\ Len(q) = Len(p) /\ Rotated(q, p, Len(p), k)
  BY ONLY <1>2, <1>3, RotateSeq
<1> QED
  BY ONLY <1>1, <1>4, RotateHolds

\* A list is empty as list_empty says.
LEMMA EmptyAsSaid ==
    ASSUME NEW l, NEW Q, NEW N, NEW V, Holds(l, Q, N, V), NEW h \in DOMAIN Q
    PROVE  ListEmpty(l, h) <=> Q[h] = <<>>
<1>0. PICK p, n, R : p = Q[h] /\ n = Len(p) /\ R = Ring(h, p)
  OBVIOUS
<1>1. /\ n \in Nat /\ R[0] = h /\ R[n + 1] = h /\ \A i \in 1..n : R[i] = p[i] /\ p[i] # h
      /\ \A i \in 0..n : l.next[R[i]] = R[i + 1] /\ l.prev[R[i + 1]] = R[i]
  BY <1>0, HeldRing
<1>2. p \in Seq(N \ DOMAIN Q)
  BY <1>0, HeldList
<1>3. n = 0 <=> p = <<>>
  BY <1>0, <1>2, EmptySeq
<1>4. l.next[h] = R[1]
  <2>1. 0 \in 0..n /\ 0 + 1 = 1
    BY <1>1
  <2> QED
    BY <1>1, <2>1
<1>5. n # 0 => 1 \in 1..n
  BY <1>1
<1> QED
  BY <1>0, <1>1, <1>3, <1>4, <1>5 DEF ListEmpty

\* list_rotate_left.
LEMMA RotateLeftCall ==
    ASSUME NEW l, NEW Q, NEW N, NEW V, Holds(l, Q, N, V), NEW h \in DOMAIN Q,
           NEW p, p = Q[h],
           NEW q, q = IF p = <<>> THEN <<>> ELSE Tail(p) \o <<Head(p)>>
    PROVE  Holds(ListRotateLeft(l, h), [Q EXCEPT ![h] = q], N, V)
<1>1. ListEmpty(l, h) <=> p = <<>>
  BY EmptyAsSaid
<1>2. CASE p = <<>>
  <2>1. [Q EXCEPT ![h] = q] = Q
    BY <1>2 DEF Holds
  <2> QED
    BY <1>1, <1>2, <2>1 DEF ListRotateLeft
<1>3. CASE p # <<>>
  <2>0. PICK E, n, R, e, t, P : /\ E = N \ DOMAIN Q /\ n = Len(p) /\ R = Ring(h, p) /\ e = p[1]
                                /\ t = RemoveAt(p, 1) /\ P = [Q EXCEPT ![h] = t]
    OBVIOUS
  <2>1. p \in Seq(E) /\ n \in Nat \ {0} /\ 1 \in 1..n
    <3>1. p \in Seq(E) /\ n \in Nat
      BY <2>0, HeldList
    <3>2. n # 0
      BY <1>3, <2>0, <3>1, EmptySeq
    <3> QED
      BY <3>1, <3>2
  <2>2. l.next[h] = e
    <3>1. /\ n \in Nat /\ R[0] = h /\ R[n + 1] = h /\ \A i \in 1..n : R[i] = p[i] /\ p[i] # h
          /\ \A i \in 0..n : l.next[R[i]] = R[i + 1] /\ l.prev[R[i + 1]] = R[i]
      BY <2>0, HeldRing
    <3>2. 0 \in 0..n /\ 0 + 1 = 1
      BY <2>1
    <3> QED
      BY <2>0, <2>1, <3>1, <3>2
  <2>3. Holds(ListMoveTail(l, e, h), [P EXCEPT ![h] = Append(P[h], e)], N, V)
    <3>1. At(Q[h], 1, e) /\ Loses(P, Q, h, 1)
      BY <2>0, <2>1 DEF At, Loses
    <3>2. Holds(l, Q, N, V) /\ h \in DOMAIN Q
      OBVIOUS
    <3> QED
      BY ONLY <3>1, <3>2, MoveCalls
  <2>4. ListRotateLeft(l, h) = ListMoveTail(l, e, h)
    BY <1>1, <1>3, <2>2 DEF ListRotateLeft
  <2>5. [P EXCEPT ![h] = Append(P[h], e)] = [Q EXCEPT ![h] = Append(t, e)]
    <3>1. P[h] = t
      BY <2>0
    <3> QED
      BY <2>0, <3>1
  <2>6. t = Tail(p)
    <3>1. /\ Tail(p) \in Seq(E) /\ Len(Tail(p)) = n - 1
          /\ \A i \in 1..n - 1 : Tail(p)[i] = p[i + 1]
      BY <1>3, <2>0, <2>1, HeadTailProperties
    <3>2. t \in Seq(E) /\ Len(t) = n - 1 /\ Removed(t, p, n, 1)
      BY <2>0, <2>1, RemoveSeq
    <3>3. \A i \in 1..n - 1 : t[i] = p[i + 1]
      BY <2>1, <3>2 DEF Removed
    <3> QED
      BY <3>1, <3>2, <3>3, SeqEqual
  <2>7. e = Head(p)
    BY <1>3, <2>0, <2>1
  <2>8. Append(t, e) = Tail(p) \o <<Head(p)>>
    <3>1. t \in Seq(E) /\ e \in E
      BY <2>0, <2>1, RemoveSeq
    <3> QED
      BY <2>6, <2>7, <3>1, AppendIsConcat
  <2> QED
    BY <1>3, <2>3, <2>4, <2>5, <2>8
<1> QED
  BY <1>2, <1>3


\* list_splice_init and list_splice_tail_init.
LEMMA SpliceCalls ==
    ASSUME NEW l, NEW Q, NEW N, NEW V, Holds(l, Q, N, V),
           NEW g \in DOMAIN Q, NEW h \in DOMAIN Q, g # h
    PROVE  /\ Holds(ListSpliceInit(l, g, h), [Q EXCEPT ![g] = <<>>, ![h] = Q[g] \o Q[h]], N, V)
           /\ Holds(ListSpliceTailInit(l, g, h), [Q EXCEPT ![g] = <<>>, ![h] = Q[h] \o Q[g]], N, V)
<1>1. PICK p, r, E : p = Q[h] /\ r = Q[g] /\ E = N \ DOMAIN Q
  OBVIOUS
<1>2. p \in Seq(E) /\ r \in Seq(E)
  BY <1>1, HeldList
<1>3. PICK a : a = r \o p
  OBVIOUS
<1>4. PICK b : b = p \o r
  OBVIOUS
<1>5. ListEmpty(l, g) <=> r = <<>>
  BY <1>1, EmptyAsSaid
<1>6. CASE r = <<>>
  <2>1. a = p /\ b = p
    BY ONLY <1>2, <1>3, <1>4, <1>6, ConcatEmptySeq
  <2>2. [Q EXCEPT ![g] = <<>>, ![h] = p] = Q
    BY <1>1, <1>6 DEF Holds
  <2> QED
    BY <1>1, <1>3, <1>4, <1>5, <1>6, <2>1, <2>2 DEF ListSpliceInit, ListSpliceTailInit
<1>7. CASE r # <<>>
  <2>1. PICK R : R = Ring(h, p)
    OBVIOUS
  <2>2. /\ Len(p) \in Nat /\ R[0] = h /\ R[Len(p) + 1] = h
        /\ \A i \in 0..Len(p) : l.next[R[i]] = R[i + 1] /\ l.prev[R[i + 1]] = R[i]
    BY <1>1, <2>1, HeldRing
  <2>3. /\ Holds(l, Q, N, V) /\ g \in DOMAIN Q /\ h \in DOMAIN Q /\ g # h
        /\ r = Q[g] /\ p = Q[h] /\ Len(r) # 0
    BY <1>1, <1>2, <1>7, EmptySeq
  <2>4. Holds(ListSpliceInit(l, g, h), [Q EXCEPT ![g] = <<>>, ![h] = a], N, V)
    <3>1. a \in Seq(E) /\ Len(a) = Len(p) + Len(r) /\ Spliced(a, p, Len(p), r, Len(r), 0)
      BY ONLY <1>2, <1>3, SpliceSeq
    <3>2. a \in Seq(N \ DOMAIN Q) /\ 0 \in 0..Len(p)
      BY ONLY <1>1, <2>2, <3>1
    <3>3. PICK m : m = ListSpliceInit(l, g, h)
      OBVIOUS
    <3>4. m = InitListHead(SpliceBetween(l, g, Ring(h, p)[0], Ring(h, p)[0 + 1]), g)
      <4>1. l.next[h] = R[0 + 1]
        BY ONLY <2>2
      <4> QED
        BY ONLY <1>5, <1>7, <2>1, <2>2, <3>3, <4>1 DEF ListSpliceInit
    <3>5. Holds(m, [Q EXCEPT ![g] = <<>>, ![h] = a], N, V)
      BY ONLY <2>3, <3>1, <3>2, <3>4, SpliceHolds
    <3> QED
      BY <3>3, <3>5
  <2>5. Holds(ListSpliceTailInit(l, g, h), [Q EXCEPT ![g] = <<>>, ![h] = b], N, V)
    <3>1. b \in Seq(E) /\ Len(b) = Len(p) + Len(r) /\ Spliced(b, p, Len(p), r, Len(r), Len(p))
      BY ONLY <1>2, <1>4, SpliceSeq
    <3>2. b \in Seq(N \ DOMAIN Q) /\ Len(p) \in 0..Len(p)
      BY ONLY <1>1, <2>2, <3>1
    <3>3. PICK m : m = ListSpliceTailInit(l, g, h)
      OBVIOUS
    <3>4. m = InitListHead(SpliceBetween(l, g, Ring(h, p)[Len(p)], Ring(h, p)[Len(p) + 1]), g)
      <4>1. l.prev[h] = R[Len(p)]
        BY ONLY <2>2
      <4> QED
        BY ONLY <1>5, <1>7, <2>1, <2>2, <3>3, <4>1 DEF ListSpliceTailInit
    <3>5. Holds(m, [Q EXCEPT ![g] = <<>>, ![h] = b], N, V)
      BY ONLY <2>3, <3>1, <3>2, <3>4, SpliceHolds
    <3> QED
      BY <3>3, <3>5
  <2> QED
    BY <1>1, <1>3, <1>4, <2>4, <2>5
<1> QED
  BY <1>6, <1>7

\* In P the first k entries of h are those of g.
PutApart(P, Q, g, h, k) ==
    P = [Q EXCEPT ![g] = SubSeq(Q[h], 1, k), ![h] = SubSeq(Q[h], k + 1, Len(Q[h]))]

\* To cut off nothing.
LEMMA CutNothing ==
    ASSUME NEW l, NEW Q, NEW N, NEW V, Holds(l, Q, N, V),
           NEW g \in DOMAIN Q, NEW h \in DOMAIN Q, g # h, Q[g] = <<>>,
           NEW P, PutApart(P, Q, g, h, 0), NEW m, m = l \/ m = InitListHead(l, g)
    PROVE  Holds(m, P, N, V)
<1>1. PICK p, E : p = Q[h] /\ E = N \ DOMAIN Q
  OBVIOUS
<1>2. p \in Seq(E)
  BY <1>1, HeldList
<1>3. SubSeq(p, 1, 0) = <<>> /\ SubSeq(p, 1, Len(p)) = p
  BY <1>2, SubSeqEmpty, SubSeqFull
<1>4. P = [Q EXCEPT ![g] = <<>>, ![h] = p]
  <2>1. 0 + 1 = 1
    OBVIOUS
  <2>2. PICK a : a = SubSeq(p, 1, 0)
    OBVIOUS
  <2>3. PICK b : b = SubSeq(p, 0 + 1, Len(p))
    OBVIOUS
  <2>4. P = [Q EXCEPT ![g] = a, ![h] = b]
    BY <1>1, <2>2, <2>3 DEF PutApart
  <2>5. a = <<>>
    BY ONLY <1>3, <2>2
  <2>6. b = p
    BY ONLY <1>3, <2>1, <2>3
  <2> QED
    BY ONLY <2>4, <2>5, <2>6
<1>5. P = Q
  BY <1>1, <1>4 DEF Holds
<1>6. Len(Q[g]) = 0
  OBVIOUS
<1>7. Holds(InitListHead(l, g), Q, N, V)
  BY <1>6, InitHolds
<1> QED
  BY <1>5, <1>7

\* list_cut_position: e is the k-th entry of h, or h.
LEMMA CutPositionCall ==
    ASSUME NEW l, NEW Q, NEW N, NEW V, Holds(l, Q, N, V),
           NEW g \in DOMAIN Q, NEW h \in DOMAIN Q, g # h, Q[g] = <<>>,
           NEW k \in 0..Len(Q[h]), NEW e, e = IF k = 0 THEN h ELSE Q[h][k],
           NEW P, PutApart(P, Q, g, h, k)
    PROVE  Holds(ListCutPosition(l, g, h, e), P, N, V)
<1>1. PICK p, E, R : p = Q[h] /\ E = N \ DOMAIN Q /\ R = Ring(h, p)
  OBVIOUS
<1>2. p \in Seq(E)
  BY <1>1, HeldList
<1>3. /\ Len(p) \in Nat /\ R[0] = h /\ R[Len(p) + 1] = h
      /\ \A i \in 1..Len(p) : R[i] = p[i] /\ p[i] # h
      /\ \A i \in 0..Len(p) : l.next[R[i]] = R[i + 1] /\ l.prev[R[i + 1]] = R[i]
  <2>1. Holds(l, Q, N, V) /\ h \in DOMAIN Q /\ p = Q[h] /\ R = Ring(h, p)
    BY <1>1
  <2> QED
    BY ONLY <2>1, HeldRing
<1>4. ListEmpty(l, h) <=> p = <<>>
  BY <1>1, EmptyAsSaid
<1>5. CASE k = 0
  <2>1. e = h
    BY <1>5
  <2>2. ListCutPosition(l, g, h, e) \in {l, InitListHead(l, g)}
    BY <2>1 DEF ListCutPosition
  <2> QED
    BY <1>5, <2>2, CutNothing
<1>6. CASE k # 0
  <2>1. /\ k \in 1..Len(p) /\ e = p[k] /\ R[k] = e /\ e # h
    BY <1>1, <1>3, <1>6
  <2>2. p # <<>>
    BY <1>2, <1>3, <2>1, EmptySeq
  <2>3. ~(ListIsSingular(l, h) /\ e \notin {h, l.next[h]})
    <3> SUFFICES ASSUME ListIsSingular(l, h) PROVE e = l.next[h]
      OBVIOUS
    <3>1. /\ 0 \in 0..Len(p) /\ 0 + 1 = 1 /\ Len(p) \in 0..Len(p) /\ Len(p) \in 1..Len(p)
          /\ 1 \in 1..Len(p)
      BY <1>3, <2>1
    <3>2. l.next[h] = R[1] /\ l.prev[h] = R[Len(p)]
      BY <1>3, <3>1
    <3>3. R[1] = R[Len(p)]
      BY <3>2 DEF ListIsSingular
    <3>4. p[1] = p[Len(p)]
      BY <1>3, <3>1, <3>3
    <3>5. \A i, j \in 1..Len(p) : p[i] = p[j] => i = j
      BY <1>1 DEF Holds, ListIn, NoRepeats
    <3>6. Len(p) = 1
      BY <3>1, <3>4, <3>5
    <3> QED
      BY <2>1, <3>2, <3>6
  <2>4. ListCutPosition(l, g, h, e) = CutUpTo(l, g, h, e)
    BY <1>4, <2>1, <2>2, <2>3 DEF ListCutPosition
  <2>5. PICK r : r = SubSeq(p, 1, k)
    OBVIOUS
  <2>6. PICK q : q = SubSeq(p, k + 1, Len(p))
    OBVIOUS
  <2>7. /\ r \in Seq(E) /\ Len(r) = k /\ q \in Seq(E) /\ Len(q) = Len(p) - k
        /\ Parted(r, q, p, Len(p), k)
    <3>1. k \in 1..Len(p)
      BY <2>1
    <3>2. CutParts(r, q, p, k)
      BY ONLY <2>5, <2>6 DEF CutParts
    <3> QED
      BY ONLY <1>2, <3>1, <3>2, CutSeq
  <2>8. r \in Seq(N \ DOMAIN Q) /\ q \in Seq(N \ DOMAIN Q)
    BY ONLY <1>1, <2>7
  <2>9. PICK m : m = CutUpTo(l, g, h, e)
    OBVIOUS
  <2>10. Cutting(m, l, g, h, p, k)
    BY ONLY <1>1, <2>1, <2>9 DEF Cutting
  <2>11. /\ Holds(l, Q, N, V) /\ g \in DOMAIN Q /\ h \in DOMAIN Q /\ g # h /\ p = Q[h]
         /\ k \in 1..Len(p)
    BY <1>1, <2>1
  <2>12. Holds(m, [Q EXCEPT ![g] = r, ![h] = q], N, V)
    BY ONLY <2>7, <2>8, <2>10, <2>11, CutHolds
  <2> QED
    BY <1>1, <2>4, <2>5, <2>6, <2>9, <2>12 DEF PutApart
<1> QED
  BY <1>5, <1>6

\* list_cut_before: e is the entry of h behind its k-th, or h.
LEMMA CutBeforeCall ==
    ASSUME NEW l, NEW Q, NEW N, NEW V, Holds(l, Q, N, V),
           NEW g \in DOMAIN Q, NEW h \in DOMAIN Q, g # h, Q[g] = <<>>,
           NEW k \in 0..Len(Q[h]), NEW e, e = IF k = Len(Q[h]) THEN h ELSE Q[h][k + 1],
           NEW P, PutApart(P, Q, g, h, k)
    PROVE  Holds(ListCutBefore(l, g, h, e), P, N, V)
<1>1. PICK p, E, R : p = Q[h] /\ E = N \ DOMAIN Q /\ R = Ring(h, p)
  OBVIOUS
<1>2. p \in Seq(E)
  BY <1>1, HeldList
<1>3. /\ Len(p) \in Nat /\ R[0] = h /\ R[Len(p) + 1] = h
      /\ \A i \in 1..Len(p) : R[i] = p[i] /\ p[i] # h
      /\ \A i \in 0..Len(p) : l.next[R[i]] = R[i + 1] /\ l.prev[R[i + 1]] = R[i]
  BY <1>1, HeldRing
<1>4. k \in 0..Len(p) /\ e = R[k + 1]
  <2>1. k \in 0..Len(p) /\ e = IF k = Len(p) THEN h ELSE p[k + 1]
    BY <1>1
  <2>2. k # Len(p) => k + 1 \in 1..Len(p)
    BY <1>3, <2>1
  <2> QED
    BY ONLY <1>3, <2>1, <2>2
<1>5. l.next[h] = R[1]
  <2>1. 0 \in 0..Len(p) /\ 0 + 1 = 1
    BY <1>3
  <2> QED
    BY ONLY <1>3, <2>1
<1>6. CASE k = 0
  <2>1. ListCutBefore(l, g, h, e) = InitListHead(l, g)
    BY <1>4, <1>5, <1>6 DEF ListCutBefore
  <2> QED
    BY <1>6, <2>1, CutNothing
<1>7. CASE k # 0
  <2>1. k \in 1..Len(p)
    BY <1>3, <1>4, <1>7
  <2>2. PICK r : r = SubSeq(p, 1, k)
    OBVIOUS
  <2>3. PICK q : q = SubSeq(p, k + 1, Len(p))
    OBVIOUS
  <2>4. /\ r \in Seq(E) /\ Len(r) = k /\ q \in Seq(E) /\ Len(q) = Len(p) - k
        /\ Parted(r, q, p, Len(p), k)
    <3>1. CutParts(r, q, p, k)
      BY ONLY <2>2, <2>3 DEF CutParts
    <3> QED
      BY ONLY <1>2, <2>1, <3>1, CutSeq
  <2>5. r \in Seq(N \ DOMAIN Q) /\ q \in Seq(N \ DOMAIN Q)
    BY ONLY <1>1, <2>4
  <2>6. PICK m : m = ListCutBefore(l, g, h, e)
    OBVIOUS
  <2>7. Cutting(m, l, g, h, p, k)
    BY ONLY <1>1, <1>4, <2>6 DEF Cutting
  <2>8. /\ Holds(l, Q, N, V) /\ g \in DOMAIN Q /\ h \in DOMAIN Q /\ g # h /\ p = Q[h]
        /\ k \in 1..Len(p)
    BY <1>1, <2>1
  <2>9. Holds(m, [Q EXCEPT ![g] = r, ![h] = q], N, V)
    BY ONLY <2>4, <2>5, <2>7, <2>8, CutHolds
  <2> QED
    BY <1>1, <2>2, <2>3, <2>6, <2>9 DEF PutApart
<1> QED
  BY <1>6, <1>7


\* Two entries change places: the second leaves its list, the first gives its
\* place to it, and takes the place it left.
Exchanged(q, p, n, i, f, j, e) ==
    \A c \in 1..n : q[c] = IF c = j THEN e ELSE IF c = i THEN f ELSE p[c]

LEMMA SwapIndex ==
    ASSUME NEW n \in Nat, NEW i \in 1..n, NEW j \in 1..n, i # j,
           NEW k, k = IF j < i THEN i - 1 ELSE i,
           NEW p, NEW a, Removed(a, p, n, j), NEW f, NEW b, Replaced(b, a, n - 1, k, f),
           NEW e, NEW q, Exchanged(q, p, n, i, f, j, e)
    PROVE  Inserted(q, b, n - 1, j - 1, e)
<1> \A c \in 1..n : q[c] = IF c = j THEN e ELSE IF c = i THEN f ELSE p[c]
  BY DEF Exchanged
<1> SUFFICES ASSUME NEW c \in 1..n
             PROVE  q[c] = IF c <= j - 1 THEN b[c] ELSE IF c = j - 1 + 1 THEN e ELSE b[c - 1]
  BY DEF Inserted
<1>1. /\ \A x \in 1..n - 1 : a[x] = IF x < j THEN p[x] ELSE p[x + 1]
      /\ \A x \in 1..n - 1 : b[x] = IF x = k THEN f ELSE a[x]
  BY DEF Removed, Replaced
<1>2. CASE c <= j - 1
  <2>1. c \in 1..n - 1 /\ c < j /\ c # j /\ (c = k <=> c = i)
    BY <1>2
  <2> QED
    BY <1>1, <1>2, <2>1
<1>3. CASE c = j
  BY <1>3
<1>4. CASE c > j
  <2>1. c - 1 \in 1..n - 1 /\ ~(c - 1 < j) /\ c - 1 + 1 = c /\ (c - 1 = k <=> c = i)
    BY <1>4
  <2>2. b[c - 1] = IF c = i THEN f ELSE p[c]
    BY ONLY <1>1, <2>1
  <2>3. ~(c <= j - 1) /\ c # j - 1 + 1 /\ c # j
    BY <1>4
  <2> QED
    BY <2>2, <2>3
<1> QED
  BY <1>2, <1>3, <1>4

LEMMA SwapApartIndex ==
    ASSUME NEW n \in Nat, NEW j \in 1..n, NEW p, NEW a, Removed(a, p, n, j),
           NEW e, NEW q, \A c \in 1..n : q[c] = IF c = j THEN e ELSE p[c]
    PROVE  Inserted(q, a, n - 1, j - 1, e)
<1> SUFFICES ASSUME NEW c \in 1..n
             PROVE  q[c] = IF c <= j - 1 THEN a[c] ELSE IF c = j - 1 + 1 THEN e ELSE a[c - 1]
  BY DEF Inserted
<1>1. \A x \in 1..n - 1 : a[x] = IF x < j THEN p[x] ELSE p[x + 1]
  BY DEF Removed
<1>2. CASE c <= j - 1
  <2>1. c \in 1..n - 1 /\ c < j /\ c # j
    BY <1>2
  <2> QED
    BY <1>1, <1>2, <2>1
<1>3. CASE c = j
  BY <1>3
<1>4. CASE c > j
  <2>1. c - 1 \in 1..n - 1 /\ ~(c - 1 < j) /\ c - 1 + 1 = c
    BY <1>4
  <2>2. a[c - 1] = p[c]
    BY ONLY <1>1, <2>1
  <2>3. ~(c <= j - 1) /\ c # j - 1 + 1 /\ c # j
    BY <1>4
  <2> QED
    BY <2>2, <2>3
<1> QED
  BY <1>2, <1>3, <1>4

\* In P entry i of h and entry j of g have changed places.
Swapped(P, Q, h, i, f, g, j, e) == P = [[Q EXCEPT ![h][i] = f] EXCEPT ![g][j] = e]

\* list_swap.
LEMMA SwapCalls ==
    ASSUME NEW l, NEW Q, NEW N, NEW V, Holds(l, Q, N, V),
           NEW h \in DOMAIN Q, NEW i, NEW e, At(Q[h], i, e),
           NEW g \in DOMAIN Q, NEW j, NEW f, At(Q[g], j, f), e # f,
           NEW nil \in V, NEW P, Swapped(P, Q, h, i, f, g, j, e)
    PROVE  Holds(ListSwap(l, e, f, nil), P, N, V)
<1>0. /\ Holds(l, Q, N, V) /\ h \in DOMAIN Q /\ g \in DOMAIN Q /\ nil \in V
      /\ At(Q[h], i, e) /\ At(Q[g], j, f)
  OBVIOUS
<1>1. PICK P1 : Loses(P1, Q, g, j)
  BY DEF Loses
<1>2. PICK d : d = ListDel(l, f, nil)
  OBVIOUS
<1>3. Holds(d, P1, N, V) /\ f \in Fresh(P1, N)
  <2>1. Deleting(d, l, f, nil)
    BY <1>2 DEF Deleting
  <2> QED
    BY ONLY <1>0, <1>1, <2>1, DelCalls
<1>4. PICK E : E = N \ DOMAIN Q
  OBVIOUS
<1>5. PICK n : n = Len(Q[g])
  OBVIOUS
<1>6. /\ Q[g] \in Seq(E) /\ Q[h] \in Seq(E) /\ g \notin E /\ e \in E /\ f \in E
      /\ n \in Nat /\ j \in 1..n /\ i \in 1..Len(Q[h]) /\ Len(Q[h]) \in Nat
      /\ e = Q[h][i] /\ f = Q[g][j] /\ (h = g => i # j)
  <2>1. Q[g] \in Seq(E) /\ Q[h] \in Seq(E) /\ n \in Nat /\ Len(Q[h]) \in Nat
    BY <1>4, <1>5, HeldList, LenProperties
  <2>2. /\ j \in 1..n /\ i \in 1..Len(Q[h]) /\ e = Q[h][i] /\ f = Q[g][j]
    BY <1>5 DEF At
  <2>3. e \in E /\ f \in E
    BY <1>5, <2>1, <2>2, LenProperties
  <2> QED
    BY <1>4, <2>1, <2>2, <2>3
<1>7. PICK a : a = RemoveAt(Q[g], j)
  OBVIOUS
<1>8. a \in Seq(E) /\ Len(a) = n - 1 /\ Removed(a, Q[g], n, j)
  BY <1>5, <1>6, <1>7, RemoveSeq
<1>9. /\ DOMAIN P1 = DOMAIN Q /\ P1[g] = a
      /\ \A c \in DOMAIN Q : c # g => P1[c] = Q[c]
  BY <1>1, <1>7 DEF Loses
<1>10. PICK k : k = IF h = g /\ j < i THEN i - 1 ELSE i
  OBVIOUS
<1>11. At(P1[h], k, e)
  <2>1. CASE h = g
    <3>1. i \in 1..n /\ i # j /\ k = IF j < i THEN i - 1 ELSE i
      BY <1>5, <1>6, <1>10, <2>1
    <3>2. k \in 1..n - 1 /\ (k < j => k = i) /\ (~(k < j) => k + 1 = i)
      BY <1>6, <3>1
    <3>3. a[k] = Q[g][i]
      BY <1>8, <3>2 DEF Removed
    <3> QED
      BY <1>6, <1>8, <1>9, <2>1, <3>2, <3>3 DEF At
  <2>2. CASE h # g
    BY <1>6, <1>9, <1>10, <2>2 DEF At
  <2> QED
    BY <2>1, <2>2
<1>12. PICK P2 : Gives(P2, P1, h, k, f)
  BY DEF Gives
<1>13. PICK r : r = ListReplace(d, e, f)
  OBVIOUS
<1>14. Holds(r, P2, N, V) /\ e \in Fresh(P2, N)
  <2>1. Replacing(r, d, e, f)
    BY <1>13 DEF Replacing
  <2>2. h \in DOMAIN P1
    BY <1>9
  <2> QED
    BY ONLY <1>3, <1>11, <1>12, <2>1, <2>2, ReplaceCalls
<1>15. PICK b : b = P2[g]
  OBVIOUS
<1>16. /\ DOMAIN P2 = DOMAIN Q
       /\ h = g => b = ReplaceAt(a, k, f)
       /\ h # g => b = a /\ P2[h] = ReplaceAt(Q[h], i, f)
       /\ \A c \in DOMAIN Q \ {g, h} : P2[c] = Q[c]
  BY <1>9, <1>10, <1>12, <1>15 DEF Gives
<1>17. /\ b \in Seq(E) /\ Len(b) = n - 1
       /\ h = g => Replaced(b, a, n - 1, k, f)
  <2>1. CASE h = g
    <3>1. k \in 1..Len(a)
      BY <1>9, <1>11, <2>1 DEF At
    <3>2. b = ReplaceAt(a, k, f)
      BY <1>16, <2>1
    <3>3. b \in Seq(E) /\ Len(b) = Len(a) /\ Replaced(b, a, Len(a), k, f)
      <4>1. a \in Seq(E) /\ f \in E
        BY <1>6, <1>8
      <4> QED
        BY ONLY <3>1, <3>2, <4>1, ReplaceSeq
    <3> QED
      BY ONLY <1>8, <3>3
  <2>2. CASE h # g
    BY <1>8, <1>16, <2>2
  <2> QED
    BY <2>1, <2>2
<1>18. PICK y : y = l.prev[f]
  OBVIOUS
<1>19. y = IF j = 1 THEN g ELSE Q[g][j - 1]
  <2>1. PICK R : R = Ring(g, Q[g])
    OBVIOUS
  <2>2. /\ R[0] = g /\ \A c \in 1..Len(Q[g]) : R[c] = Q[g][c] /\ Q[g][c] # g
        /\ \A c \in 0..Len(Q[g]) : l.next[R[c]] = R[c + 1] /\ l.prev[R[c + 1]] = R[c]
    BY ONLY <1>0, <2>1, HeldRing
  <2>3. j - 1 \in 0..n /\ j - 1 + 1 = j /\ (j # 1 => j - 1 \in 1..n) /\ (j = 1 => j - 1 = 0)
    BY <1>6
  <2>4. l.prev[R[j]] = R[j - 1] /\ R[j] = f
    BY ONLY <1>5, <1>6, <2>2, <2>3
  <2> QED
    BY ONLY <1>5, <1>18, <2>2, <2>3, <2>4
<1>20. PICK x : x = IF y = e THEN f ELSE y
  OBVIOUS
<1>21. x = Ring(g, b)[j - 1]
  <2>1. CASE j = 1
    <3>1. Ring(g, b)[j - 1] = g
      BY <1>6, <1>17, <2>1 DEF Ring
    <3>2. y = g /\ g # e
      BY <1>6, <1>19, <2>1
    <3> QED
      BY <1>20, <3>1, <3>2
  <2>2. CASE j # 1
    <3>1. j - 1 \in 1..n - 1 /\ j - 1 < j /\ j - 1 \in 1..n
      BY <1>6, <2>2
    <3>2. Ring(g, b)[j - 1] = b[j - 1]
      BY <1>6, <1>17, <3>1 DEF Ring
    <3>3. y = Q[g][j - 1] /\ a[j - 1] = Q[g][j - 1]
      BY <1>8, <1>19, <2>2, <3>1 DEF Removed
    <3>4. y = e => h = g /\ j - 1 = i
      <4>1. \A c \in 1..Len(Q[h]), z \in 1..Len(Q[g]) : Q[h][c] = Q[g][z] => h = g /\ c = z
        BY DEF Holds, Apart
      <4> QED
        BY ONLY <1>5, <1>6, <3>1, <3>3, <4>1
    <3>5. CASE h = g
      <4>1. b[j - 1] = IF j - 1 = k THEN f ELSE a[j - 1]
        BY <1>17, <3>1, <3>5 DEF Replaced
      <4>2. j - 1 = k <=> j - 1 = i
        BY <1>6, <1>5, <1>10, <3>5
      <4>3. j - 1 = i => y = e
        BY <1>6, <3>3, <3>5
      <4> QED
        BY ONLY <1>20, <3>2, <3>3, <3>4, <4>1, <4>2, <4>3
    <3>6. CASE h # g
      BY <1>16, <1>20, <3>2, <3>3, <3>4, <3>6
    <3> QED
      BY <3>5, <3>6
  <2> QED
    BY <2>1, <2>2
<1>22. PICK m : m = ListSwap(l, e, f, nil)
  OBVIOUS
<1>23. m = ListAddBetween(r, e, Ring(g, b)[j - 1], Ring(g, b)[j - 1 + 1])
  <2>1. m = ListAdd(r, e, x)
    BY <1>2, <1>13, <1>18, <1>20, <1>22 DEF ListSwap
  <2>2. r.next[Ring(g, b)[j - 1]] = Ring(g, b)[j - 1 + 1]
    <3>1. g \in DOMAIN P2 /\ j - 1 \in 0..Len(b)
      BY <1>6, <1>16, <1>17
    <3>2. PICK R : R = Ring(g, b)
      OBVIOUS
    <3>3. \A c \in 0..Len(b) : r.next[R[c]] = R[c + 1] /\ r.prev[R[c + 1]] = R[c]
      BY ONLY <1>14, <1>15, <3>1, <3>2, HeldRing
    <3> QED
      BY ONLY <3>1, <3>2, <3>3
  <2> QED
    BY ONLY <1>21, <2>1, <2>2 DEF ListAdd
<1>24. PICK q : q = P[g]
  OBVIOUS
<1>25. /\ P = [[Q EXCEPT ![h] = [Q[h] EXCEPT ![i] = f]] EXCEPT ![g] = q]
       /\ h = g => q = [[Q[g] EXCEPT ![i] = f] EXCEPT ![j] = e]
       /\ h # g => q = [Q[g] EXCEPT ![j] = e]
  <2>1. P = [[Q EXCEPT ![h][i] = f] EXCEPT ![g][j] = e]
    BY DEF Swapped
  <2> QED
    BY <1>24, <2>1
<1>26. q \in Seq(E) /\ Len(q) = n /\ Inserted(q, b, n - 1, j - 1, e)
  <2>1. Q[g] \in Seq(E) /\ n = Len(Q[g]) /\ Q[g] \in [1..n -> E]
    BY <1>5, <1>6, LenProperties
  <2>2. CASE h = g
    <3>1. PICK u : u = [Q[g] EXCEPT ![i] = f]
      OBVIOUS
    <3>2. i \in 1..n
      BY <1>5, <1>6, <2>2
    <3>3. u \in Seq(E) /\ Len(u) = n
      BY ONLY <1>6, <2>1, <3>1, <3>2, ExceptSeq
    <3>4. q = [u EXCEPT ![j] = e]
      BY <1>25, <2>2, <3>1
    <3>5. q \in Seq(E) /\ Len(q) = n
      BY ONLY <1>6, <3>3, <3>4, ExceptSeq
    <3>6. Exchanged(q, Q[g], n, i, f, j, e)
      <4>1. u \in [1..n -> E]
        BY <3>3, LenProperties
      <4> QED
        BY ONLY <2>1, <3>1, <3>4, <4>1 DEF Exchanged
    <3>7. k = IF j < i THEN i - 1 ELSE i
      BY <1>10, <2>2
    <3>8. i # j /\ Replaced(b, a, n - 1, k, f)
      BY <1>6, <1>17, <2>2
    <3>9. Inserted(q, b, n - 1, j - 1, e)
      BY ONLY <1>6, <1>8, <3>2, <3>6, <3>7, <3>8, SwapIndex
    <3> QED
      BY <3>5, <3>9
  <2>3. CASE h # g
    <3>1. q = [Q[g] EXCEPT ![j] = e] /\ b = a
      BY <1>16, <1>25, <2>3
    <3>2. q \in Seq(E) /\ Len(q) = n
      BY ONLY <1>6, <2>1, <3>1, ExceptSeq
    <3>3. \A c \in 1..n : q[c] = IF c = j THEN e ELSE Q[g][c]
      BY ONLY <2>1, <3>1
    <3>4. Inserted(q, a, n - 1, j - 1, e)
      BY ONLY <1>6, <1>8, <3>3, SwapApartIndex
    <3> QED
      BY <3>1, <3>2, <3>4
  <2> QED
    BY <2>2, <2>3
<1>27. Holds(m, [P2 EXCEPT ![g] = q], N, V)
  <2>1. /\ q \in Seq(N \ DOMAIN P2) /\ g \in DOMAIN P2
        /\ j - 1 \in 0..Len(b) /\ Len(q) = Len(b) + 1 /\ Inserted(q, b, Len(b), j - 1, e)
    BY <1>4, <1>6, <1>16, <1>17, <1>26
  <2> QED
    BY ONLY <1>14, <1>15, <1>23, <2>1, AddHolds
<1>28. [P2 EXCEPT ![g] = q] = P
  <2>1. PICK X : X = [P2 EXCEPT ![g] = q]
    OBVIOUS
  <2>2. Q \in [DOMAIN Q -> Seq(E)] /\ P2 \in [DOMAIN Q -> Seq(E)]
    BY <1>0, <1>4, <1>14, <1>16 DEF Holds
  <2>3. P \in [DOMAIN Q -> Seq(E)] /\ X \in [DOMAIN Q -> Seq(E)]
    <3>1. X \in [DOMAIN Q -> Seq(E)]
      BY ONLY <1>26, <2>1, <2>2
    <3>2. PICK u : u = [Q[h] EXCEPT ![i] = f]
      OBVIOUS
    <3>3. u \in Seq(E)
      BY ONLY <1>6, <3>2, ExceptSeq
    <3>4. P \in [DOMAIN Q -> Seq(E)]
      BY <1>25, <1>26, <2>2, <3>2, <3>3
    <3> QED
      BY <3>1, <3>4
  <2>4. ASSUME NEW c \in DOMAIN Q PROVE X[c] = P[c]
    <3>1. CASE c = g
      BY <1>24, <2>1, <2>2, <3>1
    <3>2. CASE c # g /\ c = h
      <4>1. X[c] = P2[h] /\ P[c] = [Q[h] EXCEPT ![i] = f]
        BY <1>25, <2>1, <2>2, <3>2
      <4>2. P2[h] = ReplaceAt(Q[h], i, f)
        BY <1>16, <3>2
      <4> QED
        BY <4>1, <4>2 DEF ReplaceAt
    <3>3. CASE c \notin {g, h}
      BY <1>16, <1>25, <2>1, <3>3
    <3> QED
      BY <3>1, <3>2, <3>3
  <2> QED
    BY <2>1, <2>3, <2>4
<1> QED
  BY <1>22, <1>27, <1>28


\* A node in no list is initialised.
LEMMA FreshInit ==
    ASSUME NEW l, NEW Q, NEW N, NEW V, Holds(l, Q, N, V), NEW x \in Fresh(Q, N),
           NEW m, m = InitListHead(l, x)
    PROVE  Holds(m, Q, N, V) /\ m.next[x] = x /\ m.prev[x] = x
<1>1. x \in N /\ N \subseteq V /\ l \in Memories(N, V) /\ x \notin DOMAIN Q /\ x \notin Listed(Q)
  BY DEF Fresh, Holds
<1>2. m = [next |-> [l.next EXCEPT ![x] = x], prev |-> [l.prev EXCEPT ![x] = x]]
  BY <1>1 DEF InitListHead, Memories
<1>3. Writes(m, l, N, V, {x}, {x}) /\ m.next[x] = x /\ m.prev[x] = x
  BY <1>1, <1>2 DEF Writes, Agree, Memories
<1>4. PICK H, D : H = {} /\ D = {x}
  OBVIOUS
<1>5. /\ H \in SUBSET DOMAIN Q /\ Others(Q, H) \cap D = {} /\ Writes(m, l, N, V, D, D)
      /\ Q \in [DOMAIN Q -> Seq(N \ DOMAIN Q)]
  BY <1>1, <1>3, <1>4 DEF Others, Listed, Holds
<1>6. Become(Q, Q, H, m, N, D) /\ Holds(l, Q, N, V)
  BY <1>4 DEF Become
<1>7. Holds(m, Q, N, V)
  BY ONLY <1>5, <1>6, ListsChange
<1> QED
  BY <1>3, <1>7

\* P is Q with one more list, of head x, which is empty; or with one less.
Opens(P, Q, x) == P = [h \in DOMAIN Q \cup {x} |-> IF h = x THEN <<>> ELSE Q[h]]
Closes(P, Q, x) == Q[x] = <<>> /\ P = [h \in DOMAIN Q \ {x} |-> Q[h]]

\* A list is opened by INIT_LIST_HEAD.
LEMMA OpenHolds ==
    ASSUME NEW l, NEW Q, NEW N, NEW V, Holds(l, Q, N, V), NEW x \in Fresh(Q, N),
           NEW P, Opens(P, Q, x), NEW m, m = InitListHead(l, x)
    PROVE  Holds(m, P, N, V)
<1>1. Holds(m, Q, N, V) /\ m.next[x] = x /\ m.prev[x] = x
  BY FreshInit
<1>2. x \in N /\ x \notin DOMAIN Q /\ x \notin Listed(Q)
  BY DEF Fresh
<1>3. PICK E, F : E = N \ DOMAIN Q /\ F = N \ DOMAIN P
  OBVIOUS
<1>4. /\ DOMAIN P = DOMAIN Q \cup {x} /\ P[x] = <<>> /\ F = E \ {x}
      /\ \A h \in DOMAIN Q : P[h] = Q[h]
  BY <1>2, <1>3 DEF Opens
<1>5. ASSUME NEW h \in DOMAIN Q PROVE ListIn(m, h, P[h], N, F)
  <2>1. PICK q : q = Q[h]
    OBVIOUS
  <2>2. ListIn(m, h, q, N, E)
    BY <1>1, <1>3, <2>1 DEF Holds
  <2>3. x \notin Range(q)
    BY <1>2, <2>1 DEF Listed
  <2>4. q \in Seq(E) /\ \A i \in 1..Len(q) : q[i] \in F
    BY <1>4, <2>2, <2>3, ListEntries, LenProperties DEF ListIn, Among
  <2>5. q \in Seq(F)
    BY <2>4, LenProperties, IsASeq
  <2> QED
    BY <1>4, <2>1, <2>2, <2>5 DEF ListIn
<1>6. ListIn(m, x, P[x], N, F)
  <2>1. P[x] = <<>> /\ <<>> \in Seq(F) /\ Len(<<>>) = 0
    BY <1>4
  <2>2. Ring(x, <<>>)[0] = x /\ Ring(x, <<>>)[1] = x
    BY DEF Ring
  <2>3. Around(m.next, m.prev, Ring(x, <<>>), 0)
    BY <1>1, <2>2 DEF Around
  <2>4. x \in N \ F /\ F \subseteq N
    BY <1>2, <1>3, <1>4
  <2>5. NoRepeats(<<>>, 0)
    BY DEF NoRepeats
  <2> QED
    BY <2>1, <2>3, <2>4, <2>5 DEF ListIn
<1>7. \A h \in DOMAIN P : ListIn(m, h, P[h], N, F)
  BY <1>4, <1>5, <1>6
<1>8. P \in [DOMAIN P -> Seq(F)]
  <2>1. \A h \in DOMAIN P : P[h] \in Seq(F)
    BY <1>7 DEF ListIn
  <2>2. P = [h \in DOMAIN P |-> P[h]]
    BY DEF Opens
  <2> QED
    BY <2>1, <2>2
<1>9. Apart(P)
  <2> SUFFICES ASSUME NEW g \in DOMAIN P, NEW h \in DOMAIN P,
                      NEW i \in 1..Len(P[g]), NEW j \in 1..Len(P[h]), P[g][i] = P[h][j]
               PROVE  g = h /\ i = j
    BY DEF Apart
  <2>1. Len(P[x]) = 0
    BY <1>4
  <2>2. g # x /\ h # x
    BY <2>1
  <2>3. g \in DOMAIN Q /\ h \in DOMAIN Q /\ P[g] = Q[g] /\ P[h] = Q[h]
    BY <1>4, <2>2
  <2>4. Apart(Q)
    BY DEF Holds
  <2> QED
    BY <2>3, <2>4 DEF Apart
<1> QED
  BY <1>1, <1>3, <1>7, <1>8, <1>9 DEF Holds

\* An empty list may be forgotten.
LEMMA CloseHolds ==
    ASSUME NEW l, NEW Q, NEW N, NEW V, Holds(l, Q, N, V), NEW x \in DOMAIN Q,
           NEW P, Closes(P, Q, x)
    PROVE  Holds(l, P, N, V)
<1>1. PICK E, F : E = N \ DOMAIN Q /\ F = N \ DOMAIN P
  OBVIOUS
<1>2. /\ DOMAIN P = DOMAIN Q \ {x} /\ E \subseteq F /\ F \subseteq N
      /\ \A h \in DOMAIN P : h \in DOMAIN Q /\ P[h] = Q[h] /\ h \notin F
  BY <1>1 DEF Closes
<1>3. ASSUME NEW h \in DOMAIN P PROVE ListIn(l, h, P[h], N, F)
  <2>1. ListIn(l, h, P[h], N, E)
    BY <1>1, <1>2 DEF Holds
  <2>2. P[h] \in Seq(F)
    <3>1. PICK q : q = P[h]
      OBVIOUS
    <3>2. q \in Seq(E)
      BY <2>1, <3>1 DEF ListIn
    <3>3. \A i \in 1..Len(q) : q[i] \in F
      BY <1>2, <3>2, LenProperties
    <3>4. q \in Seq(F)
      BY <3>2, <3>3, LenProperties, IsASeq
    <3> QED
      BY <3>1, <3>4
  <2> QED
    BY <1>2, <2>1, <2>2 DEF ListIn
<1>4. P \in [DOMAIN P -> Seq(F)]
  <2>1. \A h \in DOMAIN P : P[h] \in Seq(F)
    BY <1>3 DEF ListIn
  <2>2. P = [h \in DOMAIN P |-> P[h]]
    BY DEF Closes
  <2> QED
    BY <2>1, <2>2
<1>5. Apart(P)
  BY <1>2 DEF Apart, Holds
<1> QED
  BY <1>1, <1>3, <1>4, <1>5 DEF Holds
============================================================================
