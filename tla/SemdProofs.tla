----------------------------- MODULE SemdProofs -----------------------------
(***************************************************************************)
(* ash.c over its hash table, for any keys, processes and number of        *)
(* descriptors: each descriptor is free or in the one chain of its key,    *)
(* and the calls are those on a partial function from keys to queues that  *)
(* the nucleus is modelled with.                                           *)
(***************************************************************************)
EXTENDS SemdTable, ListLemmas

----------------------------------------------------------------------------
(* hash_min.                                                               *)

\* The four bytes of a number.
LEMMA BytesAreNumbers ==
    ASSUME NEW v \in Nat
    PROVE  Byte(v, 0) \in Nat /\ Byte(v, 1) \in Nat /\ Byte(v, 2) \in Nat /\ Byte(v, 3) \in Nat
BY DEF Byte

\* The highest byte of the product is one byte (__hash_32_generic).
LEMMA HighByteIsByte ==
    ASSUME NEW v \in Nat
    PROVE  HighByte(v) \in 0..255
<1> DEFINE p(k, i) == Byte(v, i) * GOLDEN_RATIO_32[k - i]
           c0 == p(0, 0) \div 256
           c1 == (c0 + p(1, 0) + p(1, 1)) \div 256
           c2 == (c1 + p(2, 0) + p(2, 1) + p(2, 2)) \div 256
<1>1. /\ GOLDEN_RATIO_32[0] = 71 /\ GOLDEN_RATIO_32[1] = 134
      /\ GOLDEN_RATIO_32[2] = 200 /\ GOLDEN_RATIO_32[3] = 97
  BY DEF GOLDEN_RATIO_32
<1>2. \A k \in 0..3 : \A i \in 0..k : p(k, i) \in Nat
  <2> SUFFICES ASSUME NEW k \in 0..3, NEW i \in 0..k PROVE p(k, i) \in Nat
    OBVIOUS
  <2>1. i \in 0..3 /\ k - i \in 0..3
    OBVIOUS
  <2>2. \A j \in 0..3 : GOLDEN_RATIO_32[j] \in Nat
    BY <1>1
  <2>3. \A j \in 0..3 : Byte(v, j) \in Nat
    <3> SUFFICES ASSUME NEW j \in 0..3 PROVE Byte(v, j) \in Nat
      OBVIOUS
    <3>1. j = 0 \/ j = 1 \/ j = 2 \/ j = 3
      OBVIOUS
    <3>2. Byte(v, 0) \in Nat /\ Byte(v, 1) \in Nat /\ Byte(v, 2) \in Nat /\ Byte(v, 3) \in Nat
      BY BytesAreNumbers, Zenon
    <3> QED
      BY <3>1, <3>2, Zenon
  <2>4. \A x, y \in Nat : x * y \in Nat
    OBVIOUS
  <2> QED
    BY <2>1, <2>2, <2>3, <2>4
<1>3. HighByte(v) = (c2 + p(3, 0) + p(3, 1) + p(3, 2) + p(3, 3)) % 256
  BY DEF HighByte
<1>4. /\ p(0, 0) \in Nat /\ p(1, 0) \in Nat /\ p(1, 1) \in Nat /\ p(2, 0) \in Nat
      /\ p(2, 1) \in Nat /\ p(2, 2) \in Nat /\ p(3, 0) \in Nat /\ p(3, 1) \in Nat
      /\ p(3, 2) \in Nat /\ p(3, 3) \in Nat
  BY <1>2
<1> HIDE DEF p
<1>5. c0 \in Nat /\ c1 \in Nat /\ c2 \in Nat
  BY <1>4
<1> HIDE DEF c2
<1>6. PICK x : x = c2 + p(3, 0) + p(3, 1) + p(3, 2) + p(3, 3)
  OBVIOUS
<1>7. x \in Nat
  BY <1>4, <1>5, <1>6
<1>8. x % 256 \in 0..255
  BY <1>7
<1> QED
  BY <1>3, <1>6, <1>8, Zenon

\* There are 32 buckets, which are found from the 5 highest bits.
LEMMA BucketBits == HASH_SIZE = 32 /\ ConstIlog2(HASH_SIZE) = 5 /\ Buckets = 0..31
<1>1. HASH_SIZE = 32 /\ Buckets = 0..31
  BY DEF HASH_SIZE, Buckets
<1> DEFINE bit(k) == Byte(32, k \div 8) \div 2^(k % 8) % 2 = 1
           on == {k \in 2..30 : bit(k)}
<1>2. /\ Byte(32, 0) = 32 /\ Byte(32, 1) = 0 /\ Byte(32, 2) = 0 /\ Byte(32, 3) = 0
  BY DEF Byte
<1>3. ASSUME NEW e \in 0..7
      PROVE  2^e \in Nat \ {0} /\ (32 \div 2^e % 2 = 1 <=> e = 5)
  <2>1. e = 0 \/ e = 1 \/ e = 2 \/ e = 3 \/ e = 4 \/ e = 5 \/ e = 6 \/ e = 7
    OBVIOUS
  <2>2. /\ e = 0 => 2^e = 2^0
        /\ e = 1 => 2^e = 2^1
        /\ e = 2 => 2^e = 2^2
        /\ e = 3 => 2^e = 2^3
        /\ e = 4 => 2^e = 2^4
        /\ e = 5 => 2^e = 2^5
        /\ e = 6 => 2^e = 2^6
        /\ e = 7 => 2^e = 2^7
    BY Zenon
  <2>3. /\ e = 0 => 2^e = 1
        /\ e = 1 => 2^e = 2
        /\ e = 2 => 2^e = 4
        /\ e = 3 => 2^e = 8
        /\ e = 4 => 2^e = 16
        /\ e = 5 => 2^e = 32
        /\ e = 6 => 2^e = 64
        /\ e = 7 => 2^e = 128
    BY <2>2
  <2>4. PICK x : x = 2^e
    OBVIOUS
  <2>5. x \in Nat \ {0} /\ (32 \div x % 2 = 1 <=> e = 5)
    BY <2>1, <2>3, <2>4
  <2> QED
    BY <2>4, <2>5
<1>4. ASSUME NEW k \in 2..30 PROVE bit(k) <=> k = 5
  <2>1. k % 8 \in 0..7 /\ k \div 8 \in 0..3 /\ (k \div 8 = 0 <=> k < 8)
        /\ (k < 8 => k % 8 = k)
    OBVIOUS
  <2>2. PICK x, y, z : x = 2^(k % 8) /\ y = k \div 8 /\ z = Byte(32, y)
    OBVIOUS
  <2>3. y = 0 \/ y = 1 \/ y = 2 \/ y = 3
    BY <2>1, <2>2
  <2>4. x \in Nat \ {0} /\ (32 \div x % 2 = 1 <=> k % 8 = 5)
    BY <1>3, <2>1, <2>2
  <2>5. z = IF y = 0 THEN 32 ELSE 0
    BY <1>2, <2>2, <2>3
  <2>6. z \div x % 2 = 1 <=> k = 5
    <3>1. CASE y = 0
      BY <2>1, <2>2, <2>4, <2>5, <3>1
    <3>2. CASE y # 0
      <4>1. z = 0 /\ ~(k < 8)
        BY <2>1, <2>2, <2>5, <3>2
      <4>2. 0 \div x = 0
        BY <2>4
      <4> QED
        BY <4>1, <4>2
    <3> QED
      BY <3>1, <3>2
  <2> QED
    BY <2>2, <2>6
<1> HIDE DEF bit
<1>5. on = {5}
  BY <1>4
<1>6. ConstIlog2(32) = IF on = {} THEN 1 ELSE CHOOSE k \in on : \A j \in on : j <= k
  BY DEF ConstIlog2, bit
<1> HIDE DEF on
<1>7. ConstIlog2(32) = 5
  BY <1>5, <1>6
<1> QED
  BY <1>1, <1>7

\* hash_min names a bucket, whatever it is given.
LEMMA HashInRange ==
    ASSUME NEW v \in Nat
    PROVE  HashMin(v) \in Buckets
<1>1. HashMin(v) = HighByte(v) \div 2^(8 - 5)
  BY BucketBits DEF HashMin, Hash32
<1>2. 2^(8 - 5) = 8
  <2>1. 8 - 5 = 3
    OBVIOUS
  <2>2. 2^(8 - 5) = 2^3
    BY <2>1, Zenon
  <2> QED
    BY <2>2
<1>3. PICK x : x = HighByte(v)
  OBVIOUS
<1>4. x \in 0..255 /\ HashMin(v) = x \div 8
  BY <1>1, <1>2, <1>3, HighByteIsByte
<1> QED
  BY <1>4, BucketBits


----------------------------------------------------------------------------
(* Chains.                                                                 *)

Tables == [first : [Buckets -> Semds \cup {NULL}],
           next  : [Semds -> Semds \cup {NULL}],
           pprev : [Semds -> Places \cup {NULL}]]

\* The i-th node of the chain c, and the place of bucket b's chain that
\* points to it.
NodeAt(c, i) == IF i \in 1..Len(c) THEN c[i] ELSE NULL
PlaceAt(c, b, i) == IF i = 1 THEN <<"first", b>> ELSE <<"next", c[i - 1]>>

\* c is the chain of bucket b.
ChainIn(t, b, c) ==
    /\ c \in Seq(Semds) /\ NoRepeats(c, Len(c))
    /\ t.first[b] = NodeAt(c, 1)
    /\ \A i \in 1..Len(c) : /\ t.next[c[i]] = NodeAt(c, i + 1)
                            /\ t.pprev[c[i]] = PlaceAt(c, b, i)

Hashed(C) == UNION {Range(C[b]) : b \in Buckets}

\* C are the chains of all buckets, who is in none of them being unhashed.
Chained(t, C) ==
    /\ t \in Tables /\ C \in [Buckets -> Seq(Semds)]
    /\ \A b \in Buckets : ChainIn(t, b, C[b])
    /\ \A a, b \in Buckets : a # b => Range(C[a]) \cap Range(C[b]) = {}
    /\ \A d \in Semds : d \notin Hashed(C) => t.pprev[d] = NULL

ChainsOf(t) == [b \in Buckets |-> Chain(t, b, NULL)]

\* What the assumptions say of descriptors, keys and places.
LEMMA SemdFacts ==
    /\ MAXPROC \in Nat /\ IsFiniteSet(Semds) /\ Cardinality(Semds) = MAXPROC
    /\ NULL \notin Semds /\ NULL \notin Keys /\ NULL \notin Callers /\ NULL \notin Places
    /\ Semds \subseteq Nat /\ Keys \subseteq Nat
    /\ \A b \in Buckets : <<"first", b>> \in Places
    /\ \A d \in Semds : <<"next", d>> \in Places
<1>1. MAXPROC \in Nat
  BY PcbAssumption
<1>2. IsFiniteSet(1..MAXPROC) /\ Cardinality(1..MAXPROC) = MAXPROC
  <2>1. 1 \in Int /\ MAXPROC \in Int
    BY <1>1
  <2>2. IsFiniteSet(1..MAXPROC) /\ Cardinality(1..MAXPROC) = IF 1 > MAXPROC THEN 0 ELSE MAXPROC - 1 + 1
    BY <2>1, FS_Interval
  <2> QED
    BY <1>1, <2>2
<1>3. NULL \notin Semds /\ NULL \notin Keys /\ NULL \notin Callers /\ NULL \notin Places
  <2>1. NULL \notin Keys \cup Callers \cup Semds \cup Places
    BY SemdTableAssumption
  <2> QED
    BY <2>1
<1>4. /\ \A b \in Buckets : <<"first", b>> \in Places
      /\ \A d \in Semds : <<"next", d>> \in Places
  BY DEF Places
<1>5. Semds \subseteq Nat /\ Keys \subseteq Nat
  BY <1>1, SemdTableAssumption DEF Semds
<1> QED
  BY <1>1, <1>2, <1>3, <1>4, <1>5 DEF Semds

\* Positions and members of a sequence.
LEMMA SeqFacts ==
    ASSUME NEW S, NEW q \in Seq(S)
    PROVE  /\ Len(q) \in Nat /\ DOMAIN q = 1..Len(q)
           /\ \A i \in 1..Len(q) : q[i] \in S /\ q[i] \in Range(q)
           /\ \A x \in Range(q) : x \in S /\ \E i \in 1..Len(q) : x = q[i]
<1>1. Len(q) \in Nat /\ DOMAIN q = 1..Len(q) /\ \A i \in 1..Len(q) : q[i] \in S
  BY LenProperties
<1> QED
  BY <1>1 DEF Range

\* A sequence without repetitions is no longer than there are descriptors.
LEMMA NoLonger ==
    ASSUME NEW c \in Seq(Semds), NoRepeats(c, Len(c))
    PROVE  Len(c) <= MAXPROC
<1>1. PICK n : n = Len(c)
  OBVIOUS
<1>2. n \in Nat /\ DOMAIN c = 1..n /\ \A i \in 1..n : c[i] \in Semds
  BY <1>1, SeqFacts
<1>3. c \in [1..n -> Semds]
  BY <1>1, LenProperties
<1>4. c \in Injection(1..n, Semds)
  BY <1>1, <1>3 DEF NoRepeats, Injection, IsInjective
<1>5. Cardinality(1..n) <= MAXPROC
  BY <1>4, SemdFacts, FS_Injection
<1>6. Cardinality(1..n) = n
  <2>1. 1 \in Int /\ n \in Int
    BY <1>2
  <2>2. Cardinality(1..n) = IF 1 > n THEN 0 ELSE n - 1 + 1
    BY <2>1, FS_Interval
  <2> QED
    BY <1>2, <2>2
<1> QED
  BY <1>1, <1>5, <1>6

\* The walk of hlist_for_each_entry meets the nodes of the chain, one after
\* the other.
LEMMA ChainRead ==
    ASSUME NEW t \in Tables, NEW b \in Buckets, NEW c, ChainIn(t, b, c)
    PROVE  Chain(t, b, NULL) = c
<1>1. PICK n, m, link, x : /\ n = MAXPROC /\ m = Len(c)
                           /\ link = t.next /\ x = t.first[b]
  OBVIOUS
<1>2. /\ n \in Nat /\ m \in Nat /\ m <= n /\ Cardinality(DOMAIN link) = n
      /\ link \in [Semds -> Semds \cup {NULL}]
  BY <1>1, SemdFacts, SeqFacts, NoLonger DEF ChainIn, Tables
<1>3. /\ \A i \in 1..m : c[i] \in Semds
      /\ x = IF 1 \in 1..m THEN c[1] ELSE NULL
      /\ \A i \in 1..m : link[c[i]] = IF i + 1 \in 1..m THEN c[i + 1] ELSE NULL
  BY <1>1, SeqFacts DEF ChainIn, NodeAt
<1> DEFINE Rule(f, i) == IF i = 1 THEN x ELSE IF f[i - 1] = NULL THEN NULL ELSE link[f[i - 1]]
           at == CHOOSE f : f = [i \in 1..n + 1 |-> Rule(f, i)]
           g  == [i \in 1..n + 1 |-> IF i \in 1..m THEN c[i] ELSE NULL]
<1>4. g = [i \in 1..n + 1 |-> Rule(g, i)]
  <2> SUFFICES ASSUME NEW i \in 1..n + 1 PROVE g[i] = Rule(g, i)
    OBVIOUS
  <2>1. CASE i = 1
    BY <1>3, <2>1
  <2>2. CASE i # 1
    <3>1. i - 1 \in 1..n + 1 /\ i - 1 \in Nat /\ (i - 1) + 1 = i
      BY <1>2, <2>2
    <3>2. g[i - 1] = IF i - 1 \in 1..m THEN c[i - 1] ELSE NULL
      BY <3>1
    <3>3. g[i] = IF i \in 1..m THEN c[i] ELSE NULL
      OBVIOUS
    <3> HIDE DEF g
    <3>4. CASE i - 1 \in 1..m
      <4>1. link[c[i - 1]] = IF i \in 1..m THEN c[i] ELSE NULL
        BY <1>3, <3>1, <3>4
      <4> QED
        BY <1>3, <2>2, <3>2, <3>3, <3>4, <4>1, SemdFacts
    <3>5. CASE i - 1 \notin 1..m
      <4>1. i \notin 1..m
        BY <1>2, <2>2, <3>1, <3>5
      <4> QED
        BY <2>2, <3>2, <3>3, <3>5, <4>1
    <3> QED
      BY <3>4, <3>5
  <2> QED
    BY <2>1, <2>2
<1>5. at = [i \in 1..n + 1 |-> Rule(at, i)]
  <2> HIDE DEF g, Rule
  <2> QED
    BY <1>4
<1>6. Chain(t, b, NULL) = [i \in 1..Cardinality({j \in 1..n : at[j] # NULL}) |-> at[i]]
  <2> DEFINE walk == CHOOSE f : f = [i \in 1..Cardinality(DOMAIN t.next) + 1 |->
                                      IF i = 1 THEN t.first[b]
                                      ELSE IF f[i - 1] = NULL THEN NULL ELSE t.next[f[i - 1]]]
  <2>1. Chain(t, b, NULL) =
            [i \in 1..Cardinality({j \in 1..Cardinality(DOMAIN t.next) : walk[j] # NULL}) |-> walk[i]]
    BY Zenon DEF Chain
  <2>2. Cardinality(DOMAIN t.next) = n /\ t.first[b] = x /\ t.next = link
    BY <1>1, <1>2
  <2>3. walk = at
    BY <2>2, Zenon
  <2> HIDE DEF walk, at
  <2> QED
    BY <2>1, <2>2, <2>3
<1> HIDE DEF at
<1>7. \A i \in 1..n + 1 : at[i] = g[i]
  <2> DEFINE T == {i \in Nat : i + 1 <= n + 1 => at[i + 1] = g[i + 1]}
  <2>1. 0 \in T
    <3>1. at[1] = x
      BY <1>2, <1>5
    <3>2. g[1] = x
      BY <1>2, <1>3
    <3> QED
      BY <3>1, <3>2
  <2>2. ASSUME NEW i \in Nat, i \in T PROVE i + 1 \in T
    <3> SUFFICES ASSUME i + 2 <= n + 1 PROVE at[i + 2] = g[i + 2]
      OBVIOUS
    <3>1. i + 2 \in 1..n + 1 /\ i + 2 # 1 /\ (i + 2) - 1 = i + 1
      BY <1>2
    <3>2. at[i + 1] = g[i + 1]
      BY <1>2, <2>2
    <3>3. at[i + 2] = Rule(at, i + 2) /\ g[i + 2] = Rule(g, i + 2)
      <4> HIDE DEF g, Rule
      <4> QED
        BY <1>4, <1>5, <3>1
    <3> HIDE DEF g
    <3> QED
      BY <3>1, <3>2, <3>3
  <2> HIDE DEF T
  <2>3. Nat \subseteq T
    BY <2>1, <2>2, NatSetInduction
  <2> SUFFICES ASSUME NEW i \in 1..n + 1 PROVE at[i] = g[i]
    OBVIOUS
  <2>4. i - 1 \in Nat /\ (i - 1) + 1 = i /\ i <= n + 1
    BY <1>2
  <2>5. i - 1 \in T
    BY <2>3, <2>4
  <2>6. (i - 1) + 1 <= n + 1 => at[(i - 1) + 1] = g[(i - 1) + 1]
    BY <2>5 DEF T
  <2> QED
    BY <2>4, <2>6
<1>8. {j \in 1..n : at[j] # NULL} = 1..m
  <2> SUFFICES ASSUME NEW j \in 1..n PROVE at[j] # NULL <=> j \in 1..m
    BY <1>2
  <2>1. at[j] = IF j \in 1..m THEN c[j] ELSE NULL
    BY <1>2, <1>7
  <2> QED
    BY <1>3, <2>1, SemdFacts
<1>9. Cardinality(1..m) = m
  <2>1. 1 \in Int /\ m \in Int
    BY <1>2
  <2>2. Cardinality(1..m) = IF 1 > m THEN 0 ELSE m - 1 + 1
    BY <2>1, FS_Interval
  <2> QED
    BY <1>2, <2>2
<1>10. Chain(t, b, NULL) = [i \in 1..m |-> at[i]]
  BY <1>6, <1>8, <1>9
<1>11. \A i \in 1..m : at[i] = c[i]
  BY <1>2, <1>7
<1>12. c = [i \in 1..m |-> c[i]]
  BY <1>1, LenProperties DEF ChainIn
<1> QED
  BY <1>10, <1>11, <1>12

\* The chains are those that walks find.
LEMMA ChainsRead ==
    ASSUME NEW t, NEW C, Chained(t, C)
    PROVE  C = ChainsOf(t)
<1>1. t \in Tables /\ C \in [Buckets -> Seq(Semds)] /\ \A b \in Buckets : ChainIn(t, b, C[b])
  BY DEF Chained
<1>2. \A b \in Buckets : Chain(t, b, NULL) = C[b]
  BY <1>1, ChainRead
<1> QED
  BY <1>1, <1>2 DEF ChainsOf

\* Who is in a chain.
LEMMA WhereHashed ==
    ASSUME NEW t, NEW C, Chained(t, C), NEW b \in Buckets
    PROVE  /\ C[b] \in Seq(Semds) /\ NoRepeats(C[b], Len(C[b]))
           /\ Range(C[b]) \subseteq Hashed(C) /\ Hashed(C) \subseteq Semds
<1>1. C \in [Buckets -> Seq(Semds)] /\ \A a \in Buckets : ChainIn(t, a, C[a])
  BY DEF Chained
<1>2. \A a \in Buckets : Range(C[a]) \subseteq Semds
  BY <1>1, SeqFacts
<1>3. Range(C[b]) \subseteq Hashed(C) /\ Hashed(C) \subseteq Semds
  BY <1>2 DEF Hashed
<1> QED
  BY <1>1, <1>3 DEF ChainIn

\* The chain of bucket b becomes q, of its own nodes and of nodes D that were
\* in no chain.
Rechains(m, t, C, b, q, D) ==
    /\ m \in Tables /\ ChainIn(m, b, q)
    /\ D \subseteq Semds /\ D \cap Hashed(C) = {}
    /\ Range(q) \subseteq Range(C[b]) \cup D
    /\ \A a \in Buckets \ {b} : m.first[a] = t.first[a]
    /\ \A x \in Semds \ (Range(C[b]) \cup D) : m.next[x] = t.next[x] /\ m.pprev[x] = t.pprev[x]
    /\ \A x \in (Range(C[b]) \cup D) \ Range(q) : m.pprev[x] = NULL

\* The other chains are as before.
LEMMA OneChainChanges ==
    ASSUME NEW t, NEW C, Chained(t, C), NEW b \in Buckets, NEW m, NEW q, NEW D,
           Rechains(m, t, C, b, q, D)
    PROVE  /\ Chained(m, ChainsOf(m))
           /\ Hashed(ChainsOf(m)) = (Hashed(C) \ Range(C[b])) \cup Range(q)
           /\ \A a \in Buckets : ChainsOf(m)[a] = IF a = b THEN q ELSE C[a]
<1>0. PICK P : P = [C EXCEPT ![b] = q]
  OBVIOUS
<1>1. /\ C \in [Buckets -> Seq(Semds)]
      /\ \A a \in Buckets : ChainIn(t, a, C[a])
      /\ \A a, c \in Buckets : a # c => Range(C[a]) \cap Range(C[c]) = {}
      /\ \A d \in Semds : d \notin Hashed(C) => t.pprev[d] = NULL
  BY DEF Chained
<1>2. q \in Seq(Semds)
  BY DEF Rechains, ChainIn
<1>3. P \in [Buckets -> Seq(Semds)] /\ P[b] = q /\ \A a \in Buckets \ {b} : P[a] = C[a]
  BY <1>0, <1>1, <1>2
<1>4. /\ D \subseteq Semds /\ D \cap Hashed(C) = {} /\ Range(q) \subseteq Range(C[b]) \cup D
      /\ \A a \in Buckets : Range(C[a]) \subseteq Hashed(C) /\ Range(C[a]) \subseteq Semds
  BY WhereHashed DEF Rechains
<1>5. ASSUME NEW a \in Buckets \ {b} PROVE ChainIn(m, a, P[a])
  <2>1. PICK c : c = C[a]
    OBVIOUS
  <2>2. c \in Seq(Semds) /\ NoRepeats(c, Len(c)) /\ t.first[a] = NodeAt(c, 1)
        /\ \A i \in 1..Len(c) : /\ t.next[c[i]] = NodeAt(c, i + 1)
                                /\ t.pprev[c[i]] = PlaceAt(c, a, i)
    BY <1>1, <2>1 DEF ChainIn
  <2>3. \A i \in 1..Len(c) : c[i] \in Semds \ (Range(C[b]) \cup D)
    <3>1. \A i \in 1..Len(c) : c[i] \in Range(c) /\ c[i] \in Semds
      BY <2>2, SeqFacts
    <3> QED
      BY <1>1, <1>4, <2>1, <3>1
  <2>4. \A i \in 1..Len(c) : m.next[c[i]] = t.next[c[i]] /\ m.pprev[c[i]] = t.pprev[c[i]]
    BY <2>3 DEF Rechains
  <2>5. m.first[a] = t.first[a]
    BY DEF Rechains
  <2>6. ChainIn(m, a, c)
    BY <2>2, <2>4, <2>5 DEF ChainIn
  <2> QED
    BY <1>3, <2>1, <2>6
<1>6. \A a \in Buckets : ChainIn(m, a, P[a])
  BY <1>3, <1>5 DEF Rechains
<1>7. \A a, c \in Buckets : a # c => Range(P[a]) \cap Range(P[c]) = {}
  <2> SUFFICES ASSUME NEW a \in Buckets, NEW c \in Buckets, a # c
               PROVE  Range(P[a]) \cap Range(P[c]) = {}
    OBVIOUS
  <2>1. \A e \in Buckets \ {b} : Range(q) \cap Range(C[e]) = {}
    BY <1>1, <1>4
  <2>2. CASE a = b
    BY <1>3, <2>1, <2>2
  <2>3. CASE c = b
    BY <1>3, <2>1, <2>3
  <2>4. CASE a # b /\ c # b
    BY <1>1, <1>3, <2>4
  <2> QED
    BY <2>2, <2>3, <2>4
<1>8. Hashed(P) = (Hashed(C) \ Range(C[b])) \cup Range(q)
  <2>1. ASSUME NEW x PROVE x \in Hashed(P) <=> x \in Range(q) \/ \E a \in Buckets \ {b} : x \in Range(C[a])
    BY <1>3 DEF Hashed
  <2>2. ASSUME NEW x PROVE x \in Hashed(C) <=> x \in Range(C[b]) \/ \E a \in Buckets \ {b} : x \in Range(C[a])
    BY DEF Hashed
  <2>3. \A a \in Buckets \ {b} : Range(C[a]) \cap Range(C[b]) = {}
    BY <1>1
  <2> QED
    BY <2>1, <2>2, <2>3
<1>9. \A d \in Semds : d \notin Hashed(P) => m.pprev[d] = NULL
  <2> SUFFICES ASSUME NEW d \in Semds, d \notin Hashed(P) PROVE m.pprev[d] = NULL
    OBVIOUS
  <2>1. d \notin Range(q) /\ (d \in Range(C[b]) \/ d \notin Hashed(C))
    BY <1>8
  <2>2. CASE d \in Range(C[b]) \cup D
    BY <2>1, <2>2 DEF Rechains
  <2>3. CASE d \notin Range(C[b]) \cup D
    <3>1. m.pprev[d] = t.pprev[d]
      BY <2>3 DEF Rechains
    <3> QED
      BY <1>1, <2>1, <2>3, <3>1
  <2> QED
    BY <2>2, <2>3
<1>10. m \in Tables
  BY DEF Rechains
<1>11. Chained(m, P)
  BY <1>3, <1>6, <1>7, <1>8, <1>9, <1>10 DEF Chained
<1>12. P = ChainsOf(m)
  BY <1>11, ChainsRead
<1> QED
  BY <1>3, <1>8, <1>11, <1>12

\* d is put before x, the first of b's chain.
Adds(m, t, b, d, x) ==
    /\ m \in Tables
    /\ m.first[b] = d /\ \A a \in Buckets \ {b} : m.first[a] = t.first[a]
    /\ m.next[d] = x /\ \A y \in Semds \ {d} : m.next[y] = t.next[y]
    /\ m.pprev[d] = <<"first", b>> /\ (x # NULL => m.pprev[x] = <<"next", d>>)
    /\ \A y \in Semds \ {d, x} : m.pprev[y] = t.pprev[y]

\* What hlist_add_head assigns.
LEMMA HlistAddWrites ==
    ASSUME NEW t \in Tables, NEW b \in Buckets, NEW d \in Semds,
           NEW x, x = t.first[b], x # d, NEW m, m = HlistAddHead(t, d, b, NULL)
    PROVE  Adds(m, t, b, d, x)
<1>1. /\ t.first \in [Buckets -> Semds \cup {NULL}]
      /\ t.next \in [Semds -> Semds \cup {NULL}]
      /\ t.pprev \in [Semds -> Places \cup {NULL}]
      /\ t = [first |-> t.first, next |-> t.next, pprev |-> t.pprev]
  BY DEF Tables
<1>2. x \in Semds \cup {NULL} /\ x # d
  BY <1>1
<1>3. m = [first |-> [t.first EXCEPT ![b] = d],
           next |-> [t.next EXCEPT ![d] = x],
           pprev |-> IF x = NULL THEN [t.pprev EXCEPT ![d] = <<"first", b>>]
                     ELSE [t.pprev EXCEPT ![x] = <<"next", d>>, ![d] = <<"first", b>>]]
  BY <1>1 DEF HlistAddHead
<1>4. PICK f, n, v : f = m.first /\ n = m.next /\ v = m.pprev
  OBVIOUS
<1>5. f = [t.first EXCEPT ![b] = d] /\ n = [t.next EXCEPT ![d] = x]
  BY <1>3, <1>4
<1>6. v = IF x = NULL THEN [t.pprev EXCEPT ![d] = <<"first", b>>]
          ELSE [t.pprev EXCEPT ![x] = <<"next", d>>, ![d] = <<"first", b>>]
  BY <1>3, <1>4
<1>7. /\ f \in [Buckets -> Semds \cup {NULL}]
      /\ f[b] = d /\ \A a \in Buckets \ {b} : f[a] = t.first[a]
      /\ n \in [Semds -> Semds \cup {NULL}]
      /\ n[d] = x /\ \A y \in Semds \ {d} : n[y] = t.next[y]
  BY <1>1, <1>2, <1>5
<1>8. /\ v \in [Semds -> Places \cup {NULL}]
      /\ v[d] = <<"first", b>> /\ (x # NULL => v[x] = <<"next", d>>)
      /\ \A y \in Semds \ {d, x} : v[y] = t.pprev[y]
  <2>1. PICK pb, pd : pb = <<"first", b>> /\ pd = <<"next", d>> /\ pb \in Places /\ pd \in Places
    BY SemdFacts
  <2>2. CASE x = NULL
    BY <1>1, <1>6, <2>1, <2>2
  <2>3. CASE x # NULL
    BY <1>1, <1>2, <1>6, <2>1, <2>3
  <2> QED
    BY <2>2, <2>3
<1>9. m \in Tables
  <2>1. m = [first |-> f, next |-> n, pprev |-> v]
    BY <1>3, <1>4
  <2> QED
    BY <1>7, <1>8, <2>1 DEF Tables
<1> QED
  BY <1>4, <1>7, <1>8, <1>9 DEF Adds

\* The range of a sequence with one member more in front, or one less.
LEMMA RangeInserted ==
    ASSUME NEW S, NEW p \in Seq(S), NEW q \in Seq(S), NEW e,
           Len(q) = Len(p) + 1, Inserted(q, p, Len(p), 0, e)
    PROVE  /\ Range(q) = Range(p) \cup {e}
           /\ NoRepeats(p, Len(p)) /\ e \notin Range(p) => NoRepeats(q, Len(q))
<1>1. PICK n : n = Len(p)
  OBVIOUS
<1>2. /\ n \in Nat /\ \A i \in 1..n : p[i] \in Range(p)
      /\ \A x \in Range(p) : \E i \in 1..n : x = p[i]
  BY <1>1, SeqFacts
<1>3. /\ \A i \in 1..n + 1 : q[i] \in Range(q)
      /\ \A x \in Range(q) : \E i \in 1..n + 1 : x = q[i]
  BY <1>1, SeqFacts
<1>4. \A i \in 1..n + 1 : q[i] = IF i = 1 THEN e ELSE p[i - 1]
  BY <1>1, <1>2 DEF Inserted
<1>5. \A i \in 1..n + 1 : i # 1 => i - 1 \in 1..n
  BY <1>2
<1>6. \A i \in 1..n : i + 1 \in 1..n + 1 /\ i + 1 # 1 /\ (i + 1) - 1 = i
  BY <1>2
<1>7. Range(q) \subseteq Range(p) \cup {e}
  BY <1>2, <1>3, <1>4, <1>5
<1>8. Range(p) \subseteq Range(q)
  <2> SUFFICES ASSUME NEW i \in 1..n PROVE p[i] \in Range(q)
    BY <1>2
  <2>1. q[i + 1] = p[i]
    BY <1>4, <1>6
  <2> QED
    BY <1>3, <1>6, <2>1
<1>9. e \in Range(q)
  BY <1>2, <1>3, <1>4
<1>10. ASSUME NoRepeats(p, Len(p)), e \notin Range(p),
              NEW i \in 1..n + 1, NEW j \in 1..n + 1, q[i] = q[j]
       PROVE  i = j
  <2>1. \A k, l \in 1..n : p[k] = p[l] => k = l
    BY <1>1, <1>10 DEF NoRepeats
  <2>2. CASE i = 1 \/ j = 1
    BY <1>2, <1>4, <1>5, <1>10, <2>2
  <2>3. CASE i # 1 /\ j # 1
    <3>1. i - 1 = j - 1
      BY <1>4, <1>5, <1>10, <2>1, <2>3
    <3> QED
      BY <3>1
  <2> QED
    BY <2>2, <2>3
<1> QED
  BY <1>1, <1>7, <1>8, <1>9, <1>10 DEF NoRepeats

\* Without its k-th member.
LEMMA RangeRemoved ==
    ASSUME NEW S, NEW p \in Seq(S), NEW q \in Seq(S), NEW k \in 1..Len(p),
           Len(q) = Len(p) - 1, Removed(q, p, Len(p), k), NoRepeats(p, Len(p))
    PROVE  Range(q) = Range(p) \ {p[k]} /\ NoRepeats(q, Len(q))
<1>1. PICK n : n = Len(p)
  OBVIOUS
<1>2. /\ n \in Nat /\ k \in 1..n /\ \A i \in 1..n : p[i] \in Range(p)
      /\ \A x \in Range(p) : \E i \in 1..n : x = p[i]
  BY <1>1, SeqFacts
<1>3. /\ \A i \in 1..n - 1 : q[i] \in Range(q)
      /\ \A x \in Range(q) : \E i \in 1..n - 1 : x = q[i]
  BY <1>1, SeqFacts
<1>4. \A i \in 1..n - 1 : q[i] = IF i < k THEN p[i] ELSE p[i + 1]
  BY <1>1 DEF Removed
<1>5. \A i, j \in 1..n : p[i] = p[j] => i = j
  BY <1>1 DEF NoRepeats
<1>6. \A i \in 1..n - 1 : i \in 1..n /\ i + 1 \in 1..n /\ (i < k => i # k) /\ (~(i < k) => i + 1 # k)
  BY <1>2
<1>7. Range(q) \subseteq Range(p) \ {p[k]}
  BY <1>2, <1>3, <1>4, <1>5, <1>6
<1>8. ASSUME NEW i \in 1..n, i # k PROVE p[i] \in Range(q)
  <2>1. CASE i < k
    <3>1. i \in 1..n - 1
      BY <1>2, <2>1
    <3> QED
      BY <1>3, <1>4, <2>1, <3>1
  <2>2. CASE ~(i < k)
    <3>1. i - 1 \in 1..n - 1 /\ ~(i - 1 < k) /\ (i - 1) + 1 = i
      BY <1>2, <1>8, <2>2
    <3>2. q[i - 1] = p[i]
      BY <1>4, <3>1
    <3> QED
      BY <1>3, <3>1, <3>2
  <2> QED
    BY <2>1, <2>2
<1>9. ASSUME NEW i \in 1..n - 1, NEW j \in 1..n - 1, q[i] = q[j] PROVE i = j
  <2>1. CASE i < k /\ j < k
    BY <1>4, <1>5, <1>6, <1>9, <2>1
  <2>2. CASE i < k /\ ~(j < k)
    <3>1. i = j + 1
      BY <1>4, <1>5, <1>6, <1>9, <2>2
    <3> QED
      BY <1>2, <2>2, <3>1
  <2>3. CASE ~(i < k) /\ j < k
    <3>1. i + 1 = j
      BY <1>4, <1>5, <1>6, <1>9, <2>3
    <3> QED
      BY <1>2, <2>3, <3>1
  <2>4. CASE ~(i < k) /\ ~(j < k)
    <3>1. i + 1 = j + 1
      BY <1>4, <1>5, <1>6, <1>9, <2>4
    <3> QED
      BY <3>1
  <2> QED
    BY <2>1, <2>2, <2>3, <2>4
<1> QED
  BY <1>1, <1>2, <1>7, <1>8, <1>9 DEF NoRepeats

\* hash_add: the node becomes the first of its bucket's chain.
LEMMA AddChained ==
    ASSUME NEW t, NEW C, Chained(t, C), NEW b \in Buckets, NEW d \in Semds \ Hashed(C),
           NEW m, m = HlistAddHead(t, d, b, NULL)
    PROVE  /\ Chained(m, ChainsOf(m))
           /\ Hashed(ChainsOf(m)) = Hashed(C) \cup {d}
           /\ \A a \in Buckets : Range(ChainsOf(m)[a]) = Range(C[a]) \cup IF a = b THEN {d} ELSE {}
<1>1. PICK p, n, x : p = C[b] /\ n = Len(p) /\ x = t.first[b]
  OBVIOUS
<1>a. PICK q : q = <<d>> \o p
  OBVIOUS
<1>2. t \in Tables /\ C \in [Buckets -> Seq(Semds)] /\ ChainIn(t, b, p)
  BY <1>1 DEF Chained
<1>3. /\ p \in Seq(Semds) /\ NoRepeats(p, n) /\ Range(p) \subseteq Hashed(C) /\ d \notin Range(p)
      /\ n \in Nat /\ d \in Semds
  BY <1>1, WhereHashed, SeqFacts
<1>4. q \in Seq(Semds) /\ Len(q) = Len(p) + 1 /\ Inserted(q, p, Len(p), 0, d)
  BY <1>3, <1>a, PushSeq
<1>5. Range(q) = Range(p) \cup {d} /\ (NoRepeats(p, Len(p)) /\ d \notin Range(p) => NoRepeats(q, Len(q)))
  BY <1>3, <1>4, RangeInserted
<1>c. NoRepeats(q, Len(q)) /\ Len(q) = n + 1 /\ Inserted(q, p, n, 0, d)
  BY <1>1, <1>3, <1>4, <1>5
<1>6. /\ \A i \in 1..n : p[i] \in Semds /\ p[i] \in Range(p) /\ p[i] # d
      /\ x = IF 1 \in 1..n THEN p[1] ELSE NULL
      /\ \A i \in 1..n : /\ t.next[p[i]] = NodeAt(p, i + 1)
                         /\ t.pprev[p[i]] = PlaceAt(p, b, i)
      /\ \A i, j \in 1..n : p[i] = p[j] => i = j
  BY <1>1, <1>2, <1>3, SeqFacts DEF ChainIn, NodeAt, NoRepeats
<1>7. x # d
  BY <1>6, SemdFacts
<1>d. Adds(m, t, b, d, x)
  BY <1>1, <1>2, <1>3, <1>7, HlistAddWrites
<1>8. /\ m \in Tables
      /\ m.first[b] = d /\ \A a \in Buckets \ {b} : m.first[a] = t.first[a]
      /\ m.next[d] = x /\ \A y \in Semds \ {d} : m.next[y] = t.next[y]
      /\ m.pprev[d] = <<"first", b>> /\ (x # NULL => m.pprev[x] = <<"next", d>>)
      /\ \A y \in Semds \ {d, x} : m.pprev[y] = t.pprev[y]
  BY <1>d DEF Adds
<1>9. q[1] = d /\ \A i \in 1..n : q[i + 1] = p[i]
  <2>1. \A i \in 1..n : i + 1 \in 1..n + 1 /\ ~(i + 1 <= 0) /\ i + 1 # 0 + 1 /\ (i + 1) - 1 = i
    BY <1>3
  <2>2. 1 \in 1..n + 1 /\ ~(1 <= 0) /\ 1 = 0 + 1
    BY <1>3
  <2> QED
    BY <1>c, <2>1, <2>2 DEF Inserted
<1>10. m.first[b] = NodeAt(q, 1)
  BY <1>3, <1>c, <1>8, <1>9 DEF NodeAt
<1>11. ASSUME NEW i \in 1..Len(q)
       PROVE  m.next[q[i]] = NodeAt(q, i + 1) /\ m.pprev[q[i]] = PlaceAt(q, b, i)
  <2>1. CASE i = 1
    <3>1. NodeAt(q, 2) = IF 1 \in 1..n THEN p[1] ELSE NULL
      BY <1>3, <1>c, <1>9 DEF NodeAt
    <3> QED
      BY <1>6, <1>8, <1>9, <2>1, <3>1 DEF PlaceAt
  <2>2. CASE i # 1
    <3>1. PICK j \in 1..n : i = j + 1
      <4>1. i - 1 \in 1..n /\ i = (i - 1) + 1
        BY <1>3, <1>c, <2>2
      <4> QED
        BY <4>1
    <3>2. q[i] = p[j] /\ q[i] # d
      BY <1>6, <1>9, <3>1
    <3>3. NodeAt(q, i + 1) = NodeAt(p, j + 1)
      <4>1. i + 1 \in 1..n + 1 <=> j + 1 \in 1..n
        BY <1>3, <3>1
      <4>2. j + 1 \in 1..n => q[i + 1] = p[j + 1]
        BY <1>9, <3>1
      <4> QED
        BY <1>1, <1>c, <4>1, <4>2 DEF NodeAt
    <3>4. m.next[q[i]] = NodeAt(q, i + 1)
      BY <1>6, <1>8, <3>2, <3>3
    <3>5. m.pprev[q[i]] = PlaceAt(q, b, i)
      <4>1. CASE j = 1
        <5>1. q[i] = x /\ x # NULL
          BY <1>6, <3>2, <4>1, SemdFacts
        <5>2. PlaceAt(q, b, i) = <<"next", d>>
          BY <1>9, <3>1, <4>1 DEF PlaceAt
        <5> QED
          BY <1>8, <5>1, <5>2
      <4>2. CASE j # 1
        <5>1. q[i] # x /\ q[i] \in Semds
          BY <1>3, <1>6, <3>2, <4>2, SemdFacts
        <5>2. m.pprev[q[i]] = PlaceAt(p, b, j)
          BY <1>6, <1>8, <3>2, <5>1
        <5>3. q[i - 1] = p[j - 1]
          <6>1. j - 1 \in 1..n /\ i - 1 = (j - 1) + 1
            BY <1>3, <3>1, <4>2
          <6> QED
            BY <1>9, <6>1
        <5> QED
          BY <2>2, <4>2, <5>2, <5>3 DEF PlaceAt
      <4> QED
        BY <4>1, <4>2
    <3> QED
      BY <3>4, <3>5
  <2> QED
    BY <2>1, <2>2
<1>12. ChainIn(m, b, q)
  BY <1>4, <1>c, <1>10, <1>11 DEF ChainIn
<1>13. PICK D : D = {d}
  OBVIOUS
<1>14. Rechains(m, t, C, b, q, D)
  <2>1. \A y \in Semds \ (Range(p) \cup D) : m.next[y] = t.next[y] /\ m.pprev[y] = t.pprev[y]
    <3>1. \A y \in Semds \ (Range(p) \cup D) : y \in Semds \ {d, x}
      BY <1>6, <1>13, SemdFacts
    <3> QED
      BY <1>8, <3>1
  <2> QED
    BY <1>1, <1>5, <1>8, <1>12, <1>13, <2>1 DEF Rechains
<1>15. /\ Chained(m, ChainsOf(m))
       /\ Hashed(ChainsOf(m)) = (Hashed(C) \ Range(C[b])) \cup Range(q)
       /\ \A a \in Buckets : ChainsOf(m)[a] = IF a = b THEN q ELSE C[a]
  BY <1>14, OneChainChanges
<1> QED
  BY <1>1, <1>3, <1>5, <1>15

\* d is taken out between e and x, either of which may be NULL.
Deletes(m, t, b, e, d, x) ==
    /\ m \in Tables
    /\ m.first[b] = (IF e = NULL THEN x ELSE t.first[b])
    /\ \A a \in Buckets \ {b} : m.first[a] = t.first[a]
    /\ m.next[d] = NULL /\ (e # NULL => m.next[e] = x)
    /\ \A y \in Semds \ {d, e} : m.next[y] = t.next[y]
    /\ m.pprev[d] = NULL /\ (x # NULL => m.pprev[x] = t.pprev[d])
    /\ \A y \in Semds \ {d, x} : m.pprev[y] = t.pprev[y]

\* What hlist_del_init assigns.
LEMMA HlistDelWrites ==
    ASSUME NEW t \in Tables, NEW b \in Buckets, NEW d \in Semds,
           NEW e \in Semds \cup {NULL}, e # d,
           t.pprev[d] = (IF e = NULL THEN <<"first", b>> ELSE <<"next", e>>),
           NEW x, x = t.next[d], x # d, NEW m, m = HlistDelInit(t, d, NULL)
    PROVE  Deletes(m, t, b, e, d, x)
<1>0. PICK pl : pl = t.pprev[d]
  OBVIOUS
<1>1. /\ t.first \in [Buckets -> Semds \cup {NULL}]
      /\ t.next \in [Semds -> Semds \cup {NULL}]
      /\ t.pprev \in [Semds -> Places \cup {NULL}]
      /\ t = [first |-> t.first, next |-> t.next, pprev |-> t.pprev]
  BY DEF Tables
<1>2. x \in Semds \cup {NULL} /\ x # d /\ pl \in Places /\ pl # NULL
  BY <1>0, <1>1, SemdFacts
<1>3. e = NULL => pl = <<"first", b>> /\ pl[1] = "first" /\ pl[2] = b
  BY <1>0
<1>4. e # NULL => pl = <<"next", e>> /\ pl[1] # "first" /\ pl[2] = e
  BY <1>0
<1>5. PICK out : out = Store(t, pl, x)
  OBVIOUS
<1>6. out = [first |-> IF e = NULL THEN [t.first EXCEPT ![b] = x] ELSE t.first,
             next |-> IF e = NULL THEN t.next ELSE [t.next EXCEPT ![e] = x],
             pprev |-> t.pprev]
  <2>1. CASE e = NULL
    <3>1. out = [t EXCEPT !.first[b] = x]
      BY <1>3, <1>5, <2>1 DEF Store
    <3> QED
      BY <1>1, <2>1, <3>1
  <2>2. CASE e # NULL
    <3>1. out = [t EXCEPT !.next[e] = x]
      BY <1>4, <1>5, <2>2 DEF Store
    <3> QED
      BY <1>1, <2>2, <3>1
  <2> QED
    BY <2>1, <2>2
<1>7. PICK f, n, v : f = out.first /\ n = out.next /\ v = out.pprev
  OBVIOUS
<1>8. /\ f = IF e = NULL THEN [t.first EXCEPT ![b] = x] ELSE t.first
      /\ n = IF e = NULL THEN t.next ELSE [t.next EXCEPT ![e] = x]
      /\ v = t.pprev
      /\ out = [first |-> f, next |-> n, pprev |-> v]
  BY <1>6, <1>7
<1>9. m = [first |-> f, next |-> [n EXCEPT ![d] = NULL],
           pprev |-> IF x = NULL THEN [v EXCEPT ![d] = NULL]
                     ELSE [v EXCEPT ![x] = pl, ![d] = NULL]]
  <2>1. m = [HlistUnlink(t, d, NULL) EXCEPT !.next[d] = NULL, !.pprev[d] = NULL]
    BY <1>0, <1>2, SemdFacts DEF HlistDelInit, HlistUnhashed
  <2>2. HlistUnlink(t, d, NULL) = IF x = NULL THEN out ELSE [out EXCEPT !.pprev[x] = pl]
    BY <1>0, <1>5 DEF HlistUnlink
  <2>3. PICK u : u = HlistUnlink(t, d, NULL)
    OBVIOUS
  <2>4. u = [first |-> f, next |-> n, pprev |-> IF x = NULL THEN v ELSE [v EXCEPT ![x] = pl]]
    BY <1>8, <2>2, <2>3
  <2>5. m = [u EXCEPT !.next[d] = NULL, !.pprev[d] = NULL]
    BY <2>1, <2>3
  <2>6. m = [first |-> u.first, next |-> [u.next EXCEPT ![d] = NULL],
             pprev |-> [u.pprev EXCEPT ![d] = NULL]]
    BY <2>4, <2>5
  <2>7. /\ u.first = f /\ u.next = n
        /\ u.pprev = IF x = NULL THEN v ELSE [v EXCEPT ![x] = pl]
    BY <2>4
  <2> QED
    BY <2>6, <2>7
<1>10. PICK mn, mv : mn = m.next /\ mv = m.pprev
  OBVIOUS
<1>11. mn = [n EXCEPT ![d] = NULL]
  BY <1>9, <1>10
<1>12. mv = IF x = NULL THEN [v EXCEPT ![d] = NULL] ELSE [v EXCEPT ![x] = pl, ![d] = NULL]
  BY <1>9, <1>10
<1>13. /\ f \in [Buckets -> Semds \cup {NULL}]
       /\ f[b] = (IF e = NULL THEN x ELSE t.first[b])
       /\ \A a \in Buckets \ {b} : f[a] = t.first[a]
  BY <1>1, <1>2, <1>8
<1>14. /\ n \in [Semds -> Semds \cup {NULL}]
       /\ e # NULL => n[e] = x
       /\ \A y \in Semds \ {e} : n[y] = t.next[y]
  <2>1. n = IF e = NULL THEN t.next ELSE [t.next EXCEPT ![e] = x]
    BY <1>8
  <2> QED
    BY <1>1, <1>2, <2>1
<1>15. /\ mn \in [Semds -> Semds \cup {NULL}]
       /\ mn[d] = NULL /\ (e # NULL => mn[e] = x)
       /\ \A y \in Semds \ {d, e} : mn[y] = t.next[y]
  BY <1>11, <1>14
<1>16. /\ mv \in [Semds -> Places \cup {NULL}]
       /\ mv[d] = NULL /\ (x # NULL => mv[x] = pl)
       /\ \A y \in Semds \ {d, x} : mv[y] = t.pprev[y]
  <2>1. v \in [Semds -> Places \cup {NULL}] /\ \A y \in Semds : v[y] = t.pprev[y]
    BY <1>1, <1>8
  <2> QED
    BY <1>2, <1>12, <2>1
<1>17. m = [first |-> f, next |-> mn, pprev |-> mv]
  BY <1>9, <1>10
<1>18. m \in Tables /\ m.first = f
  BY <1>13, <1>15, <1>16, <1>17 DEF Tables
<1> QED
  BY <1>0, <1>10, <1>13, <1>15, <1>16, <1>18 DEF Deletes

\* m's chains are those of C without d.
Unhashes(m, C, d) ==
    /\ Chained(m, ChainsOf(m))
    /\ Hashed(ChainsOf(m)) = Hashed(C) \ {d}
    /\ \A a \in Buckets : Range(ChainsOf(m)[a]) = Range(C[a]) \ {d}

\* hash_del: the node leaves its chain.
LEMMA DelChained ==
    ASSUME NEW t, NEW C, Chained(t, C), NEW b \in Buckets, NEW d \in Range(C[b]),
           NEW m, m = HlistDelInit(t, d, NULL)
    PROVE  Unhashes(m, C, d)
<1>1. PICK p, n, x : p = C[b] /\ n = Len(p) /\ x = t.next[d]
  OBVIOUS
<1>2. t \in Tables /\ C \in [Buckets -> Seq(Semds)] /\ ChainIn(t, b, p)
      /\ \A a, c \in Buckets : a # c => Range(C[a]) \cap Range(C[c]) = {}
  BY <1>1 DEF Chained
<1>3. p \in Seq(Semds) /\ NoRepeats(p, n) /\ Range(p) \subseteq Hashed(C) /\ n \in Nat
  BY <1>1, WhereHashed, SeqFacts
<1>4. PICK k \in 1..n : d = p[k]
  BY <1>1, <1>3, SeqFacts
<1>5. PICK q : q = RemoveAt(p, k)
  OBVIOUS
<1>6. q \in Seq(Semds) /\ Len(q) = Len(p) - 1 /\ Removed(q, p, Len(p), k)
  BY <1>1, <1>3, <1>4, <1>5, RemoveSeq
<1>7. Range(q) = Range(p) \ {d} /\ NoRepeats(q, Len(q))
  <2>1. NoRepeats(p, Len(p)) /\ k \in 1..Len(p)
    BY <1>1, <1>3, <1>4
  <2>2. Range(q) = Range(p) \ {p[k]} /\ NoRepeats(q, Len(q))
    BY <1>3, <1>6, <2>1, RangeRemoved
  <2> QED
    BY <1>4, <2>2
<1>8. /\ \A i \in 1..n : p[i] \in Semds /\ p[i] \in Range(p) /\ p[i] # NULL
      /\ t.first[b] = NodeAt(p, 1)
      /\ \A i \in 1..n : /\ t.next[p[i]] = NodeAt(p, i + 1)
                         /\ t.pprev[p[i]] = PlaceAt(p, b, i)
      /\ \A i, j \in 1..n : p[i] = p[j] => i = j
  BY <1>1, <1>2, <1>3, SeqFacts, SemdFacts DEF ChainIn, NoRepeats
<1>9. Len(q) = n - 1 /\ \A i \in 1..n - 1 : q[i] = IF i < k THEN p[i] ELSE p[i + 1]
  BY <1>1, <1>6 DEF Removed
<1>10. PICK e : e = NodeAt(p, k - 1)
  OBVIOUS
<1>11. /\ x = IF k + 1 \in 1..n THEN p[k + 1] ELSE NULL
       /\ e = IF k = 1 THEN NULL ELSE p[k - 1]
       /\ k # 1 => k - 1 \in 1..n
       /\ d \in Semds
  <2>1. x = NodeAt(p, k + 1)
    BY <1>1, <1>4, <1>8
  <2>2. k - 1 \in 1..n <=> k # 1
    BY <1>3, <1>4
  <2> QED
    BY <1>1, <1>4, <1>8, <1>10, <2>1, <2>2 DEF NodeAt
<1>12. /\ e \in Semds \cup {NULL} /\ e # d /\ x # d
       /\ t.pprev[d] = (IF e = NULL THEN <<"first", b>> ELSE <<"next", e>>)
  <2>1. e \in Semds \cup {NULL} /\ e # d /\ x # d /\ (e = NULL <=> k = 1)
    BY <1>3, <1>4, <1>8, <1>11
  <2>2. t.pprev[d] = PlaceAt(p, b, k)
    BY <1>4, <1>8
  <2> QED
    BY <1>11, <2>1, <2>2 DEF PlaceAt
<1>13. Deletes(m, t, b, e, d, x)
  BY <1>1, <1>2, <1>11, <1>12, HlistDelWrites
<1>14. /\ m \in Tables
       /\ m.first[b] = (IF e = NULL THEN x ELSE t.first[b])
       /\ \A a \in Buckets \ {b} : m.first[a] = t.first[a]
       /\ m.next[d] = NULL /\ (e # NULL => m.next[e] = x)
       /\ \A y \in Semds \ {d, e} : m.next[y] = t.next[y]
       /\ m.pprev[d] = NULL /\ (x # NULL => m.pprev[x] = t.pprev[d])
       /\ \A y \in Semds \ {d, x} : m.pprev[y] = t.pprev[y]
  BY <1>13 DEF Deletes
<1>15. m.first[b] = NodeAt(q, 1)
  <2>1. CASE k = 1
    <3>1. m.first[b] = x
      BY <1>11, <1>14, <2>1
    <3>2. NodeAt(q, 1) = IF 2 \in 1..n THEN p[2] ELSE NULL
      <4>1. 1 \in 1..n - 1 <=> 2 \in 1..n
        BY <1>3
      <4>2. 1 \in 1..n - 1 => q[1] = p[2]
        BY <1>9, <2>1
      <4> QED
        BY <1>9, <4>1, <4>2 DEF NodeAt
    <3> QED
      BY <1>11, <2>1, <3>1, <3>2
  <2>2. CASE k # 1
    <3>1. e # NULL /\ m.first[b] = p[1]
      <4>1. e # NULL
        BY <1>8, <1>11, <2>2
      <4>2. 1 \in 1..n
        BY <1>3, <1>4
      <4> QED
        BY <1>1, <1>8, <1>14, <4>1, <4>2 DEF NodeAt
    <3>2. 1 \in 1..n - 1 /\ 1 < k
      BY <1>3, <1>4, <2>2
    <3>3. NodeAt(q, 1) = p[1]
      BY <1>9, <3>2 DEF NodeAt
    <3> QED
      BY <3>1, <3>3
  <2> QED
    BY <2>1, <2>2
<1>16. ASSUME NEW i \in 1..n - 1 PROVE m.next[q[i]] = NodeAt(q, i + 1)
  <2>1. CASE i + 1 < k
    <3>1. i \in 1..n /\ i < k /\ i + 1 \in 1..n - 1 /\ i + 1 \in 1..n /\ i # k /\ i # k - 1
      BY <1>3, <1>4, <2>1
    <3>2. q[i] = p[i] /\ q[i + 1] = p[i + 1]
      BY <1>9, <2>1, <3>1
    <3>3. p[i] \in Semds \ {d, e}
      BY <1>4, <1>8, <1>11, <3>1
    <3>4. m.next[q[i]] = NodeAt(p, i + 1)
      BY <1>8, <1>14, <3>1, <3>2, <3>3
    <3> QED
      BY <1>1, <1>9, <3>1, <3>2, <3>4 DEF NodeAt
  <2>2. CASE i + 1 = k
    <3>1. i \in 1..n /\ i < k /\ k # 1 /\ i = k - 1 /\ k - 1 \in 1..n
      BY <1>3, <1>4, <2>2
    <3>2. q[i] = e /\ e # NULL
      BY <1>8, <1>9, <1>11, <3>1
    <3>3. NodeAt(q, i + 1) = x
      <4>1. i + 1 \in 1..n - 1 <=> k + 1 \in 1..n
        BY <1>3, <1>4, <2>2
      <4>2. i + 1 \in 1..n - 1 => q[i + 1] = p[k + 1]
        BY <1>4, <1>9, <2>2
      <4> QED
        BY <1>9, <1>11, <4>1, <4>2 DEF NodeAt
    <3> QED
      BY <1>14, <3>2, <3>3
  <2>3. CASE i + 1 > k
    <3>1. ~(i < k) /\ i + 1 \in 1..n /\ i + 1 # k /\ i + 1 # k - 1
      BY <1>3, <1>4, <2>3
    <3>2. q[i] = p[i + 1]
      BY <1>9, <3>1
    <3>3. p[i + 1] \in Semds \ {d, e}
      BY <1>4, <1>8, <1>11, <3>1
    <3>4. m.next[q[i]] = NodeAt(p, (i + 1) + 1)
      BY <1>8, <1>14, <3>1, <3>2, <3>3
    <3>5. NodeAt(q, i + 1) = NodeAt(p, (i + 1) + 1)
      <4>1. i + 1 \in 1..n - 1 <=> (i + 1) + 1 \in 1..n
        BY <1>3
      <4>2. i + 1 \in 1..n - 1 => q[i + 1] = p[(i + 1) + 1]
        BY <1>4, <1>9, <2>3
      <4> QED
        BY <1>1, <1>9, <4>1, <4>2 DEF NodeAt
    <3> QED
      BY <3>4, <3>5
  <2> QED
    BY <1>4, <2>1, <2>2, <2>3
<1>17. ASSUME NEW i \in 1..n - 1 PROVE m.pprev[q[i]] = PlaceAt(q, b, i)
  <2>1. CASE i < k
    <3>1. i \in 1..n /\ i # k /\ i # k + 1 /\ (i # 1 => i - 1 \in 1..n - 1 /\ i - 1 < k)
      BY <1>3, <1>4, <2>1
    <3>2. q[i] = p[i] /\ (i # 1 => q[i - 1] = p[i - 1])
      BY <1>9, <2>1, <3>1
    <3>3. p[i] \in Semds \ {d, x}
      BY <1>4, <1>8, <1>11, <3>1
    <3>4. m.pprev[q[i]] = PlaceAt(p, b, i)
      BY <1>8, <1>14, <3>1, <3>2, <3>3
    <3> QED
      BY <3>2, <3>4 DEF PlaceAt
  <2>2. CASE i = k
    <3>1. ~(i < k) /\ k + 1 \in 1..n /\ (k # 1 => k - 1 \in 1..n - 1 /\ k - 1 < k)
      BY <1>3, <1>4, <2>2
    <3>2. q[i] = x /\ x # NULL
      BY <1>8, <1>9, <1>11, <2>2, <3>1
    <3>3. k # 1 => q[k - 1] = p[k - 1]
      BY <1>9, <3>1
    <3>4. m.pprev[q[i]] = PlaceAt(p, b, k)
      BY <1>4, <1>8, <1>14, <3>2
    <3> QED
      BY <2>2, <3>3, <3>4 DEF PlaceAt
  <2>3. CASE i > k
    <3>1. ~(i < k) /\ i + 1 \in 1..n /\ i + 1 # k /\ i + 1 # k + 1 /\ i # 1
          /\ i - 1 \in 1..n - 1 /\ ~(i - 1 < k) /\ (i - 1) + 1 = i /\ i + 1 # 1 /\ (i + 1) - 1 = i
      BY <1>3, <1>4, <2>3
    <3>2. q[i] = p[i + 1] /\ q[i - 1] = p[i]
      <4>1. q[i - 1] = p[(i - 1) + 1]
        BY <1>9, <3>1
      <4> QED
        BY <1>9, <3>1, <4>1
    <3>3. p[i + 1] \in Semds \ {d, x}
      BY <1>4, <1>8, <1>11, <3>1
    <3>4. m.pprev[q[i]] = PlaceAt(p, b, i + 1)
      BY <1>8, <1>14, <3>1, <3>2, <3>3
    <3>5. PlaceAt(p, b, i + 1) = <<"next", p[i]>>
      <4>1. PlaceAt(p, b, i + 1) = <<"next", p[(i + 1) - 1]>>
        BY <3>1 DEF PlaceAt
      <4> QED
        BY <3>1, <4>1
    <3>6. PlaceAt(q, b, i) = <<"next", q[i - 1]>>
      BY <3>1 DEF PlaceAt
    <3> QED
      BY <3>2, <3>4, <3>5, <3>6
  <2> QED
    BY <1>4, <2>1, <2>2, <2>3
<1>18. ChainIn(m, b, q)
  BY <1>6, <1>7, <1>9, <1>15, <1>16, <1>17 DEF ChainIn
<1>19. Rechains(m, t, C, b, q, {})
  <2>1. \A y \in Semds \ (Range(p) \cup {}) : m.next[y] = t.next[y] /\ m.pprev[y] = t.pprev[y]
    <3>1. \A y \in Semds \ (Range(p) \cup {}) : y \in Semds \ {d, e} /\ y \in Semds \ {d, x}
      <4>1. e \in Range(p) \cup {NULL} /\ x \in Range(p) \cup {NULL} /\ d \in Range(p)
        BY <1>4, <1>8, <1>11
      <4> QED
        BY <4>1, SemdFacts
    <3> QED
      BY <1>14, <3>1
  <2> QED
    BY <1>1, <1>7, <1>14, <1>18, <2>1 DEF Rechains
<1>20. /\ Chained(m, ChainsOf(m))
       /\ Hashed(ChainsOf(m)) = (Hashed(C) \ Range(C[b])) \cup Range(q)
       /\ \A a \in Buckets : ChainsOf(m)[a] = IF a = b THEN q ELSE C[a]
  BY <1>19, OneChainChanges
<1>21. d \in Range(p)
  BY <1>4, <1>8
<1>22. /\ Hashed(ChainsOf(m)) = Hashed(C) \ {d}
       /\ \A a \in Buckets : Range(ChainsOf(m)[a]) = Range(C[a]) \ {d}
  BY <1>1, <1>2, <1>3, <1>7, <1>20, <1>21
<1> QED
  BY <1>20, <1>22 DEF Unhashes

----------------------------------------------------------------------------
(* The invariant.                                                          *)

\* Each hashed descriptor is in the bucket of its key, one for each key.
KeysInBuckets(C, key) ==
    /\ \A b \in Buckets : \A d \in Range(C[b]) : key[d] \in Keys /\ Bucket[key[d]] = b
    /\ \A d, e \in Hashed(C) : key[d] = key[e] => d = e

\* The queues of the descriptors D in use are of those, and all of those, whose
\* semAdd is the key, each once.
QueuesByKey(D, key, procq, add) ==
    /\ \A d \in D : /\ procq[d] # <<>> /\ NoRepeats(procq[d], Len(procq[d]))
                    /\ \A p \in Callers : p \in Range(procq[d]) <=> add[p] = key[d]
    /\ \A p \in Callers : add[p] # NULL => \E d \in D : key[d] = add[p]

FreeOrHashed(free, D) ==
    free \in Seq(Semds) /\ NoRepeats(free, Len(free)) /\ Range(free) = Semds \ D

Consistent(t, C, key, procq, free, add) ==
    /\ Chained(t, C)
    /\ key \in [Semds -> Keys \cup {NULL}]
    /\ procq \in [Semds -> Seq(Callers)]
    /\ add \in [Callers -> Keys \cup {NULL}]
    /\ KeysInBuckets(C, key)
    /\ QueuesByKey(Hashed(C), key, procq, add)
    /\ FreeOrHashed(free, Hashed(C))

AshInv ==
    Consistent(semd_table, ChainsOf(semd_table), s_key, s_procq, semdFree, p_semAdd)

----------------------------------------------------------------------------
(* __scanHash, and the partial function the table is.                      *)

\* hash_for_each_possible looks into a bucket that exists.
LEMMA BucketFacts ==
    /\ \A k \in Keys \cup {NULL} : Bucket[k] \in Buckets
    /\ \A k \in Keys : Bucket[k] = HashMin(k)
<1>1. \A k \in Keys \cup {NULL} : (IF k = NULL THEN 0 ELSE k) \in Nat
  BY SemdFacts
<1>2. \A k \in Keys \cup {NULL} : HashMin(IF k = NULL THEN 0 ELSE k) \in Buckets
  BY <1>1, HashInRange
<1>3. \A k \in Keys \cup {NULL} : Bucket[k] = HashMin(IF k = NULL THEN 0 ELSE k)
  BY DEF Bucket
<1>4. ASSUME NEW k \in Keys PROVE Bucket[k] = HashMin(k)
  <2>1. (IF k = NULL THEN 0 ELSE k) = k
    BY SemdFacts
  <2>2. Bucket[k] = HashMin(IF k = NULL THEN 0 ELSE k)
    BY <1>3
  <2> QED
    BY <2>1, <2>2
<1> QED
  BY <1>2, <1>3, <1>4

Scan(t, key, k) ==
    LET c  == Chain(t, Bucket[k], NULL)
        at == {i \in DOMAIN c : key[c[i]] = k}
    IN  IF at = {} THEN NULL ELSE c[CHOOSE i \in at : \A j \in at : i <= j]

\* d is the descriptor with key k among D, or NULL if there is none.
Finds(d, D, key, k) ==
    \/ d \in D /\ key[d] = k
    \/ d = NULL /\ \A e \in D : key[e] # k

\* __scanHash finds the descriptor of a key when there is one, looking into one
\* bucket only.
LEMMA ScanFinds ==
    ASSUME NEW t, NEW C, Chained(t, C), NEW key, KeysInBuckets(C, key),
           NEW k \in Keys \cup {NULL}
    PROVE  Finds(Scan(t, key, k), Hashed(C), key, k)
<1>1. PICK b, c : b = Bucket[k] /\ c = C[b]
  OBVIOUS
<1>2. b \in Buckets
  BY <1>1, BucketFacts
<1>3. /\ t \in Tables /\ ChainIn(t, b, c) /\ c \in Seq(Semds) /\ Range(c) \subseteq Hashed(C)
  BY <1>1, <1>2, WhereHashed DEF Chained
<1>4. Chain(t, b, NULL) = c
  BY <1>2, <1>3, ChainRead
<1>5. /\ Len(c) \in Nat /\ DOMAIN c = 1..Len(c)
      /\ \A i \in 1..Len(c) : c[i] \in Semds /\ c[i] \in Range(c)
      /\ \A x \in Range(c) : \E i \in 1..Len(c) : x = c[i]
  BY <1>3, SeqFacts
<1> DEFINE at == {i \in DOMAIN c : key[c[i]] = k}
<1>6. Scan(t, key, k) = IF at = {} THEN NULL ELSE c[CHOOSE i \in at : \A j \in at : i <= j]
  BY <1>1, <1>4 DEF Scan
<1>7. CASE at = {}
  <2>1. \A d \in Range(c) : key[d] # k
    BY <1>5, <1>7
  <2>2. ASSUME NEW d \in Hashed(C), key[d] = k PROVE FALSE
    <3>1. PICK a \in Buckets : d \in Range(C[a])
      BY DEF Hashed
    <3>2. a = b
      BY <1>1, <2>2, <3>1 DEF KeysInBuckets
    <3> QED
      BY <1>1, <2>1, <2>2, <3>1, <3>2
  <2>3. Scan(t, key, k) = NULL
    BY <1>6, <1>7
  <2> QED
    BY <2>2, <2>3 DEF Finds
<1>8. CASE at # {}
  <2>1. at \in SUBSET Nat
    BY <1>5
  <2>2. \E i \in at : \A j \in at : i <= j
    <3> HIDE DEF at
    <3> QED
      BY <1>8, <2>1, LeastNat
  <2>3. PICK i \in at : Scan(t, key, k) = c[i]
    <3> HIDE DEF at
    <3> QED
      BY <1>6, <1>8, <2>2
  <2>4. c[i] \in Range(c) /\ key[c[i]] = k
    BY <1>5
  <2> QED
    BY <1>3, <2>3, <2>4 DEF Finds
<1> QED
  BY <1>7, <1>8

\* h maps the keys of the descriptors D to their queues.
Maps(h, D, key, procq) ==
    /\ h = [k \in {key[d] : d \in D} |-> h[k]]
    /\ \A d \in D : h[key[d]] = procq[d]

TableHash(t, key, procq) ==
    [k \in {j \in Keys : Scan(t, key, j) # NULL} |-> procq[Scan(t, key, k)]]

\* The table is a function of the keys in use.
LEMMA TableMaps ==
    ASSUME NEW t, NEW C, NEW key, NEW procq, NEW free, NEW add,
           Consistent(t, C, key, procq, free, add)
    PROVE  Maps(TableHash(t, key, procq), Hashed(C), key, procq)
<1>1. Chained(t, C) /\ KeysInBuckets(C, key) /\ Hashed(C) \subseteq Semds
  <2>1. \E b \in Buckets : TRUE
    BY BucketBits
  <2> QED
    BY <2>1, WhereHashed DEF Consistent
<1>2. PICK D : D = Hashed(C)
  OBVIOUS
<1>3. \A k \in Keys : Finds(Scan(t, key, k), D, key, k)
  BY <1>1, <1>2, ScanFinds
<1>4. /\ \A d \in D : key[d] \in Keys
      /\ \A d, e \in D : key[d] = key[e] => d = e
  BY <1>1, <1>2 DEF KeysInBuckets, Hashed
<1>5. NULL \notin D
  BY <1>1, <1>2, SemdFacts
<1>6. \A d \in D : Scan(t, key, key[d]) = d
  BY <1>3, <1>4, <1>5 DEF Finds
<1>7. {j \in Keys : Scan(t, key, j) # NULL} = {key[d] : d \in D}
  <2>1. \A d \in D : key[d] \in Keys /\ Scan(t, key, key[d]) # NULL
    BY <1>4, <1>5, <1>6
  <2>2. \A j \in Keys : Scan(t, key, j) # NULL => \E d \in D : j = key[d]
    BY <1>3 DEF Finds
  <2> QED
    BY <2>1, <2>2
<1>8. PICK h : h = TableHash(t, key, procq)
  OBVIOUS
<1>9. h = [k \in {key[d] : d \in D} |-> procq[Scan(t, key, k)]]
  BY <1>7, <1>8 DEF TableHash
<1>10. \A d \in D : h[key[d]] = procq[d]
  BY <1>6, <1>9
<1>11. h = [k \in {key[d] : d \in D} |-> h[k]]
  BY <1>9
<1> QED
  BY <1>2, <1>8, <1>10, <1>11 DEF Maps

----------------------------------------------------------------------------
(* What the calls make of the invariant.                                   *)

Sets(f, g, x, v) == f = [g EXCEPT ![x] = v]

\* Facts about the descriptors in use.
LEMMA InUse ==
    ASSUME NEW t, NEW C, NEW key, NEW procq, NEW free, NEW add,
           Consistent(t, C, key, procq, free, add)
    PROVE  /\ Hashed(C) \subseteq Semds
           /\ \A b \in Buckets : Range(C[b]) \subseteq Hashed(C)
           /\ \A d \in Hashed(C) : /\ key[d] \in Keys /\ Bucket[key[d]] \in Buckets
                                   /\ d \in Range(C[Bucket[key[d]]])
           /\ \A d, e \in Hashed(C) : key[d] = key[e] => d = e
<1>1. Chained(t, C) /\ KeysInBuckets(C, key)
  BY DEF Consistent
<1>2. \A b \in Buckets : Range(C[b]) \subseteq Hashed(C) /\ Hashed(C) \subseteq Semds
  BY <1>1, WhereHashed
<1>3. Buckets # {}
  BY BucketBits
<1>4. \A d \in Hashed(C) : \E b \in Buckets : d \in Range(C[b])
  BY DEF Hashed
<1> QED
  BY <1>1, <1>2, <1>3, <1>4, BucketFacts DEF KeysInBuckets

\* The sequence of one process.
LEMMA OneWaiter ==
    ASSUME NEW p \in Callers, NEW q, q = Append(<<>>, p)
    PROVE  /\ q \in Seq(Callers) /\ q # <<>> /\ NoRepeats(q, Len(q)) /\ Range(q) = {p}
<1>1. q = <<p>>
  OBVIOUS
<1>2. q \in Seq(Callers) /\ Len(q) = 1 /\ q[1] = p /\ DOMAIN q = 1..1
  BY <1>1
<1>3. q # <<>>
  BY <1>1
<1>4. NoRepeats(q, Len(q))
  BY <1>2 DEF NoRepeats
<1>5. Range(q) = {p}
  BY <1>2 DEF Range
<1> QED
  BY <1>2, <1>3, <1>4, <1>5

\* d comes into use.
Takes(m, C, key2, procq2, free2, add2, d) ==
    /\ d \in Semds \ Hashed(C)
    /\ Consistent(m, ChainsOf(m), key2, procq2, free2, add2)
    /\ Hashed(ChainsOf(m)) = Hashed(C) \cup {d}

\* insertBlocked takes a descriptor for a key that has none.
LEMMA Allocates ==
    ASSUME NEW t, NEW C, NEW key, NEW procq, NEW free, NEW add,
           Consistent(t, C, key, procq, free, add),
           NEW k \in Keys, \A e \in Hashed(C) : key[e] # k,
           NEW p \in Callers, add[p] = NULL,
           free # <<>>, NEW d, d = Head(free), NEW free2, free2 = Tail(free),
           NEW q, q = Append(<<>>, p),
           NEW m, m = HashAdd(t, d, k, NULL),
           NEW key2, Sets(key2, key, d, k), NEW procq2, Sets(procq2, procq, d, q),
           NEW add2, Sets(add2, add, p, k)
    PROVE  Takes(m, C, key2, procq2, free2, add2, d)
<1>1. PICK D : D = Hashed(C)
  OBVIOUS
<1>2. /\ Chained(t, C)
      /\ key \in [Semds -> Keys \cup {NULL}]
      /\ procq \in [Semds -> Seq(Callers)]
      /\ add \in [Callers -> Keys \cup {NULL}]
      /\ KeysInBuckets(C, key)
      /\ QueuesByKey(D, key, procq, add)
      /\ FreeOrHashed(free, D)
  BY <1>1 DEF Consistent
<1>3. /\ D \subseteq Semds /\ \A e \in D : key[e] \in Keys
      /\ \A b \in Buckets : Range(C[b]) \subseteq D
      /\ \A e, f \in D : key[e] = key[f] => e = f
  BY <1>1, InUse
<1>4. /\ d \in Semds \ D
      /\ FreeOrHashed(free2, D \cup {d})
  <2>1. /\ free \in Seq(Semds) /\ NoRepeats(free, Len(free)) /\ Range(free) = Semds \ D
    BY <1>2 DEF FreeOrHashed
  <2>2. PICK n : n = Len(free)
    OBVIOUS
  <2>3. free2 \in Seq(Semds) /\ Len(free2) = n - 1 /\ \A i \in 1..n - 1 : free2[i] = free[i + 1]
    BY <2>1, <2>2, HeadTailProperties
  <2>4. n \in Nat /\ n # 0 /\ d = free[1] /\ 1 \in 1..n
    <3>1. n \in Nat /\ n # 0
      BY <2>1, <2>2, EmptySeq
    <3>2. d = free[1]
      BY <2>1
    <3> QED
      BY <3>1, <3>2
  <2>5. Removed(free2, free, Len(free), 1) /\ Len(free2) = Len(free) - 1 /\ 1 \in 1..Len(free)
    <3>1. \A i \in 1..n - 1 : free2[i] = IF i < 1 THEN free[i] ELSE free[i + 1]
      BY <2>3, <2>4
    <3> QED
      BY <2>2, <2>3, <2>4, <3>1 DEF Removed
  <2>6. Range(free2) = Range(free) \ {free[1]} /\ NoRepeats(free2, Len(free2))
    BY ONLY <2>1, <2>3, <2>5, RangeRemoved
  <2>7. free[1] \in Range(free)
    BY <2>1, <2>5, SeqFacts
  <2> QED
    BY <2>1, <2>3, <2>4, <2>6, <2>7 DEF FreeOrHashed
<1>5. PICK b : b = HashMin(k)
  OBVIOUS
<1>6. b \in Buckets /\ Bucket[k] = b /\ m = HlistAddHead(t, d, b, NULL)
  BY <1>5, BucketFacts DEF HashAdd
<1>7. /\ Chained(m, ChainsOf(m))
      /\ Hashed(ChainsOf(m)) = Hashed(C) \cup {d}
      /\ \A a \in Buckets : Range(ChainsOf(m)[a]) = Range(C[a]) \cup IF a = b THEN {d} ELSE {}
  <2>1. d \in Semds \ Hashed(C) /\ Chained(t, C) /\ b \in Buckets /\ m = HlistAddHead(t, d, b, NULL)
    BY <1>1, <1>2, <1>4, <1>6
  <2> QED
    BY ONLY <2>1, AddChained
<1>8. PICK E : E = ChainsOf(m)
  OBVIOUS
<1>9. /\ q \in Seq(Callers) /\ q # <<>> /\ NoRepeats(q, Len(q)) /\ Range(q) = {p}
  BY OneWaiter
<1>10. key2 \in [Semds -> Keys \cup {NULL}] /\ key2[d] = k /\ \A e \in Semds : e # d => key2[e] = key[e]
  <2>1. k \in Keys \cup {NULL} /\ d \in Semds
    BY <1>4
  <2> QED
    BY <1>2, <2>1 DEF Sets
<1>11. procq2 \in [Semds -> Seq(Callers)] /\ procq2[d] = q /\ \A e \in Semds : e # d => procq2[e] = procq[e]
  <2>1. d \in Semds
    BY <1>4
  <2> QED
    BY <1>2, <1>9, <2>1 DEF Sets
<1>12. add2 \in [Callers -> Keys \cup {NULL}] /\ add2[p] = k /\ \A r \in Callers : r # p => add2[r] = add[r]
  <2>1. k \in Keys \cup {NULL}
    OBVIOUS
  <2> QED
    BY <1>2, <2>1 DEF Sets
<1>13. KeysInBuckets(E, key2)
  <2>1. ASSUME NEW a \in Buckets, NEW e \in Range(E[a]) PROVE key2[e] \in Keys /\ Bucket[key2[e]] = a
    <3>1. CASE e = d
      <4>1. a = b
        BY <1>3, <1>4, <1>7, <1>8, <2>1, <3>1
      <4> QED
        BY <1>6, <1>10, <3>1, <4>1
    <3>2. CASE e # d
      <4>1. e \in Range(C[a]) /\ e \in Semds
        BY <1>3, <1>7, <1>8, <2>1, <3>2
      <4> QED
        BY <1>2, <1>10, <3>2, <4>1 DEF KeysInBuckets
    <3> QED
      BY <3>1, <3>2
  <2>2. \A e, f \in D \cup {d} : key2[e] = key2[f] => e = f
    BY <1>1, <1>3, <1>4, <1>10
  <2> QED
    BY <1>1, <1>7, <1>8, <2>1, <2>2 DEF KeysInBuckets
<1>14. QueuesByKey(D \cup {d}, key2, procq2, add2)
  <2>1. ASSUME NEW e \in D \cup {d}
        PROVE  /\ procq2[e] # <<>> /\ NoRepeats(procq2[e], Len(procq2[e]))
               /\ \A r \in Callers : r \in Range(procq2[e]) <=> add2[r] = key2[e]
    <3>1. CASE e = d
      <4>1. ASSUME NEW r \in Callers, r # p, add2[r] = k PROVE FALSE
        <5>1. add[r] = k /\ k # NULL
          BY <1>12, <4>1, SemdFacts
        <5>2. \E f \in D : key[f] = k
          BY <1>2, <5>1 DEF QueuesByKey
        <5> QED
          BY <1>1, <5>2
      <4> QED
        BY <1>9, <1>10, <1>11, <1>12, <3>1, <4>1
    <3>2. CASE e # d
      <4>1. e \in D /\ e \in Semds /\ key2[e] = key[e] /\ procq2[e] = procq[e]
        BY <1>3, <1>10, <1>11, <3>2
      <4>2. /\ procq[e] # <<>> /\ NoRepeats(procq[e], Len(procq[e]))
            /\ \A r \in Callers : r \in Range(procq[e]) <=> add[r] = key[e]
        BY <1>2, <4>1 DEF QueuesByKey
      <4>3. key[e] # k /\ key[e] # NULL
        BY <1>1, <1>3, <4>1, SemdFacts
      <4> QED
        BY <1>12, <4>1, <4>2, <4>3
    <3> QED
      BY <3>1, <3>2
  <2>2. ASSUME NEW r \in Callers, add2[r] # NULL PROVE \E e \in D \cup {d} : key2[e] = add2[r]
    <3>1. CASE r = p
      BY <1>10, <1>12, <3>1
    <3>2. CASE r # p
      <4>1. PICK e \in D : key[e] = add[r]
        BY <1>2, <1>12, <2>2, <3>2 DEF QueuesByKey
      <4> QED
        BY <1>3, <1>4, <1>10, <1>12, <3>2, <4>1
    <3> QED
      BY <3>1, <3>2
  <2> QED
    BY <2>1, <2>2 DEF QueuesByKey
<1>15. Hashed(E) = D \cup {d}
  BY <1>1, <1>7, <1>8
<1>16. Consistent(m, E, key2, procq2, free2, add2)
  BY <1>4, <1>7, <1>8, <1>10, <1>11, <1>12, <1>13, <1>14, <1>15 DEF Consistent
<1> QED
  BY <1>1, <1>4, <1>8, <1>15, <1>16 DEF Takes

\* A sequence without repetitions and one that is not in it.
Joins(q, s, p) == q # <<>> /\ NoRepeats(q, Len(q)) /\ Range(q) = Range(s) \cup {p}

\* insertProcQ of a process that is not in the queue.
LEMMA AppendOne ==
    ASSUME NEW S, NEW s \in Seq(S), NoRepeats(s, Len(s)), NEW p \in S, p \notin Range(s),
           NEW q, q = Append(s, p)
    PROVE  q \in Seq(S) /\ Joins(q, s, p)
<1>1. PICK n : n = Len(s)
  OBVIOUS
<1>2. /\ q \in Seq(S) /\ Len(q) = n + 1 /\ q[n + 1] = p /\ \A i \in 1..n : q[i] = s[i]
      /\ n \in Nat
  BY <1>1, AppendProperties, LenProperties
<1>3. /\ \A i \in 1..n : s[i] \in Range(s)
      /\ \A x \in Range(s) : \E i \in 1..n : x = s[i]
      /\ \A i, j \in 1..n : s[i] = s[j] => i = j
  BY <1>1, SeqFacts DEF NoRepeats
<1>4. /\ \A i \in 1..n + 1 : q[i] \in Range(q)
      /\ \A x \in Range(q) : \E i \in 1..n + 1 : x = q[i]
  <2>1. q \in Seq(S) /\ n + 1 = Len(q)
    BY <1>2
  <2> QED
    BY ONLY <2>1, SeqFacts
<1>5. \A i \in 1..n + 1 : i = n + 1 \/ i \in 1..n
  BY <1>2
<1>6. \A i \in 1..n : i \in 1..n + 1
  BY <1>2
<1>7. n + 1 \in 1..n + 1
  BY <1>2
<1>8. Range(q) = Range(s) \cup {p}
  <2>1. Range(q) \subseteq Range(s) \cup {p}
    BY <1>2, <1>3, <1>4, <1>5
  <2>2. Range(s) \subseteq Range(q)
    BY <1>2, <1>3, <1>4, <1>6
  <2>3. p \in Range(q)
    BY <1>2, <1>4, <1>7
  <2> QED
    BY <2>1, <2>2, <2>3
<1>9. \A i, j \in 1..n + 1 : q[i] = q[j] => i = j
  BY <1>2, <1>3, <1>5
<1>10. q # <<>>
  BY <1>2, EmptySeq
<1> QED
  BY <1>2, <1>8, <1>9, <1>10 DEF NoRepeats, Joins

\* insertBlocked appends to the queue of a descriptor.
LEMMA Enqueues ==
    ASSUME NEW t, NEW C, NEW key, NEW procq, NEW free, NEW add,
           Consistent(t, C, key, procq, free, add),
           NEW d \in Hashed(C), NEW k, k = key[d],
           NEW p \in Callers, add[p] = NULL,
           NEW q, q = Append(procq[d], p),
           NEW procq2, Sets(procq2, procq, d, q), NEW add2, Sets(add2, add, p, k)
    PROVE  Consistent(t, C, key, procq2, free, add2)
<1>1. PICK D : D = Hashed(C)
  OBVIOUS
<1>2. /\ procq \in [Semds -> Seq(Callers)]
      /\ add \in [Callers -> Keys \cup {NULL}]
      /\ QueuesByKey(D, key, procq, add)
  BY <1>1 DEF Consistent
<1>3. /\ D \subseteq Semds /\ \A e \in D : key[e] \in Keys
      /\ \A e, f \in D : key[e] = key[f] => e = f
  BY <1>1, InUse
<1>4. d \in D /\ d \in Semds /\ k \in Keys /\ k # NULL
  BY <1>1, <1>3, SemdFacts
<1>5. PICK s : s = procq[d]
  OBVIOUS
<1>6. /\ s \in Seq(Callers) /\ NoRepeats(s, Len(s)) /\ p \notin Range(s)
      /\ \A r \in Callers : r \in Range(s) <=> add[r] = k
  BY <1>2, <1>4, <1>5 DEF QueuesByKey
<1>7. q \in Seq(Callers) /\ q # <<>> /\ NoRepeats(q, Len(q)) /\ Range(q) = Range(s) \cup {p}
  <2>1. q = Append(s, p) /\ p \in Callers
    BY <1>5
  <2>2. q \in Seq(Callers) /\ Joins(q, s, p)
    BY ONLY <1>6, <2>1, AppendOne
  <2> QED
    BY <2>2 DEF Joins
<1>8. procq2 \in [Semds -> Seq(Callers)] /\ procq2[d] = q /\ \A e \in Semds : e # d => procq2[e] = procq[e]
  BY <1>2, <1>4, <1>7 DEF Sets
<1>9. add2 \in [Callers -> Keys \cup {NULL}] /\ add2[p] = k /\ \A r \in Callers : r # p => add2[r] = add[r]
  BY <1>2, <1>4 DEF Sets
<1>10. ASSUME NEW e \in D
       PROVE  /\ procq2[e] # <<>> /\ NoRepeats(procq2[e], Len(procq2[e]))
              /\ \A r \in Callers : r \in Range(procq2[e]) <=> add2[r] = key[e]
  <2>1. CASE e = d
    BY <1>6, <1>7, <1>8, <1>9, <2>1
  <2>2. CASE e # d
    <3>1. e \in Semds /\ procq2[e] = procq[e] /\ key[e] # k /\ key[e] # NULL
      BY <1>3, <1>4, <1>8, <2>2, SemdFacts
    <3>2. /\ procq[e] # <<>> /\ NoRepeats(procq[e], Len(procq[e]))
          /\ \A r \in Callers : r \in Range(procq[e]) <=> add[r] = key[e]
      BY <1>2 DEF QueuesByKey
    <3> QED
      BY <1>9, <3>1, <3>2
  <2> QED
    BY <2>1, <2>2
<1>11. ASSUME NEW r \in Callers, add2[r] # NULL PROVE \E e \in D : key[e] = add2[r]
  <2>1. CASE r = p
    BY <1>4, <1>9, <2>1
  <2>2. CASE r # p
    BY <1>2, <1>9, <1>11, <2>2 DEF QueuesByKey
  <2> QED
    BY <2>1, <2>2
<1>12. QueuesByKey(D, key, procq2, add2)
  BY <1>10, <1>11 DEF QueuesByKey
<1> QED
  BY <1>1, <1>8, <1>9, <1>12 DEF Consistent

\* __ifEmptyDeallocSemd when the queue of d is now q: the table is m and the free
\* list is free2, in place of t and free.
IfEmptied(m, free2, t, free, d, q) ==
    /\ free2 = (IF q = <<>> THEN Append(free, d) ELSE free)
    /\ m = (IF q = <<>> THEN HashDel(t, d, NULL) ELSE t)

InUseAfter(m, C, d, q) ==
    Hashed(ChainsOf(m)) = IF q = <<>> THEN Hashed(C) \ {d} ELSE Hashed(C)

\* p leaves the queue of d.
LEMMA Releases ==
    ASSUME NEW t, NEW C, NEW key, NEW procq, NEW free, NEW add,
           Consistent(t, C, key, procq, free, add),
           NEW d \in Hashed(C),
           NEW p \in Callers, add[p] = key[d],
           NEW q \in Seq(Callers), NoRepeats(q, Len(q)), Range(q) = Range(procq[d]) \ {p},
           NEW procq2, Sets(procq2, procq, d, q), NEW add2, Sets(add2, add, p, NULL),
           NEW free2, NEW m, IfEmptied(m, free2, t, free, d, q)
    PROVE  Consistent(m, ChainsOf(m), key, procq2, free2, add2) /\ InUseAfter(m, C, d, q)
<1>1. PICK D, k : D = Hashed(C) /\ k = key[d]
  OBVIOUS
<1>2. /\ Chained(t, C)
      /\ key \in [Semds -> Keys \cup {NULL}]
      /\ procq \in [Semds -> Seq(Callers)]
      /\ add \in [Callers -> Keys \cup {NULL}]
      /\ KeysInBuckets(C, key)
      /\ QueuesByKey(D, key, procq, add)
      /\ FreeOrHashed(free, D)
  BY <1>1 DEF Consistent
<1>3. /\ D \subseteq Semds /\ \A e \in D : key[e] \in Keys
      /\ \A b \in Buckets : Range(C[b]) \subseteq D
      /\ \A e, f \in D : key[e] = key[f] => e = f
      /\ \A e \in D : Bucket[key[e]] \in Buckets /\ e \in Range(C[Bucket[key[e]]])
  BY <1>1, InUse
<1>4. d \in D /\ d \in Semds /\ k \in Keys /\ k # NULL
  <2>1. d \in D
    BY <1>1
  <2>2. d \in Semds /\ key[d] \in Keys
    BY ONLY <1>3, <2>1
  <2> QED
    BY ONLY <1>1, <2>1, <2>2, SemdFacts
<1>5. procq2 \in [Semds -> Seq(Callers)] /\ procq2[d] = q /\ \A e \in Semds : e # d => procq2[e] = procq[e]
  BY <1>2, <1>4 DEF Sets
<1>6. add2 \in [Callers -> Keys \cup {NULL}] /\ add2[p] = NULL /\ \A r \in Callers : r # p => add2[r] = add[r]
  BY <1>2, <1>4 DEF Sets
<1>7. \A r \in Callers : r \in Range(q) <=> add2[r] = k
  <2>1. \A r \in Callers : r \in Range(procq[d]) <=> add[r] = k
    BY <1>1, <1>2, <1>4 DEF QueuesByKey
  <2> QED
    BY <1>4, <1>6, <2>1
<1>8. ASSUME NEW e \in D \ {d}
      PROVE  /\ procq2[e] # <<>> /\ NoRepeats(procq2[e], Len(procq2[e]))
             /\ \A r \in Callers : r \in Range(procq2[e]) <=> add2[r] = key[e]
  <2>1. e \in Semds /\ procq2[e] = procq[e] /\ key[e] # k /\ key[e] # NULL
    BY <1>1, <1>3, <1>4, <1>5, SemdFacts
  <2>2. /\ procq[e] # <<>> /\ NoRepeats(procq[e], Len(procq[e]))
        /\ \A r \in Callers : r \in Range(procq[e]) <=> add[r] = key[e]
    BY <1>2 DEF QueuesByKey
  <2>3. add[p] # key[e]
    BY <1>1, <2>1
  <2> QED
    BY <1>6, <2>1, <2>2, <2>3
<1>9. ASSUME NEW r \in Callers, add2[r] # NULL PROVE \E e \in D : key[e] = add2[r]
  BY <1>2, <1>6, <1>9 DEF QueuesByKey
<1>10. CASE q # <<>>
  <2>1. \A e \in D : /\ procq2[e] # <<>> /\ NoRepeats(procq2[e], Len(procq2[e]))
                     /\ \A r \in Callers : r \in Range(procq2[e]) <=> add2[r] = key[e]
    BY <1>1, <1>5, <1>7, <1>8, <1>10
  <2>2. QueuesByKey(D, key, procq2, add2)
    BY <1>9, <2>1 DEF QueuesByKey
  <2>3. m = t /\ free2 = free
    BY <1>10 DEF IfEmptied
  <2>4. C = ChainsOf(t)
    BY <1>2, ChainsRead
  <2> QED
    BY <1>1, <1>2, <1>5, <1>6, <1>10, <2>2, <2>3, <2>4 DEF Consistent, InUseAfter
<1>11. CASE q = <<>>
  <2>1. PICK b : b = Bucket[k]
    OBVIOUS
  <2>2. b \in Buckets /\ d \in Range(C[b])
    BY <1>1, <1>3, <1>4, <2>1
  <2>3. m = HlistDelInit(t, d, NULL)
    BY <1>11 DEF HashDel, IfEmptied
  <2>4. /\ Chained(m, ChainsOf(m))
        /\ Hashed(ChainsOf(m)) = Hashed(C) \ {d}
        /\ \A a \in Buckets : Range(ChainsOf(m)[a]) = Range(C[a]) \ {d}
    <3>1. Chained(t, C)
      BY <1>2
    <3>2. Unhashes(m, C, d)
      BY ONLY <2>2, <2>3, <3>1, DelChained
    <3> QED
      BY ONLY <3>2 DEF Unhashes
  <2>5. PICK E : E = ChainsOf(m)
    OBVIOUS
  <2>6. KeysInBuckets(E, key)
    <3>1. \A a \in Buckets : Range(E[a]) \subseteq Range(C[a])
      BY <2>4, <2>5
    <3>2. Hashed(E) \subseteq Hashed(C)
      BY <2>4, <2>5
    <3>3. KeysInBuckets(C, key)
      BY <1>2
    <3> QED
      BY ONLY <3>1, <3>2, <3>3 DEF KeysInBuckets
  <2>7. \A r \in Callers : add2[r] # k
    BY <1>7, <1>11 DEF Range
  <2>8. \A r \in Callers : add2[r] # NULL => \E e \in D \ {d} : key[e] = add2[r]
    BY <1>1, <1>9, <2>7
  <2>9. QueuesByKey(D \ {d}, key, procq2, add2)
    BY <1>8, <2>8 DEF QueuesByKey
  <2>10. FreeOrHashed(free2, D \ {d})
    <3>1. free2 = Append(free, d)
      BY <1>11 DEF IfEmptied
    <3>2. free \in Seq(Semds) /\ NoRepeats(free, Len(free)) /\ Range(free) = Semds \ D
      BY <1>2 DEF FreeOrHashed
    <3>3. d \notin Range(free)
      BY <1>4, <3>2
    <3>4. free2 \in Seq(Semds) /\ Joins(free2, free, d)
      BY ONLY <1>4, <3>1, <3>2, <3>3, AppendOne
    <3> QED
      BY <1>3, <1>4, <3>2, <3>4 DEF FreeOrHashed, Joins
  <2>11. Hashed(E) = D \ {d}
    BY <1>1, <2>4, <2>5
  <2>12. Consistent(m, E, key, procq2, free2, add2)
    BY <1>2, <1>5, <1>6, <2>4, <2>5, <2>6, <2>9, <2>10, <2>11 DEF Consistent
  <2> QED
    BY <1>1, <1>11, <2>5, <2>11, <2>12 DEF InUseAfter
<1> QED
  BY <1>10, <1>11

----------------------------------------------------------------------------
(* The calls, and what Ash makes of the partial function.                  *)

\* The table determines the function.
LEMMA MapsOnce ==
    ASSUME NEW g, NEW h, NEW D, NEW key, NEW procq,
           Maps(g, D, key, procq), Maps(h, D, key, procq)
    PROVE  g = h
<1>1. PICK K : K = {key[d] : d \in D}
  OBVIOUS
<1>2. g = [k \in K |-> g[k]] /\ h = [k \in K |-> h[k]]
  BY <1>1 DEF Maps
<1>3. \A k \in K : g[k] = h[k]
  BY <1>1 DEF Maps
<1> QED
  BY <1>2, <1>3

\* The descriptors D with their keys and queues are those of E, with d for k
\* and the queue q.
Gains(E, keyE, procqE, D, keyD, procqD, d, k, q) ==
    /\ E = D \cup {d} /\ keyE[d] = k /\ procqE[d] = q
    /\ \A e \in D : keyD[e] # k /\ keyE[e] = keyD[e] /\ procqE[e] = procqD[e]

\* insertBlocked with a new descriptor is InsertBlocked.
LEMMA InsertsNew ==
    ASSUME NEW h, NEW D, NEW keyD, NEW procqD, Maps(h, D, keyD, procqD),
           NEW E, NEW keyE, NEW procqE, NEW d, NEW k, NEW p, NEW q, q = Append(<<>>, p),
           Gains(E, keyE, procqE, D, keyD, procqD, d, k, q)
    PROVE  Maps(InsertBlocked(h, k, p), E, keyE, procqE)
<1>1. PICK K, g : K = {keyE[e] : e \in E} /\ g = InsertBlocked(h, k, p)
  OBVIOUS
<1>2. DOMAIN h = {keyD[e] : e \in D} /\ \A e \in D : h[keyD[e]] = procqD[e]
  BY DEF Maps
<1>3. K = DOMAIN h \cup {k}
  BY <1>1, <1>2 DEF Gains
<1>4. k \notin DOMAIN h
  BY <1>2 DEF Gains
<1>5. Procq(h, k) = <<>>
  BY <1>4 DEF Procq
<1>6. g = [j \in K |-> IF j = k THEN q ELSE h[j]]
  BY <1>1, <1>3, <1>5 DEF InsertBlocked, InsertProcQ
<1>7. g[k] = q /\ \A e \in D : g[keyE[e]] = procqE[e]
  BY <1>1, <1>2, <1>3, <1>6 DEF Gains
<1>8. \A e \in E : g[keyE[e]] = procqE[e]
  BY <1>7 DEF Gains
<1>9. g = [j \in K |-> g[j]]
  BY <1>6
<1> QED
  BY <1>1, <1>8, <1>9 DEF Maps

\* The queue of d is now q, and d is in use unless that is empty.
Settles(E, procqE, D, procqD, d, q) ==
    /\ E = IF q = <<>> THEN D \ {d} ELSE D
    /\ procqE[d] = q /\ \A e \in D \ {d} : procqE[e] = procqD[e]

OwnKeys(D, key) == \A d, e \in D : key[d] = key[e] => d = e

\* insertBlocked with the descriptor that is there is InsertBlocked too.
LEMMA InsertsMore ==
    ASSUME NEW h, NEW D, NEW key, NEW procqD, Maps(h, D, key, procqD), OwnKeys(D, key),
           NEW d \in D, NEW k, k = key[d], NEW p, NEW q, q = Append(procqD[d], p), q # <<>>,
           NEW procqE, Settles(D, procqE, D, procqD, d, q)
    PROVE  Maps(InsertBlocked(h, k, p), D, key, procqE)
<1>1. PICK K, g : K = {key[e] : e \in D} /\ g = InsertBlocked(h, k, p)
  OBVIOUS
<1>2. DOMAIN h = K /\ \A e \in D : h[key[e]] = procqD[e]
  BY <1>1 DEF Maps
<1>3. k \in K /\ K \cup {k} = K
  BY <1>1
<1>4. Procq(h, k) = procqD[d]
  BY <1>2, <1>3 DEF Procq
<1>5. g = [j \in K |-> IF j = k THEN q ELSE h[j]]
  BY <1>1, <1>2, <1>3, <1>4 DEF InsertBlocked, InsertProcQ
<1>6. ASSUME NEW e \in D PROVE g[key[e]] = procqE[e]
  <2>1. CASE e = d
    BY <1>3, <1>5, <2>1 DEF Settles
  <2>2. CASE e # d
    <3>1. key[e] # k /\ key[e] \in K
      BY <1>1, <2>2 DEF OwnKeys
    <3>2. g[key[e]] = h[key[e]]
      BY <1>5, <3>1
    <3> QED
      BY <1>2, <2>2, <3>2 DEF Settles
  <2> QED
    BY <2>1, <2>2
<1>7. g = [j \in K |-> g[j]]
  BY <1>5
<1> QED
  BY <1>1, <1>6, <1>7 DEF Maps

\* What is left of the function when the descriptor of k has the queue q.
LeftOf(g, h, k, q) ==
    /\ g = [j \in (IF q = <<>> THEN DOMAIN h \ {k} ELSE DOMAIN h) |-> g[j]]
    /\ \A j \in DOMAIN h \ {k} : g[j] = h[j]
    /\ q # <<>> => g[k] = q

\* A release is the loss of a key, or a shorter queue.
LEMMA LeavesMap ==
    ASSUME NEW h, NEW D, NEW key, NEW procqD, Maps(h, D, key, procqD), OwnKeys(D, key),
           NEW d \in D, NEW k, k = key[d], NEW q, NEW g, LeftOf(g, h, k, q),
           NEW E, NEW procqE, Settles(E, procqE, D, procqD, d, q)
    PROVE  Maps(g, E, key, procqE)
<1>1. PICK K : K = {key[e] : e \in E}
  OBVIOUS
<1>2. DOMAIN h = {key[e] : e \in D} /\ \A e \in D : h[key[e]] = procqD[e]
  BY DEF Maps
<1>3. K = IF q = <<>> THEN DOMAIN h \ {k} ELSE DOMAIN h
  BY <1>1, <1>2 DEF Settles, OwnKeys
<1>4. g = [j \in K |-> g[j]]
  BY <1>3 DEF LeftOf
<1>5. ASSUME NEW e \in E PROVE g[key[e]] = procqE[e]
  <2>1. CASE e = d
    BY <1>5, <2>1 DEF Settles, LeftOf
  <2>2. CASE e # d
    <3>1. e \in D \ {d}
      BY <2>2 DEF Settles
    <3>2. key[e] \in DOMAIN h \ {k}
      BY <1>2, <3>1 DEF OwnKeys
    <3>3. g[key[e]] = h[key[e]]
      BY <3>2 DEF LeftOf
    <3> QED
      BY <1>2, <3>1, <3>3 DEF Settles
  <2> QED
    BY <2>1, <2>2
<1> QED
  BY <1>1, <1>4, <1>5 DEF Maps

\* removeBlocked in Ash.
LEMMA RemoveLeaves ==
    ASSUME NEW h, h = [j \in DOMAIN h |-> h[j]], NEW k \in DOMAIN h, NEW q, q = Tail(h[k])
    PROVE  LeftOf(RemoveBlocked(h, k), h, k, q)
<1>1. PICK f, g : f = [h EXCEPT ![k] = q] /\ g = RemoveBlocked(h, k)
  OBVIOUS
<1>2. f = [j \in DOMAIN h |-> IF j = k THEN q ELSE h[j]]
  BY <1>1
<1>3. DOMAIN f = DOMAIN h /\ f[k] = q /\ \A j \in DOMAIN h \ {k} : f[j] = h[j]
  BY <1>2
<1>4. Procq(f, k) = q
  BY <1>3 DEF Procq
<1>5. g = IF q = <<>> THEN [j \in DOMAIN h \ {k} |-> f[j]] ELSE f
  BY <1>1, <1>3, <1>4 DEF RemoveBlocked, IfEmptyDealloc, Restrict
<1>6. CASE q = <<>>
  <2>1. g = [j \in DOMAIN h \ {k} |-> f[j]]
    BY <1>5, <1>6
  <2> QED
    BY <1>1, <1>3, <1>6, <2>1 DEF LeftOf
<1>7. CASE q # <<>>
  <2>1. g = f
    BY <1>5, <1>7
  <2> QED
    BY <1>1, <1>2, <1>3, <1>7, <2>1 DEF LeftOf
<1> QED
  BY <1>6, <1>7

\* outBlocked in Ash, also of a process that waits nowhere.
LEMMA OutLeaves ==
    ASSUME NEW S, NEW h, h = [j \in DOMAIN h |-> h[j]],
           \A j \in DOMAIN h : h[j] \in Seq(S) /\ h[j] # <<>>,
           NEW add, NEW p, NEW k, k = add[p], NEW q, k \in DOMAIN h => q = Without(h[k], {p})
    PROVE  /\ k \in DOMAIN h => LeftOf(OutBlocked(h, add, {p}), h, k, q)
           /\ k \notin DOMAIN h => OutBlocked(h, add, {p}) = h
<1>1. PICK g : g = OutBlocked(h, add, {p})
  OBVIOUS
<1> DEFINE left(j) == Without(h[j], {x \in {p} : add[x] = j})
           K == {j \in DOMAIN h : left(j) # <<>>}
<1>2. g = [j \in K |-> left(j)]
  BY <1>1 DEF OutBlocked
<1>3. ASSUME NEW j \in DOMAIN h, j # k PROVE left(j) = h[j] /\ h[j] # <<>>
  <2>1. {x \in {p} : add[x] = j} = {}
    BY <1>3
  <2>2. h[j] \in Seq(S) /\ Range(h[j]) \cap {} = {}
    OBVIOUS
  <2>3. Without(h[j], {}) = h[j]
    BY ONLY <2>2, WithoutNobody
  <2> QED
    BY <2>1, <2>3
<1>4. ASSUME k \in DOMAIN h PROVE left(k) = q
  <2>1. {x \in {p} : add[x] = k} = {p}
    OBVIOUS
  <2> QED
    BY <1>4, <2>1
<1> HIDE DEF left
<1>5. ASSUME k \in DOMAIN h PROVE LeftOf(g, h, k, q)
  <2>1. K = IF q = <<>> THEN DOMAIN h \ {k} ELSE DOMAIN h
    BY <1>3, <1>4, <1>5
  <2>2. g = [j \in K |-> g[j]]
    BY <1>2
  <2>3. \A j \in K : g[j] = left(j)
    BY <1>2
  <2>4. \A j \in DOMAIN h \ {k} : g[j] = h[j]
    BY <1>3, <2>1, <2>3
  <2>5. q # <<>> => g[k] = q
    BY <1>4, <1>5, <2>1, <2>3
  <2> HIDE DEF K
  <2> QED
    BY <2>1, <2>2, <2>4, <2>5 DEF LeftOf
<1>6. ASSUME k \notin DOMAIN h PROVE g = h
  <2>1. K = DOMAIN h
    BY <1>3, <1>6
  <2>2. \A j \in DOMAIN h : left(j) = h[j]
    BY <1>3, <1>6
  <2> HIDE DEF K
  <2> QED
    BY <1>2, <2>1, <2>2
<1> QED
  BY <1>1, <1>5, <1>6

\* What the function says of a key, and __scanHash finds.
LEMMA Known ==
    ASSUME NEW t, NEW C, NEW key, NEW procq, NEW free, NEW add,
           Consistent(t, C, key, procq, free, add),
           NEW h, h = TableHash(t, key, procq), NEW k \in Keys, NEW d, d = Scan(t, key, k)
    PROVE  /\ d = NULL => k \notin DOMAIN h /\ \A e \in Hashed(C) : key[e] # k
           /\ d # NULL => /\ d \in Hashed(C) /\ key[d] = k
                          /\ k \in DOMAIN h /\ h[k] = procq[d] /\ h[k] # <<>>
<1>1. Maps(h, Hashed(C), key, procq)
  BY TableMaps
<1>2. Finds(d, Hashed(C), key, k)
  <2>1. Chained(t, C) /\ KeysInBuckets(C, key) /\ k \in Keys \cup {NULL}
    BY DEF Consistent
  <2> QED
    BY <2>1, ScanFinds
<1>3. DOMAIN h = {key[e] : e \in Hashed(C)} /\ \A e \in Hashed(C) : h[key[e]] = procq[e]
  BY <1>1 DEF Maps
<1>4. NULL \notin Hashed(C)
  BY InUse, SemdFacts
<1>5. \A e \in Hashed(C) : procq[e] # <<>>
  BY DEF Consistent, QueuesByKey
<1> QED
  BY <1>2, <1>3, <1>4, <1>5 DEF Finds

\* All descriptors are in use exactly when none is free.
LEMMA AllInUse ==
    ASSUME NEW t, NEW C, NEW key, NEW procq, NEW free, NEW add,
           Consistent(t, C, key, procq, free, add),
           NEW h, h = TableHash(t, key, procq)
    PROVE  Cardinality(DOMAIN h) = MAXPROC <=> free = <<>>
<1>1. PICK D, K : D = Hashed(C) /\ K = {key[e] : e \in Hashed(C)}
  OBVIOUS
<1>2. DOMAIN h = K
  <2>1. Maps(h, Hashed(C), key, procq)
    BY TableMaps
  <2> QED
    BY <1>1, <2>1 DEF Maps
<1>3. D \in SUBSET Semds /\ OwnKeys(D, key)
  BY <1>1, InUse DEF OwnKeys
<1>4. IsFiniteSet(D) /\ (Cardinality(Semds) = Cardinality(D) => Semds = D)
  BY <1>3, SemdFacts, FS_Subset
<1>5. Cardinality(K) = Cardinality(D)
  <2>1. PICK f : f = [e \in D |-> key[e]]
    OBVIOUS
  <2>2. f \in Bijection(D, K)
    BY <1>1, <1>3, <2>1 DEF Bijection, Injection, Surjection, IsInjective, OwnKeys
  <2>3. ExistsBijection(D, K)
    BY <2>2 DEF ExistsBijection
  <2> QED
    BY <1>4, <2>3, FS_Bijection
<1>6. Cardinality(K) = MAXPROC <=> D = Semds
  BY <1>4, <1>5, SemdFacts
<1>7. D = Semds <=> free = <<>>
  <2>1. free \in Seq(Semds) /\ Range(free) = Semds \ D
    BY <1>1 DEF Consistent, FreeOrHashed
  <2>2. free = <<>> <=> Range(free) = {}
    BY <2>1, SeqFacts, EmptySeq
  <2> QED
    BY <1>3, <2>1, <2>2
<1> QED
  BY <1>2, <1>6, <1>7

\* The state of the program.
LEMMA Here ==
    /\ \A k : ScanHash(k) = Scan(semd_table, s_key, k)
    /\ [k \in Used |-> s_procq[ScanHash(k)]] = TableHash(semd_table, s_key, s_procq)
    /\ \A m, E, q : m = semd_table' /\ E = s_key' /\ q = s_procq' =>
          [k \in Used |-> s_procq[ScanHash(k)]]' = TableHash(m, E, q)
    /\ \A m, E, q, f, a :
          m = semd_table' /\ E = s_key' /\ q = s_procq' /\ f = semdFree' /\ a = p_semAdd' =>
             (AshInv' <=> Consistent(m, ChainsOf(m), E, q, f, a))
<1>1. \A k : ScanHash(k) = Scan(semd_table, s_key, k)
  BY DEF ScanHash, Scan
<1>2. [k \in Used |-> s_procq[ScanHash(k)]] = TableHash(semd_table, s_key, s_procq)
  BY <1>1 DEF Used, TableHash
<1>3. ASSUME NEW m, NEW E, NEW q, m = semd_table', E = s_key', q = s_procq'
      PROVE  [k \in Used |-> s_procq[ScanHash(k)]]' = TableHash(m, E, q)
  <2>1. \A k : ScanHash(k)' = Scan(m, E, k)
    BY <1>3 DEF ScanHash, Scan
  <2> QED
    BY <1>3, <2>1 DEF Used, TableHash
<1>4. ASSUME NEW m, NEW E, NEW q, NEW f, NEW a,
             m = semd_table', E = s_key', q = s_procq', f = semdFree', a = p_semAdd'
      PROVE  AshInv' <=> Consistent(m, ChainsOf(m), E, q, f, a)
  <2>1. ChainsOf(semd_table)' = ChainsOf(m)
    BY <1>4 DEF ChainsOf
  <2> QED
    BY <1>4, <2>1 DEF AshInv
<1> QED
  BY <1>1, <1>2, <1>3, <1>4

\* The operators of Ash are the same in AshSpec.
LEMMA AsInAsh ==
    /\ \A h, k : Abstract!Exhausted(h, k) <=> Exhausted(h, k)
    /\ \A h, k, p : Abstract!InsertBlocked(h, k, p) = InsertBlocked(h, k, p)
    /\ \A h, k : Abstract!HeadBlocked(h, k) = HeadBlocked(h, k)
    /\ \A h, k : Abstract!RemoveBlocked(h, k) = RemoveBlocked(h, k)
    /\ \A h, a, D : Abstract!OutBlocked(h, a, D) = OutBlocked(h, a, D)
<1>1. \A q, D : Abstract!Without(q, D) = Without(q, D)
  BY DEF Abstract!Without, Without, Abstract!Kept, Kept, Abstract!Nth, Nth,
         Abstract!Cardinality, Cardinality
<1>2. \A h, k : Abstract!Procq(h, k) = Procq(h, k)
  BY DEF Abstract!Procq, Procq
<1>3. \A h, k : Abstract!Exhausted(h, k) <=> Exhausted(h, k)
  BY DEF Abstract!Exhausted, Exhausted, Abstract!Cardinality, Cardinality
<1>4. \A h, k, p : Abstract!InsertBlocked(h, k, p) = InsertBlocked(h, k, p)
  BY <1>2 DEF Abstract!InsertBlocked, InsertBlocked, Abstract!InsertProcQ, InsertProcQ
<1>5. \A h, k : Abstract!HeadBlocked(h, k) = HeadBlocked(h, k)
  BY <1>2 DEF Abstract!HeadBlocked, HeadBlocked, Abstract!HeadProcQ, HeadProcQ
<1>6. \A h, D : Abstract!Restrict(h, D) = Restrict(h, D)
  BY DEF Abstract!Restrict, Restrict
<1>7. \A h, k : Abstract!IfEmptyDealloc(h, k) = IfEmptyDealloc(h, k)
  BY <1>2, <1>6 DEF Abstract!IfEmptyDealloc, IfEmptyDealloc
<1>8. \A h, k : Abstract!RemoveBlocked(h, k) = RemoveBlocked(h, k)
  BY <1>7 DEF Abstract!RemoveBlocked, RemoveBlocked
<1>9. \A h, a, D : Abstract!OutBlocked(h, a, D) = OutBlocked(h, a, D)
  BY <1>1 DEF Abstract!OutBlocked, OutBlocked
<1> QED
  BY <1>3, <1>4, <1>5, <1>8, <1>9

\* The function the table is.
Hash == [k \in Used |-> s_procq[ScanHash(k)]]

\* A call that changes nothing.
LEMMA NothingDone ==
    ASSUME AshInv, UNCHANGED <<descriptors, p_semAdd>>
    PROVE  AshInv' /\ Hash' = Hash
<1>1. PICK m, E, q, f, a :
          m = semd_table' /\ E = s_key' /\ q = s_procq' /\ f = semdFree' /\ a = p_semAdd'
  OBVIOUS
<1>2. m = semd_table /\ E = s_key /\ q = s_procq /\ f = semdFree /\ a = p_semAdd
  BY <1>1 DEF descriptors
<1>3. Consistent(m, ChainsOf(m), E, q, f, a)
  BY <1>2 DEF AshInv
<1>4. Hash' = TableHash(m, E, q)
  BY <1>1, Here DEF Hash
<1> QED
  BY <1>1, <1>2, <1>3, <1>4, Here DEF Hash

\* p leaves the queue of d, and g is what is left of the function.
LEMMA ReleaseSteps ==
    ASSUME AshInv, NEW d \in Hashed(ChainsOf(semd_table)),
           NEW p \in Callers, p_semAdd[p] = s_key[d],
           NEW q \in Seq(Callers), NoRepeats(q, Len(q)), Range(q) = Range(s_procq[d]) \ {p},
           Release(d, q), p_semAdd' = [p_semAdd EXCEPT ![p] = NULL],
           NEW g, LeftOf(g, Hash, s_key[d], q)
    PROVE  AshInv' /\ Hash' = g
<1>1. PICK t, C, key, procq, free, add :
          /\ t = semd_table /\ C = ChainsOf(semd_table) /\ key = s_key /\ procq = s_procq
          /\ free = semdFree /\ add = p_semAdd
  OBVIOUS
<1>2. PICK m, procq2, free2, add2 :
          m = semd_table' /\ procq2 = s_procq' /\ free2 = semdFree' /\ add2 = p_semAdd'
  OBVIOUS
<1>3. Consistent(t, C, key, procq, free, add)
  BY <1>1 DEF AshInv
<1>4. /\ d \in Hashed(C) /\ add[p] = key[d] /\ Range(q) = Range(procq[d]) \ {p}
      /\ q \in Seq(Callers) /\ NoRepeats(q, Len(q)) /\ p \in Callers
  BY <1>1
<1>5. /\ Sets(procq2, procq, d, q) /\ Sets(add2, add, p, NULL)
      /\ IfEmptied(m, free2, t, free, d, q)
      /\ s_key' = key
  BY <1>1, <1>2 DEF Release, Sets, IfEmptied
<1>6. PICK D, E : D = Hashed(C) /\ E = Hashed(ChainsOf(m))
  OBVIOUS
<1>7. Consistent(m, ChainsOf(m), key, procq2, free2, add2) /\ InUseAfter(m, C, d, q)
  BY ONLY <1>3, <1>4, <1>5, Releases
<1>8. AshInv' /\ Hash' = TableHash(m, key, procq2)
  BY <1>2, <1>5, <1>7, Here DEF Hash
<1>9. Maps(TableHash(m, key, procq2), E, key, procq2)
  <2>1. Consistent(m, ChainsOf(m), key, procq2, free2, add2)
    BY <1>7
  <2>2. Maps(TableHash(m, key, procq2), Hashed(ChainsOf(m)), key, procq2)
    BY ONLY <2>1, TableMaps
  <2> QED
    BY <1>6, <2>2
<1>10. PICK h : h = TableHash(t, key, procq)
  OBVIOUS
<1>11. Maps(h, D, key, procq) /\ OwnKeys(D, key) /\ d \in D
  BY <1>3, <1>4, <1>6, <1>10, TableMaps, InUse DEF OwnKeys
<1>12. LeftOf(g, h, key[d], q)
  <2>1. h = Hash
    BY <1>1, <1>10, Here DEF Hash
  <2> QED
    BY <1>1, <2>1
<1>13. Settles(E, procq2, D, procq, d, q)
  <2>1. E = IF q = <<>> THEN D \ {d} ELSE D
    BY <1>6, <1>7 DEF InUseAfter
  <2>2. procq \in [Semds -> Seq(Callers)] /\ D \subseteq Semds
    BY <1>3, <1>6, InUse DEF Consistent
  <2>3. procq2[d] = q /\ \A e \in D \ {d} : procq2[e] = procq[e]
    BY <1>5, <1>11, <2>2 DEF Sets
  <2> QED
    BY <2>1, <2>3 DEF Settles
<1>14. Maps(g, E, key, procq2)
  BY ONLY <1>11, <1>12, <1>13, LeavesMap
<1>15. g = TableHash(m, key, procq2)
  BY ONLY <1>9, <1>14, MapsOnce
<1> QED
  BY <1>8, <1>15

\* Of the descriptor with key k.
LEMMA AtKey ==
    ASSUME AshInv, NEW k \in Keys, NEW d, d = ScanHash(k)
    PROVE  /\ d = NULL => k \notin DOMAIN Hash /\ \A e \in Hashed(ChainsOf(semd_table)) : s_key[e] # k
           /\ d # NULL => /\ d \in Hashed(ChainsOf(semd_table)) /\ s_key[d] = k
                          /\ k \in DOMAIN Hash /\ Hash[k] = s_procq[d] /\ Hash[k] # <<>>
                          /\ s_procq[d] \in Seq(Callers)
                          /\ NoRepeats(s_procq[d], Len(s_procq[d]))
                          /\ \A p \in Callers : p \in Range(s_procq[d]) <=> p_semAdd[p] = k
<1>1. PICK t, C, key, procq, free, add, h :
          /\ t = semd_table /\ C = ChainsOf(semd_table) /\ key = s_key /\ procq = s_procq
          /\ free = semdFree /\ add = p_semAdd /\ h = TableHash(t, key, procq)
  OBVIOUS
<1>2. Consistent(t, C, key, procq, free, add)
  BY <1>1 DEF AshInv
<1>3. h = Hash /\ d = Scan(t, key, k)
  BY <1>1, Here DEF Hash
<1>4. h = TableHash(t, key, procq)
  BY <1>1
<1>5. /\ d = NULL => k \notin DOMAIN h /\ \A e \in Hashed(C) : key[e] # k
      /\ d # NULL => /\ d \in Hashed(C) /\ key[d] = k
                     /\ k \in DOMAIN h /\ h[k] = procq[d] /\ h[k] # <<>>
  BY <1>2, <1>3, <1>4, Known
<1>6. procq \in [Semds -> Seq(Callers)] /\ QueuesByKey(Hashed(C), key, procq, add)
      /\ Hashed(C) \subseteq Semds
  BY <1>2, InUse DEF Consistent
<1>7. d # NULL => /\ procq[d] \in Seq(Callers) /\ NoRepeats(procq[d], Len(procq[d]))
                  /\ \A p \in Callers : p \in Range(procq[d]) <=> add[p] = k
  BY <1>5, <1>6 DEF QueuesByKey
<1> QED
  BY <1>1, <1>3, <1>5, <1>7

\* The calls of AshSpec on this function.
LEMMA AbstractCalls ==
    /\ \A k, p : Abstract!Insert(k, p) <=>
          /\ Does("insertBlocked", <<k, p>>, Exhausted(Hash, k))
          /\ IF ret' THEN Hash' = Hash /\ p_semAdd' = p_semAdd
             ELSE Hash' = InsertBlocked(Hash, k, p) /\ p_semAdd' = [p_semAdd EXCEPT ![p] = k]
    /\ \A k : Abstract!Remove(k) <=>
          /\ Does("removeBlocked", <<k>>, HeadBlocked(Hash, k))
          /\ IF ret' = NULL THEN Hash' = Hash /\ p_semAdd' = p_semAdd
             ELSE Hash' = RemoveBlocked(Hash, k) /\ p_semAdd' = [p_semAdd EXCEPT ![ret'] = NULL]
    /\ \A p : Abstract!Out(p) <=>
          /\ Does("outBlocked", <<p>>, IF p_semAdd[p] = NULL THEN NULL ELSE p)
          /\ Hash' = OutBlocked(Hash, p_semAdd, {p})
          /\ p_semAdd' = [p_semAdd EXCEPT ![p] = NULL]
    /\ \A k : Abstract!First(k) <=>
          /\ Does("headBlocked", <<k>>, HeadBlocked(Hash, k))
          /\ Hash' = Hash /\ p_semAdd' = p_semAdd
<1>1. \A k : (Abstract!Exhausted(Hash, k)) = Exhausted(Hash, k)
  BY AsInAsh DEF Abstract!Exhausted, Exhausted
<1>2. \A k, p : Abstract!Insert(k, p) <=>
          /\ Does("insertBlocked", <<k, p>>, Abstract!Exhausted(Hash, k))
          /\ IF ret' THEN Hash' = Hash /\ p_semAdd' = p_semAdd
             ELSE Hash' = Abstract!InsertBlocked(Hash, k, p) /\ p_semAdd' = [p_semAdd EXCEPT ![p] = k]
  BY DEF Hash, Abstract!Insert, Abstract!Called, Does
<1>3. \A k : Abstract!Remove(k) <=>
          /\ Does("removeBlocked", <<k>>, Abstract!HeadBlocked(Hash, k))
          /\ IF ret' = NULL THEN Hash' = Hash /\ p_semAdd' = p_semAdd
             ELSE Hash' = Abstract!RemoveBlocked(Hash, k) /\ p_semAdd' = [p_semAdd EXCEPT ![ret'] = NULL]
  BY DEF Hash, Abstract!Remove, Abstract!Called, Does
<1>4. \A p : Abstract!Out(p) <=>
          /\ Does("outBlocked", <<p>>, IF p_semAdd[p] = NULL THEN NULL ELSE p)
          /\ Hash' = Abstract!OutBlocked(Hash, p_semAdd, {p})
          /\ p_semAdd' = [p_semAdd EXCEPT ![p] = NULL]
  BY DEF Hash, Abstract!Out, Abstract!Called, Does
<1>5. \A k : Abstract!First(k) <=>
          /\ Does("headBlocked", <<k>>, Abstract!HeadBlocked(Hash, k))
          /\ Hash' = Hash /\ p_semAdd' = p_semAdd
  BY DEF Hash, Abstract!First, Abstract!Called, Does
<1> QED
  BY <1>1, <1>2, <1>3, <1>4, <1>5, AsInAsh

\* insertBlocked is Insert.
LEMMA InsertSteps ==
    ASSUME AshInv, NEW k \in Keys, NEW p \in Callers, p_semAdd[p] = NULL, InsertBlockedCall(k, p)
    PROVE  AshInv' /\ Abstract!Insert(k, p)
<1>1. PICK t, C, key, procq, free, add, h :
          /\ t = semd_table /\ C = ChainsOf(semd_table) /\ key = s_key /\ procq = s_procq
          /\ free = semdFree /\ add = p_semAdd /\ h = Hash
  OBVIOUS
<1>2. PICK m, key2, procq2, free2, add2 :
          m = semd_table' /\ key2 = s_key' /\ procq2 = s_procq' /\ free2 = semdFree' /\ add2 = p_semAdd'
  OBVIOUS
<1>3. PICK d : d = ScanHash(k)
  OBVIOUS
<1>4. Consistent(t, C, key, procq, free, add) /\ h = TableHash(t, key, procq)
  BY <1>1, Here DEF AshInv, Hash
<1>5. /\ d = NULL => k \notin DOMAIN h /\ \A e \in Hashed(C) : key[e] # k
      /\ d # NULL => /\ d \in Hashed(C) /\ key[d] = k /\ k \in DOMAIN h
                     /\ procq[d] \in Seq(Callers)
  BY <1>1, <1>3, AtKey
<1>6. PICK D : D = Hashed(C)
  OBVIOUS
<1>7. Maps(h, D, key, procq) /\ OwnKeys(D, key) /\ D \subseteq Semds
  BY <1>4, <1>6, TableMaps, InUse DEF OwnKeys
<1>8. Exhausted(Hash, k) = (d = NULL /\ semdFree = <<>>)
  <2>1. Cardinality(DOMAIN h) = MAXPROC <=> free = <<>>
    BY <1>4, AllInUse
  <2> QED
    BY <1>1, <1>5, <2>1 DEF Exhausted
<1>9. Does("insertBlocked", <<k, p>>, Exhausted(Hash, k)) /\ ret' = (d = NULL /\ semdFree = <<>>)
  BY <1>3, <1>8 DEF InsertBlockedCall, Does
<1>10. /\ AshInv' <=> Consistent(m, ChainsOf(m), key2, procq2, free2, add2)
       /\ Hash' = TableHash(m, key2, procq2)
  BY <1>2, Here DEF Hash
<1>11. CASE ret'
  <2>1. UNCHANGED <<descriptors, p_semAdd>>
    BY <1>11 DEF InsertBlockedCall
  <2>2. AshInv' /\ Hash' = Hash
    BY <2>1, NothingDone
  <2> QED
    BY <1>9, <1>11, <2>1, <2>2, AbstractCalls
<1>12. CASE ~ret' /\ d = NULL
  <2>1. AllocSemd(k, p) /\ add2 = [add EXCEPT ![p] = k]
    BY <1>1, <1>2, <1>3, <1>12 DEF InsertBlockedCall
  <2>2. free # <<>>
    BY <1>1, <1>9, <1>12
  <2>3. PICK e, q : e = Head(free) /\ q = Append(<<>>, p)
    OBVIOUS
  <2>4. /\ m = HashAdd(t, e, k, NULL) /\ free2 = Tail(free)
        /\ Sets(key2, key, e, k) /\ Sets(procq2, procq, e, q) /\ Sets(add2, add, p, k)
    BY <1>1, <1>2, <2>1, <2>3 DEF AllocSemd, InsertProcQ, Sets
  <2>5. k \in Keys /\ (\A x \in Hashed(C) : key[x] # k) /\ p \in Callers /\ add[p] = NULL
    BY <1>1, <1>5, <1>12
  <2>6. PICK E : E = Hashed(ChainsOf(m))
    OBVIOUS
  <2>7. /\ e \in Semds \ Hashed(C)
        /\ Consistent(m, ChainsOf(m), key2, procq2, free2, add2)
        /\ Hashed(ChainsOf(m)) = Hashed(C) \cup {e}
    <3>1. Takes(m, C, key2, procq2, free2, add2, e)
      BY ONLY <1>4, <2>2, <2>3, <2>4, <2>5, Allocates
    <3> QED
      BY <3>1 DEF Takes
  <2>8. Maps(TableHash(m, key2, procq2), E, key2, procq2)
    BY ONLY <2>6, <2>7, TableMaps
  <2>9. Gains(E, key2, procq2, D, key, procq, e, k, q)
    <3>1. procq \in [Semds -> Seq(Callers)] /\ key \in [Semds -> Keys \cup {NULL}] /\ e \in Semds
      BY <1>4, <2>7 DEF Consistent
    <3>2. /\ key2[e] = k /\ procq2[e] = q
          /\ \A x \in Semds : x # e => key2[x] = key[x] /\ procq2[x] = procq[x]
      BY <2>4, <3>1 DEF Sets
    <3>3. \A x \in D : x # e /\ x \in Semds /\ key[x] # k
      BY <1>6, <1>7, <2>5, <2>7
    <3> QED
      BY <1>6, <2>6, <2>7, <3>2, <3>3 DEF Gains
  <2>10. Maps(InsertBlocked(h, k, p), E, key2, procq2)
    BY <1>7, <2>3, <2>9, InsertsNew
  <2>11. TableHash(m, key2, procq2) = InsertBlocked(h, k, p)
    BY ONLY <2>8, <2>10, MapsOnce
  <2>12. AshInv' /\ Hash' = InsertBlocked(Hash, k, p)
    BY <1>1, <1>10, <2>7, <2>11
  <2> QED
    BY <1>1, <1>2, <1>9, <1>12, <2>1, <2>12, AbstractCalls
<1>13. CASE ~ret' /\ d # NULL
  <2>1. PICK q : q = Append(procq[d], p)
    OBVIOUS
  <2>2. /\ procq2 = [procq EXCEPT ![d] = q] /\ add2 = [add EXCEPT ![p] = k]
        /\ m = t /\ key2 = key /\ free2 = free
    BY <1>1, <1>2, <1>3, <1>13, <2>1 DEF InsertBlockedCall, InsertProcQ
  <2>3. /\ d \in Hashed(C) /\ k = key[d] /\ p \in Callers /\ add[p] = NULL
        /\ Sets(procq2, procq, d, q) /\ Sets(add2, add, p, k)
    BY <1>1, <1>5, <1>13, <2>2 DEF Sets
  <2>4. Consistent(t, C, key, procq2, free, add2)
    BY ONLY <1>4, <2>1, <2>3, Enqueues
  <2>5. Maps(TableHash(t, key, procq2), D, key, procq2)
    BY ONLY <1>6, <2>4, TableMaps
  <2>6. q # <<>>
    <3>1. p \in Callers /\ procq[d] \in Seq(Callers)
      BY <1>5, <1>13
    <3> QED
      BY ONLY <2>1, <3>1, AppendProperties
  <2>7. Settles(D, procq2, D, procq, d, q)
    <3>1. procq \in [Semds -> Seq(Callers)] /\ d \in Semds
      BY <1>4, <1>6, <1>7, <2>3 DEF Consistent
    <3>2. procq2[d] = q /\ \A e \in Semds : e # d => procq2[e] = procq[e]
      BY <2>3, <3>1 DEF Sets
    <3> QED
      BY <1>7, <2>6, <3>2 DEF Settles
  <2>8. Maps(InsertBlocked(h, k, p), D, key, procq2)
    <3>1. d \in D
      BY <1>6, <2>3
    <3> QED
      BY ONLY <1>7, <2>1, <2>3, <2>6, <2>7, <3>1, InsertsMore
  <2>9. TableHash(t, key, procq2) = InsertBlocked(h, k, p)
    BY ONLY <2>5, <2>8, MapsOnce
  <2>10. AshInv' /\ Hash' = InsertBlocked(Hash, k, p)
    BY <1>1, <1>10, <2>2, <2>4, <2>9
  <2> QED
    BY <1>1, <1>2, <1>9, <1>13, <2>2, <2>10, AbstractCalls
<1> QED
  BY <1>9, <1>11, <1>12, <1>13

\* p is the first in the queue of d, the descriptor of k, and q the rest.
HeadOf(d, k, p, q) ==
    /\ HeadBlocked(Hash, k) = p /\ p \in Callers /\ p # NULL /\ p_semAdd[p] = k
    /\ q \in Seq(Callers) /\ NoRepeats(q, Len(q)) /\ Range(q) = Range(s_procq[d]) \ {p}
    /\ LeftOf(RemoveBlocked(Hash, k), Hash, k, q)

\* removeBlocked and headBlocked see the head of the queue.
LEMMA FirstOut ==
    ASSUME AshInv, NEW k \in Keys, NEW d, d = ScanHash(k), d # NULL,
           NEW p, p = HeadProcQ(s_procq[d]), NEW q, q = Tail(s_procq[d])
    PROVE  HeadOf(d, k, p, q)
<1>1. PICK s : s = s_procq[d]
  OBVIOUS
<1>2. /\ k \in DOMAIN Hash /\ Hash[k] = s /\ s # <<>>
      /\ s \in Seq(Callers) /\ NoRepeats(s, Len(s))
      /\ \A r \in Callers : r \in Range(s) <=> p_semAdd[r] = k
  BY <1>1, AtKey
<1>3. p = Head(s) /\ Procq(Hash, k) = s
  BY <1>1, <1>2 DEF HeadProcQ, Procq
<1>4. HeadBlocked(Hash, k) = p
  BY <1>1, <1>3 DEF HeadBlocked
<1>5. IsInjective(s)
  <2>1. DOMAIN s = 1..Len(s)
    BY <1>2, SeqFacts
  <2> QED
    BY <1>2, <2>1 DEF IsInjective, NoRepeats
<1>6. /\ p \in Range(s) /\ p \in Callers
      /\ q \in Seq(Callers) /\ IsInjective(q) /\ Range(q) = Range(s) \ {p}
  <2>1. /\ Head(s) \in Range(s) /\ Head(s) \in Callers
        /\ Tail(s) \in Seq(Callers) /\ IsInjective(Tail(s)) /\ Range(Tail(s)) = Range(s) \ {Head(s)}
    BY ONLY <1>2, <1>5, TailRange
  <2> QED
    BY <1>1, <1>3, <2>1
<1>7. NoRepeats(q, Len(q))
  <2>1. DOMAIN q = 1..Len(q)
    BY <1>6, SeqFacts
  <2> QED
    BY <1>6, <2>1 DEF IsInjective, NoRepeats
<1>8. LeftOf(RemoveBlocked(Hash, k), Hash, k, q)
  <2>1. Hash = [j \in DOMAIN Hash |-> Hash[j]]
    BY DEF Hash
  <2>2. q = Tail(Hash[k])
    BY <1>1, <1>2
  <2> QED
    BY ONLY <1>2, <2>1, <2>2, RemoveLeaves
<1> QED
  BY <1>1, <1>2, <1>4, <1>6, <1>7, <1>8, SemdFacts DEF HeadOf

\* A key without a descriptor has no first process.
LEMMA NotThere ==
    ASSUME AshInv, NEW k \in Keys, ScanHash(k) = NULL
    PROVE  HeadBlocked(Hash, k) = NULL
<1>1. k \notin DOMAIN Hash
  BY AtKey
<1> QED
  BY <1>1 DEF HeadBlocked, Procq, HeadProcQ

\* removeBlocked is Remove.
LEMMA RemoveSteps ==
    ASSUME AshInv, NEW k \in Keys, RemoveBlockedCall(k)
    PROVE  AshInv' /\ Abstract!Remove(k)
<1>1. PICK d : d = ScanHash(k)
  OBVIOUS
<1>2. CASE d = NULL
  <2>1. Does("removeBlocked", <<k>>, NULL) /\ UNCHANGED <<descriptors, p_semAdd>>
    BY <1>1, <1>2 DEF RemoveBlockedCall
  <2>2. AshInv' /\ Hash' = Hash
    BY <2>1, NothingDone
  <2>3. HeadBlocked(Hash, k) = NULL /\ ret' = NULL
    BY <1>1, <1>2, <2>1, NotThere DEF Does
  <2> QED
    BY <2>1, <2>2, <2>3, AbstractCalls
<1>3. CASE d # NULL
  <2>1. PICK p, q : p = HeadProcQ(s_procq[d]) /\ q = Tail(s_procq[d])
    OBVIOUS
  <2>2. /\ Does("removeBlocked", <<k>>, p) /\ Release(d, q)
        /\ p_semAdd' = [p_semAdd EXCEPT ![p] = NULL]
    BY <1>1, <1>3, <2>1 DEF RemoveBlockedCall
  <2>3. /\ HeadBlocked(Hash, k) = p /\ p \in Callers /\ p # NULL /\ p_semAdd[p] = k
        /\ q \in Seq(Callers) /\ NoRepeats(q, Len(q)) /\ Range(q) = Range(s_procq[d]) \ {p}
        /\ LeftOf(RemoveBlocked(Hash, k), Hash, k, q)
    <3>1. HeadOf(d, k, p, q)
      BY <1>1, <1>3, <2>1, FirstOut
    <3> QED
      BY <3>1 DEF HeadOf
  <2>4. d \in Hashed(ChainsOf(semd_table)) /\ s_key[d] = k
    BY <1>1, <1>3, AtKey
  <2>5. AshInv' /\ Hash' = RemoveBlocked(Hash, k)
    BY <2>2, <2>3, <2>4, ReleaseSteps
  <2>6. ret' = p
    BY <2>2 DEF Does
  <2> QED
    BY <2>2, <2>3, <2>5, <2>6, AbstractCalls
<1> QED
  BY <1>2, <1>3

\* headBlocked is First: it releases nothing.
LEMMA HeadSteps ==
    ASSUME AshInv, NEW k \in Keys, HeadBlockedCall(k)
    PROVE  AshInv' /\ Abstract!First(k)
<1>1. PICK d : d = ScanHash(k)
  OBVIOUS
<1>2. Does("headBlocked", <<k>>, HeadBlocked(Hash, k))
  <2>1. CASE d = NULL
    BY <1>1, <2>1, NotThere DEF HeadBlockedCall
  <2>2. CASE d # NULL
    <3>1. PICK p, q : p = HeadProcQ(s_procq[d]) /\ q = Tail(s_procq[d])
      OBVIOUS
    <3>2. HeadOf(d, k, p, q)
      BY <1>1, <2>2, <3>1, FirstOut
    <3> QED
      BY <1>1, <2>2, <3>1, <3>2 DEF HeadBlockedCall, HeadOf
  <2> QED
    BY <2>1, <2>2
<1>3. UNCHANGED <<descriptors, p_semAdd>>
  <2>1. CASE d = NULL
    BY <1>1, <2>1 DEF HeadBlockedCall
  <2>2. CASE d # NULL
    <3>1. Release(d, s_procq[d]) /\ UNCHANGED p_semAdd
      BY <1>1, <2>2 DEF HeadBlockedCall
    <3>2. s_procq[d] # <<>> /\ s_procq \in [Semds -> Seq(Callers)]
      BY <1>1, <2>2, AtKey DEF AshInv, Consistent
    <3>3. s_procq' = s_procq
      BY <3>1, <3>2 DEF Release
    <3> QED
      BY <3>1, <3>2, <3>3 DEF Release, descriptors
  <2> QED
    BY <2>1, <2>2
<1>4. AshInv' /\ Hash' = Hash
  BY <1>3, NothingDone
<1> QED
  BY <1>2, <1>3, <1>4, AbstractCalls

\* outBlocked is Out.
LEMMA OutSteps ==
    ASSUME AshInv, NEW p \in Callers, OutBlockedCall(p)
    PROVE  AshInv' /\ Abstract!Out(p)
<1>1. PICK k, d : k = p_semAdd[p] /\ d = ScanHash(k)
  OBVIOUS
<1>2. PICK C : C = ChainsOf(semd_table)
  OBVIOUS
<1>3. Consistent(semd_table, C, s_key, s_procq, semdFree, p_semAdd)
  BY <1>2 DEF AshInv
<1>4. /\ Chained(semd_table, C) /\ KeysInBuckets(C, s_key)
      /\ QueuesByKey(Hashed(C), s_key, s_procq, p_semAdd)
      /\ k \in Keys \cup {NULL} /\ p_semAdd \in [Callers -> Keys \cup {NULL}]
      /\ s_procq \in [Semds -> Seq(Callers)] /\ Hashed(C) \subseteq Semds
      /\ \A e \in Hashed(C) : s_key[e] \in Keys
  BY <1>1, <1>3, InUse DEF Consistent
<1>5. Finds(d, Hashed(C), s_key, k)
  BY <1>1, <1>4, ScanFinds, Here
<1>6. /\ Hash = [j \in DOMAIN Hash |-> Hash[j]]
      /\ DOMAIN Hash = {s_key[e] : e \in Hashed(C)}
      /\ \A e \in Hashed(C) : Hash[s_key[e]] = s_procq[e]
  <2>1. Maps(Hash, Hashed(C), s_key, s_procq)
    BY <1>3, TableMaps, Here DEF Hash
  <2>2. DOMAIN Hash = {s_key[e] : e \in Hashed(C)} /\ \A e \in Hashed(C) : Hash[s_key[e]] = s_procq[e]
    BY <2>1 DEF Maps
  <2> QED
    BY <2>2 DEF Hash
<1>7. \A j \in DOMAIN Hash : Hash[j] \in Seq(Callers) /\ Hash[j] # <<>>
  BY <1>4, <1>6 DEF QueuesByKey
<1>8. CASE k = NULL
  <2>1. d = NULL
    BY <1>4, <1>5, <1>8, SemdFacts DEF Finds
  <2>2. Does("outBlocked", <<p>>, NULL) /\ UNCHANGED <<descriptors, p_semAdd>>
    BY <1>1, <2>1 DEF OutBlockedCall
  <2>3. AshInv' /\ Hash' = Hash
    BY <2>2, NothingDone
  <2>4. p_semAdd' = [p_semAdd EXCEPT ![p] = NULL]
    BY <1>1, <1>4, <1>8, <2>2
  <2>5. OutBlocked(Hash, p_semAdd, {p}) = Hash
    <3>1. k \notin DOMAIN Hash
      BY <1>4, <1>6, <1>8, SemdFacts
    <3>2. PICK q : q = <<>>
      OBVIOUS
    <3> QED
      BY <1>1, <1>6, <1>7, <3>1, OutLeaves
  <2> QED
    BY <1>1, <1>8, <2>2, <2>3, <2>4, <2>5, AbstractCalls
<1>9. CASE k # NULL
  <2>1. k \in Keys /\ d \in Hashed(C) /\ s_key[d] = k /\ d # NULL
    BY <1>1, <1>4, <1>5, <1>9, SemdFacts DEF Finds, QueuesByKey
  <2>2. PICK s, q : s = s_procq[d] /\ q = OutProcQ(s_procq[d], p)
    OBVIOUS
  <2>3. /\ s \in Seq(Callers) /\ NoRepeats(s, Len(s)) /\ p \in Range(s)
        /\ k \in DOMAIN Hash /\ Hash[k] = s
    BY <1>1, <1>4, <1>6, <2>1, <2>2 DEF QueuesByKey
  <2>4. q = Without(s, {p})
    BY <2>2 DEF OutProcQ
  <2>5. q \in Seq(Callers) /\ NoRepeats(q, Len(q)) /\ Range(q) = Range(s) \ {p}
    <3>1. IsInjective(s)
      <4>1. DOMAIN s = 1..Len(s)
        BY <2>3, SeqFacts
      <4> QED
        BY <2>3, <4>1 DEF IsInjective, NoRepeats
    <3>2. q \in Seq(Callers) /\ IsInjective(q) /\ Range(q) = Range(s) \ {p}
      BY <2>3, <2>4, <3>1, WithoutProperty
    <3>3. DOMAIN q = 1..Len(q)
      BY <3>2, SeqFacts
    <3> QED
      BY <3>2, <3>3 DEF IsInjective, NoRepeats
  <2>6. /\ Does("outBlocked", <<p>>, p) /\ Release(d, q)
        /\ p_semAdd' = [p_semAdd EXCEPT ![p] = NULL]
    BY <1>1, <2>1, <2>2, <2>3 DEF OutBlockedCall
  <2>7. LeftOf(OutBlocked(Hash, p_semAdd, {p}), Hash, k, q)
    <3>1. k \in DOMAIN Hash => q = Without(Hash[k], {p})
      BY <2>3, <2>4
    <3> QED
      BY <1>1, <1>6, <1>7, <2>3, <3>1, OutLeaves
  <2>8. AshInv' /\ Hash' = OutBlocked(Hash, p_semAdd, {p})
    BY <1>1, <1>2, <2>1, <2>2, <2>5, <2>6, <2>7, ReleaseSteps
  <2> QED
    BY <1>1, <1>9, <2>6, <2>8, AbstractCalls
<1> QED
  BY <1>8, <1>9

----------------------------------------------------------------------------
(* The specification.                                                      *)

\* initASH.
LEMMA EmptyTable ==
    ASSUME Init
    PROVE  AshInv /\ Hash = [k \in {} |-> <<>>]
<1>1. PICK t, C : t = semd_table /\ C = [b \in Buckets |-> <<>>]
  OBVIOUS
<1>2. /\ t = [first |-> [b \in Buckets |-> NULL], next |-> [d \in Semds |-> NULL],
              pprev |-> [d \in Semds |-> NULL]]
      /\ s_key = [d \in Semds |-> NULL] /\ s_procq = [d \in Semds |-> <<>>]
      /\ semdFree = [i \in Semds |-> i] /\ p_semAdd = [p \in Callers |-> NULL]
  BY <1>1 DEF Init
<1>3. /\ t \in Tables
      /\ \A b \in Buckets : t.first[b] = NULL
      /\ \A d \in Semds : t.pprev[d] = NULL
  BY <1>2 DEF Tables
<1>4. \A b \in Buckets : C[b] = <<>> /\ Range(C[b]) = {} /\ Len(C[b]) = 0 /\ C[b] \in Seq(Semds)
  BY <1>1 DEF Range
<1>5. Hashed(C) = {}
  BY <1>4 DEF Hashed
<1>6. ASSUME NEW b \in Buckets PROVE ChainIn(t, b, C[b])
  <2>1. 1 \notin 1..Len(C[b]) /\ 1..Len(C[b]) = {}
    BY <1>4
  <2> QED
    BY <1>3, <1>4, <2>1 DEF ChainIn, NodeAt, NoRepeats
<1>7. Chained(t, C)
  <2>1. C \in [Buckets -> Seq(Semds)]
    BY <1>1, <1>4
  <2> QED
    BY <1>3, <1>4, <1>6, <2>1 DEF Chained
<1>8. /\ s_key \in [Semds -> Keys \cup {NULL}] /\ p_semAdd \in [Callers -> Keys \cup {NULL}]
      /\ s_procq \in [Semds -> Seq(Callers)]
  BY <1>2
<1>9. KeysInBuckets(C, s_key)
  BY <1>4, <1>5 DEF KeysInBuckets
<1>10. QueuesByKey(Hashed(C), s_key, s_procq, p_semAdd)
  BY <1>2, <1>5 DEF QueuesByKey
<1>11. FreeOrHashed(semdFree, Hashed(C))
  <2>1. MAXPROC \in Nat /\ semdFree = [i \in 1..MAXPROC |-> i]
    BY <1>2, SemdFacts DEF Semds
  <2>2. semdFree \in Seq(1..MAXPROC) /\ Len(semdFree) = MAXPROC /\ DOMAIN semdFree = 1..MAXPROC
    BY <2>1, IsASeq
  <2>3. Range(semdFree) = 1..MAXPROC
    BY <2>1 DEF Range
  <2>4. NoRepeats(semdFree, Len(semdFree))
    BY <2>1, <2>2 DEF NoRepeats
  <2> QED
    BY <1>5, <2>2, <2>3, <2>4 DEF FreeOrHashed, Semds
<1>12. Consistent(t, C, s_key, s_procq, semdFree, p_semAdd)
  BY <1>7, <1>8, <1>9, <1>10, <1>11 DEF Consistent
<1>13. C = ChainsOf(t)
  BY <1>7, ChainsRead
<1>14. AshInv
  BY <1>1, <1>12, <1>13 DEF AshInv
<1>15. Hash = [k \in {} |-> <<>>]
  <2>1. Maps(Hash, Hashed(C), s_key, s_procq)
    BY <1>1, <1>12, TableMaps, Here DEF Hash
  <2>2. {s_key[d] : d \in Hashed(C)} = {}
    BY <1>5
  <2> QED
    BY <2>1, <2>2 DEF Maps
<1> QED
  BY <1>14, <1>15

\* A step keeps the invariant and is a step of AshSpec.
LEMMA StepKeeps ==
    ASSUME AshInv, [Next]_vars
    PROVE  AshInv' /\ [Abstract!Next]_Abstract!vars
<1>1. ASSUME NEW k \in Keys, RemoveBlockedCall(k)
      PROVE  AshInv' /\ Abstract!Next
  BY <1>1, RemoveSteps DEF Abstract!Next
<1>2. ASSUME NEW k \in Keys, HeadBlockedCall(k)
      PROVE  AshInv' /\ Abstract!Next
  BY <1>2, HeadSteps DEF Abstract!Next
<1>3. ASSUME NEW k \in Keys, NEW p \in Callers, p_semAdd[p] = NULL, InsertBlockedCall(k, p)
      PROVE  AshInv' /\ Abstract!Next
  BY <1>3, InsertSteps DEF Abstract!Next
<1>4. ASSUME NEW p \in Callers, OutBlockedCall(p)
      PROVE  AshInv' /\ Abstract!Next
  BY <1>4, OutSteps DEF Abstract!Next
<1>5. CASE UNCHANGED vars
  <2>1. UNCHANGED <<descriptors, p_semAdd>> /\ call' = call /\ ret' = ret
    BY <1>5 DEF vars, descriptors
  <2>2. AshInv' /\ Hash' = Hash
    BY <2>1, NothingDone
  <2> QED
    BY <2>1, <2>2 DEF Abstract!vars, Hash
<1> QED
  BY <1>1, <1>2, <1>3, <1>4, <1>5 DEF Next

\* What the invariant says of a descriptor in a chain.
LEMMA InOnePlace ==
    ASSUME NEW t, NEW C, NEW key, NEW procq, NEW free, NEW add,
           Consistent(t, C, key, procq, free, add), NEW d \in Hashed(C)
    PROVE  \E i \in Semds :
              /\ UNION {{<<b, j>> : j \in {x \in DOMAIN C[b] : C[b][x] = d}} : b \in Buckets}
                    = {<<Bucket[key[d]], i>>}
              /\ Store(t, t.pprev[d], d) = t
<1>1. PICK a, c : a = Bucket[key[d]] /\ c = C[Bucket[key[d]]]
  OBVIOUS
<1>2. /\ a \in Buckets /\ d \in Range(c) /\ d \in Semds
  BY <1>1, InUse
<1>3. /\ t \in Tables /\ ChainIn(t, a, c)
      /\ \A b \in Buckets : b # a => Range(C[b]) \cap Range(c) = {}
  BY <1>1, <1>2 DEF Consistent, Chained
<1>4. /\ c \in Seq(Semds) /\ NoRepeats(c, Len(c)) /\ Len(c) \in Nat /\ DOMAIN c = 1..Len(c)
      /\ \A j \in 1..Len(c) : c[j] \in Semds
  BY <1>3, SeqFacts DEF ChainIn
<1>5. PICK i \in 1..Len(c) : c[i] = d
  BY <1>2, <1>4, SeqFacts
<1>6. i \in Semds
  BY <1>4, NoLonger, SemdFacts DEF Semds
<1>7. {x \in DOMAIN c : c[x] = d} = {i}
  BY <1>4, <1>5 DEF NoRepeats
<1>8. \A b \in Buckets : b # a => {x \in DOMAIN C[b] : C[b][x] = d} = {}
  BY <1>2, <1>3 DEF Range
<1>9. UNION {{<<b, j>> : j \in {x \in DOMAIN C[b] : C[b][x] = d}} : b \in Buckets} = {<<a, i>>}
  <2> DEFINE P(b) == {<<b, j>> : j \in {x \in DOMAIN C[b] : C[b][x] = d}}
  <2>1. P(a) = {<<a, i>>}
    BY <1>1, <1>7
  <2>2. \A b \in Buckets : b # a => P(b) = {}
    BY <1>8
  <2> HIDE DEF P
  <2>3. UNION {P(b) : b \in Buckets} = {<<a, i>>}
    BY <1>2, <2>1, <2>2
  <2> QED
    BY <2>3 DEF P
<1>10. t.pprev[d] = PlaceAt(c, a, i)
  BY <1>3, <1>5 DEF ChainIn
<1>11. Store(t, t.pprev[d], d) = t
  <2>1. CASE i = 1
    <3>1. t.first[a] = d
      BY <1>3, <1>5, <2>1 DEF ChainIn, NodeAt
    <3>2. [t EXCEPT !.first[a] = d] = t
      BY <1>2, <1>3, <3>1 DEF Tables
    <3>3. t.pprev[d] = <<"first", a>>
      BY <1>10, <2>1 DEF PlaceAt
    <3> QED
      BY <3>2, <3>3 DEF Store
  <2>2. CASE i # 1
    <3>1. i - 1 \in 1..Len(c) /\ (i - 1) + 1 = i
      BY <1>4, <2>2
    <3>2. t.next[c[i - 1]] = d /\ c[i - 1] \in Semds
      BY <1>3, <1>4, <1>5, <3>1 DEF ChainIn, NodeAt
    <3>3. [t EXCEPT !.next[c[i - 1]] = d] = t
      BY <1>3, <3>2 DEF Tables
    <3>4. t.pprev[d] = <<"next", c[i - 1]>>
      BY <1>10, <2>2 DEF PlaceAt
    <3> QED
      BY <3>3, <3>4 DEF Store
  <2> QED
    BY <2>1, <2>2
<1> QED
  BY <1>1, <1>6, <1>9, <1>11

\* The invariant implies what is checked of it.
LEMMA InvSays ==
    ASSUME AshInv
    PROVE  OneChainOrFree
<1>1. PICK t, C, key, procq, free, add :
          /\ t = semd_table /\ C = ChainsOf(semd_table) /\ key = s_key /\ procq = s_procq
          /\ free = semdFree /\ add = p_semAdd
  OBVIOUS
<1>2. Consistent(t, C, key, procq, free, add)
  BY <1>1 DEF AshInv
<1>3. \A k \in Keys : Bucket[k] \in Buckets
  BY BucketFacts
<1>4. free \in Seq(Semds) /\ NoRepeats(free, Len(free)) /\ Range(free) = Semds \ Hashed(C)
  BY <1>2 DEF Consistent, FreeOrHashed
<1>5. IsInjective(free)
  <2>1. DOMAIN free = 1..Len(free)
    BY <1>4, SeqFacts
  <2> QED
    BY <1>4, <2>1 DEF IsInjective, NoRepeats
<1> DEFINE places(d) ==
              UNION {{<<b, i>> : i \in {j \in DOMAIN C[b] : C[b][j] = d}} : b \in Buckets}
<1>6. ASSUME NEW d \in Range(free)
      PROVE  places(d) = {} /\ HlistUnhashed(t, d, NULL)
  <2>1. d \in Semds /\ d \notin Hashed(C)
    BY <1>4
  <2>2. \A b \in Buckets : {j \in DOMAIN C[b] : C[b][j] = d} = {}
    BY <2>1 DEF Hashed, Range
  <2>3. t.pprev[d] = NULL
    BY <1>2, <2>1 DEF Consistent, Chained
  <2> QED
    BY <2>2, <2>3 DEF HlistUnhashed
<1>7. ASSUME NEW d \in Semds, d \notin Range(free)
      PROVE  /\ \E i \in Semds : places(d) = {<<Bucket[key[d]], i>>}
             /\ procq[d] # <<>>
             /\ Store(t, t.pprev[d], d) = t
  <2>1. d \in Hashed(C)
    BY <1>4, <1>7
  <2>2. procq[d] # <<>>
    BY <1>2, <2>1 DEF Consistent, QueuesByKey
  <2> QED
    BY <1>2, <2>1, <2>2, InOnePlace
<1>8. \A d \in Semds :
         IF d \in Range(free)
         THEN places(d) = {} /\ HlistUnhashed(t, d, NULL)
         ELSE /\ \E i \in Semds : places(d) = {<<Bucket[key[d]], i>>}
              /\ procq[d] # <<>>
              /\ Store(t, t.pprev[d], d) = t
  BY <1>6, <1>7
<1>9. C = [b \in Buckets |-> Chain(t, b, NULL)]
  BY <1>1 DEF ChainsOf
<1> QED
  BY <1>1, <1>3, <1>5, <1>8, <1>9 DEF OneChainOrFree

\* Each descriptor is free or, once, in the chain of its own key's bucket, and
\* there pprev is the place that points to it (__allocSemd and
\* __ifEmptyDeallocSemd over hlist_add_head and hlist_del_init).
THEOREM DescriptorsAccounted == Spec => []OneChainOrFree
<1>1. Init => AshInv
  BY EmptyTable
<1>2. AshInv /\ [Next]_vars => AshInv'
  BY StepKeeps
<1>3. AshInv => OneChainOrFree
  BY InvSays
<1> QED
  BY <1>1, <1>2, <1>3, PTL DEF Spec

\* Every call of ash.h does to buckets, chains and free list what Ash says it
\* does to a partial function, and returns what it says: the nucleus may be
\* modelled with the function.
THEOREM TableIsFunction == Spec => ImplementsAshSpec
<1>1. Init => AshInv
  BY EmptyTable
<1>2. AshInv /\ [Next]_vars => AshInv' /\ [Abstract!Next]_Abstract!vars
  BY StepKeeps
<1>3. Init => Abstract!Init
  BY EmptyTable DEF Init, Abstract!Init, Hash
<1> QED
  BY <1>1, <1>2, <1>3, PTL DEF Spec, ImplementsAshSpec, Abstract!Spec
=============================================================================
