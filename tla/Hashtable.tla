----------------------------- MODULE Hashtable -----------------------------
(***************************************************************************)
(* The hash table of lib/hashtable.h, lib/hash.h, lib/log2.h and the       *)
(* hlists of lib/list.h it is made of.  A table t is a record: t.first     *)
(* maps buckets to nodes, t.next nodes to nodes, and t.pprev nodes to the  *)
(* place that points to them: <<"first", b>>, <<"next", n>> or NULL.       *)
(***************************************************************************)
EXTENDS Integers, FiniteSets

----------------------------------------------------------------------------
(* hash_32: the high bits of a product modulo 2^32.  TLC's integers are    *)
(* narrower, so the product is made byte by byte.                          *)

Byte(v, i) == (v \div 256^i) % 256

\* GOLDEN_RATIO_32, the least significant byte first.
GOLDEN_RATIO_32 == [i \in 0..3 |-> <<71, 134, 200, 97>>[i + 1]]

\* The most significant byte of val * GOLDEN_RATIO_32, from the products of bytes
\* in its column and the carry out of the columns before it.
HighByte(val) ==
    LET p(k, i) == Byte(val, i) * GOLDEN_RATIO_32[k - i]
        c0 == p(0, 0) \div 256
        c1 == (c0 + p(1, 0) + p(1, 1)) \div 256
        c2 == (c1 + p(2, 0) + p(2, 1) + p(2, 2)) \div 256
    IN  (c2 + p(3, 0) + p(3, 1) + p(3, 2) + p(3, 3)) % 256

\* For bits at most 8.
Hash32(val, bits) == HighByte(val) \div 2^(8 - bits)

\* The position of the highest bit of n.
ConstIlog2(n) ==
    IF n < 2 THEN 0
    ELSE LET on == {k \in 2..30 : Byte(n, k \div 8) \div 2^(k % 8) % 2 = 1}
         IN  IF on = {} THEN 1 ELSE CHOOSE k \in on : \A j \in on : j <= k

\* DEFINE_HASHTABLE(name, 5).
HASH_SIZE == 2^5
Buckets == 0..HASH_SIZE - 1
HashMin(key) == Hash32(key, ConstIlog2(HASH_SIZE))

----------------------------------------------------------------------------
(* hlists.                                                                 *)

Store(t, place, n) ==
    IF place[1] = "first" THEN [t EXCEPT !.first[place[2]] = n]
                          ELSE [t EXCEPT !.next[place[2]] = n]

HlistUnhashed(t, n, NULL) == t.pprev[n] = NULL

\* Deliberately wrong: the second node of the chain is not told.
HlistAddHeadNoPprev(t, n, b, NULL) ==
    [t EXCEPT !.next[n] = t.first[b], !.first[b] = n, !.pprev[n] = <<"first", b>>]

HlistAddHead(t, n, b, NULL) ==
    LET first == t.first[b]
        told  == IF first = NULL THEN t
                 ELSE [t EXCEPT !.pprev[first] = <<"next", n>>]
    IN  [told EXCEPT !.next[n] = first, !.first[b] = n, !.pprev[n] = <<"first", b>>]

\* __hlist_del
HlistUnlink(t, n, NULL) ==
    LET out == Store(t, t.pprev[n], t.next[n])
    IN  IF t.next[n] = NULL THEN out
        ELSE [out EXCEPT !.pprev[t.next[n]] = t.pprev[n]]

HlistDelInit(t, n, NULL) ==
    IF HlistUnhashed(t, n, NULL) THEN t
    ELSE [HlistUnlink(t, n, NULL) EXCEPT !.next[n] = NULL, !.pprev[n] = NULL]

HashAdd(t, n, key, NULL) == HlistAddHead(t, n, HashMin(key), NULL)
HashDel(t, n, NULL) == HlistDelInit(t, n, NULL)

\* The nodes of a bucket, in the order of hlist_for_each_entry; the walk is
\* cut after as many steps as there are nodes.
Chain(t, b, NULL) ==
    LET n == Cardinality(DOMAIN t.next)
        at[i \in 1..n + 1] == IF i = 1 THEN t.first[b]
                              ELSE IF at[i - 1] = NULL THEN NULL ELSE t.next[at[i - 1]]
    IN  [i \in 1..Cardinality({j \in 1..n : at[j] # NULL}) |-> at[i]]
============================================================================
