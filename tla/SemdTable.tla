----------------------------- MODULE SemdTable -----------------------------
(***************************************************************************)
(* ash.c over its hash table: descriptors that move between semdFree_h and *)
(* the chains of semd_h, and a program that makes the calls of ash.h.  A   *)
(* process blocks on one semaphore at a time; the queues of processes are  *)
(* the sequences PcbLists shows them to be.                                *)
(***************************************************************************)
EXTENDS Hashtable, Ash, SequencesExt

CONSTANTS Keys,      \* addresses of semaphores
          Callers    \* PCBs

Semds == 1..MAXPROC

\* What pprev may point to.
Places == {"first"} \X Buckets \cup {"next"} \X Semds

ASSUME SemdTableAssumption ==
    /\ Keys \subseteq Nat \ {0}
    /\ NULL \notin Keys \cup Callers \cup Semds \cup Places

VARIABLES semd_table,   \* the hash table and its chains of descriptors
          s_key, s_procq, semdFree, p_semAdd, call, ret

vars == <<semd_table, s_key, s_procq, semdFree, p_semAdd, call, ret>>
descriptors == <<semd_table, s_key, s_procq, semdFree>>

\* HLIST_HEAD_INIT, zeroed descriptors, and initASH.
Init ==
    /\ semd_table = [first |-> [b \in Buckets |-> NULL],
                     next  |-> [d \in Semds |-> NULL],
                     pprev |-> [d \in Semds |-> NULL]]
    /\ s_key = [d \in Semds |-> NULL]
    /\ s_procq = [d \in Semds |-> <<>>]
    /\ semdFree = [i \in Semds |-> i]
    /\ p_semAdd = [p \in Callers |-> NULL]
    /\ call = <<"initASH">> /\ ret = NULL

Does(name, args, r) == call' = <<name, args>> /\ ret' = r

\* The null pointer hashes as the number 0.
Bucket == [k \in Keys \cup {NULL} |-> HashMin(IF k = NULL THEN 0 ELSE k)]

\* Deliberately wrong: trusts the bucket.
ScanHashFirst(k) ==
    LET c == Chain(semd_table, Bucket[k], NULL) IN IF c = <<>> THEN NULL ELSE Head(c)

\* The first descriptor of k's chain whose key is k.
ScanHash(k) ==
    LET c  == Chain(semd_table, Bucket[k], NULL)
        at == {i \in DOMAIN c : s_key[c[i]] = k}
    IN  IF at = {} THEN NULL ELSE c[CHOOSE i \in at : \A j \in at : i <= j]

\* __allocSemd, and p as the descriptor's first process.
AllocSemd(k, p) ==
    LET d == Head(semdFree)
    IN  /\ semdFree' = Tail(semdFree)
        /\ s_key' = [s_key EXCEPT ![d] = k]
        /\ s_procq' = [s_procq EXCEPT ![d] = InsertProcQ(<<>>, p)]
        /\ semd_table' = HashAdd(semd_table, d, k, NULL)

\* The queue of d is now q; __ifEmptyDeallocSemd.
Release(d, q) ==
    /\ s_procq' = [s_procq EXCEPT ![d] = q]
    /\ semdFree' = IF q = <<>> THEN Append(semdFree, d) ELSE semdFree
    /\ semd_table' = IF q = <<>> THEN HashDel(semd_table, d, NULL) ELSE semd_table
    /\ UNCHANGED s_key

InsertBlockedCall(k, p) ==
    LET d == ScanHash(k)
    IN  /\ Does("insertBlocked", <<k, p>>, d = NULL /\ semdFree = <<>>)
        /\ \/ ret' /\ UNCHANGED <<descriptors, p_semAdd>>
           \/ /\ ~ret' /\ d = NULL
              /\ AllocSemd(k, p) /\ p_semAdd' = [p_semAdd EXCEPT ![p] = k]
           \/ /\ ~ret' /\ d # NULL
              /\ s_procq' = [s_procq EXCEPT ![d] = InsertProcQ(@, p)]
              /\ p_semAdd' = [p_semAdd EXCEPT ![p] = k]
              /\ UNCHANGED <<semd_table, s_key, semdFree>>

RemoveBlockedCall(k) ==
    LET d == ScanHash(k)
        p == HeadProcQ(s_procq[d])
    IN  \/ /\ d = NULL /\ Does("removeBlocked", <<k>>, NULL)
           /\ UNCHANGED <<descriptors, p_semAdd>>
        \/ /\ d # NULL /\ Does("removeBlocked", <<k>>, p)
           /\ Release(d, Tail(s_procq[d]))
           /\ p_semAdd' = [p_semAdd EXCEPT ![p] = NULL]

OutBlockedCall(p) ==
    LET d == ScanHash(p_semAdd[p])
    IN  \/ /\ d = NULL /\ Does("outBlocked", <<p>>, NULL)
           /\ UNCHANGED <<descriptors, p_semAdd>>
        \/ /\ d # NULL
           /\ Does("outBlocked", <<p>>, IF p \in Range(s_procq[d]) THEN p ELSE NULL)
           /\ Release(d, OutProcQ(s_procq[d], p))
           /\ p_semAdd' = [p_semAdd EXCEPT ![p] = NULL]

HeadBlockedCall(k) ==
    LET d == ScanHash(k)
    IN  \/ /\ d = NULL /\ Does("headBlocked", <<k>>, NULL)
           /\ UNCHANGED <<descriptors, p_semAdd>>
        \/ /\ d # NULL /\ Does("headBlocked", <<k>>, HeadProcQ(s_procq[d]))
           /\ Release(d, s_procq[d])
           /\ UNCHANGED p_semAdd

Next ==
    \/ \E k \in Keys : RemoveBlockedCall(k) \/ HeadBlockedCall(k)
    \/ \E k \in Keys, p \in Callers : p_semAdd[p] = NULL /\ InsertBlockedCall(k, p)
    \/ \E p \in Callers : OutBlockedCall(p)

Spec == Init /\ [][Next]_vars

----------------------------------------------------------------------------
\* Each descriptor is either free or, once, in the chain of its own key's
\* bucket, then with somebody waiting; a node's pprev is the place that
\* points to it, in the middle of a chain too (__allocSemd,
\* __ifEmptyDeallocSemd, hlist_add_head, hlist_del_init).
OneChainOrFree ==
    /\ \A k \in Keys : Bucket[k] \in Buckets
    /\ IsInjective(semdFree)
    /\ \E chain \in {[b \in Buckets |-> Chain(semd_table, b, NULL)]} :
          \A d \in Semds :
             LET places == UNION {{<<b, i>> : i \in {j \in DOMAIN chain[b] : chain[b][j] = d}} :
                                  b \in Buckets}
             IN  IF d \in Range(semdFree)
                 THEN places = {} /\ HlistUnhashed(semd_table, d, NULL)
                 ELSE /\ \E i \in Semds : places = {<<Bucket[s_key[d]], i>>}
                      /\ s_procq[d] # <<>>
                      /\ Store(semd_table, semd_table.pprev[d], d) = semd_table

\* The queues by key, as the chains hold them.
Used == {k \in Keys : ScanHash(k) # NULL}
Abstract == INSTANCE AshSpec WITH h <- [k \in Used |-> s_procq[ScanHash(k)]]

\* Buckets, chains and free list implement the partial function of Ash, also
\* for keys that share a bucket and when the descriptors run out: the nucleus
\* may be modelled with the function.
ImplementsAshSpec == Abstract!Spec
============================================================================
