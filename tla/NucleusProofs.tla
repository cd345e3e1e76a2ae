--------------------------- MODULE NucleusProofs ---------------------------
(***************************************************************************)
(* The nucleus, for every number of PCBs, semaphores, devices and          *)
(* namespaces.  First the type invariant, where the PCBs are and how they  *)
(* form a tree; then what depends on it: the two counters, the reasons for *)
(* which the machine stops or waits, the PLT in WAIT, and namespaces; what *)
(* a single step may never do: whom a kill takes, who leaves a semaphore,  *)
(* who overtakes whom; and that the nucleus implements semaphores.         *)
(***************************************************************************)
EXTENDS Namespaces, NucleusCalls, ListLemmas

----------------------------------------------------------------------------
(* The semaphore hash.                                                     *)

\* The queue of a semaphore is a queue of PCBs, and its head, when there is
\* one, is a PCB of a semaphore that has a descriptor (headBlocked).
LEMMA ProcqType ==
    ASSUME NEW h, IsHash(h), NEW s
    PROVE  /\ Procq(h, s) \in Seq(Procs)
           /\ Procq(h, s) = <<>> <=> s \notin DOMAIN h
           /\ HeadBlocked(h, s) # NULL <=> s \in DOMAIN h
           /\ s \in DOMAIN h => /\ s \in Keys
                                /\ HeadBlocked(h, s) = Head(h[s])
                                /\ HeadBlocked(h, s) \in Procs
                                /\ Tail(h[s]) \in Seq(Procs)
<1>1. s \in DOMAIN h => h[s] \in Seq(Procs) /\ h[s] # <<>> /\ s \in Keys
  BY DEF IsHash
<1>2. Procq(h, s) \in Seq(Procs) /\ (Procq(h, s) = <<>> <=> s \notin DOMAIN h)
  BY <1>1, EmptySeq DEF Procq
<1>3. s \in DOMAIN h => Head(h[s]) \in Procs /\ Tail(h[s]) \in Seq(Procs)
  BY <1>1, HeadTailProperties
<1> QED
  BY <1>1, <1>2, <1>3, PcbAssumption DEF HeadBlocked, HeadProcQ, Procq

\* insertBlocked leaves a hash.
LEMMA InsertBlockedType ==
    ASSUME NEW h, IsHash(h), NEW s \in Keys, NEW p \in Procs
    PROVE  IsHash(InsertBlocked(h, s, p))
<1> DEFINE r == InsertBlocked(h, s, p)
           q == InsertProcQ(Procq(h, s), p)
<1>1. q \in Seq(Procs) \ {<<>>}
  <2>1. Procq(h, s) \in Seq(Procs)
    BY ProcqType
  <2> QED
    BY <2>1, AppendProperties DEF InsertProcQ
<1>2. r = [k \in DOMAIN h \cup {s} |-> IF k = s THEN q ELSE h[k]]
  BY DEF InsertBlocked
<1> HIDE DEF q, r
<1>3. DOMAIN r = DOMAIN h \cup {s}
  BY <1>2
<1>4. \A k \in DOMAIN r : r[k] \in Seq(Procs) \ {<<>>}
  BY <1>1, <1>2 DEF IsHash
<1>5. r \in [DOMAIN r -> Seq(Procs) \ {<<>>}]
  BY <1>2, <1>3, <1>4
<1>6. DOMAIN r \subseteq Keys
  BY <1>3 DEF IsHash
<1> QED
  BY <1>5, <1>6 DEF IsHash, r

\* Releasing an empty descriptor leaves a hash, when no other is empty.
LEMMA IfEmptyDeallocType ==
    ASSUME NEW h, NEW s,
           DOMAIN h \subseteq Keys, h \in [DOMAIN h -> Seq(Procs)],
           \A k \in DOMAIN h : k # s => h[k] # <<>>
    PROVE  IsHash(IfEmptyDealloc(h, s))
<1>1. CASE Procq(h, s) = <<>>
  <2> DEFINE r == Restrict(h, DOMAIN h \ {s})
  <2>1. r = [k \in DOMAIN h \ {s} |-> h[k]]
    BY DEF Restrict
  <2>2. IfEmptyDealloc(h, s) = r
    BY <1>1 DEF IfEmptyDealloc
  <2> HIDE DEF r
  <2>3. DOMAIN r = DOMAIN h \ {s}
    BY <2>1
  <2>4. \A k \in DOMAIN r : r[k] \in Seq(Procs) \ {<<>>}
    BY <2>1, <2>3
  <2>5. r \in [DOMAIN r -> Seq(Procs) \ {<<>>}]
    BY <2>1, <2>3, <2>4
  <2> QED
    BY <2>2, <2>3, <2>5 DEF IsHash
<1>2. CASE Procq(h, s) # <<>>
  <2>1. \A k \in DOMAIN h : h[k] # <<>>
    BY <1>2 DEF Procq
  <2>2. IfEmptyDealloc(h, s) = h
    BY <1>2 DEF IfEmptyDealloc
  <2> QED
    BY <2>1, <2>2 DEF IsHash
<1> QED
  BY <1>1, <1>2

\* removeBlocked leaves a hash.
LEMMA RemoveBlockedType ==
    ASSUME NEW h, IsHash(h), NEW s \in DOMAIN h
    PROVE  IsHash(RemoveBlocked(h, s))
<1> DEFINE r == [h EXCEPT ![s] = Tail(@)]
<1>1. Tail(h[s]) \in Seq(Procs)
  BY ProcqType
<1>2. DOMAIN r = DOMAIN h /\ r \in [DOMAIN h -> Seq(Procs)]
  BY <1>1 DEF IsHash
<1>3. \A k \in DOMAIN r : k # s => r[k] # <<>>
  BY DEF IsHash
<1>4. DOMAIN r \subseteq Keys
  BY <1>2 DEF IsHash
<1>5. RemoveBlocked(h, s) = IfEmptyDealloc(r, s)
  BY DEF RemoveBlocked
<1> HIDE DEF r
<1> QED
  BY <1>2, <1>3, <1>4, <1>5, IfEmptyDeallocType

\* outBlocked, for all the processes a kill takes out, leaves a hash.
LEMMA OutBlockedType ==
    ASSUME NEW h, IsHash(h), NEW semAdd, NEW D
    PROVE  IsHash(OutBlocked(h, semAdd, D))
<1> DEFINE left(k) == Without(h[k], {p \in D : semAdd[p] = k})
           K == {k \in DOMAIN h : left(k) # <<>>}
           r == [k \in K |-> left(k)]
<1>1. \A k \in DOMAIN h : left(k) \in Seq(Procs)
  BY WithoutProperty DEF IsHash
<1>2. r \in [K -> Seq(Procs) \ {<<>>}]
  BY <1>1
<1>3. K \subseteq Keys
  BY DEF IsHash
<1>4. OutBlocked(h, semAdd, D) = r
  BY DEF OutBlocked
<1>5. DOMAIN r = K
  OBVIOUS
<1> QED
  BY <1>2, <1>3, <1>4, <1>5 DEF IsHash

----------------------------------------------------------------------------
(* The scheduler and what the actions share.                               *)

\* Appending the woken processes keeps the ready queue a queue of PCBs.
LEMMA WakeAllType ==
    ASSUME NEW rq \in Seq(Procs), NEW q \in Seq(Procs)
    PROVE  WakeAll(rq, q) \in Seq(Procs)
BY WithoutProperty, ConcatProperties DEF WakeAll

\* The scheduler dispatches PCBs only and runs nobody it has not taken from
\* the ready queue.
LEMMA SchedulerType ==
    ASSUME SchedTypeOK,
           NEW rq \in Seq(Procs), NEW n, NEW soft, NEW pending \in BOOLEAN,
           Scheduler(rq, n, soft, pending)
    PROVE  SchedTypeOK'
<1>1. rq # <<>> => Head(rq) \in Procs /\ Tail(rq) \in Seq(Procs)
  BY HeadTailProperties
<1>2. IdleMode(soft) \in {"idle", "panic"}
  BY DEF IdleMode
<1> QED
  BY <1>1, <1>2 DEF Scheduler, SchedTypeOK

\* The end of an interrupt handler, in either case.
LEMMA ExitIntHandlerType ==
    ASSUME SchedTypeOK, NEW rq \in Seq(Procs), NEW soft,
           ExitIntHandler(rq, soft)
    PROVE  SchedTypeOK'
<1>1. CASE currentProc # NULL
  BY <1>1 DEF ExitIntHandler, SchedTypeOK
<1>2. CASE currentProc = NULL
  <2>1. Scheduler(rq, processCount, soft, plt)
    BY <1>2 DEF ExitIntHandler
  <2>2. plt \in BOOLEAN
    BY DEF SchedTypeOK
  <2> QED
    BY <2>1, <2>2, SchedulerType
<1> QED
  BY <1>1, <1>2

\* P and V, on any semaphore.
LEMMA SemOpType ==
    ASSUME SchedTypeOK, HashTypeOK, mode = "run",
           NEW s \in Keys, NEW closed \in {0, 1}, NEW soft,
           SemOp(s, closed, soft)
    PROVE  SchedTypeOK' /\ HashTypeOK'
<1>1. currentProc \in Procs /\ plt \in BOOLEAN /\ readyQueue \in Seq(Procs)
  BY DEF SchedTypeOK
<1>2. CASE Block(s, soft)
  <2>1. CASE Exhausted(semd_h, s)
    BY <1>2, <2>1 DEF Block, SchedTypeOK, HashTypeOK, hashVars, IsHash
  <2>2. CASE ~Exhausted(semd_h, s)
    <3>1. IsHash(InsertBlocked(semd_h, s, currentProc))
      BY <1>1, InsertBlockedType DEF HashTypeOK
    <3>2. HashTypeOK'
      BY <1>1, <1>2, <2>2, <3>1 DEF Block, HashTypeOK, IsHash
    <3>3. Scheduler(readyQueue, processCount, soft, plt)
      BY <1>2, <2>2 DEF Block
    <3> QED
      BY <1>1, <3>2, <3>3, SchedulerType
  <2> QED
    BY <2>1, <2>2
<1>3. CASE HeadBlocked(semd_h, s) # NULL /\ HandOff(s)
  <2> DEFINE p == HeadBlocked(semd_h, s)
  <2>1. s \in DOMAIN semd_h /\ p \in Procs
    BY <1>3, ProcqType DEF HashTypeOK
  <2>2. IsHash(RemoveBlocked(semd_h, s))
    BY <2>1, RemoveBlockedType DEF HashTypeOK
  <2>3. WakeAll(readyQueue, <<p>>) \in Seq(Procs)
    <3>1. <<p>> \in Seq(Procs)
      BY <2>1, OneElement
    <3> HIDE DEF p
    <3> QED
      BY <1>1, <3>1, WakeAllType
  <2>4. HashTypeOK'
    <3>1. /\ semd_h' = RemoveBlocked(semd_h, s)
          /\ p_semAdd' = [p_semAdd EXCEPT ![p] = NULL]
          /\ sem' = sem
      BY <1>3 DEF HandOff
    <3>2. IsHash(semd_h')
      BY <2>2, <3>1
    <3>3. p_semAdd' \in [Procs -> Keys \cup {NULL}]
      BY <2>1, <3>1 DEF HashTypeOK
    <3> QED
      BY <3>1, <3>2, <3>3 DEF HashTypeOK, IsHash
  <2>5. SchedTypeOK'
    BY <1>3, <2>3 DEF HandOff, SchedTypeOK
  <2> QED
    BY <2>4, <2>5
<1>4. CASE Close(s, closed)
  <2>1. IsHash(IfEmptyDealloc(semd_h, s))
    BY IfEmptyDeallocType DEF HashTypeOK, IsHash
  <2>2. HashTypeOK'
    BY <1>4, <2>1 DEF Close, HashTypeOK, IsHash
  <2> QED
    BY <1>4, <2>2 DEF Close, SchedTypeOK, schedVars
<1> QED
  BY <1>2, <1>3, <1>4 DEF SemOp

\* A kill, with or without a switch to another process.
LEMMA KillType ==
    ASSUME TypeOK, NEW v \in Procs, KillAndContinue(v)
    PROVE  TypeOK'
<1>1. PICK dead \in {Subtree(p_child, v)} :
         /\ KillProcess(v, dead)
         /\ IF currentProc \in dead
            THEN Scheduler(ReadyLeft(dead), processCount', softBlockCount', plt)
            ELSE /\ readyQueue' = ReadyLeft(dead)
                 /\ UNCHANGED <<mode, currentProc, plt>>
  BY DEF KillAndContinue
<1>2. dead \subseteq Procs
  BY DEF Subtree
<1>3. IsFiniteSet(dead) /\ Cardinality(dead) \in Nat
  <2>1. IsFiniteSet(Procs)
    BY FS_Interval, PcbAssumption DEF Procs
  <2> QED
    BY <1>2, <2>1, FS_Subset, FS_CardinalityType
<1>4. Cardinality(SoftBlocked(dead)) \in Nat
  <2>1. SoftBlocked(dead) \in SUBSET dead
    BY DEF SoftBlocked
  <2> QED
    BY <1>3, <2>1, FS_Subset, FS_CardinalityType
<1>5. processCount' \in Int /\ softBlockCount' \in Int
  BY <1>1, <1>3, <1>4 DEF KillProcess, TypeOK, TreeTypeOK
<1>6. pcbFree' \in Seq(Procs)
  <2>0. PICK before : \E o \in Orders(dead, before) : pcbFree' = pcbFree \o o
    BY <1>1 DEF KillProcess
  <2>1. PICK o \in Orders(dead, before) : pcbFree' = pcbFree \o o
    BY <2>0
  <2>2. o \in [1..Cardinality(dead) -> Procs]
    BY <1>2, <2>1 DEF Orders
  <2>3. o \in Seq(Procs)
    BY <1>3, <2>2, SeqDef
  <2> QED
    BY <2>1, <2>3, ConcatProperties DEF TypeOK, TreeTypeOK
<1>7. ChildrenLeft(v, dead) \in [Procs -> Seq(Procs)]
  <2>1. \A p \in Procs : OutProcQ(p_child[p], v) \in Seq(Procs)
    BY WithoutProperty DEF OutProcQ, TypeOK, TreeTypeOK
  <2>2. \A p \in Procs : p_child[p] \in Seq(Procs)
    BY DEF TypeOK, TreeTypeOK
  <2> QED
    BY <2>1, <2>2, EmptySeq DEF ChildrenLeft
<1>8. TreeTypeOK'
  <2>1. p_pid' \in [Procs -> 0..MAXPROC]
    BY <1>1, PcbAssumption DEF KillProcess, TypeOK, TreeTypeOK
  <2>2. p_parent' \in [Procs -> Procs \cup {NULL}]
    BY <1>1 DEF KillProcess, TypeOK, TreeTypeOK
  <2>3. p_child' \in [Procs -> Seq(Procs)]
    BY <1>1, <1>7 DEF KillProcess
  <2>4. UNCHANGED <<p_ns, p_sup, p_status, nsFree>>
    BY <1>1 DEF KillProcess
  <2> QED
    BY <1>5, <1>6, <2>1, <2>2, <2>3, <2>4 DEF TypeOK, TreeTypeOK
<1>9. HashTypeOK'
  <2>1. IsHash(OutBlocked(semd_h, p_semAdd, dead))
    BY OutBlockedType DEF TypeOK, HashTypeOK
  <2>2. p_semAdd' \in [Procs -> Keys \cup {NULL}]
    BY <1>1 DEF KillProcess, TypeOK, HashTypeOK
  <2>3. semd_h' = OutBlocked(semd_h, p_semAdd, dead) /\ sem' = sem
    BY <1>1 DEF KillProcess
  <2> QED
    BY <2>1, <2>2, <2>3 DEF TypeOK, HashTypeOK, IsHash
<1>10. SchedTypeOK'
  <2>1. ReadyLeft(dead) \in Seq(Procs)
    BY WithoutProperty DEF ReadyLeft, TypeOK, SchedTypeOK
  <2>2. CASE currentProc \in dead
    <3>1. Scheduler(ReadyLeft(dead), processCount', softBlockCount', plt)
      BY <1>1, <2>2
    <3>2. SchedTypeOK /\ plt \in BOOLEAN
      BY DEF TypeOK, SchedTypeOK
    <3> QED
      BY <2>1, <3>1, <3>2, SchedulerType
  <2>3. CASE currentProc \notin dead
    BY <1>1, <2>1, <2>3 DEF TypeOK, SchedTypeOK
  <2> QED
    BY <2>2, <2>3
<1> QED
  BY <1>1, <1>5, <1>8, <1>9, <1>10 DEF TypeOK, KillProcess

----------------------------------------------------------------------------
(* The actions that touch more than one group of variables.                *)

\* CREATEPROCESS.
LEMMA CreateProcessType ==
    ASSUME TypeOK, NEW sup \in BOOLEAN, NEW ns \in Namespaces \cup {NULL},
           CreateProcess(sup, ns)
    PROVE  TypeOK'
<1> DEFINE p == Head(pcbFree)
           c == [p_child EXCEPT ![p] = <<>>]
<1>1. /\ mode = "run" /\ currentProc \in Procs
      /\ p \in Procs /\ Tail(pcbFree) \in Seq(Procs)
  BY HeadTailProperties DEF CreateProcess, Executing, TypeOK, SchedTypeOK, TreeTypeOK
<1>2. ChildNamespace(ns) \in Namespaces \cup {NULL}
  BY <1>1 DEF ChildNamespace, TypeOK, TreeTypeOK
<1>3. /\ pcbFree' = Tail(pcbFree)
      /\ p_pid' = [p_pid EXCEPT ![p] = p]
      /\ p_parent' = [p_parent EXCEPT ![p] = currentProc]
      /\ p_child' = [c EXCEPT ![currentProc] = Append(@, p)]
      /\ p_semAdd' = [p_semAdd EXCEPT ![p] = NULL]
      /\ p_sup' = [p_sup EXCEPT ![p] = sup]
      /\ \E m \in Statuses : p_status' = [p_status EXCEPT ![p] = m]
      /\ AddNamespace(p, ChildNamespace(ns))
      /\ readyQueue' = Append(readyQueue, p)
      /\ processCount' = processCount + 1
      /\ UNCHANGED <<mode, currentProc, plt, softBlockCount, semd_h, sem, it, dev>>
  BY DEF CreateProcess, InsertProcQ
<1> HIDE DEF p
<1>4. p_ns' \in [Procs -> Namespaces \cup {NULL}] /\ nsFree' \in Seq(Namespaces)
  <2>1. nsFree # <<>> => /\ Head(nsFree) \in Namespaces
                         /\ Tail(nsFree) \in Seq(Namespaces)
    BY HeadTailProperties DEF TypeOK, TreeTypeOK
  <2> QED
    BY <1>1, <1>2, <1>3, <2>1 DEF AddNamespace, TypeOK, TreeTypeOK
<1>5. p_child' \in [Procs -> Seq(Procs)]
  <2>1. c \in [Procs -> Seq(Procs)]
    BY EmptySeq DEF TypeOK, TreeTypeOK
  <2>2. c[currentProc] \in Seq(Procs)
    BY <1>1, <2>1
  <2>3. Append(c[currentProc], p) \in Seq(Procs)
    BY <1>1, <2>2, AppendProperties
  <2> HIDE DEF c
  <2> QED
    BY <1>3, <2>1, <2>3
<1>6. TreeTypeOK'
  <2>1. p_pid' \in [Procs -> 0..MAXPROC]
    <3>1. p \in 0..MAXPROC
      BY <1>1, PcbAssumption DEF Procs
    <3>2. p_pid' = [p_pid EXCEPT ![p] = p]
      BY <1>3
    <3> QED
      BY <3>1, <3>2 DEF TypeOK, TreeTypeOK
  <2>2. p_parent' \in [Procs -> Procs \cup {NULL}]
    BY <1>1, <1>3 DEF TypeOK, TreeTypeOK
  <2>3. p_sup' \in [Procs -> BOOLEAN]
    <3>1. p_sup' = [p_sup EXCEPT ![p] = sup]
      BY <1>3
    <3> QED
      BY <3>1 DEF TypeOK, TreeTypeOK
  <2>4. processCount' \in Int
    <3>1. processCount' = processCount + 1
      BY <1>3
    <3> QED
      BY <3>1 DEF TypeOK, TreeTypeOK
  <2>5. p_status' \in [Procs -> Statuses]
    BY <1>3 DEF TypeOK, TreeTypeOK
  <2> QED
    BY <1>1, <1>3, <1>4, <1>5, <2>1, <2>2, <2>3, <2>4, <2>5 DEF TreeTypeOK
<1>7. HashTypeOK'
  <2>1. p_semAdd' \in [Procs -> Keys \cup {NULL}]
    BY <1>3 DEF TypeOK, HashTypeOK
  <2> QED
    BY <1>3, <2>1 DEF TypeOK, HashTypeOK, IsHash
<1>8. SchedTypeOK'
  <2>1. readyQueue' \in Seq(Procs)
    BY <1>1, <1>3, AppendProperties DEF TypeOK, SchedTypeOK
  <2> QED
    BY <1>3, <2>1 DEF TypeOK, SchedTypeOK
<1> QED
  BY <1>3, <1>6, <1>7, <1>8 DEF TypeOK

\* CLOCKWAIT and DOIO, PASSEREN and VERHOGEN: a P or V and, for the first
\* two, the soft-blocked count and the device.
LEMMA SemCallType ==
    ASSUME TypeOK, mode = "run",
           NEW s \in Keys, NEW closed \in {0, 1}, NEW soft \in Int,
           SemOp(s, closed, soft), softBlockCount' = soft,
           UNCHANGED <<treeVars, it>>,
           dev' \in [Devices -> {"ready", "busy", "done"}]
    PROVE  TypeOK'
<1>1. SchedTypeOK' /\ HashTypeOK'
  BY SemOpType DEF TypeOK
<1>2. TreeTypeOK'
  BY DEF TypeOK, TreeTypeOK, treeVars
<1> QED
  BY <1>1, <1>2 DEF TypeOK

\* The interval timer's handler.
LEMMA ItHandlerType ==
    ASSUME TypeOK, ItHandler
    PROVE  TypeOK'
<1> DEFINE woken == Procq(semd_h, ItSem)
           r     == Restrict(semd_h, DOMAIN semd_h \ {ItSem})
           lost  == {p \in Range(woken) : IsPcbActive(p_pid, p)}
<1>1. woken \in Seq(Procs)
  BY ProcqType DEF TypeOK, HashTypeOK
<1>2. Cardinality(lost) \in Nat
  <2>1. Range(woken) \subseteq Procs
    BY <1>1, LenProperties DEF Range
  <2>2. lost \in SUBSET Procs
    BY <2>1
  <2>3. IsFiniteSet(Procs)
    BY FS_Interval, PcbAssumption DEF Procs
  <2> HIDE DEF lost
  <2> QED
    BY <2>2, <2>3, FS_Subset, FS_CardinalityType
<1>3. IsHash(r)
  <2>1. r = [k \in DOMAIN semd_h \ {ItSem} |-> semd_h[k]]
    BY DEF Restrict
  <2>2. DOMAIN r = DOMAIN semd_h \ {ItSem}
    BY <2>1
  <2> HIDE DEF r
  <2>3. r \in [DOMAIN r -> Seq(Procs) \ {<<>>}] /\ DOMAIN r \subseteq Keys
    BY <2>1, <2>2 DEF TypeOK, HashTypeOK, IsHash
  <2> QED
    BY <2>3 DEF IsHash
<1>4. WakeAll(readyQueue, woken) \in Seq(Procs)
  <2> HIDE DEF woken
  <2> QED
    BY <1>1, WakeAllType DEF TypeOK, SchedTypeOK
<1>5. /\ it' = FALSE /\ dev' = dev /\ UNCHANGED treeVars
      /\ softBlockCount' = softBlockCount - Cardinality(lost)
      /\ semd_h' = r /\ sem' = sem
      /\ p_semAdd' = [p \in Procs |-> IF p \in Range(woken) THEN NULL ELSE p_semAdd[p]]
      /\ ExitIntHandler(WakeAll(readyQueue, woken), softBlockCount')
  BY DEF ItHandler
<1> HIDE DEF woken, r, lost
<1>6. HashTypeOK'
  <2>1. p_semAdd' \in [Procs -> Keys \cup {NULL}]
    BY <1>5 DEF TypeOK, HashTypeOK
  <2>2. IsHash(semd_h')
    BY <1>3, <1>5
  <2> QED
    BY <1>5, <2>1, <2>2 DEF TypeOK, HashTypeOK, IsHash
<1>7. SchedTypeOK'
  BY <1>4, <1>5, ExitIntHandlerType DEF TypeOK
<1>8. TreeTypeOK'
  BY <1>5 DEF TypeOK, TreeTypeOK, treeVars
<1>9. softBlockCount' \in Int
  BY <1>2, <1>5 DEF TypeOK
<1> QED
  BY <1>5, <1>6, <1>7, <1>8, <1>9 DEF TypeOK

\* A device's handler, with and without a process waiting.
LEMMA DevHandlerType ==
    ASSUME TypeOK, NEW d \in Devices, DevHandler(d)
    PROVE  TypeOK'
<1> DEFINE p == HeadBlocked(semd_h, d)
<1>1. /\ UNCHANGED <<treeVars, it>>
      /\ dev' = [dev EXCEPT ![d] = "ready"]
  BY DEF DevHandler, Acknowledge
<1>2. TreeTypeOK' /\ it' \in BOOLEAN
      /\ dev' \in [Devices -> {"ready", "busy", "done"}]
  BY <1>1 DEF TypeOK, TreeTypeOK, treeVars
<1>3. CASE p = NULL
  <2>1. /\ UNCHANGED <<hashVars, softBlockCount>>
        /\ ExitIntHandler(readyQueue, softBlockCount)
    BY <1>3 DEF DevHandler
  <2>2. SchedTypeOK'
    BY <2>1, ExitIntHandlerType DEF TypeOK, SchedTypeOK
  <2>3. HashTypeOK'
    BY <2>1 DEF TypeOK, HashTypeOK, hashVars, IsHash
  <2> QED
    BY <1>2, <2>1, <2>2, <2>3 DEF TypeOK
<1>4. CASE p # NULL
  <2>1. d \in DOMAIN semd_h /\ p \in Procs
    BY <1>4, ProcqType DEF TypeOK, HashTypeOK
  <2>2. IsHash(RemoveBlocked(semd_h, d))
    BY <2>1, RemoveBlockedType DEF TypeOK, HashTypeOK
  <2>3. /\ semd_h' = RemoveBlocked(semd_h, d)
        /\ p_semAdd' = [p_semAdd EXCEPT ![p] = NULL]
        /\ softBlockCount' = softBlockCount - IF IsPcbActive(p_pid, p) THEN 1 ELSE 0
        /\ ExitIntHandler(WakeAll(readyQueue, <<p>>), softBlockCount')
        /\ UNCHANGED sem
    BY <1>4 DEF DevHandler
  <2> HIDE DEF p
  <2>4. WakeAll(readyQueue, <<p>>) \in Seq(Procs)
    <3>1. <<p>> \in Seq(Procs)
      BY <2>1, OneElement
    <3> QED
      BY <3>1, WakeAllType DEF TypeOK, SchedTypeOK
  <2>5. SchedTypeOK'
    BY <2>3, <2>4, ExitIntHandlerType DEF TypeOK
  <2>6. HashTypeOK'
    <3>1. p_semAdd' \in [Procs -> Keys \cup {NULL}]
      BY <2>3 DEF TypeOK, HashTypeOK
    <3>2. IsHash(semd_h')
      BY <2>2, <2>3
    <3> QED
      BY <2>3, <3>1, <3>2 DEF TypeOK, HashTypeOK, IsHash
  <2>7. softBlockCount' \in Int
    BY <2>3 DEF TypeOK
  <2> QED
    BY <1>2, <2>5, <2>6, <2>7 DEF TypeOK
<1> QED
  BY <1>3, <1>4

----------------------------------------------------------------------------
(* The invariant.                                                          *)

\* main leaves well-formed queues and one process, executing.
LEMMA InitType == Init => TypeOK
<1> SUFFICES ASSUME Init PROVE TypeOK
  OBVIOUS
<1>1. 1 \in Procs /\ 1 \in Namespaces
  BY PcbAssumption, NucleusAssumption DEF Procs, Namespaces
<1>2. pcbFree \in Seq(Procs)
  <2>1. MAXPROC - 1 \in Nat
    BY PcbAssumption
  <2>2. pcbFree \in [1..(MAXPROC - 1) -> Procs]
    BY PcbAssumption DEF Init, Procs
  <2> QED
    BY <2>1, <2>2, SeqDef
<1>3. nsFree \in Seq(Namespaces)
  <2>1. MAXNS - 1 \in Nat
    BY NucleusAssumption
  <2>2. nsFree \in [1..(MAXNS - 1) -> Namespaces]
    BY NucleusAssumption DEF Init, Namespaces
  <2> QED
    BY <2>1, <2>2, SeqDef
<1>4. SchedTypeOK
  BY <1>1, EmptySeq DEF Init, SchedTypeOK
<1>5. TreeTypeOK
  <2>1. p_pid \in [Procs -> 0..MAXPROC]
    BY PcbAssumption DEF Init
  <2>2. p_child \in [Procs -> Seq(Procs)]
    BY EmptySeq DEF Init
  <2>3. p_ns \in [Procs -> Namespaces \cup {NULL}] /\ p_sup \in [Procs -> BOOLEAN]
    BY <1>1 DEF Init
  <2>4. /\ processCount \in Int /\ p_parent \in [Procs -> Procs \cup {NULL}]
        /\ p_status \in [Procs -> Statuses]
    BY NucleusAssumption DEF Init
  <2> QED
    BY <1>2, <1>3, <2>1, <2>2, <2>3, <2>4 DEF TreeTypeOK
<1>6. HashTypeOK
  <2>1. IsHash(semd_h)
    BY DEF Init, IsHash
  <2> QED
    BY <2>1 DEF Init, HashTypeOK
<1>7. softBlockCount \in Int
  BY DEF Init
<1>8. it \in BOOLEAN
  BY Zenon DEF Init
<1>9. dev \in [Devices -> {"ready", "busy", "done"}]
  BY DEF Init
<1> QED
  BY <1>4, <1>5, <1>6, <1>7, <1>8, <1>9 DEF TypeOK

\* Every system call, interrupt and hardware event keeps the types.
LEMMA NextType == TypeOK /\ [Next]_vars => TypeOK'
<1> SUFFICES ASSUME TypeOK, [Next]_vars PROVE TypeOK'
  OBVIOUS
<1> USE DEF TypeOK
<1>1. ASSUME UNCHANGED vars PROVE TypeOK'
  BY <1>1 DEF vars, treeVars, hashVars, schedVars,
              SchedTypeOK, TreeTypeOK, HashTypeOK, IsHash
<1>2. Executing => mode = "run" /\ currentProc \in Procs
  BY DEF Executing, SchedTypeOK
<1>3. ASSUME NEW sup \in Supports, NEW ns \in Namespaces \cup {NULL},
             CreateProcess(sup, ns)
      PROVE  TypeOK'
  BY <1>3, CreateProcessType, NucleusAssumption
<1>4. CASE CreateFails
  BY <1>1, <1>4 DEF CreateFails
<1>5. ASSUME NEW pid \in 0..MAXPROC, TermProcess(pid)
      PROVE  TypeOK'
  <2> DEFINE victim == IF pid = 0 THEN currentProc ELSE GetPcb(p_pid, pid)
  <2>1. victim # NULL => victim \in Procs
    BY <1>2, <1>5, PcbAssumption DEF TermProcess, GetPcb
  <2>2. IF victim # NULL THEN KillAndContinue(victim) ELSE UNCHANGED vars
    BY <1>5 DEF TermProcess
  <2> HIDE DEF victim
  <2> QED
    BY <1>1, <2>1, <2>2, KillType
<1>6. ASSUME NEW s \in UserSems, Passeren(s) \/ Verhogen(s)
      PROVE  TypeOK'
  <2>1. mode = "run" /\ s \in Keys
    BY <1>2, <1>6 DEF Passeren, Verhogen, Keys
  <2>2. UNCHANGED <<treeVars, softBlockCount, it, dev>>
    BY <1>6 DEF Passeren, Verhogen
  <2>3. SemOp(s, 0, softBlockCount) \/ SemOp(s, 1, softBlockCount)
    BY <1>6 DEF Passeren, Verhogen, P, V
  <2> QED
    BY <2>1, <2>2, <2>3, SemCallType
<1>7. ASSUME NEW d \in Devices, DoIo(d)
      PROVE  TypeOK'
  <2>1. mode = "run" /\ d \in Keys
    BY <1>2, <1>7 DEF DoIo, Keys
  <2>2. softBlockCount' = softBlockCount + 1 /\ UNCHANGED <<treeVars, it>>
    BY <1>7 DEF DoIo
  <2>3. SemOp(d, 0, softBlockCount')
    BY <1>7 DEF DoIo, P
  <2>4. dev' \in [Devices -> {"ready", "busy", "done"}]
    BY <1>7 DEF DoIo, WriteCommand
  <2>5. softBlockCount' \in Int
    BY <2>2
  <2> QED
    BY <2>1, <2>2, <2>3, <2>4, <2>5, SemCallType
<1>8. CASE ClockWait
  <2>1. mode = "run" /\ ItSem \in Keys
    BY <1>2, <1>8 DEF ClockWait, Keys
  <2>2. softBlockCount' = softBlockCount + 1 /\ UNCHANGED <<treeVars, it, dev>>
    BY <1>8 DEF ClockWait
  <2>3. SemOp(ItSem, 0, softBlockCount')
    BY <1>8 DEF ClockWait, P
  <2>4. softBlockCount' \in Int
    BY <2>2
  <2> QED
    BY <2>1, <2>2, <2>3, <2>4, SemCallType
<1>20. ASSUME LoadStatus PROVE TypeOK'
  <2>1. p_status' \in [Procs -> Statuses]
    BY <1>20 DEF LoadStatus, TreeTypeOK
  <2> QED
    BY <1>20, <2>1 DEF LoadStatus, hashVars, schedVars,
                       SchedTypeOK, TreeTypeOK, HashTypeOK, IsHash
<1>9. CASE PassUpOrDie \/ SetStatus
  <2>1. LoadStatus \/ (mode = "run" /\ KillAndContinue(currentProc))
    BY <1>2, <1>9 DEF PassUpOrDie, SetStatus
  <2> QED
    BY <1>2, <1>20, <2>1, KillType DEF SchedTypeOK
<1>10. CASE AllocNamespace
  <2>1. nsFree' \in Seq(Namespaces)
    BY <1>10, HeadTailProperties DEF AllocNamespace, TreeTypeOK
  <2> QED
    BY <1>10, <2>1 DEF AllocNamespace, hashVars, schedVars,
                       SchedTypeOK, TreeTypeOK, HashTypeOK, IsHash
<1>11. CASE PltExpire \/ ItExpire \/ Wait
  BY <1>11 DEF PltExpire, ItExpire, Wait, treeVars, hashVars, schedVars,
               SchedTypeOK, TreeTypeOK, HashTypeOK, IsHash
<1>12. ASSUME NEW d \in Devices, DevDone(d)
       PROVE  TypeOK'
  <2>1. /\ UNCHANGED <<treeVars, hashVars, schedVars, softBlockCount, it>>
        /\ dev' = [dev EXCEPT ![d] = "done"]
    BY <1>12 DEF DevDone
  <2>2. dev' \in [Devices -> {"ready", "busy", "done"}]
    BY <2>1
  <2> QED
    BY <2>1, <2>2 DEF treeVars, hashVars, schedVars,
                      SchedTypeOK, TreeTypeOK, HashTypeOK, IsHash
<1>13. CASE PltHandler
  <2>1. UNCHANGED <<treeVars, hashVars, softBlockCount, it, dev>>
    BY <1>13 DEF PltHandler
  <2>2. SchedTypeOK'
    <3>1. CASE currentProc = NULL
      BY <1>13, <3>1 DEF PltHandler, SchedTypeOK
    <3>2. CASE currentProc # NULL
      <4>1. currentProc \in Procs /\ readyQueue \in Seq(Procs)
        BY <3>2 DEF SchedTypeOK
      <4>2. WakeAll(readyQueue, <<currentProc>>) \in Seq(Procs)
        <5>1. <<currentProc>> \in Seq(Procs)
          BY <4>1, OneElement
        <5> QED
          BY <4>1, <5>1, WakeAllType
      <4>3. Scheduler(WakeAll(readyQueue, <<currentProc>>),
                      processCount, softBlockCount, FALSE)
        BY <1>13, <3>2 DEF PltHandler
      <4> QED
        BY <4>2, <4>3, SchedulerType
    <3> QED
      BY <3>1, <3>2
  <2> QED
    BY <2>1, <2>2 DEF treeVars, hashVars, TreeTypeOK, HashTypeOK, IsHash
<1>14. CASE ItHandler
  BY <1>14, ItHandlerType
<1>15. ASSUME NEW d \in Devices, DevHandler(d)
       PROVE  TypeOK'
  BY <1>15, DevHandlerType
<1>16. CASE Stopped
  BY <1>1, <1>16 DEF Stopped
<1> QED
  BY <1>1, <1>3, <1>4, <1>5, <1>6, <1>7, <1>8, <1>9, <1>10, <1>11, <1>12,
     <1>13, <1>14, <1>15, <1>16 DEF Next

\* The type invariant holds in every reachable state: no queue, hash entry or
\* tree link ever holds anything but a PCB, and a null currentProc is never
\* executed.
THEOREM TypeCorrect == Spec => []TypeOK
<1> QED
  BY InitType, NextType, PTL DEF Spec

----------------------------------------------------------------------------
(* The queue of each key after each operation on the hash.                 *)

\* headBlocked and the handlers that found nobody change no queue.
LEMMA IfEmptyDeallocQueues ==
    ASSUME NEW h, NEW s, NEW k
    PROVE  Procq(IfEmptyDealloc(h, s), k) = Procq(h, k)
<1> DEFINE r == Restrict(h, DOMAIN h \ {s})
<1>1. CASE Procq(h, s) # <<>>
  BY <1>1 DEF IfEmptyDealloc
<1>2. CASE Procq(h, s) = <<>>
  <2>1. r = [x \in DOMAIN h \ {s} |-> h[x]]
    BY DEF Restrict
  <2>2. DOMAIN r = DOMAIN h \ {s} /\ \A x \in DOMAIN r : r[x] = h[x]
    BY <2>1
  <2>3. IfEmptyDealloc(h, s) = r
    BY <1>2 DEF IfEmptyDealloc
  <2> HIDE DEF r
  <2>4. Procq(r, k) = Procq(h, k)
    BY <1>2, <2>2 DEF Procq
  <2> QED
    BY <2>3, <2>4
<1> QED
  BY <1>1, <1>2

\* insertBlocked changes one queue.
LEMMA InsertBlockedQueues ==
    ASSUME NEW h, NEW s, NEW p, NEW k
    PROVE  Procq(InsertBlocked(h, s, p), k) =
              IF k = s THEN Append(Procq(h, s), p) ELSE Procq(h, k)
<1> DEFINE r == InsertBlocked(h, s, p)
<1>1. DOMAIN r = DOMAIN h \cup {s}
  BY DEF InsertBlocked
<1>2. \A x \in DOMAIN r : r[x] = IF x = s THEN Append(Procq(h, s), p) ELSE h[x]
  BY DEF InsertBlocked, InsertProcQ
<1> HIDE DEF r
<1>3. k = s => Procq(r, k) = Append(Procq(h, s), p)
  BY <1>1, <1>2 DEF Procq
<1>4. k # s => Procq(r, k) = Procq(h, k)
  BY <1>1, <1>2 DEF Procq
<1> QED
  BY <1>3, <1>4 DEF r

\* removeBlocked takes the head of one queue.
LEMMA RemoveBlockedQueues ==
    ASSUME NEW h, IsHash(h), NEW s \in DOMAIN h, NEW k
    PROVE  Procq(RemoveBlocked(h, s), k) =
              IF k = s THEN Tail(h[s]) ELSE Procq(h, k)
<1> DEFINE r == [h EXCEPT ![s] = Tail(@)]
<1>1. RemoveBlocked(h, s) = IfEmptyDealloc(r, s)
  BY DEF RemoveBlocked
<1>2. DOMAIN r = DOMAIN h /\ \A x \in DOMAIN h : r[x] = IF x = s THEN Tail(h[s]) ELSE h[x]
  BY DEF IsHash
<1> HIDE DEF r
<1>3. Procq(r, k) = IF k = s THEN Tail(h[s]) ELSE Procq(h, k)
  BY <1>2 DEF Procq
<1> QED
  BY <1>1, <1>3, IfEmptyDeallocQueues

\* The dead leave the queue their p_semAdd names.
LEMMA OutBlockedQueues ==
    ASSUME NEW h, IsHash(h), NEW semAdd, NEW D, NEW k
    PROVE  Procq(OutBlocked(h, semAdd, D), k) =
              Without(Procq(h, k), {p \in D : semAdd[p] = k})
<1> DEFINE left(x) == Without(h[x], {p \in D : semAdd[p] = x})
           r == OutBlocked(h, semAdd, D)
<1>1. /\ DOMAIN r = {x \in DOMAIN h : left(x) # <<>>}
      /\ \A x \in DOMAIN r : r[x] = left(x)
  BY DEF OutBlocked
<1>2. Without(<<>>, {p \in D : semAdd[p] = k}) = <<>>
  <2> DEFINE dead == {p \in D : semAdd[p] = k}
             e == <<>>
             w == Without(e, dead)
  <2>1. e \in Seq(Procs) /\ Range(e) = {}
    BY EmptySeq DEF Range
  <2> HIDE DEF dead, e
  <2>2. w \in Seq(Procs) /\ Range(w) = {}
    BY <2>1, WithoutProperty
  <2> HIDE DEF w
  <2>3. w = <<>>
    <3>1. Len(w) \in Nat /\ DOMAIN w = 1..Len(w) /\ (w # <<>> => Len(w) # 0)
      BY <2>2, LenProperties, EmptySeq
    <3>2. DOMAIN w = {}
      BY <2>2 DEF Range
    <3> QED
      BY <3>1, <3>2
  <2> QED
    BY <2>3 DEF dead, e, w
<1> HIDE DEF r
<1>3. Procq(r, k) = Without(Procq(h, k), {p \in D : semAdd[p] = k})
  <2>1. CASE k \notin DOMAIN h
    BY <1>1, <1>2, <2>1 DEF Procq
  <2>2. CASE k \in DOMAIN h
    BY <1>1, <2>2 DEF Procq
  <2> QED
    BY <2>1, <2>2
<1> QED
  BY <1>3 DEF r

----------------------------------------------------------------------------
(* One place for each PCB.  Seated is Placement without the PIDs, of any   *)
(* ready queue, hash, free list and set of executing processes, so that it *)
(* can be said of the state in the middle of a handler.                    *)

Seated(rq, h, semAdd, free, on) ==
    /\ IsInjective(free) /\ IsInjective(rq)
    /\ \A s \in Keys : IsInjective(Procq(h, s))
    /\ \A s \in Keys, p \in Procs : p \in Range(Procq(h, s)) <=> semAdd[p] = s
    /\ \A p \in Procs :
          /\ p \in Range(free) \/ p \in Range(rq) \/ p \in on \/ semAdd[p] # NULL
          /\ p \in Range(free) => p \notin Range(rq) /\ p \notin on /\ semAdd[p] = NULL
          /\ p \in Range(rq) => p \notin on /\ semAdd[p] = NULL
          /\ p \in on => semAdd[p] = NULL

\* Who executes between two exceptions.
OnProcessor(m, c) == IF m = "run" THEN {c} ELSE {}

\* Placement in these terms.
Placed ==
    /\ Seated(readyQueue, semd_h, p_semAdd, pcbFree, OnProcessor(mode, currentProc))
    /\ \A p \in Procs : p_pid[p] = IF p \in Range(pcbFree) THEN 0 ELSE p

\* Seated, of the state between two exceptions, and the PIDs are what
\* Placement says.
LEMMA PlacementIsPlaced == HashTypeOK => (Placement <=> Placed)
<1> SUFFICES ASSUME HashTypeOK PROVE Placement <=> Placed
  OBVIOUS
<1>1. \A s \in Keys, p \in Procs : BlockedOn(p, s) <=> p \in Range(Procq(semd_h, s))
  <2>1. Range(<<>>) = {}
    BY DEF Range
  <2> QED
    BY <2>1 DEF BlockedOn, Procq
<1>2. (\A s \in DOMAIN semd_h : Distinct(semd_h[s])) <=>
         (\A s \in Keys : IsInjective(Procq(semd_h, s)))
  <2>1. IsInjective(<<>>)
    BY DEF IsInjective
  <2> QED
    BY <2>1 DEF HashTypeOK, IsHash, Procq, Distinct
<1>3. \A p \in Procs : IsRunning(p) <=> p \in OnProcessor(mode, currentProc)
  BY DEF IsRunning, OnProcessor
<1> QED
  BY <1>1, <1>2, <1>3 DEF Placement, Placed, Seated, Distinct, IsFree, IsReady

\* The scheduler seats the head of the ready queue, or nobody.
LEMMA SchedulerSeats ==
    ASSUME NEW rq \in Seq(Procs), NEW h, NEW semAdd, NEW free,
           NEW n, NEW soft, NEW pending,
           Seated(rq, h, semAdd, free, {}),
           Scheduler(rq, n, soft, pending)
    PROVE  Seated(readyQueue', h, semAdd, free, OnProcessor(mode', currentProc'))
<1>1. CASE readyQueue' = rq /\ mode' # "run"
  BY <1>1 DEF OnProcessor
<1>2. CASE /\ mode' = "run" /\ rq # <<>>
           /\ currentProc' = Head(rq) /\ readyQueue' = Tail(rq)
  <2>1. IsInjective(rq)
    BY DEF Seated
  <2>2. /\ Head(rq) \in Range(rq)
        /\ IsInjective(Tail(rq)) /\ Range(Tail(rq)) = Range(rq) \ {Head(rq)}
    BY <1>2, <2>1, TailRange
  <2>3. Seated(Tail(rq), h, semAdd, free, {Head(rq)})
    BY <2>2 DEF Seated
  <2> QED
    BY <1>2, <2>3 DEF OnProcessor
<1>3. IdleMode(soft) # "run"
  BY DEF IdleMode
<1> QED
  BY <1>1, <1>2, <1>3 DEF Scheduler

\* So does the end of an interrupt handler, if nobody was interrupted.
LEMMA ExitIntHandlerSeats ==
    ASSUME SchedTypeOK,
           NEW rq \in Seq(Procs), NEW h, NEW semAdd, NEW free, NEW soft,
           Seated(rq, h, semAdd, free, OnProcessor(mode, currentProc)),
           ExitIntHandler(rq, soft)
    PROVE  Seated(readyQueue', h, semAdd, free, OnProcessor(mode', currentProc'))
<1>1. CASE currentProc # NULL
  BY <1>1 DEF ExitIntHandler
<1>2. CASE currentProc = NULL
  <2>1. OnProcessor(mode, currentProc) = {}
    BY <1>2, PcbAssumption DEF OnProcessor, SchedTypeOK
  <2>2. Scheduler(rq, processCount, soft, plt)
    BY <1>2 DEF ExitIntHandler
  <2> QED
    BY <2>1, <2>2, SchedulerSeats
<1> QED
  BY <1>1, <1>2

\* insertBlocked, of the process that gives up the processor.
LEMMA BlockSeats ==
    ASSUME NEW rq, NEW h, IsHash(h), NEW semAdd \in [Procs -> Keys \cup {NULL}],
           NEW free, NEW p \in Procs, NEW s \in Keys,
           Seated(rq, h, semAdd, free, {p})
    PROVE  Seated(rq, InsertBlocked(h, s, p), [semAdd EXCEPT ![p] = s], free, {})
<1> DEFINE h2 == InsertBlocked(h, s, p)
           sa == [semAdd EXCEPT ![p] = s]
<1>1. \A k \in Keys : Procq(h2, k) = IF k = s THEN Append(Procq(h, s), p) ELSE Procq(h, k)
  BY InsertBlockedQueues
<1>2. \A k \in Keys : Procq(h, k) \in Seq(Procs) /\ p \notin Range(Procq(h, k))
                      /\ IsInjective(Procq(h, k))
  <2>1. semAdd[p] = NULL
    BY DEF Seated
  <2> QED
    BY <2>1, ProcqType, NucleusAssumption DEF Seated
<1>3. /\ IsInjective(Append(Procq(h, s), p))
      /\ Range(Append(Procq(h, s), p)) = Range(Procq(h, s)) \cup {p}
  BY <1>2, InsertRange
<1> HIDE DEF h2
<1>4. \A k \in Keys : IsInjective(Procq(h2, k))
  BY <1>1, <1>2, <1>3
<1>5. sa[p] = s /\ \A q \in Procs : q # p => sa[q] = semAdd[q]
  OBVIOUS
<1> HIDE DEF sa
<1>6. \A k \in Keys, q \in Procs : q \in Range(Procq(h2, k)) <=> sa[q] = k
  <2> SUFFICES ASSUME NEW k \in Keys, NEW q \in Procs
               PROVE  q \in Range(Procq(h2, k)) <=> sa[q] = k
    OBVIOUS
  <2>1. q \in Range(Procq(h, k)) <=> semAdd[q] = k
    BY DEF Seated
  <2>2. q \in Range(Procq(h2, k)) <=> q \in Range(Procq(h, k)) \/ (k = s /\ q = p)
    BY <1>1, <1>3
  <2>3. p \notin Range(Procq(h, k))
    BY <1>2
  <2> QED
    BY <1>5, <2>1, <2>2, <2>3
<1>7. s # NULL
  BY NucleusAssumption
<1> QED
  BY <1>4, <1>5, <1>6, <1>7 DEF Seated, h2, sa

\* Living processes are all added to the ready queue, whichever way they
\* were found.
LEMMA WakeAllRange ==
    ASSUME NEW rq \in Seq(Procs), NEW q \in Seq(Procs),
           IsInjective(rq), IsInjective(q), Range(rq) \cap Range(q) = {},
           \A p \in Range(q) : p_pid[p] # 0
    PROVE  /\ Range(WakeAll(rq, q)) = Range(rq) \cup Range(q)
           /\ IsInjective(WakeAll(rq, q))
<1> DEFINE gone == {p \in Procs : ~IsPcbActive(p_pid, p)}
           w    == Without(q, gone)
<1>1. \A p \in Range(q) : p \notin gone
  BY PcbAssumption DEF IsPcbActive
<1>2. WakeAll(rq, q) = rq \o w
  BY DEF WakeAll
<1> HIDE DEF gone
<1>3. w \in Seq(Procs) /\ Range(w) = Range(q) /\ IsInjective(w)
  <2>1. /\ w \in Seq(Procs) /\ Range(w) = Range(q) \ gone
        /\ IsInjective(q) => IsInjective(w)
    BY WithoutProperty
  <2>2. Range(q) \ gone = Range(q)
    BY <1>1
  <2> HIDE DEF w
  <2> QED
    BY <2>1, <2>2
<1> HIDE DEF w
<1>4. Range(rq \o w) = Range(rq) \cup Range(q) /\ IsInjective(rq \o w)
  BY <1>3, ConcatRange
<1> QED
  BY <1>2, <1>4

\* Waking a queue of blocked processes: h2 is the hash without them.
LEMMA WakeSeats ==
    ASSUME NEW rq \in Seq(Procs), NEW q \in Seq(Procs), NEW h, NEW h2,
           NEW semAdd \in [Procs -> Keys \cup {NULL}], NEW free, NEW on,
           Seated(rq, h, semAdd, free, on),
           \A p \in Procs : p_pid[p] = IF p \in Range(free) THEN 0 ELSE p,
           IsInjective(q), \A p \in Range(q) : semAdd[p] # NULL,
           \A s \in Keys : /\ IsInjective(Procq(h2, s))
                           /\ Range(Procq(h2, s)) = Range(Procq(h, s)) \ Range(q)
    PROVE  Seated(WakeAll(rq, q), h2,
                  [p \in Procs |-> IF p \in Range(q) THEN NULL ELSE semAdd[p]],
                  free, on)
<1> DEFINE r  == WakeAll(rq, q)
           sa == [p \in Procs |-> IF p \in Range(q) THEN NULL ELSE semAdd[p]]
<1>1. Range(q) \subseteq Procs /\ \A p \in Procs : p # 0
  BY LenProperties, PcbAssumption DEF Range, Procs
<1>2. \A p \in Range(q) : p_pid[p] # 0 /\ p \notin Range(rq)
  BY <1>1 DEF Seated
<1>3. Range(r) = Range(rq) \cup Range(q) /\ IsInjective(r)
  BY <1>2, WakeAllRange DEF Seated
<1>4. \A p \in Procs : sa[p] = IF p \in Range(q) THEN NULL ELSE semAdd[p]
  OBVIOUS
<1> HIDE DEF r, sa
<1>5. \A s \in Keys, p \in Procs : p \in Range(Procq(h2, s)) <=> sa[p] = s
  BY <1>4, NucleusAssumption DEF Seated
<1>6. Seated(r, h2, sa, free, on)
  BY <1>3, <1>4, <1>5 DEF Seated
<1> QED
  BY <1>6 DEF r, sa

\* V and P on an open semaphore with a queue, and a device's interrupt: the
\* head of the queue becomes ready.
LEMMA HandOffSeats ==
    ASSUME HashTypeOK, readyQueue \in Seq(Procs), Placed, NEW s \in DOMAIN semd_h
    PROVE  LET p == HeadBlocked(semd_h, s)
           IN  Seated(WakeAll(readyQueue, <<p>>), RemoveBlocked(semd_h, s),
                      [p_semAdd EXCEPT ![p] = NULL],
                      pcbFree, OnProcessor(mode, currentProc))
<1> DEFINE p  == HeadBlocked(semd_h, s)
           q  == <<p>>
           h2 == RemoveBlocked(semd_h, s)
           sa == [x \in Procs |-> IF x \in Range(q) THEN NULL ELSE p_semAdd[x]]
           on == OnProcessor(mode, currentProc)
<1>1. /\ s \in Keys /\ p = Head(semd_h[s]) /\ p \in Procs
      /\ Procq(semd_h, s) = semd_h[s]
      /\ semd_h[s] \in Seq(Procs) /\ semd_h[s] # <<>>
  BY ProcqType DEF HashTypeOK, IsHash, Procq
<1>2. IsInjective(semd_h[s])
  BY <1>1 DEF Placed, Seated
<1>3. /\ p \in Range(semd_h[s]) /\ IsInjective(Tail(semd_h[s]))
      /\ Range(Tail(semd_h[s])) = Range(semd_h[s]) \ {p}
  BY <1>1, <1>2, TailRange
<1>4. p_semAdd[p] = s /\ p_semAdd[p] # NULL
  BY <1>1, <1>3, NucleusAssumption DEF Placed, Seated
<1> HIDE DEF p
<1>5. q \in Seq(Procs) /\ Range(q) = {p} /\ IsInjective(q)
  <2>1. q \in Seq(Procs) /\ Range(q) = {p}
    BY <1>1, OneElement
  <2>2. IsInjective(q)
    BY DEF IsInjective
  <2> QED
    BY <2>1, <2>2
<1>6. \A k \in Keys : /\ IsInjective(Procq(h2, k))
                      /\ Range(Procq(h2, k)) = Range(Procq(semd_h, k)) \ {p}
  <2> SUFFICES ASSUME NEW k \in Keys
               PROVE  /\ IsInjective(Procq(h2, k))
                      /\ Range(Procq(h2, k)) = Range(Procq(semd_h, k)) \ {p}
    OBVIOUS
  <2>1. Procq(h2, k) = IF k = s THEN Tail(semd_h[s]) ELSE Procq(semd_h, k)
    BY RemoveBlockedQueues DEF HashTypeOK
  <2>2. k # s => p \notin Range(Procq(semd_h, k)) /\ IsInjective(Procq(semd_h, k))
    BY <1>1, <1>4 DEF Placed, Seated
  <2> QED
    BY <1>1, <1>3, <2>1, <2>2
<1> HIDE DEF q, h2, on
<1>7. Seated(WakeAll(readyQueue, q), h2, sa, pcbFree, on)
  <2>1. \A x \in Range(q) : p_semAdd[x] # NULL
    BY <1>4, <1>5
  <2>2. \A k \in Keys : /\ IsInjective(Procq(h2, k))
                        /\ Range(Procq(h2, k)) = Range(Procq(semd_h, k)) \ Range(q)
    BY <1>5, <1>6
  <2>3. /\ Seated(readyQueue, semd_h, p_semAdd, pcbFree, on)
        /\ \A x \in Procs : p_pid[x] = IF x \in Range(pcbFree) THEN 0 ELSE x
    BY DEF Placed, on
  <2> QED
    BY <1>5, <2>1, <2>2, <2>3, WakeSeats DEF HashTypeOK
<1>8. sa = [p_semAdd EXCEPT ![p] = NULL]
  BY <1>1, <1>5 DEF HashTypeOK
<1> QED
  BY <1>7, <1>8 DEF p, q, h2, on

\* __killProcess: the dead leave every queue and join the free list.
LEMMA KillSeats ==
    ASSUME HashTypeOK, readyQueue \in Seq(Procs), Placed,
           NEW dead \in SUBSET Procs, NEW free,
           IsInjective(free), Range(free) = Range(pcbFree) \cup dead
    PROVE  Seated(ReadyLeft(dead), OutBlocked(semd_h, p_semAdd, dead),
                  [p \in Procs |-> IF p \in dead THEN NULL ELSE p_semAdd[p]],
                  free, OnProcessor(mode, currentProc) \ dead)
<1> DEFINE rq == ReadyLeft(dead)
           h2 == OutBlocked(semd_h, p_semAdd, dead)
           sa == [p \in Procs |-> IF p \in dead THEN NULL ELSE p_semAdd[p]]
           on == OnProcessor(mode, currentProc)
<1>1. Range(rq) = Range(readyQueue) \ dead /\ IsInjective(rq)
  BY WithoutProperty DEF ReadyLeft, Placed, Seated
<1>2. \A k \in Keys : IsInjective(Procq(h2, k))
                      /\ Range(Procq(h2, k)) = Range(Procq(semd_h, k)) \ dead
  <2> SUFFICES ASSUME NEW k \in Keys
               PROVE  IsInjective(Procq(h2, k))
                      /\ Range(Procq(h2, k)) = Range(Procq(semd_h, k)) \ dead
    OBVIOUS
  <2> DEFINE here == {p \in dead : p_semAdd[p] = k}
             q    == Procq(semd_h, k)
  <2>1. q \in Seq(Procs) /\ IsInjective(q)
    BY ProcqType DEF HashTypeOK, Placed, Seated
  <2>2. Procq(h2, k) = Without(q, here)
    BY OutBlockedQueues DEF HashTypeOK
  <2>3. Range(q) \subseteq Procs
    BY <2>1, LenProperties DEF Range
  <2>4. \A p \in Range(q) : p \in here <=> p \in dead
    BY <2>3 DEF Placed, Seated
  <2> HIDE DEF q, here
  <2>5. Range(Without(q, here)) = Range(q) \ here /\ IsInjective(Without(q, here))
    BY <2>1, WithoutProperty
  <2> QED
    BY <2>2, <2>4, <2>5 DEF q
<1>3. \A p \in Procs : sa[p] = IF p \in dead THEN NULL ELSE p_semAdd[p]
  OBVIOUS
<1> HIDE DEF rq, h2, sa, on
<1>4. \A k \in Keys, p \in Procs : p \in Range(Procq(h2, k)) <=> sa[p] = k
  BY <1>2, <1>3, NucleusAssumption DEF Placed, Seated
<1>5. \A p \in Procs :
         /\ p \in Range(free) \/ p \in Range(rq) \/ p \in on \ dead \/ sa[p] # NULL
         /\ p \in Range(free) => p \notin Range(rq) /\ p \notin on \ dead /\ sa[p] = NULL
         /\ p \in Range(rq) => p \notin on \ dead /\ sa[p] = NULL
         /\ p \in on \ dead => sa[p] = NULL
  BY <1>1, <1>3 DEF Placed, Seated, on
<1>6. Seated(rq, h2, sa, free, on \ dead)
  BY <1>1, <1>2, <1>4, <1>5 DEF Seated
<1> QED
  BY <1>6 DEF rq, h2, sa, on

----------------------------------------------------------------------------
(* Handlers over Placed.                                                   *)

\* MAXPROC descriptors are enough: with one process executing, the others
\* cannot be blocked on MAXPROC different semaphores.
LEMMA NotExhausted ==
    ASSUME NEW rq, NEW h, IsHash(h), NEW semAdd, NEW free, NEW p \in Procs,
           Seated(rq, h, semAdd, free, {p}), NEW s
    PROVE  ~Exhausted(h, s)
<1> DEFINE f == [k \in DOMAIN h |-> Head(h[k])]
<1>1. \A k \in DOMAIN h : Head(h[k]) \in Procs /\ semAdd[Head(h[k])] = k
  <2> SUFFICES ASSUME NEW k \in DOMAIN h
               PROVE  Head(h[k]) \in Procs /\ semAdd[Head(h[k])] = k
    OBVIOUS
  <2>1. k \in Keys /\ Procq(h, k) = h[k] /\ h[k] \in Seq(Procs) /\ h[k] # <<>>
    BY DEF IsHash, Procq
  <2>2. IsInjective(h[k])
    BY <2>1 DEF Seated
  <2>3. Head(h[k]) \in Range(h[k]) /\ Head(h[k]) \in Procs
    BY <2>1, <2>2, TailRange
  <2> QED
    BY <2>1, <2>3 DEF Seated
<1>2. semAdd[p] = NULL /\ NULL \notin DOMAIN h
  BY NucleusAssumption DEF Seated, IsHash
<1>3. f \in Injection(DOMAIN h, Procs \ {p})
  <2>1. f \in [DOMAIN h -> Procs \ {p}]
    BY <1>1, <1>2
  <2>2. IsInjective(f)
    BY <1>1 DEF IsInjective
  <2> QED
    BY <2>1, <2>2 DEF Injection
<1>4. /\ IsFiniteSet(Procs \ {p}) /\ Cardinality(Procs \ {p}) = MAXPROC - 1
  <2>1. IsFiniteSet(Procs) /\ Cardinality(Procs) = MAXPROC
    BY FS_Interval, PcbAssumption DEF Procs
  <2> QED
    BY <2>1, FS_RemoveElement
<1>5. /\ IsFiniteSet(DOMAIN h)
      /\ Cardinality(DOMAIN h) <= Cardinality(Procs \ {p})
  <2> HIDE DEF f
  <2> QED
    BY <1>3, <1>4, FS_Injection
<1>6. Cardinality(DOMAIN h) \in Nat
  BY <1>5, FS_CardinalityType
<1>7. Cardinality(DOMAIN h) # MAXPROC
  BY <1>4, <1>5, <1>6, PcbAssumption
<1> QED
  BY <1>7 DEF Exhausted

\* No PANIC for want of a descriptor, and nobody executes in WAIT.
ModeInv ==
    /\ AshNeverExhausted
    /\ mode \in {"idle", "wait"} => currentProc = NULL

\* Both are so whenever the scheduler has run.
LEMMA SchedulerModes ==
    ASSUME NEW rq, NEW n, NEW soft, NEW pending, Scheduler(rq, n, soft, pending)
    PROVE  ModeInv'
<1>1. IdleMode(soft) # "ashPanic"
  BY DEF IdleMode
<1> QED
  BY <1>1 DEF Scheduler, ModeInv, AshNeverExhausted

\* P and V keep everybody in one place, and find a descriptor.
LEMMA SemOpPlaces ==
    ASSUME TypeOK, Placed, mode = "run",
           NEW s \in Keys, NEW closed, NEW soft, SemOp(s, closed, soft),
           UNCHANGED <<pcbFree, p_pid>>
    PROVE  Placed' /\ ModeInv'
<1> USE DEF TypeOK, SchedTypeOK, HashTypeOK
<1>1. /\ OnProcessor(mode, currentProc) = {currentProc} /\ currentProc \in Procs
      /\ Seated(readyQueue, semd_h, p_semAdd, pcbFree, {currentProc})
  BY DEF OnProcessor, Placed
<1>2. \A p \in Procs : p_pid'[p] = IF p \in Range(pcbFree') THEN 0 ELSE p
  BY DEF Placed
<1>3. CASE Block(s, soft)
  <2>1. ~Exhausted(semd_h, s)
    BY <1>1, NotExhausted
  <2>2. /\ semd_h' = InsertBlocked(semd_h, s, currentProc)
        /\ p_semAdd' = [p_semAdd EXCEPT ![currentProc] = s]
        /\ Scheduler(readyQueue, processCount, soft, plt)
    BY <1>3, <2>1 DEF Block
  <2>3. Seated(readyQueue, semd_h', p_semAdd', pcbFree, {})
    BY <1>1, <2>2, BlockSeats
  <2>4. Seated(readyQueue', semd_h', p_semAdd', pcbFree,
               OnProcessor(mode', currentProc'))
    BY <2>2, <2>3, SchedulerSeats
  <2> QED
    BY <1>2, <2>2, <2>4, SchedulerModes DEF Placed
<1>4. CASE HeadBlocked(semd_h, s) # NULL /\ HandOff(s)
  <2> DEFINE p == HeadBlocked(semd_h, s)
  <2>1. s \in DOMAIN semd_h
    BY <1>4, ProcqType
  <2>2. /\ semd_h' = RemoveBlocked(semd_h, s)
        /\ p_semAdd' = [p_semAdd EXCEPT ![p] = NULL]
        /\ readyQueue' = WakeAll(readyQueue, <<p>>)
        /\ UNCHANGED <<mode, currentProc>>
    BY <1>4 DEF HandOff
  <2>3. Seated(WakeAll(readyQueue, <<p>>), RemoveBlocked(semd_h, s),
               [p_semAdd EXCEPT ![p] = NULL],
               pcbFree, OnProcessor(mode, currentProc))
    BY <2>1, HandOffSeats
  <2> HIDE DEF p
  <2> QED
    BY <1>2, <2>2, <2>3 DEF Placed, ModeInv, AshNeverExhausted
<1>5. CASE Close(s, closed)
  <2>1. /\ semd_h' = IfEmptyDealloc(semd_h, s)
        /\ UNCHANGED <<mode, currentProc, readyQueue, p_semAdd>>
    BY <1>5 DEF Close, schedVars
  <2>2. \A k \in Keys : Procq(semd_h', k) = Procq(semd_h, k)
    BY <2>1, IfEmptyDeallocQueues
  <2> QED
    BY <1>2, <2>1, <2>2 DEF Placed, Seated, ModeInv, AshNeverExhausted
<1> QED
  BY <1>3, <1>4, <1>5 DEF SemOp

----------------------------------------------------------------------------
(* The tree.                                                               *)

\* OneTree with what keeps it so: the first process has no parent, and a
\* free PCB neither parent nor children (freePcb does not reset them:
\* __killProcess has, before it).
TreeInv ==
    /\ OneTree
    /\ p_parent[1] = NULL
    /\ \A p \in Procs : p_pid[p] = 0 => p_parent[p] = NULL /\ p_child[p] = <<>>

\* T holds the children of its members.
ClosedUnder(child, T) == \A t \in T : Range(child[t]) \subseteq T

\* The subtree of v holds v and the children of its members ...
LEMMA SubtreeClosed ==
    ASSUME NEW child \in [Procs -> Seq(Procs)], NEW v \in Procs
    PROVE  /\ v \in Subtree(child, v) /\ Subtree(child, v) \in SUBSET Procs
           /\ ClosedUnder(child, Subtree(child, v))
<1>1. \A t \in Procs : Range(child[t]) \subseteq Procs
  BY LenProperties DEF Range
<1> QED
  BY <1>1 DEF Subtree, ClosedUnder

\* ... is part of every other such set ...
LEMMA SubtreeLeast ==
    ASSUME NEW child, NEW v, NEW T \in SUBSET Procs,
           v \in T, ClosedUnder(child, T)
    PROVE  Subtree(child, v) \subseteq T
BY DEF Subtree, ClosedUnder

\* ... and all its members but v have a parent in it.
LEMMA SubtreeParents ==
    ASSUME NEW child \in [Procs -> Seq(Procs)], NEW v \in Procs,
           NEW c \in Subtree(child, v), c # v
    PROVE  \E t \in Subtree(child, v) : c \in Range(child[t])
<1> DEFINE D == Subtree(child, v)
<1> SUFFICES ASSUME \A t \in D : c \notin Range(child[t]) PROVE FALSE
  OBVIOUS
<1>1. v \in D /\ D \in SUBSET Procs /\ ClosedUnder(child, D)
  BY SubtreeClosed
<1>2. ClosedUnder(child, D \ {c})
  <2> HIDE DEF D
  <2> QED
    BY <1>1 DEF ClosedUnder
<1>3. v \in D \ {c} /\ D \ {c} \in SUBSET Procs
  BY <1>1
<1>4. D \subseteq D \ {c}
  BY <1>2, <1>3, SubtreeLeast
<1> QED
  BY <1>4

\* As long as anybody is alive the first process is, and the living are the
\* least closed set around him; everybody's subtree is alive as long as he is.
LEMMA ActiveSubtree ==
    ASSUME TypeOK, OneTree, NEW v \in Active
    PROVE  /\ 1 \in Active /\ Active = Subtree(p_child, 1)
           /\ ClosedUnder(p_child, Active)
           /\ Subtree(p_child, v) \subseteq Active
<1>1. p_child \in [Procs -> Seq(Procs)] /\ 1 \in Procs
  BY PcbAssumption DEF TypeOK, TreeTypeOK, Procs
<1>2. v \in Procs /\ p_pid[v] # 0 /\ Active \in SUBSET Procs
  BY DEF Active
<1>3. Active = Subtree(p_child, 1)
  BY <1>2 DEF OneTree
<1> HIDE DEF Active
<1>4. 1 \in Active /\ ClosedUnder(p_child, Active)
  BY <1>1, <1>3, SubtreeClosed
<1>5. Subtree(p_child, v) \subseteq Active
  BY <1>2, <1>4, SubtreeLeast
<1> QED
  BY <1>3, <1>4, <1>5

\* A kill leaves the tree of the survivors.
LEMMA KillTree ==
    ASSUME TypeOK, TypeOK', TreeInv,
           NEW v \in Active, NEW dead, dead = Subtree(p_child, v),
           \A p \in Procs :
              /\ p_pid'[p] = IF p \in dead THEN 0 ELSE p_pid[p]
              /\ p_parent'[p] = IF p \in dead THEN NULL ELSE p_parent[p]
              /\ p_child'[p] = ChildrenLeft(v, dead)[p]
    PROVE  TreeInv' /\ Active' = Active \ dead
<1>1. /\ v \in Procs /\ 1 \in Procs
      /\ Active \in SUBSET Procs /\ NULL \notin Procs
  BY PcbAssumption DEF Active, Procs
<1>2. /\ p_child \in [Procs -> Seq(Procs)] /\ p_child' \in [Procs -> Seq(Procs)]
  BY DEF TypeOK, TreeTypeOK
<1>3. /\ 1 \in Active /\ Active = Subtree(p_child, 1)
      /\ dead \subseteq Active /\ ClosedUnder(p_child, Active)
  BY ActiveSubtree DEF TreeInv
<1>4. /\ v \in dead /\ dead \in SUBSET Procs /\ ClosedUnder(p_child, dead)
      /\ \A c \in dead : c # v => \E t \in dead : c \in Range(p_child[t])
  BY <1>1, <1>2, SubtreeClosed, SubtreeParents
<1>5. \A p, c \in Procs : c \in Range(p_child[p]) <=> p_parent[c] = p
  BY DEF TreeInv, OneTree
<1>6. \A p \in Procs : /\ Range(p_child'[p]) =
                             IF p \in dead THEN {} ELSE Range(p_child[p]) \ {v}
                       /\ IsInjective(p_child'[p])
  <2> SUFFICES ASSUME NEW p \in Procs
               PROVE  /\ Range(p_child'[p]) =
                            IF p \in dead THEN {} ELSE Range(p_child[p]) \ {v}
                      /\ IsInjective(p_child'[p])
    OBVIOUS
  <2>1. p_child'[p] = IF p \in dead THEN <<>>
                      ELSE IF p = p_parent[v] THEN Without(p_child[p], {v})
                      ELSE p_child[p]
    BY DEF ChildrenLeft, OutProcQ
  <2>2. IsInjective(<<>>) /\ Range(<<>>) = {}
    BY DEF IsInjective, Range
  <2>3. IsInjective(p_child[p])
    BY DEF TreeInv, OneTree, Distinct
  <2>4. /\ Range(Without(p_child[p], {v})) = Range(p_child[p]) \ {v}
        /\ IsInjective(Without(p_child[p], {v}))
    BY <1>2, <2>3, WithoutProperty
  <2>5. p # p_parent[v] => v \notin Range(p_child[p])
    BY <1>1, <1>5
  <2> QED
    BY <2>1, <2>2, <2>3, <2>4, <2>5
<1>7. \A p, c \in Procs : c \in Range(p_child'[p]) <=> p_parent'[c] = p
  <2> SUFFICES ASSUME NEW p \in Procs, NEW c \in Procs
               PROVE  c \in Range(p_child'[p]) <=> p_parent'[c] = p
    OBVIOUS
  <2>1. CASE c \in dead
    <3>1. p_parent'[c] # p
      BY <1>1, <2>1
    <3>2. p \notin dead /\ c # v => c \notin Range(p_child[p])
      BY <1>4, <1>5, <2>1
    <3>3. c \notin Range(p_child'[p])
      BY <1>6, <3>2
    <3> QED
      BY <3>1, <3>3
  <2>2. CASE c \notin dead
    <3>1. c # v /\ p_parent'[c] = p_parent[c]
      BY <1>4, <2>2
    <3>2. p \in dead => c \notin Range(p_child[p])
      BY <1>4, <2>2 DEF ClosedUnder
    <3>3. c \in Range(p_child'[p]) <=> c \in Range(p_child[p])
      BY <1>6, <3>1, <3>2
    <3>4. c \in Range(p_child[p]) <=> p_parent[c] = p
      BY <1>5
    <3> QED
      BY <3>1, <3>3, <3>4
  <2> QED
    BY <2>1, <2>2
<1>8. Active' = Active \ dead
  BY <1>4 DEF Active
<1>9. Active' = IF p_pid'[1] = 0 THEN {} ELSE Subtree(p_child', 1)
  <2>1. CASE v = 1
    <3>1. Active \subseteq dead
      BY <1>3, <1>4, <2>1
    <3>2. p_pid'[1] = 0
      BY <1>1, <1>4, <2>1
    <3> QED
      BY <1>8, <3>1, <3>2
  <2>2. CASE v # 1
    <3>1. 1 \notin dead
      BY <1>1, <1>4, <1>5, <2>2 DEF TreeInv
    <3>2. p_pid'[1] # 0
      BY <1>1, <1>3, <3>1 DEF Active
    <3>3. PICK S : S = Subtree(p_child', 1)
      OBVIOUS
    <3>4. 1 \in S /\ S \in SUBSET Procs /\ ClosedUnder(p_child', S)
      BY <1>1, <1>2, <3>3, SubtreeClosed
    <3>5. Active \subseteq S \cup dead
      <4>1. ClosedUnder(p_child, S \cup dead)
        <5>1. \A t \in dead : Range(p_child[t]) \subseteq dead
          BY <1>4 DEF ClosedUnder
        <5>2. \A t \in S : t \notin dead => Range(p_child[t]) \subseteq S \cup dead
          <6> SUFFICES ASSUME NEW t \in S, t \notin dead, NEW c \in Range(p_child[t])
                       PROVE  c \in S \cup dead
            OBVIOUS
          <6>1. c # v => c \in Range(p_child'[t])
            BY <1>6, <3>4
          <6>2. Range(p_child'[t]) \subseteq S
            BY <3>4 DEF ClosedUnder
          <6> QED
            BY <1>4, <6>1, <6>2
        <5> QED
          BY <5>1, <5>2 DEF ClosedUnder
      <4>2. S \cup dead \in SUBSET Procs
        BY <1>4, <3>4
      <4> QED
        BY <1>3, <3>4, <4>1, <4>2, SubtreeLeast
    <3>6. S \subseteq Active \ dead
      <4>1. ASSUME NEW t \in Active \ dead, NEW c \in Range(p_child'[t])
            PROVE  c \in Active \ dead
        <5>0. t \in Procs /\ t \notin dead
          BY <1>1
        <5>1. c \in Range(p_child[t]) /\ c # v
          BY <1>6, <4>1, <5>0
        <5>2. c \in Active /\ c \in Procs
          BY <1>1, <1>3, <5>0, <5>1 DEF ClosedUnder
        <5>3. c \notin dead
          BY <1>4, <1>5, <5>0, <5>1, <5>2
        <5> QED
          BY <5>2, <5>3
      <4>2. ClosedUnder(p_child', Active \ dead)
        BY <4>1 DEF ClosedUnder
      <4> QED
        BY <1>1, <1>3, <3>1, <3>3, <4>2, SubtreeLeast
    <3>7. S = Active \ dead
      BY <3>5, <3>6
    <3> QED
      BY <1>8, <3>2, <3>3, <3>7
  <2> QED
    BY <2>1, <2>2
<1>10. OneTree'
  BY <1>6, <1>7, <1>9 DEF OneTree, Distinct
<1>11. p_parent'[1] = NULL
  BY <1>1 DEF TreeInv
<1>12. ASSUME NEW p \in Procs, p_pid'[p] = 0
       PROVE  p_parent'[p] = NULL /\ p_child'[p] = <<>>
  <2>1. CASE p \in dead
    BY <2>1 DEF ChildrenLeft
  <2>2. CASE p \notin dead
    <3>1. p_parent[p] = NULL /\ p_child[p] = <<>>
      BY <1>12, <2>2 DEF TreeInv
    <3>2. v \notin Range(p_child[p])
      BY <3>1 DEF Range
    <3>3. p # p_parent[v]
      BY <1>1, <1>5, <3>2
    <3> QED
      BY <2>2, <3>1, <3>3 DEF ChildrenLeft
  <2> QED
    BY <2>1, <2>2
<1> QED
  BY <1>8, <1>10, <1>11, <1>12 DEF TreeInv

\* The order in which the dead are freed names each of them once.
LEMMA OrdersProperty ==
    ASSUME NEW D \in SUBSET Procs, NEW before, NEW o \in Orders(D, before)
    PROVE  o \in Seq(Procs) /\ IsInjective(o) /\ Range(o) = D
<1> DEFINE n == Cardinality(D)
<1>1. IsFiniteSet(D) /\ n \in Nat
  <2>1. IsFiniteSet(Procs)
    BY FS_Interval, PcbAssumption DEF Procs
  <2> QED
    BY <2>1, FS_Subset, FS_CardinalityType
<1>2. /\ o \in [1..n -> D]
      /\ \A i, j \in 1..n : i < j => o[i] # o[j]
  BY DEF Orders
<1> HIDE DEF n
<1>3. IsInjective(o)
  <2> SUFFICES ASSUME NEW i \in 1..n, NEW j \in 1..n, o[i] = o[j], i # j
               PROVE  FALSE
    BY <1>2 DEF IsInjective
  <2>1. i < j \/ j < i
    BY <1>1
  <2> QED
    BY <1>2, <2>1
<1>4. o \in Injection(1..n, D)
  BY <1>2, <1>3 DEF Injection
<1>5. Cardinality(1..n) = n
  BY <1>1, FS_Interval
<1>6. o \in Surjection(1..n, D)
  BY <1>1, <1>4, <1>5, FS_Injection DEF n
<1>7. Range(o) = D
  BY <1>2, <1>6 DEF Surjection, Range
<1>8. o \in Seq(Procs)
  <2>1. o \in [1..n -> Procs]
    BY <1>2
  <2> QED
    BY <1>1, <2>1, SeqDef
<1> QED
  BY <1>3, <1>7, <1>8

----------------------------------------------------------------------------
(* The invariant, and the actions that move PCBs.                          *)

\* What the steps preserve: Placement needs the tree (a kill must not free
\* what is free already), the tree needs Placement (a new process' PCB must
\* be no one's child), and both need that P and V find a descriptor (or
\* the process that blocks would be nowhere).
IInv == TypeOK /\ Placed /\ TreeInv /\ ModeInv

\* The PCBs that are not free are the active ones.
LEMMA ActiveIsNotFree ==
    ASSUME Placed
    PROVE  \A p \in Procs : p \in Active <=> p \notin Range(pcbFree)
<1>1. \A p \in Procs : p # 0
  BY PcbAssumption DEF Procs
<1> QED
  BY <1>1 DEF Placed, Active

\* TERMPROCESS and die: a kill of a living process.
LEMMA KillKeeps ==
    ASSUME IInv, mode = "run", NEW v \in Active, KillAndContinue(v)
    PROVE  IInv'
<1> DEFINE dead == Subtree(p_child, v)
<1>1. v \in Procs
  BY DEF Active
<1>2. TypeOK'
  BY <1>1, KillType DEF IInv
<1>3. /\ KillProcess(v, dead)
      /\ IF currentProc \in dead
         THEN Scheduler(ReadyLeft(dead), processCount', softBlockCount', plt)
         ELSE /\ readyQueue' = ReadyLeft(dead)
              /\ UNCHANGED <<mode, currentProc, plt>>
  BY DEF KillAndContinue
<1>4. dead \in SUBSET Procs /\ dead \subseteq Active
  <2>1. dead \subseteq Active
    BY ActiveSubtree DEF IInv, TreeInv
  <2> QED
    BY <2>1 DEF Active
<1>5. TreeInv'
  <2>1. \A p \in Procs :
           /\ p_pid'[p] = IF p \in dead THEN 0 ELSE p_pid[p]
           /\ p_parent'[p] = IF p \in dead THEN NULL ELSE p_parent[p]
           /\ p_child'[p] = ChildrenLeft(v, dead)[p]
    BY <1>3 DEF KillProcess
  <2> QED
    BY <1>2, <2>1, KillTree DEF IInv
<1> HIDE DEF dead
<1>6. /\ \A p \in Procs : p_pid'[p] = IF p \in dead THEN 0 ELSE p_pid[p]
      /\ semd_h' = OutBlocked(semd_h, p_semAdd, dead)
      /\ p_semAdd' = [p \in Procs |-> IF p \in dead THEN NULL ELSE p_semAdd[p]]
  BY <1>3 DEF KillProcess
<1>7. IsInjective(pcbFree') /\ Range(pcbFree') = Range(pcbFree) \cup dead
  <2>1. PICK before : \E o \in Orders(dead, before) : pcbFree' = pcbFree \o o
    BY <1>3 DEF KillProcess
  <2>2. PICK o \in Orders(dead, before) : pcbFree' = pcbFree \o o
    BY <2>1
  <2>3. o \in Seq(Procs) /\ IsInjective(o) /\ Range(o) = dead
    BY <1>4, <2>2, OrdersProperty
  <2>4. IsInjective(pcbFree) /\ pcbFree \in Seq(Procs)
    BY DEF IInv, Placed, Seated, TypeOK, TreeTypeOK
  <2>5. Range(pcbFree) \cap Range(o) = {}
    BY <1>4, <2>3, ActiveIsNotFree DEF IInv
  <2> QED
    BY <2>2, <2>3, <2>4, <2>5, ConcatRange
<1>8. Seated(ReadyLeft(dead), semd_h', p_semAdd', pcbFree',
             OnProcessor(mode, currentProc) \ dead)
  BY <1>4, <1>6, <1>7, KillSeats DEF IInv, TypeOK, SchedTypeOK
<1>9. ReadyLeft(dead) \in Seq(Procs)
  BY WithoutProperty DEF ReadyLeft, IInv, TypeOK, SchedTypeOK
<1>10. Seated(readyQueue', semd_h', p_semAdd', pcbFree', OnProcessor(mode', currentProc'))
       /\ ModeInv'
  <2>1. CASE currentProc \in dead
    <3>1. Seated(ReadyLeft(dead), semd_h', p_semAdd', pcbFree', {})
      <4>1. OnProcessor(mode, currentProc) \ dead = {}
        BY <2>1 DEF OnProcessor
      <4> QED
        BY <1>8, <4>1
    <3>2. Scheduler(ReadyLeft(dead), processCount', softBlockCount', plt)
      BY <1>3, <2>1
    <3> QED
      BY <1>9, <3>1, <3>2, SchedulerSeats, SchedulerModes
  <2>2. CASE currentProc \notin dead
    <3>1. OnProcessor(mode', currentProc') = OnProcessor(mode, currentProc) \ dead
      BY <1>3, <2>2 DEF OnProcessor
    <3>2. readyQueue' = ReadyLeft(dead) /\ mode' = mode
      BY <1>3, <2>2
    <3> QED
      BY <1>8, <3>1, <3>2 DEF IInv, ModeInv, AshNeverExhausted
  <2> QED
    BY <2>1, <2>2
<1>11. \A p \in Procs : p_pid'[p] = IF p \in Range(pcbFree') THEN 0 ELSE p
  BY <1>6, <1>7 DEF IInv, Placed
<1> QED
  BY <1>2, <1>5, <1>10, <1>11 DEF IInv, Placed

\* Whoever executes is alive.
LEMMA RunnerIsActive ==
    ASSUME IInv, mode = "run"
    PROVE  /\ currentProc \in Active /\ currentProc \in Procs
           /\ OnProcessor(mode, currentProc) = {currentProc}
<1>1. currentProc \in Procs /\ OnProcessor(mode, currentProc) = {currentProc}
  BY DEF IInv, TypeOK, SchedTypeOK, OnProcessor
<1>2. currentProc \notin Range(pcbFree)
  BY <1>1 DEF IInv, Placed, Seated
<1> QED
  BY <1>1, <1>2, ActiveIsNotFree DEF IInv

\* A new process is a leaf below its parent.
LEMMA CreateTree ==
    ASSUME TypeOK, TypeOK', TreeInv, NEW c \in Active, NEW n \in Procs, n \notin Active,
           \A p \in Procs :
              /\ p_pid'[p] = IF p = n THEN n ELSE p_pid[p]
              /\ p_parent'[p] = IF p = n THEN c ELSE p_parent[p]
              /\ p_child'[p] = IF p = c THEN Append(p_child[c], n) ELSE p_child[p]
    PROVE  TreeInv'
<1>1. /\ c \in Procs /\ 1 \in Procs /\ n # c /\ Active \in SUBSET Procs
      /\ NULL \notin Procs /\ n # 0
  BY PcbAssumption DEF Active, Procs
<1>2. /\ p_child \in [Procs -> Seq(Procs)] /\ p_child' \in [Procs -> Seq(Procs)]
  BY DEF TypeOK, TreeTypeOK
<1>3. /\ 1 \in Active /\ Active = Subtree(p_child, 1) /\ ClosedUnder(p_child, Active)
  BY ActiveSubtree DEF TreeInv
<1>4. \A p, q \in Procs : q \in Range(p_child[p]) <=> p_parent[q] = p
  BY DEF TreeInv, OneTree
<1>5. p_pid[n] = 0 /\ p_parent[n] = NULL /\ p_child[n] = <<>>
  BY DEF Active, TreeInv
<1>6. \A p \in Procs : n \notin Range(p_child[p])
  BY <1>1, <1>4, <1>5
<1>7. \A p \in Procs :
         /\ Range(p_child'[p]) = IF p = c THEN Range(p_child[c]) \cup {n}
                                 ELSE Range(p_child[p])
         /\ IsInjective(p_child'[p])
  <2>1. \A p \in Procs : IsInjective(p_child[p])
    BY DEF TreeInv, OneTree, Distinct
  <2>2. /\ Range(Append(p_child[c], n)) = Range(p_child[c]) \cup {n}
        /\ IsInjective(Append(p_child[c], n))
    BY <1>1, <1>2, <1>6, <2>1, InsertRange
  <2> QED
    BY <2>1, <2>2
<1>8. \A p, q \in Procs : q \in Range(p_child'[p]) <=> p_parent'[q] = p
  <2> SUFFICES ASSUME NEW p \in Procs, NEW q \in Procs
               PROVE  q \in Range(p_child'[p]) <=> p_parent'[q] = p
    OBVIOUS
  <2>1. q \in Range(p_child[p]) <=> p_parent[q] = p
    BY <1>4
  <2>2. q \in Range(p_child'[p]) <=> q \in Range(p_child[p]) \/ (p = c /\ q = n)
    BY <1>7
  <2>3. q = n => q \notin Range(p_child[p])
    BY <1>6
  <2> QED
    BY <2>1, <2>2, <2>3
<1>9. Active' = Active \cup {n}
  BY <1>1 DEF Active
<1>10. Active' = IF p_pid'[1] = 0 THEN {} ELSE Subtree(p_child', 1)
  <2>1. p_pid'[1] # 0
    BY <1>1, <1>3 DEF Active
  <2>2. PICK S : S = Subtree(p_child', 1)
    OBVIOUS
  <2>3. 1 \in S /\ S \in SUBSET Procs /\ ClosedUnder(p_child', S)
    BY <1>1, <1>2, <2>2, SubtreeClosed
  <2>4. Active \subseteq S
    <3>1. \A t \in S : Range(p_child[t]) \subseteq Range(p_child'[t])
      BY <1>7, <2>3
    <3>2. ClosedUnder(p_child, S)
      BY <2>3, <3>1 DEF ClosedUnder
    <3> QED
      BY <1>3, <2>3, <3>2, SubtreeLeast
  <2>5. n \in S
    <3>1. n \in Range(p_child'[c])
      BY <1>1, <1>7
    <3> QED
      BY <2>3, <2>4, <3>1 DEF ClosedUnder
  <2>6. ClosedUnder(p_child', Active \cup {n})
    <3> SUFFICES ASSUME NEW t \in Active \cup {n}, NEW q \in Range(p_child'[t])
                 PROVE  q \in Active \cup {n}
      BY DEF ClosedUnder
    <3>1. t \in Procs
      BY <1>1
    <3>2. q \in Range(p_child[t]) \/ q = n
      BY <1>7, <3>1
    <3>3. t = n => q \notin Range(p_child[t])
      BY <1>5 DEF Range
    <3>4. t \in Active => Range(p_child[t]) \subseteq Active
      BY <1>3 DEF ClosedUnder
    <3> QED
      BY <3>2, <3>3, <3>4
  <2>7. S \subseteq Active \cup {n}
    <3>1. Active \cup {n} \in SUBSET Procs /\ 1 \in Active \cup {n}
      BY <1>1, <1>3
    <3> QED
      BY <2>2, <2>6, <3>1, SubtreeLeast
  <2>8. S = Active \cup {n}
    BY <2>4, <2>5, <2>7
  <2> QED
    BY <1>9, <2>1, <2>2, <2>8
<1>11. OneTree'
  BY <1>7, <1>8, <1>10 DEF OneTree, Distinct
<1>12. p_parent'[1] = NULL
  BY <1>1, <1>3 DEF TreeInv
<1>13. \A p \in Procs : p_pid'[p] = 0 => p_parent'[p] = NULL /\ p_child'[p] = <<>>
  <2> SUFFICES ASSUME NEW p \in Procs, p_pid'[p] = 0
               PROVE  p_parent'[p] = NULL /\ p_child'[p] = <<>>
    OBVIOUS
  <2>1. p # n /\ p_pid[p] = 0
    BY <1>1
  <2>2. p # c
    BY <2>1 DEF Active
  <2> QED
    BY <2>1, <2>2 DEF TreeInv
<1> QED
  BY <1>11, <1>12, <1>13 DEF TreeInv

\* CREATEPROCESS: the first free PCB becomes the last ready process.
LEMMA CreateKeeps ==
    ASSUME IInv, NEW sup \in BOOLEAN, NEW ns \in Namespaces \cup {NULL},
           CreateProcess(sup, ns)
    PROVE  IInv'
<1> DEFINE n == Head(pcbFree)
<1>1. TypeOK'
  BY CreateProcessType DEF IInv
<1>2. mode = "run" /\ pcbFree # <<>> /\ pcbFree \in Seq(Procs) /\ IsInjective(pcbFree)
  BY DEF CreateProcess, Executing, IInv, TypeOK, TreeTypeOK, Placed, Seated
<1>3. /\ n \in Range(pcbFree) /\ n \in Procs
      /\ IsInjective(Tail(pcbFree)) /\ Range(Tail(pcbFree)) = Range(pcbFree) \ {n}
  BY <1>2, TailRange
<1>4. currentProc \in Active /\ n \notin Active /\ n # currentProc
  BY <1>2, <1>3, RunnerIsActive, ActiveIsNotFree DEF IInv
<1>5. /\ pcbFree' = Tail(pcbFree)
      /\ p_pid' = [p_pid EXCEPT ![n] = n]
      /\ p_parent' = [p_parent EXCEPT ![n] = currentProc]
      /\ p_child' = [[p_child EXCEPT ![n] = <<>>] EXCEPT ![currentProc] = Append(@, n)]
      /\ p_semAdd' = [p_semAdd EXCEPT ![n] = NULL]
      /\ readyQueue' = Append(readyQueue, n)
      /\ UNCHANGED <<mode, currentProc, semd_h>>
  BY DEF CreateProcess, InsertProcQ
<1> HIDE DEF n
<1>6. \A p \in Procs :
         /\ p_pid'[p] = IF p = n THEN n ELSE p_pid[p]
         /\ p_parent'[p] = IF p = n THEN currentProc ELSE p_parent[p]
         /\ p_child'[p] = IF p = currentProc THEN Append(p_child[currentProc], n)
                          ELSE p_child[p]
  <2>1. p_pid[n] = 0 /\ p_child[n] = <<>>
    BY <1>3, <1>4 DEF Active, IInv, TreeInv
  <2> QED
    BY <1>3, <1>4, <1>5, <2>1 DEF IInv, TypeOK, TreeTypeOK
<1>7. TreeInv'
  BY <1>1, <1>3, <1>4, <1>6, CreateTree DEF IInv
<1>8. p_semAdd[n] = NULL /\ n \notin Range(readyQueue)
      /\ n \notin OnProcessor(mode, currentProc)
  BY <1>3 DEF IInv, Placed, Seated
<1>9. \A p \in Procs : p_semAdd'[p] = p_semAdd[p]
  BY <1>5, <1>8 DEF IInv, TypeOK, HashTypeOK
<1>10. /\ IsInjective(Append(readyQueue, n))
       /\ Range(Append(readyQueue, n)) = Range(readyQueue) \cup {n}
  BY <1>3, <1>8, InsertRange DEF IInv, TypeOK, SchedTypeOK, Placed, Seated
<1>11. Seated(readyQueue', semd_h', p_semAdd', pcbFree', OnProcessor(mode', currentProc'))
  <2>1. Seated(readyQueue, semd_h, p_semAdd, pcbFree, OnProcessor(mode, currentProc))
    BY DEF IInv, Placed
  <2> QED
    BY <1>3, <1>5, <1>8, <1>9, <1>10, <2>1 DEF Seated
<1>12. \A p \in Procs : p_pid'[p] = IF p \in Range(pcbFree') THEN 0 ELSE p
  BY <1>3, <1>5, <1>6 DEF IInv, Placed
<1> QED
  BY <1>1, <1>5, <1>7, <1>11, <1>12 DEF IInv, Placed, ModeInv, AshNeverExhausted

\* The steps that leave the free list and the tree alone.
LEMMA TreeUnchanged ==
    ASSUME TreeInv, UNCHANGED <<p_pid, p_parent, p_child>>
    PROVE  TreeInv'
BY DEF TreeInv, OneTree, Active, Distinct

\* PASSEREN, VERHOGEN, DOIO and CLOCKWAIT.
LEMMA SemCallKeeps ==
    ASSUME IInv, TypeOK', mode = "run",
           NEW s \in Keys, NEW closed, NEW soft, SemOp(s, closed, soft),
           UNCHANGED treeVars
    PROVE  IInv'
<1>1. UNCHANGED <<pcbFree, p_pid, p_parent, p_child>>
  BY DEF treeVars
<1>2. Placed' /\ ModeInv'
  BY <1>1, SemOpPlaces DEF IInv
<1>3. TreeInv'
  BY <1>1, TreeUnchanged DEF IInv
<1> QED
  BY <1>2, <1>3 DEF IInv

\* The end of an interrupt handler.
LEMMA ExitKeeps ==
    ASSUME IInv, TypeOK', Awake, NEW rq \in Seq(Procs), NEW soft,
           Seated(rq, semd_h', p_semAdd', pcbFree, OnProcessor(mode, currentProc)),
           ExitIntHandler(rq, soft),
           UNCHANGED treeVars
    PROVE  IInv'
<1>1. UNCHANGED <<pcbFree, p_pid, p_parent, p_child>>
  BY DEF treeVars
<1>2. Seated(readyQueue', semd_h', p_semAdd', pcbFree, OnProcessor(mode', currentProc'))
  BY ExitIntHandlerSeats DEF IInv, TypeOK
<1>3. Placed'
  BY <1>1, <1>2 DEF IInv, Placed
<1>4. ModeInv'
  BY SchedulerModes DEF ExitIntHandler, IInv, ModeInv, AshNeverExhausted
<1>5. TreeInv'
  BY <1>1, TreeUnchanged DEF IInv
<1> QED
  BY <1>3, <1>4, <1>5 DEF IInv

\* The PLT's handler: the executing process goes to the end of the queue.
LEMMA PltHandlerKeeps ==
    ASSUME IInv, TypeOK', PltHandler
    PROVE  IInv'
<1>1. UNCHANGED <<pcbFree, p_pid, p_parent, p_child, semd_h, p_semAdd>>
  BY DEF PltHandler, treeVars, hashVars
<1>2. TreeInv'
  BY <1>1, TreeUnchanged DEF IInv
<1>3. CASE currentProc = NULL
  <2>1. mode' = "fault" /\ readyQueue' = readyQueue
    BY <1>3 DEF PltHandler
  <2>2. OnProcessor(mode, currentProc) = {} /\ OnProcessor(mode', currentProc') = {}
    BY <1>3, <2>1, PcbAssumption DEF OnProcessor, IInv, TypeOK, SchedTypeOK
  <2>3. Placed'
    BY <1>1, <2>1, <2>2 DEF IInv, Placed
  <2> QED
    BY <1>2, <2>1, <2>3 DEF IInv, ModeInv, AshNeverExhausted
<1>4. CASE currentProc # NULL
  <2> DEFINE c  == currentProc
             q  == <<c>>
             rq == WakeAll(readyQueue, q)
  <2>1. c \in Procs /\ mode = "run" /\ OnProcessor(mode, c) = {c}
    <3>1. mode = "run"
      BY <1>4 DEF PltHandler, Interrupted, Idle, IInv, ModeInv
    <3> QED
      BY <3>1, RunnerIsActive
  <2>2. q \in Seq(Procs) /\ Range(q) = {c} /\ IsInjective(q)
    <3>1. IsInjective(q)
      BY DEF IsInjective
    <3> QED
      BY <2>1, <3>1, OneElement
  <2>3. Scheduler(rq, processCount, softBlockCount, FALSE)
    BY <1>4 DEF PltHandler
  <2>4. c \notin Range(readyQueue) /\ p_pid[c] # 0
    BY <2>1, RunnerIsActive DEF IInv, Placed, Seated, Active
  <2>5. readyQueue \in Seq(Procs) /\ IsInjective(readyQueue)
    BY DEF IInv, TypeOK, SchedTypeOK, Placed, Seated
  <2> HIDE DEF q
  <2>6. Range(rq) = Range(readyQueue) \cup {c} /\ IsInjective(rq) /\ rq \in Seq(Procs)
    BY <2>2, <2>4, <2>5, WakeAllRange, WakeAllType
  <2> HIDE DEF rq
  <2>7. Seated(rq, semd_h, p_semAdd, pcbFree, {})
    BY <2>1, <2>6 DEF IInv, Placed, Seated
  <2>8. Seated(readyQueue', semd_h, p_semAdd, pcbFree, OnProcessor(mode', currentProc'))
    BY <2>3, <2>6, <2>7, SchedulerSeats
  <2>9. Placed'
    BY <1>1, <2>8 DEF IInv, Placed
  <2> QED
    BY <1>2, <2>3, <2>9, SchedulerModes DEF IInv
<1> QED
  BY <1>3, <1>4

\* The interval timer's handler wakes its whole queue.
LEMMA ItHandlerKeeps ==
    ASSUME IInv, ItHandler
    PROVE  IInv'
<1> DEFINE woken == Procq(semd_h, ItSem)
           h2    == Restrict(semd_h, DOMAIN semd_h \ {ItSem})
           sa    == [p \in Procs |-> IF p \in Range(woken) THEN NULL ELSE p_semAdd[p]]
           on    == OnProcessor(mode, currentProc)
<1>1. TypeOK'
  BY ItHandlerType DEF IInv
<1>2. /\ Awake /\ UNCHANGED treeVars
      /\ semd_h' = h2 /\ p_semAdd' = sa
      /\ ExitIntHandler(WakeAll(readyQueue, woken), softBlockCount')
  BY DEF ItHandler, Interrupted, Awake
<1>3. ItSem \in Keys
  BY DEF Keys
<1>4. /\ woken \in Seq(Procs) /\ IsInjective(woken)
      /\ \A p \in Procs : p \in Range(woken) <=> p_semAdd[p] = ItSem
  BY <1>3, ProcqType DEF IInv, TypeOK, HashTypeOK, Placed, Seated
<1>5. Range(woken) \subseteq Procs
  BY <1>4, LenProperties DEF Range
<1>6. \A p \in Range(woken) : p_semAdd[p] # NULL
  BY <1>3, <1>4, <1>5, NucleusAssumption
<1>7. \A s \in Keys : /\ IsInjective(Procq(h2, s))
                      /\ Range(Procq(h2, s)) = Range(Procq(semd_h, s)) \ Range(woken)
  <2> SUFFICES ASSUME NEW s \in Keys
               PROVE  /\ IsInjective(Procq(h2, s))
                      /\ Range(Procq(h2, s)) = Range(Procq(semd_h, s)) \ Range(woken)
    OBVIOUS
  <2>1. Procq(h2, s) = IF s = ItSem THEN <<>> ELSE Procq(semd_h, s)
    <3>1. /\ DOMAIN h2 = DOMAIN semd_h \ {ItSem}
          /\ \A x \in DOMAIN h2 : h2[x] = semd_h[x]
      BY DEF Restrict
    <3> HIDE DEF h2
    <3> QED
      BY <3>1 DEF Procq
  <2>2. IsInjective(<<>>) /\ Range(<<>>) = {}
    BY DEF IsInjective, Range
  <2>3. IsInjective(Procq(semd_h, s))
    BY DEF IInv, Placed, Seated
  <2>4. s # ItSem => Range(Procq(semd_h, s)) \cap Range(woken) = {}
    BY <1>4, <1>5 DEF IInv, Placed, Seated
  <2> HIDE DEF woken, h2
  <2>5. CASE s = ItSem
    BY <2>1, <2>2, <2>5 DEF woken
  <2>6. CASE s # ItSem
    BY <2>1, <2>3, <2>4, <2>6
  <2> QED
    BY <2>5, <2>6
<1>8. readyQueue \in Seq(Procs) /\ p_semAdd \in [Procs -> Keys \cup {NULL}]
  BY DEF IInv, TypeOK, SchedTypeOK, HashTypeOK
<1>9. /\ Seated(readyQueue, semd_h, p_semAdd, pcbFree, on)
      /\ \A p \in Procs : p_pid[p] = IF p \in Range(pcbFree) THEN 0 ELSE p
  BY DEF IInv, Placed
<1> HIDE DEF woken, h2, on
<1>10. Seated(WakeAll(readyQueue, woken), h2, sa, pcbFree, on)
  BY <1>4, <1>6, <1>7, <1>8, <1>9, WakeSeats
<1>11. WakeAll(readyQueue, woken) \in Seq(Procs)
  BY <1>4, <1>8, WakeAllType
<1> HIDE DEF sa
<1> QED
  BY <1>1, <1>2, <1>10, <1>11, ExitKeeps DEF on

\* A device's handler, with and without a process waiting.
LEMMA DevHandlerKeeps ==
    ASSUME IInv, NEW d \in Devices, DevHandler(d)
    PROVE  IInv'
<1> DEFINE p == HeadBlocked(semd_h, d)
<1>1. TypeOK'
  BY DevHandlerType DEF IInv
<1>2. Awake /\ UNCHANGED treeVars
  BY DEF DevHandler, Interrupted, Awake
<1>3. readyQueue \in Seq(Procs) /\ HashTypeOK /\ Placed
  BY DEF IInv, TypeOK, SchedTypeOK
<1>4. CASE p = NULL
  <2>1. /\ semd_h' = semd_h /\ p_semAdd' = p_semAdd
        /\ ExitIntHandler(readyQueue, softBlockCount)
    BY <1>4 DEF DevHandler, hashVars
  <2>2. Seated(readyQueue, semd_h', p_semAdd', pcbFree, OnProcessor(mode, currentProc))
    BY <1>3, <2>1 DEF Placed
  <2> QED
    BY <1>1, <1>2, <1>3, <2>1, <2>2, ExitKeeps
<1>5. CASE p # NULL
  <2>1. d \in DOMAIN semd_h /\ p \in Procs
    BY <1>3, <1>5, ProcqType DEF HashTypeOK
  <2>2. /\ semd_h' = RemoveBlocked(semd_h, d)
        /\ p_semAdd' = [p_semAdd EXCEPT ![p] = NULL]
        /\ ExitIntHandler(WakeAll(readyQueue, <<p>>), softBlockCount')
    BY <1>5 DEF DevHandler
  <2>3. Seated(WakeAll(readyQueue, <<p>>), RemoveBlocked(semd_h, d),
               [p_semAdd EXCEPT ![p] = NULL],
               pcbFree, OnProcessor(mode, currentProc))
    BY <1>3, <2>1, HandOffSeats
  <2> HIDE DEF p
  <2>4. Seated(WakeAll(readyQueue, <<p>>), semd_h', p_semAdd',
               pcbFree, OnProcessor(mode, currentProc))
    BY <2>2, <2>3
  <2>5. WakeAll(readyQueue, <<p>>) \in Seq(Procs)
    <3>1. <<p>> \in Seq(Procs)
      BY <2>1, OneElement
    <3> QED
      BY <1>3, <3>1, WakeAllType
  <2> QED
    BY <1>1, <1>2, <2>2, <2>4, <2>5, ExitKeeps
<1> QED
  BY <1>4, <1>5

\* main: the first process executes, every other PCB is free.
LEMMA InitInv == Init => IInv
<1> SUFFICES ASSUME Init PROVE IInv
  OBVIOUS
<1>1. TypeOK
  BY InitType
<1>2. 1 \in Procs /\ NULL \notin Procs /\ \A p \in Procs : p \in Nat /\ p # 0
  BY PcbAssumption DEF Procs
<1>3. /\ mode = "run" /\ currentProc = 1 /\ readyQueue = <<>>
      /\ pcbFree = [i \in 1..MAXPROC - 1 |-> i + 1]
      /\ semd_h = [k \in {} |-> <<>>]
      /\ \A p \in Procs : /\ p_pid[p] = IF p = 1 THEN 1 ELSE 0
                          /\ p_parent[p] = NULL /\ p_child[p] = <<>>
                          /\ p_semAdd[p] = NULL
  BY DEF Init
<1>4. IsInjective(<<>>) /\ Range(<<>>) = {}
  BY DEF IsInjective, Range
<1>5. IsInjective(pcbFree) /\ Range(pcbFree) = Procs \ {1}
  <2>1. DOMAIN pcbFree = 1..MAXPROC - 1 /\ \A i \in 1..MAXPROC - 1 : pcbFree[i] = i + 1
    BY <1>3
  <2>2. IsInjective(pcbFree)
    BY <2>1, PcbAssumption DEF IsInjective
  <2>3. \A i \in 1..MAXPROC - 1 : pcbFree[i] \in Procs \ {1}
    BY <2>1, PcbAssumption DEF Procs
  <2>4. \A p \in Procs \ {1} : p - 1 \in 1..MAXPROC - 1 /\ pcbFree[p - 1] = p
    BY <2>1, PcbAssumption DEF Procs
  <2>5. Range(pcbFree) \subseteq Procs \ {1}
    BY <2>1, <2>3 DEF Range
  <2>6. Procs \ {1} \subseteq Range(pcbFree)
    BY <2>1, <2>4 DEF Range
  <2> QED
    BY <2>2, <2>5, <2>6
<1>6. Placed
  <2>1. \A k \in Keys : Procq(semd_h, k) = <<>>
    BY <1>3 DEF Procq
  <2>2. OnProcessor(mode, currentProc) = {1}
    BY <1>3 DEF OnProcessor
  <2>3. \A k \in Keys : k # NULL
    BY NucleusAssumption
  <2>4. Seated(readyQueue, semd_h, p_semAdd, pcbFree, {1})
    BY <1>2, <1>3, <1>4, <1>5, <2>1, <2>3 DEF Seated
  <2>5. \A p \in Procs : p_pid[p] = IF p \in Range(pcbFree) THEN 0 ELSE p
    BY <1>3, <1>5
  <2> QED
    BY <2>2, <2>4, <2>5 DEF Placed
<1>7. TreeInv
  <2>1. Active = {1}
    BY <1>2, <1>3 DEF Active
  <2>2. Subtree(p_child, 1) = {1}
    <3>1. p_child \in [Procs -> Seq(Procs)]
      BY <1>1 DEF TypeOK, TreeTypeOK
    <3>2. 1 \in Subtree(p_child, 1)
      BY <1>2, <3>1, SubtreeClosed
    <3>3. ClosedUnder(p_child, {1})
      BY <1>2, <1>3, <1>4 DEF ClosedUnder
    <3>4. Subtree(p_child, 1) \subseteq {1}
      BY <1>2, <3>3, SubtreeLeast
    <3> QED
      BY <3>2, <3>4
  <2>3. \A p, c \in Procs : c \in Range(p_child[p]) <=> p_parent[c] = p
    BY <1>2, <1>3, <1>4
  <2>4. \A p \in Procs : Distinct(p_child[p])
    BY <1>3, <1>4 DEF Distinct
  <2>5. p_pid[1] # 0 /\ p_parent[1] = NULL
    BY <1>2, <1>3
  <2>6. OneTree
    BY <2>1, <2>2, <2>3, <2>4, <2>5 DEF OneTree
  <2> QED
    BY <1>3, <2>5, <2>6 DEF TreeInv
<1>8. ModeInv
  BY <1>3 DEF ModeInv, AshNeverExhausted
<1> QED
  BY <1>1, <1>6, <1>7, <1>8 DEF IInv

\* Every step keeps the invariant.
LEMMA NextInv == IInv /\ [Next]_vars => IInv'
<1> SUFFICES ASSUME IInv, [Next]_vars PROVE IInv'
  OBVIOUS
<1>1. TypeOK'
  BY NextType DEF IInv
\* Nothing moves: neither PCBs nor the processor.
<1>2. ASSUME UNCHANGED <<mode, currentProc, readyQueue, semd_h, p_semAdd,
                         pcbFree, p_pid, p_parent, p_child>>
      PROVE  IInv'
  <2>1. Placed'
    BY <1>2 DEF IInv, Placed
  <2>2. TreeInv'
    BY <1>2, TreeUnchanged DEF IInv
  <2> QED
    BY <1>1, <1>2, <2>1, <2>2 DEF IInv, ModeInv, AshNeverExhausted
<1>3. ASSUME UNCHANGED vars PROVE IInv'
  BY <1>2, <1>3 DEF vars, treeVars, hashVars, schedVars
<1>4. Executing => mode = "run" /\ currentProc \in Active
  BY RunnerIsActive DEF Executing
<1>5. ASSUME NEW sup \in Supports, NEW ns \in Namespaces \cup {NULL},
             CreateProcess(sup, ns)
      PROVE  IInv'
  BY <1>5, CreateKeeps, NucleusAssumption
<1>6. CASE CreateFails
  BY <1>3, <1>6 DEF CreateFails
<1>7. ASSUME NEW pid \in 0..MAXPROC, TermProcess(pid)
      PROVE  IInv'
  <2> DEFINE victim == IF pid = 0 THEN currentProc ELSE GetPcb(p_pid, pid)
  <2>1. mode = "run" /\ currentProc \in Active
    BY <1>4, <1>7 DEF TermProcess
  <2>2. victim # NULL => victim \in Active
    BY <2>1, PcbAssumption DEF GetPcb, Active, Procs
  <2>3. IF victim # NULL THEN KillAndContinue(victim) ELSE UNCHANGED vars
    BY <1>7 DEF TermProcess
  <2> HIDE DEF victim
  <2> QED
    BY <1>3, <2>1, <2>2, <2>3, KillKeeps
<1>8. ASSUME NEW s \in UserSems, Passeren(s) \/ Verhogen(s)
      PROVE  IInv'
  <2>1. mode = "run" /\ s \in Keys /\ UNCHANGED treeVars
    BY <1>4, <1>8 DEF Passeren, Verhogen, Keys
  <2>2. SemOp(s, 0, softBlockCount) \/ SemOp(s, 1, softBlockCount)
    BY <1>8 DEF Passeren, Verhogen, P, V
  <2> QED
    BY <1>1, <2>1, <2>2, SemCallKeeps
<1>9. ASSUME NEW d \in Devices, DoIo(d)
      PROVE  IInv'
  <2>1. mode = "run" /\ d \in Keys /\ UNCHANGED treeVars
    BY <1>4, <1>9 DEF DoIo, Keys
  <2>2. SemOp(d, 0, softBlockCount')
    BY <1>9 DEF DoIo, P
  <2> QED
    BY <1>1, <2>1, <2>2, SemCallKeeps
<1>10. CASE ClockWait
  <2>1. mode = "run" /\ ItSem \in Keys /\ UNCHANGED treeVars
    BY <1>4, <1>10 DEF ClockWait, Keys
  <2>2. SemOp(ItSem, 0, softBlockCount')
    BY <1>10 DEF ClockWait, P
  <2> QED
    BY <1>1, <2>1, <2>2, SemCallKeeps
<1>11. CASE PassUpOrDie \/ SetStatus
  <2>1. LoadStatus \/ KillAndContinue(currentProc)
    BY <1>11 DEF PassUpOrDie, SetStatus
  <2>2. CASE LoadStatus
    BY <1>2, <2>2 DEF LoadStatus, hashVars, schedVars
  <2> QED
    BY <1>4, <1>11, <2>1, <2>2, KillKeeps DEF PassUpOrDie, SetStatus
<1>12. CASE AllocNamespace
  BY <1>2, <1>12 DEF AllocNamespace, hashVars, schedVars
<1>13. CASE PltExpire \/ ItExpire
  BY <1>2, <1>13 DEF PltExpire, ItExpire, treeVars, hashVars, schedVars
<1>14. ASSUME NEW d \in Devices, DevDone(d)
       PROVE  IInv'
  BY <1>2, <1>14 DEF DevDone, treeVars, hashVars, schedVars
<1>15. CASE PltHandler
  BY <1>1, <1>15, PltHandlerKeeps
<1>16. CASE ItHandler
  BY <1>16, ItHandlerKeeps
<1>17. ASSUME NEW d \in Devices, DevHandler(d)
       PROVE  IInv'
  BY <1>17, DevHandlerKeeps
<1>18. CASE Stopped
  BY <1>3, <1>18 DEF Stopped
\* WAIT is entered from the scheduler.
<1>19. CASE Wait
  <2>1. UNCHANGED <<currentProc, readyQueue, semd_h, p_semAdd,
                    pcbFree, p_pid, p_parent, p_child>>
    BY <1>19 DEF Wait, treeVars, hashVars
  <2>2. mode = "idle" /\ mode' = "wait"
    BY <1>19 DEF Wait
  <2>3. OnProcessor(mode, currentProc) = {} /\ OnProcessor(mode', currentProc') = {}
    BY <2>2 DEF OnProcessor
  <2>4. Placed'
    BY <2>1, <2>3 DEF IInv, Placed
  <2>5. TreeInv'
    BY <2>1, TreeUnchanged DEF IInv
  <2> QED
    BY <1>1, <2>1, <2>2, <2>4, <2>5 DEF IInv, ModeInv, AshNeverExhausted
<1> QED
  BY <1>3, <1>5, <1>6, <1>7, <1>8, <1>9, <1>10, <1>11, <1>12, <1>13, <1>14, <1>19,
     <1>15, <1>16, <1>17, <1>18 DEF Next

\* The invariant holds in every reachable state.
THEOREM Invariant == Spec => []IInv
<1> QED
  BY InitInv, NextInv, PTL DEF Spec

\* Every PCB is in exactly one place, once, in every reachable state: no
\* sequence of system calls, kills and interrupts loses a process, schedules
\* one twice, or leaves a dead one in a queue.
THEOREM PlacementCorrect == Spec => []Placement
<1>1. IInv => Placement
  BY PlacementIsPlaced DEF IInv, TypeOK
<1> QED
  BY <1>1, Invariant, PTL

\* MAXPROC descriptors are always enough for MAXPROC processes, however many
\* semaphores there are: the PANIC of P and V is never executed.
THEOREM AshSuffices == Spec => []AshNeverExhausted
<1>1. IInv => AshNeverExhausted
  BY DEF IInv, ModeInv
<1> QED
  BY <1>1, Invariant, PTL

\* The processes always form one tree: no process outlives its parent, and
\* parent pointers and child lists agree.
THEOREM OneTreeCorrect == Spec => []OneTree
<1>1. IInv => OneTree
  BY DEF IInv, TreeInv
<1> QED
  BY <1>1, Invariant, PTL


----------------------------------------------------------------------------
(* The counters.                                                           *)

\* The processes a semaphore address field says are soft-blocked.
SoftOf(semAdd) == {p \in Procs : semAdd[p] \in SoftSems}

\* CountersExact, with what makes DOIO and CLOCKWAIT always block.
CountInv ==
    /\ CountersExact
    /\ \A s \in SoftSems : sem[s] = 0

\* Sets of PCBs are finite.
LEMMA ProcsFinite ==
    ASSUME NEW D \in SUBSET Procs
    PROVE  IsFiniteSet(D) /\ Cardinality(D) \in Nat
<1>1. IsFiniteSet(Procs)
  BY FS_Interval, PcbAssumption DEF Procs
<1> QED
  BY <1>1, FS_Subset, FS_CardinalityType

\* The two sets that are counted.
LEMMA Counted ==
    /\ Active \in SUBSET Procs
    /\ \A semAdd : SoftOf(semAdd) \in SUBSET Procs
    /\ CountersExact <=> /\ processCount = Cardinality(Active)
                         /\ softBlockCount = Cardinality(SoftOf(p_semAdd))
BY DEF Active, SoftOf, CountersExact

\* Steps that change neither set keep the counters.
LEMMA CountsKept ==
    ASSUME CountersExact, UNCHANGED <<processCount, softBlockCount, p_pid>>,
           \A p \in Procs : p_semAdd'[p] \in SoftSems <=> p_semAdd[p] \in SoftSems
    PROVE  CountersExact'
<1>1. Active' = Active
  BY DEF Active
<1>2. SoftOf(p_semAdd') = SoftOf(p_semAdd)
  BY DEF SoftOf
<1> QED
  BY <1>1, <1>2 DEF CountersExact, SoftOf

\* CREATEPROCESS adds one process, which is not blocked.
LEMMA CreateCounts ==
    ASSUME IInv, CountersExact, NEW sup, NEW ns, CreateProcess(sup, ns)
    PROVE  CountersExact'
<1> DEFINE n == Head(pcbFree)
<1>1. pcbFree # <<>> /\ pcbFree \in Seq(Procs) /\ IsInjective(pcbFree)
  BY DEF CreateProcess, IInv, TypeOK, TreeTypeOK, Placed, Seated
<1>2. n \in Range(pcbFree) /\ n \in Procs
  BY <1>1, TailRange
<1>3. /\ p_pid' = [p_pid EXCEPT ![n] = n]
      /\ p_semAdd' = [p_semAdd EXCEPT ![n] = NULL]
      /\ processCount' = processCount + 1 /\ softBlockCount' = softBlockCount
  BY DEF CreateProcess
<1>4. n \notin Active /\ p_semAdd[n] = NULL /\ n # 0
  BY <1>2, ActiveIsNotFree, PcbAssumption DEF IInv, Placed, Seated, Procs
<1> HIDE DEF n
<1>5. Active' = Active \cup {n}
  BY <1>2, <1>3, <1>4 DEF Active, IInv, TypeOK, TreeTypeOK
<1>6. SoftOf(p_semAdd') = SoftOf(p_semAdd)
  BY <1>2, <1>3, <1>4 DEF SoftOf, IInv, TypeOK, HashTypeOK
<1>7. Cardinality(Active \cup {n}) = Cardinality(Active) + 1
  BY <1>4, Counted, ProcsFinite, FS_AddElement
<1> QED
  BY <1>3, <1>5, <1>6, <1>7 DEF CountersExact, SoftOf

\* A kill counts each of the dead once, and once more if it was soft-blocked.
LEMMA KillCounts ==
    ASSUME IInv, CountersExact, NEW v \in Active, KillAndContinue(v)
    PROVE  CountersExact'
<1> DEFINE dead == Subtree(p_child, v)
<1>1. dead \subseteq Active
  BY ActiveSubtree DEF IInv, TreeInv
<1>2. KillProcess(v, dead)
  BY DEF KillAndContinue
<1> HIDE DEF dead
<1>3. /\ processCount' = processCount - Cardinality(dead)
      /\ softBlockCount' = softBlockCount - Cardinality(SoftBlocked(dead))
      /\ p_semAdd' = [p \in Procs |-> IF p \in dead THEN NULL ELSE p_semAdd[p]]
      /\ p_pid' = [p \in Procs |-> IF p \in dead THEN 0 ELSE p_pid[p]]
  BY <1>2 DEF KillProcess
<1>4. Active' = Active \ dead
  BY <1>3 DEF Active
<1>5. SoftOf(p_semAdd') = SoftOf(p_semAdd) \ SoftBlocked(dead)
  <2>1. NULL \notin SoftSems
    BY NucleusAssumption DEF SoftSems, Keys
  <2> QED
    BY <1>3, <2>1 DEF SoftOf, SoftBlocked
<1>6. Cardinality(Active \ dead) = Cardinality(Active) - Cardinality(dead)
  <2>1. Active \cap dead = dead
    BY <1>1
  <2>2. IsFiniteSet(Active)
    BY Counted, ProcsFinite
  <2> QED
    BY <2>1, <2>2, FS_Difference
<1>7. Cardinality(SoftOf(p_semAdd) \ SoftBlocked(dead)) =
         Cardinality(SoftOf(p_semAdd)) - Cardinality(SoftBlocked(dead))
  <2>1. SoftOf(p_semAdd) \cap SoftBlocked(dead) = SoftBlocked(dead)
    BY <1>1 DEF SoftOf, SoftBlocked, Active
  <2>2. IsFiniteSet(SoftOf(p_semAdd))
    BY Counted, ProcsFinite
  <2> QED
    BY <2>1, <2>2, FS_Difference
<1> QED
  BY <1>3, <1>4, <1>5, <1>6, <1>7, Counted DEF CountersExact, SoftOf

\* The process that blocks was not blocked before.
LEMMA BlockAdds ==
    ASSUME IInv, mode = "run", NEW s \in Keys, NEW soft, Block(s, soft)
    PROVE  /\ currentProc \in Procs /\ currentProc \notin SoftOf(p_semAdd)
           /\ p_semAdd' = [p_semAdd EXCEPT ![currentProc] = s]
           /\ UNCHANGED sem
<1>1. /\ currentProc \in Procs
      /\ Seated(readyQueue, semd_h, p_semAdd, pcbFree, {currentProc})
  BY RunnerIsActive DEF IInv, Placed
<1>2. p_semAdd[currentProc] = NULL /\ NULL \notin SoftSems
  BY <1>1, NucleusAssumption DEF Seated, SoftSems, Keys
<1>3. ~Exhausted(semd_h, s)
  BY <1>1, NotExhausted DEF IInv, TypeOK, HashTypeOK
<1> QED
  BY <1>1, <1>2, <1>3 DEF Block, SoftOf

\* DOIO and CLOCKWAIT: the caller blocks, and is counted.
LEMMA WaitCounts ==
    ASSUME IInv, CountInv, mode = "run", NEW s \in SoftSems,
           P(s, softBlockCount'), softBlockCount' = softBlockCount + 1,
           UNCHANGED treeVars
    PROVE  CountInv'
<1>1. s \in Keys /\ sem[s] = 0
  BY DEF SoftSems, Keys, CountInv
<1>2. Block(s, softBlockCount')
  BY <1>1 DEF P, SemOp
<1>3. /\ currentProc \in Procs /\ currentProc \notin SoftOf(p_semAdd)
      /\ p_semAdd' = [p_semAdd EXCEPT ![currentProc] = s]
      /\ UNCHANGED sem
  BY <1>1, <1>2, BlockAdds
<1>4. SoftOf(p_semAdd') = SoftOf(p_semAdd) \cup {currentProc}
  BY <1>3 DEF SoftOf, IInv, TypeOK, HashTypeOK
<1>5. Cardinality(SoftOf(p_semAdd) \cup {currentProc}) = Cardinality(SoftOf(p_semAdd)) + 1
  BY <1>3, Counted, ProcsFinite, FS_AddElement
<1>6. Active' = Active
  BY DEF Active, treeVars
<1> QED
  BY <1>3, <1>4, <1>5, <1>6 DEF CountInv, CountersExact, SoftOf, treeVars

\* The head of a queue is blocked on that queue's semaphore, and alive.
LEMMA HeadIsBlocked ==
    ASSUME IInv, NEW s \in Keys, HeadBlocked(semd_h, s) # NULL
    PROVE  LET p == HeadBlocked(semd_h, s)
           IN  /\ p \in Procs /\ p_semAdd[p] = s
               /\ p_pid[p] # 0 /\ IsPcbActive(p_pid, p)
<1> DEFINE p == HeadBlocked(semd_h, s)
<1>1. /\ s \in DOMAIN semd_h /\ p = Head(semd_h[s]) /\ p \in Procs
      /\ Procq(semd_h, s) \in Seq(Procs) /\ Procq(semd_h, s) # <<>>
      /\ Procq(semd_h, s) = semd_h[s]
  BY ProcqType DEF IInv, TypeOK, HashTypeOK, Procq
<1>2. IsInjective(Procq(semd_h, s))
  BY DEF IInv, Placed, Seated
<1>3. p \in Range(Procq(semd_h, s))
  BY <1>1, <1>2, TailRange
<1>4. p_semAdd[p] = s /\ p \notin Range(pcbFree)
  BY <1>1, <1>3, NucleusAssumption DEF IInv, Placed, Seated
<1>5. p_pid[p] = p /\ p # 0 /\ p # NULL
  BY <1>1, <1>4, PcbAssumption DEF IInv, Placed, Procs
<1> QED
  BY <1>1, <1>4, <1>5 DEF IsPcbActive

\* P and V of the processes' semaphores move nobody in or out of a wait for
\* a device or the clock.
LEMMA UserSemCounts ==
    ASSUME IInv, CountInv, mode = "run", NEW s \in UserSems, NEW closed,
           SemOp(s, closed, softBlockCount), UNCHANGED <<treeVars, softBlockCount>>
    PROVE  CountInv'
<1>1. s \in Keys /\ s \notin SoftSems /\ NULL \notin SoftSems
  BY NucleusAssumption DEF Keys, SoftSems
<1>2. p_semAdd \in [Procs -> Keys \cup {NULL}] /\ sem \in [Keys -> {0, 1}]
  BY DEF IInv, TypeOK, HashTypeOK
<1>3. UNCHANGED <<processCount, softBlockCount, p_pid>>
  BY DEF treeVars
<1>4. (\A p \in Procs : p_semAdd'[p] \in SoftSems <=> p_semAdd[p] \in SoftSems)
      /\ \A k \in SoftSems : sem'[k] = sem[k]
  <2>1. CASE Block(s, softBlockCount)
    BY <1>1, <1>2, <2>1, BlockAdds DEF SoftOf
  <2>2. CASE HeadBlocked(semd_h, s) # NULL /\ HandOff(s)
    <3> DEFINE p == HeadBlocked(semd_h, s)
    <3>1. p_semAdd' = [p_semAdd EXCEPT ![p] = NULL] /\ sem' = sem
      BY <2>2 DEF HandOff
    <3>2. p \in Procs /\ p_semAdd[p] = s
      BY <1>1, <2>2, HeadIsBlocked
    <3> QED
      BY <1>1, <1>2, <3>1, <3>2
  <2>3. CASE Close(s, closed)
    BY <1>1, <1>2, <2>3 DEF Close
  <2> QED
    BY <2>1, <2>2, <2>3 DEF SemOp
<1> QED
  BY <1>3, <1>4, CountsKept DEF CountInv

\* A device's handler wakes at most one process, which was counted.
LEMMA DevCounts ==
    ASSUME IInv, CountInv, NEW d \in Devices, DevHandler(d)
    PROVE  CountInv'
<1> DEFINE p == HeadBlocked(semd_h, d)
<1>1. d \in Keys /\ d \in SoftSems /\ NULL \notin SoftSems
  BY NucleusAssumption DEF Keys, SoftSems
<1>2. UNCHANGED treeVars
  BY DEF DevHandler
<1>3. CASE p = NULL
  <2>1. UNCHANGED <<processCount, softBlockCount, p_pid, p_semAdd, sem>>
    BY <1>2, <1>3 DEF DevHandler, hashVars, treeVars
  <2> QED
    BY <2>1, CountsKept DEF CountInv
<1>4. CASE p # NULL
  <2>1. p \in Procs /\ p_semAdd[p] = d /\ IsPcbActive(p_pid, p)
    BY <1>1, <1>4, HeadIsBlocked
  <2>2. /\ p_semAdd' = [p_semAdd EXCEPT ![p] = NULL]
        /\ softBlockCount' = softBlockCount - 1
        /\ UNCHANGED sem
    BY <1>4, <2>1 DEF DevHandler
  <2> HIDE DEF p
  <2>3. SoftOf(p_semAdd') = SoftOf(p_semAdd) \ {p} /\ p \in SoftOf(p_semAdd)
    BY <1>1, <2>1, <2>2 DEF SoftOf, IInv, TypeOK, HashTypeOK
  <2>4. Cardinality(SoftOf(p_semAdd) \ {p}) = Cardinality(SoftOf(p_semAdd)) - 1
    BY <2>3, Counted, ProcsFinite, FS_RemoveElement
  <2>5. Active' = Active
    BY <1>2 DEF Active, treeVars
  <2> QED
    BY <1>2, <2>2, <2>3, <2>4, <2>5 DEF CountInv, CountersExact, SoftOf, treeVars
<1> QED
  BY <1>3, <1>4

\* The clock's handler wakes everybody who waits for it; all were counted.
LEMMA ItCounts ==
    ASSUME IInv, CountInv, ItHandler
    PROVE  CountInv'
<1> DEFINE woken == Procq(semd_h, ItSem)
           W     == {p \in Range(woken) : IsPcbActive(p_pid, p)}
<1>1. ItSem \in Keys /\ ItSem \in SoftSems /\ NULL \notin SoftSems
  BY NucleusAssumption DEF Keys, SoftSems
<1>2. /\ softBlockCount' = softBlockCount - Cardinality(W)
      /\ p_semAdd' = [p \in Procs |-> IF p \in Range(woken) THEN NULL ELSE p_semAdd[p]]
      /\ UNCHANGED <<treeVars, sem>>
  BY DEF ItHandler
<1>3. /\ woken \in Seq(Procs)
      /\ \A p \in Procs : p \in Range(woken) <=> p_semAdd[p] = ItSem
  BY <1>1, ProcqType DEF IInv, TypeOK, HashTypeOK, Placed, Seated
<1>4. Range(woken) \subseteq Procs
  BY <1>3, LenProperties DEF Range
<1>5. W = Range(woken)
  <2>1. \A p \in Range(woken) : p \in Procs /\ p \notin Range(pcbFree)
    BY <1>1, <1>3, <1>4, NucleusAssumption DEF IInv, Placed, Seated
  <2>2. \A p \in Range(woken) : p_pid[p] = p /\ p # 0 /\ p # NULL
    BY <2>1, PcbAssumption DEF IInv, Placed, Procs
  <2> QED
    BY <2>2 DEF IsPcbActive
<1> HIDE DEF woken, W
<1>6. SoftOf(p_semAdd') = SoftOf(p_semAdd) \ W /\ SoftOf(p_semAdd) \cap W = W
  BY <1>1, <1>2, <1>3, <1>4, <1>5 DEF SoftOf
<1>7. Cardinality(SoftOf(p_semAdd) \ W) = Cardinality(SoftOf(p_semAdd)) - Cardinality(W)
  <2>1. IsFiniteSet(SoftOf(p_semAdd))
    BY Counted, ProcsFinite
  <2> QED
    BY <1>6, <2>1, FS_Difference
<1>8. Active' = Active
  BY <1>2 DEF Active, treeVars
<1> QED
  BY <1>2, <1>6, <1>7, <1>8 DEF CountInv, CountersExact, SoftOf, treeVars

\* main: one process, not blocked.
LEMMA InitCounts == Init => CountInv
<1> SUFFICES ASSUME Init PROVE CountInv
  OBVIOUS
<1>1. /\ processCount = 1 /\ softBlockCount = 0
      /\ \A p \in Procs : p_semAdd[p] = NULL /\ p_pid[p] = IF p = 1 THEN 1 ELSE 0
      /\ \A s \in SoftSems : sem[s] = 0
  BY DEF Init
<1>2. 1 \in Procs /\ NULL \notin SoftSems
  BY PcbAssumption, NucleusAssumption DEF Procs, SoftSems, Keys
<1>3. Active = {1} /\ SoftOf(p_semAdd) = {}
  BY <1>1, <1>2 DEF Active, SoftOf
<1> QED
  BY <1>1, <1>3, FS_Singleton, FS_EmptySet DEF CountInv, CountersExact, SoftOf

\* Every step keeps the counters exact.
LEMMA NextCounts == IInv /\ CountInv /\ [Next]_vars => CountInv'
<1> SUFFICES ASSUME IInv, CountInv, [Next]_vars PROVE CountInv'
  OBVIOUS
<1> USE DEF CountInv
<1>1. ASSUME UNCHANGED <<processCount, softBlockCount, p_pid, p_semAdd, sem>>
      PROVE  CountInv'
  BY <1>1, CountsKept
<1>2. ASSUME UNCHANGED vars PROVE CountInv'
  BY <1>1, <1>2 DEF vars, treeVars, hashVars
<1>3. Executing => mode = "run" /\ currentProc \in Active
  BY RunnerIsActive DEF Executing
<1>4. ASSUME NEW v \in Active, KillAndContinue(v) PROVE CountInv'
  <2>1. UNCHANGED sem
    BY <1>4 DEF KillAndContinue, KillProcess
  <2> QED
    BY <1>4, <2>1, KillCounts
<1>5. ASSUME NEW sup \in Supports, NEW ns, CreateProcess(sup, ns) PROVE CountInv'
  <2>1. UNCHANGED sem
    BY <1>5 DEF CreateProcess
  <2> QED
    BY <1>5, <2>1, CreateCounts
<1>6. CASE CreateFails
  BY <1>2, <1>6 DEF CreateFails
<1>7. ASSUME NEW pid \in 0..MAXPROC, TermProcess(pid) PROVE CountInv'
  <2> DEFINE victim == IF pid = 0 THEN currentProc ELSE GetPcb(p_pid, pid)
  <2>1. currentProc \in Active
    BY <1>3, <1>7 DEF TermProcess
  <2>2. victim # NULL => victim \in Active
    BY <2>1, PcbAssumption DEF GetPcb, Active, Procs
  <2>3. IF victim # NULL THEN KillAndContinue(victim) ELSE UNCHANGED vars
    BY <1>7 DEF TermProcess
  <2> HIDE DEF victim
  <2> QED
    BY <1>2, <1>4, <2>2, <2>3
<1>8. ASSUME NEW s \in UserSems, Passeren(s) \/ Verhogen(s) PROVE CountInv'
  <2>1. mode = "run" /\ UNCHANGED <<treeVars, softBlockCount>>
    BY <1>3, <1>8 DEF Passeren, Verhogen
  <2>2. SemOp(s, 0, softBlockCount) \/ SemOp(s, 1, softBlockCount)
    BY <1>8 DEF Passeren, Verhogen, P, V
  <2> QED
    BY <2>1, <2>2, UserSemCounts
<1>9. ASSUME NEW d \in Devices, DoIo(d) PROVE CountInv'
  <2>1. /\ mode = "run" /\ d \in SoftSems
        /\ P(d, softBlockCount') /\ softBlockCount' = softBlockCount + 1
        /\ UNCHANGED treeVars
    BY <1>3, <1>9 DEF DoIo, SoftSems
  <2> QED
    BY <2>1, WaitCounts
<1>10. CASE ClockWait
  <2>1. /\ mode = "run" /\ ItSem \in SoftSems
        /\ P(ItSem, softBlockCount') /\ softBlockCount' = softBlockCount + 1
        /\ UNCHANGED treeVars
    BY <1>3, <1>10 DEF ClockWait, SoftSems
  <2> QED
    BY <2>1, WaitCounts
<1>11. CASE PassUpOrDie \/ SetStatus
  BY <1>1, <1>3, <1>4, <1>11 DEF PassUpOrDie, SetStatus, LoadStatus, hashVars
<1>12. CASE AllocNamespace
  BY <1>1, <1>12 DEF AllocNamespace, hashVars
<1>13. CASE PltExpire \/ ItExpire \/ PltHandler \/ Wait
  BY <1>1, <1>13 DEF PltExpire, ItExpire, PltHandler, Wait, treeVars, hashVars
<1>14. ASSUME NEW d \in Devices, DevDone(d) PROVE CountInv'
  BY <1>1, <1>14 DEF DevDone, treeVars, hashVars
<1>15. CASE ItHandler
  BY <1>15, ItCounts
<1>16. ASSUME NEW d \in Devices, DevHandler(d) PROVE CountInv'
  BY <1>16, DevCounts
<1>17. CASE Stopped
  BY <1>2, <1>17 DEF Stopped
<1> QED
  BY <1>2, <1>5, <1>6, <1>7, <1>8, <1>9, <1>10, <1>11, <1>12, <1>13, <1>14,
     <1>15, <1>16, <1>17 DEF Next

\* The counters are the numbers of living and of soft-blocked processes, in
\* every reachable state: no path through DOIO, CLOCKWAIT, a kill or an
\* interrupt counts a process twice or forgets one.
THEOREM CountersCorrect == Spec => []CountersExact
<1>1. CountInv => CountersExact
  BY DEF CountInv
<1> QED
  BY <1>1, InitCounts, NextCounts, Invariant, PTL DEF Spec

----------------------------------------------------------------------------
(* Why the machine stops or waits.                                         *)

\* What the scheduler has seen when it does not dispatch.
StopInv ==
    /\ mode = "halt" => processCount <= 0
    /\ mode = "panic" => processCount > 0 /\ readyQueue = <<>> /\ softBlockCount <= 0
    /\ mode \in {"idle", "wait"} =>
          processCount > 0 /\ readyQueue = <<>> /\ softBlockCount > 0

\* The scheduler, called with the counters as they are left.
LEMMA SchedulerStops ==
    ASSUME TypeOK', NEW rq, NEW pending,
           Scheduler(rq, processCount', softBlockCount', pending)
    PROVE  StopInv'
<1>1. processCount' \in Int /\ softBlockCount' \in Int
  BY DEF TypeOK, TreeTypeOK
<1> QED
  BY <1>1 DEF Scheduler, IdleMode, StopInv

\* P and V.
LEMMA SemOpStops ==
    ASSUME TypeOK', mode = "run", NEW s, NEW closed,
           SemOp(s, closed, softBlockCount'), processCount' = processCount
    PROVE  StopInv'
<1>1. CASE Block(s, softBlockCount')
  <2>1. mode' = "ashPanic" \/ Scheduler(readyQueue, processCount', softBlockCount', plt)
    BY <1>1 DEF Block
  <2> QED
    BY <2>1, SchedulerStops DEF StopInv
<1>2. CASE HandOff(s) \/ Close(s, closed)
  BY <1>2 DEF HandOff, Close, schedVars, StopInv
<1> QED
  BY <1>1, <1>2 DEF SemOp

\* Every step keeps StopInv: from a mode in which the machine has stopped
\* there is none, and in WAIT only interrupts.
LEMMA NextStops == IInv /\ StopInv /\ [Next]_vars => StopInv'
<1> SUFFICES ASSUME IInv, StopInv, [Next]_vars PROVE StopInv'
  OBVIOUS
<1>1. TypeOK'
  BY NextType DEF IInv
<1>2. ASSUME UNCHANGED <<mode, processCount, softBlockCount, readyQueue>>
      PROVE  StopInv'
  BY <1>2 DEF StopInv
<1>3. ASSUME UNCHANGED vars PROVE StopInv'
  BY <1>2, <1>3 DEF vars, treeVars, schedVars
<1>4. ASSUME mode = "run", mode' = mode PROVE StopInv'
  BY <1>4 DEF StopInv
<1>5. ASSUME NEW v, mode = "run", KillAndContinue(v) PROVE StopInv'
  <2>1. mode' = mode \/ \E dead : Scheduler(ReadyLeft(dead), processCount', softBlockCount', plt)
    BY <1>5 DEF KillAndContinue
  <2> QED
    BY <1>1, <1>4, <1>5, <2>1, SchedulerStops
<1>6. CASE \E sup \in Supports, ns \in (Namespaces \ Range(nsFree)) \cup {NULL} :
              CreateProcess(sup, ns)
  BY <1>4, <1>6 DEF CreateProcess, Executing
<1>7. CASE CreateFails
  BY <1>3, <1>7 DEF CreateFails
<1>8. ASSUME NEW pid \in 0..MAXPROC, TermProcess(pid) PROVE StopInv'
  BY <1>3, <1>5, <1>8 DEF TermProcess, Executing
<1>9. ASSUME NEW s \in UserSems, Passeren(s) \/ Verhogen(s) PROVE StopInv'
  <2>1. /\ mode = "run" /\ processCount' = processCount
        /\ softBlockCount' = softBlockCount
    BY <1>9 DEF Passeren, Verhogen, Executing, treeVars
  <2>2. SemOp(s, 0, softBlockCount') \/ SemOp(s, 1, softBlockCount')
    BY <1>9, <2>1 DEF Passeren, Verhogen, P, V
  <2> QED
    BY <1>1, <2>1, <2>2, SemOpStops
<1>10. ASSUME NEW d \in Devices, DoIo(d) PROVE StopInv'
  BY <1>1, <1>10, SemOpStops DEF DoIo, Executing, P, treeVars
<1>11. CASE ClockWait
  BY <1>1, <1>11, SemOpStops DEF ClockWait, Executing, P, treeVars
<1>12. CASE PassUpOrDie \/ SetStatus
  BY <1>2, <1>5, <1>12 DEF PassUpOrDie, SetStatus, LoadStatus, schedVars, Executing
<1>13. CASE AllocNamespace
  BY <1>2, <1>13 DEF AllocNamespace, schedVars
<1>14. CASE PltExpire \/ ItExpire \/ Wait
  BY <1>2, <1>14 DEF PltExpire, ItExpire, Wait, treeVars, schedVars, StopInv
<1>15. ASSUME NEW d \in Devices, DevDone(d) PROVE StopInv'
  BY <1>2, <1>15 DEF DevDone, treeVars, schedVars
<1>16. CASE PltHandler
  <2>1. /\ processCount' = processCount /\ softBlockCount' = softBlockCount
        /\ \/ mode' = "fault"
           \/ \E rq : Scheduler(rq, processCount', softBlockCount', FALSE)
    BY <1>16 DEF PltHandler, treeVars
  <2> QED
    BY <1>1, <2>1, SchedulerStops DEF StopInv
\* The end of an interrupt handler.
<1>17. ASSUME NEW rq, ExitIntHandler(rq, softBlockCount'), Awake, UNCHANGED treeVars
       PROVE  StopInv'
  <2>1. CASE currentProc # NULL
    <3>1. mode = "run"
      BY <1>17, <2>1 DEF Awake, Idle, IInv, ModeInv
    <3> QED
      BY <1>4, <1>17, <2>1, <3>1 DEF ExitIntHandler
  <2>2. CASE currentProc = NULL
    <3>1. Scheduler(rq, processCount', softBlockCount', plt)
      BY <1>17, <2>2 DEF ExitIntHandler, treeVars
    <3> QED
      BY <1>1, <3>1, SchedulerStops
  <2> QED
    BY <2>1, <2>2
<1>18. CASE ItHandler
  BY <1>17, <1>18 DEF ItHandler, Interrupted, Awake
<1>19. ASSUME NEW d \in Devices, DevHandler(d) PROVE StopInv'
  <2>1. Awake /\ UNCHANGED treeVars /\ \E rq : ExitIntHandler(rq, softBlockCount')
    BY <1>19 DEF DevHandler, Interrupted, Awake
  <2> QED
    BY <1>17, <2>1
<1>20. CASE Stopped
  BY <1>3, <1>20 DEF Stopped
<1> QED
  BY <1>3, <1>6, <1>7, <1>8, <1>9, <1>10, <1>11, <1>12, <1>13, <1>14, <1>15,
     <1>16, <1>18, <1>19, <1>20 DEF Next

\* With exact counters and everybody in one place, what the scheduler has
\* seen is the truth about the processes.
LEMMA StopsAreRight == IInv /\ CountInv /\ StopInv => StopsForTheRightReason
<1> SUFFICES ASSUME IInv, CountInv, StopInv PROVE StopsForTheRightReason
  OBVIOUS
<1>1. /\ processCount = Cardinality(Active) /\ IsFiniteSet(Active)
      /\ softBlockCount = Cardinality(SoftOf(p_semAdd))
      /\ IsFiniteSet(SoftOf(p_semAdd))
      /\ Cardinality(Active) \in Nat /\ Cardinality(SoftOf(p_semAdd)) \in Nat
  BY Counted, ProcsFinite DEF CountInv
<1>2. /\ Cardinality(Active) = 0 <=> Active = {}
      /\ Cardinality(SoftOf(p_semAdd)) = 0 <=> SoftOf(p_semAdd) = {}
  BY <1>1, FS_EmptySet
<1>3. \A p \in Procs, s \in Keys : BlockedOn(p, s) <=> p_semAdd[p] = s
  BY PlacementIsPlaced DEF IInv, TypeOK, Placement
<1>4. ASSUME mode \in {"panic", "idle", "wait"}, readyQueue = <<>>, NEW p \in Active
      PROVE  p \in Procs /\ p_semAdd[p] \in Keys /\ BlockedOn(p, p_semAdd[p])
  <2>1. p \in Procs /\ p \notin Range(pcbFree)
    BY ActiveIsNotFree DEF IInv, Active
  <2>2. OnProcessor(mode, currentProc) = {} /\ Range(readyQueue) = {}
    BY <1>4 DEF OnProcessor, Range
  <2>3. p_semAdd[p] # NULL
    BY <2>1, <2>2 DEF IInv, Placed, Seated
  <2>4. p_semAdd[p] \in Keys
    BY <2>1, <2>3 DEF IInv, TypeOK, HashTypeOK
  <2> QED
    BY <1>3, <2>1, <2>4
<1>5. CASE mode = "halt"
  BY <1>1, <1>2, <1>5 DEF StopInv, StopsForTheRightReason, Idle
<1>6. CASE mode = "panic"
  <2>1. readyQueue = <<>> /\ Active # {} /\ SoftOf(p_semAdd) = {}
    BY <1>1, <1>2, <1>6 DEF StopInv
  <2>2. \A p \in Active : p_semAdd[p] \in UserSems /\ BlockedOn(p, p_semAdd[p])
    <3> SUFFICES ASSUME NEW p \in Active
                 PROVE  p_semAdd[p] \in UserSems /\ BlockedOn(p, p_semAdd[p])
      OBVIOUS
    <3>1. p \in Procs /\ p_semAdd[p] \in Keys /\ BlockedOn(p, p_semAdd[p])
      BY <1>4, <1>6, <2>1
    <3>2. p_semAdd[p] \notin SoftSems
      BY <2>1, <3>1 DEF SoftOf
    <3> QED
      BY <3>1, <3>2 DEF Keys, SoftSems
  <2> QED
    BY <1>6, <2>1, <2>2 DEF StopsForTheRightReason, Idle
<1>7. CASE mode \in {"idle", "wait"}
  <2>1. readyQueue = <<>> /\ SoftOf(p_semAdd) # {}
    BY <1>1, <1>2, <1>7 DEF StopInv
  <2>2. PICK p \in Procs : p_semAdd[p] \in SoftSems
    BY <2>1 DEF SoftOf
  <2>3. p \in Active /\ BlockedOn(p, p_semAdd[p])
    <3>1. p_semAdd[p] \in Keys /\ p_semAdd[p] # NULL
      BY <2>2, NucleusAssumption DEF SoftSems, Keys
    <3>2. p \notin Range(pcbFree)
      BY <3>1 DEF IInv, Placed, Seated
    <3> QED
      BY <1>3, <3>1, <3>2, ActiveIsNotFree DEF IInv
  <2> QED
    BY <1>4, <1>7, <2>1, <2>2, <2>3 DEF StopsForTheRightReason
<1> QED
  BY <1>5, <1>6, <1>7 DEF StopsForTheRightReason, Idle

\* HALT means that nobody is left, PANIC that everybody alive is blocked on
\* a semaphore that only processes signal, WAIT that everybody is blocked and
\* somebody of them on the clock or on a device; in every reachable state.
THEOREM StopsCorrect == Spec => []StopsForTheRightReason
<1>1. Init => StopInv
  BY DEF Init, StopInv
<1> QED
  BY <1>1, NextStops, StopsAreRight, InitCounts, NextCounts, Invariant, PTL DEF Spec

----------------------------------------------------------------------------
(* Whom an interrupt can still wake.                                       *)

\* One process at a time uses a device, and while one waits for it, it is at
\* work or has its interrupt pending.
SoloInv ==
    \A d \in Devices : \A p \in Procs : p_semAdd[p] = d =>
        /\ dev[d] # "ready"
        /\ \A q \in Procs : p_semAdd[q] = d => p = q

\* A P or V makes the caller wait, lets one process through, or neither.
LEMMA SemOpSemAdd ==
    ASSUME IInv, mode = "run", NEW k \in Keys, NEW closed, NEW soft,
           SemOp(k, closed, soft)
    PROVE  \/ p_semAdd' = [p_semAdd EXCEPT ![currentProc] = k]
           \/ \E p \in Procs : p_semAdd' = [p_semAdd EXCEPT ![p] = NULL]
           \/ p_semAdd' = p_semAdd
<1>1. CASE Block(k, soft)
  BY <1>1, BlockAdds
<1>2. CASE HeadBlocked(semd_h, k) # NULL /\ HandOff(k)
  BY <1>2, HeadIsBlocked DEF HandOff
<1>3. CASE Close(k, closed)
  BY <1>3 DEF Close
<1> QED
  BY <1>1, <1>2, <1>3 DEF SemOp

\* Every step keeps SoloInv: only DOIO makes a process wait for a device, and
\* the device's interrupt, which makes it ready, wakes the one that does.
LEMMA NextSolo ==
    ASSUME ~SharedDevices, IInv, SoloInv, [Next]_vars
    PROVE  SoloInv'
<1>1. /\ p_semAdd \in [Procs -> Keys \cup {NULL}] /\ IsHash(semd_h)
      /\ dev \in [Devices -> {"ready", "busy", "done"}]
      /\ \A d \in Devices : d \in Keys /\ d # NULL
      /\ NULL \notin Keys
      /\ Seated(readyQueue, semd_h, p_semAdd, pcbFree, OnProcessor(mode, currentProc))
  BY NucleusAssumption DEF IInv, TypeOK, HashTypeOK, Keys, Placed
\* Nobody begins to wait for a device, and no device is made ready.
<1>2. ASSUME \A p \in Procs, d \in Devices : p_semAdd'[p] = d => p_semAdd[p] = d,
             \A d \in Devices : dev[d] # "ready" => dev'[d] # "ready"
      PROVE  SoloInv'
  BY <1>2 DEF SoloInv
<1>3. ASSUME UNCHANGED <<p_semAdd, dev>> PROVE SoloInv'
  BY <1>2, <1>3
<1>4. ASSUME UNCHANGED dev, NEW p \in Procs, p_semAdd' = [p_semAdd EXCEPT ![p] = NULL]
      PROVE  SoloInv'
  BY <1>1, <1>2, <1>4
<1>5. ASSUME NEW v, KillAndContinue(v) PROVE SoloInv'
  <2>1. /\ dev' = dev
        /\ \E dead : p_semAdd' = [p \in Procs |-> IF p \in dead THEN NULL ELSE p_semAdd[p]]
    BY <1>5 DEF KillAndContinue, KillProcess
  <2> QED
    BY <1>1, <1>2, <2>1
<1>6. Executing => mode = "run" /\ currentProc \in Procs
  BY RunnerIsActive DEF Executing, Active
\* P and V on a semaphore that is not a device's.
<1>7. ASSUME mode = "run", NEW k \in Keys, k \notin Devices, UNCHANGED dev,
             NEW closed, NEW soft, SemOp(k, closed, soft)
      PROVE  SoloInv'
  <2>1. CASE p_semAdd' = [p_semAdd EXCEPT ![currentProc] = k]
    BY <1>1, <1>2, <1>7, <2>1
  <2> QED
    BY <1>3, <1>4, <1>7, <2>1, SemOpSemAdd
<1>8. ASSUME NEW sup, NEW ns, CreateProcess(sup, ns) PROVE SoloInv'
  <2>1. /\ pcbFree # <<>> /\ dev' = dev
        /\ p_semAdd' = [p_semAdd EXCEPT ![Head(pcbFree)] = NULL]
    BY <1>8 DEF CreateProcess
  <2>2. Head(pcbFree) \in Procs
    BY <2>1, HeadTailProperties DEF IInv, TypeOK, TreeTypeOK
  <2> QED
    BY <1>4, <2>1, <2>2
<1>9. ASSUME UNCHANGED vars PROVE SoloInv'
  BY <1>3, <1>9 DEF vars, hashVars
<1>10. ASSUME NEW pid, TermProcess(pid) PROVE SoloInv'
  BY <1>5, <1>9, <1>10 DEF TermProcess
<1>11. ASSUME NEW s \in UserSems, Passeren(s) \/ Verhogen(s) PROVE SoloInv'
  <2>1. s \in Keys /\ s \notin Devices
    BY NucleusAssumption DEF Keys
  <2> QED
    BY <1>6, <1>7, <1>11, <2>1 DEF Passeren, Verhogen, P, V
<1>12. CASE ClockWait
  <2>1. ItSem \in Keys /\ ItSem \notin Devices
    BY NucleusAssumption DEF Keys
  <2> QED
    BY <1>6, <1>7, <1>12, <2>1 DEF ClockWait, P
<1>13. ASSUME NEW d \in Devices, DoIo(d) PROVE SoloInv'
  <2>1. /\ mode = "run" /\ SemOp(d, 0, softBlockCount')
        /\ HeadBlocked(semd_h, d) = NULL /\ WriteCommand(d)
    BY <1>6, <1>13 DEF DoIo, P
  <2>2. /\ dev'[d] # "ready"
        /\ \A e \in Devices : dev[e] # "ready" => dev'[e] # "ready"
    BY <1>1, <2>1 DEF WriteCommand
  <2>3. \A p \in Procs : p_semAdd[p] # d
    <3>1. Procq(semd_h, d) = <<>> /\ Range(<<>>) = {}
      BY <1>1, <2>1, ProcqType DEF Range
    <3> QED
      BY <1>1, <3>1 DEF Seated
  <2>4. CASE p_semAdd' = [p_semAdd EXCEPT ![currentProc] = d]
    BY <1>1, <1>6, <2>2, <2>3, <2>4 DEF SoloInv
  <2>5. CASE \E p \in Procs : p_semAdd' = [p_semAdd EXCEPT ![p] = NULL]
    BY <1>1, <1>2, <2>2, <2>5
  <2>6. CASE p_semAdd' = p_semAdd
    BY <1>2, <2>2, <2>6
  <2> QED
    BY <1>1, <2>1, <2>4, <2>5, <2>6, SemOpSemAdd
<1>14. ASSUME NEW d \in Devices, DevDone(d) PROVE SoloInv'
  <2>1. p_semAdd' = p_semAdd /\ dev' = [dev EXCEPT ![d] = "done"]
    BY <1>14 DEF DevDone, hashVars
  <2> QED
    BY <1>1, <1>2, <2>1
<1>15. ASSUME NEW d \in Devices, DevHandler(d) PROVE SoloInv'
  <2>1. dev' = [dev EXCEPT ![d] = "ready"]
    BY <1>15 DEF DevHandler, Acknowledge
  <2>2. \A p \in Procs : p_semAdd'[p] # d
    <3>1. CASE HeadBlocked(semd_h, d) = NULL
      <4>1. Procq(semd_h, d) = <<>> /\ Range(<<>>) = {}
        BY <1>1, <3>1, ProcqType DEF Range
      <4>2. p_semAdd' = p_semAdd
        BY <1>15, <3>1 DEF DevHandler, hashVars
      <4> QED
        BY <1>1, <4>1, <4>2 DEF Seated
    <3>2. CASE HeadBlocked(semd_h, d) # NULL
      <4>1. p_semAdd' = [p_semAdd EXCEPT ![HeadBlocked(semd_h, d)] = NULL]
        BY <1>15, <3>2 DEF DevHandler
      <4>2. HeadBlocked(semd_h, d) \in Procs /\ p_semAdd[HeadBlocked(semd_h, d)] = d
        BY <1>1, <3>2, HeadIsBlocked
      <4> QED
        BY <1>1, <4>1, <4>2 DEF SoloInv
    <3> QED
      BY <3>1, <3>2
  <2>3. \A p \in Procs, e \in Devices : p_semAdd'[p] = e => p_semAdd[p] = e
    <3>1. CASE HeadBlocked(semd_h, d) = NULL
      BY <1>15, <3>1 DEF DevHandler, hashVars
    <3>2. CASE HeadBlocked(semd_h, d) # NULL
      BY <1>1, <1>15, <3>2 DEF DevHandler
    <3> QED
      BY <3>1, <3>2
  <2> QED
    BY <1>1, <2>1, <2>2, <2>3 DEF SoloInv
<1>16. CASE ItHandler
  BY <1>1, <1>2, <1>16 DEF ItHandler
<1>17. CASE CreateFails \/ Stopped
  BY <1>9, <1>17 DEF CreateFails, Stopped
<1>18. CASE PassUpOrDie \/ SetStatus \/ AllocNamespace
  BY <1>3, <1>5, <1>18 DEF PassUpOrDie, SetStatus, AllocNamespace, LoadStatus, hashVars
<1>19. CASE Wait \/ PltExpire \/ ItExpire \/ PltHandler
  BY <1>3, <1>19 DEF Wait, PltExpire, ItExpire, PltHandler, hashVars
<1> QED
  BY <1>8, <1>9, <1>10, <1>11, <1>12, <1>13, <1>14, <1>15, <1>16, <1>17, <1>18,
     <1>19 DEF Next

\* If no two processes use one device at a time, the machine never waits in
\* vain: somebody waits for the clock, or for a device whose interrupt is
\* pending or will be when it completes.
THEOREM NeverWaitsInVain == ~SharedDevices => (Spec => []WaitsForSomething)
<1> SUFFICES ASSUME ~SharedDevices PROVE Spec => []WaitsForSomething
  OBVIOUS
<1>1. Init => SoloInv
  BY NucleusAssumption DEF Init, SoloInv, Keys
<1>2. IInv /\ SoloInv /\ [Next]_vars => SoloInv'
  BY NextSolo
<1>3. IInv /\ CountInv /\ StopInv /\ SoloInv => WaitsForSomething
  <2> SUFFICES ASSUME IInv, CountInv, StopInv, SoloInv, Idle PROVE WaitsForSomething
    BY DEF WaitsForSomething
  <2>1. PICK p \in Active, s \in SoftSems : BlockedOn(p, s)
    BY StopsAreRight DEF StopsForTheRightReason
  <2>2. p \in Procs /\ p_semAdd[p] = s
    BY <2>1, PlacementIsPlaced DEF IInv, TypeOK, Placement, Active, SoftSems, Keys
  <2> QED
    BY <2>1, <2>2 DEF WaitsForSomething, SoftSems, SoloInv
<1>4. Init => StopInv
  BY DEF Init, StopInv
<1> QED
  BY <1>1, <1>2, <1>3, <1>4, NextStops, InitCounts, NextCounts, Invariant, PTL DEF Spec

----------------------------------------------------------------------------
(* The PLT and the idle processor.                                         *)

\* Without a time slice that ends inside a handler, WAIT is never entered
\* with the PLT's interrupt pending.
PltInv ==
    /\ NoKernelFault
    /\ mode \in {"idle", "wait"} => ~plt

\* The scheduler, called with that interrupt acknowledged or not pending.
LEMMA SchedulerPlt ==
    ASSUME NEW rq, NEW n, NEW soft, Scheduler(rq, n, soft, FALSE)
    PROVE  PltInv'
<1>1. IdleMode(soft) # "fault"
  BY DEF IdleMode
<1> QED
  BY <1>1 DEF Scheduler, PltInv, NoKernelFault

\* Every status lets the PLT's interrupt through.
PltOpen == \A m \in Statuses : "plt" \in m

\* Every step keeps PltInv: a process takes its steps with no interrupt of
\* the PLT pending, and the timer does not count in WAIT.
LEMMA NextPlt ==
    ASSUME ~LateTimer, PltOpen, IInv, PltInv, [Next]_vars
    PROVE  PltInv'
<1>1. ASSUME UNCHANGED <<mode, plt>> PROVE PltInv'
  BY <1>1 DEF PltInv, NoKernelFault
<1>2. ASSUME UNCHANGED vars PROVE PltInv'
  BY <1>1, <1>2 DEF vars, schedVars
<1>3. ASSUME mode = "run", mode' = mode PROVE PltInv'
  BY <1>3 DEF PltInv, NoKernelFault
<1>4. plt \in BOOLEAN
  BY DEF IInv, TypeOK, SchedTypeOK
<1>5. Executing => mode = "run" /\ plt = FALSE
  <2>1. mode = "run" => "plt" \in p_status[currentProc]
    BY DEF PltOpen, IInv, TypeOK, SchedTypeOK, TreeTypeOK
  <2> QED
    BY <1>4, <2>1 DEF Executing
<1>6. ASSUME NEW v, Executing, KillAndContinue(v) PROVE PltInv'
  <2>1. mode' = mode \/ \E dead : Scheduler(ReadyLeft(dead), processCount', softBlockCount', FALSE)
    BY <1>5, <1>6 DEF KillAndContinue
  <2> QED
    BY <1>3, <1>5, <1>6, <2>1, SchedulerPlt
<1>7. ASSUME Executing, NEW s, NEW closed, NEW soft, SemOp(s, closed, soft) PROVE PltInv'
  <2>1. CASE Block(s, soft)
    <3>1. mode' = "ashPanic" \/ Scheduler(readyQueue, processCount, soft, FALSE)
      BY <1>5, <1>7, <2>1 DEF Block
    <3> QED
      BY <3>1, SchedulerPlt DEF PltInv, NoKernelFault
  <2>2. CASE HandOff(s) \/ Close(s, closed)
    BY <1>3, <1>5, <1>7, <2>2 DEF HandOff, Close, schedVars
  <2> QED
    BY <1>7, <2>1, <2>2 DEF SemOp
\* The end of the other interrupt handlers, which yield to the PLT's.
<1>8. ASSUME NEW rq, NEW soft, ExitIntHandler(rq, soft), ~plt PROVE PltInv'
  <2>1. plt = FALSE
    BY <1>4, <1>8
  <2>2. CASE currentProc # NULL
    BY <1>1, <1>8, <2>2 DEF ExitIntHandler
  <2>3. CASE currentProc = NULL
    <3>1. Scheduler(rq, processCount, soft, FALSE)
      BY <1>8, <2>1, <2>3 DEF ExitIntHandler
    <3> QED
      BY <3>1, SchedulerPlt
  <2> QED
    BY <2>2, <2>3
<1>9. CASE \E sup \in Supports, ns \in (Namespaces \ Range(nsFree)) \cup {NULL} :
              CreateProcess(sup, ns)
  BY <1>3, <1>5, <1>9 DEF CreateProcess
<1>10. CASE CreateFails \/ Stopped
  BY <1>2, <1>10 DEF CreateFails, Stopped
<1>11. ASSUME NEW pid \in 0..MAXPROC, TermProcess(pid) PROVE PltInv'
  BY <1>2, <1>6, <1>11 DEF TermProcess
<1>12. ASSUME NEW s \in UserSems, Passeren(s) \/ Verhogen(s) PROVE PltInv'
  BY <1>7, <1>12 DEF Passeren, Verhogen, P, V
<1>13. ASSUME NEW d \in Devices, DoIo(d) PROVE PltInv'
  BY <1>7, <1>13 DEF DoIo, P
<1>14. CASE ClockWait
  BY <1>7, <1>14 DEF ClockWait, P
<1>15. CASE PassUpOrDie \/ SetStatus
  BY <1>1, <1>6, <1>15 DEF PassUpOrDie, SetStatus, LoadStatus, schedVars
<1>16. CASE AllocNamespace \/ ItExpire
  BY <1>1, <1>16 DEF AllocNamespace, ItExpire, schedVars
<1>17. ASSUME NEW d \in Devices, DevDone(d) PROVE PltInv'
  BY <1>1, <1>17 DEF DevDone, schedVars
<1>18. CASE PltExpire
  BY <1>3, <1>18 DEF PltExpire
<1>22. CASE Wait
  BY <1>22 DEF Wait, PltInv, NoKernelFault
<1>19. CASE PltHandler
  <2>1. mode = "run" /\ currentProc # NULL
    BY <1>19, PcbAssumption
       DEF PltHandler, Interrupted, Idle, PltInv, IInv, TypeOK, SchedTypeOK
  <2>2. \E rq : Scheduler(rq, processCount, softBlockCount, FALSE)
    BY <1>19, <2>1 DEF PltHandler
  <2> QED
    BY <2>2, SchedulerPlt
<1>20. CASE ItHandler
  BY <1>8, <1>20 DEF ItHandler
<1>21. ASSUME NEW d \in Devices, DevHandler(d) PROVE PltInv'
  <2>1. ~plt /\ \E rq, soft : ExitIntHandler(rq, soft)
    BY <1>21 DEF DevHandler
  <2> QED
    BY <1>8, <2>1
<1> QED
  BY <1>2, <1>9, <1>10, <1>11, <1>12, <1>13, <1>14, <1>15, <1>16, <1>17, <1>18,
     <1>19, <1>20, <1>21, <1>22 DEF Next

\* If no time slice ends while a handler runs and no process executes with
\* the PLT's interrupt masked, __pltHandler never follows a null currentProc.
\* With either of the two it does, and nothing in the code prevents either.
THEOREM NoFaultWithoutLateTimer ==
    ~LateTimer /\ (\A m \in Statuses : "plt" \in m) => (Spec => []NoKernelFault)
<1> SUFFICES ASSUME ~LateTimer, PltOpen PROVE Spec => []NoKernelFault
  BY DEF PltOpen
<1>1. Init => PltInv
  BY DEF Init, PltInv, NoKernelFault
<1>2. IInv /\ PltInv /\ [Next]_vars => PltInv'
  BY NextPlt
<1>3. PltInv => NoKernelFault
  BY DEF PltInv
<1> QED
  BY <1>1, <1>2, <1>3, Invariant, PTL DEF Spec

----------------------------------------------------------------------------
(* Namespaces.                                                             *)

\* Steps that keep the PIDs or only free PCBs, and give no namespace back.
LEMMA NamespacesKept ==
    ASSUME NamespacesOwned, UNCHANGED p_ns, Range(nsFree') \subseteq Range(nsFree),
           \A p \in Procs : p_pid[p] = 0 => p_pid'[p] = 0
    PROVE  NamespacesOwned'
BY DEF NamespacesOwned, Active

\* A new process has the namespace it is given, which was allocated, or that
\* of its living parent.
LEMMA CreateNamespace ==
    ASSUME IInv, NamespacesOwned, NEW sup,
           NEW ns \in (Namespaces \ Range(nsFree)) \cup {NULL}, CreateProcess(sup, ns)
    PROVE  NamespacesOwned'
<1> DEFINE n == Head(pcbFree)
           m == ChildNamespace(ns)
<1>1. currentProc \in Active
  BY RunnerIsActive DEF CreateProcess, Executing
<1>2. m \in Namespaces \ Range(nsFree) /\ m # NULL
  BY <1>1, NucleusAssumption DEF ChildNamespace, NamespacesOwned
<1>3. p_pid' = [p_pid EXCEPT ![n] = n] /\ AddNamespace(n, m)
  BY DEF CreateProcess
<1> HIDE DEF n, m
<1>4. p_ns' = [p_ns EXCEPT ![n] = m] /\ nsFree' = nsFree
  BY <1>2, <1>3 DEF AddNamespace
<1> QED
  BY <1>2, <1>3, <1>4 DEF NamespacesOwned, Active, IInv, TypeOK, TreeTypeOK

\* Every step leaves each living process in an allocated namespace.
LEMMA NextNamespaces == IInv /\ NamespacesOwned /\ [Next]_vars => NamespacesOwned'
<1> SUFFICES ASSUME IInv, NamespacesOwned, [Next]_vars PROVE NamespacesOwned'
  OBVIOUS
<1>1. ASSUME UNCHANGED treeVars PROVE NamespacesOwned'
  BY <1>1, NamespacesKept DEF treeVars
<1>2. ASSUME UNCHANGED vars PROVE NamespacesOwned'
  BY <1>1, <1>2 DEF vars
<1>3. ASSUME NEW v, KillAndContinue(v) PROVE NamespacesOwned'
  <2>1. UNCHANGED <<p_ns, nsFree>> /\ \A p \in Procs : p_pid[p] = 0 => p_pid'[p] = 0
    BY <1>3 DEF KillAndContinue, KillProcess
  <2> QED
    BY <2>1, NamespacesKept
<1>4. CASE \E sup \in Supports, ns \in (Namespaces \ Range(nsFree)) \cup {NULL} :
              CreateProcess(sup, ns)
  BY <1>4, CreateNamespace
<1>5. CASE CreateFails \/ Stopped
  BY <1>2, <1>5 DEF CreateFails, Stopped
<1>6. ASSUME NEW pid \in 0..MAXPROC, TermProcess(pid) PROVE NamespacesOwned'
  BY <1>2, <1>3, <1>6 DEF TermProcess
<1>7. CASE PassUpOrDie \/ SetStatus
  BY <1>3, <1>7, NamespacesKept DEF PassUpOrDie, SetStatus, LoadStatus
<1>8. CASE AllocNamespace
  <2>1. /\ nsFree # <<>> /\ nsFree' = Tail(nsFree) /\ UNCHANGED <<p_ns, p_pid>>
        /\ nsFree \in Seq(Namespaces)
    BY <1>8 DEF AllocNamespace, IInv, TypeOK, TreeTypeOK
  <2>2. Range(Tail(nsFree)) \subseteq Range(nsFree)
    <3>1. /\ Tail(nsFree) = [i \in 1..Len(nsFree) - 1 |-> nsFree[i + 1]]
          /\ Len(nsFree) \in Nat /\ DOMAIN nsFree = 1..Len(nsFree)
      BY <2>1, LenProperties, HeadTailProperties
    <3> QED
      BY <3>1 DEF Range
  <2> QED
    BY <2>1, <2>2, NamespacesKept
<1>9. CASE \E s \in UserSems : Passeren(s) \/ Verhogen(s)
  BY <1>1, <1>9 DEF Passeren, Verhogen
<1>10. CASE \E d \in Devices : DoIo(d) \/ DevDone(d) \/ DevHandler(d)
  BY <1>1, <1>10 DEF DoIo, DevDone, DevHandler
<1>11. CASE ClockWait \/ Wait \/ PltExpire \/ ItExpire \/ PltHandler \/ ItHandler
  BY <1>1, <1>11 DEF ClockWait, Wait, PltExpire, ItExpire, PltHandler, ItHandler
<1> QED
  BY <1>2, <1>4, <1>5, <1>6, <1>7, <1>8, <1>9, <1>10, <1>11 DEF Next

\* However many namespaces there are and however often they run out, every
\* living process is in one that was allocated.
THEOREM NamespacesCorrect == Spec => []NamespacesOwned
<1>1. Init => NamespacesOwned
  <2> SUFFICES ASSUME Init PROVE NamespacesOwned
    OBVIOUS
  <2>1. /\ \A p \in Procs : /\ p_pid[p] = IF p = 1 THEN 1 ELSE 0
                            /\ p_ns[p] = IF p = 1 THEN 1 ELSE NULL
        /\ nsFree = [i \in 1..MAXNS - 1 |-> i + 1]
    BY DEF Init
  <2>2. Active \subseteq {1}
    BY <2>1 DEF Active
  <2>3. 1 \in Namespaces /\ 1 \notin Range(nsFree)
    BY <2>1, NucleusAssumption DEF Namespaces, Range
  <2> QED
    BY <2>1, <2>2, <2>3 DEF NamespacesOwned, Active
<1> QED
  BY <1>1, NextNamespaces, Invariant, PTL DEF Spec

----------------------------------------------------------------------------
(* The steps.                                                              *)

\* Every step that moves a PCB is one of six.
StepKind ==
    \/ \E sup \in Supports, ns \in Namespaces \cup {NULL} : CreateProcess(sup, ns)
    \/ \E v \in Active : KillAndContinue(v)
    \/ /\ mode = "run" /\ UNCHANGED treeVars
       /\ \E s \in Keys : \E closed, soft : SemOp(s, closed, soft)
    \/ PltHandler
    \/ ItHandler
    \/ \E d \in Devices : DevHandler(d)
    \/ UNCHANGED <<p_pid, pcbFree, readyQueue, p_semAdd, semd_h>>

\* The system calls and interrupts, by what they do to the PCBs.
LEMMA StepKinds == IInv /\ [Next]_vars => StepKind
<1> SUFFICES ASSUME IInv, [Next]_vars PROVE StepKind
  OBVIOUS
<1>1. ASSUME UNCHANGED <<p_pid, pcbFree, readyQueue, p_semAdd, semd_h>> PROVE StepKind
  BY <1>1 DEF StepKind
<1>2. ASSUME UNCHANGED vars PROVE StepKind
  BY <1>1, <1>2 DEF vars, treeVars, hashVars, schedVars
<1>3. Executing => mode = "run" /\ currentProc \in Active
  BY RunnerIsActive DEF Executing
<1>4. ASSUME NEW v \in Active, KillAndContinue(v) PROVE StepKind
  BY <1>4 DEF StepKind
<1>5. ASSUME NEW s \in Keys, NEW closed, NEW soft,
             mode = "run", UNCHANGED treeVars, SemOp(s, closed, soft)
      PROVE  StepKind
  BY <1>5 DEF StepKind
<1>6. CASE \E sup \in Supports, ns \in (Namespaces \ Range(nsFree)) \cup {NULL} :
              CreateProcess(sup, ns)
  BY <1>6 DEF StepKind
<1>7. CASE CreateFails \/ Stopped
  BY <1>2, <1>7 DEF CreateFails, Stopped
<1>8. ASSUME NEW pid \in 0..MAXPROC, TermProcess(pid) PROVE StepKind
  <2> DEFINE victim == IF pid = 0 THEN currentProc ELSE GetPcb(p_pid, pid)
  <2>1. currentProc \in Active
    BY <1>3, <1>8 DEF TermProcess
  <2>2. victim # NULL => victim \in Active
    BY <2>1, PcbAssumption DEF GetPcb, Active, Procs
  <2>3. IF victim # NULL THEN KillAndContinue(victim) ELSE UNCHANGED vars
    BY <1>8 DEF TermProcess
  <2> HIDE DEF victim
  <2> QED
    BY <1>2, <1>4, <2>2, <2>3
<1>9. ASSUME NEW s \in UserSems, Passeren(s) \/ Verhogen(s) PROVE StepKind
  BY <1>3, <1>5, <1>9 DEF Passeren, Verhogen, P, V, Keys
<1>10. ASSUME NEW d \in Devices, DoIo(d) PROVE StepKind
  BY <1>3, <1>5, <1>10 DEF DoIo, P, Keys
<1>11. CASE ClockWait
  BY <1>3, <1>5, <1>11 DEF ClockWait, P, Keys
<1>12. CASE PassUpOrDie \/ SetStatus
  BY <1>1, <1>3, <1>4, <1>12
     DEF PassUpOrDie, SetStatus, LoadStatus, hashVars, schedVars
<1>13. CASE AllocNamespace \/ Wait \/ PltExpire \/ ItExpire
  BY <1>1, <1>13
     DEF AllocNamespace, Wait, PltExpire, ItExpire, treeVars, hashVars, schedVars
<1>14. ASSUME NEW d \in Devices, DevDone(d) PROVE StepKind
  BY <1>1, <1>14 DEF DevDone, treeVars, hashVars, schedVars
<1>15. CASE PltHandler \/ ItHandler \/ \E d \in Devices : DevHandler(d)
  BY <1>15 DEF StepKind
<1> QED
  BY <1>2, <1>6, <1>7, <1>8, <1>9, <1>10, <1>11, <1>12, <1>13, <1>14, <1>15 DEF Next

----------------------------------------------------------------------------
(* Kills.                                                                  *)

\* The subtree of a living process is it and those whose parent is in there.
LEMMA SubtreeByParents ==
    ASSUME IInv, NEW v \in Active, NEW p \in Active
    PROVE  p \in Subtree(p_child, v) <=> p = v \/ p_parent[p] \in Subtree(p_child, v)
<1> DEFINE dead == Subtree(p_child, v)
<1>1. v \in Procs /\ p \in Procs /\ p_child \in [Procs -> Seq(Procs)]
  BY DEF Active, IInv, TypeOK, TreeTypeOK
<1>2. v \in dead /\ dead \in SUBSET Procs /\ ClosedUnder(p_child, dead)
  BY <1>1, SubtreeClosed
<1>3. ASSUME p \in dead, p # v PROVE \E t \in dead : p \in Range(p_child[t])
  BY <1>1, <1>3, SubtreeParents
<1>4. \A t \in Procs : p \in Range(p_child[t]) <=> p_parent[p] = t
  BY <1>1 DEF IInv, TreeInv, OneTree
<1> HIDE DEF dead
<1>5. p \in dead => p = v \/ p_parent[p] \in dead
  BY <1>2, <1>3, <1>4
<1>6. p = v \/ p_parent[p] \in dead => p \in dead
  BY <1>2, <1>4 DEF ClosedUnder
<1> QED
  BY <1>5, <1>6 DEF dead

\* A step frees nobody but the subtree it kills.
LEMMA NextKills ==
    ASSUME IInv, [Next]_vars
    PROVE  LET dead == {p \in Active : p_pid'[p] = 0}
           IN  dead # {} => \E v \in dead :
                  \A p \in Active : p \in dead <=> p = v \/ p_parent[p] \in dead
<1> DEFINE dead == {p \in Active : p_pid'[p] = 0}
<1>1. ASSUME \A p \in Active : p_pid'[p] # 0 PROVE dead = {}
  BY <1>1
<1>2. ASSUME \E sup \in Supports, ns \in Namespaces \cup {NULL} : CreateProcess(sup, ns)
      PROVE  dead = {}
  <2>1. p_pid' = [p_pid EXCEPT ![Head(pcbFree)] = Head(pcbFree)] /\ pcbFree # <<>>
    BY <1>2 DEF CreateProcess
  <2>2. Head(pcbFree) \in Procs /\ p_pid \in [Procs -> 0..MAXPROC]
    BY <2>1, HeadTailProperties DEF IInv, TypeOK, TreeTypeOK
  <2>3. \A p \in Active : p_pid'[p] # 0
    BY <2>1, <2>2, PcbAssumption DEF Active, Procs
  <2> QED
    BY <1>1, <2>3
<1>3. ASSUME NEW v \in Active, KillAndContinue(v)
      PROVE  /\ v \in dead
             /\ \A p \in Active : p \in dead <=> p = v \/ p_parent[p] \in dead
  <2> DEFINE tree == Subtree(p_child, v)
  <2>1. tree \subseteq Active /\ v \in tree
    BY ActiveSubtree, SubtreeClosed DEF IInv, TreeInv, TypeOK, TreeTypeOK, Active
  <2>2. p_pid' = [p \in Procs |-> IF p \in tree THEN 0 ELSE p_pid[p]]
    BY <1>3 DEF KillAndContinue, KillProcess
  <2>3. \A p \in Active : p \in tree <=> p = v \/ p_parent[p] \in tree
    BY SubtreeByParents
  <2> HIDE DEF tree
  <2>4. dead = tree
    BY <2>1, <2>2 DEF Active
  <2> HIDE DEF dead
  <2> QED
    BY <2>1, <2>3, <2>4
<1>4. ASSUME UNCHANGED p_pid PROVE dead = {}
  BY <1>1, <1>4 DEF Active
<1>5. StepKind => \/ \E sup \in Supports, ns \in Namespaces \cup {NULL} : CreateProcess(sup, ns)
                  \/ \E v \in Active : KillAndContinue(v)
                  \/ UNCHANGED p_pid
  BY DEF StepKind, PltHandler, ItHandler, DevHandler, treeVars
<1> HIDE DEF dead
<1>6. dead # {} => \E v \in dead :
         \A p \in Active : p \in dead <=> p = v \/ p_parent[p] \in dead
  BY <1>2, <1>3, <1>4, <1>5, StepKinds
<1> QED
  BY <1>6 DEF dead

\* In every step of every behaviour, those who die are one process and all
\* that descend from it: TERMPROCESS and die never leave an orphan and never
\* take anybody else, whatever the shape of the tree.
THEOREM KillsTakeProgeny == Spec => KillTakesProgeny
<1>1. IInv /\ [Next]_vars =>
      [ LET dead == {p \in Active : p_pid'[p] = 0}
        IN  dead # {} => \E v \in dead :
               \A p \in Active : p \in dead <=> p = v \/ p_parent[p] \in dead ]_vars
  BY NextKills
<1> QED
  BY <1>1, Invariant, PTL DEF Spec, KillTakesProgeny

----------------------------------------------------------------------------
(* Semaphores.                                                             *)

\* Who is blocked where can be read from p_semAdd.
LEMMA BlockedBySemAdd ==
    ASSUME NEW rq, NEW h, NEW semAdd, NEW free, NEW on,
           Seated(rq, h, semAdd, free, on), NEW p \in Procs, NEW s \in Keys
    PROVE  s \in DOMAIN h /\ p \in Range(h[s]) <=> semAdd[p] = s
<1>1. p \in Range(Procq(h, s)) <=> semAdd[p] = s
  BY DEF Seated
<1>2. Range(<<>>) = {}
  BY EmptySeq DEF Range
<1> QED
  BY <1>1, <1>2 DEF Procq

\* How a step may change a process' p_semAdd.
LEMMA NextSemAdd ==
    ASSUME IInv, [Next]_vars, NEW p \in Procs, NEW s \in Keys
    PROVE  /\ p_semAdd'[p] = s /\ p_semAdd[p] # s => IsRunning(p)
           /\ p_semAdd[p] = s /\ p_semAdd'[p] # s /\ p_pid'[p] # 0 =>
                 p = Head(semd_h[s]) \/ (s = ItSem /\ Procq(semd_h', s) = <<>>)
<1> DEFINE Goal ==
        /\ p_semAdd'[p] = s /\ p_semAdd[p] # s => IsRunning(p)
        /\ p_semAdd[p] = s /\ p_semAdd'[p] # s /\ p_pid'[p] # 0 =>
              p = Head(semd_h[s]) \/ (s = ItSem /\ Procq(semd_h', s) = <<>>)
<1> SUFFICES Goal
  OBVIOUS
<1>1. /\ s # NULL /\ p_semAdd \in [Procs -> Keys \cup {NULL}] /\ IsHash(semd_h)
      /\ Seated(readyQueue, semd_h, p_semAdd, pcbFree, OnProcessor(mode, currentProc))
  BY NucleusAssumption DEF IInv, TypeOK, HashTypeOK, Placed
<1>2. ASSUME UNCHANGED p_semAdd PROVE Goal
  BY <1>2
<1>3. ASSUME NEW k \in Keys, HeadBlocked(semd_h, k) # NULL,
             p_semAdd' = [p_semAdd EXCEPT ![HeadBlocked(semd_h, k)] = NULL]
      PROVE  Goal
  <2>1. /\ p_semAdd[HeadBlocked(semd_h, k)] = k
        /\ HeadBlocked(semd_h, k) = Head(semd_h[k])
    BY <1>1, <1>3, HeadIsBlocked, ProcqType
  <2> QED
    BY <1>1, <1>3, <2>1
<1>4. CASE \E sup \in Supports, ns \in Namespaces \cup {NULL} : CreateProcess(sup, ns)
  <2> DEFINE n == Head(pcbFree)
  <2>1. p_semAdd' = [p_semAdd EXCEPT ![n] = NULL] /\ pcbFree # <<>>
    BY <1>4 DEF CreateProcess
  <2>2. n \in Range(pcbFree) /\ n \in Procs
    BY <1>1, <2>1, TailRange DEF IInv, TypeOK, TreeTypeOK, Seated
  <2>3. p_semAdd[n] = NULL
    BY <1>1, <2>2 DEF Seated
  <2> QED
    BY <1>1, <2>1, <2>2, <2>3
<1>5. ASSUME NEW v \in Active, KillAndContinue(v) PROVE Goal
  <2> DEFINE dead == Subtree(p_child, v)
  <2>1. /\ p_pid' = [q \in Procs |-> IF q \in dead THEN 0 ELSE p_pid[q]]
        /\ p_semAdd' = [q \in Procs |-> IF q \in dead THEN NULL ELSE p_semAdd[q]]
    BY <1>5 DEF KillAndContinue, KillProcess
  <2> HIDE DEF dead
  <2> QED
    BY <1>1, <2>1
<1>6. ASSUME mode = "run", NEW k \in Keys, NEW closed, NEW soft, SemOp(k, closed, soft)
      PROVE  Goal
  <2>1. CASE Block(k, soft)
    <3>1. p_semAdd' = [p_semAdd EXCEPT ![currentProc] = k]
      BY <1>6, <2>1, BlockAdds
    <3>2. p_semAdd[currentProc] = NULL /\ currentProc \in Procs
      BY <1>1, <1>6, RunnerIsActive DEF Seated
    <3> QED
      BY <1>1, <1>6, <3>1, <3>2 DEF IsRunning
  <2>2. CASE HeadBlocked(semd_h, k) # NULL /\ HandOff(k)
    BY <1>3, <2>2 DEF HandOff
  <2>3. CASE Close(k, closed)
    BY <1>2, <2>3 DEF Close
  <2> QED
    BY <1>6, <2>1, <2>2, <2>3 DEF SemOp
<1>7. CASE ItHandler
  <2>1. p_semAdd' = [q \in Procs |-> IF q \in Range(Procq(semd_h, ItSem)) THEN NULL
                                     ELSE p_semAdd[q]]
    BY <1>7 DEF ItHandler
  <2>2. ItSem \in Keys /\ (p \in Range(Procq(semd_h, ItSem)) <=> p_semAdd[p] = ItSem)
    BY <1>1 DEF Seated, Keys
  <2>3. Procq(semd_h', ItSem) = <<>>
    <3>1. semd_h' = Restrict(semd_h, DOMAIN semd_h \ {ItSem})
      BY <1>7 DEF ItHandler
    <3>2. ItSem \notin DOMAIN semd_h'
      BY <3>1 DEF Restrict
    <3> QED
      BY <3>2 DEF Procq
  <2> QED
    BY <1>1, <2>1, <2>2, <2>3
<1>8. ASSUME NEW d \in Devices, DevHandler(d) PROVE Goal
  BY <1>2, <1>3, <1>8 DEF DevHandler, hashVars, Keys
<1>9. CASE PltHandler
  BY <1>2, <1>9 DEF PltHandler, hashVars
<1> HIDE DEF Goal
<1> QED
  BY <1>2, <1>4, <1>5, <1>6, <1>7, <1>8, <1>9, StepKinds DEF StepKind

\* In every step of every behaviour, a process blocks only by its own call,
\* and a living one is let through only at the head of its queue, or with the
\* whole queue of the clock.
THEOREM WakesFromTheHead == Spec => WokenFromTheHead
<1> DEFINE Step == \A p \in Procs : \A s \in Keys :
          /\ BlockedOn(p, s)' /\ ~BlockedOn(p, s) => IsRunning(p)
          /\ BlockedOn(p, s) /\ ~BlockedOn(p, s)' /\ p_pid'[p] # 0 =>
                \/ p = Head(semd_h[s])
                \/ s = ItSem /\ Procq(semd_h', s) = <<>>
<1>1. ASSUME IInv, IInv', [Next]_vars PROVE Step
  <2> SUFFICES ASSUME NEW p \in Procs, NEW s \in Keys
               PROVE  /\ BlockedOn(p, s)' /\ ~BlockedOn(p, s) => IsRunning(p)
                      /\ BlockedOn(p, s) /\ ~BlockedOn(p, s)' /\ p_pid'[p] # 0 =>
                            \/ p = Head(semd_h[s])
                            \/ s = ItSem /\ Procq(semd_h', s) = <<>>
    OBVIOUS
  <2>1. BlockedOn(p, s) <=> p_semAdd[p] = s
    BY <1>1, BlockedBySemAdd DEF IInv, Placed, BlockedOn
  <2>2. BlockedOn(p, s)' <=> p_semAdd'[p] = s
    BY <1>1, BlockedBySemAdd DEF IInv, Placed, BlockedOn
  <2> QED
    BY <1>1, <2>1, <2>2, NextSemAdd
<1>2. IInv /\ IInv' /\ [Next]_vars => [Step]_vars
  BY <1>1
<1> QED
  BY <1>2, Invariant, PTL DEF Spec, WokenFromTheHead


----------------------------------------------------------------------------
(* Overtaking.                                                             *)

\* Who stands before somebody is in the queue, and so is the other one.
LEMMA PrecedesInRange ==
    ASSUME NEW q \in Seq(Procs), NEW x, NEW y, Precedes(q, x, y)
    PROVE  x \in Range(q) /\ y \in Range(q)
<1>1. DOMAIN q = 1..Len(q)
  BY LenProperties
<1> QED
  BY <1>1 DEF Precedes, Range

\* A queue from which some are taken, and one to which others are added at
\* the end, keep the order.
LEMMA OrderKept ==
    ASSUME NEW q \in Seq(Procs)
    PROVE  /\ KeepsOrder(q, q)
           /\ KeepsOrder(q, <<>>)
           /\ \A D : KeepsOrder(q, Without(q, D))
           /\ \A r \in Seq(Procs) :
                 Range(r) \cap Range(q) = {} => KeepsOrder(q, q \o r)
<1>1. KeepsOrder(q, q)
  BY DEF KeepsOrder
<1>2. KeepsOrder(q, <<>>)
  BY DEF KeepsOrder, Range
<1>3. ASSUME NEW D PROVE KeepsOrder(q, Without(q, D))
  <2>1. Range(Without(q, D)) = Range(q) \ D
    BY WithoutProperty
  <2> QED
    BY <2>1, WithoutPrecedes DEF KeepsOrder
<1>4. ASSUME NEW r \in Seq(Procs), Range(r) \cap Range(q) = {}
      PROVE  KeepsOrder(q, q \o r)
  <2>1. Range(q \o r) = Range(q) \cup Range(r)
    BY ConcatRange
  <2> QED
    BY <1>4, <2>1, ConcatPrecedes DEF KeepsOrder
<1> QED
  BY <1>1, <1>2, <1>3, <1>4

\* Then the head may leave.
LEMMA OrderTail ==
    ASSUME NEW q \in Seq(Procs), NEW r \in Seq(Procs), r # <<>>, IsInjective(r),
           KeepsOrder(q, r)
    PROVE  KeepsOrder(q, Tail(r))
<1>1. Range(Tail(r)) = Range(r) \ {Head(r)}
  BY TailRange
<1> QED
  BY <1>1, TailPrecedes DEF KeepsOrder

\* The scheduler keeps the order of the ready queue it is given.
LEMMA SchedulerOrder ==
    ASSUME NEW q \in Seq(Procs), NEW rq \in Seq(Procs), IsInjective(rq),
           KeepsOrder(q, rq),
           NEW n, NEW soft, NEW pending, Scheduler(rq, n, soft, pending)
    PROVE  KeepsOrder(q, readyQueue')
<1>1. CASE readyQueue' = rq
  BY <1>1
<1>2. CASE rq # <<>> /\ readyQueue' = Tail(rq)
  BY <1>2, OrderTail
<1> QED
  BY <1>1, <1>2 DEF Scheduler

\* So does the end of an interrupt handler.
LEMMA ExitOrder ==
    ASSUME NEW q \in Seq(Procs), NEW rq \in Seq(Procs), IsInjective(rq),
           KeepsOrder(q, rq), NEW soft, ExitIntHandler(rq, soft)
    PROVE  KeepsOrder(q, readyQueue')
BY SchedulerOrder DEF ExitIntHandler

\* Living processes that were not ready are woken to the end of the ready
\* queue.
LEMMA WakeAllOrder ==
    ASSUME IInv, NEW q \in Seq(Procs), IsInjective(q),
           \A p \in Range(q) : p_pid[p] # 0 /\ p \notin Range(readyQueue)
    PROVE  /\ WakeAll(readyQueue, q) \in Seq(Procs)
           /\ IsInjective(WakeAll(readyQueue, q))
           /\ KeepsOrder(readyQueue, WakeAll(readyQueue, q))
<1>1. readyQueue \in Seq(Procs) /\ IsInjective(readyQueue)
  BY DEF IInv, TypeOK, SchedTypeOK, Placed, Seated
<1>2. WakeAll(readyQueue, q) \in Seq(Procs) /\ IsInjective(WakeAll(readyQueue, q))
  BY <1>1, WakeAllRange, WakeAllType
<1> DEFINE woken == Without(q, {p \in Procs : ~IsPcbActive(p_pid, p)})
<1>3. woken \in Seq(Procs) /\ Range(woken) \subseteq Range(q)
  BY WithoutProperty
<1>4. WakeAll(readyQueue, q) = readyQueue \o woken
  BY DEF WakeAll
<1> HIDE DEF woken
<1>5. Range(woken) \cap Range(readyQueue) = {}
  BY <1>3
<1>6. KeepsOrder(readyQueue, readyQueue \o woken)
  BY <1>1, <1>3, <1>5, OrderKept
<1> QED
  BY <1>2, <1>4, <1>6

\* Those blocked on a semaphore are woken so, and so is one of them.
LEMMA BlockedWakeInOrder ==
    ASSUME IInv, NEW s \in Keys
    PROVE  /\ \A p \in Range(Procq(semd_h, s)) :
                 p \in Procs /\ p_pid[p] # 0 /\ p \notin Range(readyQueue)
           /\ \E q \in {Procq(semd_h, s)} :
                 /\ WakeAll(readyQueue, q) \in Seq(Procs)
                 /\ IsInjective(WakeAll(readyQueue, q))
                 /\ KeepsOrder(readyQueue, WakeAll(readyQueue, q))
           /\ HeadBlocked(semd_h, s) # NULL =>
                 \E q \in {<<HeadBlocked(semd_h, s)>>} :
                    /\ WakeAll(readyQueue, q) \in Seq(Procs)
                    /\ IsInjective(WakeAll(readyQueue, q))
                    /\ KeepsOrder(readyQueue, WakeAll(readyQueue, q))
<1> DEFINE all == Procq(semd_h, s)
           p1  == HeadBlocked(semd_h, s)
           one == <<p1>>
<1>1. all \in Seq(Procs) /\ IsInjective(all)
  BY ProcqType DEF IInv, TypeOK, HashTypeOK, Placed, Seated
<1>2. Range(all) \subseteq Procs
  BY <1>1, LenProperties DEF Range
<1>3. \A p \in Procs : p_semAdd[p] = s =>
         p_pid[p] # 0 /\ p \notin Range(readyQueue)
  <2>1. s # NULL /\ \A p \in Procs : p # 0
    BY NucleusAssumption, PcbAssumption DEF Procs
  <2> QED
    BY <2>1 DEF IInv, Placed, Seated
<1>4. \A p \in Range(all) : p \in Procs /\ p_pid[p] # 0 /\ p \notin Range(readyQueue)
  BY <1>2, <1>3 DEF IInv, Placed, Seated
<1> HIDE DEF all
<1>5. /\ WakeAll(readyQueue, all) \in Seq(Procs) /\ IsInjective(WakeAll(readyQueue, all))
      /\ KeepsOrder(readyQueue, WakeAll(readyQueue, all))
  BY <1>1, <1>4, WakeAllOrder
<1>6. ASSUME p1 # NULL
      PROVE  /\ WakeAll(readyQueue, one) \in Seq(Procs)
             /\ IsInjective(WakeAll(readyQueue, one))
             /\ KeepsOrder(readyQueue, WakeAll(readyQueue, one))
  <2>1. p1 \in Procs /\ p_semAdd[p1] = s
    BY <1>6, HeadIsBlocked
  <2> HIDE DEF p1
  <2>2. one \in Seq(Procs) /\ Range(one) = {p1}
    BY <2>1, OneElement
  <2>3. IsInjective(one)
    BY DEF IsInjective
  <2> HIDE DEF one
  <2> QED
    BY <1>3, <2>1, <2>2, <2>3, WakeAllOrder
<1> QED
  BY <1>4, <1>5, <1>6 DEF all


\* What a step does to the order of the queues.
Ordered ==
    /\ KeepsOrder(readyQueue, readyQueue')
    /\ KeepsOrder(pcbFree, pcbFree')
    /\ \A s \in Keys : KeepsOrder(Procq(semd_h, s), Procq(semd_h', s))

\* The head of one semaphore's queue, or a whole queue, leaves the hash.
LEMMA HashOrder ==
    ASSUME IInv, NEW k \in Keys,
           \/ HeadBlocked(semd_h, k) # NULL /\ semd_h' = RemoveBlocked(semd_h, k)
           \/ semd_h' = Restrict(semd_h, DOMAIN semd_h \ {k})
           \/ semd_h' = IfEmptyDealloc(semd_h, k)
           \/ UNCHANGED semd_h
    PROVE  \A s \in Keys : KeepsOrder(Procq(semd_h, s), Procq(semd_h', s))
<1> SUFFICES ASSUME NEW s \in Keys
             PROVE  KeepsOrder(Procq(semd_h, s), Procq(semd_h', s))
  OBVIOUS
<1>1. IsHash(semd_h)
  BY DEF IInv, TypeOK, HashTypeOK
<1>2. Procq(semd_h, s) \in Seq(Procs) /\ IsInjective(Procq(semd_h, s))
  BY <1>1, ProcqType DEF IInv, Placed, Seated
<1>3. CASE HeadBlocked(semd_h, k) # NULL /\ semd_h' = RemoveBlocked(semd_h, k)
  <2>1. k \in DOMAIN semd_h /\ Procq(semd_h, k) # <<>>
    BY <1>1, <1>3, ProcqType
  <2>2. Procq(semd_h', s) = IF s = k THEN Tail(semd_h[k]) ELSE Procq(semd_h, s)
    BY <1>1, <1>3, <2>1, RemoveBlockedQueues
  <2>3. Procq(semd_h, k) = semd_h[k]
    BY <2>1 DEF Procq
  <2> QED
    BY <1>2, <2>1, <2>2, <2>3, OrderKept, OrderTail
<1>4. CASE semd_h' = Restrict(semd_h, DOMAIN semd_h \ {k})
  <2>1. /\ DOMAIN semd_h' = DOMAIN semd_h \ {k}
        /\ \A x \in DOMAIN semd_h \ {k} : semd_h'[x] = semd_h[x]
    BY <1>4 DEF Restrict
  <2>2. Procq(semd_h', s) = Procq(semd_h, s) \/ Procq(semd_h', s) = <<>>
    BY <2>1 DEF Procq
  <2> QED
    BY <1>2, <2>2, OrderKept
<1>5. CASE semd_h' = IfEmptyDealloc(semd_h, k)
  <2>1. Procq(semd_h', s) = Procq(semd_h, s)
    BY <1>5, IfEmptyDeallocQueues
  <2> QED
    BY <1>2, <2>1, OrderKept
<1>6. CASE UNCHANGED semd_h
  BY <1>2, <1>6, OrderKept
<1> QED
  BY <1>3, <1>4, <1>5, <1>6

\* CREATEPROCESS takes the head of the free list, and its process goes to the
\* end of the ready queue.
LEMMA CreateOrder ==
    ASSUME IInv, NEW sup, NEW ns, CreateProcess(sup, ns)
    PROVE  Ordered
<1> DEFINE p   == Head(pcbFree)
           one == <<p>>
<1>1. /\ pcbFree # <<>> /\ pcbFree \in Seq(Procs) /\ IsInjective(pcbFree)
      /\ readyQueue \in Seq(Procs)
  BY DEF CreateProcess, IInv, TypeOK, TreeTypeOK, SchedTypeOK, Placed, Seated
<1>2. /\ pcbFree' = Tail(pcbFree) /\ semd_h' = semd_h
      /\ readyQueue' = Append(readyQueue, p)
  BY DEF CreateProcess, InsertProcQ
<1>3. p \in Procs /\ p \notin Range(readyQueue)
  BY <1>1, TailRange DEF IInv, Placed, Seated
<1>4. KeepsOrder(pcbFree, pcbFree')
  BY <1>1, <1>2, OrderKept, OrderTail
<1> HIDE DEF p
<1>5. one \in Seq(Procs) /\ Range(one) = {p}
  BY <1>3, OneElement
<1>6. readyQueue' = readyQueue \o one
  BY <1>2, AppendIsConcat
<1> HIDE DEF one
<1>7. KeepsOrder(readyQueue, readyQueue')
  BY <1>1, <1>3, <1>5, <1>6, OrderKept
<1>8. ItSem \in Keys
  BY DEF Keys
<1> QED
  BY <1>2, <1>4, <1>7, <1>8, HashOrder DEF Ordered

\* A kill takes the dead out of the queues they are in and puts them at the
\* end of the free list.
LEMMA KillOrder ==
    ASSUME IInv, NEW v \in Active, KillAndContinue(v)
    PROVE  Ordered
<1> DEFINE dead == Subtree(p_child, v)
<1>1. /\ pcbFree \in Seq(Procs) /\ readyQueue \in Seq(Procs)
      /\ IsInjective(readyQueue) /\ IsHash(semd_h)
  BY DEF IInv, TypeOK, TreeTypeOK, SchedTypeOK, HashTypeOK, Placed, Seated
<1>2. dead \in SUBSET Procs /\ dead \subseteq Active
  BY ActiveSubtree DEF IInv, TreeInv, Active
<1>3. /\ semd_h' = OutBlocked(semd_h, p_semAdd, dead)
      /\ \E o \in Orders(dead, FreedBefore(p_child, dead)) : pcbFree' = pcbFree \o o
      /\ \/ Scheduler(ReadyLeft(dead), processCount', softBlockCount', plt)
         \/ readyQueue' = ReadyLeft(dead)
  BY DEF KillAndContinue, KillProcess
<1>4. dead \cap Range(pcbFree) = {}
  BY <1>2, ActiveIsNotFree DEF IInv
<1> HIDE DEF dead
<1>5. KeepsOrder(pcbFree, pcbFree')
  <2>1. PICK o \in Orders(dead, FreedBefore(p_child, dead)) : pcbFree' = pcbFree \o o
    BY <1>3
  <2>2. o \in Seq(Procs) /\ Range(o) = dead
    BY <1>2, OrdersProperty
  <2> QED
    BY <1>1, <1>4, <2>1, <2>2, OrderKept
<1>6. KeepsOrder(readyQueue, readyQueue')
  <2>1. /\ ReadyLeft(dead) \in Seq(Procs) /\ IsInjective(ReadyLeft(dead))
        /\ KeepsOrder(readyQueue, ReadyLeft(dead))
    BY <1>1, WithoutProperty, OrderKept DEF ReadyLeft
  <2> QED
    BY <1>1, <1>3, <2>1, SchedulerOrder
<1>7. ASSUME NEW s \in Keys
      PROVE  KeepsOrder(Procq(semd_h, s), Procq(semd_h', s))
  <2>1. Procq(semd_h', s) = Without(Procq(semd_h, s), {p \in dead : p_semAdd[p] = s})
    BY <1>1, <1>3, OutBlockedQueues
  <2>2. Procq(semd_h, s) \in Seq(Procs)
    BY <1>1, ProcqType
  <2> QED
    BY <2>1, <2>2, OrderKept
<1> QED
  BY <1>5, <1>6, <1>7 DEF Ordered

\* P and V add the caller to the end of one queue, or take the head of one.
LEMMA SemOpOrder ==
    ASSUME IInv, mode = "run", UNCHANGED treeVars,
           NEW k \in Keys, NEW closed, NEW soft, SemOp(k, closed, soft)
    PROVE  Ordered
<1>1. /\ pcbFree' = pcbFree /\ pcbFree \in Seq(Procs) /\ readyQueue \in Seq(Procs)
      /\ IsInjective(readyQueue) /\ IsHash(semd_h)
  BY DEF treeVars, IInv, TypeOK, TreeTypeOK, SchedTypeOK, HashTypeOK, Placed, Seated
<1>2. KeepsOrder(pcbFree, pcbFree')
  BY <1>1, OrderKept
<1>3. CASE Block(k, soft)
  <2> DEFINE one == <<currentProc>>
  <2>1. /\ currentProc \in Procs /\ p_semAdd[currentProc] = NULL
        /\ Seated(readyQueue, semd_h, p_semAdd, pcbFree, {currentProc})
    BY RunnerIsActive DEF IInv, Placed, Seated
  <2>2. ~Exhausted(semd_h, k)
    BY <1>1, <2>1, NotExhausted
  <2>3. /\ semd_h' = InsertBlocked(semd_h, k, currentProc)
        /\ Scheduler(readyQueue, processCount, soft, plt)
    BY <1>3, <2>2 DEF Block
  <2>4. KeepsOrder(readyQueue, readyQueue')
    BY <1>1, <2>3, OrderKept, SchedulerOrder
  <2>5. one \in Seq(Procs) /\ Range(one) = {currentProc}
    BY <2>1, OneElement
  <2>6. ASSUME NEW s \in Keys
        PROVE  KeepsOrder(Procq(semd_h, s), Procq(semd_h', s))
    <3>1. Procq(semd_h', s) = IF s = k THEN Append(Procq(semd_h, s), currentProc)
                              ELSE Procq(semd_h, s)
      BY <2>3, InsertBlockedQueues
    <3>2. /\ Procq(semd_h, s) \in Seq(Procs)
          /\ Append(Procq(semd_h, s), currentProc) = Procq(semd_h, s) \o one
      BY <1>1, <2>1, ProcqType, AppendIsConcat
    <3>3. currentProc \notin Range(Procq(semd_h, s))
      BY <2>1, NucleusAssumption DEF Seated
    <3> HIDE DEF one
    <3> QED
      BY <2>5, <3>1, <3>2, <3>3, OrderKept
  <2> QED
    BY <1>2, <2>4, <2>6 DEF Ordered
<1>4. CASE HeadBlocked(semd_h, k) # NULL /\ HandOff(k)
  <2>1. /\ semd_h' = RemoveBlocked(semd_h, k)
        /\ readyQueue' = WakeAll(readyQueue, <<HeadBlocked(semd_h, k)>>)
    BY <1>4 DEF HandOff
  <2>2. KeepsOrder(readyQueue, readyQueue')
    BY <1>4, <2>1, BlockedWakeInOrder
  <2> QED
    BY <1>2, <1>4, <2>1, <2>2, HashOrder DEF Ordered
<1>5. CASE Close(k, closed)
  <2>1. semd_h' = IfEmptyDealloc(semd_h, k) /\ readyQueue' = readyQueue
    BY <1>5 DEF Close, schedVars
  <2>2. KeepsOrder(readyQueue, readyQueue')
    BY <1>1, <2>1, OrderKept
  <2> QED
    BY <1>2, <2>1, <2>2, HashOrder DEF Ordered
<1> QED
  BY <1>3, <1>4, <1>5 DEF SemOp

\* The interrupt handlers take heads of queues to the end of the ready one.
LEMMA InterruptOrder ==
    ASSUME IInv, PltHandler \/ ItHandler \/ \E d \in Devices : DevHandler(d)
    PROVE  Ordered
<1>1. /\ pcbFree \in Seq(Procs) /\ readyQueue \in Seq(Procs)
      /\ IsInjective(readyQueue) /\ ItSem \in Keys /\ Devices \subseteq Keys
  BY DEF IInv, TypeOK, TreeTypeOK, SchedTypeOK, Placed, Seated, Keys
<1>2. pcbFree' = pcbFree
  BY DEF PltHandler, ItHandler, DevHandler, treeVars
<1>3. KeepsOrder(pcbFree, pcbFree')
  BY <1>1, <1>2, OrderKept
<1>4. CASE PltHandler
  <2>1. semd_h' = semd_h
    BY <1>4 DEF PltHandler, hashVars
  <2>2. \A s \in Keys : KeepsOrder(Procq(semd_h, s), Procq(semd_h', s))
    BY <1>1, <2>1, HashOrder
  <2>3. CASE currentProc = NULL
    <3>1. readyQueue' = readyQueue
      BY <1>4, <2>3 DEF PltHandler
    <3>2. KeepsOrder(readyQueue, readyQueue')
      BY <1>1, <3>1, OrderKept
    <3> QED
      BY <1>3, <2>2, <3>2 DEF Ordered
  <2>4. CASE currentProc # NULL
    <3> DEFINE one == <<currentProc>>
    <3>1. mode = "run"
      BY <1>4, <2>4 DEF PltHandler, Interrupted, Idle, IInv, ModeInv
    <3>2. /\ currentProc \in Procs /\ currentProc \notin Range(readyQueue)
          /\ p_pid[currentProc] # 0
      BY <3>1, RunnerIsActive DEF IInv, Placed, Seated, Active
    <3>3. one \in Seq(Procs) /\ Range(one) = {currentProc}
      BY <3>2, OneElement
    <3>4. IsInjective(one)
      BY DEF IsInjective
    <3>5. Scheduler(WakeAll(readyQueue, one), processCount, softBlockCount, FALSE)
      BY <1>4, <2>4 DEF PltHandler
    <3> HIDE DEF one
    <3>6. /\ WakeAll(readyQueue, one) \in Seq(Procs)
          /\ IsInjective(WakeAll(readyQueue, one))
          /\ KeepsOrder(readyQueue, WakeAll(readyQueue, one))
      BY <3>2, <3>3, <3>4, WakeAllOrder
    <3>7. KeepsOrder(readyQueue, readyQueue')
      BY <1>1, <3>5, <3>6, SchedulerOrder
    <3> QED
      BY <1>3, <2>2, <3>7 DEF Ordered
  <2> QED
    BY <2>3, <2>4
<1>5. CASE ItHandler
  <2> DEFINE rq == WakeAll(readyQueue, Procq(semd_h, ItSem))
  <2>1. /\ semd_h' = Restrict(semd_h, DOMAIN semd_h \ {ItSem})
        /\ ExitIntHandler(rq, softBlockCount')
    BY <1>5 DEF ItHandler
  <2>2. rq \in Seq(Procs) /\ IsInjective(rq) /\ KeepsOrder(readyQueue, rq)
    BY <1>1, BlockedWakeInOrder
  <2>3. KeepsOrder(readyQueue, readyQueue')
    BY <1>1, <2>1, <2>2, ExitOrder
  <2> QED
    BY <1>1, <1>3, <2>1, <2>3, HashOrder DEF Ordered
<1>6. ASSUME NEW d \in Devices, DevHandler(d) PROVE Ordered
  <2> DEFINE p  == HeadBlocked(semd_h, d)
             rq == WakeAll(readyQueue, <<p>>)
  <2>1. CASE p = NULL
    <3>1. semd_h' = semd_h /\ ExitIntHandler(readyQueue, softBlockCount)
      BY <1>6, <2>1 DEF DevHandler, hashVars
    <3>2. KeepsOrder(readyQueue, readyQueue')
      BY <1>1, <3>1, OrderKept, ExitOrder
    <3> QED
      BY <1>1, <1>3, <3>1, <3>2, HashOrder DEF Ordered
  <2>2. CASE p # NULL
    <3>1. semd_h' = RemoveBlocked(semd_h, d) /\ ExitIntHandler(rq, softBlockCount')
      BY <1>6, <2>2 DEF DevHandler
    <3>2. rq \in Seq(Procs) /\ IsInjective(rq) /\ KeepsOrder(readyQueue, rq)
      BY <1>1, <2>2, BlockedWakeInOrder
    <3>3. KeepsOrder(readyQueue, readyQueue')
      BY <1>1, <3>1, <3>2, ExitOrder
    <3> QED
      BY <1>1, <1>3, <2>2, <3>1, <3>3, HashOrder DEF Ordered
  <2> QED
    BY <2>1, <2>2
<1> QED
  BY <1>4, <1>5, <1>6

\* In every step of every behaviour, whoever stays in the ready queue, in the
\* queue of a semaphore or in the free list keeps his place behind those that
\* were before him, and whoever joins a queue stands behind all that are in
\* it: wake-ups, preemptions and kills are FIFO, and so are the PIDs.
THEOREM NobodyOvertakes == Spec => NoOvertaking
<1> DEFINE Step ==
       /\ KeepsOrder(readyQueue, readyQueue')
       /\ KeepsOrder(pcbFree, pcbFree')
       /\ \A s \in Keys : KeepsOrder(Procq(semd_h, s), Procq(semd_h', s))
<1>1. ASSUME IInv, [Next]_vars PROVE Step
  <2>1. ASSUME UNCHANGED <<p_pid, pcbFree, readyQueue, p_semAdd, semd_h>>
        PROVE  Ordered
    <3>1. pcbFree \in Seq(Procs) /\ readyQueue \in Seq(Procs) /\ ItSem \in Keys
      BY <1>1 DEF IInv, TypeOK, TreeTypeOK, SchedTypeOK, Keys
    <3> QED
      BY <1>1, <2>1, <3>1, OrderKept, HashOrder DEF Ordered
  <2>2. Ordered
    BY <1>1, <2>1, StepKinds, CreateOrder, KillOrder, SemOpOrder, InterruptOrder
    DEF StepKind
  <2> QED
    BY <2>2 DEF Ordered
<1>2. IInv /\ [Next]_vars => [Step]_vars
  BY <1>1
<1> QED
  BY <1>2, Invariant, PTL DEF Spec, NoOvertaking


----------------------------------------------------------------------------
(* What the processes are told of each other.                              *)

\* A queue without duplicates holds as many as it is long.
LEMMA InjectiveLen ==
    ASSUME NEW q \in Seq(Procs), IsInjective(q)
    PROVE  Len(q) \in Nat /\ Len(q) <= MAXPROC /\ Cardinality(Range(q)) = Len(q)
<1>1. Len(q) \in Nat /\ DOMAIN q = 1..Len(q) /\ q \in [1..Len(q) -> Procs]
  BY LenProperties
<1>2. q \in Surjection(1..Len(q), Range(q)) /\ q \in Injection(1..Len(q), Range(q))
  BY <1>1 DEF Injection, Surjection, IsInjective, Range
<1>3. IsFiniteSet(1..Len(q)) /\ Cardinality(1..Len(q)) = Len(q)
  BY <1>1, FS_Interval
<1>4. Cardinality(Range(q)) = Len(q)
  BY <1>2, <1>3, FS_Surjection
<1>5. Cardinality(Procs) = MAXPROC /\ IsFiniteSet(Procs)
  BY FS_Interval, PcbAssumption DEF Procs
<1>6. Range(q) \in SUBSET Procs
  BY <1>1 DEF Range
<1>7. Cardinality(Range(q)) <= MAXPROC
  BY <1>5, <1>6, FS_Subset
<1> QED
  BY <1>1, <1>4, <1>7

\* The children of p in its namespace.
SeenBy(p) == Without(p_child[p], {c \in Procs : p_ns[c] # p_ns[p]})

\* They are those that are told p is their parent, each once, under the PID
\* that is also its index.
LEMMA SeenChildren ==
    ASSUME IInv, NEW p \in Active
    PROVE  /\ SeenBy(p) \in Seq(Procs) /\ IsInjective(SeenBy(p))
           /\ Range(SeenBy(p)) = {c \in Active : GetProcessId(c, 1) = p}
           /\ \A i \in 1..Len(SeenBy(p)) : p_pid[SeenBy(p)[i]] = SeenBy(p)[i]
<1> DEFINE strangers == {c \in Procs : p_ns[c] # p_ns[p]}
           seen == SeenBy(p)
<1>1. /\ p \in Procs /\ p_child[p] \in Seq(Procs) /\ IsInjective(p_child[p])
  BY DEF Active, IInv, TypeOK, TreeTypeOK, TreeInv, OneTree, Distinct
<1>2. /\ seen \in Seq(Procs) /\ IsInjective(seen)
      /\ Range(seen) = Range(p_child[p]) \ strangers
  BY <1>1, WithoutProperty DEF SeenBy
<1>3. Range(p_child[p]) \subseteq Procs
  BY <1>1, LenProperties DEF Range
<1>4. \A c \in Procs : c \in Range(p_child[p]) <=> p_parent[c] = p
  BY <1>1 DEF IInv, TreeInv, OneTree
<1>5. \A c \in Procs : /\ p_pid[c] \in {0, c} /\ c # 0
                       /\ p_parent[c] \in Procs \cup {NULL}
                       /\ p_parent[c] = p => c \in Active
  <2>1. NULL \notin Procs
    BY PcbAssumption
  <2>2. \A c \in Procs : c # 0
    BY PcbAssumption DEF Procs
  <2>3. \A c \in Procs : p_pid[c] = 0 => p_parent[c] = NULL
    BY DEF IInv, TreeInv
  <2>4. \A c \in Procs : p_pid[c] \in {0, c} /\ p_parent[c] \in Procs \cup {NULL}
    BY DEF IInv, Placed, TypeOK, TreeTypeOK
  <2> QED
    BY <1>1, <2>1, <2>2, <2>3, <2>4 DEF Active
<1>6. \A c \in Active : GetProcessId(c, 1) = p <=> p_parent[c] = p /\ p_ns[c] = p_ns[p]
  <2> SUFFICES ASSUME NEW c \in Active
               PROVE  GetProcessId(c, 1) = p <=> p_parent[c] = p /\ p_ns[c] = p_ns[p]
    OBVIOUS
  <2>1. c \in Procs /\ p_pid[p] = p /\ p # 0 /\ p # NULL
    BY <1>1, <1>5, PcbAssumption DEF Active
  <2>2. GetProcessId(c, 1) =
           IF p_parent[c] = NULL \/ p_ns[c] # p_ns[p_parent[c]] THEN 0
           ELSE p_pid[p_parent[c]]
    BY DEF GetProcessId
  <2>3. p_parent[c] # NULL => p_pid[p_parent[c]] \in {0, p_parent[c]}
    BY <1>5, <2>1
  <2> QED
    BY <2>1, <2>2, <2>3
<1>7. Range(seen) = {c \in Active : GetProcessId(c, 1) = p}
  <2>1. \A c \in Range(seen) : c \in Active /\ GetProcessId(c, 1) = p
    BY <1>2, <1>3, <1>4, <1>5, <1>6
  <2>2. \A c \in Active : GetProcessId(c, 1) = p => c \in Range(seen)
    BY <1>2, <1>4, <1>6 DEF Active
  <2> QED
    BY <2>1, <2>2
<1>8. \A i \in 1..Len(seen) : p_pid[seen[i]] = seen[i]
  <2>1. \A i \in 1..Len(seen) : seen[i] \in Range(seen)
    BY <1>2, LenProperties DEF Range
  <2> QED
    BY <1>5, <1>7, <2>1 DEF Active
<1> QED
  BY <1>2, <1>7, <1>8

\* What GETCHILDREN answers, then: the count, and the first of them.
LEMMA ChildrenTold ==
    ASSUME IInv, NEW p \in Active, NEW size \in Nat
    PROVE  /\ GetChildren(p, size).count = Len(SeenBy(p))
           /\ \E k \in Nat :
                 /\ k = IF size < Len(SeenBy(p)) THEN size ELSE Len(SeenBy(p))
                 /\ GetChildren(p, size).children = [i \in 1..k |-> SeenBy(p)[i]]
<1> DEFINE seen == SeenBy(p)
           k    == IF size < Len(seen) THEN size ELSE Len(seen)
<1>1. Len(seen) \in Nat /\ \A i \in 1..Len(seen) : p_pid[seen[i]] = seen[i]
  BY SeenChildren, LenProperties
<1>2. GetChildren(p, size) =
         [count |-> Len(seen), children |-> [i \in 1..k |-> p_pid[seen[i]]]]
  BY DEF GetChildren, SeenBy
<1> HIDE DEF seen
<1>3. k \in Nat /\ 1..k \subseteq 1..Len(seen)
  BY <1>1
<1> HIDE DEF k
<1>4. [i \in 1..k |-> p_pid[seen[i]]] = [i \in 1..k |-> seen[i]]
  BY <1>1, <1>3
<1>5. /\ GetChildren(p, size).count = Len(seen)
      /\ GetChildren(p, size).children = [i \in 1..k |-> seen[i]]
  BY <1>2, <1>4
<1> QED
  BY <1>3, <1>5 DEF k, seen


\* As SeenBothWays says it.
LEMMA EveryoneIsTold ==
    ASSUME IInv, NEW p \in Active
    PROVE  \E all \in {GetChildren(p, MAXPROC)} :
              /\ Range(all.children) = {c \in Active : GetProcessId(c, 1) = p}
              /\ all.count = Cardinality(Range(all.children))
              /\ \A size \in 0..MAXPROC :
                    \E some \in {GetChildren(p, size)} :
                        /\ some.count = all.count
                        /\ some.children = SubSeq(all.children, 1, Len(some.children))
                        /\ Len(some.children) <= size
<1> DEFINE seen == SeenBy(p)
           all  == GetChildren(p, MAXPROC)
<1>1. /\ seen \in Seq(Procs) /\ IsInjective(seen)
      /\ Range(seen) = {c \in Active : GetProcessId(c, 1) = p}
  BY SeenChildren
<1>2. Len(seen) \in Nat /\ Len(seen) <= MAXPROC /\ Cardinality(Range(seen)) = Len(seen)
  <2> HIDE DEF seen
  <2> QED
    BY <1>1, InjectiveLen
<1>3. ASSUME NEW size \in 0..MAXPROC
      PROVE  /\ GetChildren(p, size).count = Len(seen)
             /\ \E k \in Nat :
                   /\ k = IF size < Len(seen) THEN size ELSE Len(seen)
                   /\ GetChildren(p, size).children = [i \in 1..k |-> seen[i]]
  <2>1. size \in Nat
    BY PcbAssumption
  <2> QED
    BY <2>1, ChildrenTold
<1> HIDE DEF seen
<1>4. all.count = Len(seen) /\ all.children = seen
  <2>1. MAXPROC \in 0..MAXPROC
    BY PcbAssumption
  <2>2. all.count = Len(seen) /\ all.children = [i \in 1..Len(seen) |-> seen[i]]
    <3>1. PICK k \in Nat :
             /\ k = IF MAXPROC < Len(seen) THEN MAXPROC ELSE Len(seen)
             /\ all.children = [i \in 1..k |-> seen[i]]
      BY <1>3, <2>1
    <3>2. all.count = Len(seen)
      BY <1>3, <2>1
    <3>3. k = Len(seen)
      BY <1>2, <3>1, PcbAssumption
    <3> QED
      BY <3>1, <3>2, <3>3
  <2>3. seen = [i \in 1..Len(seen) |-> seen[i]]
    BY <1>1, LenProperties
  <2> QED
    BY <2>2, <2>3
<1> HIDE DEF all
<1>5. ASSUME NEW size \in 0..MAXPROC
      PROVE  LET some == GetChildren(p, size)
             IN  /\ some.count = Len(seen)
                 /\ some.children = SubSeq(seen, 1, Len(some.children))
                 /\ Len(some.children) <= size
  <2> DEFINE some == GetChildren(p, size)
  <2>1. PICK k \in Nat : /\ k = IF size < Len(seen) THEN size ELSE Len(seen)
                         /\ some.children = [i \in 1..k |-> seen[i]]
    BY <1>3
  <2>2. some.count = Len(seen)
    BY <1>3
  <2> HIDE DEF some
  <2>3. Len(some.children) = k
    BY <2>1
  <2>4. SubSeq(seen, 1, k) = [i \in 1..k |-> seen[i]]
    <3> DEFINE sub == SubSeq(seen, 1, k)
    <3>1. \A i \in 1..k : seen[i] \in Procs
      BY <1>1, <1>2, <2>1, LenProperties
    <3>2. /\ sub \in Seq(Procs) /\ Len(sub) = (IF 1 <= k THEN k - 1 + 1 ELSE 0)
          /\ \A i \in 1..(k - 1 + 1) : sub[i] = seen[1 + i - 1]
      BY <3>1, SubSeqProperties
    <3> HIDE DEF sub
    <3>3. Len(sub) = k /\ \A i \in 1..k : sub[i] = seen[i]
      BY <3>2
    <3>4. sub = [i \in 1..k |-> sub[i]]
      BY <3>2, <3>3, LenProperties
    <3>5. [i \in 1..k |-> sub[i]] = [i \in 1..k |-> seen[i]]
      BY <3>3
    <3> QED
      BY <3>4, <3>5 DEF sub
  <2>5. k <= size
    BY <1>2, <2>1
  <2> QED
    BY <2>1, <2>2, <2>3, <2>4, <2>5 DEF some
<1> QED
  BY <1>1, <1>2, <1>4, <1>5 DEF all

\* In every state GETCHILDREN and GETPROCESSID agree: whom a process is told
\* are its children, and who is told it is their parent, whatever became of
\* the tree and the namespaces.
THEOREM ParentsAndChildrenAgree == Spec => []SeenBothWays
<1>1. IInv => SeenBothWays
  BY EveryoneIsTold DEF SeenBothWays
<1> QED
  BY <1>1, Invariant, PTL

----------------------------------------------------------------------------
(* The nucleus implements the semaphores of Semaphores.tla: each of its    *)
(* steps is one of theirs.                                                 *)

\* The abstract module speaks of the same processes and queues.
LEMMA SameNotions ==
    /\ Abstract!Procs = Procs
    /\ \A q : Abstract!Range(q) = Range(q)
    /\ \A q, D : Abstract!Without(q, D) = Without(q, D)
<1>1. Abstract!Procs = Procs
  BY DEF Abstract!Procs, Procs
<1>2. \A q, D : Abstract!Kept(q, D) = Kept(q, D)
  BY DEF Abstract!Kept, Kept
<1>3. \A S : Abstract!Cardinality(S) = Cardinality(S)
  BY DEF Abstract!Cardinality, Cardinality
<1>4. \A I, k : Abstract!Nth(I, k) = Nth(I, k)
  BY <1>3 DEF Abstract!Nth, Nth
<1>5. ASSUME NEW q, NEW D PROVE Abstract!Without(q, D) = Without(q, D)
  BY <1>2, <1>3, <1>4 DEF Abstract!Without, Without
<1>6. \A q : Abstract!Range(q) = Range(q)
  BY DEF Abstract!Range, Range
<1> QED
  BY <1>1, <1>5, <1>6

\* The values of the abstract semaphores and their queues stay as they are.
LEMMA QueuesStay ==
    ASSUME \A s \in UserSems : sem'[s] = sem[s] /\ Procq(semd_h', s) = Procq(semd_h, s)
    PROVE  /\ [s \in UserSems |-> sem'[s]] = [s \in UserSems |-> sem[s]]
           /\ BlockedAt(0)' = BlockedAt(0) /\ BlockedAt(1)' = BlockedAt(1)
BY DEF BlockedAt

\* Whoever executes after a step is alive and in no queue.
LEMMA YieldAfter ==
    ASSUME IInv'
    PROVE  Abstract!Yield
<1>1. CASE mode' # "run"
  BY <1>1 DEF Runner, Abstract!Yield
<1>2. CASE mode' = "run"
  <2> DEFINE c == currentProc'
  <2>1. /\ c \in Procs /\ Runner' = c
        /\ OnProcessor(mode', currentProc') = {c}
    BY <1>2 DEF OnProcessor, IInv, TypeOK, SchedTypeOK, Runner
  <2>2. /\ Seated(readyQueue', semd_h', p_semAdd', pcbFree', {c})
        /\ \A p \in Procs : p_pid'[p] = IF p \in Range(pcbFree') THEN 0 ELSE p
    BY <2>1 DEF IInv, Placed
  <2> HIDE DEF c
  <2>3. c \notin Range(pcbFree') /\ p_semAdd'[c] = NULL /\ c # 0
    BY <2>1, <2>2, PcbAssumption DEF Seated, Procs
  <2>4. c \in Active'
    BY <2>1, <2>2, <2>3 DEF Active
  <2>5. \A s \in UserSems : s \in Keys /\ s # NULL
    BY NucleusAssumption DEF Keys
  <2>6. \A s \in UserSems : c \notin Range(Procq(semd_h', s))
    BY <2>1, <2>2, <2>3, <2>5 DEF Seated
  <2>7. Range(<<>>) = {}
    BY DEF Range
  <2>8. \A s \in UserSems : /\ c \notin Range(BlockedAt(0)'[s])
                             /\ c \notin Range(BlockedAt(1)'[s])
    BY <2>6, <2>7 DEF BlockedAt
  <2>9. c \in Abstract!Free'
    BY <2>4, <2>8, SameNotions DEF Abstract!Free
  <2> QED
    BY <2>1, <2>9 DEF Abstract!Yield
<1> QED
  BY <1>1, <1>2

\* Steps that make no call and kill nobody.
LEMMA IsOther ==
    ASSUME IInv', Active \subseteq Active', calls' = calls,
           \A s \in UserSems : sem'[s] = sem[s] /\ Procq(semd_h', s) = Procq(semd_h, s)
    PROVE  Abstract!Next
<1>1. Active' \subseteq Abstract!Procs
  BY SameNotions DEF Active
<1>2. Abstract!Other
  BY <1>1, YieldAfter, QueuesStay DEF Abstract!Other
<1> QED
  BY <1>2 DEF Abstract!Next

\* What P and V do to the queues of the semaphores, and to their values.
LEMMA SemOpQueues ==
    ASSUME IInv, mode = "run", NEW s \in Keys, NEW closed, NEW soft,
           SemOp(s, closed, soft)
    PROVE  \/ /\ sem[s] = closed /\ sem' = sem /\ currentProc \in Procs
              /\ \A k : Procq(semd_h', k) =
                    IF k = s THEN Append(Procq(semd_h, s), currentProc) ELSE Procq(semd_h, k)
           \/ /\ sem[s] # closed /\ sem' = sem /\ Procq(semd_h, s) # <<>>
              /\ \A k : Procq(semd_h', k) =
                    IF k = s THEN Tail(Procq(semd_h, s)) ELSE Procq(semd_h, k)
           \/ /\ sem[s] # closed /\ sem' = [sem EXCEPT ![s] = closed]
              /\ Procq(semd_h, s) = <<>>
              /\ \A k : Procq(semd_h', k) = Procq(semd_h, k)
<1>1. IsHash(semd_h)
  BY DEF IInv, TypeOK, HashTypeOK
<1>2. CASE sem[s] = closed /\ Block(s, soft)
  <2>1. /\ currentProc \in Procs
        /\ Seated(readyQueue, semd_h, p_semAdd, pcbFree, {currentProc})
    BY RunnerIsActive DEF IInv, Placed
  <2>2. ~Exhausted(semd_h, s)
    BY <1>1, <2>1, NotExhausted
  <2>3. semd_h' = InsertBlocked(semd_h, s, currentProc) /\ sem' = sem
    BY <1>2, <2>2 DEF Block
  <2> QED
    BY <1>2, <2>1, <2>3, InsertBlockedQueues
<1>3. CASE sem[s] # closed /\ HeadBlocked(semd_h, s) # NULL /\ HandOff(s)
  <2>1. s \in DOMAIN semd_h /\ Procq(semd_h, s) = semd_h[s] /\ Procq(semd_h, s) # <<>>
    BY <1>1, <1>3, ProcqType DEF Procq
  <2>2. semd_h' = RemoveBlocked(semd_h, s) /\ sem' = sem
    BY <1>3 DEF HandOff
  <2> QED
    BY <1>1, <1>3, <2>1, <2>2, RemoveBlockedQueues
<1>4. CASE sem[s] # closed /\ HeadBlocked(semd_h, s) = NULL /\ Close(s, closed)
  <2>1. Procq(semd_h, s) = <<>>
    BY <1>1, <1>4, ProcqType
  <2>2. semd_h' = IfEmptyDealloc(semd_h, s) /\ sem' = [sem EXCEPT ![s] = closed]
    BY <1>4 DEF Close
  <2> QED
    BY <1>4, <2>1, <2>2, IfEmptyDeallocQueues
<1> QED
  BY <1>2, <1>3, <1>4 DEF SemOp

\* P of the executing process on its semaphore takes a unit, or waits to.
LEMMA PasserenSteps ==
    ASSUME IInv, IInv', NEW s \in UserSems, Passeren(s), Abstract!Count(s, 1)
    PROVE  Abstract!Take(currentProc, s)
<1>1. /\ mode = "run" /\ s \in Keys /\ SemOp(s, 0, softBlockCount) /\ UserSems \subseteq Keys
      /\ UNCHANGED treeVars
  BY DEF Passeren, Executing, P, Keys
<1>2. sem \in [Keys -> {0, 1}]
  BY DEF IInv, TypeOK, HashTypeOK
<1>0. currentProc = Runner /\ Active' = Active
  BY <1>1 DEF Runner, Active, treeVars
<1> SUFFICES Abstract!TakeWaits(currentProc, s) \/ Abstract!TakeNow(s)
  BY <1>0 DEF Abstract!Take
<1>6. ASSUME sem[s] # 0 PROVE Runner' = Runner
  BY <1>1, <1>6 DEF SemOp, HandOff, Close, schedVars, Runner
<1>3. CASE /\ sem[s] = 0 /\ sem' = sem
           /\ \A k : Procq(semd_h', k) =
                 IF k = s THEN Append(Procq(semd_h, s), currentProc) ELSE Procq(semd_h, k)
  <2>1. BlockedAt(0)' = [BlockedAt(0) EXCEPT ![s] = Append(@, currentProc)]
    BY <1>3 DEF BlockedAt
  <2>2. BlockedAt(1)' = BlockedAt(1)
    BY <1>3 DEF BlockedAt
  <2>3. Abstract!TakeWaits(currentProc, s)
    BY <1>3, <2>1, <2>2, YieldAfter DEF Abstract!TakeWaits
  <2> QED
    BY <2>3
<1>4. CASE /\ sem[s] # 0 /\ sem' = sem /\ Procq(semd_h, s) # <<>>
           /\ \A k : Procq(semd_h', k) =
                 IF k = s THEN Tail(Procq(semd_h, s)) ELSE Procq(semd_h, k)
  <2>1. sem[s] = 1
    BY <1>1, <1>2, <1>4
  <2>2. BlockedAt(0)' = BlockedAt(0)
    BY <1>4, <2>1 DEF BlockedAt
  <2>3. /\ BlockedAt(1)[s] # <<>>
        /\ BlockedAt(1)' = [BlockedAt(1) EXCEPT ![s] = Tail(@)]
    BY <1>4, <2>1 DEF BlockedAt
  <2>4. Abstract!TakeNow(s)
    BY <1>4, <1>6, <2>1, <2>2, <2>3 DEF Abstract!TakeNow
  <2> QED
    BY <2>4
<1>5. CASE /\ sem[s] # 0 /\ sem' = [sem EXCEPT ![s] = 0] /\ Procq(semd_h, s) = <<>>
           /\ \A k : Procq(semd_h', k) = Procq(semd_h, k)
  <2>1. sem[s] = 1
    BY <1>1, <1>2, <1>5
  <2>2. \A k \in UserSems : sem'[k] = IF k = s THEN 0 ELSE sem[k]
    BY <1>1, <1>2, <1>5
  <2>3. BlockedAt(0)' = BlockedAt(0) /\ BlockedAt(1)' = BlockedAt(1)
    BY <1>5, <2>1, <2>2 DEF BlockedAt
  <2>4. BlockedAt(1)[s] = <<>>
    BY <1>5, <2>1 DEF BlockedAt
  <2>5. [k \in UserSems |-> sem'[k]] = [[k \in UserSems |-> sem[k]] EXCEPT ![s] = 0]
    BY <2>2
  <2>6. Abstract!TakeNow(s)
    BY <1>5, <1>6, <2>1, <2>3, <2>4, <2>5 DEF Abstract!TakeNow
  <2> QED
    BY <2>6
<1> QED
  BY <1>1, <1>3, <1>4, <1>5, SemOpQueues

\* V of the executing process on its semaphore gives a unit, or waits to.
LEMMA VerhogenSteps ==
    ASSUME IInv, IInv', NEW s \in UserSems, Verhogen(s), Abstract!Count(s, 2)
    PROVE  Abstract!Give(currentProc, s)
<1>1. /\ mode = "run" /\ s \in Keys /\ SemOp(s, 1, softBlockCount) /\ UserSems \subseteq Keys
      /\ UNCHANGED treeVars
  BY DEF Verhogen, Executing, V, Keys
<1>2. sem \in [Keys -> {0, 1}]
  BY DEF IInv, TypeOK, HashTypeOK
<1>0. currentProc = Runner /\ Active' = Active
  BY <1>1 DEF Runner, Active, treeVars
<1> SUFFICES Abstract!GiveWaits(currentProc, s) \/ Abstract!GiveNow(s)
  BY <1>0 DEF Abstract!Give
<1>6. ASSUME sem[s] # 1 PROVE Runner' = Runner
  BY <1>1, <1>6 DEF SemOp, HandOff, Close, schedVars, Runner
<1>3. CASE /\ sem[s] = 1 /\ sem' = sem
           /\ \A k : Procq(semd_h', k) =
                 IF k = s THEN Append(Procq(semd_h, s), currentProc) ELSE Procq(semd_h, k)
  <2>1. BlockedAt(1)' = [BlockedAt(1) EXCEPT ![s] = Append(@, currentProc)]
    BY <1>3 DEF BlockedAt
  <2>2. BlockedAt(0)' = BlockedAt(0)
    BY <1>3 DEF BlockedAt
  <2>3. Abstract!GiveWaits(currentProc, s)
    BY <1>3, <2>1, <2>2, YieldAfter DEF Abstract!GiveWaits
  <2> QED
    BY <2>3
<1>4. CASE /\ sem[s] # 1 /\ sem' = sem /\ Procq(semd_h, s) # <<>>
           /\ \A k : Procq(semd_h', k) =
                 IF k = s THEN Tail(Procq(semd_h, s)) ELSE Procq(semd_h, k)
  <2>1. sem[s] = 0
    BY <1>1, <1>2, <1>4
  <2>2. BlockedAt(1)' = BlockedAt(1)
    BY <1>4, <2>1 DEF BlockedAt
  <2>3. /\ BlockedAt(0)[s] # <<>>
        /\ BlockedAt(0)' = [BlockedAt(0) EXCEPT ![s] = Tail(@)]
    BY <1>4, <2>1 DEF BlockedAt
  <2>4. Abstract!GiveNow(s)
    BY <1>4, <1>6, <2>1, <2>2, <2>3 DEF Abstract!GiveNow
  <2> QED
    BY <2>4
<1>5. CASE /\ sem[s] # 1 /\ sem' = [sem EXCEPT ![s] = 1] /\ Procq(semd_h, s) = <<>>
           /\ \A k : Procq(semd_h', k) = Procq(semd_h, k)
  <2>1. sem[s] = 0
    BY <1>1, <1>2, <1>5
  <2>2. \A k \in UserSems : sem'[k] = IF k = s THEN 1 ELSE sem[k]
    BY <1>1, <1>2, <1>5
  <2>3. BlockedAt(1)' = BlockedAt(1) /\ BlockedAt(0)' = BlockedAt(0)
    BY <1>5, <2>1, <2>2 DEF BlockedAt
  <2>4. BlockedAt(0)[s] = <<>>
    BY <1>5, <2>1 DEF BlockedAt
  <2>5. [k \in UserSems |-> sem'[k]] = [[k \in UserSems |-> sem[k]] EXCEPT ![s] = 1]
    BY <2>2
  <2>6. Abstract!GiveNow(s)
    BY <1>5, <1>6, <2>1, <2>3, <2>4, <2>5 DEF Abstract!GiveNow
  <2> QED
    BY <2>6
<1> QED
  BY <1>1, <1>3, <1>4, <1>5, SemOpQueues

\* A kill takes the dead out of every queue, and lets an executing process
\* that survives go on.
LEMMA KillIsDying ==
    ASSUME IInv, IInv', mode = "run", NEW v \in Active, KillAndContinue(v), calls' = calls
    PROVE  Abstract!Next
<1> DEFINE dead == Subtree(p_child, v)
<1>1. dead \in SUBSET Procs /\ dead \subseteq Active
  BY ActiveSubtree DEF IInv, TreeInv, Active
<1>2. /\ sem' = sem /\ semd_h' = OutBlocked(semd_h, p_semAdd, dead)
      /\ p_pid' = [p \in Procs |-> IF p \in dead THEN 0 ELSE p_pid[p]]
      /\ currentProc \notin dead => UNCHANGED <<mode, currentProc>>
  BY DEF KillAndContinue, KillProcess
<1> HIDE DEF dead
<1>3. ASSUME NEW s \in Keys
      PROVE  Procq(semd_h', s) = Without(Procq(semd_h, s), dead)
  <2> DEFINE here == {p \in dead : p_semAdd[p] = s}
             q    == Procq(semd_h, s)
  <2>1. Procq(semd_h', s) = Without(q, here)
    BY <1>2, OutBlockedQueues DEF IInv, TypeOK, HashTypeOK
  <2>2. q \in Seq(Procs)
    BY ProcqType DEF IInv, TypeOK, HashTypeOK
  <2>3. \A i \in 1..Len(q) : q[i] \in Procs /\ q[i] \in Range(q)
    BY <2>2, LenProperties DEF Range
  <2>4. \A p \in Procs : p \in Range(q) => p_semAdd[p] = s
    BY <1>3 DEF IInv, Placed, Seated
  <2> HIDE DEF q
  <2>5. \A i \in 1..Len(q) : q[i] \in here <=> q[i] \in dead
    BY <2>3, <2>4
  <2> HIDE DEF here
  <2>6. Kept(q, here) = Kept(q, dead)
    BY <2>5 DEF Kept
  <2> QED
    BY <2>1, <2>6 DEF Without, q
<1>4. \A D : Without(<<>>, D) = <<>>
  <2> SUFFICES ASSUME NEW D PROVE Without(<<>>, D) = <<>>
    OBVIOUS
  <2> DEFINE e == <<>>
             w == Without(e, D)
  <2>1. e \in Seq(Procs) /\ Range(e) = {}
    BY EmptySeq DEF Range
  <2> HIDE DEF e
  <2>2. w \in Seq(Procs) /\ Range(w) = {}
    BY <2>1, WithoutProperty
  <2> HIDE DEF w
  <2>3. Len(w) \in Nat /\ DOMAIN w = 1..Len(w) /\ (w # <<>> => Len(w) # 0)
    BY <2>2, LenProperties, EmptySeq
  <2>4. DOMAIN w = {}
    BY <2>2 DEF Range
  <2> QED
    BY <2>3, <2>4 DEF e, w
<1>5. UserSems \subseteq Keys
  BY DEF Keys
<1>6. \A x : BlockedAt(x)' = [s \in UserSems |-> Without(BlockedAt(x)[s], dead)]
  BY <1>2, <1>3, <1>4, <1>5 DEF BlockedAt
<1>7. Active' = Active \ dead
  BY <1>1, <1>2 DEF Active
<1>8. IF Runner \in dead THEN Abstract!Yield ELSE Runner' = Runner
  <2>1. Runner = currentProc
    BY DEF Runner
  <2>2. currentProc \notin dead => Runner' = Runner
    BY <1>2 DEF Runner
  <2> QED
    BY <2>1, <2>2, YieldAfter
<1>9. Abstract!Die(dead)
  BY <1>1, <1>2, <1>6, <1>7, <1>8, SameNotions DEF Abstract!Die
<1> QED
  BY <1>1, <1>9, SameNotions DEF Abstract!Next

\* The processes' semaphores and their queues stay as they are.
LeavesSems ==
    \A s \in UserSems : sem'[s] = sem[s] /\ Procq(semd_h', s) = Procq(semd_h, s)

\* The interrupt handlers touch the queues of devices and of the clock.
LEMMA HandlersLeave ==
    ASSUME IInv, ItHandler \/ \E d \in Devices : DevHandler(d)
    PROVE  LeavesSems
<1>1. IsHash(semd_h)
  BY DEF IInv, TypeOK, HashTypeOK
<1>2. CASE ItHandler
  <2> DEFINE h2 == Restrict(semd_h, DOMAIN semd_h \ {ItSem})
  <2>1. semd_h' = h2 /\ sem' = sem
    BY <1>2 DEF ItHandler
  <2>2. /\ DOMAIN h2 = DOMAIN semd_h \ {ItSem}
        /\ \A x \in DOMAIN h2 : h2[x] = semd_h[x]
    BY DEF Restrict
  <2> HIDE DEF h2
  <2>3. \A s \in UserSems : Procq(h2, s) = Procq(semd_h, s)
    BY <2>2, NucleusAssumption DEF Procq
  <2> QED
    BY <2>1, <2>3 DEF LeavesSems
<1>3. ASSUME NEW d \in Devices, DevHandler(d) PROVE LeavesSems
  <2>1. sem' = sem
    BY <1>3 DEF DevHandler, hashVars
  <2>2. CASE HeadBlocked(semd_h, d) = NULL
    BY <1>3, <2>1, <2>2 DEF LeavesSems, DevHandler, hashVars
  <2>3. CASE HeadBlocked(semd_h, d) # NULL
    <3>1. d \in DOMAIN semd_h /\ semd_h' = RemoveBlocked(semd_h, d)
      BY <1>1, <1>3, <2>3, ProcqType DEF DevHandler
    <3>2. \A s \in UserSems : s # d
      BY NucleusAssumption
    <3> QED
      BY <1>1, <2>1, <3>1, <3>2, RemoveBlockedQueues DEF LeavesSems
  <2> QED
    BY <2>2, <2>3
<1> QED
  BY <1>2, <1>3

\* DOIO and CLOCKWAIT too.
LEMMA WaitsLeave ==
    ASSUME IInv, mode = "run", NEW s \in SoftSems, NEW closed, NEW soft,
           SemOp(s, closed, soft)
    PROVE  LeavesSems
<1>1. s \in Keys /\ s \notin UserSems
  BY NucleusAssumption DEF SoftSems, Keys
<1>2. (\A k : k # s => Procq(semd_h', k) = Procq(semd_h, k))
      /\ (sem' = sem \/ sem' = [sem EXCEPT ![s] = closed])
  BY <1>1, SemOpQueues
<1>3. \A k \in UserSems : k # s /\ k \in Keys
  BY <1>1 DEF Keys
<1>4. sem \in [Keys -> {0, 1}]
  BY DEF IInv, TypeOK, HashTypeOK
<1> QED
  BY <1>2, <1>3, <1>4 DEF LeavesSems

\* What marks a P or V: whom it makes wait, whom it lets through, or which
\* semaphore it closes.
SemMark(s, closed) ==
    \/ /\ sem[s] = closed /\ currentProc \in Procs
       /\ p_semAdd[currentProc] = NULL /\ p_semAdd'[currentProc] = s
    \/ /\ sem[s] # closed /\ sem' = sem
       /\ \E p \in Procs : /\ p_semAdd[p] = s /\ p_semAdd'[p] = NULL
                            /\ \A q \in Procs \ {p} : p_semAdd'[q] = p_semAdd[q]
    \/ /\ sem[s] # closed /\ sem'[s] = closed /\ p_semAdd' = p_semAdd
       /\ \A k \in Keys \ {s} : sem'[k] = sem[k]

LEMMA SemOpMark ==
    ASSUME IInv, mode = "run", NEW s \in Keys, NEW closed, NEW soft,
           SemOp(s, closed, soft)
    PROVE  SemMark(s, closed)
<1>1. /\ p_semAdd \in [Procs -> Keys \cup {NULL}] /\ sem \in [Keys -> {0, 1}]
  BY DEF IInv, TypeOK, HashTypeOK
<1>2. CASE sem[s] = closed /\ Block(s, soft)
  <2>1. /\ currentProc \in Procs
        /\ Seated(readyQueue, semd_h, p_semAdd, pcbFree, {currentProc})
    BY RunnerIsActive DEF IInv, Placed
  <2>2. p_semAdd[currentProc] = NULL
    BY <2>1 DEF Seated
  <2>3. p_semAdd' = [p_semAdd EXCEPT ![currentProc] = s]
    BY <1>2, BlockAdds
  <2> QED
    BY <1>1, <1>2, <2>1, <2>2, <2>3 DEF SemMark
<1>3. CASE sem[s] # closed /\ HeadBlocked(semd_h, s) # NULL /\ HandOff(s)
  <2> DEFINE p == HeadBlocked(semd_h, s)
  <2>1. p \in Procs /\ p_semAdd[p] = s
    BY <1>3, HeadIsBlocked
  <2>2. p_semAdd' = [p_semAdd EXCEPT ![p] = NULL] /\ sem' = sem
    BY <1>3 DEF HandOff
  <2> HIDE DEF p
  <2> QED
    BY <1>1, <1>3, <2>1, <2>2 DEF SemMark
<1>4. CASE sem[s] # closed /\ Close(s, closed)
  BY <1>1, <1>4 DEF SemMark, Close
<1> QED
  BY <1>2, <1>3, <1>4 DEF SemOp

\* A step is one P or V at most.
LEMMA OneCall ==
    ASSUME IInv, NEW s \in Keys, NEW k \in Keys, NEW c \in {0, 1}, NEW e \in {0, 1},
           SemMark(s, c), SemMark(k, e)
    PROVE  s = k /\ c = e
<1>1. /\ s # NULL /\ k # NULL /\ sem \in [Keys -> {0, 1}]
  BY NucleusAssumption DEF IInv, TypeOK, HashTypeOK
<1>2. CASE p_semAdd' = p_semAdd
  BY <1>1, <1>2 DEF SemMark
<1>3. CASE p_semAdd' # p_semAdd /\ p_semAdd'[currentProc] = s /\ p_semAdd[currentProc] = NULL
  BY <1>1, <1>3 DEF SemMark
<1>4. ASSUME p_semAdd' # p_semAdd, sem[s] # c, NEW p \in Procs,
             p_semAdd[p] = s, p_semAdd'[p] = NULL,
             \A q \in Procs \ {p} : p_semAdd'[q] = p_semAdd[q]
      PROVE  s = k /\ c = e
  BY <1>1, <1>4 DEF SemMark
<1> QED
  BY <1>2, <1>3, <1>4 DEF SemMark

\* The history notes the call a step makes, and nothing else.
CallsTypeOK == calls \in [UserSems -> 0..2]

LEMMA CallsType ==
    ASSUME CallsTypeOK, [CallsNext]_callVars
    PROVE  CallsTypeOK'
<1>1. \A n \in 0..2 : n \in 0..2 /\ (n + 1) % 3 \in 0..2 /\ (n + 2) % 3 \in 0..2
  OBVIOUS
<1>2. \A n \in 0..2 : \A s : Noted(n, s) \in 0..2
  BY <1>1 DEF Noted
<1>3. CASE CallsNext
  BY <1>2, <1>3 DEF CallsNext, CallsTypeOK
<1>4. CASE UNCHANGED callVars
  BY <1>4 DEF callVars, CallsTypeOK
<1> QED
  BY <1>3, <1>4

LEMMA NoCallNoted ==
    ASSUME CallsTypeOK, CallsNext, \A s \in UserSems : ~Passeren(s) /\ ~Verhogen(s)
    PROVE  calls' = calls
<1>1. calls' = [s \in UserSems |-> calls[s]]
  BY DEF CallsNext, Noted
<1> QED
  BY <1>1 DEF CallsTypeOK

LEMMA CallNoted ==
    ASSUME IInv, CallsTypeOK, CallsNext, NEW s \in UserSems
    PROVE  /\ Passeren(s) => Abstract!Count(s, 1)
           /\ Verhogen(s) => Abstract!Count(s, 2)
<1>1. \A k \in UserSems : /\ Passeren(k) => k \in Keys /\ SemMark(k, 0)
                          /\ Verhogen(k) => k \in Keys /\ SemMark(k, 1)
  <2> SUFFICES ASSUME NEW k \in UserSems
               PROVE  /\ Passeren(k) => k \in Keys /\ SemMark(k, 0)
                      /\ Verhogen(k) => k \in Keys /\ SemMark(k, 1)
    OBVIOUS
  <2>1. k \in Keys
    BY DEF Keys
  <2> QED
    BY <2>1, SemOpMark DEF Passeren, Verhogen, Executing, P, V
<1>2. CASE Passeren(s)
  <2>1. \A k \in UserSems : (Passeren(k) <=> k = s) /\ ~Verhogen(k)
    BY <1>1, <1>2, OneCall
  <2>2. calls' = [k \in UserSems |-> IF k = s THEN (calls[k] + 1) % 3 ELSE calls[k]]
    BY <2>1 DEF CallsNext, Noted
  <2>3. calls' = [calls EXCEPT ![s] = (@ + 1) % 3]
    BY <2>2 DEF CallsTypeOK
  <2> QED
    BY <2>1, <2>3 DEF Abstract!Count
<1>3. CASE Verhogen(s)
  <2>1. \A k \in UserSems : (Verhogen(k) <=> k = s) /\ ~Passeren(k)
    BY <1>1, <1>3, OneCall
  <2>2. calls' = [k \in UserSems |-> IF k = s THEN (calls[k] + 2) % 3 ELSE calls[k]]
    BY <2>1 DEF CallsNext, Noted
  <2>3. calls' = [calls EXCEPT ![s] = (@ + 2) % 3]
    BY <2>2 DEF CallsTypeOK
  <2> QED
    BY <2>1, <2>3 DEF Abstract!Count
<1> QED
  BY <1>2, <1>3

\* Every step is a step of the semaphores.
LEMMA NextRefines ==
    ASSUME IInv, IInv', CallsTypeOK, CallsNext
    PROVE  Abstract!Next
<1>0. Next
  BY DEF CallsNext
<1>1. ASSUME NEW s \in UserSems, Passeren(s) PROVE Abstract!Next
  <2>1. currentProc \in Procs
    BY <1>1, RunnerIsActive DEF Passeren, Executing
  <2>2. Abstract!Take(currentProc, s)
    BY <1>1, CallNoted, PasserenSteps
  <2> QED
    BY <2>1, <2>2, SameNotions DEF Abstract!Next
<1>2. ASSUME NEW s \in UserSems, Verhogen(s) PROVE Abstract!Next
  <2>1. currentProc \in Procs
    BY <1>2, RunnerIsActive DEF Verhogen, Executing
  <2>2. Abstract!Give(currentProc, s)
    BY <1>2, CallNoted, VerhogenSteps
  <2> QED
    BY <2>1, <2>2, SameNotions DEF Abstract!Next
<1>3. CASE \A s \in UserSems : ~Passeren(s) /\ ~Verhogen(s)
  <2>1. calls' = calls
    BY <1>3, NoCallNoted
  <2>2. ASSUME LeavesSems, p_pid' = p_pid PROVE Abstract!Next
    BY <2>1, <2>2, IsOther DEF LeavesSems, Active
  <2>3. ASSUME UNCHANGED <<semd_h, sem, p_pid>> PROVE Abstract!Next
    BY <2>2, <2>3 DEF LeavesSems
  <2>4. ASSUME UNCHANGED vars PROVE Abstract!Next
    BY <2>3, <2>4 DEF vars, hashVars, treeVars
  <2>5. Executing => mode = "run" /\ currentProc \in Active /\ currentProc \in Procs
    BY RunnerIsActive DEF Executing
  <2>6. ASSUME mode = "run", NEW v \in Active, KillAndContinue(v) PROVE Abstract!Next
    BY <2>1, <2>6, KillIsDying
  <2>7. ASSUME NEW sup, NEW ns, CreateProcess(sup, ns) PROVE Abstract!Next
    <3> DEFINE p == Head(pcbFree)
    <3>1. /\ pcbFree # <<>> /\ p_pid' = [p_pid EXCEPT ![p] = p]
          /\ sem' = sem /\ semd_h' = semd_h
      BY <2>7 DEF CreateProcess
    <3>4. pcbFree \in Seq(Procs) /\ p_pid \in [Procs -> 0..MAXPROC]
      BY DEF IInv, TypeOK, TreeTypeOK
    <3>5. p \in Procs
      BY <3>1, <3>4, HeadTailProperties
    <3>2. p \in Procs /\ p # 0 /\ p_pid \in [Procs -> 0..MAXPROC]
      BY <3>4, <3>5, PcbAssumption DEF Procs
    <3> HIDE DEF p
    <3>3. Active \subseteq Active'
      BY <3>1, <3>2 DEF Active
    <3> QED
      BY <2>1, <3>1, <3>3, IsOther
  <2>8. CASE CreateFails \/ Stopped
    BY <2>4, <2>8 DEF CreateFails, Stopped
  <2>9. ASSUME NEW pid \in 0..MAXPROC, TermProcess(pid) PROVE Abstract!Next
    <3> DEFINE victim == IF pid = 0 THEN currentProc ELSE GetPcb(p_pid, pid)
    <3>1. mode = "run" /\ currentProc \in Active
      BY <2>5, <2>9 DEF TermProcess
    <3>2. victim # NULL => victim \in Active
      BY <3>1, PcbAssumption DEF GetPcb, Active, Procs
    <3>3. IF victim # NULL THEN KillAndContinue(victim) ELSE UNCHANGED vars
      BY <2>9 DEF TermProcess
    <3> HIDE DEF victim
    <3> QED
      BY <2>4, <2>6, <3>1, <3>2, <3>3
  <2>10. ASSUME NEW d \in Devices, DoIo(d) PROVE Abstract!Next
    <3>1. mode = "run" /\ SemOp(d, 0, softBlockCount') /\ p_pid' = p_pid /\ d \in SoftSems
      BY <2>5, <2>10 DEF DoIo, P, SoftSems, treeVars
    <3> QED
      BY <2>2, <3>1, WaitsLeave
  <2>11. CASE ClockWait
    <3>1. /\ mode = "run" /\ SemOp(ItSem, 0, softBlockCount') /\ p_pid' = p_pid
          /\ ItSem \in SoftSems
      BY <2>5, <2>11 DEF ClockWait, P, SoftSems, treeVars
    <3> QED
      BY <2>2, <3>1, WaitsLeave
  <2>12. CASE PassUpOrDie \/ SetStatus
    BY <2>3, <2>5, <2>6, <2>12 DEF PassUpOrDie, SetStatus, LoadStatus, hashVars
  <2>13. CASE AllocNamespace
    BY <2>3, <2>13 DEF AllocNamespace, hashVars
  <2>14. CASE Wait \/ PltExpire \/ ItExpire \/ PltHandler
    BY <2>3, <2>14 DEF Wait, PltExpire, ItExpire, PltHandler, hashVars, treeVars
  <2>15. ASSUME NEW d \in Devices, DevDone(d) PROVE Abstract!Next
    BY <2>3, <2>15 DEF DevDone, hashVars, treeVars
  <2>16. CASE ItHandler \/ \E d \in Devices : DevHandler(d)
    <3>1. p_pid' = p_pid
      BY <2>16 DEF ItHandler, DevHandler, treeVars
    <3> QED
      BY <2>2, <2>16, <3>1, HandlersLeave
  <2> QED
    BY <1>0, <1>3, <2>7, <2>8, <2>9, <2>10, <2>11, <2>12, <2>13, <2>14, <2>15, <2>16
       DEF Next
<1> QED
  BY <1>1, <1>2, <1>3

\* The nucleus implements the abstract semaphores whatever their number and
\* that of the processes: every call takes or gives a unit or makes its
\* caller wait, a unit handed over goes to the head of the queue, and nobody
\* leaves a queue otherwise but by dying; through kills, interrupts,
\* preemptions and the descriptors' allocation and release.
THEOREM Refinement == CallsSpec => ImplementsSemaphores
<1>1. CallsInit => IInv /\ CallsTypeOK
  BY InitInv DEF CallsInit, CallsTypeOK
<1>2. IInv /\ [CallsNext]_callVars => IInv'
  <2>1. [CallsNext]_callVars => [Next]_vars
    BY DEF CallsNext, callVars
  <2> QED
    BY <2>1, NextInv
<1>3. CallsTypeOK /\ [CallsNext]_callVars => CallsTypeOK'
  BY CallsType
<1>4. CallsInit => Abstract!Init
  <2> SUFFICES ASSUME CallsInit PROVE Abstract!Init
    OBVIOUS
  <2>1. /\ sem \in [Keys -> {0, 1}] /\ \A s : Procq(semd_h, s) = <<>>
        /\ mode = "run" /\ currentProc = 1
        /\ p_pid = [p \in Procs |-> IF p = 1 THEN 1 ELSE 0]
    BY DEF CallsInit, Init, Procq
  <2>2. 1 \in Procs
    BY PcbAssumption DEF Procs
  <2>3. Runner \in Active /\ Active \subseteq Procs
    BY <2>1, <2>2 DEF Runner, Active
  <2> QED
    BY <2>1, <2>3, SameNotions DEF Abstract!Init, BlockedAt, Keys, CallsInit
<1>5. IInv /\ IInv' /\ CallsTypeOK /\ [CallsNext]_callVars => [Abstract!Next]_(Abstract!vars)
  <2>1. CASE CallsNext
    BY <2>1, NextRefines
  <2>2. CASE UNCHANGED callVars
    <3>1. UNCHANGED <<calls, sem, semd_h, p_pid, mode, currentProc>>
      BY <2>2 DEF callVars, vars, treeVars, hashVars, schedVars
    <3>2. Active' = Active /\ Runner' = Runner
      BY <3>1 DEF Active, Runner
    <3>3. /\ [s \in UserSems |-> sem'[s]] = [s \in UserSems |-> sem[s]]
          /\ BlockedAt(0)' = BlockedAt(0) /\ BlockedAt(1)' = BlockedAt(1)
      BY <3>1, QueuesStay
    <3> QED
      BY <3>1, <3>2, <3>3 DEF Abstract!vars
  <2> QED
    BY <2>1, <2>2
<1> QED
  BY <1>1, <1>2, <1>3, <1>4, <1>5, PTL DEF CallsSpec, ImplementsSemaphores, Abstract!Spec
=============================================================================
