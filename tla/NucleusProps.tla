---------------------------- MODULE NucleusProps ----------------------------
(***************************************************************************)
(* What the nucleus promises: the properties of Nucleus.tla.               *)
(***************************************************************************)
EXTENDS Nucleus

Active == {p \in Procs : p_pid[p] # 0}

\* No entry of q occurs twice.
Distinct(q) == IsInjective(q)

\* The four places an allocated or free PCB can be in.
IsFree(p) == p \in Range(pcbFree)
IsReady(p) == p \in Range(readyQueue)
IsRunning(p) == mode = "run" /\ p = currentProc
BlockedOn(p, s) == s \in DOMAIN semd_h /\ p \in Range(semd_h[s])

\* The types of the variables, group by group.
SchedTypeOK ==
    /\ mode \in {"run", "idle", "wait", "halt", "panic", "ashPanic", "fault"}
    /\ currentProc \in Procs \cup {NULL}
    /\ mode = "run" => currentProc \in Procs
    /\ readyQueue \in Seq(Procs)
    /\ plt \in BOOLEAN

TreeTypeOK ==
    /\ processCount \in Int
    /\ pcbFree \in Seq(Procs)
    /\ p_pid \in [Procs -> 0..MAXPROC]
    /\ p_parent \in [Procs -> Procs \cup {NULL}]
    /\ p_child \in [Procs -> Seq(Procs)]
    /\ p_ns \in [Procs -> Namespaces \cup {NULL}]
    /\ p_sup \in [Procs -> BOOLEAN]
    /\ p_status \in [Procs -> Statuses]
    /\ nsFree \in Seq(Namespaces)

\* A descriptor is in use only for a known key and with a nonempty queue.
IsHash(h) ==
    /\ DOMAIN h \subseteq Keys
    /\ h \in [DOMAIN h -> Seq(Procs) \ {<<>>}]

HashTypeOK ==
    /\ p_semAdd \in [Procs -> Keys \cup {NULL}]
    /\ IsHash(semd_h)
    /\ sem \in [Keys -> {0, 1}]

\* TYPE INVARIANT of the nucleus' variables.  The process table, the queues
\* and the hash hold PCBs and semaphore addresses only, the processor never
\* executes a null process, and ash.c releases a descriptor with its last
\* process (removeBlocked, outBlocked).
TypeOK ==
    /\ SchedTypeOK
    /\ TreeTypeOK
    /\ HashTypeOK
    /\ softBlockCount \in Int
    /\ it \in BOOLEAN
    /\ dev \in [Devices -> {"ready", "busy", "done"}]

\* Every PCB is in exactly one place, once: free, ready, running, or in the
\* queue of the one semaphore its p_semAdd names; and it is free exactly when
\* its PID is 0, its PID being its index otherwise (pcb.c, ash.c, P, V and
\* __killProcess together).
Placement ==
    /\ Distinct(pcbFree) /\ Distinct(readyQueue)
    /\ \A s \in DOMAIN semd_h : Distinct(semd_h[s])
    /\ \A p \in Procs :
          /\ p_pid[p] = IF IsFree(p) THEN 0 ELSE p
          /\ \A s \in Keys : BlockedOn(p, s) <=> p_semAdd[p] = s
          /\ IsFree(p) \/ IsReady(p) \/ IsRunning(p) \/ p_semAdd[p] # NULL
          /\ IsFree(p) => ~IsReady(p) /\ ~IsRunning(p) /\ p_semAdd[p] = NULL
          /\ IsReady(p) => ~IsRunning(p) /\ p_semAdd[p] = NULL
          /\ IsRunning(p) => p_semAdd[p] = NULL

\* processCount and softBlockCount, which decide between HALT, WAIT and
\* PANIC, are the numbers of allocated PCBs and of PCBs blocked on a device
\* or on the clock (scheduler.c; maintained in exceptions.c and interrupts.c).
CountersExact ==
    /\ processCount = Cardinality(Active)
    /\ softBlockCount = Cardinality({p \in Procs : p_semAdd[p] \in SoftSems})

\* The tree is one tree: child lists and parent pointers agree, and as long
\* as anything is alive every allocated PCB descends from the first process,
\* so that no process outlives its parent (insertChild, outChild,
\* removeChild, __killProcess).
OneTree ==
    /\ \A p \in Procs : Distinct(p_child[p])
    /\ \A p, c \in Procs : c \in Range(p_child[p]) <=> p_parent[c] = p
    /\ Active = IF p_pid[1] = 0 THEN {} ELSE Subtree(p_child, 1)

\* Every living process is in a namespace that was allocated: namespaces are
\* never freed, and running out of them leaves nobody without one
\* (addNamespace, __createProcess).
NamespacesOwned ==
    \A p \in Active : p_ns[p] \in Namespaces \ Range(nsFree)

\* MAXPROC descriptors are enough: insertBlocked never fails, and the PANIC
\* of P and V for an exhausted hash is never executed (initial.c:75-76).
AshNeverExhausted == mode # "ashPanic"

\* The machine halts only with no process left, panics only in a deadlock of
\* processes waiting for each other on semaphores no interrupt can signal,
\* and waits only with everybody blocked and somebody of them on a device or
\* on the clock (scheduler.c).
StopsForTheRightReason ==
    /\ mode = "halt" => Active = {}
    /\ mode = "panic" =>
          /\ Active # {}
          /\ \A p \in Active : \E s \in UserSems : BlockedOn(p, s)
    /\ Idle =>
          /\ \A p \in Active : \E s \in Keys : BlockedOn(p, s)
          /\ \E p \in Active, s \in SoftSems : BlockedOn(p, s)

\* Where one process at a time uses a device, an interrupt can still wake
\* somebody whenever the machine waits: somebody waits for the clock, or for
\* a device that is at work or has an interrupt pending, through kills of
\* the callers and commands to devices that the dead have left at work
\* (__doIo, __devReturn, scheduler).  With a device used by two the machine
\* may wait for nothing, see IoWaitEnds.
WaitsForSomething ==
    Idle =>
        \E p \in Active :
            \/ BlockedOn(p, ItSem)
            \/ \E d \in Devices : BlockedOn(p, d) /\ dev[d] # "ready"

\* The nucleus never follows a null currentProc: while it waits with nobody
\* to run, no PLT interrupt comes (__pltHandler, scheduler).  That takes time
\* slices that do not end while a handler runs and processes that all let the
\* PLT's interrupt through; neither is the code's doing.
NoKernelFault == mode # "fault"

----------------------------------------------------------------------------
(* Properties of steps.                                                    *)

\* r keeps the order of the members of q it still has, and has its new
\* members behind them.
KeepsOrder(q, r) ==
    /\ \A x, y \in Range(q) \cap Range(r) : Precedes(q, x, y) => Precedes(r, x, y)
    /\ \A x \in Range(q) \cap Range(r), y \in Range(r) \ Range(q) : Precedes(r, x, y)

\* Nobody overtakes: in the ready queue and in the queue of every semaphore,
\* through wake-ups, preemptions and kills, those that stay keep their order
\* and newcomers go behind them.  So do the free PCBs: the PID of a process
\* that died, which others may remember, is given out again after all the
\* PIDs that were free before it.
NoOvertaking ==
    [][ /\ KeepsOrder(readyQueue, readyQueue')
        /\ KeepsOrder(pcbFree, pcbFree')
        /\ \A s \in Keys : KeepsOrder(Procq(semd_h, s), Procq(semd_h', s)) ]_vars

\* A process is freed only with everything that descends from it, and a step
\* kills one subtree at most: among the processes that were alive, those that
\* die are one victim and those whose parent dies (__killProcess).
KillTakesProgeny ==
    [][ LET dead == {p \in Active : p_pid'[p] = 0}
        IN  dead # {} => \E v \in dead :
               \A p \in Active : p \in dead <=> p = v \/ p_parent[p] \in dead ]_vars

\* A process is blocked by its own step only and leaves a semaphore only as
\* the head of its queue, with the whole queue of the clock, or because it
\* dies: wake-ups go in FIFO order (P, V, __devReturn, __itHandler).
WokenFromTheHead ==
    [][ \A p \in Procs : \A s \in Keys :
          /\ BlockedOn(p, s)' /\ ~BlockedOn(p, s) => IsRunning(p)
          /\ BlockedOn(p, s) /\ ~BlockedOn(p, s)' /\ p_pid'[p] # 0 =>
                \/ p = Head(semd_h[s])
                \/ s = ItSem /\ Procq(semd_h', s) = <<>> ]_vars

----------------------------------------------------------------------------
(* Liveness, under FairSpec.                                               *)

\* A ready process is eventually dispatched or killed, as long as everybody
\* lets the PLT's interrupt through: the time slice then preempts whoever
\* keeps the processor, and the ready queue is a queue.
ReadyEventuallyRuns ==
    \A p \in Procs : IsReady(p) ~> IsRunning(p) \/ p_pid[p] = 0

\* A process in CLOCKWAIT eventually leaves it, as long as everybody lets all
\* interrupts through: the interval timer wakes all.
ClockWaitEnds ==
    \A p \in Procs : BlockedOn(p, ItSem) ~> ~BlockedOn(p, ItSem)

\* A process in DOIO eventually leaves it, as long as one process at a time
\* uses a device and everybody lets all interrupts through: the device
\* completes and its interrupt finds the process in the queue.
IoWaitEnds ==
    \A p \in Procs : \A d \in Devices : BlockedOn(p, d) ~> ~BlockedOn(p, d)
============================================================================
