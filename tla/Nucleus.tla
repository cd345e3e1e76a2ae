------------------------------ MODULE Nucleus ------------------------------
(***************************************************************************)
(* The nucleus of phase2: dispatching, the system calls that create, kill, *)
(* block and wake processes, and the interrupt handlers, over the process  *)
(* table, the process tree and the semaphore hash of phase1.               *)
(*                                                                         *)
(* Handlers run with interrupts masked and leave through LDST, WAIT, HALT  *)
(* or PANIC without returning to whoever called them, so each exception is *)
(* one action.  Between two actions the processor executes currentProc     *)
(* (mode "run"), has unmasked the interrupts for want of a process ("idle")*)
(* or waits for one ("wait").                                              *)
(*                                                                         *)
(* Elsewhere: processor states and what system calls return (Contexts),    *)
(* CPU accounting (CpuTime), device registers (DeviceIO), GETPROCESSID and *)
(* GETCHILDREN (Namespaces).                                               *)
(***************************************************************************)
EXTENDS Ash

CONSTANTS UserSems,      \* semaphores of the processes, other than the nucleus'
          Devices,       \* the devices in use, as indices of deviceSemaphore
          ItSem,         \* itSemaphore
          MAXNS,         \* number of entries of nsd_table[NS_PID]
          Supports,      \* may a new process have (TRUE) or lack a support struct
          SharedDevices, \* may processes call DOIO on a device that is waited for
          LateTimer,     \* may the PLT expire while a handler runs
          Statuses       \* what the status of a process may let through

Keys == UserSems \cup Devices \cup {ItSem}
SoftSems == Devices \cup {ItSem}            \* what isSoftBlocked recognises
Namespaces == 1..MAXNS

\* The interrupts a status word lets through: the PLT's, and those of the
\* interval timer and the devices.
AllOpen == {"plt", "io"}

ASSUME NucleusAssumption ==
    /\ Devices \subseteq 0..47
    /\ UserSems \cap Devices = {}
    /\ ItSem \notin UserSems \cup Devices
    /\ NULL \notin Keys \cup Namespaces
    /\ MAXNS \in Nat \ {0}
    /\ Supports \subseteq BOOLEAN
    /\ SharedDevices \in BOOLEAN
    /\ LateTimer \in BOOLEAN
    /\ AllOpen \in Statuses
    /\ Statuses \subseteq SUBSET AllOpen

VARIABLES
    mode,           \* what the processor does between two exceptions
    currentProc, readyQueue, processCount, softBlockCount,
    pcbFree,        \* pcbFree_h
    p_pid, p_parent, p_child, p_semAdd,
    p_ns,           \* namespaces[NS_PID]
    p_sup,          \* p_supportStruct # NULL
    p_status,       \* the interrupts each process lets through when it executes
    nsFree,         \* nsFree_h[NS_PID]
    semd_h,         \* the semaphore hash
    sem,            \* the values of the semaphores
    plt, it,        \* pending interrupts of the two timers
    dev             \* the devices: "done" is a pending interrupt

treeVars == <<processCount, pcbFree, p_pid, p_parent, p_child, p_ns, p_sup, p_status, nsFree>>
hashVars == <<p_semAdd, semd_h, sem>>
schedVars == <<mode, currentProc, readyQueue, plt>>
vars == <<treeVars, hashVars, schedVars, softBlockCount, it, dev>>

Init ==
    /\ mode = "run" /\ currentProc = 1 /\ readyQueue = <<>>
    /\ processCount = 1 /\ softBlockCount = 0
    /\ pcbFree = [i \in 1..MAXPROC - 1 |-> i + 1]
    /\ p_pid = [p \in Procs |-> IF p = 1 THEN 1 ELSE 0]
    /\ p_parent = [p \in Procs |-> NULL]
    /\ p_child = [p \in Procs |-> <<>>]
    /\ p_semAdd = [p \in Procs |-> NULL]
    /\ p_ns = [p \in Procs |-> IF p = 1 THEN 1 ELSE NULL]
    /\ p_sup = [p \in Procs |-> FALSE]
    /\ p_status = [p \in Procs |-> AllOpen]
    /\ nsFree = [i \in 1..MAXNS - 1 |-> i + 1]
    /\ semd_h = [k \in {} |-> <<>>]
    /\ sem \in {v \in [Keys -> {0, 1}] : \A s \in SoftSems : v[s] = 0}
    /\ plt = FALSE /\ it = FALSE
    /\ dev = [d \in Devices |-> "ready"]

----------------------------------------------------------------------------
(* With nobody to run, unmask the interrupts or give up: a deadlock.       *)
\* Deliberately wrong: waits for nothing.
IdleModeNeverPanic(soft) == IF soft >= 0 THEN "idle" ELSE "panic"

IdleMode(soft) == IF soft > 0 THEN "idle" ELSE "panic"

(* The scheduler, entered with ready queue rq, n processes alive and soft  *)
(* of them waiting for a device or the clock.  pending says whether the    *)
(* PLT interrupt is still to be acknowledged: only dispatching sets the    *)
(* timer.                                                                  *)
Scheduler(rq, n, soft, pending) ==
    \/ /\ n <= 0
       /\ mode' = "halt"
       /\ readyQueue' = rq /\ plt' = pending
       /\ UNCHANGED currentProc
    \/ /\ n > 0 /\ rq = <<>>
       /\ mode' = IdleMode(soft)
       /\ currentProc' = NULL
       /\ readyQueue' = rq /\ plt' = pending
    \/ /\ n > 0 /\ rq # <<>>
       /\ mode' = "run"
       /\ currentProc' = Head(rq)
       /\ readyQueue' = Tail(rq) /\ plt' = FALSE

\* The end of an interrupt handler: back to what it interrupted.
ExitIntHandler(rq, soft) ==
    IF currentProc # NULL
    THEN /\ readyQueue' = rq
         /\ UNCHANGED <<mode, currentProc, plt>>
    ELSE Scheduler(rq, processCount, soft, plt)

\* rq with the members of q that are still allocated added at its end.
WakeAll(rq, q) == rq \o Without(q, {p \in Procs : ~IsPcbActive(p_pid, p)})

----------------------------------------------------------------------------
(* Semaphores.  P closes a semaphore at 0 and V closes it at 1; whoever    *)
(* finds it closed blocks, whoever finds processes blocked on it open lets *)
(* the first one through and leaves the value as it is.                    *)

Block(s, soft) ==
    IF Exhausted(semd_h, s)
    THEN /\ mode' = "ashPanic"
         /\ UNCHANGED <<currentProc, readyQueue, plt, hashVars>>
    ELSE /\ semd_h' = InsertBlocked(semd_h, s, currentProc)
         /\ p_semAdd' = [p_semAdd EXCEPT ![currentProc] = s]
         /\ UNCHANGED sem
         /\ Scheduler(readyQueue, processCount, soft, plt)

\* Deliberately wrong: the unit is given up, and nobody gets it.
HandOffNothing(s) == UNCHANGED <<schedVars, hashVars>>

HandOff(s) ==
    LET p == HeadBlocked(semd_h, s)
    IN  /\ semd_h' = RemoveBlocked(semd_h, s)
        /\ p_semAdd' = [p_semAdd EXCEPT ![p] = NULL]
        /\ readyQueue' = WakeAll(readyQueue, <<p>>)
        /\ UNCHANGED <<mode, currentProc, plt, sem>>

Close(s, v) ==
    /\ sem' = [sem EXCEPT ![s] = v]
    /\ semd_h' = IfEmptyDealloc(semd_h, s)
    /\ UNCHANGED <<schedVars, p_semAdd>>

SemOp(s, closed, soft) ==
    \/ sem[s] = closed /\ Block(s, soft)
    \/ sem[s] # closed /\ HeadBlocked(semd_h, s) # NULL /\ HandOff(s)
    \/ sem[s] # closed /\ HeadBlocked(semd_h, s) = NULL /\ Close(s, closed)

P(s, soft) == SemOp(s, 0, soft)
V(s, soft) == SemOp(s, 1, soft)

----------------------------------------------------------------------------
(* Killing v takes its whole progeny along: dead is v's subtree.           *)

\* Deliberately wrong: forgets itSemaphore.
SoftBlockedOnDevice(D) == {p \in D : p_semAdd[p] \in Devices}

\* The members of D for which isSoftBlocked holds.
SoftBlocked(D) == {p \in D : p_semAdd[p] \in SoftSems}

\* Deliberately wrong: v stays in its parent's list.
ChildrenWithDead(v, dead) ==
    [p \in Procs |-> IF p \in dead THEN <<>> ELSE p_child[p]]

\* The child lists once v has left its parent and the dead have lost theirs.
ChildrenLeft(v, dead) ==
    [p \in Procs |-> IF p \in dead THEN <<>>
                     ELSE IF p = p_parent[v] THEN OutProcQ(p_child[p], v)
                     ELSE p_child[p]]

\* Deliberately wrong: the dead stay in the ready queue.
ReadyWithDead(dead) == readyQueue

ReadyLeft(dead) == Without(readyQueue, dead)

KillProcess(v, dead) ==
    /\ processCount' = processCount - Cardinality(dead)
    /\ softBlockCount' = softBlockCount - Cardinality(SoftBlocked(dead))
    /\ semd_h' = OutBlocked(semd_h, p_semAdd, dead)
    /\ p_semAdd' = [p \in Procs |-> IF p \in dead THEN NULL ELSE p_semAdd[p]]
    /\ p_pid' = [p \in Procs |-> IF p \in dead THEN 0 ELSE p_pid[p]]
    /\ p_parent' = [p \in Procs |-> IF p \in dead THEN NULL ELSE p_parent[p]]
    /\ p_child' = ChildrenLeft(v, dead)
    /\ \E before \in {FreedBefore(p_child, dead)} :
          \E o \in Orders(dead, before) : pcbFree' = pcbFree \o o
    /\ UNCHANGED <<p_ns, p_sup, p_status, nsFree, sem, it, dev>>

\* The caller survives unless it is v or one of v's progeny.
KillAndContinue(v) ==
    \E dead \in {Subtree(p_child, v)} :
        /\ KillProcess(v, dead)
        /\ IF currentProc \in dead
           THEN Scheduler(ReadyLeft(dead), processCount', softBlockCount', plt)
           ELSE /\ readyQueue' = ReadyLeft(dead)
                /\ UNCHANGED <<mode, currentProc, plt>>

----------------------------------------------------------------------------
(* What the running process asks for.  With the PLT pending, a process     *)
(* that lets its interrupt through takes no further step, except that the  *)
(* timer may expire once its system call is under way (LateTimer).         *)
Executing == mode = "run" /\ (plt /\ "plt" \in p_status[currentProc] => LateTimer)

\* addNamespace(p, n) for a process without children.
AddNamespace(p, n) ==
    IF n # NULL \/ nsFree = <<>>
    THEN p_ns' = [p_ns EXCEPT ![p] = n] /\ UNCHANGED nsFree
    ELSE p_ns' = [p_ns EXCEPT ![p] = Head(nsFree)] /\ nsFree' = Tail(nsFree)

\* Deliberately wrong: nothing is inherited.
ChildNamespaceUnset(ns) == ns

\* The namespace of a new process: its parent's unless one is given.
ChildNamespace(ns) == IF ns = NULL THEN p_ns[currentProc] ELSE ns

\* SYSCALL 1.  With no free PCB the caller gets -1 and nothing changes.
CreateProcess(sup, ns) ==
    /\ Executing
    /\ pcbFree # <<>>
    /\ LET p       == Head(pcbFree)
           emptied == [p_child EXCEPT ![p] = <<>>]
       IN  /\ pcbFree' = Tail(pcbFree)
           /\ p_pid' = [p_pid EXCEPT ![p] = p]
           /\ p_parent' = [p_parent EXCEPT ![p] = currentProc]
           /\ p_child' = [emptied EXCEPT ![currentProc] = Append(@, p)]
           /\ p_semAdd' = [p_semAdd EXCEPT ![p] = NULL]
           /\ p_sup' = [p_sup EXCEPT ![p] = sup]
           /\ \E m \in Statuses : p_status' = [p_status EXCEPT ![p] = m]
           /\ AddNamespace(p, ChildNamespace(ns))
           /\ readyQueue' = InsertProcQ(readyQueue, p)
    /\ processCount' = processCount + 1
    /\ UNCHANGED <<mode, currentProc, plt, softBlockCount, semd_h, sem, it, dev>>

CreateFails ==
    /\ Executing
    /\ pcbFree = <<>>
    /\ UNCHANGED vars

\* SYSCALL 2.
TermProcess(pid) ==
    /\ Executing
    /\ LET victim == IF pid = 0 THEN currentProc ELSE GetPcb(p_pid, pid)
       IN  IF victim # NULL THEN KillAndContinue(victim) ELSE UNCHANGED vars

\* SYSCALLs 3 and 4.
Passeren(s) ==
    /\ Executing
    /\ P(s, softBlockCount)
    /\ UNCHANGED <<treeVars, softBlockCount, it, dev>>

Verhogen(s) ==
    /\ Executing
    /\ V(s, softBlockCount)
    /\ UNCHANGED <<treeVars, softBlockCount, it, dev>>

\* The device starts, whatever it was doing; one that is at work or not yet
\* acknowledged may also ignore the command.
WriteCommand(d) ==
    \/ dev' = [dev EXCEPT ![d] = "busy"]
    \/ dev[d] # "ready" /\ UNCHANGED dev

\* Deliberately wrong: the caller is not counted as soft-blocked.
DoIoUncounted(d) ==
    /\ Executing
    /\ SharedDevices \/ HeadBlocked(semd_h, d) = NULL
    /\ WriteCommand(d)
    /\ P(d, softBlockCount)
    /\ UNCHANGED <<treeVars, softBlockCount, it>>

\* SYSCALL 5.
DoIo(d) ==
    /\ Executing
    /\ SharedDevices \/ HeadBlocked(semd_h, d) = NULL
    /\ WriteCommand(d)
    /\ softBlockCount' = softBlockCount + 1
    /\ P(d, softBlockCount')
    /\ UNCHANGED <<treeVars, it>>

\* Deliberately wrong: the caller is not counted as soft-blocked.
ClockWaitUncounted ==
    /\ Executing
    /\ P(ItSem, softBlockCount)
    /\ UNCHANGED <<treeVars, softBlockCount, it, dev>>

\* SYSCALL 7.
ClockWait ==
    /\ Executing
    /\ softBlockCount' = softBlockCount + 1
    /\ P(ItSem, softBlockCount')
    /\ UNCHANGED <<treeVars, it, dev>>

\* Another status is loaded while the process executes.
LoadStatus ==
    /\ \E m \in Statuses : p_status' = [p_status EXCEPT ![currentProc] = m]
    /\ UNCHANGED <<processCount, pcbFree, p_pid, p_parent, p_child, p_ns, p_sup,
                   nsFree, hashVars, schedVars, softBlockCount, it, dev>>

\* A trap, a TLB exception, or a system call the nucleus does not serve: a
\* process with a support structure goes on in its handler, with the status
\* the structure gives.
PassUpOrDie ==
    /\ Executing
    /\ IF p_sup[currentProc] THEN LoadStatus ELSE KillAndContinue(currentProc)

\* A process in kernel mode sets its status, or loads a state: a handler does
\* when it has finished.
SetStatus == Executing /\ LoadStatus

\* A process takes a namespace for the processes it will create.  It does so
\* with interrupts on; one step is enough as long as one process at a time
\* does, as in p2test.c.
AllocNamespace ==
    /\ Executing
    /\ nsFree # <<>>
    /\ nsFree' = Tail(nsFree)
    /\ UNCHANGED <<processCount, pcbFree, p_pid, p_parent, p_child, p_ns, p_sup,
                   p_status, hashVars, schedVars, softBlockCount, it, dev>>

----------------------------------------------------------------------------
(* The hardware: timers expire, devices complete.  The PLT counts only     *)
(* while a process executes (TEBITON).                                     *)
Idle == mode \in {"idle", "wait"}
Awake == mode = "run" \/ Idle

\* Deliberately wrong: the timer also counts while the processor waits.
PltExpireAlways ==
    /\ Awake /\ ~plt
    /\ plt' = TRUE
    /\ UNCHANGED <<treeVars, hashVars, mode, currentProc, readyQueue,
                   softBlockCount, it, dev>>

PltExpire ==
    /\ mode = "run" /\ ~plt
    /\ plt' = TRUE
    /\ UNCHANGED <<treeVars, hashVars, mode, currentProc, readyQueue,
                   softBlockCount, it, dev>>

ItExpire ==
    /\ Awake /\ ~it
    /\ it' = TRUE
    /\ UNCHANGED <<treeVars, hashVars, schedVars, softBlockCount, dev>>

DevDone(d) ==
    /\ Awake /\ dev[d] = "busy"
    /\ dev' = [dev EXCEPT ![d] = "done"]
    /\ UNCHANGED <<treeVars, hashVars, schedVars, softBlockCount, it>>

\* The scheduler goes from setSTATUS to WAIT.
Wait ==
    /\ mode = "idle" /\ mode' = "wait"
    /\ UNCHANGED <<treeVars, hashVars, currentProc, readyQueue, plt,
                   softBlockCount, it, dev>>

----------------------------------------------------------------------------
(* Interrupt handlers, in the order interruptHandler looks for a cause.    *)
(* WAIT, and the scheduler before it, are left at any interrupt, a process *)
(* at one that its status lets through; the cause register shows all that  *)
(* are pending.                                                            *)

Pending ==
    {i \in AllOpen : \/ i = "plt" /\ plt
                     \/ i = "io" /\ (it \/ \E d \in Devices : dev[d] = "done")}

Interrupted ==
    \/ Idle
    \/ mode = "run" /\ Pending \cap p_status[currentProc] # {}

\* The line, then the device on the line, a terminal's transmitter (40..47)
\* before its receiver (32..39).
Rank(d) == IF d < 32 THEN d ELSE IF d < 40 THEN 2 * d - 31 ELSE 2 * d - 48

\* Deliberately wrong: acknowledges and resumes whoever was running.
PltHandlerResumes ==
    /\ Interrupted /\ plt
    /\ plt' = FALSE
    /\ UNCHANGED <<treeVars, hashVars, mode, currentProc, readyQueue,
                   softBlockCount, it, dev>>

PltHandler ==
    /\ Interrupted /\ plt
    /\ IF currentProc = NULL
       THEN /\ mode' = "fault"             \* currentProc->p_s
            /\ plt' = FALSE
            /\ UNCHANGED <<currentProc, readyQueue>>
       ELSE Scheduler(WakeAll(readyQueue, <<currentProc>>),
                      processCount, softBlockCount, FALSE)
    /\ UNCHANGED <<treeVars, hashVars, softBlockCount, it, dev>>

ItHandler ==
    LET woken == Procq(semd_h, ItSem)
    IN  /\ Interrupted /\ ~plt /\ it
        /\ it' = FALSE
        /\ semd_h' = Restrict(semd_h, DOMAIN semd_h \ {ItSem})
        /\ p_semAdd' = [p \in Procs |->
              IF p \in Range(woken) THEN NULL ELSE p_semAdd[p]]
        /\ softBlockCount' =
              softBlockCount - Cardinality({p \in Range(woken) : IsPcbActive(p_pid, p)})
        /\ ExitIntHandler(WakeAll(readyQueue, woken), softBlockCount')
        /\ UNCHANGED <<treeVars, sem, dev>>

\* Deliberately wrong: acknowledges whatever has completed.
AcknowledgeAll(d) == dev' = [e \in Devices |-> IF dev[e] = "done" THEN "ready" ELSE dev[e]]

Acknowledge(d) == dev' = [dev EXCEPT ![d] = "ready"]

DevHandler(d) ==
    LET p == HeadBlocked(semd_h, d)
    IN  /\ Interrupted /\ ~plt /\ ~it
        /\ dev[d] = "done"
        /\ \A e \in Devices : dev[e] = "done" => Rank(d) <= Rank(e)
        /\ Acknowledge(d)
        /\ IF p = NULL
           THEN /\ UNCHANGED <<hashVars, softBlockCount>>
                /\ ExitIntHandler(readyQueue, softBlockCount)
           ELSE /\ semd_h' = RemoveBlocked(semd_h, d)
                /\ p_semAdd' = [p_semAdd EXCEPT ![p] = NULL]
                /\ softBlockCount' =
                      softBlockCount - IF IsPcbActive(p_pid, p) THEN 1 ELSE 0
                /\ ExitIntHandler(WakeAll(readyQueue, <<p>>), softBlockCount')
                /\ UNCHANGED sem
        /\ UNCHANGED <<treeVars, it>>

----------------------------------------------------------------------------
\* HALT, PANIC, or a fault inside the nucleus: nothing happens any more.
Stopped == mode \in {"halt", "panic", "ashPanic", "fault"} /\ UNCHANGED vars

Next ==
    \/ \E sup \in Supports, ns \in (Namespaces \ Range(nsFree)) \cup {NULL} :
          CreateProcess(sup, ns)
    \/ CreateFails
    \/ \E pid \in 0..MAXPROC : TermProcess(pid)
    \/ \E s \in UserSems : Passeren(s) \/ Verhogen(s)
    \/ \E d \in Devices : DoIo(d) \/ DevDone(d) \/ DevHandler(d)
    \/ ClockWait \/ PassUpOrDie \/ SetStatus \/ AllocNamespace
    \/ Wait \/ PltExpire \/ ItExpire \/ PltHandler \/ ItHandler
    \/ Stopped

\* Timers run, commands complete, and a pending interrupt is taken when the
\* status or WAIT lets it through: it may be held back by the ones that go
\* first, but not for ever.
Fairness ==
    /\ WF_vars(PltExpire) /\ WF_vars(PltHandler)
    /\ WF_vars(ItExpire) /\ SF_vars(ItHandler)
    /\ \A d \in Devices : WF_vars(DevDone(d)) /\ SF_vars(DevHandler(d))

Spec == Init /\ [][Next]_vars
FairSpec == Spec /\ Fairness
============================================================================
