# PandOS23 in TLA+

PandOS23 is the nucleus of a small operating system for the uMPS3 machine (one
MIPS processor, emulated devices). Phase 1 keeps the data structures: process
control blocks, the hash of semaphores, namespaces. Phase 2 is the nucleus
itself: scheduler, ten system calls, interrupt handlers. This directory holds
TLA+ models of the nucleus and of the structures below it, the TLC instances
that check them, and TLAPS proofs.

* [Inventory](#inventory): the parts of the system and what makes each correct
* [Modules](#modules): what is modelled where, and how it maps to the code
* [Runs](#runs): what TLC checks, with which bounds
* [Fairness](#fairness)
* [Findings](#findings)
* [Proofs](#proofs)
* [Not modelled](#not-modelled)
* [Plan](#plan)

## Inventory

| Part | State | Operations | Correct when |
|---|---|---|---|
| PCBs, queues, tree (`phase1/pcb.c`) | `pcbFree_table`, `pcbFree_h`; in each PCB its PID, parent, children, semaphore, support structure, namespaces | `allocPcb`, `freePcb`, `getPcb`, `isPcbActive`, `insertProcQ`, `headProcQ`, `removeProcQ`, `outProcQ`, `insertChild`, `removeChild`, `outChild` | a PCB is in one place at a time; queues are FIFO; parent pointers and child lists agree; a reused PCB keeps nothing of its former life |
| Active semaphore hash (`phase1/ash.c`) | `semd_table`, `semdFree_h`, `semd_h`, the queue of each descriptor | `insertBlocked`, `removeBlocked`, `outBlocked`, `headBlocked` | a descriptor is in use exactly while processes wait on its key; MAXPROC descriptors are enough |
| Namespaces (`phase1/nsd.c`) | `nsd_table`, `nsFree_h`, `nsList_h` | `addNamespace`, `allocNamespace`, `freeNamespace`, `getNamespace` | a living process has an allocated namespace; children inherit |
| Scheduler (`phase2/scheduler.c`) | `currentProc`, `readyQueue`, `processCount`, `softBlockCount`, the PLT | `scheduler` | it halts when nobody is left, panics only in a deadlock, waits only when somebody can be woken; nobody starves |
| System calls (`phase2/exceptions.c`) | all of the above | CREATEPROCESS, TERMPROCESS, PASSEREN, VERHOGEN, DOIO, GETTIME, CLOCKWAIT, GETSUPPORTPTR, GETPROCESSID, GETCHILDREN, pass up or die | a kill takes exactly the subtree, out of every queue, and keeps both counters exact |
| Semaphores (`P`, `V` in `phase2/initial.c`) | the value of each semaphore, 0 or 1 | `P`, `V` | no unit is lost or duplicated, waiters are served in order |
| Interrupts (`phase2/interrupts.c`) | pending interrupts | PLT, interval timer and device handlers, with the priorities of `interruptHandler` | every wake-up reaches whoever waits, every waiter is woken |
| Initialisation (`main`, `getDeviceSem` in `phase2/initial.c`) | `itSemaphore`, `deviceSemaphore` | `main`, `getDeviceSem` | one semaphore for each (sub)device |
| CPU accounting (`getTimespan`, `updateCurrentProcTime`) | `p_time`, `spanStart` | GETTIME and every dispatch | time is charged once, to whoever used it |
| Lists and hash table (`lib/list.h`, `lib/hashtable.h`) | links | Linux' list and hash operations | lists stay well formed |

**How the parts meet.** A running process enters the nucleus through an
exception: a system call, a trap, or an interrupt. The handler works on PCBs,
hash and namespaces through the functions of phase 1, and ends in one of five
ways: `LDST` back to the process, `LDST` to another process chosen by
`scheduler`, `WAIT`, `HALT`, or `PANIC`. `scheduler` never returns to its
caller. Handlers share all their state through global variables; the devices
and the timers act on their own.

**What is hard.** The nucleus itself is sequential (interrupts are masked), so
the difficulty is in long histories: a process may be killed in any place, by
itself, an ancestor or a descendant, while its device is working and while
others wait behind it; two counters decide between halting, waiting and giving
up, and a dozen places update them; one queue serves both the takers and the
givers of a binary semaphore; interrupts arrive at any moment, also while
nobody runs, and may find that whoever waited for them is gone. `PROJECT.json`
lists these hazards with their lines and the properties that cover them.

## Modules

The models are layers. Each of the lower ones is shown to implement an abstract
specification written with the operators the nucleus is made of, so that
`Nucleus` may speak of sequences and functions where the code has pointers.

| Module | What it is |
|---|---|
| **Lists and tables** | |
| `Links` | the calls of `list.h`, pointer assignment by pointer assignment |
| `ListSpec`, `Lists` | the comments of `list.h` as operations on sequences; a program that makes every call; the refinement |
| `PcbSpec`, `PcbLists` | `pcb.h` in terms of `Pcb`; `pcb.c` over `Links`, three `list_head`s in each PCB; the refinement |
| `Hashtable` | `hashtable.h`, `hash.h`, `log2.h` and the hlists of `list.h` |
| `AshSpec`, `SemdTable` | `ash.h` in terms of `Ash`; `ash.c` over `Hashtable`; the refinement |
| **The nucleus** | |
| `Queues` | what it means to take members out of a queue, and to stand before another in it |
| `Pcb` | operators of `pcb.c`: queues, table lookups, the subtree of a process and the order in which a kill frees it |
| `Ash` | operators of `ash.c`: the hash as a partial function from semaphores to queues |
| `Nucleus` | the system: state, one action for each exception and each hardware event, fairness |
| `NucleusProps` | type invariant, safety invariants, properties of steps, liveness |
| `KillRecursive` | `__killProcess` as the recursion it is, and the claim that the atomic kill of `Nucleus` agrees with it |
| `Semaphores`, `NucleusCalls` | the abstract specification of P and V; `Nucleus` with a note of every call, and the refinement |
| `Namespaces` | GETPROCESSID and GETCHILDREN in the states of `Nucleus` |
| **What the nucleus' model leaves open** | |
| `Contexts` | processor states: `SAVED_STATE`, `p_s`, `sup_exceptState`, `LDST`, return values |
| `DeviceRegs`, `DeviceSpec`, `DeviceIO` | register addresses and `getDeviceSem`; who is answered; DOIO with commands, operands, status, and the devices working meanwhile |
| `CpuTime` | `getTimespan` and `updateCurrentProcTime` at each of their callers |
| **For the tools** | |
| `MCNucleus`, `MCCalls`, `MCLists`, `MCPcbLists`, `MCSemdTable`, `MCDeviceIO`, `MCCpuTime`, `MCContexts` | values of the constants for TLC |
| `ListLemmas`, `NucleusProofs`, `DeviceProofs`, `CpuTimeProofs`, `ContextsProofs`, `ListProofs`, `PcbProofs`, `SemdProofs` | proofs |

### Nucleus

**State.** A PCB is its index in `pcbFree_table` counted from 1. That number is
also its PID while it is allocated; `p_pid` is 0 while it is free, as in the
code. Lists are sequences. The variables carry the names of the C variables and
fields; `mode` says what the processor does between two exceptions: `"run"`
(it executes `currentProc`), `"idle"` (the scheduler has unmasked the interrupts),
`"wait"` (it has executed `WAIT`), `"halt"`,
`"panic"` (deadlock), `"ashPanic"` (PANIC in P or V), and `"fault"` (the nucleus
followed a null pointer). `plt`, `it` and `dev` are the pending interrupts.
`p_status` is what a process lets through of them when it executes: the PLT's
interrupt (`"plt"`), those of interval timer and devices (`"io"`). The nucleus
does not look at it. A process is created with any status of `Statuses`, is given
another one when an exception is passed up (`sup_exceptContext`), and in kernel
mode sets it as it likes.

**Actions.** A handler cannot be interrupted, so it is one action, from the
exception to `LDST`, `WAIT`, `HALT` or `PANIC`. The dispatch at its end is part
of it: `Scheduler` appears inside the actions that end in `scheduler()` and
never alone.

| Code | Action |
|---|---|
| `__createProcess` | `CreateProcess`, `CreateFails` |
| `__termProcess`, `__killProcess` | `TermProcess`, through `KillAndContinue` and `KillProcess` |
| `__passeren`, `__verhogen`, `P`, `V` | `Passeren`, `Verhogen`, through `SemOp` (P closes at 0, V at 1) |
| `__doIo`, `__clockWait` | `DoIo`, `ClockWait` |
| `__passUpOrDieHandler` | `PassUpOrDie` |
| a new status, by the process itself | `SetStatus` |
| from `setSTATUS` to `WAIT` in `scheduler` | `Wait` |
| `allocNamespace`, called by a process | `AllocNamespace` |
| `__pltHandler`, `__itHandler`, `__devHandler` with `__devReturn` | `PltHandler`, `ItHandler`, `DevHandler` |
| timers, devices | `PltExpire`, `ItExpire`, `DevDone` |
| `HALT`, `PANIC`, a fault | `Stopped` |

The kill of `Nucleus` takes the subtree at once: counters, queues and tree are
those the recursion leaves, and the PCBs go back to the free list in the
recursion's order (`FreedBefore`, `Orders`: children before parents, older
siblings' subtrees first). `KillIsTheRecursion` checks the two against each
other on every killing step of the run `nucleus_steps`.

**Three switches.** `SharedDevices` says whether processes may call DOIO on a
device somebody already waits for; the tests never do (each device is behind a
mutex). `LateTimer` says whether the time slice may end while a handler runs.
`Statuses` are the statuses of processes: with `Unmasked` all let everything
through, with `PltMasked` some mask the PLT, as the handlers of
`p2test.c:307,310` do. The safety run sets the first two, the run with liveness
none; `nucleus_shared` and `nucleus_plt` show what they break.

**Calls.** P and V on an open semaphore may change nothing that is abstract (a V on
a full one that a taker waits for, and so on). So that no such call passes for no call,
`NucleusCalls` adds a history variable, `calls`, which counts the calls on each
semaphore modulo 3, a PASSEREN as 1 and a VERHOGEN as 2. In `Semaphores` it changes exactly with
the action that is the call.

**A device's COMMAND.** What a device does with a command while it is at work, or
while its interrupt is not acknowledged, is the hardware's affair: `WriteCommand`
lets it start anew, and withdraw its interrupt, or ignore the command. The same
is in `DeviceIO`.

### Lists, PCBs and the hash

A memory in `Links` is a record of two functions, `next` and `prev`. Each
operator has the name of a C function and makes its assignments in its order.
`Lists` lets a program make any call its comment allows on any list;
`PcbLists` restricts itself to what the nucleus does (a PCB goes into one queue
at a time, gets a parent while it has none and no children, and is freed when it
is in no list).
`SemdTable` needs no such restriction but one: a process
blocks on one semaphore at a time. The hash function is computed as in the code,
byte by byte because TLC's integers are narrower than the product; the keys of
the run are addresses of which three fall into one bucket. `call` and `ret` hold
the last call, its arguments and its result, in the implementation and in the
abstract specification, so that each call must have its own effect and result.

### Processor states

In `Contexts` a state is a program (`main`, or one of the two exception handlers
a process has), a position in it, `v0` and the status bits that matter. Which
process is dispatched, woken or killed is any that could be: `Nucleus` decides
it, and what is said of states may not depend on it. `frames` is not in the code:
it records where each process and each of its handlers expects to go on.

A handler starts with the status its support structure gives (`Statuses`), with or
without the timer, in kernel or user mode. What it does with the state it was passed
is taken from the handlers of `p2test.c` (`p5gen`, `p5mm`, `p5sys`): a trap is
left at any place and in any mode the handler chooses (`Redirect`), a system call
where the nucleus left it, or an instruction further, as `p5sys` does. Each
process has a support structure of its own, as `p5` has. Two processes
that shared one would overwrite each other's `sup_exceptState`; nothing in the
code prevents it.

### Devices

`DeviceIO` splits DOIO into its writes, because the device works by itself
between them; the rest of the nucleus is as atomic as in `Nucleus`. It is the
hardware's part that has to be assumed:

* a write to COMMAND starts the device; while it is at work or its interrupt is
  pending, any write to its registers may be taken or ignored;
* the device reads DATA0 and DATA1 at some moment of its own choice after the
  command and before it completes, also while DOIO is still writing;
* a terminal does not complete with READY, which `__devHandler` would not count
  as an event;
* the acknowledgment makes the device ready.

`Usages` says how the processes share a device: `"any"`, `"unclaimed"` (they call
DOIO only while nobody waits for the device), or `"idle"` (only while it is not at
work). `Kills` says that processes may be killed while they wait. `answer` is
what the last step handed to a process; nothing reads it but the properties.

### CPU time

In `CpuTime` the work of the nucleus is a list of steps, and the clock may tick
between any two of them. A tick is `due` to the current process when the
processor executes it, or executes a system call of its own, or has not yet
charged it for that; `lost` counts those ticks that pass between the two
readings of the clock in `getTimespan`, which the code charges to nobody.

### Namespaces

`Namespaces` asks what each living process would be answered in each state of
`Nucleus`. Allocation itself is in `Nucleus`: inheritance in `CreateProcess`,
`allocNamespace` called by a process in `AllocNamespace`. A process calls it with
interrupts on; that it is one step assumes that one process at a time does, as
in `p2test.c:866`.

### Mutants

**Operators marked "deliberately wrong"** are used by no definition. Each is a
plausible slip in the operator that follows it (a lost reset, the wrong end of a
list, a forgotten case); put in its place it makes TLC report the property named
beside it in `PROJECT.json` under `mutants`. They show that the properties have
teeth.

## Runs

Run with `tlc -config <cfg> <module>`; `PROJECT.json` names both for each run.

| Run | Bounds | What it shows |
|---|---|---|
| `nucleus_safety` | 3 PCBs, 2 user semaphores, 2 namespaces, a disk, the clock, both kinds of process, `SharedDevices` and `LateTimer`; about 839,000 states up to symmetry | `TypeOK`; `Placement`: each PCB in exactly one place; `CountersExact`; `OneTree`: lists and pointers agree and everybody descends from the first process; `AshNeverExhausted`; `StopsForTheRightReason`; `NamespacesOwned`, also once none is left; `SeenBothWays`: children and parents see each other or not |
| `nucleus_steps` | 4 PCBs, 1 user semaphore, the clock, calls noted; about 272,000 states | `NoOvertaking`, `KillTakesProgeny`, `WokenFromTheHead`, `KillIsTheRecursion`, `ImplementsSemaphores` |
| `nucleus_live` | 3 PCBs, 1 user semaphore, both subdevices of a terminal, the clock, all interrupts let through; about 37,000 states | `WaitsForSomething`: whenever the machine waits, an interrupt is to come that wakes somebody; `NoKernelFault`; `ReadyEventuallyRuns`, `ClockWaitEnds`, `IoWaitEnds` |
| `nucleus_plt` | 2 PCBs, a disk, `LateTimer`, statuses `PltMasked` | a violation of `NoKernelFault` |
| `nucleus_shared` | 2 PCBs, a disk, `SharedDevices`, with fairness | a violation of `IoWaitEnds` |
| `lists` | 2 lists, 4 entries, all calls; about 22,000 states up to symmetry | `BothWaysAgree`: `next` and `prev` are each other's reverse; `ImplementsListSpec` |
| `pcb_lists` | 3 PCBs, 2 queues; about 27,000 states up to symmetry | `ListsApart`: the lists of the nucleus can be walked both ways and share no node; `ImplementsPcbSpec` |
| `semd_table` | 4 keys in 2 buckets, 3 descriptors, 4 processes; about 39,000 states | `OneChainOrFree`: each descriptor is free or, once, in its key's chain; `ImplementsAshSpec` |
| `devices` | 2 processes, a disk and both halves of terminal 7, 2 commands, 3 status codes, usages `"any"` and `"idle"`, with kills; about 63,000 states up to symmetry | `ImplementsDeviceSpec`: an interrupt answers the first in its own device's queue; `OwnResult` where processes take turns |
| `device_stale` | 2 processes, a disk, usage `"unclaimed"`, with kills | a violation of `OwnResult` |
| `cpu_time` | 2 processes, a clock with 4 values, 7 ticks; about 208,000 states | `TimeAccounted` |
| `contexts` | 2 processes, programs of 2 positions, one system call of each kind and one that is none, handlers without the timer; about 7.0 million states | `ResumesWhereItLeft`, `TrapsRemembered` |

**Why these bounds.** Every decision of the code compares something with empty,
zero, one or the head of a queue. Three PCBs are enough for a queue with a
second member while a third process acts, and for a chain of two below the
first process; four give a tree with both siblings and grandchildren and a
queue with a middle, which is what the properties of single steps are about.
The safety run has four semaphores and three descriptors, so that the hash
could run out. One disk and one terminal cover a device with one and a line
with two interrupt sources, and with the clock and the PLT every comparison of
priorities in `interruptHandler`. Semaphores of the processes are
interchangeable, and the safety run uses that symmetry, as `lists`, `pcb_lists`,
`semd_table` and `devices` do for their queues, entries and processes; no
liveness run does.
Nothing in the model grows without bound, so there is no state constraint.

For the lists, two heads and four entries give every coincidence a call can
meet: an empty list, a single entry, neighbours, a middle, both ends, source and
target the same or different. Three descriptors make a chain with a middle; a fourth
process finds none left. One disk and the two halves of a terminal have all
that tells devices apart: a line before another, data registers or none, two
devices on one register and one interrupt line. The last terminal is the one at
the end of the range `getDeviceSem` accepts. In `cpu_time` seven ticks take the
clock around its four values and `p_time` with it; the bound on the clock is
the only one there. In `contexts` two positions are the least for which a
repeated call differs from one that is skipped, and the second process is all
the others.
Handlers without the timer are the harder case: it must be on again when the
process' own program goes on.

Deadlock checking is off in `contexts`, because a machine in which nobody can be
woken has stopped there.

Deadlock checking is on in all runs of `Nucleus`: a machine that has stopped stutters
explicitly (`Stopped`), so TLC would report any other state without a step.

**Abstractions.** `ImplementsSemaphores` is
`Semaphores!Spec` under the mapping that calls the processes blocked on an
empty semaphore its takers and those on a full one its givers, the living
processes `alive` and the executing one `caller`. Only the caller takes or gives;
if it has to wait, it joins the queue's end and somebody who is in no queue, or
nobody, goes next; a unit handed over takes exactly the first out of the queue;
`Die` takes those out that cease to be alive, and no others; and `calls` tells
that a call was made. So a lost, duplicated or misdirected unit, a waiter dropped or
woken in somebody else's place, and a call without effect are all no steps of
`Semaphores`. It also says that the one queue of the code does the work of two
and that descriptors can come and go unseen. In `ImplementsListSpec`, `ImplementsPcbSpec` and
`ImplementsAshSpec` a list is the sequence of entries a walk along `next` meets,
and a queue of a semaphore is that of the first descriptor in its bucket with
its key. In `ImplementsDeviceSpec` each device has a queue of its own: that the
semaphores are different is what `getDeviceSem` adds.

## Fairness

`Nucleus!FairSpec` assumes of the hardware that timers run and that a device that has
been given a command completes (`WF` of `PltExpire`, `ItExpire`, `DevDone`), and
of the processor that it takes a pending interrupt when it can. The PLT has the
highest priority, so `WF` suffices for `PltHandler`. The other handlers are held
back while an interrupt of higher priority is pending, again and again as
processes run, so `ItHandler` and `DevHandler` have `SF`: interrupts are
unmasked in `WAIT` (`IECON`, `IMON`) and wherever the status that `LDST` loads
unmasks them, the time between two expirations of a timer is far longer than a
handler, and `interruptHandler` serves one cause after the other.

Fairness of an interrupt's handler is fairness of a step the interrupted status
lets happen: a masked interrupt is not taken, and nothing is promised. A process
may loop for ever, but what it masks is assumed, since the nucleus runs every
process with the status it asks for (`exceptions.c:47-48,69`; `scheduler.c:21` adds
only TEBITON). `ReadyEventuallyRuns` needs the PLT's interrupt let through by
everybody: the time slice then takes the processor away. `ClockWaitEnds` and
`IoWaitEnds` need all of them let through. The run has `Unmasked` for the three.

## Findings

**A PLT interrupt while nobody runs** (`nucleus_plt`; `interrupts.c:57`). When
the time slice ends inside the system call that blocks the last ready process,
the scheduler goes to `WAIT` with every interrupt unmasked and the PLT
interrupt pending: only the branch that dispatches sets the timer. The handler
then saves the state of `currentProc`, which is `NULL`. Turning TEBITON off in
`WAIT` is enough to keep the timer from expiring there, but not to withdraw an
interrupt that is already pending.

The slice need not end inside the nucleus. A process runs with whatever interrupt
mask it has, and the nucleus adds only TEBITON. The exception handlers of the test
have the mask 0xFD00 (`p2test.c:51,307,310`), without the PLT's bit: a slice that ends
there stays pending until the process blocks or ends. The run has `PltMasked` too, so both
ways are in it; TLC reports the first, which is shorter, and with `LateTimer = FALSE`
it reports the second: a process that masks the PLT is created and dispatched, its
slice ends, it terminates while its parent waits for the disk, and the interrupt is
taken by an empty processor. With neither `NoKernelFault` holds (`nucleus_live`, and a
theorem).

**Two processes in DOIO on one device** (`nucleus_shared`; `exceptions.c:131`).
DOIO promises that the device's interrupt fills in the return value. The second
process overwrites the command of the first, the device interrupts once, and
one of the two is never woken. The tests' mutexes avoid it, the nucleus does
not. `IoWaitEnds` is checked to hold with one process per device.

**The dead process' answer** (`device_stale`; `interrupts.c:23`). `__devReturn`
is to give the outcome to the process whose system call it was. If that process
is killed while the device works, the device goes on. A second process finds
nobody waiting, calls DOIO, its command does not reach the busy device, and the
interrupt wakes it with the outcome of the first one's command. Where processes
wait until the device is no longer at work, `OwnResult` holds (`devices`).

Three things the models show that are no disagreement of the nucleus with a claim
about it:

* `TrapsRemembered` needs handlers that raise no exception of the type they
  handle, since there is one `sup_exceptState` for each type.
* The nucleus moves the pc behind a SYSCALL before it looks at it
  (`exceptions.c:222`), so a handler that a system call is passed up to finds the
  pc of the next instruction. The test's `p5sys` takes it for that of the SYSCALL and
  adds 4 "to avoid SYS looping" (`p2test.c:577-578`): an instruction of `p5b` is
  skipped, which the test does not notice. `HandlerReturns` has handlers that move
  the pc and handlers that do not; `ResumesWhereItLeft` holds the nucleus to what it
  is asked, to resume the process where its handler sent it, and `TrapsRemembered`
  says which pc a handler is passed.
* DOIO writes COMMAND, which starts the device, before DATA0 and DATA1
  (`exceptions.c:131-135`). `DeviceIO` lets the device read its operands between these
  writes; it then works with those of the operation before. When a device reads
  them is the hardware's affair, so no property claims that operands are the
  caller's own: `OwnResult` is about command, status and return value.

## Proofs

`tlapm <module>.tla` for `ListLemmas`, `NucleusProofs`, `DeviceProofs`,
`CpuTimeProofs`, `ContextsProofs`, `ListProofs`, `PcbProofs` and `SemdProofs`
checks them.

| Theorem | For every value of the constants |
|---|---|
| `TypeCorrect` | `[]TypeOK` |
| `PlacementCorrect` | `[]Placement`: each PCB is free, ready, executing, or in the queue of the one semaphore its `p_semAdd` names |
| `AshSuffices` | `[]AshNeverExhausted`: the `PANIC` of P and V is unreachable |
| `OneTreeCorrect` | `[]OneTree`: lists and pointers agree, one tree of living processes |
| `Invariant` | `[]IInv`, from which the three above follow |
| `CountersCorrect` | `[]CountersExact`: both counters are the numbers of those they count |
| `StopsCorrect` | `[]StopsForTheRightReason`: halted with nobody left, in PANIC only in a deadlock, waiting only with all blocked and one of them on a device or the clock |
| `NeverWaitsInVain` | `[]WaitsForSomething`, if not `SharedDevices`: whenever the machine waits, an interrupt is to come that wakes somebody |
| `NoFaultWithoutLateTimer` | `[]NoKernelFault`, if no time slice ends while a handler runs and every status lets the PLT's interrupt through |
| `NamespacesCorrect` | `[]NamespacesOwned` |
| `KillsTakeProgeny` | `KillTakesProgeny`: in any step, those who die are one process and its descendants |
| `WakesFromTheHead` | `WokenFromTheHead`: a process blocks only by its own call, and is let through at the head of its queue or with the whole queue of the clock |
| `NobodyOvertakes` | `NoOvertaking`: those that stay in a queue keep their order, newcomers go behind |
| `ParentsAndChildrenAgree` | `[]SeenBothWays` |
| `Refinement` | `CallsSpec => ImplementsSemaphores`: the nucleus, with its calls noted, implements the abstract semaphores |
| `QueuesOfDevices` | `ImplementsDeviceSpec`: an interrupt answers the first in its own device's queue |
| `ResultsAreOwn` | `OwnResult`, if `TakeTurns` |
| `TimeCorrect` | `[]TimeAccounted` |
| `ProcessesGoOn`, `HandlersGoOn` | `[]ResumesWhereItLeft` and `[]TrapsRemembered`, if not `NestedTraps` |
| `PointersAgree` | `[]BothWaysAgree`: every list can be walked both ways, to the same entries |
| `ListsAreSequences` | `ImplementsListSpec`: each call of `list.h` is the operation on sequences its comment promises |
| `ListsShareNothing` | `[]ListsApart`: the lists of PCBs in use share no link and come back to their heads both ways |
| `PcbsAreSequences` | `ImplementsPcbSpec`: `pcb.c` over `list.h` is the operations on sequences and trees that `Nucleus` is built from |
| `DescriptorsAccounted` | `[]OneChainOrFree`: each descriptor is free or, once, in the chain of its own key's bucket, with somebody waiting and `pprev` right |
| `TableIsFunction` | `ImplementsAshSpec`: `ash.c` over its hash table is the partial function that `Nucleus` is built from |
| `OneSemaphoreEach`, `DataRegistersOfNonTerminals` | for all 48 devices: `getDeviceSem` is injective and in range, and DOIO's test for data registers is right |
| `WithoutProperty` | taking PCBs out of a queue of any length leaves exactly the others, once each |

**Assumptions.** Those on the constants say what tells them apart: MAXPROC is a
positive number, `NULL` is nobody's name, the devices are among the 48
subdevices, the semaphores of devices, clock and processes are different
addresses, a request is not a process, the keys of the hash are numbers other
than 0 (`PcbAssumption`, `NucleusAssumption`, `DeviceIOAssumption`,
`SemdTableAssumption`, and those of `CpuTime` and `Contexts`). TLC evaluates them on
every run of those modules. The switches are arbitrary, except where a theorem
names one, and then the property is false without it:

* `NoFaultWithoutLateTimer`: no time slice ends while a handler runs, and no process
  masks the PLT (the finding of `nucleus_plt` tells both other cases). The code
  ensures neither.
* `NeverWaitsInVain`: nobody calls DOIO on a device somebody waits for
  (`nucleus_shared` is the other case).
* `TakeTurns == Kills => "unclaimed" \notin Usages`: if processes may be killed in
  DOIO, then nobody may go by the queue alone to tell whether a device is free
  (`device_stale` is the other case). `OwnResult` speaks of the usages
  `"unclaimed"` and `"idle"`; the tests are `"idle"`, each device being behind a
  mutex that is held until the answer has come, and none of them kills a process
  in DOIO.
* `~NestedTraps`: a handler raises no exception of the type it handles, because
  there is one `sup_exceptState` for each type.

**The argument: the nucleus.** None of the invariants is inductive alone.

* A kill frees a whole subtree. To keep `Placement` it must not free what is
  free already, so it needs the tree: the subtree of a living process consists
  of living processes (`ActiveSubtree`).
* A creation takes the first free PCB and resets its own links. To keep the
  tree it must know that no list of children still holds that PCB, which
  `freePcb` does not see to. That is the last conjunct of `TreeInv` with
  `OneTree`, kept because a kill unlinks before it frees (`KillTree`); and it
  needs `Placement` to know that who is free is not alive.
* P and V `PANIC` when no descriptor is left, with the process they were to
  block in no queue. `NotExhausted` excludes it by counting: every descriptor
  in use has a waiter (part of `TypeOK`), a waiter waits in one queue
  (`Placement`), and the process that is about to block waits in none, so the
  descriptors are fewer than the processes.
* `PltHandler` runs with or without a current process. That `WAIT` means there
  is none is part of `ModeInv`.

So `IInv == TypeOK /\ Placed /\ TreeInv /\ ModeInv` is preserved as a whole.
`Placed` is `Placement` in terms of `Seated`, a predicate of a ready queue, a
hash, a free list and whoever executes. Handlers do several things (wake
somebody, put the executing process at the end of the queue, dispatch), and
`Seated` can be said of the state between any two of them: one lemma per
operation (`BlockSeats`, `WakeSeats`, `HandOffSeats`, `KillSeats`,
`SchedulerSeats`, `ExitIntHandlerSeats`), and one lemma per action that chains
them. `SubtreeClosed`, `SubtreeLeast` and `SubtreeParents` characterise the
subtree as the least set with `v` that is closed under children, which is all
the proofs use of it; `OrdersProperty` says that the order in which a kill
frees PCBs names each of them once.

The other theorems take `IInv` as given and add one part each, preserved by every
step:

* `CountInv` for the counters, with the fact that device and clock semaphores
  are always 0: DOIO and CLOCKWAIT count their caller before P, which is right
  only because P then blocks. A kill counts each of the dead, and `Placement`
  and the tree say they are different and alive.
* `StopInv` for the reasons of stopping, in terms of the counters; that the
  counters tell the truth about the processes comes from `CountInv` and `IInv`
  (`StopsAreRight`).
* `SoloInv` for waiting in vain: a device that somebody is blocked on is at work or has
  its interrupt pending, and no two are blocked on it. A command to a device
  that is ignored leaves it at work or pending; an acknowledgment comes with a
  wake-up; a kill leaves the device alone.
* `PltInv` for the fault: no PLT interrupt is pending while nobody executes.
* `KillsTakeProgeny`, `WakesFromTheHead` and `NobodyOvertakes` are about single steps. `StepKinds`
  says which six kinds of steps move a PCB; in a kill the subtree is read off
  `p_parent` (`SubtreeByParents`, from `OneTree`), and who is blocked where is
  read off `p_semAdd` before and after the step (`BlockedBySemAdd`, from
  `Placed`, which is why the second needs `IInv` in both states).
  Nobody overtakes because each queue changes in one of four ways: its head
  leaves, some leave (`WithoutPrecedes`: the n-th that is kept grows with n),
  some join at the end who, by `Placed`, were not in it, or both
  (`OrderKept`, `OrderTail`, `SchedulerOrder`).
* `ParentsAndChildrenAgree` needs only `IInv`: lists and parent pointers agree, and
  a PID is an index.
* `Refinement` needs no invariant beyond `IInv` and the type of `calls`. For each action it says
  which step of `Semaphores` it is: P and V through what they do to one queue
  (`SemOpQueues`), a kill through `OutBlockedQueues` of `ListLemmas`, everything else as
  `Other`, because devices and the clock have other semaphores. Who is dispatched
  after a call that blocks is free by `Placement`; that a step which is no
  PASSEREN and no VERHOGEN is not taken for one is shown action by action.

**The argument: devices.** `getDeviceSem` is arithmetic over constants:
`GetDeviceSemIndex` computes the index of each device, and `OneSemaphoreEach` says
that no two are the same. With it, and `QueueInv` (each process waits once, or is in
the middle of DOIO, or neither), every action is a step of `DeviceSpec` on the
queue of one device.

Whose result it is takes more (`OwnInv`). A process *claims* a device while it
is in DOIO there or waits for it. Where processes take turns, a device has one
claim at a time (`OneClaimInv`); a device that is claimed is at work for the one
that claims it, with the latter's command also in its register (`WorksInv`); where
they look at the queue alone, a device at work is claimed (`ClaimedInv`); and the
status of an operation that is over is its own (`OverInv`).

**The argument: time.** `TimeAccounted` alone does not survive a step in the
middle of a handler. The invariant adds what is left of the handler and, for
every place in it, whether the current process has been charged since the last
reading of the clock; ticks are counted modulo the width throughout.

**The argument: processor states.** `frames` says where each process and each of
its handlers is to go on. The invariant (`GoesOnInv`, `HandlerInv`) relates it to
all the places a state can be in: the processor, `SAVED_STATE` while a handler
runs, `p_s`, and `sup_exceptState` for each frame below the top. That a process
has at most one frame of each type, which is what `~NestedTraps` gives, makes
those places different. `Timed` goes with every state of a `main` program, so that
no handler's status gets into it.

**The argument: lists.** What is kept is `Holds`: the head and the entries of a
list form a ring, each node's `next` and the next one's `prev` naming each other;
no entry occurs twice, in one list or two; what is in no list may hold anything.
`ListLemmas` takes each call in three steps. What it makes of the ring
(`RingInserted`, `RingRemoved`, `RingBulked` and so on): its assignments are few, and
the facts that the nodes of a ring differ tell which of them coincide (one entry,
adjacent ones, an end). That other lists keep theirs, because the call writes only
nodes of its own lists (`OneListChanges`, `TwoListsChange`). And what the new ring
is in terms of `Append`, `SubSeq` or `RemoveAt` (`AddCalls` to `SwapCalls`). A walk
along a ring comes back to its head after as many steps as there are entries, and
not before (`ListWalks`), so that the sequence a walk meets is the one that is held.
`list_swap` is the composition of `list_del`, `list_replace` and `list_add` it is in
the code. `ListsAssumption` says that there are finitely many nodes, and that heads
are not entries.

**The argument: PCBs.** `ListsApart` is not inductive, because the calls of
`pcb.c` take a PCB out of a list without looking whether it is in it: `outChild`
trusts `p_parent`, `insertProcQ` trusts its caller. What makes that right is
`InTheirLists`: a PCB's `p_sib` is in the children of `p_parent` and nowhere else,
its `p_list` is in `pcbFree_h` exactly while `p_pid` is 0, and in at most one queue
otherwise. With it each call is a call of `ListLemmas` on a list that holds, and
`Pcbs` maps the links of a list to the PCBs they are members of (`PcbsAppend`,
`RemoveIsWithout` and so on), which gives the operations of `Pcb`.

**The argument: the hash.** `AshInv` is `Consistent`, a predicate of the table, its
chains, the keys, the queues, the free list and `p_semAdd`. `Chained` says of each
bucket what `ChainIn` says of one: `first` and `next` lead through its nodes, each of
which knows by `pprev` the place that points to it, no node twice, in one chain or
two, and who is in none has no `pprev`. A walk of the chain then meets just its nodes
(`ChainRead`), and `hash_add` and `hash_del` change one chain and leave the others
as they are (`OneChainChanges`, which both are proved by: `AddChained`, `DelChained`).
That a chain tells where a key is needs more: a descriptor is in the bucket of
its key and no two have the same (`KeysInBuckets`), so that the scan of one
bucket finds the descriptor of a key or there is none (`ScanFinds`). And outBlocked
looks in the queue that `p_semAdd` names, which `QueuesByKey` says is the queue p is
in, and the only one. From these the table is a partial function (`TableMaps`), and
each call does to it what `Ash` says; that `insertBlocked` fails exactly when MAXPROC
keys are in use is a count of descriptors (`AllInUse`). The hash function enters
only by its range (`HashInRange`): the product of bytes stays in a byte, and
`const_ilog2` of 32 is 5.

**Induction.** The library's induction theorems take an operator, which no
installed prover can instantiate. Where induction over the numbers is needed,
`NatSetInduction` of `ListLemmas` states it of a set; it is derived from the
library's facts on finite sets.

**Only model-checked.** Liveness under fairness (`ReadyEventuallyRuns`,
`ClockWaitEnds`, `IoWaitEnds`) is beyond the prover, and so is anything about a
`RECURSIVE` operator: that the kill of `Nucleus` is the recursion of the code
(`KillIsTheRecursion`) stays with TLC. Every other property of the passing runs is a
theorem above.

## Not modelled

* Iteration macros of `list.h` other than `list_for_each_entry`, `list_splice`
  and `list_splice_tail` (which leave a list that must not be used again), RCU
  variants, `hash_for_each` and the hlist calls nobody uses.
* The reset of `p_time` in `allocPcb`: `CpuTime` has the processes it starts with.
* The width of `p_time`: `cpu_t` is signed, so GETTIME turns negative after
  2^31 ticks; `TimeAccounted` is modulo the width.
* `freeNamespace`, which nothing calls, and what would happen if two processes
  were in `allocNamespace` at once, or one were killed there: the code is not
  protected, and the one process of the tests that calls it is alone.
* Exceptions a handler raises of the type it is handling (`NestedTraps` admits
  them, and no run sets it), support structures that processes share, and the contents of registers other than the
  program counter, `v0` and the status.
* TLB refill (`uTLB_RefillHandler` belongs to the test) and page tables, which
  nothing reads yet; the tests, the build.

Arguments outside what the system calls are for (addresses that are no device
register, a semaphore whose value is neither 0 nor 1, a namespace that was
never allocated) are not enumerated: the code does not check them.

## Plan

What is modelled is complete as far as the components go, and what TLC checks is
proved as far as the prover reaches. Open ends, in the order of what they would
add:

* That composing the proved parts gives the nucleus over its data structures as one
  theorem: `TableIsFunction` and `PcbsAreSequences` show that `ash.c` and `pcb.c` are
  the operators `Nucleus` uses, but the substitution itself is an argument of this
  text.
* `allocNamespace` in steps, for a caller that can be interrupted.
* The steps of `__killProcess` as a recursive function, which would bring
  `KillIsTheRecursion` within reach of a proof by `NatSetInduction`.
