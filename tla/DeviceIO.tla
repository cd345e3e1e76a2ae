------------------------------ MODULE DeviceIO ------------------------------
(***************************************************************************)
(* DOIO with its data: the writes to the device's registers, the device    *)
(* that works by itself meanwhile, and the interrupt that hands registers  *)
(* and return value to whoever waits.  Handlers run one at a time, but a   *)
(* device may act between two writes of DOIO.                              *)
(*                                                                         *)
(* A write to the command register starts the device.  It works with the   *)
(* data registers as they are when it reads them, at any moment before it  *)
(* completes.  A device that is at work, or whose interrupt has not been   *)
(* acknowledged, may take what is written to its registers or ignore it.   *)
(* The nucleus' own part is exceptions.c and interrupts.c; the device is   *)
(* the hardware they run on.                                               *)
(***************************************************************************)
EXTENDS DeviceRegs, Queues, SequencesExt

CONSTANTS Procs, NULL,
          Devs,          \* the devices in use
          Requests,      \* what processes ask for: command, data0, data1
          Codes,         \* status codes of a completed operation
          Usages,        \* how the processes may share a device, see MayUse
          Kills          \* may a process be killed while it waits

READY == 1
BUSY == 3
ACK == "ack"

Blank == [status |-> [code |-> READY, of |-> NULL], command |-> ACK,
          data0 |-> NULL, data1 |-> NULL]

\* The words in data registers, the operations of a device, and the system
\* calls under way.
Words == {NULL} \cup {r.data0 : r \in Requests} \cup {r.data1 : r \in Requests}
Operations == [status : {Blank.status}, command : {r.command : r \in Requests},
               data0 : Words, data1 : Words]
Calls == [caller : Procs, device : Devs,
          left : {<<"data0", "data1">>, <<"data1">>, <<>>}]

ASSUME DeviceIOAssumption ==
    /\ Devs \subseteq DeviceIds
    /\ Codes \subseteq Nat \ {0, BUSY}
    /\ Usages \subseteq {"any", "unclaimed", "idle"}
    /\ Requests \subseteq Operations
    /\ NULL \notin Operations \cup Calls \cup Procs \cup 0..IO_DEVICES_NUM

VARIABLES
    usage,           \* how the processes share the devices, chosen at the start
    reg,             \* the registers of each device
    op,              \* what a device is doing or has done: a request, or NULL
    latched,         \* has the device read its operands
    pending,         \* devices that request an interrupt
    deviceSemaphore, \* the queue of each semaphore; its value is always 0
    doIo,            \* the system call under way: caller, device, writes left
    cmdValues,       \* the parameters of each process in DOIO, else Blank
    answer           \* what the last step gave to a process, and to whom, or NULL

vars == <<usage, reg, op, latched, pending, deviceSemaphore, doIo, cmdValues, answer>>
device == <<op, latched, pending>>

Init ==
    /\ usage \in Usages
    /\ reg = [d \in Devs |-> Blank]
    /\ op = [d \in Devs |-> NULL]
    /\ latched = [d \in Devs |-> FALSE]
    /\ pending = {}
    /\ deviceSemaphore = [i \in 0..IO_DEVICES_NUM - 1 |-> <<>>]
    /\ doIo = NULL
    /\ cmdValues = [p \in Procs |-> Blank]
    /\ answer = NULL

Sem(d) == GetDeviceSem(RegAddr(d), NULL)
Waiting(p) == \E i \in DOMAIN deviceSemaphore : p \in ToSet(deviceSemaphore[i])

----------------------------------------------------------------------------
(* SYSCALL 5.  Its caller may have masked the interrupts that are pending. *)

\* The device starts, whatever it was doing.
Start(d, r) ==
    /\ reg' = [reg EXCEPT ![d].command = r.command,
                          ![d].status = [code |-> BUSY, of |-> NULL]]
    /\ op' = [op EXCEPT ![d] = r]
    /\ latched' = [latched EXCEPT ![d] = ~HasData(RegAddr(d))]
    /\ pending' = pending \ {d}

WriteCommand(d, r) ==
    \/ Start(d, r)
    \/ op[d] # NULL /\ UNCHANGED <<reg, device>>

DataWrites(d) == IF HasData(RegAddr(d)) THEN <<"data0", "data1">> ELSE <<>>

\* Processes call DOIO whenever they like, or only on a device nobody waits
\* for, or only on one that is not at work.
MayUse(d) ==
    \/ usage = "any"
    \/ usage = "unclaimed" /\ deviceSemaphore[Sem(d)] = <<>>
    \/ usage = "idle" /\ op[d] = NULL

DoIo(p, d, r) ==
    /\ doIo = NULL /\ ~Waiting(p) /\ MayUse(d)
    /\ cmdValues' = [cmdValues EXCEPT ![p] = r]
    /\ WriteCommand(d, r)
    /\ doIo' = [caller |-> p, device |-> d, left |-> DataWrites(d)]
    /\ UNCHANGED deviceSemaphore

WriteData ==
    /\ doIo # NULL /\ doIo.left # <<>>
    /\ \/ reg' = [reg EXCEPT ![doIo.device][Head(doIo.left)] =
                     cmdValues[doIo.caller][Head(doIo.left)]]
       \/ op[doIo.device] # NULL /\ UNCHANGED reg
    /\ doIo' = [doIo EXCEPT !.left = Tail(@)]
    /\ UNCHANGED <<device, deviceSemaphore, cmdValues>>

\* P on the device's semaphore, which always blocks.
Block ==
    /\ doIo # NULL /\ doIo.left = <<>>
    /\ deviceSemaphore' = [deviceSemaphore EXCEPT ![Sem(doIo.device)] = Append(@, doIo.caller)]
    /\ doIo' = NULL
    /\ UNCHANGED <<reg, device, cmdValues>>

----------------------------------------------------------------------------
(* The device.                                                             *)

ReadOperands(d) ==
    /\ op[d] # NULL /\ ~latched[d] /\ d \notin pending
    /\ op' = [op EXCEPT ![d] = [@ EXCEPT !.data0 = reg[d].data0, !.data1 = reg[d].data1]]
    /\ latched' = [latched EXCEPT ![d] = TRUE]
    /\ UNCHANGED <<reg, pending, deviceSemaphore, doIo, cmdValues>>

\* A terminal does not complete with READY: its interrupt would have no event.
Complete(d, code) ==
    /\ op[d] # NULL /\ latched[d] /\ d \notin pending
    /\ d[1] = IL_TERMINAL => code # READY
    /\ reg' = [reg EXCEPT ![d].status = [code |-> code, of |-> op[d]]]
    /\ pending' = pending \cup {d}
    /\ UNCHANGED <<op, latched, deviceSemaphore, doIo, cmdValues>>

----------------------------------------------------------------------------
(* Device interrupts.                                                      *)

\* The lines with a device that interrupts, and the numbers on such a line.
Lines == {d[1] : d \in pending}
Bitmap(line) == {d[2] : d \in {e \in pending : e[1] = line}}
Least(S) == CHOOSE i \in S : \A j \in S : i <= j

\* __devHandler's test on half a terminal.
HasEvent(d) ==
    d \in Devs /\ reg[d].status.code > READY /\ reg[d].status.code # BUSY

ReturnValue(code) == IF code \in {0, 2} THEN -1 ELSE 0

\* What __devReturn gives to the process it wakes: the registers, copied to
\* its parameters, and the return value.
HandOver(p, d) ==
    /\ answer' = [to |-> p, v0 |-> ReturnValue(reg[d].status.code), values |->
          IF HasData(RegAddr(d)) THEN reg[d]
          ELSE [cmdValues[p] EXCEPT !.status = reg[d].status, !.command = reg[d].command]]
    /\ cmdValues' = [cmdValues EXCEPT ![p] = Blank]

\* The acknowledgment makes the device ready.
Acknowledge(d) ==
    /\ reg' = [reg EXCEPT ![d].command = ACK, ![d].status = Blank.status]
    /\ op' = [op EXCEPT ![d] = NULL]
    /\ latched' = [latched EXCEPT ![d] = FALSE]
    /\ pending' = pending \ {d}

\* Deliberately wrong: the last to come is served first.
DevReturnLast(d) ==
    LET q == deviceSemaphore[Sem(d)]
    IN  /\ IF q = <<>> THEN answer' = NULL /\ UNCHANGED <<deviceSemaphore, cmdValues>>
           ELSE /\ deviceSemaphore' = [deviceSemaphore EXCEPT ![Sem(d)] = Front(q)]
                /\ HandOver(Last(q), d)
        /\ Acknowledge(d)
        /\ UNCHANGED doIo

DevReturn(d) ==
    LET q == deviceSemaphore[Sem(d)]
    IN  /\ IF q = <<>> THEN answer' = NULL /\ UNCHANGED <<deviceSemaphore, cmdValues>>
           ELSE /\ deviceSemaphore' = [deviceSemaphore EXCEPT ![Sem(d)] = Tail(q)]
                /\ HandOver(Head(q), d)
        /\ Acknowledge(d)
        /\ UNCHANGED doIo

\* The first line with an interrupt, the first device on it; of a terminal
\* the transmitter before the receiver, and nothing if neither has an event.
DevHandler ==
    /\ doIo = NULL /\ pending # {}
    /\ LET line == Least(Lines)
           num  == Least(Bitmap(line))
           recv == <<line, num, 0>>
           transm == <<line, num, 1>>
       IN  \/ line # IL_TERMINAL /\ DevReturn(recv)
           \/ line = IL_TERMINAL /\ HasEvent(transm) /\ DevReturn(transm)
           \/ line = IL_TERMINAL /\ ~HasEvent(transm) /\ HasEvent(recv) /\ DevReturn(recv)

----------------------------------------------------------------------------
\* TERMPROCESS on a process that waits: another process takes its place.
Kill(p) ==
    /\ Kills /\ doIo = NULL /\ Waiting(p)
    /\ deviceSemaphore' = [i \in DOMAIN deviceSemaphore |-> Without(deviceSemaphore[i], {p})]
    /\ cmdValues' = [cmdValues EXCEPT ![p] = Blank]
    /\ UNCHANGED <<reg, device, doIo>>

Next ==
    /\ UNCHANGED usage
    /\ \/ DevHandler
       \/ /\ answer' = NULL
          /\ \/ \E p \in Procs, d \in Devs, r \in Requests : DoIo(p, d, r)
             \/ WriteData \/ Block
             \/ \E d \in Devs : ReadOperands(d) \/ \E code \in Codes : Complete(d, code)
             \/ \E p \in Procs : Kill(p)

Spec == Init /\ [][Next]_vars

----------------------------------------------------------------------------
\* A process leaves DOIO with an answer.
Answered == usage # "any" /\ answer' # NULL

GotOwnResult ==
    Answered =>
        LET asked == cmdValues[answer'.to]  got == answer'.values
        IN  /\ got.status.of.command = asked.command
            /\ got.command = asked.command
            /\ answer'.v0 = IF got.status.code = 2 THEN -1 ELSE 0

\* Of processes that take turns, who leaves DOIO has the outcome of its own
\* command: the status is that of an operation with the command it gave, the
\* registers are copied back with the command, and v0 is the failure the
\* status means (__devReturn).
OwnResult == [][GotOwnResult]_vars

Abstract == INSTANCE DeviceSpec
    WITH waiting <- [d \in Devs |-> deviceSemaphore[Sem(d)]], finished <- pending

\* Each device has a queue of its own, and an interrupt answers the first of
\* the device that completed and no other, also when several devices, or both
\* halves of a terminal, complete at once and when the first was killed
\* (getDeviceSem, __devHandler, __devReturn).
ImplementsDeviceSpec == Abstract!Spec
============================================================================
