---------------------------- MODULE DeviceProofs ----------------------------
(***************************************************************************)
(* getDeviceSem for all 48 devices, and DOIO with any number of processes, *)
(* devices and requests: the queues of DeviceSpec, and whose result is     *)
(* whose.                                                                  *)
(***************************************************************************)
EXTENDS DeviceIO, ListLemmas

\* The index getDeviceSem is to find, in the order of the comment above it:
\* the lines of eight devices each, receivers at 32, transmitters at 40.
SemIndex(d) ==
    IF d[3] = 1 THEN 40 + d[2] ELSE 8 * (d[1] - 3) + d[2]

\* The ranges of a device's line, number and half.
LEMMA IdParts ==
    ASSUME NEW d \in DeviceIds
    PROVE  /\ d[1] \in 3..7 /\ d[2] \in 0..7 /\ d[3] \in {0, 1}
           /\ d[3] = 1 => d[1] = 7
           /\ d = <<d[1], d[2], d[3]>>
BY DEF DeviceIds, IL_DISK, IL_TERMINAL, N_DEV_PER_IL

\* The registers of a device are where its index says, the transmitters half
\* a register behind the receivers.
LEMMA RegAddrOffset ==
    ASSUME NEW d \in DeviceIds
    PROVE  RegAddr(d) = DEV_REG_START + 16 * (8 * (d[1] - 3) + d[2]) + 8 * d[3]
<1>1. /\ d[1] \in 3..7 /\ d[2] \in 0..7 /\ d[3] \in {0, 1}
      /\ DEV_REG_SIZE \div 2 = 8
  BY IdParts DEF DEV_REG_SIZE
<1> QED
  BY <1>1 DEF RegAddr, DevRegAddr, DEV_REG_SIZE, DEV_REG_START, N_DEV_PER_IL, IL_DISK

\* getDeviceSem finds that index for the address DOIO and __devHandler use.
THEOREM GetDeviceSemIndex ==
    ASSUME NEW d \in DeviceIds, NEW none
    PROVE  GetDeviceSem(RegAddr(d), none) = SemIndex(d)
<1> DEFINE line == d[1]  num == d[2]  half == d[3]
           unit == 8 * (line - 3) + num
           off  == 16 * unit + 8 * half
<1>1. /\ line \in 3..7 /\ num \in 0..7 /\ half \in {0, 1}
      /\ half = 1 => line = 7
  BY IdParts
<1>2. RegAddr(d) = DEV_REG_START + off
  BY RegAddrOffset, <1>1 DEF DEV_REG_START
<1>3. unit \in 0..39 /\ off \in 0..639 /\ (line = 7 <=> unit >= 32)
  BY <1>1
<1>4. off \div 16 = unit /\ off % 16 = 8 * half
  <2> HIDE DEF unit
  <2>1. CASE half = 0
    BY <1>3, <2>1
  <2>2. CASE half = 1
    BY <1>3, <2>2
  <2> QED
    BY <1>1, <2>1, <2>2
<1> HIDE DEF unit, off, line, num, half
<1>5. /\ DEV_REG_START + off >= DEV_REG_START /\ DEV_REG_START + off < DEV_REG_END
      /\ DEV_REG_START + off - DEV_REG_START = off
  BY <1>3 DEF DEV_REG_START, DEV_REG_END, N_EXT_IL, N_DEV_PER_IL, DEV_REG_SIZE
<1>6. off % 16 >= DEV_REG_SIZE \div 2 <=> half = 1
  <2>1. DEV_REG_SIZE \div 2 = 8
    BY DEF DEV_REG_SIZE
  <2> QED
    BY <1>1, <1>4, <2>1
<1>7. half = 1 => DEV_REG_START + off >= DevRegAddr(IL_TERMINAL, 0)
  <2>1. DevRegAddr(IL_TERMINAL, 0) = DEV_REG_START + 512
    BY DEF DevRegAddr, IL_TERMINAL, IL_DISK, N_DEV_PER_IL, DEV_REG_SIZE, DEV_REG_START
  <2>2. half = 1 => off >= 512
    BY <1>1, <1>3 DEF off
  <2> QED
    BY <1>3, <2>1, <2>2 DEF DEV_REG_START
<1>8. GetDeviceSem(RegAddr(d), none) = IF half = 1 THEN unit + 8 ELSE unit
  <2> DEFINE a     == RegAddr(d)
             upper == (a - DEV_REG_START) % DEV_REG_SIZE >= DEV_REG_SIZE \div 2
  <2>1. (a - DEV_REG_START) \div DEV_REG_SIZE = unit /\ (upper <=> half = 1)
    <3>1. a - DEV_REG_START = off /\ DEV_REG_SIZE = 16
      BY <1>2, <1>3 DEF DEV_REG_SIZE, DEV_REG_START
    <3> HIDE DEF a
    <3> QED
      BY <1>4, <1>6, <3>1
  <2>2. ~(a < DEV_REG_START) /\ ~(a >= DEV_REG_END)
    BY <1>2, <1>3, <1>5 DEF DEV_REG_START, DEV_REG_END, N_EXT_IL, N_DEV_PER_IL, DEV_REG_SIZE
  <2>3. half = 1 => a >= DevRegAddr(IL_TERMINAL, 0)
    BY <1>2, <1>7
  <2> HIDE DEF a, upper
  <2>4. GetDeviceSem(a, none) =
           IF a >= DevRegAddr(IL_TERMINAL, 0) /\ upper
           THEN unit + N_DEV_PER_IL ELSE unit
    BY <2>1, <2>2 DEF GetDeviceSem, a, upper
  <2> QED
    BY <2>1, <2>3, <2>4 DEF N_DEV_PER_IL, a
<1> QED
  BY <1>1, <1>8 DEF SemIndex, unit, line, num, half

\* Every device has a semaphore in deviceSemaphore, and no two devices have
\* the same: no completion is looked for in another device's queue.
THEOREM OneSemaphoreEach ==
    ASSUME NEW none
    PROVE  /\ \A d \in DeviceIds :
                 GetDeviceSem(RegAddr(d), none) \in 0..IO_DEVICES_NUM - 1
           /\ \A d, e \in DeviceIds :
                 GetDeviceSem(RegAddr(d), none) = GetDeviceSem(RegAddr(e), none) => d = e
<1>1. \A d \in DeviceIds : SemIndex(d) \in 0..IO_DEVICES_NUM - 1
  BY IdParts DEF SemIndex, IO_DEVICES_NUM, N_EXT_IL, N_DEV_PER_IL
<1>2. ASSUME NEW d \in DeviceIds, NEW e \in DeviceIds, SemIndex(d) = SemIndex(e)
      PROVE  d = e
  <2>1. /\ d[1] \in 3..7 /\ d[2] \in 0..7 /\ d[3] \in {0, 1} /\ (d[3] = 1 => d[1] = 7)
        /\ e[1] \in 3..7 /\ e[2] \in 0..7 /\ e[3] \in {0, 1} /\ (e[3] = 1 => e[1] = 7)
    BY IdParts
  <2>2. d[1] = e[1] /\ d[2] = e[2] /\ d[3] = e[3]
    BY <1>2, <2>1 DEF SemIndex
  <2> QED
    BY <2>2, IdParts
<1> QED
  BY <1>1, <1>2, GetDeviceSemIndex

\* DOIO writes data registers for exactly the devices that are not
\* terminals: for a terminal they would be the other half's registers.
THEOREM DataRegistersOfNonTerminals ==
    ASSUME NEW d \in DeviceIds
    PROVE  HasData(RegAddr(d)) <=> d[1] # IL_TERMINAL
<1>1. /\ d[1] \in 3..7 /\ d[2] \in 0..7 /\ d[3] \in {0, 1} /\ (d[3] = 1 => d[1] = 7)
      /\ RegAddr(d) = DEV_REG_START + 16 * (8 * (d[1] - 3) + d[2]) + 8 * d[3]
  BY IdParts, RegAddrOffset
<1>2. DevRegAddr(IL_TERMINAL, 0) = DEV_REG_START + 512
  BY DEF DevRegAddr, IL_TERMINAL, IL_DISK, N_DEV_PER_IL, DEV_REG_SIZE, DEV_REG_START
<1> QED
  BY <1>1, <1>2 DEF HasData, IL_TERMINAL, DEV_REG_START

----------------------------------------------------------------------------
(* The types.                                                              *)

Registers == [status : [code : Codes \cup {READY, BUSY}, of : Operations \cup {NULL}],
              command : {r.command : r \in Requests} \cup {ACK},
              data0 : Words, data1 : Words]

TypeInv ==
    /\ usage \in Usages
    /\ reg \in [Devs -> Registers]
    /\ op \in [Devs -> Operations \cup {NULL}]
    /\ latched \in [Devs -> BOOLEAN]
    /\ pending \subseteq Devs
    /\ deviceSemaphore \in [0..IO_DEVICES_NUM - 1 -> Seq(Procs)]
    /\ doIo \in Calls \cup {NULL}
    /\ cmdValues \in [Procs -> Requests \cup {Blank}]

\* The members of a queue, under the two names the libraries have for them.
LEMMA SameSet ==
    ASSUME NEW q
    PROVE  ToSet(q) = Range(q)
BY DEF ToSet, Range

\* The semaphores of the devices in use are different ones.
LEMMA OwnSemaphore ==
    /\ \A d \in Devs : Sem(d) \in 0..IO_DEVICES_NUM - 1
    /\ \A d, e \in Devs : Sem(d) = Sem(e) => d = e
BY OneSemaphoreEach, DeviceIOAssumption DEF Sem

\* What the registers of a device hold until it has started.
LEMMA BlankType == Blank \in Registers
BY DEF Blank, Registers, Words

\* In the first state registers, device semaphores and requests have their types.
THEOREM TypeInit == Init => TypeInv
<1> SUFFICES ASSUME Init PROVE TypeInv
  OBVIOUS
<1>1. reg \in [Devs -> Registers]
  BY BlankType DEF Init
<1>2. deviceSemaphore \in [0..IO_DEVICES_NUM - 1 -> Seq(Procs)]
  BY DEF Init
<1> QED
  BY <1>1, <1>2 DEF Init, TypeInv

\* A set of naturals has the least element __devHandler looks for.
LEMMA LeastIn ==
    ASSUME NEW S \in SUBSET Nat, S # {}
    PROVE  Least(S) \in S
BY LeastNat DEF Least

\* __devHandler serves a device that requests an interrupt.
LEMMA ServedIsPending ==
    ASSUME TypeInv, DevHandler,
           \A d \in Devs \ pending : reg[d].status.code \in {READY, BUSY}
    PROVE  /\ doIo = NULL /\ pending # {}
           /\ \E d \in pending : DevReturn(d)
<1>1. doIo = NULL /\ pending # {} /\ pending \subseteq DeviceIds
  BY DeviceIOAssumption DEF DevHandler, TypeInv
<1>2. \A d \in pending : d[1] \in Nat /\ d[2] \in Nat
  BY <1>1, IdParts
<1>3. Least(Lines) \in Lines
  <2>1. Lines \in SUBSET Nat /\ Lines # {}
    BY <1>1, <1>2 DEF Lines
  <2> QED
    BY <2>1, LeastIn
<1> DEFINE line == Least(Lines)  num == Least(Bitmap(line))
<1>4. num \in Bitmap(line)
  <2> HIDE DEF line
  <2>1. Bitmap(line) \in SUBSET Nat /\ Bitmap(line) # {}
    BY <1>1, <1>2, <1>3 DEF Lines, Bitmap, line
  <2> QED
    BY <2>1, LeastIn
<1>5. PICK d \in pending : d[1] = line /\ d[2] = num
  BY <1>4 DEF Bitmap
<1>6. \A e \in Devs : HasEvent(e) => e \in pending
  BY DEF HasEvent, READY, BUSY
<1>7. CASE line # IL_TERMINAL /\ DevReturn(<<line, num, 0>>)
  BY <1>1, <1>5, <1>7, IdParts DEF IL_TERMINAL
<1>8. CASE line = IL_TERMINAL /\ HasEvent(<<line, num, 1>>) /\ DevReturn(<<line, num, 1>>)
  BY <1>1, <1>6, <1>8 DEF HasEvent
<1>9. CASE line = IL_TERMINAL /\ HasEvent(<<line, num, 0>>) /\ DevReturn(<<line, num, 0>>)
  BY <1>1, <1>6, <1>9 DEF HasEvent
<1> QED
  BY <1>1, <1>7, <1>8, <1>9 DEF DevHandler

\* The registers of a device that starts, and of the others.
LEMMA StartFields ==
    ASSUME TypeInv, NEW d \in Devs, NEW r \in Requests, Start(d, r)
    PROVE  /\ reg'[d] = [reg[d] EXCEPT !.command = r.command,
                                       !.status = [code |-> BUSY, of |-> NULL]]
           /\ reg'[d].status.code = BUSY /\ reg'[d].command = r.command
           /\ op'[d] = r
           /\ \A e \in Devs : e # d => reg'[e] = reg[e] /\ op'[e] = op[e]
           /\ reg' \in [Devs -> Registers]
<1>1. reg' = [reg EXCEPT ![d] =
                [@ EXCEPT !.command = r.command, !.status = [code |-> BUSY, of |-> NULL]]]
  BY DEF Start
<1>2. reg[d] \in Registers
  BY DEF TypeInv
<1>3. reg'[d] = [reg[d] EXCEPT !.command = r.command, !.status = [code |-> BUSY, of |-> NULL]]
  BY <1>1 DEF TypeInv
<1>4. reg'[d].status = [code |-> BUSY, of |-> NULL] /\ reg'[d].command = r.command
  BY <1>2, <1>3 DEF Registers
<1>5. reg'[d] \in Registers
  <2>1. r.command \in {q.command : q \in Requests}
    OBVIOUS
  <2>2. [code |-> BUSY, of |-> NULL] \in
           [code : Codes \cup {READY, BUSY}, of : Operations \cup {NULL}]
    OBVIOUS
  <2> QED
    BY <1>2, <1>3, <2>1, <2>2 DEF Registers
<1>6. reg' \in [Devs -> Registers]
  BY <1>1, <1>3, <1>5 DEF TypeInv
<1>7. op'[d] = r /\ \A e \in Devs : e # d => op'[e] = op[e]
  BY DEF Start, TypeInv
<1> QED
  BY <1>1, <1>3, <1>4, <1>6, <1>7 DEF TypeInv

\* What WriteCommand does to the types: the device starts, or nothing happens.
LEMMA CommandType ==
    ASSUME TypeInv, NEW d \in Devs, NEW r \in Requests, WriteCommand(d, r)
    PROVE  /\ reg' \in [Devs -> Registers] /\ op' \in [Devs -> Operations \cup {NULL}]
           /\ latched' \in [Devs -> BOOLEAN] /\ pending' \subseteq Devs
<1>1. r \in Operations
  BY DeviceIOAssumption
<1>2. CASE Start(d, r)
  BY <1>1, <1>2, StartFields DEF Start, TypeInv
<1>3. CASE UNCHANGED <<reg, device>>
  BY <1>3 DEF TypeInv, device
<1> QED
  BY <1>2, <1>3 DEF WriteCommand

LEMMA DoIoType ==
    ASSUME TypeInv, UNCHANGED usage,
           NEW p \in Procs, NEW d \in Devs, NEW r \in Requests, DoIo(p, d, r)
    PROVE  TypeInv'
<1>1. doIo' \in Calls
  BY DEF DoIo, Calls, DataWrites
<1>2. cmdValues' \in [Procs -> Requests \cup {Blank}]
  BY DEF DoIo, TypeInv
<1> QED
  BY <1>1, <1>2, CommandType DEF DoIo, TypeInv

\* The writes of a system call that is under way.
LEMMA WritesLeft ==
    ASSUME NEW c \in Calls, c.left # <<>>
    PROVE  /\ Head(c.left) \in {"data0", "data1"}
           /\ Tail(c.left) \in {<<"data1">>, <<>>}
           /\ Tail(c.left) = <<"data1">> => Head(c.left) = "data0"
           /\ Tail(c.left) = <<>> => c.left = <<"data1">> /\ Head(c.left) = "data1"
           /\ Head(c.left) = "data0" => c.left = <<"data0", "data1">>
<1>1. \A x, y : Tail(<<x, y>>) = <<y>> /\ Tail(<<y>>) = <<>> /\ <<y>> # <<>>
  OBVIOUS
<1>2. c.left \in {<<"data0", "data1">>, <<"data1">>}
  BY DEF Calls
<1>3. CASE c.left = <<"data0", "data1">>
  BY <1>1, <1>3
<1>4. CASE c.left = <<"data1">>
  BY <1>1, <1>4
<1> QED
  BY <1>2, <1>3, <1>4

LEMMA WriteDataType ==
    ASSUME TypeInv, UNCHANGED usage, WriteData
    PROVE  TypeInv'
<1> DEFINE f == Head(doIo.left)  d == doIo.device  v == cmdValues[doIo.caller]
<1>1. doIo \in Calls /\ d \in Devs /\ v \in Requests \cup {Blank}
  BY DEF WriteData, TypeInv, Calls
<1>2. f \in {"data0", "data1"} /\ Tail(doIo.left) \in {<<"data1">>, <<>>}
  BY <1>1, WritesLeft DEF WriteData
<1>3. v.data0 \in Words /\ v.data1 \in Words
  BY <1>1 DEF Words, Blank
<1>4. [reg[d] EXCEPT ![f] = v[f]] \in Registers
  <2>1. reg[d] \in Registers
    BY <1>1 DEF TypeInv
  <2>2. CASE f = "data0"
    BY <1>3, <2>1, <2>2 DEF Registers
  <2>3. CASE f = "data1"
    BY <1>3, <2>1, <2>3 DEF Registers
  <2> QED
    BY <1>2, <2>2, <2>3
<1>5. reg' = [reg EXCEPT ![d] = [@ EXCEPT ![f] = v[f]]] \/ reg' = reg
  BY DEF WriteData
<1>6. reg' \in [Devs -> Registers]
  BY <1>1, <1>4, <1>5 DEF TypeInv
<1>7. doIo' \in Calls
  BY <1>1, <1>2 DEF WriteData, Calls
<1> QED
  BY <1>6, <1>7 DEF WriteData, TypeInv, device

LEMMA BlockType ==
    ASSUME TypeInv, UNCHANGED usage, Block
    PROVE  TypeInv'
<1>1. doIo \in Calls /\ doIo.caller \in Procs /\ doIo.device \in Devs
  BY DEF Block, TypeInv, Calls
<1>2. Append(deviceSemaphore[Sem(doIo.device)], doIo.caller) \in Seq(Procs)
  BY <1>1, OwnSemaphore, InsertRange DEF TypeInv
<1>3. deviceSemaphore' \in [0..IO_DEVICES_NUM - 1 -> Seq(Procs)]
  BY <1>2 DEF Block, TypeInv
<1> QED
  BY <1>3 DEF Block, TypeInv, device

LEMMA ReadOperandsType ==
    ASSUME TypeInv, UNCHANGED usage, NEW d \in Devs, ReadOperands(d)
    PROVE  TypeInv'
<1>1. op[d] \in Operations /\ reg[d] \in Registers
  BY DEF ReadOperands, TypeInv
<1>2. [op[d] EXCEPT !.data0 = reg[d].data0, !.data1 = reg[d].data1] \in Operations
  BY <1>1 DEF Operations, Registers
<1>3. op' \in [Devs -> Operations \cup {NULL}] /\ latched' \in [Devs -> BOOLEAN]
  BY <1>2 DEF ReadOperands, TypeInv
<1> QED
  BY <1>3 DEF ReadOperands, TypeInv

LEMMA CompleteType ==
    ASSUME TypeInv, UNCHANGED usage, NEW d \in Devs, NEW code \in Codes, Complete(d, code)
    PROVE  TypeInv'
<1>1. reg[d] \in Registers /\ op[d] \in Operations
  BY DEF Complete, TypeInv
<1>2. [reg[d] EXCEPT !.status = [code |-> code, of |-> op[d]]] \in Registers
  BY <1>1 DEF Registers
<1>3. reg' = [reg EXCEPT ![d] = [@ EXCEPT !.status = [code |-> code, of |-> op[d]]]]
  BY DEF Complete
<1>4. reg' \in [Devs -> Registers]
  BY <1>2, <1>3 DEF TypeInv
<1> QED
  BY <1>4 DEF Complete, TypeInv

LEMMA DevReturnType ==
    ASSUME TypeInv, UNCHANGED usage, NEW d \in Devs, DevReturn(d),
           \A i \in DOMAIN deviceSemaphore : IsInjective(deviceSemaphore[i])
    PROVE  TypeInv'
<1> DEFINE q == deviceSemaphore[Sem(d)]
<1>1. reg[d] \in Registers
  BY DEF TypeInv
<1>2. [reg[d] EXCEPT !.command = ACK, !.status = Blank.status] \in Registers
  BY <1>1 DEF Registers, Blank
<1>3. reg' = [reg EXCEPT ![d] = [@ EXCEPT !.command = ACK, !.status = Blank.status]]
  BY DEF DevReturn, Acknowledge
<1>4. /\ reg' \in [Devs -> Registers] /\ op' \in [Devs -> Operations \cup {NULL}]
      /\ latched' \in [Devs -> BOOLEAN] /\ pending' \subseteq Devs
  BY <1>2, <1>3 DEF TypeInv, DevReturn, Acknowledge
<1>5. q \in Seq(Procs) /\ IsInjective(q)
  BY OwnSemaphore DEF TypeInv
<1>6. /\ deviceSemaphore' \in [0..IO_DEVICES_NUM - 1 -> Seq(Procs)]
      /\ cmdValues' \in [Procs -> Requests \cup {Blank}]
  <2>1. CASE q = <<>>
    BY <2>1 DEF DevReturn, TypeInv
  <2>2. CASE q # <<>>
    <3>1. Tail(q) \in Seq(Procs) /\ Head(q) \in Procs
      BY <1>5, <2>2, TailRange
    <3> QED
      BY <2>2, <3>1 DEF DevReturn, HandOver, TypeInv
  <2> QED
    BY <2>1, <2>2
<1> QED
  BY <1>4, <1>6 DEF DevReturn, TypeInv

LEMMA KillType ==
    ASSUME TypeInv, UNCHANGED usage, NEW p \in Procs, Kill(p)
    PROVE  TypeInv'
<1>1. \A i \in 0..IO_DEVICES_NUM - 1 : Without(deviceSemaphore[i], {p}) \in Seq(Procs)
  BY WithoutProperty DEF TypeInv
<1> QED
  BY <1>1 DEF Kill, TypeInv, device

----------------------------------------------------------------------------
(* Who waits where.                                                        *)

\* A process is in one queue once, and in none while its system call is under
\* way; a device without an interrupt has none that __devHandler would see.
QueueInv ==
    /\ \A i \in DOMAIN deviceSemaphore : IsInjective(deviceSemaphore[i])
    /\ \A i, j \in DOMAIN deviceSemaphore :
          Range(deviceSemaphore[i]) \cap Range(deviceSemaphore[j]) # {} => i = j
    /\ doIo # NULL => ~Waiting(doIo.caller)
    /\ \A d \in Devs \ pending : reg[d].status.code \in {READY, BUSY}

LEMMA QueueInit == Init => QueueInv
<1> SUFFICES ASSUME Init PROVE QueueInv
  OBVIOUS
<1>1. \A i \in DOMAIN deviceSemaphore : deviceSemaphore[i] = <<>>
  BY DEF Init
<1>2. IsInjective(<<>>) /\ Range(<<>>) = {}
  BY DEF IsInjective, Range
<1>3. \A d \in Devs : reg[d].status.code = READY
  BY DEF Init, Blank
<1> QED
  BY <1>1, <1>2, <1>3 DEF QueueInv, Init

\* Who waits is in the range of a queue.
LEMMA WaitingRange ==
    \A p : Waiting(p) <=> \E i \in DOMAIN deviceSemaphore : p \in Range(deviceSemaphore[i])
BY SameSet DEF Waiting

LEMMA WaitingRangeNext ==
    \A p : Waiting(p)' <=> \E i \in DOMAIN deviceSemaphore' : p \in Range(deviceSemaphore'[i])
BY SameSet DEF Waiting

\* The steps that leave the queues alone.
LEMMA QueuesAlone ==
    ASSUME QueueInv, UNCHANGED deviceSemaphore,
           doIo' # NULL => ~Waiting(doIo'.caller),
           \A d \in Devs \ pending' : reg'[d].status.code \in {READY, BUSY}
    PROVE  QueueInv'
BY DEF QueueInv, Waiting

LEMMA DoIoQueue ==
    ASSUME TypeInv, QueueInv, NEW p \in Procs, NEW d \in Devs, NEW r \in Requests, DoIo(p, d, r)
    PROVE  QueueInv'
<1>1. ASSUME NEW e \in Devs \ pending' PROVE reg'[e].status.code \in {READY, BUSY}
  <2>1. CASE Start(d, r) /\ e = d
    BY <2>1, StartFields
  <2>2. CASE Start(d, r) /\ e # d
    BY <1>1, <2>2, StartFields DEF Start, QueueInv
  <2>3. CASE UNCHANGED <<reg, device>>
    BY <1>1, <2>3 DEF device, QueueInv
  <2> QED
    BY <2>1, <2>2, <2>3 DEF DoIo, WriteCommand
<1> QED
  BY <1>1, QueuesAlone DEF DoIo

LEMMA WriteDataQueue ==
    ASSUME TypeInv, QueueInv, WriteData
    PROVE  QueueInv'
<1>1. doIo \in Calls /\ doIo' \in Calls /\ doIo'.caller = doIo.caller
      /\ doIo.device \in Devs /\ Head(doIo.left) \in {"data0", "data1"}
  <2>1. doIo \in Calls /\ doIo.left # <<>>
    BY DEF WriteData, TypeInv
  <2>2. Tail(doIo.left) \in {<<"data1">>, <<>>} /\ Head(doIo.left) \in {"data0", "data1"}
    BY <2>1, WritesLeft
  <2> QED
    BY <2>1, <2>2 DEF WriteData, Calls
<1>2. ASSUME NEW e \in Devs \ pending' PROVE reg'[e].status.code \in {READY, BUSY}
  <2>1. pending' = pending /\ reg[e].status.code \in {READY, BUSY} /\ reg[e] \in Registers
    BY <1>2 DEF WriteData, device, QueueInv, TypeInv
  <2>2. reg'[e].status = reg[e].status
    <3> DEFINE v == cmdValues[doIo.caller]
    <3>1. \/ reg' = [reg EXCEPT ![doIo.device] = [@ EXCEPT ![Head(doIo.left)] = v[Head(doIo.left)]]]
          \/ reg' = reg
      BY DEF WriteData
    <3> HIDE DEF v
    <3>2. CASE e = doIo.device /\ reg' # reg
      <4>1. reg'[e] = [reg[e] EXCEPT ![Head(doIo.left)] = v[Head(doIo.left)]]
        BY <3>1, <3>2 DEF TypeInv
      <4> QED
        BY <1>1, <2>1, <4>1 DEF Registers
    <3>3. CASE e # doIo.device \/ reg' = reg
      BY <3>1, <3>3 DEF TypeInv
    <3> QED
      BY <3>2, <3>3
  <2> QED
    BY <2>1, <2>2
<1>3. doIo # NULL /\ UNCHANGED deviceSemaphore
  BY DEF WriteData
<1>4. ~Waiting(doIo'.caller)
  BY <1>1, <1>3 DEF QueueInv
<1> QED
  BY <1>2, <1>3, <1>4, QueuesAlone

LEMMA BlockQueue ==
    ASSUME TypeInv, QueueInv, Block
    PROVE  QueueInv'
<1> DEFINE p == doIo.caller  s == Sem(doIo.device)  q == deviceSemaphore[s]
<1>1. /\ doIo \in Calls /\ p \in Procs /\ s \in DOMAIN deviceSemaphore
      /\ doIo.device \in Devs /\ q \in Seq(Procs) /\ doIo' = NULL
  BY OwnSemaphore DEF Block, TypeInv, Calls
<1>2. \A i \in DOMAIN deviceSemaphore : p \notin Range(deviceSemaphore[i])
  BY WaitingRange DEF Block, QueueInv
<1>3. Range(Append(q, p)) = Range(q) \cup {p} /\ IsInjective(Append(q, p))
  BY <1>1, <1>2, InsertRange DEF QueueInv
<1>4. /\ deviceSemaphore' = [deviceSemaphore EXCEPT ![s] = Append(q, p)]
      /\ UNCHANGED <<reg, pending>>
  BY DEF Block, device
<1> HIDE DEF p, s, q
<1>5. /\ DOMAIN deviceSemaphore' = DOMAIN deviceSemaphore
      /\ \A i \in DOMAIN deviceSemaphore :
            deviceSemaphore'[i] = IF i = s THEN Append(q, p) ELSE deviceSemaphore[i]
  BY <1>1, <1>4 DEF TypeInv
<1>6. \A i \in DOMAIN deviceSemaphore :
         Range(deviceSemaphore'[i]) = Range(deviceSemaphore[i]) \cup IF i = s THEN {p} ELSE {}
  BY <1>3, <1>5 DEF q
<1> QED
  BY <1>1, <1>2, <1>3, <1>4, <1>5, <1>6 DEF QueueInv

LEMMA DeviceQueue ==
    ASSUME TypeInv, QueueInv, NEW d \in Devs,
           ReadOperands(d) \/ \E code \in Codes : Complete(d, code)
    PROVE  QueueInv'
<1>1. CASE ReadOperands(d)
  BY <1>1, QueuesAlone DEF ReadOperands, QueueInv
<1>2. CASE \E code \in Codes : Complete(d, code)
  <2>1. PICK code \in Codes : Complete(d, code)
    BY <1>2
  <2>2. \A e \in Devs \ pending' : e \notin pending /\ e # d /\ reg'[e] = reg[e]
    BY <2>1 DEF Complete, TypeInv
  <2> QED
    BY <2>1, <2>2, QueuesAlone DEF Complete, QueueInv
<1> QED
  BY <1>1, <1>2

\* Queues that lose members.
LEMMA FewerWait ==
    ASSUME QueueInv, DOMAIN deviceSemaphore' = DOMAIN deviceSemaphore,
           \A i \in DOMAIN deviceSemaphore :
              /\ IsInjective(deviceSemaphore'[i])
              /\ Range(deviceSemaphore'[i]) \subseteq Range(deviceSemaphore[i]),
           doIo' = NULL,
           \A d \in Devs \ pending' : reg'[d].status.code \in {READY, BUSY}
    PROVE  QueueInv'
BY DEF QueueInv

LEMMA DevReturnQueue ==
    ASSUME TypeInv, QueueInv, NEW d \in Devs, DevReturn(d), doIo = NULL
    PROVE  QueueInv'
<1> DEFINE q == deviceSemaphore[Sem(d)]
<1>1. q \in Seq(Procs) /\ IsInjective(q) /\ Sem(d) \in DOMAIN deviceSemaphore
  BY OwnSemaphore DEF TypeInv, QueueInv
<1>2. /\ DOMAIN deviceSemaphore' = DOMAIN deviceSemaphore
      /\ \A i \in DOMAIN deviceSemaphore :
              /\ IsInjective(deviceSemaphore'[i])
              /\ Range(deviceSemaphore'[i]) \subseteq Range(deviceSemaphore[i])
  <2>1. CASE q = <<>>
    BY <2>1 DEF DevReturn, QueueInv
  <2>2. CASE q # <<>>
    <3>1. IsInjective(Tail(q)) /\ Range(Tail(q)) \subseteq Range(q)
      BY <1>1, <2>2, TailRange
    <3>2. deviceSemaphore' = [deviceSemaphore EXCEPT ![Sem(d)] = Tail(q)]
      BY <2>2 DEF DevReturn
    <3> QED
      BY <3>1, <3>2 DEF QueueInv, TypeInv
  <2> QED
    BY <2>1, <2>2
<1>3. ASSUME NEW e \in Devs \ pending' PROVE reg'[e].status.code \in {READY, BUSY}
  <2>1. reg' = [reg EXCEPT ![d] = [@ EXCEPT !.command = ACK, !.status = Blank.status]]
        /\ pending' = pending \ {d}
    BY DEF DevReturn, Acknowledge
  <2>2. CASE e # d
    BY <1>3, <2>1, <2>2 DEF QueueInv, TypeInv
  <2>3. CASE e = d
    <3>1. reg[e] \in Registers /\ reg'[e] = [reg[e] EXCEPT !.command = ACK, !.status = Blank.status]
      BY <2>1, <2>3 DEF TypeInv
    <3>2. reg'[e].status = Blank.status
      BY <3>1 DEF Registers
    <3> QED
      BY <3>2 DEF Blank
  <2> QED
    BY <2>2, <2>3
<1>4. doIo' = NULL
  BY DEF DevReturn
<1> QED
  BY <1>2, <1>3, <1>4, FewerWait

LEMMA KillQueue ==
    ASSUME TypeInv, QueueInv, NEW p \in Procs, Kill(p)
    PROVE  QueueInv'
<1>1. \A i \in DOMAIN deviceSemaphore :
         /\ IsInjective(Without(deviceSemaphore[i], {p}))
         /\ Range(Without(deviceSemaphore[i], {p})) \subseteq Range(deviceSemaphore[i])
  BY WithoutProperty DEF TypeInv, QueueInv
<1>2. /\ deviceSemaphore' = [i \in DOMAIN deviceSemaphore |-> Without(deviceSemaphore[i], {p})]
      /\ doIo' = NULL /\ UNCHANGED <<reg, pending>>
  BY DEF Kill, device
<1> QED
  BY <1>1, <1>2, FewerWait DEF QueueInv

LEMMA QueueStep ==
    ASSUME TypeInv, QueueInv, [Next]_vars
    PROVE  TypeInv' /\ QueueInv'
<1>1. CASE UNCHANGED vars
  BY <1>1, QueuesAlone DEF vars, TypeInv, QueueInv
<1>2. CASE Next
  <2>1. UNCHANGED usage
    BY <1>2 DEF Next
  <2>2. CASE DevHandler
    <3>1. PICK d \in pending : DevReturn(d)
      BY <2>2, ServedIsPending DEF QueueInv
    <3>2. d \in Devs /\ doIo = NULL
      BY <2>2 DEF TypeInv, DevHandler
    <3> QED
      BY <2>1, <3>1, <3>2, DevReturnType, DevReturnQueue DEF QueueInv
  <2>3. CASE \E p \in Procs, d \in Devs, r \in Requests : DoIo(p, d, r)
    BY <2>1, <2>3, DoIoType, DoIoQueue
  <2>4. CASE WriteData
    BY <2>1, <2>4, WriteDataType, WriteDataQueue
  <2>5. CASE Block
    BY <2>1, <2>5, BlockType, BlockQueue
  <2>6. CASE \E d \in Devs : ReadOperands(d) \/ \E code \in Codes : Complete(d, code)
    BY <2>1, <2>6, ReadOperandsType, CompleteType, DeviceQueue
  <2>7. CASE \E p \in Procs : Kill(p)
    BY <2>1, <2>7, KillType, KillQueue
  <2> QED
    BY <1>2, <2>2, <2>3, <2>4, <2>5, <2>6, <2>7 DEF Next
<1> QED
  BY <1>1, <1>2

\* Whoever calls DOIO, whatever the devices do and whoever is killed: types
\* hold and no process is in two queues, or twice in one.
THEOREM Queued == Spec => [](TypeInv /\ QueueInv)
<1>1. Init => TypeInv /\ QueueInv
  BY TypeInit, QueueInit
<1>2. TypeInv /\ QueueInv /\ [Next]_vars => (TypeInv /\ QueueInv)'
  BY QueueStep
<1> QED
  BY <1>1, <1>2, PTL DEF Spec

----------------------------------------------------------------------------
(* The queues are those of DeviceSpec.                                     *)

queues == [d \in Devs |-> deviceSemaphore[Sem(d)]]

LEMMA AbstractInit == Init => Abstract!Init
<1> SUFFICES ASSUME Init PROVE Abstract!Init
  OBVIOUS
<1>1. \A d \in Devs : deviceSemaphore[Sem(d)] = <<>>
  BY OwnSemaphore DEF Init
<1> QED
  BY <1>1 DEF Init, Abstract!Init

\* DeviceSpec's Without is the same operator.
LEMMA SameWithout == \A q, D : Abstract!Without(q, D) = Without(q, D)
<1>1. \A q, D : Abstract!Kept(q, D) = Kept(q, D)
  BY DEF Abstract!Kept, Kept
<1>2. \A S : Abstract!Cardinality(S) = Cardinality(S)
  BY DEF Abstract!Cardinality, Cardinality
<1>3. \A I, k : Abstract!Nth(I, k) = Nth(I, k)
  BY <1>2 DEF Abstract!Nth, Nth
<1>4. ASSUME NEW q, NEW D PROVE Abstract!Without(q, D) = Without(q, D)
  BY <1>1, <1>2, <1>3 DEF Abstract!Without, Without
<1> QED
  BY <1>4

LEMMA AbstractKill ==
    ASSUME TypeInv, NEW p \in Procs, Kill(p)
    PROVE  Abstract!Next
<1>1. \A d \in Devs : Sem(d) \in DOMAIN deviceSemaphore
  BY OwnSemaphore DEF TypeInv
<1>2. Abstract!Withdraw(p)
  BY <1>1, SameWithout DEF Kill, device, Abstract!Withdraw
<1> QED
  BY <1>2 DEF Abstract!Next

LEMMA AbstractBlock ==
    ASSUME TypeInv, QueueInv, Block
    PROVE  Abstract!Next
<1> DEFINE p == doIo.caller  d == doIo.device
<1>1. p \in Procs /\ d \in Devs /\ doIo # NULL
  BY DEF Block, TypeInv, Calls
<1>2. \A e \in Devs : p \notin ToSet(queues[e])
  <2>1. \A i \in DOMAIN deviceSemaphore : p \notin ToSet(deviceSemaphore[i])
    BY <1>1 DEF QueueInv, Waiting
  <2> QED
    BY <2>1, OwnSemaphore DEF TypeInv, queues
<1>3. queues' = [queues EXCEPT ![d] = Append(@, p)] /\ UNCHANGED pending
  BY <1>1, OwnSemaphore DEF Block, device, queues, TypeInv
<1>4. Abstract!Wait(p, d)
  BY <1>2, <1>3 DEF Abstract!Wait, queues, ToSet, Abstract!ToSet
<1> QED
  BY <1>1, <1>4 DEF Abstract!Next

LEMMA AbstractReturn ==
    ASSUME TypeInv, NEW d \in pending, DevReturn(d)
    PROVE  Abstract!Next
<1>1. d \in Devs
  BY DEF TypeInv
<1>2. queues' = [queues EXCEPT ![d] = IF @ = <<>> THEN @ ELSE Tail(@)]
  <2>1. CASE deviceSemaphore[Sem(d)] = <<>>
    BY <1>1, <2>1 DEF DevReturn, queues
  <2>2. CASE deviceSemaphore[Sem(d)] # <<>>
    BY <1>1, <2>2, OwnSemaphore DEF DevReturn, queues, TypeInv
  <2> QED
    BY <2>1, <2>2
<1>3. Abstract!Answer(d)
  BY <1>2 DEF Abstract!Answer, DevReturn, Acknowledge, queues
<1> QED
  BY <1>1, <1>3 DEF Abstract!Next

LEMMA AbstractStep ==
    ASSUME TypeInv, QueueInv, [Next]_vars
    PROVE  [Abstract!Next]_(Abstract!vars)
<1>1. CASE UNCHANGED <<deviceSemaphore, pending>>
  BY <1>1 DEF Abstract!vars
<1>2. CASE DevHandler
  BY <1>2, ServedIsPending, AbstractReturn DEF QueueInv
<1>3. CASE Block
  BY <1>3, AbstractBlock
<1>4. CASE \E d \in Devs, code \in Codes : Complete(d, code)
  <2>1. PICK d \in Devs, code \in Codes : Complete(d, code)
    BY <1>4
  <2>2. Abstract!Finish(d)
    BY <2>1 DEF Complete, Abstract!Finish
  <2> QED
    BY <2>2 DEF Abstract!Next
<1>5. CASE \E p \in Procs : Kill(p)
  BY <1>5, AbstractKill
<1>6. CASE \E p \in Procs, d \in Devs, r \in Requests : DoIo(p, d, r)
  <2>1. PICK p \in Procs, d \in Devs, r \in Requests : DoIo(p, d, r)
    BY <1>6
  <2>2. CASE Start(d, r)
    <3>1. Abstract!Start(d)
      BY <2>1, <2>2 DEF DoIo, Start, Abstract!Start
    <3> QED
      BY <3>1 DEF Abstract!Next
  <2>3. CASE UNCHANGED <<reg, device>>
    BY <1>1, <2>1, <2>3 DEF DoIo, device
  <2> QED
    BY <2>1, <2>2, <2>3 DEF DoIo, WriteCommand
<1>7. CASE WriteData \/ \E d \in Devs : ReadOperands(d)
  BY <1>1, <1>7 DEF WriteData, ReadOperands, device
<1> QED
  BY <1>1, <1>2, <1>3, <1>4, <1>5, <1>6, <1>7 DEF Next, vars

\* Each device has a queue of its own, and an interrupt answers the first in
\* the queue of the device that completed, and nobody else: for every number
\* of processes, all 48 devices and any status codes (getDeviceSem,
\* __devHandler, __devReturn).
THEOREM QueuesOfDevices == Spec => ImplementsDeviceSpec
<1>1. TypeInv /\ QueueInv /\ [Next]_vars => [Abstract!Next]_(Abstract!vars)
  BY AbstractStep
<1> QED
  BY <1>1, AbstractInit, Queued, PTL DEF Spec, ImplementsDeviceSpec, Abstract!Spec

----------------------------------------------------------------------------
(* Whose result is whose.                                                  *)

\* p is in DOIO for d: it waits, or its system call is under way.
Claims(p, d) ==
    \/ p \in Range(deviceSemaphore[Sem(d)])
    \/ doIo # NULL /\ doIo.caller = p /\ doIo.device = d

\* The device does what p asked for.
WorksFor(d, p) ==
    /\ op[d] # NULL
    /\ op[d].command = cmdValues[p].command
    /\ reg[d].command = cmdValues[p].command

\* A status that is there to be read is that of the operation that is over,
\* and where processes take turns a device works for the one that claims it.
\* Of those that look at the queue alone this holds because nobody is killed:
\* the device of a dead process would be at work without a claim.
OverInv ==
    \A d \in pending :
        op[d] # NULL /\ \E code \in Codes : reg[d].status = [code |-> code, of |-> op[d]]
OneClaimInv ==
    usage # "any" =>
        \A d \in Devs : \A p, q \in Procs : Claims(p, d) /\ Claims(q, d) => p = q
ClaimedInv ==
    usage = "unclaimed" =>
        \A d \in Devs : op[d] # NULL => \E p \in Procs : Claims(p, d)
WorksInv ==
    usage # "any" =>
        \A p \in Procs, d \in Devs : Claims(p, d) => WorksFor(d, p)
OwnInv == OverInv /\ OneClaimInv /\ ClaimedInv /\ WorksInv

\* Nobody claims two devices, since nobody is in two queues.
LEMMA OneDevice ==
    ASSUME TypeInv, QueueInv, NEW p \in Procs, NEW d \in Devs, NEW e \in Devs,
           Claims(p, d), Claims(p, e)
    PROVE  d = e
<1>1. Sem(d) \in DOMAIN deviceSemaphore /\ Sem(e) \in DOMAIN deviceSemaphore
  BY OwnSemaphore DEF TypeInv
<1>2. CASE p \in Range(deviceSemaphore[Sem(d)]) /\ p \in Range(deviceSemaphore[Sem(e)])
  BY <1>1, <1>2, OwnSemaphore DEF QueueInv
<1>3. CASE ~(p \in Range(deviceSemaphore[Sem(d)]) /\ p \in Range(deviceSemaphore[Sem(e)]))
  BY <1>1, <1>3, WaitingRange DEF Claims, QueueInv
<1> QED
  BY <1>2, <1>3

LEMMA OwnInit == Init => OwnInv
<1> SUFFICES ASSUME Init PROVE OwnInv
  OBVIOUS
<1>1. \A d \in Devs : Range(deviceSemaphore[Sem(d)]) = {}
  BY OwnSemaphore DEF Init, Range
<1>2. \A p, d : d \in Devs => ~Claims(p, d)
  BY <1>1 DEF Claims, Init
<1> QED
  BY <1>2 DEF Init, OwnInv, OverInv, OneClaimInv, ClaimedInv, WorksInv

\* The steps after which the same processes claim the same devices.
LEMMA ClaimsAlone ==
    ASSUME UNCHANGED deviceSemaphore, UNCHANGED doIo
    PROVE  \A p, d : Claims(p, d)' <=> Claims(p, d)
BY DEF Claims, Sem

\* What a system call claims: its caller the device, where nobody else does,
\* and the device is idle.
LEMMA DoIoClaims ==
    ASSUME TypeInv, QueueInv, OwnInv, NEW p \in Procs, NEW d \in Devs, NEW r \in Requests,
           DoIo(p, d, r)
    PROVE  /\ \A e \in Devs : ~Claims(p, e)
           /\ \A x \in Procs, e \in Devs : Claims(x, e)' <=> Claims(x, e) \/ (x = p /\ e = d)
           /\ usage # "any" => op[d] = NULL /\ \A x \in Procs : ~Claims(x, d)
<1>1. doIo = NULL /\ ~Waiting(p) /\ UNCHANGED deviceSemaphore
      /\ doIo' = [caller |-> p, device |-> d, left |-> DataWrites(d)]
  BY DEF DoIo
<1>2. doIo' # NULL /\ doIo'.caller = p /\ doIo'.device = d
  <2>1. doIo' \in Calls
    BY <1>1 DEF Calls, DataWrites
  <2> QED
    BY <1>1, <2>1, DeviceIOAssumption
<1>3. \A e \in Devs : ~Claims(p, e)
  BY <1>1, OwnSemaphore, WaitingRange DEF Claims, TypeInv
<1>4. \A x \in Procs, e \in Devs : Claims(x, e)' <=> Claims(x, e) \/ (x = p /\ e = d)
  BY <1>1, <1>2 DEF Claims, Sem
<1>5. ASSUME usage # "any" PROVE op[d] = NULL /\ \A x \in Procs : ~Claims(x, d)
  <2>1. CASE usage = "unclaimed" /\ deviceSemaphore[Sem(d)] = <<>>
    <3>1. \A x \in Procs : ~Claims(x, d)
      BY <1>1, <2>1 DEF Claims, Range
    <3> QED
      BY <2>1, <3>1 DEF OwnInv, ClaimedInv
  <2>2. CASE usage = "idle" /\ op[d] = NULL
    BY <1>5, <2>2 DEF OwnInv, WorksInv, WorksFor
  <2> QED
    BY <1>5, <2>1, <2>2 DEF DoIo, MayUse
<1> QED
  BY <1>3, <1>4, <1>5

LEMMA DoIoOwn ==
    ASSUME TypeInv, QueueInv, OwnInv, UNCHANGED usage,
           NEW p \in Procs, NEW d \in Devs, NEW r \in Requests, DoIo(p, d, r)
    PROVE  OwnInv'
<1>1. /\ \A e \in Devs : ~Claims(p, e)
      /\ \A x \in Procs, e \in Devs : Claims(x, e)' <=> Claims(x, e) \/ (x = p /\ e = d)
      /\ usage # "any" => op[d] = NULL /\ \A x \in Procs : ~Claims(x, d)
  BY DoIoClaims
<1>2. cmdValues' = [cmdValues EXCEPT ![p] = r] /\ WriteCommand(d, r)
  BY DEF DoIo
<1>3. OverInv'
  <2>1. CASE Start(d, r)
    <3>1. pending' = pending \ {d} /\ pending \subseteq Devs
      BY <2>1 DEF Start, TypeInv
    <3>2. \A e \in pending' : e \in pending /\ op'[e] = op[e] /\ reg'[e] = reg[e]
      BY <2>1, <3>1, StartFields
    <3> QED
      BY <3>2 DEF OwnInv, OverInv
  <2>2. CASE UNCHANGED <<reg, device>>
    BY <2>2 DEF device, OwnInv, OverInv
  <2> QED
    BY <1>2, <2>1, <2>2 DEF WriteCommand
<1>4. OneClaimInv'
  BY <1>1 DEF OwnInv, OneClaimInv
<1>5. \A e \in Devs : e # d => op'[e] = op[e] /\ reg'[e] = reg[e]
  BY <1>2, StartFields DEF WriteCommand, device
<1>6. op[d] = NULL => WorksFor(d, p)'
  <2>1. SUFFICES ASSUME op[d] = NULL PROVE WorksFor(d, p)'
    OBVIOUS
  <2>2. Start(d, r) /\ r # NULL /\ cmdValues'[p] = r
    BY <1>2, <2>1, DeviceIOAssumption DEF WriteCommand, TypeInv
  <2> QED
    BY <2>2, StartFields DEF WorksFor
<1>7. ClaimedInv'
  BY <1>1, <1>5 DEF OwnInv, ClaimedInv
<1>8. WorksInv'
  <2> SUFFICES ASSUME usage # "any", NEW x \in Procs, NEW e \in Devs, Claims(x, e)'
               PROVE  WorksFor(e, x)'
    BY DEF WorksInv
  <2>1. CASE x = p /\ e = d
    BY <1>1, <1>6, <2>1
  <2>2. CASE ~(x = p /\ e = d)
    <3>1. Claims(x, e) /\ x # p /\ e # d
      BY <1>1, <2>2
    <3>2. cmdValues'[x] = cmdValues[x]
      BY <1>2, <3>1 DEF TypeInv
    <3> QED
      BY <1>5, <3>1, <3>2 DEF OwnInv, WorksInv, WorksFor
  <2> QED
    BY <2>1, <2>2
<1> QED
  BY <1>3, <1>4, <1>7, <1>8 DEF OwnInv

\* A step that leaves the claims, the parameters, the commands and the
\* operations alone.
LEMMA SameWork ==
    ASSUME OwnInv, UNCHANGED <<usage, op, pending, cmdValues>>,
           \A x \in Procs, e \in Devs : Claims(x, e)' <=> Claims(x, e),
           \A e \in Devs : reg'[e].status = reg[e].status /\ reg'[e].command = reg[e].command,
           pending \subseteq Devs
    PROVE  OwnInv'
<1>1. OverInv'
  BY DEF OwnInv, OverInv
<1>2. OneClaimInv' /\ ClaimedInv'
  BY DEF OwnInv, OneClaimInv, ClaimedInv
<1>3. WorksInv'
  BY DEF OwnInv, WorksInv, WorksFor
<1> QED
  BY <1>1, <1>2, <1>3 DEF OwnInv

\* The fields of the call under way, and what its next write leaves as it is.
LEMMA WriteDataFields ==
    ASSUME TypeInv, WriteData
    PROVE  /\ doIo.caller \in Procs /\ doIo.device \in Devs
           /\ doIo' \in Calls /\ doIo'.caller = doIo.caller /\ doIo'.device = doIo.device
           /\ doIo'.left = Tail(doIo.left)
           /\ \A e \in Devs : reg'[e].status = reg[e].status /\ reg'[e].command = reg[e].command
<1> DEFINE v == cmdValues[doIo.caller][Head(doIo.left)]
<1>1. doIo \in Calls /\ Head(doIo.left) \in {"data0", "data1"}
      /\ Tail(doIo.left) \in {<<"data1">>, <<>>} /\ doIo' = [doIo EXCEPT !.left = Tail(doIo.left)]
  BY WritesLeft DEF WriteData, TypeInv
<1>2. reg' = [reg EXCEPT ![doIo.device] = [@ EXCEPT ![Head(doIo.left)] = v]] \/ reg' = reg
  BY DEF WriteData
<1> HIDE DEF v
<1>3. doIo.caller \in Procs /\ doIo.device \in Devs
      /\ doIo' \in Calls /\ doIo'.caller = doIo.caller /\ doIo'.device = doIo.device
      /\ doIo'.left = Tail(doIo.left)
  BY <1>1 DEF Calls
<1>4. /\ \/ reg'[doIo.device] = [reg[doIo.device] EXCEPT ![Head(doIo.left)] = v]
         \/ reg'[doIo.device] = reg[doIo.device]
      /\ \A e \in Devs : e # doIo.device => reg'[e] = reg[e]
  BY <1>2, <1>3 DEF TypeInv
<1>5. reg[doIo.device] \in Registers
  BY <1>3 DEF TypeInv
<1>6. /\ reg'[doIo.device].status = reg[doIo.device].status
      /\ reg'[doIo.device].command = reg[doIo.device].command
  BY <1>1, <1>4, <1>5 DEF Registers
<1> QED
  BY <1>3, <1>4, <1>6

LEMMA WriteDataOwn ==
    ASSUME TypeInv, OwnInv, UNCHANGED usage, WriteData
    PROVE  OwnInv'
<1>1. doIo # NULL /\ doIo' # NULL
  BY WriteDataFields, DeviceIOAssumption DEF WriteData
<1>2. \A x \in Procs, e \in Devs : Claims(x, e)' <=> Claims(x, e)
  BY <1>1, WriteDataFields DEF Claims, Sem, WriteData
<1> QED
  BY <1>2, WriteDataFields, SameWork DEF WriteData, device, TypeInv

\* The call under way becomes a wait: the same claim.
LEMMA BlockClaims ==
    ASSUME TypeInv, Block
    PROVE  \A x \in Procs, e \in Devs : Claims(x, e)' <=> Claims(x, e)
<1> DEFINE p == doIo.caller  d == doIo.device  q == deviceSemaphore[Sem(d)]
<1>1. /\ p \in Procs /\ d \in Devs /\ doIo # NULL /\ doIo' = NULL
      /\ deviceSemaphore' = [deviceSemaphore EXCEPT ![Sem(d)] = Append(q, p)]
  BY DEF Block, TypeInv, Calls
<1>2. q \in Seq(Procs)
  BY <1>1, OwnSemaphore DEF TypeInv
<1>3. Range(Append(q, p)) = Range(q) \cup {p}
  BY <1>1, <1>2, InsertRange
<1>4. \A e \in Devs : Range(deviceSemaphore'[Sem(e)]) =
                         Range(deviceSemaphore[Sem(e)]) \cup IF e = d THEN {p} ELSE {}
  BY <1>1, <1>3, OwnSemaphore DEF TypeInv
<1> QED
  BY <1>1, <1>4 DEF Claims, Sem

LEMMA BlockOwn ==
    ASSUME TypeInv, OwnInv, UNCHANGED usage, Block
    PROVE  OwnInv'
BY BlockClaims, SameWork DEF Block, device, TypeInv

\* The device reads its operands: its command is another field.
LEMMA ReadOperandsFields ==
    ASSUME TypeInv, NEW d \in Devs, ReadOperands(d)
    PROVE  /\ \A e \in Devs : e # d => op'[e] = op[e] /\ latched'[e] = latched[e]
           /\ op[d] \in Operations /\ op'[d] \in Operations /\ latched'[d]
           /\ op'[d].command = op[d].command
           /\ op'[d].data0 = reg[d].data0 /\ op'[d].data1 = reg[d].data1
<1>1. op' = [op EXCEPT ![d] = [@ EXCEPT !.data0 = reg[d].data0, !.data1 = reg[d].data1]]
  BY DEF ReadOperands
<1>2. op[d] \in Operations /\ reg[d] \in Registers
  BY DEF ReadOperands, TypeInv
<1>3. op'[d] = [op[d] EXCEPT !.data0 = reg[d].data0, !.data1 = reg[d].data1]
  BY <1>1 DEF TypeInv
<1>4. op'[d] \in Operations /\ op'[d].command = op[d].command
      /\ op'[d].data0 = reg[d].data0 /\ op'[d].data1 = reg[d].data1
  BY <1>2, <1>3 DEF Operations, Registers
<1> QED
  BY <1>1, <1>2, <1>4 DEF ReadOperands, TypeInv

LEMMA ReadOperandsOwn ==
    ASSUME TypeInv, OwnInv, UNCHANGED usage, NEW d \in Devs, ReadOperands(d)
    PROVE  OwnInv'
<1>1. /\ d \notin pending /\ UNCHANGED <<reg, pending, deviceSemaphore, doIo, cmdValues>>
  BY DEF ReadOperands
<1>2. \A x, e : Claims(x, e)' <=> Claims(x, e)
  BY <1>1, ClaimsAlone
<1>3. /\ \A e \in Devs : e # d => op'[e] = op[e]
      /\ op[d] # NULL /\ op'[d] # NULL /\ op'[d].command = op[d].command
  BY ReadOperandsFields, DeviceIOAssumption
<1>4. OverInv'
  BY <1>1, <1>3 DEF OwnInv, OverInv, TypeInv
<1>5. OneClaimInv'
  BY <1>2 DEF OwnInv, OneClaimInv
<1>6. ClaimedInv'
  BY <1>2, <1>3 DEF OwnInv, ClaimedInv
<1>7. WorksInv'
  BY <1>1, <1>2, <1>3 DEF OwnInv, WorksInv, WorksFor
<1> QED
  BY <1>4, <1>5, <1>6, <1>7 DEF OwnInv

\* What the end of an operation writes.
LEMMA CompleteFields ==
    ASSUME TypeInv, NEW d \in Devs, NEW code \in Codes, Complete(d, code)
    PROVE  /\ \A e \in Devs : e # d => reg'[e] = reg[e]
           /\ reg'[d].status = [code |-> code, of |-> op[d]]
           /\ reg'[d].command = reg[d].command
           /\ reg'[d].data0 = reg[d].data0 /\ reg'[d].data1 = reg[d].data1
<1>1. reg' = [reg EXCEPT ![d] = [@ EXCEPT !.status = [code |-> code, of |-> op[d]]]]
  BY DEF Complete
<1>2. reg[d] \in Registers /\ reg'[d] = [reg[d] EXCEPT !.status = [code |-> code, of |-> op[d]]]
  BY <1>1 DEF TypeInv
<1> QED
  BY <1>1, <1>2 DEF Registers, TypeInv

LEMMA CompleteOwn ==
    ASSUME TypeInv, OwnInv, UNCHANGED usage, NEW d \in Devs, NEW code \in Codes, Complete(d, code)
    PROVE  OwnInv'
<1>1. /\ op[d] # NULL /\ pending' = pending \cup {d}
      /\ UNCHANGED <<op, deviceSemaphore, doIo, cmdValues>>
  BY DEF Complete
<1>2. \A x, e : Claims(x, e)' <=> Claims(x, e)
  BY <1>1, ClaimsAlone
<1> DEFINE status == [code |-> code, of |-> op[d]]
<1>0. /\ \A e \in Devs : e # d => reg'[e] = reg[e]
      /\ reg'[d].status = status /\ reg'[d].command = reg[d].command
  BY CompleteFields
<1>3. OverInv'
  <2> HIDE DEF status
  <2>1. ASSUME NEW e \in pending' PROVE op'[e] # NULL
    BY <1>1, <2>1 DEF OwnInv, OverInv
  <2>2. ASSUME NEW e \in pending', e # d
        PROVE  \E c \in Codes : reg'[e].status = [code |-> c, of |-> op'[e]]
    BY <1>0, <1>1, <2>2 DEF OwnInv, OverInv, TypeInv
  <2>3. \E c \in Codes : reg'[d].status = [code |-> c, of |-> op'[d]]
    BY <1>0, <1>1 DEF status
  <2> QED
    BY <2>1, <2>2, <2>3 DEF OverInv
<1>4. OneClaimInv' /\ ClaimedInv'
  BY <1>1, <1>2 DEF OwnInv, OneClaimInv, ClaimedInv
<1>5. WorksInv'
  BY <1>0, <1>1, <1>2 DEF OwnInv, WorksInv, WorksFor
<1> QED
  BY <1>3, <1>4, <1>5 DEF OwnInv

\* An interrupt ends one claim, that of the first in the device's queue.
LEMMA DevReturnClaims ==
    ASSUME TypeInv, QueueInv, NEW d \in Devs, DevReturn(d), doIo = NULL
    PROVE  LET q == deviceSemaphore[Sem(d)] IN
           /\ q = <<>> => /\ cmdValues' = cmdValues /\ answer' = NULL
                          /\ \A x \in Procs, e \in Devs : Claims(x, e)' <=> Claims(x, e)
                          /\ \A x \in Procs : ~Claims(x, d)
           /\ q # <<>> => /\ Head(q) \in Procs /\ Claims(Head(q), d)
                          /\ HandOver(Head(q), d)
                          /\ cmdValues' = [cmdValues EXCEPT ![Head(q)] = Blank]
                          /\ \A x \in Procs, e \in Devs :
                                Claims(x, e)' <=> Claims(x, e) /\ ~(x = Head(q) /\ e = d)
<1> DEFINE q == deviceSemaphore[Sem(d)]
<1>1. q \in Seq(Procs) /\ IsInjective(q) /\ Sem(d) \in DOMAIN deviceSemaphore
  BY OwnSemaphore DEF TypeInv, QueueInv
<1>2. doIo' = NULL
  BY DEF DevReturn
<1>3. CASE q = <<>>
  <2>1. cmdValues' = cmdValues /\ answer' = NULL /\ UNCHANGED deviceSemaphore
    BY <1>3 DEF DevReturn
  <2>2. \A x \in Procs, e \in Devs : Claims(x, e)' <=> Claims(x, e)
    BY <1>2, <2>1 DEF Claims, Sem
  <2>3. \A x \in Procs : ~Claims(x, d)
    BY <1>3 DEF Claims, Range
  <2> QED
    BY <1>3, <2>1, <2>2, <2>3
<1>4. CASE q # <<>>
  <2>1. /\ Head(q) \in Range(q) /\ Head(q) \in Procs
        /\ Range(Tail(q)) = Range(q) \ {Head(q)}
    BY <1>1, <1>4, TailRange
  <2>2. /\ deviceSemaphore' = [deviceSemaphore EXCEPT ![Sem(d)] = Tail(q)]
        /\ HandOver(Head(q), d) /\ cmdValues' = [cmdValues EXCEPT ![Head(q)] = Blank]
    BY <1>4 DEF DevReturn, HandOver
  <2>3. \A e \in Devs : deviceSemaphore'[Sem(e)] =
                           IF e = d THEN Tail(q) ELSE deviceSemaphore[Sem(e)]
    BY <2>2, OwnSemaphore DEF TypeInv
  <2>4. \A x \in Procs, e \in Devs :
           Claims(x, e)' <=> Claims(x, e) /\ ~(x = Head(q) /\ e = d)
    BY <1>2, <2>1, <2>3 DEF Claims, Sem
  <2> QED
    BY <1>4, <2>1, <2>2, <2>4 DEF Claims
<1> QED
  BY <1>3, <1>4

LEMMA DevReturnOwn ==
    ASSUME TypeInv, QueueInv, OwnInv, UNCHANGED usage,
           NEW d \in Devs, DevReturn(d), doIo = NULL
    PROVE  OwnInv'
<1>1. /\ \A e \in Devs : e # d => op'[e] = op[e] /\ reg'[e] = reg[e]
      /\ op'[d] = NULL /\ pending' = pending \ {d}
  BY DEF DevReturn, Acknowledge, TypeInv
<1>2. \A x \in Procs, e \in Devs : Claims(x, e)' => Claims(x, e)
  BY DevReturnClaims
<1>3. \A x \in Procs, e \in Devs : Claims(x, e) /\ e # d => Claims(x, e)'
  BY DevReturnClaims
<1>4. usage # "any" => \A x \in Procs : ~Claims(x, d)'
  BY DevReturnClaims DEF OwnInv, OneClaimInv
<1>5. \A x \in Procs, e \in Devs : Claims(x, e) /\ e # d => cmdValues'[x] = cmdValues[x]
  <2> SUFFICES ASSUME NEW x \in Procs, NEW e \in Devs, Claims(x, e), e # d
               PROVE  cmdValues'[x] = cmdValues[x]
    OBVIOUS
  <2>1. ~Claims(x, d)
    BY OneDevice
  <2> QED
    BY <2>1, DevReturnClaims DEF TypeInv
<1>6. OverInv'
  BY <1>1 DEF OwnInv, OverInv, TypeInv
<1>7. OneClaimInv'
  BY <1>2 DEF OwnInv, OneClaimInv
<1>8. ClaimedInv'
  BY <1>1, <1>3 DEF OwnInv, ClaimedInv
<1>9. WorksInv'
  BY <1>1, <1>2, <1>4, <1>5 DEF OwnInv, WorksInv, WorksFor
<1> QED
  BY <1>6, <1>7, <1>8, <1>9 DEF OwnInv

\* The dead claim nothing any more.
LEMMA KillClaims ==
    ASSUME TypeInv, NEW p \in Procs, Kill(p)
    PROVE  \A x \in Procs, e \in Devs : Claims(x, e)' <=> Claims(x, e) /\ x # p
<1>1. \A e \in Devs : /\ Sem(e) \in DOMAIN deviceSemaphore
                      /\ deviceSemaphore[Sem(e)] \in Seq(Procs)
                      /\ deviceSemaphore'[Sem(e)] = Without(deviceSemaphore[Sem(e)], {p})
  BY OwnSemaphore DEF TypeInv, Kill
<1>2. \A e \in Devs : Range(deviceSemaphore'[Sem(e)]) = Range(deviceSemaphore[Sem(e)]) \ {p}
  BY <1>1, WithoutProperty
<1> QED
  BY <1>2 DEF Claims, Sem, Kill

LEMMA KillOwn ==
    ASSUME TypeInv, OwnInv, UNCHANGED usage, usage # "unclaimed", NEW p \in Procs, Kill(p)
    PROVE  OwnInv'
<1>1. /\ cmdValues' = [cmdValues EXCEPT ![p] = Blank]
      /\ UNCHANGED <<op, reg, pending>>
  BY DEF Kill, device
<1>2. OverInv' /\ ClaimedInv'
  BY <1>1 DEF OwnInv, OverInv, ClaimedInv
<1>3. OneClaimInv'
  BY KillClaims DEF OwnInv, OneClaimInv
<1>4. WorksInv'
  BY <1>1, KillClaims DEF OwnInv, WorksInv, WorksFor, TypeInv
<1> QED
  BY <1>2, <1>3, <1>4 DEF OwnInv

\* Nobody who looks at the queue alone is in the company of the killed.
TakeTurns == Kills => "unclaimed" \notin Usages

LEMMA OwnStep ==
    ASSUME TakeTurns, TypeInv, QueueInv, OwnInv, [Next]_vars
    PROVE  OwnInv'
<1>1. CASE UNCHANGED vars
  <2>1. \A x, e : Claims(x, e)' <=> Claims(x, e)
    BY <1>1, ClaimsAlone DEF vars
  <2> QED
    BY <1>1, <2>1, SameWork DEF vars, TypeInv
<1>2. CASE Next
  <2>1. UNCHANGED usage
    BY <1>2 DEF Next
  <2>2. CASE DevHandler
    <3>1. PICK d \in pending : DevReturn(d)
      BY <2>2, ServedIsPending DEF QueueInv
    <3>2. d \in Devs /\ doIo = NULL
      BY <2>2 DEF TypeInv, DevHandler
    <3> QED
      BY <2>1, <3>1, <3>2, DevReturnOwn
  <2>3. CASE \E p \in Procs, d \in Devs, r \in Requests : DoIo(p, d, r)
    BY <2>1, <2>3, DoIoOwn
  <2>4. CASE WriteData
    BY <2>1, <2>4, WriteDataOwn
  <2>5. CASE Block
    BY <2>1, <2>5, BlockOwn
  <2>6. CASE \E d \in Devs : ReadOperands(d) \/ \E code \in Codes : Complete(d, code)
    BY <2>1, <2>6, ReadOperandsOwn, CompleteOwn
  <2>7. CASE \E p \in Procs : Kill(p)
    <3>1. usage # "unclaimed"
      BY <2>7 DEF TakeTurns, Kill, TypeInv
    <3> QED
      BY <2>1, <2>7, <3>1, KillOwn
  <2> QED
    BY <1>2, <2>2, <2>3, <2>4, <2>5, <2>6, <2>7 DEF Next
<1> QED
  BY <1>1, <1>2

\* Who gets an answer: the first in the queue of a device that is done.
LEMMA WhoIsAnswered ==
    ASSUME TypeInv, QueueInv, Next, answer' # NULL
    PROVE  \E d \in pending, p \in Procs :
              doIo = NULL /\ Claims(p, d) /\ HandOver(p, d)
<1>1. DevHandler
  BY DEF Next
<1>2. PICK d \in pending : DevReturn(d) /\ doIo = NULL
  BY <1>1, ServedIsPending DEF QueueInv
<1>3. d \in Devs
  BY DEF TypeInv
<1> QED
  BY <1>2, <1>3, DevReturnClaims

\* The parameters of a process, and the code of an operation that is over.
LEMMA ParameterType ==
    ASSUME TypeInv, NEW p \in Procs
    PROVE  /\ cmdValues[p] = [status |-> Blank.status, command |-> cmdValues[p].command,
                 data0 |-> cmdValues[p].data0, data1 |-> cmdValues[p].data1]
           /\ cmdValues[p] \in Requests \cup {Blank}
<1>1. cmdValues[p] \in Requests \cup {Blank}
  BY DEF TypeInv
<1>2. CASE cmdValues[p] = Blank
  BY <1>2 DEF Blank
<1>3. CASE cmdValues[p] \in Requests
  BY <1>3, DeviceIOAssumption DEF Operations
<1> QED
  BY <1>1, <1>2, <1>3

\* What a process finds in the registers handed to it.
LEMMA HandedOver ==
    ASSUME TypeInv, NEW p \in Procs, NEW d \in Devs, HandOver(p, d)
    PROVE  LET got == answer'.values
               from == IF HasData(RegAddr(d)) THEN reg[d] ELSE cmdValues[p]
           IN  /\ answer'.to = p /\ answer'.v0 = ReturnValue(reg[d].status.code)
               /\ got.status = reg[d].status /\ got.command = reg[d].command
               /\ got.data0 = from.data0 /\ got.data1 = from.data1
<1> DEFINE new == [cmdValues[p] EXCEPT !.status = reg[d].status, !.command = reg[d].command]
<1>1. \A s, c, a, b, t, k :
         LET r == [[status |-> s, command |-> c, data0 |-> a, data1 |-> b]
                      EXCEPT !.status = t, !.command = k]
         IN  r.status = t /\ r.command = k /\ r.data0 = a /\ r.data1 = b
  OBVIOUS
<1>2. /\ new.status = reg[d].status /\ new.command = reg[d].command
      /\ new.data0 = cmdValues[p].data0 /\ new.data1 = cmdValues[p].data1
  <2>1. PICK s, c, a, b :
           cmdValues[p] = [status |-> s, command |-> c, data0 |-> a, data1 |-> b]
    BY ParameterType
  <2>2. cmdValues[p].data0 = a /\ cmdValues[p].data1 = b
    BY <2>1
  <2> QED
    BY <1>1, <2>1, <2>2
<1> HIDE DEF new
<1>3. answer' = [to |-> p, v0 |-> ReturnValue(reg[d].status.code),
                 values |-> IF HasData(RegAddr(d)) THEN reg[d] ELSE new]
  BY DEF HandOver, new
<1> QED
  BY <1>2, <1>3

LEMMA AnswerIsOwn ==
    ASSUME TypeInv, QueueInv, OwnInv, Next
    PROVE  GotOwnResult
<1> SUFFICES ASSUME Answered PROVE GotOwnResult
  BY DEF GotOwnResult
<1>1. usage # "any" /\ answer' # NULL
  BY DEF Answered
<1>2. PICK d \in pending, p \in Procs : Claims(p, d) /\ HandOver(p, d)
  BY <1>1, WhoIsAnswered
<1> DEFINE asked == cmdValues[p]  got == answer'.values
<1>3. d \in Devs /\ reg[d] \in Registers /\ WorksFor(d, p)
  BY <1>1, <1>2 DEF TypeInv, OwnInv, WorksInv
<1>4. PICK code \in Codes : reg[d].status = [code |-> code, of |-> op[d]]
  BY DEF OwnInv, OverInv
<1>5. code # 0 /\ reg[d].status.code = code /\ reg[d].status.of = op[d]
  BY <1>4, DeviceIOAssumption
<1>6. answer'.to = p /\ answer'.v0 = IF code = 2 THEN -1 ELSE 0
  BY <1>2, <1>3, <1>5, HandedOver DEF ReturnValue
<1>7. got.status = reg[d].status /\ got.command = reg[d].command
  BY <1>2, <1>3, HandedOver
<1> HIDE DEF got
<1>8. /\ got.status.of.command = asked.command /\ got.command = asked.command
      /\ answer'.v0 = IF got.status.code = 2 THEN -1 ELSE 0
  BY <1>3, <1>5, <1>6, <1>7 DEF WorksFor
<1> QED
  BY <1>6, <1>8 DEF GotOwnResult, got

\* Who leaves DOIO has the outcome of its own command, whatever the devices,
\* the requests and the number of processes, and whoever is killed, if the
\* processes take turns.
THEOREM ResultsAreOwn == ASSUME TakeTurns PROVE Spec => OwnResult
<1>1. Init => OwnInv
  BY OwnInit
<1>2. TypeInv /\ QueueInv /\ OwnInv /\ [Next]_vars => OwnInv'
  BY OwnStep
<1>3. TypeInv /\ QueueInv /\ OwnInv /\ [Next]_vars => [GotOwnResult]_vars
  BY AnswerIsOwn
<1> QED
  BY <1>1, <1>2, <1>3, Queued, PTL DEF Spec, OwnResult

=============================================================================
