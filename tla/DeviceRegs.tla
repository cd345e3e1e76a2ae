----------------------------- MODULE DeviceRegs -----------------------------
(***************************************************************************)
(* The device registers' addresses and getDeviceSem, which finds the index *)
(* of a device's semaphore from an address.  Lines 3 to 7 have 8 devices   *)
(* each; a register is 16 bytes: status, command, data0, data1.  A         *)
(* terminal (line 7) is two devices of half the size, receiver and         *)
(* transmitter, each with a status and a command.                          *)
(***************************************************************************)
EXTENDS Integers

DEV_REG_START == 268435540          \* 0x10000054
DEV_REG_SIZE == 16
N_DEV_PER_IL == 8
N_EXT_IL == 5
IL_DISK == 3
IL_TERMINAL == 7
DEV_REG_END == DEV_REG_START + N_EXT_IL * N_DEV_PER_IL * DEV_REG_SIZE
IO_DEVICES_NUM == N_EXT_IL * N_DEV_PER_IL + N_DEV_PER_IL

DevRegAddr(line, num) ==
    DEV_REG_START + ((line - IL_DISK) * N_DEV_PER_IL + num) * DEV_REG_SIZE

\* A device: its line, its number there, and for terminals 1 for the
\* transmitter.
DeviceIds == {d \in (IL_DISK..IL_TERMINAL) \X (0..N_DEV_PER_IL - 1) \X {0, 1} :
                 d[3] = 1 => d[1] = IL_TERMINAL}

\* Where the registers of a device begin: what DOIO is called with, and what
\* __devHandler calls __devReturn with.
RegAddr(d) == DevRegAddr(d[1], d[2]) + d[3] * (DEV_REG_SIZE \div 2)

\* DOIO's test for the devices whose data registers it writes.
HasData(cmdAddr) == cmdAddr < DevRegAddr(IL_TERMINAL, 0)

\* Deliberately wrong: both halves of a terminal have one semaphore.
GetDeviceSemWhole(cmdAddr, none) ==
    IF cmdAddr < DEV_REG_START \/ cmdAddr >= DEV_REG_END THEN none
    ELSE (cmdAddr - DEV_REG_START) \div DEV_REG_SIZE

\* The index in deviceSemaphore, or none.
GetDeviceSem(cmdAddr, none) ==
    IF cmdAddr < DEV_REG_START \/ cmdAddr >= DEV_REG_END THEN none
    ELSE LET index == (cmdAddr - DEV_REG_START) \div DEV_REG_SIZE
             upper == (cmdAddr - DEV_REG_START) % DEV_REG_SIZE >= DEV_REG_SIZE \div 2
         IN  IF cmdAddr >= DevRegAddr(IL_TERMINAL, 0) /\ upper
             THEN index + N_DEV_PER_IL ELSE index
============================================================================
