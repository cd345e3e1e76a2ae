----------------------------- MODULE MCDeviceIO -----------------------------
(***************************************************************************)
(* Devices, processes and requests for TLC.                                *)
(***************************************************************************)
EXTENDS DeviceIO, TLC

CONSTANTS p1, p2

TwoProcs == {p1, p2}
ProcsAlike == Permutations(TwoProcs)

Disk0 == {<<3, 0, 0>>}
DiskAndTerminal == {<<3, 0, 0>>, <<7, 7, 0>>, <<7, 7, 1>>}

Asks(command, data) ==
    [Blank EXCEPT !.command = command, !.data0 = data, !.data1 = data]

TwoRequests == {Asks("read", "a"), Asks("write", "b")}
TwoCommands == {Asks("read", NULL), Asks("write", NULL)}

AnyOrIdle == {"any", "idle"}
WhileUnclaimed == {"unclaimed"}

OkOrIllegal == {1, 5, 2}
============================================================================
