----------------------------- MODULE MCPcbLists -----------------------------
(***************************************************************************)
(* pcb.c over list.h, for TLC: three PCBs and two queues.                  *)
(***************************************************************************)
EXTENDS PcbLists, TLC

CONSTANTS readyQueue, blockedQueue

TwoQueues == {readyQueue, blockedQueue}
Alike == Permutations(TwoQueues)
============================================================================
