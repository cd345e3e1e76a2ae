------------------------------ MODULE PcbSpec ------------------------------
(***************************************************************************)
(* What pcb.h promises, in terms of the operators of Pcb that the nucleus  *)
(* is built from: queues and child lists are sequences.  call names the    *)
(* last call with its arguments and ret what it returned.                  *)
(***************************************************************************)
EXTENDS Pcb

CONSTANT Queues     \* the process queues: the ready queue, those of semaphores

VARIABLES pcbFree, queue, p_child, p_parent, p_pid, call, ret

vars == <<pcbFree, queue, p_child, p_parent, p_pid, call, ret>>
tree == <<p_child, p_parent>>

Init ==
    /\ pcbFree = [i \in Procs |-> i]
    /\ queue = [h \in Queues |-> <<>>]
    /\ p_child = [p \in Procs |-> <<>>]
    /\ p_parent = [p \in Procs |-> NULL]
    /\ p_pid = [p \in Procs |-> 0]
    /\ call = <<"initPcbs">> /\ ret = NULL

Called(name, args, r) == call' = <<name, args>> /\ ret' = r

Alloc ==
    /\ Called("allocPcb", <<>>, HeadProcQ(pcbFree))
    /\ IF pcbFree = <<>> THEN UNCHANGED <<pcbFree, p_pid, tree>>
       ELSE /\ pcbFree' = Tail(pcbFree)
            /\ p_pid' = [p_pid EXCEPT ![ret'] = ret']
            /\ UNCHANGED tree
    /\ UNCHANGED queue

Free(p) ==
    /\ Called("freePcb", <<p>>, NULL)
    /\ pcbFree' = InsertProcQ(pcbFree, p)
    /\ p_pid' = [p_pid EXCEPT ![p] = 0]
    /\ UNCHANGED <<queue, tree>>

Insert(h, p) ==
    /\ Called("insertProcQ", <<h, p>>, NULL)
    /\ queue' = [queue EXCEPT ![h] = InsertProcQ(@, p)]
    /\ UNCHANGED <<pcbFree, p_pid, tree>>

Remove(h) ==
    /\ Called("removeProcQ", <<h>>, HeadProcQ(queue[h]))
    /\ queue' = [queue EXCEPT ![h] = IF @ = <<>> THEN @ ELSE Tail(@)]
    /\ UNCHANGED <<pcbFree, p_pid, tree>>

Out(h, p) ==
    /\ Called("outProcQ", <<h, p>>, IF p \in Range(queue[h]) THEN p ELSE NULL)
    /\ queue' = [queue EXCEPT ![h] = OutProcQ(@, p)]
    /\ UNCHANGED <<pcbFree, p_pid, tree>>

InsertChild(prnt, p) ==
    /\ Called("insertChild", <<prnt, p>>, NULL)
    /\ p_child' = [p_child EXCEPT ![prnt] = InsertProcQ(@, p)]
    /\ p_parent' = [p_parent EXCEPT ![p] = prnt]
    /\ UNCHANGED <<pcbFree, p_pid, queue>>

\* c leaves the children of prnt.
Orphan(prnt, c) ==
    /\ p_child' = [p_child EXCEPT ![prnt] = OutProcQ(@, c)]
    /\ p_parent' = [p_parent EXCEPT ![c] = NULL]
    /\ UNCHANGED <<pcbFree, p_pid, queue>>

RemoveChild(p) ==
    /\ Called("removeChild", <<p>>, HeadProcQ(p_child[p]))
    /\ IF p_child[p] = <<>> THEN UNCHANGED <<pcbFree, p_pid, queue, tree>>
       ELSE Orphan(p, Head(p_child[p]))

OutChild(p) ==
    /\ Called("outChild", <<p>>, IF p_parent[p] = NULL THEN NULL ELSE p)
    /\ IF p_parent[p] = NULL THEN UNCHANGED <<pcbFree, p_pid, queue, tree>>
       ELSE Orphan(p_parent[p], p)

Next ==
    \/ Alloc
    \/ \E h \in Queues, p \in Procs : Insert(h, p) \/ Out(h, p)
    \/ \E h \in Queues : Remove(h)
    \/ \E prnt, p \in Procs : InsertChild(prnt, p)
    \/ \E p \in Procs : Free(p) \/ RemoveChild(p) \/ OutChild(p)

Spec == Init /\ [][Next]_vars
============================================================================
