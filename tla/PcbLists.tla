------------------------------ MODULE PcbLists ------------------------------
(***************************************************************************)
(* pcb.c over list.h: the PCBs in memory with their three list_heads, and  *)
(* a program that makes the calls of pcb.h the way the nucleus does.  A    *)
(* PCB is inserted in one queue at a time, gets a parent while it has none *)
(* and no children, and is freed with no parent, no children and in no     *)
(* queue; the calls that look for something are made with any PCB.         *)
(***************************************************************************)
EXTENDS Links, SequencesExt

CONSTANTS MAXPROC, NULL,
          Queues,       \* the process queues
          pcbFree_h

Procs == 1..MAXPROC
Fields == {"p_list", "p_child", "p_sib"} \X Procs
Nodes == {pcbFree_h} \cup Queues \cup Fields

ASSUME PcbListsAssumption ==
    /\ MAXPROC \in Nat \ {0} /\ IsFiniteSet(Queues)
    /\ pcbFree_h \notin Queues /\ ({pcbFree_h} \cup Queues) \cap Fields = {}
    /\ NULL \notin Procs \cup Nodes

VARIABLES links, p_parent, p_pid, call, ret

vars == <<links, p_parent, p_pid, call, ret>>

InQueue(p) == <<"p_list", p>>
Children(p) == <<"p_child", p>>
Sibling(p) == <<"p_sib", p>>

\* The PCBs of a list, as container_of finds them from their list_heads.
Pcbs(q) == [i \in DOMAIN q |-> q[i][2]]
Members(h) == Pcbs(EntriesOf(links.next, h))
In(h) == ToSet(Members(h))

\* initPcbs.
LinkAll(n) ==
    LET zero  == [x \in Nodes |-> NULL]
        heads == [next |-> zero, prev |-> zero]
        mem[i \in 0..n] == IF i = 0 THEN InitListHead(heads, pcbFree_h)
                           ELSE ListAddTail(mem[i - 1], InQueue(i), pcbFree_h)
    IN  mem[n]

\* mkEmptyProcQ, of each queue.
MkEmptyProcQs(l) ==
    [next |-> [x \in Nodes |-> IF x \in Queues THEN x ELSE l.next[x]],
     prev |-> [x \in Nodes |-> IF x \in Queues THEN x ELSE l.prev[x]]]

Init ==
    /\ links = MkEmptyProcQs(LinkAll(MAXPROC))
    /\ p_parent = [p \in Procs |-> NULL]
    /\ p_pid = [p \in Procs |-> 0]
    /\ call = <<"initPcbs">> /\ ret = NULL

Does(name, args, r) == call' = <<name, args>> /\ ret' = r

\* list_first_entry, or NULL.
HeadProcQ(h) == IF ListEmpty(links, h) THEN NULL ELSE links.next[h][2]

\* Deliberately wrong: the children of the former life stay listed.
ResetLinksPartly(p) == InitListHead(ListDel(links, InQueue(p), NULL), Sibling(p))

ResetLinks(p) ==
    InitListHead(InitListHead(ListDel(links, InQueue(p), NULL), Children(p)),
                 Sibling(p))

AllocPcb ==
    /\ Does("allocPcb", <<>>, HeadProcQ(pcbFree_h))
    /\ IF ret' = NULL THEN UNCHANGED <<links, p_parent, p_pid>>
       ELSE /\ links' = ResetLinks(ret')
            /\ p_parent' = [p_parent EXCEPT ![ret'] = NULL]
            /\ p_pid' = [p_pid EXCEPT ![ret'] = ret']

FreePcb(p) ==
    /\ Does("freePcb", <<p>>, NULL)
    /\ links' = ListAddTail(links, InQueue(p), pcbFree_h)
    /\ p_pid' = [p_pid EXCEPT ![p] = 0]
    /\ UNCHANGED p_parent

InsertProcQ(h, p) ==
    /\ Does("insertProcQ", <<h, p>>, NULL)
    /\ links' = ListAddTail(links, InQueue(p), h)
    /\ UNCHANGED <<p_parent, p_pid>>

RemoveProcQ(h) ==
    /\ Does("removeProcQ", <<h>>, HeadProcQ(h))
    /\ links' = IF ret' = NULL THEN links ELSE ListDel(links, InQueue(ret'), NULL)
    /\ UNCHANGED <<p_parent, p_pid>>

OutProcQ(h, p) ==
    /\ Does("outProcQ", <<h, p>>, IF p \in In(h) THEN p ELSE NULL)
    /\ links' = IF ret' = NULL THEN links ELSE ListDel(links, InQueue(p), NULL)
    /\ UNCHANGED <<p_parent, p_pid>>

InsertChild(prnt, p) ==
    /\ Does("insertChild", <<prnt, p>>, NULL)
    /\ links' = ListAddTail(links, Sibling(p), Children(prnt))
    /\ p_parent' = [p_parent EXCEPT ![p] = prnt]
    /\ UNCHANGED p_pid

\* Deliberately wrong: the child does not forget its parent.
OrphanRemembers(c) == links' = ListDel(links, Sibling(c), NULL) /\ UNCHANGED p_parent

Orphan(c) ==
    /\ links' = ListDel(links, Sibling(c), NULL)
    /\ p_parent' = [p_parent EXCEPT ![c] = NULL]

RemoveChild(p) ==
    /\ Does("removeChild", <<p>>, HeadProcQ(Children(p)))
    /\ IF ret' = NULL THEN UNCHANGED <<links, p_parent>> ELSE Orphan(ret')
    /\ UNCHANGED p_pid

\* A PCB with a parent that does not list it would be returned as NULL.
OutChild(p) ==
    LET listed == p_parent[p] # NULL /\ p \in In(Children(p_parent[p]))
    IN  /\ Does("outChild", <<p>>, IF listed THEN p ELSE NULL)
        /\ IF listed THEN Orphan(p) ELSE UNCHANGED <<links, p_parent>>
        /\ UNCHANGED p_pid

Active == {p \in Procs : p_pid[p] # 0}
Queued(p) == \E h \in Queues : p \in In(h)
Childless(p) == ListEmpty(links, Children(p))

Next ==
    \/ AllocPcb
    \/ \E h \in Queues : RemoveProcQ(h)
    \/ \E h \in Queues, p \in Active :
          \/ OutProcQ(h, p)
          \/ ~Queued(p) /\ InsertProcQ(h, p)
    \/ \E p \in Active : RemoveChild(p) \/ OutChild(p)
    \/ \E p \in Active :
          /\ p_parent[p] = NULL /\ Childless(p)
          /\ \/ ~Queued(p) /\ FreePcb(p)
             \/ \E prnt \in Active \ {p} : InsertChild(prnt, p)

Spec == Init /\ [][Next]_vars

----------------------------------------------------------------------------
\* Every list in use can be walked both ways, one way is the other reversed,
\* and no two lists share a node: the three list_heads of a PCB are never
\* mixed up and none keeps a pointer of a former life (allocPcb resets the
\* heads, list_del poisons what leaves).
ListsApart ==
    LET heads == {pcbFree_h} \cup Queues \cup {Children(p) : p \in Active}
    IN  /\ \A h \in heads :
              /\ Circular(links.next, h) /\ Circular(links.prev, h)
              /\ EntriesOf(links.prev, h) = Reverse(EntriesOf(links.next, h))
        /\ \A g, h \in heads : g # h =>
              ToSet(EntriesOf(links.next, g)) \cap ToSet(EntriesOf(links.next, h)) = {}

\* A PCB that is not allocated has no children.
ChildSeqs == [p \in Procs |-> IF p_pid[p] = 0 THEN <<>> ELSE Members(Children(p))]

Abstract == INSTANCE PcbSpec
    WITH pcbFree <- Members(pcbFree_h), queue <- [h \in Queues |-> Members(h)],
         p_child <- ChildSeqs

\* pcb.c over list.h does to its queues and child lists what the operators of
\* Pcb say of sequences, and returns what they say: the nucleus may be
\* modelled with sequences.
ImplementsPcbSpec == Abstract!Spec
============================================================================
