------------------------------ MODULE Contexts ------------------------------
(***************************************************************************)
(* Processor states on their way through the nucleus: into SAVED_STATE by  *)
(* the hardware, into p_s when a process stops, into its support structure *)
(* when an exception is passed up, and back into the processor by LDST.    *)
(* Which process goes next, who is woken and who is killed is left open    *)
(* here; Nucleus.tla decides it.  Every process has a support structure of *)
(* its own, as p5 of the test has (p2test.c:106), or none.                 *)
(*                                                                         *)
(* A state is a program, a position in it, the register v0 and the status. *)
(* Instructions that raise no exception are left out.                      *)
(***************************************************************************)
EXTENDS Integers, SequencesExt

CONSTANTS MAXPROC,
          LENGTH,      \* positions in a program; the last is followed by the first
          Codes,       \* what processes put in a0 for a system call
          Statuses,    \* what processes put in the status of a handler's context
          NestedTraps  \* does a handler raise an exception of the type it handles

NULL == 0
Procs == 1..MAXPROC

ASSUME ContextsAssumption ==
    /\ MAXPROC \in Nat \ {0}
    /\ LENGTH \in Nat \ {0}
    /\ Codes \subseteq Int
    /\ Statuses \subseteq SUBSET {"USERPON", "TEBITON"}
    /\ NestedTraps \in BOOLEAN

VARIABLES
    cpu,             \* what the processor executes, NoState in the nucleus and in WAIT
    cause, a0,       \* the exception the nucleus handles, "none" outside of it
    saved,           \* SAVED_STATE
    currentProc,
    place,           \* of each process: "free", "ready", "running", or what it waits for
    p_s,
    p_sup,           \* p_supportStruct # NULL
    sup_exceptState,
    frames           \* what each process expects: its state, under it those
                     \* its handlers are to return to, with the cause

vars == <<cpu, cause, a0, saved, currentProc, place, p_s, p_sup, sup_exceptState, frames>>

PGFAULTEXCEPT == "PGFAULT"
GENERALEXCEPT == "GENERAL"
ExcTypes == {PGFAULTEXCEPT, GENERALEXCEPT}

NoState == [program |-> "none", pc |-> 0, v0 |-> 0, status |-> {}]
Fresh(status) == [program |-> "main", pc |-> 0, v0 |-> 0, status |-> status]

\* sup_exceptContext, with the status its process put there: LDCXT loads it as
\* it is, and no v0.
Context(t, status) == [program |-> t, pc |-> 0, v0 |-> 0, status |-> status]

Frame(s, why) == [state |-> s, why |-> why]

Empty == [t \in ExcTypes |-> Frame(NoState, "none")]

Init ==
    /\ cpu = Fresh({"TEBITON"}) /\ saved = NoState
    /\ cause = "none" /\ a0 = 0
    /\ currentProc = 1
    /\ place = [p \in Procs |-> IF p = 1 THEN "running" ELSE "free"]
    /\ p_s = [p \in Procs |-> NoState]
    /\ p_sup = [p \in Procs |-> FALSE]
    /\ sup_exceptState = [p \in Procs |-> Empty]
    /\ frames = [p \in Procs |-> IF p = 1 THEN <<Frame(cpu, "none")>> ELSE <<>>]

----------------------------------------------------------------------------
(* What the processes expect.                                              *)

At(p) == Last(frames[p]).state
Expect(p, s) == [frames EXCEPT ![p] = Append(Front(@), Frame(s, "none"))]

\* Where a program is after a system call; v0 is set when there is a result.
After(s) == [s EXCEPT !.pc = IF @ = LENGTH - 1 THEN 0 ELSE @ + 1]

\* A handler starts in context c, and is to return to where the process was.
ExpectHandler(p, c, why) ==
    [frames EXCEPT ![p] = Front(@) \o <<Frame(At(p), why), Frame(c, "none")>>]

Handling(p, t) == \E i \in DOMAIN frames[p] : frames[p][i].state.program = t

----------------------------------------------------------------------------
(* Exceptions.                                                             *)

UserMode(s) == "USERPON" \in s.status
IsKernelCall(code) == code \in 1..10

\* What __passUpOrDieHandler is called for.
PassedUp(c, code, s) ==
    c # "INT" /\ (c = "SYS" /\ IsKernelCall(code) => UserMode(s))

ExcType(c) == IF c = "TLB" THEN PGFAULTEXCEPT ELSE GENERALEXCEPT

\* The hardware stores the state of the processor and starts exceptionHandler.
Exception(c, code) ==
    /\ cause = "none"
    /\ IF currentProc = NULL
       THEN c = "INT" /\ \E p \in Procs : place[p] \in {"semaphore", "device"}
       ELSE PassedUp(c, code, cpu) /\ Handling(currentProc, ExcType(c)) => NestedTraps
    /\ cause' = c /\ a0' = code
    /\ saved' = cpu /\ cpu' = NoState
    /\ frames' = IF c = "SYS" THEN Expect(currentProc, After(At(currentProc))) ELSE frames
    /\ UNCHANGED <<currentProc, place, p_s, p_sup, sup_exceptState>>

\* Out of the nucleus with state s.
LDST(s) ==
    /\ cpu' = s
    /\ cause' = "none" /\ a0' = 0 /\ saved' = NoState

\* The scheduler, with the processes as in where and in states.  It loads p_s
\* with the timer on; while its process runs p_s is not read: it is emptied here.
Scheduler(where, states) ==
    \/ \E p \in {q \in Procs : where[q] = "ready"} :
          /\ currentProc' = p
          /\ place' = [where EXCEPT ![p] = "running"]
          /\ p_s' = [states EXCEPT ![p] = NoState]
          /\ LDST([states[p] EXCEPT !.status = @ \cup {"TEBITON"}])
    \/ /\ \A q \in Procs : where[q] # "ready"
       /\ currentProc' = NULL
       /\ place' = where /\ p_s' = states
       /\ LDST(NoState)

\* Back to currentProc with state s.
Resume(s) == LDST(s) /\ UNCHANGED currentProc

Alive == {p \in Procs : place[p] # "free"}

\* The processes a kill may take: everybody descends from the first process.
Victims == {D \in SUBSET Alive : 1 \in D => D = Alive}

\* Kills the processes in D, and resumes the caller with s if it lives.  What
\* the dead leave behind is never read: it is emptied here.
Kill(D, s) ==
    LET where  == [p \in Procs |-> IF p \in D THEN "free" ELSE place[p]]
        states == [p \in Procs |-> IF p \in D THEN NoState ELSE p_s[p]]
    IN  /\ frames' = [p \in Procs |-> IF p \in D THEN <<>> ELSE frames[p]]
        /\ p_sup' = [p \in Procs |-> p_sup[p] /\ p \notin D]
        /\ sup_exceptState' = [p \in Procs |-> IF p \in D THEN Empty ELSE sup_exceptState[p]]
        /\ IF currentProc \in D THEN Scheduler(where, states)
           ELSE Resume(s) /\ place' = where /\ p_s' = states

\* __passUpOrDieHandler for an exception of type t, with SAVED_STATE s and c.
PassUpOrDie(t, s, c, why) ==
    \/ /\ ~p_sup[currentProc]
       /\ \E D \in Victims : currentProc \in D /\ Kill(D, s)
    \/ /\ p_sup[currentProc]
       /\ sup_exceptState' = [sup_exceptState EXCEPT ![currentProc][t] = Frame(s, c)]
       /\ \E status \in Statuses :
             /\ frames' = ExpectHandler(currentProc, Context(t, status), why)
             /\ Resume(Context(t, status))
       /\ UNCHANGED <<place, p_s, p_sup>>

----------------------------------------------------------------------------
(* System calls, with SAVED_STATE s.                                       *)

\* Deliberately wrong: the process would make the same call again.
SkipNothing(s) == s

SkipSyscall(s) == [s EXCEPT !.pc = (@ + 1) % LENGTH]

\* SYSCALL_RETURN.
Return(s, v) ==
    /\ Resume([s EXCEPT !.v0 = v])
    /\ frames' = Expect(currentProc, [At(currentProc) EXCEPT !.v0 = v])
    /\ UNCHANGED <<place, p_s, p_sup, sup_exceptState>>

CreateProcess(s) ==
    \/ Alive = Procs /\ Return(s, -1)
    \/ \E p \in Procs \ Alive, status \in SUBSET {"USERPON"}, sup \in BOOLEAN :
          /\ place' = [place EXCEPT ![p] = "ready"]
          /\ p_s' = [p_s EXCEPT ![p] = Fresh(status)]
          /\ p_sup' = [p_sup EXCEPT ![p] = sup]
          /\ Resume([s EXCEPT !.v0 = p])
          /\ frames' = [Expect(currentProc, [At(currentProc) EXCEPT !.v0 = p])
                            EXCEPT ![p] = <<Frame(Fresh(status), "none")>>]
          /\ UNCHANGED sup_exceptState

Block(s, what) ==
    /\ Scheduler([place EXCEPT ![currentProc] = what], [p_s EXCEPT ![currentProc] = s])
    /\ UNCHANGED <<p_sup, sup_exceptState, frames>>

\* P or V: blocks, or passes, with or without waking somebody.
SemOp(s) ==
    \/ Block(s, "semaphore")
    \/ /\ Resume(s)
       /\ \/ UNCHANGED place
          \/ \E p \in Procs : /\ place[p] = "semaphore"
                              /\ place' = [place EXCEPT ![p] = "ready"]
       /\ UNCHANGED <<p_s, p_sup, sup_exceptState, frames>>

\* GETTIME, GETSUPPORTPTR, GETPROCESSID and GETCHILDREN: some result.
Results(code) == IF code = 8 THEN {IF p_sup[currentProc] THEN 1 ELSE 0} ELSE {0, 1}

Service(code, s) ==
    \/ code = 1 /\ CreateProcess(s)
    \/ code = 2 /\ \E D \in Victims : Kill(D, s)
    \/ code \in {3, 4} /\ SemOp(s)
    \/ code = 5 /\ Block(s, "device")
    \/ code = 7 /\ Block(s, "semaphore")
    \/ code \in {6, 8, 9, 10} /\ \E v \in Results(code) : Return(s, v)

\* Deliberately wrong: the handler is told of a system call.
RefusedCauseKept == "SYS"

\* What a kernel call from user mode becomes.
RefusedCause == "RI"

SyscallHandler ==
    /\ cause = "SYS"
    /\ \E s \in {SkipSyscall(saved)} :
          \/ ~IsKernelCall(a0) /\ PassUpOrDie(GENERALEXCEPT, s, "SYS", "SYS")
          \/ /\ IsKernelCall(a0) /\ UserMode(s)
             /\ PassUpOrDie(GENERALEXCEPT, s, RefusedCause, "RI")
          \/ IsKernelCall(a0) /\ ~UserMode(s) /\ Service(a0, s)

TrapHandler ==
    /\ cause \in {"TLB", "other"}
    /\ PassUpOrDie(ExcType(cause), saved, cause, cause)

----------------------------------------------------------------------------
(* Interrupts.                                                             *)

ExitIntHandler(where, states) ==
    IF currentProc = NULL THEN Scheduler(where, states)
    ELSE Resume(saved) /\ place' = where /\ p_s' = states

Preempted == [p_s EXCEPT ![currentProc] = saved]

PltHandler ==
    /\ currentProc # NULL
    /\ Scheduler([place EXCEPT ![currentProc] = "ready"], Preempted)
    /\ UNCHANGED frames

\* W are those that wait for the clock.
ItHandler ==
    /\ \E W \in SUBSET {p \in Procs : place[p] = "semaphore"} :
          ExitIntHandler([p \in Procs |-> IF p \in W THEN "ready" ELSE place[p]], p_s)
    /\ UNCHANGED frames

\* __devReturn: the result goes into v0 of the process that waits.
DevReturn ==
    \E p \in Procs, v \in {0, -1} :
        /\ place[p] = "device"
        /\ frames' = Expect(p, [At(p) EXCEPT !.v0 = v])
        /\ ExitIntHandler([place EXCEPT ![p] = "ready"], [p_s EXCEPT ![p].v0 = v])

\* No cause, or a device nobody waits for.
Spurious == ExitIntHandler(place, p_s) /\ UNCHANGED frames

InterruptHandler ==
    /\ cause = "INT"
    /\ PltHandler \/ ItHandler \/ DevReturn \/ Spurious
    /\ UNCHANGED <<p_sup, sup_exceptState>>

----------------------------------------------------------------------------
\* What the handlers of p2test.c make of the state they were passed before they
\* load it: a trap is left at another place or in another mode (p5gen, p5mm).
Redirect(s, pc, user) ==
    [s EXCEPT !.pc = pc,
              !.status = IF user THEN @ \cup {"USERPON"} ELSE @ \ {"USERPON"}]

\* Loads s, in kernel mode, where the process expects to be in e.  What the
\* handler was passed is not read again: it is emptied here.
LoadState(s, e) ==
    /\ cpu' = s
    /\ sup_exceptState' =
          [sup_exceptState EXCEPT ![currentProc][cpu.program] = Frame(NoState, "none")]
    /\ frames' = [frames EXCEPT ![currentProc] = Append(Front(Front(@)), Frame(e, "none"))]

\* The pc a handler finds is already behind the SYSCALL.  A handler may leave it
\* there, or move it an instruction further: p5sys does, so that its process
\* loses one.
HandlerReturns ==
    /\ cause = "none" /\ cpu.program \in ExcTypes /\ ~UserMode(cpu)
    /\ LET kept  == sup_exceptState[currentProc][cpu.program]
           below == Last(Front(frames[currentProc])).state
       IN  \/ kept.why = "SYS" /\ LoadState(kept.state, below)
           \/ kept.why = "SYS" /\ LoadState(SkipSyscall(kept.state), After(below))
           \/ /\ kept.why # "SYS"
              /\ \E pc \in 0..LENGTH - 1, user \in BOOLEAN :
                    LoadState(Redirect(kept.state, pc, user), Redirect(below, pc, user))
    /\ UNCHANGED <<cause, a0, saved, currentProc, place, p_s, p_sup>>

Next ==
    \/ \E code \in Codes : Exception("SYS", code)
    \/ \E c \in {"INT", "TLB", "other"} : Exception(c, 0)
    \/ SyscallHandler \/ TrapHandler \/ InterruptHandler
    \/ HandlerReturns

Spec == Init /\ [][Next]_vars

----------------------------------------------------------------------------
Untimed(s) == [s EXCEPT !.status = @ \ {"TEBITON"}]

\* Whenever a process runs again it is where it left, behind the system call it
\* made, or, after a handler, where the handler sent it; with the result of its
\* last call in v0 and nobody else's, whatever stopped it and whatever the
\* others did meanwhile.  While it runs its own program the time slice is
\* counted (SAVED_STATE, p_s, LDST in P, V, __pltHandler, __devReturn,
\* scheduler and __syscallHandler).
ResumesWhereItLeft ==
    cause = "none" =>
        \A p \in Alive :
            /\ Untimed(IF p = currentProc THEN cpu ELSE p_s[p]) = Untimed(At(p))
            /\ p = currentProc /\ cpu.program = "main" => "TEBITON" \in cpu.status

\* A pass-up handler finds the state its process was stopped in, of a system
\* call the one behind the SYSCALL (exceptions.c:222), and the reason it was
\* called, as long as it needs them: through its own system calls, waits and
\* preemptions, and exceptions of the other type (sup_exceptState).
TrapsRemembered ==
    \A p \in Alive : \A i \in 1..Len(frames[p]) - 1 :
        LET kept == sup_exceptState[p][frames[p][i + 1].state.program]
        IN  /\ Untimed(kept.state) = Untimed(frames[p][i].state)
            /\ kept.why = frames[p][i].why
============================================================================
