------------------------------ MODULE CpuTime ------------------------------
(***************************************************************************)
(* CPU accounting: getTimespan and updateCurrentProcTime at the places     *)
(* where the nucleus calls them.  Time passes everywhere, also between the *)
(* two readings of the clock in getTimespan.  Scheduling is left open:     *)
(* any process may be dispatched next, or none.                            *)
(*                                                                         *)
(* The clock and p_time have W values; now counts the ticks themselves,    *)
(* up to MaxTime, to compare.                                              *)
(***************************************************************************)
EXTENDS Integers, SequencesExt

CONSTANTS Procs, NULL, W, MaxTime

ASSUME CpuTimeAssumption ==
    W \in Nat \ {0} /\ MaxTime \in Nat /\ NULL \notin Procs

VARIABLES
    now,           \* ticks since the start
    spanStart,     \* getTimespan's static variable
    p_time, currentProc,
    timespan,      \* getTimespan's local variable
    todo,          \* what the nucleus does next; empty while a process runs
    waiting,       \* the processor is in WAIT
    due, lost      \* per process: ticks that are its own, ticks nobody is charged

vars == <<now, spanStart, p_time, currentProc, timespan, todo, waiting, due, lost>>

STCK(t) == t % W

\* main's first dispatch is under way.
Init ==
    /\ now = 0 /\ spanStart = 0 /\ timespan = 0
    /\ p_time = [p \in Procs |-> 0]
    /\ currentProc = NULL
    /\ todo = <<"scheduler">>
    /\ waiting = FALSE
    /\ due = [p \in Procs |-> 0] /\ lost = [p \in Procs |-> 0]

----------------------------------------------------------------------------
(* The nucleus' work, one entry of todo after the other: "read" and        *)
(* "discard" or "charge" are the two readings of getTimespan, with what    *)
(* becomes of its result.                                                  *)

Charge == <<"read", "charge">>

\* Deliberately wrong: the dispatched process starts in the old timespan.
DiscardNothing == <<>>

Discard == <<"read", "discard">>

\* updateCurrentProcTime.
UpdateCurrentProcTime == IF currentProc = NULL THEN <<>> ELSE Charge

\* P and V when they block.
BlockCurrent == UpdateCurrentProcTime \o <<"scheduler">>

\* __exitIntHandler.
ExitIntHandler ==
    Discard \o IF currentProc = NULL THEN <<"scheduler">> ELSE <<>>

\* What exceptionHandler may find: a system call that returns to its caller,
\* GETTIME, one that blocks, a process that dies or is preempted, another
\* interrupt.  From WAIT there are only interrupts.
Causes == IF currentProc = NULL THEN {"interrupt"}
          ELSE {"return", "getTime", "block", "leave", "interrupt"}

Exception ==
    /\ todo = <<>>
    /\ \E cause \in Causes : todo' = UpdateCurrentProcTime \o <<cause>>
    /\ waiting' = FALSE
    /\ UNCHANGED <<now, spanStart, p_time, currentProc, timespan, due, lost>>

Handler ==
    /\ \/ todo = <<"return">>    /\ todo' = <<>>
       \/ todo = <<"getTime">>   /\ todo' = UpdateCurrentProcTime
       \/ todo = <<"block">>     /\ todo' = BlockCurrent
       \/ todo = <<"leave">>     /\ todo' = <<"scheduler">>
       \/ todo = <<"interrupt">> /\ todo' = ExitIntHandler
    /\ UNCHANGED <<now, spanStart, p_time, currentProc, timespan, waiting, due, lost>>

Scheduler ==
    /\ todo = <<"scheduler">>
    /\ \/ \E p \in Procs : currentProc' = p /\ todo' = Discard /\ UNCHANGED waiting
       \/ currentProc' = NULL /\ todo' = <<>> /\ waiting' = TRUE
    /\ UNCHANGED <<now, spanStart, p_time, timespan, due, lost>>

Read ==
    /\ todo # <<>> /\ Head(todo) = "read"
    /\ timespan' = STCK(now) - spanStart
    /\ todo' = Tail(todo)
    /\ UNCHANGED <<now, spanStart, p_time, currentProc, waiting, due, lost>>

Store ==
    /\ todo # <<>> /\ Head(todo) \in {"charge", "discard"}
    /\ spanStart' = STCK(now)
    /\ p_time' = IF Head(todo) = "charge"
                 THEN [p_time EXCEPT ![currentProc] = (@ + timespan) % W] ELSE p_time
    /\ todo' = Tail(todo)
    /\ UNCHANGED <<now, currentProc, timespan, waiting, due, lost>>

----------------------------------------------------------------------------
\* The processor works for currentProc: it executes it or one of its system
\* calls, or has yet to charge it for what it was doing.
ForCurrent ==
    /\ currentProc # NULL
    /\ \E work \in {ToSet(todo)} : todo = <<>> \/ "charge" \in work
                                  \/ work \subseteq {"return", "getTime", "block"}

\* Between the two readings of a timespan that is charged.
InGap == todo # <<>> /\ Head(todo) = "charge"

Tick ==
    /\ now < MaxTime
    /\ now' = now + 1
    /\ due' = IF ForCurrent THEN [due EXCEPT ![currentProc] = @ + 1] ELSE due
    /\ lost' = IF InGap THEN [lost EXCEPT ![currentProc] = @ + 1] ELSE lost
    /\ UNCHANGED <<spanStart, p_time, currentProc, timespan, todo, waiting>>

Next == Exception \/ Handler \/ Scheduler \/ Read \/ Store \/ Tick

Spec == Init /\ [][Next]_vars

----------------------------------------------------------------------------
\* What p has run and p_time does not have yet.
NotYet(p) ==
    IF p # currentProc \/ ~ForCurrent THEN 0
    ELSE IF InGap THEN timespan ELSE STCK(now) - spanStart

\* Every tick of a process is charged to it exactly once, except those that
\* pass between the two readings of getTimespan; what the nucleus spends on
\* interrupts, on dispatching and in WAIT is charged to nobody.  Modulo the
\* width of p_time, and also when the clock wraps around.
TimeAccounted ==
    \A p \in Procs : (p_time[p] + NotYet(p) - (due[p] - lost[p])) % W = 0
============================================================================
