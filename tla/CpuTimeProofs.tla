--------------------------- MODULE CpuTimeProofs ---------------------------
(***************************************************************************)
(* That every tick is accounted for, whatever the width of the clock, the  *)
(* number of processes and the time that passes anywhere in the nucleus.   *)
(***************************************************************************)
EXTENDS CpuTime, SequenceTheorems, TLAPS

----------------------------------------------------------------------------
(* Arithmetic modulo the width of the clock.                               *)

\* A remainder differs from its dividend by a multiple of W.
LEMMA ModIsMultiple ==
    ASSUME NEW x \in Int
    PROVE  x % W \in 0..W - 1 /\ \E k \in Int : x % W = x + k * W
<1>1. x = W * (x \div W) + (x % W) /\ x \div W \in Int /\ x % W \in 0..W - 1
  BY CpuTimeAssumption
<1>2. x % W = x + (-(x \div W)) * W
  BY <1>1, CpuTimeAssumption
<1> QED
  BY <1>1, <1>2

\* The only multiple of W below W is 0.
LEMMA SmallMultiple ==
    ASSUME NEW k \in Int, NEW r \in 0..W - 1, r = k * W
    PROVE  r = 0
<1>1. k >= 1 => k * W >= W
  BY CpuTimeAssumption
<1>2. k <= -1 => k * W <= -W
  BY CpuTimeAssumption
<1>3. k = 0
  BY <1>1, <1>2, CpuTimeAssumption
<1> QED
  BY <1>3, CpuTimeAssumption

LEMMA MultipleMod ==
    ASSUME NEW k \in Int
    PROVE  (k * W) % W = 0
<1>1. k * W \in Int
  BY CpuTimeAssumption
<1>2. (k * W) % W \in 0..W - 1 /\ \E j \in Int : (k * W) % W = k * W + j * W
  BY <1>1, ModIsMultiple
<1>3. \A j \in Int : k * W + j * W = (k + j) * W
  BY CpuTimeAssumption
<1> QED
  BY <1>2, <1>3, SmallMultiple

\* Adding a multiple of W keeps a number a multiple of W.
LEMMA AddMultiple ==
    ASSUME NEW x \in Int, x % W = 0, NEW k \in Int
    PROVE  (x + k * W) % W = 0
<1>1. PICK j \in Int : 0 = x + j * W
  BY ModIsMultiple
<1>2. x + k * W = (k - j) * W
  BY <1>1, CpuTimeAssumption
<1> QED
  BY <1>2, MultipleMod

----------------------------------------------------------------------------
(* The invariant.                                                          *)

Work == {"return", "getTime", "block", "leave", "interrupt", "scheduler"}

\* The nucleus has yet to read the clock and charge the current process.
ToCharge == todo = Charge \/ \E w \in Work : todo = <<"read", "charge", w>>

\* It has read the clock and not stored the result.
Charging == todo = <<"charge">> \/ \E w \in Work : todo = <<"charge", w>>

Discarding ==
    todo \in {<<"read", "discard">>, <<"discard">>,
              <<"read", "discard", "scheduler">>, <<"discard", "scheduler">>}

\* What there may be left to do; nobody is charged but a process.
TodoInv ==
    /\ \/ todo = <<>>
       \/ \E w \in Work : todo = <<w>>
       \/ ToCharge \/ Charging \/ Discarding
    /\ ToCharge \/ Charging => currentProc # NULL

TypeInv ==
    /\ now \in Int /\ spanStart \in Int /\ timespan \in Int
    /\ currentProc \in Procs \cup {NULL}
    /\ p_time \in [Procs -> Int] /\ due \in [Procs -> Int] /\ lost \in [Procs -> Int]

IInv == TypeInv /\ TodoInv /\ TimeAccounted

----------------------------------------------------------------------------
(* What is being done, by the form of todo.                                *)

LEMMA ShortSets ==
    /\ ToSet(<<>>) = {}
    /\ \A a : ToSet(<<a>>) = {a}
    /\ \A a, b : ToSet(<<a, b>>) = {a, b}
    /\ \A a, b, c : ToSet(<<a, b, c>>) = {a, b, c}
<1>1. ToSet(<<>>) = {}
  BY DEF ToSet
<1>2. ASSUME NEW a PROVE ToSet(<<a>>) = {a}
  BY DEF ToSet
<1>3. ASSUME NEW a, NEW b PROVE ToSet(<<a, b>>) = {a, b}
  BY DEF ToSet
<1>4. ASSUME NEW a, NEW b, NEW c PROVE ToSet(<<a, b, c>>) = {a, b, c}
  BY DEF ToSet
<1> QED
  BY <1>1, <1>2, <1>3, <1>4

\* Whether the processor works for the current process.
Working ==
    \/ todo = <<>>
    \/ \E w \in {"return", "getTime", "block"} : todo = <<w>>
    \/ ToCharge

Idle == Discarding \/ \E w \in {"leave", "interrupt", "scheduler"} : todo = <<w>>

LEMMA Forms ==
    /\ Working => (ForCurrent <=> currentProc # NULL) /\ ~InGap
    /\ Charging => (ForCurrent <=> currentProc # NULL) /\ InGap
    /\ Idle => ~ForCurrent /\ ~InGap
<1>1. ASSUME Working PROVE (ForCurrent <=> currentProc # NULL) /\ ~InGap
  <2>1. CASE todo = <<>>
    BY <2>1 DEF ForCurrent, InGap
  <2>2. CASE \E w \in {"return", "getTime", "block"} : todo = <<w>>
    BY <2>2, ShortSets DEF ForCurrent, InGap
  <2>3. CASE ToCharge
    BY <2>3, ShortSets DEF ForCurrent, InGap, ToCharge, Charge
  <2> QED
    BY <1>1, <2>1, <2>2, <2>3 DEF Working
<1>2. ASSUME Charging PROVE (ForCurrent <=> currentProc # NULL) /\ InGap
  BY <1>2, ShortSets DEF ForCurrent, InGap, Charging
<1>3. ASSUME Idle PROVE ~ForCurrent /\ ~InGap
  <2>1. CASE \E w \in {"leave", "interrupt", "scheduler"} : todo = <<w>>
    BY <2>1, ShortSets DEF ForCurrent, InGap
  <2>2. CASE todo = <<"discard">> \/ todo = <<"discard", "scheduler">>
    BY <2>2, ShortSets DEF ForCurrent, InGap
  <2>3. CASE todo = <<"read", "discard">> \/ todo = <<"read", "discard", "scheduler">>
    BY <2>3, ShortSets DEF ForCurrent, InGap
  <2> QED
    BY <1>3, <2>1, <2>2, <2>3 DEF Idle, Discarding
<1> QED
  BY <1>1, <1>2, <1>3

LEMMA Phases == IInv => (Working \/ Charging \/ Idle) /\ (InGap => currentProc \in Procs)
<1>1. IInv => Working \/ Charging \/ Idle
  BY DEF IInv, TodoInv, Working, Idle, Work
<1> QED
  BY <1>1, Forms DEF IInv, TypeInv, TodoInv

\* What the processes have run and are not charged for, by the form of todo.
Pending ==
    /\ \A p \in Procs : p # currentProc \/ Idle => NotYet(p) = 0
    /\ Working /\ currentProc # NULL => NotYet(currentProc) = STCK(now) - spanStart
    /\ Charging /\ currentProc # NULL => NotYet(currentProc) = timespan

LEMMA PendingAlways == Pending
  BY Forms DEF Pending, NotYet

LEMMA PendingNext == Pending'
  BY PendingAlways, PTL

\* What separates the books from the truth for p; TimeAccounted says that it
\* is a multiple of W.
Gap(p) == p_time[p] + NotYet(p) - (due[p] - lost[p])

\* The steps that neither take time nor write anything down: the current
\* process goes on being charged, or goes on not being.
SameGap ==
    /\ UNCHANGED <<now, spanStart, p_time, timespan, due, lost>>
    /\ \/ UNCHANGED currentProc /\ Working /\ Working'
       \/ (Idle \/ currentProc = NULL) /\ (Idle \/ currentProc = NULL)'

LEMMA SameGapKeeps ==
    ASSUME TypeInv, SameGap, NEW p \in Procs
    PROVE  Gap(p)' = Gap(p)
  BY PendingAlways, PendingNext, CpuTimeAssumption DEF SameGap, Gap, Pending, TypeInv

\* The sequences of entries the nucleus puts together.
LEMMA Plans ==
    /\ \A w : <<>> \o <<w>> = <<w>> /\ Charge \o <<w>> = <<"read", "charge", w>>
    /\ Discard \o <<>> = Discard
    /\ Discard \o <<"scheduler">> = <<"read", "discard", "scheduler">>
<1>1. ASSUME NEW a, NEW b, NEW c PROVE <<a, b>> \o <<c>> = <<a, b, c>>
  <2> DEFINE S == {a, b, c}
  <2>1. <<a, b>> \in Seq(S) /\ <<c>> \in Seq(S) /\ <<a, b, c>> \in Seq(S)
    OBVIOUS
  <2> HIDE DEF S
  <2>2. /\ <<a, b>> \o <<c>> \in Seq(S) /\ Len(<<a, b>> \o <<c>>) = 3
        /\ Len(<<a, b, c>>) = 3
        /\ \A i \in 1..3 : (<<a, b>> \o <<c>>)[i] = <<a, b, c>>[i]
    BY <2>1
  <2> QED
    BY <2>1, <2>2, SeqEqual
<1>2. ASSUME NEW a, NEW b PROVE <<a, b>> \o <<>> = <<a, b>>
  <2> DEFINE S == {a, b}
  <2>1. <<a, b>> \in Seq(S)
    OBVIOUS
  <2> QED
    BY <2>1
<1>3. ASSUME NEW w PROVE <<>> \o <<w>> = <<w>>
  <2> DEFINE S == {w}
  <2>1. <<w>> \in Seq(S)
    OBVIOUS
  <2> QED
    BY <2>1
<1> QED
  BY <1>1, <1>2, <1>3 DEF Charge, Discard

LEMMA ExceptionGap ==
    ASSUME IInv, Exception
    PROVE  SameGap /\ TodoInv'
<1>1. PICK w \in Causes : todo' = UpdateCurrentProcTime \o <<w>>
  BY DEF Exception
<1>2. CASE currentProc = NULL
  <2>1. todo' = <<"interrupt">> /\ currentProc' = NULL
    BY <1>1, <1>2, Plans DEF UpdateCurrentProcTime, Exception, Causes
  <2> QED
    BY <1>2, <2>1 DEF Exception, SameGap, TodoInv, ToCharge, Charging, Charge, Work
<1>3. CASE currentProc # NULL
  <2>1. todo' = <<"read", "charge", w>> /\ w \in Work
    BY <1>1, <1>3, Plans DEF UpdateCurrentProcTime, Causes, Work
  <2> QED
    BY <1>3, <2>1 DEF Exception, SameGap, TodoInv, ToCharge, Working
<1> QED
  BY <1>2, <1>3

LEMMA HandlerGap ==
    ASSUME IInv, Handler
    PROVE  SameGap /\ TodoInv'
<1>1. UNCHANGED <<now, spanStart, p_time, currentProc, timespan, due, lost>>
  BY DEF Handler
<1>2. CASE todo = <<"return">> /\ todo' = <<>>
  BY <1>1, <1>2 DEF SameGap, TodoInv, ToCharge, Charging, Working, Charge
<1>3. CASE todo = <<"getTime">> /\ todo' = UpdateCurrentProcTime
  BY <1>1, <1>3 DEF SameGap, TodoInv, ToCharge, Charging, Working, Charge, UpdateCurrentProcTime
<1>4. CASE todo = <<"block">> /\ todo' = BlockCurrent
  <2>1. todo' = IF currentProc = NULL THEN <<"scheduler">> ELSE <<"read", "charge", "scheduler">>
    BY <1>4, Plans DEF BlockCurrent, UpdateCurrentProcTime
  <2>2. Working /\ (currentProc # NULL => ToCharge')
    BY <1>1, <1>4, <2>1 DEF Working, ToCharge, Work
  <2> QED
    BY <1>1, <2>1, <2>2 DEF SameGap, TodoInv, ToCharge, Charging, Working, Charge, Work
<1>5. CASE todo = <<"leave">> /\ todo' = <<"scheduler">>
  BY <1>1, <1>5 DEF SameGap, TodoInv, ToCharge, Charging, Idle, Charge, Work
<1>6. CASE todo = <<"interrupt">> /\ todo' = ExitIntHandler
  <2>1. todo' \in {<<"read", "discard">>, <<"read", "discard", "scheduler">>}
    BY <1>6, Plans DEF ExitIntHandler, Discard
  <2> QED
    BY <1>1, <1>6, <2>1 DEF SameGap, TodoInv, ToCharge, Charging, Idle, Charge, Discarding
<1> QED
  BY <1>2, <1>3, <1>4, <1>5, <1>6 DEF Handler

LEMMA SchedulerGap ==
    ASSUME IInv, Scheduler
    PROVE  SameGap /\ TodoInv'
<1>1. CASE \E p \in Procs : currentProc' = p /\ todo' = Discard
  BY <1>1 DEF Scheduler, SameGap, TodoInv, ToCharge, Charging, Idle, Discarding, Discard, Charge
<1>2. CASE currentProc' = NULL /\ todo' = <<>>
  <2>1. Idle
    BY DEF Scheduler, Idle
  <2>2. todo = <<"scheduler">> /\ todo' = <<>> /\ ~ToCharge' /\ ~Charging'
    BY <1>2 DEF Scheduler, ToCharge, Charging, Charge
  <2> QED
    BY <1>2, <2>1, <2>2 DEF Scheduler, SameGap, TodoInv
<1> QED
  BY <1>1, <1>2 DEF Scheduler

LEMMA Tails ==
    /\ \A a : Head(<<a>>) = a /\ Tail(<<a>>) = <<>>
    /\ \A a, b : Head(<<a, b>>) = a /\ Tail(<<a, b>>) = <<b>>
    /\ \A a, b, c : Head(<<a, b, c>>) = a /\ Tail(<<a, b, c>>) = <<b, c>>
<1>1. ASSUME NEW a PROVE Head(<<a>>) = a /\ Tail(<<a>>) = <<>>
  OBVIOUS
<1>2. ASSUME NEW a, NEW b PROVE Head(<<a, b>>) = a /\ Tail(<<a, b>>) = <<b>>
  OBVIOUS
<1>3. ASSUME NEW a, NEW b, NEW c PROVE Head(<<a, b, c>>) = a /\ Tail(<<a, b, c>>) = <<b, c>>
  OBVIOUS
<1> QED
  BY <1>1, <1>2, <1>3

\* What is left after the first entry of todo.
LEMMA Rest ==
    ASSUME Read \/ Store
    PROVE  /\ \A a : todo = <<a>> => Head(todo) = a /\ todo' = <<>>
           /\ \A a, b : todo = <<a, b>> => Head(todo) = a /\ todo' = <<b>>
           /\ \A a, b, c : todo = <<a, b, c>> => Head(todo) = a /\ todo' = <<b, c>>
<1>1. todo' = Tail(todo)
  BY DEF Read, Store
<1>2. ASSUME NEW a, todo = <<a>> PROVE Head(todo) = a /\ todo' = <<>>
  BY <1>1, <1>2, Tails
<1>3. ASSUME NEW a, NEW b, todo = <<a, b>> PROVE Head(todo) = a /\ todo' = <<b>>
  BY <1>1, <1>3, Tails
<1>4. ASSUME NEW a, NEW b, NEW c, todo = <<a, b, c>>
      PROVE  Head(todo) = a /\ todo' = <<b, c>>
  BY <1>1, <1>4, Tails
<1> QED
  BY <1>2, <1>3, <1>4

LEMMA ReadTodo ==
    ASSUME IInv, Read
    PROVE  TodoInv' /\ ((Working /\ Charging') \/ (Idle /\ Idle'))
<1>1. Head(todo) = "read" /\ todo # <<>>
  BY DEF Read
<1>2. CASE ToCharge
  <2>1. Working /\ Charging' /\ currentProc' # NULL
    BY <1>2, Rest DEF ToCharge, Charging, Charge, Working, Read, IInv, TodoInv
  <2> QED
    BY <2>1 DEF TodoInv
<1>3. CASE Discarding
  <2>1. todo # <<"discard">> /\ todo # <<"discard", "scheduler">>
    BY <1>1, Tails
  <2>2. todo' \in {<<"discard">>, <<"discard", "scheduler">>}
    BY <1>3, <2>1, Rest DEF Discarding
  <2>3. Idle /\ Idle' /\ Discarding' /\ ~ToCharge' /\ ~Charging'
    BY <1>3, <2>2 DEF Idle, Discarding, ToCharge, Charging, Charge
  <2> QED
    BY <2>3 DEF TodoInv
<1>4. ~Charging /\ \A w \in Work : todo # <<w>>
  BY <1>1, Tails DEF Charging, Work
<1> QED
  BY <1>1, <1>2, <1>3, <1>4 DEF IInv, TodoInv

LEMMA ReadGap ==
    ASSUME IInv, Read, NEW p \in Procs
    PROVE  Gap(p)' = Gap(p)
<1>1. /\ UNCHANGED <<now, spanStart, p_time, currentProc, due, lost>>
      /\ timespan' = STCK(now) - spanStart
      /\ currentProc \in Procs \cup {NULL}
  BY DEF Read, IInv, TypeInv
<1> QED
  BY <1>1, ReadTodo, PendingAlways, PendingNext, CpuTimeAssumption DEF Gap, Pending

LEMMA StoreTodo ==
    ASSUME IInv, Store
    PROVE  /\ TodoInv' /\ (Working' \/ Idle')
           /\ \/ Charging /\ Head(todo) = "charge"
              \/ Idle /\ Head(todo) = "discard"
<1>1. todo # <<>> /\ Head(todo) \in {"charge", "discard"}
  BY DEF Store
<1>2. ~ToCharge /\ \A w \in Work : todo # <<w>>
  BY <1>1, Tails DEF ToCharge, Charge, Work
<1>3. /\ todo' = <<>> \/ \E w \in Work : todo' = <<w>>
      /\ \/ Charging /\ Head(todo) = "charge"
         \/ Idle /\ Head(todo) = "discard"
  <2>1. CASE Charging
    BY <2>1, Rest DEF Charging
  <2>2. CASE Discarding
    <3>1. todo = <<"discard">> \/ todo = <<"discard", "scheduler">>
      BY <1>1, <2>2, Tails DEF Discarding
    <3> QED
      BY <2>2, <3>1, Rest DEF Work, Idle
  <2> QED
    BY <1>1, <1>2, <2>1, <2>2 DEF IInv, TodoInv
<1>4. ~ToCharge' /\ ~Charging'
  BY <1>3 DEF ToCharge, Charging, Charge, Work
<1> QED
  BY <1>3, <1>4 DEF TodoInv, Working, Idle, Work

\* Storing a timespan charges what was read, modulo W.
LEMMA StoreGap ==
    ASSUME IInv, Store, NEW p \in Procs
    PROVE  \E k \in Int : Gap(p)' = Gap(p) + k * W
<1>1. UNCHANGED <<now, currentProc, due, lost>> /\ spanStart' = STCK(now) /\ STCK(now) \in Int
  BY CpuTimeAssumption DEF Store, STCK, IInv, TypeInv
<1>2. NotYet(p)' = 0
  <2>1. Working' /\ currentProc' # NULL => NotYet(currentProc)' = STCK(now)' - spanStart'
    BY PendingNext DEF Pending
  <2>2. p # currentProc' \/ Idle' => NotYet(p)' = 0
    BY PendingNext DEF Pending
  <2>3. STCK(now)' - spanStart' = 0
    BY <1>1 DEF STCK
  <2> QED
    BY <1>1, <2>1, <2>2, <2>3, CpuTimeAssumption, StoreTodo
<1>3. CASE p # currentProc \/ Head(todo) # "charge"
  <2>1. NotYet(p) = 0 /\ p_time'[p] = p_time[p]
    BY <1>3, PendingAlways, StoreTodo DEF Pending, Store, IInv, TypeInv
  <2>2. Gap(p)' = Gap(p) + 0 * W
    BY <1>1, <1>2, <2>1, CpuTimeAssumption DEF Gap, IInv, TypeInv
  <2> QED
    BY <2>2
<1>4. CASE p = currentProc /\ Head(todo) = "charge"
  <2>1. NotYet(p) = timespan
    BY <1>4, PendingAlways, CpuTimeAssumption, StoreTodo DEF Pending
  <2>2. p_time'[p] = (p_time[p] + timespan) % W
    BY <1>4 DEF Store, IInv, TypeInv
  <2>3. p_time[p] + timespan \in Int
    BY DEF IInv, TypeInv
  <2>4. PICK k \in Int : (p_time[p] + timespan) % W = p_time[p] + timespan + k * W
    BY <2>3, ModIsMultiple
  <2>5. Gap(p)' = Gap(p) + k * W
    BY <1>1, <1>2, <2>1, <2>2, <2>4, CpuTimeAssumption DEF Gap, IInv, TypeInv
  <2> QED
    BY <2>5
<1> QED
  BY <1>3, <1>4

LEMMA TickTodo ==
    ASSUME IInv, Tick
    PROVE  TodoInv' /\ (Charging' <=> Charging) /\ (Working' <=> Working) /\ (Idle' <=> Idle)
  BY DEF Tick, IInv, TodoInv, ToCharge, Charging, Discarding, Working, Idle

\* A tick is owed to the current process, or lost, or nobody's; the clock
\* may wrap around.
LEMMA TickGap ==
    ASSUME IInv, Tick, NEW p \in Procs
    PROVE  \E k \in Int : Gap(p)' = Gap(p) + k * W
<1>1. UNCHANGED <<spanStart, p_time, currentProc, timespan, todo>> /\ now' = now + 1
  BY DEF Tick
<1>2. (Charging' <=> Charging) /\ (Working' <=> Working) /\ (Idle' <=> Idle)
  BY TickTodo
<1>3. /\ now \in Int /\ spanStart \in Int /\ timespan \in Int /\ p_time[p] \in Int
      /\ due[p] \in Int /\ lost[p] \in Int /\ currentProc \in Procs \cup {NULL}
      /\ due \in [Procs -> Int] /\ lost \in [Procs -> Int]
  BY DEF IInv, TypeInv
<1>4. CASE p # currentProc \/ Idle
  <2>1. NotYet(p) = 0 /\ NotYet(p)' = 0
    BY <1>1, <1>2, <1>4, PendingAlways, PendingNext DEF Pending
  <2>2. due'[p] = due[p] /\ lost'[p] = lost[p]
    BY <1>3, <1>4, Forms DEF Tick
  <2>3. Gap(p)' = Gap(p) + 0 * W
    BY <1>1, <1>3, <2>1, <2>2, CpuTimeAssumption DEF Gap
  <2> QED
    BY <2>3
<1>5. CASE p = currentProc /\ Charging
  <2>1. NotYet(p) = timespan /\ NotYet(p)' = timespan
    BY <1>1, <1>2, <1>5, CpuTimeAssumption, PendingAlways, PendingNext DEF Pending
  <2>2. due'[p] = due[p] + 1 /\ lost'[p] = lost[p] + 1
    BY <1>3, <1>5, CpuTimeAssumption, Forms DEF Tick
  <2>3. Gap(p)' = Gap(p) + 0 * W
    BY <1>1, <1>3, <2>1, <2>2, CpuTimeAssumption DEF Gap
  <2> QED
    BY <2>3
<1>6. CASE p = currentProc /\ Working
  <2>1. NotYet(p) = STCK(now) - spanStart /\ NotYet(p)' = STCK(now') - spanStart
    BY <1>1, <1>2, <1>6, CpuTimeAssumption, PendingAlways, PendingNext DEF Pending, STCK
  <2>2. due'[p] = due[p] + 1 /\ lost'[p] = lost[p]
    BY <1>3, <1>6, CpuTimeAssumption, Forms DEF Tick
  <2>3. PICK i \in Int : STCK(now) = now + i * W
    BY <1>3, ModIsMultiple DEF STCK
  <2>4. PICK j \in Int : STCK(now') = now + 1 + j * W
    BY <1>1, <1>3, ModIsMultiple DEF STCK
  <2>5. Gap(p)' = Gap(p) + (j - i) * W
    BY <1>1, <1>3, <2>1, <2>2, <2>3, <2>4, CpuTimeAssumption DEF Gap
  <2> QED
    BY <2>5
<1> QED
  BY <1>4, <1>5, <1>6, Phases

LEMMA TypeKept ==
    ASSUME IInv, [Next]_vars
    PROVE  TypeInv'
<1> USE CpuTimeAssumption DEF TypeInv
<1>1. \A x \in Int : x % W \in Int
  OBVIOUS
<1>2. CASE Read
  BY <1>1, <1>2 DEF IInv, Read, STCK
<1>3. CASE Store
  <2>1. Head(todo) = "charge" => currentProc \in Procs
    BY <1>3, Phases DEF Store, InGap
  <2>2. \A p \in Procs : (p_time[p] + timespan) % W \in Int
    BY <1>1 DEF IInv
  <2> QED
    BY <1>1, <1>3, <2>1, <2>2 DEF IInv, Store, STCK
<1>4. CASE Tick
  <2>1. ForCurrent \/ InGap => currentProc \in Procs
    BY Phases DEF IInv, ForCurrent
  <2> QED
    BY <1>4, <2>1 DEF IInv, Tick
<1>5. CASE Exception \/ Handler \/ Scheduler \/ UNCHANGED vars
  BY <1>5 DEF IInv, Exception, Handler, Scheduler, vars
<1> QED
  BY <1>2, <1>3, <1>4, <1>5 DEF Next

LEMMA NextGap ==
    ASSUME IInv, [Next]_vars, NEW p \in Procs
    PROVE  \E k \in Int : Gap(p)' = Gap(p) + k * W
<1>1. TypeInv /\ NotYet(p) \in Int
  <2>1. STCK(now) \in Int
    BY CpuTimeAssumption DEF IInv, TypeInv, STCK
  <2> QED
    BY <2>1 DEF IInv, TypeInv, NotYet
<1>2. ASSUME Gap(p)' = Gap(p) PROVE \E k \in Int : Gap(p)' = Gap(p) + k * W
  <2>1. Gap(p) + 0 * W = Gap(p)
    BY <1>1, CpuTimeAssumption DEF TypeInv, Gap
  <2> QED
    BY <1>2, <2>1
<1>3. CASE UNCHANGED vars
  <2>1. Gap(p)' = Gap(p)
    BY <1>3 DEF vars, Gap, NotYet, ForCurrent, InGap, STCK
  <2> QED
    BY <1>2, <2>1
<1>4. CASE Exception \/ Handler \/ Scheduler
  BY <1>1, <1>2, <1>4, SameGapKeeps, ExceptionGap, HandlerGap, SchedulerGap
<1> QED
  BY <1>2, <1>3, <1>4, ReadGap, StoreGap, TickGap DEF Next

LEMMA TodoKept ==
    ASSUME IInv, [Next]_vars
    PROVE  TodoInv'
<1>1. CASE UNCHANGED vars
  BY <1>1 DEF vars, IInv, TodoInv, ToCharge, Charging, Discarding
<1> QED
  BY <1>1, ExceptionGap, HandlerGap, SchedulerGap, ReadTodo, StoreTodo, TickTodo DEF Next

LEMMA Accounted ==
    ASSUME IInv, [Next]_vars
    PROVE  TimeAccounted'
<1> SUFFICES ASSUME NEW p \in Procs PROVE (Gap(p)' % W) = 0
  BY DEF TimeAccounted, Gap
<1>1. Gap(p) % W = 0
  BY DEF IInv, TimeAccounted, Gap
<1>2. Gap(p) \in Int
  <2>1. STCK(now) \in Int
    BY CpuTimeAssumption DEF IInv, TypeInv, STCK
  <2> QED
    BY <2>1 DEF IInv, TypeInv, NotYet, Gap
<1>3. PICK k \in Int : Gap(p)' = Gap(p) + k * W
  BY NextGap
<1> QED
  BY <1>1, <1>2, <1>3, AddMultiple

\* Whatever the width of the clock, however often it wraps around and wherever
\* in the nucleus time passes, each tick a process has run is charged to it
\* exactly once, except between the two readings of getTimespan.
THEOREM TimeCorrect == Spec => []TimeAccounted
<1>1. Init => IInv
  <2> SUFFICES ASSUME Init PROVE IInv
    OBVIOUS
  <2>1. TypeInv
    BY DEF Init, TypeInv
  <2>2. TodoInv
    <3>1. ~ToCharge /\ ~Charging
      BY DEF Init, ToCharge, Charging, Charge, Work
    <3> QED
      BY <3>1 DEF Init, TodoInv, Work
  <2>3. \A p \in Procs : NotYet(p) = 0
    BY CpuTimeAssumption DEF Init, NotYet
  <2>4. 0 % W = 0
    BY CpuTimeAssumption
  <2>5. TimeAccounted
    BY <2>3, <2>4 DEF Init, TimeAccounted
  <2> QED
    BY <2>1, <2>2, <2>5 DEF IInv
<1>2. IInv /\ [Next]_vars => IInv'
  BY TypeKept, TodoKept, Accounted DEF IInv
<1>3. IInv => TimeAccounted
  BY DEF IInv
<1> QED
  BY <1>1, <1>2, <1>3, PTL DEF Spec
============================================================================
