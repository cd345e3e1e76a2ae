--------------------------- MODULE ContextsProofs ---------------------------
(***************************************************************************)
(* Where a process goes on, for any number of processes, programs of any   *)
(* length and handlers interrupted any number of times: the processor      *)
(* states are followed from the exception that stops a process to the LDST *)
(* that lets it go on.                                                     *)
(***************************************************************************)
EXTENDS Contexts, SequenceTheorems, TLAPS

----------------------------------------------------------------------------
(* The types and the invariant.                                            *)

States == [program : {"none", "main"} \cup ExcTypes, pc : 0..LENGTH - 1, v0 : Int,
           status : SUBSET {"USERPON", "TEBITON"}]
Frames == [state : States, why : {"none", "SYS", "RI", "TLB", "other"}]
Places == {"free", "ready", "running", "semaphore", "device"}

TypeInv ==
    /\ cpu \in States /\ saved \in States
    /\ cause \in {"none", "SYS", "INT", "TLB", "other"}
    /\ currentProc \in Procs \cup {NULL}
    /\ place \in [Procs -> Places]
    /\ p_s \in [Procs -> States]
    /\ p_sup \in [Procs -> BOOLEAN]
    /\ sup_exceptState \in [Procs -> [ExcTypes -> Frames]]
    /\ frames \in [Procs -> Seq(Frames)]

\* While a process runs its own program with s its time slice is counted.
Timed(s) == s.program = "main" => "TEBITON" \in s.status

\* A program with handlers above it, each of another type, and k has for
\* each of them what it is to return to and why it was called.
Nested(f, k) ==
    /\ Len(f) >= 1 /\ f[1].state.program = "main"
    /\ \A i \in 2..Len(f) : f[i].state.program \in ExcTypes
    /\ \A i, j \in 2..Len(f) : f[i].state.program = f[j].state.program => i = j
    /\ \A i \in 1..Len(f) - 1 :
          LET kept == k[f[i + 1].state.program]
          IN  /\ Timed(kept.state) /\ Untimed(kept.state) = Untimed(f[i].state)
              /\ kept.why = f[i].why

\* The state the current process goes on with, wherever it is now.
Current ==
    IF cause = "none" THEN cpu
    ELSE IF cause = "SYS" THEN SkipSyscall(saved) ELSE saved

\* Every process has one state that is where it is to go on: of the current
\* process that in the processor or in SAVED_STATE, of the others p_s.
GoesOnInv ==
    /\ \A p \in Procs : place[p] = "running" <=> p = currentProc
    /\ \A p \in Alive : p # currentProc => Untimed(p_s[p]) = Untimed(At(p))
    /\ currentProc # NULL => Timed(Current) /\ Untimed(Current) = Untimed(At(currentProc))
    /\ currentProc = NULL => cause \in {"none", "INT"} /\ (cause = "none" => cpu = NoState)

\* What is passed up finds no handler of its type at work.
HandlerInv ==
    /\ \A p \in Alive : Nested(frames[p], sup_exceptState[p])
    /\ cause # "none" /\ currentProc # NULL /\ PassedUp(cause, a0, saved) =>
          ~Handling(currentProc, ExcType(cause))

IInv == TypeInv /\ GoesOnInv /\ HandlerInv

----------------------------------------------------------------------------
(* States.                                                                 *)

\* Being where another state is, apart from the timer bit, field by field.
LEMMA SamePlace ==
    ASSUME NEW s \in States, NEW t \in States
    PROVE  Untimed(s) = Untimed(t) <=>
              /\ s.program = t.program /\ s.pc = t.pc /\ s.v0 = t.v0
              /\ s.status \ {"TEBITON"} = t.status \ {"TEBITON"}
<1> DEFINE u(x) == [program |-> x.program, pc |-> x.pc, v0 |-> x.v0,
                    status |-> x.status \ {"TEBITON"}]
<1>1. Untimed(s) = u(s) /\ Untimed(t) = u(t)
  BY DEF Untimed, States
<1>2. u(s) = u(t) <=> /\ s.program = t.program /\ s.pc = t.pc /\ s.v0 = t.v0
                      /\ s.status \ {"TEBITON"} = t.status \ {"TEBITON"}
  OBVIOUS
<1> QED
  BY <1>1, <1>2

\* "main" is not the name of a type of exception.
LEMMA Names ==
    /\ PGFAULTEXCEPT # GENERALEXCEPT
    /\ "main" \notin ExcTypes /\ "none" \notin ExcTypes
BY DEF ExcTypes, PGFAULTEXCEPT, GENERALEXCEPT

\* The states the nucleus starts processes and handlers with.
LEMMA StartStates ==
    /\ NoState \in States
    /\ \A status \in SUBSET {"USERPON", "TEBITON"} :
          Fresh(status) \in States /\ Fresh(status).program = "main"
    /\ \A t \in ExcTypes, status \in Statuses :
          /\ Context(t, status) \in States /\ Context(t, status).program = t
          /\ Timed(Context(t, status))
BY ContextsAssumption, Names DEF NoState, Fresh, Context, States, Timed

\* Behind the system call: the code's step is the one the program expects.
LEMMA Skipped ==
    ASSUME NEW s \in States
    PROVE  /\ SkipSyscall(s) \in States /\ SkipSyscall(s) = After(s)
           /\ SkipSyscall(s).program = s.program
           /\ SkipSyscall(s).status = s.status /\ SkipSyscall(s).v0 = s.v0
<1>1. s.pc \in 0..LENGTH - 1 /\ LENGTH \in Nat \ {0}
  BY ContextsAssumption DEF States
<1>2. (s.pc + 1) % LENGTH = IF s.pc = LENGTH - 1 THEN 0 ELSE s.pc + 1
  <2>1. CASE s.pc = LENGTH - 1
    BY <1>1, <2>1
  <2>2. CASE s.pc # LENGTH - 1
    BY <1>1, <2>2
  <2> QED
    BY <2>1, <2>2
<1> DEFINE n == (s.pc + 1) % LENGTH
<1>3. n \in 0..LENGTH - 1
  BY <1>1, <1>2
<1> HIDE DEF n
<1>4. SkipSyscall(s) = [s EXCEPT !.pc = n] /\ After(s) = [s EXCEPT !.pc = n]
  BY <1>2 DEF SkipSyscall, After, n
<1> QED
  BY <1>3, <1>4 DEF States

\* Two states in the same place stay in the same place behind a call.
LEMMA SkippedAlike ==
    ASSUME NEW s \in States, NEW t \in States, Untimed(s) = Untimed(t)
    PROVE  Untimed(SkipSyscall(s)) = Untimed(After(t))
<1>1. s.program = t.program /\ s.pc = t.pc /\ s.v0 = t.v0
      /\ s.status \ {"TEBITON"} = t.status \ {"TEBITON"}
  BY SamePlace
<1>2. SkipSyscall(s).pc = SkipSyscall(t).pc
  BY <1>1 DEF SkipSyscall, States
<1>3. Untimed(SkipSyscall(s)) = Untimed(SkipSyscall(t))
  BY <1>1, <1>2, Skipped, SamePlace
<1> QED
  BY <1>3, Skipped

\* A result in v0.
LEMMA WithResult ==
    ASSUME NEW s \in States, NEW v \in Int
    PROVE  /\ [s EXCEPT !.v0 = v] \in States
           /\ [s EXCEPT !.v0 = v].program = s.program
           /\ Timed(s) => Timed([s EXCEPT !.v0 = v])
           /\ \A t \in States : Untimed(s) = Untimed(t) =>
                 Untimed([s EXCEPT !.v0 = v]) = Untimed([t EXCEPT !.v0 = v])
<1>1. \A t \in States :
         LET w == [t EXCEPT !.v0 = v]
         IN  /\ w \in States /\ w.program = t.program /\ w.pc = t.pc /\ w.v0 = v
             /\ w.status = t.status
  BY DEF States
<1>2. ASSUME NEW t \in States, Untimed(s) = Untimed(t)
      PROVE  Untimed([s EXCEPT !.v0 = v]) = Untimed([t EXCEPT !.v0 = v])
  <2>1. s.program = t.program /\ s.pc = t.pc /\ s.status \ {"TEBITON"} = t.status \ {"TEBITON"}
    BY <1>2, SamePlace
  <2> DEFINE w == [s EXCEPT !.v0 = v]  x == [t EXCEPT !.v0 = v]
  <2>2. /\ w \in States /\ x \in States /\ w.program = x.program /\ w.pc = x.pc /\ w.v0 = x.v0
        /\ w.status \ {"TEBITON"} = x.status \ {"TEBITON"}
    BY <1>1, <2>1
  <2> HIDE DEF w, x
  <2>3. Untimed(w) = Untimed(x)
    BY <2>2, SamePlace
  <2> QED
    BY <2>3 DEF w, x
<1> QED
  BY <1>1, <1>2 DEF Timed

\* The scheduler turns the timer bit on.
LEMMA WithTimer ==
    ASSUME NEW s \in States
    PROVE  LET w == [s EXCEPT !.status = @ \cup {"TEBITON"}]
           IN  w \in States /\ Timed(w) /\ Untimed(w) = Untimed(s)
<1> DEFINE w == [s EXCEPT !.status = @ \cup {"TEBITON"}]
<1>1. /\ w \in States /\ w.program = s.program /\ w.pc = s.pc /\ w.v0 = s.v0
      /\ w.status = s.status \cup {"TEBITON"}
  BY DEF States
<1> HIDE DEF w
<1>2. Untimed(w) = Untimed(s)
  BY <1>1, SamePlace
<1> QED
  BY <1>1, <1>2 DEF Timed, w

----------------------------------------------------------------------------
(* Frames.                                                                 *)

\* All but the last, with another one behind.
LEMMA FrontProperty ==
    ASSUME NEW S, NEW f \in Seq(S), Len(f) >= 1
    PROVE  /\ Front(f) \in Seq(S) /\ Len(Front(f)) = Len(f) - 1
           /\ \A i \in 1..Len(f) - 1 : Front(f)[i] = f[i]
<1> DEFINE n == Len(f) - 1  h == SubSeq(f, 1, n)
<1>1. n \in Nat /\ \A i \in 1..n : f[i] \in S
  OBVIOUS
<1> HIDE DEF n
<1>2. /\ h \in Seq(S) /\ Len(h) = IF 1 <= n THEN n - 1 + 1 ELSE 0
      /\ \A i \in 1..n - 1 + 1 : h[i] = f[1 + i - 1]
  BY <1>1, SubSeqProperties
<1> HIDE DEF h
<1>3. h \in Seq(S) /\ Len(h) = n /\ \A i \in 1..n : h[i] = f[i]
  BY <1>1, <1>2
<1> QED
  BY <1>3 DEF Front, h, n

LEMMA FrontAppend ==
    ASSUME NEW S, NEW f \in Seq(S), Len(f) >= 1, NEW x \in S
    PROVE  LET g == Append(Front(f), x)
           IN  /\ g \in Seq(S) /\ Len(g) = Len(f) /\ g[Len(f)] = x /\ Last(g) = x
               /\ \A i \in 1..Len(f) - 1 : g[i] = f[i]
<1> DEFINE h == Front(f)  g == Append(h, x)
<1>1. Len(f) \in Nat
  OBVIOUS
<1>2. /\ h \in Seq(S) /\ Len(h) = Len(f) - 1
      /\ \A i \in 1..Len(f) - 1 : h[i] = f[i]
  BY FrontProperty
<1> HIDE DEF h
<1>3. /\ g \in Seq(S) /\ Len(g) = Len(h) + 1 /\ g[Len(h) + 1] = x
      /\ \A i \in 1..Len(h) : g[i] = h[i]
  BY <1>2
<1> HIDE DEF g
<1>4. g \in Seq(S) /\ Len(g) = Len(f) /\ g[Len(f)] = x /\ Last(g) = x
      /\ \A i \in 1..Len(f) - 1 : g[i] = f[i]
  BY <1>1, <1>2, <1>3 DEF Last
<1> QED
  BY <1>4 DEF g, h

\* A process that makes progress, in its program or in a handler.
LEMMA NestedExpect ==
    ASSUME NEW f \in Seq(Frames), NEW k, Nested(f, k),
           NEW s \in States, s.program = Last(f).state.program
    PROVE  LET g == Append(Front(f), Frame(s, "none"))
           IN  /\ g \in Seq(Frames) /\ Nested(g, k) /\ Last(g).state = s
               /\ \A t : (\E i \in DOMAIN g : g[i].state.program = t)
                            <=> \E i \in DOMAIN f : f[i].state.program = t
<1> DEFINE x == Frame(s, "none")  g == Append(Front(f), x)  n == Len(f)
<1>1. x \in Frames /\ x.state = s /\ x.state.program = f[n].state.program
  BY DEF Frame, Frames, Last
<1>2. n \in Nat /\ n >= 1 /\ DOMAIN f = 1..n
  BY DEF Nested
<1> HIDE DEF x
<1>3. /\ g \in Seq(Frames) /\ Len(g) = n /\ g[n] = x /\ Last(g) = x
      /\ \A i \in 1..n - 1 : g[i] = f[i]
  <2>1. x \in Frames /\ Len(f) >= 1
    BY <1>1, <1>2
  <2> QED
    BY <2>1, FrontAppend
<1> HIDE DEF g, n
<1>4. DOMAIN g = 1..n
  BY <1>3
<1>5. \A i \in 1..n : g[i].state.program = f[i].state.program
  BY <1>1, <1>2, <1>3
<1>6. Nested(g, k)
  <2>1. Len(f) = n /\ g[1].state.program = f[1].state.program
    BY <1>2, <1>5 DEF n
  <2>2. \A i \in 2..n : g[i].state.program = f[i].state.program
    BY <1>5
  <2>3. \A i \in 1..n - 1 : g[i] = f[i] /\ g[i + 1].state.program = f[i + 1].state.program
    <3>1. \A i \in 1..n - 1 : i + 1 \in 1..n
      BY <1>2
    <3> QED
      BY <1>3, <1>5, <3>1
  <2>4. /\ Len(g) >= 1 /\ g[1].state.program = "main"
        /\ \A i \in 2..Len(g) : g[i].state.program \in ExcTypes
        /\ \A i, j \in 2..Len(g) : g[i].state.program = g[j].state.program => i = j
    BY <1>2, <1>3, <2>1, <2>2 DEF Nested
  <2>5. ASSUME NEW i \in 1..Len(g) - 1
        PROVE  LET kept == k[g[i + 1].state.program]
               IN  /\ Timed(kept.state) /\ Untimed(kept.state) = Untimed(g[i].state)
                   /\ kept.why = g[i].why
    BY <1>3, <2>1, <2>3 DEF Nested
  <2> QED
    BY <2>4, <2>5 DEF Nested
<1> QED
  BY <1>1, <1>2, <1>3, <1>4, <1>5, <1>6 DEF g, x

\* A handler of a type that none of the others has starts.
LEMMA NestedHandler ==
    ASSUME NEW f \in Seq(Frames), NEW k \in [ExcTypes -> Frames], Nested(f, k),
           NEW t \in ExcTypes, \A i \in DOMAIN f : f[i].state.program # t,
           NEW e \in Frames, Timed(e.state), Untimed(e.state) = Untimed(Last(f).state),
           NEW c \in States, c.program = t
    PROVE  LET g == Front(f) \o <<Frame(Last(f).state, e.why), Frame(c, "none")>>
           IN  /\ g \in Seq(Frames) /\ Nested(g, [k EXCEPT ![t] = e])
               /\ Last(g).state = c
<1> DEFINE a == Frame(Last(f).state, e.why)  b == Frame(c, "none")
           h == Front(f)  g == h \o <<a, b>>  n == Len(f)  m == [k EXCEPT ![t] = e]
<1>1. n \in Nat /\ n >= 1 /\ DOMAIN f = 1..n /\ f[n] \in Frames
  BY DEF Nested
<1>2. /\ a \in Frames /\ a.state = f[n].state /\ a.why = e.why
      /\ b \in Frames /\ b.state = c
  BY <1>1 DEF Frame, Frames, Last
<1> HIDE DEF a, b
<1>3. /\ h \in Seq(Frames) /\ Len(h) = n - 1
      /\ \A i \in 1..n - 1 : h[i] = f[i]
  BY <1>1, FrontProperty
<1>4. <<a, b>> \in Seq(Frames) /\ Len(<<a, b>>) = 2 /\ <<a, b>>[1] = a /\ <<a, b>>[2] = b
  BY <1>2
<1> DEFINE r == <<a, b>>
<1> HIDE DEF h, r
<1>5. /\ h \o r \in Seq(Frames) /\ Len(h \o r) = n - 1 + 2
      /\ \A i \in 1..n - 1 + 2 :
            (h \o r)[i] = IF i <= n - 1 THEN h[i] ELSE r[i - (n - 1)]
  BY <1>3, <1>4, ConcatProperties DEF r
<1>6. g = h \o r
  BY DEF r
<1> HIDE DEF g, n
<1>7. /\ g \in Seq(Frames) /\ Len(g) = n + 1 /\ g[n] = a /\ g[n + 1] = b
      /\ \A i \in 1..n - 1 : g[i] = f[i]
  <2>1. n - 1 + 2 = n + 1 /\ n - (n - 1) = 1 /\ n + 1 - (n - 1) = 2
        /\ n \in 1..n + 1 /\ ~(n <= n - 1) /\ ~(n + 1 <= n - 1) /\ n + 1 \in 1..n + 1
        /\ \A i \in 1..n - 1 : i \in 1..n + 1 /\ i <= n - 1
    BY <1>1
  <2>2. r[1] = a /\ r[2] = b
    BY <1>4 DEF r
  <2>3. g \in Seq(Frames) /\ Len(g) = n + 1
    BY <1>5, <1>6, <2>1
  <2>4. g[n] = a /\ g[n + 1] = b
    <3>1. \A i \in 1..n + 1 : ~(i <= n - 1) => g[i] = r[i - (n - 1)]
      BY <1>5, <1>6, <2>1
    <3>2. g[n] = r[n - (n - 1)] /\ g[n + 1] = r[n + 1 - (n - 1)]
      BY <2>1, <3>1
    <3> QED
      BY <2>1, <2>2, <3>2
  <2>5. \A i \in 1..n - 1 : g[i] = f[i]
    BY <1>3, <1>5, <1>6, <2>1
  <2> QED
    BY <2>3, <2>4, <2>5
<1>8. /\ \A i \in 1..n : g[i].state = f[i].state
      /\ g[n + 1].state.program = t /\ g[n].why = e.why
  BY <1>1, <1>2, <1>7, StartStates
<1>9. /\ Len(f) = n /\ m[t] = e /\ \A u \in ExcTypes : u # t => m[u] = k[u]
  BY DEF n
<1> HIDE DEF m
<1>10. \A i \in 2..n : g[i].state.program \in ExcTypes /\ g[i].state.program # t
  BY <1>1, <1>8, <1>9 DEF Nested
<1>11. /\ g[1].state.program = "main"
       /\ \A i \in 2..n + 1 : g[i].state.program \in ExcTypes
       /\ \A i, j \in 2..n + 1 : g[i].state.program = g[j].state.program => i = j
  <2>1. g[1].state.program = "main"
    BY <1>1, <1>8, <1>9 DEF Nested
  <2>2. \A i \in 2..n + 1 : i \in 2..n \/ i = n + 1
    BY <1>1
  <2>3. \A i, j \in 2..n : g[i].state.program = g[j].state.program => i = j
    BY <1>1, <1>8, <1>9 DEF Nested
  <2> QED
    BY <1>8, <1>10, <2>1, <2>2, <2>3
<1>12. ASSUME NEW i \in 1..n
       PROVE  LET kept == m[g[i + 1].state.program]
              IN  /\ Timed(kept.state) /\ Untimed(kept.state) = Untimed(g[i].state)
                  /\ kept.why = g[i].why
  <2>1. CASE i = n
    BY <1>8, <1>9, <2>1 DEF Last
  <2>2. CASE i # n
    <3>1. i \in 1..n - 1 /\ i + 1 \in 2..n
      BY <1>1, <2>2
    <3>2. m[g[i + 1].state.program] = k[f[i + 1].state.program]
      BY <1>8, <1>9, <1>10, <3>1
    <3> QED
      BY <1>7, <1>8, <1>9, <3>1, <3>2 DEF Nested
  <2> QED
    BY <2>1, <2>2
<1>13. Nested(g, m)
  <2>1. Len(g) >= 1 /\ Len(g) - 1 = n
    BY <1>1, <1>7
  <2> QED
    BY <1>7, <1>11, <1>12, <2>1 DEF Nested
<1>14. Last(g).state = c
  BY <1>2, <1>7 DEF Last
<1> QED
  BY <1>7, <1>13, <1>14 DEF g, h, a, b, m

\* What a handler at work was passed.
LEMMA NestedPassed ==
    ASSUME NEW f \in Seq(Frames), NEW k \in [ExcTypes -> Frames], Nested(f, k),
           Last(f).state.program \in ExcTypes
    PROVE  LET t == Last(f).state.program
               s == Last(Front(f)).state
           IN  /\ s \in States
               /\ Timed(k[t].state) /\ Untimed(k[t].state) = Untimed(s)
<1> DEFINE n == Len(f)  h == Front(f)
<1>1. n \in Nat /\ n >= 2 /\ f \in [1..n -> Frames] /\ Last(f) = f[n]
  BY Names DEF Nested, Last
<1>2. /\ h \in Seq(Frames) /\ Len(h) = n - 1
      /\ \A i \in 1..n - 1 : h[i] = f[i]
  <2>1. Len(f) >= 1
    BY <1>1
  <2> QED
    BY <2>1, FrontProperty
<1>3. Last(h) = f[n - 1] /\ f[n - 1] \in Frames
  BY <1>1, <1>2 DEF Last
<1> HIDE DEF h, n
<1>4. n - 1 \in 1..n - 1 /\ n - 1 + 1 = n /\ Len(f) = n
  BY <1>1 DEF n
<1>5. Timed(k[f[n].state.program].state) /\ Untimed(k[f[n].state.program].state) = Untimed(f[n - 1].state)
  BY <1>4 DEF Nested
<1> QED
  BY <1>1, <1>3, <1>5 DEF h, Frames

\* A handler is done, and the program under it goes on in y.
LEMMA NestedReturn ==
    ASSUME NEW f \in Seq(Frames), NEW k \in [ExcTypes -> Frames], Nested(f, k),
           Last(f).state.program \in ExcTypes, NEW e \in Frames,
           NEW y \in States, y.program = Last(Front(f)).state.program
    PROVE  LET t == Last(f).state.program
               g == Append(Front(Front(f)), Frame(y, "none"))
           IN  /\ g \in Seq(Frames) /\ Nested(g, [k EXCEPT ![t] = e])
               /\ Last(g).state = y
<1> DEFINE n == Len(f)  t == Last(f).state.program  m == [k EXCEPT ![t] = e]
           h == Front(f)  x == Frame(y, "none")  g == Append(Front(h), x)
<1>1. n \in Nat /\ n >= 2 /\ f \in [1..n -> Frames] /\ t = f[n].state.program
  BY Names DEF Nested, Last
<1>2. /\ h \in Seq(Frames) /\ Len(h) = n - 1
      /\ \A i \in 1..n - 1 : h[i] = f[i]
  <2>1. Len(f) >= 1
    BY <1>1
  <2> QED
    BY <2>1, FrontProperty
<1>3. x \in Frames /\ x.state = y /\ y.program = f[n - 1].state.program
  <2>1. Last(h) = f[n - 1]
    BY <1>1, <1>2 DEF Last
  <2> QED
    BY <2>1 DEF Frame, Frames
<1> HIDE DEF h, x, n
<1>4. Len(h) >= 1 /\ Len(h) - 1 = n - 2
  BY <1>1, <1>2
<1>5. /\ g \in Seq(Frames) /\ Len(g) = Len(h) /\ g[Len(h)] = x /\ Last(g) = x
      /\ \A i \in 1..Len(h) - 1 : g[i] = h[i]
  BY <1>2, <1>3, <1>4, FrontAppend
<1> HIDE DEF g
<1>6. /\ g \in Seq(Frames) /\ Len(g) = n - 1 /\ g[n - 1] = x /\ Last(g) = x
      /\ \A i \in 1..n - 2 : g[i] = f[i]
  <2>1. \A i \in 1..n - 2 : i \in 1..n - 1
    BY <1>1
  <2> QED
    BY <1>2, <1>4, <1>5, <2>1
<1>7. /\ \A i \in 1..n - 1 : g[i].state.program = f[i].state.program
      /\ \A i \in 1..n - 2 : g[i].state = f[i].state
  BY <1>1, <1>3, <1>6
<1>8. /\ Len(f) = n /\ t \in ExcTypes /\ \A u \in ExcTypes : u # t => m[u] = k[u]
  BY DEF n
<1> HIDE DEF m
<1>9. \A i \in 2..n - 1 : g[i].state.program \in ExcTypes /\ g[i].state.program # t
  <2> SUFFICES ASSUME NEW i \in 2..n - 1
               PROVE  f[i].state.program \in ExcTypes /\ f[i].state.program # t
    BY <1>7
  <2>1. i \in 2..n /\ n \in 2..n /\ i # n
    BY <1>1
  <2> QED
    BY <1>1, <1>8, <2>1 DEF Nested
<1>10. /\ n - 1 >= 1 /\ g[1].state.program = "main"
       /\ \A i, j \in 2..n - 1 : g[i].state.program = g[j].state.program => i = j
  <2>1. \A i \in 2..n - 1 : i \in 2..n /\ i \in 1..n - 1
    BY <1>1
  <2>2. n - 1 >= 1 /\ 1 \in 1..n - 1
    BY <1>1
  <2> QED
    BY <1>7, <1>8, <2>1, <2>2 DEF Nested
<1>11. ASSUME NEW i \in 1..n - 2
       PROVE  LET kept == m[g[i + 1].state.program]
              IN  /\ Timed(kept.state) /\ Untimed(kept.state) = Untimed(g[i].state)
                  /\ kept.why = g[i].why
  <2>1. i + 1 \in 2..n - 1 /\ i \in 1..n - 1 /\ i + 1 \in 1..n - 1
    BY <1>1
  <2>2. m[g[i + 1].state.program] = k[f[i + 1].state.program]
    BY <1>7, <1>8, <1>9, <2>1
  <2> QED
    BY <1>6, <1>7, <1>8, <2>1, <2>2 DEF Nested
<1>12. Nested(g, m)
  <2>1. Len(g) = n - 1 /\ Len(g) - 1 = n - 2
    BY <1>1, <1>6
  <2> QED
    BY <1>9, <1>10, <1>11, <2>1 DEF Nested
<1> QED
  BY <1>3, <1>6, <1>12 DEF g, h, x, m

----------------------------------------------------------------------------
(* Out of the nucleus.                                                     *)

\* What a step that ends in LDST has to bring about.
DataOk ==
    /\ p_sup \in [Procs -> BOOLEAN]
    /\ sup_exceptState \in [Procs -> [ExcTypes -> Frames]]
    /\ frames \in [Procs -> Seq(Frames)]

LEMMA InitInv == Init => IInv
<1> SUFFICES ASSUME Init PROVE IInv
  OBVIOUS
<1> DEFINE s == Fresh({"TEBITON"})  x == Frame(s, "none")
<1>1. 1 \in Procs /\ NULL \notin Procs
  BY ContextsAssumption DEF Procs, NULL
<1>2. /\ NoState \in States /\ s \in States /\ s.program = "main" /\ Timed(s)
      /\ x \in Frames /\ x.state = s /\ Frame(NoState, "none") \in Frames
  BY StartStates DEF Fresh, Timed, Frame, Frames
<1> HIDE DEF s, x
<1>3. <<x>> \in Seq(Frames) /\ Len(<<x>>) = 1 /\ <<x>>[1] = x
  BY <1>2
<1>4. /\ frames = [p \in Procs |-> IF p = 1 THEN <<x>> ELSE <<>>]
      /\ cpu = s /\ p_s = [p \in Procs |-> NoState]
  BY DEF Init, s, x
<1> DEFINE f == <<x>>
<1>5. f \in Seq(Frames) /\ Len(f) = 1 /\ f[1] = x
  BY <1>3
<1> HIDE DEF f
<1>6. frames = [p \in Procs |-> IF p = 1 THEN f ELSE <<>>]
  BY <1>4 DEF f
<1>7. TypeInv
  <2>1. sup_exceptState \in [Procs -> [ExcTypes -> Frames]]
    BY <1>2 DEF Init, Empty
  <2>2. frames \in [Procs -> Seq(Frames)]
    BY <1>5, <1>6
  <2> QED
    BY <1>1, <1>2, <1>4, <2>1, <2>2 DEF Init, TypeInv, Places
<1>8. \A p \in Procs : p \in Alive <=> p = 1
  BY DEF Init, Alive
<1>9. At(1) = s /\ \A k : Nested(f, k)
  <2>1. At(1) = s
    BY <1>1, <1>2, <1>5, <1>6 DEF At, Last
  <2> QED
    BY <1>2, <1>5, <2>1 DEF Nested
<1>10. GoesOnInv
  BY <1>1, <1>2, <1>4, <1>8, <1>9 DEF Init, GoesOnInv, Current, NULL, Alive
<1>11. HandlerInv
  BY <1>1, <1>6, <1>8, <1>9 DEF Init, HandlerInv, Alive
<1> QED
  BY <1>7, <1>10, <1>11 DEF IInv

LEMMA ScheduledInv ==
    ASSUME IInv, NEW where \in [Procs -> Places], NEW states \in [Procs -> States],
           Scheduler(where, states), \A q \in Procs : where[q] # "running",
           DataOk', \A q \in Procs : where[q] # "free" =>
                       /\ Untimed(states[q]) = Untimed(Last(frames'[q]).state)
                       /\ Nested(frames'[q], sup_exceptState'[q])
    PROVE  IInv'
<1>1. NULL \notin Procs /\ NoState \in States
  BY StartStates DEF Procs, NULL
<1>2. CASE /\ currentProc' = NULL /\ place' = where /\ p_s' = states /\ LDST(NoState)
  <2>1. TypeInv'
    BY <1>1, <1>2 DEF TypeInv, DataOk, LDST
  <2>2. GoesOnInv'
    BY <1>1, <1>2 DEF GoesOnInv, LDST, Alive, At
  <2>3. HandlerInv'
    BY <1>1, <1>2 DEF HandlerInv, LDST, Alive
  <2> QED
    BY <2>1, <2>2, <2>3 DEF IInv
<1>3. ASSUME NEW p \in Procs, where[p] = "ready",
             /\ currentProc' = p
             /\ place' = [where EXCEPT ![p] = "running"]
             /\ p_s' = [states EXCEPT ![p] = NoState]
             /\ LDST([states[p] EXCEPT !.status = @ \cup {"TEBITON"}])
      PROVE  IInv'
  <2> DEFINE w == [states[p] EXCEPT !.status = @ \cup {"TEBITON"}]
  <2>1. w \in States /\ Timed(w) /\ Untimed(w) = Untimed(states[p])
    BY WithTimer
  <2>2. LDST(w)
    BY <1>3
  <2> HIDE DEF w
  <2>3. /\ p_s' \in [Procs -> States]
        /\ \A q \in Procs : q # p => p_s'[q] = states[q]
    BY <1>1, <1>3
  <2>4. /\ place' \in [Procs -> Places] /\ place'[p] = "running"
        /\ \A q \in Procs : q # p => place'[q] = where[q]
    BY <1>3 DEF Places
  <2>5. cause' = "none" /\ cpu' = w /\ saved' = NoState
    BY <2>2 DEF LDST
  <2>6. TypeInv'
    BY <1>1, <1>3, <2>1, <2>3, <2>4, <2>5 DEF TypeInv, DataOk
  <2>7. \A q \in Procs : where[q] # "free" =>
           Untimed(IF q = p THEN w ELSE p_s'[q]) = Untimed(At(q))'
    BY <1>3, <2>1, <2>3 DEF At
  <2>8. GoesOnInv'
    <3>1. \A q \in Procs : place'[q] = "running" <=> q = currentProc'
      BY <1>3, <2>4
    <3>2. \A q \in Alive' : where[q] # "free"
      BY <1>3, <2>4 DEF Alive
    <3>3. Untimed(Current') = Untimed(At(p))' /\ Timed(Current')
      BY <1>3, <2>1, <2>3, <2>5, <2>7 DEF Current
    <3> QED
      BY <1>1, <1>3, <2>7, <3>1, <3>2, <3>3 DEF GoesOnInv, Alive
  <2>9. HandlerInv'
    BY <1>3, <2>4, <2>5 DEF HandlerInv, Alive
  <2> QED
    BY <2>6, <2>8, <2>9 DEF IInv
<1> QED
  BY <1>2, <1>3 DEF Scheduler

LEMMA ResumedInv ==
    ASSUME currentProc \in Procs, NEW s \in States, Resume(s), Timed(s),
           Untimed(s) = Untimed(Last(frames'[currentProc]).state),
           place' \in [Procs -> Places], p_s' \in [Procs -> States], DataOk',
           \A q \in Procs : place'[q] = "running" <=> q = currentProc,
           \A q \in Procs : place'[q] # "free" =>
              /\ q # currentProc => Untimed(p_s'[q]) = Untimed(Last(frames'[q]).state)
              /\ Nested(frames'[q], sup_exceptState'[q])
    PROVE  IInv'
<1>1. NULL \notin Procs /\ NoState \in States
  BY StartStates DEF Procs, NULL
<1>2. cause' = "none" /\ cpu' = s /\ saved' = NoState /\ currentProc' = currentProc
  BY DEF Resume, LDST
<1>3. TypeInv'
  BY <1>1, <1>2 DEF TypeInv, DataOk
<1>4. GoesOnInv'
  BY <1>1, <1>2 DEF GoesOnInv, Alive, At, Current
<1>5. HandlerInv'
  BY <1>2 DEF HandlerInv, Alive
<1> QED
  BY <1>3, <1>4, <1>5 DEF IInv

----------------------------------------------------------------------------
(* The steps.                                                              *)

\* The current process runs, and nobody else.
LEMMA CurrentRuns ==
    ASSUME IInv
    PROVE  /\ NULL \notin Procs /\ DataOk
           /\ currentProc # NULL => currentProc \in Procs /\ place[currentProc] = "running"
           /\ \A q \in Procs : q # currentProc => place[q] # "running"
           /\ \A q \in Procs : place[q] # "free" => Nested(frames[q], sup_exceptState[q])
           /\ \A q \in Procs : place[q] # "free" /\ q # currentProc =>
                 Untimed(p_s[q]) = Untimed(Last(frames[q]).state)
<1>1. NULL \notin Procs
  BY DEF Procs, NULL
<1> QED
  BY <1>1 DEF IInv, TypeInv, GoesOnInv, HandlerInv, DataOk, Alive, At

\* A process that has a frame is somewhere.
LEMMA LastType ==
    ASSUME IInv, NEW p \in Procs, place[p] # "free"
    PROVE  /\ frames[p] \in Seq(Frames) /\ Len(frames[p]) >= 1
           /\ Last(frames[p]) \in Frames /\ At(p) \in States
<1>1. frames[p] \in Seq(Frames) /\ Len(frames[p]) >= 1
  BY CurrentRuns DEF IInv, TypeInv, Nested
<1>2. frames[p][Len(frames[p])] \in Frames
  BY <1>1
<1> QED
  BY <1>1, <1>2 DEF At, Last, Frames

\* A program goes on with s.
LEMMA Expected ==
    ASSUME IInv, NEW p \in Procs, place[p] # "free",
           NEW s \in States, s.program = At(p).program, frames' = Expect(p, s)
    PROVE  /\ frames' \in [Procs -> Seq(Frames)]
           /\ \A q \in Procs : q # p => frames'[q] = frames[q]
           /\ Last(frames'[p]).state = s /\ Nested(frames'[p], sup_exceptState[p])
           /\ \A t : Handling(p, t)' <=> Handling(p, t)
<1> DEFINE f == frames[p]  g == Append(Front(f), Frame(s, "none"))
<1>1. f \in Seq(Frames) /\ Nested(f, sup_exceptState[p]) /\ s.program = Last(f).state.program
  BY CurrentRuns, LastType DEF At
<1>2. /\ g \in Seq(Frames) /\ Nested(g, sup_exceptState[p]) /\ Last(g).state = s
      /\ \A t : (\E i \in DOMAIN g : g[i].state.program = t)
                   <=> \E i \in DOMAIN f : f[i].state.program = t
  BY <1>1, NestedExpect
<1>3. frames' = [frames EXCEPT ![p] = g]
  BY DEF Expect
<1> HIDE DEF g
<1>4. frames'[p] = g
  BY <1>3 DEF IInv, TypeInv
<1> QED
  BY <1>2, <1>3, <1>4 DEF IInv, TypeInv, Handling

\* The hardware takes the state of the process that runs.
LEMMA ExceptionInv ==
    ASSUME ~NestedTraps, IInv, NEW c \in {"SYS", "INT", "TLB", "other"}, NEW code \in Int,
           Exception(c, code)
    PROVE  IInv'
<1>1. /\ cause = "none" /\ cause' = c /\ a0' = code /\ saved' = cpu /\ cpu' = NoState
      /\ UNCHANGED <<currentProc, place, p_s, p_sup, sup_exceptState>>
      /\ NoState \in States
  BY StartStates DEF Exception
<1>2. CASE currentProc = NULL
  <2>1. c = "INT" /\ frames' = frames
    BY <1>2 DEF Exception
  <2>2. TypeInv'
    BY <1>1, <2>1 DEF IInv, TypeInv
  <2>3. GoesOnInv'
    BY <1>1, <1>2, <2>1, CurrentRuns DEF IInv, GoesOnInv, Alive, At
  <2>4. HandlerInv'
    BY <1>1, <1>2, <2>1 DEF IInv, HandlerInv, Alive
  <2> QED
    BY <2>2, <2>3, <2>4 DEF IInv
<1>3. CASE currentProc # NULL
  <2>0. PICK p \in Procs : p = currentProc
    BY <1>3, CurrentRuns
  <2>1. /\ place[p] = "running" /\ At(p) \in States
        /\ ~(PassedUp(c, code, cpu) /\ Handling(p, ExcType(c)))
    BY <1>3, <2>0, CurrentRuns, LastType DEF Exception
  <2>2. cpu \in States /\ Untimed(cpu) = Untimed(At(p)) /\ Timed(cpu)
    BY <1>1, <1>3, <2>0 DEF IInv, TypeInv, GoesOnInv, Current
  <2>3. CASE c = "SYS"
    <3> DEFINE s == After(At(p))
    <3>1. s \in States /\ s.program = At(p).program
      BY <2>1, Skipped
    <3>2. frames' = Expect(p, s)
      BY <2>0, <2>3, <1>3 DEF Exception
    <3>3. /\ frames' \in [Procs -> Seq(Frames)]
          /\ \A q \in Procs : q # p => frames'[q] = frames[q]
          /\ Last(frames'[p]).state = s /\ Nested(frames'[p], sup_exceptState[p])
          /\ \A t : Handling(p, t)' <=> Handling(p, t)
      <4> HIDE DEF s
      <4> QED
        BY <2>1, <3>1, <3>2, Expected
    <3>4. TypeInv'
      BY <1>1, <2>2, <3>3 DEF IInv, TypeInv
    <3>5. Untimed(Current)' = Untimed(At(p))' /\ Timed(Current')
      BY <1>1, <2>1, <2>2, <2>3, <3>3, Skipped, SkippedAlike DEF Current, At, Timed
    <3>6. GoesOnInv'
      BY <1>1, <1>3, <2>0, <3>3, <3>5, CurrentRuns DEF IInv, GoesOnInv, Alive, At
    <3>7. HandlerInv'
      BY <1>1, <2>0, <2>1, <3>3, CurrentRuns DEF HandlerInv, Alive
    <3> QED
      BY <3>4, <3>6, <3>7 DEF IInv
  <2>4. CASE c # "SYS"
    <3>1. frames' = frames
      BY <1>3, <2>4 DEF Exception
    <3>2. TypeInv'
      BY <1>1, <2>2, <3>1 DEF IInv, TypeInv
    <3>3. GoesOnInv'
      BY <1>1, <1>3, <2>0, <2>2, <2>4, <3>1 DEF IInv, GoesOnInv, Alive, At, Current
    <3>4. HandlerInv'
      BY <1>1, <2>0, <2>1, <3>1, CurrentRuns DEF HandlerInv, Alive, Handling
    <3> QED
      BY <3>2, <3>3, <3>4 DEF IInv
  <2> QED
    BY <2>3, <2>4
<1> QED
  BY <1>2, <1>3

\* The dead leave, whether the caller is one of them or not.
LEMMA KillInv ==
    ASSUME IInv, currentProc # NULL, NEW D \in SUBSET Procs, NEW s \in States, Kill(D, s),
           Timed(s), Untimed(s) = Untimed(At(currentProc))
    PROVE  IInv'
<1> DEFINE where  == [p \in Procs |-> IF p \in D THEN "free" ELSE place[p]]
           states == [p \in Procs |-> IF p \in D THEN NoState ELSE p_s[p]]
<1>1. /\ frames' = [p \in Procs |-> IF p \in D THEN <<>> ELSE frames[p]]
      /\ p_sup' = [p \in Procs |-> p_sup[p] /\ p \notin D]
      /\ sup_exceptState' = [p \in Procs |-> IF p \in D THEN Empty ELSE sup_exceptState[p]]
      /\ IF currentProc \in D THEN Scheduler(where, states)
         ELSE Resume(s) /\ place' = where /\ p_s' = states
  BY DEF Kill
<1>2. where \in [Procs -> Places] /\ states \in [Procs -> States]
  BY StartStates DEF IInv, TypeInv, Places
<1>3. /\ \A p \in Procs : p \in D => where[p] = "free"
      /\ \A p \in Procs : p \notin D => /\ where[p] = place[p] /\ states[p] = p_s[p]
                                        /\ frames'[p] = frames[p]
                                        /\ sup_exceptState'[p] = sup_exceptState[p]
  BY <1>1
<1> HIDE DEF where, states
<1>4. DataOk'
  <2>1. Empty \in [ExcTypes -> Frames] /\ <<>> \in Seq(Frames)
    BY StartStates DEF Empty, Frame, Frames
  <2> QED
    BY <1>1, <2>1, CurrentRuns DEF DataOk
<1>5. currentProc \in Procs /\ \A q \in Procs : place[q] = "running" <=> q = currentProc
  BY CurrentRuns
<1>6. \A q \in Procs : where[q] # "free" =>
         /\ q # currentProc => Untimed(states[q]) = Untimed(Last(frames'[q]).state)
         /\ Nested(frames'[q], sup_exceptState'[q])
  BY <1>3, CurrentRuns
<1>7. CASE currentProc \in D
  <2>1. \A q \in Procs : where[q] # "running"
    BY <1>3, <1>5, <1>7
  <2>2. \A q \in Procs : where[q] # "free" => q # currentProc
    BY <1>3, <1>7
  <2> QED
    BY <1>1, <1>2, <1>4, <1>6, <1>7, <2>1, <2>2, ScheduledInv
<1>8. CASE currentProc \notin D
  <2>1. \A q \in Procs : where[q] = "running" <=> q = currentProc
    BY <1>3, <1>5, <1>8
  <2>2. Resume(s) /\ place' = where /\ p_s' = states
    BY <1>1, <1>8
  <2>3. Untimed(s) = Untimed(Last(frames'[currentProc]).state)
    BY <1>3, <1>5, <1>8 DEF At
  <2> QED
    BY <1>2, <1>4, <1>5, <1>6, <2>1, <2>2, <2>3, ResumedInv
<1> QED
  BY <1>7, <1>8

\* The exception is passed up, or the process dies with all it has created.
LEMMA PassUpOrDieInv ==
    ASSUME IInv, currentProc # NULL, NEW t \in ExcTypes, ~Handling(currentProc, t),
           NEW s \in States, Timed(s), Untimed(s) = Untimed(At(currentProc)),
           NEW why \in {"SYS", "RI", "TLB", "other"}, PassUpOrDie(t, s, why, why)
    PROVE  IInv'
<1>1. CASE \E D \in Victims : currentProc \in D /\ Kill(D, s)
  <2>1. PICK D \in SUBSET Procs : Kill(D, s)
    BY <1>1 DEF Victims, Alive
  <2> QED
    BY <2>1, KillInv
<1>2. CASE /\ sup_exceptState' = [sup_exceptState EXCEPT ![currentProc][t] = Frame(s, why)]
           /\ \E status \in Statuses :
                 /\ frames' = ExpectHandler(currentProc, Context(t, status), why)
                 /\ Resume(Context(t, status))
           /\ UNCHANGED <<place, p_s, p_sup>>
  <2>0. PICK c \in States : /\ c.program = t /\ Timed(c)
                            /\ frames' = ExpectHandler(currentProc, c, why) /\ Resume(c)
    BY <1>2, StartStates
  <2>1. PICK p \in Procs : p = currentProc /\ place[p] = "running"
    BY CurrentRuns
  <2> DEFINE f == frames[p]  k == sup_exceptState[p]  e == Frame(s, why)
             g == Front(f) \o <<Frame(Last(f).state, e.why), Frame(c, "none")>>
             m == [k EXCEPT ![t] = e]
  <2>2. e \in Frames /\ e.state = s /\ e.why = why
    BY DEF Frame, Frames
  <2>3. /\ f \in Seq(Frames) /\ k \in [ExcTypes -> Frames] /\ Nested(f, k)
        /\ \A i \in DOMAIN f : f[i].state.program # t
        /\ Untimed(e.state) = Untimed(Last(f).state) /\ Timed(e.state)
    BY <2>1, <2>2, CurrentRuns DEF IInv, TypeInv, At, Handling
  <2>4. frames' = [frames EXCEPT ![p] = g] /\ sup_exceptState' = [sup_exceptState EXCEPT ![p] = m]
    BY <1>2, <2>0, <2>1, <2>2 DEF ExpectHandler, At
  <2> HIDE DEF e, f, k
  <2>5. /\ g \in Seq(Frames) /\ Nested(g, m) /\ Last(g).state = c
    <3>1. c \in States /\ c.program = t
      BY <2>0
    <3> QED
      BY <2>2, <2>3, <3>1, NestedHandler
  <2>6. m \in [ExcTypes -> Frames]
    BY <2>2, <2>3
  <2> HIDE DEF g, m, f, k
  <2>7. /\ frames' \in [Procs -> Seq(Frames)] /\ frames'[p] = g
        /\ sup_exceptState' \in [Procs -> [ExcTypes -> Frames]] /\ sup_exceptState'[p] = m
        /\ \A q \in Procs : q # p => /\ frames'[q] = frames[q]
                                     /\ sup_exceptState'[q] = sup_exceptState[q]
    BY <2>4, <2>5, <2>6 DEF IInv, TypeInv
  <2>8. DataOk' /\ place' = place /\ p_s' = p_s
    BY <1>2, <2>7 DEF DataOk, IInv, TypeInv
  <2>9. \A q \in Procs : place'[q] # "free" =>
              /\ q # currentProc => Untimed(p_s'[q]) = Untimed(Last(frames'[q]).state)
              /\ Nested(frames'[q], sup_exceptState'[q])
    BY <2>1, <2>5, <2>7, <2>8, CurrentRuns
  <2>10. Resume(c) /\ Timed(c) /\ Untimed(c) = Untimed(Last(frames'[currentProc]).state)
    BY <2>0, <2>1, <2>5, <2>7
  <2>11. /\ place' \in [Procs -> Places] /\ p_s' \in [Procs -> States]
         /\ \A q \in Procs : place'[q] = "running" <=> q = currentProc
    BY <2>1, <2>8, CurrentRuns DEF IInv, TypeInv
  <2> QED
    BY <2>1, <2>8, <2>9, <2>10, <2>11, ResumedInv
<1> QED
  BY <1>1, <1>2 DEF PassUpOrDie

\* A call returns with v, perhaps with a new process.
LEMMA ReturnInv ==
    ASSUME IInv, currentProc # NULL, NEW s \in States, NEW v \in Int,
           Timed(s), Untimed(s) = Untimed(At(currentProc)), Return(s, v)
    PROVE  IInv'
<1>1. PICK p \in Procs : p = currentProc /\ place[p] = "running"
  BY CurrentRuns
<1> DEFINE r == [s EXCEPT !.v0 = v]  x == [At(p) EXCEPT !.v0 = v]
<1>2. At(p) \in States
  BY <1>1, LastType
<1>3. /\ r \in States /\ Timed(r) /\ x \in States /\ x.program = At(p).program
      /\ Untimed(r) = Untimed(x)
  BY <1>1, <1>2, WithResult
<1>4. Resume(r) /\ frames' = Expect(p, x) /\ UNCHANGED <<place, p_s, p_sup, sup_exceptState>>
  BY <1>1 DEF Return
<1> HIDE DEF r, x
<1>5. /\ frames' \in [Procs -> Seq(Frames)]
      /\ \A q \in Procs : q # p => frames'[q] = frames[q]
      /\ Last(frames'[p]).state = x /\ Nested(frames'[p], sup_exceptState[p])
  BY <1>1, <1>3, <1>4, Expected
<1>6. DataOk'
  BY <1>4, <1>5 DEF DataOk, IInv, TypeInv
<1>7. /\ Untimed(r) = Untimed(Last(frames'[currentProc]).state)
      /\ place' \in [Procs -> Places] /\ p_s' \in [Procs -> States]
      /\ \A q \in Procs : place'[q] = "running" <=> q = currentProc
  BY <1>1, <1>3, <1>4, <1>5, CurrentRuns DEF IInv, TypeInv
<1>8. \A q \in Procs : place'[q] # "free" =>
              /\ q # currentProc => Untimed(p_s'[q]) = Untimed(Last(frames'[q]).state)
              /\ Nested(frames'[q], sup_exceptState'[q])
  BY <1>1, <1>4, <1>5, CurrentRuns
<1> QED
  BY <1>1, <1>3, <1>4, <1>6, <1>7, <1>8, ResumedInv

LEMMA CreateProcessInv ==
    ASSUME IInv, currentProc # NULL, NEW s \in States,
           Timed(s), Untimed(s) = Untimed(At(currentProc)), CreateProcess(s)
    PROVE  IInv'
<1>1. CASE Return(s, -1)
  BY <1>1, ReturnInv
<1>2. ASSUME NEW c \in Procs \ Alive, NEW status \in SUBSET {"USERPON"}, NEW sup \in BOOLEAN,
             /\ place' = [place EXCEPT ![c] = "ready"]
             /\ p_s' = [p_s EXCEPT ![c] = Fresh(status)]
             /\ p_sup' = [p_sup EXCEPT ![c] = sup]
             /\ Resume([s EXCEPT !.v0 = c])
             /\ frames' = [Expect(currentProc, [At(currentProc) EXCEPT !.v0 = c])
                               EXCEPT ![c] = <<Frame(Fresh(status), "none")>>]
             /\ UNCHANGED sup_exceptState
      PROVE  IInv'
  <2>1. PICK p \in Procs : p = currentProc /\ place[p] = "running"
    BY CurrentRuns
  <2> DEFINE r == [s EXCEPT !.v0 = c]  x == [At(p) EXCEPT !.v0 = c]  n == Fresh(status)
             f == Append(Front(frames[p]), Frame(x, "none"))  g == <<Frame(n, "none")>>
  <2>2. At(p) \in States /\ c \in Int /\ c # p /\ place[c] = "free"
    BY <2>1, LastType DEF Procs, Alive
  <2>3. /\ r \in States /\ Timed(r) /\ x \in States /\ x.program = At(p).program
        /\ Untimed(r) = Untimed(x)
    BY <2>1, <2>2, WithResult
  <2>4. n \in States /\ n.program = "main"
    BY StartStates
  <2>5. Resume(r) /\ p_s' = [p_s EXCEPT ![c] = n]
        /\ frames' = [[frames EXCEPT ![p] = f] EXCEPT ![c] = g]
    BY <1>2, <2>1 DEF Expect
  <2> HIDE DEF r, x, n
  <2>6. /\ frames[p] \in Seq(Frames) /\ Nested(frames[p], sup_exceptState[p])
        /\ x.program = Last(frames[p]).state.program
    BY <2>1, <2>3, CurrentRuns, LastType DEF At
  <2>7. f \in Seq(Frames) /\ Nested(f, sup_exceptState[p]) /\ Last(f).state = x
    BY <2>3, <2>6, NestedExpect
  <2>8. g \in Seq(Frames) /\ Last(g).state = n /\ \A k : Nested(g, k)
    <3> DEFINE y == Frame(n, "none")
    <3>1. y \in Frames /\ y.state = n
      BY <2>4 DEF Frame, Frames
    <3> HIDE DEF y
    <3>2. <<y>> \in Seq(Frames) /\ Len(<<y>>) = 1 /\ <<y>>[1] = y
      BY <3>1
    <3> DEFINE h == <<y>>
    <3>3. h \in Seq(Frames) /\ Len(h) = 1 /\ h[1] = y
      BY <3>2
    <3> HIDE DEF h
    <3>4. h \in Seq(Frames) /\ Last(h).state = n /\ \A k : Nested(h, k)
      BY <2>4, <3>1, <3>3 DEF Nested, Last
    <3> QED
      BY <3>4 DEF h, y
  <2> HIDE DEF f, g
  <2>9. /\ frames' \in [Procs -> Seq(Frames)] /\ frames'[p] = f /\ frames'[c] = g
        /\ \A q \in Procs : q # p /\ q # c => frames'[q] = frames[q]
    BY <2>2, <2>5, <2>7, <2>8 DEF IInv, TypeInv
  <2>10. DataOk' /\ place' \in [Procs -> Places] /\ p_s' \in [Procs -> States]
    <3>1. p_sup' \in [Procs -> BOOLEAN] /\ UNCHANGED sup_exceptState
      BY <1>2 DEF IInv, TypeInv
    <3>2. place' \in [Procs -> Places] /\ p_s' \in [Procs -> States]
      BY <1>2, <2>4, <2>5 DEF IInv, TypeInv, Places
    <3> QED
      BY <2>9, <3>1, <3>2 DEF DataOk, IInv, TypeInv
  <2>11. \A q \in Procs : place'[q] = "running" <=> q = currentProc
    BY <1>2, <2>1, <2>2, CurrentRuns DEF IInv, TypeInv
  <2>12. p_s'[c] = n /\ \A q \in Procs : q # c => p_s'[q] = p_s[q] /\ place'[q] = place[q]
    BY <1>2, <2>5 DEF IInv, TypeInv
  <2>13. \A q \in Procs : place'[q] # "free" =>
              /\ q # currentProc => Untimed(p_s'[q]) = Untimed(Last(frames'[q]).state)
              /\ Nested(frames'[q], sup_exceptState'[q])
    BY <1>2, <2>1, <2>7, <2>8, <2>9, <2>12, CurrentRuns
  <2>14. Untimed(r) = Untimed(Last(frames'[currentProc]).state)
    BY <2>1, <2>3, <2>7, <2>9
  <2> QED
    BY <2>1, <2>3, <2>5, <2>10, <2>11, <2>13, <2>14, ResumedInv
<1> QED
  BY <1>1, <1>2 DEF CreateProcess

\* The caller waits, with its state in p_s.
LEMMA BlockInv ==
    ASSUME IInv, currentProc # NULL, NEW s \in States,
           Untimed(s) = Untimed(At(currentProc)),
           NEW what \in Places \ {"free", "running"}, Block(s, what)
    PROVE  IInv'
<1>1. PICK p \in Procs : p = currentProc /\ place[p] = "running"
  BY CurrentRuns
<1> DEFINE where == [place EXCEPT ![p] = what]  states == [p_s EXCEPT ![p] = s]
<1>2. Scheduler(where, states) /\ UNCHANGED <<p_sup, sup_exceptState, frames>>
  BY <1>1 DEF Block
<1>3. /\ where \in [Procs -> Places] /\ states \in [Procs -> States]
      /\ where[p] = what /\ states[p] = s
      /\ \A q \in Procs : q # p => where[q] = place[q] /\ states[q] = p_s[q]
  BY DEF IInv, TypeInv
<1> HIDE DEF where, states
<1>4. \A q \in Procs : where[q] # "running"
  BY <1>1, <1>3, CurrentRuns
<1>5. \A q \in Procs : where[q] # "free" =>
         /\ Untimed(states[q]) = Untimed(Last(frames'[q]).state)
         /\ Nested(frames'[q], sup_exceptState'[q])
  BY <1>1, <1>2, <1>3, CurrentRuns DEF At
<1>6. DataOk'
  BY <1>2, CurrentRuns DEF DataOk
<1> QED
  BY <1>2, <1>3, <1>4, <1>5, <1>6, ScheduledInv

LEMMA SemOpInv ==
    ASSUME IInv, currentProc # NULL, NEW s \in States,
           Timed(s), Untimed(s) = Untimed(At(currentProc)), SemOp(s)
    PROVE  IInv'
<1>1. CASE Block(s, "semaphore")
  BY <1>1, BlockInv DEF Places
<1>2. ASSUME Resume(s), UNCHANGED <<p_s, p_sup, sup_exceptState, frames>>,
             \/ UNCHANGED place
             \/ \E p \in Procs : /\ place[p] = "semaphore"
                                 /\ place' = [place EXCEPT ![p] = "ready"]
      PROVE  IInv'
  <2>1. place' \in [Procs -> Places] /\ \A q \in Procs :
           /\ place'[q] = "running" <=> place[q] = "running"
           /\ place'[q] = "free" <=> place[q] = "free"
    BY <1>2 DEF IInv, TypeInv, Places
  <2>2. DataOk' /\ p_s' \in [Procs -> States]
    BY <1>2 DEF DataOk, IInv, TypeInv
  <2>3. currentProc \in Procs /\ \A q \in Procs : place'[q] = "running" <=> q = currentProc
    BY <2>1, CurrentRuns
  <2>4. \A q \in Procs : place'[q] # "free" =>
              /\ q # currentProc => Untimed(p_s'[q]) = Untimed(Last(frames'[q]).state)
              /\ Nested(frames'[q], sup_exceptState'[q])
    BY <1>2, <2>1, CurrentRuns
  <2>5. Untimed(s) = Untimed(Last(frames'[currentProc]).state)
    BY <1>2 DEF At
  <2> QED
    BY <1>2, <2>1, <2>2, <2>3, <2>4, <2>5, ResumedInv
<1> QED
  BY <1>1, <1>2 DEF SemOp

\* System calls, served, refused and passed up.
LEMMA SyscallInv ==
    ASSUME IInv, SyscallHandler
    PROVE  IInv'
<1> DEFINE s == SkipSyscall(saved)
<1>1. cause = "SYS" /\ currentProc # NULL
  BY DEF SyscallHandler, IInv, GoesOnInv
<1>2. s \in States /\ Timed(s) /\ Untimed(s) = Untimed(At(currentProc))
  BY <1>1, Skipped DEF IInv, TypeInv, GoesOnInv, Current
<1>3. UserMode(s) <=> UserMode(saved)
  BY Skipped DEF UserMode, IInv, TypeInv
<1>4. \/ ~IsKernelCall(a0) /\ PassUpOrDie(GENERALEXCEPT, s, "SYS", "SYS")
      \/ IsKernelCall(a0) /\ UserMode(s) /\ PassUpOrDie(GENERALEXCEPT, s, "RI", "RI")
      \/ IsKernelCall(a0) /\ ~UserMode(s) /\ Service(a0, s)
  BY DEF SyscallHandler, RefusedCause
<1> HIDE DEF s
<1>5. ~IsKernelCall(a0) \/ UserMode(s) => ~Handling(currentProc, GENERALEXCEPT)
  BY <1>1, <1>3 DEF IInv, HandlerInv, PassedUp, ExcType
<1>6. GENERALEXCEPT \in ExcTypes
  BY DEF ExcTypes
<1>7. CASE ~IsKernelCall(a0) /\ PassUpOrDie(GENERALEXCEPT, s, "SYS", "SYS")
  BY <1>1, <1>2, <1>5, <1>6, <1>7, PassUpOrDieInv
<1>8. CASE IsKernelCall(a0) /\ UserMode(s) /\ PassUpOrDie(GENERALEXCEPT, s, "RI", "RI")
  BY <1>1, <1>2, <1>5, <1>6, <1>8, PassUpOrDieInv
<1>9. CASE Service(a0, s)
  <2>1. CASE CreateProcess(s)
    BY <1>1, <1>2, <2>1, CreateProcessInv
  <2>2. CASE \E D \in Victims : Kill(D, s)
    <3>1. PICK D \in SUBSET Procs : Kill(D, s)
      BY <2>2 DEF Victims, Alive
    <3> QED
      BY <1>1, <1>2, <3>1, KillInv
  <2>3. CASE SemOp(s)
    BY <1>1, <1>2, <2>3, SemOpInv
  <2>4. CASE Block(s, "device") \/ Block(s, "semaphore")
    BY <1>1, <1>2, <2>4, BlockInv DEF Places
  <2>5. CASE \E v \in Results(a0) : Return(s, v)
    <3>1. PICK v \in Int : Return(s, v)
      BY <2>5 DEF Results
    <3> QED
      BY <1>1, <1>2, <3>1, ReturnInv
  <2> QED
    BY <1>9, <2>1, <2>2, <2>3, <2>4, <2>5 DEF Service
<1> QED
  BY <1>4, <1>7, <1>8, <1>9

LEMMA TrapInv ==
    ASSUME IInv, TrapHandler
    PROVE  IInv'
<1>1. /\ cause \in {"TLB", "other"} /\ currentProc # NULL
      /\ PassUpOrDie(ExcType(cause), saved, cause, cause)
  BY DEF TrapHandler, IInv, GoesOnInv
<1>2. saved \in States /\ Timed(saved) /\ Untimed(saved) = Untimed(At(currentProc))
  BY <1>1 DEF IInv, TypeInv, GoesOnInv, Current
<1>3. ExcType(cause) \in ExcTypes /\ ~Handling(currentProc, ExcType(cause))
  BY <1>1 DEF IInv, HandlerInv, PassedUp, ExcType, ExcTypes
<1> QED
  <2>1. PICK c \in {"TLB", "other"} : c = cause
    BY <1>1
  <2>2. PICK t \in ExcTypes : t = ExcType(cause)
    BY <1>3
  <2>3. PICK s \in States : s = saved
    BY <1>2
  <2> QED
    BY <1>1, <1>2, <1>3, <2>1, <2>2, <2>3, PassUpOrDieInv

\* An interrupt is over: back to the process it interrupted, or to another.
LEMMA ExitIntInv ==
    ASSUME IInv, cause = "INT",
           NEW where \in [Procs -> Places], NEW states \in [Procs -> States],
           ExitIntHandler(where, states), UNCHANGED <<p_sup, sup_exceptState>>,
           frames' \in [Procs -> Seq(Frames)],
           \A q \in Procs : /\ where[q] = "running" <=> place[q] = "running"
                            /\ where[q] = "free" <=> place[q] = "free",
           \A q \in Procs : place[q] # "free" /\ q # currentProc =>
               /\ Untimed(states[q]) = Untimed(Last(frames'[q]).state)
               /\ Nested(frames'[q], sup_exceptState[q]),
           currentProc # NULL => frames'[currentProc] = frames[currentProc]
    PROVE  IInv'
<1>1. DataOk'
  BY DEF DataOk, IInv, TypeInv
<1>2. CASE currentProc = NULL
  <2>1. Scheduler(where, states) /\ \A q \in Procs : where[q] # "running"
    BY <1>2, CurrentRuns DEF ExitIntHandler
  <2>2. \A q \in Procs : where[q] # "free" =>
           /\ Untimed(states[q]) = Untimed(Last(frames'[q]).state)
           /\ Nested(frames'[q], sup_exceptState'[q])
    BY <1>2, CurrentRuns
  <2> QED
    BY <1>1, <2>1, <2>2, ScheduledInv
<1>3. CASE currentProc # NULL
  <2>1. PICK s \in States : s = saved /\ Timed(s) /\ Untimed(s) = Untimed(At(currentProc))
    BY <1>3 DEF IInv, TypeInv, GoesOnInv, Current
  <2>2. Resume(s) /\ place' = where /\ p_s' = states
    BY <1>3, <2>1 DEF ExitIntHandler
  <2>3. /\ currentProc \in Procs
        /\ \A q \in Procs : place'[q] = "running" <=> q = currentProc
        /\ Untimed(s) = Untimed(Last(frames'[currentProc]).state)
    BY <1>3, <2>1, <2>2, CurrentRuns DEF At
  <2>4. \A q \in Procs : place'[q] # "free" =>
              /\ q # currentProc => Untimed(p_s'[q]) = Untimed(Last(frames'[q]).state)
              /\ Nested(frames'[q], sup_exceptState'[q])
    BY <1>3, <2>2, CurrentRuns
  <2> QED
    BY <1>1, <2>1, <2>2, <2>3, <2>4, ResumedInv
<1> QED
  BY <1>2, <1>3

LEMMA InterruptInv ==
    ASSUME IInv, InterruptHandler
    PROVE  IInv'
<1>1. cause = "INT" /\ UNCHANGED <<p_sup, sup_exceptState>>
  BY DEF InterruptHandler
<1>2. CASE PltHandler
  <2>1. PICK p \in Procs : p = currentProc /\ place[p] = "running"
    BY <1>2, CurrentRuns DEF PltHandler
  <2> DEFINE where == [place EXCEPT ![p] = "ready"]  states == [p_s EXCEPT ![p] = saved]
  <2>2. Scheduler(where, states) /\ UNCHANGED frames
    BY <1>2, <2>1 DEF PltHandler, Preempted
  <2>3. /\ where \in [Procs -> Places] /\ states \in [Procs -> States]
        /\ where[p] = "ready" /\ states[p] = saved
        /\ \A q \in Procs : q # p => where[q] = place[q] /\ states[q] = p_s[q]
    BY DEF IInv, TypeInv, Places
  <2> HIDE DEF where, states
  <2>4. Untimed(saved) = Untimed(Last(frames[p]).state)
    BY <1>1, <1>2, <2>1 DEF IInv, GoesOnInv, Current, PltHandler, At
  <2>5. \A q \in Procs : where[q] # "running"
    BY <2>1, <2>3, CurrentRuns
  <2>6. \A q \in Procs : where[q] # "free" =>
           /\ Untimed(states[q]) = Untimed(Last(frames'[q]).state)
           /\ Nested(frames'[q], sup_exceptState'[q])
    BY <1>1, <2>1, <2>2, <2>3, <2>4, CurrentRuns
  <2>7. DataOk'
    BY <1>1, <2>2, CurrentRuns DEF DataOk
  <2> QED
    BY <2>2, <2>3, <2>5, <2>6, <2>7, ScheduledInv
<1>3. CASE ItHandler \/ Spurious
  <2>1. PICK where : /\ ExitIntHandler(where, p_s) /\ UNCHANGED frames
                     /\ \/ where = place
                        \/ \E W \in SUBSET {p \in Procs : place[p] = "semaphore"} :
                              where = [p \in Procs |-> IF p \in W THEN "ready" ELSE place[p]]
    BY <1>3 DEF ItHandler, Spurious
  <2>2. where \in [Procs -> Places] /\ \A q \in Procs :
           /\ where[q] = "running" <=> place[q] = "running"
           /\ where[q] = "free" <=> place[q] = "free"
    BY <2>1 DEF IInv, TypeInv, Places
  <2>3. PICK states \in [Procs -> States] : states = p_s
    BY DEF IInv, TypeInv
  <2>4. frames' \in [Procs -> Seq(Frames)]
    BY <2>1 DEF IInv, TypeInv
  <2> QED
    BY <1>1, <2>1, <2>2, <2>3, <2>4, ExitIntInv, CurrentRuns
<1>4. CASE DevReturn
  <2>1. PICK p \in Procs, v \in {0, -1} :
           /\ place[p] = "device"
           /\ frames' = Expect(p, [At(p) EXCEPT !.v0 = v])
           /\ ExitIntHandler([place EXCEPT ![p] = "ready"], [p_s EXCEPT ![p].v0 = v])
    BY <1>4 DEF DevReturn
  <2> DEFINE x == [At(p) EXCEPT !.v0 = v]  r == [p_s[p] EXCEPT !.v0 = v]
             where == [place EXCEPT ![p] = "ready"]  states == [p_s EXCEPT ![p] = r]
  <2>2. p # currentProc /\ place[p] # "free" /\ v \in Int
    BY <2>1, CurrentRuns
  <2>3. /\ At(p) \in States /\ p_s[p] \in States /\ Untimed(p_s[p]) = Untimed(At(p))
    BY <2>2, LastType, CurrentRuns DEF At, IInv, TypeInv
  <2>4. /\ r \in States /\ x \in States /\ x.program = At(p).program
        /\ Untimed(r) = Untimed(x)
    BY <2>2, <2>3, WithResult
  <2>5. ExitIntHandler(where, states) /\ frames' = Expect(p, x)
    BY <2>1
  <2> HIDE DEF x, r
  <2>6. /\ frames' \in [Procs -> Seq(Frames)]
        /\ \A q \in Procs : q # p => frames'[q] = frames[q]
        /\ Last(frames'[p]).state = x /\ Nested(frames'[p], sup_exceptState[p])
    BY <2>2, <2>4, <2>5, Expected
  <2>7. /\ where \in [Procs -> Places] /\ states \in [Procs -> States]
        /\ states[p] = r /\ \A q \in Procs : q # p => states[q] = p_s[q]
        /\ \A q \in Procs : /\ where[q] = "running" <=> place[q] = "running"
                            /\ where[q] = "free" <=> place[q] = "free"
    BY <2>1, <2>4 DEF IInv, TypeInv, Places
  <2> HIDE DEF where, states
  <2>8. \A q \in Procs : place[q] # "free" /\ q # currentProc =>
               /\ Untimed(states[q]) = Untimed(Last(frames'[q]).state)
               /\ Nested(frames'[q], sup_exceptState[q])
    BY <2>4, <2>6, <2>7, CurrentRuns
  <2>9. currentProc # NULL => frames'[currentProc] = frames[currentProc]
    BY <2>2, <2>6, CurrentRuns
  <2> QED
    BY <1>1, <2>5, <2>6, <2>7, <2>8, <2>9, ExitIntInv
<1> QED
  BY <1>2, <1>3, <1>4 DEF InterruptHandler

\* A state sent elsewhere by a handler.
LEMMA Redirected ==
    ASSUME NEW s \in States, NEW pc \in 0..LENGTH - 1, NEW user \in BOOLEAN
    PROVE  /\ Redirect(s, pc, user) \in States
           /\ Redirect(s, pc, user).program = s.program
           /\ Timed(s) => Timed(Redirect(s, pc, user))
           /\ \A t \in States : Untimed(s) = Untimed(t) =>
                 Untimed(Redirect(s, pc, user)) = Untimed(Redirect(t, pc, user))
<1> DEFINE mode(x) == IF user THEN x \cup {"USERPON"} ELSE x \ {"USERPON"}
<1>1. \A t \in States :
         LET w == Redirect(t, pc, user)
         IN  /\ w \in States /\ w.program = t.program /\ w.pc = pc /\ w.v0 = t.v0
             /\ w.status = mode(t.status)
  BY DEF States, Redirect
<1>2. ASSUME NEW t \in States, Untimed(s) = Untimed(t)
      PROVE  Untimed(Redirect(s, pc, user)) = Untimed(Redirect(t, pc, user))
  <2>1. /\ s.program = t.program /\ s.v0 = t.v0
        /\ s.status \ {"TEBITON"} = t.status \ {"TEBITON"}
    BY <1>2, SamePlace
  <2>2. mode(s.status) \ {"TEBITON"} = mode(t.status) \ {"TEBITON"}
    BY <2>1
  <2> DEFINE w == Redirect(s, pc, user)  x == Redirect(t, pc, user)
  <2>3. /\ w \in States /\ x \in States /\ w.program = x.program /\ w.pc = x.pc /\ w.v0 = x.v0
        /\ w.status \ {"TEBITON"} = x.status \ {"TEBITON"}
    BY <1>1, <2>1, <2>2
  <2> HIDE DEF w, x
  <2>4. Untimed(w) = Untimed(x)
    BY <2>3, SamePlace
  <2> QED
    BY <2>4 DEF w, x
<1>3. "TEBITON" \in s.status => "TEBITON" \in mode(s.status)
  OBVIOUS
<1> QED
  BY <1>1, <1>2, <1>3 DEF Timed

LEMMA HandlerReturnsInv ==
    ASSUME IInv, HandlerReturns
    PROVE  IInv'
<1>1. currentProc # NULL
  BY Names DEF HandlerReturns, IInv, GoesOnInv, NoState
<1>2. PICK p \in Procs : p = currentProc /\ place[p] = "running"
  BY <1>1, CurrentRuns
<1> DEFINE f == frames[p]  k == sup_exceptState[p]  t == cpu.program  e == Frame(NoState, "none")
           m == [k EXCEPT ![t] = e]  below == Last(Front(f)).state
<1>3. /\ cpu \in States /\ At(p) \in States /\ Untimed(cpu) = Untimed(At(p))
  BY <1>1, <1>2, LastType DEF IInv, TypeInv, GoesOnInv, Current, HandlerReturns
<1>4. t = Last(f).state.program /\ t \in ExcTypes
  BY <1>3, SamePlace DEF At, HandlerReturns
<1>5. f \in Seq(Frames) /\ k \in [ExcTypes -> Frames] /\ Nested(f, k) /\ e \in Frames
  BY <1>2, CurrentRuns, StartStates DEF IInv, TypeInv, Frame, Frames
<1>6. below \in States /\ Timed(k[t].state) /\ Untimed(k[t].state) = Untimed(below)
  BY <1>4, <1>5, NestedPassed
<1>7. m \in [ExcTypes -> Frames] /\ k[t] \in Frames /\ k[t].state \in States
  BY <1>4, <1>5 DEF Frames
<1>8. PICK s \in States, y \in States :
         /\ LoadState(s, y) /\ y.program = below.program
         /\ Timed(s) /\ Untimed(s) = Untimed(y)
  <2>1. CASE LoadState(k[t].state, below)
    BY <1>6, <1>7, <2>1
  <2>2. CASE LoadState(SkipSyscall(k[t].state), After(below))
    <3> HIDE DEF k, t, below
    <3>1. /\ SkipSyscall(k[t].state) \in States /\ After(below) \in States
          /\ After(below).program = below.program
          /\ Timed(SkipSyscall(k[t].state))
          /\ Untimed(SkipSyscall(k[t].state)) = Untimed(After(below))
      BY <1>6, <1>7, Skipped, SkippedAlike DEF Timed
    <3> QED
      BY <2>2, <3>1
  <2>3. ASSUME NEW pc \in 0..LENGTH - 1, NEW user \in BOOLEAN,
               LoadState(Redirect(k[t].state, pc, user), Redirect(below, pc, user))
        PROVE  \E s \in States, y \in States :
                  /\ LoadState(s, y) /\ y.program = below.program
                  /\ Timed(s) /\ Untimed(s) = Untimed(y)
    <3> HIDE DEF k, t, below
    <3>1. /\ Redirect(k[t].state, pc, user) \in States /\ Redirect(below, pc, user) \in States
          /\ Redirect(below, pc, user).program = below.program
          /\ Timed(Redirect(k[t].state, pc, user))
          /\ Untimed(Redirect(k[t].state, pc, user)) = Untimed(Redirect(below, pc, user))
      BY <1>6, <1>7, Redirected
    <3> QED
      BY <2>3, <3>1
  <2> QED
    BY <1>2, <2>1, <2>2, <2>3 DEF HandlerReturns
<1> DEFINE g == Append(Front(Front(f)), Frame(y, "none"))
<1>9. /\ cause' = "none" /\ cpu' = s
      /\ sup_exceptState' = [sup_exceptState EXCEPT ![p] = m]
      /\ frames' = [frames EXCEPT ![p] = g]
      /\ UNCHANGED <<cause, saved, currentProc, place, p_s, p_sup>>
  BY <1>2, <1>8 DEF HandlerReturns, LoadState
<1> HIDE DEF e
<1>10. g \in Seq(Frames) /\ Nested(g, m) /\ Last(g).state = y
  BY <1>4, <1>5, <1>8, NestedReturn
<1> HIDE DEF f, g, m, k, t, below
<1>11. /\ frames' \in [Procs -> Seq(Frames)] /\ frames'[p] = g
       /\ sup_exceptState' \in [Procs -> [ExcTypes -> Frames]] /\ sup_exceptState'[p] = m
       /\ \A q \in Procs : q # p => /\ frames'[q] = frames[q]
                                    /\ sup_exceptState'[q] = sup_exceptState[q]
  BY <1>7, <1>9, <1>10 DEF IInv, TypeInv
<1>12. TypeInv'
  BY <1>8, <1>9, <1>11 DEF IInv, TypeInv
<1>13. GoesOnInv'
  <2>1. Untimed(Current)' = Untimed(At(p))' /\ Timed(Current')
    BY <1>8, <1>9, <1>10, <1>11 DEF Current, At
  <2> QED
    BY <1>1, <1>2, <1>9, <1>11, <2>1 DEF IInv, GoesOnInv, Alive, At
<1>14. HandlerInv'
  BY <1>9, <1>10, <1>11 DEF IInv, HandlerInv, Alive
<1> QED
  BY <1>12, <1>13, <1>14 DEF IInv

LEMMA NextInv ==
    ASSUME ~NestedTraps, IInv, [Next]_vars
    PROVE  IInv'
<1>1. CASE UNCHANGED vars
  <2>1. TypeInv'
    BY <1>1 DEF vars, IInv, TypeInv
  <2>2. GoesOnInv'
    BY <1>1 DEF vars, IInv, GoesOnInv, Alive, At, Current
  <2>3. HandlerInv'
    BY <1>1 DEF vars, IInv, HandlerInv, Alive, Handling
  <2> QED
    BY <2>1, <2>2, <2>3 DEF IInv
<1>2. CASE \/ \E code \in Codes : Exception("SYS", code)
           \/ \E c \in {"INT", "TLB", "other"} : Exception(c, 0)
  BY <1>2, ExceptionInv, ContextsAssumption
<1> QED
  BY <1>1, <1>2, SyscallInv, TrapInv, InterruptInv, HandlerReturnsInv DEF Next

LEMMA Invariant == ASSUME ~NestedTraps PROVE Spec => []IInv
<1>1. IInv /\ [Next]_vars => IInv'
  BY NextInv
<1> QED
  BY <1>1, InitInv, PTL DEF Spec

----------------------------------------------------------------------------
(* The theorems.                                                           *)

\* For every number of processes, every length of programs and whatever status
\* the handlers start with: whoever runs again is where it left or where its
\* handler sent it, with the result of its own call, if no handler raises an
\* exception of the type it handles.
THEOREM ProcessesGoOn ==
    ASSUME ~NestedTraps PROVE Spec => []ResumesWhereItLeft
<1>1. IInv => ResumesWhereItLeft
  <2> SUFFICES ASSUME IInv, cause = "none", NEW p \in Alive
               PROVE  /\ Untimed(IF p = currentProc THEN cpu ELSE p_s[p]) = Untimed(At(p))
                      /\ p = currentProc /\ cpu.program = "main" => "TEBITON" \in cpu.status
    BY DEF ResumesWhereItLeft
  <2>1. p \in Procs
    BY DEF Alive
  <2>2. CASE p = currentProc
    BY <2>1, <2>2, CurrentRuns DEF IInv, GoesOnInv, Current, Timed
  <2>3. CASE p # currentProc
    BY <2>3 DEF IInv, GoesOnInv
  <2> QED
    BY <2>2, <2>3
<1> QED
  BY <1>1, Invariant, PTL

\* And every handler finds what it was called for, with the pc behind the system
\* call if it was called for one, however often it and the handlers above it are
\* interrupted.
THEOREM HandlersGoOn ==
    ASSUME ~NestedTraps PROVE Spec => []TrapsRemembered
<1>1. IInv => TrapsRemembered
  BY DEF IInv, HandlerInv, TrapsRemembered, Nested, Alive
<1> QED
  BY <1>1, Invariant, PTL
=============================================================================
