---------------------------- MODULE DriverProofs ----------------------------
(***************************************************************************)
(* Theorems of the driver and the modules it composes: what the timer      *)
(* measures when the header vouches for it, what the loader reserves and   *)
(* which row an event is of, what the label says of the data, and what a   *)
(* variant's report adds up to.                                            *)
(***************************************************************************)
EXTENDS Driver, FiniteSetTheorems, SequenceTheorems, TLAPS

-----------------------------------------------------------------------------
(***************************************************************************)
(* The difference of two reads of a counter of width w, d ticks apart, of  *)
(* which the counter has passed at most one end.                           *)
(***************************************************************************)
LEMMA ModuloBelow ==
  ASSUME NEW w \in Nat \ {0}, NEW x \in 0 .. w - 1
  PROVE  x % w = x
BY SMTT(30)

(* Past the end once. *)
LEMMA ModuloAbove ==
  ASSUME NEW w \in Nat \ {0}, NEW x \in w .. 2 * w - 1
  PROVE  x % w = x - w
BY SMTT(30)

(* Before the beginning. *)
LEMMA ModuloNegative ==
  ASSUME NEW w \in Nat \ {0}, NEW x \in -w .. -1
  PROVE  x % w = x + w
BY SMTT(30)

(* The counter of a core that is ahead. *)
LEMMA ModuloSum ==
  ASSUME NEW w \in Nat \ {0}, NEW x \in 0 .. w - 1, NEW y \in 0 .. w - 1
  PROVE  (x + y) % w = IF x + y < w THEN x + y ELSE x + y - w
<1> DEFINE z == x + y
<1>1. z \in 0 .. w - 1 \/ z \in w .. 2 * w - 1
  OBVIOUS
<1>2. z \in 0 .. w - 1 => z < w
  OBVIOUS
<1>3. z \in w .. 2 * w - 1 => ~(z < w)
  OBVIOUS
<1> HIDE DEF z
<1>4. z % w = IF z < w THEN z ELSE z - w
  BY <1>1, <1>2, <1>3, ModuloBelow, ModuloAbove
<1> QED  BY <1>4 DEF z

(* Wherever the counter stood, the difference is the time between. *)
LEMMA Difference ==
  ASSUME NEW w \in Nat \ {0}, NEW ahead \in 0 .. w - 1,
         NEW g \in Nat, NEW t \in Nat, g <= t, t < w
  PROVE  (((t + ahead) % w) - ((g + ahead) % w)) % w = t - g
<1> DEFINE d == ((t + ahead) % w) - ((g + ahead) % w)
<1>1. t \in 0 .. w - 1 /\ g \in 0 .. w - 1
  OBVIOUS
<1>2. (t + ahead) % w = IF t + ahead < w THEN t + ahead ELSE t + ahead - w
  BY <1>1, ModuloSum
<1>3. (g + ahead) % w = IF g + ahead < w THEN g + ahead ELSE g + ahead - w
  BY <1>1, ModuloSum
<1>4. d = t - g \/ (d = t - g - w /\ g < t)
  BY <1>2, <1>3
<1> HIDE DEF d
<1>5. CASE d = t - g
  <2>1. d \in 0 .. w - 1
    BY <1>5
  <2> QED  BY <1>5, <2>1, ModuloBelow
<1>6. CASE d = t - g - w /\ g < t
  <2>1. d \in -w .. -1
    BY <1>6
  <2>2. d % w = d + w
    BY <2>1, ModuloNegative
  <2> QED  BY <1>6, <2>2
<1>7. d % w = t - g
  BY <1>4, <1>5, <1>6
<1> QED  BY <1>7 DEF d

-----------------------------------------------------------------------------
(***************************************************************************)
(* The clock.  Ahead is what the thread's counter is ahead by; Began says  *)
(* that the interval's first read was made g after it began.               *)
(***************************************************************************)
Ahead == Skew[core]

Began(g) == begun = (g + Ahead) % Width

ClockTypes ==
  /\ rdtscp \in BOOLEAN /\ invariant \in BOOLEAN /\ core \in Cores
  /\ stays \in BOOLEAN /\ pinned \in BOOLEAN
  /\ step \in {"idle", "timing", "tsc_start", "steady_end", "tsc_end"}
  /\ time \in Nat /\ tsc \in Nat /\ gap \in Nat /\ steadyEnd \in Nat
  /\ time <= MaxTime /\ gap <= MaxGap /\ phase \in 0 .. Grain - 1

IsTimed ==
  /\ Trusted => tsc = time
  /\ pinned => stays
  /\ step = "idle" => time = 0 /\ tsc = 0
  /\ step = "tsc_start" => time = gap
  /\ step = "tsc_end" => (time - gap) - steadyEnd \in 1 - Grain .. Grain - 1
  /\ Trusted /\ step = "timing" => Began(0)
  /\ Trusted /\ step \in {"steady_end", "tsc_end"} =>
       \E g \in 0 .. MaxGap : g <= time /\ Began(g)

ClockInv == ClockTypes /\ IsTimed

(* The thread is pinned while nothing is timed.                            *)
IsPlaced ==
  /\ pc \notin {"calibrate", "operation", "quotes"} => step = "idle"
  /\ pc \in {"operation", "quotes"} => step = "timing"
  /\ pc = "calibrate" => step # "timing"

-----------------------------------------------------------------------------
(* What the numbers are. *)
LEMMA ClockNumbers ==
  /\ MaxGap \in Nat /\ Target \in Nat /\ Grain \in Nat \ {0} /\ MaxGap + Grain <= Target
  /\ MaxTime \in Nat /\ Width \in Nat \ {0} /\ MaxTime < Width
BY GapAssumption, TimeAssumption

(* The steady clock is behind by less than one of its ticks. *)
LEMMA SteadyIsBehind ==
  ASSUME NEW t \in Nat, NEW g \in Nat \ {0}
  PROVE  t - (t % g) \in Nat /\ t % g \in 0 .. g - 1
<1>1. t % g \in 0 .. g - 1
  BY SMTT(30)
<1>2. t < g => t % g = t
  BY ModuloBelow
<1> QED  BY <1>1, <1>2

(* And so, counted from any place between two ticks, less than one off.    *)
LEMMA SteadyIsClose ==
  ASSUME ClockInv
  PROVE  Steady \in Nat /\ time - Steady \in 1 - Grain .. Grain - 1
<1>1. phase \in Nat /\ phase \in 0 .. Grain - 1 /\ time \in Nat /\ Grain \in Nat \ {0}
  BY ClockNumbers DEF ClockInv, ClockTypes
<1> DEFINE t == phase + time
<1>2. t \in Nat
  BY <1>1
<1>3. t - (t % Grain) \in Nat /\ t % Grain \in 0 .. Grain - 1
  BY <1>1, <1>2, SteadyIsBehind
<1>4. Steady = t - (t % Grain)
  BY DEF Steady
<1> DEFINE m == t % Grain
<1>5. m \in 0 .. Grain - 1 /\ Steady = (phase + time) - m /\ Steady \in Nat
  BY <1>3, <1>4
<1> HIDE DEF m, t
<1> QED  BY <1>1, <1>5

(* A read of a counter to be trusted is the time, plus what it is ahead.   *)
LEMMA TrustedRead ==
  ASSUME ClockInv, Trusted
  PROVE  Read = (time + Ahead) % Width
BY DEF ClockInv, ClockTypes, IsTimed, Trusted, Read, Ahead

(* A counter is ahead by less than its width. *)
LEMMA AheadBelow ==
  ASSUME ClockInv
  PROVE  Ahead \in 0 .. Width - 1
BY SkewAssumption, ClockNumbers DEF ClockInv, ClockTypes, Ahead

(* So what has passed since is what it says has passed since. *)
LEMMA TrustedSince ==
  ASSUME ClockInv, Trusted, NEW g \in Nat, g <= time, Began(g)
  PROVE  Since(begun) = time - g
<1>1. /\ Width \in Nat \ {0} /\ Ahead \in 0 .. Width - 1
      /\ time \in Nat /\ time < Width
  BY ClockNumbers, AheadBelow DEF ClockInv, ClockTypes
<1>2. Since(begun) = (((time + Ahead) % Width) - ((g + Ahead) % Width)) % Width
  BY TrustedRead DEF Since, Began
<1> HIDE DEF Ahead
<1> QED  BY <1>1, <1>2, Difference

-----------------------------------------------------------------------------
(***************************************************************************)
(* The clock's actions keep it.                                            *)
(***************************************************************************)
LEMMA ClockStarts == ClockInit => ClockInv
<1> SUFFICES ASSUME ClockInit PROVE ClockInv
  OBVIOUS
<1>1. /\ rdtscp \in BOOLEAN /\ invariant \in BOOLEAN
      /\ stays \in BOOLEAN /\ pinned \in BOOLEAN /\ ~pinned
  BY DEF ClockInit
<1>2. /\ core \in Cores
      /\ step = "idle" /\ time = 0 /\ tsc = 0 /\ gap = 0 /\ steadyEnd = 0 /\ phase = 0
  BY DEF ClockInit
<1>3. ClockTypes
  BY <1>1, <1>2, ClockNumbers DEF ClockTypes
<1>4. IsTimed
  BY <1>1, <1>2 DEF IsTimed
<1> QED  BY <1>3, <1>4 DEF ClockInv

(* Time passes for every counter alike. *)
LEMMA TickKeeps ==
  ASSUME ClockInv, Tick
  PROVE  ClockInv' /\ step' = step
<1>1. ClockTypes' /\ step' = step
  BY ClockNumbers DEF ClockInv, ClockTypes, Tick, machine, thread
<1>2. Trusted' <=> Trusted
  BY DEF Tick, machine, thread, Trusted
<1>3. \A g : Began(g)' <=> Began(g)
  BY DEF Tick, machine, thread, Began, Ahead
<1>4. time' = time + 1 /\ gap' = gap + 1 /\ steadyEnd' = steadyEnd /\ rdtscp' = rdtscp
  BY DEF Tick, machine
<1>5. (Trusted => tsc = time)'
  BY <1>2 DEF ClockInv, ClockTypes, IsTimed, Tick, machine, Trusted
<1>6. (pinned => stays)' /\ step # "idle"
  BY DEF ClockInv, IsTimed, Tick, thread
<1>7. (Trusted /\ step \in {"steady_end", "tsc_end"} =>
         \E g \in 0 .. MaxGap : g <= time /\ Began(g))'
  <2> SUFFICES ASSUME Trusted', step' \in {"steady_end", "tsc_end"}
               PROVE  \E g \in 0 .. MaxGap : g <= time' /\ Began(g)'
    OBVIOUS
  <2>1. PICK g \in 0 .. MaxGap : g <= time /\ Began(g)
    BY <1>1, <1>2 DEF ClockInv, IsTimed
  <2>2. g <= time'
    BY <1>4, <2>1, ClockNumbers DEF ClockInv, ClockTypes
  <2> QED  BY <1>3, <2>1, <2>2
<1>8. /\ (step = "tsc_start" => time = gap)'
      /\ (step = "tsc_end" => (time - gap) - steadyEnd \in 1 - Grain .. Grain - 1)'
  <2>1. time' - gap' = time - gap
    BY <1>4 DEF ClockInv, ClockTypes
  <2> QED  BY <1>1, <1>4, <2>1, ClockNumbers DEF ClockInv, ClockTypes, IsTimed
<1>9. (Trusted /\ step = "timing" => Began(0))'
  BY <1>1, <1>2, <1>3 DEF ClockInv, IsTimed
<1> QED  BY <1>1, <1>5, <1>6, <1>7, <1>8, <1>9 DEF ClockInv, IsTimed

(* A thread that is pinned does not migrate; of another counter nothing is *)
(* said.                                                                   *)
LEMMA MigrateKeeps ==
  ASSUME ClockInv, Migrate
  PROVE  ClockInv' /\ step' = step
<1>1. ClockTypes' /\ step' = step
  BY DEF ClockInv, ClockTypes, Migrate, machine, timer
<1>2. ~Trusted /\ ~Trusted' /\ ~pinned'
  BY DEF ClockInv, IsTimed, Migrate, Trusted
<1> QED  BY <1>1, <1>2 DEF ClockInv, IsTimed, Migrate, timer

(* What pin_to_core said is so: it is pinned only if it stays. *)
LEMMA PinKeeps ==
  ASSUME ClockInv, NEW c, PinToCore(c), step = "idle"
  PROVE  ClockInv' /\ step' = "idle"
<1>1. ClockTypes' /\ step' = "idle" /\ rdtscp' = rdtscp /\ time' = 0 /\ tsc' = 0
  BY DEF ClockInv, ClockTypes, IsTimed, PinToCore, machine, thread, timer
<1>2. (pinned => stays)'
  BY DEF ClockInv, IsTimed, PinToCore, thread
<1> QED  BY <1>1, <1>2 DEF ClockInv, IsTimed

(* With an interval everything that was said of it ends. *)
LEMMA EndKeeps ==
  ASSUME ClockInv, EndInterval
  PROVE  ClockInv' /\ step' = "idle"
<1>1. ClockTypes' /\ step' = "idle" /\ time' = 0 /\ tsc' = 0
  BY ClockNumbers DEF ClockInv, ClockTypes, EndInterval, machine, thread
<1>2. (pinned => stays)'
  BY DEF ClockInv, IsTimed, EndInterval, thread
<1> QED  BY <1>1, <1>2 DEF ClockInv, IsTimed

(* A step changes neither time nor trust. *)
LEMMA StepLeaves ==
  ASSUME ClockInv, NEW from, NEW to, Step(from, to),
         to \in {"timing", "tsc_start", "steady_end", "tsc_end"},
         steadyEnd' \in Nat, phase' \in 0 .. Grain - 1
  PROVE  /\ ClockTypes' /\ step = from /\ step' = to
         /\ time' = time /\ tsc' = tsc /\ gap' = 0 /\ rdtscp' = rdtscp
         /\ (pinned => stays)' /\ (Trusted => tsc = time)'
         /\ (Trusted' <=> Trusted) /\ Ahead' = Ahead
<1>1. ClockTypes' /\ step = from /\ step' = to
  BY ClockNumbers DEF ClockInv, ClockTypes, Step, machine, thread
<1>2. time' = time /\ tsc' = tsc /\ gap' = 0 /\ rdtscp' = rdtscp
  BY DEF Step, machine
<1>3. (pinned => stays)' /\ (Trusted => tsc = time)'
  BY DEF ClockInv, IsTimed, Step, machine, thread, Trusted
<1>4. (Trusted' <=> Trusted) /\ Ahead' = Ahead
  BY DEF Step, machine, thread, Trusted, Ahead
<1> QED  BY <1>1, <1>2, <1>3, <1>4

(* The first read is made when the interval begins. *)
LEMMA FirstReadKeeps ==
  ASSUME ClockInv, FirstRead
  PROVE  ClockInv' /\ step = "idle" /\ step' = "timing"
<1>1. /\ Step("idle", "timing") /\ steadyEnd' = steadyEnd /\ begun' = Read
      /\ phase' \in 0 .. Grain - 1
  BY DEF FirstRead, Begin
<1>2. steadyEnd' \in Nat
  BY <1>1 DEF ClockInv, ClockTypes
<1>3. /\ ClockTypes' /\ step = "idle" /\ step' = "timing"
      /\ (pinned => stays)' /\ (Trusted => tsc = time)'
      /\ (Trusted' <=> Trusted) /\ Ahead' = Ahead
  BY <1>1, <1>2, StepLeaves
<1>4. Trusted => Began(0)'
  BY <1>1, <1>3, TrustedRead DEF ClockInv, IsTimed, Began
<1> QED  BY <1>3, <1>4 DEF ClockInv, IsTimed

(* And in a calibration at most one delay after the steady clock's.        *)
LEMMA CalibrateKeeps ==
  ASSUME ClockInv, Calibrate, step # "timing"
  PROVE  ClockInv' /\ step' # "timing"
<1>1. CASE ~rdtscp /\ step = "idle" /\ UNCHANGED clockVars
  BY <1>1
  DEF ClockInv, ClockTypes, IsTimed, Trusted, Began, Ahead, clockVars, machine, thread, timer
<1>2. CASE Begin("tsc_start") /\ UNCHANGED begun
  <2>1. Step("idle", "tsc_start") /\ steadyEnd' \in Nat /\ phase' \in 0 .. Grain - 1
    BY <1>2 DEF ClockInv, ClockTypes, Begin
  <2>2. /\ ClockTypes' /\ step = "idle" /\ step' = "tsc_start"
        /\ time' = time /\ gap' = 0
        /\ (pinned => stays)' /\ (Trusted => tsc = time)'
    BY <1>2, <2>1, StepLeaves
  <2> QED  BY <2>2 DEF ClockInv, IsTimed
<1>3. CASE Step("tsc_start", "steady_end") /\ begun' = Read /\ UNCHANGED <<steadyEnd, phase>>
  <2>1. steadyEnd' \in Nat /\ phase' \in 0 .. Grain - 1
    BY <1>3 DEF ClockInv, ClockTypes
  <2>2. /\ ClockTypes' /\ step = "tsc_start" /\ step' = "steady_end"
        /\ time' = time
        /\ (pinned => stays)' /\ (Trusted => tsc = time)'
        /\ (Trusted' <=> Trusted) /\ Ahead' = Ahead
    BY <1>3, <2>1, StepLeaves
  <2>3. Trusted => Began(time)'
    BY <1>3, <2>2, TrustedRead DEF Began
  <2>4. time \in 0 .. MaxGap /\ time <= time'
    BY <2>2 DEF ClockInv, ClockTypes, IsTimed
  <2> QED  BY <2>2, <2>3, <2>4 DEF ClockInv, IsTimed, Began
<1>4. CASE SteadyEnd
  <2>1. /\ Step("steady_end", "tsc_end") /\ steadyEnd' = Steady
        /\ begun' = begun /\ phase' = phase
    BY <1>4 DEF SteadyEnd
  <2>2. steadyEnd' \in Nat /\ phase' \in 0 .. Grain - 1
    BY <2>1, SteadyIsClose DEF ClockInv, ClockTypes
  <2>3. /\ ClockTypes' /\ step = "steady_end" /\ step' = "tsc_end"
        /\ time' = time /\ gap' = 0
        /\ (pinned => stays)' /\ (Trusted => tsc = time)'
        /\ (Trusted' <=> Trusted) /\ Ahead' = Ahead
    BY <2>1, <2>2, StepLeaves
  <2>4. \A g : Began(g)' <=> Began(g)
    BY <2>1, <2>3 DEF Began
  <2>5. (time' - gap') - steadyEnd' \in 1 - Grain .. Grain - 1
    BY <2>1, <2>3, SteadyIsClose DEF ClockInv, ClockTypes
  <2> QED  BY <2>3, <2>4, <2>5 DEF ClockInv, IsTimed
<1>5. CASE Step("tsc_end", "steady_end") /\ UNCHANGED <<begun, steadyEnd, phase>>
  <2>1. steadyEnd' \in Nat /\ phase' \in 0 .. Grain - 1
    BY <1>5 DEF ClockInv, ClockTypes
  <2>2. /\ ClockTypes' /\ step = "tsc_end" /\ step' = "steady_end"
        /\ time' = time
        /\ (pinned => stays)' /\ (Trusted => tsc = time)'
        /\ (Trusted' <=> Trusted) /\ Ahead' = Ahead
    BY <1>5, <2>1, StepLeaves
  <2>3. \A g : Began(g)' <=> Began(g)
    BY <1>5, <2>2 DEF Began
  <2> QED  BY <2>2, <2>3 DEF ClockInv, IsTimed
<1>6. CASE EndInterval
  BY <1>6, EndKeeps
<1> QED  BY <1>1, <1>2, <1>3, <1>4, <1>5, <1>6 DEF Calibrate

(* What does not touch the clock keeps it. *)
LEMMA ClockStays ==
  ASSUME ClockInv, UNCHANGED clockVars
  PROVE  ClockInv' /\ step' = step
BY DEF ClockInv, ClockTypes, IsTimed, Trusted, Began, Ahead, clockVars, machine, thread, timer

-----------------------------------------------------------------------------
(***************************************************************************)
(* The clock within the program.                                           *)
(***************************************************************************)
LEMMA NextKeepsClock ==
  ASSUME ClockInv, IsPlaced, [Next]_vars
  PROVE  ClockInv' /\ IsPlaced'
<1>1. CASE UNCHANGED clockVars /\ pc' = pc
  BY <1>1, ClockStays DEF IsPlaced
<1>2. CASE ChooseSource \/ Load \/ Truncate
  <2>1. /\ UNCHANGED clockVars
        /\ pc \in {"open", "rows", "truncate"} /\ pc' \in {"rows", "truncate", "pin"}
    BY <1>2 DEF ChooseSource, OpenFile, Generate, Load, Truncate, GoTo
  <2> QED  BY <2>1, ClockStays DEF IsPlaced
<1>3. CASE Pin
  <2>1. PinToCore(options.core) /\ step = "idle" /\ pc' = "calibrate"
    BY <1>3 DEF Pin, GoTo, IsPlaced
  <2> QED  BY <2>1, PinKeeps DEF IsPlaced
<1>4. CASE CalibrateTimer
  <2>1. /\ Calibrate /\ step # "timing"
        /\ pc' = IF step' = "idle" THEN "mode" ELSE "calibrate"
    BY <1>4 DEF CalibrateTimer, GoTo, IsPlaced
  <2> QED  BY <2>1, CalibrateKeeps DEF IsPlaced
<1>5. CASE ChooseMode \/ WarmUp \/ StartMeasuring \/ StopMeasuring \/ Report
  <2>1. /\ UNCHANGED clockVars
        /\ pc \in {"mode", "warm", "event", "report"}
        /\ pc' \in {"warm", "event", "report", "done"}
    BY <1>5 DEF ChooseMode, WarmUp, StartMeasuring, StopMeasuring, Report, GoTo, Untimed
  <2> QED  BY <2>1, ClockStays DEF IsPlaced
<1>6. CASE BeginOperation
  <2>1. \/ UNCHANGED clockVars /\ pc = "event" /\ pc' = "quote"
        \/ FirstRead /\ pc' = "operation"
    BY <1>6 DEF BeginOperation, GoTo, Untimed
  <2> QED  BY <2>1, ClockStays, FirstReadKeeps DEF IsPlaced
<1>7. CASE BeginQuote
  <2>1. FirstRead /\ pc' = "quotes"
    BY <1>7 DEF BeginQuote, GoTo
  <2> QED  BY <2>1, FirstReadKeeps DEF IsPlaced
<1>8. CASE EndOperation \/ EndQuote
  <2>1. EndInterval /\ pc' \in {"quote", "event"}
    BY <1>8 DEF EndOperation, EndQuote, SecondRead, GoTo
  <2> QED  BY <2>1, EndKeeps DEF IsPlaced
<1>9. CASE System
  <2>1. (Tick \/ Migrate) /\ pc' = pc
    BY <1>9 DEF System
  <2> QED  BY <2>1, TickKeeps, MigrateKeeps DEF IsPlaced
<1>10. CASE UNCHANGED vars
  BY <1>1, <1>10 DEF vars
<1> QED
  BY <1>2, <1>3, <1>4, <1>5, <1>6, <1>7, <1>8, <1>9, <1>10 DEF Next, Program, RunVariant

(* At all times. *)
LEMMA AlwaysClockInv == Spec => [](ClockInv /\ IsPlaced)
<1>1. Init => ClockInv /\ IsPlaced
  BY ClockStarts DEF Init, ClockInit, IsPlaced
<1>2. ClockInv /\ IsPlaced /\ [Next]_vars => (ClockInv /\ IsPlaced)'
  BY NextKeepsClock
<1> QED  BY <1>1, <1>2, PTL DEF Spec

(* When the header says that the timer is rdtscp, the thread pinned and    *)
(* the counter invariant, the difference of the two reads around an        *)
(* operation is the time it took, whatever the system does meanwhile.      *)
(* Nothing is said of the fallback, against which the header warns         *)
(* (clock.hpp:8-18, benchmark_main.cpp:287-296).                           *)
THEOREM TrustedSamplesAreTime == Spec => []SamplesAreTime
<1>1. ClockInv => SamplesAreTime
  <2> SUFFICES ASSUME ClockInv, step = "timing", Trusted PROVE Since(begun) = time
    BY DEF SamplesAreTime
  <2>1. Began(0) /\ time \in Nat
    BY DEF ClockInv, ClockTypes, IsTimed
  <2> QED  BY <2>1, TrustedSince
<1> QED  BY <1>1, AlwaysClockInv, PTL

(* And the rate is off by less than one delay between the two clocks'      *)
(* reads and one tick of the steady clock, over no less than the target    *)
(* (clock.hpp:44-55).                                                      *)
THEOREM TrustedRateIsClose == Spec => []CalibrationIsClose
<1>1. ClockInv => CalibrationIsClose
  <2> SUFFICES ASSUME ClockInv, step = "tsc_end", steadyEnd >= Target, Trusted
               PROVE  /\ Hz.ticks - Hz.time \in 1 - (MaxGap + Grain) .. (MaxGap + Grain) - 1
                      /\ Hz.ticks > 0
    BY DEF CalibrationIsClose
  <2>1. PICK g \in 0 .. MaxGap : g <= time /\ Began(g)
    BY DEF ClockInv, IsTimed
  <2>2. /\ MaxGap \in Nat /\ Target \in Nat /\ Grain \in Nat /\ MaxGap + Grain <= Target
        /\ time \in Nat /\ gap \in Nat /\ steadyEnd \in Nat /\ gap <= MaxGap
        /\ (time - gap) - steadyEnd \in 1 - Grain .. Grain - 1
    BY ClockNumbers DEF ClockInv, ClockTypes, IsTimed
  <2>3. g \in Nat /\ g <= MaxGap
    BY <2>2
  <2>4. Since(begun) = time - g
    BY <2>1, <2>3, TrustedSince
  <2> QED  BY <2>1, <2>2, <2>3, <2>4 DEF Hz
<1> QED  BY <1>1, AlwaysClockInv, PTL

-----------------------------------------------------------------------------
(***************************************************************************)
(* The loader.  The file and the stream are sequences, and the stream has  *)
(* no more events than rows have been read.                                *)
(***************************************************************************)
LoaderInv ==
  /\ options \in Options /\ disk \in Disks
  /\ rows \in Seq(Row) /\ ended \in BOOLEAN /\ events \in Seq(EventRecord)
  /\ line \in Nat /\ line <= Len(rows)
  /\ reserved = Len(rows) - (IF ended THEN 0 ELSE 1)
  /\ pc = "open" => line = 0
  /\ pc = "rows" \/ line > 0 => Len(events) <= line

(* The path that is opened is one of the disk's. *)
LEMMA OpenedIsFile ==
  ASSUME options \in Options, disk \in Disks, Openable
  PROVE  disk[DataPath] \in File
<1>1. CASE options.path = NoPath
  BY <1>1, PathAssumption, DisksAssumption DEF Openable, DataPath, Paths
<1>2. CASE options.path # NoPath
  <2>1. DataPath = options.path
    BY <1>2 DEF DataPath
  <2>2. options.path \in Paths
    BY <1>2 DEF Paths
  <2> QED  BY <2>1, <2>2, DisksAssumption DEF Openable
<1> QED  BY <1>1, <1>2

(* A row gives an event, whatever its fields are. *)
LEMMA ParsedIsEvent ==
  ASSUME NEW row \in Row
  PROVE  Parsed(row) \in EventRecord
<1>1. \A f \in DOMAIN Column : Column[f] \in Nat \ {0}
  BY DEF Column
<1>2. \A f \in DOMAIN Column : Field(row, Column[f]) \in Int \cup {Junk}
  <2> TAKE f \in DOMAIN Column
  <2> DEFINE place == Column[f]
  <2>1. place \in Nat \ {0}
    BY <1>1
  <2> HIDE DEF place
  <2>2. Field(row, place) \in Int \cup {Junk}
    BY <2>1 DEF Field, Row
  <2> QED  BY <2>2 DEF place
<1>3. \A f \in DOMAIN Column : NoEvent[f] = 0
  BY DEF NoEvent
<1>4. \A f \in DOMAIN Column : ParseInt(Field(row, Column[f]), NoEvent[f]) \in Int
  BY <1>2, <1>3 DEF ParseInt
<1> QED  BY <1>4 DEF Parsed, ParsedOver, EventRecord

(* Every step keeps them so. *)
LEMMA NextKeepsLoader ==
  ASSUME LoaderInv, [Next]_vars
  PROVE  LoaderInv'
<1> USE DEF LoaderInv
<1>1. CASE UNCHANGED <<loaderVars, input>> /\ (pc' = pc \/ pc' \notin {"open", "rows"})
  BY <1>1 DEF loaderVars, input
<1>2. CASE ChooseSource
  <2>1. CASE OpenFile
    <3>1. disk[DataPath] \in File
      BY <2>1, OpenedIsFile DEF OpenFile
    <3>2. /\ rows' = disk[DataPath].rows /\ ended' = disk[DataPath].ended
          /\ line' = 0 /\ events' = << >> /\ pc' = "rows"
          /\ reserved' = Newlines(disk[DataPath])
          /\ options' = options /\ disk' = disk
      BY <2>1 DEF OpenFile, Open, GoTo, input
    <3>3. rows' \in Seq(Row) /\ ended' \in BOOLEAN
      BY <3>1, <3>2 DEF File
    <3> QED  BY <3>2, <3>3 DEF Newlines
  <2>2. CASE Generate
    <3>1. /\ events' = SubSeq(Generator, 1, options.count)
          /\ pc = "open" /\ pc' = "truncate"
          /\ UNCHANGED <<rows, ended, line, reserved, options, disk>>
      BY <1>2, <2>2 DEF ChooseSource, Generate, GoTo, input
    <3>2. events' \in Seq(EventRecord)
      BY <3>1, GeneratorAssumption, OptionsAssumption, SubSeqProperties
    <3> QED  BY <3>1, <3>2
  <2> QED  BY <1>2, <2>1, <2>2 DEF ChooseSource
<1>3. CASE Load
  <2>1. CASE ReadRow /\ UNCHANGED <<pc, input>>
    <3> DEFINE row == rows[line + 1]
    <3>1. /\ pc = "rows" /\ line < Len(rows) /\ line' = line + 1
          /\ events' = events \/ events' = Append(events, Parsed(row))
          /\ UNCHANGED <<rows, ended, reserved, options, disk, pc>>
      BY <1>3, <2>1 DEF Load, ReadRow, input
    <3>2. Parsed(row) \in EventRecord
      <4>1. row \in Row
        BY <3>1
      <4> HIDE DEF row
      <4> QED  BY <4>1, ParsedIsEvent
    <3> HIDE DEF row
    <3>3. events' \in Seq(EventRecord) /\ Len(events') <= Len(events) + 1
      BY <3>1, <3>2
    <3> QED  BY <3>1, <3>3
  <2>2. CASE line = Len(rows) /\ GoTo("truncate") /\ UNCHANGED loaderVars
    <3>1. pc = "rows" /\ pc' = "truncate" /\ UNCHANGED <<loaderVars, input>>
      BY <1>3, <2>2 DEF Load, GoTo
    <3> QED  BY <1>1, <3>1
  <2> QED  BY <1>3, <2>1, <2>2 DEF Load
<1>4. CASE Truncate
  <2>1. /\ events' = IF options.max # 0 /\ Len(events) > options.max
                       THEN SubSeq(events, 1, options.max) ELSE events
        /\ pc' = "pin" /\ UNCHANGED <<rows, ended, line, reserved, options, disk>>
    BY <1>4 DEF Truncate, GoTo, input
  <2>2. options.max \in Nat
    BY OptionsAssumption
  <2>3. events' \in Seq(EventRecord) /\ Len(events') <= Len(events)
    BY <2>1, <2>2, SubSeqProperties
  <2> QED  BY <2>1, <2>3
<1>5. CASE Pin \/ CalibrateTimer \/ ChooseMode \/ RunVariant
  <2>1. UNCHANGED <<loaderVars, input>> /\ (pc' = pc \/ pc' \notin {"open", "rows"})
    BY <1>5
    DEF Pin, CalibrateTimer, ChooseMode, RunVariant, WarmUp, StartMeasuring, StopMeasuring,
        Report, BeginOperation, EndOperation, BeginQuote, EndQuote, GoTo, InPass
  <2> QED  BY <1>1, <2>1
<1>6. CASE System \/ UNCHANGED vars
  <2>1. UNCHANGED <<loaderVars, input>> /\ pc' = pc
    BY <1>6 DEF System, vars
  <2> QED  BY <1>1, <2>1
<1> QED  BY <1>2, <1>3, <1>4, <1>5, <1>6 DEF Next, Program

(* At all times. *)
LEMMA AlwaysLoaderInv == Spec => []LoaderInv
<1>1. Init => LoaderInv
  BY DEF Init, LoaderInit, LoaderInv, Row, EventRecord
<1>2. LoaderInv /\ [Next]_vars => LoaderInv'
  BY NextKeepsLoader
<1> QED  BY <1>1, <1>2, PTL DEF Spec

(* One reservation holds every event of a file whose last row is ended,    *)
(* and all but the last event of any other (replay.hpp:121-148).           *)
THEOREM ReservesOnce == Spec => []OneAllocation
<1>1. LoaderInv => OneAllocation
  BY DEF LoaderInv, OneAllocation
<1> QED  BY <1>1, AlwaysLoaderInv, PTL

-----------------------------------------------------------------------------
(***************************************************************************)
(* The rows.  What one more row adds to the events of those before it is   *)
(* its own event, if it has a type, and nothing otherwise: the rows that   *)
(* were kept keep their places.                                            *)
(***************************************************************************)
Before(lines, k) == {m \in Kept(lines) : m < k}

Candidates(lines, n) == {k \in Kept(lines) : Cardinality(Before(lines, k)) = n - 1}

(* A choice depends on the candidates only. *)
LEMMA KeptByCandidates ==
  ASSUME NEW s, NEW t, NEW n, Candidates(s, n) = Candidates(t, n)
  PROVE  NthKept(s, n) = NthKept(t, n)
<1>1. NthKept(s, n) = CHOOSE k : k \in Candidates(s, n)
  BY DEF NthKept, Candidates, Before
<1>2. NthKept(t, n) = CHOOSE k : k \in Candidates(t, n)
  BY DEF NthKept, Candidates, Before
<1> QED  BY <1>1, <1>2

(* If there is one, it is it. *)
LEMMA KeptIsCandidate ==
  ASSUME NEW s, NEW n, NEW k, Candidates(s, n) = {k}
  PROVE  NthKept(s, n) = k
<1>1. NthKept(s, n) = CHOOSE j : j \in Candidates(s, n)
  BY DEF NthKept, Candidates, Before
<1> QED  BY <1>1

(* The rows that are kept are finitely many. *)
LEMMA KeptIsFinite ==
  ASSUME NEW S, NEW s \in Seq(S)
  PROVE  /\ Kept(s) \subseteq 1 .. Len(s)
         /\ IsFiniteSet(Kept(s)) /\ Cardinality(Kept(s)) \in Nat
<1>1. Kept(s) \subseteq 1 .. Len(s)
  BY DEF Kept
<1>2. IsFiniteSet(1 .. Len(s))
  BY FS_Interval
<1>3. IsFiniteSet(Kept(s))
  BY <1>1, <1>2, FS_Subset
<1> QED  BY <1>1, <1>3, FS_CardinalityType

(* One more row, and how many of those kept are before each. *)
LEMMA OneMoreKept ==
  ASSUME NEW s \in Seq(Row), NEW t \in Seq(Row), Len(t) = Len(s) + 1,
         \A k \in 1 .. Len(s) : t[k] = s[k]
  PROVE  /\ \A k \in Kept(s) : Before(t, k) = Before(s, k)
         /\ Before(t, Len(t)) = Kept(s)
         /\ Kept(t) = IF Field(t[Len(t)], Column.type) = Junk
                        THEN Kept(s) ELSE Kept(s) \cup {Len(t)}
<1>1. Len(s) \in Nat /\ DOMAIN s = 1 .. Len(s) /\ DOMAIN t = 1 .. Len(s) + 1
  OBVIOUS
<1>2. Kept(s) \subseteq 1 .. Len(s)
  BY KeptIsFinite
<1>3. \A k \in 1 .. Len(s) : k \in Kept(t) <=> k \in Kept(s)
  BY <1>1 DEF Kept
<1>4. Kept(t) \subseteq 1 .. Len(s) + 1
  BY <1>1 DEF Kept
<1>5. Len(t) \in Kept(t) <=> Field(t[Len(t)], Column.type) # Junk
  BY <1>1 DEF Kept
<1>6. \A k \in Kept(s) : Before(t, k) = Before(s, k)
  BY <1>1, <1>2, <1>3, <1>4 DEF Before
<1>7. Before(t, Len(t)) = Kept(s)
  BY <1>1, <1>2, <1>3, <1>4 DEF Before
<1>8. Kept(t) = IF Field(t[Len(t)], Column.type) = Junk
                  THEN Kept(s) ELSE Kept(s) \cup {Len(t)}
  <2>1. \A k \in Kept(t) : k \in Kept(s) \/ k = Len(t)
    BY <1>1, <1>3, <1>4
  <2>2. Kept(s) \subseteq Kept(t)
    BY <1>2, <1>3
  <2>3. CASE Len(t) \in Kept(t)
    <3>1. Kept(t) = Kept(s) \cup {Len(t)}
      BY <2>1, <2>2, <2>3
    <3> QED  BY <1>5, <2>3, <3>1
  <2>4. CASE Len(t) \notin Kept(t)
    <3>1. Kept(t) = Kept(s)
      BY <2>1, <2>2, <2>4
    <3> QED  BY <1>5, <2>4, <3>1
  <2> QED  BY <2>3, <2>4
<1> QED  BY <1>6, <1>7, <1>8

(* So the candidates for every place of an event stay the same, and the    *)
(* row that was added is the only candidate for the place that was added.  *)
LEMMA OneMoreCandidate ==
  ASSUME NEW s \in Seq(Row), NEW t \in Seq(Row), Len(t) = Len(s) + 1,
         \A k \in 1 .. Len(s) : t[k] = s[k]
  PROVE  LET c == Cardinality(Kept(s))
         IN  /\ \A n \in 1 .. c : Candidates(t, n) = Candidates(s, n)
             /\ Field(t[Len(t)], Column.type) # Junk => Candidates(t, c + 1) = {Len(t)}
<1> DEFINE c == Cardinality(Kept(s))
           last == Len(t)
<1>1. /\ \A k \in Kept(s) : Before(t, k) = Before(s, k)
      /\ Before(t, last) = Kept(s)
      /\ Kept(t) = IF Field(t[last], Column.type) = Junk
                     THEN Kept(s) ELSE Kept(s) \cup {last}
  BY OneMoreKept
<1>2. IsFiniteSet(Kept(s)) /\ c \in Nat /\ Kept(s) \subseteq 1 .. Len(s)
  BY KeptIsFinite
<1>3. last \notin Kept(s)
  BY <1>2
<1>4. Cardinality(Before(t, last)) = c
  BY <1>1
<1>5. ASSUME NEW k \in Kept(s)
      PROVE  Cardinality(Before(t, k)) = Cardinality(Before(s, k))
             /\ Cardinality(Before(t, k)) \in Nat /\ Cardinality(Before(t, k)) < c
  <2>1. Before(s, k) \subseteq Kept(s) /\ k \notin Before(s, k) /\ Before(t, k) = Before(s, k)
    <3>1. ~(k < k)
      BY <1>2
    <3> QED  BY <1>1, <3>1 DEF Before
  <2>2. Before(s, k) # Kept(s)
    BY <2>1
  <2>3. /\ Cardinality(Before(s, k)) \in Nat
        /\ Cardinality(Before(s, k)) <= c /\ Cardinality(Before(s, k)) # c
    BY <1>2, <2>1, <2>2, FS_Subset, FS_CardinalityType
  <2> QED  BY <1>2, <2>1, <2>3
<1> HIDE DEF c, last
<1>6. ASSUME NEW n \in 1 .. c PROVE Candidates(t, n) = Candidates(s, n)
  <2>1. c # n - 1
    BY <1>2
  <2> QED  BY <1>1, <1>4, <1>5, <2>1 DEF Candidates
<1>7. ASSUME Field(t[last], Column.type) # Junk
      PROVE  Candidates(t, c + 1) = {last}
  <2>1. (c + 1) - 1 = c /\ \A k \in Kept(s) : Cardinality(Before(t, k)) # c
    BY <1>2, <1>5
  <2>2. Kept(t) = Kept(s) \cup {last}
    BY <1>1, <1>7
  <2>3. Candidates(t, c + 1) = {k \in Kept(t) : Cardinality(Before(t, k)) = c}
    BY <2>1 DEF Candidates
  <2>4. \A k \in Kept(t) : Cardinality(Before(t, k)) = c <=> k = last
    BY <1>3, <1>4, <2>1, <2>2
  <2> QED  BY <2>2, <2>3, <2>4
<1> QED  BY <1>6, <1>7 DEF c, last

(* What ReadRow appends is the event of the row. *)
LEMMA ParsedIsOf ==
  ASSUME NEW row
  PROVE  Parsed(row) = EventOf(row)
<1>1. \A f \in DOMAIN Column : NoEvent[f] = 0
  BY DEF NoEvent
<1>2. \A f \in DOMAIN Column :
        ParseInt(Field(row, Column[f]), NoEvent[f]) =
          IF Field(row, Column[f]) = Junk THEN 0 ELSE Field(row, Column[f])
  BY <1>1 DEF ParseInt
<1> QED  BY <1>2 DEF Parsed, ParsedOver, EventOf

(* Every place of an event has its row. *)
Ranked(lines) == \A n \in 1 .. Cardinality(Kept(lines)) : Candidates(lines, n) # {}

(* One more row adds its event, or none. *)
LEMMA OneMoreRow ==
  ASSUME NEW s \in Seq(Row), NEW t \in Seq(Row), Len(t) = Len(s) + 1,
         \A k \in 1 .. Len(s) : t[k] = s[k], Ranked(s)
  PROVE  /\ Ranked(t)
         /\ EventsOf(t) = IF Field(t[Len(t)], Column.type) = Junk
                            THEN EventsOf(s) ELSE Append(EventsOf(s), EventOf(t[Len(t)]))
<1> DEFINE c == Cardinality(Kept(s))
           last == Len(t)
           event(n) == EventOf(s[NthKept(s, n)])
<1>1. /\ \A n \in 1 .. c : Candidates(t, n) = Candidates(s, n)
      /\ Field(t[last], Column.type) # Junk => Candidates(t, c + 1) = {last}
  BY OneMoreCandidate
<1>2. IsFiniteSet(Kept(s)) /\ c \in Nat /\ Kept(s) \subseteq 1 .. Len(s)
  BY KeptIsFinite
<1>3. /\ Kept(t) = IF Field(t[last], Column.type) = Junk
                     THEN Kept(s) ELSE Kept(s) \cup {last}
      /\ last \notin Kept(s)
  BY <1>2, OneMoreKept
<1>4. \A n \in 1 .. c : Candidates(s, n) # {}
  BY DEF Ranked
<1>5. EventsOf(s) = [n \in 1 .. c |-> event(n)]
  BY DEF EventsOf
<1>6. EventsOf(t) = [n \in 1 .. Cardinality(Kept(t)) |-> EventOf(t[NthKept(t, n)])]
  BY DEF EventsOf
<1> HIDE DEF c, last
<1>7. ASSUME NEW n \in 1 .. c
      PROVE  EventOf(t[NthKept(t, n)]) = event(n)
  <2>1. NthKept(t, n) = NthKept(s, n)
    BY <1>1, KeptByCandidates
  <2>2. NthKept(s, n) \in Candidates(s, n)
    <3>1. NthKept(s, n) = CHOOSE k : k \in Candidates(s, n)
      BY DEF NthKept, Candidates, Before
    <3> QED  BY <1>4, <3>1
  <2>3. NthKept(s, n) \in 1 .. Len(s)
    BY <1>2, <2>2 DEF Candidates
  <2> QED  BY <2>1, <2>3
<1> HIDE DEF event
<1>8. CASE Field(t[last], Column.type) = Junk
  <2>1. Cardinality(Kept(t)) = c
    BY <1>3, <1>8 DEF c
  <2>2. Ranked(t)
    BY <1>1, <1>4, <2>1 DEF Ranked
  <2>3. EventsOf(t) = EventsOf(s)
    BY <1>5, <1>6, <1>7, <2>1
  <2> QED  BY <1>8, <2>2, <2>3 DEF last
<1>9. CASE Field(t[last], Column.type) # Junk
  <2>1. Cardinality(Kept(t)) = c + 1
    BY <1>2, <1>3, <1>9, FS_AddElement DEF c
  <2>2. Candidates(t, c + 1) = {last}
    BY <1>1, <1>9
  <2>3. NthKept(t, c + 1) = last
    BY <2>2, KeptIsCandidate
  <2>4. \A n \in 1 .. c + 1 : n = c + 1 \/ n \in 1 .. c
    BY <1>2
  <2>5. Ranked(t)
    BY <1>1, <1>4, <2>1, <2>2, <2>4 DEF Ranked
  <2>6. EventsOf(t) =
          [n \in 1 .. c + 1 |-> IF n = c + 1 THEN EventOf(t[last]) ELSE event(n)]
    BY <1>6, <1>7, <2>1, <2>3, <2>4
  <2>7. Append(EventsOf(s), EventOf(t[last])) =
          [n \in 1 .. c + 1 |-> IF n = c + 1 THEN EventOf(t[last]) ELSE event(n)]
    BY <1>2, <1>5
  <2> QED  BY <1>9, <2>5, <2>6, <2>7 DEF last
<1> QED  BY <1>8, <1>9

(* Of no rows there are no events. *)
LEMMA NoRows ==
  ASSUME NEW s \in Seq(Row), Len(s) = 0
  PROVE  Ranked(s) /\ EventsOf(s) = << >>
<1>1. Kept(s) = {}
  BY DEF Kept
<1>2. Cardinality(Kept(s)) = 0
  BY <1>1, FS_EmptySet
<1> QED  BY <1>2 DEF Ranked, EventsOf

(* What the first rows of a file are. *)
LEMMA FirstRows ==
  ASSUME NEW s \in Seq(Row), NEW n \in 0 .. Len(s)
  PROVE  /\ SubSeq(s, 1, n) \in Seq(Row) /\ Len(SubSeq(s, 1, n)) = n
         /\ \A k \in 1 .. n : SubSeq(s, 1, n)[k] = s[k]
<1>1. \A k \in 1 .. n : s[k] \in Row
  OBVIOUS
<1>2. n \in Int /\ 1 \in Int
  OBVIOUS
<1> QED  BY <1>1, <1>2, SMTT(30)

(***************************************************************************)
(* The events are those of the rows read so far, and later those of the    *)
(* source that the label names.                                            *)
(***************************************************************************)
SourceInv ==
  /\ pc \in {"open", "rows"} => synthetic
  /\ pc = "rows" => /\ Openable /\ rows = disk[DataPath].rows
                    /\ Ranked(SubSeq(rows, 1, line))
                    /\ events = EventsOf(SubSeq(rows, 1, line))
  /\ pc = "truncate" =>
       IF synthetic THEN events = SubSeq(Generator, 1, options.count)
                    ELSE Openable /\ events = EventsOf(disk[DataPath].rows)
  /\ SourceIsNamed

(* One more row of the file. *)
LEMMA ReadRowReads ==
  ASSUME LoaderInv, SourceInv, pc = "rows", ReadRow
  PROVE  /\ line' = line + 1 /\ rows' = rows
         /\ Ranked(SubSeq(rows, 1, line + 1))
         /\ events' = EventsOf(SubSeq(rows, 1, line + 1))
<1> DEFINE s    == SubSeq(rows, 1, line)
           t    == SubSeq(rows, 1, line + 1)
           r    == rows[line + 1]
<1>1. /\ line < Len(rows) /\ line' = line + 1 /\ rows' = rows
      /\ events' = IF r = << >> \/ Field(r, Column.type) = Junk
                     THEN events ELSE Append(events, Parsed(r))
  BY DEF ReadRow
<1>2. rows \in Seq(Row) /\ line \in 0 .. Len(rows) /\ line + 1 \in 0 .. Len(rows)
  BY <1>1 DEF LoaderInv
<1>3. /\ s \in Seq(Row) /\ Len(s) = line /\ \A k \in 1 .. line : s[k] = rows[k]
      /\ t \in Seq(Row) /\ Len(t) = line + 1 /\ \A k \in 1 .. line + 1 : t[k] = rows[k]
  BY <1>2, FirstRows
<1>4. Ranked(s) /\ events = EventsOf(s)
  BY DEF SourceInv
<1>5. \A k \in 1 .. Len(s) : t[k] = s[k]
  BY <1>2, <1>3
<1>6. t[Len(t)] = r
  BY <1>2, <1>3
<1> HIDE DEF s, t, r
<1>7. /\ Ranked(t)
      /\ EventsOf(t) = IF Field(r, Column.type) = Junk
                         THEN EventsOf(s) ELSE Append(EventsOf(s), EventOf(r))
  BY <1>3, <1>4, <1>5, <1>6, OneMoreRow
<1>8. r = << >> => Field(r, Column.type) = Junk
  <2>1. Column.type = 2
    BY DEF Column
  <2> QED  BY <2>1 DEF Field
<1>9. events' = EventsOf(t)
  BY <1>1, <1>4, <1>7, <1>8, ParsedIsOf
<1> QED  BY <1>1, <1>7, <1>9 DEF t

(* Once they have been cut the events stay. *)
LEMMA SourceStays ==
  ASSUME SourceInv, UNCHANGED <<rows, line, events, input, synthetic>>,
         \/ pc' = pc
         \/ {pc, pc'} \cap {"open", "rows", "truncate"} = {}
  PROVE  SourceInv'
<1>1. options' = options /\ disk' = disk
  BY DEF input
<1>2. DataPath' = DataPath /\ (Openable' <=> Openable)
  BY <1>1 DEF DataPath, Openable
<1>3. disk'[DataPath'] = disk[DataPath] /\ Cut(SubSeq(Generator, 1, options.count))' = Cut(SubSeq(Generator, 1, options.count))
      /\ Cut(EventsOf(disk[DataPath].rows))' = Cut(EventsOf(disk[DataPath].rows))
  BY <1>1, <1>2 DEF Cut
<1>4. SourceIsNamed'
  BY <1>1, <1>2, <1>3 DEF SourceInv, SourceIsNamed
<1> QED  BY <1>1, <1>2, <1>3, <1>4 DEF SourceInv

(* Every step keeps it. *)
LEMMA NextKeepsSource ==
  ASSUME LoaderInv, SourceInv, [Next]_vars
  PROVE  SourceInv'
<1>1. CASE ChooseSource
  <2>1. pc = "open" /\ synthetic
    BY <1>1 DEF ChooseSource, SourceInv
  <2>2. CASE OpenFile
    <3>1. /\ Openable /\ rows' = disk[DataPath].rows /\ line' = 0 /\ events' = << >>
          /\ pc' = "rows" /\ synthetic' = synthetic /\ options' = options /\ disk' = disk
      BY <2>2 DEF OpenFile, Open, GoTo, input
    <3>2. rows' \in Seq(Row)
      BY <3>1, OpenedIsFile DEF LoaderInv, File
    <3>3. SubSeq(rows', 1, 0) \in Seq(Row) /\ Len(SubSeq(rows', 1, 0)) = 0
      <4>1. 0 \in 0 .. Len(rows')
        BY <3>2
      <4> QED  BY <3>2, <4>1, FirstRows
    <3>4. Ranked(SubSeq(rows', 1, 0)) /\ EventsOf(SubSeq(rows', 1, 0)) = << >>
      BY <3>3, NoRows
    <3>5. DataPath' = DataPath /\ (Openable' <=> Openable)
      BY <3>1 DEF DataPath, Openable
    <3>6. disk'[DataPath'] = disk[DataPath]
      BY <3>1, <3>5
    <3>7. Ranked(SubSeq(rows, 1, line))' /\ (events = EventsOf(SubSeq(rows, 1, line)))'
      BY <3>1, <3>4
    <3>8. SourceIsNamed'
      BY <3>1 DEF SourceIsNamed
    <3> QED  BY <2>1, <3>1, <3>5, <3>6, <3>7, <3>8 DEF SourceInv
  <2>3. CASE Generate
    <3>1. /\ events' = SubSeq(Generator, 1, options.count) /\ pc' = "truncate"
          /\ synthetic' = synthetic /\ options' = options
      BY <2>3 DEF Generate, GoTo, input
    <3> QED  BY <2>1, <3>1 DEF SourceInv, SourceIsNamed
  <2> QED  BY <1>1, <2>2, <2>3 DEF ChooseSource
<1>2. CASE Load
  <2>1. pc = "rows" /\ synthetic /\ Openable /\ rows = disk[DataPath].rows
    BY <1>2 DEF Load, SourceInv
  <2>2. CASE ReadRow /\ UNCHANGED <<pc, input, synthetic>>
    <3>1. /\ line' = line + 1 /\ rows' = rows
          /\ Ranked(SubSeq(rows, 1, line + 1))
          /\ events' = EventsOf(SubSeq(rows, 1, line + 1))
      BY <2>1, <2>2, ReadRowReads
    <3>2. options' = options /\ disk' = disk /\ pc' = pc /\ synthetic' = synthetic
      BY <2>2 DEF input
    <3>3. DataPath' = DataPath /\ (Openable' <=> Openable)
      BY <3>2 DEF DataPath, Openable
    <3>4. disk'[DataPath'] = disk[DataPath]
      BY <3>2, <3>3
    <3>5. Ranked(SubSeq(rows, 1, line))' /\ (events = EventsOf(SubSeq(rows, 1, line)))'
      BY <3>1
    <3>6. SourceIsNamed'
      BY <2>1, <3>2 DEF SourceIsNamed
    <3> QED  BY <2>1, <3>1, <3>2, <3>3, <3>4, <3>5, <3>6 DEF SourceInv
  <2>3. CASE line = Len(rows) /\ synthetic' = FALSE /\ GoTo("truncate") /\ UNCHANGED loaderVars
    <3>1. /\ synthetic' = FALSE /\ pc' = "truncate" /\ options' = options /\ disk' = disk
          /\ rows' = rows /\ events' = events
      BY <2>3 DEF GoTo, input, loaderVars
    <3>2. SubSeq(rows, 1, line) = rows
      <4>1. rows \in Seq(Row) /\ line = Len(rows) /\ line \in 0 .. Len(rows)
        BY <2>3 DEF LoaderInv
      <4>2. /\ SubSeq(rows, 1, line) \in Seq(Row) /\ Len(SubSeq(rows, 1, line)) = line
            /\ \A k \in 1 .. line : SubSeq(rows, 1, line)[k] = rows[k]
        BY <4>1, FirstRows
      <4> QED  BY <4>1, <4>2, SeqEqual
    <3>3. events = EventsOf(disk[DataPath].rows)
      BY <2>1, <3>2 DEF SourceInv
    <3>4. DataPath' = DataPath /\ (Openable' <=> Openable)
      BY <3>1 DEF DataPath, Openable
    <3>5. events' = EventsOf(disk'[DataPath'].rows)
      BY <3>1, <3>3, <3>4
    <3>6. SourceIsNamed'
      BY <3>1 DEF SourceIsNamed
    <3> QED  BY <2>1, <3>1, <3>4, <3>5, <3>6 DEF SourceInv
  <2> QED  BY <1>2, <2>2, <2>3 DEF Load
<1>3. CASE Truncate
  <2>1. /\ pc = "truncate" /\ pc' = "pin"
        /\ events' = IF options.max # 0 /\ Len(events) > options.max
                       THEN SubSeq(events, 1, options.max) ELSE events
        /\ options' = options /\ disk' = disk /\ synthetic' = synthetic
    BY <1>3 DEF Truncate, GoTo, input
  <2>2. options.max \in Nat /\ events \in Seq(EventRecord)
    BY OptionsAssumption DEF LoaderInv
  <2>3. events' = Cut(events)
    <3>1. CASE options.max # 0 /\ Len(events) > options.max
      <4>1. options.max \in 1 .. Len(events)
        BY <2>2, <3>1
      <4> QED  BY <2>1, <3>1, <4>1 DEF Cut
    <3>2. CASE options.max # 0 /\ options.max = Len(events)
      <4>1. SubSeq(events, 1, options.max) = events
        BY <2>2, <3>2, SMTT(30)
      <4>2. ~(Len(events) > options.max)
        BY <2>2, <3>2
      <4> QED  BY <2>1, <4>1, <4>2 DEF Cut
    <3>3. CASE options.max = 0 \/ Len(events) < options.max
      <4>1. options.max \notin 1 .. Len(events) /\ ~(Len(events) > options.max /\ options.max # 0)
        BY <2>2, <3>3
      <4> QED  BY <2>1, <4>1 DEF Cut
    <3> QED  BY <2>2, <3>1, <3>2, <3>3
  <2>4. \A s : Cut(s)' = Cut(s)
    BY <2>1 DEF Cut
  <2>5. DataPath' = DataPath /\ (Openable' <=> Openable)
    BY <2>1 DEF DataPath, Openable
  <2>6. IF synthetic THEN events = SubSeq(Generator, 1, options.count)
                     ELSE Openable /\ events = EventsOf(disk[DataPath].rows)
    BY <2>1 DEF SourceInv
  <2>7. ~synthetic => options.path \in {NoPath, DataPath}
    BY DEF DataPath
  <2>8. SourceIsNamed'
    BY <2>1, <2>3, <2>5, <2>6, <2>7 DEF SourceIsNamed, Cut
  <2> QED  BY <2>1, <2>8 DEF SourceInv
<1>4. CASE Pin \/ CalibrateTimer \/ ChooseMode \/ RunVariant
  <2>1. /\ UNCHANGED <<rows, line, events, input, synthetic>>
        /\ {pc, pc'} \cap {"open", "rows", "truncate"} = {}
    BY <1>4
    DEF Pin, CalibrateTimer, ChooseMode, RunVariant, WarmUp, StartMeasuring, StopMeasuring,
        Report, BeginOperation, EndOperation, BeginQuote, EndQuote, GoTo, InPass, loaderVars
  <2> QED  BY <2>1, SourceStays
<1>5. CASE System \/ UNCHANGED vars
  <2>1. UNCHANGED <<rows, line, events, input, synthetic>> /\ pc' = pc
    BY <1>5 DEF System, vars, loaderVars
  <2> QED  BY <2>1, SourceStays
<1> QED  BY <1>1, <1>2, <1>3, <1>4, <1>5 DEF Next, Program

(* At all times. *)
LEMMA AlwaysSourceInv == Spec => [](LoaderInv /\ SourceInv)
<1>1. Init => SourceInv
  BY DEF Init, SourceInv, SourceIsNamed
<1>2. LoaderInv /\ SourceInv /\ [Next]_vars => SourceInv'
  BY NextKeepsSource
<1> QED  BY <1>1, <1>2, AlwaysLoaderInv, PTL DEF Spec

(***************************************************************************)
(* After every row the events are those that the rows read so far stand    *)
(* for: rows cut short, blank or beyond reading neither shift the rows     *)
(* after them nor lend them a field, in whatever file (replay.hpp:130-148).*)
(***************************************************************************)
THEOREM EventsAreOfTheirRows == Spec => RowsKeepTheirFields
<1>1. LoaderInv /\ SourceInv /\ [Next]_vars =>
        [line' > line => events' = EventsOf(SubSeq(rows, 1, line'))]_loaderVars
  <2> SUFFICES ASSUME LoaderInv, SourceInv, [Next]_vars, line' > line
               PROVE  events' = EventsOf(SubSeq(rows, 1, line'))
    OBVIOUS
  <2>1. line \in Nat /\ line' # line /\ line' # 0
    BY DEF LoaderInv
  <2>2. Load
    BY <2>1
    DEF Next, Program, System, vars, loaderVars, ChooseSource, OpenFile, Open, Generate,
        Truncate, Pin, CalibrateTimer, ChooseMode, RunVariant, WarmUp, StartMeasuring,
        StopMeasuring, Report, BeginOperation, EndOperation, BeginQuote, EndQuote, InPass
  <2>3. pc = "rows" /\ ReadRow
    BY <2>1, <2>2 DEF Load, loaderVars
  <2> QED  BY <2>3, ReadRowReads
<1> QED  BY <1>1, AlwaysSourceInv, PTL DEF Spec, RowsKeepTheirFields

(***************************************************************************)
(* The label names the source: data labelled LOBSTER are the first rows of *)
(* the file at the path printed, for every command line, file and limit;   *)
(* any other data are labelled synthetic (benchmark_main.cpp:237-241).     *)
(***************************************************************************)
THEOREM LabelsAreTrue == Spec => []SourceIsNamed
<1>1. SourceInv => SourceIsNamed
  BY DEF SourceInv
<1> QED  BY <1>1, AlwaysSourceInv, PTL

-----------------------------------------------------------------------------
(***************************************************************************)
(* The report.  Among the first n events of the stream so many are of one  *)
(* of the types; and Seen is the number of events whose operation has been *)
(* made, the quote after it perhaps not yet.                               *)
(***************************************************************************)
CountOf(s, n, types) == Cardinality({k \in 1 .. n : s[k].type \in types})

Seen == IF pc \in {"quote", "quotes"} THEN next + 1 ELSE next

Measured == {"event", "operation", "quote", "quotes", "report"}

Buffers == {"add", "cancel", "reduce", "quote"}

PassTypes ==
  /\ next \in Nat /\ calls \in Nat /\ baseline \in Nat
  /\ samples \in [Buffers -> Nat]

Positions ==
  /\ pc \in {"open", "rows", "truncate", "pin", "calibrate", "mode"} => next = 0
  /\ pc \in {"warm", "event", "operation", "quote", "quotes", "report"} => next <= Len(events)
  /\ pc \in {"operation", "quote", "quotes"} => next < Len(events)
  /\ pc = "operation" => Buffer(events[next + 1]) # "none"
  /\ pc = "report" => next = Len(events)

Tallies ==
  /\ samples["add"] = CountOf(events, Seen, {1})
  /\ samples["cancel"] = CountOf(events, Seen, {3})
  /\ samples["reduce"] = CountOf(events, Seen, {2, 4})
  /\ samples["quote"] = next
  /\ calls = baseline + samples["add"] + samples["cancel"] + samples["reduce"] + next

PassInv ==
  /\ PassTypes /\ Positions
  /\ pc \in Measured => Tallies

(* The next event counts for its type and for no other. *)
LEMMA CountNext ==
  ASSUME NEW s, NEW n \in Nat, NEW types
  PROVE  /\ CountOf(s, n, types) \in Nat
         /\ CountOf(s, n + 1, types) =
              CountOf(s, n, types) + (IF s[n + 1].type \in types THEN 1 ELSE 0)
<1> DEFINE before == {k \in 1 .. n : s[k].type \in types}
           after  == {k \in 1 .. n + 1 : s[k].type \in types}
<1>1. IsFiniteSet(before)
  <2>1. IsFiniteSet(1 .. n)
    BY FS_Interval
  <2>2. before \subseteq 1 .. n
    OBVIOUS
  <2> HIDE DEF before
  <2> QED  BY <2>1, <2>2, FS_Subset
<1>2. Cardinality(before) \in Nat
  BY <1>1, FS_CardinalityType
<1>3. n + 1 \notin before
  OBVIOUS
<1>4. CASE s[n + 1].type \in types
  <2>1. after = before \cup {n + 1}
    BY <1>4
  <2>2. Cardinality(after) = Cardinality(before) + 1
    BY <1>1, <1>3, <2>1, FS_AddElement
  <2> QED  BY <1>2, <1>4, <2>2 DEF CountOf
<1>5. CASE s[n + 1].type \notin types
  <2>1. after = before
    BY <1>5
  <2>2. CountOf(s, n + 1, types) = CountOf(s, n, types)
    BY <2>1 DEF CountOf
  <2>3. CountOf(s, n, types) \in Nat
    BY <1>2 DEF CountOf
  <2> HIDE DEF before, after
  <2> QED  BY <1>5, <2>2, <2>3
<1> QED  BY <1>4, <1>5

(* Of no event at all there is none. *)
LEMMA CountNone ==
  ASSUME NEW s, NEW types
  PROVE  CountOf(s, 0, types) = 0
<1>1. {k \in 1 .. 0 : s[k].type \in types} = {}
  OBVIOUS
<1> QED  BY <1>1, FS_EmptySet DEF CountOf

(* An operation is counted in the buffer of its type; an event that has no *)
(* buffer is of no type that is counted.                                   *)
LEMMA CountOfEvent ==
  ASSUME NEW s, NEW n \in Nat
  PROVE  LET Count(b, types) == CountOf(s, n + 1, types) =
               CountOf(s, n, types) + (IF Buffer(s[n + 1]) = b THEN 1 ELSE 0)
         IN  Count("add", {1}) /\ Count("cancel", {3}) /\ Count("reduce", {2, 4})
<1> DEFINE type == s[n + 1].type
<1>1. /\ Buffer(s[n + 1]) = "add" <=> type \in {1}
      /\ Buffer(s[n + 1]) = "cancel" <=> type \in {3}
      /\ Buffer(s[n + 1]) = "reduce" <=> type \in {2, 4}
  BY DEF Buffer
<1> QED  BY <1>1, CountNext

(* Every step keeps the tallies. *)
LEMMA NextKeepsPass ==
  ASSUME LoaderInv, PassInv, [Next]_vars
  PROVE  PassInv'
<1> USE DEF PassInv, PassTypes
<1>0. events \in Seq(EventRecord)
  BY DEF LoaderInv
<1>1. CASE UNCHANGED <<events, pc, pass>>
  BY <1>1 DEF Positions, Tallies, Seen, CountOf, Measured, pass
<1>2. CASE ChooseSource \/ Load \/ Truncate \/ Pin \/ CalibrateTimer
  <2>1. /\ pc \in {"open", "rows", "truncate", "pin", "calibrate"}
        /\ pc' \in {"rows", "truncate", "pin", "calibrate", "mode"}
        /\ UNCHANGED pass
    BY <1>2
    DEF ChooseSource, OpenFile, Generate, Load, Truncate, Pin, CalibrateTimer, GoTo
  <2> QED  BY <2>1 DEF Positions, Measured, pass
<1>3. CASE ChooseMode
  <2>1. pc = "mode" /\ pc' \in {"warm", "done"} /\ UNCHANGED <<events, pass>>
    BY <1>3 DEF ChooseMode, GoTo, loaderVars
  <2> QED  BY <1>0, <2>1 DEF Positions, Measured, pass
<1>4. CASE WarmUp
  <2>1. /\ pc = "warm" /\ pc' = "warm" /\ next < Len(events) /\ next' = next + 1
        /\ calls' \in {calls, calls + 1}
        /\ UNCHANGED <<events, samples, baseline>>
    BY <1>4 DEF WarmUp, GoTo, InPass, loaderVars
  <2> QED  BY <1>0, <2>1 DEF Positions, Measured
<1>5. CASE StartMeasuring
  <2>1. /\ pc = "warm" /\ pc' = "event" /\ next' = 0
        /\ samples' = [buffer \in Buffers |-> 0]
        /\ baseline' = calls /\ calls' = calls /\ events' = events
    BY <1>5 DEF StartMeasuring, GoTo, InPass, loaderVars, NoSamples, Buffers
  <2>2. PassTypes' /\ Positions'
    BY <1>0, <2>1 DEF Positions
  <2>3. samples'["add"] = 0 /\ samples'["cancel"] = 0
        /\ samples'["reduce"] = 0 /\ samples'["quote"] = 0
    BY <2>1 DEF Buffers
  <2>4. Tallies'
    BY <2>1, <2>3, CountNone DEF Tallies, Seen
  <2> QED  BY <2>2, <2>4
<1>6. CASE BeginOperation
  <2> DEFINE none == Buffer(events[next + 1]) = "none"
  <2>1. /\ pc = "event" /\ next < Len(events)
        /\ pc' = IF none THEN "quote" ELSE "operation"
        /\ UNCHANGED <<events, next, samples, calls, baseline>>
    BY <1>6 DEF BeginOperation, GoTo, InPass, loaderVars
  <2>2. Tallies
    BY <2>1 DEF Measured
  <2>3. CASE none
    <3>1. /\ CountOf(events, next + 1, {1}) = CountOf(events, next, {1}) + 0
          /\ CountOf(events, next + 1, {3}) = CountOf(events, next, {3}) + 0
          /\ CountOf(events, next + 1, {2, 4}) = CountOf(events, next, {2, 4}) + 0
      BY <2>3, CountOfEvent
    <3>2. Seen = next /\ Seen' = next + 1
      BY <2>1, <2>3 DEF Seen
    <3>3. Tallies'
      BY <2>1, <2>2, <3>1, <3>2, CountNext DEF Tallies
    <3>4. Positions'
      BY <2>1, <2>3 DEF Positions
    <3> QED  BY <2>1, <3>3, <3>4
  <2>4. CASE ~none
    <3>1. Seen' = Seen
      BY <2>1, <2>4 DEF Seen
    <3>2. Tallies'
      BY <2>1, <2>2, <3>1 DEF Tallies
    <3>3. Positions'
      BY <1>0, <2>1, <2>4 DEF Positions
    <3> QED  BY <2>1, <3>2, <3>3
  <2> QED  BY <2>3, <2>4
<1>7. CASE EndOperation
  <2> DEFINE b == Buffer(events[next + 1])
  <2>1. /\ pc = "operation" /\ pc' = "quote" /\ calls' = calls + 1
        /\ samples' = [samples EXCEPT ![b] = @ + 1]
        /\ UNCHANGED <<events, next, baseline>>
    BY <1>7 DEF EndOperation, GoTo, InPass, loaderVars
  <2>2. Tallies /\ b # "none"
    BY <2>1 DEF Measured, Positions
  <2>3. b \in {"add", "cancel", "reduce"}
    BY <2>2 DEF Buffer
  <2>4. /\ CountOf(events, next + 1, {1}) =
             CountOf(events, next, {1}) + (IF b = "add" THEN 1 ELSE 0)
        /\ CountOf(events, next + 1, {3}) =
             CountOf(events, next, {3}) + (IF b = "cancel" THEN 1 ELSE 0)
        /\ CountOf(events, next + 1, {2, 4}) =
             CountOf(events, next, {2, 4}) + (IF b = "reduce" THEN 1 ELSE 0)
    BY CountOfEvent
  <2> HIDE DEF b
  <2>5. Seen = next /\ Seen' = next + 1
    BY <2>1 DEF Seen
  <2>6. PassTypes'
    BY <2>1, <2>3 DEF Buffers
  <2>7. Positions'
    BY <2>1 DEF Positions
  <2>8. /\ samples'["add"] = samples["add"] + (IF b = "add" THEN 1 ELSE 0)
        /\ samples'["cancel"] = samples["cancel"] + (IF b = "cancel" THEN 1 ELSE 0)
        /\ samples'["reduce"] = samples["reduce"] + (IF b = "reduce" THEN 1 ELSE 0)
        /\ samples'["quote"] = samples["quote"]
    BY <2>1, <2>3 DEF Buffers
  <2>9. Tallies'
    BY <2>1, <2>2, <2>3, <2>4, <2>5, <2>8 DEF Tallies, Buffers
  <2> QED  BY <2>6, <2>7, <2>9
<1>8. CASE BeginQuote
  <2>1. /\ pc = "quote" /\ pc' = "quotes"
        /\ UNCHANGED <<events, next, samples, calls, baseline>>
    BY <1>8 DEF BeginQuote, GoTo, InPass, loaderVars
  <2> QED  BY <2>1 DEF Positions, Tallies, Seen, Measured
<1>9. CASE EndQuote
  <2>1. /\ pc = "quotes" /\ pc' = "event" /\ calls' = calls + 1 /\ next' = next + 1
        /\ samples' = [samples EXCEPT !["quote"] = @ + 1]
        /\ UNCHANGED <<events, baseline>>
    BY <1>9 DEF EndQuote, GoTo, InPass, loaderVars
  <2>2. Tallies
    BY <2>1 DEF Measured
  <2>3. PassTypes'
    BY <2>1 DEF Buffers
  <2>4. Positions'
    BY <1>0, <2>1 DEF Positions
  <2>5. /\ samples'["add"] = samples["add"] /\ samples'["cancel"] = samples["cancel"]
        /\ samples'["reduce"] = samples["reduce"] /\ samples'["quote"] = samples["quote"] + 1
    BY <2>1 DEF Buffers
  <2>6. Seen = next + 1 /\ Seen' = next + 1
    BY <2>1 DEF Seen
  <2>7. Tallies'
    BY <2>1, <2>2, <2>5, <2>6 DEF Tallies, Buffers
  <2> QED  BY <2>3, <2>4, <2>7
<1>10. CASE StopMeasuring
  <2>1. /\ pc = "event" /\ pc' = "report" /\ next = Len(events)
        /\ UNCHANGED <<events, next, samples, calls, baseline>>
    BY <1>10 DEF StopMeasuring, GoTo, InPass, loaderVars
  <2> QED  BY <2>1 DEF Positions, Tallies, Seen, Measured
<1>11. CASE Report
  <2>1. /\ pc' \in {"warm", "done"} /\ events' = events
        /\ next' = 0 /\ calls' = 0 /\ baseline' = 0
        /\ samples' = [buffer \in Buffers |-> 0]
    BY <1>11 DEF Report, GoTo, loaderVars, NoSamples, Buffers
  <2> QED  BY <1>0, <2>1 DEF Positions, Measured
<1>12. CASE System \/ UNCHANGED vars
  BY <1>1, <1>12 DEF System, vars, loaderVars
<1> QED
  BY <1>2, <1>3, <1>4, <1>5, <1>6, <1>7, <1>8, <1>9, <1>10, <1>11, <1>12
  DEF Next, Program, RunVariant

(* At all times. *)
LEMMA AlwaysPassInv == Spec => [](LoaderInv /\ PassInv)
<1>1. Init => PassInv
  <2> SUFFICES ASSUME Init PROVE PassInv
    OBVIOUS
  <2>1. /\ next = 0 /\ calls = 0 /\ baseline = 0 /\ pc = "open"
        /\ samples = [buffer \in Buffers |-> 0]
    BY DEF Init, NoSamples, Buffers
  <2> QED  BY <2>1 DEF PassInv, PassTypes, Positions, Measured
<1>2. LoaderInv /\ PassInv /\ [Next]_vars => PassInv'
  BY NextKeepsPass
<1> QED  BY <1>1, <1>2, AlwaysLoaderInv, PTL DEF Spec

(* A report adds up to the stream: one sample for each event that has an   *)
(* operation, in the buffer of its type, one quote for each event, and the *)
(* counters have seen those calls and no call of the warm up               *)
(* (benchmark_main.cpp:106-168).                                           *)
THEOREM ReportsAddUp == Spec => []ReportAccountsForEvents
<1>1. PassInv => ReportAccountsForEvents
  <2> SUFFICES ASSUME PassInv, pc = "report"
               PROVE  /\ samples.add = OfType({1}) /\ samples.cancel = OfType({3})
                      /\ samples.reduce = OfType({2, 4})
                      /\ samples.quote = Len(events)
                      /\ Reading = OpCount + samples.quote
    BY DEF ReportAccountsForEvents
  <2>1. Tallies /\ next = Len(events) /\ Seen = next
    BY DEF PassInv, Measured, Positions, Seen
  <2>2. \A types : OfType(types) = CountOf(events, next, types)
    BY <2>1 DEF OfType, CountOf
  <2>3. Reading = OpCount + samples.quote
    BY <2>1 DEF Reading, OpCount, PassInv, PassTypes, Buffers, Tallies
  <2> QED  BY <2>1, <2>2, <2>3 DEF Tallies
<1> QED  BY <1>1, AlwaysPassInv, PTL
=============================================================================
