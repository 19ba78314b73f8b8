-------------------------------- MODULE Clock --------------------------------
(***************************************************************************)
(* Timer (bench/clock.hpp) and the pinning of the thread it relies on      *)
(* (bench/benchmark_main.cpp).  Every core has a time stamp counter; the   *)
(* operating system may move the thread between two reads; a counter that  *)
(* is not invariant changes its rate.  Between the steps of the program    *)
(* time passes.                                                            *)
(*                                                                         *)
(* Only differences between reads are used, so time is counted from the    *)
(* first read of the interval under way.  The unit of time is a tick of an *)
(* invariant counter; the steady clock is coarser (methodology.md:40-46).  *)
(***************************************************************************)
EXTENDS Integers

CONSTANTS
  Cores,
  Skew,     (* By how much the counter of a core is ahead.                 *)
  Width,    (* Counters wrap around here: 2^64.                            *)
  Grain,    (* A tick of the steady clock: 42 ns, say.                     *)
  Target,   (* How long a calibration takes at least: 50 ms.               *)
  MaxGap,   (* Bound on the time between two successive steps.             *)
  MaxTime   (* Bound on the time of an interval.                           *)

ASSUME SkewAssumption == Skew \in [Cores -> 0 .. Width - 1]
ASSUME GapAssumption  == /\ MaxGap \in Nat /\ Target \in Nat /\ Grain \in Nat \ {0}
                         /\ MaxGap + Grain <= Target
ASSUME TimeAssumption == /\ MaxTime \in Nat /\ MaxTime >= Target + Grain + 3 * MaxGap
                         /\ Width \in Nat /\ Width > 2 * MaxTime

VARIABLES
  rdtscp, invariant,   (* using_rdtscp_ and invariant_tsc_.                *)
  core, stays,         (* Where the thread runs, and whether it may run    *)
                       (* there only.                                      *)
  pinned,              (* What pin_to_core said.                           *)
  step,                (* What the timer does: "idle", "timing", or the    *)
                       (* next read of a calibration.                      *)
  begun,               (* t0, or tsc_start.                                *)
  steadyEnd,           (* steady_end - steady_start.                       *)
  phase,               (* Where in a tick of the steady clock it began.    *)
  time, tsc,           (* Since the interval began: time, counter ticks.   *)
  gap                  (* Time since the last step.                        *)

machine   == <<rdtscp, invariant>>
thread    == <<core, stays, pinned>>
timer     == <<step, begun, steadyEnd, phase, time, tsc, gap>>
clockVars == <<machine, thread, timer>>

ClockInit ==
  /\ rdtscp \in BOOLEAN
  /\ invariant \in IF rdtscp THEN BOOLEAN ELSE {FALSE}
  /\ core \in Cores /\ stays = FALSE /\ pinned = FALSE
  /\ step = "idle" /\ begun = 0 /\ steadyEnd = 0 /\ phase = 0
  /\ time = 0 /\ tsc = 0 /\ gap = 0

-----------------------------------------------------------------------------
Tick ==
  /\ step # "idle" /\ gap < MaxGap /\ time < MaxTime
  /\ time' = time + 1 /\ gap' = gap + 1
  /\ \E ticks \in IF rdtscp /\ ~invariant THEN {1, 2} ELSE {1} : tsc' = tsc + ticks
  /\ UNCHANGED <<machine, thread, step, begun, steadyEnd, phase>>

Migrate ==
  /\ ~stays /\ step # "idle"
  /\ core' \in Cores \ {core}
  /\ UNCHANGED <<machine, stays, pinned, timer>>

(* sched_setaffinity is refused, or there is none, or no such core.        *)
PinToCoreUnchecked(c) ==     \* mutant: the result is not looked at
  /\ \/ c \in Cores /\ core' = c /\ stays' = TRUE
     \/ UNCHANGED <<core, stays>>
  /\ pinned' = TRUE
  /\ UNCHANGED <<machine, timer>>

PinToCore(c) ==
  /\ \/ c \in Cores /\ core' = c /\ stays' = TRUE /\ pinned' = TRUE
     \/ UNCHANGED thread
  /\ UNCHANGED <<machine, timer>>

-----------------------------------------------------------------------------
(* What the steady clock has moved on since: whole ticks of its own.       *)
Steady == (phase + time) - ((phase + time) % Grain)

Read == IF rdtscp THEN (tsc + Skew[core]) % Width ELSE Steady % Width

Since(read) == (Read - read) % Width

(* An interval is over, and nothing is timed until the next one begins.    *)
EndInterval ==
  /\ step' = "idle"
  /\ begun' = 0 /\ steadyEnd' = 0 /\ phase' = 0
  /\ time' = 0 /\ tsc' = 0 /\ gap' = 0
  /\ UNCHANGED <<machine, thread>>

Step(from, to) ==
  /\ step = from /\ step' = to /\ gap' = 0
  /\ UNCHANGED <<machine, thread, time, tsc>>

(* It may begin anywhere between two ticks of the steady clock.            *)
Begin(to) == Step("idle", to) /\ phase' \in 0 .. Grain - 1 /\ UNCHANGED steadyEnd

(* The two reads around an operation; the second gives the sample.         *)
FirstRead  == Begin("timing") /\ begun' = Read
SecondRead == step = "timing" /\ EndInterval

(***************************************************************************)
(* calibrate: steady clock and counter are read one after the other, once  *)
(* before and time and again until enough of the former has passed.        *)
(***************************************************************************)
SteadyEndOnce ==             \* mutant: the loop reads the counter only
  Step("steady_end", "tsc_end") /\ UNCHANGED <<begun, steadyEnd, phase>>

SteadyEnd ==
  Step("steady_end", "tsc_end") /\ steadyEnd' = Steady /\ UNCHANGED <<begun, phase>>

Calibrate ==
  \/ ~rdtscp /\ step = "idle" /\ UNCHANGED clockVars
  \/ rdtscp /\ Begin("tsc_start") /\ UNCHANGED begun
  \/ Step("tsc_start", "steady_end") /\ begun' = Read /\ UNCHANGED <<steadyEnd, phase>>
  \/ SteadyEnd
  \/ /\ steadyEnd < Target /\ Step("tsc_end", "steady_end")
     /\ UNCHANGED <<begun, steadyEnd, phase>>
  \/ steadyEnd >= Target /\ step = "tsc_end" /\ EndInterval

(* tsc_hz_ as counter ticks over time, when the last turn of the loop ends. *)
HzOfTarget == [ticks |-> Since(begun), time |-> Target]   \* mutant: the time asked for

Hz == [ticks |-> Since(begun), time |-> steadyEnd]

-----------------------------------------------------------------------------
(***************************************************************************)
(* The header of a run says "rdtscp", "core pinned yes" and                *)
(* "invariant_tsc=yes".  Of the fallback it says that its timings are too  *)
(* high to trust (benchmark_main.cpp:287-296), and nothing is said here.   *)
(***************************************************************************)
Trusted == rdtscp /\ pinned /\ invariant

(***************************************************************************)
(* Then every difference of two reads is the time between them, whatever   *)
(* the operating system does meanwhile (benchmark_main.cpp:287-291,        *)
(* clock.hpp:8-12, docs/methodology.md:63).                                *)
(***************************************************************************)
SamplesAreTime == step = "timing" /\ Trusted => Since(begun) = time

(***************************************************************************)
(* And the rate it converts them with is off by less than one delay        *)
(* between a read of the steady clock and the read of the counter that     *)
(* goes with it and one tick of the steady clock, over no less than the    *)
(* target (clock.hpp:44-55).                                               *)
(***************************************************************************)
CalibrationIsClose ==
  step = "tsc_end" /\ steadyEnd >= Target /\ Trusted =>
    /\ Hz.ticks - Hz.time \in 1 - (MaxGap + Grain) .. (MaxGap + Grain) - 1
    /\ Hz.ticks > 0
=============================================================================
