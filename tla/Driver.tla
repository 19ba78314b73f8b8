-------------------------------- MODULE Driver --------------------------------
(***************************************************************************)
(* The benchmark program (main and run_variant of                          *)
(* bench/benchmark_main.cpp): it finds its events, pins the thread,        *)
(* calibrates the timer, and for each variant replays the stream on a      *)
(* warm up book and then, timing every call between two reads, on the      *)
(* measured book.  What the calls do to the books is the subject of        *)
(* Replay; here they are counted, which is what the counters do.           *)
(***************************************************************************)
EXTENDS Loader, Clock

CONSTANTS
  NoPath, NoFile,
  DefaultPath,   (* The sample below OBLS_DATA_DIR.                        *)
  Generator,     (* The synthetic stream, as long as any count asks for.   *)
  Options,       (* Command lines: path, synthetic, count, max, core,      *)
                 (* sweep.                                                 *)
  Disks,         (* For each path what is there: a file or NoFile.         *)
  Variants       (* Number of variants.                                    *)

Paths == ({o.path : o \in Options} \cup {DefaultPath}) \ {NoPath}

ASSUME PathAssumption      == DefaultPath # NoPath
ASSUME GeneratorAssumption == Generator \in Seq(EventRecord)
ASSUME OptionsAssumption   == \A o \in Options : /\ o.count \in 0 .. Len(Generator)
                                                 /\ o.max \in Nat
ASSUME DisksAssumption     == Disks \subseteq [Paths -> File \cup {NoFile}]

VARIABLES
  options, disk,
  pc,          (* The place in main and run_variant.                       *)
  synthetic,   (* What the header says of the data.                        *)
  variant,     (* Whose turn it is.                                        *)
  next,        (* Number of events replayed in the pass.                   *)
  samples,     (* How many samples each buffer has.                        *)
  calls,       (* Calls on the books of this variant so far, and how many  *)
  baseline     (* there were when the counters were started.               *)

input == <<options, disk>>
pass  == <<variant, next, samples, calls, baseline>>
vars  == <<loaderVars, clockVars, input, pc, synthetic, pass>>

NoSamples == [buffer \in {"add", "cancel", "reduce", "quote"} |-> 0]

Init ==
  /\ LoaderInit /\ ClockInit
  /\ options \in Options /\ disk \in Disks
  /\ pc = "open" /\ synthetic = TRUE
  /\ variant = 1 /\ next = 0 /\ samples = NoSamples
  /\ calls = 0 /\ baseline = 0

GoTo(place) == pc' = place /\ UNCHANGED input

-----------------------------------------------------------------------------
(***************************************************************************)
(* Where the events come from.                                             *)
(***************************************************************************)
DataPath ==
  IF options.path = NoPath /\ ~options.synthetic THEN DefaultPath ELSE options.path

Openable == ~options.synthetic /\ disk[DataPath] # NoFile

OpenFile ==
  /\ Openable
  /\ Open(disk[DataPath])
  /\ GoTo("rows") /\ UNCHANGED synthetic

GenerateAsAsked ==           \* mutant: the label follows the option, not the load
  /\ ~Openable
  /\ events' = SubSeq(Generator, 1, options.count)
  /\ synthetic' = options.synthetic
  /\ GoTo("truncate")
  /\ UNCHANGED <<rows, ended, line, reserved>>

Generate ==
  /\ ~Openable
  /\ events' = SubSeq(Generator, 1, options.count)
  /\ GoTo("truncate")
  /\ UNCHANGED <<rows, ended, line, reserved, synthetic>>

ChooseSource ==
  /\ pc = "open"
  /\ OpenFile \/ Generate
  /\ UNCHANGED <<clockVars, pass>>

Load ==
  /\ pc = "rows"
  /\ \/ ReadRow /\ UNCHANGED <<pc, input, synthetic>>
     \/ line = Len(rows) /\ synthetic' = FALSE /\ GoTo("truncate") /\ UNCHANGED loaderVars
  /\ UNCHANGED <<clockVars, pass>>

Truncate ==
  /\ pc = "truncate"
  /\ events' = IF options.max # 0 /\ Len(events) > options.max
                 THEN SubSeq(events, 1, options.max) ELSE events
  /\ GoTo("pin")
  /\ UNCHANGED <<rows, ended, line, reserved, clockVars, synthetic, pass>>
(***************************************************************************)
(* Pinned before it is calibrated, and then the sweep or the variants.     *)
(***************************************************************************)
Pin ==
  /\ pc = "pin"
  /\ PinToCore(options.core)
  /\ GoTo("calibrate")
  /\ UNCHANGED <<loaderVars, synthetic, pass>>

CalibrateTimer ==
  /\ pc = "calibrate"
  /\ Calibrate
  /\ GoTo(IF step' = "idle" THEN "mode" ELSE pc)
  /\ UNCHANGED <<loaderVars, synthetic, pass>>

(* run_depth_sweep is a module of its own. *)
ChooseMode ==
  /\ pc = "mode"
  /\ GoTo(IF options.sweep THEN "done" ELSE "warm")
  /\ UNCHANGED <<loaderVars, clockVars, synthetic, pass>>

-----------------------------------------------------------------------------
(***************************************************************************)
(* run_variant.                                                            *)
(***************************************************************************)
Buffer(event) ==
  CASE event.type = 1 -> "add" [] event.type = 3 -> "cancel"
    [] event.type \in {2, 4} -> "reduce" [] OTHER -> "none"

InPass  == UNCHANGED <<loaderVars, synthetic, variant>>
Untimed == UNCHANGED clockVars

WarmUp ==
  /\ pc = "warm" /\ next < Len(events)
  /\ next' = next + 1
  /\ calls' = IF Buffer(events[next + 1]) = "none" THEN calls ELSE calls + 1
  /\ GoTo(pc) /\ InPass /\ Untimed /\ UNCHANGED <<samples, baseline>>

(* New buffers, the measured book, and the counters start.                 *)
StartMeasuringCold ==        \* mutant: the counters were started with the warm up
  /\ pc = "warm" /\ next = Len(events)
  /\ next' = 0 /\ samples' = NoSamples
  /\ GoTo("event") /\ InPass /\ Untimed /\ UNCHANGED <<calls, baseline>>

StartMeasuring ==
  /\ pc = "warm" /\ next = Len(events)
  /\ next' = 0 /\ samples' = NoSamples /\ baseline' = calls
  /\ GoTo("event") /\ InPass /\ Untimed /\ UNCHANGED calls

BeginOperation ==
  /\ pc = "event" /\ next < Len(events)
  /\ IF Buffer(events[next + 1]) = "none"
       THEN GoTo("quote") /\ Untimed
       ELSE GoTo("operation") /\ FirstRead
  /\ InPass /\ UNCHANGED <<next, samples, calls, baseline>>

EndOperation ==
  /\ pc = "operation"
  /\ SecondRead
  /\ calls' = calls + 1
  /\ samples' = [samples EXCEPT ![Buffer(events[next + 1])] = @ + 1]
  /\ GoTo("quote") /\ InPass /\ UNCHANGED <<next, baseline>>

BeginQuote ==
  /\ pc = "quote"
  /\ FirstRead
  /\ GoTo("quotes") /\ InPass /\ UNCHANGED <<next, samples, calls, baseline>>

(* The best bid and the best ask are one call here.                        *)
EndQuote ==
  /\ pc = "quotes"
  /\ SecondRead
  /\ calls' = calls + 1
  /\ samples' = [samples EXCEPT !.quote = @ + 1]
  /\ next' = next + 1
  /\ GoTo("event") /\ InPass /\ UNCHANGED baseline

StopMeasuring ==
  /\ pc = "event" /\ next = Len(events)
  /\ GoTo("report") /\ InPass /\ Untimed /\ UNCHANGED <<next, samples, calls, baseline>>

(* The counters' reading, and the operations it is divided by.             *)
Reading == calls - baseline
OpCount == samples.add + samples.cancel + samples.reduce

Report ==
  /\ pc = "report"
  /\ \/ variant < Variants /\ variant' = variant + 1 /\ GoTo("warm")
     \/ variant = Variants /\ GoTo("done") /\ UNCHANGED variant
  /\ next' = 0 /\ samples' = NoSamples /\ calls' = 0 /\ baseline' = 0
  /\ UNCHANGED <<loaderVars, clockVars, synthetic>>

-----------------------------------------------------------------------------
RunVariant ==
  \/ WarmUp \/ StartMeasuring \/ StopMeasuring \/ Report
  \/ BeginOperation \/ EndOperation \/ BeginQuote \/ EndQuote

Program ==
  \/ ChooseSource \/ Load \/ Truncate
  \/ Pin \/ CalibrateTimer \/ ChooseMode
  \/ RunVariant

System == (Tick \/ Migrate) /\ UNCHANGED <<loaderVars, input, pc, synthetic, pass>>

Next == Program \/ System

(* The thread runs on and time goes on; nothing makes it migrate.          *)
Fairness ==
  /\ WF_vars(Program)
  /\ WF_vars(Tick /\ UNCHANGED <<loaderVars, input, pc, synthetic, pass>>)

Spec == Init /\ [][Next]_vars /\ Fairness

-----------------------------------------------------------------------------
(***************************************************************************)
(* "the header below names the source so a reader never mistakes one for   *)
(* the other" (benchmark_main.cpp:237-241): data labelled LOBSTER are the  *)
(* first rows of the file at the path printed, which is the one asked for  *)
(* if one was; any other data are labelled synthetic.                      *)
(***************************************************************************)
Cut(s) == IF options.max \in 1 .. Len(s) THEN SubSeq(s, 1, options.max) ELSE s

SourceIsNamed ==
  pc \notin {"open", "rows", "truncate"} =>
    IF synthetic
      THEN events = Cut(SubSeq(Generator, 1, options.count))
      ELSE /\ Openable
           /\ options.path \in {NoPath, DataPath}
           /\ events = Cut(EventsOf(disk[DataPath].rows))

(***************************************************************************)
(* What a variant reports adds up to the stream: every event has its       *)
(* sample in the buffer of its type, and a quote; and the counters have    *)
(* seen the calls that were timed, no call of the warm up and none of      *)
(* another variant (benchmark_main.cpp:106-168).                           *)
(***************************************************************************)
OfType(types) == Cardinality({k \in 1 .. Len(events) : events[k].type \in types})

ReportAccountsForEvents ==
  pc = "report" =>
    /\ samples.add = OfType({1}) /\ samples.cancel = OfType({3})
    /\ samples.reduce = OfType({2, 4})
    /\ samples.quote = Len(events)
    /\ Reading = OpCount + samples.quote

(***************************************************************************)
(* The program ends: the calibration loop does, since time passes whatever *)
(* core the thread is on, and every pass over the events does.             *)
(***************************************************************************)
ProgramEnds == <>(pc = "done")
=============================================================================
