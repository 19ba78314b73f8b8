---------------------------- MODULE PerfCounters ----------------------------
(***************************************************************************)
(* PerfCounters of bench/perf_counters.hpp, both backends: the counter     *)
(* group of perf_event_open on Linux, and kperf on Apple Silicon.  The     *)
(* constructor acquires what it needs and any step of that may fail; the   *)
(* benchmark then starts, stops and reads the counters, perhaps several    *)
(* times; the destructor releases, and the next object is constructed: the *)
(* program has one to probe and then one for each variant, never two at a  *)
(* time.  The kernel and its frameworks are external: their calls succeed  *)
(* or fail, and the counters count.                                        *)
(***************************************************************************)
EXTENDS Integers, Sequences

CONSTANTS
  Backends,  (* "linux", "apple".                                          *)
  MaxWork,   (* Most events that happen to the thread.                     *)
  MaxObjects (* Number of objects, one after the other.                    *)

ASSUME BackendsAssumption == Backends \subseteq {"linux", "apple"}

VARIABLES
  backend,    (* Which class the platform compiles.                        *)
  pc,         (* The step of the constructor or destructor, or the phase   *)
              (* of the benchmark: "idle", "measuring", "stopped".         *)
  objects,    (* How many there have been before this one.                 *)
  held,       (* What the process and the kernel hold for the objects.     *)
  noted,      (* The members forced_ and counting_, as a set of names.     *)
  available,  (* available_.                                               *)
  counts,     (* What the counters of the thread show, by event.           *)
  on,         (* Linux: the group is enabled.                              *)
  baseline,   (* Apple: baseline_ and current_, by event.                  *)
  current,
  reading,    (* The last CounterReading.                                  *)
  worked,     (* Number of events that have happened.                      *)
  interval,   (* History: the events between the last start and stop.      *)
  unread      (* History: a read of the thread's counters failed in it.    *)

object   == <<backend, held, noted, available>>
counters == <<counts, on, baseline, current>>
history  == <<worked, interval, unread>>
vars     == <<object, objects, pc, counters, reading, history>>

(* The events in the order they are opened or added, and the fields of a   *)
(* reading in the order the values are assigned to them.                   *)
Added ==
  IF backend = "linux"
    THEN <<"instructions", "cycles", "branches", "branch_misses", "cache_misses">>
    ELSE <<"cycles", "instructions", "branches", "branch_misses", "cache_misses">>

FieldsShared ==            \* mutant: one order of fields for both backends
  <<"instructions", "cycles", "branches", "branch_misses", "cache_misses">>

Fields ==
  IF backend = "linux"
    THEN <<"instructions", "cycles", "branches", "branch_misses", "cache_misses">>
    ELSE <<"cycles", "instructions", "branches", "branch_misses", "cache_misses">>

Event   == {"instructions", "cycles", "branches", "branch_misses", "cache_misses"}
Leader  == "instructions"
None    == [e \in Event |-> 0]

Unavailable == [available |-> FALSE, value |-> None]

(* The fields take the values by position. *)
Reading(value) ==
  [available |-> TRUE,
   value |-> [e \in Event |-> value[Added[CHOOSE p \in 1 .. Len(Fields) : Fields[p] = e]]]]

FirstStep == IF backend = "linux" THEN "leader" ELSE "libraries"

Init ==
  /\ backend \in Backends
  /\ pc = FirstStep /\ objects = 0
  /\ held = {} /\ noted = {} /\ available = FALSE
  /\ counts = None /\ on = FALSE /\ baseline = None /\ current = None
  /\ reading = Unavailable
  /\ worked = 0 /\ interval = None /\ unread = FALSE

-----------------------------------------------------------------------------
(***************************************************************************)
(* The constructors.                                                       *)
(***************************************************************************)
Quiet == UNCHANGED <<backend, objects, counters, reading, history>>

(* Linux: without the leader nothing else is opened. *)
OpenLeader ==
  /\ pc = "leader"
  /\ \/ held' = {Leader} /\ pc' = "members"
     \/ held' = {} /\ pc' = "idle"
  /\ UNCHANGED <<noted, available>> /\ Quiet

OpenMembersAny ==          \* mutant: one member is enough
  /\ pc = "members"
  /\ \E opened \in SUBSET (Event \ {Leader}) :
       /\ held' = held \cup opened
       /\ available' = (opened # {})
  /\ pc' = "idle"
  /\ UNCHANGED noted /\ Quiet

(* All four are tried, whichever fails. *)
OpenMembers ==
  /\ pc = "members"
  /\ \E opened \in SUBSET (Event \ {Leader}) :
       /\ held' = held \cup opened
       /\ available' = (opened = Event \ {Leader})
  /\ pc' = "idle"
  /\ UNCHANGED noted /\ Quiet

(* Apple: both libraries are tried before either is tested. *)
LoadLibraries ==
  /\ pc = "libraries"
  /\ \E loaded \in SUBSET {"kperf", "kperfdata"} :
       /\ held' = held \cup loaded
       /\ pc' = IF loaded = {"kperf", "kperfdata"} THEN "symbols" ELSE "idle"
  /\ UNCHANGED <<noted, available>> /\ Quiet

(* One call of configure: it gains something and goes on, or gives up. *)
Attempt(step, gain, note, next) ==
  /\ pc = step
  /\ \/ /\ held' = held \cup gain
        /\ noted' = noted \cup note
        /\ available' = (next = "idle")
        /\ pc' = next
     \/ pc' = "idle" /\ UNCHANGED <<held, noted, available>>
  /\ Quiet

(* The registers are set only if a configurable counter is in use. *)
Configure ==
  \/ Attempt("symbols", {}, {}, "root")
  \/ Attempt("root", {}, {}, "db")
  \/ Attempt("db", {"db"}, {}, "config")
  \/ Attempt("config", {"config"}, {}, "events")
  \/ Attempt("events", {}, {}, "force")
  \/ Attempt("force", {"forced"}, {"forced"}, "registers")
  \/ Attempt("registers", {}, {}, "counting")
  \/ Attempt("counting", {"counting"}, {}, "thread")
  \/ Attempt("thread", {"thread"}, {"counting"}, "idle")

-----------------------------------------------------------------------------
(***************************************************************************)
(* Measuring.  The benchmark starts, works, stops and reads.               *)
(***************************************************************************)
Work(e) ==
  /\ pc \in {"idle", "measuring", "stopped"}
  /\ worked < MaxWork
  /\ worked' = worked + 1
  /\ counts' = IF (backend = "apple" /\ available) \/ on
                 THEN [counts EXCEPT ![e] = @ + 1] ELSE counts
  /\ interval' = IF pc = "measuring" THEN [interval EXCEPT ![e] = @ + 1] ELSE interval
  /\ UNCHANGED <<object, objects, pc, on, baseline, current, reading, unread>>

(* get_thread_counters_ fills the buffer or fails; its result is not used. *)
ReadThread(buffer, before) ==
  \/ buffer' = counts /\ unread' = before
  \/ buffer' = buffer /\ unread' = TRUE

Start ==
  /\ pc \in {"idle", "stopped"}
  /\ pc' = "measuring"
  /\ interval' = None
  /\ \/ ~available /\ unread' = FALSE /\ UNCHANGED counters
     \/ /\ available /\ backend = "linux"
        /\ counts' = None /\ on' = TRUE /\ unread' = FALSE
        /\ UNCHANGED <<baseline, current>>
     \/ /\ available /\ backend = "apple"
        /\ ReadThread(baseline, FALSE)
        /\ UNCHANGED <<counts, on, current>>
  /\ UNCHANGED <<object, objects, reading, worked>>

Stop ==
  /\ pc = "measuring"
  /\ pc' = "stopped"
  /\ \/ ~available /\ UNCHANGED <<counters, unread>>
     \/ /\ available /\ backend = "linux"
        /\ on' = FALSE
        /\ UNCHANGED <<counts, baseline, current, unread>>
     \/ /\ available /\ backend = "apple"
        /\ ReadThread(current, unread)
        /\ UNCHANGED <<counts, on, baseline>>
  /\ UNCHANGED <<object, objects, reading, worked, interval>>

(* On Linux the read itself may fail. *)
ReadCounters ==
  /\ pc = "stopped"
  /\ \/ ~available /\ reading' = Unavailable
     \/ /\ available /\ backend = "linux"
        /\ reading' \in {Reading(counts), Unavailable}
     \/ /\ available /\ backend = "apple"
        /\ reading' = Reading([e \in Event |-> current[e] - baseline[e]])
  /\ UNCHANGED <<object, objects, pc, counters, history>>

-----------------------------------------------------------------------------
(***************************************************************************)
(* The destructors: what they release, one release after the other.        *)
(***************************************************************************)
Release(step, what, next) ==
  /\ pc = step
  /\ held' = held \ what
  /\ pc' = next
  /\ UNCHANGED <<backend, objects, noted, available, counters, reading, history>>

Destroy ==
  /\ pc \in {"idle", "stopped"}
  /\ pc' = IF backend = "linux" THEN "close" ELSE "uncount"
  /\ UNCHANGED <<object, objects, counters, reading, history>>

TearDownEarlyUnload ==     \* mutant: the libraries are closed first
  \/ Release("close", Event, "gone")
  \/ Release("uncount", IF "counting" \in noted THEN {"counting", "thread"} ELSE {}, "unload")
  \/ Release("unload", {"kperf", "kperfdata"}, "unforce")
  \/ Release("unforce", IF "forced" \in noted THEN {"forced"} ELSE {}, "free_config")
  \/ Release("free_config", {"config"}, "free_db")
  \/ Release("free_db", {"db"}, "gone")

TearDownKeepsForced ==     \* mutant: the counters stay forced
  \/ Release("close", Event, "gone")
  \/ Release("uncount", IF "counting" \in noted THEN {"counting", "thread"} ELSE {}, "free_config")
  \/ Release("free_config", {"config"}, "free_db")
  \/ Release("free_db", {"db"}, "unload")
  \/ Release("unload", {"kperf", "kperfdata"}, "gone")

TearDown ==
  \/ Release("close", Event, "gone")
  \/ Release("uncount", IF "counting" \in noted THEN {"counting", "thread"} ELSE {}, "unforce")
  \/ Release("unforce", IF "forced" \in noted THEN {"forced"} ELSE {}, "free_config")
  \/ Release("free_config", {"config"}, "free_db")
  \/ Release("free_db", {"db"}, "unload")
  \/ Release("unload", {"kperf", "kperfdata"}, "gone")

(* The next object has its own members; what the kernel holds stays.       *)
ConstructNext ==
  /\ pc = "gone" /\ objects < MaxObjects - 1
  /\ objects' = objects + 1 /\ pc' = FirstStep
  /\ noted' = {} /\ available' = FALSE
  /\ baseline' = None /\ current' = None
  /\ UNCHANGED <<backend, held, counts, on, reading, history>>

-----------------------------------------------------------------------------
Construct == OpenLeader \/ OpenMembers \/ LoadLibraries \/ Configure

Measure == (\E e \in Event : Work(e)) \/ Start \/ Stop \/ ReadCounters

Next == Construct \/ Measure \/ Destroy \/ TearDown \/ ConstructNext

Spec == Init /\ [][Next]_vars

-----------------------------------------------------------------------------
(***************************************************************************)
(* Available counters are complete: all five events are counted for the    *)
(* thread, whichever steps of the constructor failed.                      *)
(***************************************************************************)
AllOrNothing ==
  available /\ pc \in {"idle", "measuring", "stopped"} =>
    IF backend = "linux" THEN Event \subseteq held
                         ELSE {"config", "forced", "counting", "thread"} \subseteq held

(***************************************************************************)
(* A reading that is available tells, event by event, what happened in the *)
(* bracketed interval and nothing before, after or in an earlier interval  *)
(* (perf_counters.hpp:177-181), provided the thread's counters could be    *)
(* read: Apple's start and stop do not ask whether they were.              *)
(***************************************************************************)
ReadingIsInterval ==
  [][reading' # reading /\ reading'.available /\ ~unread => reading'.value = interval]_vars

(***************************************************************************)
(* Whichever steps of the constructors failed, the destructors leave       *)
(* nothing behind, with one exception: where set_counting_ succeeded and   *)
(* set_thread_counting_ did not, the members do not say that counting is   *)
(* to be switched off, and it stays on until a later object that succeeds  *)
(* is destroyed (perf_counters.hpp:394-397, 406-426).                      *)
(***************************************************************************)
NothingElseOutlives ==
  pc = "gone" => held = {} \/ (held = {"counting"} /\ "counting" \notin noted)

(* No handle outlives the library, or the database, it is freed through.   *)
ReleasedInOrder ==
  /\ "config" \in held => "db" \in held
  /\ "db" \in held => "kperfdata" \in held
  /\ {"forced", "thread"} \cap held # {} => "kperf" \in held

-----------------------------------------------------------------------------
(***************************************************************************)
(* Reading before and after the measured loop and subtracting "attributes  *)
(* the counts to exactly the work under test" (perf_counters.hpp:177-179)  *)
(* in every reading that is reported as available.                         *)
(***************************************************************************)
AttributesExactly ==
  [][reading' # reading /\ reading'.available => reading'.value = interval]_vars
=============================================================================
