------------------------- MODULE PerfCountersProofs -------------------------
(***************************************************************************)
(* Proofs about PerfCounters, for every set of backends, every amount of   *)
(* work and every number of objects.  The invariant says, step by step of  *)
(* the constructors and the destructors, what is held: it is what the      *)
(* early returns of the one leave for the other.                           *)
(***************************************************************************)
EXTENDS PerfCounters, TLAPS

Handles   == {"kperf", "kperfdata", "db", "config", "forced", "counting", "thread"}
Benchmark == {"idle", "measuring", "stopped"}

-----------------------------------------------------------------------------
(***************************************************************************)
(* The inductive invariant.                                                *)
(***************************************************************************)
IsTyped ==
  /\ backend \in {"linux", "apple"}
  /\ counts \in [Event -> Int] /\ interval \in [Event -> Int]
  /\ baseline \in [Event -> Int] /\ current \in [Event -> Int]
  /\ available \in BOOLEAN /\ on \in BOOLEAN /\ unread \in BOOLEAN

(* Linux: the leader first, then all members or not all. *)
LinuxHolds ==
  /\ pc \in Benchmark \cup {"leader", "members", "close", "gone"}
  /\ held \subseteq Event
  /\ pc \in {"leader", "members"} => ~available
  /\ pc = "members" => Leader \in held
  /\ pc \in {"leader", "gone"} => held = {}
  /\ pc \in Benchmark /\ available => Event \subseteq held

(* Apple: what each step of the constructor may rely on... *)
Needs(handle, steps) == pc \in steps => handle \in held

AppleGains ==
  /\ Needs("kperf", {"symbols", "root", "db", "config", "events", "force",
                     "registers", "counting", "thread"})
  /\ Needs("kperfdata", {"symbols", "root", "db", "config", "events", "force",
                         "registers", "counting", "thread"})
  /\ Needs("db", {"config", "events", "force", "registers", "counting", "thread"})
  /\ Needs("config", {"events", "force", "registers", "counting", "thread"})
  /\ Needs("forced", {"registers", "counting", "thread"})
  /\ Needs("counting", {"thread"})
  /\ pc \in Benchmark /\ available => {"config", "forced", "counting", "thread"} \subseteq held
  /\ pc \notin Benchmark \cup
       {"uncount", "unforce", "free_config", "free_db", "unload", "gone"} => ~available

(* ... and what each step of the destructor leaves to the next.            *)
Lost(handle, steps) == pc \in steps => handle \notin held

AppleLoses ==
  /\ Lost("thread", {"libraries", "unforce", "free_config", "free_db", "unload", "gone"})
  /\ Lost("forced", {"libraries", "free_config", "free_db", "unload", "gone"})
  /\ Lost("config", {"libraries", "free_db", "unload", "gone"})
  /\ Lost("db", {"libraries", "unload", "gone"})
  /\ Lost("kperf", {"libraries", "gone"})
  /\ Lost("kperfdata", {"libraries", "gone"})
  /\ "counting" \in noted =>
       Lost("counting", {"unforce", "free_config", "free_db", "unload", "gone"})

AppleHolds ==
  /\ pc \in Benchmark \cup
       {"libraries", "symbols", "root", "db", "config", "events", "force", "registers",
        "counting", "thread", "uncount", "unforce", "free_config", "free_db", "unload", "gone"}
  /\ held \subseteq Handles
  /\ "forced" \in held => "forced" \in noted
  /\ "thread" \in held => "counting" \in noted
  /\ AppleGains /\ AppleLoses

(* What the counters show is the interval under way, or the last one.      *)
CountsInterval ==
  available =>
    /\ backend = "linux" /\ pc = "measuring" => on
    /\ backend = "linux" /\ pc = "stopped" => ~on
    /\ backend = "linux" /\ pc \in {"measuring", "stopped"} => counts = interval
    /\ backend = "apple" /\ pc = "measuring" /\ ~unread =>
         \A e \in Event : counts[e] = baseline[e] + interval[e]
    /\ backend = "apple" /\ pc = "stopped" /\ ~unread =>
         \A e \in Event : current[e] = baseline[e] + interval[e]

IInv ==
  /\ IsTyped
  /\ backend = "linux" => LinuxHolds
  /\ backend = "apple" => AppleHolds
  /\ ReleasedInOrder
  /\ CountsInterval

-----------------------------------------------------------------------------
(* No event has been counted, of any kind. *)
LEMMA NoneIsCount == None \in [Event -> Int]
BY DEF None

(* It holds at first. *)
LEMMA InitIInv == Init => IInv
BY BackendsAssumption, NoneIsCount
DEF Init, IInv, FirstStep, IsTyped, LinuxHolds, AppleHolds, AppleGains, AppleLoses, Needs,
    Lost, ReleasedInOrder, CountsInterval, Benchmark

(* The constructor leaves counters and history alone, and does not measure *)
(* before it ends.                                                         *)
LEMMA QuietCounts ==
  ASSUME IInv, Quiet, pc' \notin {"measuring", "stopped"}, available' \in BOOLEAN
  PROVE  IsTyped' /\ CountsInterval'
BY DEF IInv, Quiet, counters, history, IsTyped, CountsInterval

(* Linux: the constructor gives up without the leader, and is available only*)
(* with every member.                                                      *)
LEMMA LinuxConstructs ==
  ASSUME IInv, OpenLeader \/ OpenMembers
  PROVE  IInv'
<1>1. CASE backend = "linux"
  <2>1. Quiet /\ pc' \in {"members", "idle"} /\ available' \in BOOLEAN
    BY DEF IInv, IsTyped, OpenLeader, OpenMembers
  <2>2. LinuxHolds' /\ backend' = backend
    <3>1. CASE OpenLeader
      BY <1>1, <3>1 DEF IInv, OpenLeader, LinuxHolds, Event, Leader, Benchmark, Quiet
    <3>2. CASE OpenMembers
      <4>1. PICK opened \in SUBSET (Event \ {Leader}) :
               /\ held' = held \cup opened
               /\ available' = (opened = Event \ {Leader})
        BY <3>2 DEF OpenMembers
      <4>2. available' => held' = held \cup (Event \ {Leader})
        BY <4>1
      <4>3. held' \subseteq Event
        BY <1>1, <4>1 DEF IInv, LinuxHolds
      <4>4. Leader \in held
        BY <1>1, <3>2 DEF IInv, LinuxHolds, OpenMembers
      <4>5. available' => Event \subseteq held'
        BY <4>2, <4>4
      <4> QED  BY <3>2, <4>3, <4>5 DEF OpenMembers, LinuxHolds, Benchmark, Quiet
    <3> QED  BY <3>1, <3>2
  <2>3. ReleasedInOrder'
    BY <2>2 DEF LinuxHolds, Event, ReleasedInOrder
  <2> QED  BY <1>1, <2>1, <2>2, <2>3, QuietCounts DEF IInv
<1>2. CASE backend = "apple"
  BY <1>2 DEF IInv, AppleHolds, OpenLeader, OpenMembers, Benchmark
<1> QED  BY <1>1, <1>2 DEF IInv, IsTyped

(* Apple's steps all go on from what is held so far. *)
AppleKeeps ==
  /\ IsTyped' /\ CountsInterval'
  /\ backend' = "apple" /\ AppleHolds' /\ ReleasedInOrder'

(* These parts are the invariant when the backend is Apple's. *)
LEMMA AppleKept ==
  ASSUME AppleKeeps
  PROVE  IInv'
BY DEF AppleKeeps, IInv

(* Only with both libraries does the constructor go on. *)
LEMMA AppleLoads ==
  ASSUME IInv, LoadLibraries
  PROVE  IInv'
<1>1. CASE backend = "apple"
  <2>1. Quiet /\ pc' \in {"symbols", "idle"} /\ available' \in BOOLEAN /\ backend' = "apple"
    BY <1>1 DEF IInv, IsTyped, LoadLibraries, Quiet
  <2>2. AppleHolds' /\ ReleasedInOrder'
    BY <1>1 DEF IInv, LoadLibraries, AppleHolds, AppleGains, AppleLoses, Needs,
                Lost, ReleasedInOrder, Handles, Benchmark
  <2> QED  BY <2>1, <2>2, QuietCounts, AppleKept DEF AppleKeeps
<1>2. CASE backend = "linux"
  BY <1>2 DEF IInv, LinuxHolds, LoadLibraries, Benchmark
<1> QED  BY <1>1, <1>2 DEF IInv, IsTyped

(* What a step of configure that succeeds does. *)
Gained(gain, note, next) ==
  held' = held \cup gain /\ noted' = noted \cup note /\ pc' = next

(* A step of configure that fails leaves what the destructor undoes.       *)
LEMMA GiveUpKeeps ==
  ASSUME IInv, backend = "apple", backend' = backend,
         pc \in {"symbols", "root", "db", "config", "events", "force", "registers", "counting",
                "thread"},
         pc' = "idle", UNCHANGED <<held, noted, available>>
  PROVE  AppleHolds' /\ ReleasedInOrder'
BY DEF IInv, AppleHolds, AppleGains, AppleLoses, Needs, Lost, ReleasedInOrder, Benchmark

(* configure goes on only with what its steps so far have gained; the last *)
(* of them makes the counters available.                                   *)
LEMMA AppleConfigures ==
  ASSUME IInv, Configure
  PROVE  IInv'
<1>1. CASE backend = "apple"
  <2>1. /\ Quiet /\ available' \in BOOLEAN /\ backend' = "apple"
        /\ pc' \notin {"measuring", "stopped"}
    BY <1>1 DEF IInv, IsTyped, Configure, Attempt, Quiet
  <2>2. AppleHolds' /\ ReleasedInOrder'
    <3> USE DEF IInv, Gained, AppleHolds, AppleGains, AppleLoses, Needs, Lost, ReleasedInOrder,
                Handles, Benchmark
    <3>1. CASE Attempt("symbols", {}, {}, "root")
      <4>1. pc = "symbols" /\ backend' = backend
        BY <3>1 DEF Attempt, Quiet
      <4>2. CASE Gained({}, {}, "root") /\ ~available'
        BY <1>1, <4>1, <4>2
      <4>3. CASE pc' = "idle" /\ UNCHANGED <<held, noted, available>>
        BY <1>1, <4>1, <4>3, GiveUpKeeps
      <4> QED  BY <3>1, <4>2, <4>3 DEF Attempt, Gained
    <3>2. CASE Attempt("root", {}, {}, "db")
      <4>1. pc = "root" /\ backend' = backend
        BY <3>2 DEF Attempt, Quiet
      <4>2. CASE Gained({}, {}, "db") /\ ~available'
        BY <1>1, <4>1, <4>2
      <4>3. CASE pc' = "idle" /\ UNCHANGED <<held, noted, available>>
        BY <1>1, <4>1, <4>3, GiveUpKeeps
      <4> QED  BY <3>2, <4>2, <4>3 DEF Attempt, Gained
    <3>3. CASE Attempt("db", {"db"}, {}, "config")
      <4>1. pc = "db" /\ backend' = backend
        BY <3>3 DEF Attempt, Quiet
      <4>2. CASE Gained({"db"}, {}, "config") /\ ~available'
        BY <1>1, <4>1, <4>2
      <4>3. CASE pc' = "idle" /\ UNCHANGED <<held, noted, available>>
        BY <1>1, <4>1, <4>3, GiveUpKeeps
      <4> QED  BY <3>3, <4>2, <4>3 DEF Attempt, Gained
    <3>4. CASE Attempt("config", {"config"}, {}, "events")
      <4>1. pc = "config" /\ backend' = backend
        BY <3>4 DEF Attempt, Quiet
      <4>2. CASE Gained({"config"}, {}, "events") /\ ~available'
        BY <1>1, <4>1, <4>2
      <4>3. CASE pc' = "idle" /\ UNCHANGED <<held, noted, available>>
        BY <1>1, <4>1, <4>3, GiveUpKeeps
      <4> QED  BY <3>4, <4>2, <4>3 DEF Attempt, Gained
    <3>5. CASE Attempt("events", {}, {}, "force")
      <4>1. pc = "events" /\ backend' = backend
        BY <3>5 DEF Attempt, Quiet
      <4>2. CASE Gained({}, {}, "force") /\ ~available'
        BY <1>1, <4>1, <4>2
      <4>3. CASE pc' = "idle" /\ UNCHANGED <<held, noted, available>>
        BY <1>1, <4>1, <4>3, GiveUpKeeps
      <4> QED  BY <3>5, <4>2, <4>3 DEF Attempt, Gained
    <3>6. CASE Attempt("force", {"forced"}, {"forced"}, "registers")
      <4>1. pc = "force" /\ backend' = backend
        BY <3>6 DEF Attempt, Quiet
      <4>2. CASE Gained({"forced"}, {"forced"}, "registers") /\ ~available'
        BY <1>1, <4>1, <4>2
      <4>3. CASE pc' = "idle" /\ UNCHANGED <<held, noted, available>>
        BY <1>1, <4>1, <4>3, GiveUpKeeps
      <4> QED  BY <3>6, <4>2, <4>3 DEF Attempt, Gained
    <3>7. CASE Attempt("registers", {}, {}, "counting")
      <4>1. pc = "registers" /\ backend' = backend
        BY <3>7 DEF Attempt, Quiet
      <4>2. CASE Gained({}, {}, "counting") /\ ~available'
        BY <1>1, <4>1, <4>2
      <4>3. CASE pc' = "idle" /\ UNCHANGED <<held, noted, available>>
        BY <1>1, <4>1, <4>3, GiveUpKeeps
      <4> QED  BY <3>7, <4>2, <4>3 DEF Attempt, Gained
    <3>8. CASE Attempt("counting", {"counting"}, {}, "thread")
      <4>1. pc = "counting" /\ backend' = backend
        BY <3>8 DEF Attempt, Quiet
      <4>2. CASE Gained({"counting"}, {}, "thread") /\ ~available'
        BY <1>1, <4>1, <4>2
      <4>3. CASE pc' = "idle" /\ UNCHANGED <<held, noted, available>>
        BY <1>1, <4>1, <4>3, GiveUpKeeps
      <4> QED  BY <3>8, <4>2, <4>3 DEF Attempt, Gained
    <3>9. CASE Attempt("thread", {"thread"}, {"counting"}, "idle")
      <4>1. pc = "thread" /\ backend' = backend
        BY <3>9 DEF Attempt, Quiet
      <4>2. CASE Gained({"thread"}, {"counting"}, "idle") /\ available'
        BY <1>1, <4>1, <4>2
      <4>3. CASE pc' = "idle" /\ UNCHANGED <<held, noted, available>>
        BY <1>1, <4>1, <4>3, GiveUpKeeps
      <4> QED  BY <3>9, <4>2, <4>3 DEF Attempt, Gained
    <3> QED  BY <3>1, <3>2, <3>3, <3>4, <3>5, <3>6, <3>7, <3>8, <3>9 DEF Configure
  <2> QED  BY <2>1, <2>2, QuietCounts, AppleKept DEF AppleKeeps
<1>2. CASE backend = "linux"
  BY <1>2 DEF IInv, LinuxHolds, Configure, Attempt, Benchmark
<1> QED  BY <1>1, <1>2 DEF IInv, IsTyped

-----------------------------------------------------------------------------
(* Measuring leaves the object alone. *)
LEMMA ObjectStays ==
  ASSUME IInv, UNCHANGED object,
         pc' = pc \/ (pc \in Benchmark /\ pc' \in Benchmark \cup
                        {IF backend = "linux" THEN "close" ELSE "uncount"})
  PROVE  /\ backend = "linux" => LinuxHolds'
         /\ backend = "apple" => AppleHolds'
         /\ ReleasedInOrder'
<1>1. backend = "linux" => LinuxHolds'
  BY DEF IInv, object, LinuxHolds, Benchmark
<1>2. backend = "apple" => AppleHolds'
  BY DEF IInv, object, AppleHolds, AppleGains, AppleLoses, Needs, Lost, Benchmark
<1>3. ReleasedInOrder'
  BY DEF IInv, object, ReleasedInOrder
<1> QED  BY <1>1, <1>2, <1>3

(* Work is counted in the interval and by the counters alike. *)
LEMMA WorkKeeps ==
  ASSUME IInv, NEW e \in Event, Work(e)
  PROVE  IInv'
<1>1. /\ backend = "linux" => LinuxHolds'
      /\ backend = "apple" => AppleHolds'
      /\ ReleasedInOrder' /\ backend' = backend
  BY ObjectStays DEF Work, object
<1>2. IsTyped'
  BY DEF IInv, IsTyped, Work, object
<1>3. CountsInterval'
  <2>1. CASE ~available
    BY <2>1 DEF CountsInterval, Work, object
  <2>2. CASE available /\ backend = "linux"
    BY <2>2 DEF IInv, IsTyped, CountsInterval, Work, object
  <2>3. CASE available /\ backend = "apple"
    <3>1. counts' = [counts EXCEPT ![e] = @ + 1]
      BY <2>3 DEF Work
    <3>2. CASE pc = "measuring"
      <4>1. /\ interval' = [interval EXCEPT ![e] = @ + 1]
            /\ UNCHANGED <<backend, pc, baseline, unread>>
        BY <3>2 DEF Work, object
      <4> QED  BY <2>3, <3>1, <3>2, <4>1 DEF IInv, IsTyped, CountsInterval
    <3>3. CASE pc # "measuring"
      BY <2>3, <3>3 DEF IInv, IsTyped, CountsInterval, Work, object
    <3> QED  BY <3>2, <3>3
  <2> QED  BY <2>1, <2>2, <2>3 DEF IInv, IsTyped
<1> QED  BY <1>1, <1>2, <1>3 DEF IInv

(* start resets the counters, or notes what they show. *)
LEMMA StartKeeps ==
  ASSUME IInv, Start
  PROVE  IInv'
<1>1. /\ backend = "linux" => LinuxHolds'
      /\ backend = "apple" => AppleHolds'
      /\ ReleasedInOrder' /\ backend' = backend
  BY ObjectStays DEF Start, object, Benchmark
<1>2. IsTyped'
  BY NoneIsCount DEF IInv, IsTyped, Start, ReadThread, object, counters
<1>3. CountsInterval'
  <2>1. \A e \in Event : interval'[e] = 0
    BY DEF Start, None
  <2> QED  BY <2>1 DEF IInv, IsTyped, CountsInterval, Start, ReadThread, object, counters
<1> QED  BY <1>1, <1>2, <1>3 DEF IInv

(* stop stops the counters, or notes what they show. *)
LEMMA StopKeeps ==
  ASSUME IInv, Stop
  PROVE  IInv'
<1>1. /\ backend = "linux" => LinuxHolds'
      /\ backend = "apple" => AppleHolds'
      /\ ReleasedInOrder' /\ backend' = backend
  BY ObjectStays DEF Stop, object, Benchmark
<1>2. IsTyped'
  BY DEF IInv, IsTyped, Stop, ReadThread, object, counters
<1>3. CountsInterval'
  BY DEF IInv, IsTyped, CountsInterval, Stop, ReadThread, object, counters
<1> QED  BY <1>1, <1>2, <1>3 DEF IInv

(* Reading and the call of the destructor change neither. *)
LEMMA CountersStay ==
  ASSUME IInv, UNCHANGED <<object, counters, history>>,
         pc' = pc \/ pc' \notin {"measuring", "stopped"}
  PROVE  IsTyped' /\ CountsInterval' /\ backend' = backend
BY DEF IInv, IsTyped, CountsInterval, object, counters, history

(* Reading changes nothing else. *)
LEMMA ReadKeeps ==
  ASSUME IInv, ReadCounters
  PROVE  IInv'
<1>1. UNCHANGED <<object, counters, history>> /\ pc' = pc
  BY DEF ReadCounters
<1> QED  BY <1>1, ObjectStays, CountersStay DEF IInv

(* Only an object that is not measuring is destroyed. *)
LEMMA DestroyKeeps ==
  ASSUME IInv, Destroy
  PROVE  IInv'
<1>1. /\ UNCHANGED <<object, counters, history>>
      /\ pc \in Benchmark
      /\ pc' = IF backend = "linux" THEN "close" ELSE "uncount"
  BY DEF Destroy, Benchmark
<1> QED  BY <1>1, ObjectStays, CountersStay DEF IInv

-----------------------------------------------------------------------------
(* Every release takes what it names, and leaves what later ones rely on. *)
LEMMA TearDownKeeps ==
  ASSUME IInv, TearDown
  PROVE  IInv'
<1>1. /\ UNCHANGED <<backend, noted, available, counters, history>>
      /\ pc' \notin {"measuring", "stopped"}
  BY DEF TearDown, Release
<1>2. IsTyped' /\ CountsInterval' /\ backend' = backend
  BY <1>1 DEF IInv, IsTyped, CountsInterval, counters, history
<1>3. CASE backend = "linux"
  <2>1. LinuxHolds'
    BY <1>3 DEF IInv, TearDown, Release, LinuxHolds, Benchmark
  <2>2. ReleasedInOrder'
    BY <2>1 DEF LinuxHolds, Event, ReleasedInOrder
  <2> QED  BY <1>2, <1>3, <2>1, <2>2 DEF IInv
<1>4. CASE backend = "apple"
  <2>1. AppleHolds' /\ ReleasedInOrder'
    BY <1>4 DEF IInv, TearDown, Release, AppleHolds, AppleGains, AppleLoses, Needs,
                Lost, ReleasedInOrder, Handles, Benchmark
  <2> QED  BY <1>2, <1>4, <2>1, AppleKept DEF AppleKeeps
<1> QED  BY <1>3, <1>4 DEF IInv, IsTyped

(* The next object finds at most that counting is still on. *)
LEMMA ConstructNextKeeps ==
  ASSUME IInv, ConstructNext
  PROVE  IInv'
<1>1. IsTyped' /\ CountsInterval' /\ backend' = backend
  BY NoneIsCount DEF IInv, IsTyped, CountsInterval, ConstructNext, FirstStep, history
<1>2. CASE backend = "linux"
  BY <1>1, <1>2 DEF IInv, ConstructNext, FirstStep, LinuxHolds, ReleasedInOrder, Benchmark
<1>3. CASE backend = "apple"
  <2>1. AppleHolds' /\ ReleasedInOrder'
    BY <1>3 DEF IInv, ConstructNext, FirstStep, AppleHolds, AppleGains, AppleLoses, Needs,
                Lost, ReleasedInOrder, Handles, Benchmark
  <2> QED  BY <1>1, <1>3, <2>1, AppleKept DEF AppleKeeps
<1> QED  BY <1>2, <1>3 DEF IInv, IsTyped

-----------------------------------------------------------------------------
(* So every step keeps the invariant... *)
LEMMA StepIInv == IInv /\ [Next]_vars => IInv'
<1> SUFFICES ASSUME IInv, [Next]_vars PROVE IInv'
  OBVIOUS
<1>1. CASE Construct
  BY <1>1, LinuxConstructs, AppleLoads, AppleConfigures DEF Construct
<1>2. CASE Measure
  BY <1>2, WorkKeeps, StartKeeps, StopKeeps, ReadKeeps DEF Measure
<1>3. CASE Destroy
  BY <1>3, DestroyKeeps
<1>4. CASE TearDown
  BY <1>4, TearDownKeeps
<1>5. CASE ConstructNext
  BY <1>5, ConstructNextKeeps
<1>6. CASE UNCHANGED vars
  BY <1>6, ObjectStays, CountersStay DEF vars, IInv
<1> QED  BY <1>1, <1>2, <1>3, <1>4, <1>5, <1>6 DEF Next

(* ... and it always holds. *)
THEOREM AlwaysIInv == Spec => []IInv
<1>1. Init => IInv
  BY InitIInv
<1>2. IInv /\ [Next]_vars => IInv'
  BY StepIInv
<1> QED  BY <1>1, <1>2, PTL DEF Spec

(* is_available() is true only of an object that counts all five events    *)
(* (perf_counters.hpp:63-77, 358-401), whichever steps of its constructor   *)
(* failed.                                                                 *)
THEOREM AvailableIsComplete == Spec => []AllOrNothing
<1>1. IInv => AllOrNothing
  BY DEF IInv, IsTyped, LinuxHolds, AppleHolds, AppleGains, AllOrNothing, Benchmark
<1> QED  BY <1>1, AlwaysIInv, PTL

(* The destructors leave nothing behind but the counting that configure    *)
(* switched on without noting it (perf_counters.hpp:394-397, 406-426),     *)
(* however many objects there have been.                                   *)
THEOREM OnlyCountingIsLeft == Spec => []NothingElseOutlives
<1>1. IInv => NothingElseOutlives
  BY DEF IInv, IsTyped, LinuxHolds, AppleHolds, AppleLoses, Lost, Handles, NothingElseOutlives
<1> QED  BY <1>1, AlwaysIInv, PTL

(* Constructor and destructor never hold a configuration without its       *)
(* database, nor either without the library it is freed through.           *)
THEOREM LibrariesOutliveHandles == Spec => []ReleasedInOrder
<1>1. IInv => ReleasedInOrder
  BY DEF IInv
<1> QED  BY <1>1, AlwaysIInv, PTL

(* The values are read in the order the events were added in. *)
LEMMA ReadingIsByName ==
  ASSUME NEW value \in [Event -> Int], backend \in {"linux", "apple"}
  PROVE  Reading(value).value = value
<1>1. Added = Fields /\ Len(Fields) = 5
  BY DEF Added, Fields
<1>2. \A e \in Event : \E p \in 1 .. 5 : Fields[p] = e
  <2>1. CASE backend = "linux"
    <3>1. /\ Fields[1] = "instructions" /\ Fields[2] = "cycles" /\ Fields[3] = "branches"
          /\ Fields[4] = "branch_misses" /\ Fields[5] = "cache_misses"
      BY <2>1 DEF Fields
    <3> QED  BY <3>1 DEF Event
  <2>2. CASE backend # "linux"
    <3>1. /\ Fields[2] = "instructions" /\ Fields[1] = "cycles" /\ Fields[3] = "branches"
          /\ Fields[4] = "branch_misses" /\ Fields[5] = "cache_misses"
      BY <2>2 DEF Fields
    <3> QED  BY <3>1 DEF Event
  <2> QED  BY <2>1, <2>2
<1>3. \A e \in Event : Added[CHOOSE p \in 1 .. Len(Fields) : Fields[p] = e] = e
  BY <1>1, <1>2
<1> QED  BY <1>3 DEF Reading

(* A reading that is available is the count of the interval between the last*)
(* start and stop, event by event, unless a read of the counters failed in it*)
(* (perf_counters.hpp:177-181).                                            *)
THEOREM ReadsTheInterval == Spec => ReadingIsInterval
<1>1. IInv /\ [Next]_vars =>
        [reading' # reading /\ reading'.available /\ ~unread => reading'.value = interval]_vars
  <2> SUFFICES ASSUME IInv, [Next]_vars, reading' # reading, reading'.available, ~unread
               PROVE  reading'.value = interval
    OBVIOUS
  <2>1. ReadCounters
    BY DEF vars, Next, Construct, OpenLeader, OpenMembers, LoadLibraries, Configure, Attempt,
           Quiet, Measure, Work, Start, Stop, Destroy, TearDown, Release, ConstructNext
  <2>2. available
    BY <2>1 DEF ReadCounters, Unavailable
  <2>3. CASE backend = "linux"
    <3>1. reading' = Reading(counts) /\ counts = interval
      BY <2>1, <2>2, <2>3 DEF ReadCounters, Unavailable, IInv, CountsInterval
    <3> QED  BY <3>1, ReadingIsByName DEF IInv, IsTyped
  <2>4. CASE backend = "apple"
    <3> DEFINE counted == [e \in Event |-> current[e] - baseline[e]]
    <3>1. reading' = Reading(counted) /\ counted \in [Event -> Int]
      BY <2>1, <2>2, <2>4 DEF ReadCounters, IInv, IsTyped
    <3>2. \A e \in Event : current[e] = baseline[e] + interval[e]
      BY <2>1, <2>2, <2>4 DEF ReadCounters, IInv, CountsInterval
    <3>3. counted = interval
      BY <3>2 DEF IInv, IsTyped
    <3> HIDE DEF counted
    <3> QED  BY <3>1, <3>3, ReadingIsByName DEF IInv, IsTyped
  <2> QED  BY <2>3, <2>4 DEF IInv, IsTyped
<1> QED  BY <1>1, AlwaysIInv, PTL DEF Spec, ReadingIsInterval
=============================================================================
