----------------------------- MODULE OrderIndex -----------------------------
(***************************************************************************)
(* OrderIndex of include/obls/order_index.hpp, one action per iteration of *)
(* its loops.  A call starts in an idle index (CallInsert, CallFind,       *)
(* CallErase), walks the slab, and returns by making pc "idle" again.  One *)
(* thread drives the index, so calls do not overlap.                       *)
(*                                                                         *)
(* The build modelled is the default one, Release, in which the assert of  *)
(* insert is compiled out.                                                 *)
(***************************************************************************)
EXTENDS OpenAddressing

CONSTANT
  MaxLive  (* Most orders the caller keeps live at once.                   *)

ASSUME MaxLiveAssumption == MaxLive \in Nat

VARIABLES
  slots,   (* slots_: the id in each slot, or kEmpty.                      *)
  size,    (* size_.                                                       *)
  pc,      (* The loop being executed, or "idle" between calls.            *)
  arg,     (* The id the current or last call was given.                   *)
  i,       (* The probe position of insert, find and erase.                *)
  hole,    (* erase: the slot to be refilled or emptied.                   *)
  j,       (* erase: the scan position of the backward shift.              *)
  answer,  (* What the last find returned: its id and slot, or nullptr.    *)
  live,    (* History: ids the caller inserted and has not erased.         *)
  intact   (* History: no removal has met an occupied following slot.      *)

vars == <<slots, size, pc, arg, i, hole, j, answer, live, intact>>

table == <<slots, size>>
scan  == <<hole, j>>

nullptr == -1

Stored      == StoredIn(slots)
Findable(x) == FindableIn(slots, x)
Occupied    == {k \in Slot : slots[k] # kEmpty}

(* The ids whose records the table keeps.  Until a removal is complete it  *)
(* keeps arg, and what the hole holds is a leftover.                       *)
Held ==
  IF pc = "shift"
    THEN {arg} \cup ({slots[k] : k \in Slot \ {hole}} \ {kEmpty})
    ELSE Stored

Init ==
  /\ slots = [k \in Slot |-> kEmpty]
  /\ size = 0
  /\ pc = "idle"
  /\ arg = kEmpty
  /\ i = 0
  /\ hole = 0
  /\ j = 0
  /\ answer = [id |-> kEmpty, slot |-> nullptr]
  /\ live = {}
  /\ intact = TRUE

-----------------------------------------------------------------------------
(* Every call begins by hashing its id. *)
Call(loop, x) ==
  /\ pc = "idle"
  /\ pc' = loop
  /\ arg' = x
  /\ i' = Home[x]

(* One turn of a probe loop that neither finds its slot nor stops. *)
Advance(loop) ==
  /\ pc = loop
  /\ slots[i] # kEmpty
  /\ i' = NextSlot(i)
  /\ UNCHANGED <<table, pc, arg, scan, answer, live, intact>>

-----------------------------------------------------------------------------
(***************************************************************************)
(* insert.  The caller guarantees the id is not present.                   *)
(***************************************************************************)
CallInsert(x) ==
  /\ x \notin live \cup Stored
  /\ Cardinality(live) < MaxLive
  /\ Call("insert", x)
  /\ live' = live \cup {x}
  /\ UNCHANGED <<table, scan, answer, intact>>

InsertProbeTwice ==       \* mutant: the probe strides over a slot
  /\ pc = "insert"
  /\ slots[i] # kEmpty
  /\ i' = NextSlot(NextSlot(i))
  /\ UNCHANGED <<table, pc, arg, scan, answer, live, intact>>

InsertProbe == Advance("insert")

InsertPlaceAtHome ==      \* mutant: the probe position is ignored
  /\ pc = "insert"
  /\ slots[i] = kEmpty
  /\ slots' = [slots EXCEPT ![Home[arg]] = arg]
  /\ size' = size + 1
  /\ pc' = "idle"
  /\ UNCHANGED <<arg, i, scan, answer, live, intact>>

InsertPlace ==
  /\ pc = "insert"
  /\ slots[i] = kEmpty
  /\ slots' = [slots EXCEPT ![i] = arg]
  /\ size' = size + 1
  /\ pc' = "idle"
  /\ UNCHANGED <<arg, i, scan, answer, live, intact>>

-----------------------------------------------------------------------------
(***************************************************************************)
(* find.                                                                   *)
(***************************************************************************)
CallFindStale(x) ==       \* mutant: the probe starts where the last one ended
  /\ pc = "idle"
  /\ pc' = "find"
  /\ arg' = x
  /\ UNCHANGED <<table, i, scan, answer, live, intact>>

CallFind(x) ==
  /\ Call("find", x)
  /\ UNCHANGED <<table, scan, answer, live, intact>>

FindProbe == slots[i] # arg /\ Advance("find")

FindReturn(slot) ==
  /\ pc = "find"
  /\ answer' = [id |-> arg, slot |-> slot]
  /\ pc' = "idle"
  /\ UNCHANGED <<table, arg, i, scan, live, intact>>

FindHit == slots[i] = arg /\ FindReturn(i)

FindMiss == slots[i] = kEmpty /\ FindReturn(nullptr)

-----------------------------------------------------------------------------
(***************************************************************************)
(* erase: probe for the id, then the backward shift over the run of        *)
(* occupied slots that follows it.                                         *)
(***************************************************************************)
CallErase(x) ==
  /\ Call("erase", x)
  /\ live' = live \ {x}
  /\ UNCHANGED <<table, scan, answer, intact>>

EraseProbe == slots[i] # arg /\ Advance("erase")

EraseMissCounted ==       \* mutant: the early return is missing
  /\ pc = "erase"
  /\ slots[i] = kEmpty
  /\ size' = size - 1
  /\ pc' = "idle"
  /\ UNCHANGED <<slots, arg, i, scan, answer, live, intact>>

EraseMiss ==
  /\ pc = "erase"
  /\ slots[i] = kEmpty
  /\ pc' = "idle"
  /\ UNCHANGED <<table, arg, i, scan, answer, live, intact>>

EraseHit ==
  /\ pc = "erase"
  /\ slots[i] = arg
  /\ hole' = i
  /\ j' = i
  /\ pc' = "shift"
  /\ UNCHANGED <<table, arg, i, answer, live, intact>>

(* The scan meets an occupied slot: refill the hole from it, or leave it. *)
ShiftMove ==
  /\ pc = "shift"
  /\ slots[NextSlot(j)] # kEmpty
  /\ InRange(Home[slots[NextSlot(j)]], hole, NextSlot(j))
  /\ j' = NextSlot(j)
  /\ slots' = [slots EXCEPT ![hole] = slots[NextSlot(j)]]
  /\ hole' = NextSlot(j)
  /\ intact' = FALSE
  /\ UNCHANGED <<size, pc, arg, i, answer, live>>

ShiftSkipStuck ==         \* mutant: the scan position is not advanced
  /\ pc = "shift"
  /\ slots[NextSlot(j)] # kEmpty
  /\ ~InRange(Home[slots[NextSlot(j)]], hole, NextSlot(j))
  /\ intact' = FALSE
  /\ UNCHANGED <<table, scan, pc, arg, i, answer, live>>

ShiftSkip ==
  /\ pc = "shift"
  /\ slots[NextSlot(j)] # kEmpty
  /\ ~InRange(Home[slots[NextSlot(j)]], hole, NextSlot(j))
  /\ j' = NextSlot(j)
  /\ intact' = FALSE
  /\ UNCHANGED <<table, pc, arg, i, hole, answer, live>>

(* The scan meets an empty slot: the run ends and the hole is emptied. *)
ShiftDoneLeftover ==      \* mutant: the hole keeps its leftover
  /\ pc = "shift"
  /\ slots[NextSlot(j)] = kEmpty
  /\ j' = NextSlot(j)
  /\ size' = size - 1
  /\ pc' = "idle"
  /\ UNCHANGED <<slots, arg, i, hole, answer, live, intact>>

ShiftDone ==
  /\ pc = "shift"
  /\ slots[NextSlot(j)] = kEmpty
  /\ j' = NextSlot(j)
  /\ slots' = [slots EXCEPT ![hole] = kEmpty]
  /\ size' = size - 1
  /\ pc' = "idle"
  /\ UNCHANGED <<arg, i, hole, answer, live, intact>>

-----------------------------------------------------------------------------
Calls == \E x \in Ids : CallInsert(x) \/ CallFind(x) \/ CallErase(x)

Loops ==
  \/ InsertProbe \/ InsertPlace
  \/ FindProbe \/ FindHit \/ FindMiss
  \/ EraseProbe \/ EraseMiss \/ EraseHit
  \/ ShiftMove \/ ShiftSkip \/ ShiftDone

Next == Calls \/ Loops

Spec == Init /\ [][Next]_vars

(* A call that has started runs; nothing obliges the caller to start one. *)
FairSpec == Spec /\ WF_vars(Loops)

-----------------------------------------------------------------------------
TypeOK ==
  /\ slots \in [Slot -> Ids \cup {kEmpty}]
  /\ size \in 0 .. Cap
  /\ pc \in {"idle", "insert", "find", "erase", "shift"}
  /\ arg \in Ids \cup {kEmpty}
  /\ pc # "idle" => arg \in Ids
  /\ i \in Slot /\ hole \in Slot /\ j \in Slot
  /\ answer \in [id : Ids \cup {kEmpty}, slot : Slot \cup {nullptr}]
  /\ live \subseteq Ids
  /\ intact \in BOOLEAN

(***************************************************************************)
(* No id occupies two slots.  Only while a removal is under way may two    *)
(* slots agree, and then one of them is the hole: insert and the backward  *)
(* shift never leave a second record of an order behind.                   *)
(***************************************************************************)
OneSlotEach ==
  \A a, b \in Slot :
    slots[a] = slots[b] /\ slots[a] # kEmpty /\ a # b
      => pc = "shift" /\ hole \in {a, b}

(***************************************************************************)
(* The record of a live order is never lost, by no matter which sequence   *)
(* of insertions and of removals that move records about: neither insert   *)
(* nor the shift of erase overwrites it.                                   *)
(***************************************************************************)
LiveKept == live \ (IF pc = "insert" THEN {arg} ELSE {}) \subseteq Held

(***************************************************************************)
(* size_ counts the occupied slots at every step of every call, whether    *)
(* the removals among them found their id or not.                          *)
(***************************************************************************)
SizeCounts == size = Cardinality(Occupied)

(***************************************************************************)
(* Until a removal meets an occupied following slot every stored order can *)
(* be found: insertions, lookups and removals at the end of a probe run    *)
(* never put a record out of reach (order_index.hpp:68-95).                *)
(***************************************************************************)
IntactFindable == intact /\ pc # "shift" => \A x \in Stored : Findable(x)

(***************************************************************************)
(* find answers exactly whether its id can be reached from its home slot:  *)
(* the slot it returns holds the id, and nullptr is returned only when an  *)
(* empty slot cuts the id off (order_index.hpp:57-66).                     *)
(***************************************************************************)
FindIsExact ==
  [][pc = "find" /\ pc' = "idle" =>
       IF answer'.slot = nullptr
         THEN ~Findable(arg)
         ELSE slots[answer'.slot] = arg /\ Findable(arg)]_vars

(***************************************************************************)
(* insert makes its id findable and leaves every id that was findable so,  *)
(* whatever state earlier removals left the table in.                      *)
(***************************************************************************)
InsertKeepsFindable ==
  [][pc = "insert" /\ pc' = "idle" =>
       /\ Findable(arg)'
       /\ \A x \in Stored : Findable(x) => Findable(x)']_vars

(***************************************************************************)
(* A turn of the shift moves its record exactly when, going round the slab *)
(* from the hole to where the record stands, one comes past its home: that *)
(* is what in_range decides from two comparisons, in runs that wrap around *)
(* the end of the slab as in those that do not (order_index.hpp:87-92,     *)
(* 119-125).                                                               *)
(***************************************************************************)
MovesByHome ==
  pc = "shift" /\ pc' = "shift" =>
    (hole' # hole <=>
       \E d \in 1 .. (j' - hole) % Cap : Home[slots[j']] = (hole + d) % Cap)

ShiftGoesRound == [][MovesByHome]_vars

(***************************************************************************)
(* The table implements the abstract map that removals may degrade: each   *)
(* call takes effect in one step, the shift of a removal moves records but *)
(* neither adds nor drops one, and a lookup misses a held id only once the *)
(* table is no longer intact.                                              *)
(***************************************************************************)
Degraded == INSTANCE OrderMap WITH
  MayDegrade <- TRUE,
  NoId       <- kEmpty,
  held       <- Held,
  answer     <- [id |-> answer.id, found |-> answer.slot # nullptr]

ImplementsDegradedMap == Degraded!Spec

(* Every call returns: no probe or shift loop runs for ever. *)
EveryCallReturns == pc # "idle" ~> pc = "idle"

-----------------------------------------------------------------------------
(***************************************************************************)
(* The backward shift "keeps every key findable" (order_index.hpp:87-88):  *)
(* between calls find reaches every live order.                            *)
(***************************************************************************)
LiveFindable == pc = "idle" => \A x \in live : Findable(x)
=============================================================================
