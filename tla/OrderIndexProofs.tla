-------------------------- MODULE OrderIndexProofs --------------------------
(***************************************************************************)
(* Proofs about OrderIndex, for every table size, every hash function and  *)
(* every bound on the live orders.                                         *)
(***************************************************************************)
EXTENDS RecallingIndex, BookLemmas

-----------------------------------------------------------------------------
(* The cyclic order of the slots.                                           *)

LEMMA NextSlotValue ==
  ASSUME NEW k \in Slot
  PROVE  /\ NextSlot(k) \in Slot
         /\ NextSlot(k) = IF k = Cap - 1 THEN 0 ELSE k + 1
<1>1. CASE k = Cap - 1
  BY <1>1, CapAssumption DEF NextSlot, Slot
<1>2. CASE k # Cap - 1
  <2>1. k + 1 \in 0 .. Cap - 1
    BY <1>2, CapAssumption DEF Slot
  <2>2. (k + 1) % Cap = k + 1
    BY <2>1, CapAssumption
  <2> QED
    BY <1>2, <2>1, <2>2 DEF NextSlot, Slot
<1> QED
  BY <1>1, <1>2

(* There is a slot to begin with. *)
LEMMA ZeroIsSlot == 0 \in Slot
  BY CapAssumption DEF Slot

(* A probe that moves on from b has passed b and what it passed before. *)
LEMMA PathStep ==
  ASSUME NEW a \in Slot, NEW b \in Slot
  PROVE  Path(a, NextSlot(b)) \subseteq Path(a, b) \cup {b}
  BY NextSlotValue, CapAssumption DEF Path, Slot

(* Of two slots, a probe from a meets one before the other. *)
LEMMA PathTotal ==
  ASSUME NEW a \in Slot, NEW b \in Slot, NEW c \in Slot, b # c
  PROVE  b \in Path(a, c) \/ c \in Path(a, b)
  BY DEF Path, Slot

(* A probe that passes b goes on to the slot after b. *)
LEMMA PathSuccessor ==
  ASSUME NEW a \in Slot, NEW b \in Slot, NEW c \in Slot, b \in Path(a, c)
  PROVE  NextSlot(b) = c \/ NextSlot(b) \in Path(a, c)
  BY NextSlotValue, CapAssumption DEF Path, Slot

(* A probe that has not moved has passed nothing. *)
LEMMA PathStart ==
  ASSUME NEW a \in Slot
  PROVE  Path(a, a) = {}
  BY DEF Path, Slot

-----------------------------------------------------------------------------
(***************************************************************************)
(* The inductive invariant.  OneSlotEach alone is not inductive: that the  *)
(* id to be placed or removed is nowhere else is what keeps the slot that  *)
(* insert fills, and the one the shift frees, from clashing with others.   *)
(***************************************************************************)
ArgPlaced ==
  /\ pc = "insert" => \A k \in Slot : slots[k] # arg
  /\ pc = "shift" =>
       /\ slots[hole] # kEmpty
       /\ \A k \in Slot \ {hole} : slots[k] # arg

TableInv == TypeOK /\ SizeCounts /\ OneSlotEach /\ ArgPlaced

(* No more slots can be counted than there are. *)
LEMMA SlotsAreFinite ==
  ASSUME NEW S, S \subseteq Slot
  PROVE  IsFiniteSet(S) /\ Cardinality(S) \in 0 .. Cap
<1>1. IsFiniteSet(Slot) /\ Cardinality(Slot) = Cap
  BY FS_Interval, CapAssumption DEF Slot
<1>2. IsFiniteSet(S) /\ Cardinality(S) <= Cap
  BY <1>1, FS_Subset
<1> QED
  BY <1>2, FS_CardinalityType, CapAssumption

(* So the occupied ones can be counted. *)
LEMMA OccupiedIsFinite == IsFiniteSet(Occupied)
  BY SlotsAreFinite DEF Occupied

(* The constructor leaves an empty table, which is in order. *)
THEOREM TableInvInit == Init => TableInv
<1> SUFFICES ASSUME Init PROVE TableInv
  OBVIOUS
<1>1. SizeCounts
  BY FS_EmptySet DEF Init, SizeCounts, Occupied
<1>2. TypeOK
  BY ZeroIsSlot, CapAssumption DEF Init, TypeOK
<1> QED
  BY <1>1, <1>2 DEF Init, TableInv, OneSlotEach, ArgPlaced

(* A step keeps the types; that size_ stays in range follows from the count. *)
LEMMA TypeStep ==
  ASSUME TableInv, Next, SizeCounts'
  PROVE  TypeOK'
<1> USE DEF TypeOK, nullptr
<1>1. ASSUME NEW x \in Ids, CallInsert(x) \/ CallFind(x) \/ CallErase(x)
      PROVE  TypeOK'
  BY <1>1, HomeAssumption
     DEF TableInv, CallInsert, CallFind, CallErase, Call, table, scan
<1>2. ASSUME InsertProbe \/ FindProbe \/ EraseProbe
      PROVE  TypeOK'
  BY <1>2, NextSlotValue
     DEF TableInv, InsertProbe, FindProbe, EraseProbe, Advance, table, scan
<1>3. size' \in 0 .. Cap
  <2>1. Occupied' \subseteq Slot
    BY DEF Occupied
  <2> QED
    BY <2>1, SlotsAreFinite DEF SizeCounts
<1>4. ASSUME InsertPlace PROVE TypeOK'
  BY <1>3, <1>4 DEF TableInv, InsertPlace, scan
<1>5. ASSUME FindHit \/ FindMiss PROVE TypeOK'
  BY <1>5 DEF TableInv, FindHit, FindMiss, FindReturn, table, scan
<1>6. ASSUME EraseMiss \/ EraseHit PROVE TypeOK'
  BY <1>6 DEF TableInv, EraseMiss, EraseHit, table, scan
<1>7. ASSUME ShiftMove \/ ShiftSkip PROVE TypeOK'
  BY <1>7, NextSlotValue DEF TableInv, ShiftMove, ShiftSkip, table
<1>8. ASSUME ShiftDone PROVE TypeOK'
  BY <1>3, <1>8, NextSlotValue DEF TableInv, ShiftDone
<1> QED
  BY <1>1, <1>2, <1>4, <1>5, <1>6, <1>7, <1>8 DEF Next, Calls, Loops

(* A step changes size_ by what it changes of the slots. *)
LEMMA SizeStep ==
  ASSUME TableInv, Next
  PROVE  SizeCounts'
<1> USE DEF SizeCounts
<1>1. ASSUME UNCHANGED table PROVE SizeCounts'
  BY <1>1 DEF TableInv, Occupied, table
<1>2. ASSUME InsertPlace PROVE SizeCounts'
  <2>1. Occupied' = Occupied \cup {i} /\ i \notin Occupied
    BY <1>2, EmptyAssumption DEF InsertPlace, TableInv, TypeOK, Occupied
  <2> QED
    BY <1>2, <2>1, OccupiedIsFinite, FS_AddElement DEF InsertPlace, TableInv
<1>3. ASSUME ShiftMove PROVE SizeCounts'
  <2>1. Occupied' = Occupied
    BY <1>3, NextSlotValue
       DEF ShiftMove, TableInv, TypeOK, ArgPlaced, Occupied
  <2> QED
    BY <1>3, <2>1 DEF ShiftMove, TableInv
<1>4. ASSUME ShiftDone PROVE SizeCounts'
  <2>1. Occupied' = Occupied \ {hole} /\ hole \in Occupied
    BY <1>4 DEF ShiftDone, TableInv, TypeOK, ArgPlaced, Occupied
  <2> QED
    BY <1>4, <2>1, OccupiedIsFinite, FS_RemoveElement DEF ShiftDone, TableInv
<1> QED
  BY <1>1, <1>2, <1>3, <1>4
     DEF Next, Calls, Loops, CallInsert, CallFind, CallErase, InsertProbe,
         FindProbe, EraseProbe, Advance, FindHit, FindMiss, FindReturn,
         EraseMiss, EraseHit, ShiftSkip, table

(* The slot a record is moved from is never the hole it is moved to. *)
LEMMA MoveGoesElsewhere ==
  ASSUME TypeOK, ShiftMove
  PROVE  NextSlot(j) \in Slot /\ NextSlot(j) # hole
<1>1. NextSlot(j) \in Slot
  BY NextSlotValue DEF TypeOK
<1>2. Home[slots[NextSlot(j)]] \in Slot
  BY <1>1, HomeAssumption DEF TypeOK, ShiftMove
<1> QED
  BY <1>1, <1>2, CapAssumption DEF ShiftMove, InRange, Slot

(* A step puts no record a second time, and knows where its own stands. *)
LEMMA PlacementStep ==
  ASSUME TableInv, Next
  PROVE  OneSlotEach' /\ ArgPlaced'
<1> USE DEF OneSlotEach, ArgPlaced
<1>1. ASSUME NEW x \in Ids, CallInsert(x) \/ CallFind(x) \/ CallErase(x)
      PROVE  OneSlotEach' /\ ArgPlaced'
  BY <1>1, EmptyAssumption
     DEF TableInv, CallInsert, CallFind, CallErase, Call, table, Stored, StoredIn
<1>2. ASSUME InsertProbe \/ FindProbe \/ EraseProbe
      PROVE  OneSlotEach' /\ ArgPlaced'
  BY <1>2 DEF TableInv, InsertProbe, FindProbe, EraseProbe, Advance, table, scan
<1>3. ASSUME InsertPlace PROVE OneSlotEach' /\ ArgPlaced'
  BY <1>3 DEF TableInv, TypeOK, InsertPlace, scan
<1>4. ASSUME FindHit \/ FindMiss \/ EraseMiss
      PROVE  OneSlotEach' /\ ArgPlaced'
  BY <1>4 DEF TableInv, FindHit, FindMiss, FindReturn, EraseMiss, table, scan
<1>5. ASSUME EraseHit PROVE OneSlotEach' /\ ArgPlaced'
  BY <1>5, EmptyAssumption DEF TableInv, TypeOK, EraseHit, table
<1>6. ASSUME ShiftMove PROVE OneSlotEach' /\ ArgPlaced'
  <2>1. NextSlot(j) \in Slot /\ NextSlot(j) # hole
    BY <1>6, MoveGoesElsewhere DEF TableInv
  <2> QED
    BY <1>6, <2>1 DEF TableInv, TypeOK, ShiftMove
<1>7. ASSUME ShiftSkip PROVE OneSlotEach' /\ ArgPlaced'
  BY <1>7 DEF TableInv, ShiftSkip, table
<1>8. ASSUME ShiftDone PROVE OneSlotEach' /\ ArgPlaced'
  BY <1>8 DEF TableInv, TypeOK, ShiftDone
<1> QED
  BY <1>1, <1>2, <1>3, <1>4, <1>5, <1>6, <1>7, <1>8 DEF Next, Calls, Loops

(* No step of any call brings the table out of order. *)
THEOREM TableInvInductive == TableInv /\ [Next]_vars => TableInv'
<1> SUFFICES ASSUME TableInv, [Next]_vars PROVE TableInv'
  OBVIOUS
<1>1. CASE Next
  BY <1>1, SizeStep, TypeStep, PlacementStep DEF TableInv
<1>2. CASE UNCHANGED vars
  BY <1>2
     DEF vars, TableInv, TypeOK, SizeCounts, Occupied, OneSlotEach, ArgPlaced
<1> QED
  BY <1>1, <1>2

(* So it is in order at all times. *)
THEOREM TableInvHolds == Spec => []TableInv
  BY TableInvInit, TableInvInductive, PTL DEF Spec

(* Every variable stays within its type; size_ in particular stays between *)
(* zero and the number of slots, so --size_ never wraps (order_index.hpp:95). *)
THEOREM TypeCorrect == Spec => []TypeOK
  BY TableInvHolds, PTL DEF TableInv

(* No order ever has two records. *)
THEOREM OneSlotEachHolds == Spec => []OneSlotEach
  BY TableInvHolds, PTL DEF TableInv

(* size_ is the number of occupied slots. *)
THEOREM SizeCountsHolds == Spec => []SizeCounts
  BY TableInvHolds, PTL DEF TableInv

-----------------------------------------------------------------------------
(***************************************************************************)
(* What each step does to the ids the table keeps.                         *)
(***************************************************************************)
LEMMA HeldStep ==
  ASSUME TableInv, Next
  PROVE  /\ InsertPlace => arg \notin Held /\ Held' = Held \cup {arg}
         /\ ShiftDone => arg \in Held /\ Held' = Held \ {arg}
         /\ ~InsertPlace /\ ~ShiftDone => Held' = Held
<1>1. ASSUME InsertPlace PROVE arg \notin Held /\ Held' = Held \cup {arg}
  BY <1>1, EmptyAssumption
     DEF TableInv, TypeOK, ArgPlaced, InsertPlace, Held, Stored, StoredIn
<1>2. ASSUME ShiftDone PROVE arg \in Held /\ Held' = Held \ {arg}
  <2>1. Held = {arg} \cup ({slots[k] : k \in Slot \ {hole}} \ {kEmpty})
    BY <1>2 DEF ShiftDone, Held
  <2>2. Held' = {slots[k] : k \in Slot \ {hole}} \ {kEmpty}
    BY <1>2 DEF ShiftDone, Held, Stored, StoredIn, TableInv, TypeOK
  <2>3. arg \notin {slots[k] : k \in Slot \ {hole}}
    BY <1>2 DEF ShiftDone, TableInv, ArgPlaced
  <2> QED
    BY <2>1, <2>2, <2>3
<1>3. ASSUME EraseHit PROVE Held' = Held
  BY <1>3, EmptyAssumption
     DEF TableInv, TypeOK, EraseHit, table, Held, Stored, StoredIn
<1>4. ASSUME ShiftMove PROVE Held' = Held
  <2>1. NextSlot(j) \in Slot /\ NextSlot(j) # hole
    BY <1>4, MoveGoesElsewhere DEF TableInv
  <2>2. {slots'[k] : k \in Slot \ {hole'}} = {slots[k] : k \in Slot \ {hole}}
    BY <1>4, <2>1 DEF ShiftMove, TableInv, TypeOK
  <2> QED
    BY <1>4, <2>2 DEF ShiftMove, Held
<1>5. ASSUME ShiftSkip PROVE Held' = Held
  BY <1>5 DEF ShiftSkip, table, Held
<1>6. ASSUME UNCHANGED slots, pc # "shift", pc' # "shift"
      PROVE  Held' = Held
  BY <1>6 DEF Held, Stored, StoredIn
<1> QED
  BY <1>1, <1>2, <1>3, <1>4, <1>5, <1>6
     DEF Next, Calls, Loops, CallInsert, CallFind, CallErase, Call, InsertProbe,
         FindProbe, EraseProbe, Advance, FindHit, FindMiss, FindReturn,
         EraseMiss, table

(* LiveKept needs to know that an order being removed is no longer live. *)
LiveInv ==
  /\ LiveKept
  /\ pc \in {"erase", "shift"} => arg \notin live

(* A live order is forgotten by its own removal only. *)
LEMMA LiveInductive == TableInv /\ LiveInv /\ [Next]_vars => LiveInv'
<1> SUFFICES ASSUME TableInv, LiveInv, [Next]_vars PROVE LiveInv'
  OBVIOUS
<1> USE DEF LiveInv, LiveKept
<1>1. ASSUME InsertPlace PROVE LiveInv'
  BY <1>1, HeldStep DEF InsertPlace, Next, Loops
<1>2. ASSUME ShiftDone PROVE LiveInv'
  BY <1>2, HeldStep DEF ShiftDone, Next, Loops
<1>3. ASSUME Next, ~InsertPlace, ~ShiftDone PROVE LiveInv'
  <2>1. Held' = Held
    BY <1>3, HeldStep
  <2>2. ASSUME NEW x \in Ids, CallInsert(x) \/ CallFind(x) \/ CallErase(x)
        PROVE  LiveInv'
    BY <2>1, <2>2 DEF CallInsert, CallFind, CallErase, Call
  <2>3. ASSUME Loops PROVE LiveInv'
    BY <1>3, <2>1, <2>3
       DEF Loops, InsertProbe, FindProbe, EraseProbe, Advance, FindHit,
           FindMiss, FindReturn, EraseMiss, EraseHit, ShiftMove, ShiftSkip
  <2> QED
    BY <1>3, <2>2, <2>3 DEF Next, Calls
<1>4. CASE UNCHANGED vars
  BY <1>4 DEF vars, Held, Stored, StoredIn
<1> QED
  BY <1>1, <1>2, <1>3, <1>4

(* No live order's record is ever overwritten or dropped. *)
THEOREM LiveKeptHolds == Spec => []LiveKept
<1>1. Init => LiveInv
  BY DEF Init, LiveInv, LiveKept
<1> QED
  BY <1>1, TableInvHolds, LiveInductive, PTL DEF Spec, LiveInv

-----------------------------------------------------------------------------
(***************************************************************************)
(* Findability.  ProbeInv is the loop invariant of the probe loops: what a *)
(* probe has passed is neither empty nor the id it looks for.  A probe     *)
(* that goes once around a full table starts its Path anew, which is why   *)
(* nothing here asks for a free slot.                                      *)
(***************************************************************************)
ProbeInv ==
  pc \in {"insert", "find", "erase"} =>
    \A m \in Path(Home[arg], i) : slots[m] # kEmpty /\ slots[m] # arg

(* A probe passes occupied slots of other ids only. *)
LEMMA ProbeInductive == TableInv /\ ProbeInv /\ [Next]_vars => ProbeInv'
<1> SUFFICES ASSUME TableInv, ProbeInv, [Next]_vars PROVE ProbeInv'
  OBVIOUS
<1>1. ASSUME NEW x \in Ids, CallInsert(x) \/ CallFind(x) \/ CallErase(x)
      PROVE  ProbeInv'
  <2>1. Path(Home[x], Home[x]) = {}
    BY PathStart, HomeAssumption
  <2> QED
    BY <1>1, <2>1 DEF ProbeInv, CallInsert, CallFind, CallErase, Call
<1>2. ASSUME InsertProbe \/ FindProbe \/ EraseProbe
      PROVE  ProbeInv'
  <2>1. pc' = pc /\ arg' = arg /\ slots' = slots /\ i' = NextSlot(i)
    BY <1>2 DEF InsertProbe, FindProbe, EraseProbe, Advance, table
  <2>2. pc \in {"insert", "find", "erase"} /\ slots[i] # kEmpty /\ slots[i] # arg
    BY <1>2
       DEF InsertProbe, FindProbe, EraseProbe, Advance, TableInv, TypeOK, ArgPlaced
  <2>3. Home[arg] \in Slot /\ i \in Slot
    BY <2>2, HomeAssumption DEF TableInv, TypeOK
  <2>4. Path(Home[arg], i') \subseteq Path(Home[arg], i) \cup {i}
    BY <2>1, <2>3, PathStep
  <2> QED
    BY <2>1, <2>2, <2>4 DEF ProbeInv
<1>3. ASSUME pc' \notin {"insert", "find", "erase"} PROVE ProbeInv'
  BY <1>3 DEF ProbeInv
<1>4. CASE UNCHANGED vars
  BY <1>4 DEF vars, ProbeInv
<1> QED
  BY <1>1, <1>2, <1>3, <1>4
     DEF Next, Calls, Loops, InsertPlace, FindHit, FindMiss, FindReturn,
         EraseMiss, EraseHit, ShiftMove, ShiftSkip, ShiftDone

(* A probe that ends on an empty slot has missed an id out of reach. *)
LEMMA MissMeansUnfindable ==
  ASSUME TableInv, ProbeInv, pc \in {"find", "erase"}, slots[i] = kEmpty
  PROVE  ~Findable(arg)
<1> SUFFICES ASSUME NEW k \in Slot, slots[k] = arg,
                    \A m \in Path(Home[arg], k) : slots[m] # kEmpty
             PROVE  FALSE
  BY DEF Findable, FindableIn
<1>1. arg \in Ids /\ i \in Slot /\ Home[arg] \in Slot
  BY HomeAssumption DEF TableInv, TypeOK
<1>2. k # i
  BY <1>1, EmptyAssumption
<1>3. k \in Path(Home[arg], i) \/ i \in Path(Home[arg], k)
  BY <1>1, <1>2, PathTotal
<1> QED
  BY <1>3 DEF ProbeInv

(* And one that ends on the id has come the way that reaches it. *)
LEMMA HitMeansFindable ==
  ASSUME TableInv, ProbeInv, pc \in {"find", "erase"}, slots[i] = arg
  PROVE  Findable(arg)
  BY DEF TableInv, TypeOK, ProbeInv, Findable, FindableIn

(* An insertion is within reach, and fills no gap that another needs. *)
LEMMA PlacedIsFindable ==
  ASSUME TableInv, ProbeInv, InsertPlace
  PROVE  /\ Findable(arg)'
         /\ \A x \in Stored : Findable(x) => Findable(x)'
<1>1. /\ slots' = [slots EXCEPT ![i] = arg] /\ slots[i] = kEmpty
      /\ i \in Slot /\ arg \in Ids /\ arg' = arg
  BY DEF TableInv, TypeOK, InsertPlace
<1>2. \A m \in Slot : slots[m] # kEmpty => slots'[m] = slots[m]
  BY <1>1 DEF TableInv, TypeOK
<1>3. Path(Home[arg], i) \subseteq Slot
  BY DEF Path
<1>4. \A m \in Path(Home[arg], i) : slots'[m] # kEmpty
  BY <1>2, <1>3 DEF ProbeInv, InsertPlace
<1>5. Findable(arg)'
  <2>1. slots'[i] = arg
    BY <1>1 DEF TableInv, TypeOK
  <2> QED
    BY <1>1, <1>4, <2>1 DEF Findable, FindableIn
<1>6. ASSUME NEW x \in Stored, Findable(x) PROVE Findable(x)'
  <2>1. PICK k \in Slot :
          slots[k] = x /\ \A m \in Path(Home[x], k) : slots[m] # kEmpty
    BY <1>6 DEF Findable, FindableIn
  <2>2. slots'[k] = x
    BY <1>2, <2>1 DEF Stored, StoredIn
  <2>3. \A m \in Path(Home[x], k) : slots'[m] # kEmpty
    BY <1>2, <2>1 DEF Path
  <2> QED
    BY <2>2, <2>3 DEF Findable, FindableIn
<1> QED
  BY <1>5, <1>6

(***************************************************************************)
(* While the table is intact the shift has not moved past its first slot,  *)
(* so a removal that ends in this state empties the last slot of a run.    *)
(***************************************************************************)
IntactInv ==
  intact =>
    /\ \A x \in Stored : Findable(x)
    /\ pc = "shift" => j = hole /\ slots[hole] = arg

(* Nothing is reached through the last slot of a run: it can be emptied. *)
LEMMA RunEndIsRemovable ==
  ASSUME TableInv, IntactInv, intact, ShiftDone
  PROVE  \A x \in Stored' : Findable(x)'
<1>1. /\ slots' = [slots EXCEPT ![hole] = kEmpty]
      /\ hole \in Slot /\ slots[NextSlot(hole)] = kEmpty
  BY DEF TableInv, TypeOK, IntactInv, ShiftDone
<1>2. ASSUME NEW x \in Stored' PROVE Findable(x)'
  <2>1. x \in Ids /\ x \in Stored /\ Home[x] \in Slot
    BY <1>1, HomeAssumption DEF TableInv, TypeOK, Stored, StoredIn
  <2>2. PICK k \in Slot :
          slots[k] = x /\ \A m \in Path(Home[x], k) : slots[m] # kEmpty
    BY <2>1 DEF IntactInv, Findable, FindableIn
  <2>3. PICK n \in Slot : slots'[n] = x
    BY DEF Stored, StoredIn
  <2>4. n # hole /\ slots[n] = x
    BY <1>1, <2>1, <2>3, EmptyAssumption DEF TableInv, TypeOK
  <2>5. n = k
    BY <2>1, <2>2, <2>4, EmptyAssumption
       DEF TableInv, IntactInv, ArgPlaced, ShiftDone, OneSlotEach
  <2>6. hole \notin Path(Home[x], k)
    <3> SUFFICES ASSUME hole \in Path(Home[x], k) PROVE FALSE
      OBVIOUS
    <3>1. NextSlot(hole) = k \/ NextSlot(hole) \in Path(Home[x], k)
      BY <1>1, <2>1, PathSuccessor
    <3> QED
      BY <1>1, <2>1, <2>2, <3>1, EmptyAssumption
  <2>7. \A m \in Path(Home[x], k) : slots'[m] # kEmpty
    BY <1>1, <2>2, <2>6 DEF Path, TableInv, TypeOK
  <2> QED
    BY <2>3, <2>5, <2>7 DEF Findable, FindableIn
<1> QED
  BY <1>2

(* While no removal has met an occupied slot, every record is in reach. *)
LEMMA IntactInductive ==
  TableInv /\ ProbeInv /\ IntactInv /\ [Next]_vars => IntactInv'
<1> SUFFICES ASSUME TableInv, ProbeInv, IntactInv, [Next]_vars
             PROVE  IntactInv'
  OBVIOUS
<1>1. ASSUME UNCHANGED <<slots, intact>>, pc' # "shift" PROVE IntactInv'
  BY <1>1 DEF IntactInv, Stored, StoredIn, Findable, FindableIn
<1>2. ASSUME InsertPlace PROVE IntactInv'
  <2>1. \A x \in Stored' : x = arg \/ x \in Stored
    BY <1>2 DEF InsertPlace, TableInv, TypeOK, Stored, StoredIn
  <2>2. intact' = intact /\ pc' = "idle" /\ arg' = arg
    BY <1>2 DEF InsertPlace
  <2>3. intact => \A x \in Stored' : Findable(x)'
    BY <1>2, <2>1, <2>2, PlacedIsFindable DEF IntactInv
  <2> QED
    BY <2>2, <2>3 DEF IntactInv
<1>3. ASSUME EraseHit PROVE IntactInv'
  BY <1>3 DEF EraseHit, table, IntactInv, Stored, StoredIn, Findable, FindableIn
<1>4. ASSUME ShiftMove \/ ShiftSkip PROVE IntactInv'
  BY <1>4 DEF ShiftMove, ShiftSkip, IntactInv
<1>5. ASSUME ShiftDone PROVE IntactInv'
  <2>1. intact' = intact /\ pc' = "idle"
    BY <1>5 DEF ShiftDone
  <2> QED
    BY <1>5, <2>1, RunEndIsRemovable DEF IntactInv
<1>6. CASE UNCHANGED vars
  BY <1>6 DEF vars, IntactInv, Stored, StoredIn, Findable, FindableIn
<1> QED
  BY <1>1, <1>2, <1>3, <1>4, <1>5, <1>6
     DEF Next, Calls, Loops, CallInsert, CallFind, CallErase, Call, InsertProbe,
         FindProbe, EraseProbe, Advance, FindHit, FindMiss, FindReturn,
         EraseMiss, table

FindInv == TableInv /\ ProbeInv /\ IntactInv

(* The probes, and what they can reach, at all times. *)
THEOREM FindInvHolds == Spec => []FindInv
<1>1. Init => ProbeInv /\ IntactInv
  BY EmptyAssumption DEF Init, ProbeInv, IntactInv, Stored, StoredIn
<1> QED
  BY <1>1, TableInvInit, TableInvInductive, ProbeInductive, IntactInductive, PTL
     DEF Spec, FindInv

(* As long as no removal has met an occupied following slot, every stored  *)
(* order can be found, whatever the hash function.                         *)
THEOREM IntactFindableHolds == Spec => []IntactFindable
<1>1. FindInv => IntactFindable
  BY DEF FindInv, IntactInv, IntactFindable
<1> QED
  BY <1>1, FindInvHolds, PTL

(* find answers exactly whether its id can be reached. *)
THEOREM FindIsExactHolds == Spec => FindIsExact
<1>1. FindInv /\ [Next]_vars =>
        [pc = "find" /\ pc' = "idle" =>
           IF answer'.slot = nullptr
             THEN ~Findable(arg)
             ELSE slots[answer'.slot] = arg /\ Findable(arg)]_vars
  <2> SUFFICES ASSUME FindInv, Next, pc = "find", pc' = "idle"
               PROVE  IF answer'.slot = nullptr
                        THEN ~Findable(arg)
                        ELSE slots[answer'.slot] = arg /\ Findable(arg)
    OBVIOUS
  <2>1. FindHit \/ FindMiss
    BY DEF Next, Calls, Loops, CallInsert, CallFind, CallErase, Call,
           InsertProbe, FindProbe, EraseProbe, Advance, InsertPlace, EraseMiss,
           EraseHit, ShiftMove, ShiftSkip, ShiftDone
  <2>2. ASSUME FindHit
        PROVE  answer'.slot = i /\ i # nullptr /\ slots[i] = arg
    BY <2>2 DEF FindHit, FindReturn, FindInv, TableInv, TypeOK, Slot, nullptr
  <2>3. ASSUME FindMiss PROVE answer'.slot = nullptr /\ slots[i] = kEmpty
    BY <2>3 DEF FindMiss, FindReturn
  <2> QED
    BY <2>1, <2>2, <2>3, HitMeansFindable, MissMeansUnfindable DEF FindInv
<1> QED
  BY <1>1, FindInvHolds, PTL DEF Spec, FindIsExact

(* insert makes its id findable and no other id unfindable. *)
THEOREM InsertKeepsFindableHolds == Spec => InsertKeepsFindable
<1>1. FindInv /\ [Next]_vars =>
        [pc = "insert" /\ pc' = "idle" =>
           /\ Findable(arg)'
           /\ \A x \in Stored : Findable(x) => Findable(x)']_vars
  <2> SUFFICES ASSUME FindInv, Next, pc = "insert", pc' = "idle"
               PROVE  /\ Findable(arg)'
                      /\ \A x \in Stored : Findable(x) => Findable(x)'
    OBVIOUS
  <2>1. InsertPlace
    BY DEF Next, Calls, Loops, CallInsert, CallFind, CallErase, Call,
           InsertProbe, FindProbe, EraseProbe, Advance, FindHit, FindMiss,
           FindReturn, EraseMiss, EraseHit, ShiftMove, ShiftSkip, ShiftDone
  <2> QED
    BY <2>1, PlacedIsFindable DEF FindInv
<1> QED
  BY <1>1, FindInvHolds, PTL DEF Spec, InsertKeepsFindable

(* in_range holds of the slots after the hole, up to and including cur.    *)
LEMMA InRangeIsAfter ==
  ASSUME NEW home \in Slot, NEW from \in Slot, NEW cur \in Slot
  PROVE  InRange(home, from, cur) <=>
           \E d \in 1 .. (cur - from) % Cap : home = (from + d) % Cap
<1> DEFINE gap == IF from <= cur THEN cur - from ELSE cur - from + Cap
<1>1. Cap \in Nat \ {0} /\ home \in 0 .. Cap - 1 /\ from \in 0 .. Cap - 1 /\ cur \in 0 .. Cap - 1
  BY CapAssumption DEF Slot
<1>2. gap \in 0 .. Cap - 1
  BY <1>1
<1>3. (cur - from) % Cap = gap
  <2> DEFINE z == cur - from
  <2>1. z \in Int /\ z < Cap /\ -Cap < z
    BY <1>1
  <2>2. gap = IF 0 <= z THEN z ELSE z + Cap
    BY <1>1
  <2> HIDE DEF z, gap
  <2>3. ASSUME 0 <= z PROVE z % Cap = gap
    <3>1. z % Cap = z
      BY <1>1, <2>1, <2>3, SMTT(30)
    <3> QED  BY <2>2, <2>3, <3>1
  <2>4. ASSUME z < 0 PROVE z % Cap = gap
    <3>1. z % Cap = z + Cap
      BY <1>1, <2>1, <2>4, SMTT(30)
    <3> QED  BY <2>1, <2>2, <2>4, <3>1
  <2>5. z % Cap = gap
    BY <2>1, <2>3, <2>4
  <2> QED  BY <2>5 DEF z
<1>4. \A d \in 0 .. Cap : (from + d) % Cap = IF from + d < Cap THEN from + d ELSE from + d - Cap
  BY AfterValue DEF After
<1>5. ASSUME InRange(home, from, cur)
      PROVE  \E d \in 1 .. gap : home = (from + d) % Cap
  <2> DEFINE d == IF home > from THEN home - from ELSE home - from + Cap
  <2>1. d \in 1 .. gap
    BY <1>1, <1>5 DEF InRange
  <2>2. home = IF from + d < Cap THEN from + d ELSE from + d - Cap
    BY <1>1, <1>5 DEF InRange
  <2>3. d \in 0 .. Cap
    BY <1>1, <1>2, <2>1
  <2> HIDE DEF d, gap
  <2>4. home = (from + d) % Cap
    BY <1>4, <2>2, <2>3
  <2> QED  BY <2>1, <2>4
<1>6. ASSUME NEW d \in 1 .. gap, home = (from + d) % Cap
      PROVE  InRange(home, from, cur)
  <2>1. home = IF from + d < Cap THEN from + d ELSE from + d - Cap
    BY <1>1, <1>2, <1>4, <1>6
  <2> QED  BY <1>1, <1>6, <2>1 DEF InRange
<1> QED  BY <1>3, <1>5, <1>6

(* The shift moves a record exactly when it comes past the record's home   *)
(* on its way round from the hole, in a slab of any size and across its    *)
(* end (order_index.hpp:87-92, 119-125).                                   *)
THEOREM ShiftGoesRoundHolds == Spec => ShiftGoesRound
<1>1. TableInv /\ [Next]_vars => [MovesByHome]_vars
  <2> SUFFICES ASSUME TableInv, Next, pc = "shift", pc' = "shift"
               PROVE  hole' # hole <=>
                        \E d \in 1 .. (j' - hole) % Cap : Home[slots[j']] = (hole + d) % Cap
    BY DEF MovesByHome
  <2>1. ShiftMove \/ ShiftSkip
    BY DEF Next, Calls, Loops, CallInsert, CallFind, CallErase, Call, InsertProbe,
           FindProbe, EraseProbe, Advance, InsertPlace, FindHit, FindMiss, FindReturn,
           EraseMiss, EraseHit, ShiftDone
  <2>2. /\ j' = NextSlot(j) /\ slots[j'] # kEmpty
        /\ hole' # hole <=> InRange(Home[slots[j']], hole, j')
    BY <2>1, MoveGoesElsewhere DEF TableInv, ShiftMove, ShiftSkip
  <2>3. hole \in Slot /\ j' \in Slot /\ Home[slots[j']] \in Slot
    BY <2>2, NextSlotValue, HomeAssumption DEF TableInv, TypeOK
  <2> QED  BY <2>2, <2>3, InRangeIsAfter
<1> QED  BY <1>1, TableInvHolds, PTL DEF Spec, ShiftGoesRound

-----------------------------------------------------------------------------
(***************************************************************************)
(* The table implements the map that removals may degrade.                 *)
(***************************************************************************)
LEMMA DegradedInit == Init => Degraded!Init
<1> SUFFICES ASSUME Init PROVE Degraded!Init
  OBVIOUS
<1>1. Held = {}
  BY EmptyAssumption DEF Init, Held, Stored, StoredIn
<1>2. answer.id = kEmpty /\ (answer.slot # nullptr) = FALSE
  BY DEF Init
<1> QED
  BY <1>1, <1>2, Zenon DEF Init, Degraded!Init

(* The answer of the abstract map changes with that of the table only. *)
LEMMA AnswerKept ==
  ASSUME UNCHANGED answer
  PROVE  UNCHANGED [id |-> answer.id, found |-> answer.slot # nullptr]
  BY Zenon

(***************************************************************************)
(* What each action of OrderIndex is to the abstract map.  The others      *)
(* (calls, probes, a move of the shift over an already degraded table) are *)
(* stuttering steps.                                                       *)
(***************************************************************************)
LEMMA FindHitIsHit ==
  ASSUME TableInv, Next, FindHit
  PROVE  Degraded!Hit(arg)
<1>1. arg \in Held
  BY EmptyAssumption
     DEF TableInv, TypeOK, FindHit, FindReturn, Held, Stored, StoredIn
<1>2. Held' = Held
  BY HeldStep DEF FindHit, FindReturn, InsertPlace, ShiftDone
<1>3. answer' = [id |-> arg, slot |-> i] /\ i # nullptr /\ intact' = intact
  BY DEF FindHit, FindReturn, TableInv, TypeOK, Slot, nullptr
<1>4. answer'.id = arg /\ (answer'.slot # nullptr) = TRUE
  BY <1>3
<1> QED
  BY <1>1, <1>2, <1>3, <1>4, Zenon DEF Degraded!Hit

(* A find that misses misses in the abstract map. *)
LEMMA FindMissIsMiss ==
  ASSUME FindInv, Next, FindMiss
  PROVE  Degraded!Miss(arg)
<1>1. arg \in Held => ~intact
  <2>1. ~Findable(arg)
    BY MissMeansUnfindable DEF FindMiss, FindReturn, FindInv
  <2> QED
    BY <2>1 DEF FindInv, IntactInv, FindMiss, FindReturn, Held
<1>2. Held' = Held
  BY HeldStep DEF FindMiss, FindReturn, InsertPlace, ShiftDone, FindInv
<1>3. answer' = [id |-> arg, slot |-> nullptr] /\ intact' = intact
  BY DEF FindMiss, FindReturn
<1>4. answer'.id = arg /\ (answer'.slot # nullptr) = FALSE
  BY <1>3
<1> QED
  BY <1>1, <1>2, <1>3, <1>4, Zenon DEF Degraded!Miss

(* Every step is one of the abstract map, or a stutter. *)
LEMMA DegradedStep == FindInv /\ [Next]_vars => [Degraded!Next]_(Degraded!vars)
<1> SUFFICES ASSUME FindInv, [Next]_vars
             PROVE  Degraded!Next \/ UNCHANGED Degraded!vars
  OBVIOUS
<1>1. ASSUME InsertPlace PROVE Degraded!Next
  <2>1. arg \in Ids /\ UNCHANGED <<intact, answer>>
    BY <1>1 DEF InsertPlace, FindInv, TableInv, TypeOK
  <2>2. arg \notin Held /\ Held' = Held \cup {arg}
    BY <1>1, HeldStep DEF FindInv, Next, Loops
  <2>3. Degraded!Insert(arg)
    BY <2>1, <2>2, AnswerKept DEF Degraded!Insert
  <2> QED
    BY <2>1, <2>3 DEF Degraded!Next
<1>2. ASSUME ShiftDone PROVE Degraded!Next
  <2>1. arg \in Ids /\ UNCHANGED <<intact, answer>>
    BY <1>2 DEF ShiftDone, FindInv, TableInv, TypeOK
  <2>2. arg \in Held /\ Held' = Held \ {arg}
    BY <1>2, HeldStep DEF FindInv, Next, Loops
  <2>3. Degraded!Remove(arg)
    BY <2>1, <2>2, AnswerKept DEF Degraded!Remove
  <2> QED
    BY <2>1, <2>3 DEF Degraded!Next
<1>3. ASSUME FindHit \/ FindMiss PROVE Degraded!Next
  <2>1. Next /\ arg \in Ids
    BY <1>3
       DEF Next, Loops, FindHit, FindMiss, FindReturn, FindInv, TableInv, TypeOK
  <2>2. Degraded!Hit(arg) \/ Degraded!Miss(arg)
    BY <1>3, <2>1, FindHitIsHit, FindMissIsMiss DEF FindInv
  <2> QED
    BY <2>1, <2>2 DEF Degraded!Next
<1>4. ASSUME ShiftMove \/ ShiftSkip PROVE Degraded!Next
  <2>1. Next /\ ~InsertPlace /\ ~ShiftDone
    BY <1>4 DEF Next, Loops, ShiftMove, ShiftSkip, InsertPlace, ShiftDone
  <2>2. Held' = Held
    BY <2>1, HeldStep DEF FindInv
  <2>3. intact' = FALSE /\ UNCHANGED answer
    BY <1>4 DEF ShiftMove, ShiftSkip
  <2>4. Degraded!Degrade
    BY <2>2, <2>3, AnswerKept DEF Degraded!Degrade
  <2> QED
    BY <2>4 DEF Degraded!Next
<1>5. ASSUME Next, ~InsertPlace, ~ShiftDone, ~FindHit, ~FindMiss,
             ~ShiftMove, ~ShiftSkip
      PROVE  UNCHANGED Degraded!vars
  <2>1. Held' = Held
    BY <1>5, HeldStep DEF FindInv
  <2>2. UNCHANGED <<intact, answer>>
    BY <1>5 DEF Next, Calls, Loops, CallInsert, CallFind, CallErase, Call,
                InsertProbe, FindProbe, EraseProbe, Advance, EraseMiss, EraseHit
  <2> QED
    BY <2>1, <2>2, AnswerKept DEF Degraded!vars
<1>6. CASE UNCHANGED vars
  <2>1. Held' = Held /\ UNCHANGED <<intact, answer>>
    BY <1>6 DEF vars, Held, Stored, StoredIn
  <2> QED
    BY <2>1, AnswerKept DEF Degraded!vars
<1> QED
  BY <1>1, <1>2, <1>3, <1>4, <1>5, <1>6

(* The table implements the abstract map that removals may degrade: no     *)
(* record is invented, dropped or doubled by the moves of the shift, each  *)
(* call takes effect in one step, and a lookup that misses a held id comes *)
(* only after a removal that met an occupied following slot.               *)
THEOREM Implements == Spec => ImplementsDegradedMap
<1>1. Spec => Degraded!Init /\ [][Degraded!Next]_(Degraded!vars)
  BY DegradedInit, DegradedStep, FindInvHolds, PTL DEF Spec
<1> QED
  BY <1>1 DEF ImplementsDegradedMap, Degraded!Spec

-----------------------------------------------------------------------------
(***************************************************************************)
(* The loops compute the operators of OrderIndexCalls.  While a probe runs *)
(* the slots are those the call was given; after d turns of the shift they *)
(* and the hole are what the operator's d-th turn gives.  In a full table  *)
(* a shift never meets an empty slot, and does not return.                 *)
(***************************************************************************)
First == FirstSlot(start, arg, {arg, kEmpty})

IsTurn(d) ==
  /\ j = After(First, d)
  /\ Turns(start, First)[d] = [slots |-> slots, hole |-> hole]

RecallInv ==
  /\ pc \in {"insert", "find", "erase"} => slots = start
  /\ pc = "shift" =>
       /\ IsTable(start) /\ First \in Slot /\ start[First] = arg
       /\ HasRoom(start) => \E d \in 0 .. RunLength(start, First) : IsTurn(d)
       /\ ~HasRoom(start) => ~HasRoom(slots)

(* A slot that stops a probe is the one the operator chooses. *)
LEMMA StopIsFirst ==
  ASSUME NEW given, NEW x \in Ids, NEW stops, NEW k \in Slot, given[k] \in stops,
         \A m \in Path(Home[x], k) : given[m] \notin stops
  PROVE  FirstSlot(given, x, stops) = k
<1>1. Home[x] \in Slot
  BY HomeAssumption
<1>2. ASSUME NEW c \in Slot, given[c] \in stops,
             \A m \in Path(Home[x], c) : given[m] \notin stops
      PROVE  c = k
  BY <1>1, <1>2, PathTotal
<1> QED  BY <1>2 DEF FirstSlot

(* So a probe that hits has found the slot that the shift begins with, and *)
(* one that misses is where find stops too.                                *)
LEMMA ProbeIsFirst ==
  ASSUME TableInv, ProbeInv, RecallInv, pc \in {"find", "erase"}, slots[i] \in {arg, kEmpty}
  PROVE  First = i /\ First \in Slot /\ start = slots
<1>1. arg \in Ids /\ i \in Slot /\ start = slots
  BY DEF TableInv, TypeOK, RecallInv
<1>2. \A m \in Path(Home[arg], i) : start[m] \notin {arg, kEmpty}
  BY <1>1 DEF ProbeInv
<1> QED  BY <1>1, <1>2, StopIsFirst DEF First

(* The slot after that of a turn is as the call found it, and it is empty  *)
(* when the turn is the last, and only then.                               *)
LEMMA NextOfTurn ==
  ASSUME TableInv, RecallInv, pc = "shift", HasRoom(start),
         NEW d \in 0 .. RunLength(start, First), IsTurn(d)
  PROVE  /\ NextSlot(j) = After(First, d + 1)
         /\ slots[NextSlot(j)] = start[After(First, d + 1)]
         /\ slots[NextSlot(j)] = kEmpty <=> d = RunLength(start, First)
<1> DEFINE n == RunLength(start, First)
<1>1. /\ IsTable(start) /\ First \in Slot /\ start[First] # kEmpty
      /\ Cap \in Nat \ {0}
  BY EmptyAssumption, CapAssumption DEF TableInv, TypeOK, RecallInv
<1>2. /\ n \in 0 .. Cap - 1 /\ start[After(First, n + 1)] = kEmpty
      /\ \A e \in 1 .. n : start[After(First, e)] # kEmpty
  BY <1>1, RunEnds
<1>3. n # Cap - 1
  <2>1. After(First, Cap) = First
    BY <1>1, AfterValue DEF Slot
  <2> QED  BY <1>1, <1>2, <2>1
<1>4. d + 1 \in 1 .. Cap - 1 /\ d \in 0 .. Cap
  BY <1>1, <1>2, <1>3
<1>5. NextSlot(j) = After(First, d + 1)
  <2>1. After(First, d) = IF First + d < Cap THEN First + d ELSE First + d - Cap
    BY <1>1, <1>4, AfterValue
  <2>2. After(First, d + 1) = IF First + (d + 1) < Cap THEN First + (d + 1)
                                                       ELSE First + (d + 1) - Cap
    <3>1. d + 1 \in 0 .. Cap
      BY <1>1, <1>4
    <3> QED  BY <1>1, <3>1, AfterValue
  <2>3. j \in Slot /\ j = After(First, d)
    BY DEF TableInv, TypeOK, IsTurn
  <2>4. NextSlot(j) = IF j = Cap - 1 THEN 0 ELSE j + 1
    BY <2>3, NextSlotValue
  <2> HIDE DEF First
  <2> QED  BY <1>1, <1>4, <2>1, <2>2, <2>3, <2>4 DEF Slot
<1>6. slots[NextSlot(j)] = start[After(First, d + 1)]
  <2>1. ShiftInv(start, First, d, [slots |-> slots, hole |-> hole])
    BY <1>1, TurnsKeep DEF IsTurn
  <2> QED  BY <1>4, <1>5, <2>1 DEF ShiftInv
<1>7. slots[NextSlot(j)] = kEmpty <=> d = n
  <2>1. CASE d = n
    BY <1>2, <1>6, <2>1
  <2>2. CASE d # n
    <3>1. d + 1 \in 1 .. n
      BY <1>2, <2>2
    <3> QED  BY <1>2, <1>6, <2>2, <3>1
  <2> QED  BY <2>1, <2>2
<1> QED  BY <1>5, <1>6, <1>7

(* A turn of the shift is the operator's next turn. *)
LEMMA ShiftRecalls ==
  ASSUME TableInv, RecallInv, ShiftMove \/ ShiftSkip, UNCHANGED start
  PROVE  RecallInv'
<1>1. /\ pc = "shift" /\ pc' = "shift" /\ arg' = arg /\ First' = First
      /\ IsTable(start) /\ First \in Slot /\ start[First] = arg
  BY DEF ShiftMove, ShiftSkip, table, RecallInv, First
<1>2. ASSUME HasRoom(start) PROVE \E d \in 0 .. RunLength(start, First) : IsTurn(d)'
  <2> DEFINE n == RunLength(start, First)
  <2>1. PICK d \in 0 .. n : IsTurn(d)
    BY <1>1, <1>2 DEF RecallInv
  <2> DEFINE here == After(First, d + 1)
             turn == Turns(start, First)
  <2>2. /\ NextSlot(j) = here /\ slots[here] = start[here]
        /\ slots[here] = kEmpty <=> d = n
    BY <1>1, <1>2, <2>1, NextOfTurn
  <2>3. n \in 0 .. Cap - 1
    BY <1>1, <1>2, RunEnds
  <2>4. slots[NextSlot(j)] # kEmpty /\ j' = NextSlot(j)
    BY DEF ShiftMove, ShiftSkip
  <2>5. d + 1 \in 0 .. n /\ d + 1 # 0 /\ (d + 1) - 1 = d
    BY <2>2, <2>3, <2>4
  <2>6. turn[d] = [slots |-> slots, hole |-> hole]
    BY <2>1 DEF IsTurn
  <2>7. turn[d + 1] = Turned(start, First, d + 1, turn[d])
    <3>1. turn = [e \in 0 .. n |-> IF e = 0 THEN [slots |-> start, hole |-> First]
                                   ELSE Turned(start, First, e, turn[e - 1])]
      BY <1>1, <1>2, TurnsUnfold
    <3> HIDE DEF n, turn
    <3> QED  BY <2>5, <3>1
  <2> HIDE DEF turn, n
  <2>8. Turned(start, First, d + 1, turn[d]) = [slots |-> slots', hole |-> hole']
    BY <2>2, <2>6 DEF Turned, ShiftMove, ShiftSkip, table
  <2>9. IsTurn(d + 1)'
    BY <1>1, <2>2, <2>4, <2>7, <2>8 DEF IsTurn, turn
  <2> QED  BY <2>5, <2>9 DEF n
<1>3. ASSUME ~HasRoom(start) PROVE ~HasRoom(slots')
  <2>1. ~HasRoom(slots)
    BY <1>1, <1>3 DEF RecallInv
  <2>2. slots' = slots \/ slots' = [slots EXCEPT ![hole] = slots[NextSlot(j)]]
    BY DEF ShiftMove, ShiftSkip, table
  <2>3. slots[NextSlot(j)] # kEmpty /\ slots \in [Slot -> Ids \cup {kEmpty}]
    BY DEF ShiftMove, ShiftSkip, TableInv, TypeOK
  <2> QED  BY <2>1, <2>2, <2>3 DEF HasRoom
<1> QED  BY <1>1, <1>2, <1>3 DEF RecallInv

(* Every step keeps the slots within the call's. *)
LEMMA RecallInductive ==
  ASSUME TableInv, ProbeInv, RecallInv, [CallsNext]_<<vars, start>>
  PROVE  RecallInv'
<1>1. CASE UNCHANGED <<vars, start>>
  BY <1>1 DEF vars, RecallInv, First, IsTurn
<1>2. ASSUME NEW x \in Ids, CallInsert(x) \/ CallFind(x) \/ CallErase(x), CallsNext
      PROVE  RecallInv'
  BY <1>2 DEF CallInsert, CallFind, CallErase, Call, CallsNext, table, RecallInv
<1>3. CASE InsertProbe \/ FindProbe \/ EraseProbe
  <2>1. /\ pc \in {"insert", "find", "erase"} /\ pc' = pc /\ slots' = slots
        /\ [CallsNext]_<<vars, start>> => start' = start
    BY <1>3 DEF InsertProbe, FindProbe, EraseProbe, Advance, table, CallsNext
  <2> QED  BY <2>1 DEF RecallInv
<1>4. CASE InsertPlace \/ FindHit \/ FindMiss \/ EraseMiss \/ ShiftDone
  BY <1>4 DEF InsertPlace, FindHit, FindMiss, FindReturn, EraseMiss, ShiftDone, RecallInv
<1>5. CASE EraseHit /\ CallsNext
  <2>1. /\ pc = "erase" /\ pc' = "shift" /\ slots' = slots /\ arg' = arg /\ start' = start
        /\ slots[i] = arg /\ j' = i /\ hole' = i
    BY <1>5 DEF EraseHit, CallsNext, table
  <2>2. First = i /\ First \in Slot /\ start = slots /\ First' = First
    BY <2>1, ProbeIsFirst DEF First
  <2>3. IsTable(start)
    BY <2>1, <2>2 DEF IsTable, TableInv, TypeOK, OneSlotEach
  <2>4. ASSUME HasRoom(start)
        PROVE  0 \in 0 .. RunLength(start, First) /\ IsTurn(0)'
    <3> DEFINE n == RunLength(start, First)
               turn == Turns(start, First)
    <3>1. n \in 0 .. Cap - 1
      BY <2>2, <2>4, RunEnds
    <3>2. turn = [d \in 0 .. n |-> IF d = 0 THEN [slots |-> start, hole |-> First]
                                   ELSE Turned(start, First, d, turn[d - 1])]
      BY <2>2, <2>4, TurnsUnfold
    <3>3. After(First, 0) = First
      BY <2>2, AfterValue, CapAssumption DEF Slot
    <3> HIDE DEF n, turn
    <3>4. 0 \in 0 .. n /\ turn[0] = [slots |-> start, hole |-> First]
      BY <3>1, <3>2
    <3> QED  BY <2>1, <2>2, <3>3, <3>4 DEF IsTurn, n, turn
  <2> QED  BY <2>1, <2>2, <2>3, <2>4 DEF RecallInv
<1>6. CASE (ShiftMove \/ ShiftSkip) /\ CallsNext
  <2>1. start' = start
    BY <1>6 DEF ShiftMove, ShiftSkip, CallsNext
  <2> QED  BY <1>6, <2>1, ShiftRecalls
<1> QED
  BY <1>1, <1>2, <1>3, <1>4, <1>5, <1>6 DEF CallsNext, Next, Calls, Loops

(* The step in which a call returns has made of the slots what the operator*)
(* makes of those it was given.                                            *)
LEMMA ReturnComputes ==
  ASSUME TableInv, ProbeInv, RecallInv, CallsNext
  PROVE  ReturnsAsCalled
<1>1. ASSUME pc = "insert", pc' = "idle" PROVE slots' = InsertIn(start, arg)
  <2>1. InsertPlace
    BY <1>1
    DEF CallsNext, Next, Calls, Loops, CallInsert, CallFind, CallErase, Call, InsertProbe,
        FindProbe, EraseProbe, Advance, FindHit, FindMiss, FindReturn, EraseMiss, EraseHit,
        ShiftMove, ShiftSkip, ShiftDone
  <2>2. /\ slots[i] = kEmpty /\ i \in Slot /\ arg \in Ids /\ start = slots
        /\ slots' = [slots EXCEPT ![i] = arg]
    BY <1>1, <2>1 DEF InsertPlace, TableInv, TypeOK, RecallInv
  <2>3. \A m \in Path(Home[arg], i) : start[m] \notin {kEmpty}
    BY <1>1, <2>2 DEF ProbeInv
  <2>4. FirstSlot(start, arg, {kEmpty}) = i
    BY <2>2, <2>3, StopIsFirst
  <2> QED  BY <2>2, <2>4 DEF InsertIn
<1>2. ASSUME pc = "find", pc' = "idle"
      PROVE  slots' = start /\ (answer'.slot # nullptr <=> FindIn(start, arg))
  <2>1. FindHit \/ FindMiss
    BY <1>2
    DEF CallsNext, Next, Calls, Loops, CallInsert, CallFind, CallErase, Call, InsertProbe,
        FindProbe, EraseProbe, Advance, InsertPlace, EraseMiss, EraseHit,
        ShiftMove, ShiftSkip, ShiftDone
  <2>2. slots[i] \in {arg, kEmpty} /\ slots' = slots /\ i \in Slot /\ arg # kEmpty
    BY <1>2, <2>1, EmptyAssumption DEF FindHit, FindMiss, FindReturn, table, TableInv, TypeOK
  <2>3. First = i /\ start = slots
    BY <1>2, <2>2, ProbeIsFirst
  <2>4. FindIn(start, arg) <=> slots[i] = arg
    BY <2>3 DEF FindIn, First
  <2>5. answer'.slot # nullptr <=> slots[i] = arg
    BY <2>1, <2>2 DEF FindHit, FindMiss, FindReturn, nullptr, Slot
  <2> QED  BY <2>2, <2>3, <2>4, <2>5
<1>3. ASSUME pc \in {"erase", "shift"}, pc' = "idle" PROVE slots' = EraseIn(start, arg)
  <2>1. EraseMiss \/ ShiftDone
    BY <1>3
    DEF CallsNext, Next, Calls, Loops, CallInsert, CallFind, CallErase, Call, InsertProbe,
        FindProbe, EraseProbe, Advance, InsertPlace, FindHit, FindMiss, FindReturn, EraseHit,
        ShiftMove, ShiftSkip
  <2>2. CASE EraseMiss
    <3>1. pc = "erase" /\ slots[i] = kEmpty /\ slots' = slots /\ arg # kEmpty
      BY <2>2, EmptyAssumption DEF EraseMiss, table, TableInv, TypeOK
    <3>2. First = i /\ start = slots
      BY <3>1, ProbeIsFirst
    <3>3. ~FindIn(start, arg)
      BY <3>1, <3>2 DEF FindIn, First
    <3> QED  BY <3>1, <3>2, <3>3 DEF EraseIn
  <2>3. CASE ShiftDone
    <3>1. /\ pc = "shift" /\ slots[NextSlot(j)] = kEmpty
          /\ slots' = [slots EXCEPT ![hole] = kEmpty]
      BY <2>3 DEF ShiftDone
    <3>2. HasRoom(start)
      <4>1. NextSlot(j) \in Slot
        BY NextSlotValue DEF TableInv, TypeOK
      <4> QED  BY <3>1, <4>1 DEF RecallInv, HasRoom
    <3>3. PICK d \in 0 .. RunLength(start, First) : IsTurn(d)
      BY <3>1, <3>2 DEF RecallInv
    <3>4. d = RunLength(start, First)
      BY <3>1, <3>2, <3>3, NextOfTurn
    <3>5. Shifted(start, First) = [slots EXCEPT ![hole] = kEmpty]
      BY <3>3, <3>4 DEF Shifted, IsTurn
    <3>6. FindIn(start, arg) /\ EraseIn(start, arg) = Shifted(start, First)
      BY <3>1 DEF EraseIn, FindIn, First, RecallInv
    <3> QED  BY <3>1, <3>5, <3>6
  <2> QED  BY <2>1, <2>2, <2>3
<1> QED  BY <1>1, <1>2, <1>3 DEF ReturnsAsCalled

(* Remembering the slots constrains no step of the index. *)
LEMMA RecallsIndex == CallsSpec => Spec
<1>1. CallsInit => Init
  BY DEF CallsInit
<1>2. [CallsNext]_<<vars, start>> => [Next]_vars
  BY DEF CallsNext
<1> QED  BY <1>1, <1>2, PTL DEF CallsSpec, Spec

(* The atomic view the books take of the index is what its loops compute   *)
(* (order_index.hpp:44-96), from every table it can reach.                 *)
THEOREM CallsAreComputed == CallsSpec => LoopsComputeCalls
<1>1. CallsInit => RecallInv
  BY DEF CallsInit, Init, RecallInv
<1>2. FindInv /\ RecallInv /\ [CallsNext]_<<vars, start>> => RecallInv'
  BY RecallInductive DEF FindInv
<1>3. FindInv /\ RecallInv /\ [CallsNext]_<<vars, start>> =>
        [ReturnsAsCalled]_<<vars, start>>
  BY ReturnComputes DEF FindInv
<1> QED  BY <1>1, <1>2, <1>3, RecallsIndex, FindInvHolds, PTL DEF CallsSpec, LoopsComputeCalls
=============================================================================
