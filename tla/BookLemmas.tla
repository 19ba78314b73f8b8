------------------------------ MODULE BookLemmas ------------------------------
(***************************************************************************)
(* Lemmas the proofs about the books share: induction in a form first      *)
(* order provers can use, what a call on the index does to the ids stored  *)
(* in it, and sums over sets of orders.                                    *)
(***************************************************************************)
EXTENDS OrderIndexCalls, Orders, FiniteSetTheorems, TLAPS

-----------------------------------------------------------------------------
(***************************************************************************)
(* Induction, over sets in place of predicates, from the well-foundedness  *)
(* of strict inclusion among finite sets.                                  *)
(***************************************************************************)

(* What holds of a set when it holds of its strict subsets holds of all    *)
(* subsets of a finite set.                                                *)
LEMMA SubsetInduction ==
  ASSUME NEW S, IsFiniteSet(S), NEW F,
         \A T \in SUBSET S : (\A U \in SUBSET T : U # T => U \in F) => T \in F
  PROVE  \A T \in SUBSET S : T \in F
<1> DEFINE R == StrictSubsetOrdering(S)
           Missing == {T \in SUBSET S : T \notin F}
<1> SUFFICES ASSUME Missing # {} PROVE FALSE
  OBVIOUS
<1>1. IsWellFoundedOn(R, SUBSET S)
  <2>1. IsWellFoundedOn(R, FiniteSubsetsOf(S))
    BY FS_StrictSubsetOrderingWellFounded
  <2>2. FiniteSubsetsOf(S) = SUBSET S
    BY FS_FiniteSubsetsOfFinite
  <2> QED  BY <2>1, <2>2
<1>2. Missing \subseteq SUBSET S
  OBVIOUS
<1>3. PICK M \in Missing : \A U \in Missing : <<U, M>> \notin R
  <2> HIDE DEF R, Missing
  <2> QED  BY <1>1, <1>2, WFMin
<1>4. ASSUME NEW U \in SUBSET M, U # M PROVE U \in F
  <2>1. U \in SUBSET S /\ M \in SUBSET S
    BY <1>3
  <2>2. <<U, M>> \in R
    BY <1>4, <2>1 DEF StrictSubsetOrdering
  <2> QED  BY <1>3, <2>1, <2>2
<1> QED  BY <1>3, <1>4

(* The least number principle. *)
LEMMA LeastNatural ==
  ASSUME NEW T, T \subseteq Nat, T # {}
  PROVE  \E m \in T : \A k \in T : m <= k
<1> DEFINE R == StrictSubsetOrdering(Nat)
           Initial == {0 .. m : m \in T}
<1>1. IsWellFoundedOn(R, FiniteSubsetsOf(Nat))
  BY FS_StrictSubsetOrderingWellFounded
<1>2. Initial \subseteq FiniteSubsetsOf(Nat) /\ Initial # {}
  <2>1. ASSUME NEW m \in T PROVE 0 .. m \in FiniteSubsetsOf(Nat)
    <3>1. m \in Nat /\ IsFiniteSet(0 .. m)
      BY FS_Interval
    <3> QED  BY <3>1 DEF FiniteSubsetsOf
  <2> QED  BY <2>1
<1>3. PICK I \in Initial : \A J \in Initial : <<J, I>> \notin R
  <2> HIDE DEF R, Initial
  <2> QED  BY <1>1, <1>2, WFMin
<1>4. PICK m \in T : I = 0 .. m
  BY <1>3
<1>5. ASSUME NEW k \in T, k < m PROVE FALSE
  <2>1. 0 .. k \in SUBSET Nat /\ 0 .. m \in SUBSET Nat
    OBVIOUS
  <2>2. 0 .. k \subseteq 0 .. m /\ 0 .. k # 0 .. m
    BY <1>5
  <2>3. <<0 .. k, 0 .. m>> \in R
    BY <2>1, <2>2 DEF StrictSubsetOrdering
  <2> QED  BY <1>3, <1>4, <2>3
<1> QED  BY <1>4, <1>5

(* Induction up an interval. *)
LEMMA IntervalInduction ==
  ASSUME NEW n \in Nat, NEW G, 0 \in G,
         \A d \in 0 .. n - 1 : d \in G => d + 1 \in G
  PROVE  \A d \in 0 .. n : d \in G
<1> DEFINE T == {d \in 0 .. n : d \notin G}
<1> SUFFICES ASSUME T # {} PROVE FALSE
  OBVIOUS
<1>1. T \subseteq Nat
  OBVIOUS
<1>2. PICK m \in T : \A k \in T : m <= k
  <2> HIDE DEF T
  <2> QED  BY <1>1, LeastNatural
<1>3. m - 1 \in 0 .. n - 1 /\ m - 1 \in G
  BY <1>2
<1> QED  BY <1>2, <1>3

-----------------------------------------------------------------------------
(***************************************************************************)
(* The slots that follow a slot.                                           *)
(***************************************************************************)
LEMMA AfterValue ==
  ASSUME NEW a \in Slot, NEW d \in 0 .. Cap
  PROVE  /\ After(a, d) \in Slot
         /\ After(a, d) = IF a + d < Cap THEN a + d ELSE a + d - Cap
<1> DEFINE z == a + d
<1>1. z \in 0 .. 2 * Cap - 1 /\ Cap \in Nat \ {0}
  BY CapAssumption DEF Slot
<1>2. After(a, d) = z % Cap
  BY DEF After
<1> HIDE DEF z
<1>3. CASE z < Cap
  <2>1. z % Cap = z
    BY <1>1, <1>3
  <2> QED  BY <1>1, <1>2, <1>3, <2>1 DEF Slot, z
<1>4. CASE z >= Cap
  <2>1. z % Cap = z - Cap
    BY <1>1, <1>4, SMTT(30)
  <2> QED  BY <1>1, <1>2, <1>4, <2>1 DEF Slot, z
<1> QED  BY <1>1, <1>3, <1>4

(* Every slot is some way after any other. *)
LEMMA EverySlotAfter ==
  ASSUME NEW a \in Slot, NEW k \in Slot
  PROVE  \E d \in 0 .. Cap - 1 : k = After(a, d)
<1> DEFINE d == IF k >= a THEN k - a ELSE k - a + Cap
<1>1. d \in 0 .. Cap - 1 /\ d \in 0 .. Cap
  BY CapAssumption DEF Slot
<1>2. After(a, d) = IF a + d < Cap THEN a + d ELSE a + d - Cap
  BY <1>1, AfterValue
<1>3. k = After(a, d)
  BY <1>2, CapAssumption DEF Slot
<1> QED  BY <1>1, <1>3

(* Within one turn round the slab no slot comes twice. *)
LEMMA AfterDiffers ==
  ASSUME NEW a \in Slot, NEW d \in 0 .. Cap - 1, NEW e \in 0 .. Cap - 1,
         After(a, d) = After(a, e)
  PROVE  d = e
<1>1. Cap \in Nat /\ a \in 0 .. Cap - 1
  BY CapAssumption DEF Slot
<1>2. After(a, d) = IF a + d < Cap THEN a + d ELSE a + d - Cap
  BY <1>1, AfterValue
<1>3. After(a, e) = IF a + e < Cap THEN a + e ELSE a + e - Cap
  BY <1>1, AfterValue
<1>4. (IF a + d < Cap THEN a + d ELSE a + d - Cap)
        = (IF a + e < Cap THEN a + e ELSE a + e - Cap)
  BY <1>2, <1>3
<1> QED  BY <1>1, <1>4

(* What a probe passes on its way to the d-th slot after its home. *)
LEMMA PathIsBefore ==
  ASSUME NEW a \in Slot, NEW d \in 0 .. Cap - 1, NEW k \in Path(a, After(a, d))
  PROVE  \E e \in 0 .. d - 1 : k = After(a, e)
<1>1. k \in Slot
  BY DEF Path
<1>2. PICK e \in 0 .. Cap - 1 : k = After(a, e)
  BY <1>1, EverySlotAfter
<1>3. Cap \in Nat /\ a \in 0 .. Cap - 1
  BY CapAssumption DEF Slot
<1>4. After(a, d) = IF a + d < Cap THEN a + d ELSE a + d - Cap
  BY <1>3, AfterValue
<1>5. k = IF a + e < Cap THEN a + e ELSE a + e - Cap
  BY <1>2, <1>3, AfterValue
<1>6. e < d
  BY <1>3, <1>4, <1>5 DEF Path
<1> QED  BY <1>2, <1>6

-----------------------------------------------------------------------------
(***************************************************************************)
(* Tables a caller may meet: every id in one slot at most, and room left.  *)
(***************************************************************************)
IsTable(table) ==
  /\ table \in [Slot -> Ids \cup {kEmpty}]
  /\ \A a, b \in Slot : table[a] = table[b] /\ table[a] # kEmpty => a = b

HasRoom(table) == \E k \in Slot : table[k] = kEmpty

(* There are Cap slots. *)
LEMMA SlabIsFinite == IsFiniteSet(Slot) /\ Cardinality(Slot) = Cap
  BY FS_Interval, CapAssumption DEF Slot

(* A table stores finitely many ids. *)
LEMMA StoredIsFinite ==
  ASSUME NEW table
  PROVE  IsFiniteSet(StoredIn(table)) /\ Cardinality(StoredIn(table)) \in Nat
<1> DEFINE T == {table[k] : k \in Slot}
<1>1. IsFiniteSet(T)
  <2>1. \E f \in [Slot -> T] : f \in Surjection(Slot, T)
    <3>1. [k \in Slot |-> table[k]] \in Surjection(Slot, T)
      BY DEF Surjection
    <3> QED  BY <3>1 DEF Surjection
  <2> QED  BY <2>1, SlabIsFinite, FS_Surjection
<1>2. IsFiniteSet(T \ {kEmpty})
  BY <1>1, FS_RemoveElement
<1> QED  BY <1>2, FS_CardinalityType DEF StoredIn

(* A table that stores fewer ids than it has slots has room. *)
LEMMA FewerLeaveRoom ==
  ASSUME NEW table, IsTable(table), Cardinality(StoredIn(table)) < Cap
  PROVE  HasRoom(table)
<1> SUFFICES ASSUME \A k \in Slot : table[k] # kEmpty PROVE FALSE
  BY DEF HasRoom
<1>1. table \in Injection(Slot, StoredIn(table))
  <2>1. table \in [Slot -> StoredIn(table)]
    BY DEF IsTable, StoredIn
  <2>2. \A a, b \in Slot : table[a] = table[b] => a = b
    BY DEF IsTable
  <2> QED  BY <2>1, <2>2 DEF Injection, IsInjective
<1>2. Cardinality(Slot) <= Cardinality(StoredIn(table))
  BY <1>1, StoredIsFinite, FS_Injection
<1> QED  BY <1>2, SlabIsFinite, StoredIsFinite, CapAssumption

-----------------------------------------------------------------------------
(***************************************************************************)
(* The calls of the index.                                                 *)
(***************************************************************************)

(* A probe that can stop does, at the first slot that stops it. *)
LEMMA ProbeStops ==
  ASSUME NEW table, NEW x \in Ids, NEW stops, \E k \in Slot : table[k] \in stops
  PROVE  /\ FirstSlot(table, x, stops) \in Slot
         /\ table[FirstSlot(table, x, stops)] \in stops
         /\ \A m \in Path(Home[x], FirstSlot(table, x, stops)) : table[m] \notin stops
<1> DEFINE T == {d \in 0 .. Cap - 1 : table[After(Home[x], d)] \in stops}
<1>1. Home[x] \in Slot
  BY HomeAssumption
<1>2. T \subseteq Nat /\ T # {}
  BY <1>1, EverySlotAfter
<1>3. PICK d \in T : \A e \in T : d <= e
  <2> HIDE DEF T
  <2> QED  BY <1>2, LeastNatural
<1>4. After(Home[x], d) \in Slot
  <2>1. d \in 0 .. Cap
    BY <1>3, CapAssumption
  <2> QED  BY <1>1, <2>1, AfterValue
<1>5. \A m \in Path(Home[x], After(Home[x], d)) : table[m] \notin stops
  <2> TAKE m \in Path(Home[x], After(Home[x], d))
  <2>1. PICK e \in 0 .. d - 1 : m = After(Home[x], e)
    BY <1>1, <1>3, PathIsBefore
  <2>2. e \in 0 .. Cap - 1 /\ ~(d <= e)
    BY <1>3, <2>1, CapAssumption
  <2> QED  BY <1>3, <2>1, <2>2
<1> QED  BY <1>3, <1>4, <1>5 DEF FirstSlot

(* insert adds its id to the table and disturbs no other. *)
LEMMA InsertStores ==
  ASSUME NEW table, IsTable(table), HasRoom(table),
         NEW x \in Ids, x \notin StoredIn(table)
  PROVE  /\ IsTable(InsertIn(table, x))
         /\ StoredIn(InsertIn(table, x)) = StoredIn(table) \cup {x}
<1> DEFINE k == FirstSlot(table, x, {kEmpty})
<1>1. k \in Slot /\ table[k] = kEmpty
  BY ProbeStops DEF HasRoom
<1> HIDE DEF k
<1>2. InsertIn(table, x) = [table EXCEPT ![k] = x]
  BY DEF InsertIn, k
<1> QED  BY <1>1, <1>2, EmptyAssumption DEF IsTable, StoredIn

(* What find finds is stored. *)
LEMMA FoundIsStored ==
  ASSUME NEW table, HasRoom(table), NEW x \in Ids, FindIn(table, x)
  PROVE  /\ x \in StoredIn(table)
         /\ FirstSlot(table, x, {x, kEmpty}) \in Slot
  BY ProbeStops, EmptyAssumption DEF HasRoom, FindIn, StoredIn

(* And find finds what can be reached, no more and no less. *)
LEMMA FindsFindable ==
  ASSUME NEW table, HasRoom(table), NEW x \in Ids
  PROVE  FindIn(table, x) <=> FindableIn(table, x)
<1> DEFINE k == FirstSlot(table, x, {x, kEmpty})
<1>1. /\ k \in Slot /\ table[k] \in {x, kEmpty}
      /\ \A m \in Path(Home[x], k) : table[m] \notin {x, kEmpty}
  BY ProbeStops DEF HasRoom
<1>2. FindIn(table, x) <=> table[k] = x
  BY DEF FindIn
<1> HIDE DEF k
<1>3. ASSUME table[k] = x PROVE FindableIn(table, x)
  BY <1>1, <1>3 DEF FindableIn
<1>4. ASSUME FindableIn(table, x) PROVE table[k] = x
  <2>1. PICK n \in Slot : table[n] = x /\ \A m \in Path(Home[x], n) : table[m] # kEmpty
    BY <1>4 DEF FindableIn
  <2>2. k = n \/ k \in Path(Home[x], n) \/ n \in Path(Home[x], k)
    <3>1. Home[x] \in Int /\ k \in Int /\ n \in Int
      BY <1>1, HomeAssumption, CapAssumption DEF Slot
    <3> QED  BY <1>1, <3>1 DEF Path
  <2> QED  BY <1>1, <2>1, <2>2
<1> QED  BY <1>2, <1>3, <1>4

(* What insert adds can be reached, and so can what could be before. *)
LEMMA InsertReaches ==
  ASSUME NEW table, IsTable(table), HasRoom(table), NEW x \in Ids
  PROVE  /\ FindableIn(InsertIn(table, x), x)
         /\ \A y \in Ids : FindableIn(table, y) => FindableIn(InsertIn(table, x), y)
<1> DEFINE k == FirstSlot(table, x, {kEmpty})
           next == InsertIn(table, x)
<1>1. /\ k \in Slot /\ table[k] = kEmpty
      /\ \A m \in Path(Home[x], k) : table[m] # kEmpty
  BY ProbeStops DEF HasRoom
<1>2. next[k] = x /\ \A m \in Slot : m # k => next[m] = table[m]
  BY <1>1 DEF InsertIn, IsTable
<1>3. \A m \in Slot : table[m] # kEmpty => next[m] # kEmpty
  BY <1>1, <1>2
<1>4. \A y \in Ids : y # kEmpty
  BY EmptyAssumption
<1> HIDE DEF k, next
<1>5. FindableIn(next, x)
  BY <1>1, <1>2, <1>3 DEF FindableIn, Path
<1>6. ASSUME NEW y \in Ids, FindableIn(table, y) PROVE FindableIn(next, y)
  <2>1. PICK n \in Slot : table[n] = y /\ \A m \in Path(Home[y], n) : table[m] # kEmpty
    BY <1>6 DEF FindableIn
  <2>2. next[n] = y
    BY <1>1, <1>2, <1>4, <2>1
  <2> QED  BY <1>3, <2>1, <2>2 DEF FindableIn, Path
<1> QED  BY <1>5, <1>6 DEF next

(***************************************************************************)
(* The backward shift of erase.                                            *)
(***************************************************************************)
LEMMA RunEnds ==
  ASSUME NEW table, HasRoom(table), NEW first \in Slot
  PROVE  /\ RunLength(table, first) \in 0 .. Cap - 1
         /\ table[After(first, RunLength(table, first) + 1)] = kEmpty
         /\ \A e \in 1 .. RunLength(table, first) : table[After(first, e)] # kEmpty
<1> DEFINE T == {d \in 0 .. Cap - 1 : table[After(first, d + 1)] = kEmpty}
<1>1. T # {}
  <2>1. PICK k \in Slot : table[k] = kEmpty
    BY DEF HasRoom
  <2>2. PICK d \in 0 .. Cap - 1 : k = After(first, d)
    BY EverySlotAfter
  <2>3. CASE d = 0
    <3>1. After(first, 0) = first /\ After(first, Cap) = first
      BY AfterValue, CapAssumption DEF Slot
    <3>2. Cap - 1 \in T
      BY <2>1, <2>2, <2>3, <3>1, CapAssumption
    <3> QED  BY <3>2
  <2>4. CASE d > 0
    <3>1. d - 1 \in 0 .. Cap - 1 /\ (d - 1) + 1 = d
      BY <2>4, CapAssumption
    <3>2. d - 1 \in T
      BY <2>1, <2>2, <3>1
    <3> QED  BY <3>2
  <2> QED  BY <2>3, <2>4
<1>2. T \subseteq Nat
  OBVIOUS
<1>3. PICK d \in T : \A e \in T : d <= e
  <2> HIDE DEF T
  <2> QED  BY <1>1, <1>2, LeastNatural
<1>4. ASSUME NEW e \in 1 .. d PROVE table[After(first, e)] # kEmpty
  <2>1. e - 1 \in 0 .. Cap - 1 /\ ~(d <= e - 1) /\ (e - 1) + 1 = e
    BY <1>3, CapAssumption
  <2> QED  BY <1>3, <2>1
<1> QED  BY <1>3, <1>4 DEF RunLength

(* The turns of the shift are well defined. *)
LEMMA TurnsUnfold ==
  ASSUME NEW table, HasRoom(table), NEW first \in Slot
  PROVE  Turns(table, first) =
           [d \in 0 .. RunLength(table, first) |->
              IF d = 0 THEN [slots |-> table, hole |-> first]
              ELSE Turned(table, first, d, Turns(table, first)[d - 1])]
<1> DEFINE n == RunLength(table, first)
           IsTurns(g, r) ==
             g = [d \in 0 .. r |-> IF d = 0 THEN [slots |-> table, hole |-> first]
                                   ELSE Turned(table, first, d, g[d - 1])]
           G == {r \in Nat : \E g : IsTurns(g, r)}
<1>1. n \in Nat
  BY RunEnds
<1>2. 0 \in G
  <2> DEFINE g == [d \in 0 .. 0 |-> [slots |-> table, hole |-> first]]
  <2>1. IsTurns(g, 0)
    OBVIOUS
  <2> QED  BY <2>1
<1>3. ASSUME NEW r \in Nat, r \in G PROVE r + 1 \in G
  <2>1. PICK g : IsTurns(g, r)
    BY <1>3
  <2> DEFINE h == [d \in 0 .. r + 1 |->
                     IF d <= r THEN g[d] ELSE Turned(table, first, r + 1, g[r])]
  <2>2. h = [d \in 0 .. r + 1 |-> IF d = 0 THEN [slots |-> table, hole |-> first]
                                  ELSE Turned(table, first, d, h[d - 1])]
    <3>1. ASSUME NEW d \in 0 .. r + 1
          PROVE  h[d] = IF d = 0 THEN [slots |-> table, hole |-> first]
                        ELSE Turned(table, first, d, h[d - 1])
      <4>1. CASE d <= r /\ d = 0
        BY <2>1, <4>1
      <4>2. CASE d <= r /\ d # 0
        <5>1. d - 1 \in 0 .. r + 1 /\ d - 1 <= r /\ d \in 0 .. r
          BY <4>2
        <5>2. h[d - 1] = g[d - 1] /\ h[d] = g[d]
          BY <4>2, <5>1
        <5> QED  BY <2>1, <4>2, <5>1, <5>2
      <4>3. CASE d = r + 1
        <5>1. h[d - 1] = g[r] /\ h[d] = Turned(table, first, r + 1, g[r])
          BY <4>3
        <5> QED  BY <4>3, <5>1
      <4> QED  BY <4>1, <4>2, <4>3
    <3> QED  BY <3>1
  <2>3. IsTurns(h, r + 1)
    BY <2>2
  <2> HIDE DEF h
  <2> QED  BY <2>3
<1>4. n \in G
  <2>1. \A d \in 0 .. n - 1 : d \in G => d + 1 \in G
    BY <1>3
  <2> HIDE DEF G
  <2> QED  BY <1>1, <1>2, <2>1, IntervalInduction
<1>5. \E g : IsTurns(g, n)
  BY <1>4
<1>6. Turns(table, first) = CHOOSE g : IsTurns(g, n)
  BY DEF Turns
<1>7. IsTurns(Turns(table, first), n)
  <2> HIDE DEF IsTurns
  <2> QED  BY <1>5, <1>6
<1> QED  BY <1>7

(* What the slots other than the hole hold. *)
Kept(slots, hole) == {slots[k] : k \in Slot \ {hole}}

(***************************************************************************)
(* After d turns: the hole is one of the slots passed, the ones ahead are  *)
(* as they were, and the slots but for the hole hold what the table held   *)
(* but for its first, each id once.                                        *)
(***************************************************************************)
ShiftInv(table, first, d, turn) ==
  /\ turn.slots \in [Slot -> Ids \cup {kEmpty}]
  /\ \E e \in 0 .. d : turn.hole = After(first, e)
  /\ \A e \in d + 1 .. Cap - 1 :
       turn.slots[After(first, e)] = table[After(first, e)]
  /\ Kept(turn.slots, turn.hole) = Kept(table, first)
  /\ \A a, b \in Slot \ {turn.hole} :
       turn.slots[a] = turn.slots[b] /\ turn.slots[a] # kEmpty => a = b

(* A turn of the shift keeps what the shift has to keep. *)
LEMMA ShiftTurn ==
  ASSUME NEW table, IsTable(table), NEW first \in Slot, NEW d \in 1 .. Cap - 1,
         NEW turn, ShiftInv(table, first, d - 1, turn)
  PROVE  ShiftInv(table, first, d, Turned(table, first, d, turn))
<1> DEFINE here == After(first, d)
           moved == [slots |-> [turn.slots EXCEPT ![turn.hole] = table[here]], hole |-> here]
<1>1. here \in Slot /\ turn.hole \in Slot /\ here # turn.hole
  <2>1. d \in 0 .. Cap
    BY CapAssumption
  <2>2. PICK e \in 0 .. d - 1 : turn.hole = After(first, e)
    BY DEF ShiftInv
  <2>3. d \in 0 .. Cap - 1 /\ e \in 0 .. Cap - 1 /\ e \in 0 .. Cap /\ d # e
    BY CapAssumption
  <2> QED  BY <2>1, <2>2, <2>3, AfterValue, AfterDiffers
<1>2. turn.slots[here] = table[here]
  BY CapAssumption DEF ShiftInv
<1>3. ShiftInv(table, first, d, turn)
  BY DEF ShiftInv
<1>4. ShiftInv(table, first, d, moved)
  <2> HIDE DEF here
  <2>1. moved.slots \in [Slot -> Ids \cup {kEmpty}]
    BY <1>1, <1>2 DEF ShiftInv
  <2>2. \E e \in 0 .. d : moved.hole = After(first, e)
    BY DEF here
  <2>3. ASSUME NEW e \in d + 1 .. Cap - 1
        PROVE  moved.slots[After(first, e)] = table[After(first, e)]
    <3>1. PICK f \in 0 .. d - 1 : turn.hole = After(first, f)
      BY DEF ShiftInv
    <3>2. f \in 0 .. Cap - 1 /\ e \in 0 .. Cap - 1 /\ e \in 0 .. Cap /\ f # e
      BY CapAssumption
    <3>3. After(first, e) # turn.hole /\ After(first, e) \in Slot
      BY <3>1, <3>2, AfterDiffers, AfterValue
    <3>4. turn.slots[After(first, e)] = table[After(first, e)]
      BY <1>3 DEF ShiftInv
    <3> QED  BY <3>3, <3>4 DEF ShiftInv
  <2>4. Kept(moved.slots, moved.hole) = Kept(turn.slots, turn.hole)
    BY <1>1, <1>2 DEF ShiftInv, Kept
  <2>5. \A a, b \in Slot \ {moved.hole} :
          moved.slots[a] = moved.slots[b] /\ moved.slots[a] # kEmpty => a = b
    BY <1>1, <1>2 DEF ShiftInv
  <2> QED  BY <2>1, <2>2, <2>3, <2>4, <2>5 DEF ShiftInv
<1>5. Turned(table, first, d, turn) \in {turn, moved}
  BY DEF Turned
<1> QED  BY <1>3, <1>4, <1>5

(* ... so that every turn has kept it. *)
LEMMA TurnsKeep ==
  ASSUME NEW table, IsTable(table), HasRoom(table), NEW first \in Slot
  PROVE  \A d \in 0 .. RunLength(table, first) :
           ShiftInv(table, first, d, Turns(table, first)[d])
<1> DEFINE n == RunLength(table, first)
           turn == Turns(table, first)
           G == {d \in 0 .. n : ShiftInv(table, first, d, turn[d])}
<1>1. n \in 0 .. Cap - 1
  BY RunEnds
<1>2. turn = [d \in 0 .. n |-> IF d = 0 THEN [slots |-> table, hole |-> first]
                               ELSE Turned(table, first, d, turn[d - 1])]
  BY TurnsUnfold
<1> HIDE DEF n, turn
<1>3. 0 \in G
  <2>1. turn[0] = [slots |-> table, hole |-> first]
    BY <1>1, <1>2
  <2>2. first = After(first, 0)
    BY AfterValue, CapAssumption DEF Slot
  <2>3. ShiftInv(table, first, 0, [slots |-> table, hole |-> first])
    BY <2>2 DEF ShiftInv, IsTable
  <2> QED  BY <1>1, <2>1, <2>3
<1>4. ASSUME NEW d \in 0 .. n - 1, d \in G PROVE d + 1 \in G
  <2>1. d + 1 \in 1 .. Cap - 1 /\ d + 1 \in 0 .. n /\ d + 1 # 0 /\ (d + 1) - 1 = d
    BY <1>1, CapAssumption
  <2>2. turn[d + 1] = Turned(table, first, d + 1, turn[d])
    BY <1>2, <2>1
  <2>3. ShiftInv(table, first, (d + 1) - 1, turn[d])
    BY <1>4, <2>1
  <2>4. ShiftInv(table, first, d + 1, Turned(table, first, d + 1, turn[d]))
    BY <2>1, <2>3, ShiftTurn
  <2> QED  BY <2>1, <2>2, <2>4
<1>5. \A d \in 0 .. n : d \in G
  <2>1. \A d \in 0 .. n - 1 : d \in G => d + 1 \in G
    BY <1>4
  <2> HIDE DEF G
  <2> QED  BY <1>1, <1>3, <2>1, IntervalInduction
<1> QED  BY <1>5 DEF n, turn

(* The shift removes the id of its first slot and disturbs no other. *)
LEMMA ShiftRemoves ==
  ASSUME NEW table, IsTable(table), HasRoom(table),
         NEW first \in Slot, table[first] # kEmpty
  PROVE  /\ IsTable(Shifted(table, first))
         /\ HasRoom(Shifted(table, first))
         /\ StoredIn(Shifted(table, first)) = StoredIn(table) \ {table[first]}
<1> DEFINE n == RunLength(table, first)
           turn == Turns(table, first)
<1>1. n \in 0 .. Cap - 1
  BY RunEnds
<1>5. ShiftInv(table, first, n, turn[n])
  BY <1>1, TurnsKeep
<1> HIDE DEF n, turn
<1> DEFINE end == turn[n]
<1>6. ShiftInv(table, first, n, end)
  BY <1>5
<1> HIDE DEF end
<1>7. Shifted(table, first) = [end.slots EXCEPT ![end.hole] = kEmpty]
  BY DEF Shifted, end, turn, n
<1>8. end.hole \in Slot
  <2>1. PICK e \in 0 .. n : end.hole = After(first, e)
    BY <1>6 DEF ShiftInv
  <2>2. e \in 0 .. Cap
    BY <1>1, CapAssumption
  <2> QED  BY <2>1, <2>2, AfterValue
<1>9. IsTable(Shifted(table, first)) /\ HasRoom(Shifted(table, first))
  BY <1>6, <1>7, <1>8 DEF ShiftInv, IsTable, HasRoom
<1>10. StoredIn(Shifted(table, first)) = Kept(end.slots, end.hole) \ {kEmpty}
  BY <1>6, <1>7, <1>8 DEF ShiftInv, StoredIn, Kept
<1>11. Kept(table, first) \ {kEmpty} = StoredIn(table) \ {table[first]}
  BY DEF IsTable, StoredIn, Kept
<1> QED  BY <1>6, <1>9, <1>10, <1>11 DEF ShiftInv

(* erase removes the id it finds and disturbs no other. *)
LEMMA EraseForgets ==
  ASSUME NEW table, IsTable(table), HasRoom(table),
         NEW x \in Ids, FindIn(table, x)
  PROVE  /\ IsTable(EraseIn(table, x))
         /\ StoredIn(EraseIn(table, x)) = StoredIn(table) \ {x}
<1> DEFINE k == FirstSlot(table, x, {x, kEmpty})
<1>1. k \in Slot /\ table[k] = x /\ x # kEmpty
  BY FoundIsStored, EmptyAssumption DEF FindIn
<1>2. EraseIn(table, x) = Shifted(table, k)
  BY DEF EraseIn
<1> HIDE DEF k
<1> QED  BY <1>1, <1>2, ShiftRemoves
-----------------------------------------------------------------------------
(***************************************************************************)
(* Sums of what remains of the orders in a set.                            *)
(***************************************************************************)
SumOver(book, S) ==
  LET iter[s \in SUBSET S] ==
        IF s = {} THEN 0
        ELSE LET x == CHOOSE x \in s : TRUE
             IN  book[x].remaining + iter[s \ {x}]
  IN  iter[S]

(* What rests at a price is such a sum. *)
LEMMA RestingIsSum ==
  ASSUME NEW book, NEW side, NEW price
  PROVE  Resting(book, side, price) = SumOver(book, RestingAt(book, side, price))
BY DEF Resting, MapThenSumSet, MapThenFoldSet, SumOver

(* The sums of the subsets of S, as the recursion computes them. *)
IsSums(g, book, S) ==
  g = [s \in SUBSET S |->
         IF s = {} THEN 0
         ELSE LET x == CHOOSE x \in s : TRUE
              IN  book[x].remaining + g[s \ {x}]]

(* The recursion of a finite set defines a function. *)
LEMMA SumsExist ==
  ASSUME NEW book, NEW S, IsFiniteSet(S)
  PROVE  \E g : IsSums(g, book, S)
<1> DEFINE Upto(r) == {s \in SUBSET S : Cardinality(s) <= r}
           Body(g, s) == IF s = {} THEN 0
                         ELSE LET x == CHOOSE x \in s : TRUE
                              IN  book[x].remaining + g[s \ {x}]
           Partial(g, r) == g = [s \in Upto(r) |-> Body(g, s)]
           G == {r \in Nat : \E g : Partial(g, r)}
           n == Cardinality(S)
<1>1. n \in Nat /\ \A s \in SUBSET S : Cardinality(s) \in 0 .. n /\ IsFiniteSet(s)
  BY FS_CardinalityType, FS_Subset
<1>2. 0 \in G
  <2> DEFINE g == [s \in Upto(0) |-> 0]
  <2>1. Partial(g, 0)
    <3>1. \A s \in Upto(0) : s = {}
      BY <1>1, FS_EmptySet
    <3> QED  BY <3>1
  <2> QED  BY <2>1
<1>3. ASSUME NEW r \in Nat, r \in G PROVE r + 1 \in G
  <2>1. PICK g : Partial(g, r)
    BY <1>3
  <2> DEFINE h == [s \in Upto(r + 1) |-> IF s \in Upto(r) THEN g[s] ELSE Body(g, s)]
  <2>2. ASSUME NEW s \in Upto(r + 1) PROVE h[s] = Body(h, s)
    <3>1. h[s] = Body(g, s)
      BY <2>1
    <3>2. CASE s = {}
      BY <3>1, <3>2
    <3>3. CASE s # {}
      <4> DEFINE x == CHOOSE x \in s : TRUE
      <4>1. x \in s
        BY <3>3
      <4>2. s \ {x} \in Upto(r)
        <5>1. Cardinality(s \ {x}) = Cardinality(s) - 1
          BY <1>1, <4>1, FS_RemoveElement
        <5> HIDE DEF x
        <5> QED  BY <1>1, <5>1
      <4>3. h[s \ {x}] = g[s \ {x}]
        <5>1. \A t \in Upto(r) : t \in Upto(r + 1)
          BY <1>1
        <5> HIDE DEF x
        <5> QED  BY <4>2, <5>1
      <4> QED  BY <3>1, <3>3, <4>3
    <3> QED  BY <3>2, <3>3
  <2>3. Partial(h, r + 1)
    <3> HIDE DEF Body
    <3> QED  BY <2>2
  <2> HIDE DEF h, Partial
  <2> QED  BY <2>3
<1>4. n \in G
  <2>1. \A d \in 0 .. n - 1 : d \in G => d + 1 \in G
    BY <1>3
  <2> HIDE DEF G
  <2> QED  BY <1>1, <1>2, <2>1, IntervalInduction
<1>5. Upto(n) = SUBSET S
  BY <1>1
<1>6. PICK g : Partial(g, n)
  BY <1>4
<1>7. IsSums(g, book, S)
  BY <1>5, <1>6 DEF IsSums
<1> QED  BY <1>7

(* Whatever set the recursion starts from, a set has the same sum. *)
LEMMA SumsAgree ==
  ASSUME NEW book, NEW S, IsFiniteSet(S), NEW T \in SUBSET S,
         NEW g, IsSums(g, book, S), NEW h, IsSums(h, book, T)
  PROVE  g[T] = h[T]
<1> DEFINE F == {s \in SUBSET T : g[s] = h[s]}
<1>1. IsFiniteSet(T)
  BY FS_Subset
<1>2. ASSUME NEW s \in SUBSET T, \A u \in SUBSET s : u # s => u \in F
      PROVE  s \in F
  <2>1. CASE s = {}
    BY <2>1 DEF IsSums
  <2>2. CASE s # {}
    <3> DEFINE x == CHOOSE x \in s : TRUE
    <3>1. x \in s
      BY <2>2
    <3>2. s \ {x} \in F
      <4> HIDE DEF x, F
      <4> QED  BY <1>2, <3>1
    <3>3. /\ g[s] = book[x].remaining + g[s \ {x}]
          /\ h[s] = book[x].remaining + h[s \ {x}]
      BY <2>2 DEF IsSums
    <3> HIDE DEF x
    <3> QED  BY <3>2, <3>3
  <2> QED  BY <2>1, <2>2
<1>3. T \in F
  <2> HIDE DEF F
  <2> QED  BY <1>1, <1>2, SubsetInduction
<1> QED  BY <1>3

(* A sum is that of any function the recursion defines. *)
LEMMA SumIsAny ==
  ASSUME NEW book, NEW S, IsFiniteSet(S), NEW T \in SUBSET S,
         NEW g, IsSums(g, book, S)
  PROVE  SumOver(book, T) = g[T]
<1> DEFINE h == CHOOSE f : IsSums(f, book, T)
<1>1. IsFiniteSet(T)
  BY FS_Subset
<1>2. IsSums(h, book, T)
  BY <1>1, SumsExist
<1>3. SumOver(book, T) = h[T]
  BY DEF SumOver, IsSums
<1> HIDE DEF h
<1> QED  BY <1>2, <1>3, SumsAgree

(* The recursion, freed of the function. *)
LEMMA SumUnfold ==
  ASSUME NEW book, NEW S, IsFiniteSet(S)
  PROVE  /\ SumOver(book, {}) = 0
         /\ S # {} => \E x \in S :
                         SumOver(book, S) = book[x].remaining + SumOver(book, S \ {x})
<1>1. PICK g : IsSums(g, book, S)
  BY SumsExist
<1>2. \A T \in SUBSET S : SumOver(book, T) = g[T]
  BY <1>1, SumIsAny
<1>3. SumOver(book, {}) = 0
  BY <1>1, <1>2 DEF IsSums
<1>4. ASSUME S # {}
      PROVE  \E x \in S : SumOver(book, S) = book[x].remaining + SumOver(book, S \ {x})
  <2> DEFINE x == CHOOSE x \in S : TRUE
  <2>1. x \in S /\ g[S] = book[x].remaining + g[S \ {x}]
    BY <1>1, <1>4 DEF IsSums
  <2> HIDE DEF x
  <2> QED  BY <1>2, <2>1
<1> QED  BY <1>3, <1>4

HasRemaining(book, S) == \A x \in S : book[x].remaining \in Nat

(* Natural remainders have a natural sum. *)
LEMMA SumIsNat ==
  ASSUME NEW book, NEW S, IsFiniteSet(S), HasRemaining(book, S)
  PROVE  SumOver(book, S) \in Nat
<1> DEFINE F == {T \in SUBSET S : SumOver(book, T) \in Nat}
<1>1. ASSUME NEW T \in SUBSET S, \A U \in SUBSET T : U # T => U \in F
      PROVE  T \in F
  <2>1. IsFiniteSet(T)
    BY FS_Subset
  <2>2. CASE T = {}
    BY <2>1, <2>2, SumUnfold
  <2>3. CASE T # {}
    <3>1. PICK x \in T : SumOver(book, T) = book[x].remaining + SumOver(book, T \ {x})
      BY <2>1, <2>3, SumUnfold
    <3>2. T \ {x} \in F
      <4> HIDE DEF F
      <4> QED  BY <1>1, <3>1
    <3> QED  BY <3>1, <3>2 DEF HasRemaining
  <2> QED  BY <2>2, <2>3
<1>2. S \in F
  <2> HIDE DEF F
  <2> QED  BY <1>1, SubsetInduction
<1> QED  BY <1>2

(* Any order of the set may be taken off its sum. *)
LEMMA SumRemove ==
  ASSUME NEW book, NEW S, IsFiniteSet(S), HasRemaining(book, S), NEW y \in S
  PROVE  SumOver(book, S) = book[y].remaining + SumOver(book, S \ {y})
<1> DEFINE F == {T \in SUBSET S :
                   \A z \in T : SumOver(book, T) = book[z].remaining + SumOver(book, T \ {z})}
<1>1. ASSUME NEW T \in SUBSET S, \A U \in SUBSET T : U # T => U \in F
      PROVE  T \in F
  <2> SUFFICES ASSUME NEW z \in T
               PROVE  SumOver(book, T) = book[z].remaining + SumOver(book, T \ {z})
    OBVIOUS
  <2>1. IsFiniteSet(T)
    BY FS_Subset
  <2>2. PICK x \in T : SumOver(book, T) = book[x].remaining + SumOver(book, T \ {x})
    BY <2>1, SumUnfold
  <2>3. CASE x = z
    BY <2>2, <2>3
  <2>4. CASE x # z
    <3>1. T \ {x} \in F /\ T \ {z} \in F
      <4> HIDE DEF F
      <4> QED  BY <1>1, <2>2
    <3>2. z \in T \ {x} /\ x \in T \ {z} /\ (T \ {x}) \ {z} = (T \ {z}) \ {x}
      BY <2>4
    <3> DEFINE rest == SumOver(book, (T \ {x}) \ {z})
    <3>3. SumOver(book, T \ {x}) = book[z].remaining + rest
      BY <3>1, <3>2
    <3>4. SumOver(book, T \ {z}) = book[x].remaining + rest
      BY <3>1, <3>2
    <3>5. rest \in Nat
      <4>1. IsFiniteSet((T \ {x}) \ {z})
        BY <2>1, FS_Subset
      <4>2. HasRemaining(book, (T \ {x}) \ {z})
        BY DEF HasRemaining
      <4> QED  BY <4>1, <4>2, SumIsNat
    <3> HIDE DEF rest
    <3> QED  BY <2>2, <3>3, <3>4, <3>5 DEF HasRemaining
  <2> QED  BY <2>3, <2>4
<1>2. S \in F
  <2> HIDE DEF F
  <2> QED  BY <1>1, SubsetInduction
<1> QED  BY <1>2

(* A sum depends on what remains of the orders, and grows with it. *)
LEMMA SumOrder ==
  ASSUME NEW book, NEW other, NEW S, IsFiniteSet(S),
         HasRemaining(book, S), HasRemaining(other, S),
         \A x \in S : book[x].remaining <= other[x].remaining
  PROVE  SumOver(book, S) <= SumOver(other, S)
<1> DEFINE F == {T \in SUBSET S : SumOver(book, T) <= SumOver(other, T)}
<1>1. ASSUME NEW T \in SUBSET S, \A U \in SUBSET T : U # T => U \in F
      PROVE  T \in F
  <2>1. IsFiniteSet(T) /\ HasRemaining(book, T) /\ HasRemaining(other, T)
    BY FS_Subset DEF HasRemaining
  <2>2. CASE T = {}
    BY <2>1, <2>2, SumUnfold
  <2>3. CASE T # {}
    <3>1. PICK x \in T : TRUE
      BY <2>3
    <3>2. /\ SumOver(book, T) = book[x].remaining + SumOver(book, T \ {x})
          /\ SumOver(other, T) = other[x].remaining + SumOver(other, T \ {x})
      BY <2>1, SumRemove
    <3>3. T \ {x} \in F
      <4> HIDE DEF F
      <4> QED  BY <1>1, <3>1
    <3>4. SumOver(book, T \ {x}) \in Nat /\ SumOver(other, T \ {x}) \in Nat
      <4>1. IsFiniteSet(T \ {x}) /\ HasRemaining(book, T \ {x}) /\ HasRemaining(other, T \ {x})
        BY <2>1, FS_Subset DEF HasRemaining
      <4> QED  BY <4>1, SumIsNat
    <3> QED  BY <3>2, <3>3, <3>4 DEF HasRemaining
  <2> QED  BY <2>2, <2>3
<1>2. S \in F
  <2> HIDE DEF F
  <2> QED  BY <1>1, SubsetInduction
<1> QED  BY <1>2

(* Books that agree on a set have the same sum over it. *)
LEMMA SumSame ==
  ASSUME NEW book, NEW other, NEW S, IsFiniteSet(S), HasRemaining(book, S),
         \A x \in S : book[x].remaining = other[x].remaining
  PROVE  SumOver(book, S) = SumOver(other, S)
<1>1. HasRemaining(other, S)
  BY DEF HasRemaining
<1>2. SumOver(book, S) <= SumOver(other, S) /\ SumOver(other, S) <= SumOver(book, S)
  BY <1>1, SumOrder DEF HasRemaining
<1> QED  BY <1>1, <1>2, SumIsNat

(* A part of a set has no more than the whole. *)
LEMMA SumOfPart ==
  ASSUME NEW book, NEW S, IsFiniteSet(S), HasRemaining(book, S), NEW T \in SUBSET S
  PROVE  SumOver(book, T) <= SumOver(book, S)
<1> DEFINE F == {U \in SUBSET S : T \subseteq U => SumOver(book, T) <= SumOver(book, U)}
<1>1. ASSUME NEW U \in SUBSET S, \A V \in SUBSET U : V # U => V \in F
      PROVE  U \in F
  <2> SUFFICES ASSUME T \subseteq U, T # U PROVE SumOver(book, T) <= SumOver(book, U)
    <3>1. SumOver(book, T) \in Nat
      BY FS_Subset, SumIsNat DEF HasRemaining
    <3> QED  BY <3>1
  <2>1. PICK x \in U : x \notin T
    OBVIOUS
  <2>2. IsFiniteSet(U) /\ HasRemaining(book, U)
    BY FS_Subset DEF HasRemaining
  <2>3. SumOver(book, U) = book[x].remaining + SumOver(book, U \ {x})
    BY <2>2, SumRemove
  <2>4. SumOver(book, T) <= SumOver(book, U \ {x})
    <3>1. U \ {x} \in F
      <4> HIDE DEF F
      <4> QED  BY <1>1, <2>1
    <3> QED  BY <2>1, <3>1
  <2>5. SumOver(book, U \ {x}) \in Nat /\ SumOver(book, T) \in Nat
    <3>1. /\ IsFiniteSet(U \ {x}) /\ HasRemaining(book, U \ {x})
          /\ IsFiniteSet(T) /\ HasRemaining(book, T)
      BY <2>2, FS_Subset DEF HasRemaining
    <3> QED  BY <3>1, SumIsNat
  <2> QED  BY <2>3, <2>4, <2>5 DEF HasRemaining
<1>2. S \in F
  <2> HIDE DEF F
  <2> QED  BY <1>1, SubsetInduction
<1> QED  BY <1>2

-----------------------------------------------------------------------------
(***************************************************************************)
(* The index of a book: a table, and the records of the ids it stores.     *)
(***************************************************************************)
IsIndex(table, book, limit) ==
  /\ limit \in Nat /\ limit < Cap
  /\ IsTable(table)
  /\ DOMAIN book = StoredIn(table)
  /\ Cardinality(DOMAIN book) <= limit

HasRecords(book, prices) ==
  \A x \in DOMAIN book :
    book[x] \in [side : Side, price : prices, remaining : Nat]

(* An empty slab and no records. *)
LEMMA IndexStarts ==
  ASSUME NEW prices, NEW limit \in Nat, limit < Cap
  PROVE  /\ IsIndex([k \in Slot |-> kEmpty], << >>, limit)
         /\ HasRecords(<< >>, prices)
<1>1. DOMAIN << >> = {}
  OBVIOUS
<1>2. StoredIn([k \in Slot |-> kEmpty]) = {}
  BY DEF StoredIn
<1>3. IsTable([k \in Slot |-> kEmpty])
  BY DEF IsTable
<1> QED  BY <1>1, <1>2, <1>3, FS_EmptySet, CapAssumption DEF IsIndex, HasRecords

(* An index holds finitely many ids and has room for a probe to stop at. *)
LEMMA IndexIsFinite ==
  ASSUME NEW table, NEW book, NEW limit, IsIndex(table, book, limit)
  PROVE  /\ IsFiniteSet(DOMAIN book) /\ DOMAIN book \subseteq Ids
         /\ HasRoom(table)
<1>1. StoredIn(table) \subseteq Ids
  BY DEF IsIndex, IsTable, StoredIn
<1> QED  BY <1>1, StoredIsFinite, FewerLeaveRoom, CapAssumption DEF IsIndex

(* An id that find finds has a record. *)
LEMMA IndexFinds ==
  ASSUME NEW table, NEW book, NEW limit, IsIndex(table, book, limit),
         NEW x \in Ids, FindIn(table, x)
  PROVE  x \in DOMAIN book
  BY IndexIsFinite, FoundIsStored DEF IsIndex

(* insert keeps the index an index while it may grow. *)
LEMMA IndexAdds ==
  ASSUME NEW table, NEW book, NEW limit, IsIndex(table, book, limit),
         NEW x \in Ids, x \notin DOMAIN book, Cardinality(DOMAIN book) < limit,
         NEW record
  PROVE  IsIndex(InsertIn(table, x), With(book, x, record), limit)
<1>1. HasRoom(table) /\ IsFiniteSet(DOMAIN book)
  BY IndexIsFinite
<1>2. /\ IsTable(InsertIn(table, x))
      /\ StoredIn(InsertIn(table, x)) = StoredIn(table) \cup {x}
  BY <1>1, InsertStores DEF IsIndex
<1>3. DOMAIN With(book, x, record) = DOMAIN book \cup {x}
  BY DEF With
<1>4. /\ Cardinality(DOMAIN book \cup {x}) = Cardinality(DOMAIN book) + 1
      /\ Cardinality(DOMAIN book) \in Nat
  BY <1>1, FS_AddElement, FS_CardinalityType
<1> QED  BY <1>2, <1>3, <1>4 DEF IsIndex

(* So does erase. *)
LEMMA IndexErases ==
  ASSUME NEW table, NEW book, NEW limit, IsIndex(table, book, limit),
         NEW x \in Ids, FindIn(table, x)
  PROVE  IsIndex(EraseIn(table, x), Without(book, x), limit)
<1>1. HasRoom(table) /\ IsFiniteSet(DOMAIN book) /\ x \in DOMAIN book
  BY IndexIsFinite, IndexFinds
<1>2. /\ IsTable(EraseIn(table, x))
      /\ StoredIn(EraseIn(table, x)) = StoredIn(table) \ {x}
  BY <1>1, EraseForgets DEF IsIndex
<1>3. DOMAIN Without(book, x) = DOMAIN book \ {x}
  BY DEF Without, Restrict
<1>4. /\ Cardinality(DOMAIN book \ {x}) = Cardinality(DOMAIN book) - 1
      /\ Cardinality(DOMAIN book) \in Nat
  BY <1>1, FS_RemoveElement, FS_CardinalityType
<1> QED  BY <1>2, <1>3, <1>4, CapAssumption DEF IsIndex

(* What reduce leaves of an order, and of the book. *)
LEMMA ReducedIs ==
  ASSUME NEW book, NEW prices, HasRecords(book, prices),
         NEW x \in DOMAIN book, NEW delta \in Nat
  PROVE  /\ Applied(book[x], delta) \in 0 .. book[x].remaining
         /\ Applied(book[x], delta) = book[x].remaining =>
              Reduced(book, x, delta) = Without(book, x)
         /\ Applied(book[x], delta) # book[x].remaining =>
              Reduced(book, x, delta) =
                With(book, x,
                     [book[x] EXCEPT !.remaining = @ - Applied(book[x], delta)])
<1>1. book[x].remaining \in Nat
  BY DEF HasRecords
<1>2. Applied(book[x], delta) \in 0 .. book[x].remaining
  BY <1>1 DEF Applied
<1> QED  BY <1>1, <1>2 DEF Reduced

(* So does what reduce does, be the order spent or not. *)
LEMMA IndexReduces ==
  ASSUME NEW table, NEW book, NEW limit, IsIndex(table, book, limit),
         NEW x \in Ids, FindIn(table, x),
         NEW prices, HasRecords(book, prices), NEW delta \in Nat
  PROVE  IsIndex(IF x \in DOMAIN Reduced(book, x, delta) THEN table ELSE EraseIn(table, x),
                 Reduced(book, x, delta), limit)
<1>1. x \in DOMAIN book
  BY IndexFinds
<1>2. CASE Applied(book[x], delta) = book[x].remaining
  <2>1. Reduced(book, x, delta) = Without(book, x)
    BY <1>1, <1>2, ReducedIs
  <2>2. x \notin DOMAIN Without(book, x)
    BY DEF Without, Restrict
  <2> QED  BY <2>1, <2>2, IndexErases
<1>3. CASE Applied(book[x], delta) # book[x].remaining
  <2> DEFINE left == [book[x] EXCEPT !.remaining = @ - Applied(book[x], delta)]
  <2>1. Reduced(book, x, delta) = With(book, x, left)
    BY <1>1, <1>3, ReducedIs
  <2>2. DOMAIN With(book, x, left) = DOMAIN book
    BY <1>1 DEF With
  <2> QED  BY <1>1, <2>1, <2>2 DEF IsIndex
<1> QED  BY <1>2, <1>3

(* The calls keep the records of the index well formed. *)
LEMMA RecordsStay ==
  ASSUME NEW book, NEW prices, HasRecords(book, prices)
  PROVE  /\ \A x \in Ids, side \in Side, price \in prices, qty \in Nat :
              HasRecords(With(book, x, Order(side, price, qty)), prices)
         /\ \A x : HasRecords(Without(book, x), prices)
         /\ \A x \in DOMAIN book, delta \in Nat :
              HasRecords(Reduced(book, x, delta), prices)
<1>1. ASSUME NEW x \in Ids, NEW side \in Side, NEW price \in prices, NEW qty \in Nat
      PROVE  HasRecords(With(book, x, Order(side, price, qty)), prices)
  BY DEF HasRecords, With, Order
<1>2. ASSUME NEW x PROVE HasRecords(Without(book, x), prices)
  BY DEF HasRecords, Without, Restrict
<1>3. ASSUME NEW x \in DOMAIN book, NEW delta \in Nat
      PROVE  HasRecords(Reduced(book, x, delta), prices)
  <2> DEFINE left == [book[x] EXCEPT !.remaining = @ - Applied(book[x], delta)]
  <2>1. CASE Applied(book[x], delta) = book[x].remaining
    BY <1>2, <2>1, ReducedIs
  <2>2. CASE Applied(book[x], delta) # book[x].remaining
    <3>1. Reduced(book, x, delta) = With(book, x, left)
      BY <2>2, ReducedIs
    <3>2. left \in [side : Side, price : prices, remaining : Nat]
      <4>1. Applied(book[x], delta) \in 0 .. book[x].remaining
        BY ReducedIs
      <4>2. book[x] \in [side : Side, price : prices, remaining : Nat]
        BY DEF HasRecords
      <4>3. book[x].remaining - Applied(book[x], delta) \in Nat
        BY <2>2, <4>1, <4>2
      <4> QED  BY <4>2, <4>3
    <3> HIDE DEF left
    <3> QED  BY <3>1, <3>2 DEF HasRecords, With
  <2> QED  BY <2>1, <2>2
<1> QED  BY <1>1, <1>2, <1>3

(***************************************************************************)
(* What a call on the index does to what rests at a price.                 *)
(***************************************************************************)
LEMMA RestingIsNat ==
  ASSUME NEW book, NEW prices, HasRecords(book, prices), IsFiniteSet(DOMAIN book),
         NEW side, NEW price
  PROVE  /\ Resting(book, side, price) \in Nat
         /\ RestingAt(book, side, price) = {} => Resting(book, side, price) = 0
         /\ \A x \in RestingAt(book, side, price) :
              book[x].remaining <= Resting(book, side, price)
<1> DEFINE S == RestingAt(book, side, price)
<1>1. S \subseteq DOMAIN book /\ HasRemaining(book, S)
  BY DEF RestingAt, HasRecords, HasRemaining
<1>2. IsFiniteSet(S)
  BY <1>1, FS_Subset
<1>3. Resting(book, side, price) = SumOver(book, S)
  BY RestingIsSum
<1>4. SumOver(book, S) \in Nat /\ SumOver(book, {}) = 0
  BY <1>1, <1>2, SumIsNat, SumUnfold
<1>5. ASSUME NEW x \in S
      PROVE  book[x].remaining <= SumOver(book, S)
  <2>1. SumOver(book, S) = book[x].remaining + SumOver(book, S \ {x})
    BY <1>1, <1>2, SumRemove
  <2>2. SumOver(book, S \ {x}) \in Nat
    <3>1. IsFiniteSet(S \ {x}) /\ HasRemaining(book, S \ {x})
      BY <1>1, <1>2, FS_Subset DEF HasRemaining
    <3> QED  BY <3>1, SumIsNat
  <2>3. book[x].remaining \in Nat
    BY <1>1 DEF HasRecords
  <2> QED  BY <2>1, <2>2, <2>3
<1> HIDE DEF S
<1> QED  BY <1>3, <1>4, <1>5 DEF S

(* A new order adds its quantity to what rests at its price only. *)
LEMMA RestingAdds ==
  ASSUME NEW book, NEW prices, HasRecords(book, prices), IsFiniteSet(DOMAIN book),
         NEW x, x \notin DOMAIN book, NEW s \in Side, NEW p \in prices, NEW qty \in Nat,
         NEW side, NEW price
  PROVE  /\ Resting(With(book, x, Order(s, p, qty)), side, price) =
              Resting(book, side, price) + (IF side = s /\ price = p THEN qty ELSE 0)
         /\ RestingAt(With(book, x, Order(s, p, qty)), side, price) =
              RestingAt(book, side, price) \cup (IF side = s /\ price = p THEN {x} ELSE {})
<1> DEFINE next == With(book, x, Order(s, p, qty))
           S == RestingAt(book, side, price)
           T == RestingAt(next, side, price)
<1>1. T = S \cup (IF side = s /\ price = p THEN {x} ELSE {})
  BY DEF With, Order, RestingAt
<1>2. next[x].remaining = qty /\ \A y \in DOMAIN book : next[y] = book[y]
  BY DEF With, Order
<1>3. S \subseteq DOMAIN book /\ IsFiniteSet(S) /\ HasRemaining(book, S)
  <2>1. S \subseteq DOMAIN book /\ HasRemaining(book, S)
    BY DEF RestingAt, HasRecords, HasRemaining
  <2> QED  BY <2>1, FS_Subset
<1> HIDE DEF next
<1>4. SumOver(next, S) = SumOver(book, S) /\ HasRemaining(next, S) /\ SumOver(book, S) \in Nat
  <2>1. \A y \in S : book[y].remaining = next[y].remaining
    BY <1>2, <1>3
  <2> QED  BY <1>3, <2>1, SumSame, SumIsNat DEF HasRemaining
<1>5. CASE side = s /\ price = p
  <2>1. T = S \cup {x} /\ (S \cup {x}) \ {x} = S /\ x \in S \cup {x}
    BY <1>1, <1>3, <1>5
  <2>2. IsFiniteSet(T) /\ HasRemaining(next, T)
    BY <1>2, <1>3, <1>4, <2>1, FS_AddElement DEF HasRemaining
  <2>3. SumOver(next, T) = next[x].remaining + SumOver(next, T \ {x})
    BY <2>1, <2>2, SumRemove
  <2> HIDE DEF S, T
  <2>4. T \ {x} = S /\ next[x].remaining = qty /\ SumOver(next, S) = SumOver(book, S)
    BY <1>2, <1>4, <2>1
  <2>5. SumOver(next, T) = qty + SumOver(book, S)
    BY <2>3, <2>4
  <2>6. SumOver(next, T) = SumOver(book, S) + qty
    BY <1>4, <2>5
  <2> QED  BY <1>1, <1>5, <2>6, RestingIsSum DEF S, T, next
<1>6. CASE ~(side = s /\ price = p)
  <2>1. T = S
    BY <1>1, <1>6
  <2> HIDE DEF S, T
  <2>2. SumOver(next, T) = SumOver(book, S) + 0
    BY <1>4, <2>1
  <2>3. /\ SumOver(next, T) = Resting(next, side, price)
        /\ SumOver(book, S) = Resting(book, side, price)
    BY RestingIsSum DEF S, T
  <2> QED  BY <1>1, <1>6, <2>2, <2>3 DEF S, T, next
<1> QED  BY <1>5, <1>6

(* An order that leaves takes what remained of it along. *)
LEMMA RestingLoses ==
  ASSUME NEW book, NEW prices, HasRecords(book, prices), IsFiniteSet(DOMAIN book),
         NEW x \in DOMAIN book, NEW side, NEW price
  PROVE  LET here == side = book[x].side /\ price = book[x].price
         IN  /\ Resting(Without(book, x), side, price) =
                  Resting(book, side, price) - (IF here THEN book[x].remaining ELSE 0)
             /\ RestingAt(Without(book, x), side, price) = RestingAt(book, side, price) \ {x}
<1> DEFINE next == Without(book, x)
           S == RestingAt(book, side, price)
           T == RestingAt(next, side, price)
<1>1. T = S \ {x}
  BY DEF Without, Restrict, RestingAt
<1>2. \A y \in T : next[y] = book[y]
  BY DEF Without, Restrict, RestingAt
<1>3. S \subseteq DOMAIN book /\ IsFiniteSet(S) /\ HasRemaining(book, S)
  <2>1. S \subseteq DOMAIN book /\ HasRemaining(book, S)
    BY DEF RestingAt, HasRecords, HasRemaining
  <2> QED  BY <2>1, FS_Subset
<1>4. IsFiniteSet(T) /\ HasRemaining(book, T)
  BY <1>1, <1>3, FS_Subset DEF HasRemaining
<1>5. SumOver(next, T) = SumOver(book, T) /\ SumOver(book, T) \in Nat
  BY <1>2, <1>4, SumSame, SumIsNat
<1>6. x \in S <=> side = book[x].side /\ price = book[x].price
  BY DEF RestingAt
<1>7. x \in S => SumOver(book, S) = book[x].remaining + SumOver(book, T)
  BY <1>1, <1>3, SumRemove
<1>8. x \notin S => T = S
  BY <1>1
<1>9. book[x].remaining \in Nat
  BY DEF HasRecords
<1>10. /\ SumOver(next, T) = Resting(next, side, price)
       /\ SumOver(book, S) = Resting(book, side, price)
  BY RestingIsSum
<1> HIDE DEF S, T, next
<1>11. SumOver(next, T) = SumOver(book, S) - (IF x \in S THEN book[x].remaining ELSE 0)
  BY <1>5, <1>7, <1>8, <1>9
<1> QED  BY <1>1, <1>6, <1>10, <1>11 DEF S, T, next

(* An order that is reduced loses the amount at its price. *)
LEMMA RestingReduces ==
  ASSUME NEW book, NEW prices, HasRecords(book, prices), IsFiniteSet(DOMAIN book),
         NEW x \in DOMAIN book, NEW amount \in Nat, amount < book[x].remaining,
         NEW side, NEW price
  PROVE  LET here == side = book[x].side /\ price = book[x].price
             next == With(book, x, [book[x] EXCEPT !.remaining = @ - amount])
         IN  /\ Resting(next, side, price) =
                  Resting(book, side, price) - (IF here THEN amount ELSE 0)
             /\ RestingAt(next, side, price) = RestingAt(book, side, price)
<1> DEFINE next == With(book, x, [book[x] EXCEPT !.remaining = @ - amount])
           S == RestingAt(book, side, price)
           R == S \ {x}
<1>1. book[x] \in [side : Side, price : prices, remaining : Nat]
  BY DEF HasRecords
<1>2. RestingAt(next, side, price) = S
  BY <1>1 DEF With, RestingAt
<1>3. /\ \A y \in R : next[y] = book[y]
      /\ next[x].remaining = book[x].remaining - amount
  BY <1>1 DEF With, RestingAt
<1>4. S \subseteq DOMAIN book /\ IsFiniteSet(S) /\ HasRemaining(book, S)
  <2>1. S \subseteq DOMAIN book /\ HasRemaining(book, S)
    BY DEF RestingAt, HasRecords, HasRemaining
  <2> QED  BY <2>1, FS_Subset
<1>5. IsFiniteSet(R) /\ HasRemaining(book, R)
  BY <1>4, FS_Subset DEF HasRemaining
<1>6. SumOver(next, R) = SumOver(book, R) /\ SumOver(book, R) \in Nat
  BY <1>3, <1>5, SumSame, SumIsNat
<1>7. x \in S <=> side = book[x].side /\ price = book[x].price
  BY DEF RestingAt
<1>8. HasRemaining(next, S)
  <2> SUFFICES ASSUME NEW y \in S PROVE next[y].remaining \in Nat
    BY DEF HasRemaining
  <2> HIDE DEF next
  <2> QED  BY <1>1, <1>3, <1>4 DEF HasRemaining
<1>9. /\ SumOver(next, S) = Resting(next, side, price)
      /\ SumOver(book, S) = Resting(book, side, price)
  BY <1>2, RestingIsSum
<1>10. x \in S => /\ SumOver(book, S) = book[x].remaining + SumOver(book, R)
                  /\ SumOver(next, S) = next[x].remaining + SumOver(next, R)
  <2> HIDE DEF next
  <2> QED  BY <1>4, <1>8, SumRemove
<1>11. x \notin S => R = S
  OBVIOUS
<1> HIDE DEF S, R, next
<1>12. SumOver(next, S) = SumOver(book, S) - (IF x \in S THEN amount ELSE 0)
  BY <1>1, <1>3, <1>6, <1>10, <1>11
<1> QED  BY <1>2, <1>7, <1>9, <1>12 DEF S, next
=============================================================================
