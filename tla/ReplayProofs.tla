---------------------------- MODULE ReplayProofs ----------------------------
(***************************************************************************)
(* Theorems of the map book, over calls in any order: its levels are the   *)
(* sums of what the index holds, whatever erase has put out of reach, and  *)
(* a call does to the order it names what OrderBook promises.              *)
(*                                                                         *)
(* And, from its invariant, theorems of the replay: the two books of the   *)
(* driver are the same, what they show is what the stream describes or     *)
(* more, and exactly that until the index misses an order, and the hint    *)
(* bounds a synthetic stream's live orders.                                *)
(***************************************************************************)
EXTENDS Replay, RecallingBook, BookLemmas

-----------------------------------------------------------------------------
(***************************************************************************)
(* The levels of one side beside the orders they are the sums of.          *)
(***************************************************************************)
AreSums(levels, book, side) ==
  /\ DOMAIN levels \subseteq Prices
  /\ \A p \in Prices :
       /\ LevelQuantity(levels, p) = Resting(book, side, p)
       /\ p \in DOMAIN levels => RestingAt(book, side, p) # {}

(* The inductive invariant: the index is a table with its records and room *)
(* left, and the levels of both sides are sums over those records.         *)
IInv ==
  /\ IsIndex(slots, orders, MaxHeld)
  /\ HasRecords(orders, Prices)
  /\ \A side \in Side : AreSums(Levels(side), orders, side)

(* What the invariant says of the levels and the records.                  *)
LEMMA IInvImplies == IInv => TypeOK /\ LevelsAreSums
<1> SUFFICES ASSUME IInv PROVE TypeOK /\ LevelsAreSums
  OBVIOUS
<1>1. IsFiniteSet(DOMAIN orders)
  BY IndexIsFinite DEF IInv
<1>2. LevelsAreSums
  BY DEF IInv, AreSums, LevelsAreSums, QuantityAt
<1>3. ASSUME NEW side \in Side, NEW p \in DOMAIN Levels(side)
      PROVE  Levels(side)[p] \in Nat
  <2>1. p \in Prices /\ RestingAt(orders, side, p) # {}
    BY DEF IInv, AreSums
  <2>2. Levels(side)[p] = Resting(orders, side, p)
    BY <2>1 DEF IInv, AreSums, LevelQuantity
  <2> QED  BY <1>1, <2>1, <2>2, RestingIsNat DEF IInv
<1>4. TypeOK
  <2>1. \A side \in Side : DOMAIN Levels(side) \subseteq Prices
    BY DEF IInv, AreSums
  <2>2. slots \in [Slot -> Ids \cup {kEmpty}] /\ DOMAIN orders = StoredIn(slots)
    BY DEF IInv, IsIndex, IsTable
  <2> QED  BY <1>3, <2>1, <2>2 DEF TypeOK, IInv, HasRecords
<1> QED  BY <1>2, <1>4

(* It holds of an empty book. *)
LEMMA InitIInv == Init => IInv
<1> SUFFICES ASSUME Init PROVE IInv
  OBVIOUS
<1>1. IsIndex(slots, orders, MaxHeld) /\ HasRecords(orders, Prices)
  BY IndexStarts, HeldAssumption DEF Init
<1>2. ASSUME NEW side \in Side PROVE AreSums(Levels(side), orders, side)
  <2>1. DOMAIN Levels(side) = {} /\ DOMAIN orders = {}
    BY DEF Init, Levels
  <2>2. \A p : RestingAt(orders, side, p) = {}
    BY <2>1 DEF RestingAt
  <2>3. \A p : Resting(orders, side, p) = 0
    BY <1>1, <2>1, <2>2, RestingIsNat, FS_EmptySet
  <2> QED  BY <2>1, <2>2, <2>3 DEF AreSums, LevelQuantity
<1> QED  BY <1>1, <1>2 DEF IInv

-----------------------------------------------------------------------------
(***************************************************************************)
(* The levels follow the index through each update of it.                  *)
(***************************************************************************)
LEMMA AddedAreSums ==
  ASSUME NEW book, HasRecords(book, Prices), IsFiniteSet(DOMAIN book),
         NEW x, x \notin DOMAIN book,
         NEW s \in Side, NEW p \in Prices, NEW qty \in Nat,
         NEW side \in Side, NEW levels, AreSums(levels, book, side)
  PROVE  AreSums(IF side = s THEN AddLevel(levels, p, qty) ELSE levels,
                 With(book, x, Order(s, p, qty)), side)
<1> DEFINE next == With(book, x, Order(s, p, qty))
           after == IF side = s THEN AddLevel(levels, p, qty) ELSE levels
<1>1. DOMAIN after = IF side = s THEN DOMAIN levels \cup {p} ELSE DOMAIN levels
  BY DEF AddLevel, With
<1>2. ASSUME NEW q \in Prices
      PROVE  LevelQuantity(after, q) =
               LevelQuantity(levels, q) + (IF side = s /\ q = p THEN qty ELSE 0)
  <2>1. LevelQuantity(levels, q) \in Nat
    BY RestingIsNat DEF AreSums
  <2> QED  BY <2>1 DEF AddLevel, With, LevelQuantity
<1>3. ASSUME NEW q \in Prices
      PROVE  /\ Resting(next, side, q) =
                  Resting(book, side, q) + (IF side = s /\ q = p THEN qty ELSE 0)
             /\ RestingAt(next, side, q) =
                  RestingAt(book, side, q) \cup (IF side = s /\ q = p THEN {x} ELSE {})
  BY RestingAdds
<1> HIDE DEF next, after
<1>4. AreSums(after, next, side)
  BY <1>1, <1>2, <1>3 DEF AreSums
<1> QED  BY <1>4 DEF next, after

(* Of an order that rests, its level loses amount, all or part of it.      *)
LEMMA TakenAreSums ==
  ASSUME NEW book, HasRecords(book, Prices), IsFiniteSet(DOMAIN book),
         NEW x \in DOMAIN book, NEW amount \in 0 .. book[x].remaining, NEW next,
         amount = book[x].remaining => next = Without(book, x),
         amount # book[x].remaining =>
           next = With(book, x, [book[x] EXCEPT !.remaining = @ - amount]),
         NEW side \in Side, NEW levels, AreSums(levels, book, side)
  PROVE  AreSums(IF side = book[x].side
                   THEN SubLevel(levels, book[x].price, amount) ELSE levels,
                 next, side)
<1> DEFINE p == book[x].price
           here(q) == side = book[x].side /\ q = p
           after == IF side = book[x].side THEN SubLevel(levels, p, amount) ELSE levels
<1>1. book[x] \in [side : Side, price : Prices, remaining : Nat]
  BY DEF HasRecords
<1>2. ASSUME NEW q \in Prices
      PROVE  /\ Resting(next, side, q) =
                  Resting(book, side, q) - (IF here(q) THEN amount ELSE 0)
             /\ RestingAt(next, side, q) = {} => Resting(next, side, q) = 0
             /\ Resting(next, side, q) \in Nat
             /\ ~here(q) => RestingAt(next, side, q) = RestingAt(book, side, q)
  <2>1. CASE amount = book[x].remaining
    <3>1. next = Without(book, x)
      BY <2>1
    <3>2. Resting(next, side, q) =
            Resting(book, side, q) - (IF here(q) THEN amount ELSE 0)
      BY <2>1, <3>1, RestingLoses
    <3>3. HasRecords(next, Prices)
      BY <3>1, RecordsStay
    <3>4. IsFiniteSet(DOMAIN next)
      BY <3>1, FS_RemoveElement DEF Without, Restrict
    <3>5. RestingAt(next, side, q) = RestingAt(book, side, q) \ {x}
      BY <3>1, RestingLoses
    <3>6. ~here(q) => x \notin RestingAt(book, side, q)
      BY DEF RestingAt
    <3> HIDE DEF here
    <3> QED  BY <3>2, <3>3, <3>4, <3>5, <3>6, RestingIsNat
  <2>2. CASE amount # book[x].remaining
    <3>1. next = With(book, x, [book[x] EXCEPT !.remaining = @ - amount])
      BY <2>2
    <3>2. amount \in Nat /\ amount < book[x].remaining
      BY <1>1, <2>2
    <3>3. Resting(next, side, q) =
            Resting(book, side, q) - (IF here(q) THEN amount ELSE 0)
      BY <3>1, <3>2, RestingReduces
    <3>4. DOMAIN next = DOMAIN book
      BY <3>1 DEF With
    <3>5. HasRecords(next, Prices)
      <4>1. [book[x] EXCEPT !.remaining = @ - amount]
              \in [side : Side, price : Prices, remaining : Nat]
        BY <1>1, <3>2
      <4> QED  BY <3>1, <4>1 DEF With, HasRecords
    <3>6. RestingAt(next, side, q) = RestingAt(book, side, q)
      BY <3>1, <3>2, RestingReduces
    <3> HIDE DEF here
    <3> QED  BY <3>3, <3>4, <3>5, <3>6, RestingIsNat
  <2> QED  BY <2>1, <2>2
<1>3. p \in Prices /\ amount \in Nat
  BY <1>1
<1>4. ASSUME side = book[x].side
      PROVE  /\ Resting(next, side, p) = LevelQuantity(levels, p) - amount
             /\ Resting(next, side, p) \in Nat
             /\ p \notin DOMAIN levels => amount = 0
  <2>1. x \in RestingAt(book, side, p)
    BY <1>4 DEF RestingAt
  <2>2. LevelQuantity(levels, p) = Resting(book, side, p)
    BY <1>3 DEF AreSums
  <2>3. book[x].remaining <= Resting(book, side, p) /\ Resting(book, side, p) \in Nat
    BY <2>1, RestingIsNat
  <2>4. p \notin DOMAIN levels => amount = 0
    BY <1>1, <2>2, <2>3 DEF LevelQuantity
  <2> QED  BY <1>2, <1>3, <1>4, <2>2, <2>4
<1>5. ASSUME NEW q \in Prices, here(q)
      PROVE  /\ LevelQuantity(after, q) = Resting(next, side, q)
             /\ q \in DOMAIN after => Resting(next, side, q) # 0
  BY <1>2, <1>4, <1>5 DEF SubLevel, LevelQuantity, Without, Restrict
<1>6. ASSUME NEW q \in Prices, ~here(q)
      PROVE  /\ LevelQuantity(after, q) = LevelQuantity(levels, q)
             /\ q \in DOMAIN after <=> q \in DOMAIN levels
  BY <1>6 DEF SubLevel, LevelQuantity, Without, Restrict
<1>7. DOMAIN after \subseteq DOMAIN levels
  BY DEF SubLevel, Without, Restrict
<1>8. ASSUME NEW q \in Prices
      PROVE  /\ LevelQuantity(after, q) = Resting(next, side, q)
             /\ q \in DOMAIN after => RestingAt(next, side, q) # {}
  <2>1. CASE here(q)
    BY <1>2, <1>5, <2>1
  <2>2. CASE ~here(q)
    <3>1. Resting(book, side, q) \in Nat
      BY RestingIsNat
    <3>2. Resting(next, side, q) = Resting(book, side, q)
      BY <1>2, <2>2, <3>1
    <3> HIDE DEF after, here
    <3> QED  BY <1>2, <1>6, <2>2, <3>1, <3>2 DEF AreSums
  <2> QED  BY <2>1, <2>2
<1> HIDE DEF after, here
<1>9. AreSums(after, next, side)
  BY <1>7, <1>8 DEF AreSums
<1> QED  BY <1>9 DEF after

-----------------------------------------------------------------------------
(***************************************************************************)
(* The invariant is inductive: one step per member function.               *)
(***************************************************************************)
LEMMA AddKeeps ==
  ASSUME IInv, NEW x \in Ids, NEW side \in Side, NEW price \in Prices,
         NEW qty \in Sizes, Add(x, side, price, qty)
  PROVE  IInv'
<1>1. qty \in Nat
  BY SizesAssumption
<1>2. IsFiniteSet(DOMAIN orders)
  BY IndexIsFinite DEF IInv
<1>3. IsIndex(slots', orders', MaxHeld)
  BY IndexAdds DEF IInv, Add
<1>4. HasRecords(orders', Prices)
  <2>1. HasRecords(With(orders, x, Order(side, price, qty)), Prices)
    BY <1>1, RecordsStay DEF IInv
  <2> QED  BY <2>1 DEF Add
<1>5. ASSUME NEW s \in Side PROVE AreSums(Levels(s)', orders', s)
  <2>1. Levels(s)' = IF s = side THEN AddLevel(Levels(s), price, qty) ELSE Levels(s)
    BY DEF Add, SetLevels, Levels, Side
  <2> QED  BY <1>1, <1>2, <2>1, AddedAreSums DEF IInv, Add
<1> QED  BY <1>3, <1>4, <1>5 DEF IInv

(* A cancel keeps it, whether it finds its order or not. *)
LEMMA CancelKeeps ==
  ASSUME IInv, NEW x \in Ids, Cancel(x)
  PROVE  IInv'
<1>1. CASE Unknown(x)
  BY <1>1 DEF IInv, Unknown, vars, Levels
<1>2. CASE ~Unknown(x)
  <2> USE <1>2 DEF Cancel
  <2>1. IsFiniteSet(DOMAIN orders) /\ x \in DOMAIN orders
    BY IndexIsFinite, IndexFinds DEF IInv
  <2>2. orders[x] \in [side : Side, price : Prices, remaining : Nat]
    BY <2>1 DEF IInv, HasRecords
  <2>3. IsIndex(slots', orders', MaxHeld)
    BY IndexErases DEF IInv
  <2>4. HasRecords(orders', Prices)
    BY RecordsStay DEF IInv
  <2>5. ASSUME NEW s \in Side PROVE AreSums(Levels(s)', orders', s)
    <3>1. Levels(s)' = IF s = orders[x].side
                         THEN SubLevel(Levels(s), orders[x].price, orders[x].remaining)
                         ELSE Levels(s)
      BY <2>2 DEF LevelSub, SetLevels, Levels, Side
    <3>2. orders[x].remaining \in 0 .. orders[x].remaining
      BY <2>2
    <3>3. orders' = Without(orders, x)
      OBVIOUS
    <3> HIDE DEF Cancel
    <3>4. AreSums(Levels(s), orders, s) /\ HasRecords(orders, Prices)
      BY DEF IInv
    <3>5. AreSums(IF s = orders[x].side
                    THEN SubLevel(Levels(s), orders[x].price, orders[x].remaining)
                    ELSE Levels(s), orders', s)
      BY <2>1, <3>2, <3>3, <3>4, TakenAreSums
    <3> QED  BY <3>1, <3>5
  <2> QED  BY <2>3, <2>4, <2>5 DEF IInv
<1> QED  BY <1>1, <1>2

(* So does a reduce. *)
LEMMA ReduceKeeps ==
  ASSUME IInv, NEW x \in Ids, NEW delta \in Nat, Reduce(x, delta)
  PROVE  IInv'
<1>1. CASE Unknown(x)
  BY <1>1 DEF IInv, Unknown, vars, Levels
<1>2. CASE ~Unknown(x)
  <2> USE <1>2 DEF Reduce
  <2>1. IsFiniteSet(DOMAIN orders) /\ x \in DOMAIN orders
    BY IndexIsFinite, IndexFinds DEF IInv
  <2>2. orders[x] \in [side : Side, price : Prices, remaining : Nat]
    BY <2>1 DEF IInv, HasRecords
  <2>3. IsIndex(slots', orders', MaxHeld)
    BY <2>1, IndexReduces DEF IInv
  <2>4. HasRecords(orders', Prices)
    BY <2>1, RecordsStay DEF IInv
  <2>5. ASSUME NEW s \in Side PROVE AreSums(Levels(s)', orders', s)
    <3> DEFINE amount == Applied(orders[x], delta)
    <3>1. Levels(s)' = IF s = orders[x].side
                         THEN SubLevel(Levels(s), orders[x].price, amount)
                         ELSE Levels(s)
      BY <2>2 DEF LevelSub, SetLevels, Levels, Side
    <3>2. /\ amount \in 0 .. orders[x].remaining
          /\ amount = orders[x].remaining => orders' = Without(orders, x)
          /\ amount # orders[x].remaining =>
               orders' = With(orders, x, [orders[x] EXCEPT !.remaining = @ - amount])
      BY <2>1, ReducedIs DEF IInv
    <3> HIDE DEF amount
    <3> QED  BY <2>1, <3>1, <3>2, TakenAreSums DEF IInv
  <2> QED  BY <2>3, <2>4, <2>5 DEF IInv
<1> QED  BY <1>1, <1>2

(* Every step keeps it. *)
LEMMA NextIInv == IInv /\ [Next]_vars => IInv'
<1> SUFFICES ASSUME IInv, [Next]_vars PROVE IInv'
  OBVIOUS
<1>1. CASE Next
  BY <1>1, AddKeeps, CancelKeeps, ReduceKeeps, SizesAssumption DEF Next
<1>2. CASE UNCHANGED vars
  BY <1>2 DEF IInv, vars, Levels
<1> QED  BY <1>1, <1>2

(* The inductive invariant holds in every state of every run. *)
THEOREM AlwaysIInv == Spec => []IInv
BY InitIInv, NextIInv, PTL DEF Spec

(* The index and the levels keep their types: in particular a level is     *)
(* never left with less than nothing (book_map.hpp:103-123).               *)
THEOREM TypeCorrect == Spec => []TypeOK
BY AlwaysIInv, IInvImplies, PTL

(* The levels and the index never drift apart.                             *)
THEOREM LevelsStaySums == Spec => []LevelsAreSums
BY AlwaysIInv, IInvImplies, PTL

-----------------------------------------------------------------------------
(***************************************************************************)
(* The book implements the promise of OrderBook, call by call.             *)
(***************************************************************************)

(* The calls are those of the book, and the book's invariant is theirs.    *)
LEMMA CallsKeepIInv == CallsSpec => []IInv
<1>1. CallsInit => IInv
  BY InitIInv DEF CallsInit
<1>2. IInv /\ [CallsNext]_<<vars, call>> => IInv'
  BY NextIInv DEF CallsNext, Next
<1> QED  BY <1>1, <1>2, PTL DEF CallsSpec

(* The promise is made of the same records. *)
LEMMA SamePromise ==
  ASSUME NEW book, NEW x, NEW delta, NEW record
  PROVE  /\ Book!With(book, x, record) = With(book, x, record)
         /\ Book!Without(book, x) = Without(book, x)
         /\ Book!Reduced(book, x, delta) = Reduced(book, x, delta)
BY DEF Book!Reduced, Reduced, Book!Applied, Applied, Book!With, With, Book!Without, Without,
       Book!Restrict, Restrict

(* What a call reaches. *)
LEMMA ReachIsFound ==
  ASSUME IInv
  PROVE  /\ \A x \in Ids : FindIn(slots, x) <=> x \in Reach
         /\ Reach \subseteq DOMAIN orders /\ DOMAIN orders \subseteq Ids
<1>1. HasRoom(slots) /\ DOMAIN orders \subseteq Ids
  BY IndexIsFinite DEF IInv
<1>2. \A x \in Ids : FindIn(slots, x) => x \in DOMAIN orders
  BY IndexFinds DEF IInv
<1> QED  BY <1>1, <1>2, FindsFindable DEF Reach

(* An add rests its order within reach and puts none out of reach. *)
LEMMA AddPromises ==
  ASSUME IInv, NEW x \in Ids, NEW side, NEW price, NEW qty, Add(x, side, price, qty)
  PROVE  Book!Add(x, Book!Order(side, price, qty))
<1>1. /\ x \notin DOMAIN orders
      /\ slots' = InsertIn(slots, x)
      /\ orders' = With(orders, x, Order(side, price, qty))
  BY DEF Add
<1>2. DOMAIN orders' = DOMAIN orders \cup {x}
  BY <1>1 DEF With
<1>3. /\ FindableIn(slots', x)
      /\ \A y \in Ids : FindableIn(slots, y) => FindableIn(slots', y)
  BY <1>1, InsertReaches, IndexIsFinite DEF IInv, IsIndex
<1>4. Reach' = {y \in DOMAIN orders' : FindableIn(slots', y)}
  BY DEF Reach
<1>5. Reach \cup {x} \subseteq Reach' /\ Reach' \subseteq DOMAIN orders'
  BY <1>2, <1>3, <1>4, ReachIsFound DEF Reach
<1> QED  BY <1>1, <1>5, SamePromise DEF Book!Add, Book!Order, Order

(* A cancel removes the order it names when that is within reach. *)
LEMMA CancelPromises ==
  ASSUME IInv, NEW x \in Ids, Cancel(x)
  PROVE  Book!Cancel(x) \/ Book!Miss(x)
<1>1. CASE FindIn(slots, x)
  BY <1>1, ReachIsFound, SamePromise DEF Cancel, Unknown, Book!Cancel, Reach
<1>2. CASE ~FindIn(slots, x)
  BY <1>2, ReachIsFound DEF Cancel, Unknown, vars, Book!Miss, Reach
<1> QED  BY <1>1, <1>2

(* A reduce takes its delta off the order it names when that is in reach. *)
LEMMA ReducePromises ==
  ASSUME IInv, NEW x \in Ids, NEW delta \in Nat, Reduce(x, delta)
  PROVE  Book!Reduce(x, delta) \/ Book!Miss(x)
<1>1. CASE FindIn(slots, x)
  <2>1. /\ orders' = Reduced(orders, x, delta)
        /\ slots' = IF x \in DOMAIN orders' THEN slots ELSE EraseIn(slots, x)
        /\ x \in Reach /\ x \in DOMAIN orders
    BY <1>1, ReachIsFound DEF Reduce, Unknown
  <2>2. x \in DOMAIN orders' => DOMAIN orders' = DOMAIN orders
    <3>1. CASE Applied(orders[x], delta) = orders[x].remaining
      <4>1. orders' = Without(orders, x)
        BY <2>1, <3>1, ReducedIs DEF IInv
      <4> QED  BY <4>1 DEF Without, Restrict
    <3>2. CASE Applied(orders[x], delta) # orders[x].remaining
      <4> DEFINE left == [orders[x] EXCEPT !.remaining = @ - Applied(orders[x], delta)]
      <4>1. orders' = With(orders, x, left)
        BY <2>1, <3>2, ReducedIs DEF IInv
      <4> HIDE DEF left
      <4> QED  BY <2>1, <4>1 DEF With
    <3> QED  BY <3>1, <3>2
  <2>3. IF x \in DOMAIN orders' THEN Reach' = Reach ELSE Reach' \subseteq DOMAIN orders'
    BY <2>1, <2>2 DEF Reach
  <2> QED  BY <2>1, <2>3, SamePromise DEF Book!Reduce
<1>2. CASE ~FindIn(slots, x)
  BY <1>2, ReachIsFound DEF Reduce, Unknown, vars, Book!Miss, Reach
<1> QED  BY <1>1, <1>2

(* Every step of the calls is a step of the promise. *)
LEMMA CallsPromise == IInv /\ [CallsNext]_<<vars, call>> => [Book!Next]_(Book!vars)
<1> SUFFICES ASSUME IInv, [CallsNext]_<<vars, call>> PROVE [Book!Next]_(Book!vars)
  OBVIOUS
<1>1. CASE UNCHANGED <<vars, call>>
  BY <1>1 DEF vars, Reach, Book!vars
<1>2. ASSUME NEW x \in Ids, NEW side \in Side, NEW price \in Prices, NEW qty \in Sizes,
             Add(x, side, price, qty), call' = Book!AddCall(x, Order(side, price, qty))
      PROVE  Book!Next
  <2>1. Book!Order(side, price, qty) = Order(side, price, qty) /\ Book!Side = Side
    BY DEF Book!Order, Order, Book!Side, Side
  <2>2. Book!Add(x, Book!Order(side, price, qty))
    BY <1>2, AddPromises
  <2> QED  BY <1>2, <2>1, <2>2 DEF Book!Next
<1>3. ASSUME NEW x \in Ids, Cancel(x), call' = Book!CancelCall(x) PROVE Book!Next
  BY <1>3, CancelPromises DEF Book!Next
<1>4. ASSUME NEW x \in Ids, NEW delta \in Sizes, Reduce(x, delta),
             call' = Book!ReduceCall(x, delta)
      PROVE  Book!Next
  BY <1>4, ReducePromises, SizesAssumption DEF Book!Next
<1> QED  BY <1>1, <1>2, <1>3, <1>4 DEF CallsNext

(* A cancel or a reduce changes the order it names, as it should, exactly  *)
(* when that order can be reached in the index, and no other order ever    *)
(* (book_map.hpp:26-55).                                                   *)
THEOREM KeepsPromise == CallsSpec => ImplementsBook
<1>1. CallsInit => Book!Init
  BY DEF CallsInit, Init, Reach, Book!Init
<1> QED  BY <1>1, CallsKeepIInv, CallsPromise, PTL DEF CallsSpec, ImplementsBook, Book!Spec

-----------------------------------------------------------------------------
(***************************************************************************)
(* The events a source can draw, by what they say of the orders.           *)
(***************************************************************************)
Submits(e) ==
  /\ e.type = 1 /\ e.id = adds + 1 /\ adds < MaxAdds
  /\ e.price \in Prices /\ e.size \in Sizes

Affects(e) ==
  /\ e.type \in {2, 3, 4} /\ e.id \in DOMAIN resting
  /\ e.size \in Nat
  /\ e.type = 2 => source # "synthetic"

Predates(e) ==
  /\ e.type \in {2, 3, 4} /\ e.id \in before
  /\ e.size \in Sizes
  /\ source # "synthetic"

Invisible(e) == e.type \in {5, 7} /\ source # "synthetic"

Drawn(e) == Submits(e) \/ Affects(e) \/ Predates(e) \/ Invisible(e)

SideOf(e) == IF e.direction = 1 THEN "buy" ELSE "sell"

(***************************************************************************)
(* The inductive invariant.                                                *)
(***************************************************************************)
IsFunction(f) == f = [x \in DOMAIN f |-> f[x]]

IsStream ==
  /\ adds \in Nat
  /\ IsFiniteSet(DOMAIN resting) /\ DOMAIN resting \subseteq 1 .. MaxAdds
  /\ HasRecords(resting, Prices) /\ IsFunction(resting)
  /\ before \subseteq PreWindow

(* Each order of book rests in other, with as much remaining or more.      *)
Covers(other, book) ==
  \A x \in DOMAIN book :
    /\ x \in DOMAIN other
    /\ other[x].side = book[x].side /\ other[x].price = book[x].price
    /\ other[x].remaining >= book[x].remaining

IsExact == ~missed => orders = resting

IsCounted ==
  source = "synthetic" =>
    /\ live \in Int /\ peak \in Int
    /\ Cardinality(DOMAIN resting) <= live /\ live <= peak

RInv ==
  /\ IInv
  /\ IsStream
  /\ Covers(orders, resting)
  /\ IsExact
  /\ IsCounted

-----------------------------------------------------------------------------
(* Whatever the next step, it replays an event that was drawn.             *)
LEMMA NextReplays ==
  ASSUME RInv, ReplayNext
  PROVE  \E e : Replayed(e) /\ Drawn(e)
<1>1. \A x \in DOMAIN resting : resting[x].remaining \in Nat
  BY DEF RInv, IsStream, HasRecords
<1>2. CASE \E side \in Side, price \in Prices, size \in Sizes : Submit(side, price, size)
  <2>1. PICK side \in Side, price \in Prices, size \in Sizes : Submit(side, price, size)
    BY <1>2
  <2> DEFINE e == Event(1, adds + 1, size, price, Direction(side))
  <2>2. Replayed(e) /\ Submits(e)
    BY <2>1 DEF Submit, Event, Submits
  <2> QED  BY <2>2 DEF Drawn
<1>3. CASE \E x \in DOMAIN resting : Execute(x)
  <2>1. PICK x \in DOMAIN resting : Execute(x)
    BY <1>3
  <2>2. PICK cut \in 1 .. resting[x].remaining : Replayed(EventOn(4, x, cut))
    BY <2>1 DEF Execute
  <2>3. Affects(EventOn(4, x, cut))
    BY <1>1 DEF Affects, EventOn, Event
  <2> QED  BY <2>2, <2>3 DEF Drawn
<1>4. CASE \E x \in DOMAIN resting : Delete(x)
  <2>1. PICK x \in DOMAIN resting : Replayed(EventOn(3, x, resting[x].remaining))
    BY <1>4 DEF Delete
  <2>2. Affects(EventOn(3, x, resting[x].remaining))
    BY <1>1 DEF Affects, EventOn, Event
  <2> QED  BY <2>1, <2>2 DEF Drawn
<1>5. CASE source = "lobster" /\ \E x \in DOMAIN resting : CancelPart(x)
  <2>1. PICK x \in DOMAIN resting : CancelPart(x)
    BY <1>5
  <2>2. PICK cut \in 1 .. resting[x].remaining - 1 : Replayed(EventOn(2, x, cut))
    BY <2>1 DEF CancelPart
  <2>3. Affects(EventOn(2, x, cut))
    BY <1>1, <1>5 DEF Affects, EventOn, Event
  <2> QED  BY <2>2, <2>3 DEF Drawn
<1>6. CASE source = "lobster" /\ \E x \in before : BeforeWindow(x)
  <2>1. PICK x \in before, type \in {2, 3, 4}, size \in Sizes, price \in Prices,
             direction \in {1, -1} : Replayed(Event(type, x, size, price, direction))
    BY <1>6 DEF BeforeWindow
  <2>2. Predates(Event(type, x, size, price, direction))
    BY <1>6 DEF Predates, Event
  <2> QED  BY <2>1, <2>2 DEF Drawn
<1>7. CASE source = "lobster" /\ Hidden
  <2>1. PICK type \in {5, 7}, x \in DOMAIN resting, size \in Sizes :
          Replayed(EventOn(type, x, size))
    BY <1>7 DEF Hidden
  <2>2. Invisible(EventOn(type, x, size))
    BY <1>7 DEF Invisible, EventOn, Event
  <2> QED  BY <2>1, <2>2 DEF Drawn
<1>8. CASE source = "lobster" /\ \E x \in DOMAIN resting : CutShort(x)
  <2>1. PICK x \in DOMAIN resting, type \in {2, 4} : Replayed(EventOn(type, x, 0))
    BY <1>8 DEF CutShort
  <2>2. Affects(EventOn(type, x, 0))
    BY <1>8 DEF Affects, EventOn, Event
  <2> QED  BY <2>1, <2>2 DEF Drawn
<1> QED
  BY <1>2, <1>3, <1>4, <1>5, <1>6, <1>7, <1>8 DEF ReplayNext, Synthetic, Lobster

(* The ids of drawn events are ids, and their sizes are sizes.             *)
LEMMA DrawnIsCall ==
  ASSUME RInv, NEW e, Drawn(e)
  PROVE  /\ e.type \in {1, 2, 3, 4, 5, 7}
         /\ e.type \in 1 .. 4 => e.id \in Ids /\ e.size \in Nat
         /\ e.type = 1 => Submits(e) /\ e.id \in 1 .. MaxAdds
         /\ e.type \in 2 .. 4 /\ e.id \notin DOMAIN resting => e.id \in before
         /\ source = "synthetic" =>
              e.type \in {1, 4} \/ (e.type = 3 /\ e.id \in DOMAIN resting)
<1>2. CASE Submits(e)
  <2>1. e.id \in 1 .. MaxAdds /\ e.type = 1 /\ e.size \in Sizes
    BY <1>2, AddsAssumption DEF RInv, IsStream, Submits
  <2>2. e.id \in Ids /\ e.size \in Nat
    BY <2>1, IdsAssumption, SizesAssumption
  <2> QED  BY <1>2, <2>1, <2>2
<1>3. CASE Affects(e)
  BY <1>3, IdsAssumption DEF RInv, IsStream, Affects
<1>4. CASE Predates(e)
  <2>1. /\ e.id \in before /\ e.id \in PreWindow /\ e.size \in Sizes
        /\ e.type \in {2, 3, 4} /\ source # "synthetic"
    BY <1>4 DEF RInv, IsStream, Predates
  <2>2. e.id \in Ids /\ e.size \in Nat
    BY <2>1, IdsAssumption, SizesAssumption
  <2> QED  BY <2>1, <2>2
<1>5. CASE Invisible(e)
  BY <1>5 DEF Invisible
<1> QED  BY <1>2, <1>3, <1>4, <1>5 DEF Drawn

(* What an event does to the warm up book, and to the orders that rest.    *)
LEMMA ReplayedIs ==
  ASSUME NEW e, Replayed(e)
  PROVE  /\ e.type = 1 => /\ Add(e.id, SideOf(e), e.price, e.size)
                          /\ resting' = With(resting, e.id, Order(SideOf(e), e.price, e.size))
         /\ e.type = 3 => /\ Cancel(e.id)
                          /\ resting' = Without(resting, e.id)
         /\ e.type \in {2, 4} =>
              /\ Reduce(e.id, e.size)
              /\ resting' = IF e.id \in DOMAIN resting
                              THEN Reduced(resting, e.id, e.size) ELSE resting
         /\ e.type \in {5, 7} => UNCHANGED bookVars /\ resting' = resting
         /\ before' \subseteq before /\ source' = source
BY DEF Replayed, Apply, Outcome, SideOf

-----------------------------------------------------------------------------
(***************************************************************************)
(* The warm up book keeps the invariant of the map book.                   *)
(***************************************************************************)
LEMMA BookKeeps ==
  ASSUME RInv, NEW e, Replayed(e), Drawn(e)
  PROVE  IInv'
<1>1. CASE e.type = 1
  <2>1. Submits(e) /\ e.id \in Ids /\ SideOf(e) \in Side
    BY <1>1, DrawnIsCall DEF SideOf, Side
  <2> QED  BY <1>1, <2>1, AddKeeps, ReplayedIs DEF RInv, Submits
<1>2. CASE e.type = 3
  BY <1>2, CancelKeeps, ReplayedIs, DrawnIsCall DEF RInv
<1>3. CASE e.type \in {2, 4}
  BY <1>3, ReduceKeeps, ReplayedIs, DrawnIsCall DEF RInv
<1>4. CASE e.type \in {5, 7}
  BY <1>4, ReplayedIs DEF RInv, IInv, bookVars, vars, Levels
<1> QED  BY <1>1, <1>2, <1>3, <1>4, DrawnIsCall

(***************************************************************************)
(* What reduce leaves, order by order.                                     *)
(***************************************************************************)
IsReduced(next, book, x, delta) ==
  /\ DOMAIN next = IF delta < book[x].remaining THEN DOMAIN book ELSE DOMAIN book \ {x}
  /\ \A y \in DOMAIN next : y # x => next[y] = book[y]
  /\ delta < book[x].remaining =>
       next[x] = [book[x] EXCEPT !.remaining = book[x].remaining - delta]

(* That is, the size of the event comes off the order or all of it goes.   *)
LEMMA ReducedAt ==
  ASSUME NEW book, HasRecords(book, Prices), NEW x \in DOMAIN book, NEW delta \in Nat
  PROVE  IsReduced(Reduced(book, x, delta), book, x, delta)
<1>1. book[x].remaining \in Nat
  BY DEF HasRecords
<1> QED  BY <1>1 DEF IsReduced, Reduced, Applied, With, Without, Restrict

(* An event keeps the orders of the stream well formed. *)
LEMMA StreamKeeps ==
  ASSUME RInv, NEW e, Replayed(e), Drawn(e)
  PROVE  IsStream'
<1>1. adds' \in Nat
  BY DEF RInv, IsStream, Replayed, Analyse
<1>2. before' \subseteq PreWindow
  BY ReplayedIs DEF RInv, IsStream
<1>3. CASE e.type = 1
  <2>1. Submits(e) /\ e.id \in Ids /\ e.id \in 1 .. MaxAdds /\ SideOf(e) \in Side
    BY <1>3, DrawnIsCall DEF SideOf, Side
  <2>2. resting' = With(resting, e.id, Order(SideOf(e), e.price, e.size))
    BY <1>3, ReplayedIs
  <2>3. HasRecords(resting', Prices)
    BY <2>1, <2>2, RecordsStay, SizesAssumption DEF RInv, IsStream, Submits
  <2>4. DOMAIN resting' = DOMAIN resting \cup {e.id} /\ IsFunction(resting')
    BY <2>2 DEF With, IsFunction
  <2> QED  BY <1>1, <1>2, <2>1, <2>3, <2>4, FS_AddElement DEF RInv, IsStream
<1>4. CASE e.type = 3
  <2>1. resting' = Without(resting, e.id)
    BY <1>4, ReplayedIs
  <2>2. HasRecords(resting', Prices)
    BY <2>1, RecordsStay DEF RInv, IsStream
  <2>3. DOMAIN resting' = DOMAIN resting \ {e.id} /\ IsFunction(resting')
    BY <2>1 DEF Without, Restrict, IsFunction
  <2> QED  BY <1>1, <1>2, <2>2, <2>3, FS_Subset DEF RInv, IsStream
<1>5. CASE e.type \in {2, 4} /\ e.id \in DOMAIN resting
  <2>1. resting' = Reduced(resting, e.id, e.size) /\ e.size \in Nat
    BY <1>5, ReplayedIs, DrawnIsCall
  <2>2. HasRecords(resting', Prices)
    BY <1>5, <2>1, RecordsStay DEF RInv, IsStream
  <2>3. DOMAIN resting' \subseteq DOMAIN resting
    <3>1. IsReduced(resting', resting, e.id, e.size)
      BY <1>5, <2>1, ReducedAt DEF RInv, IsStream
    <3> QED  BY <3>1 DEF IsReduced
  <2>4. IsFunction(resting')
    BY <2>1 DEF Reduced, With, Without, Restrict, IsFunction
  <2> QED  BY <1>1, <1>2, <2>2, <2>3, <2>4, FS_Subset DEF RInv, IsStream
<1>6. CASE e.type \in {5, 7} \/ (e.type \in {2, 4} /\ e.id \notin DOMAIN resting)
  <2>1. resting' = resting
    BY <1>6, ReplayedIs
  <2> QED  BY <1>1, <1>2, <2>1 DEF RInv, IsStream
<1> QED  BY <1>3, <1>4, <1>5, <1>6, DrawnIsCall

(***************************************************************************)
(* The index holds every order of the stream: what it loses, it holds too  *)
(* much of.                                                                *)
(***************************************************************************)
LEMMA CoverKeeps ==
  ASSUME RInv, NEW e, Replayed(e), Drawn(e)
  PROVE  Covers(orders, resting)'
<1>1. HasRecords(orders, Prices) /\ HasRecords(resting, Prices) /\ Covers(orders, resting)
  BY DEF RInv, IInv, IsStream
<1>2. CASE e.type = 1
  <2>1. /\ orders' = With(orders, e.id, Order(SideOf(e), e.price, e.size))
        /\ resting' = With(resting, e.id, Order(SideOf(e), e.price, e.size))
        /\ e.size \in Nat
    BY <1>2, ReplayedIs, DrawnIsCall DEF Add
  <2> QED  BY <1>1, <2>1 DEF Covers, With, Order
<1>3. CASE e.type = 3
  <2>1. /\ resting' = Without(resting, e.id)
        /\ orders' = orders \/ orders' = Without(orders, e.id)
    BY <1>3, ReplayedIs DEF Cancel, Unknown, vars
  <2> QED  BY <1>1, <2>1 DEF Covers, Without, Restrict
<1>4. CASE e.type \in {2, 4}
  <2>1. /\ resting' = IF e.id \in DOMAIN resting
                        THEN Reduced(resting, e.id, e.size) ELSE resting
        /\ orders' = orders \/ orders' = Reduced(orders, e.id, e.size)
        /\ orders' # orders => e.id \in DOMAIN orders
        /\ e.size \in Nat
    <3>1. FindIn(slots, e.id) => e.id \in DOMAIN orders
      BY <1>4, IndexFinds, DrawnIsCall DEF RInv, IInv
    <3> QED  BY <1>4, <3>1, ReplayedIs, DrawnIsCall DEF Reduce, Unknown, vars
  <2>2. CASE orders' = orders /\ e.id \in DOMAIN resting
    <3>1. IsReduced(resting', resting, e.id, e.size)
      BY <1>1, <2>1, <2>2, ReducedAt
    <3> QED  BY <1>1, <2>1, <2>2, <3>1 DEF IsReduced, Covers, HasRecords
  <2>3. CASE orders' = orders /\ e.id \notin DOMAIN resting
    BY <1>1, <2>1, <2>3 DEF Covers
  <2>4. CASE orders' # orders
    <3>1. e.id \in DOMAIN orders /\ IsReduced(orders', orders, e.id, e.size)
      BY <1>1, <2>1, <2>4, ReducedAt
    <3>2. CASE e.id \notin DOMAIN resting
      BY <1>1, <2>1, <3>1, <3>2 DEF IsReduced, Covers
    <3>3. CASE e.id \in DOMAIN resting
      <4>1. IsReduced(resting', resting, e.id, e.size)
        BY <1>1, <2>1, <3>3, ReducedAt
      <4> QED  BY <1>1, <2>1, <3>1, <3>3, <4>1 DEF IsReduced, Covers, HasRecords
    <3> QED  BY <3>2, <3>3
  <2> QED  BY <2>2, <2>3, <2>4
<1>5. CASE e.type \in {5, 7}
  BY <1>1, <1>5, ReplayedIs DEF bookVars, vars, Covers
<1> QED  BY <1>2, <1>3, <1>4, <1>5, DrawnIsCall

(***************************************************************************)
(* Until the index misses an order, its records are the stream's.          *)
(***************************************************************************)
LEMMA ExactKeeps ==
  ASSUME RInv, NEW e, Replayed(e), Drawn(e)
  PROVE  IsExact'
<1> SUFFICES ASSUME ~missed' PROVE orders' = resting'
  BY DEF IsExact
<1>1. /\ ~missed
      /\ e.type \in {2, 3, 4} /\ e.id \in DOMAIN resting => FindIn(slots, e.id)
  BY DEF Replayed, Outcome
<1>2. orders = resting
  BY <1>1 DEF RInv, IsExact
<1>3. e.type \in {2, 3, 4} => (FindIn(slots, e.id) <=> e.id \in DOMAIN resting)
  BY <1>1, <1>2, IndexFinds, DrawnIsCall DEF RInv, IInv
<1>4. CASE e.type = 1
  BY <1>2, <1>4, ReplayedIs DEF Add
<1>5. CASE e.type = 3
  <2>1. CASE e.id \in DOMAIN resting
    BY <1>2, <1>3, <1>5, <2>1, ReplayedIs DEF Cancel, Unknown
  <2>2. CASE e.id \notin DOMAIN resting
    <3>1. resting' = Without(resting, e.id) /\ orders' = orders
      BY <1>3, <1>5, <2>2, ReplayedIs DEF Cancel, Unknown, vars
    <3>2. Without(resting, e.id) = [x \in DOMAIN resting |-> resting[x]]
      BY <2>2 DEF Without, Restrict
    <3> QED  BY <1>2, <3>1, <3>2 DEF RInv, IsStream, IsFunction
  <2> QED  BY <2>1, <2>2
<1>6. CASE e.type \in {2, 4}
  BY <1>2, <1>3, <1>6, ReplayedIs DEF Reduce, Unknown, vars
<1>7. CASE e.type \in {5, 7}
  BY <1>2, <1>7, ReplayedIs DEF bookVars, vars
<1> QED  BY <1>4, <1>5, <1>6, <1>7, DrawnIsCall

(***************************************************************************)
(* A synthetic stream is counted at no less than what rests.               *)
(***************************************************************************)
LEMMA CountKeeps ==
  ASSUME RInv, NEW e, Replayed(e), Drawn(e)
  PROVE  IsCounted'
<1> SUFFICES ASSUME source = "synthetic"
             PROVE  /\ live' \in Int /\ peak' \in Int
                    /\ Cardinality(DOMAIN resting') <= live' /\ live' <= peak'
  BY ReplayedIs DEF IsCounted
<1>1. /\ IsFiniteSet(DOMAIN resting) /\ Cardinality(DOMAIN resting) \in Nat
      /\ live \in Int /\ peak \in Int
      /\ Cardinality(DOMAIN resting) <= live /\ live <= peak
  BY FS_CardinalityType DEF RInv, IsStream, IsCounted
<1>2. /\ live' = CASE e.type = 1 -> live + 1 [] e.type = 3 -> live - 1 [] OTHER -> live
      /\ peak' = IF live' > peak THEN live' ELSE peak
  BY DEF Replayed, Analyse
<1>3. CASE e.type = 1
  <2>1. DOMAIN resting' = DOMAIN resting \cup {e.id}
    BY <1>3, ReplayedIs DEF With
  <2>2. Cardinality(DOMAIN resting') <= Cardinality(DOMAIN resting) + 1
    BY <1>1, <2>1, FS_AddElement
  <2>3. Cardinality(DOMAIN resting') \in Nat
    BY <1>1, <2>1, FS_AddElement, FS_CardinalityType
  <2> QED  BY <1>1, <1>2, <1>3, <2>2, <2>3
<1>4. CASE e.type = 3
  <2>1. e.id \in DOMAIN resting /\ DOMAIN resting' = DOMAIN resting \ {e.id}
    <3>1. e.id \in DOMAIN resting
      BY <1>4, DrawnIsCall
    <3>2. resting' = Without(resting, e.id)
      BY <1>4, ReplayedIs
    <3> QED  BY <3>1, <3>2 DEF Without, Restrict
  <2>2. Cardinality(DOMAIN resting') = Cardinality(DOMAIN resting) - 1
    BY <1>1, <2>1, FS_RemoveElement
  <2> QED  BY <1>1, <1>2, <1>4, <2>2
<1>5. CASE e.type = 4
  <2>1. DOMAIN resting' \subseteq DOMAIN resting
    <3>1. e.id \in DOMAIN resting => IsReduced(resting', resting, e.id, e.size)
      BY <1>5, ReplayedIs, DrawnIsCall, ReducedAt DEF RInv, IsStream
    <3> QED  BY <1>5, <3>1, ReplayedIs DEF IsReduced
  <2>2. Cardinality(DOMAIN resting') \in Nat /\
        Cardinality(DOMAIN resting') <= Cardinality(DOMAIN resting)
    BY <1>1, <2>1, FS_Subset, FS_CardinalityType
  <2> QED  BY <1>1, <1>2, <1>5, <2>2
<1> QED  BY <1>3, <1>4, <1>5, DrawnIsCall

-----------------------------------------------------------------------------
(* At first nothing rests and nothing is held. *)
LEMMA InitRInv == ReplayInit => RInv
<1> SUFFICES ASSUME ReplayInit PROVE RInv
  OBVIOUS
<1>1. IInv
  BY InitIInv DEF ReplayInit
<1>2. DOMAIN resting = {} /\ orders = resting /\ ~missed /\ adds = 0
  BY DEF ReplayInit, Init
<1>3. IsStream
  <2>1. IsFunction(resting)
    BY DEF ReplayInit, IsFunction
  <2> QED  BY <1>2, <2>1, FS_EmptySet DEF IsStream, HasRecords, ReplayInit
<1>4. IsCounted
  BY <1>2, FS_EmptySet DEF IsCounted, ReplayInit
<1> QED  BY <1>1, <1>2, <1>3, <1>4 DEF RInv, IsExact, Covers

(* Every step keeps the invariant. *)
LEMMA NextRInv == RInv /\ [ReplayNext]_replayVars => RInv'
<1> SUFFICES ASSUME RInv, [ReplayNext]_replayVars PROVE RInv'
  OBVIOUS
<1>1. CASE ReplayNext
  <2>1. PICK e : Replayed(e) /\ Drawn(e)
    BY <1>1, NextReplays
  <2> QED  BY <2>1, BookKeeps, StreamKeeps, CoverKeeps, ExactKeeps, CountKeeps DEF RInv
<1>2. CASE UNCHANGED replayVars
  BY <1>2 DEF replayVars, bookVars, vars, RInv, IInv, Levels, IsStream, IsExact, IsCounted
<1> QED  BY <1>1, <1>2

(* It holds in every state of every replay. *)
THEOREM AlwaysRInv == ReplaySpec => []RInv
BY InitRInv, NextRInv, PTL DEF ReplaySpec
(* The book is the one the stream describes for as long as the index finds *)
(* the orders the events name (replay.hpp:49-69).                          *)
THEOREM ReplayIsExact == ReplaySpec => []ExactUntilMissed
<1>1. RInv => ExactUntilMissed
  BY IInvImplies DEF RInv, IsExact, ExactUntilMissed, LevelsAreSums
<1> QED  BY <1>1, AlwaysRInv, PTL

(* A synthetic stream's estimate bounds the orders that rest at once       *)
(* (replay.hpp:71-91, 206-214).                                            *)
THEOREM HintBoundsSynthetic == ReplaySpec => []SyntheticPeak
<1>1. RInv => SyntheticPeak
  <2>1. RInv => Cardinality(DOMAIN resting) \in Nat
    BY FS_CardinalityType DEF RInv, IsStream
  <2> QED  BY <2>1 DEF RInv, IsCounted, SyntheticPeak, PeakIsUpperBound
<1> QED  BY <1>1, AlwaysRInv, PTL

-----------------------------------------------------------------------------
(***************************************************************************)
(* Holding too much is seen at no price as too little.                     *)
(***************************************************************************)
LEMMA RestingGrows ==
  ASSUME NEW book, NEW other, HasRecords(book, Prices), HasRecords(other, Prices),
         IsFiniteSet(DOMAIN book), IsFiniteSet(DOMAIN other), Covers(other, book),
         NEW side, NEW price
  PROVE  Resting(book, side, price) <= Resting(other, side, price)
<1> DEFINE S == RestingAt(book, side, price)
           T == RestingAt(other, side, price)
<1>1. /\ S \subseteq T /\ S \subseteq DOMAIN book /\ T \subseteq DOMAIN other
      /\ \A x \in S : book[x].remaining <= other[x].remaining
  BY DEF Covers, RestingAt, HasRecords
<1>2. /\ IsFiniteSet(S) /\ IsFiniteSet(T)
      /\ HasRemaining(book, S) /\ HasRemaining(other, S) /\ HasRemaining(other, T)
  BY <1>1, FS_Subset DEF HasRecords, HasRemaining
<1>3. /\ Resting(book, side, price) = SumOver(book, S)
      /\ Resting(other, side, price) = SumOver(other, T)
  BY RestingIsSum
<1> HIDE DEF S, T
<1>4. SumOver(book, S) <= SumOver(other, S) /\ SumOver(other, S) <= SumOver(other, T)
  BY <1>1, <1>2, SumOrder, SumOfPart
<1>5. SumOver(book, S) \in Nat /\ SumOver(other, S) \in Nat /\ SumOver(other, T) \in Nat
  BY <1>2, SumIsNat
<1> QED  BY <1>3, <1>4, <1>5

(* Finitely many prices have a best one. *)
LEMMA HasBest ==
  ASSUME NEW S, IsFiniteSet(S), S \subseteq Int, S # {}, NEW side
  PROVE  \E p \in S : \A q \in S : ~Better(side, q, p)
<1> DEFINE F == {T \in SUBSET S : T # {} => \E p \in T : \A q \in T : ~Better(side, q, p)}
<1>1. ASSUME NEW T \in SUBSET S, \A U \in SUBSET T : U # T => U \in F
      PROVE  T \in F
  <2> SUFFICES ASSUME T # {} PROVE \E p \in T : \A q \in T : ~Better(side, q, p)
    OBVIOUS
  <2>1. PICK x \in T : TRUE
    OBVIOUS
  <2>2. T \ {x} \in F
    <3> HIDE DEF F
    <3> QED  BY <1>1, <2>1
  <2>3. CASE T = {x}
    BY <2>1, <2>3 DEF Better
  <2>4. CASE T # {x}
    <3>1. PICK p \in T \ {x} : \A q \in T \ {x} : ~Better(side, q, p)
      BY <2>1, <2>2, <2>4
    <3>2. p \in Int /\ x \in Int /\ \A q \in T : q \in Int
      BY <2>1, <3>1
    <3>3. CASE Better(side, x, p)
      BY <2>1, <3>1, <3>2, <3>3 DEF Better
    <3>4. CASE ~Better(side, x, p)
      BY <3>1, <3>4
    <3> QED  BY <3>3, <3>4
  <2> QED  BY <2>3, <2>4
<1>2. S \in F
  <2> HIDE DEF F
  <2> QED  BY <1>1, SubsetInduction
<1> QED  BY <1>2

(* The best level shown is at least as good as any level.                  *)
LEMMA NthIsBest ==
  ASSUME IInv, NEW side \in Side, NEW p \in DOMAIN Levels(side)
  PROVE  ~Better(side, p, Nth(side, 0).price)
<1> DEFINE L == DOMAIN Levels(side)
           Ahead(q) == {r \in L : Better(side, r, q)}
<1>1. L \subseteq Prices /\ \A q \in L : RestingAt(orders, side, q) # {}
  BY DEF IInv, AreSums
<1>2. IsFiniteSet(L)
  <2> DEFINE priceOf == [x \in DOMAIN orders |-> orders[x].price]
             priced  == {priceOf[x] : x \in DOMAIN orders}
  <2>1. priceOf \in Surjection(DOMAIN orders, priced)
    BY DEF Surjection
  <2>2. IsFiniteSet(priced)
    <3> HIDE DEF priceOf, priced
    <3> QED  BY <2>1, IndexIsFinite, FS_Surjection DEF IInv
  <2>3. L \subseteq priced
    BY <1>1 DEF RestingAt
  <2> QED  BY <2>2, <2>3, FS_Subset
<1>3. \A q \in L : RankOf(side, q) = Cardinality(Ahead(q)) /\ IsFiniteSet(Ahead(q))
  BY <1>2, FS_Subset DEF RankOf
<1>4. \E q \in L : RankOf(side, q) = 0
  <2>1. PICK q \in L : \A r \in L : ~Better(side, r, q)
    BY <1>1, <1>2, HasBest, PricesAssumption
  <2>2. Ahead(q) = {}
    BY <2>1
  <2> QED  BY <1>3, <2>1, <2>2, FS_EmptySet
<1>5. ~(0 >= Cardinality(L))
  BY <1>2, FS_EmptySet, FS_CardinalityType
<1> DEFINE best == CHOOSE q \in L : RankOf(side, q) = 0
<1>6. best \in L /\ RankOf(side, best) = 0
  BY <1>4
<1>7. Nth(side, 0).price = best
  BY <1>5 DEF Nth, Level
<1> HIDE DEF best
<1>8. Ahead(best) = {}
  BY <1>3, <1>6, FS_EmptySet
<1> QED  BY <1>7, <1>8

(* Whatever the index misses, the book never shows less than what rests,   *)
(* in total or at its best prices.                                         *)
THEOREM ShowsNoLess == ReplaySpec => []NeverUnderstates
<1>1. RInv => NeverUnderstates
  <2> SUFFICES ASSUME RInv PROVE NeverUnderstates
    OBVIOUS
  <2>1. /\ LevelsAreSums /\ Covers(orders, resting)
        /\ HasRecords(orders, Prices) /\ HasRecords(resting, Prices)
        /\ IsFiniteSet(DOMAIN orders) /\ IsFiniteSet(DOMAIN resting)
    BY IInvImplies, IndexIsFinite DEF RInv, IInv, IsStream
  <2>2. ASSUME NEW side \in Side, NEW price \in Prices
        PROVE  QuantityAt(side, price) >= Resting(resting, side, price)
    <3>1. QuantityAt(side, price) = Resting(orders, side, price)
      BY <2>1 DEF LevelsAreSums
    <3>2. Resting(resting, side, price) <= Resting(orders, side, price)
      BY <2>1, RestingGrows
    <3>3. Resting(resting, side, price) \in Nat /\ Resting(orders, side, price) \in Nat
      BY <2>1, RestingIsNat
    <3> QED  BY <3>1, <3>2, <3>3
  <2>3. ASSUME NEW x \in DOMAIN resting, resting[x].remaining > 0
        PROVE  ~Better(resting[x].side, resting[x].price, Nth(resting[x].side, 0).price)
    <3>1. resting[x].side \in Side /\ resting[x].price \in Prices
      BY <2>1 DEF HasRecords
    <3>2. x \in RestingAt(orders, resting[x].side, resting[x].price)
      BY <2>1 DEF Covers, RestingAt
    <3>3. resting[x].price \in DOMAIN Levels(resting[x].side)
      <4>1. /\ orders[x].remaining <= Resting(orders, resting[x].side, resting[x].price)
            /\ Resting(orders, resting[x].side, resting[x].price) \in Nat
        BY <2>1, <3>2, RestingIsNat
      <4>2. orders[x].remaining > 0
        BY <2>1, <2>3 DEF Covers, HasRecords
      <4>3. QuantityAt(resting[x].side, resting[x].price) # 0
        BY <2>1, <3>1, <4>1, <4>2 DEF LevelsAreSums, Covers, HasRecords
      <4> QED  BY <4>3 DEF QuantityAt, LevelQuantity
    <3> QED  BY <3>1, <3>3, NthIsBest DEF RInv
  <2> QED  BY <2>1, <2>2, <2>3 DEF NeverUnderstates, Covers
<1> QED  BY <1>1, AlwaysRInv, PTL

-----------------------------------------------------------------------------
(***************************************************************************)
(* The measured book makes the same calls of the same index.               *)
(***************************************************************************)
LEMMA SameIndexCalls ==
  ASSUME NEW table, NEW x
  PROVE  /\ Timed!InsertIn(table, x) = InsertIn(table, x)
         /\ Timed!FindIn(table, x) <=> FindIn(table, x)
         /\ Timed!EraseIn(table, x) = EraseIn(table, x)
<1>1. ASSUME NEW stops PROVE Timed!FirstSlot(table, x, stops) = FirstSlot(table, x, stops)
  BY DEF Timed!FirstSlot, FirstSlot, Timed!Path, Path, Timed!Slot, Slot
<1>2. Timed!InsertIn(table, x) = InsertIn(table, x)
  BY <1>1 DEF Timed!InsertIn, InsertIn
<1>3. Timed!FindIn(table, x) <=> FindIn(table, x)
  BY <1>1 DEF Timed!FindIn, FindIn
<1>4. \A first : Timed!RunLength(table, first) = RunLength(table, first)
  BY DEF Timed!RunLength, RunLength, Timed!After, After
<1>5. ASSUME NEW first PROVE Timed!Turns(table, first) = Turns(table, first)
  BY DEF Timed!Turns, Turns, Timed!Turned, Turned, Timed!After, After, Timed!InRange, InRange,
         Timed!RunLength, RunLength
<1>6. ASSUME NEW first PROVE Timed!Shifted(table, first) = Shifted(table, first)
  BY <1>4, <1>5 DEF Timed!Shifted, Shifted
<1>7. Timed!EraseIn(table, x) = EraseIn(table, x)
  BY <1>1, <1>3, <1>6 DEF Timed!EraseIn, EraseIn
<1> QED  BY <1>2, <1>3, <1>7

(* It keeps its levels by the same arithmetic. *)
LEMMA SameLevels ==
  ASSUME NEW levels, NEW price, NEW amount
  PROVE  /\ Timed!AddLevel(levels, price, amount) = AddLevel(levels, price, amount)
         /\ Timed!SubLevel(levels, price, amount) = SubLevel(levels, price, amount)
BY DEF Timed!AddLevel, AddLevel, Timed!SubLevel, SubLevel, Timed!LevelQuantity, LevelQuantity,
       Timed!With, With, Timed!Without, Without, Timed!Restrict, Restrict

(* And its records. *)
LEMMA SameRecords ==
  ASSUME NEW book, NEW x, NEW delta, NEW record
  PROVE  /\ Timed!With(book, x, record) = With(book, x, record)
         /\ Timed!Without(book, x) = Without(book, x)
         /\ Timed!Reduced(book, x, delta) = Reduced(book, x, delta)
         /\ Timed!Applied(book[x], delta) = Applied(book[x], delta)
BY DEF Timed!Reduced, Reduced, Timed!Applied, Applied, Timed!With, With, Timed!Without,
       Without, Timed!Restrict, Restrict

(* Two equal books are equal after the same call. *)
LEMMA SameCalls ==
  ASSUME MeasuredIsWarm, NEW e, Apply(e), Measure(e)
  PROVE  MeasuredIsWarm'
<1>1. timedBids = bids /\ timedAsks = asks /\ timedSlots = slots /\ timedOrders = orders
  BY DEF MeasuredIsWarm, timedVars, bookVars, vars
<1>2. ASSUME NEW side, NEW price, NEW amount, LevelSub(side, price, amount),
             Timed!LevelSub(side, price, amount)
      PROVE  timedBids' = bids' /\ timedAsks' = asks'
  BY <1>1, <1>2, SameLevels
  DEF LevelSub, Timed!LevelSub, SetLevels, Timed!SetLevels, Levels, Timed!Levels
<1>3. CASE e.type = 1
  <2>1. /\ Add(e.id, SideOf(e), e.price, e.size)
        /\ Timed!Add(e.id, SideOf(e), e.price, e.size)
    BY <1>3 DEF Apply, Measure, SideOf
  <2>2. timedSlots' = slots' /\ timedOrders' = orders'
    BY <1>1, <2>1, SameIndexCalls, SameRecords DEF Add, Timed!Add, Order, Timed!Order
  <2>3. timedBids' = bids' /\ timedAsks' = asks'
    BY <1>1, <2>1, SameLevels
    DEF Add, Timed!Add, SetLevels, Timed!SetLevels, Levels, Timed!Levels
  <2> QED  BY <2>2, <2>3 DEF MeasuredIsWarm, timedVars, bookVars, vars
<1>4. CASE e.type = 3
  <2>1. Cancel(e.id) /\ Timed!Cancel(e.id)
    BY <1>4 DEF Apply, Measure
  <2>2. CASE FindIn(slots, e.id)
    BY <1>1, <1>2, <2>1, <2>2, SameIndexCalls, SameRecords
    DEF Cancel, Timed!Cancel, Unknown, Timed!Unknown, MeasuredIsWarm, timedVars, bookVars, vars
  <2>3. CASE ~FindIn(slots, e.id)
    BY <1>1, <2>1, <2>3, SameIndexCalls
    DEF Cancel, Timed!Cancel, Unknown, Timed!Unknown, Timed!vars, MeasuredIsWarm, timedVars,
        bookVars, vars
  <2> QED  BY <2>2, <2>3
<1>5. CASE e.type \in {2, 4}
  <2>1. Reduce(e.id, e.size) /\ Timed!Reduce(e.id, e.size)
    BY <1>5 DEF Apply, Measure
  <2>2. CASE FindIn(slots, e.id)
    BY <1>1, <1>2, <2>1, <2>2, SameIndexCalls, SameRecords
    DEF Reduce, Timed!Reduce, Unknown, Timed!Unknown, MeasuredIsWarm, timedVars, bookVars, vars
  <2>3. CASE ~FindIn(slots, e.id)
    BY <1>1, <2>1, <2>3, SameIndexCalls
    DEF Reduce, Timed!Reduce, Unknown, Timed!Unknown, Timed!vars, MeasuredIsWarm, timedVars,
        bookVars, vars
  <2> QED  BY <2>2, <2>3
<1>6. CASE e.type \notin {1, 2, 3, 4}
  BY <1>6 DEF Apply, Measure, MeasuredIsWarm, timedVars, bookVars, vars
<1> QED  BY <1>3, <1>4, <1>5, <1>6

(* The measured book is the warm up book, slot for slot and event after    *)
(* event (replay.hpp:46-48, benchmark_main.cpp:126-152).                   *)
THEOREM BooksStaySame == ReplaySpec => []MeasuredIsWarm
<1>1. ReplayInit => MeasuredIsWarm
  BY DEF ReplayInit, Init, Timed!Init, Slot, Timed!Slot, MeasuredIsWarm, timedVars, bookVars,
         vars
<1>2. MeasuredIsWarm /\ RInv /\ [ReplayNext]_replayVars => MeasuredIsWarm'
  <2> SUFFICES ASSUME MeasuredIsWarm, RInv, [ReplayNext]_replayVars PROVE MeasuredIsWarm'
    OBVIOUS
  <2>1. CASE ReplayNext
    <3>1. PICK e : Replayed(e)
      BY <2>1, NextReplays
    <3> QED  BY <3>1, SameCalls DEF Replayed
  <2>2. CASE UNCHANGED replayVars
    BY <2>2 DEF replayVars, MeasuredIsWarm, timedVars, bookVars, vars
  <2> QED  BY <2>1, <2>2
<1> QED  BY <1>1, <1>2, AlwaysRInv, PTL DEF ReplaySpec
=============================================================================
