------------------------------ MODULE BookMap -------------------------------
(***************************************************************************)
(* BookMap of include/obls/book_map.hpp, the reference variant: two maps   *)
(* from price to aggregate quantity, and the order index.  One action per  *)
(* member function; one thread drives the book.                            *)
(*                                                                         *)
(* The index is its slots and, for each id it stores, the record that      *)
(* travels with the id; the calls on it are those of OrderIndexCalls.      *)
(***************************************************************************)
EXTENDS OrderIndexCalls, Orders

CONSTANTS
  Prices,   (* Prices of limit orders.                                     *)
  Sizes,    (* Quantities of the event stream; a row cut short says zero.  *)
  NoPrice,  (* kInvalidPrice.                                              *)
  MaxHeld   (* Most orders the index is given to hold.                     *)

ASSUME SizesAssumption  == Sizes \subseteq Nat
ASSUME PricesAssumption == Prices \subseteq Int
ASSUME HeldAssumption   == MaxHeld \in Nat /\ MaxHeld < Cap

VARIABLES
  bids,     (* bids_: quantity by price.                                   *)
  asks,     (* asks_.                                                      *)
  slots,    (* The ids in the slots of index_.                             *)
  orders    (* The records of index_, by id.                               *)

vars == <<bids, asks, slots, orders>>

Levels(side) == IF side = "buy" THEN bids ELSE asks

(* An absent level holds nothing. *)
LevelQuantity(levels, price) ==
  IF price \in DOMAIN levels THEN levels[price] ELSE 0

Init ==
  /\ bids = << >> /\ asks = << >>
  /\ slots = [k \in Slot |-> kEmpty]
  /\ orders = << >>

-----------------------------------------------------------------------------
(***************************************************************************)
(* The levels of one side after a quantity is added to, or taken off, the  *)
(* level at price.  A level left with nothing is removed.                  *)
(***************************************************************************)
AddLevel(levels, price, qty) ==
  With(levels, price, LevelQuantity(levels, price) + qty)

SubLevelKeepEmpty(levels, price, amount) ==   \* mutant: no level is removed
  IF price \in DOMAIN levels
    THEN [levels EXCEPT ![price] = @ - amount]
    ELSE levels

SubLevel(levels, price, amount) ==
  CASE price \notin DOMAIN levels     -> levels
    [] price \in DOMAIN levels /\ levels[price] - amount <= 0 ->
         Without(levels, price)
    [] OTHER -> [levels EXCEPT ![price] = @ - amount]

(* The side of an update is replaced by levels, the other one is left. *)
SetLevels(side, levels) ==
  /\ bids' = IF side = "buy" THEN levels ELSE bids
  /\ asks' = IF side = "buy" THEN asks ELSE levels

LevelSub(side, price, amount) == SetLevels(side, SubLevel(Levels(side), price, amount))

(* The caller adds an id that is not present: order ids are never reused.  *)
Add(x, side, price, qty) ==
  /\ x \notin DOMAIN orders
  /\ Cardinality(DOMAIN orders) < MaxHeld
  /\ slots' = InsertIn(slots, x)
  /\ orders' = With(orders, x, Order(side, price, qty))
  /\ SetLevels(side, AddLevel(Levels(side), price, qty))

(* cancel and reduce return early when the index does not find the id.     *)
Unknown(x) == ~FindIn(slots, x) /\ UNCHANGED vars

CancelKeepsRecord(x) ==       \* mutant: the index is not told of the cancel
  \/ Unknown(x)
  \/ /\ FindIn(slots, x)
     /\ LevelSub(orders[x].side, orders[x].price, orders[x].remaining)
     /\ UNCHANGED <<slots, orders>>

CancelFirstInRun(x) ==       \* mutant: the ids of the run are not compared
  \/ slots[Home[x]] = kEmpty /\ UNCHANGED vars
  \/ \E y \in DOMAIN orders :
       /\ slots[Home[x]] = y
       /\ LevelSub(orders[y].side, orders[y].price, orders[y].remaining)
       /\ slots' = EraseIn(slots, y)
       /\ orders' = Without(orders, y)

Cancel(x) ==
  \/ Unknown(x)
  \/ /\ FindIn(slots, x)
     /\ LevelSub(orders[x].side, orders[x].price, orders[x].remaining)
     /\ slots' = EraseIn(slots, x)
     /\ orders' = Without(orders, x)

ReduceKeepsSpent(x, delta) == \* mutant: a spent order stays in the index
  \/ Unknown(x)
  \/ /\ FindIn(slots, x)
     /\ LevelSub(orders[x].side, orders[x].price, Applied(orders[x], delta))
     /\ orders' = With(orders, x, [orders[x] EXCEPT !.remaining = @ - Applied(orders[x], delta)])
     /\ UNCHANGED slots

Reduce(x, delta) ==
  \/ Unknown(x)
  \/ /\ FindIn(slots, x)
     /\ LevelSub(orders[x].side, orders[x].price, Applied(orders[x], delta))
     /\ orders' = Reduced(orders, x, delta)
     /\ slots' = IF x \in DOMAIN orders' THEN slots ELSE EraseIn(slots, x)

Next ==
  \E x \in Ids :
    \/ \E side \in Side, price \in Prices, qty \in Sizes : Add(x, side, price, qty)
    \/ \E delta \in Sizes : Reduce(x, delta)
    \/ Cancel(x)

Spec == Init /\ [][Next]_vars

-----------------------------------------------------------------------------
(***************************************************************************)
(* The reads.  Rank zero is the best price: the highest of the bids, the   *)
(* lowest of the asks.                                                     *)
(***************************************************************************)
QuantityAt(side, price) == LevelQuantity(Levels(side), price)

BidDepth == Cardinality(DOMAIN bids)
AskDepth == Cardinality(DOMAIN asks)

Better(side, p, q) == IF side = "buy" THEN p > q ELSE p < q

RankOf(side, p) == Cardinality({q \in DOMAIN Levels(side) : Better(side, q, p)})

Level(price, qty) == [price |-> price, quantity |-> qty]

Nth(side, rank) ==
  IF rank >= Cardinality(DOMAIN Levels(side))
    THEN Level(NoPrice, 0)
    ELSE LET p == CHOOSE p \in DOMAIN Levels(side) : RankOf(side, p) = rank
         IN  Level(p, Levels(side)[p])

BestBid == Nth("buy", 0)
BestAsk == Nth("sell", 0)

-----------------------------------------------------------------------------
TypeOK ==
  /\ \A side \in Side : /\ DOMAIN Levels(side) \subseteq Prices
                        /\ \A p \in DOMAIN Levels(side) : Levels(side)[p] \in Nat
  /\ slots \in [Slot -> Ids \cup {kEmpty}]
  /\ DOMAIN orders = StoredIn(slots)
  /\ \A x \in DOMAIN orders :
       orders[x] \in [side : Side, price : Prices, remaining : Nat]

(***************************************************************************)
(* The quantity at a price is the sum of what remains of the orders of the *)
(* index that rest there, and there is no level without such an order: the *)
(* levels and the index, updated by separate calls, never drift apart, not *)
(* even when orders go out of reach.  An order of size zero rests on a     *)
(* level of zero, until the next call on that price removes the level      *)
(* (book_map.hpp:26-55, 103-123).                                          *)
(***************************************************************************)
LevelsAreSums ==
  \A side \in Side, price \in Prices :
    /\ QuantityAt(side, price) = Resting(orders, side, price)
    /\ price \in DOMAIN Levels(side) => RestingAt(orders, side, price) # {}
=============================================================================
