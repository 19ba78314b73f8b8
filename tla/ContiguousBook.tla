--------------------------- MODULE ContiguousBook ---------------------------
(***************************************************************************)
(* The three variants that keep each side of the book in one sorted        *)
(* vector, best price at the back: BookLinear (book_linear.hpp),           *)
(* BookSortedVector (book_sorted_vector.hpp) and BookBranchless            *)
(* (book_branchless.hpp).  They differ in locate only, so one module       *)
(* models all three and the variable search says which one runs.           *)
(*                                                                         *)
(* Every call that touches a level searches for it first, and the loops of *)
(* the searches run one action per turn: the scan from the back of the     *)
(* linear variant and the halving of the branchless one.  std::lower_bound *)
(* of the sorted variant is a library call and takes one step.             *)
(*                                                                         *)
(* A vector is a sequence; index k of the code is position k + 1 here.     *)
(***************************************************************************)
EXTENDS OrderIndexCalls, Orders, SequencesExt

CONSTANTS
  Prices,   (* Prices of limit orders.                                     *)
  Sizes,    (* Quantities of the event stream; a row cut short says zero.  *)
  NoPrice,  (* kInvalidPrice.                                              *)
  MaxHeld,  (* Most orders the index is given to hold.                     *)
  Searches  (* The variants: "linear", "lower_bound", "branchless".        *)

ASSUME SizesAssumption  == Sizes \subseteq Nat
ASSUME PricesAssumption == Prices \subseteq Int
ASSUME HeldAssumption   == MaxHeld \in Nat /\ MaxHeld < Cap
ASSUME SearchesAssumption ==
  Searches \subseteq {"linear", "lower_bound", "branchless"}

VARIABLES
  search,   (* The variant that runs.                                      *)
  bids,     (* bids_: ascending, best bid at the back.                     *)
  asks,     (* asks_: descending, best ask at the back.                    *)
  slots,    (* The ids in the slots of index_.                             *)
  orders,   (* The records of index_, by id.                               *)
  pc,       (* "idle", a search loop, or "located".                        *)
  call,     (* The call that runs, and the price it looks for.             *)
  i,        (* The scan position, or the base of the halving.              *)
  n,        (* The length of the run that is left to halve.                *)
  at,       (* The result of locate.                                       *)
  turns     (* History: the turns the search of the call has taken.        *)

vars == <<search, bids, asks, slots, orders, pc, call, i, n, at, turns>>

index  == <<slots, orders>>
levels == <<bids, asks>>

Ladder(side) == IF side = "buy" THEN bids ELSE asks
Run          == Ladder(call.side)
Price(k)     == Run[k + 1].price

Level(price, qty) == [price |-> price, quantity |-> qty]

(* p is stored nearer the front than q. *)
Before(side, p, q) == IF side = "buy" THEN p < q ELSE p > q

Located(found, k) == [found |-> found, index |-> k]

NoCall == [op |-> "none", id |-> kEmpty, side |-> "buy", price |-> 0, qty |-> 0]
Nowhere == Located(FALSE, 0)

Init ==
  /\ search \in Searches
  /\ bids = << >> /\ asks = << >>
  /\ slots = [k \in Slot |-> kEmpty]
  /\ orders = << >>
  /\ pc = "idle"
  /\ call = NoCall
  /\ i = 0 /\ n = 0
  /\ at = Nowhere
  /\ turns = 0

-----------------------------------------------------------------------------
(***************************************************************************)
(* locate is entered with the ladder of the call's side.                   *)
(***************************************************************************)
Enter(op, x, side, price, qty) ==
  /\ pc = "idle"
  /\ call' = [op |-> op, id |-> x, side |-> side, price |-> price, qty |-> qty]
  /\ \/ /\ search = "linear"
        /\ pc' = "scan" /\ i' = Len(Ladder(side)) - 1 /\ UNCHANGED <<n, at>>
     \/ /\ search = "lower_bound"
        /\ pc' = "bound" /\ UNCHANGED <<i, n, at>>
     \/ /\ search = "branchless" /\ Ladder(side) # << >>
        /\ pc' = "halve" /\ i' = 0 /\ n' = Len(Ladder(side)) /\ UNCHANGED at
     \/ /\ search = "branchless" /\ Ladder(side) = << >>
        /\ pc' = "located" /\ at' = Located(FALSE, 0) /\ UNCHANGED <<i, n>>
  /\ turns' = 0
  /\ UNCHANGED <<search, levels>>

(* add inserts into the index before it looks for the level. *)
CallAdd(x, side, price, qty) ==
  /\ pc = "idle"
  /\ x \notin DOMAIN orders
  /\ Cardinality(DOMAIN orders) < MaxHeld
  /\ slots' = InsertIn(slots, x)
  /\ orders' = With(orders, x, Order(side, price, qty))
  /\ Enter("add", x, side, price, qty)

CallCancel(x) ==
  /\ FindIn(slots, x)
  /\ Enter("cancel", x, orders[x].side, orders[x].price, orders[x].remaining)
  /\ UNCHANGED index

CallReduce(x, delta) ==
  /\ FindIn(slots, x)
  /\ Enter("reduce", x, orders[x].side, orders[x].price, delta)
  /\ UNCHANGED index

CallQuantityAt(side, price) ==
  /\ Enter("read", kEmpty, side, price, 0)
  /\ UNCHANGED index

(* cancel and reduce return early when the index does not find the id. *)
CallUnknown(x) ==
  /\ pc = "idle"
  /\ ~FindIn(slots, x)
  /\ UNCHANGED vars

-----------------------------------------------------------------------------
Unmoved == UNCHANGED <<search, levels, index, call>>

(* A turn of a loop, and the end of one. *)
Turn == turns' = turns + 1 /\ Unmoved
End  == UNCHANGED turns /\ Unmoved

Found(k) ==
  /\ pc' = "located"
  /\ at' = Located(k < Len(Run) /\ Price(k) = call.price, k)

(* The linear scan passes the levels that lie behind the price. *)
ScanStep ==
  /\ pc = "scan"
  /\ i >= 0 /\ Before(call.side, call.price, Price(i))
  /\ i' = i - 1
  /\ UNCHANGED <<pc, n, at>> /\ Turn

ScanStopShort ==          \* mutant: a new level goes before the one that stopped it
  /\ pc = "scan"
  /\ ~(i >= 0 /\ Before(call.side, call.price, Price(i)))
  /\ pc' = "located"
  /\ at' = IF i >= 0 /\ Price(i) = call.price
             THEN Located(TRUE, i)
             ELSE Located(FALSE, IF i >= 0 THEN i ELSE 0)
  /\ UNCHANGED <<i, n>> /\ End

ScanStop ==
  /\ pc = "scan"
  /\ ~(i >= 0 /\ Before(call.side, call.price, Price(i)))
  /\ pc' = "located"
  /\ at' = IF i >= 0 /\ Price(i) = call.price
             THEN Located(TRUE, i)
             ELSE Located(FALSE, i + 1)
  /\ UNCHANGED <<i, n>> /\ End

(* std::lower_bound: the first element not ordered before the key. *)
LowerBound ==
  /\ pc = "bound"
  /\ \E k \in 0 .. Len(Run) :
       /\ \A m \in 0 .. Len(Run) - 1 : m < k <=> Before(call.side, Price(m), call.price)
       /\ Found(k)
  /\ UNCHANGED <<i, n>> /\ End

HalveStepLong ==          \* mutant: the run that is left is one too long
  /\ pc = "halve" /\ n > 1
  /\ LET half == n \div 2
     IN  /\ i' = IF Before(call.side, Price(i + half), call.price) THEN i + half ELSE i
         /\ n' = n - half + 1
  /\ UNCHANGED <<pc, at>> /\ Turn

HalveStepStuck ==         \* mutant: the run does not shrink when base stays
  /\ pc = "halve" /\ n > 1
  /\ LET half    == n \div 2
         advance == IF Before(call.side, Price(i + half), call.price) THEN half ELSE 0
     IN  /\ i' = i + advance
         /\ n' = n - advance
  /\ UNCHANGED <<pc, at>> /\ Turn

(* base advances by half of the run, or by nothing. *)
HalveStep ==
  /\ pc = "halve" /\ n > 1
  /\ LET half == n \div 2
     IN  /\ i' = IF Before(call.side, Price(i + half), call.price) THEN i + half ELSE i
         /\ n' = n - half
  /\ UNCHANGED <<pc, at>> /\ Turn

HalveEndUnadjusted ==     \* mutant: the final adjustment is missing
  /\ pc = "halve" /\ n <= 1
  /\ Found(i)
  /\ UNCHANGED <<i, n>> /\ End

HalveEnd ==
  /\ pc = "halve" /\ n <= 1
  /\ Found(i + (IF Before(call.side, Price(i), call.price) THEN 1 ELSE 0))
  /\ UNCHANGED <<i, n>> /\ End

-----------------------------------------------------------------------------
(***************************************************************************)
(* What the calls do once the level is located.                            *)
(***************************************************************************)
LevelAdd(ladder, qty) ==
  IF at.found
    THEN [ladder EXCEPT ![at.index + 1].quantity = @ + qty]
    ELSE InsertAt(ladder, at.index + 1, Level(call.price, qty))

LevelSubKeepEmpty(ladder, amount) ==   \* mutant: only a negative level is removed
  IF at.found
    THEN LET left == ladder[at.index + 1].quantity - amount
         IN  IF left < 0
               THEN RemoveAt(ladder, at.index + 1)
               ELSE [ladder EXCEPT ![at.index + 1].quantity = left]
    ELSE ladder

LevelSub(ladder, amount) ==
  IF at.found
    THEN LET left == ladder[at.index + 1].quantity - amount
         IN  IF left <= 0
               THEN RemoveAt(ladder, at.index + 1)
               ELSE [ladder EXCEPT ![at.index + 1].quantity = left]
    ELSE ladder

SetLadder(ladder) ==
  /\ bids' = IF call.side = "buy" THEN ladder ELSE bids
  /\ asks' = IF call.side = "buy" THEN asks ELSE ladder

Return(op) ==
  /\ pc = "located" /\ call.op = op
  /\ pc' = "idle" /\ call' = NoCall
  /\ i' = 0 /\ n' = 0 /\ at' = Nowhere /\ turns' = 0
  /\ UNCHANGED search

ReturnAdd ==
  /\ Return("add")
  /\ SetLadder(LevelAdd(Run, call.qty))
  /\ UNCHANGED index

ReturnCancel ==
  /\ Return("cancel")
  /\ SetLadder(LevelSub(Run, call.qty))
  /\ slots' = EraseIn(slots, call.id)
  /\ orders' = Without(orders, call.id)

ReturnReduce ==
  /\ Return("reduce")
  /\ SetLadder(LevelSub(Run, Applied(orders[call.id], call.qty)))
  /\ orders' = Reduced(orders, call.id, call.qty)
  /\ slots' = IF call.id \in DOMAIN orders' THEN slots ELSE EraseIn(slots, call.id)

(* What quantity_at returns once its level is located. *)
QuantityFound == IF at.found THEN Run[at.index + 1].quantity ELSE 0

ReturnQuantityAt ==
  /\ Return("read")
  /\ UNCHANGED <<levels, index>>

-----------------------------------------------------------------------------
Calls ==
  \/ \E x \in Ids :
       \/ \E side \in Side, price \in Prices, qty \in Sizes : CallAdd(x, side, price, qty)
       \/ \E delta \in Sizes : CallReduce(x, delta)
       \/ CallCancel(x)
       \/ CallUnknown(x)
  \/ \E side \in Side, price \in Prices : CallQuantityAt(side, price)

Search == ScanStep \/ ScanStop \/ LowerBound \/ HalveStep \/ HalveEnd

Returns == ReturnAdd \/ ReturnCancel \/ ReturnReduce \/ ReturnQuantityAt

Next == Calls \/ Search \/ Returns

Spec == Init /\ [][Next]_vars

-----------------------------------------------------------------------------
(***************************************************************************)
(* The reads that do not search.                                           *)
(***************************************************************************)
NthFromFront(ladder, rank) ==     \* mutant: rank zero is the front
  IF rank >= Len(ladder) THEN Level(NoPrice, 0) ELSE ladder[rank + 1]

Nth(ladder, rank) ==
  IF rank >= Len(ladder) THEN Level(NoPrice, 0) ELSE ladder[Len(ladder) - rank]

Best(ladder) == IF ladder = << >> THEN Level(NoPrice, 0) ELSE Last(ladder)

-----------------------------------------------------------------------------
TypeOK ==
  /\ search \in Searches
  /\ \A side \in Side : Ladder(side) \in Seq([price : Prices, quantity : Nat])
  /\ DOMAIN orders = StoredIn(slots)
  /\ pc \in {"idle", "scan", "bound", "halve", "located"}
  /\ pc = "idle" <=> call = NoCall
  /\ call.side \in Side
  /\ i \in -1 .. Len(Run) /\ n \in 0 .. Len(Run)
  /\ at \in [found : BOOLEAN, index : 0 .. Len(Run)]
  /\ turns \in Nat

(***************************************************************************)
(* Each vector is strictly sorted, so that a price has one level, the best *)
(* price is at the back, and the searches may rely on the order            *)
(* (book_linear.hpp:144-145).                                              *)
(***************************************************************************)
Sorted ==
  \A side \in Side : \A a, b \in 1 .. Len(Ladder(side)) :
    a < b => Before(side, Ladder(side)[a].price, Ladder(side)[b].price)

(***************************************************************************)
(* No search reads outside the vector: the scan stops at the front, and    *)
(* base + half stays within the run that is left, which lies within the    *)
(* vector (book_branchless.hpp:69-106).                                    *)
(***************************************************************************)
SearchInBounds ==
  /\ pc = "scan" => i \in -1 .. Len(Run) - 1
  /\ pc = "halve" => n >= 1 /\ i >= 0 /\ i + n <= Len(Run)

(***************************************************************************)
(* locate has one answer, whichever search computed it: the level when it  *)
(* exists, and otherwise the place that keeps the vector sorted            *)
(* (book_branchless.hpp:171-174, "same answer").                           *)
(***************************************************************************)
LocateIsExact ==
  pc = "located" =>
    /\ at.found <=> \E k \in 1 .. Len(Run) : Run[k].price = call.price
    /\ \A k \in 1 .. Len(Run) :
         k <= at.index <=> Before(call.side, Run[k].price, call.price)

-----------------------------------------------------------------------------
(***************************************************************************)
(* Every variant holds the state of the map book after the same calls      *)
(* (tests/test_book_equivalence.cpp:1-3).  A vector is the map from its    *)
(* prices to its quantities.  The map book adds a level at the moment the  *)
(* index of a vector variant is given the order, whose level is then still *)
(* to be located.                                                          *)
(***************************************************************************)
MapOf(side) ==
  LET ladder == Ladder(side)
      held   == {ladder[k].price : k \in 1 .. Len(ladder)}
      sum(p) == IF p \in held
                  THEN ladder[CHOOSE k \in 1 .. Len(ladder) : ladder[k].price = p].quantity
                  ELSE 0
      adding == call.op = "add" /\ call.side = side
  IN  [p \in held \cup (IF adding THEN {call.price} ELSE {}) |->
         IF adding /\ p = call.price THEN sum(p) + call.qty ELSE sum(p)]

Map == INSTANCE BookMap WITH bids <- MapOf("buy"), asks <- MapOf("sell")

ImplementsBookMap == Map!Spec

(***************************************************************************)
(* Read rank for rank, a vector variant shows the ladder the map shows,    *)
(* with the best price at rank zero and in best_bid and best_ask, and its  *)
(* quantity_at returns what that of the map returns: what same_ladder and  *)
(* same_top compare (tests/test_book_equivalence.cpp:20-50), and more.     *)
(***************************************************************************)
SameReads ==
  /\ pc = "located" /\ call.op = "read" =>
       QuantityFound = Map!QuantityAt(call.side, call.price)
  /\ pc = "idle" =>
       /\ Best(bids) = Map!BestBid /\ Best(asks) = Map!BestAsk
       /\ Len(bids) = Map!BidDepth /\ Len(asks) = Map!AskDepth
       /\ \A rank \in 0 .. Len(bids) : Nth(bids, rank) = Map!Nth("buy", rank)
       /\ \A rank \in 0 .. Len(asks) : Nth(asks, rank) = Map!Nth("sell", rank)

-----------------------------------------------------------------------------
(***************************************************************************)
(* No search loops for ever: the scan passes no more levels than there     *)
(* are, and the halving takes fewer turns still, since its run becomes     *)
(* shorter whether base advances or not (book_linear.hpp:96-105,           *)
(* book_branchless.hpp:71-100).                                            *)
(***************************************************************************)
SearchesAreShort == turns <= Len(Run)
=============================================================================
