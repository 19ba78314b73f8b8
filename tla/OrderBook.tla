----------------------------- MODULE OrderBook ------------------------------
(***************************************************************************)
(* What a book variant promises (include/obls/book_concept.hpp), call by   *)
(* call: an add rests its order, a cancel removes the order it names, and  *)
(* a reduce takes its delta off the order it names, which leaves when      *)
(* nothing of it remains.  No call touches another order.  There is no     *)
(* index and no level container here.                                      *)
(*                                                                         *)
(* The variants share an index that cannot always find what it holds.  So  *)
(* a call takes effect exactly when the order it names is within reach.    *)
(* An added order is, and an add or a reduce that leaves its order resting *)
(* puts none out of reach; of the reach of the orders left when one goes   *)
(* nothing is promised.                                                    *)
(*                                                                         *)
(* call is the last call that was made: what is promised is promised of    *)
(* the order named in it.                                                  *)
(***************************************************************************)
EXTENDS Orders

CONSTANTS
  Ids,      (* Order ids.                                                  *)
  Prices,   (* Prices of limit orders.                                     *)
  Sizes     (* Quantities of the event stream.                             *)

VARIABLES
  orders,   (* The resting orders, by id.                                  *)
  reach,    (* The ids of the orders that a call finds.                    *)
  call      (* The last call.                                              *)

vars == <<orders, reach, call>>

NoCall               == <<"none">>
AddCall(x, order)    == <<"add", x, order>>
CancelCall(x)        == <<"cancel", x>>
ReduceCall(x, delta) == <<"reduce", x, delta>>

-----------------------------------------------------------------------------
Init == orders = << >> /\ reach = {} /\ call = NoCall

Add(x, order) ==
  /\ x \notin DOMAIN orders
  /\ orders' = With(orders, x, order)
  /\ reach \cup {x} \subseteq reach' /\ reach' \subseteq DOMAIN orders'

Cancel(x) ==
  /\ x \in reach
  /\ orders' = Without(orders, x)
  /\ reach' \subseteq DOMAIN orders'

Reduce(x, delta) ==
  /\ x \in reach
  /\ orders' = Reduced(orders, x, delta)
  /\ IF x \in DOMAIN orders' THEN reach' = reach ELSE reach' \subseteq DOMAIN orders'

(* A call on an order that is unknown or out of reach does nothing.        *)
Miss(x) == x \notin reach /\ UNCHANGED <<orders, reach>>

Next ==
  \E x \in Ids :
    \/ \E side \in Side, price \in Prices, qty \in Sizes :
         LET order == Order(side, price, qty)
         IN  Add(x, order) /\ call' = AddCall(x, order)
    \/ \E delta \in Sizes :
         (Reduce(x, delta) \/ Miss(x)) /\ call' = ReduceCall(x, delta)
    \/ (Cancel(x) \/ Miss(x)) /\ call' = CancelCall(x)

Spec == Init /\ [][Next]_vars
=============================================================================
