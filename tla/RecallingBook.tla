--------------------------- MODULE RecallingBook ----------------------------
(***************************************************************************)
(* BookMap with a history variable, the last call that was made with its   *)
(* arguments, to say what a call does to the order it names.               *)
(***************************************************************************)
EXTENDS BookMap

VARIABLE call  (* History: the last call.                                  *)

(* The orders that can be reached in the table, whatever the probes of the *)
(* code make of it.                                                        *)
Reach == {x \in DOMAIN orders : FindableIn(slots, x)}

Book == INSTANCE OrderBook WITH reach <- Reach

CallsInit == Init /\ call = Book!NoCall

CallsNext ==
  \E x \in Ids :
    \/ \E side \in Side, price \in Prices, qty \in Sizes :
         Add(x, side, price, qty) /\ call' = Book!AddCall(x, Order(side, price, qty))
    \/ \E delta \in Sizes : Reduce(x, delta) /\ call' = Book!ReduceCall(x, delta)
    \/ Cancel(x) /\ call' = Book!CancelCall(x)

CallsSpec == CallsInit /\ [][CallsNext]_<<vars, call>>

-----------------------------------------------------------------------------
(***************************************************************************)
(* The book implements the promise of OrderBook: a cancel or a reduce      *)
(* changes the order it names, and changes it as it should, exactly when   *)
(* that order can be reached in the index, and no other order ever; an     *)
(* order that is added can be reached and puts no other out of reach       *)
(* (book_map.hpp:26-55, book_concept.hpp:20-22).                           *)
(***************************************************************************)
ImplementsBook == Book!Spec
=============================================================================
