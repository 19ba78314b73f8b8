------------------------------- MODULE Orders -------------------------------
(***************************************************************************)
(* Orders and collections of them (include/obls/types.hpp), shared by the  *)
(* modules that keep a book.  A book of orders is a function from ids to   *)
(* the fields of the record that travels with the id.                      *)
(***************************************************************************)
EXTENDS Integers, FiniteSetsExt, Functions

Side == {"buy", "sell"}

Order(side, price, qty) == [side |-> side, price |-> price, remaining |-> qty]

(* f extended or overridden at x by v, and f without x. *)
With(f, x, v) == [y \in DOMAIN f \cup {x} |-> IF y = x THEN v ELSE f[y]]
Without(f, x) == Restrict(f, DOMAIN f \ {x})

(* What reduce takes off an order: the delta, at most what remains of it. *)
Applied(order, delta) == IF delta < order.remaining THEN delta ELSE order.remaining

(* book after delta has been taken off its order x; a spent order leaves. *)
Reduced(book, x, delta) ==
  LET left == book[x].remaining - Applied(book[x], delta)
  IN  IF left <= 0
        THEN Without(book, x)
        ELSE With(book, x, [book[x] EXCEPT !.remaining = left])

(* The orders of book that rest at a price, and the sum of what remains.  *)
RestingAt(book, side, price) ==
  {x \in DOMAIN book : book[x].side = side /\ book[x].price = price}

Resting(book, side, price) ==
  MapThenSumSet(LAMBDA x : book[x].remaining, RestingAt(book, side, price))
=============================================================================
