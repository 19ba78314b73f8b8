-------------------------- MODULE OrderIndexCalls ---------------------------
(***************************************************************************)
(* The calls of OrderIndex (include/obls/order_index.hpp) as operators on  *)
(* its slots: what insert, find and erase have done when they return.  The *)
(* books use the index through these; OrderIndex shows the loops behind    *)
(* them.                                                                   *)
(***************************************************************************)
EXTENDS OpenAddressing

(* The slot a probe for x stops at: the first whose id is one of stops. *)
FirstSlot(slots, x, stops) ==
  CHOOSE k \in Slot :
    /\ slots[k] \in stops
    /\ \A m \in Path(Home[x], k) : slots[m] \notin stops

InsertInHome(slots, x) ==    \* mutant: no probe
  [slots EXCEPT ![Home[x]] = x]

InsertIn(slots, x) ==
  [slots EXCEPT ![FirstSlot(slots, x, {kEmpty})] = x]

(* find: whether the call returns a record or nullptr. *)
FindIn(slots, x) == slots[FirstSlot(slots, x, {x, kEmpty})] = x

(***************************************************************************)
(* erase: the d-th turn of the shift looks at the slot d places after the  *)
(* removed id, until the run of occupied slots ends.                       *)
(***************************************************************************)
After(first, d) == (first + d) % Cap

RunLength(slots, first) ==
  CHOOSE d \in 0 .. Cap - 1 :
    /\ slots[After(first, d + 1)] = kEmpty
    /\ \A e \in 1 .. d : slots[After(first, e)] # kEmpty

(* What a turn makes of the slots and the hole the turn before it left.    *)
Turned(slots, first, d, prev) ==
  LET here == After(first, d)
  IN  IF InRange(Home[slots[here]], prev.hole, here)
        THEN [slots |-> [prev.slots EXCEPT ![prev.hole] = slots[here]], hole |-> here]
        ELSE prev

Turns(slots, first) ==
  LET turn[d \in 0 .. RunLength(slots, first)] ==
        IF d = 0 THEN [slots |-> slots, hole |-> first]
                 ELSE Turned(slots, first, d, turn[d - 1])
  IN  turn

Shifted(slots, first) ==
  LET end == Turns(slots, first)[RunLength(slots, first)]
  IN  [end.slots EXCEPT ![end.hole] = kEmpty]

EraseIn(slots, x) ==
  IF FindIn(slots, x)
    THEN Shifted(slots, FirstSlot(slots, x, {x, kEmpty}))
    ELSE slots
=============================================================================
