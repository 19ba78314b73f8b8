--------------------------- MODULE OpenAddressing ---------------------------
(***************************************************************************)
(* The table arithmetic of OrderIndex (include/obls/order_index.hpp): an   *)
(* open addressing hash table with linear probing over a fixed slab.       *)
(*                                                                         *)
(* A slot holds an order id or kEmpty.  The record that travels with the   *)
(* id (price, remaining, side) is moved and cleared together with it, so   *)
(* the id stands for the whole record here.                                *)
(*                                                                         *)
(* slot_for, a multiplicative hash that keeps the top bits of the product, *)
(* is an arbitrary function Home from ids to slots: nothing the table      *)
(* promises depends on which function it is.                               *)
(***************************************************************************)
EXTENDS Integers, FiniteSetsExt

CONSTANTS
  Ids,     (* Order ids a caller may use.                                  *)
  kEmpty,  (* The id that marks a free slot; never a caller's id.          *)
  Hint,    (* capacity_hint: the expected peak of live orders.             *)
  Cap,     (* slots_.size(), fixed at construction.                        *)
  Home     (* slot_for.                                                    *)

Slot == 0 .. Cap - 1

ASSUME CapAssumption   == Cap \in Nat \ {0}
ASSUME EmptyAssumption == kEmpty \notin Ids
ASSUME HomeAssumption  == Home \in [Ids -> Slot]

(***************************************************************************)
(* The constructor: twice the least power of two that is at least the      *)
(* hint, a hint of zero counting as one.                                   *)
(***************************************************************************)
NextPowerOfTwo(n) == Min({p \in {2^k : k \in 0 .. n} : p >= n})

Capacity(hint) == 2 * NextPowerOfTwo(IF hint < 1 THEN 1 ELSE hint)

ASSUME SizedAssumption == Hint \in Nat /\ Cap = Capacity(Hint)

-----------------------------------------------------------------------------
(* The probe step, (i + 1) & mask_. *)
NextSlot(k) == (k + 1) % Cap

InRangeFlat(home, hole, cur) ==  \* mutant: the slab is taken for a line
  home > hole /\ home <= cur

(* in_range: home lies in the cyclic interval (hole, cur]. *)
InRange(home, hole, cur) ==
  IF hole <= cur
    THEN home > hole /\ home <= cur
    ELSE home > hole \/ home <= cur

-----------------------------------------------------------------------------
(***************************************************************************)
(* The slots a probe that starts at a passes before it reaches b.          *)
(***************************************************************************)
Path(a, b) ==
  {k \in Slot : IF a <= b THEN a <= k /\ k < b ELSE a <= k \/ k < b}

StoredIn(slots) == {slots[k] : k \in Slot} \ {kEmpty}

(* x is reached from its home slot before any empty slot. *)
FindableIn(slots, x) ==
  \E k \in Slot :
    /\ slots[k] = x
    /\ \A m \in Path(Home[x], k) : slots[m] # kEmpty
=============================================================================
