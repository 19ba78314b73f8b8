------------------------------ MODULE OrderMap ------------------------------
(***************************************************************************)
(* What the order index promises its callers, with no table in sight: a    *)
(* set of held ids, one lookup answer, and three operations that take      *)
(* effect at once.                                                         *)
(*                                                                         *)
(* intact records whether every held id can still be looked up.  With      *)
(* MayDegrade = FALSE it stays TRUE and the module is the promise of       *)
(* order_index.hpp: find answers "present" exactly for the held ids, and   *)
(* erase removes the id it is given.  With MayDegrade = TRUE a removal may *)
(* clear it, and from then on a lookup or a removal may miss a held id;    *)
(* even then it may not invent an id, drop another id or hold one twice.   *)
(***************************************************************************)
CONSTANTS
  Ids,         (* Order ids a caller may use.                              *)
  NoId,        (* The id of the answer before the first lookup.            *)
  MayDegrade   (* Whether a removal may leave held ids out of reach.       *)

VARIABLES
  held,        (* The ids whose records the index keeps.                   *)
  intact,      (* Every held id can be looked up.                          *)
  answer       (* The last lookup: the id and whether it was found.        *)

vars == <<held, intact, answer>>

Init ==
  /\ held = {}
  /\ intact = TRUE
  /\ answer = [id |-> NoId, found |-> FALSE]

Insert(x) ==
  /\ x \notin held
  /\ held' = held \cup {x}
  /\ UNCHANGED <<intact, answer>>

Hit(x) ==
  /\ x \in held
  /\ answer' = [id |-> x, found |-> TRUE]
  /\ UNCHANGED <<held, intact>>

Miss(x) ==
  /\ x \in held => ~intact
  /\ answer' = [id |-> x, found |-> FALSE]
  /\ UNCHANGED <<held, intact>>

Remove(x) ==
  /\ x \in held
  /\ held' = held \ {x}
  /\ UNCHANGED <<intact, answer>>

(* A removal that is under way has met a neighbour it does not relocate. *)
Degrade ==
  /\ MayDegrade
  /\ intact' = FALSE
  /\ UNCHANGED <<held, answer>>

Next ==
  \/ \E x \in Ids : Insert(x) \/ Hit(x) \/ Miss(x) \/ Remove(x)
  \/ Degrade

Spec == Init /\ [][Next]_vars
=============================================================================
