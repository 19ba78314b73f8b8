---------------------------- MODULE MCOrderIndex ----------------------------
(* Hash functions that make the probe runs of OrderIndex collide and wrap.  *)
EXTENDS OrderIndex

CONSTANTS o1, o2, o3, o4, o5

(***************************************************************************)
(* Two orders share the last slot, so that their run wraps around; one has *)
(* the first slot for its home, which that run crosses; any other starts   *)
(* one slot before the run.                                                *)
(***************************************************************************)
MCHome ==
  [x \in Ids |-> CASE x \in {o1, o2} -> Cap - 1
                   [] x = o3         -> 0
                   [] OTHER          -> Cap - 2]
=============================================================================
