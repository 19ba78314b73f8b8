------------------------------ MODULE MCReplay ------------------------------
(* A hash under which two orders share a home and a third has the next one. *)
EXTENDS Replay

MCHome == [x \in Ids |-> IF x = 3 THEN 0 ELSE Cap - 1]
=============================================================================
