----------------------------- MODULE MCBookMap ------------------------------
(* A hash under which two orders share a home and a third has the next one. *)
EXTENDS RecallingBook

CONSTANTS o1, o2, o3

MCHome == [x \in Ids |-> IF x = o3 THEN 0 ELSE Cap - 1]
=============================================================================
