-------------------------- MODULE MCContiguousBook --------------------------
(* A hash that gives every order the last slot for its home: their runs     *)
(* wrap around, and the orders are interchangeable.                         *)
EXTENDS ContiguousBook

MCHome == [x \in Ids |-> Cap - 1]

MCSymmetry == Permutations(Ids)
=============================================================================
