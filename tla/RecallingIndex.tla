--------------------------- MODULE RecallingIndex ---------------------------
(***************************************************************************)
(* OrderIndex with a history variable, the slots that a call started from, *)
(* to say that its loops compute the operators of OrderIndexCalls.         *)
(***************************************************************************)
EXTENDS OrderIndex, OrderIndexCalls

VARIABLE start  (* History: the slots when the current or last call began. *)

CallsInit == Init /\ start = slots

CallsNext == Next /\ start' = IF pc = "idle" THEN slots ELSE start

CallsSpec == CallsInit /\ [][CallsNext]_<<vars, start>>

(* FairSpec of OrderIndex; start only remembers. *)
FairCallsSpec == CallsSpec /\ WF_<<vars, start>>(Loops /\ CallsNext)

-----------------------------------------------------------------------------
(* A call that returns has made of the slots, and answered, what its       *)
(* operator says of the slots it was given.                                *)
ReturnsAsCalled ==
  /\ pc = "insert" /\ pc' = "idle" => slots' = InsertIn(start, arg)
  /\ pc = "find" /\ pc' = "idle" =>
       slots' = start /\ (answer'.slot # nullptr <=> FindIn(start, arg))
  /\ pc \in {"erase", "shift"} /\ pc' = "idle" => slots' = EraseIn(start, arg)

(***************************************************************************)
(* The atomic view the books take of insert, find and erase is what the    *)
(* loops of order_index.hpp:44-96 compute, from any table the index can    *)
(* reach, a shift over a run that wraps around included.                   *)
(***************************************************************************)
LoopsComputeCalls == [][ReturnsAsCalled]_<<vars, start>>
=============================================================================
