------------------------------- MODULE MCSweep -------------------------------
(* Real books with no levels, with more on one side, and with two a side.   *)
EXTENDS Sweep

Ladder(prices) == [p \in 1 .. Len(prices) |-> Level(prices[p], p)]

MCSnapshots ==
  { [buy |-> Ladder(<< >>),   sell |-> Ladder(<< >>)],
    [buy |-> Ladder(<<5>>),   sell |-> Ladder(<<9, 8>>)],
    [buy |-> Ladder(<<2, 5, 6>>), sell |-> Ladder(<<8>>)],
    [buy |-> Ladder(<<2, 5, 6>>), sell |-> Ladder(<<9, 8>>)],
    [buy |-> Ladder(<<1, 2, 6>>), sell |-> Ladder(<<12, 9, 7>>)] }

MCDepths == <<1, 2, 3>>
=============================================================================
