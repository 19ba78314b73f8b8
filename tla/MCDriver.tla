------------------------------- MODULE MCDriver -------------------------------
(* Files with rows of each type, rows cut short, blank rows and rows that   *)
(* are no events; command lines that use each option.                       *)
EXTENDS Driver, TLC

RowOf(type) == <<9, type, 5, 2, 7, 1>>

Whole == <<RowOf(1), RowOf(4), RowOf(5)>>
Cuts  == <<RowOf(3), <<9, 1, 6>>, << >>>>
Odd   == <<<<9>>, RowOf(2), <<9, Junk, 5, 2, 7, 1>>, <<9, 1, Junk, 3, 7, -1, 4>>>>

FileOf(lines, newline) == [rows |-> lines, ended |-> newline]

Given == "given"
MCDisks ==
  { Given :> NoFile @@ DefaultPath :> NoFile,
    Given :> NoFile @@ DefaultPath :> FileOf(Whole, TRUE),
    Given :> FileOf(Cuts, TRUE) @@ DefaultPath :> FileOf(Whole, TRUE),
    Given :> FileOf(Odd, FALSE) @@ DefaultPath :> FileOf(<< >>, TRUE) }

Event(type, id) == [type |-> type, id |-> id, size |-> 1, price |-> 8, direction |-> -1]
MCGenerator == <<Event(1, 1), Event(3, 1), Event(1, 2)>>

Line(path, forced, max, core_, sweep) ==
  [path |-> path, synthetic |-> forced, count |-> 2, max |-> max,
   core |-> core_, sweep |-> sweep]

MCOptions ==
  { Line(NoPath, FALSE, 0, 2, FALSE), Line(Given, FALSE, 0, 2, FALSE),
    Line(Given, FALSE, 1, 2, FALSE), Line(Given, TRUE, 1, 2, FALSE),
    Line(NoPath, TRUE, 0, -1, FALSE), Line(NoPath, FALSE, 2, 2, TRUE) }

MCSkew == 1 :> 0 @@ 2 :> 60
=============================================================================
