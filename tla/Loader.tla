-------------------------------- MODULE Loader --------------------------------
(***************************************************************************)
(* load_lobster_messages (bench/replay.hpp): a message file becomes the    *)
(* event stream, one row per turn of the loop.  A row is the sequence of   *)
(* its comma separated fields: time, type, id, size, price, direction.     *)
(* What from_chars makes of the characters of a field is a number or       *)
(* nothing.  A carriage return before the newline changes no number, and a *)
(* row of nothing else is blank either way: it is left out.                *)
(***************************************************************************)
EXTENDS Integers, SequencesExt

CONSTANT Junk   (* A field that is no number: letters, nothing at all, or  *)
                (* digits beyond the width of the variable.                *)

(* What can be in a row, and in a file. *)
Row  == Seq(Int \cup {Junk})
File == [rows : Seq(Row), ended : BOOLEAN]

VARIABLES
  rows,      (* The file: its rows, and whether the last one is ended by   *)
  ended,     (* a newline.                                                 *)
  line,      (* Number of rows read.                                       *)
  events,    (* out.                                                       *)
  reserved   (* The room reserved in it.                                   *)

loaderVars == <<rows, ended, line, events, reserved>>

(* What a row's fields go to, by the place of the field in the row.        *)
Column == [type |-> 2, id |-> 3, size |-> 4, price |-> 5, direction |-> 6]

EventRecord == [DOMAIN Column -> Int]

NoEvent == [field \in DOMAIN Column |-> 0]

(* next_field: beyond the last comma there are only empty fields.          *)
Field(row, place) == IF place <= Len(row) THEN row[place] ELSE Junk

(* parse_int leaves the variable alone when there is no number.            *)
ParseInt(text, out) == IF text = Junk THEN out ELSE text

ParsedOver(out, row) ==
  [f \in DOMAIN Column |-> ParseInt(Field(row, Column[f]), out[f])]

ParsedStale(row) ==          \* mutant: the event is declared before the loop
  ParsedOver(IF events = << >> THEN NoEvent ELSE Last(events), row)

Parsed(row) == ParsedOver(NoEvent, row)

LoaderInit ==
  /\ rows = << >> /\ ended = TRUE
  /\ line = 0 /\ events = << >> /\ reserved = 0

NewlinesOfRows(file) == Len(file.rows) - 1     \* mutant: what stands between rows

Newlines(file) == Len(file.rows) - (IF file.ended THEN 0 ELSE 1)

Open(file) ==
  /\ rows' = file.rows /\ ended' = file.ended
  /\ line' = 0 /\ events' = << >>
  /\ reserved' = Newlines(file)

(* Blank rows are passed over, and rows whose type is no number.           *)
ReadRow ==
  LET row == rows[line + 1]
  IN  /\ line < Len(rows)
      /\ line' = line + 1
      /\ events' = IF row = << >> \/ Field(row, Column.type) = Junk
                     THEN events ELSE Append(events, Parsed(row))
      /\ UNCHANGED <<rows, ended, reserved>>

-----------------------------------------------------------------------------
(* The events a sequence of rows stands for: one for each row that has a   *)
(* type, with the numbers of that row, and zero where it has none.         *)
Kept(lines) == {k \in DOMAIN lines : Field(lines[k], Column.type) # Junk}

(* The place of the n-th row that has a type: n - 1 are before it.         *)
NthKept(lines, n) ==
  CHOOSE k \in Kept(lines) : Cardinality({m \in Kept(lines) : m < k}) = n - 1

EventOf(row) ==
  [f \in DOMAIN Column |->
     IF Field(row, Column[f]) = Junk THEN 0 ELSE Field(row, Column[f])]

EventsOf(lines) ==
  [n \in 1 .. Cardinality(Kept(lines)) |-> EventOf(lines[NthKept(lines, n)])]

(***************************************************************************)
(* An event holds the numbers of its own row and of no other: rows cut     *)
(* short, blank or beyond reading neither shift the rows after them nor    *)
(* lend them a field (replay.hpp:130-148).                                 *)
(***************************************************************************)
RowsKeepTheirFields ==
  [][line' > line => events' = EventsOf(SubSeq(rows, 1, line'))]_loaderVars

(***************************************************************************)
(* "One reservation up front sized to the file's line count keeps the      *)
(* parse to a single allocation" (replay.hpp:121-122): it does for a file  *)
(* whose last row is ended.  Otherwise the last event may need a second.   *)
(***************************************************************************)
OneAllocation ==
  line > 0 => Len(events) <= reserved + (IF ended THEN 0 ELSE 1)
=============================================================================
