-------------------------------- MODULE Sweep --------------------------------
(***************************************************************************)
(* The depth sweep (bench/sweep.hpp): for each depth it builds levels from *)
(* the snapshot of the real book or from thin air, fills a reference book  *)
(* with them, draws lookup targets from the reference, and then fills and  *)
(* measures one book per variant.                                          *)
(*                                                                         *)
(* The books only ever receive adds of new ids here.  A book is its two    *)
(* sequences of levels, best price last: what the vectors hold, and the    *)
(* entries of the maps in the order their iterators give backwards (that   *)
(* the variants agree is the subject of ContiguousBook).                   *)
(***************************************************************************)
EXTENDS Integers, SequencesExt

CONSTANTS
  Snapshots,  (* Real books the sweep may be given; the empty one stands   *)
              (* for no real data as well.                                 *)
  Depths,     (* depths, in the order of the rows.                         *)
  Variants,   (* Number of variants.                                       *)
  Lookups,    (* kLookups.                                                 *)
  Offsets,    (* What the geometric distribution may yield.                *)
  Mid,        (* The price the synthetic levels lie around.                *)
  Sizes,      (* Quantities of synthetic levels.                           *)
  NoPrice,    (* kInvalidPrice.                                            *)
  Cycles,     (* Figures a measurement may give.                           *)
  NoReading   (* The counters could not be read.                           *)

Side  == {"buy", "sell"}

Level(price, qty) == [price |-> price, quantity |-> qty]
LevelRecord == [price : Int, quantity : Nat \ {0}]

Before(side, p, q) == IF side = "buy" THEN p < q ELSE p > q

(* One side of a book: its levels, each price once, from worst to best.    *)
IsLadder(side, ladder) ==
  /\ ladder \in Seq(LevelRecord)
  /\ \A j, k \in DOMAIN ladder : j < k => Before(side, ladder[j].price, ladder[k].price)

ASSUME SnapshotsAssumption == \A b \in Snapshots : \A side \in Side : IsLadder(side, b[side])
ASSUME DepthsAssumption    == Depths \in Seq(Nat \ {0}) /\ Depths # << >>
ASSUME CountsAssumption    == Variants \in Nat \ {0} /\ Lookups \in Nat \ {0}
ASSUME DrawsAssumption     == /\ Offsets \subseteq Nat
                              /\ Mid \in Int /\ Sizes \subseteq Nat \ {0}
ASSUME CyclesAssumption    == Cycles \subseteq Nat \ {0}

VARIABLES
  snapshot,   (* The real book.                                            *)
  row,        (* Which depth.                                              *)
  step,       (* "build", "reference", "targets", "populate", "measure",   *)
              (* "headline" or "done".                                     *)
  source,     (* The label of the row.                                     *)
  levels,     (* The levels to add, in this order.                         *)
  turn,       (* How many turns of the loop of this step are done.         *)
  reference,  (* The book the targets come from.                           *)
  targets,
  variant,    (* The variant whose turn it is.                             *)
  book,       (* Its book.                                                 *)
  results,    (* cyc_per_op of the variants measured, or NoReading.        *)
  cheapest,   (* The variant the row names, or zero for '?', and what it   *)
  best        (* took.                                                     *)

headline == <<results, cheapest, best>>
vars     == <<snapshot, row, step, source, levels, turn, reference, targets, variant,
              book, headline>>

Empty == [side \in Side |-> << >>]
Depth == Depths[row]

SweepLevel(side, level) == [side |-> side, price |-> level.price, qty |-> level.quantity]

Nth(ladder, rank) ==
  IF rank >= Len(ladder) THEN Level(NoPrice, 0) ELSE ladder[Len(ladder) - rank]

QuantityAt(b, side, price) ==
  LET at == SelectInSeq(b[side], LAMBDA level : level.price = price)
  IN  IF at = 0 THEN 0 ELSE b[side][at].quantity

Init ==
  /\ snapshot \in Snapshots
  /\ row = 1 /\ step = "build" /\ source = "SYNTHETIC"
  /\ levels = << >> /\ turn = 0
  /\ reference = Empty /\ targets = << >>
  /\ variant = 1 /\ book = Empty
  /\ results = << >> /\ cheapest = 0 /\ best = 0

-----------------------------------------------------------------------------
(***************************************************************************)
(* The levels of a row, each side from its worst level to its best.        *)
(***************************************************************************)
SnapshotDepthOfDeeper ==     \* mutant: the deeper side decides
  IF Len(snapshot["buy"]) >= Len(snapshot["sell"])
    THEN Len(snapshot["buy"]) ELSE Len(snapshot["sell"])

SnapshotDepth ==
  IF Len(snapshot["buy"]) <= Len(snapshot["sell"])
    THEN Len(snapshot["buy"]) ELSE Len(snapshot["sell"])

RealLevels(depth) ==
  LET down(side) == [p \in 1 .. depth |-> SweepLevel(side, Nth(snapshot[side], depth - p))]
  IN  down("buy") \o down("sell")

OffsetUp(depth, p) == p             \* mutant: each side from its best level
OffsetDown(depth, p) == depth - p + 1

SyntheticLevels(depth, qty) ==
  [p \in 1 .. depth |->
     SweepLevel("buy", Level(Mid - OffsetDown(depth, p), qty[p]))] \o
  [p \in 1 .. depth |->
     SweepLevel("sell", Level(Mid + OffsetDown(depth, p), qty[depth + p]))]

BuildLevels ==
  /\ step = "build"
  /\ \/ /\ Depth <= SnapshotDepth
        /\ source' = "LOBSTER"
        /\ levels' = RealLevels(Depth)
     \/ /\ Depth > SnapshotDepth
        /\ source' = "SYNTHETIC"
        /\ \E qty \in [1 .. 2 * Depth -> Sizes] : levels' = SyntheticLevels(Depth, qty)
  /\ step' = "reference" /\ turn' = 0 /\ reference' = Empty
  /\ UNCHANGED <<snapshot, row, targets, variant, book, headline>>

-----------------------------------------------------------------------------
(***************************************************************************)
(* populate: one add per turn, wherever the level belongs in its ladder.   *)
(***************************************************************************)
AddTo(b, l) ==
  LET ladder == b[l.side]
      at     == SelectInSeq(ladder, LAMBDA level : level.price = l.price)
      worse  == {k \in DOMAIN ladder : Before(l.side, ladder[k].price, l.price)}
  IN  IF at # 0
        THEN [b EXCEPT ![l.side][at].quantity = @ + l.qty]
        ELSE [b EXCEPT ![l.side] =
                InsertAt(@, Cardinality(worse) + 1, Level(l.price, l.qty))]

PopulateReference ==
  /\ step = "reference"
  /\ IF turn < Len(levels)
       THEN /\ reference' = AddTo(reference, levels[turn + 1])
            /\ turn' = turn + 1
            /\ UNCHANGED <<step, targets>>
       ELSE /\ step' = "targets" /\ turn' = 0 /\ targets' = << >>
            /\ UNCHANGED reference
  /\ UNCHANGED <<snapshot, row, source, levels, variant, book, headline>>

Populate ==
  /\ step = "populate"
  /\ IF turn < Len(levels)
       THEN /\ book' = AddTo(book, levels[turn + 1])
            /\ turn' = turn + 1
            /\ UNCHANGED step
       ELSE step' = "measure" /\ UNCHANGED <<book, turn>>
  /\ UNCHANGED <<snapshot, row, source, levels, reference, targets, variant, headline>>

-----------------------------------------------------------------------------
(***************************************************************************)
(* build_targets: sides alternate, one target per turn, and an offset      *)
(* beyond the ladder is its last rank.  An empty side has no target.       *)
(***************************************************************************)
RankUnclamped(offset, ladder) == \* mutant: one past the last rank is let through
  IF offset > Len(ladder) THEN Len(ladder) - 1 ELSE offset

RankFor(offset, ladder) ==
  IF offset >= Len(ladder) THEN Len(ladder) - 1 ELSE offset

TargetOf(side, offset) ==
  [side |-> side, price |-> Nth(reference[side], RankFor(offset, reference[side])).price]

BuildTargets ==
  /\ step = "targets"
  /\ IF turn < Lookups
       THEN LET side == IF turn % 2 = 0 THEN "buy" ELSE "sell"
            IN  /\ \E offset \in Offsets :
                     targets' = IF reference[side] = << >> THEN targets
                                ELSE Append(targets, TargetOf(side, offset))
                /\ turn' = turn + 1
                /\ UNCHANGED <<step, variant, book>>
       ELSE /\ step' = "populate" /\ turn' = 0 /\ variant' = 1 /\ book' = Empty
            /\ UNCHANGED targets
  /\ UNCHANGED <<snapshot, row, source, levels, reference, headline>>

-----------------------------------------------------------------------------
(***************************************************************************)
(* measure_lookups reads the book only; the next variant has a new book.   *)
(* Then the headline: one result per turn.                                 *)
(***************************************************************************)
MeasureLookups ==
  /\ step = "measure"
  /\ \E figure \in {NoReading} \cup (IF targets = << >> THEN {0} ELSE Cycles) :
       results' = Append(results, figure)
  /\ book' = Empty /\ turn' = 0
  /\ \/ variant < Variants /\ variant' = variant + 1 /\ step' = "populate"
     \/ variant = Variants /\ step' = "headline" /\ UNCHANGED variant
  /\ UNCHANGED <<snapshot, row, source, levels, reference, targets, cheapest, best>>

(* cyc_per_op: zero where there is no reading.                             *)
Figure(v) == IF results[v] = NoReading THEN 0 ELSE results[v]

CheaperOfAll(v) ==           \* mutant: a missing reading counts as no cycles
  cheapest = 0 \/ Figure(v) < best

Cheaper(v) == results[v] # NoReading /\ (cheapest = 0 \/ Figure(v) < best)

FindCheapest ==
  /\ step = "headline" /\ turn < Variants
  /\ turn' = turn + 1
  /\ IF Cheaper(turn + 1)
       THEN cheapest' = turn + 1 /\ best' = Figure(turn + 1)
       ELSE UNCHANGED <<cheapest, best>>
  /\ UNCHANGED <<snapshot, row, step, source, levels, reference, targets, variant, book,
                 results>>

(* The figures of the row in the table: whether there are any is decided   *)
(* by the first variant.                                                   *)
Table == IF results[1] = NoReading THEN << >> ELSE [v \in DOMAIN results |-> Figure(v)]

NextRow ==
  /\ step = "headline" /\ turn = Variants
  /\ \/ row < Len(Depths) /\ row' = row + 1 /\ step' = "build"
     \/ row = Len(Depths) /\ step' = "done" /\ UNCHANGED row
  /\ results' = << >> /\ cheapest' = 0 /\ best' = 0
  /\ UNCHANGED <<snapshot, source, levels, turn, reference, targets, variant, book>>

Next ==
  \/ BuildLevels \/ PopulateReference \/ BuildTargets
  \/ Populate \/ MeasureLookups \/ FindCheapest \/ NextRow

Spec == Init /\ [][Next]_vars

-----------------------------------------------------------------------------
(* What is in a book stays where it is. *)
OnlyAppends == \A side \in Side : /\ IsPrefix(reference[side], reference'[side])
                                 /\ IsPrefix(book[side], book'[side])

(***************************************************************************)
(* Populating only appends: the contiguous variants "push onto the hot end *)
(* instead of shifting the whole array each insert" (sweep.hpp:89-91),     *)
(* with levels from either source.                                         *)
(***************************************************************************)
AppendsOnly == [][turn' > turn => OnlyAppends]_vars

(***************************************************************************)
(* "the same target prices are valid for all of them" (sweep.hpp:142-145): *)
(* in the book each variant is measured on, every target finds the level   *)
(* of the reference it was drawn from, and the book is as deep as the row  *)
(* says on both sides.                                                     *)
(***************************************************************************)
EveryTargetRests ==
  step = "measure" =>
    /\ \A side \in Side : Len(book[side]) = Depth
    /\ Len(targets) = Lookups
    /\ \A k \in 1 .. Len(targets) :
         LET found == QuantityAt(book, targets[k].side, targets[k].price)
         IN  found > 0 /\ found = QuantityAt(reference, targets[k].side, targets[k].price)

(***************************************************************************)
(* A row labelled LOBSTER measures the top of the real book and nothing    *)
(* else, "so a reader never mistakes a synthetic deep book for a real one" *)
(* (sweep.hpp:18-22): on each side the reference, once filled, is the end  *)
(* of the snapshot's ladder.                                               *)
(***************************************************************************)
RealRowsAreReal ==
  source = "LOBSTER" /\ step \notin {"build", "reference"} =>
    \A side \in Side : IsSuffix(reference[side], snapshot[side])

(***************************************************************************)
(* The headline of a row: the variant it names was measured, none that was *)
(* measured took fewer cycles, and it is in doubt only if none was, also   *)
(* when some readings of the row failed and others did not.  The figures   *)
(* beside it are those of the readings; but where the first variant was    *)
(* read and another was not, that other's figure is zero and so below the  *)
(* headline's (sweep.hpp:297-318).                                         *)
(***************************************************************************)
CheapestIsLeast ==
  step = "headline" /\ turn = Variants =>
    LET read == {v \in 1 .. Variants : results[v] # NoReading}
    IN  /\ read = {} <=> cheapest = 0
        /\ read # {} => /\ cheapest \in read
                        /\ \A v \in read : results[cheapest] <= results[v]
        /\ \A v \in DOMAIN Table :
             Table[v] = results[v] \/ (v \notin read /\ v # 1 /\ Table[v] < Table[cheapest])
=============================================================================
