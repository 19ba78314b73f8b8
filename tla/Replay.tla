------------------------------- MODULE Replay -------------------------------
(***************************************************************************)
(* The replay of an event stream (bench/replay.hpp): where the events come *)
(* from, how apply drives a book with them, and what analyse says of them. *)
(* The book is the reference variant, BookMap, through which               *)
(* ContiguousBook shows the other three.  The driver                       *)
(* (bench/benchmark_main.cpp) replays the stream twice, on a warm up book  *)
(* through apply and on the measured book through a switch of its own.     *)
(*                                                                         *)
(* The program has the whole stream before it analyses and replays it.     *)
(* Neither source looks at a book, so here an event is drawn, counted and  *)
(* applied to both books in one step, and each state is the end of a       *)
(* possible stream.                                                        *)
(***************************************************************************)
EXTENDS BookMap

CONSTANTS
  Sources,    (* Where a stream may come from: "synthetic", "lobster".     *)
  MaxAdds,    (* Most submissions in a stream.                             *)
  Mid,        (* The price the synthetic orders lie around.                *)
  PreWindow   (* Ids of orders submitted before a LOBSTER file begins.     *)

ASSUME SourcesAssumption == Sources \subseteq {"synthetic", "lobster"}
ASSUME IdsAssumption    == Ids = (1 .. MaxAdds) \cup PreWindow
ASSUME AddsAssumption   == MaxAdds \in Nat
ASSUME WindowAssumption == PreWindow \cap (1 .. MaxAdds) = {}

VARIABLES
  source,    (* Where the stream comes from.                               *)
  resting,   (* The generator's live list: the orders the stream leaves.   *)
  before,    (* The orders from before the window that still rest.         *)
  adds,      (* stats.add_count; next_id is one more.                      *)
  live,      (* analyse: submissions minus deletions.                      *)
  peak,      (* analyse: the largest live, peak_live_estimate.             *)
  missed,    (* History: an event's order rests and the index missed it.   *)
  timedBids, timedAsks, timedSlots, timedOrders   (* The measured book.    *)

bookVars   == vars
timedVars  == <<timedBids, timedAsks, timedSlots, timedOrders>>
replayVars == <<bookVars, timedVars, source, resting, before, adds, live, peak, missed>>

Timed == INSTANCE BookMap WITH bids <- timedBids, asks <- timedAsks,
                               slots <- timedSlots, orders <- timedOrders

Event(type, id, size, price, direction) ==
  [type |-> type, id |-> id, size |-> size, price |-> price, direction |-> direction]

Direction(side) == IF side = "buy" THEN 1 ELSE -1

ReplayInit ==
  /\ Init /\ Timed!Init
  /\ source \in Sources
  /\ resting = << >>
  /\ before = IF source = "lobster" THEN PreWindow ELSE {}
  /\ adds = 0
  /\ live = 0 /\ peak = 0
  /\ missed = FALSE

-----------------------------------------------------------------------------
(***************************************************************************)
(* apply: one event drives the book.                                       *)
(***************************************************************************)
ApplySkipsType2(e) ==      \* mutant: partial cancellations are not replayed
  \/ /\ e.type = 1
     /\ Add(e.id, IF e.direction = 1 THEN "buy" ELSE "sell", e.price, e.size)
  \/ e.type = 4 /\ Reduce(e.id, e.size)
  \/ e.type = 3 /\ Cancel(e.id)
  \/ e.type \notin {1, 3, 4} /\ UNCHANGED bookVars

ApplyHidden(e) ==          \* mutant: a hidden execution takes from the book
  \/ /\ e.type = 1
     /\ Add(e.id, IF e.direction = 1 THEN "buy" ELSE "sell", e.price, e.size)
  \/ e.type \in {2, 4, 5} /\ Reduce(e.id, e.size)
  \/ e.type = 3 /\ Cancel(e.id)
  \/ e.type \notin {1, 2, 3, 4, 5} /\ UNCHANGED bookVars

Apply(e) ==
  \/ /\ e.type = 1
     /\ Add(e.id, IF e.direction = 1 THEN "buy" ELSE "sell", e.price, e.size)
  \/ e.type \in {2, 4} /\ Reduce(e.id, e.size)
  \/ e.type = 3 /\ Cancel(e.id)
  \/ e.type \notin {1, 2, 3, 4} /\ UNCHANGED bookVars

(***************************************************************************)
(* The timed switch of run_variant.                                        *)
(***************************************************************************)
MeasureExecutionCancels(e) ==  \* mutant: case 4 joins case 3
  \/ /\ e.type = 1
     /\ Timed!Add(e.id, IF e.direction = 1 THEN "buy" ELSE "sell", e.price, e.size)
  \/ e.type = 2 /\ Timed!Reduce(e.id, e.size)
  \/ e.type \in {3, 4} /\ Timed!Cancel(e.id)
  \/ e.type \notin 1 .. 4 /\ UNCHANGED timedVars

Measure(e) ==
  \/ /\ e.type = 1
     /\ Timed!Add(e.id, IF e.direction = 1 THEN "buy" ELSE "sell", e.price, e.size)
  \/ e.type \in {2, 4} /\ Timed!Reduce(e.id, e.size)
  \/ e.type = 3 /\ Timed!Cancel(e.id)
  \/ e.type \notin 1 .. 4 /\ UNCHANGED timedVars

(***************************************************************************)
(* analyse: one turn of its loop.                                          *)
(***************************************************************************)
AnalyseExecutions(e) ==    \* mutant: every execution counts as a deletion
  /\ adds' = IF e.type = 1 THEN adds + 1 ELSE adds
  /\ live' = CASE e.type = 1 -> live + 1 [] e.type \in {3, 4} -> live - 1
               [] OTHER -> live
  /\ peak' = IF live' > peak THEN live' ELSE peak

Analyse(e) ==
  /\ adds' = IF e.type = 1 THEN adds + 1 ELSE adds
  /\ live' = CASE e.type = 1 -> live + 1 [] e.type = 3 -> live - 1 [] OTHER -> live
  /\ peak' = IF live' > peak THEN live' ELSE peak

(***************************************************************************)
(* What the event means for the orders that rest.                          *)
(***************************************************************************)
Outcome(e) ==
  /\ resting' = CASE e.type = 1 ->
                       With(resting, e.id,
                            Order(IF e.direction = 1 THEN "buy" ELSE "sell", e.price, e.size))
                  [] e.type = 3 -> Without(resting, e.id)
                  [] e.type \in {2, 4} /\ e.id \in DOMAIN resting ->
                       Reduced(resting, e.id, e.size)
                  [] OTHER -> resting
  /\ before' = IF e.type = 3 THEN before \ {e.id} ELSE before
  /\ missed' = (missed \/ /\ e.type \in {2, 3, 4} /\ e.id \in DOMAIN resting
                          /\ ~FindIn(slots, e.id))

Replayed(e) == Apply(e) /\ Measure(e) /\ Analyse(e) /\ Outcome(e) /\ UNCHANGED source

-----------------------------------------------------------------------------
(***************************************************************************)
(* The events of the sources.  make_synthetic_stream submits orders under  *)
(* consecutive ids and executes or deletes only orders on its live list;   *)
(* it submits whenever the list is empty, and any share of the time.       *)
(***************************************************************************)
Quoted(side) ==
  IF source = "synthetic"
    THEN {p \in Prices : IF side = "buy" THEN p < Mid ELSE p > Mid}
    ELSE Prices

Submit(side, price, size) ==
  /\ adds < MaxAdds
  /\ source = "synthetic" => size > 0
  /\ price \in Quoted(side)
  /\ Replayed(Event(1, adds + 1, size, price, Direction(side)))

EventOn(type, x, size) ==
  Event(type, x, size, resting[x].price, Direction(resting[x].side))

Execute(x) ==
  \E cut \in 1 .. resting[x].remaining : Replayed(EventOn(4, x, cut))

Delete(x) == Replayed(EventOn(3, x, resting[x].remaining))

Synthetic ==
  \/ \E side \in Side, price \in Prices, size \in Sizes : Submit(side, price, size)
  \/ \E x \in DOMAIN resting : Execute(x) \/ Delete(x)

(***************************************************************************)
(* A LOBSTER message file has every type, and refers to orders from before *)
(* its window as well.                                                     *)
(***************************************************************************)
CancelPart(x) ==
  \E cut \in 1 .. resting[x].remaining - 1 : Replayed(EventOn(2, x, cut))

BeforeWindow(x) ==
  \E type \in {2, 3, 4}, size \in Sizes, price \in Prices, direction \in {1, -1} :
    Replayed(Event(type, x, size, price, direction))

(* A row cut short after the id: the loader leaves its size at zero.       *)
CutShort(x) == \E type \in {2, 4} : Replayed(EventOn(type, x, 0))

(* Executions of hidden orders, and halts.  They may name a resting id. *)
Hidden ==
  \E type \in {5, 7}, x \in DOMAIN resting, size \in Sizes :
    Replayed(EventOn(type, x, size))

Lobster ==
  \/ Synthetic
  \/ \E x \in DOMAIN resting : CancelPart(x)
  \/ \E x \in before : BeforeWindow(x)
  \/ \E x \in DOMAIN resting : CutShort(x)
  \/ Hidden

ReplayNext ==
  \/ source = "synthetic" /\ Synthetic
  \/ source = "lobster" /\ Lobster

ReplaySpec == ReplayInit /\ [][ReplayNext]_replayVars

-----------------------------------------------------------------------------
(***************************************************************************)
(* The book is the one the stream describes, order by order and level by   *)
(* level, for as long as the index finds the orders the events name:       *)
(* apply maps the types to the right calls, hidden executions and halts    *)
(* leave the book alone, and so do events from before the window           *)
(* (replay.hpp:49-69).                                                     *)
(***************************************************************************)
ExactUntilMissed ==
  ~missed => /\ orders = resting
             /\ \A side \in Side, price \in Prices :
                  QuantityAt(side, price) = Resting(resting, side, price)

(***************************************************************************)
(* The measured book is the book that is warmed up and tested, slot for    *)
(* slot and event after event, calls that miss included: "divergence in    *)
(* this mapping would make the variant comparison meaningless"             *)
(* (replay.hpp:46-48, benchmark_main.cpp:126-152).                         *)
(***************************************************************************)
MeasuredIsWarm == timedVars = bookVars

(***************************************************************************)
(* Whatever the index misses, the book never shows less than what rests:   *)
(* each order of the stream is held with at least what remains of it, so   *)
(* every price shows at least its quantity, and the best prices shown are  *)
(* at least as good as those of which anything rests.                      *)
(***************************************************************************)
NeverUnderstates ==
  /\ \A x \in DOMAIN resting :
       /\ x \in DOMAIN orders
       /\ orders[x].side = resting[x].side /\ orders[x].price = resting[x].price
       /\ orders[x].remaining >= resting[x].remaining
  /\ \A side \in Side, price \in Prices :
       QuantityAt(side, price) >= Resting(resting, side, price)
  /\ \A x \in DOMAIN resting :
       resting[x].remaining > 0 =>
         ~Better(resting[x].side, resting[x].price, Nth(resting[x].side, 0).price)

(***************************************************************************)
(* peak_live_estimate is never less than the number of orders that rest at *)
(* once: it "counts adds minus full deletions, which overestimates", "the  *)
(* safe direction for a capacity hint" (replay.hpp:71-74).  A LOBSTER      *)
(* file's deletions of orders from before the window are subtracted        *)
(* without ever having been added.                                         *)
(***************************************************************************)
PeakIsUpperBound == peak >= Cardinality(DOMAIN resting)

(* The same of a synthetic stream, which only deletes what it submitted    *)
(* (replay.hpp:206-214): there the estimate is the bound it is said to be. *)
SyntheticPeak == source = "synthetic" => PeakIsUpperBound
=============================================================================
