# A verification of orderbook-latency-study

The repository compares four implementations of a limit order book, driven by the
same stream of events. Its premise is that all four hold the same book: "if this
fails, any latency difference is between two different books and means nothing"
(`tests/test_book_equivalence.cpp:1-3`). These modules state what each part of the
program promises, check it with TLC on small instances, and prove its safety
properties with TLAPS for every value of the constants.

Paths below are relative to the repository. The program is single threaded. What
is hard in it is long sequences of legal calls, cyclic and boundary arithmetic, and the
four books agreeing while an index all of them share is in a state nobody tested. Its
measurements add what the machine does meanwhile: steps that fail one by one, and an
operating system that moves or interrupts the thread between two reads of a clock.

## The system

| Part | State | Operations | Talks to |
| --- | --- | --- | --- |
| `OrderIndex` (`include/obls/order_index.hpp`) | a slab of slots (`slots_`), `size_` | `insert`, `find`, `erase` by backward shift | owned by every book |
| `BookMap` (`book_map.hpp`), variant A | two maps price -> quantity, an index | `add`, `cancel`, `reduce`; `best_bid/ask`, `quantity_at`, `nth`, `depth` | index |
| `BookLinear`, `BookSortedVector`, `BookBranchless`, variants B, C, D | two sorted vectors of levels, best at the back, an index | as above; `locate` differs | index |
| Replay (`bench/replay.hpp`) | the event stream | `apply`, `analyse`, `make_synthetic_stream`, `load_lobster_messages` | calls a book; its estimate sizes the index |
| Percentiles (`bench/percentiles.hpp`) | a buffer of samples | `record`, `clear`, `compute` | the driver |
| Driver (`bench/benchmark_main.cpp`) | options, events, their label; a warm up book, a measured book, four buffers | choice of the data, `pin_to_core`, `run_variant` | all of the above |
| Depth sweep (`bench/sweep.hpp`) | levels, targets, one book per variant, the readings of a row | `populate`, `build_targets`, `measure_lookups`, the headline | books, counters |
| Counters (`bench/perf_counters.hpp`) | kernel handles | configure, start, stop, read, tear down | kernel |
| Clock (`bench/clock.hpp`) | the rate, two flags | `calibrate`, `read` | counter of the core, steady clock |

What makes each part correct:

* index: a stored order is found, an unknown one is not; no call loses, doubles or
  miscounts a record; every call returns; the load stays within what the probes need;
* books: the quantity of a level is the sum of the orders resting on it, and there
  is no level without an order; cancel and reduce do to the named order what they say;
* vectors: sorted; the three searches have one answer and stay within the vector;
* variants: after the same calls all show the same ladder, rank for rank;
* replay: the book is the one the stream describes; the peak estimate is an upper bound;
* percentiles: the nearest rank of what was recorded;
* counters: what was acquired is released, whichever step failed; a reading is of the
  bracketed interval;
* loader: an event is its own row; clock: a sample is the time between its reads whenever
  the header reports `rdtscp`, a pinned core and an invariant counter;
* driver: the data are what the label says, and a report accounts for every event; sweep:
  all variants are measured on one book, and the headline is the least of the readings.

## The modules

| Module | Stands for |
| --- | --- |
| `OpenAddressing` | capacity, probe step, `in_range` of the index; the constants and their assumptions |
| `OrderMap` | abstract: what the index promises its callers, with no table |
| `OrderIndex` | the index, one action per turn of its loops |
| `OrderIndexCalls` | the same calls as operators that take one step, for the books |
| `RecallingIndex` | `OrderIndex` with a history variable, to compare it with `OrderIndexCalls` |
| `OrderIndexProofs` | theorems about both |
| `BookLemmas` | lemmas about the calls of `OrderIndexCalls`, about sums, and two principles of induction |
| `Orders` | order records and collections of them |
| `OrderBook` | abstract: what every book variant promises of each call, with neither index nor levels |
| `BookMap` | variant A over `OrderIndexCalls`; reference for the others |
| `RecallingBook` | `BookMap` with a history variable, the last call, to compare it with `OrderBook` |
| `ContiguousBook`, `ContiguousBookProofs` | variants B, C and D, their searches one loop turn at a time |
| `Replay`, `ReplayProofs` | `apply`, `analyse`, the sources of events and the two passes of `run_variant`, over `BookMap`; theorems about both |
| `Loader` | `load_lobster_messages`, row by row |
| `Clock` | `Timer` and `pin_to_core`, with the scheduler and the passing of time |
| `Driver`, `DriverProofs` | `main` and `run_variant`, over `Loader` and `Clock`; theorems about all three |
| `Sweep`, `SweepProofs` | the depth sweep, row by row and variant by variant |
| `PerfCounters`, `PerfCountersProofs` | both backends of the counters, from constructor to destructor, object after object |
| `Percentiles`, `PercentilesProofs` | the sample buffer and its selections, one percentile at a time |
| `MC*` | constants and hash functions for TLC |

They compose so:

    OrderMap <--refines-- OrderIndex --computes--> OrderIndexCalls
                                                         ^
    OrderBook <--refines-- RecallingBook --extends--> BookMap
                                                         ^
                                                         +--refined by-- ContiguousBook
                                                         +--extended by-- Replay
                                                              (and a second, measured BookMap)

    Loader <--+
              +--extended by-- Driver
    Clock  <--+

`Driver` counts the calls that `Replay` makes on the books: which event becomes which
call, and what it does, is there; which events there are, how often and between which
reads they are replayed is here. `Sweep` and `PerfCounters` stand alone: the sweep only
ever adds, so a book is its ladder there, and the counters never look at a book. Driver
and sweep rely on what `ReadingIsInterval` says of a reading, and no more.

**OrderIndex.** `slots`, `size` are `slots_`, `size_`; `pc` is the loop that runs,
`arg`, `i`, `hole`, `j` the locals. A call is a `Call...` action followed by loop
actions and ends when `pc` is `"idle"`. The record that travels with an id moves
with it, so the id stands for it. `slot_for` is the constant function `Home`: every
hash is allowed. The build is the default one (Release), in which the `assert` of
`insert` is compiled out. `live` and
`intact` are history variables: the orders the caller regards as live, and whether a
removal has yet met an occupied following slot.

**BookMap.** One action per member function; the index is its slots and the records
of the ids they store. The early return for an unknown id is `Unknown`. `OrderBook` says of
each call what becomes of the order it names, so `RecallingBook` adds the name and the
arguments of the last call to the book. `Reach` are the orders a plain walk from their home
comes upon; a call takes effect exactly on those, and a cancel or reduce that names another
does nothing. Quantities may be zero, as they are in a row that is cut short.

**ContiguousBook.** The three classes share every line but `locate`, so the variable
`search`, chosen at the start and never changed, says which class runs. A definition
common to the three is mapped to one of its three copies. `lower_bound` is a library
call and takes one step; the scan and the halving take one per turn, which the history
variable `turns` counts. The x86 and the
portable form of the branchless select are the same action. Calls on the index take
one step each, which `LoopsComputeCalls` justifies. Index `k` of a vector is position
`k + 1` of a sequence.

**Replay.** The program has the whole stream before it analyses and replays it.
Neither source looks at a book, so an event is drawn, counted and applied in one
step, and each state is the end of a possible stream. `resting` is the generator's
`live` list: what truly rests. Random choices are choices of `\E`. In a LOBSTER file
events may also name orders submitted before the file begins (`PreWindow`), which
the book has never seen. A row that is cut short keeps a quantity of zero, for any type
(`CutShort`). The driver replays the stream twice, through `apply` on a
book that is thrown away and through a switch of its own on the book it measures; the
`timed...` variables are that second book. Neither reads the other, so the two passes
run in lockstep here.

**Percentiles.** `nth_element` is any rearrangement its contract allows. The doubles
of `rank` are exact fractions in the model; a direct comparison of both over buffers
of up to three million samples finds no difference.

**Sweep.** `row` and `variant` are the two loops of `run_depth_sweep`, `step` is the
place in the body and `turn` counts the turns of the loop that runs there: levels added,
targets drawn, results compared. Drawn quantities and offsets are choices; the real book is
one of a set, since how it comes about is the subject of `Replay`. `results` are the figures
of the variants measured so far, any of which may be missing (`NoReading`); `cheapest` and
`best` are the locals of the loop that looks for the headline, which `Table` prints with them.

**Loader.** One row per turn of `ReadRow`. `Junk` is a field `from_chars` makes no number
of, also because it is empty, missing or too large. `EventsOf` says the same of a whole file
at once: its n-th event is the n-th row kept, and neither row before it nor after it matters.

**Clock.** `step` is the next read of the timer. `Tick` is the passing of time and
`Migrate` the scheduler; both can happen between any two steps of an interval. Only
differences between reads are used, so time is counted from the first read of the interval
under way, and none passes outside one. The counter of core `c` is ahead by `Skew[c]`, all
arithmetic is modulo `Width`, and a counter that is not invariant may run at twice its rate.
`stays` is what the kernel did, `pinned` what the program was told. One unit of time is
one tick of an invariant counter, so that a rate is right when ticks equal time. The steady
clock moves in ticks of its own, `Grain` units long (`docs/methodology.md:40-46`), and an interval may
begin anywhere in one (`phase`). A timer that has fallen back on it rounds every sample to such
ticks; the header then warns that the timings are too high to trust (`benchmark_main.cpp:292-296`),
and accordingly no property promises anything of them: `Trusted` is `rdtscp`, pinned and invariant.

**Driver.** `pc` is the place in `main` and `run_variant`. Command lines and the contents
of the disk are members of small sets, chosen at the start. `calls` counts the calls on the
books of a variant, which is what the counters see of them; best bid and best ask, read
together, are one call. A sample's value is not kept: `SamplesAreTime` speaks of it at the
moment of the second read.

**PerfCounters.** `pc` walks through the constructor one acquisition at a time, each of
which may fail, through any number of measurements, and through the destructor; then the
next object is constructed, as the program does for its probe and for each variant. `held`
is what the process and the kernel hold, `noted` the members `forced_` and `counting_`.
Calls of the symbol loader, and the five events that are added, that fail without
having acquired anything are one step.

Definitions marked *mutant* are plausible bugs, each with its origin directly below
it; no specification uses them. They show that each property depends on the code.

## The runs

| Run | Instance | Shows |
| --- | --- | --- |
| `index` | 4 ids, 8 slots, homes that collide and wrap around the end | `TypeOK`, `OneSlotEach`, `LiveKept`, `SizeCounts`, `IntactFindable`, `FindIsExact`, `InsertKeepsFindable`; a shift moves an entry exactly when its home lies in the code's cyclic interval, across the wrap as elsewhere (`ShiftGoesRound`); `OrderIndex` refines `OrderMap`; the loops compute the one step operators (`LoopsComputeCalls`); every probe and shift ends (`EveryCallReturns`) |
| `index_findable` | 4 ids, 8 slots; **violation** | a live order that cannot be found |
| `index_full` | 5 ids, 2 live at most, hint 2, so 4 slots; **violation** | a probe that does not end, in a slab that has filled |
| `map_book` | 3 ids, 2 prices, sizes 0, 1 and 2 | `LevelsAreSums`; each call does to the order it names what `OrderBook` says (`ImplementsBook`) |
| `contiguous` | 3 ids, 3 prices, sizes 0 and 1, the 3 searches | `Sorted`, `SearchInBounds`, `LocateIsExact`, `SameReads`, refines `BookMap`; no search takes more turns than its vector has levels (`SearchesAreShort`) |
| `replay` | 3 submissions, sizes 0 to 3; LOBSTER also with 1 order from before | `ExactUntilMissed`, `NeverUnderstates`, `MeasuredIsWarm`; for synthetic streams `SyntheticPeak` |
| `replay_peak` | LOBSTER only; **violation** | the estimate is no bound on LOBSTER streams |
| `percentiles` | up to 10 samples of 2 values | `NearestRank`, the ends included |
| `perf_counters` | 2 backends, 3 events to count, 2 objects | `AllOrNothing`, `ReadingIsInterval`, `NothingElseOutlives`, `ReleasedInOrder` |
| `perf_counters_unread` | as before; **violation**, in the Apple backend | a read that failed is reported as available |
| `sweep` | depths 1, 2, 3; 5 real books; 4 variants; 2 lookups | `AppendsOnly`, `EveryTargetRests`, `RealRowsAreReal`; the headline is right when readings fail (`CheapestIsLeast`) |
| `driver` | 6 command lines, 4 disks, 2 cores, 2 variants, streams of up to 3 events | `RowsKeepTheirFields`, `OneAllocation`, `SourceIsNamed`, `SamplesAreTime`, `CalibrationIsClose`, `ReportAccountsForEvents`; `ProgramEnds` |

**Bounds.** Two or three ids with one home, and others whose homes lie next to it, give
probe runs of three and more and removals of an order that others come after, which is what the
backward shift is about. Homes start in the last slot, so runs and shifts wrap around. A
record can be held that the caller regards as removed (a *ghost*), so ids, not only
live orders, bound what a table holds: every instance but those of the violations
has more slots than ids. `index_full` has more ids than slots, on purpose: a caller that never has more
than `Hint` orders live fills it with ghosts. Three prices a side give the halving vectors of
length 1, 2 and 3, odd and even, and insertion at the front, in the middle and at
the back. Sizes 1 and 2 (3 in the replay) let a reduce take a part, all, or more
than what remains; size 0 is that of a row cut short. `contiguous` has sizes 0 and 1, with which a level
of two orders loses one, or both, or nothing; orders that shrink without leaving are in `map_book`, which it refines. Ten samples are the fewest for which p50, p90 and the maximum
are three ranks. `MaxHeld` and `MaxLive` limit what a caller keeps, `MaxAdds` the
submissions of a stream, `MaxSamples` is the reserved capacity. `MaxWork` = 3 events
suffice for one before, one within and one after a measured interval, or in two
successive ones. The sweep's real books have none, one, two or three levels a side, so
that some rows are real, some are not, and the deeper side is now the bids and now the
asks; offsets go up to the deepest rank and beyond it. Two cycle figures and a missing one,
over four variants, give every order and every tie. `MaxObjects` = 2 shows what one object
leaves to the next. The files of `driver` have rows of each type, rows cut short after the
time and after the type, blank ones, ones with letters for a number and with a field too
many, next to one another, with and without a last newline; the options each occur, with a
file, without one and without the default file. `MaxGap` bounds the time between two steps
of the program; with one tick of the steady clock (`Grain` = 2 units, so that a read may fall
within one) it is no more than `Target`, so that a calibration takes several turns of its loop;
`MaxTime` is beyond what an interval can then last and only keeps a mutated loop finite.
`Width` is more than twice that. A second variant shows what a first one leaves behind.

**Symmetry.** `contiguous` gives all orders one home, so they are interchangeable.
No liveness is checked under symmetry.

**Deadlock.** The replay runs switch the check off: a stream may end. So do
`perf_counters`, whose last object is destroyed, and `sweep` and `driver`, which return.

**Fairness.** The only fairness assumed is weak fairness of the steps inside a call:
one thread runs and a call that has started goes on. No caller is obliged to call. `index_full`
runs under it as well: its probe goes on for ever although no step is denied to it. In
`driver` it is the whole program that goes on, and time passes; nothing is assumed of the
scheduler, which may move an unpinned thread for ever. Weak fairness of `Tick` is needed:
the calibration loop waits for a clock, and ends for no other reason.

## What the runs found

1. `erase` has its test the wrong way round (`order_index.hpp:89`). Backward shift
   moves an entry into the hole unless its home lies in the cyclic interval
   (hole, cur]; the code moves it if the home does lie there. After the removal of an
   order that others of its probe run come after, these may be out of reach.
   The abstract map with `MayDegrade = FALSE` is therefore not implemented; with
   `MayDegrade = TRUE` it is. A cancel or reduce of such an order is silently ignored,
   and its record and its quantity stay in the book. The equivalence test does not see
   it: all variants share the index, so all miss the same events.
2. Such records add up. A caller that keeps to its hint passes the load that the assertion of
   `order_index.hpp:45` allows; in the default build, which has no assertions, the slab then fills, and
   a probe for an id that it does not hold goes round for ever (`index_full`), where
   `order_index.hpp:32-34` says that probe sequences stay short.
3. `peak_live_estimate` is documented as an overestimate, but deletions of orders
   from before a file's window lower it (`replay.hpp:71-74`, `84`).
4. The thread's counters are read without a look at the result (`perf_counters.hpp:428-431`).
   When a read fails, the difference is taken with a count of zero or an old one, and the reading
   is still called available, where `perf_counters.hpp:177-179` says that the subtraction attributes
   the counts to exactly the work under test (`perf_counters_unread`). `ReadingIsInterval` speaks of the reads that
   did not fail.

A smaller remark: a hint that is a power of two lets the load reach exactly one half,
where `order_index.hpp:32-34` says below it. Others: when `set_counting_` succeeds and
`set_thread_counting_` fails, `teardown` leaves counting on (`perf_counters.hpp:394`),
the one exception `NothingElseOutlives` names; and a single
variant whose reading is unavailable is printed as zero in the sweep's table, where
`sweep.hpp:32-34` speaks of blank columns (`sweep.hpp:311`), the exception in
`CheapestIsLeast`. A file whose last row has no newline may take a second allocation
(`replay.hpp:121-128`), the exception in `OneAllocation`. Two rows of type 1 that are cut
short both add order zero, which the index does not expect. One such row leaves a level of
quantity zero in the book until the next call at its price, while `types.hpp:21-23`
takes a quantity of zero to mean that the level is absent. A thread held up for longer than
the target between the first two reads of `calibrate` gets an arbitrarily low rate
(`clock.hpp:44-45`), which `MaxGap + Grain <= Target` excludes. With no path the program does not
fall back to synthetic data, as the repository's README says, but reads the AAPL sample below
`OBLS_DATA_DIR` if it is there (`benchmark_main.cpp:242-247`); the header names it.

What holds nonetheless, and is the stronger for it: the table never loses or doubles
a record (`LiveKept`, `OneSlotEach`), levels always are the sums of the records
(`LevelsAreSums`), and the book of a replay never shows less than what rests
(`NeverUnderstates`).

## The proofs

The theorems hold for every value of the constants that satisfies the assumptions below,
from any capacity of the slab and any hash to streams and vectors of any length. They
cover every safety property of the passing runs and the three refinements. Each proof
finds an inductive invariant that implies the property, proves it of `Init` and of every
action, and combines these facts in one temporal step. The invariants were checked by TLC
first, on the instances of the runs.

**`OrderIndexProofs`**: every property of the run `index` but its liveness. `ShiftGoesRoundHolds`
needs no invariant but the types: `InRangeIsAfter` shows that the three comparisons of `in_range` are
the walk round the slab from one bound to the other.

* `TableInv` = `TypeOK`, `OneSlotEach`, the count, and where a removal stands. The
  properties alone are not inductive: between two turns of the shift the record at
  the hole has a copy, and nothing but the position of `j` says which slots it may
  be in. `MoveGoesElsewhere` shows that a move never fills the slot it reads.
* `LiveInv` adds that the records kept (`Held`) include the live orders; `HeldStep`
  says what each step does to `Held`, and gives the refinement as well.
* `FindInv` adds that a probe has passed only occupied slots that are not its own
  (the interval `Path` from the home), so that a probe that stops at an empty slot has
  shown its id unreachable; and that an intact table has every id reachable. The
  lemmas on `Path` (`PathStep`, `PathTotal`, `PathSuccessor`, `PathStart`) are the
  cyclic arithmetic.
* `Implements` maps each step to a step of `OrderMap` or a stutter.
* `CallsAreComputed` joins the index to the books: `RecallInv` says that the slots and the
  hole after d turns of the shift are those of the operator's d-th turn, and `NextOfTurn` that
  the loop meets an empty slot where the run of the original table ended. A table without
  room needs a case of its own, in which the shift does not return.

**`BookLemmas`**: what the books rely on. `InsertStores` and `EraseForgets` say of any
table with room, degraded or not, that an insertion adds its id to the ids stored and a
removal that finds its id takes away that one and no other. The second is an induction
over the turns of the shift (`ShiftInv`, `ShiftTurn`), whose operator is a recursive function;
`TurnsUnfold` shows that the recursion defines one. `RestingAdds`, `RestingLoses` and
`RestingReduces` say what the quantity at a price becomes when an order comes, goes or shrinks. `FindsFindable` says that the
probe of a table with room finds exactly what a walk from the home reaches, `InsertReaches` that an
insertion puts its id within reach and no other out of it. The library's
induction theorems take an operator, which the provers cannot instantiate; here the
induction is over a *set* instead: `SubsetInduction`, `LeastNatural` and
`IntervalInduction` follow from the strict subset ordering of a finite set being well founded.

**`ReplayProofs`**, the map book: `TypeOK`, `LevelsAreSums` and the refinement of `OrderBook`
(`KeepsPromise`). The invariant is that the ids stored are those with a record, that records are
well formed and that both maps are the sums; `TypeOK` alone is not inductive, since only the sum
shows that a reduction leaves no level with less than nothing. The refinement is by call: the
abstract step names the same order with the same arguments, by `FindsFindable` the code finds that
order exactly when it is in reach, and then changes it as promised; otherwise nothing changes. That
no call but a removal puts an order out of reach is `InsertReaches`, and that a reduction which leaves
its order resting touches no slot.

**`ContiguousBookProofs`**: all six properties of the run `contiguous`, and `TypeOK`, for the three searches.
The invariant says of the scan that every level above it is better than the price looked for,
and of the halving that the levels below `i` are worse and those from `i + n` on are not; both
give the one answer of `IsLocated` when the loop ends. The inequality of the halving survives an odd
and an even `n`, and one. An insertion or removal at the place located keeps the vector sorted.
`SearchesStayShort` says without speaking of fairness that no search loops for ever: the turns taken
and the levels left to pass or to halve never exceed the levels there are. That a call under way
has a next step is the check for deadlock of the run.
`RefinesBookMap` takes the step of a call that changes the index to the call of the map book and
the turns of a search to stutters: the vector without its order is the map (`MapOf`). `ReadsAreSame` then
follows: the k-th level from the back is the one with k better levels.

**`ReplayProofs`**, the replay: the four properties of the run `replay`. `RInv` adds to the book's invariant
that what rests is covered by the book's orders, that it is equal to them until the first miss,
and that the count of a synthetic stream is no less than what rests. The best prices of
`NeverUnderstates` need the sums over two books, one within the other. `BooksStaySame`
compares the two switches case by case.

**`PerfCountersProofs`**: the four properties of the run `perf_counters`. The invariant is a
table of which handles each place of constructor and destructor may rely on, and which it
must no longer hold, for each backend, and what the counts are relative to the interval.

**`DriverProofs`**: the clock, the loader and the report.

* The clock's invariant says that the first read was made when the interval began, or at
  most `MaxGap` after the steady clock's in a calibration, on a counter that a trusted
  thread is still on, and that the steady clock has shown what has passed to within one of its ticks
  (`SteadyIsBehind`, `SteadyIsClose`). `Trusted` is the clock the header reports as
  `rdtscp`, pinned and invariant; the fallback is not. `Difference` is the arithmetic: the unsigned difference of two reads of a
  counter that may be anywhere and wraps around in between is the time between them.
* The loader's invariant bounds the events by the rows read. That each event is of its own
  row (`EventsAreOfTheirRows`) needs that a file has an n-th row kept for every n up to their
  number. This is an induction over the rows, which the prover lacks; but the loader does make
  it, one row at a time, so `Ranked` is carried through the loop as part of the invariant and
  `OneMoreRow` is its step.
* `SourceInv` follows the label from the choice of the data on (`LabelsAreTrue`): at each place
  it says what has been loaded or generated, and the limit of the command line only shortens it.
* The report's invariant counts, at each place of the measured loop, the events that have
  been replayed by their type; `CountNext` is the step of that count.

**`PercentilesProofs`**: `NearestRank`. `RankIsNearest` shows that `rank` is the nearest rank for
every number of samples and that its clamp never takes effect. The invariant says that the
buffer holds each value as often as it was recorded, which no rearrangement by `nth_element`
changes, and that every percentile selected so far is one. The step counts: of the samples the
selection leaves in place, those before the selected index are no greater and those after it no
less, so at least `rank + 1` samples are at most the selected value and at most `rank` are
less (`SelectedIsLeast`); `AtMostIsSum` says the same in terms of `recorded`.

**`SweepProofs`**: the four properties of the run `sweep`. The levels of a row are a *plan*
(`IsPlan`): all bids, then all asks, each side from its worst to its best, whether they come from
the real book or are drawn (`RealLevelsArePlan`, `SyntheticLevelsArePlan`). Of a plan it is known without
looking at any add what its first n levels make, `Laid`; `AddsLayNext` shows that the add of
the next one finds only worse levels on its side, so that it appends and makes `Laid` of n + 1.
`Filled` says that every book is laid so, the reference and that of each variant, from which
`PopulatingAppends` and `LabelledRowsAreReal` follow. A target is drawn from a rank of the
reference (`Drawn`), and a rank of the reference is found in every book laid to the end
(`TargetsRest`). `LeastRead` is the invariant of the loop for the headline: among the results
compared so far, those that were read have none below `best`, and `cheapest` is one of them
(`HeadlineIsLeast`).

**Assumptions.** All are named in the modules and evaluated by TLC in the runs.

* `CapAssumption`, `HomeAssumption`, `EmptyAssumption`: the slab has a slot, the hash is one
  of its slots, `kEmpty` is no order's id (`order_index.hpp:36-43`).
* `HeldAssumption`, `MaxHeld < Cap`: an insertion finds an empty slot. This is what
  `order_index.hpp:11-13` asks of the caller, restated in records held instead of orders live:
  by the second finding the two differ. In a full slab the code's probes do not end, and
  nothing is said of it.
* `SizesAssumption`, `PricesAssumption`: sizes are natural numbers, prices are integers.
* `AddsAssumption`, `IdsAssumption`, `WindowAssumption`: a stream has finitely many submissions,
  numbered in order, and orders from before the window have other ids.
* `SkewAssumption`, `TimeAssumption`, `GapAssumption`: a counter is a number below `Width`, and
  an interval is shorter than the counter's cycle (with 64 bits, over a century); the delay
  between two steps and one tick of the steady clock are together no longer than the calibration asks for.
* `SnapshotsAssumption`: the sides of a real book are sorted ladders, each price once, which is
  what `Sorted` says of the book they are taken from. `DepthsAssumption`, `CountsAssumption`,
  `DrawsAssumption`: a sweep has a depth, a variant and a lookup, offsets are ranks, sizes are
  positive. `CyclesAssumption`: a lookup that was read took some time, so that the zero printed
  for a reading that failed (`sweep.hpp:311`) is less than every figure that was read.
* `LatenciesAssumption`: samples are unsigned.
* `GeneratorAssumption`, `OptionsAssumption`, `DisksAssumption`, `PathAssumption`: streams, command
  lines and files are what their types in the code say, and the default path is a path.

**Only model checked:** `EveryCallReturns` of the index, and `ProgramEnds`. They are liveness under fairness, which is beyond the prover, as is `ENABLED`.

## Not modelled

The characters of numbers, and formatting; negative sizes, which a malformed
file could hold and `from_chars` would accept (`replay.hpp:148`); vector capacity and memory beyond the loader's
reservation; widths of integers other than the counter's (64 bit prices and quantities, far
from what a day of orders adds up to); the parsing of the command line, printing and the
CSV; the overhead of the timer, a minimum over read pairs that is printed and not used; the
conversion to nanoseconds, a quotient of doubles; the hint of the quality of service class,
which promises nothing. The tests are what the properties are taken from, the build files
have no behaviour.

## State of the work

Every part of the program that has behaviour is modelled and checked, and every safety
property of the passing runs is proved. What could be added: an instance in which a file names
order zero twice (`replay.hpp:147`), the one hazard no property covers, and which would need an
index that may store an id a second time.
