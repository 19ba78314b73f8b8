---------------------------- MODULE Percentiles -----------------------------
(***************************************************************************)
(* LatencySamples of bench/percentiles.hpp: a buffer of recorded latencies *)
(* and the percentile set computed from it by repeated nth_element, which  *)
(* reorders the buffer each time.                                          *)
(*                                                                         *)
(* Fractions are exact here.  The doubles of rank give the same ranks for  *)
(* every buffer a run can have: ceil(fraction * n) is exact for the five   *)
(* fractions.                                                              *)
(***************************************************************************)
EXTENDS Integers, SequencesExt

CONSTANTS
  Latencies,   (* Sample values.                                           *)
  MaxSamples   (* The capacity the harness reserves.                       *)

ASSUME LatenciesAssumption == Latencies \subseteq Nat

VARIABLES
  samples,     (* samples_, in whichever order the last select left them.  *)
  computing,   (* Whether compute is running.                              *)
  out,         (* What compute has selected: min, p50 ... p9999, max.      *)
  recorded     (* History: how often each value was recorded.              *)

vars == <<samples, computing, out, recorded>>

(* The fractions of the percentiles, as numerator and denominator. *)
Fractions == << <<1, 2>>, <<9, 10>>, <<99, 100>>, <<999, 1000>>, <<9999, 10000>> >>

Ceiling(a, b) == (a + b - 1) \div b

(* The nearest rank, counted from zero. *)
RankTruncated(f, size) ==     \* mutant: the product is truncated, not rounded up
  LET k == (f[1] * size) \div f[2] - 1
  IN  IF k < 0 THEN 0 ELSE k

Rank(f, size) ==
  LET k   == Ceiling(f[1] * size, f[2])
      idx == IF k > 0 THEN k - 1 ELSE k
  IN  IF idx >= size THEN size - 1 ELSE idx

(* The ranks compute selects, in its order. *)
Target(turn) ==
  CASE turn = 1 -> 0
    [] turn \in 2 .. 6 -> Rank(Fractions[turn - 1], Len(samples))
    [] turn = 7 -> Len(samples) - 1

Turns == 7

Counts(s) == [v \in Latencies |-> Cardinality({k \in DOMAIN s : s[k] = v})]

(* std::nth_element: a rearrangement of s in which what stands before      *)
(* position k is no larger, and what stands after it no smaller.           *)
NthElement(s, k) ==
  {t \in [1 .. Len(s) -> Latencies] :
     /\ \A m \in 1 .. Len(s) : /\ m < k => t[m] <= t[k]
                               /\ m > k => t[m] >= t[k]
     /\ Counts(t) = Counts(s)}

-----------------------------------------------------------------------------
Init ==
  /\ samples = << >>
  /\ computing = FALSE
  /\ out = << >>
  /\ recorded = [v \in Latencies |-> 0]

(* The result of an earlier compute is the caller's, and forgotten here. *)
Record(v) ==
  /\ ~computing /\ Len(samples) < MaxSamples
  /\ samples' = Append(samples, v)
  /\ recorded' = [recorded EXCEPT ![v] = @ + 1]
  /\ out' = << >>
  /\ UNCHANGED computing

Clear ==
  /\ ~computing
  /\ samples' = << >>
  /\ recorded' = [v \in Latencies |-> 0]
  /\ out' = << >>
  /\ UNCHANGED computing

ComputeEmpty ==
  /\ ~computing /\ samples = << >>
  /\ out' = [turn \in 1 .. Turns |-> 0]
  /\ UNCHANGED <<samples, computing, recorded>>

Compute ==
  /\ ~computing /\ samples # << >>
  /\ computing' = TRUE
  /\ out' = << >>
  /\ UNCHANGED <<samples, recorded>>

Select ==
  /\ computing
  /\ \E t \in NthElement(samples, Target(Len(out) + 1) + 1) :
       /\ samples' = t
       /\ out' = Append(out, t[Target(Len(out) + 1) + 1])
  /\ computing' = (Len(out') < Turns)
  /\ UNCHANGED recorded

Next == (\E v \in Latencies : Record(v)) \/ Clear \/ ComputeEmpty \/ Compute \/ Select

Spec == Init /\ [][Next]_vars

-----------------------------------------------------------------------------
(***************************************************************************)
(* The nearest rank method (percentiles.hpp:69-70): each percentile is the *)
(* smallest recorded sample whose cumulative share reaches the fraction,   *)
(* and the minimum and maximum bound every sample recorded since the last  *)
(* clear, although every select works on what the selects before it left,  *)
(* and the records after a compute are appended to a reordered buffer.     *)
(***************************************************************************)
AtMost(v) == MapThenSumSet(LAMBDA w : recorded[w], {w \in Latencies : w <= v})

Reached(turn) ==
  CASE turn = 1     -> Latencies
    [] turn = Turns -> {v \in Latencies : AtMost(v) = Len(samples)}
    [] OTHER        -> LET f == Fractions[turn - 1]
                       IN  {v \in Latencies : AtMost(v) * f[2] >= f[1] * Len(samples)}

NearestRank ==
  samples # << >> =>
    \A turn \in DOMAIN out :
      LET candidates == {v \in Reached(turn) : recorded[v] > 0}
      IN  out[turn] \in candidates /\ \A v \in candidates : out[turn] <= v
=============================================================================
