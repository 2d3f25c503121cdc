---------------------------- MODULE WelfordStats ----------------------------
(***************************************************************************)
(* StreamingStats (mesh/formulas/welford_streaming.py): the running mean   *)
(* and variance of the fan-out latencies that MeshGovernance folds in, and *)
(* the z-score gate that flags a latency before it is folded in.           *)
(*                                                                         *)
(* Numbers are exact: Scale is a multiple of every count up to MaxCount,   *)
(* mean is in units of 1/Scale and m2 in units of 1/Scale^2.  The gate's   *)
(* |x - mean| / sd > 3 is compared squared.                                *)
(***************************************************************************)
EXTENDS Integers, Sequences

CONSTANTS
  Latencies,   \* the values observed
  MaxCount,    \* bound: observations
  Scale        \* a common multiple of 1..MaxCount

\* What keeps the arithmetic exact.
StatsAssumption ==
  /\ Latencies \subseteq Nat
  /\ MaxCount \in Nat /\ Scale \in Nat \ {0}
  /\ \A n \in 1..MaxCount : Scale % n = 0

VARIABLES
  count, mean, m2,   \* the accumulator
  anomalies,         \* the numbers of the observations flagged
  observed           \* history: the latencies in the order observed

vars == <<count, mean, m2, anomalies, observed>>

\* What the gate compares: a deviation, squared, and the sum of squares of n
\* observations.  Fewer than two, or a standard deviation of 0, flag nothing.
Anomalous(deviation, n, squares) ==
  /\ n >= 2
  /\ squares # 0
  /\ deviation * deviation * (n - 1) > 9 * squares
----------------------------------------------------------------------------
Init == count = 0 /\ mean = 0 /\ m2 = 0 /\ anomalies = {} /\ observed = <<>>

Update(x) ==
  LET delta == Scale * x - mean
  IN  /\ count' = count + 1
      /\ mean' = mean + delta \div count'
      /\ m2' = m2 + delta * (Scale * x - mean')

\* Mutation of Observe: classified after it was folded in.
ObserveFoldsFirst(x) ==
  /\ count < MaxCount
  /\ Update(x)
  /\ anomalies' = IF Anomalous(Scale * x - mean', count', m2')
                  THEN anomalies \cup {count + 1} ELSE anomalies
  /\ observed' = Append(observed, x)

\* observe: classified against the stream so far, then folded in.
Observe(x) ==
  /\ count < MaxCount
  /\ anomalies' = IF Anomalous(Scale * x - mean, count, m2)
                  THEN anomalies \cup {count + 1} ELSE anomalies
  /\ Update(x)
  /\ observed' = Append(observed, x)

Next == \E x \in Latencies : Observe(x)

Spec == Init /\ [][Next]_vars
----------------------------------------------------------------------------
\* The reference takes two passes over the first n latencies.
Total(values, n) ==
  LET sum[i \in 0..n] == IF i = 0 THEN 0 ELSE sum[i - 1] + values[i]
  IN  sum[n]

MeanOf(n) == (Scale * Total(observed, n)) \div n

SquaresOf(n) ==
  LET deviation(i) == Scale * observed[i] - MeanOf(n)
  IN  Total([i \in 1..n |-> deviation(i) * deviation(i)], n)

(* The running statistics are those of the whole stream, no observation,   *)
(* flagged or not, left out; and exactly those latencies were flagged that *)
(* lie more than three standard deviations from the mean of the ones       *)
(* before them ("Classify against prior stats THEN fold in", "FLAGS (never *)
(* silently drops)").                                                      *)
StatsAreThoseOfTheStream ==
  /\ count = Len(observed)
  /\ count > 0 => mean = MeanOf(count) /\ m2 = SquaresOf(count)
  /\ anomalies = {i \in 2..count :
       Anomalous(Scale * observed[i] - MeanOf(i - 1), i - 1, SquaresOf(i - 1))}
=============================================================================
