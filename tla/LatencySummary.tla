--------------------------- MODULE LatencySummary ---------------------------
(***************************************************************************)
(* summarize_latencies and percentile (cli.rs): the numbers in every row   *)
(* of every report.  Latencies are naturals (nanoseconds), a percentile is *)
(* given in hundredths; the interpolation, in f64 in the code, is exact    *)
(* here and rounded down at the end as the conversion to u64 does.         *)
(***************************************************************************)
EXTENDS Integers, Sequences, FiniteSets

\* Mutated: the weight of the lower neighbour instead of the upper one's.
Interpolate_Swapped(lo, hi, weight) == lo + ((hi - lo) * (100 - weight)) \div 100

\* Between two neighbours, weight hundredths of the way up.
Interpolate(lo, hi, weight) == lo + ((hi - lo) * weight) \div 100

\* The rank p * (n - 1) lies between the indices lower and upper, counted
\* from 0 in the code and from 1 here.
percentile(sorted, p) ==
  LET rank == p * (Len(sorted) - 1)
      lower == rank \div 100 IN
  IF rank % 100 = 0 THEN sorted[lower + 1]
  ELSE Interpolate(sorted[lower + 1], sorted[lower + 2], rank % 100)

\* The default of LatencySummary, for a run without a single latency.
NoLatencies == [mean |-> 0, p50 |-> 0, p95 |-> 0, p99 |-> 0, min |-> 0, max |-> 0]

\* The place of the i-th value: equal ones keep their order, which nobody can
\* tell from another.
Place(values, i) ==
  Cardinality({j \in DOMAIN values :
                 values[j] < values[i] \/ (values[j] = values[i] /\ j <= i)})

sort_unstable(values) ==
  [k \in DOMAIN values |-> values[CHOOSE i \in DOMAIN values : Place(values, i) = k]]

\* The fold that adds them up.
Total(values) ==
  LET acc[n \in 0 .. Len(values)] ==
        IF n = 0 THEN 0 ELSE acc[n - 1] + values[n] IN
  acc[Len(values)]

\* Of latencies in ascending order.
SummaryOf(sorted) ==
  [mean |-> Total(sorted) \div Len(sorted),
   p50 |-> percentile(sorted, 50),
   p95 |-> percentile(sorted, 95),
   p99 |-> percentile(sorted, 99),
   min |-> sorted[1],
   max |-> sorted[Len(sorted)]]

summarize_latencies(values) ==
  IF values = <<>> THEN NoLatencies ELSE SummaryOf(sort_unstable(values))

Ascending(s) == \A i, j \in 1 .. Len(s) : i <= j => s[i] <= s[j]

\* The percentiles of a summary are in order and within the extremes.
Ordered(summary) ==
  /\ summary.min <= summary.p50 /\ summary.p50 <= summary.p95
  /\ summary.p95 <= summary.p99 /\ summary.p99 <= summary.max
=============================================================================
