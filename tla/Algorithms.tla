----------------------------- MODULE Algorithms -----------------------------
(***************************************************************************)
(* The pure algorithms at work: RejectPolicy, as a server that judges      *)
(* request after request by percentage alone, and LatencySummary, as a     *)
(* scenario that records latency after latency.  A behaviour is one or the *)
(* other.                                                                  *)
(***************************************************************************)
EXTENDS RejectPolicy, LatencySummary, SequencesExt

CONSTANTS
  SomePercents,    \* percentages asked for
  Bound,           \* bound: requests judged
  SomeLengths,     \* latencies a scenario starts with
  SomeLatencies,   \* latencies it records then
  MaxRecords       \* bound: how many of them

ASSUME PercentsAssumption == SomePercents \subseteq Percents
ASSUME LatenciesAssumption == SomeLengths \cup SomeLatencies \cup {Bound, MaxRecords} \subseteq Nat

VARIABLES
  percent,
  seen, refused,   \* requests judged and refused
  gap,             \* accepted since the last refusal
  latencies        \* in the order of their arrival

policyVars == <<percent, seen, refused, gap>>
vars == <<policyVars, latencies>>

\* No policy: latencies are recorded.
Recording == -1

Init ==
  /\ seen = 0 /\ refused = 0 /\ gap = 0
  /\ \/ percent \in SomePercents /\ latencies = <<>>
     \/ percent = Recording
        /\ latencies \in {[i \in 1 .. n |-> 10 * i] : n \in SomeLengths}

Judge ==
  /\ percent # Recording /\ seen < Bound
  /\ seen' = seen + 1
  /\ IF should_reject_by_percent(seen + 1, percent)
     THEN refused' = refused + 1 /\ gap' = 0
     ELSE refused' = refused /\ gap' = gap + 1
  /\ UNCHANGED <<percent, latencies>>

Record ==
  /\ percent = Recording /\ Len(latencies) - MaxRecords \notin SomeLengths
  /\ \E latency \in SomeLatencies : latencies' = Append(latencies, latency)
  /\ UNCHANGED policyVars

Next == Judge \/ Record

Spec == Init /\ [][Next]_vars

-----------------------------------------------------------------------------
(***************************************************************************)
(* Properties.                                                             *)
(***************************************************************************)
\* The refused share is the percentage asked for, up to one request and the
\* half basis point the rounding may take or give (overload.rs:572).
ShareWithinRounding ==
  percent # Recording =>
    /\ 100000 * refused - seen * percent <= 5 * seen
    /\ 100000 * refused - seen * percent > -100000 - 5 * seen

\* What must hold of the accepted run before a refusal.
GapAllowed ==
  LET bp == BasisPoints(percent) IN
  /\ bp > 0
  /\ gap <= (Scale - 1) \div bp
  /\ refused > 0 => gap + 1 >= Scale \div bp

\* Refusals are spread evenly: between two of them lie as many accepted
\* requests as the share leaves, never one more, and one fewer only when the
\* share does not divide the whole (overload.rs:580).
EvenlySpread == [][refused' > refused => GapAllowed]_policyVars

\* The order statistic a percentile stands for, by counting: as many of the
\* values lie at or below it, and at or above it, as its rank requires.
Ranked(values, p, value) ==
  LET rank == p * (Len(values) - 1) IN
  /\ Cardinality({i \in DOMAIN values : values[i] <= value}) > rank \div 100
  /\ Cardinality({i \in DOMAIN values : values[i] >= value})
       >= Len(values) - (rank + 99) \div 100

\* The numbers of a row are in order, mean and extremes are those of the
\* values, and each percentile has its rank.
Summarizes(summary, values) ==
  /\ Ordered(summary)
  /\ summary.min \in ToSet(values) /\ summary.max \in ToSet(values)
  /\ \A i \in DOMAIN values : values[i] \in summary.min .. summary.max
  /\ summary.mean * Len(values) \in Total(values) - Len(values) + 1 .. Total(values)
  /\ Ranked(values, 50, summary.p50) /\ Ranked(values, 95, summary.p95)
  /\ Ranked(values, 99, summary.p99)

\* However the latencies arrived, their summary says what it should
\* (cli.rs:334, 353).
SummaryRight ==
  latencies # <<>> => Summarizes(summarize_latencies(latencies), latencies)
=============================================================================
