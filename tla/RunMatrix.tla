------------------------------ MODULE RunMatrix ------------------------------
(***************************************************************************)
(* The nested for loops of the five commands: an outer loop whose rounds   *)
(* start with a step of their own in some commands, and around each        *)
(* measurement the loops over the loads and the transports.                *)
(***************************************************************************)
EXTENDS Integers, Sequences, SequencesExt

UpTo(n) == [i \in 1 .. n |-> i]

\* The outermost loop.
Rounds(command, config) ==
  IF command = "bench" THEN config.failures ELSE UpTo(config.repeats[1])

\* The loops inside it, outermost first.
bench_loops(config) ==
  <<config.users, config.messages, UpTo(config.repeats[1]), config.protocols>>
overload_loops(config) ==
  <<config.payload_sizes, config.concurrency, config.thresholds, config.modes>>
pps_loops(config) == <<config.payload_sizes, config.target_pps, config.protocols>>

Loops(command, config) ==
  CASE command = "bench" -> bench_loops(config)
    [] command = "overload" -> overload_loops(config)
    [] OTHER -> pps_loops(config)

\* How many measurements one turn of a loop takes, by the loops inside it;
\* 0 stands for a loop around them all.  Mutated: by the loops outside it.
Stride_Inverted(loops) ==
  LET stride[i \in 0 .. Len(loops)] ==
        IF i <= 1 THEN 1 ELSE Len(loops[i - 1]) * stride[i - 1] IN
  [stride EXCEPT ![0] = Len(loops[Len(loops)]) * stride[Len(loops)]]
Stride(loops) ==
  LET stride[i \in 0 .. Len(loops)] ==
        IF i = Len(loops) THEN 1 ELSE Len(loops[i + 1]) * stride[i + 1] IN
  stride

Size(loops) == Stride(loops)[0]

\* The values of the loop variables at the k-th measurement, counted from 0:
\* the innermost turns fastest.
Point(loops, k) ==
  LET stride == Stride(loops) IN
  [i \in 1 .. Len(loops) |-> loops[i][((k \div stride[i]) % Len(loops[i])) + 1]]

\* The transport or mode is the innermost loop, so the last coordinate.
Variant(point) == Last(point)
=============================================================================
