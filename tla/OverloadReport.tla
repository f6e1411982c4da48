--------------------------- MODULE OverloadReport ---------------------------
(***************************************************************************)
(* What the overload command concludes from its rows (overload.rs):        *)
(* overload_comparisons and overload_claim_supported.  A row has the       *)
(* position at which it was measured, its repeat (round), its point        *)
(* <<payload_size, concurrency, threshold, mode>> and what was measured.   *)
(* The percentage is one for the whole command and no part of the key      *)
(* here.                                                                   *)
(***************************************************************************)
EXTENDS Integers, Sequences, FiniteSets

\* Mutated: the rows of different repeats meet; the thresholds are mixed.
key_AnyRepeat(row) == <<row.point[1], row.point[2], row.point[3]>>
key(row) == <<row.point[1], row.point[2], row.point[3], row.round>>

\* The maps app503 and reset: a later row replaces an earlier one.
Inserted(rows, mode) ==
  {row \in rows :
     /\ row.point[4] = mode
     /\ ~\E later \in rows : later.point[4] = mode /\ key(later) = key(row) /\ later.nr > row.nr}

overload_comparisons(rows) ==
  {pair \in [app503 : Inserted(rows, "App503"), reset : Inserted(rows, "Reset")] :
     key(pair.app503) = key(pair.reset)}

\* reset costs less than app503 and rejects no later.
Better(reset, app503) ==
  /\ reset.bytes_read < app503.bytes_read
  /\ reset.server_ms < app503.server_ms
  /\ reset.reject_mean <= app503.reject_mean

overload_claim_supported(rows) ==
  LET comparisons == overload_comparisons(rows) IN
  /\ comparisons # {}
  /\ \A pair \in comparisons : Better(pair.reset.outcome, pair.app503.outcome)
=============================================================================
