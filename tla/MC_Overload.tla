---------------------------- MODULE MC_Overload ----------------------------
(***************************************************************************)
(* Overload for TLC: up to three requests with bodies of two one-unit      *)
(* chunks, so that a verdict can fall before or after the second chunk.    *)
(***************************************************************************)
EXTENDS Overload

Ids(n) == {4 * k : k \in 0 .. (n - 1)}
ThreeStreams == Ids(3)
TwoStreams == Ids(2)

Sc(mode, total, concurrency, threshold, reject_percent) ==
  [mode |-> mode, total_requests |-> total, concurrency |-> concurrency,
   payload_size |-> 2, threshold |-> threshold, reject_percent |-> reject_percent]

BothModes(total, concurrency, threshold, reject_percent) ==
  {Sc(mode, total, concurrency, threshold, reject_percent) : mode \in {"App503", "Reset"}}

\* A body of one chunk.
Short(scenarios) == {[sc EXCEPT !.payload_size = 1] : sc \in scenarios}

\* A window of two over a threshold of one: overload comes and goes.  Three
\* requests let the third meet a slot that is full, free or free again; two
\* chunks let the verdict overtake the second.  Then a threshold as wide as
\* the window, and a request refused by percentage.
Reported ==
  {Sc("Reset", 3, 2, 1, 0), Sc("App503", 2, 2, 1, 0), Sc("App503", 2, 2, 2, 0)}
    \cup Short({Sc("App503", 3, 2, 1, 0), Sc("Reset", 2, 2, 1, 50000)})

\* With faults: two requests at a time, three one after the other, and bodies
\* shorter than a chunk.
Faulty == BothModes(2, 2, 1, 0) \cup Short({Sc("App503", 3, 1, 1, 0), Sc("Reset", 1, 1, 1, 0)})

\* For liveness: two one-chunk requests, the second over the threshold; and a
\* single two-chunk request, accepted or refused.
Live ==
  Short(BothModes(2, 2, 1, 0)) \cup BothModes(1, 1, 1, 0) \cup BothModes(1, 1, 1, 100000)
=============================================================================
