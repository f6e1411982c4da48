---------------------------- MODULE MC_RawServer ----------------------------
(***************************************************************************)
(* RawServer for TLC: three client-initiated bidirectional streams (ids 0, *)
(* 4, 8), bodies and responses of two units, so that a body can be read in *)
(* part and a response written in part.                                    *)
(***************************************************************************)
EXTENDS RawServer

MCStreams == {0, 4, 8}
TwoStreams == {0, 4}

Sc(mode, threshold, reject_percent) ==
  [mode |-> mode, total_requests |-> 3, concurrency |-> 3, payload_size |-> 2,
   threshold |-> threshold, reject_percent |-> reject_percent]

\* One stream may be served at a time, the others are refused.
ThresholdScenarios == {Sc("App503", 1, 0), Sc("Reset", 1, 0)}
\* Also 66.667 %: of three requests the second and the third are refused.
\* What a refusal does depends on the mode only, not on its reason.
BothPolicies == ThresholdScenarios \cup {Sc("Reset", 1, 66667)}
=============================================================================
