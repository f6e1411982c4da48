--------------------------- MODULE MC_H2Scenario ---------------------------
(***************************************************************************)
(* H2Scenario for TLC.  The constants are numbers; the configurations give *)
(* them.                                                                   *)
(***************************************************************************)
EXTENDS H2Scenario
=============================================================================
