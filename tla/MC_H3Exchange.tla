--------------------------- MODULE MC_H3Exchange ---------------------------
(***************************************************************************)
(* H3Exchange for TLC.  The constants are numbers; the configurations give *)
(* them.                                                                   *)
(***************************************************************************)
EXTENDS H3Exchange
=============================================================================
