---------------------------- MODULE MC_PacedTrial ----------------------------
(***************************************************************************)
(* PacedTrial for TLC: both transports, against both servers.              *)
(***************************************************************************)
EXTENDS PacedTrial

Both == {"H2", "H3"}
=============================================================================
