---------------------------- MODULE MC_Algorithms ----------------------------
(***************************************************************************)
(* Algorithms for TLC.                                                     *)
(***************************************************************************)
EXTENDS Algorithms

\* Nothing, below and at half a basis point, shares that do and do not divide
\* one, nearly everything, everything.
MCPercents == {0, 4, 5, 14, 100, 333, 1000, 5000, 33333, 50000, 66667, 99994,
               99995, 100000}

\* None yet, or just fewer than it takes to tell p95 or p99 from the maximum.
MCLengths == {0, 18, 98}
MCLatencies == {0, 7, 500, 2001}
=============================================================================
