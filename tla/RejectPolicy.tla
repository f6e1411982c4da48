---------------------------- MODULE RejectPolicy ----------------------------
(***************************************************************************)
(* The percentage policy of the overload server (src/src/overload.rs):     *)
(* which of the requests it sees, numbered from 1, are refused.            *)
(*                                                                         *)
(* reject_percent is an f64 in 0.0 ..= 100.0; here it is the integer       *)
(* number of thousandths of a percent, up to 100000, fine enough to tell    *)
(* apart every value the rounding to basis points treats differently.      *)
(* saturating_mul never saturates below 2^64 / 10000 requests and is the   *)
(* ordinary product.                                                       *)
(***************************************************************************)
EXTENDS Integers

\* One whole, in basis points.
Scale == 10000

Percents == {p \in Nat : p <= 100000}

\* (percent * 100.0).round() as usize: halves are rounded away from zero.  Here
\* the product is exact; the f64 product of a decimal half such as 1.005 may lie
\* just below the half, and its basis points be one less.
BasisPoints(reject_percent) == (reject_percent + 5) \div 10

\* Mutated: the comparison includes its bound.
RejectsAt_Inclusive(request_index, bp) ==
  bp # 0 /\ (bp >= Scale \/ (request_index * bp) % Scale <= bp)

\* should_reject_by_percent on the already rounded number of basis points.
RejectsAt(request_index, bp) ==
  /\ bp # 0
  /\ \/ bp >= Scale
     \/ (request_index * bp) % Scale < bp

should_reject_by_percent(request_index, reject_percent) ==
  RejectsAt(request_index, BasisPoints(reject_percent))

(***************************************************************************)
(* What the policy is for: after n requests, n * bp / 10000 of them,       *)
(* rounded down, have been refused.                                        *)
(***************************************************************************)
QuotaOf(n, bp) == (n * bp) \div Scale
Quota(n, reject_percent) == QuotaOf(n, BasisPoints(reject_percent))
=============================================================================
