------------------------- MODULE RejectPolicyProofs -------------------------
(***************************************************************************)
(* The percentage policy refuses exactly its quota.                        *)
(***************************************************************************)
EXTENDS RejectPolicy, TLAPS

\* One more step of b crosses a multiple of Scale exactly when it lands less
\* than b above one.
LEMMA Crossing ==
  ASSUME NEW a \in Nat, NEW b \in Nat, b > 0, b <= Scale
  PROVE  (a + b) \div Scale =
           (a \div Scale) + (IF (a + b) % Scale < b THEN 1 ELSE 0)
BY DEF Scale

LEMMA BasisPointsRange ==
  ASSUME NEW p \in Percents
  PROVE  BasisPoints(p) \in Nat /\ BasisPoints(p) <= Scale
BY DEF BasisPoints, Percents, Scale

\* The policy refuses the n+1st request exactly when the quota of n+1 requests
\* is one more than the quota of n (overload.rs:572).
THEOREM QuotaStep ==
  ASSUME NEW n \in Nat, NEW p \in Percents
  PROVE  Quota(n + 1, p) =
           Quota(n, p) + (IF should_reject_by_percent(n + 1, p) THEN 1 ELSE 0)
<1> DEFINE bp == BasisPoints(p)
<1>1. bp \in Nat /\ bp <= Scale
  BY BasisPointsRange
<1>2. (n + 1) * bp = n * bp + bp /\ n * bp \in Nat
  BY <1>1
<1>3. Quota(n + 1, p) = ((n + 1) * bp) \div Scale /\ Quota(n, p) = (n * bp) \div Scale
  BY DEF Quota, QuotaOf
<1>4. should_reject_by_percent(n + 1, p) <=>
        bp # 0 /\ (bp >= Scale \/ ((n + 1) * bp) % Scale < bp)
  BY DEF should_reject_by_percent, RejectsAt
<1> HIDE DEF bp
<1>5. CASE bp = 0
  <2>1. (n + 1) * bp = n * bp
    BY <1>2, <1>5
  <2>2. ~should_reject_by_percent(n + 1, p)
    BY <1>4, <1>5
  <2>3. (n * bp) \div Scale \in Int
    BY <1>2 DEF Scale
  <2> QED BY <1>3, <2>1, <2>2, <2>3
<1>6. CASE bp # 0
  <2> DEFINE a == n * bp
  <2>1. (a + bp) \div Scale =
          (a \div Scale) + (IF (a + bp) % Scale < bp THEN 1 ELSE 0)
    BY <1>1, <1>2, <1>6, Crossing
  <2>2. bp >= Scale => (a + bp) % Scale < bp
    BY <1>1, <1>2 DEF Scale
  <2> QED BY <1>2, <1>3, <1>4, <1>6, <2>1, <2>2
<1> QED BY <1>5, <1>6

LEMMA QuotaZero == ASSUME NEW p \in Percents PROVE Quota(0, p) = 0
BY BasisPointsRange DEF Quota, QuotaOf, Scale
=============================================================================
