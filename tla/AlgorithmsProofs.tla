--------------------------- MODULE AlgorithmsProofs ---------------------------
(***************************************************************************)
(* Theorems about the pure algorithms, for every percentage, any number of *)
(* requests and any number of latencies.                                   *)
(***************************************************************************)
EXTENDS Algorithms, RejectPolicyProofs, FiniteSetTheorems, FunctionTheorems,
        WellFoundedInduction, TLAPS

(***************************************************************************)
(* The policy.                                                             *)
(***************************************************************************)
\* Quotient and remainder of positive numbers.
LEMMA Division ==
  ASSUME NEW a \in Nat, NEW b \in Nat \ {0}
  PROVE  /\ a \div b \in Nat /\ (a \div b) * b <= a
         /\ \A g \in Nat : g * b <= a => g <= a \div b
<1> DEFINE q == a \div b
           r == a % b
<1>1. q \in Nat /\ r \in 0 .. (b - 1) /\ a = q * b + r
  OBVIOUS
<1>2. \A g \in Nat : g * b <= a => g <= q
  <2> HIDE DEF q, r
  <2> SUFFICES ASSUME NEW g \in Nat, g > q PROVE g * b > a
    BY <1>1
  <2>1. g >= q + 1 /\ g * b >= (q + 1) * b
    BY <1>1
  <2>2. (q + 1) * b = q * b + b
    BY <1>1
  <2> QED BY <1>1, <2>1, <2>2
<1>3. q * b <= a
  <2> HIDE DEF q, r
  <2> QED BY <1>1
<1> QED BY <1>1, <1>2, <1>3

\* The basis points are the percentage up to half of one.
LEMMA BasisPointsClose ==
  ASSUME NEW p \in Percents
  PROVE  /\ BasisPoints(p) \in Nat /\ BasisPoints(p) <= Scale
         /\ 10 * BasisPoints(p) <= p + 5 /\ p <= 10 * BasisPoints(p) + 5
BY DEF BasisPoints, Percents, Scale

\* The remainder of the requests' share: how far the policy is on its way to
\* the next refusal.
Way == (seen * BasisPoints(percent)) % Scale

\* The policy is exact, and each accepted request since the last refusal has
\* taken it one share further.
PolicyInv ==
  percent # Recording =>
    /\ percent \in Percents /\ seen \in Nat /\ gap \in Nat
    /\ refused = Quota(seen, percent)
    /\ gap * BasisPoints(percent) <= Way
    /\ refused > 0 => Way < (gap + 1) * BasisPoints(percent)

LEMMA PolicyInit == Init => PolicyInv
<1> SUFFICES ASSUME Init, percent # Recording PROVE PolicyInv
  BY DEF PolicyInv
<1>1. percent \in Percents /\ seen = 0 /\ refused = 0 /\ gap = 0
  BY PercentsAssumption DEF Init
<1>2. BasisPoints(percent) \in Nat
  BY <1>1, BasisPointsClose
<1>3. gap * BasisPoints(percent) = 0 /\ seen * BasisPoints(percent) = 0
  BY <1>1, <1>2
<1>4. Way = 0
  BY <1>3 DEF Way, Scale
<1> QED BY <1>1, <1>3, <1>4, QuotaZero DEF PolicyInv

\* A sum and its parts, by quotient and remainder.
LEMMA Carry ==
  ASSUME NEW q \in Int, NEW r \in Int, NEW q2 \in Int, NEW r2 \in Int, NEW b \in Int,
         r >= 0, r <= 9999, r2 >= 0, r2 <= 9999, b >= 0, b <= 10000,
         10000 * q2 + r2 = 10000 * q + r + b
  PROVE  (r2 < b => r + b >= 10000) /\ (r2 >= b => r2 = r + b)
<1>1. q2 >= q
  OBVIOUS
<1>2. q2 <= q + 1
  OBVIOUS
<1>3. q2 = q \/ q2 = q + 1
  BY <1>1, <1>2
<1>4. CASE q2 = q
  BY <1>4
<1>5. CASE q2 = q + 1
  BY <1>5
<1> QED BY <1>3, <1>4, <1>5

\* One more share leads to the next multiple of Scale or on the way to it.
LEMMA OneShare ==
  ASSUME NEW a \in Nat, NEW b \in Nat, b <= Scale
  PROVE  /\ a % Scale \in 0 .. (Scale - 1) /\ (a + b) % Scale \in 0 .. (Scale - 1)
         /\ (a + b) % Scale < b => (a % Scale) + b >= Scale
         /\ (a + b) % Scale >= b => (a + b) % Scale = (a % Scale) + b
<1> DEFINE q == a \div Scale
           r == a % Scale
           c == a + b
           q2 == c \div Scale
           r2 == c % Scale
<1>1. /\ q \in Int /\ r \in Int /\ r >= 0 /\ r <= 9999
      /\ a = 10000 * q + r
  BY DEF Scale
<1>2. c \in Nat /\ b \in Int /\ b >= 0 /\ b <= 10000
  BY DEF Scale
<1>3. /\ q2 \in Int /\ r2 \in Int /\ r2 >= 0 /\ r2 <= 9999
      /\ c = 10000 * q2 + r2
  <2> HIDE DEF c
  <2> QED BY <1>2 DEF Scale
<1>4. 10000 * q2 + r2 = 10000 * q + r + b
  <2> HIDE DEF q, r, q2, r2
  <2> QED BY <1>1, <1>3
<1>5. (r2 < b => r + b >= Scale) /\ (r2 >= b => r2 = r + b)
  <2> HIDE DEF q, r, q2, r2
  <2>1. (r2 < b => r + b >= 10000) /\ (r2 >= b => r2 = r + b)
    BY <1>1, <1>2, <1>3, <1>4, Carry
  <2> QED BY <2>1 DEF Scale
<1>6. r \in 0 .. (Scale - 1) /\ r2 \in 0 .. (Scale - 1)
  <2> HIDE DEF q, r, q2, r2
  <2>1. \A x \in Int : x >= 0 /\ x <= 9999 => x \in 0 .. (Scale - 1)
    BY DEF Scale
  <2>2. r \in 0 .. (Scale - 1)
    BY <1>1, <2>1
  <2>3. r2 \in 0 .. (Scale - 1)
    BY <1>3, <2>1
  <2> QED BY <2>2, <2>3
<1> QED BY <1>5, <1>6, Zenon

LEMMA WayNext ==
  ASSUME NEW n \in Nat, NEW b \in Nat, b <= Scale
  PROVE  LET way == (n * b) % Scale
             next == ((n + 1) * b) % Scale IN
         /\ way \in 0 .. (Scale - 1) /\ next \in 0 .. (Scale - 1)
         /\ next < b => way + b >= Scale
         /\ next >= b => next = way + b
<1> DEFINE a == n * b
<1>1. a \in Nat /\ (n + 1) * b = a + b
  OBVIOUS
<1> HIDE DEF a
<1> QED BY <1>1, OneShare, Zenon DEF a

\* What one judgement does.
LEMMA JudgeStep ==
  ASSUME PolicyInv, Judge
  PROVE  LET b == BasisPoints(percent)
             next == ((seen + 1) * b) % Scale IN
         /\ percent \in Percents /\ b \in Nat /\ b <= Scale
         /\ UNCHANGED percent /\ seen' = seen + 1 /\ Way' = next
         /\ \/ /\ b # 0 /\ next < b /\ refused' = refused + 1 /\ gap' = 0
            \/ /\ refused' = refused /\ gap' = gap + 1
               /\ b = 0 \/ (b < Scale /\ next >= b)
<1> DEFINE b == BasisPoints(percent)
           next == ((seen + 1) * b) % Scale
<1>1. percent \in Percents /\ percent # Recording /\ seen \in Nat
  BY DEF Judge, PolicyInv
<1>2. b \in Nat /\ b <= Scale
  BY <1>1, BasisPointsClose
<1>3. UNCHANGED percent /\ seen' = seen + 1
  BY DEF Judge
<1>4. Way' = next
  BY <1>3 DEF Way
<1>5. next \in 0 .. (Scale - 1)
  BY <1>1, <1>2, WayNext
<1>8. should_reject_by_percent(seen + 1, percent) <=> b # 0 /\ (b >= Scale \/ next < b)
  BY DEF should_reject_by_percent, RejectsAt
<1> HIDE DEF b, next
<1>6. CASE should_reject_by_percent(seen + 1, percent)
  <2>1. refused' = refused + 1 /\ gap' = 0
    BY <1>6 DEF Judge
  <2>2. /\ b # 0
        /\ \/ b >= Scale
           \/ next < b
    BY <1>6, <1>8
  <2>3. next < b
    BY <1>2, <1>5, <2>2 DEF Scale
  <2> QED BY <1>1, <1>2, <1>3, <1>4, <2>1, <2>2, <2>3 DEF b, next
<1>7. CASE ~should_reject_by_percent(seen + 1, percent)
  <2>1. refused' = refused /\ gap' = gap + 1
    BY <1>7 DEF Judge
  <2>2. \/ b = 0
        \/ /\ ~(b >= Scale)
           /\ ~(next < b)
    BY <1>7, <1>8
  <2>3. \/ b = 0
        \/ /\ b < Scale
           /\ next >= b
    BY <1>2, <1>5, <2>2 DEF Scale
  <2> QED BY <1>1, <1>2, <1>3, <1>4, <2>1, <2>3 DEF b, next
<1> QED BY <1>6, <1>7 DEF b, next

LEMMA PolicyNext == PolicyInv /\ [Next]_vars => PolicyInv'
<1> SUFFICES ASSUME PolicyInv, [Next]_vars PROVE PolicyInv'
  OBVIOUS
<1>1. CASE Judge
  <2> DEFINE b == BasisPoints(percent)
             next == ((seen + 1) * b) % Scale
  <2>1. /\ percent \in Percents /\ b \in Nat /\ b <= Scale
        /\ UNCHANGED percent /\ seen' = seen + 1 /\ Way' = next
        /\ \/ /\ b # 0 /\ next < b /\ refused' = refused + 1 /\ gap' = 0
           \/ /\ refused' = refused /\ gap' = gap + 1
              /\ b = 0 \/ (b < Scale /\ next >= b)
    BY <1>1, JudgeStep
  <2>2. /\ percent # Recording /\ seen \in Nat /\ gap \in Nat
        /\ refused = Quota(seen, percent) /\ gap * b <= Way
        /\ refused > 0 => Way < (gap + 1) * b
    BY <1>1 DEF PolicyInv, Judge
  <2>3. refused' = Quota(seen', percent')
    <3>1. Quota(seen + 1, percent) =
            Quota(seen, percent) + (IF should_reject_by_percent(seen + 1, percent) THEN 1 ELSE 0)
      BY <2>1, <2>2, QuotaStep
    <3>2. refused' = refused + (IF should_reject_by_percent(seen + 1, percent) THEN 1 ELSE 0)
      <4>1. refused \in Int
        BY <2>1, <2>2 DEF Quota, QuotaOf, Scale
      <4> QED BY <1>1, <4>1 DEF Judge
    <3> QED BY <2>1, <2>2, <3>1, <3>2
  <2>4. /\ Way \in 0 .. (Scale - 1) /\ next \in 0 .. (Scale - 1)
        /\ next >= b => next = Way + b
    BY <2>1, <2>2, WayNext DEF Way
  <2>5. refused \in Nat
    BY <2>1, <2>2 DEF Quota, QuotaOf, Scale
  <2> HIDE DEF b, next
  <2>6. gap' \in Nat /\ gap' * b <= next /\ (refused' > 0 => next < (gap' + 1) * b)
    <3>1. CASE b # 0 /\ next < b /\ refused' = refused + 1 /\ gap' = 0
      BY <2>1, <2>2, <2>4, <3>1
    <3>2. CASE b = 0 /\ refused' = refused /\ gap' = gap + 1
      <4>1. refused = 0
        BY <2>1, <2>2, <3>2 DEF Quota, QuotaOf, Scale, b
      <4>2. gap' * b = 0
        BY <2>2, <3>2
      <4> QED BY <2>2, <2>4, <3>2, <4>1, <4>2
    <3>3. CASE b < Scale /\ next >= b /\ refused' = refused /\ gap' = gap + 1
      <4>1. (gap + 1) * b = gap * b + b /\ (gap + 2) * b = (gap + 1) * b + b
            /\ gap' + 1 = gap + 2 /\ gap * b \in Nat
        BY <2>1, <2>2, <3>3
      <4>2. next = Way + b
        BY <2>4, <3>3
      <4>3. gap' * b = gap * b + b /\ (gap' + 1) * b = (gap + 1) * b + b /\ (gap + 1) * b \in Nat
        BY <2>1, <2>2, <3>3, <4>1
      <4>4. gap' * b <= next
        BY <2>1, <2>2, <2>4, <4>1, <4>2, <4>3
      <4>5. refused' > 0 => next < (gap' + 1) * b
        BY <2>1, <2>2, <2>4, <3>3, <4>2, <4>3
      <4> QED BY <2>2, <3>3, <4>4, <4>5
    <3> QED BY <2>1, <3>1, <3>2, <3>3
  <2>7. BasisPoints(percent') = b /\ seen' \in Nat
    BY <2>1, <2>2 DEF b
  <2> QED BY <2>1, <2>3, <2>6, <2>7 DEF PolicyInv
<1>2. CASE Record \/ UNCHANGED vars
  BY <1>2 DEF Record, PolicyInv, Way, vars, policyVars
<1> QED BY <1>1, <1>2 DEF Next

LEMMA PolicyInvariant == Spec => []PolicyInv
BY PolicyInit, PolicyNext, PTL DEF Spec

\* For every percentage and after any number of requests, the refused share
\* is the one asked for, up to one request and the rounding (overload.rs:572).
THEOREM ShareCorrect == Spec => []ShareWithinRounding
<1>1. PolicyInv => ShareWithinRounding
  <2> SUFFICES ASSUME PolicyInv, percent # Recording PROVE ShareWithinRounding
    BY DEF ShareWithinRounding
  <2> DEFINE b == BasisPoints(percent)
             s == seen * b
  <2>1. /\ percent \in Percents /\ seen \in Nat
        /\ refused = s \div Scale
    BY DEF PolicyInv, Quota, QuotaOf
  <2>2. percent \in Nat /\ b \in Nat /\ 10 * b <= percent + 5 /\ percent <= 10 * b + 5
    BY <2>1, BasisPointsClose DEF Percents
  <2> HIDE DEF b
  <2>3. s \in Nat
    BY <2>1, <2>2
  <2>4. 10 * s <= seen * percent + 5 * seen /\ seen * percent <= 10 * s + 5 * seen
    <3>1. seen * (10 * b) <= seen * (percent + 5) /\ seen * percent <= seen * (10 * b + 5)
      BY <2>1, <2>2
    <3>2. seen * (10 * b) = 10 * s /\ seen * (percent + 5) = seen * percent + 5 * seen
          /\ seen * (10 * b + 5) = 10 * s + 5 * seen
      BY <2>1, <2>2
    <3> QED BY <3>1, <3>2
  <2> DEFINE asked == seen * percent
  <2>5. asked \in Nat
    BY <2>1, <2>2
  <2>6. 10000 * refused <= s /\ s < 10000 * refused + 10000 /\ refused \in Nat
    <3> HIDE DEF s
    <3> QED BY <2>1, <2>3 DEF Scale
  <2>7. 100000 * refused - asked <= 5 * seen /\ 100000 * refused - asked > -100000 - 5 * seen
    <3> HIDE DEF s, asked
    <3>1. 10 * s <= asked + 5 * seen /\ asked <= 10 * s + 5 * seen
      BY <2>4 DEF asked
    <3> QED BY <2>1, <2>3, <2>5, <2>6, <3>1
  <2> QED BY <2>7 DEF ShareWithinRounding
<1> QED BY <1>1, PolicyInvariant, PTL

\* Refusals are spread evenly, whatever the percentage (overload.rs:580).
THEOREM SpreadCorrect == Spec => EvenlySpread
<1>1. PolicyInv /\ [Next]_vars => [refused' > refused => GapAllowed]_policyVars
  <2> SUFFICES ASSUME PolicyInv, Judge, refused' > refused PROVE GapAllowed
    <3>1. PolicyInv /\ (Record \/ UNCHANGED vars) => UNCHANGED policyVars
      BY DEF Record, vars
    <3> QED BY <3>1 DEF Next
  <2> DEFINE b == BasisPoints(percent)
             next == ((seen + 1) * b) % Scale
  <2>1. /\ seen \in Nat /\ gap \in Nat /\ gap * b <= Way /\ refused = Quota(seen, percent)
        /\ refused > 0 => Way < (gap + 1) * b
    BY DEF PolicyInv, Judge
  <2>2. percent \in Percents /\ b \in Nat /\ b <= Scale
    BY JudgeStep
  <2>3. refused \in Nat
    BY <2>1, <2>2 DEF Quota, QuotaOf, Scale
  <2>4. b # 0 /\ next < b
    BY <2>3, JudgeStep
  <2>5. Way \in 0 .. (Scale - 1) /\ Way + b >= Scale
    BY <2>1, <2>2, <2>4, WayNext DEF Way
  <2> HIDE DEF b, next
  <2>6. gap <= (Scale - 1) \div b
    <3>1. Scale - 1 \in Nat /\ gap * b <= Scale - 1
      <4>1. gap * b \in Nat
        BY <2>1, <2>2
      <4>2. Way \in Nat /\ Way <= Scale - 1 /\ Scale - 1 \in Nat
        BY <2>5 DEF Scale
      <4> HIDE DEF Scale
      <4> QED BY <2>1, <4>1, <4>2
    <3> QED BY <2>1, <2>2, <2>4, <3>1, Division
  <2>7. ASSUME refused > 0 PROVE gap + 1 >= Scale \div b
    <3> DEFINE q == Scale \div b
    <3>1. q \in Nat /\ q * b <= Scale
      BY <2>2, <2>4, Division DEF Scale
    <3>2. (gap + 2) * b > Scale
      <4>1. (gap + 2) * b = (gap + 1) * b + b /\ (gap + 1) * b \in Nat
        BY <2>1, <2>2
      <4> QED BY <2>1, <2>2, <2>5, <2>7, <4>1 DEF Scale
    <3> HIDE DEF q
    <3>3. gap + 2 > q
      <4> SUFFICES ASSUME gap + 2 <= q PROVE FALSE
        BY <2>1, <3>1
      <4>1. (gap + 2) * b <= q * b
        BY <2>1, <2>2, <3>1
      <4>2. (gap + 2) * b \in Nat /\ q * b \in Nat
        BY <2>1, <2>2, <3>1
      <4> QED BY <3>1, <3>2, <4>1, <4>2 DEF Scale
    <3>4. gap + 1 >= q
      BY <2>1, <3>1, <3>3
    <3> QED BY <3>4 DEF q
  <2> QED BY <2>2, <2>4, <2>6, <2>7 DEF GapAllowed, b
<1> QED BY <1>1, PolicyInvariant, PTL DEF Spec, EvenlySpread

-----------------------------------------------------------------------------
(***************************************************************************)
(* The summary.                                                            *)
(***************************************************************************)
\* Interpolation stays between the neighbours and grows with the weight.
LEMMA Between ==
  ASSUME NEW lo \in Nat, NEW hi \in Nat, lo <= hi, NEW w \in 0 .. 99
  PROVE  /\ Interpolate(lo, hi, w) \in Nat
         /\ lo <= Interpolate(lo, hi, w) /\ Interpolate(lo, hi, w) <= hi
<1> DEFINE d == hi - lo
<1>1. d \in Nat /\ d * w \in Nat /\ d * w <= d * 100
  <2>1. d \in Nat /\ w \in Nat /\ w <= 99
    OBVIOUS
  <2> HIDE DEF d
  <2> QED BY <2>1
<1>2. (d * w) \div 100 \in Nat /\ (d * w) \div 100 <= d
  <2> HIDE DEF d
  <2> QED BY <1>1
<1> QED BY <1>1, <1>2 DEF Interpolate

LEMMA GrowsWithWeight ==
  ASSUME NEW lo \in Nat, NEW hi \in Nat, lo <= hi,
         NEW v \in 0 .. 99, NEW w \in 0 .. 99, v <= w
  PROVE  Interpolate(lo, hi, v) <= Interpolate(lo, hi, w)
<1> DEFINE d == hi - lo
<1>1. d * v \in Nat /\ d * w \in Nat /\ d * v <= d * w
  <2>1. d \in Nat
    OBVIOUS
  <2> HIDE DEF d
  <2> QED BY <2>1
<1>2. (d * v) \div 100 <= (d * w) \div 100
  <2> HIDE DEF d
  <2> QED BY <1>1
<1> QED BY <1>1, <1>2 DEF Interpolate

\* The rank of a percentile among n values, the index below it and the way
\* that is left from there.
Rank(n, p) == p * (n - 1)
Lower(n, p) == Rank(n, p) \div 100
Weight(n, p) == Rank(n, p) % 100

LEMMA RankBounds ==
  ASSUME NEW n \in Nat \ {0}, NEW p \in 0 .. 100
  PROVE  /\ Rank(n, p) \in Nat /\ Rank(n, p) = 100 * Lower(n, p) + Weight(n, p)
         /\ Lower(n, p) \in Nat /\ Weight(n, p) \in 0 .. 99
         /\ Lower(n, p) + 1 \in 1 .. n
         /\ Weight(n, p) # 0 => Lower(n, p) + 2 \in 1 .. n
<1> DEFINE m == n - 1
           rank == p * m
           lower == rank \div 100
<1>1. m \in Nat /\ rank \in Nat /\ rank <= 100 * m
  <2>1. m \in Nat
    OBVIOUS
  <2> HIDE DEF m
  <2> QED BY <2>1
<1>2. lower \in Nat /\ rank % 100 \in 0 .. 99 /\ rank = 100 * lower + (rank % 100)
  <2> HIDE DEF rank
  <2> QED BY <1>1
<1>3. lower <= m /\ (rank % 100 # 0 => lower + 1 <= m)
  <2> HIDE DEF m, rank, lower
  <2> QED BY <1>1, <1>2
<1>4. lower + 1 \in 1 .. n /\ (rank % 100 # 0 => lower + 2 \in 1 .. n)
  <2>1. n = m + 1
    OBVIOUS
  <2> HIDE DEF m, rank, lower
  <2> QED BY <1>1, <1>2, <1>3, <2>1
<1>5. Rank(n, p) = rank /\ Lower(n, p) = lower /\ Weight(n, p) = rank % 100
  BY DEF Rank, Lower, Weight
<1> HIDE DEF m, rank, lower
<1> QED BY <1>1, <1>2, <1>4, <1>5

\* A higher percentile has a higher rank.
LEMMA RankGrows ==
  ASSUME NEW n \in Nat \ {0}, NEW p \in 0 .. 100, NEW q \in 0 .. 100, p <= q
  PROVE  Rank(n, p) <= Rank(n, q)
<1> DEFINE m == n - 1
<1>1. m \in Nat
  OBVIOUS
<1>2. p * m <= q * m
  <2> HIDE DEF m
  <2> QED BY <1>1
<1> QED BY <1>2 DEF Rank

\* What a percentile is, and between which values it lies.
LEMMA PercentileBetween ==
  ASSUME NEW s \in Seq(Nat), s # <<>>, Ascending(s), NEW p \in 0 .. 100
  PROVE  LET below == s[Lower(Len(s), p) + 1]
             above == s[Lower(Len(s), p) + 2]
             weight == Weight(Len(s), p) IN
         /\ percentile(s, p) \in Nat /\ below \in Nat /\ below <= percentile(s, p)
         /\ weight = 0 => percentile(s, p) = below
         /\ weight # 0 => /\ above \in Nat /\ below <= above
                          /\ percentile(s, p) = Interpolate(below, above, weight)
                          /\ percentile(s, p) <= above
<1> DEFINE n == Len(s)
           i == Lower(n, p) + 1
           weight == Weight(n, p)
<1>1. n \in Nat \ {0} /\ \A k \in 1 .. n : s[k] \in Nat
  OBVIOUS
<1>2. percentile(s, p) = IF weight = 0 THEN s[i] ELSE Interpolate(s[i], s[Lower(n, p) + 2], weight)
  BY DEF percentile, Weight, Lower, Rank
<1>3. \A j, k \in 1 .. n : j <= k => s[j] <= s[k]
  BY DEF Ascending
<1> HIDE DEF n
<1>4. /\ i \in 1 .. n /\ weight \in 0 .. 99 /\ i + 1 = Lower(n, p) + 2
      /\ weight # 0 => i + 1 \in 1 .. n
  <2>1. /\ Lower(n, p) \in Nat /\ Weight(n, p) \in 0 .. 99 /\ Lower(n, p) + 1 \in 1 .. n
        /\ Weight(n, p) # 0 => Lower(n, p) + 2 \in 1 .. n
    BY <1>1, RankBounds, Zenon
  <2> QED BY <2>1
<1> HIDE DEF i, weight
<1>5. s[i] \in Nat
  BY <1>1, <1>4
<1>6. CASE weight = 0
  BY <1>2, <1>5, <1>6 DEF n, i, weight
<1>7. CASE weight # 0
  <2>1. i + 1 \in 1 .. n /\ i <= i + 1
    BY <1>4, <1>7
  <2>2. s[i + 1] \in Nat /\ s[i] <= s[i + 1]
    BY <1>1, <1>3, <1>4, <2>1
  <2>3. /\ Interpolate(s[i], s[i + 1], weight) \in Nat
        /\ s[i] <= Interpolate(s[i], s[i + 1], weight)
        /\ Interpolate(s[i], s[i + 1], weight) <= s[i + 1]
    BY <1>4, <1>5, <2>2, Between, Zenon
  <2>4. percentile(s, p) = Interpolate(s[i], s[i + 1], weight)
    BY <1>2, <1>4, <1>7
  <2>5. s[i + 1] = s[Lower(n, p) + 2]
    BY <1>4
  <2> QED BY <1>5, <1>7, <2>2, <2>3, <2>4, <2>5 DEF n, i, weight
<1> QED BY <1>6, <1>7

LEMMA PercentileBounds ==
  ASSUME NEW s \in Seq(Nat), s # <<>>, Ascending(s), NEW p \in 0 .. 100
  PROVE  /\ percentile(s, p) \in Nat
         /\ s[1] <= percentile(s, p) /\ percentile(s, p) <= s[Len(s)]
<1> DEFINE n == Len(s)
           i == Lower(n, p) + 1
           j == Lower(n, p) + 2
           value == percentile(s, p)
<1>1. n \in Nat \ {0} /\ \A k \in 1 .. n : s[k] \in Nat
  OBVIOUS
<1>2. \A k, l \in 1 .. n : k <= l => s[k] <= s[l]
  BY DEF Ascending
<1>3. /\ value \in Nat /\ s[i] <= value
      /\ value = s[i] \/ (Weight(n, p) # 0 /\ value <= s[j])
  BY PercentileBetween
<1> HIDE DEF n, value
<1>4. i \in 1 .. n /\ (Weight(n, p) # 0 => j \in 1 .. n)
  BY <1>1, RankBounds, Zenon
<1> HIDE DEF i, j
<1>5. 1 \in 1 .. n /\ n \in 1 .. n /\ 1 <= i /\ i <= n
  BY <1>1, <1>4
<1>6. s[1] <= s[i] /\ s[i] <= s[n] /\ s[1] \in Nat /\ s[i] \in Nat /\ s[n] \in Nat
  BY <1>1, <1>2, <1>4, <1>5
<1>7. s[1] <= value
  BY <1>3, <1>6
<1>8. value <= s[n]
  <2>1. CASE value = s[i]
    BY <1>6, <2>1
  <2>2. CASE Weight(n, p) # 0 /\ value <= s[j]
    <3>1. j \in 1 .. n /\ j <= n
      BY <1>1, <1>4, <2>2
    <3>2. s[j] \in Nat /\ s[j] <= s[n]
      BY <1>1, <1>2, <1>5, <3>1
    <3> QED BY <1>3, <1>6, <2>2, <3>2
  <2> QED BY <1>3, <2>1, <2>2
<1> QED BY <1>3, <1>7, <1>8 DEF n, value

LEMMA PercentileMonotonic ==
  ASSUME NEW s \in Seq(Nat), s # <<>>, Ascending(s),
         NEW p \in 0 .. 100, NEW q \in 0 .. 100, p <= q
  PROVE  percentile(s, p) <= percentile(s, q)
<1> DEFINE n == Len(s)
           a == Lower(n, p)
           b == Lower(n, q)
           v == Weight(n, p)
           x == Weight(n, q)
<1>1. n \in Nat \ {0} /\ \A k \in 1 .. n : s[k] \in Nat
  OBVIOUS
<1>2. \A j, k \in 1 .. n : j <= k => s[j] <= s[k]
  BY DEF Ascending
<1>3. /\ percentile(s, p) \in Nat /\ s[a + 1] \in Nat
      /\ v = 0 => percentile(s, p) = s[a + 1]
      /\ v # 0 => /\ s[a + 2] \in Nat /\ s[a + 1] <= s[a + 2]
                  /\ percentile(s, p) = Interpolate(s[a + 1], s[a + 2], v)
                  /\ percentile(s, p) <= s[a + 2]
  BY PercentileBetween
<1>4. /\ percentile(s, q) \in Nat /\ s[b + 1] \in Nat /\ s[b + 1] <= percentile(s, q)
      /\ x = 0 => percentile(s, q) = s[b + 1]
      /\ x # 0 => percentile(s, q) = Interpolate(s[b + 1], s[b + 2], x)
  BY PercentileBetween
<1> HIDE DEF n
<1>5. /\ a \in Nat /\ b \in Nat /\ v \in 0 .. 99 /\ x \in 0 .. 99
      /\ a + 1 \in 1 .. n /\ b + 1 \in 1 .. n /\ (v # 0 => a + 2 \in 1 .. n)
      /\ 100 * a + v <= 100 * b + x
  <2>1. /\ a \in Nat /\ v \in 0 .. 99 /\ a + 1 \in 1 .. n /\ (v # 0 => a + 2 \in 1 .. n)
        /\ Rank(n, p) = 100 * a + v
    BY <1>1, RankBounds, Zenon
  <2>2. b \in Nat /\ x \in 0 .. 99 /\ b + 1 \in 1 .. n /\ Rank(n, q) = 100 * b + x
    BY <1>1, RankBounds, Zenon
  <2>3. Rank(n, p) <= Rank(n, q)
    BY <1>1, RankGrows, Zenon
  <2> QED BY <2>1, <2>2, <2>3, Zenon
<1> HIDE DEF a, b, v, x
<1>6. a < b \/ (a = b /\ v <= x)
  BY <1>5
<1>7. CASE a = b /\ v <= x
  <2>1. CASE v = 0
    BY <1>3, <1>4, <1>7, <2>1
  <2>2. CASE v # 0
    <3>1. Interpolate(s[a + 1], s[a + 2], v) <= Interpolate(s[a + 1], s[a + 2], x)
      BY <1>3, <1>5, <1>7, <2>2, GrowsWithWeight, Zenon
    <3>2. x # 0
      BY <1>5, <1>7, <2>2
    <3> QED BY <1>3, <1>4, <1>7, <2>2, <3>1, <3>2
  <2> QED BY <2>1, <2>2
<1>8. CASE a < b
  <2>1. a + 1 <= b + 1 /\ a + 2 <= b + 1
    BY <1>5, <1>8
  <2>2. percentile(s, p) <= s[b + 1]
    <3>1. CASE v = 0
      BY <1>2, <1>3, <1>5, <2>1, <3>1
    <3>2. CASE v # 0
      <4>1. s[a + 2] <= s[b + 1]
        BY <1>2, <1>5, <2>1, <3>2
      <4> QED BY <1>3, <1>4, <3>2, <4>1
    <3> QED BY <3>1, <3>2
  <2> QED BY <1>3, <1>4, <2>2
<1> QED BY <1>6, <1>7, <1>8

\* The percentiles of sorted latencies are in order and between the extremes.
LEMMA RowOrdered ==
  ASSUME NEW s \in Seq(Nat), s # <<>>, Ascending(s)
  PROVE  Ordered(SummaryOf(s))
<1>1. {50, 95, 99} \subseteq 0 .. 100 /\ 50 <= 95 /\ 95 <= 99
  OBVIOUS
<1>2. s[1] <= percentile(s, 50) /\ percentile(s, 99) <= s[Len(s)]
  BY <1>1, PercentileBounds, Zenon
<1>3. percentile(s, 50) <= percentile(s, 95) /\ percentile(s, 95) <= percentile(s, 99)
  BY <1>1, PercentileMonotonic, Zenon
<1> QED BY <1>2, <1>3 DEF Ordered, SummaryOf

\* The values at and below an index, and those at and above it, are as many
\* as there are indices.
LEMMA CountBelow ==
  ASSUME NEW s \in Seq(Nat), Ascending(s), NEW k \in 1 .. Len(s), NEW v \in Nat, s[k] <= v
  PROVE  LET low == Cardinality({i \in DOMAIN s : s[i] <= v}) IN low \in Nat /\ low >= k
<1> DEFINE Low == {i \in DOMAIN s : s[i] <= v}
<1>1. 1 .. k \subseteq Low
  BY DEF Ascending
<1>2. IsFiniteSet(Low) /\ Cardinality(Low) \in Nat
  <2>1. Low \in SUBSET (1 .. Len(s))
    OBVIOUS
  <2>2. IsFiniteSet(1 .. Len(s))
    BY FS_Interval
  <2> HIDE DEF Low
  <2> QED BY <2>1, <2>2, FS_Subset, FS_CardinalityType
<1>3. Cardinality(1 .. k) = k
  BY FS_Interval
<1>4. Cardinality(1 .. k) <= Cardinality(Low)
  BY <1>1, <1>2, FS_Subset
<1> QED BY <1>2, <1>3, <1>4

LEMMA CountAbove ==
  ASSUME NEW s \in Seq(Nat), Ascending(s), NEW k \in 1 .. Len(s), NEW v \in Nat, v <= s[k]
  PROVE  LET high == Cardinality({i \in DOMAIN s : s[i] >= v}) IN
         high \in Nat /\ high >= Len(s) - k + 1
<1> DEFINE High == {i \in DOMAIN s : s[i] >= v}
<1>1. k .. Len(s) \subseteq High
  BY DEF Ascending
<1>2. IsFiniteSet(High) /\ Cardinality(High) \in Nat
  <2>1. High \in SUBSET (1 .. Len(s))
    OBVIOUS
  <2>2. IsFiniteSet(1 .. Len(s))
    BY FS_Interval
  <2> HIDE DEF High
  <2> QED BY <2>1, <2>2, FS_Subset, FS_CardinalityType
<1>3. Cardinality(k .. Len(s)) = Len(s) - k + 1
  BY FS_Interval
<1>4. Cardinality(k .. Len(s)) <= Cardinality(High)
  BY <1>1, <1>2, FS_Subset
<1> QED BY <1>2, <1>3, <1>4

\* A percentile has its rank.
LEMMA PercentileRanked ==
  ASSUME NEW s \in Seq(Nat), s # <<>>, Ascending(s), NEW p \in 0 .. 100
  PROVE  Ranked(s, p, percentile(s, p))
<1> DEFINE n == Len(s)
           i == Lower(n, p) + 1
           w == Weight(n, p)
           value == percentile(s, p)
           low == Cardinality({j \in DOMAIN s : s[j] <= value})
           high == Cardinality({j \in DOMAIN s : s[j] >= value})
<1>1. n \in Nat \ {0} /\ \A k \in 1 .. n : s[k] \in Nat
  OBVIOUS
<1>2. /\ Rank(n, p) \in Nat /\ Rank(n, p) = 100 * Lower(n, p) + w
      /\ Lower(n, p) \in Nat /\ w \in 0 .. 99 /\ i \in 1 .. n
      /\ w # 0 => Lower(n, p) + 2 \in 1 .. n
  <2> HIDE DEF n
  <2> QED BY <1>1, RankBounds, Zenon
<1>3. /\ value \in Nat /\ s[i] <= value
      /\ w = 0 => value = s[i]
      /\ w # 0 => value <= s[Lower(n, p) + 2]
  BY PercentileBetween
<1>4. low \in Nat /\ low >= i
  BY <1>2, <1>3, CountBelow
<1>5. high \in Nat /\ high >= IF w = 0 THEN n - i + 1 ELSE n - i
  <2>1. CASE w = 0
    BY <1>2, <1>3, <2>1, CountAbove
  <2>2. CASE w # 0
    <3>1. high \in Nat /\ high >= n - (Lower(n, p) + 2) + 1
      BY <1>2, <1>3, <2>2, CountAbove
    <3> QED BY <1>1, <1>2, <2>2, <3>1
  <2> QED BY <2>1, <2>2
<1>6. /\ Rank(n, p) \div 100 = i - 1
      /\ (Rank(n, p) + 99) \div 100 = IF w = 0 THEN i - 1 ELSE i
  <2> DEFINE l == Lower(n, p)
             r == Rank(n, p)
  <2>1. r = 100 * l + w /\ l \in Nat /\ w \in 0 .. 99 /\ i = l + 1
    BY <1>2
  <2> HIDE DEF l, r, w, i
  <2>2. r \div 100 = l /\ (r + 99) \div 100 = IF w = 0 THEN l ELSE l + 1
    BY <2>1
  <2>3. r \div 100 = i - 1 /\ (r + 99) \div 100 = IF w = 0 THEN i - 1 ELSE i
    BY <2>1, <2>2
  <2> QED BY <2>3 DEF r
<1>8. low > Rank(n, p) \div 100 /\ high >= n - (Rank(n, p) + 99) \div 100
  <2> DEFINE below == Rank(n, p) \div 100
             above == (Rank(n, p) + 99) \div 100
  <2>1. below = i - 1 /\ above = (IF w = 0 THEN i - 1 ELSE i)
    BY <1>6
  <2>2. i \in Nat
    BY <1>2
  <2> HIDE DEF low, high, n, w, i, below, above
  <2>3. low > below /\ high >= n - above
    BY <1>1, <1>4, <1>5, <2>1, <2>2
  <2> QED BY <2>3 DEF below, above
<1>9. Rank(n, p) = p * (Len(s) - 1)
  BY DEF Rank
<1> HIDE DEF low, high, i, w
<1> QED BY <1>8, <1>9 DEF Ranked, low, high

-----------------------------------------------------------------------------
(***************************************************************************)
(* The order in which the latencies arrived.                               *)
(***************************************************************************)
LEMMA UpToSize == ASSUME NEW n \in Nat PROVE IsFiniteSet(1 .. n) /\ Cardinality(1 .. n) = n
<1> DEFINE size == Cardinality(1 .. n)
<1>1. 1 \in Int /\ n \in Int
  OBVIOUS
<1>2. IsFiniteSet(1 .. n) /\ size = IF 1 > n THEN 0 ELSE n - 1 + 1
  BY <1>1, FS_Interval, Zenon
<1> HIDE DEF size
<1>3. size = n
  BY <1>2
<1> QED BY <1>2, <1>3, Zenon DEF size

\* The values up to the i-th in the sorted order.
UpTo(values, i) ==
  {j \in DOMAIN values : values[j] < values[i] \/ (values[j] = values[i] /\ j <= i)}

LEMMA PlaceSize ==
  ASSUME NEW values \in Seq(Nat), NEW i \in DOMAIN values
  PROVE  /\ IsFiniteSet(UpTo(values, i)) /\ Place(values, i) = Cardinality(UpTo(values, i))
         /\ Place(values, i) \in 1 .. Len(values)
<1> DEFINE n == Len(values)
           U == UpTo(values, i)
<1>1. n \in Nat /\ DOMAIN values = 1 .. n
  OBVIOUS
<1>2. IsFiniteSet(1 .. n) /\ Cardinality(1 .. n) = n
  BY <1>1, UpToSize
<1>3. U \in SUBSET (1 .. n) /\ i \in U
  <2>1. i \in Nat
    BY <1>1
  <2>2. i <= i
    BY <2>1
  <2>3. i \in U
    BY <2>2, Zenon DEF UpTo
  <2>4. U \in SUBSET DOMAIN values
    BY Zenon DEF UpTo
  <2> QED BY <1>1, <2>3, <2>4
<1>4. Place(values, i) = Cardinality(U)
  BY DEF Place, UpTo
<1> HIDE DEF U, n
<1>5. IsFiniteSet(U) /\ Cardinality(U) <= n
  BY <1>2, <1>3, FS_Subset
<1>6. Cardinality(U) \in Nat /\ Cardinality(U) # 0
  BY <1>3, <1>5, FS_CardinalityType, FS_EmptySet
<1>7. Cardinality(U) \in 1 .. n
  BY <1>1, <1>5, <1>6
<1> QED BY <1>4, <1>5, <1>7 DEF U, n

\* A value that comes before another has the lower place.
LEMMA PlaceGrows ==
  ASSUME NEW values \in Seq(Nat), NEW i \in DOMAIN values, NEW j \in DOMAIN values,
         values[i] < values[j] \/ (values[i] = values[j] /\ i < j)
  PROVE  Place(values, i) < Place(values, j)
<1> DEFINE A == UpTo(values, i)
           B == UpTo(values, j)
<1>1. DOMAIN values \in SUBSET Nat /\ \A k \in DOMAIN values : values[k] \in Nat
  OBVIOUS
<1>2. A \in SUBSET B
  <2> SUFFICES ASSUME NEW k \in A PROVE k \in B
    OBVIOUS
  <2>1. /\ k \in Nat /\ i \in Nat /\ j \in Nat
        /\ values[k] \in Nat /\ values[i] \in Nat /\ values[j] \in Nat
    BY <1>1 DEF UpTo
  <2> QED BY <2>1 DEF UpTo
<1>3. j \in B /\ j \notin A
  BY <1>1 DEF UpTo
<1>4. /\ IsFiniteSet(A) /\ Place(values, i) = Cardinality(A)
      /\ IsFiniteSet(B) /\ Place(values, j) = Cardinality(B)
  BY PlaceSize
<1> HIDE DEF A, B
<1>5. Cardinality(A) <= Cardinality(B) /\ Cardinality(A) # Cardinality(B)
  BY <1>2, <1>3, <1>4, FS_Subset
<1>6. Cardinality(A) \in Nat /\ Cardinality(B) \in Nat
  BY <1>4, FS_CardinalityType
<1> QED BY <1>4, <1>5, <1>6

LEMMA PlacesDiffer ==
  ASSUME NEW values \in Seq(Nat), NEW i \in DOMAIN values, NEW j \in DOMAIN values, i # j
  PROVE  Place(values, i) # Place(values, j)
<1>1. i \in Nat /\ j \in Nat /\ values[i] \in Nat /\ values[j] \in Nat
  OBVIOUS
<1>2. Place(values, i) \in Nat /\ Place(values, j) \in Nat
  <2>1. Place(values, i) \in 1 .. Len(values) /\ Place(values, j) \in 1 .. Len(values)
    BY PlaceSize
  <2> QED BY <2>1
<1>3. \/ values[i] < values[j] \/ (values[i] = values[j] /\ i < j)
      \/ values[j] < values[i] \/ (values[j] = values[i] /\ j < i)
  BY <1>1
<1>4. Place(values, i) < Place(values, j) \/ Place(values, j) < Place(values, i)
  BY <1>3, PlaceGrows
<1> QED BY <1>2, <1>4

LEMMA PlacesTaken ==
  ASSUME NEW values \in Seq(Nat), NEW k \in 1 .. Len(values)
  PROVE  \E i \in DOMAIN values : Place(values, i) = k
<1> DEFINE S == 1 .. Len(values)
           f == [i \in S |-> Place(values, i)]
<1>1. DOMAIN values = S /\ IsFiniteSet(S)
  BY FS_Interval
<1>2. f \in [S -> S]
  BY <1>1, PlaceSize
<1>3. \A i, j \in S : f[i] = f[j] => i = j
  BY <1>1, PlacesDiffer
<1> HIDE DEF f, S
<1>4. f \in Injection(S, S)
  BY <1>2, <1>3, Fun_IsInj
<1>5. f \in Surjection(S, S)
  BY <1>1, <1>4, FS_Injection
<1>6. \E i \in S : f[i] = k
  BY <1>5 DEF Surjection, S
<1> QED BY <1>1, <1>6 DEF f

\* Each value is at its place in the sorted sequence, and the sequence ascends.
LEMMA Sorted ==
  ASSUME NEW values \in Seq(Nat)
  PROVE  LET sorted == sort_unstable(values) IN
         /\ sorted \in Seq(Nat) /\ Len(sorted) = Len(values)
         /\ \A i \in DOMAIN values : sorted[Place(values, i)] = values[i]
         /\ Ascending(sorted)
<1> DEFINE n == Len(values)
           sorted == sort_unstable(values)
<1>1. n \in Nat /\ DOMAIN values = 1 .. n /\ \A i \in 1 .. n : values[i] \in Nat
  OBVIOUS
<1>2. ASSUME NEW k \in 1 .. n
      PROVE  \E i \in 1 .. n : Place(values, i) = k /\ sorted[k] = values[i]
  <2> DEFINE i == CHOOSE i \in DOMAIN values : Place(values, i) = k
  <2>1. i \in DOMAIN values /\ Place(values, i) = k
    BY PlacesTaken
  <2>2. sorted[k] = values[i]
    BY <1>1 DEF sort_unstable
  <2> QED BY <1>1, <2>1, <2>2
<1>3. DOMAIN sorted = 1 .. n /\ sorted = [k \in 1 .. n |-> sorted[k]]
  BY <1>1 DEF sort_unstable
<1> HIDE DEF sorted
<1>4. \A k \in 1 .. n : sorted[k] \in Nat
  BY <1>1, <1>2
<1>5. sorted \in Seq(Nat) /\ Len(sorted) = n
  <2>1. sorted \in [1 .. n -> Nat]
    BY <1>3, <1>4
  <2>2. \A m \in Nat : \A s \in [1 .. m -> Nat] : s \in Seq(Nat) /\ Len(s) = m
    OBVIOUS
  <2> HIDE DEF n
  <2> QED BY <1>1, <2>1, <2>2
<1>6. ASSUME NEW i \in 1 .. n PROVE sorted[Place(values, i)] = values[i]
  <2>1. Place(values, i) \in 1 .. n
    BY <1>1, PlaceSize
  <2>2. PICK j \in 1 .. n : Place(values, j) = Place(values, i)
                            /\ sorted[Place(values, i)] = values[j]
    BY <1>2, <2>1
  <2>3. j = i
    BY <1>1, <2>2, PlacesDiffer
  <2> QED BY <2>2, <2>3
<1>7. ASSUME NEW k \in 1 .. n, NEW l \in 1 .. n, k <= l PROVE sorted[k] <= sorted[l]
  <2>1. PICK i \in 1 .. n : Place(values, i) = k /\ sorted[k] = values[i]
    BY <1>2
  <2>2. PICK j \in 1 .. n : Place(values, j) = l /\ sorted[l] = values[j]
    BY <1>2
  <2>3. ~(Place(values, j) < Place(values, i))
    BY <1>1, <1>7, <2>1, <2>2
  <2>4. ~(values[j] < values[i])
    BY <1>1, <2>3, PlaceGrows
  <2>5. values[i] \in Nat /\ values[j] \in Nat
    BY <1>1
  <2> QED BY <2>1, <2>2, <2>4, <2>5
<1>8. Ascending(sorted)
  BY <1>5, <1>7 DEF Ascending
<1> QED BY <1>1, <1>5, <1>6, <1>8 DEF sorted

-----------------------------------------------------------------------------
(***************************************************************************)
(* The sum.  What holds at 0 and of each successor up to N holds up to N.  *)
(***************************************************************************)
LEMMA NatLeast ==
  ASSUME NEW T \in SUBSET Nat, T # {}
  PROVE  \E x \in T : \A y \in T : x <= y
<1>1. IsWellFoundedOn({ss \in Nat \X Nat : ss[1] < ss[2]}, Nat)
  BY NatLessThanWellFounded DEF OpToRel
<1>2. PICK x \in T : \A y \in T : ~ (<<y, x>> \in {ss \in Nat \X Nat : ss[1] < ss[2]})
  BY <1>1, WFMin
<1>3. \A y \in T : ~(y < x)
  BY <1>2
<1> QED BY <1>3

LEMMA Climb ==
  ASSUME NEW T \in SUBSET Nat, NEW N \in Nat, 0 \in T, \A n \in T : n < N => n + 1 \in T
  PROVE  0 .. N \subseteq T
<1> DEFINE Missing == {n \in Nat : n <= N /\ n \notin T}
<1> SUFFICES ASSUME Missing # {} PROVE FALSE
  OBVIOUS
<1>1. Missing \in SUBSET Nat
  OBVIOUS
<1>2. PICK x \in Missing : \A y \in Missing : x <= y
  <2> HIDE DEF Missing
  <2> QED BY <1>1, NatLeast
<1>3. x \in Nat /\ x # 0 /\ x - 1 \in Nat /\ x - 1 < N /\ ~(x <= x - 1)
  BY <1>2
<1>4. x - 1 \in T
  BY <1>2, <1>3
<1> QED BY <1>2, <1>3, <1>4

\* The fold of Total, up to m, and that there is one.
Adds(g, values, m) ==
  g = [n \in 0 .. m |-> IF n = 0 THEN 0 ELSE g[n - 1] + values[n]]

LEMMA AddsExists == ASSUME NEW values, NEW N \in Nat PROVE \E g : Adds(g, values, N)
<1> DEFINE T == {m \in Nat : \E g : Adds(g, values, m)}
<1>1. 0 \in T
  <2>1. Adds([n \in 0 .. 0 |-> 0], values, 0)
    BY DEF Adds
  <2> QED BY <2>1
<1>2. ASSUME NEW m \in T PROVE m + 1 \in T
  <2>1. PICK g : Adds(g, values, m)
    OBVIOUS
  <2> DEFINE h == [n \in 0 .. (m + 1) |-> IF n = 0 THEN 0 ELSE g[n - 1] + values[n]]
  <2>2. \A n \in 0 .. (m + 1) : n # 0 => n - 1 \in 0 .. m
    OBVIOUS
  <2>3. ASSUME NEW n \in 0 .. m PROVE h[n] = g[n]
    <3>1. g[n] = IF n = 0 THEN 0 ELSE g[n - 1] + values[n]
      BY <2>1 DEF Adds
    <3> QED BY <3>1
  <2>4. Adds(h, values, m + 1)
    BY <2>2, <2>3 DEF Adds
  <2> QED BY <2>4
<1>3. T \in SUBSET Nat
  OBVIOUS
<1> HIDE DEF T
<1>4. 0 .. N \subseteq T
  BY <1>1, <1>2, <1>3, Climb
<1> QED BY <1>4 DEF T

\* One pair for each unit of each of the first m values.
Units(values, m) == {u \in (1 .. m) \X Nat : u[2] \in 1 .. values[u[1]]}

LEMMA UnitsMore ==
  ASSUME NEW values, NEW m \in Nat, values[m + 1] \in Nat, IsFiniteSet(Units(values, m))
  PROVE  /\ IsFiniteSet(Units(values, m + 1))
         /\ Cardinality(Units(values, m + 1)) = Cardinality(Units(values, m)) + values[m + 1]
<1> DEFINE v == values[m + 1]
           A == Units(values, m)
           B == {m + 1} \X (1 .. v)
<1>1. Units(values, m + 1) = A \cup B
  <2>1. ASSUME NEW u \in Units(values, m + 1) PROVE u \in A \cup B
    <3>1. u \in (1 .. (m + 1)) \X Nat /\ u[2] \in 1 .. values[u[1]]
      BY DEF Units
    <3>2. CASE u[1] = m + 1
      BY <3>1, <3>2
    <3>3. CASE u[1] # m + 1
      <4>1. u[1] \in 1 .. m
        BY <3>1, <3>3
      <4> QED BY <3>1, <4>1 DEF Units
    <3> QED BY <3>2, <3>3
  <2>2. ASSUME NEW u \in A PROVE u \in Units(values, m + 1)
    <3>1. u \in (1 .. m) \X Nat /\ u[2] \in 1 .. values[u[1]]
      BY DEF Units
    <3>2. u \in (1 .. (m + 1)) \X Nat
      BY <3>1
    <3> QED BY <3>1, <3>2 DEF Units
  <2>3. ASSUME NEW u \in B PROVE u \in Units(values, m + 1)
    <3>1. u[1] = m + 1 /\ u[2] \in 1 .. v /\ u = <<u[1], u[2]>>
      OBVIOUS
    <3>2. u \in (1 .. (m + 1)) \X Nat
      BY <3>1
    <3> QED BY <3>1, <3>2 DEF Units
  <2> QED BY <2>1, <2>2, <2>3
<1>2. A \cap B = {}
  <2>1. ASSUME NEW u \in A, u \in B PROVE FALSE
    <3>1. u[1] \in 1 .. m
      BY DEF Units
    <3>2. u[1] = m + 1
      BY <2>1
    <3> QED BY <3>1, <3>2
  <2> QED BY <2>1
<1>3. IsFiniteSet(B) /\ Cardinality(B) = v
  <2> DEFINE D == {m + 1}
             E == 1 .. v
  <2>1. IsFiniteSet(D) /\ Cardinality(D) = 1
    BY FS_Singleton
  <2>2. v \in Nat
    OBVIOUS
  <2> HIDE DEF v
  <2>3. IsFiniteSet(E) /\ Cardinality(E) = v
    BY <2>2, UpToSize
  <2> HIDE DEF D, E
  <2>4. IsFiniteSet(D \X E) /\ Cardinality(D \X E) = Cardinality(D) * Cardinality(E)
    BY <2>1, <2>3, FS_Product
  <2>5. Cardinality(D) * Cardinality(E) = v
    BY <2>1, <2>2, <2>3
  <2> QED BY <2>4, <2>5 DEF D, E
<1> HIDE DEF A, B
<1>4. IsFiniteSet(A)
  BY DEF A
<1>5. IsFiniteSet(A \cup B) /\ Cardinality(A \cup B) = Cardinality(A) + v - Cardinality({})
  <2> HIDE DEF v
  <2>1. /\ IsFiniteSet(A \cup B)
        /\ Cardinality(A \cup B) = Cardinality(A) + Cardinality(B) - Cardinality(A \cap B)
    BY <1>3, <1>4, FS_Union
  <2> QED BY <1>2, <1>3, <2>1
<1>6. Cardinality(A) \in Nat /\ v \in Nat /\ Cardinality({}) = 0
  BY <1>4, FS_CardinalityType, FS_EmptySet
<1> HIDE DEF v
<1>7. Cardinality(A \cup B) = Cardinality(A) + v
  BY <1>5, <1>6
<1> QED BY <1>1, <1>5, <1>7 DEF A, v

\* The sum of a sequence is the number of its units.
LEMMA TotalUnits ==
  ASSUME NEW values \in Seq(Nat)
  PROVE  /\ IsFiniteSet(Units(values, Len(values)))
         /\ Total(values) = Cardinality(Units(values, Len(values)))
<1> DEFINE N == Len(values)
<1>1. N \in Nat /\ \A i \in 1 .. N : values[i] \in Nat
  OBVIOUS
<1>2. PICK g : Adds(g, values, N) /\ Total(values) = g[N]
  BY <1>1, AddsExists DEF Total, Adds
<1>3. \A n \in 0 .. N : g[n] = IF n = 0 THEN 0 ELSE g[n - 1] + values[n]
  BY <1>2 DEF Adds
<1> DEFINE T == {m \in Nat : m <= N => /\ IsFiniteSet(Units(values, m))
                                        /\ g[m] = Cardinality(Units(values, m))}
<1> HIDE DEF N
<1>4. 0 \in T /\ T \in SUBSET Nat
  <2>1. Units(values, 0) = {}
    BY DEF Units
  <2>2. g[0] = 0
    BY <1>1, <1>3
  <2> QED BY <2>1, <2>2, FS_EmptySet
<1>5. ASSUME NEW m \in T, m < N PROVE m + 1 \in T
  <2>1. m \in Nat /\ m + 1 \in 1 .. N /\ m + 1 \in 0 .. N /\ m + 1 # 0 /\ (m + 1) - 1 = m
    BY <1>1, <1>5
  <2>2. IsFiniteSet(Units(values, m)) /\ g[m] = Cardinality(Units(values, m))
    BY <1>1, <1>5
  <2>3. /\ IsFiniteSet(Units(values, m + 1))
        /\ Cardinality(Units(values, m + 1)) = Cardinality(Units(values, m)) + values[m + 1]
    BY <1>1, <2>1, <2>2, UnitsMore
  <2>4. g[m + 1] = g[m] + values[m + 1]
    BY <1>3, <2>1
  <2> QED BY <2>1, <2>2, <2>3, <2>4
<1> HIDE DEF T
<1>6. 0 .. N \subseteq T
  BY <1>1, <1>4, <1>5, Climb
<1>7. N \in T
  BY <1>1, <1>6
<1> QED BY <1>1, <1>2, <1>7 DEF T, N

LEMMA SameSize ==
  ASSUME NEW S, IsFiniteSet(S), NEW T, NEW B, \A a \in S : B[a] \in T,
         \A a, b \in S : B[a] = B[b] => a = b, \A t \in T : \E a \in S : B[a] = t
  PROVE  Cardinality(S) = Cardinality(T)
<1> DEFINE F == [a \in S |-> B[a]]
<1>1. /\ F \in [S -> T] /\ \A a, b \in S : F[a] = F[b] => a = b
      /\ \A t \in T : \E a \in S : F[a] = t
  OBVIOUS
<1> HIDE DEF F
<1>2. F \in Bijection(S, T)
  BY <1>1, Fun_IsBij
<1> QED BY <1>2, FS_Bijection DEF ExistsBijection

\* Sorting moves each unit with its value, so the sum stays.
LEMMA SameTotal ==
  ASSUME NEW values \in Seq(Nat)
  PROVE  Total(sort_unstable(values)) = Total(values)
<1> DEFINE n == Len(values)
           sorted == sort_unstable(values)
           S == Units(values, n)
           W == Units(sorted, n)
           B == [u \in S |-> <<Place(values, u[1]), u[2]>>]
<1>1. n \in Nat /\ DOMAIN values = 1 .. n
  OBVIOUS
<1>2. /\ sorted \in Seq(Nat) /\ Len(sorted) = n
      /\ \A i \in 1 .. n : sorted[Place(values, i)] = values[i]
  BY <1>1, Sorted
<1>3. \A i \in 1 .. n : Place(values, i) \in 1 .. n
  BY <1>1, PlaceSize
<1> HIDE DEF sorted
<1>4. IsFiniteSet(S) /\ Total(values) = Cardinality(S) /\ Total(sorted) = Cardinality(W)
  BY <1>2, TotalUnits
<1>5. \A u \in S : u \in (1 .. n) \X Nat /\ u[2] \in 1 .. values[u[1]]
  BY DEF Units
<1>6. \A u \in S : B[u] \in W
  BY <1>2, <1>3, <1>5 DEF Units
<1>7. ASSUME NEW u \in S, NEW w \in S, B[u] = B[w] PROVE u = w
  <2>1. Place(values, u[1]) = Place(values, w[1]) /\ u[2] = w[2]
    BY <1>7
  <2>2. u[1] = w[1]
    BY <1>1, <1>5, <2>1, PlacesDiffer
  <2> QED BY <1>5, <2>1, <2>2
<1>8. ASSUME NEW t \in W PROVE \E u \in S : B[u] = t
  <2>1. t \in (1 .. n) \X Nat /\ t[2] \in 1 .. sorted[t[1]]
    BY DEF Units
  <2>2. PICK i \in 1 .. n : Place(values, i) = t[1]
    BY <1>1, <2>1, PlacesTaken
  <2>3. <<i, t[2]>> \in S
    BY <1>2, <2>1, <2>2 DEF Units
  <2>4. B[<<i, t[2]>>] = <<t[1], t[2]>>
    BY <2>2, <2>3
  <2> QED BY <2>1, <2>3, <2>4
<1> HIDE DEF B, S, W
<1>9. Cardinality(S) = Cardinality(W)
  BY <1>4, <1>6, <1>7, <1>8, SameSize
<1> QED BY <1>4, <1>9 DEF sorted

\* The row of sorted latencies says of them what it should.
LEMMA RowRight ==
  ASSUME NEW s \in Seq(Nat), s # <<>>, Ascending(s)
  PROVE  Summarizes(SummaryOf(s), s)
<1> DEFINE summary == SummaryOf(s)
           n == Len(s)
           total == Total(s)
<1>1. n \in Nat \ {0} /\ \A k \in 1 .. n : s[k] \in Nat
  OBVIOUS
<1>2. /\ summary.mean = total \div n /\ summary.min = s[1] /\ summary.max = s[n]
      /\ summary.p50 = percentile(s, 50) /\ summary.p95 = percentile(s, 95)
      /\ summary.p99 = percentile(s, 99)
  BY DEF SummaryOf
<1>3. Ordered(summary)
  BY RowOrdered
<1>0. total \in Nat
  BY TotalUnits, FS_CardinalityType
<1> HIDE DEF summary, total
<1>4. summary.min \in ToSet(s) /\ summary.max \in ToSet(s)
  BY <1>1, <1>2 DEF ToSet
<1>5. \A i \in DOMAIN s : s[i] \in summary.min .. summary.max
  <2> TAKE i \in DOMAIN s
  <2>1. i \in 1 .. n /\ 1 \in 1 .. n /\ n \in 1 .. n /\ 1 <= i /\ i <= n
    BY <1>1
  <2>2. s[1] <= s[i] /\ s[i] <= s[n]
    BY <2>1, Zenon DEF Ascending
  <2>3. s[1] \in Nat /\ s[i] \in Nat /\ s[n] \in Nat
    BY <1>1, <2>1
  <2> HIDE DEF n
  <2> QED BY <1>2, <2>2, <2>3
<1>6. summary.mean * n \in total - n + 1 .. total
  <2>1. (total \div n) * n <= total /\ total \div n \in Nat
    <3> HIDE DEF n
    <3> QED BY <1>0, <1>1, Division
  <2>2. total < (total \div n) * n + n
    <3> HIDE DEF n
    <3> QED BY <1>0, <1>1
  <2> DEFINE m == (total \div n) * n
  <2>3. m \in Nat
    <3> HIDE DEF n
    <3> QED BY <1>0, <1>1, <2>1
  <2> HIDE DEF n
  <2>4. m <= total /\ total < m + n
    BY <2>1, <2>2
  <2> HIDE DEF m
  <2>5. m \in total - n + 1 .. total
    BY <1>0, <1>1, <2>3, <2>4
  <2> QED BY <1>2, <2>5 DEF m
<1>7. Ranked(s, 50, summary.p50) /\ Ranked(s, 95, summary.p95) /\ Ranked(s, 99, summary.p99)
  <2>1. {50, 95, 99} \subseteq 0 .. 100
    OBVIOUS
  <2>2. /\ Ranked(s, 50, percentile(s, 50)) /\ Ranked(s, 95, percentile(s, 95))
        /\ Ranked(s, 99, percentile(s, 99))
    BY <2>1, PercentileRanked, Zenon
  <2> QED BY <1>2, <2>2
<1>8. Summarizes(summary, s)
  BY <1>3, <1>4, <1>5, <1>6, <1>7, Zenon DEF Summarizes, total
<1> QED BY <1>8 DEF summary

\* As many values as sorted ones are at or below a number, and at or above it.
LEMMA SameRanks ==
  ASSUME NEW values \in Seq(Nat), NEW c
  PROVE  LET sorted == sort_unstable(values) IN
         /\ Cardinality({i \in DOMAIN values : values[i] <= c})
              = Cardinality({i \in DOMAIN sorted : sorted[i] <= c})
         /\ Cardinality({i \in DOMAIN values : values[i] >= c})
              = Cardinality({i \in DOMAIN sorted : sorted[i] >= c})
<1> DEFINE n == Len(values)
           sorted == sort_unstable(values)
           P == [i \in 1 .. n |-> Place(values, i)]
           A == {i \in 1 .. n : values[i] <= c}
           B == {i \in 1 .. n : sorted[i] <= c}
           C == {i \in 1 .. n : values[i] >= c}
           D == {i \in 1 .. n : sorted[i] >= c}
<1>1. n \in Nat /\ DOMAIN values = 1 .. n
  OBVIOUS
<1>2. sorted \in Seq(Nat) /\ Len(sorted) = n
  BY Sorted
<1>3. \A i \in 1 .. n : P[i] \in 1 .. n /\ sorted[P[i]] = values[i]
  BY <1>1, Sorted, PlaceSize
<1>4. \A i, j \in 1 .. n : P[i] = P[j] => i = j
  BY <1>1, PlacesDiffer
<1>5. \A k \in 1 .. n : \E i \in 1 .. n : P[i] = k
  BY <1>1, PlacesTaken
<1>6. DOMAIN sorted = 1 .. n
  <2> HIDE DEF sorted, n
  <2> QED BY <1>2
<1> HIDE DEF sorted, n, P
<1>7. IsFiniteSet(A) /\ IsFiniteSet(C)
  <2>1. A \in SUBSET (1 .. n) /\ C \in SUBSET (1 .. n) /\ IsFiniteSet(1 .. n)
    BY <1>1, UpToSize
  <2> QED BY <2>1, FS_Subset
<1>8. Cardinality(A) = Cardinality(B)
  <2>1. /\ \A a \in A : P[a] \in B
        /\ \A a, b \in A : P[a] = P[b] => a = b
        /\ \A t \in B : \E a \in A : P[a] = t
    BY <1>3, <1>4, <1>5
  <2> HIDE DEF A, B
  <2> QED BY <1>7, <2>1, SameSize
<1>9. Cardinality(C) = Cardinality(D)
  <2>1. /\ \A a \in C : P[a] \in D
        /\ \A a, b \in C : P[a] = P[b] => a = b
        /\ \A t \in D : \E a \in C : P[a] = t
    BY <1>3, <1>4, <1>5
  <2> HIDE DEF C, D
  <2> QED BY <1>7, <2>1, SameSize
<1> QED BY <1>1, <1>6, <1>8, <1>9, Zenon DEF sorted

\* What a summary says of the sorted latencies it says of the latencies.
LEMMA SaysTheSame ==
  ASSUME NEW values \in Seq(Nat), values # <<>>, NEW summary,
         Summarizes(summary, sort_unstable(values))
  PROVE  Summarizes(summary, values)
<1> DEFINE n == Len(values)
           sorted == sort_unstable(values)
<1>1. n \in Nat /\ DOMAIN values = 1 .. n
  OBVIOUS
<1>2. sorted \in Seq(Nat) /\ Len(sorted) = n
      /\ \A i \in 1 .. n : sorted[Place(values, i)] = values[i]
  BY <1>1, Sorted
<1>3. \A i \in 1 .. n : Place(values, i) \in 1 .. n
  BY <1>1, PlaceSize
<1>4. Total(sorted) = Total(values)
  BY SameTotal
<1>5. \A p, value : Ranked(sorted, p, value) => Ranked(values, p, value)
  <2> SUFFICES ASSUME NEW p, NEW value, Ranked(sorted, p, value)
               PROVE  Ranked(values, p, value)
    OBVIOUS
  <2>1. /\ Cardinality({i \in DOMAIN values : values[i] <= value})
             = Cardinality({i \in DOMAIN sorted : sorted[i] <= value})
        /\ Cardinality({i \in DOMAIN values : values[i] >= value})
             = Cardinality({i \in DOMAIN sorted : sorted[i] >= value})
    BY SameRanks
  <2> HIDE DEF sorted
  <2> QED BY <1>2, <2>1, Zenon DEF Ranked, n
<1>6. ToSet(sorted) \subseteq ToSet(values)
  <2>1. ASSUME NEW k \in 1 .. n PROVE \E i \in 1 .. n : sorted[k] = values[i]
    <3>1. PICK i \in DOMAIN values : Place(values, i) = k
      BY PlacesTaken
    <3> HIDE DEF sorted, n
    <3> QED BY <1>1, <1>2, <3>1
  <2>2. DOMAIN sorted = 1 .. n
    <3> HIDE DEF sorted, n
    <3> QED BY <1>2
  <2> HIDE DEF sorted
  <2> QED BY <1>1, <2>1, <2>2 DEF ToSet
<1> HIDE DEF sorted
<1>7. /\ Ordered(summary) /\ summary.min \in ToSet(sorted) /\ summary.max \in ToSet(sorted)
      /\ \A i \in DOMAIN sorted : sorted[i] \in summary.min .. summary.max
      /\ summary.mean * Len(sorted) \in Total(sorted) - Len(sorted) + 1 .. Total(sorted)
      /\ Ranked(sorted, 50, summary.p50) /\ Ranked(sorted, 95, summary.p95)
      /\ Ranked(sorted, 99, summary.p99)
  BY Zenon DEF Summarizes, sorted
<1>8. \A i \in DOMAIN values : values[i] \in summary.min .. summary.max
  <2> TAKE i \in DOMAIN values
  <2>1. Place(values, i) \in DOMAIN sorted /\ sorted[Place(values, i)] = values[i]
    <3> HIDE DEF n
    <3> QED BY <1>1, <1>2, <1>3
  <2> QED BY <1>7, <2>1
<1>9. summary.min \in ToSet(values) /\ summary.max \in ToSet(values)
  BY <1>6, <1>7
<1>10. summary.mean * Len(values) \in Total(values) - Len(values) + 1 .. Total(values)
  BY <1>2, <1>4, <1>7, Zenon DEF n
<1>11. /\ Ranked(values, 50, summary.p50) /\ Ranked(values, 95, summary.p95)
       /\ Ranked(values, 99, summary.p99)
  BY <1>5, <1>7
<1> QED BY <1>7, <1>8, <1>9, <1>10, <1>11, Zenon DEF Summarizes

\* For any latencies, in any order of arrival, the percentiles of a row are in
\* order and between its extremes, the median first (cli.rs:334, 353).
THEOREM SummaryOrdered ==
  ASSUME NEW values \in Seq(Nat)
  PROVE  Ordered(summarize_latencies(values))
<1>1. CASE values = <<>>
  BY <1>1 DEF Ordered, summarize_latencies, NoLatencies
<1>2. CASE values # <<>>
  <2> DEFINE sorted == sort_unstable(values)
  <2>1. sorted \in Seq(Nat) /\ Len(sorted) = Len(values) /\ Ascending(sorted)
    BY Sorted
  <2>2. sorted # <<>>
    <3> HIDE DEF sorted
    <3> QED BY <1>2, <2>1
  <2>3. Ordered(SummaryOf(sorted))
    BY <2>1, <2>2, RowOrdered
  <2> QED BY <1>2, <2>3 DEF summarize_latencies
<1> QED BY <1>1, <1>2

\* What is recorded.
Durations == latencies \in Seq(Nat)

LEMMA Recorded == Spec => []Durations
<1>1. Init => Durations
  <2> SUFFICES ASSUME Init PROVE latencies \in Seq(Nat)
    BY DEF Durations
  <2>1. CASE latencies = <<>>
    BY <2>1
  <2>2. CASE latencies \in {[i \in 1 .. n |-> 10 * i] : n \in SomeLengths}
    <3>1. PICK n \in SomeLengths : latencies = [i \in 1 .. n |-> 10 * i]
      BY <2>2
    <3>2. n \in Nat
      BY LatenciesAssumption
    <3>3. latencies \in [1 .. n -> Nat]
      BY <3>1, <3>2
    <3>4. \A m \in Nat : \A s \in [1 .. m -> Nat] : s \in Seq(Nat)
      OBVIOUS
    <3> QED BY <3>2, <3>3, <3>4
  <2> QED BY <2>1, <2>2 DEF Init
<1>2. Durations /\ [Next]_vars => Durations'
  <2> SUFFICES ASSUME latencies \in Seq(Nat), [Next]_vars PROVE latencies' \in Seq(Nat)
    BY DEF Durations
  <2>1. CASE Judge \/ UNCHANGED vars
    BY <2>1 DEF Judge, vars
  <2>2. CASE Record
    <3>1. PICK latency \in SomeLatencies : latencies' = Append(latencies, latency)
      BY <2>2 DEF Record
    <3>2. latency \in Nat
      BY LatenciesAssumption
    <3> QED BY <3>1, <3>2
  <2> QED BY <2>1, <2>2 DEF Next
<1> QED BY <1>1, <1>2, PTL DEF Spec

\* For any number of latencies, in whatever order they arrived, the row says
\* of them what it should (cli.rs:334, 353).
THEOREM SummaryCorrect == Spec => []SummaryRight
<1>1. Durations => SummaryRight
  <2> SUFFICES ASSUME latencies \in Seq(Nat), latencies # <<>>
               PROVE  Summarizes(summarize_latencies(latencies), latencies)
    BY DEF SummaryRight, Durations
  <2> DEFINE sorted == sort_unstable(latencies)
  <2>1. sorted \in Seq(Nat) /\ Len(sorted) = Len(latencies) /\ Ascending(sorted)
    BY Sorted
  <2>2. sorted # <<>>
    <3> HIDE DEF sorted
    <3> QED BY <2>1
  <2>3. Summarizes(SummaryOf(sorted), sorted)
    BY <2>1, <2>2, RowRight
  <2>4. Summarizes(SummaryOf(sorted), latencies)
    BY <2>3, SaysTheSame
  <2> QED BY <2>4 DEF summarize_latencies
<1> QED BY <1>1, Recorded, PTL
=============================================================================
