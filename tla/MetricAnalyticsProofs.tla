----------------------- MODULE MetricAnalyticsProofs -----------------------
(***************************************************************************)
(* Proofs about MetricAnalytics, for any thresholds, window sizes, history *)
(* lengths and values: what is over the threshold or departs from a flat   *)
(* history is reported before its event is done with, statistics have the  *)
(* samples they need, and a series that never changes stays quiet.         *)
(*                                                                         *)
(* The sums of the detectors are recursive functions over the length of a  *)
(* series.  Induction over it is that of a set of numbers (SetInduction),  *)
(* which follows from the well-foundedness of Nat.                         *)
(***************************************************************************)
EXTENDS MetricAnalytics, FiniteSetTheorems, WellFoundedInduction, TLAPS

-----------------------------------------------------------------------------
(* Sums                                                                    *)

\* Every nonempty set of numbers has a least one.
LEMMA Least ==
  ASSUME NEW T \in SUBSET Nat, T # {}
  PROVE  \E x \in T : \A y \in T : x <= y
  <1>1. PICK R : R = {ss \in Nat \X Nat : ss[1] < ss[2]}
    OBVIOUS
  <1>2. IsWellFoundedOn(R, Nat)
    BY <1>1, NatLessThanWellFounded DEF OpToRel
  <1>3. PICK x \in T : \A y \in T : ~(<<y, x>> \in R)
    BY <1>2, WFMin
  <1>4. ASSUME NEW y \in T, y < x
        PROVE  <<y, x>> \in R
    BY <1>1, <1>4
  <1>5. ASSUME NEW y \in T
        PROVE  x <= y
    <2>1. x \in Nat /\ y \in Nat /\ ~(y < x)
      BY <1>3, <1>4
    <2> QED
      BY <2>1
  <1> QED
    BY <1>5

\* Induction, of a set of numbers.
LEMMA SetInduction ==
  ASSUME NEW S, 0 \in S, \A n \in Nat : n \in S => n + 1 \in S
  PROVE  Nat \subseteq S
  <1> SUFFICES ASSUME Nat \ S # {}
               PROVE  FALSE
    OBVIOUS
  <1>1. PICK n \in Nat \ S : \A m \in Nat \ S : n <= m
    BY Least
  <1>2. n # 0 /\ n - 1 \in Nat /\ (n - 1) + 1 = n
    OBVIOUS
  <1>3. n - 1 \in S
    BY <1>1, <1>2
  <1> QED
    BY <1>2, <1>3

Constant(s, c) == \A i \in DOMAIN s : s[i] = c

\* A step up a multiple of c.
LEMMA NextMultiple ==
  ASSUME NEW n \in Nat \ {0}, NEW c \in Int
  PROVE  (n - 1) * c + c = n * c /\ n * c \in Int /\ 0 * c = 0
  OBVIOUS

\* A constant series sums up to its length times its value.
LEMMA ConstantTotal ==
  ASSUME NEW s, NEW N \in Nat, Len(s) = N, DOMAIN s = 1 .. N, NEW c \in Int, Constant(s, c)
  PROVE  Total(s) = N * c
  <1> DEFINE sum == CHOOSE f : f = [n \in 0 .. N |-> IF n = 0 THEN 0 ELSE f[n - 1] + s[n]]
  <1>1. sum = [n \in 0 .. N |-> IF n = 0 THEN 0 ELSE sum[n - 1] + s[n]]
    <2>1. PICK f : f = [n \in 0 .. N |-> n * c]
      OBVIOUS
    <2>2. ASSUME NEW n \in 0 .. N
          PROVE  f[n] = IF n = 0 THEN 0 ELSE f[n - 1] + s[n]
      <3>1. CASE n = 0
        BY <2>1, <3>1
      <3>2. CASE n # 0
        <4>1. n \in Nat \ {0} /\ n - 1 \in 0 .. N /\ n \in 1 .. N
          BY <3>2
        <4>2. s[n] = c /\ f[n - 1] = (n - 1) * c /\ f[n] = n * c
          BY <2>1, <4>1 DEF Constant
        <4> QED
          BY <3>2, <4>1, <4>2, NextMultiple
      <3> QED
        BY <3>1, <3>2
    <2>3. f = [n \in 0 .. N |-> IF n = 0 THEN 0 ELSE f[n - 1] + s[n]]
      BY <2>1, <2>2
    <2> QED
      BY <2>3
  <1>2. Total(s) = sum[N]
    BY DEF Total
  <1> HIDE DEF sum
  <1> DEFINE S == {n \in Nat : n \in 0 .. N => sum[n] = n * c}
  <1>3. 0 \in S
    BY <1>1
  <1>4. ASSUME NEW n \in Nat, n \in S
        PROVE  n + 1 \in S
    <2> SUFFICES ASSUME n + 1 \in 0 .. N
                 PROVE  sum[n + 1] = (n + 1) * c
      OBVIOUS
    <2>1. n \in 0 .. N /\ n + 1 \in 1 .. N /\ n + 1 # 0 /\ (n + 1) - 1 = n /\ n + 1 \in Nat \ {0}
      OBVIOUS
    <2>2. sum[n] = n * c /\ s[n + 1] = c
      BY <1>4, <2>1 DEF Constant
    <2>3. sum[n + 1] = sum[n] + s[n + 1]
      BY <1>1, <2>1
    <2> QED
      BY <2>1, <2>2, <2>3, NextMultiple
  <1> HIDE DEF S
  <1>5. N \in S
    BY <1>3, <1>4, SetInduction
  <1> QED
    BY <1>2, <1>5 DEF S

\* Behind a constant baseline of n values, an observation is n times its difference away
\* from the mean, and there is no deviation.
LEMMA ConstantBaseline ==
  ASSUME NEW s \in Seq(Int), NEW n \in Nat, Len(s) = n + 1, NEW c \in Int,
         \A i \in 1 .. n : s[i] = c
  PROVE  /\ Distance(s) = n * s[n + 1] - n * c
         /\ Spread(s) = 0
  <1> DEFINE b == Baseline(s)
  <1>1. b \in Seq(Int) /\ Len(b) = n /\ DOMAIN b = 1 .. n /\ \A i \in 1 .. n : b[i] = s[i]
    BY DEF Baseline
  <1>2. Constant(b, c)
    BY <1>1 DEF Constant
  <1> HIDE DEF b
  <1>3. Total(b) = n * c
    BY <1>1, <1>2, ConstantTotal
  <1>4. PICK d \in Int : d = c * c
    OBVIOUS
  <1>5. /\ Squares(b) = [i \in 1 .. n |-> b[i] * b[i]]
        /\ \A i \in 1 .. n : b[i] * b[i] = d
    BY <1>1, <1>2, <1>4 DEF Squares, Constant
  <1>6. Squares(b) \in [1 .. n -> Int]
    BY <1>4, <1>5
  <1>7. Len(Squares(b)) = n /\ DOMAIN Squares(b) = 1 .. n /\ Constant(Squares(b), d)
    BY <1>5, <1>6 DEF Constant
  <1>8. Total(Squares(b)) = n * d
    BY <1>7, ConstantTotal
  <1>9. (n + 1) - 1 = n /\ n * (n * d) - (n * c) * (n * c) = 0
    BY <1>4
  <1>10. Spread(s) = 0
    BY <1>3, <1>8, <1>9 DEF Spread, b
  <1>11. Distance(s) = n * s[n + 1] - n * c
    BY <1>3, <1>9 DEF Distance, Observed, b
  <1> QED
    BY <1>10, <1>11

\* No square is negative.
LEMMA SquareTyped ==
  ASSUME NEW d \in Int
  PROVE  100 * d * d \in Int /\ 100 * d * d >= 0
  <1>1. CASE d >= 0
    <2>1. d * d >= 0
      BY <1>1
    <2> QED
      BY <2>1
  <1>2. CASE d < 0
    <2>1. d * d >= 0
      BY <1>2
    <2> QED
      BY <2>1
  <1> QED
    BY <1>1, <1>2

\* Two multiples of a positive number differ when what they are multiples of does.
LEMMA MultiplesApart ==
  ASSUME NEW n \in Nat \ {0}, NEW c \in Int, NEW x \in Int, x # c
  PROVE  n * x - n * c \in Int /\ n * x - n * c # 0
  <1>1. PICK d \in Int : d = x - c /\ d # 0
    OBVIOUS
  <1>2. n * x - n * c = n * d
    BY <1>1
  <1>3. n * d # 0 /\ n * d \in Int
    BY <1>1
  <1> QED
    BY <1>2, <1>3

\* A value that departs from a constant history of at least four has a critical z-score,
\* whatever the limit: the deviation of the history is zero.
LEMMA SpikeIsCritical ==
  ASSUME NEW s \in Seq(Int), NEW n \in Nat, n >= 4, Len(s) = n + 1, NEW c \in Int,
         \A i \in 1 .. n : s[i] = c, s[n + 1] # c, NEW z \in Nat
  PROVE  ZScore(s, z) = "critical"
  <1>1. n \in Nat \ {0} /\ ~(Len(s) < 5)
    OBVIOUS
  <1>2. PICK x \in Int : x = s[n + 1] /\ x # c
    OBVIOUS
  <1>3. Distance(s) = n * x - n * c /\ Spread(s) = 0
    <2>1. Distance(s) = n * s[n + 1] - n * c /\ Spread(s) = 0
      BY ConstantBaseline
    <2> QED
      BY <1>2, <2>1, Zenon
  <1>4. Distance(s) \in Int /\ Distance(s) # 0
    <2>1. n * x - n * c \in Int /\ n * x - n * c # 0
      BY <1>1, <1>2, MultiplesApart
    <2> QED
      BY <1>3, <2>1, Zenon
  <1> DEFINE score == 100 * Distance(s) * Distance(s)
             limit == z * z * Spread(s)
  <1>5. score \in Int /\ score >= 0
    BY <1>4, SquareTyped
  <1>6. limit = 0
    BY <1>3
  <1> HIDE DEF score, limit
  <1>7. 4 * score >= 9 * limit /\ ~(4 * score < 9 * limit)
    BY <1>5, <1>6
  <1>8. Severity(s, z) = "critical"
    BY <1>4, <1>7, Zenon DEF Severity, score, limit
  <1> QED
    BY <1>1, <1>8 DEF ZScore

\* A constant series is at no distance from its mean.
LEMMA ConstantDistance ==
  ASSUME NEW s \in Seq(Int), Len(s) # 0, NEW c \in Int, Constant(s, c)
  PROVE  Distance(s) = 0 /\ Spread(s) = 0 /\ Observed(s) = c
  <1>1. PICK n \in Nat : Len(s) = n + 1 /\ \A i \in 1 .. n + 1 : s[i] = c
    <2> DEFINE n == Len(s) - 1
    <2>1. n \in Nat /\ Len(s) = n + 1 /\ \A i \in 1 .. n + 1 : s[i] = c
      BY DEF Constant
    <2> HIDE DEF n
    <2> QED
      BY <2>1
  <1>2. s[n + 1] = c
    BY <1>1
  <1>3. \A i \in 1 .. n : s[i] = c
    BY <1>1
  <1>4. Distance(s) = n * c - n * c /\ Spread(s) = 0
    BY <1>1, <1>2, <1>3, ConstantBaseline
  <1>5. n * c - n * c = 0
    OBVIOUS
  <1>6. Observed(s) = c
    BY <1>1, <1>2 DEF Observed
  <1> QED
    BY <1>4, <1>5, <1>6

\* A part of a constant series is constant.
LEMMA ConstantPart ==
  ASSUME NEW s \in Seq(Int), NEW c, Constant(s, c),
         NEW a \in 1 .. Len(s) + 1, NEW b \in 0 .. Len(s), a <= b + 1
  PROVE  /\ SubSeq(s, a, b) \in Seq(Int) /\ Len(SubSeq(s, a, b)) = b - a + 1
         /\ DOMAIN SubSeq(s, a, b) = 1 .. b - a + 1
         /\ Constant(SubSeq(s, a, b), c)
  <1>1. /\ SubSeq(s, a, b) \in Seq(Int) /\ Len(SubSeq(s, a, b)) = b - a + 1
        /\ DOMAIN SubSeq(s, a, b) = 1 .. b - a + 1
    OBVIOUS
  <1>2. ASSUME NEW i \in 1 .. b - a + 1
        PROVE  SubSeq(s, a, b)[i] = c
    <2>1. a + i - 1 \in DOMAIN s /\ SubSeq(s, a, b)[i] = s[a + i - 1]
      OBVIOUS
    <2> QED
      BY <2>1 DEF Constant
  <1> QED
    BY <1>1, <1>2 DEF Constant

\* No detector has anything to say of a constant series within the threshold.
LEMMA ConstantIsSilent ==
  ASSUME NEW s \in Seq(Int), Len(s) # 0, NEW c \in Int, Constant(s, c), c <= Threshold
  PROVE  Evaluate(s) = <<>>
  <1>1. Distance(s) = 0 /\ Spread(s) = 0 /\ Observed(s) = c
    BY ConstantDistance
  <1>2. ThresholdRule(s) = "none"
    BY <1>1, AnalyticsAssumption DEF ThresholdRule
  <1>3. ASSUME NEW z \in Nat
        PROVE  ZScore(s, z) = "none"
    <2>1. /\ ~(4 * (100 * Distance(s) * Distance(s)) < 9 * (z * z * Spread(s)))
      BY <1>1
    <2>2. Severity(s, z) = "none"
      BY <1>1, <2>1, Zenon DEF Severity
    <2> QED
      BY <2>2 DEF ZScore
  <1>4. RollingStd(s) = "none"
    <2> SUFFICES ASSUME Len(s) >= WindowSize
                 PROVE  Distance(Window(s)) = 0
      BY DEF RollingStd
    <2>1. WindowSize \in Nat /\ WindowSize # 0
      BY AnalyticsAssumption
    <2>2. /\ Len(s) - WindowSize + 1 \in 1 .. Len(s) + 1
          /\ Len(s) \in 0 .. Len(s) /\ Len(s) - WindowSize + 1 <= Len(s) + 1
          /\ Len(s) - (Len(s) - WindowSize + 1) + 1 = WindowSize
      BY <2>1
    <2>3. Window(s) \in Seq(Int) /\ Len(Window(s)) = WindowSize /\ Constant(Window(s), c)
      BY <2>2, ConstantPart DEF Window
    <2> QED
      BY <2>1, <2>3, ConstantDistance
  <1>5. \A d : Finding(d, "none") = <<>>
    BY DEF Finding
  <1>6. Evaluate(s) = <<>> \o <<>> \o <<>> \o <<>>
    BY <1>2, <1>3, <1>4, <1>5, AnalyticsAssumption DEF Evaluate
  <1> QED
    BY <1>6

\* Neither distance of two windows of a constant series is above zero.
LEMMA ConstantCount ==
  ASSUME NEW s \in Seq(Int), NEW c \in Int, Constant(s, c), NEW v
  PROVE  Count(s, v) = IF v = c THEN Len(s) ELSE 0
  <1> DEFINE hits == {i \in DOMAIN s : s[i] = v}
  <1>1. DOMAIN s = 1 .. Len(s) /\ Len(s) \in Int /\ 1 \in Int
    OBVIOUS
  <1>2. CASE v = c
    <2>1. hits = 1 .. Len(s)
      BY <1>1, <1>2 DEF Constant
    <2>2. Cardinality(1 .. Len(s)) = IF 1 > Len(s) THEN 0 ELSE Len(s) - 1 + 1
      BY <1>1, FS_Interval, Zenon
    <2>3. Len(s) \in Nat
      OBVIOUS
    <2>4. Cardinality(1 .. Len(s)) = Len(s)
      BY <2>2, <2>3
    <2> QED
      BY <1>2, <2>1, <2>4 DEF Count
  <1>3. CASE v # c
    <2>1. hits = {}
      BY <1>3 DEF Constant
    <2> QED
      BY <1>3, <2>1, FS_EmptySet DEF Count
  <1> QED
    BY <1>2, <1>3

LEMMA ConstantHasNoDrift ==
  ASSUME NEW s \in Seq(Int), NEW t \in Seq(Int), NEW c \in Int, Constant(s, c), Constant(t, c)
  PROVE  ~SharesDiffer(s, t) /\ ~ShapesDiffer(s, t)
  <1>0. Len(s) \in Nat /\ Len(t) \in Nat
    OBVIOUS
  <1>1. ASSUME NEW v
        PROVE  Count(s, v) * Len(t) = Count(t, v) * Len(s)
    <2>1. /\ Count(s, v) = IF v = c THEN Len(s) ELSE 0
          /\ Count(t, v) = IF v = c THEN Len(t) ELSE 0
      BY ConstantCount
    <2> QED
      BY <1>0, <2>1
  <1>2. ~SharesDiffer(s, t)
    BY <1>1 DEF SharesDiffer
  <1> DEFINE size == IF Len(s) < Len(t) THEN Len(s) ELSE Len(t)
             p == SubSeq(s, 1, size)
             q == SubSeq(t, 1, size)
  <1>3. size \in Nat /\ size <= Len(s) /\ size <= Len(t)
    BY <1>0
  <1>4. size - 1 + 1 = size /\ 1 <= size + 1 /\ 1 \in 1 .. Len(s) + 1 /\ 1 \in 1 .. Len(t) + 1
        /\ size \in 0 .. Len(s) /\ size \in 0 .. Len(t)
    BY <1>0, <1>3
  <1> HIDE DEF size
  <1>5. /\ Len(p) = size /\ DOMAIN p = 1 .. size /\ Constant(p, c)
        /\ Len(q) = size /\ DOMAIN q = 1 .. size /\ Constant(q, c)
    BY <1>4, ConstantPart
  <1> HIDE DEF p, q
  <1>6. Total(p) = size * c /\ Total(q) = size * c
    BY <1>3, <1>5, ConstantTotal
  <1>7. Total(p) = Total(q) /\ \A i \in 1 .. size : p[i] = q[i]
    BY <1>5, <1>6 DEF Constant
  <1>8. ~ShapesDiffer(s, t)
    BY <1>7 DEF ShapesDiffer, size, p, q
  <1> QED
    BY <1>2, <1>8

-----------------------------------------------------------------------------
(* Findings                                                                *)

\* A finding is among those of a list.
In(finding, list) == \E k \in DOMAIN list : list[k] = finding

Critical(detector) == [detector |-> detector, severity |-> "critical"]

Severities == {"none", "warning", "critical"}

\* A detector that has nothing to say adds no finding, another adds its own.
LEMMA FindingTyped ==
  ASSUME NEW d \in Detectors, NEW s \in Severities
  PROVE  /\ Finding(d, s) \in Seq(Findings)
         /\ \A f : In(f, Finding(d, s)) <=> s # "none" /\ f = [detector |-> d, severity |-> s]
  <1>1. CASE s = "none"
    BY <1>1 DEF Finding, In
  <1>2. CASE s # "none"
    <2> DEFINE own == [detector |-> d, severity |-> s]
    <2>1. own \in Findings
      BY <1>2 DEF Findings, Severities
    <2>2. Finding(d, s) = <<own>>
      BY <1>2 DEF Finding
    <2> HIDE DEF own
    <2>3. <<own>> \in Seq(Findings) /\ DOMAIN <<own>> = {1} /\ <<own>>[1] = own
      BY <2>1
    <2>4. \A f : In(f, <<own>>) <=> f = own
      BY <2>3 DEF In
    <2> QED
      BY <1>2, <2>2, <2>3, <2>4 DEF own
  <1> QED
    BY <1>1, <1>2

\* Joining two lists joins their findings.
LEMMA InJoined ==
  ASSUME NEW s \in Seq(Findings), NEW t \in Seq(Findings), NEW f
  PROVE  In(f, s \o t) <=> In(f, s) \/ In(f, t)
  <1>1. ASSUME In(f, s \o t)
        PROVE  In(f, s) \/ In(f, t)
    <2>1. PICK k \in 1 .. Len(s) + Len(t) : (s \o t)[k] = f
      BY <1>1 DEF In
    <2>2. CASE k <= Len(s)
      BY <2>1, <2>2 DEF In
    <2>3. CASE k > Len(s)
      <3>1. k - Len(s) \in 1 .. Len(t) /\ t[k - Len(s)] = f
        BY <2>1, <2>3
      <3> QED
        BY <3>1 DEF In
    <2> QED
      BY <2>2, <2>3
  <1>2. ASSUME In(f, s)
        PROVE  In(f, s \o t)
    <2>1. PICK k \in 1 .. Len(s) : s[k] = f
      BY <1>2 DEF In
    <2>2. k \in DOMAIN (s \o t) /\ (s \o t)[k] = f
      BY <2>1
    <2> QED
      BY <2>2 DEF In
  <1>3. ASSUME In(f, t)
        PROVE  In(f, s \o t)
    <2>1. PICK k \in 1 .. Len(t) : t[k] = f
      BY <1>3 DEF In
    <2>2. Len(s) + k \in DOMAIN (s \o t) /\ (s \o t)[Len(s) + k] = f
      BY <2>1
    <2> QED
      BY <2>2 DEF In
  <1> QED
    BY <1>1, <1>2, <1>3

\* Taking the first finding from a list leaves the others.
LEMMA InTail ==
  ASSUME NEW s \in Seq(Findings), s # <<>>, NEW f
  PROVE  /\ Head(s) \in Findings /\ In(Head(s), s) /\ Tail(s) \in Seq(Findings)
         /\ In(f, s) => f = Head(s) \/ In(f, Tail(s))
         /\ In(f, Tail(s)) => In(f, s)
  <1>1. Len(s) \in Nat /\ Len(s) > 0 /\ Head(s) = s[1] /\ 1 \in DOMAIN s /\ s[1] \in Findings
    BY DEF In
  <1>2. /\ Tail(s) \in Seq(Findings) /\ Len(Tail(s)) = Len(s) - 1
        /\ DOMAIN Tail(s) = 1 .. Len(s) - 1
    BY <1>1
  <1>3. \A k \in 1 .. Len(s) - 1 : Tail(s)[k] = s[k + 1]
    BY <1>1
  <1>4. ASSUME In(f, s), f # s[1]
        PROVE  In(f, Tail(s))
    <2>1. PICK k \in 1 .. Len(s) : s[k] = f
      BY <1>4 DEF In
    <2>2. k - 1 \in 1 .. Len(s) - 1 /\ Tail(s)[k - 1] = f
      BY <1>3, <1>4, <2>1
    <2> QED
      BY <1>2, <2>2 DEF In
  <1>5. ASSUME In(f, Tail(s))
        PROVE  In(f, s)
    <2>1. PICK k \in 1 .. Len(s) - 1 : Tail(s)[k] = f
      BY <1>2, <1>5 DEF In
    <2>2. k + 1 \in DOMAIN s /\ s[k + 1] = f
      BY <1>3, <2>1
    <2> QED
      BY <2>2 DEF In
  <1> QED
    BY <1>1, <1>2, <1>4, <1>5 DEF In

\* What the detectors report: nothing but findings, always what is over the
\* threshold, and statistics only of enough values.
LEMMA EvaluateSays ==
  ASSUME NEW values
  PROVE  /\ Evaluate(values) \in Seq(Findings)
         /\ Observed(values) > Threshold => In(Critical("threshold"), Evaluate(values))
         /\ ZScore(values, LatencyZ) = "critical" => In(Critical("latency"), Evaluate(values))
         /\ ZScore(values, CostZ) = "critical" => In(Critical("cost"), Evaluate(values))
         /\ \A f \in Findings : In(f, Evaluate(values)) =>
              /\ f.detector \in {"latency", "cost"} => ~(Len(values) < 5)
              /\ f.detector = "rolling" => Len(values) >= WindowSize
  <1> DEFINE a == Finding("threshold", ThresholdRule(values))
             b == Finding("rolling", RollingStd(values))
             c == Finding("latency", ZScore(values, LatencyZ))
             d == Finding("cost", ZScore(values, CostZ))
  <1>1. ThresholdRule(values) \in Severities /\ RollingStd(values) \in Severities
    BY DEF ThresholdRule, RollingStd, Severities
  <1>2. \A z : ZScore(values, z) \in Severities /\ (ZScore(values, z) # "none" => ~(Len(values) < 5))
    BY DEF ZScore, Severity, Severities
  <1>3. /\ a \in Seq(Findings)
        /\ \A f : In(f, a) <=> ThresholdRule(values) # "none"
                     /\ f = [detector |-> "threshold", severity |-> ThresholdRule(values)]
    BY <1>1, FindingTyped DEF Detectors
  <1>4. /\ b \in Seq(Findings)
        /\ \A f : In(f, b) <=> RollingStd(values) # "none"
                     /\ f = [detector |-> "rolling", severity |-> RollingStd(values)]
    BY <1>1, FindingTyped DEF Detectors
  <1>5. /\ c \in Seq(Findings)
        /\ \A f : In(f, c) <=> ZScore(values, LatencyZ) # "none"
                     /\ f = [detector |-> "latency", severity |-> ZScore(values, LatencyZ)]
    BY <1>2, FindingTyped DEF Detectors
  <1>6. /\ d \in Seq(Findings)
        /\ \A f : In(f, d) <=> ZScore(values, CostZ) # "none"
                     /\ f = [detector |-> "cost", severity |-> ZScore(values, CostZ)]
    BY <1>2, FindingTyped DEF Detectors
  <1>7. Evaluate(values) = ((a \o b) \o c) \o d
    BY DEF Evaluate
  <1> HIDE DEF a, b, c, d
  <1>8. a \o b \in Seq(Findings)
    BY <1>3, <1>4
  <1>9. (a \o b) \o c \in Seq(Findings)
    BY <1>5, <1>8
  <1>10. ((a \o b) \o c) \o d \in Seq(Findings)
    BY <1>6, <1>9
  <1>11. ASSUME NEW f
         PROVE  In(f, Evaluate(values)) <=> In(f, a) \/ In(f, b) \/ In(f, c) \/ In(f, d)
    <2>1. In(f, a \o b) <=> In(f, a) \/ In(f, b)
      BY <1>3, <1>4, InJoined
    <2>2. In(f, (a \o b) \o c) <=> In(f, a \o b) \/ In(f, c)
      BY <1>5, <1>8, InJoined
    <2>3. In(f, ((a \o b) \o c) \o d) <=> In(f, (a \o b) \o c) \/ In(f, d)
      BY <1>6, <1>9, InJoined
    <2> QED
      BY <1>7, <2>1, <2>2, <2>3
  <1>12. Observed(values) > Threshold => In(Critical("threshold"), a)
    BY <1>3 DEF ThresholdRule, Critical
  <1>13. RollingStd(values) # "none" => Len(values) >= WindowSize
    BY DEF RollingStd
  <1>14. ASSUME NEW f \in Findings, In(f, Evaluate(values))
         PROVE  /\ f.detector \in {"latency", "cost"} => ~(Len(values) < 5)
                /\ f.detector = "rolling" => Len(values) >= WindowSize
    BY <1>2, <1>3, <1>4, <1>5, <1>6, <1>11, <1>13, <1>14
  <1>15. /\ ZScore(values, LatencyZ) = "critical" => In(Critical("latency"), c)
         /\ ZScore(values, CostZ) = "critical" => In(Critical("cost"), d)
    BY <1>5, <1>6 DEF Critical
  <1> QED
    BY <1>7, <1>10, <1>11, <1>12, <1>14, <1>15

-----------------------------------------------------------------------------
(* Histories                                                               *)

\* There are finitely many rows, and a history is some of them.
LEMMA HistoryBounded ==
  ASSUME TypeOK, NEW limit
  PROVE  /\ IsFiniteSet(stored) /\ Cardinality(stored) \in Nat
         /\ Newest(limit) \subseteq stored /\ IsFiniteSet(Newest(limit))
         /\ Cardinality(Newest(limit)) \in Nat
         /\ Cardinality(Newest(limit)) <= Cardinality(stored)
  <1>1. stored \in SUBSET (1 .. projected) /\ projected \in Int /\ 1 \in Int
    BY DEF TypeOK
  <1>2. IsFiniteSet(1 .. projected)
    BY <1>1, FS_Interval, Zenon
  <1>3. IsFiniteSet(stored)
    BY <1>1, <1>2, FS_Subset
  <1>4. Newest(limit) \in SUBSET stored
    BY DEF Newest
  <1>5. IsFiniteSet(Newest(limit)) /\ Cardinality(Newest(limit)) <= Cardinality(stored)
    BY <1>3, <1>4, FS_Subset
  <1> QED
    BY <1>3, <1>4, <1>5, FS_CardinalityType

\* A series has as many values as there are positions, and the event's own value is
\* the one observed.
LEMMA SeriesObserved ==
  ASSUME NEW positions, Cardinality(positions) \in Nat, NEW v
  PROVE  /\ Len(Series(positions)) = Cardinality(positions)
         /\ Len(Append(Series(positions), v)) = Cardinality(positions) + 1
         /\ Observed(Append(Series(positions), v)) = v
  <1> DEFINE n == Cardinality(positions)
             s == Series(positions)
             A == {s[k] : k \in 1 .. n} \cup {v}
  <1>1. s = [k \in 1 .. n |-> topic[Oldest(k, positions)]]
    BY DEF Series
  <1>2. n \in Nat
    OBVIOUS
  <1>3. DOMAIN s = 1 .. n /\ \A k \in 1 .. n : s[k] \in A
    BY <1>1
  <1>4. s \in [1 .. n -> A]
    BY <1>1, <1>3
  <1> HIDE DEF n, s, A
  <1>5. s \in Seq(A) /\ Len(s) = n
    BY <1>2, <1>4
  <1>6. Len(Append(s, v)) = n + 1 /\ Append(s, v)[n + 1] = v
    BY <1>2, <1>5
  <1> QED
    BY <1>5, <1>6 DEF Observed, n, s

\* Among the numbers of a finite set there is one of every rank.
LEMMA OldestIsOne ==
  ASSUME NEW P \in SUBSET Nat, IsFiniteSet(P), NEW k \in 1 .. Cardinality(P)
  PROVE  Oldest(k, P) \in P
  <1> DEFINE Before(i) == {j \in P : j < i}
             S == {n \in Nat : n + 1 <= Cardinality(P) =>
                                 \E i \in P : Cardinality(Before(i)) = n}
  <1>0. Cardinality(P) \in Nat
    BY FS_CardinalityType
  <1>1. 0 \in S
    <2> SUFFICES ASSUME 1 <= Cardinality(P)
                 PROVE  \E i \in P : Cardinality(Before(i)) = 0
      OBVIOUS
    <2>1. P # {}
      BY <1>0, FS_EmptySet
    <2>2. PICK i \in P : \A j \in P : i <= j
      BY <2>1, Least
    <2>3. \A j \in P : ~(j < i)
      BY <2>2
    <2>4. Before(i) = {}
      BY <2>3, Zenon
    <2> QED
      BY <2>4, FS_EmptySet
  <1>2. ASSUME NEW n \in Nat, n \in S
        PROVE  n + 1 \in S
    <2> SUFFICES ASSUME (n + 1) + 1 <= Cardinality(P)
                 PROVE  \E i \in P : Cardinality(Before(i)) = n + 1
      OBVIOUS
    <2>1. PICK i \in P : Cardinality(Before(i)) = n
      BY <1>0, <1>2
    <2>2. IsFiniteSet(Before(i)) /\ i \notin Before(i)
      BY FS_Subset
    <2>3. Cardinality(Before(i) \cup {i}) = n + 1
      BY <2>1, <2>2, FS_AddElement
    <2> DEFINE After == {j \in P : j > i}
    <2>4. \A j \in P : j < i \/ j = i \/ j > i
      OBVIOUS
    <2>5. P = (Before(i) \cup {i}) \cup After
      BY <2>4, Zenon
    <2>6. After # {}
      BY <1>0, <2>3, <2>5
    <2>7. PICK m \in After : \A j \in After : m <= j
      BY <2>6, Least
    <2>8. \A j \in P : j < m <=> j < i \/ j = i
      <3>1. m \in P /\ i \in Nat /\ m \in Nat /\ i < m /\ \A j \in P : j > i => m <= j
        BY <2>7
      <3>2. ASSUME NEW j \in P
            PROVE  j < m <=> j < i \/ j = i
        BY <3>1
      <3> QED
        BY <3>2
    <2>9. Before(m) = Before(i) \cup {i}
      BY <2>8, Zenon
    <2> QED
      BY <2>3, <2>7, <2>9
  <1>3. k - 1 \in Nat /\ (k - 1) + 1 <= Cardinality(P)
    BY <1>0
  <1> HIDE DEF S
  <1>4. k - 1 \in S
    BY <1>1, <1>2, <1>3, SetInduction
  <1>5. \E i \in P : Cardinality({j \in P : j < i}) = k - 1
    BY <1>3, <1>4 DEF S
  <1> QED
    BY <1>5 DEF Oldest

\* The values of the topic are numbers.
LEMMA NumbersPublished ==
  ASSUME topic \in Seq(Values)
  PROVE  \A i \in 1 .. Len(topic) : topic[i] \in Int
  <1>1. \A i \in 1 .. Len(topic) : topic[i] \in Values
    OBVIOUS
  <1>2. \A v \in Values : v \in Int
    BY AnalyticsAssumption
  <1> QED
    BY <1>1, <1>2, Zenon

\* A series consists of the values at its positions.
LEMMA SeriesValues ==
  ASSUME topic \in Seq(Values), NEW P \in SUBSET (1 .. Len(topic))
  PROVE  /\ Cardinality(P) \in Nat /\ Len(Series(P)) = Cardinality(P)
         /\ Series(P) \in Seq(Int)
         /\ \A k \in 1 .. Cardinality(P) : \E i \in P : Series(P)[k] = topic[i]
  <1>1. Len(topic) \in Int /\ 1 \in Int
    OBVIOUS
  <1>2. IsFiniteSet(1 .. Len(topic))
    BY <1>1, FS_Interval, Zenon
  <1>3. IsFiniteSet(P)
    BY <1>2, FS_Subset
  <1>4. Cardinality(P) \in Nat /\ P \in SUBSET Nat
    BY <1>3, FS_CardinalityType
  <1>5. Series(P) = [k \in 1 .. Cardinality(P) |-> topic[Oldest(k, P)]]
    BY DEF Series
  <1>6. \A k \in 1 .. Cardinality(P) : Oldest(k, P) \in P
    BY <1>3, <1>4, OldestIsOne
  <1>7. \A k \in 1 .. Cardinality(P) : \E i \in P : Series(P)[k] = topic[i]
    BY <1>5, <1>6
  <1>8. \A i \in P : topic[i] \in Int
    BY NumbersPublished
  <1>9. Series(P) \in [1 .. Cardinality(P) -> Int]
    BY <1>5, <1>6, <1>8
  <1>10. Series(P) \in Seq(Int) /\ Len(Series(P)) = Cardinality(P)
    BY <1>4, <1>9
  <1> QED
    BY <1>4, <1>7, <1>10

\* A row more makes the number of rows no smaller.
LEMMA RowsGrow ==
  ASSUME TypeOK, [Next]_vars
  PROVE  Cardinality(stored) <= Cardinality(stored') /\ Cardinality(stored') \in Nat
  <1>1. IsFiniteSet(stored) /\ Cardinality(stored) \in Nat
    BY HistoryBounded
  <1>2. stored' \in {stored, stored \cup {projected + 1}}
    BY DEF Next, vars, tableVars, Record, Project, ProjectLost, ReadHistory, PublishFinding,
           PublishFails, StoreMarker, StoreFails, ParkEvent, Crash, ReportDrift
  <1>3. IsFiniteSet(stored') /\ stored \in SUBSET stored'
    BY <1>1, <1>2, FS_AddElement
  <1> QED
    BY <1>3, FS_Subset, FS_CardinalityType

-----------------------------------------------------------------------------
(* Type correctness                                                        *)

\* After a failed attempt the worker starts again or gives the event up.
LEMMA AttemptTyped ==
  ASSUME TypeOK, AttemptFails
  PROVE  /\ pc' \in {"idle", "park"} /\ tries' \in 1 .. MaxRetries
         /\ found' = <<>> /\ used' = {}
  BY AnalyticsAssumption DEF TypeOK, AttemptFails

\* The event in hand is in the topic whenever the worker is at work.
InHand == pc # "idle" => handled < Len(topic)

TypeInv == TypeOK /\ InHand

\* No step leaves the types, and the worker never runs ahead of the topic.
LEMMA TypeStep ==
  ASSUME TypeInv, [Next]_vars
  PROVE  TypeInv'
  <1> USE DEF TypeInv, TypeOK, InHand, tableVars, groupVars, workerVars, Event
  <1>0. topic \in Seq(Values) /\ Len(topic) \in Nat /\ <<>> \in Seq(Findings) /\ 1 \in 1 .. MaxRetries
    BY AnalyticsAssumption
  <1>1. ASSUME NEW v \in Values, Record(v)
        PROVE  TypeInv'
    <2>1. topic' \in Seq(Values) /\ Len(topic') = Len(topic) + 1
      BY <1>1 DEF Record
    <2>2. Len(topic') <= MaxSamples
      BY <1>0, <1>1, <2>1, AnalyticsAssumption DEF Record
    <2>3. UNCHANGED <<projected, stored, handled, marked, parked, reports, driftRows, pc, tries,
                      found, used, faults>>
      BY <1>1 DEF Record
    <2>4. 1 .. Len(topic) \subseteq 1 .. Len(topic')
      BY <1>0, <2>1
    <2>5. reports \subseteq (1 .. Len(topic')) \X Findings
      BY <2>4
    <2> QED
      BY <1>0, <2>1, <2>2, <2>3, <2>5
  <1>2. CASE Project
    BY <1>0, <1>2 DEF Project
  <1>3. CASE ProjectLost
    BY <1>0, <1>3, AnalyticsAssumption DEF ProjectLost, SpendFault
  <1>4. CASE ReadHistory
    <2>1. used' \subseteq stored
      BY <1>4, HistoryBounded DEF ReadHistory
    <2>2. found' \in Seq(Findings)
      BY <1>4, EvaluateSays DEF ReadHistory
    <2> QED
      BY <1>4, <2>1, <2>2 DEF ReadHistory
  <1>5. CASE PublishFinding
    <2>1. handled + 1 \in 1 .. Len(topic)
      BY <1>0, <1>5 DEF PublishFinding
    <2>2. Head(found) \in Findings /\ Tail(found) \in Seq(Findings)
      BY <1>5, InTail DEF PublishFinding
    <2>3. reports' \subseteq (1 .. Len(topic)) \X Findings
      BY <1>5, <2>1, <2>2 DEF PublishFinding
    <2> QED
      BY <1>5, <2>2, <2>3 DEF PublishFinding
  <1>6. CASE PublishFails
    <2>1. handled + 1 \in 1 .. Len(topic)
      BY <1>0, <1>6 DEF PublishFails
    <2>2. Head(found) \in Findings
      BY <1>6, InTail DEF PublishFails
    <2>3. reports' \subseteq (1 .. Len(topic)) \X Findings
      BY <1>6, <2>1, <2>2 DEF PublishFails
    <2>4. faults' \in 0 .. MaxFaults
      BY <1>6, AnalyticsAssumption DEF PublishFails, SpendFault
    <2>5. UNCHANGED <<topic, projected, stored, handled, marked, parked, driftRows>>
      BY <1>6 DEF PublishFails
    <2>6. /\ pc' \in {"idle", "park"} /\ tries' \in 1 .. MaxRetries
          /\ found' = <<>> /\ used' = {} /\ pc = "publish"
      BY <1>6, AttemptTyped DEF PublishFails
    <2> QED
      BY <1>0, <2>3, <2>4, <2>5, <2>6
  <1>7. CASE StoreMarker
    <2>1. handled + 1 <= Len(topic)
      BY <1>0, <1>7 DEF StoreMarker
    <2>2. 1 .. handled + 1 = (1 .. handled) \cup {handled + 1}
      BY <1>0
    <2> QED
      BY <1>0, <1>7, <2>1, <2>2 DEF StoreMarker, Leave
  <1>8. CASE StoreFails
    <2>1. faults' \in 0 .. MaxFaults
      BY <1>8, AnalyticsAssumption DEF StoreFails, SpendFault
    <2>2. UNCHANGED <<topic, projected, stored, handled, marked, parked, reports, driftRows>>
      BY <1>8 DEF StoreFails
    <2>3. /\ pc' \in {"idle", "park"} /\ tries' \in 1 .. MaxRetries
          /\ found' = <<>> /\ used' = {} /\ pc = "publish"
      BY <1>8, AttemptTyped DEF StoreFails
    <2> QED
      BY <1>0, <2>1, <2>2, <2>3
  <1>9. CASE ParkEvent
    <2>1. handled + 1 <= Len(topic)
      BY <1>0, <1>9 DEF ParkEvent
    <2>2. 1 .. handled + 1 = (1 .. handled) \cup {handled + 1}
      BY <1>0
    <2> QED
      BY <1>0, <1>9, <2>1, <2>2 DEF ParkEvent, Leave
  <1>10. CASE Crash
    BY <1>0, <1>10, AnalyticsAssumption DEF Crash, SpendFault, Leave
  <1>11. CASE ReportDrift
    <2>1. Cardinality(stored) \in 0 .. MaxSamples
      <3>1. 1 \in Int /\ MaxSamples \in Int /\ projected \in Nat /\ projected <= MaxSamples
        BY <1>0, AnalyticsAssumption
      <3>2. IsFiniteSet(1 .. projected) /\ Cardinality(1 .. projected) = projected
        BY <3>1, FS_Interval
      <3>3. Cardinality(stored) <= Cardinality(1 .. projected)
        BY <3>2, FS_Subset
      <3> QED
        BY <3>1, <3>2, <3>3, HistoryBounded
    <2>2. driftRows' = Cardinality(stored) /\ UNCHANGED <<tableVars, groupVars, workerVars, reports, faults>>
      BY <1>11 DEF ReportDrift
    <2> QED
      BY <2>1, <2>2
  <1>12. CASE UNCHANGED vars
    BY <1>12 DEF vars
  <1> QED
    BY <1>1, <1>2, <1>3, <1>4, <1>5, <1>6, <1>7, <1>8, <1>9, <1>10, <1>11, <1>12 DEF Next

\* Every variable of the pipeline keeps its type.
THEOREM TypeCorrect == Spec => []TypeOK
  <1>1. Init => TypeInv
    BY AnalyticsAssumption DEF Init, TypeInv, TypeOK, InHand
  <1>2. TypeInv /\ [Next]_vars => TypeInv'
    BY TypeStep
  <1>3. TypeInv => TypeOK
    BY DEF TypeInv
  <1> QED
    BY <1>1, <1>2, <1>3, PTL DEF Spec

-----------------------------------------------------------------------------
(* The inductive invariant                                                 *)

\* An attempt on an event over the threshold has reported that, or is about to.
Pending ==
  pc = "publish" /\ topic[Event] > Threshold =>
    "threshold" \in Reported(Event) \/ In(Critical("threshold"), found)

\* The rows a finding needs, and that those there are about to be published had them.
Warm(detector) ==
  /\ detector \in {"latency", "cost"} => Cardinality(stored) >= 4
  /\ detector = "rolling" => Cardinality(stored) >= WindowSize - 1

Enough == \A f \in Findings : In(f, found) => Warm(f.detector)

WarmReports == \A r \in reports : Warm(r[2].detector)

WarmDrift == driftRows # 0 => driftRows >= BaselineSize

\* An attempt that read a flat history of at least four samples for an event that departs
\* from it has reported both z-scores, or is about to.
Spike ==
  /\ pc = "publish" /\ Cardinality(used) >= 4 /\ Flat(used)
  /\ \A i \in used : topic[i] # topic[Event]

SpikePending ==
  Spike => \A d \in {"latency", "cost"} : d \in Reported(Event) \/ In(Critical(d), found)

\* Nothing is reported, or about to be, while the series has not changed.
Steady == \A i, j \in DOMAIN topic : topic[i] = topic[j] /\ topic[i] <= Threshold

SteadyInv == Steady => reports = {} /\ driftRows = 0 /\ found = <<>>

AnalyticsInv ==
  /\ TypeInv /\ Pending /\ ThresholdReported
  /\ Enough /\ WarmReports /\ WarmDrift
  /\ SpikePending /\ SteadyInv

\* Events and reports stay, and only what a worker has in hand is reported.
LEMMA StepGrows ==
  ASSUME TypeInv, [Next]_vars
  PROVE  /\ \A p \in 1 .. Len(topic) : topic'[p] = topic[p]
         /\ reports \subseteq reports'
         /\ found # <<>> => reports' \subseteq reports \cup {<<Event, Head(found)>>}
         /\ found = <<>> => reports' = reports
         /\ \A p \in Nat : Reported(p) \subseteq Reported(p)'
  <1> USE DEF TypeInv, TypeOK
  <1>1. \A p \in 1 .. Len(topic) : topic'[p] = topic[p]
    <2>1. ASSUME NEW v \in Values, Record(v)
          PROVE  \A p \in 1 .. Len(topic) : topic'[p] = topic[p]
      BY <2>1 DEF Record
    <2>2. (\E v \in Values : Record(v)) \/ topic' = topic
      BY DEF Next, vars, tableVars, Project, ProjectLost, ReadHistory, PublishFinding,
             PublishFails, StoreMarker, StoreFails, ParkEvent, Crash, ReportDrift
    <2> QED
      BY <2>1, <2>2
  <1>2. \/ reports' = reports
        \/ found # <<>> /\ reports' = reports \cup {<<Event, Head(found)>>}
    BY DEF Next, vars, tableVars, Record, Project, ProjectLost, ReadHistory, PublishFinding,
           PublishFails, StoreMarker, StoreFails, ParkEvent, Crash, ReportDrift
  <1>3. reports \subseteq reports'
    BY <1>2
  <1>4. \A p \in Nat : Reported(p) \subseteq Reported(p)'
    BY <1>3 DEF Reported
  <1> QED
    BY <1>1, <1>2, <1>3, <1>4

\* Over the threshold, the report comes before the marker, whatever attempt it is of.
LEMMA ThresholdStep ==
  ASSUME TypeInv, Pending, ThresholdReported, [Next]_vars
  PROVE  Pending' /\ ThresholdReported'
  <1> USE DEF Event
  <1>0. /\ handled \in Nat /\ (pc # "idle" => handled + 1 \in 1 .. Len(topic))
        /\ marked \subseteq 1 .. Len(topic) /\ Len(topic) \in Nat /\ found \in Seq(Findings)
    BY DEF TypeInv, TypeOK, InHand
  <1>1. /\ \A p \in 1 .. Len(topic) : topic'[p] = topic[p]
        /\ \A p \in Nat : Reported(p) \subseteq Reported(p)'
    BY StepGrows
  <1>2. ASSUME marked' = marked
        PROVE  ThresholdReported'
    BY <1>0, <1>1, <1>2 DEF ThresholdReported
  <1>3. ASSUME UNCHANGED <<pc, found, handled, marked>>
        PROVE  Pending' /\ ThresholdReported'
    <2>1. CASE pc = "publish"
      BY <1>0, <1>1, <1>2, <1>3, <2>1 DEF Pending
    <2>2. CASE pc # "publish"
      BY <1>2, <1>3, <2>2 DEF Pending
    <2> QED
      BY <2>1, <2>2
  <1>4. ASSUME marked' = marked, pc' # "publish"
        PROVE  Pending' /\ ThresholdReported'
    BY <1>2, <1>4 DEF Pending
  <1>5. ASSUME NEW v \in Values, Record(v)
        PROVE  Pending' /\ ThresholdReported'
    BY <1>3, <1>5 DEF Record, groupVars, workerVars
  <1>6. CASE Project \/ ProjectLost
    BY <1>3, <1>6 DEF Project, ProjectLost, groupVars, workerVars
  <1>7. CASE ReadHistory
    <2> DEFINE v == Append(Series(used'), topic[Event])
    <2>1. found' = Evaluate(v) /\ UNCHANGED <<topic, handled, marked>>
      BY <1>7 DEF ReadHistory, tableVars, groupVars
    <2>2. Observed(v) = topic[Event]
      <3>1. Cardinality(used') \in Nat
        BY <1>7, HistoryBounded DEF ReadHistory, TypeInv
      <3> QED
        BY <3>1, SeriesObserved
    <2>3. topic[Event] > Threshold => In(Critical("threshold"), found')
      BY <2>1, <2>2, EvaluateSays
    <2>4. Pending'
      BY <2>1, <2>3 DEF Pending, In
    <2> QED
      BY <1>2, <2>1, <2>4
  <1>8. CASE PublishFinding
    <2>1. /\ UNCHANGED <<topic, pc, handled, marked>> /\ pc = "publish" /\ found # <<>>
          /\ found' = Tail(found) /\ <<Event, Head(found)>> \in reports'
      BY <1>8 DEF PublishFinding, tableVars, groupVars
    <2>2. ASSUME topic[Event] > Threshold, Critical("threshold") = Head(found)
          PROVE  "threshold" \in Reported(Event)'
      BY <2>1, <2>2 DEF Reported, Detectors, Critical
    <2>3. ASSUME topic[Event] > Threshold
          PROVE  ("threshold" \in Reported(Event))' \/ In(Critical("threshold"), found')
      <3>1. CASE "threshold" \in Reported(Event)
        BY <1>0, <1>1, <2>1, <3>1
      <3>2. CASE In(Critical("threshold"), found)
        BY <1>0, <2>1, <2>2, <2>3, <3>2, InTail
      <3> QED
        BY <2>1, <2>3, <3>1, <3>2 DEF Pending
    <2>4. Pending'
      BY <2>1, <2>3 DEF Pending, In
    <2> QED
      BY <1>2, <2>1, <2>4
  <1>9. CASE PublishFails
    BY <1>4, <1>9, AttemptTyped DEF PublishFails, groupVars, TypeInv
  <1>10. CASE StoreMarker
    <2>1. pc' = "idle" /\ marked' = marked \cup {Event} /\ found = <<>> /\ pc = "publish"
      BY <1>10 DEF StoreMarker
    <2>2. topic[Event] > Threshold => "threshold" \in Reported(Event)
      BY <2>1 DEF Pending, In
    <2>3. ASSUME NEW p \in marked', topic'[p] > Threshold
          PROVE  ("threshold" \in Reported(p))'
      <3>1. p \in 1 .. Len(topic) /\ topic'[p] = topic[p]
        BY <1>0, <1>1, <2>1
      <3>2. "threshold" \in Reported(p)
        BY <2>1, <2>2, <2>3, <3>1 DEF ThresholdReported
      <3> QED
        BY <1>0, <1>1, <3>1, <3>2
    <2> QED
      BY <2>1, <2>3 DEF Pending, ThresholdReported
  <1>11. CASE StoreFails
    BY <1>4, <1>11, AttemptTyped DEF StoreFails, groupVars, TypeInv
  <1>12. CASE ParkEvent \/ Crash
    BY <1>4, <1>12 DEF ParkEvent, Crash, groupVars
  <1>13. CASE ReportDrift \/ UNCHANGED vars
    BY <1>3, <1>13 DEF ReportDrift, vars, groupVars, workerVars
  <1> QED
    BY <1>5, <1>6, <1>7, <1>8, <1>9, <1>10, <1>11, <1>12, <1>13 DEF Next

\* A finding's rows are read before it is made and never go.
LEMMA WarmStep ==
  ASSUME TypeInv, Enough, WarmReports, WarmDrift, [Next]_vars
  PROVE  Enough' /\ WarmReports' /\ WarmDrift'
  <1>0. WindowSize \in Nat /\ BaselineSize \in Nat /\ found \in Seq(Findings)
    BY AnalyticsAssumption DEF TypeInv, TypeOK
  <1>1. ASSUME NEW d, Warm(d)
        PROVE  Warm(d)'
    <2>1. /\ Cardinality(stored) <= Cardinality(stored') /\ Cardinality(stored') \in Nat
          /\ Cardinality(stored) \in Nat
      BY RowsGrow, HistoryBounded DEF TypeInv
    <2> QED
      BY <1>0, <1>1, <2>1 DEF Warm
  <1>2. WarmReports'
    <2>1. ASSUME NEW r \in reports'
          PROVE  Warm(r[2].detector)
      <3>1. CASE r \in reports
        BY <3>1 DEF WarmReports
      <3>2. CASE r \notin reports
        <4>1. found # <<>> /\ r = <<Event, Head(found)>>
          BY <2>1, <3>2, StepGrows
        <4>2. Head(found) \in Findings /\ In(Head(found), found)
          BY <1>0, <4>1, InTail
        <4> QED
          BY <4>1, <4>2 DEF Enough
      <3> QED
        BY <3>1, <3>2
    <2> QED
      BY <1>1, <2>1 DEF WarmReports
  <1>3. Enough'
    <2>1. ASSUME \A f \in Findings : In(f, found') => In(f, found)
          PROVE  Enough'
      BY <1>1, <2>1 DEF Enough, In
    <2>2. ASSUME found' = <<>>
          PROVE  Enough'
      BY <2>2 DEF Enough, In
    <2>3. CASE ReadHistory
      <3> DEFINE v == Append(Series(used'), topic[Event])
      <3>1. /\ Cardinality(used') \in Nat /\ Cardinality(used') <= Cardinality(stored)
            /\ Cardinality(stored) \in Nat
        BY <2>3, HistoryBounded DEF ReadHistory, TypeInv
      <3>2. Len(v) = Cardinality(used') + 1
        BY <3>1, SeriesObserved
      <3>3. found' = Evaluate(v)
        BY <2>3 DEF ReadHistory
      <3>4. ASSUME NEW f \in Findings, In(f, found')
            PROVE  Warm(f.detector)
        <4>1. /\ f.detector \in {"latency", "cost"} => ~(Len(v) < 5)
              /\ f.detector = "rolling" => Len(v) >= WindowSize
          BY <3>3, <3>4, EvaluateSays
        <4> QED
          BY <1>0, <3>1, <3>2, <4>1 DEF Warm
      <3> QED
        BY <1>1, <3>4 DEF Enough, In
    <2>4. CASE PublishFinding
      <3>1. found # <<>> /\ found' = Tail(found)
        BY <2>4 DEF PublishFinding
      <3> QED
        BY <1>0, <2>1, <3>1, InTail
    <2>5. CASE PublishFails \/ StoreFails
      BY <2>2, <2>5, AttemptTyped DEF PublishFails, StoreFails, TypeInv
    <2>6. CASE StoreMarker \/ ParkEvent \/ Crash
      BY <2>2, <2>6 DEF StoreMarker, ParkEvent, Crash, Leave
    <2>7. CASE found' = found
      BY <2>1, <2>7
    <2> QED
      BY <2>3, <2>4, <2>5, <2>6, <2>7
         DEF Next, vars, workerVars, Record, Project, ProjectLost, ReportDrift
  <1>4. WarmDrift'
    <2>1. CASE ReportDrift
      <3> DEFINE h == Newest(DriftHistory)
      <3>1. /\ Cardinality(h) \in Nat /\ Cardinality(h) <= Cardinality(stored)
            /\ Cardinality(stored) \in Nat
        BY HistoryBounded DEF TypeInv
      <3>2. Len(Series(h)) = Cardinality(h)
        BY <3>1, SeriesObserved
      <3>3. Len(Series(h)) >= BaselineSize /\ driftRows' = Cardinality(stored)
        BY <2>1 DEF ReportDrift, EnoughRows
      <3> QED
        BY <1>0, <3>1, <3>2, <3>3 DEF WarmDrift
    <2>2. CASE driftRows' = driftRows
      BY <2>2 DEF WarmDrift
    <2> QED
      BY <2>1, <2>2
         DEF Next, vars, Record, Project, ProjectLost, ReadHistory, PublishFinding,
             PublishFails, StoreMarker, StoreFails, ParkEvent, Crash
  <1> QED
    BY <1>2, <1>3, <1>4

\* Positions of one value make a constant series.
LEMMA ConstantSeries ==
  ASSUME topic \in Seq(Values), NEW P \in SUBSET (1 .. Len(topic)), NEW c,
         \A i \in P : topic[i] = c
  PROVE  Constant(Series(P), c)
  <1>1. DOMAIN Series(P) = 1 .. Cardinality(P)
    BY DEF Series
  <1> QED
    BY <1>1, SeriesValues DEF Constant

\* Over a flat history of at least four, an event that departs from it is found critical
\* by both z-scores.
LEMMA SpikeFound ==
  ASSUME topic \in Seq(Values), NEW P \in SUBSET (1 .. Len(topic)), Cardinality(P) >= 4,
         Flat(P), NEW p \in 1 .. Len(topic), \A i \in P : topic[i] # topic[p]
  PROVE  \A d \in {"latency", "cost"} :
           In(Critical(d), Evaluate(Append(Series(P), topic[p])))
  <1> DEFINE n == Cardinality(P)
             s == Series(P)
             v == Append(s, topic[p])
  <1>1. n \in Nat /\ s \in Seq(Int) /\ Len(s) = n
    BY SeriesValues
  <1>2. \A i \in 1 .. Len(topic) : topic[i] \in Int
    BY NumbersPublished
  <1>3. P # {}
    <2> SUFFICES ASSUME P = {}
                 PROVE  n = 0
      BY <1>1
    <2> QED
      BY FS_EmptySet
  <1>4. PICK i \in P : TRUE
    BY <1>3
  <1>5. PICK c \in Int : c = topic[i]
    BY <1>2
  <1>6. Constant(s, c)
    BY <1>5, ConstantSeries DEF Flat
  <1>7. c # topic[p] /\ topic[p] \in Int /\ n >= 4
    BY <1>2, <1>5
  <1> HIDE DEF n, s
  <1>8. /\ v \in Seq(Int) /\ Len(v) = n + 1 /\ v[n + 1] = topic[p]
        /\ \A k \in 1 .. n : v[k] = c
    <2>1. v \in Seq(Int) /\ Len(v) = n + 1 /\ v[n + 1] = topic[p]
      BY <1>1, <1>7
    <2>2. ASSUME NEW k \in 1 .. n
          PROVE  v[k] = c
      <3>1. v[k] = s[k] /\ k \in DOMAIN s
        BY <1>1, <1>7
      <3> QED
        BY <1>6, <3>1 DEF Constant
    <2> QED
      BY <2>1, <2>2
  <1> HIDE DEF v
  <1>9. LatencyZ \in Nat /\ CostZ \in Nat
    BY AnalyticsAssumption
  <1>10. ZScore(v, LatencyZ) = "critical" /\ ZScore(v, CostZ) = "critical"
    BY <1>1, <1>7, <1>8, <1>9, SpikeIsCritical
  <1> QED
    BY <1>10, EvaluateSays DEF v, s

\* While the series is steady, the detectors find nothing in it.
LEMMA SteadyIsSilent ==
  ASSUME topic \in Seq(Values), Steady, NEW P \in SUBSET (1 .. Len(topic)),
         NEW p \in 1 .. Len(topic)
  PROVE  Evaluate(Append(Series(P), topic[p])) = <<>>
  <1> DEFINE s == Series(P)
             v == Append(s, topic[p])
  <1>1. s \in Seq(Int)
    BY SeriesValues
  <1>2. topic[p] \in Int
    BY NumbersPublished
  <1>3. PICK c \in Int : c = topic[p]
    BY <1>2
  <1>4. DOMAIN topic = 1 .. Len(topic)
    OBVIOUS
  <1>5. c <= Threshold /\ \A i \in P : topic[i] = c
    BY <1>3, <1>4 DEF Steady
  <1>6. Constant(s, c)
    BY <1>5, ConstantSeries
  <1> HIDE DEF s
  <1>7. v \in Seq(Int) /\ Len(v) # 0 /\ Constant(v, c)
    BY <1>1, <1>3, <1>6 DEF Constant
  <1> HIDE DEF v
  <1>8. Evaluate(v) = <<>>
    BY <1>5, <1>7, ConstantIsSilent
  <1> QED
    BY <1>8 DEF v, s

\* While the series is steady, no drift is reported.
LEMMA SteadyHasNoDrift ==
  ASSUME TypeInv, Steady
  PROVE  ~ReportDrift
  <1> SUFFICES ASSUME ReportDrift
               PROVE  FALSE
    OBVIOUS
  <1>1. topic \in Seq(Values) /\ stored \in SUBSET (1 .. Len(topic))
    BY DEF TypeInv, TypeOK
  <1>2. PICK P : P = Newest(DriftHistory) /\ P \in SUBSET (1 .. Len(topic))
    BY <1>1, HistoryBounded DEF TypeInv
  <1> DEFINE s == Series(P)
  <1>3. s \in Seq(Int) /\ Len(s) = Cardinality(P) /\ Cardinality(P) \in Nat
    BY <1>1, <1>2, SeriesValues
  <1>4. /\ Len(s) >= BaselineSize
        /\ SharesDiffer(First(s), Current(s)) \/ ShapesDiffer(First(s), Current(s))
    BY <1>2 DEF ReportDrift, EnoughRows
  <1>5. BaselineSize \in Nat /\ CurrentSize \in Nat /\ BaselineSize >= 1 /\ CurrentSize >= 1
    BY AnalyticsAssumption
  <1>6. PICK i : i \in P
    <2> SUFFICES ASSUME P = {}
                 PROVE  Len(s) = 0
      BY <1>4, <1>5
    <2> QED
      BY <1>3, FS_EmptySet
  <1>7. PICK c \in Int : c = topic[i]
    BY <1>1, <1>2, <1>6, NumbersPublished
  <1>8. Constant(s, c)
    <2>1. \A j \in P : topic[j] = c
      BY <1>1, <1>2, <1>6, <1>7 DEF Steady
    <2> QED
      BY <1>1, <1>2, <2>1, ConstantSeries
  <1> HIDE DEF s
  <1>9. First(s) \in Seq(Int) /\ Constant(First(s), c)
    <2>1. PICK b : b = IF Len(s) < BaselineSize THEN Len(s) ELSE BaselineSize
      OBVIOUS
    <2>2. b \in 0 .. Len(s) /\ 1 <= b + 1 /\ 1 \in 1 .. Len(s) + 1
      BY <1>3, <1>4, <1>5, <2>1
    <2> QED
      BY <1>3, <1>8, <2>1, <2>2, ConstantPart DEF First
  <1>10. Current(s) \in Seq(Int) /\ Constant(Current(s), c)
    <2>1. PICK a : a = IF Len(s) < CurrentSize THEN 1 ELSE Len(s) - CurrentSize + 1
      OBVIOUS
    <2>2. a \in 1 .. Len(s) + 1 /\ a <= Len(s) + 1 /\ Len(s) \in 0 .. Len(s)
      BY <1>3, <1>5, <2>1
    <2> QED
      BY <1>3, <1>8, <2>1, <2>2, ConstantPart DEF Current
  <1> QED
    BY <1>4, <1>9, <1>10, ConstantHasNoDrift

\* A spike in hand stays until both z-scores are reported.
LEMMA SpikeStep ==
  ASSUME TypeInv, SpikePending, [Next]_vars
  PROVE  SpikePending'
  <1> USE DEF Event
  <1>0. /\ handled \in Nat /\ (pc # "idle" => handled + 1 \in 1 .. Len(topic))
        /\ Len(topic) \in Nat /\ found \in Seq(Findings) /\ topic \in Seq(Values)
        /\ used \subseteq 1 .. Len(topic) /\ stored \subseteq 1 .. Len(topic)
    BY DEF TypeInv, TypeOK, InHand
  <1>1. /\ \A p \in 1 .. Len(topic) : topic'[p] = topic[p]
        /\ \A p \in Nat : Reported(p) \subseteq Reported(p)'
    BY StepGrows
  <1>2. ASSUME UNCHANGED <<pc, handled, used>>, Spike'
        PROVE  /\ Spike
               /\ \A d \in {"latency", "cost"} :
                    d \in Reported(Event)' \/ In(Critical(d), found)
    <2>1. Spike
      BY <1>0, <1>1, <1>2 DEF Spike, Flat
    <2> QED
      BY <1>0, <1>1, <1>2, <2>1 DEF SpikePending
  <1>3. ASSUME UNCHANGED <<pc, handled, used, found>>
        PROVE  SpikePending'
    BY <1>2, <1>3 DEF SpikePending, In
  <1>4. ASSUME pc' # "publish"
        PROVE  SpikePending'
    BY <1>4 DEF SpikePending, Spike
  <1>5. CASE ReadHistory
    <2>1. /\ used' = Newest(HistoryLimit) /\ UNCHANGED <<topic, handled>>
          /\ found' = Evaluate(Append(Series(used'), topic[Event])) /\ handled + 1 \in 1 .. Len(topic)
      BY <1>0, <1>5 DEF ReadHistory, tableVars, groupVars
    <2>2. PICK P : P = used' /\ P \in SUBSET (1 .. Len(topic))
      BY <1>0, <2>1, HistoryBounded DEF TypeInv
    <2> SUFFICES ASSUME Spike'
                 PROVE  \A d \in {"latency", "cost"} : In(Critical(d), found')
      BY DEF SpikePending, In
    <2>3. Cardinality(P) >= 4 /\ Flat(P) /\ \A i \in P : topic[i] # topic[handled + 1]
      BY <2>1, <2>2 DEF Spike, Flat
    <2>4. \A d \in {"latency", "cost"} :
            In(Critical(d), Evaluate(Append(Series(P), topic[handled + 1])))
      BY <1>0, <2>1, <2>2, <2>3, SpikeFound
    <2> QED
      BY <2>1, <2>2, <2>4
  <1>6. CASE PublishFinding
    <2>1. /\ UNCHANGED <<pc, handled, used>> /\ found # <<>>
          /\ found' = Tail(found) /\ <<Event, Head(found)>> \in reports'
      BY <1>6 DEF PublishFinding, groupVars
    <2> SUFFICES ASSUME Spike', NEW d \in {"latency", "cost"}
                 PROVE  d \in Reported(Event)' \/ In(Critical(d), found')
      BY DEF SpikePending, In
    <2>2. CASE d \in Reported(Event)'
      BY <2>2
    <2>3. CASE In(Critical(d), found)
      <3>1. Critical(d) = Head(found) \/ In(Critical(d), found')
        BY <1>0, <2>1, <2>3, InTail
      <3>2. ASSUME Critical(d) = Head(found)
            PROVE  d \in Reported(Event)'
        BY <2>1, <3>2 DEF Reported, Detectors, Critical
      <3> QED
        BY <3>1, <3>2
    <2> QED
      BY <1>2, <2>1, <2>2, <2>3
  <1>7. CASE PublishFails \/ StoreFails
    BY <1>4, <1>7, AttemptTyped DEF PublishFails, StoreFails, TypeInv
  <1>8. CASE StoreMarker \/ ParkEvent \/ Crash
    BY <1>4, <1>8 DEF StoreMarker, ParkEvent, Crash
  <1>9. CASE (\E v \in Values : Record(v)) \/ Project \/ ProjectLost \/ ReportDrift \/ UNCHANGED vars
    BY <1>3, <1>9 DEF Record, Project, ProjectLost, ReportDrift, vars, groupVars, workerVars
  <1> QED
    BY <1>5, <1>6, <1>7, <1>8, <1>9 DEF Next

\* A steady series stays quiet, and a series that is steady now always was.
LEMMA SteadyStep ==
  ASSUME TypeInv, SteadyInv, [Next]_vars
  PROVE  SteadyInv'
  <1> SUFFICES ASSUME Steady'
               PROVE  (reports = {} /\ driftRows = 0 /\ found = <<>>)'
    BY DEF SteadyInv
  <1>0. /\ topic \in Seq(Values) /\ Len(topic) \in Nat /\ handled \in Nat
        /\ stored \subseteq 1 .. Len(topic)
    BY DEF TypeInv, TypeOK
  <1>1. Steady
    <2>1. ASSUME NEW v \in Values, Record(v)
          PROVE  Steady
      <3>1. topic' = Append(topic, v)
        BY <2>1 DEF Record
      <3>2. DOMAIN topic \subseteq DOMAIN topic' /\ \A i \in DOMAIN topic : topic'[i] = topic[i]
        BY <1>0, <3>1
      <3> QED
        BY <3>2 DEF Steady
    <2>2. CASE topic' = topic
      BY <2>2 DEF Steady
    <2> QED
      BY <2>1, <2>2 DEF Next, vars, tableVars, Project, ProjectLost, ReadHistory, PublishFinding,
             PublishFails, StoreMarker, StoreFails, ParkEvent, Crash, ReportDrift
  <1>2. reports = {} /\ driftRows = 0 /\ found = <<>>
    BY <1>1 DEF SteadyInv
  <1>3. CASE ReadHistory
    <2>1. /\ used' = Newest(HistoryLimit) /\ UNCHANGED <<reports, driftRows>>
          /\ found' = Evaluate(Append(Series(used'), topic[Event]))
          /\ Event \in 1 .. Len(topic)
      BY <1>0, <1>3 DEF ReadHistory, Event
    <2>2. PICK P : P = used' /\ P \in SUBSET (1 .. Len(topic))
      BY <1>0, <2>1, HistoryBounded DEF TypeInv
    <2>3. PICK p : p = Event /\ p \in 1 .. Len(topic)
      BY <2>1
    <2>4. Evaluate(Append(Series(P), topic[p])) = <<>>
      BY <1>0, <1>1, <2>2, <2>3, SteadyIsSilent
    <2> QED
      BY <1>2, <2>1, <2>2, <2>3, <2>4
  <1>4. ~PublishFinding /\ ~PublishFails /\ ~ReportDrift
    BY <1>1, <1>2, SteadyHasNoDrift DEF PublishFinding, PublishFails
  <1>5. CASE StoreMarker \/ ParkEvent \/ Crash
    BY <1>2, <1>5 DEF StoreMarker, ParkEvent, Crash, Leave
  <1>6. CASE StoreFails
    BY <1>2, <1>6 DEF StoreFails, AttemptFails
  <1>7. CASE (\E v \in Values : Record(v)) \/ Project \/ ProjectLost \/ UNCHANGED vars
    BY <1>2, <1>7 DEF Record, Project, ProjectLost, vars, workerVars
  <1> QED
    BY <1>3, <1>4, <1>5, <1>6, <1>7 DEF Next

\* The invariant holds in every state.
THEOREM AnalyticsInvariant == Spec => []AnalyticsInv
  <1>1. Init => AnalyticsInv
    BY AnalyticsAssumption
       DEF Init, AnalyticsInv, TypeInv, TypeOK, InHand, Pending, ThresholdReported, Enough, In,
           WarmReports, WarmDrift, SpikePending, Spike, SteadyInv
  <1>2. AnalyticsInv /\ [Next]_vars => AnalyticsInv'
    BY TypeStep, ThresholdStep, WarmStep, SpikeStep, SteadyStep DEF AnalyticsInv
  <1> QED
    BY <1>1, <1>2, PTL DEF Spec

\* An event above the threshold is done with only when that is reported, however
\* often its evaluation was repeated (anomaly.py:34-47, workers.py:131-157).
THEOREM ThresholdIsReported == Spec => []ThresholdReported
  <1>1. AnalyticsInv => ThresholdReported
    BY DEF AnalyticsInv
  <1> QED
    BY <1>1, AnalyticsInvariant, PTL

\* Statistics never speak before there are the rows they need, whatever the
\* projection has lost (anomaly.py:58-59, 90-91, workers.py:259-260).
THEOREM StatisticsWarmUp == Spec => []WarmUp
  <1>1. AnalyticsInv => WarmUp
    <2> SUFFICES ASSUME AnalyticsInv
                 PROVE  WarmUp
      OBVIOUS
    <2>1. ASSUME NEW p \in 1 .. Len(topic), NEW d \in Reported(p)
          PROVE  Warm(d)
      <3>1. PICK s \in {"warning", "critical"} :
              <<p, [detector |-> d, severity |-> s]>> \in reports
        BY <2>1 DEF Reported
      <3> QED
        BY <3>1 DEF AnalyticsInv, WarmReports
    <2> QED
      BY <2>1 DEF AnalyticsInv, WarmDrift, Warm, WarmUp
  <1> QED
    BY <1>1, AnalyticsInvariant, PTL

\* An event that departs from a flat history of at least four samples is settled by an
\* attempt only after both z-scores have been reported, however long the history, and
\* whatever the thresholds (anomaly.py:85-107, workers.py:128-159).
THEOREM SpikeIsReported == Spec => []SpikeReported
  <1>1. AnalyticsInv => SpikeReported
    BY DEF AnalyticsInv, SpikePending, Spike, SpikeReported, In
  <1> QED
    BY <1>1, AnalyticsInvariant, PTL

\* A series that never changes is never reported, however long it runs, whatever the
\* sizes of the windows and the lag of the projection (change-playbook.md:84).
THEOREM SteadyIsQuiet == Spec => []SteadySeriesIsQuiet
  <1>1. AnalyticsInv => SteadySeriesIsQuiet
    BY DEF AnalyticsInv, SteadyInv, Steady, SteadySeriesIsQuiet
  <1> QED
    BY <1>1, AnalyticsInvariant, PTL

=============================================================================
