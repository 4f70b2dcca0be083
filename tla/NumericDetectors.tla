--------------------------- MODULE NumericDetectors ---------------------------
(***************************************************************************)
(* The point detectors of detectors/: z-score, IQR and CUSUM, each with    *)
(* the state it keeps from one record to the next.  detect() computes      *)
(* without suspending, so a value is one step of a detector; the three     *)
(* have no state in common and are stepped together here.  A record whose  *)
(* metric is missing or not a number is returned at once and is no input.  *)
(*                                                                         *)
(* Values are integers and the arithmetic is exact: every comparison of    *)
(* the code is multiplied by its denominators, a comparison of a deviation *)
(* with the standard deviation is squared.                                 *)
(***************************************************************************)
EXTENDS Integers, Sequences, FiniteSets, SequencesExt

CONSTANTS
  Values,           \* the values of the metric
  NumValues,        \* bound: how many values arrive between two resets
  WindowSize,       \* window_size, of the z-score and of the IQR detector
  ZMinSamples, ZNum, ZDen,           \* threshold = ZNum / ZDen
  IqrMinSamples, KNum, KDen,         \* k = KNum / KDen
  WarmupSamples,
  CusumThreshold, CusumSlack, CusumDen \* threshold and slack, both over CusumDen

\* What the constructors accept, the numbers that are not counts being rational.
ASSUME DetectorAssumption ==
  /\ Values \subseteq Int
  /\ NumValues \in Nat
  /\ WindowSize \in Nat /\ WindowSize > 1
  /\ ZMinSamples \in Nat /\ ZMinSamples >= 2
  /\ IqrMinSamples \in Nat /\ IqrMinSamples >= 4
  /\ {ZNum, ZDen, KNum, KDen, CusumThreshold, CusumDen} \subseteq Nat \ {0}
  /\ CusumSlack \in Nat
  /\ WarmupSamples \in Nat /\ WarmupSamples >= 2

VARIABLES
  seen,        \* the values since the last reset
  zWindow,     \* ZScoreDetector._window
  iWindow,     \* IQRDetector._window
  sorted,      \* IQRDetector._sorted
  warmup,      \* CUSUMDetector._warmup; full, it stands for _target and _sigma
  sHigh, sLow, \* _s_high and _s_low, as sums
  alarms       \* the anomalies: <<detector, number of the value>>

detectorVars == <<seen, zWindow, iWindow, sorted, warmup, sHigh, sLow, alarms>>

\* A sum of CUSUM is the drift of the values from the target less the slack:
\* (drift / Len(warmup) - slack * sigma) / (CusumDen * sigma).  The two are kept
\* apart because sigma is a square root.
NoSum == [drift |-> 0, slack |-> 0]

DetectorsInit ==
  /\ seen = <<>>
  /\ zWindow = <<>>
  /\ iWindow = <<>>
  /\ sorted = <<>>
  /\ warmup = <<>>
  /\ sHigh = NoSum
  /\ sLow = NoSum
  /\ alarms = {}

-------------------------------------------------------------------------------

Total(s) ==
  LET upTo[i \in 0..Len(s)] == IF i = 0 THEN 0 ELSE upTo[i - 1] + s[i]
  IN  upTo[Len(s)]

AtLeast0(x) == IF x > 0 THEN x ELSE 0

\* append to a deque with maxlen.
Push(w, x) == IF Len(w) = WindowSize THEN Append(Tail(w), x) ELSE Append(w, x)

(* The z-score of a value against the window before it. *)

Deviation(w, x) == Len(w) * x - Total(w)

\* Len(w)^3 times the variance.
Spread(w) == Total([j \in DOMAIN w |-> Deviation(w, w[j]) * Deviation(w, w[j])])

ZAlarm(w, x) ==
  /\ Len(w) >= ZMinSamples
  /\ Spread(w) > 0
  /\ ZDen * ZDen * (Len(w) * Deviation(w, x) * Deviation(w, x))
       > ZNum * ZNum * Spread(w)

(* The IQR detector and its two views of the window. *)

BisectLeft(s, x) == Cardinality({i \in DOMAIN s : s[i] < x})
BisectRight(s, x) == Cardinality({i \in DOMAIN s : s[i] <= x})

\* The eviction searching with bisect_right.
EvictedRight(s, old) ==
  LET i == BisectRight(s, old) + 1
  IN  IF i \in DOMAIN s /\ s[i] = old THEN RemoveAt(s, i) ELSE s

Evicted(s, old) ==
  LET i == BisectLeft(s, old) + 1
  IN  IF i \in DOMAIN s /\ s[i] = old THEN RemoveAt(s, i) ELSE s

\* _add: the oldest value leaves both views when the window is full.
Sorted(x) ==
  LET s == IF Len(iWindow) = WindowSize THEN Evicted(sorted, Head(iWindow))
           ELSE sorted
  IN  InsertAt(s, BisectRight(s, x) + 1, x)

\* Four times the p/4 percentile: linear interpolation at rank p/4 * (n - 1).
QuarterRank(s, p) ==
  LET rank == p * (Len(s) - 1)
      lo   == (rank \div 4) + 1
      hi   == IF lo < Len(s) THEN lo + 1 ELSE Len(s)
  IN  4 * s[lo] + (rank % 4) * (s[hi] - s[lo])

IqrAlarm(s, x) ==
  LET q1  == QuarterRank(s, 1)
      q3  == QuarterRank(s, 3)
      iqr == q3 - q1
  IN  /\ Len(s) >= IqrMinSamples
      /\ iqr # 0
      /\ \/ 4 * KDen * x < KDen * q1 - KNum * iqr
         \/ 4 * KDen * x > KDen * q3 + KNum * iqr

(* CUSUM. *)

Calibrated == Len(warmup) = WarmupSamples

\* The sum s is more than t / CusumDen: compared with sigma squared, which is
\* Spread(warmup) / Len(warmup)^3.  (For 0 the code has 1e-12, which no deviation
\* of whole numbers can tell from it.)
Above(s, t) ==
  /\ s.drift > 0
  /\ Len(warmup) * (s.drift * s.drift)
       > (s.slack + t) * (s.slack + t) * Spread(warmup)

\* One value moves a sum by its deviation less the slack; max(0.0, ...).
Moved(s, deviation) ==
  LET sum == [drift |-> s.drift + CusumDen * deviation, slack |-> s.slack + CusumSlack]
  IN  IF Above(sum, 0) THEN sum ELSE NoSum

High(x) == Moved(sHigh, Deviation(warmup, x))
Low(x) == Moved(sLow, -Deviation(warmup, x))

CusumAlarm(x) ==
  Calibrated /\ (Above(High(x), CusumThreshold) \/ Above(Low(x), CusumThreshold))

\* Alarm and reset: both sums start again.
SumsAfter(x) ==
  /\ sHigh' = IF CusumAlarm(x) THEN NoSum ELSE High(x)
  /\ sLow' = IF CusumAlarm(x) THEN NoSum ELSE Low(x)

\* The warmup absorbs its samples without scoring them.
Cusum(x) ==
  IF Calibrated
  THEN SumsAfter(x) /\ UNCHANGED warmup
  ELSE warmup' = Append(warmup, x) /\ UNCHANGED <<sHigh, sLow>>

-------------------------------------------------------------------------------

\* Every detector scores the value against what came before it, then takes it in.
Detect(x) ==
  /\ Len(seen) < NumValues
  /\ seen' = Append(seen, x)
  /\ zWindow' = Push(zWindow, x)
  /\ iWindow' = Push(iWindow, x)
  /\ sorted' = Sorted(x)
  /\ Cusum(x)
  /\ alarms' = alarms \cup {a \in {"z_score", "iqr", "cusum"} \X {Len(seen) + 1} :
                  CASE a[1] = "z_score" -> ZAlarm(zWindow, x)
                    [] a[1] = "iqr"     -> IqrAlarm(sorted, x)
                    [] OTHER            -> CusumAlarm(x)}

\* reset(), between two runs.
Reset ==
  /\ seen' = <<>>
  /\ zWindow' = <<>>
  /\ iWindow' = <<>>
  /\ sorted' = <<>>
  /\ warmup' = <<>>
  /\ sHigh' = NoSum
  /\ sLow' = NoSum
  /\ alarms' = {}

DetectorsNext == Reset \/ \E x \in Values : Detect(x)

DetectorsSpec == DetectorsInit /\ [][DetectorsNext]_detectorVars

-------------------------------------------------------------------------------

Fires(detector, i) == <<detector, i>> \in alarms

\* The WindowSize values before the i-th.
Before(i) == SubSeq(seen, AtLeast0(i - 1 - WindowSize) + 1, i - 1)

\* The z-score detector fires exactly on the values that deviate by more than
\* ZNum / ZDen standard deviations from the mean of the values before them, its
\* own value not among them; the variance is that of the textbook, the mean of
\* the squares less the square of the mean.
Squares(w) == Total([j \in DOMAIN w |-> w[j] * w[j]])

ZScoreExact ==
  \A i \in DOMAIN seen :
    LET w == Before(i)
        v == Len(w) * Squares(w) - Total(w) * Total(w)
        d == Len(w) * seen[i] - Total(w)
    IN  Fires("z_score", i) <=>
          /\ Len(w) >= ZMinSamples
          /\ v > 0
          /\ ZDen * ZDen * (d * d) > ZNum * ZNum * v

\* The IQR detector fires exactly on the values beyond Tukey's fences around the
\* values before them, the quartiles taken by counting, not from a sorted list.
KthSmallest(w, k) ==
  CHOOSE v \in Range(w) :
    /\ Cardinality({j \in DOMAIN w : w[j] < v}) < k
    /\ Cardinality({j \in DOMAIN w : w[j] <= v}) >= k

\* Four times the quartile: it divides the n - 1 gaps p : (4 - p).
Quartile(w, p) ==
  LET gaps == p * (Len(w) - 1)
      a    == KthSmallest(w, 1 + gaps \div 4)
  IN  IF gaps % 4 = 0 THEN 4 * a
      ELSE (4 - (gaps % 4)) * a + (gaps % 4) * KthSmallest(w, 2 + gaps \div 4)

IqrExact ==
  \A i \in DOMAIN seen :
    Fires("iqr", i) <=>
      /\ Len(Before(i)) >= IqrMinSamples
      /\ LET q1 == Quartile(Before(i), 1)
             q3 == Quartile(Before(i), 3)
             x  == 4 * seen[i]
         IN  /\ q1 # q3
             /\ KDen * (q1 - x) > KNum * (q3 - q1) \/ KDen * (x - q3) > KNum * (q3 - q1)

\* The recursive sums of CUSUM find every drift and nothing else: an alarm is
\* raised exactly when, in some stretch of values that ends here and starts after
\* the last alarm, the excess over mean and slack, in standard deviations, adds
\* up to more than the threshold, upwards or downwards.  Mean and standard
\* deviation are the textbook's, of the first WarmupSamples values.
LastAlarm(i) ==
  LET before == {j \in 1..(i - 1) : Fires("cusum", j)}
  IN  CHOOSE j \in before \cup {WarmupSamples} :
        \A l \in before \cup {WarmupSamples} : l <= j

CusumExact ==
  LET w == SubSeq(seen, 1, WarmupSamples)
      v == WarmupSamples * Squares(w) - Total(w) * Total(w)
  IN  \A i \in DOMAIN seen :
        Fires("cusum", i) <=>
          \E j \in (LastAlarm(i) + 1)..i :
            LET k     == i - j + 1
                drift == CusumDen * (WarmupSamples * Total(SubSeq(seen, j, i)) - k * Total(w))
                bound == CusumThreshold + k * CusumSlack
            IN  drift * drift > bound * bound * v

\* Each point detector fires exactly when its definition says so, over any number
\* of values and between resets, although it keeps running state: a window and
\* its sorted view, or sums restarted by every alarm.
PointAlarmsExact == ZScoreExact /\ IqrExact /\ CusumExact

===============================================================================
