----------------------------- MODULE StagesProofs -----------------------------
(***************************************************************************)
(* Proofs about what is wrapped around a stage and what runs inside one:   *)
(* the decorators, for any number of consumers, retries and calls, any     *)
(* delays and durations and both orders of the stack, and the point        *)
(* detectors, for any integers, windows, warmups and rational thresholds.  *)
(* The timers of the one and the IQR detector of the other keep a list     *)
(* sorted, and share the lemmas about ascending lists.                     *)
(*                                                                         *)
(* The bound on attempts rests on where a call is (CallsInv): one that     *)
(* waits in a backoff has failed, and none goes on with more failures than *)
(* retries.  That it has waited between them is Waited: the time it has    *)
(* spent covers the backoffs so far; that no delay was too long is Capped, *)
(* for the longest of the durations.  That the timer has what happened is  *)
(* Counted: a bijection of the ended calls and the samples, or a count of  *)
(* attempts, according to the stack.  The percentiles rest on the samples  *)
(* being ascending: insort puts a sample behind all that are not greater,  *)
(* and the rank of a percentile counts the samples up to it.               *)
(*                                                                         *)
(* What a detector keeps is what it has seen (DetectorsInv).  A window has *)
(* the values before the next one (BeforeIn), and the sorted view has as   *)
(* many up to every bound as the window has (IsView), so that the k-th     *)
(* smallest is the k-th of the view.  Spread, the sum of the squared       *)
(* deviations, is the textbook's variance multiplied out (SpreadIs).       *)
(*                                                                         *)
(* A sum of CUSUM is never compared with another: a stretch is only said   *)
(* to be Beyond the slack or not, which needs no square root.  What a sum  *)
(* tracks (Tracks) is therefore what may still come: whatever is added     *)
(* from here on, if it is not beyond the slack by itself, takes the sum    *)
(* beyond exactly when it takes some stretch since the last alarm beyond.  *)
(* Two that are beyond are so together, and two that are not are not so    *)
(* together (BeyondTogether, NotBeyondTogether): cutting a sum at 0 begins *)
(* a new stretch and forgets none that matters.                            *)
(***************************************************************************)
EXTENDS StageDecorators, NumericDetectors, FiniteSetTheorems, SequenceTheorems, Induction, TLAPS

-------------------------------------------------------------------------------
(* Ascending lists *)

Ascending(s) == \A i, j \in DOMAIN s : i <= j => s[i] <= s[j]

NotAbove(s, x) == {i \in DOMAIN s : s[i] <= x}

CountUpTo(s, x) == Cardinality(NotAbove(s, x))

\* What an element adds to a count.
One(x, v) == IF x <= v THEN 1 ELSE 0

LEMMA UpToCounts == \A n \in Nat : IsFiniteSet(1..n) /\ Cardinality(1..n) = n
BY FS_Interval

LEMMA CountTyped ==
  ASSUME NEW s \in Seq(Int), NEW x
  PROVE  IsFiniteSet(NotAbove(s, x)) /\ CountUpTo(s, x) \in 0..Len(s)
<1>1. PICK n \in Nat : n = Len(s) /\ DOMAIN s = 1..n
  OBVIOUS
<1>2. PICK S : S = NotAbove(s, x) /\ S \subseteq 1..n
  BY <1>1 DEF NotAbove
<1>3. IsFiniteSet(S) /\ Cardinality(S) <= n
  BY <1>2, UpToCounts, FS_Subset
<1>4. Cardinality(S) \in Nat
  BY <1>3, FS_CardinalityType
<1>5. QED
  BY <1>1, <1>2, <1>3, <1>4 DEF CountUpTo

\* The elements that are not above x are the first m: there are m.
LEMMA CountIs ==
  ASSUME NEW s \in Seq(Int), NEW x, NEW m \in 0..Len(s),
         \A k \in DOMAIN s : s[k] <= x <=> k <= m
  PROVE  CountUpTo(s, x) = m
<1>1. DOMAIN s = 1..Len(s) /\ Len(s) \in Nat /\ m \in Nat
  OBVIOUS
<1>2. NotAbove(s, x) = 1..m
  BY <1>1 DEF NotAbove
<1>3. QED
  BY <1>1, <1>2, UpToCounts DEF CountUpTo

\* And in an ascending list they are the first.
LEMMA CountPrefix ==
  ASSUME NEW s \in Seq(Int), Ascending(s), NEW x \in Int
  PROVE  \A k \in DOMAIN s : s[k] <= x <=> k <= CountUpTo(s, x)
<1> DEFINE S == NotAbove(s, x)
<1>1. /\ DOMAIN s = 1..Len(s) /\ Len(s) \in Nat
      /\ \A i \in DOMAIN s : s[i] \in Int
  OBVIOUS
<1>2. IsFiniteSet(S) /\ Cardinality(S) \in Nat
  BY CountTyped DEF CountUpTo
<1>3. ASSUME NEW k \in DOMAIN s, s[k] <= x PROVE k <= Cardinality(S)
  <2>1. 1..k \subseteq S
    BY <1>1, <1>3 DEF Ascending, NotAbove
  <2>2. Cardinality(1..k) = k
    BY <1>1, UpToCounts
  <2>3. QED
    BY <1>2, <2>1, <2>2, FS_Subset
<1>4. ASSUME NEW k \in DOMAIN s, ~(s[k] <= x) PROVE ~(k <= Cardinality(S))
  <2>1. S \subseteq 1..(k - 1)
    BY <1>1, <1>4 DEF Ascending, NotAbove
  <2>2. k - 1 \in Nat
    BY <1>1
  <2>3. IsFiniteSet(1..(k - 1)) /\ Cardinality(1..(k - 1)) = k - 1
    BY <2>2, UpToCounts
  <2>4. Cardinality(S) <= k - 1
    BY <2>1, <2>3, FS_Subset
  <2>5. QED
    BY <1>1, <1>2, <2>4
<1>5. QED
  BY <1>3, <1>4 DEF CountUpTo

\* A list of integers below a bound has as many up to it.
LEMMA CountMonotonic ==
  ASSUME NEW s \in Seq(Int), NEW x \in Int, NEW y \in Int, x <= y
  PROVE  CountUpTo(s, x) <= CountUpTo(s, y)
<1>1. NotAbove(s, x) \subseteq NotAbove(s, y)
  BY DEF NotAbove
<1>2. QED
  BY <1>1, CountTyped, FS_Subset DEF CountUpTo

\* r is s with x after the first c of its n elements.
IsInsert(r, s, n, c, x, D) ==
  /\ r \in Seq(D) /\ Len(r) = n + 1 /\ DOMAIN r = 1..(n + 1)
  /\ \A k \in 1..(n + 1) :
       r[k] = IF k <= c THEN s[k] ELSE IF k = c + 1 THEN x ELSE s[k - 1]

LEMMA Inserted ==
  ASSUME NEW D, NEW s \in Seq(D), NEW c \in 0..Len(s), NEW x \in D,
         NEW r, r = InsertAt(s, c + 1, x)
  PROVE  IsInsert(r, s, Len(s), c, x, D)
<1>1. PICK n \in Nat : n = Len(s) /\ c \in 0..n /\ \A k \in 1..n : s[k] \in D
  OBVIOUS
<1>2. PICK a, b, o : a = SubSeq(s, 1, c) /\ b = SubSeq(s, c + 1, n) /\ o = <<x>>
  OBVIOUS
<1>3. InsertAt(s, c + 1, x) = (a \o o) \o b
  <2>1. (c + 1) - 1 = c
    BY <1>1
  <2>2. InsertAt(s, c + 1, x) = (SubSeq(s, 1, (c + 1) - 1) \o <<x>>) \o SubSeq(s, c + 1, Len(s))
    BY DEF InsertAt
  <2>3. QED
    BY <1>1, <1>2, <2>1, <2>2
<1>4. a \in Seq(D) /\ Len(a) = c /\ \A k \in 1..c : a[k] = s[k]
  <2>1. c \in Int /\ \A k \in 1..c : s[k] \in D
    BY <1>1
  <2>2. /\ a \in Seq(D) /\ Len(a) = (IF 1 <= c THEN c - 1 + 1 ELSE 0)
        /\ \A k \in 1..(c - 1 + 1) : a[k] = s[1 + k - 1]
    BY <1>2, <2>1, SubSeqProperties
  <2>3. QED
    BY <1>1, <2>2
<1>5. b \in Seq(D) /\ Len(b) = n - c /\ \A k \in 1..(n - c) : b[k] = s[c + k]
  <2>1. PICK d \in Int : d = c + 1 /\ \A k \in d..n : s[k] \in D
    BY <1>1
  <2>2. /\ b \in Seq(D) /\ Len(b) = (IF d <= n THEN n - d + 1 ELSE 0)
        /\ \A k \in 1..(n - d + 1) : b[k] = s[d + k - 1]
    BY <1>1, <1>2, <2>1, SubSeqProperties
  <2>3. n - d + 1 = n - c /\ (~(d <= n) => n - c = 0) /\ \A k \in 1..(n - c) : d + k - 1 = c + k
    BY <1>1, <2>1
  <2>4. QED
    BY <2>2, <2>3
<1>6. o \in Seq(D) /\ Len(o) = 1 /\ o[1] = x
  BY <1>2
<1>7. PICK l \in Seq(D) : /\ l = a \o o /\ Len(l) = c + 1
                          /\ \A k \in 1..(c + 1) : l[k] = IF k <= c THEN a[k] ELSE o[k - c]
  <2>1. /\ a \o o \in Seq(D) /\ Len(a \o o) = Len(a) + Len(o)
        /\ \A k \in 1..(Len(a) + Len(o)) :
             (a \o o)[k] = IF k <= Len(a) THEN a[k] ELSE o[k - Len(a)]
    BY <1>4, <1>6, ConcatProperties
  <2>2. QED
    BY <1>4, <1>6, <2>1
<1>8. /\ r \in Seq(D) /\ r = l \o b /\ Len(r) = n + 1
      /\ \A k \in 1..(n + 1) : r[k] = IF k <= c + 1 THEN l[k] ELSE b[k - (c + 1)]
  <2>1. /\ l \o b \in Seq(D) /\ Len(l \o b) = Len(l) + Len(b)
        /\ \A k \in 1..(Len(l) + Len(b)) :
             (l \o b)[k] = IF k <= Len(l) THEN l[k] ELSE b[k - Len(l)]
    BY <1>5, ConcatProperties
  <2>2. Len(l) + Len(b) = n + 1 /\ Len(l) = c + 1
    BY <1>1, <1>5, <1>7
  <2>3. r = l \o b
    BY <1>3, <1>7
  <2>4. QED
    BY <2>1, <2>2, <2>3
<1>9. ASSUME NEW k \in 1..(n + 1)
      PROVE  r[k] = IF k <= c THEN s[k] ELSE IF k = c + 1 THEN x ELSE s[k - 1]
  <2>1. CASE k <= c
    <3>1. k \in 1..c /\ k \in 1..(c + 1) /\ k <= c + 1
      BY <1>1, <2>1
    <3>2. QED
      BY <1>4, <1>7, <1>8, <2>1, <3>1
  <2>2. CASE k = c + 1
    <3>1. k \in 1..(c + 1) /\ k <= c + 1 /\ ~(k <= c) /\ k - c = 1
      BY <1>1, <2>2
    <3>2. QED
      BY <1>6, <1>7, <1>8, <2>2, <3>1
  <2>3. CASE k > c + 1
    <3>1. k - (c + 1) \in 1..(n - c) /\ c + (k - (c + 1)) = k - 1 /\ ~(k <= c + 1) /\ ~(k <= c)
      BY <1>1, <2>3
    <3>2. r[k] = b[k - (c + 1)] /\ b[k - (c + 1)] = s[k - 1]
      BY <1>5, <1>8, <3>1
    <3>3. QED
      BY <1>1, <2>3, <3>1, <3>2
  <2>4. QED
    BY <1>1, <2>1, <2>2, <2>3
<1>10. DOMAIN r = 1..(n + 1)
  BY <1>8
<1>11. QED
  BY <1>1, <1>8, <1>9, <1>10 DEF IsInsert

\* r is s without the i-th of its n elements.
IsRemoval(r, s, n, i, D) ==
  /\ r \in Seq(D) /\ Len(r) = n - 1 /\ DOMAIN r = 1..(n - 1)
  /\ \A k \in 1..(n - 1) : r[k] = IF k < i THEN s[k] ELSE s[k + 1]

LEMMA Removed ==
  ASSUME NEW D, NEW s \in Seq(D), NEW i \in 1..Len(s), NEW r, r = RemoveAt(s, i)
  PROVE  IsRemoval(r, s, Len(s), i, D)
<1>1. PICK n \in Nat : n = Len(s) /\ i \in 1..n /\ \A k \in 1..n : s[k] \in D
  OBVIOUS
<1>2. PICK a, b : a = SubSeq(s, 1, i - 1) /\ b = SubSeq(s, i + 1, n)
  OBVIOUS
<1>3. a \in Seq(D) /\ Len(a) = i - 1 /\ \A k \in 1..(i - 1) : a[k] = s[k]
  <2>1. PICK d \in Int : d = i - 1 /\ \A k \in 1..d : s[k] \in D
    BY <1>1
  <2>2. /\ a \in Seq(D) /\ Len(a) = (IF 1 <= d THEN d - 1 + 1 ELSE 0)
        /\ \A k \in 1..(d - 1 + 1) : a[k] = s[1 + k - 1]
    BY <1>2, <2>1, SubSeqProperties
  <2>3. QED
    BY <1>1, <2>1, <2>2
<1>4. b \in Seq(D) /\ Len(b) = n - i /\ \A k \in 1..(n - i) : b[k] = s[i + k]
  <2>1. PICK d \in Int : d = i + 1 /\ \A k \in d..n : s[k] \in D
    BY <1>1
  <2>2. /\ b \in Seq(D) /\ Len(b) = (IF d <= n THEN n - d + 1 ELSE 0)
        /\ \A k \in 1..(n - d + 1) : b[k] = s[d + k - 1]
    BY <1>1, <1>2, <2>1, SubSeqProperties
  <2>3. n - d + 1 = n - i /\ (~(d <= n) => n - i = 0) /\ \A k \in 1..(n - i) : d + k - 1 = i + k
    BY <1>1, <2>1
  <2>4. QED
    BY <2>2, <2>3
<1>5. /\ r \in Seq(D) /\ Len(r) = n - 1
      /\ \A k \in 1..(n - 1) : r[k] = IF k <= i - 1 THEN a[k] ELSE b[k - (i - 1)]
  <2>1. /\ a \o b \in Seq(D) /\ Len(a \o b) = Len(a) + Len(b)
        /\ \A k \in 1..(Len(a) + Len(b)) :
             (a \o b)[k] = IF k <= Len(a) THEN a[k] ELSE b[k - Len(a)]
    BY <1>3, <1>4, ConcatProperties
  <2>2. Len(a) + Len(b) = n - 1 /\ Len(a) = i - 1
    BY <1>1, <1>3, <1>4
  <2>3. r = a \o b
    BY <1>1, <1>2 DEF RemoveAt
  <2>4. QED
    BY <2>1, <2>2, <2>3
<1>6. ASSUME NEW k \in 1..(n - 1) PROVE r[k] = IF k < i THEN s[k] ELSE s[k + 1]
  <2>1. CASE k < i
    <3>1. k \in 1..(i - 1) /\ k <= i - 1
      BY <1>1, <2>1
    <3>2. QED
      BY <1>3, <1>5, <2>1, <3>1
  <2>2. CASE ~(k < i)
    <3>1. k - (i - 1) \in 1..(n - i) /\ i + (k - (i - 1)) = k + 1 /\ ~(k <= i - 1)
      BY <1>1, <2>2
    <3>2. r[k] = b[k - (i - 1)] /\ b[k - (i - 1)] = s[k + 1]
      BY <1>4, <1>5, <3>1
    <3>3. QED
      BY <2>2, <3>2
  <2>3. QED
    BY <2>1, <2>2
<1>7. DOMAIN r = 1..(n - 1)
  BY <1>5
<1>8. QED
  BY <1>1, <1>5, <1>6, <1>7 DEF IsRemoval

\* bisect.insort and its like: a new element behind all that are not greater.
LEMMA InsertAscending ==
  ASSUME NEW D \in SUBSET Int, NEW s \in Seq(D), Ascending(s), NEW x \in D,
         NEW r, r = InsertAt(s, CountUpTo(s, x) + 1, x)
  PROVE  /\ CountUpTo(s, x) \in 0..Len(s)
         /\ IsInsert(r, s, Len(s), CountUpTo(s, x), x, D)
         /\ Ascending(r)
<1>1. s \in Seq(Int)
  BY SeqMonotonic
<1>0. PICK n \in Nat : n = Len(s) /\ DOMAIN s = 1..n /\ \A k \in 1..n : s[k] \in Int
  BY <1>1
<1>2. PICK c \in 0..n : c = CountUpTo(s, x)
  BY <1>0, <1>1, CountTyped
<1>3. /\ r \in Seq(D) /\ Len(r) = n + 1 /\ DOMAIN r = 1..(n + 1)
      /\ \A k \in 1..(n + 1) : r[k] = IF k <= c THEN s[k] ELSE IF k = c + 1 THEN x ELSE s[k - 1]
  <2>1. r = InsertAt(s, c + 1, x) /\ c \in 0..Len(s)
    BY <1>0, <1>2
  <2>2. IsInsert(r, s, Len(s), c, x, D)
    BY <2>1, Inserted, Zenon
  <2>3. QED
    BY <1>0, <2>2 DEF IsInsert
<1>4. \A k \in 1..n : s[k] <= x <=> k <= c
  BY <1>0, <1>1, <1>2, CountPrefix
<1>5. ASSUME NEW i \in 1..(n + 1), NEW j \in 1..(n + 1), i <= j PROVE r[i] <= r[j]
  <2>1. CASE j <= c
    <3>1. i <= c /\ i \in 1..n /\ j \in 1..n
      BY <1>5, <2>1
    <3>2. r[i] = s[i] /\ r[j] = s[j]
      BY <1>3, <2>1, <3>1
    <3>3. QED
      BY <1>0, <1>5, <3>1, <3>2 DEF Ascending
  <2>2. CASE j = c + 1
    <3>1. CASE i <= c
      BY <1>0, <1>2, <1>3, <1>4, <2>2, <3>1
    <3>2. CASE i = c + 1
      BY <1>0, <1>3, <2>2, <3>2
    <3>3. QED
      BY <1>0, <1>5, <2>2, <3>1, <3>2
  <2>3. CASE j > c + 1
    <3>1. j - 1 \in 1..n /\ j - 1 > c /\ ~(j <= c) /\ j # c + 1
      BY <1>0, <1>2, <2>3
    <3>2. r[j] = s[j - 1] /\ ~(s[j - 1] <= x) /\ s[j - 1] \in Int
      BY <1>0, <1>2, <1>3, <1>4, <3>1
    <3>3. CASE i <= c
      <4>1. i \in 1..n /\ i <= j - 1 /\ r[i] = s[i]
        BY <1>0, <1>2, <1>3, <3>1, <3>3
      <4>2. QED
        BY <1>0, <1>2, <3>1, <3>2, <4>1 DEF Ascending
    <3>4. CASE i = c + 1
      BY <1>0, <1>3, <3>2, <3>4
    <3>5. CASE i > c + 1
      <4>1. i - 1 \in 1..n /\ i - 1 <= j - 1 /\ ~(i <= c) /\ i # c + 1
        BY <1>0, <1>2, <1>5, <3>5
      <4>2. r[i] = s[i - 1]
        BY <1>0, <1>3, <4>1
      <4>3. QED
        BY <1>0, <1>2, <3>1, <3>2, <4>1, <4>2 DEF Ascending
    <3>6. QED
      BY <1>0, <1>2, <3>3, <3>4, <3>5
  <2>4. QED
    BY <1>0, <1>2, <2>1, <2>2, <2>3
<1>6. Ascending(r)
  BY <1>0, <1>3, <1>5 DEF Ascending
<1>7. QED
  BY <1>0, <1>2, <1>3, <1>6 DEF IsInsert

\* bisect.insort: one sample more, behind the first c, and still sorted.
LEMMA InsortSorted ==
  ASSUME NEW s \in Seq(Nat), Ascending(s), NEW x \in Nat
  PROVE  /\ Insort(s, x) \in Seq(Nat)
         /\ Len(Insort(s, x)) = Len(s) + 1
         /\ Ascending(Insort(s, x))
         /\ \E c \in 0..Len(s) : \A k \in 1..(Len(s) + 1) :
              Insort(s, x)[k] = IF k <= c THEN s[k] ELSE IF k = c + 1 THEN x ELSE s[k - 1]
<1>1. Insort(s, x) = InsertAt(s, CountUpTo(s, x) + 1, x)
  BY DEF Insort, CountUpTo, NotAbove
<1>2. Nat \in SUBSET Int
  OBVIOUS
<1>3. /\ CountUpTo(s, x) \in 0..Len(s)
      /\ IsInsert(Insort(s, x), s, Len(s), CountUpTo(s, x), x, Nat)
      /\ Ascending(Insort(s, x))
  BY <1>1, <1>2, InsertAscending
<1>4. QED
  BY <1>3 DEF IsInsert

-------------------------------------------------------------------------------
(* The helpers *)

LEMMA MinOfTwo ==
  ASSUME NEW a \in Int, NEW b \in Int
  PROVE  Min({a, b}) = IF a <= b THEN a ELSE b
<1>1. \E x \in {a, b} : \A y \in {a, b} : x <= y
  <2>1. CASE a <= b
    BY <2>1
  <2>2. CASE ~(a <= b)
    BY <2>2
  <2>3. QED
    BY <2>1, <2>2
<1>2. Min({a, b}) \in {a, b} /\ Min({a, b}) <= a /\ Min({a, b}) <= b
  BY <1>1 DEF Min
<1>3. QED
  BY <1>2

LEMMA MaxOfTwo ==
  ASSUME NEW a \in Int, NEW b \in Int
  PROVE  Max({a, b}) = IF a >= b THEN a ELSE b
<1>1. \E x \in {a, b} : \A y \in {a, b} : x >= y
  <2>1. CASE a >= b
    BY <2>1
  <2>2. CASE ~(a >= b)
    BY <2>2
  <2>3. QED
    BY <2>1, <2>2
<1>2. Max({a, b}) \in {a, b} /\ Max({a, b}) >= a /\ Max({a, b}) >= b
  BY <1>1 DEF Max
<1>3. QED
  BY <1>2

LEMMA DelayNat == \A k \in 1..MaxRetries : Delay(k) \in Nat /\ Delay(k) <= MaxDelay
<1> SUFFICES ASSUME NEW k \in 1..MaxRetries PROVE Delay(k) \in Nat /\ Delay(k) <= MaxDelay
  OBVIOUS
<1>1. BaseDelay \in Nat /\ MaxDelay \in Nat /\ MaxRetries \in Nat
  BY DecoratorAssumption
<1>2. k - 1 \in 0..MaxRetries
  BY <1>1
<1>3. BackoffFactor ^ (k - 1) \in Nat
  BY <1>2, PowersAssumption
<1>4. BaseDelay * BackoffFactor ^ (k - 1) \in Nat
  BY <1>1, <1>3
<1>5. QED
  BY <1>1, <1>4, MinOfTwo DEF Delay

CallsInv ==
  /\ TypeOK
  /\ \A t \in Tasks : pc[t] = "backoff" => attempt[t] > 0
  /\ TriesBounded

-------------------------------------------------------------------------------
(* Calls and attempts *)

CallRecord ==
  [outcome : {"returned", "raised", "cancelled", "exhausted"},
   tries : 1..(MaxRetries + 1), took : Nat]

\* What a step that measures does to the timer and the counter.
LEMMA MeasureKeeps ==
  ASSUME samples \in Seq(Nat), Ascending(samples), invocations = Len(samples),
         \/ NotMeasured
         \/ \E elapsed \in Nat : Measure(elapsed)
  PROVE  samples' \in Seq(Nat) /\ Ascending(samples)' /\ invocations' = Len(samples')
<1>1. CASE NotMeasured
  BY <1>1 DEF NotMeasured, Ascending
<1>2. ASSUME NEW elapsed \in Nat, Measure(elapsed)
      PROVE  samples' \in Seq(Nat) /\ Ascending(samples)' /\ invocations' = Len(samples')
  <2>1. samples' = Insort(samples, elapsed) /\ invocations' = invocations + 1
    BY <1>2 DEF Measure
  <2>2. /\ Insort(samples, elapsed) \in Seq(Nat)
        /\ Len(Insort(samples, elapsed)) = Len(samples) + 1
        /\ Ascending(Insort(samples, elapsed))
    BY InsortSorted
  <2>3. QED
    BY <2>1, <2>2 DEF Ascending
<1>3. QED
  BY <1>1, <1>2

SamplesInv == samples \in Seq(Nat) /\ Ascending(samples) /\ invocations = Len(samples)

Inv == CallsInv /\ SamplesInv

\* How a call ends, and what the registry is told.
LEMMA CallEndsKeeps ==
  ASSUME Inv, NEW t \in Tasks, NEW d \in Nat, NEW tries \in 1..(MaxRetries + 1),
         NEW outcome \in {"returned", "raised", "cancelled", "exhausted"},
         outcome = "exhausted" => tries = MaxRetries + 1,
         CallEnds(t, outcome, tries, d), SamplesInv'
  PROVE  Inv'
<1> DEFINE call == [outcome |-> outcome, tries |-> tries, took |-> spent[t] + d]
<1>1. /\ pc' = [pc EXCEPT ![t] = "idle"] /\ ended' = Append(ended, call)
      /\ UNCHANGED <<stack, attempt, spent>>
  BY DEF CallEnds
<1>2. call \in CallRecord /\ ended \in Seq(CallRecord)
  BY DEF Inv, CallsInv, TypeOK, CallRecord
<1>3. /\ ended' \in Seq(CallRecord) /\ Len(ended') = Len(ended) + 1
      /\ \A i \in 1..Len(ended) : ended'[i] = ended[i]
      /\ ended'[Len(ended) + 1] = call
      /\ DOMAIN ended' = 1..(Len(ended) + 1) /\ DOMAIN ended = 1..Len(ended)
      /\ Len(ended) \in Nat
  BY <1>1, <1>2, AppendProperties
<1>4. TypeOK'
  BY <1>1, <1>3 DEF Inv, CallsInv, TypeOK, SamplesInv, CallRecord
<1>5. TriesBounded'
  <2> SUFFICES ASSUME NEW i \in DOMAIN ended'
               PROVE  /\ ended'[i].tries <= MaxRetries + 1
                      /\ ended'[i].outcome = "exhausted" => ended'[i].tries = MaxRetries + 1
    BY DEF TriesBounded
  <2>1. CASE i = Len(ended) + 1
    BY <1>3, <2>1, DecoratorAssumption
  <2>2. CASE i \in 1..Len(ended)
    BY <1>3, <2>2 DEF Inv, CallsInv, TriesBounded
  <2>3. QED
    BY <1>3, <2>1, <2>2
<1>6. \A u \in Tasks : pc'[u] = "backoff" => attempt'[u] > 0
  BY <1>1 DEF Inv, CallsInv, TypeOK
<1>7. QED
  BY <1>4, <1>5, <1>6 DEF Inv, CallsInv

LEMMA InvInit == Init => Inv
<1> SUFFICES ASSUME Init PROVE Inv
  OBVIOUS
<1>1. MaxRetries \in Nat
  BY DecoratorAssumption
<1>2. samples = <<>> /\ ended = <<>> /\ invocations = 0
  BY DEF Init
<1>3. TypeOK
  BY <1>1, <1>2 DEF Init, TypeOK
<1>4. SamplesInv
  BY <1>2 DEF SamplesInv, Ascending
<1>5. TriesBounded
  BY <1>2 DEF TriesBounded
<1>6. QED
  BY <1>3, <1>4, <1>5 DEF Init, Inv, CallsInv

LEMMA InvStep == Inv /\ [Next]_vars => Inv'
<1> SUFFICES ASSUME Inv, [Next]_vars PROVE Inv'
  OBVIOUS
<1>a. /\ CallsInv /\ SamplesInv /\ TypeOK
      /\ MaxRetries \in Nat /\ Durations \subseteq Nat
  BY DecoratorAssumption DEF Inv, CallsInv
<1>1. ASSUME NEW t \in Tasks, Call(t) PROVE Inv'
  BY <1>a, <1>1 DEF Call, Inv, CallsInv, SamplesInv, TypeOK, TriesBounded, Ascending
<1>2. ASSUME NEW t \in Tasks, AttemptEnds(t) PROVE Inv'
  <2>1. PICK outcome \in {"returned", "raised", "cancelled"}, d \in Durations :
          MeasureEnd(t, outcome, d) /\ CallEnds(t, outcome, attempt[t] + 1, d)
    BY <1>2 DEF AttemptEnds
  <2>2. d \in Nat /\ spent[t] + d \in Nat /\ attempt[t] + 1 \in 1..(MaxRetries + 1)
    BY <1>a DEF TypeOK
  <2>3. SamplesInv'
    BY <1>a, <2>1, <2>2, MeasureKeeps DEF SamplesInv, MeasureEnd
  <2>4. QED
    BY <2>1, <2>2, <2>3, CallEndsKeeps
<1>3. ASSUME NEW t \in Tasks, AttemptsExhausted(t) PROVE Inv'
  <2>1. PICK d \in Durations :
          MeasureEnd(t, "exhausted", d) /\ CallEnds(t, "exhausted", attempt[t] + 1, d)
    BY <1>3 DEF AttemptsExhausted
  <2>2. /\ d \in Nat /\ spent[t] + d \in Nat /\ attempt[t] + 1 \in 1..(MaxRetries + 1)
        /\ attempt[t] + 1 = MaxRetries + 1
    BY <1>a, <1>3 DEF TypeOK, AttemptsExhausted, GivesUp
  <2>3. SamplesInv'
    BY <1>a, <2>1, <2>2, MeasureKeeps DEF SamplesInv, MeasureEnd
  <2>4. QED
    BY <2>1, <2>2, <2>3, CallEndsKeeps
<1>4. ASSUME NEW t \in Tasks, AttemptFails(t) PROVE Inv'
  <2>1. PICK d \in Durations :
          /\ IF stack = "retry_outside" THEN Measure(d) ELSE NotMeasured
          /\ spent' = [spent EXCEPT ![t] = @ + d]
    BY <1>4 DEF AttemptFails
  <2>2. SamplesInv'
    BY <1>a, <2>1, MeasureKeeps DEF SamplesInv
  <2>3. /\ attempt' = [attempt EXCEPT ![t] = @ + 1]
        /\ pc' = [pc EXCEPT ![t] = "backoff"]
        /\ UNCHANGED <<stack, ended>>
        /\ attempt[t] + 1 \in 0..MaxRetries /\ attempt[t] + 1 > 0
    BY <1>a, <1>4 DEF AttemptFails, GivesUp, TypeOK
  <2>4. spent' \in [Tasks -> Nat]
    BY <1>a, <2>1 DEF TypeOK
  <2>5. TypeOK'
    <3>1. /\ stack' \in Stacks /\ spent' \in [Tasks -> Nat]
          /\ ended' \in Seq([outcome : {"returned", "raised", "cancelled", "exhausted"},
                             tries : 1..(MaxRetries + 1), took : Nat])
      BY <1>a, <2>3, <2>4 DEF TypeOK
    <3>2. samples' \in Seq(Nat) /\ invocations' \in Nat
      BY <2>2 DEF SamplesInv
    <3>3. pc' \in [Tasks -> {"idle", "attempt", "backoff"}]
      BY <1>a, <2>3 DEF TypeOK
    <3>4. attempt' \in [Tasks -> 0..MaxRetries]
      BY <1>a, <2>3 DEF TypeOK
    <3>5. QED
      BY <3>1, <3>2, <3>3, <3>4 DEF TypeOK
  <2>6. QED
    BY <1>a, <2>2, <2>3, <2>5 DEF Inv, CallsInv, TriesBounded, TypeOK
<1>5. ASSUME NEW t \in Tasks, BackoffEnds(t) PROVE Inv'
  <2>1. attempt[t] \in 1..MaxRetries
    BY <1>a, <1>5 DEF BackoffEnds, CallsInv, TypeOK
  <2>2. Delay(attempt[t]) \in Nat
    BY <2>1, DelayNat
  <2>3. QED
    BY <1>a, <1>5, <2>2
       DEF BackoffEnds, Inv, CallsInv, SamplesInv, TypeOK, TriesBounded, Ascending
<1>6. ASSUME NEW t \in Tasks, BackoffCancelled(t) PROVE Inv'
  <2>1. /\ IF stack = "retry_outside" THEN NotMeasured ELSE Measure(spent[t])
        /\ CallEnds(t, "cancelled", attempt[t], 0)
    BY <1>6 DEF BackoffCancelled
  <2>2. spent[t] \in Nat /\ attempt[t] \in 1..(MaxRetries + 1)
    BY <1>a, <1>6 DEF BackoffCancelled, CallsInv, TypeOK
  <2>3. SamplesInv'
    BY <1>a, <2>1, <2>2, MeasureKeeps DEF SamplesInv
  <2>4. QED
    BY <2>1, <2>2, <2>3, CallEndsKeeps
<1>7. CASE UNCHANGED vars
  BY <1>7 DEF vars, Inv, CallsInv, SamplesInv, TypeOK, TriesBounded, Ascending
<1>8. QED
  BY <1>1, <1>2, <1>3, <1>4, <1>5, <1>6, <1>7 DEF Next, Done

LEMMA InvAlways == Spec => []Inv
BY InvInit, InvStep, PTL DEF Spec

\* Every variable of the decorators always holds a value of its kind.
THEOREM TypeCorrect == Spec => []TypeOK
<1>1. Inv => TypeOK
  BY DEF Inv, CallsInv
<1>2. QED
  BY <1>1, InvAlways, PTL

\* However calls of several consumers interleave, no stage is attempted more than
\* MaxRetries + 1 times for a call, nor given up on before.
THEOREM TriesBoundedAlways == Spec => []TriesBounded
<1>1. Inv => TriesBounded
  BY DEF Inv, CallsInv
<1>2. QED
  BY <1>1, InvAlways, PTL

-------------------------------------------------------------------------------
(* Backoffs *)

LEMMA BackoffsAdd ==
  /\ Backoffs[0] = 0
  /\ \A n \in 1..MaxRetries : Backoffs[n] = Backoffs[n - 1] + Delay(n)
<1> DEFINE next == [n \in 1..MaxRetries |-> [x \in Nat |-> x + Delay(n)]]
           P(g) == g = [n \in 0..MaxRetries |-> IF n = 0 THEN 0 ELSE g[n - 1] + Delay(n)]
<1>1. MaxRetries \in Nat /\ \A n \in 1..MaxRetries : Delay(n) \in Nat
  BY DecoratorAssumption, DelayNat
<1>2. next \in [1..MaxRetries -> [Nat -> Nat]]
  BY <1>1
<1>3. PICK g : Recurses(g, MaxRetries, Nat, 0, next)
  <2> HIDE DEF next
  <2>1. QED
    BY <1>1, <1>2, Recursion
<1>4. ASSUME NEW n \in 1..MaxRetries PROVE g[n] = g[n - 1] + Delay(n)
  <2>1. n - 1 \in 0..MaxRetries
    BY <1>1
  <2>2. g[n - 1] \in Nat
    BY <2>1, <1>3 DEF Recurses
  <2>3. QED
    BY <2>2, <1>3 DEF Recurses
<1>5. P(g)
  <2>1. g = [n \in 0..MaxRetries |-> g[n]]
    BY <1>3 DEF Recurses
  <2>2. \A n \in 0..MaxRetries : n = 0 \/ n \in 1..MaxRetries
    BY <1>1
  <2>3. \A n \in 0..MaxRetries : g[n] = IF n = 0 THEN 0 ELSE g[n - 1] + Delay(n)
    BY <1>3, <1>4, <2>2 DEF Recurses
  <2>4. QED
    BY <2>1, <2>3
<1>6. P(Backoffs)
  <2>1. Backoffs = CHOOSE f : P(f)
    BY Zenon DEF Backoffs
  <2> HIDE DEF P
  <2>2. QED
    BY <1>5, <2>1, Zenon
<1>7. \A n \in 0..MaxRetries :
        Backoffs[n] = IF n = 0 THEN 0 ELSE Backoffs[n - 1] + Delay(n)
  BY <1>6, Zenon
<1>8. QED
  BY <1>1, <1>7

LEMMA BackoffsNat == \A n \in 0..MaxRetries : Backoffs[n] \in Nat
<1> DEFINE S == {n \in Nat : n <= MaxRetries => Backoffs[n] \in Nat}
<1>1. MaxRetries \in Nat /\ \A n \in 1..MaxRetries : Delay(n) \in Nat
  BY DecoratorAssumption, DelayNat
<1>2. 0 \in S
  BY BackoffsAdd
<1>3. ASSUME NEW n \in Nat, n \in S PROVE n + 1 \in S
  <2> SUFFICES ASSUME n + 1 <= MaxRetries PROVE Backoffs[n + 1] \in Nat
    OBVIOUS
  <2>1. n + 1 \in 1..MaxRetries /\ Backoffs[n] \in Nat /\ (n + 1) - 1 = n
    BY <1>1, <1>3
  <2>2. Backoffs[n + 1] = Backoffs[n] + Delay(n + 1)
    BY <2>1, BackoffsAdd
  <2>3. QED
    BY <1>1, <2>1, <2>2
<1>4. Nat \subseteq S
  <2> HIDE DEF S
  <2>1. QED
    BY <1>2, <1>3, SetInduction
<1>5. QED
  BY <1>1, <1>4

\* A call has been through the backoffs between the attempts it has made.
Waited ==
  /\ \A t \in Tasks : pc[t] = "attempt" => spent[t] >= Backoffs[attempt[t]]
  /\ \A t \in Tasks : pc[t] = "backoff" => spent[t] >= Backoffs[attempt[t] - 1]
  /\ \A i \in DOMAIN ended : ended[i].took >= Backoffs[ended[i].tries - 1]

LEMMA CallEndsFacts ==
  ASSUME Inv, NEW t \in Tasks, NEW d \in Nat, NEW tries \in 1..(MaxRetries + 1),
         NEW outcome \in {"returned", "raised", "cancelled", "exhausted"},
         CallEnds(t, outcome, tries, d)
  PROVE  /\ Len(ended) \in Nat /\ Len(ended') = Len(ended) + 1
         /\ DOMAIN ended = 1..Len(ended) /\ DOMAIN ended' = 1..(Len(ended) + 1)
         /\ \A i \in 1..Len(ended) : ended'[i] = ended[i]
         /\ ended'[Len(ended) + 1].tries = tries
         /\ ended'[Len(ended) + 1].took = spent[t] + d
         /\ pc' = [pc EXCEPT ![t] = "idle"] /\ UNCHANGED <<stack, attempt, spent>>
         /\ spent[t] \in Nat
<1> DEFINE call == [outcome |-> outcome, tries |-> tries, took |-> spent[t] + d]
<1>1. call \in CallRecord /\ ended \in Seq(CallRecord) /\ spent[t] \in Nat
  BY DEF Inv, CallsInv, TypeOK, CallRecord
<1>2. call.tries = tries /\ call.took = spent[t] + d
  OBVIOUS
<1>3. ended' = Append(ended, call)
  BY DEF CallEnds
<1> HIDE DEF call
<1>4. /\ Len(ended) \in Nat /\ Len(ended') = Len(ended) + 1
      /\ DOMAIN ended = 1..Len(ended) /\ DOMAIN ended' = 1..(Len(ended) + 1)
      /\ \A i \in 1..Len(ended) : ended'[i] = ended[i]
      /\ ended'[Len(ended) + 1] = call
  BY <1>1, <1>3, AppendProperties
<1>5. QED
  BY <1>1, <1>2, <1>4 DEF CallEnds

\* How a call ends, in an attempt or in a backoff, and what is measured of it.
Ends(t, tries, d) ==
  /\ \E outcome \in {"returned", "raised", "cancelled", "exhausted"} :
       CallEnds(t, outcome, tries, d)
  /\ \/ /\ pc[t] = "attempt" /\ tries = attempt[t] + 1 /\ d \in Durations
        /\ Measure(IF stack = "retry_outside" THEN d ELSE spent[t] + d)
     \/ /\ pc[t] = "backoff" /\ tries = attempt[t] /\ d = 0
        /\ IF stack = "retry_outside" THEN NotMeasured ELSE Measure(spent[t])

LEMMA StepCases ==
  ASSUME Inv, [Next]_vars
  PROVE  \/ \E t \in Tasks : Call(t) \/ AttemptFails(t) \/ BackoffEnds(t)
         \/ \E t \in Tasks, tries \in 1..(MaxRetries + 1), d \in Nat : Ends(t, tries, d)
         \/ UNCHANGED vars
<1>a. TypeOK /\ MaxRetries \in Nat /\ Durations \subseteq Nat
  BY DecoratorAssumption DEF Inv, CallsInv
<1>1. ASSUME NEW t \in Tasks, AttemptEnds(t) \/ AttemptsExhausted(t)
      PROVE  \E tries \in 1..(MaxRetries + 1), d \in Nat : Ends(t, tries, d)
  <2>1. attempt[t] + 1 \in 1..(MaxRetries + 1)
    BY <1>a DEF TypeOK
  <2>2. PICK outcome \in {"returned", "raised", "cancelled", "exhausted"}, d \in Durations :
          MeasureEnd(t, outcome, d) /\ CallEnds(t, outcome, attempt[t] + 1, d)
    BY <1>1 DEF AttemptEnds, AttemptsExhausted
  <2>3. pc[t] = "attempt"
    BY <1>1 DEF AttemptEnds, AttemptsExhausted
  <2>4. Ends(t, attempt[t] + 1, d)
    BY <2>2, <2>3 DEF Ends, MeasureEnd
  <2>5. QED
    BY <1>a, <2>1, <2>4
<1>2. ASSUME NEW t \in Tasks, BackoffCancelled(t)
      PROVE  \E tries \in 1..(MaxRetries + 1), d \in Nat : Ends(t, tries, d)
  <2>1. attempt[t] \in 1..(MaxRetries + 1)
    BY <1>a, <1>2 DEF BackoffCancelled, Inv, CallsInv, TypeOK
  <2>2. Ends(t, attempt[t], 0)
    BY <1>2 DEF Ends, BackoffCancelled
  <2>3. QED
    BY <2>1, <2>2
<1>3. QED
  BY <1>1, <1>2 DEF Next, Done

LEMMA WaitedStep == Inv /\ Waited /\ [Next]_vars => Waited'
<1> SUFFICES ASSUME Inv, Waited, [Next]_vars PROVE Waited'
  OBVIOUS
<1>a. TypeOK /\ MaxRetries \in Nat /\ Durations \subseteq Nat
  BY DecoratorAssumption DEF Inv, CallsInv
<1>b. \A n \in 0..MaxRetries : Backoffs[n] \in Nat
  BY BackoffsNat
<1>1. ASSUME NEW t \in Tasks, Call(t) PROVE Waited'
  <2>1. /\ pc' = [pc EXCEPT ![t] = "attempt"] /\ attempt' = [attempt EXCEPT ![t] = 0]
        /\ spent' = [spent EXCEPT ![t] = 0] /\ ended' = ended
    BY <1>1 DEF Call
  <2>2. Backoffs[0] = 0
    BY BackoffsAdd
  <2>3. QED
    BY <1>a, <2>1, <2>2 DEF Waited, TypeOK
<1>2. ASSUME NEW t \in Tasks, AttemptFails(t) PROVE Waited'
  <2>1. PICK d \in Durations : spent' = [spent EXCEPT ![t] = @ + d]
    BY <1>2 DEF AttemptFails
  <2>2. /\ pc' = [pc EXCEPT ![t] = "backoff"] /\ attempt' = [attempt EXCEPT ![t] = @ + 1]
        /\ ended' = ended /\ pc[t] = "attempt"
    BY <1>2 DEF AttemptFails
  <2>3. /\ d \in Nat /\ spent[t] \in Nat /\ attempt[t] \in 0..MaxRetries
        /\ spent[t] >= Backoffs[attempt[t]] /\ Backoffs[attempt[t]] \in Nat
    BY <1>a, <1>b, <2>2 DEF Waited, TypeOK
  <2>4. attempt'[t] - 1 = attempt[t] /\ spent'[t] = spent[t] + d
    BY <1>a, <2>1, <2>2, <2>3 DEF TypeOK
  <2>5. spent'[t] >= Backoffs[attempt'[t] - 1]
    BY <2>3, <2>4
  <2>6. \A u \in Tasks : u # t => pc'[u] = pc[u] /\ attempt'[u] = attempt[u] /\ spent'[u] = spent[u]
    BY <1>a, <2>1, <2>2 DEF TypeOK
  <2>7. pc'[t] = "backoff"
    BY <1>a, <2>2 DEF TypeOK
  <2>8. QED
    BY <2>2, <2>5, <2>6, <2>7 DEF Waited
<1>3. ASSUME NEW t \in Tasks, BackoffEnds(t) PROVE Waited'
  <2>1. /\ pc' = [pc EXCEPT ![t] = "attempt"] /\ UNCHANGED <<attempt, ended>>
        /\ spent' = [spent EXCEPT ![t] = @ + Delay(attempt[t])] /\ pc[t] = "backoff"
    BY <1>3 DEF BackoffEnds
  <2>2. attempt[t] \in 1..MaxRetries /\ spent[t] \in Nat
    BY <1>a, <2>1 DEF TypeOK, Inv, CallsInv
  <2>3. attempt[t] - 1 \in 0..MaxRetries
    BY <1>a, <2>2
  <2>4. /\ spent[t] >= Backoffs[attempt[t] - 1] /\ Backoffs[attempt[t] - 1] \in Nat
        /\ Backoffs[attempt[t]] = Backoffs[attempt[t] - 1] + Delay(attempt[t])
        /\ Delay(attempt[t]) \in Nat
    BY <1>b, <2>1, <2>2, <2>3, BackoffsAdd, DelayNat DEF Waited
  <2>5. spent[t] + Delay(attempt[t]) >= Backoffs[attempt[t]]
    BY <2>2, <2>4
  <2>6. \A u \in Tasks : u # t => pc'[u] = pc[u] /\ spent'[u] = spent[u]
    BY <1>a, <2>1 DEF TypeOK
  <2>7. pc'[t] = "attempt" /\ spent'[t] = spent[t] + Delay(attempt[t])
    BY <1>a, <2>1 DEF TypeOK
  <2>8. QED
    BY <2>1, <2>5, <2>6, <2>7 DEF Waited
<1>4. ASSUME NEW t \in Tasks, NEW tries \in 1..(MaxRetries + 1), NEW d \in Nat, Ends(t, tries, d)
      PROVE  Waited'
  <2>1. PICK outcome \in {"returned", "raised", "cancelled", "exhausted"} :
          CallEnds(t, outcome, tries, d)
    BY <1>4 DEF Ends
  <2>2. /\ Len(ended) \in Nat
        /\ DOMAIN ended = 1..Len(ended) /\ DOMAIN ended' = 1..(Len(ended) + 1)
        /\ \A i \in 1..Len(ended) : ended'[i] = ended[i]
        /\ ended'[Len(ended) + 1].tries = tries
        /\ ended'[Len(ended) + 1].took = spent[t] + d
        /\ pc' = [pc EXCEPT ![t] = "idle"] /\ UNCHANGED <<stack, attempt, spent>>
        /\ spent[t] \in Nat
    BY <2>1, CallEndsFacts
  <2>3. spent[t] >= Backoffs[tries - 1] /\ Backoffs[tries - 1] \in Nat
    <3>1. tries - 1 \in 0..MaxRetries
      BY <1>a
    <3>2. CASE pc[t] = "attempt" /\ tries = attempt[t] + 1
      <4>1. tries - 1 = attempt[t]
        BY <1>a, <3>2 DEF TypeOK
      <4>2. QED
        BY <1>b, <3>1, <3>2, <4>1 DEF Waited
    <3>3. CASE pc[t] = "backoff" /\ tries = attempt[t]
      BY <1>b, <3>1, <3>3 DEF Waited
    <3>4. QED
      BY <1>4, <3>2, <3>3 DEF Ends
  <2>4. \A i \in DOMAIN ended' : ended'[i].took >= Backoffs[ended'[i].tries - 1]
    <3>1. ended'[Len(ended) + 1].took >= Backoffs[ended'[Len(ended) + 1].tries - 1]
      BY <2>2, <2>3
    <3>2. \A i \in 1..Len(ended) : ended'[i].took >= Backoffs[ended'[i].tries - 1]
      BY <2>2 DEF Waited
    <3>3. \A i \in DOMAIN ended' : i \in 1..Len(ended) \/ i = Len(ended) + 1
      BY <2>2
    <3>4. QED
      BY <3>1, <3>2, <3>3
  <2>5. \A u \in Tasks : pc'[u] = pc[u] \/ pc'[u] = "idle"
    BY <1>a, <2>2 DEF TypeOK
  <2>6. QED
    BY <2>2, <2>4, <2>5 DEF Waited
<1>5. CASE UNCHANGED vars
  BY <1>5 DEF vars, Waited
<1>6. QED
  BY <1>1, <1>2, <1>3, <1>4, <1>5, StepCases

LEMMA UtmostSteps ==
  ASSUME NEW longest \in Nat
  PROVE  /\ MaxDelay \in Nat
         /\ Utmost(1, longest) = longest
         /\ \A n \in Nat : /\ Utmost(n, longest) \in Int
                           /\ Utmost(n + 1, longest) = Utmost(n, longest) + longest + MaxDelay
<1>1. MaxDelay \in Nat
  BY DecoratorAssumption
<1>2. ASSUME NEW n \in Nat
      PROVE  /\ Utmost(n, longest) \in Int
             /\ Utmost(n + 1, longest) = Utmost(n, longest) + longest + MaxDelay
  <2>1. /\ n * longest \in Int /\ (n + 1) * longest = n * longest + longest
        /\ (n - 1) * MaxDelay \in Int /\ n * MaxDelay = (n - 1) * MaxDelay + MaxDelay
    BY <1>1
  <2>2. (n + 1) - 1 = n
    OBVIOUS
  <2>3. QED
    BY <1>1, <2>1, <2>2 DEF Utmost
<1>3. QED
  BY <1>1, <1>2 DEF Utmost

\* No call has taken longer than its attempts and its capped delays so far.
Capped(longest) ==
  /\ \A t \in Tasks : pc[t] = "attempt" => spent[t] + longest <= Utmost(attempt[t] + 1, longest)
  /\ \A t \in Tasks : pc[t] = "backoff" => spent[t] <= Utmost(attempt[t], longest)
  /\ \A i \in DOMAIN ended : ended[i].took <= Utmost(ended[i].tries, longest)

LEMMA CappedStep ==
  ASSUME NEW longest \in Durations, Longest(longest), Inv, Capped(longest), [Next]_vars
  PROVE  Capped(longest)'
<1>a. TypeOK /\ MaxRetries \in Nat /\ Durations \subseteq Nat /\ longest \in Nat
  BY DecoratorAssumption DEF Inv, CallsInv
<1>b. /\ MaxDelay \in Nat
      /\ Utmost(1, longest) = longest
      /\ \A n \in Nat : /\ Utmost(n, longest) \in Int
                        /\ Utmost(n + 1, longest) = Utmost(n, longest) + longest + MaxDelay
  BY <1>a, UtmostSteps
<1>c. \A d \in Durations : d \in Nat /\ d <= longest
  BY <1>a DEF Longest
<1>1. ASSUME NEW t \in Tasks, Call(t) PROVE Capped(longest)'
  <2>1. /\ pc' = [pc EXCEPT ![t] = "attempt"] /\ attempt' = [attempt EXCEPT ![t] = 0]
        /\ spent' = [spent EXCEPT ![t] = 0] /\ ended' = ended
    BY <1>1 DEF Call
  <2>2. 0 + longest <= Utmost(0 + 1, longest)
    BY <1>a, <1>b
  <2>3. QED
    BY <1>a, <2>1, <2>2 DEF Capped, TypeOK
<1>2. ASSUME NEW t \in Tasks, AttemptFails(t) PROVE Capped(longest)'
  <2>1. PICK d \in Durations : spent' = [spent EXCEPT ![t] = @ + d]
    BY <1>2 DEF AttemptFails
  <2>2. /\ pc' = [pc EXCEPT ![t] = "backoff"] /\ attempt' = [attempt EXCEPT ![t] = @ + 1]
        /\ ended' = ended /\ pc[t] = "attempt"
    BY <1>2 DEF AttemptFails
  <2>3. /\ d \in Nat /\ d <= longest /\ spent[t] \in Nat /\ attempt[t] \in 0..MaxRetries
        /\ spent[t] + longest <= Utmost(attempt[t] + 1, longest)
    BY <1>a, <1>c, <2>2 DEF Capped, TypeOK
  <2>4. Utmost(attempt[t] + 1, longest) \in Int
    BY <1>a, <1>b, <2>3
  <2>5. spent[t] + d <= Utmost(attempt[t] + 1, longest)
    BY <1>a, <2>3, <2>4
  <2>6. attempt'[t] = attempt[t] + 1 /\ spent'[t] = spent[t] + d /\ pc'[t] = "backoff"
    BY <1>a, <2>1, <2>2, <2>3 DEF TypeOK
  <2>7. \A u \in Tasks : u # t => pc'[u] = pc[u] /\ attempt'[u] = attempt[u] /\ spent'[u] = spent[u]
    BY <1>a, <2>1, <2>2 DEF TypeOK
  <2>8. QED
    BY <2>2, <2>5, <2>6, <2>7 DEF Capped
<1>3. ASSUME NEW t \in Tasks, BackoffEnds(t) PROVE Capped(longest)'
  <2>1. /\ pc' = [pc EXCEPT ![t] = "attempt"] /\ UNCHANGED <<attempt, ended>>
        /\ spent' = [spent EXCEPT ![t] = @ + Delay(attempt[t])] /\ pc[t] = "backoff"
    BY <1>3 DEF BackoffEnds
  <2>2. attempt[t] \in 1..MaxRetries /\ spent[t] \in Nat
    BY <1>a, <2>1 DEF TypeOK, Inv, CallsInv
  <2>3. Delay(attempt[t]) \in Nat /\ Delay(attempt[t]) <= MaxDelay
    BY <2>2, DelayNat
  <2>4. /\ spent[t] <= Utmost(attempt[t], longest) /\ Utmost(attempt[t], longest) \in Int
        /\ Utmost(attempt[t] + 1, longest) = Utmost(attempt[t], longest) + longest + MaxDelay
    BY <1>a, <1>b, <2>1, <2>2 DEF Capped
  <2>5. spent[t] + Delay(attempt[t]) + longest <= Utmost(attempt[t] + 1, longest)
    BY <1>a, <1>b, <2>2, <2>3, <2>4
  <2>6. \A u \in Tasks : u # t => pc'[u] = pc[u] /\ spent'[u] = spent[u]
    BY <1>a, <2>1 DEF TypeOK
  <2>7. pc'[t] = "attempt" /\ spent'[t] = spent[t] + Delay(attempt[t])
    BY <1>a, <2>1 DEF TypeOK
  <2>8. QED
    BY <2>1, <2>5, <2>6, <2>7 DEF Capped
<1>4. ASSUME NEW t \in Tasks, NEW tries \in 1..(MaxRetries + 1), NEW d \in Nat, Ends(t, tries, d)
      PROVE  Capped(longest)'
  <2>1. PICK outcome \in {"returned", "raised", "cancelled", "exhausted"} :
          CallEnds(t, outcome, tries, d)
    BY <1>4 DEF Ends
  <2>2. /\ Len(ended) \in Nat
        /\ DOMAIN ended = 1..Len(ended) /\ DOMAIN ended' = 1..(Len(ended) + 1)
        /\ \A i \in 1..Len(ended) : ended'[i] = ended[i]
        /\ ended'[Len(ended) + 1].tries = tries
        /\ ended'[Len(ended) + 1].took = spent[t] + d
        /\ pc' = [pc EXCEPT ![t] = "idle"] /\ UNCHANGED <<stack, attempt, spent>>
        /\ spent[t] \in Nat
    BY <2>1, CallEndsFacts
  <2>3. spent[t] + d <= Utmost(tries, longest)
    <3>1. Utmost(tries, longest) \in Int
      BY <1>a, <1>b
    <3>2. CASE pc[t] = "attempt" /\ tries = attempt[t] + 1 /\ d \in Durations
      <4>1. spent[t] + longest <= Utmost(tries, longest)
        BY <3>2 DEF Capped
      <4>2. QED
        BY <1>a, <1>c, <2>2, <3>1, <3>2, <4>1
    <3>3. CASE pc[t] = "backoff" /\ tries = attempt[t] /\ d = 0
      <4>1. spent[t] <= Utmost(tries, longest)
        BY <3>3 DEF Capped
      <4>2. QED
        BY <2>2, <3>1, <3>3, <4>1
    <3>4. QED
      BY <1>4, <3>2, <3>3 DEF Ends
  <2>4. \A i \in DOMAIN ended' : ended'[i].took <= Utmost(ended'[i].tries, longest)
    <3>1. ended'[Len(ended) + 1].took <= Utmost(ended'[Len(ended) + 1].tries, longest)
      BY <2>2, <2>3
    <3>2. \A i \in 1..Len(ended) : ended'[i].took <= Utmost(ended'[i].tries, longest)
      BY <2>2 DEF Capped
    <3>3. \A i \in DOMAIN ended' : i \in 1..Len(ended) \/ i = Len(ended) + 1
      BY <2>2
    <3>4. QED
      BY <3>1, <3>2, <3>3
  <2>5. \A u \in Tasks : pc'[u] = pc[u] \/ pc'[u] = "idle"
    BY <1>a, <2>2 DEF TypeOK
  <2>6. QED
    BY <2>2, <2>4, <2>5 DEF Capped
<1>5. CASE UNCHANGED vars
  BY <1>5 DEF vars, Capped
<1>6. QED
  BY <1>1, <1>2, <1>3, <1>4, <1>5, StepCases

CappedAll == \A longest \in Durations : Longest(longest) => Capped(longest)

\* A call that makes n attempts, however it ends, has been through the n - 1 delays
\* between them and took no longer than its attempts and n - 1 times MaxDelay, and
\* attempts are bounded (RetryDecorator.process).
THEOREM RetriesRightAlways == Spec => []RetriesRight
<1>1. Init => Waited /\ CappedAll
  BY DEF Init, Waited, CappedAll, Capped
<1>2. Inv /\ CappedAll /\ [Next]_vars => CappedAll'
  BY CappedStep DEF CappedAll, Longest
<1>3. Inv /\ Waited /\ CappedAll => RetriesRight
  BY DEF Inv, CallsInv, Waited, CappedAll, Capped, RetriesRight, BackoffsWaited, DelaysCapped
<1>4. QED
  BY <1>1, <1>2, <1>3, InvAlways, WaitedStep, PTL DEF Spec

-------------------------------------------------------------------------------
(* Metrics *)

\* The timer's samples are the durations of the calls that ended, each at its place.
PlacedAt(place) ==
  /\ place \in Bijection(DOMAIN ended, DOMAIN samples)
  /\ \A i \in DOMAIN ended : samples[place[i]] = ended[i].took

\* Every attempt has its sample, in calls that ended and in calls that go on.
AttemptsCounted ==
  /\ IsFiniteSet(AttemptsOfEnded) /\ IsFiniteSet(AttemptsUnderWay)
  /\ stack = "retry_outside" =>
       Len(samples) = Cardinality(AttemptsOfEnded) + Cardinality(AttemptsUnderWay)

Counted == (stack = "timing_outside" => \E place : PlacedAt(place)) /\ AttemptsCounted

\* A duration more, and a call more: the samples behind it move up by one.
LEMMA PlacedMore ==
  ASSUME NEW n \in Nat, NEW c \in 0..n, NEW p \in Bijection(1..n, 1..n)
  PROVE  LET q == [i \in 1..(n + 1) |-> IF i = n + 1 THEN c + 1
                                         ELSE IF p[i] <= c THEN p[i] ELSE p[i] + 1]
         IN  q \in Bijection(1..(n + 1), 1..(n + 1))
<1> DEFINE q == [i \in 1..(n + 1) |-> IF i = n + 1 THEN c + 1
                                       ELSE IF p[i] <= c THEN p[i] ELSE p[i] + 1]
<1>1. /\ \A i \in 1..n : p[i] \in 1..n
      /\ \A i, j \in 1..n : p[i] = p[j] => i = j
      /\ \A k \in 1..n : \E i \in 1..n : p[i] = k
  BY DEF Bijection, Injection, Surjection, IsInjective
<1>2. /\ q[n + 1] = c + 1 /\ n + 1 \in 1..(n + 1)
      /\ \A i \in 1..n : q[i] = (IF p[i] <= c THEN p[i] ELSE p[i] + 1) /\ i \in 1..(n + 1)
      /\ \A i \in 1..(n + 1) : i \in 1..n \/ i = n + 1
  OBVIOUS
<1>3. q = [i \in 1..(n + 1) |-> q[i]]
  OBVIOUS
<1> HIDE DEF q
<1>4. \A i \in 1..(n + 1) : q[i] \in 1..(n + 1)
  <2>1. ASSUME NEW i \in 1..n PROVE q[i] \in 1..(n + 1)
    <3>1. p[i] \in 1..(n + 1) /\ p[i] + 1 \in 1..(n + 1)
      <4>1. \A k \in 1..n : k \in 1..(n + 1) /\ k + 1 \in 1..(n + 1)
        OBVIOUS
      <4>2. QED
        BY <1>1, <4>1
    <3>2. QED
      BY <1>2, <3>1
  <2>2. q[n + 1] \in 1..(n + 1)
    BY <1>2
  <2>3. QED
    BY <1>2, <2>1, <2>2
<1>5. ASSUME NEW i \in 1..(n + 1), NEW j \in 1..(n + 1), q[i] = q[j] PROVE i = j
  <2>1. CASE i \in 1..n /\ j \in 1..n
    <3>1. p[i] \in 1..n /\ p[j] \in 1..n
      BY <1>1, <2>1
    <3>2. p[i] = p[j]
      BY <1>2, <1>5, <2>1, <3>1
    <3>3. QED
      BY <1>1, <2>1, <3>2
  <2>2. \A k \in 1..n : q[k] # c + 1
    <3>1. \A k \in 1..n : p[k] \in Int
      BY <1>1
    <3>2. QED
      BY <1>2, <3>1
  <2>3. QED
    BY <1>2, <1>5, <2>1, <2>2
<1>6. ASSUME NEW k \in 1..(n + 1) PROVE \E i \in 1..(n + 1) : q[i] = k
  <2>1. CASE k <= c
    <3>1. k \in 1..n
      BY <2>1
    <3>2. PICK i \in 1..n : p[i] = k
      BY <1>1, <3>1
    <3>3. QED
      BY <1>2, <2>1, <3>2
  <2>2. CASE k = c + 1
    BY <1>2, <2>2
  <2>3. CASE k > c + 1
    <3>1. k - 1 \in 1..n /\ ~(k - 1 <= c) /\ (k - 1) + 1 = k
      BY <2>3
    <3>2. PICK i \in 1..n : p[i] = k - 1
      BY <1>1, <3>1
    <3>3. q[i] = k
      BY <1>2, <3>1, <3>2
    <3>4. QED
      BY <1>2, <3>3
  <2>4. QED
    BY <2>1, <2>2, <2>3
<1>7. QED
  BY <1>3, <1>4, <1>5, <1>6 DEF q, Bijection, Injection, Surjection, IsInjective

LEMMA PlacedStep ==
  ASSUME Inv, NEW t \in Tasks, NEW tries \in 1..(MaxRetries + 1), NEW d \in Nat,
         NEW outcome \in {"returned", "raised", "cancelled", "exhausted"},
         CallEnds(t, outcome, tries, d), Measure(spent[t] + d),
         NEW place, PlacedAt(place)
  PROVE  \E q : PlacedAt(q)'
<1> DEFINE n == Len(ended)
<1>1. /\ n \in Nat /\ DOMAIN ended = 1..n /\ DOMAIN ended' = 1..(n + 1)
      /\ \A i \in 1..n : ended'[i] = ended[i]
      /\ ended'[n + 1].took = spent[t] + d /\ spent[t] \in Nat
  BY CallEndsFacts
<1>2. /\ samples \in Seq(Nat) /\ Ascending(samples) /\ spent[t] + d \in Nat
      /\ samples' = Insort(samples, spent[t] + d)
  BY <1>1 DEF Inv, SamplesInv, Measure
<1> DEFINE took == spent[t] + d
           r == Insort(samples, took)
           AtPlace(c) == \A k \in 1..(Len(samples) + 1) :
                           r[k] = IF k <= c THEN samples[k]
                                  ELSE IF k = c + 1 THEN took ELSE samples[k - 1]
<1>i. /\ r \in Seq(Nat) /\ Len(r) = Len(samples) + 1
      /\ \E c \in 0..Len(samples) : AtPlace(c)
  <2>1. took \in Nat
    BY <1>2
  <2> HIDE DEF took
  <2>2. QED
    BY <1>2, <2>1, InsortSorted, Zenon
<1>3. /\ DOMAIN samples = 1..Len(samples) /\ Len(samples) \in Nat
      /\ samples' \in Seq(Nat) /\ Len(samples') = Len(samples) + 1
  <2> HIDE DEF r
  <2>1. samples' = r
    BY <1>2 DEF r
  <2>2. QED
    BY <1>2, <1>i, <2>1
<1>4. PICK c \in 0..Len(samples) :
        \A k \in 1..(Len(samples) + 1) :
          samples'[k] = IF k <= c THEN samples[k]
                        ELSE IF k = c + 1 THEN spent[t] + d ELSE samples[k - 1]
  BY <1>2, <1>i
<1> HIDE DEF r, took
<1>5. place \in Bijection(1..n, 1..Len(samples))
  BY <1>1, <1>3 DEF PlacedAt
<1>6. Len(samples) = n
  <2> HIDE DEF n
  <2>1. ExistsBijection(1..n, 1..Len(samples))
    BY <1>5 DEF ExistsBijection
  <2>2. Cardinality(1..Len(samples)) = n
    BY <1>1, <2>1, FS_CountingElements
  <2>3. QED
    BY <1>3, <2>2, UpToCounts
<1> DEFINE q == [i \in 1..(n + 1) |-> IF i = n + 1 THEN c + 1
                                       ELSE IF place[i] <= c THEN place[i] ELSE place[i] + 1]
<1> HIDE DEF n
<1>7. q \in Bijection(1..(n + 1), 1..(n + 1))
  <2>1. n \in Nat /\ c \in 0..n /\ place \in Bijection(1..n, 1..n)
    BY <1>1, <1>5, <1>6
  <2>2. QED
    BY <2>1, PlacedMore, Zenon
<1>8. DOMAIN samples' = 1..(n + 1)
  BY <1>3, <1>6
<1>9. ASSUME NEW i \in 1..(n + 1) PROVE samples'[q[i]] = ended'[i].took
  <2>1. CASE i = n + 1
    <3>1. c + 1 \in 1..(n + 1) /\ q[i] = c + 1 /\ ~(c + 1 <= c)
      BY <1>1, <1>6, <2>1
    <3>2. QED
      BY <1>1, <1>4, <1>6, <2>1, <3>1
  <2>2. CASE i \in 1..n
    <3>1. /\ place[i] \in 1..n /\ samples[place[i]] = ended'[i].took
          /\ q[i] = IF place[i] <= c THEN place[i] ELSE place[i] + 1
      <4>1. place[i] \in 1..n
        BY <1>5, <1>6, <2>2 DEF Bijection, Injection
      <4>2. samples[place[i]] = ended'[i].took
        BY <1>1, <2>2 DEF PlacedAt
      <4>3. i \in 1..(n + 1) /\ i # n + 1
        BY <1>1, <2>2
      <4>4. q[i] = IF place[i] <= c THEN place[i] ELSE place[i] + 1
        BY <4>3
      <4>5. QED
        BY <4>1, <4>2, <4>4
    <3>2. CASE place[i] <= c
      <4>1. place[i] \in 1..(n + 1)
        BY <1>1, <3>1
      <4>2. QED
        BY <1>4, <1>6, <3>1, <3>2, <4>1
    <3>3. CASE ~(place[i] <= c)
      <4>1. /\ place[i] + 1 \in 1..(n + 1) /\ ~(place[i] + 1 <= c) /\ place[i] + 1 # c + 1
            /\ (place[i] + 1) - 1 = place[i]
        BY <1>1, <1>6, <3>1, <3>3
      <4>2. QED
        BY <1>4, <1>6, <3>1, <3>3, <4>1
    <3>4. QED
      BY <3>2, <3>3
  <2>3. QED
    BY <1>1, <2>1, <2>2
<1>10. QED
  BY <1>1, <1>7, <1>8, <1>9 DEF PlacedAt

\* The pairs of x and 1, ..., m.
LEMMA Row ==
  ASSUME NEW x, NEW m \in Nat
  PROVE  IsFiniteSet({x} \X (1..m)) /\ Cardinality({x} \X (1..m)) = m
<1>1. /\ IsFiniteSet({x}) /\ Cardinality({x}) = 1
      /\ IsFiniteSet(1..m) /\ Cardinality(1..m) = m
  BY FS_Singleton, UpToCounts
<1>2. /\ IsFiniteSet({x} \X (1..m))
      /\ Cardinality({x} \X (1..m)) = Cardinality({x}) * Cardinality(1..m)
  BY <1>1, FS_Product
<1>3. QED
  BY <1>1, <1>2

\* A call that ends takes its attempts along, and the one that ended it.
LEMMA AttemptsMove ==
  ASSUME Inv, IsFiniteSet(AttemptsOfEnded), IsFiniteSet(AttemptsUnderWay),
         NEW t \in Tasks, NEW tries \in 1..(MaxRetries + 1), NEW d \in Nat,
         NEW outcome \in {"returned", "raised", "cancelled", "exhausted"},
         CallEnds(t, outcome, tries, d), pc[t] # "idle"
  PROVE  /\ IsFiniteSet(AttemptsOfEnded)' /\ IsFiniteSet(AttemptsUnderWay)'
         /\ Cardinality(AttemptsOfEnded') = Cardinality(AttemptsOfEnded) + tries
         /\ Cardinality(AttemptsUnderWay') = Cardinality(AttemptsUnderWay) - attempt[t]
<1> DEFINE n == Len(ended)
<1>1. /\ n \in Nat /\ DOMAIN ended = 1..n /\ DOMAIN ended' = 1..(n + 1)
      /\ \A i \in 1..n : ended'[i] = ended[i]
      /\ ended'[n + 1].tries = tries
      /\ pc' = [pc EXCEPT ![t] = "idle"] /\ UNCHANGED <<stack, attempt, spent>>
  BY CallEndsFacts
<1>2. TypeOK /\ MaxRetries \in Nat /\ attempt[t] \in 0..MaxRetries
  BY DecoratorAssumption DEF Inv, CallsInv, TypeOK
<1> HIDE DEF n
<1> DEFINE new == {n + 1} \X (1..tries)
           old == {t} \X (1..attempt[t])
<1>3. AttemptsOfEnded' = AttemptsOfEnded \cup new
  <2>1. AttemptsOfEnded'
          = {a \in (1..(n + 1)) \X (1..(MaxRetries + 1)) : a[2] <= ended'[a[1]].tries}
    BY <1>1 DEF AttemptsOfEnded
  <2>2. AttemptsOfEnded = {a \in (1..n) \X (1..(MaxRetries + 1)) : a[2] <= ended[a[1]].tries}
    BY <1>1 DEF AttemptsOfEnded
  <2>3. \A i, k : <<i, k>> \in AttemptsOfEnded'
                    <=> /\ i \in 1..(n + 1) /\ k \in 1..(MaxRetries + 1)
                        /\ k <= ended'[i].tries
    BY <2>1
  <2>4. \A i, k : <<i, k>> \in AttemptsOfEnded
                    <=> i \in 1..n /\ k \in 1..(MaxRetries + 1) /\ k <= ended[i].tries
    BY <2>2
  <2>5. \A i, k : <<i, k>> \in new <=> i = n + 1 /\ k \in 1..tries
    OBVIOUS
  <2>6. \A k : k \in 1..(MaxRetries + 1) /\ k <= tries <=> k \in 1..tries
    BY <1>2
  <2>7. \A i : i \in 1..(n + 1) <=> i \in 1..n \/ i = n + 1
    BY <1>1
  <2>8. \A i, k : <<i, k>> \in AttemptsOfEnded'
                    <=> <<i, k>> \in AttemptsOfEnded \/ <<i, k>> \in new
    <3> SUFFICES ASSUME NEW i, NEW k
                 PROVE  <<i, k>> \in AttemptsOfEnded'
                          <=> <<i, k>> \in AttemptsOfEnded \/ <<i, k>> \in new
      OBVIOUS
    <3>1. CASE i \in 1..n
      <4>1. i # n + 1
        BY <1>1, <3>1
      <4>2. QED
        BY <1>1, <2>3, <2>4, <2>5, <2>7, <3>1, <4>1
    <3>2. CASE i = n + 1
      <4>1. i \notin 1..n
        BY <1>1, <3>2
      <4>2. QED
        BY <1>1, <2>3, <2>4, <2>5, <2>6, <2>7, <3>2, <4>1
    <3>3. CASE i \notin 1..(n + 1)
      BY <2>3, <2>4, <2>5, <2>7, <3>3
    <3>4. QED
      BY <2>7, <3>1, <3>2, <3>3
  <2>9. /\ \A a \in AttemptsOfEnded' : a = <<a[1], a[2]>>
        /\ \A a \in AttemptsOfEnded \cup new : a = <<a[1], a[2]>>
    BY <2>1, <2>2
  <2>10. QED
    BY <2>8, <2>9
<1>4. AttemptsOfEnded \cap new = {}
  <2>1. n + 1 \notin 1..n
    BY <1>1
  <2>2. QED
    BY <1>1, <2>1 DEF AttemptsOfEnded
<1>5. AttemptsUnderWay' = AttemptsUnderWay \ old
  <2>1. AttemptsUnderWay'
          = {a \in Tasks \X (1..MaxRetries) : pc'[a[1]] # "idle" /\ a[2] <= attempt[a[1]]}
    BY <1>1 DEF AttemptsUnderWay
  <2>2. \A u \in Tasks : pc'[u] # "idle" <=> pc[u] # "idle" /\ u # t
    BY <1>1, <1>2 DEF TypeOK
  <2>3. \A k \in 1..MaxRetries : k <= attempt[t] => k \in 1..attempt[t]
    BY <1>2
  <2>4. QED
    BY <2>1, <2>2, <2>3 DEF AttemptsUnderWay
<1>6. AttemptsUnderWay \cap old = old
  <2>1. 1..attempt[t] \subseteq 1..MaxRetries
    BY <1>2
  <2>2. \A k \in 1..attempt[t] : k <= attempt[t]
    BY <1>2
  <2>3. QED
    BY <2>1, <2>2 DEF AttemptsUnderWay
<1> HIDE DEF new, old
<1>7. /\ IsFiniteSet(new) /\ Cardinality(new) = tries
      /\ IsFiniteSet(old) /\ Cardinality(old) = attempt[t]
  <2>1. tries \in Nat /\ attempt[t] \in Nat
    BY <1>2
  <2>2. QED
    BY <2>1, Row DEF new, old
<1>8. /\ Cardinality(AttemptsOfEnded) \in Nat /\ Cardinality(AttemptsUnderWay) \in Nat
      /\ Cardinality({}) = 0
  BY FS_CardinalityType, FS_EmptySet
<1>9. /\ IsFiniteSet(AttemptsOfEnded \cup new)
      /\ Cardinality(AttemptsOfEnded \cup new) = Cardinality(AttemptsOfEnded) + tries
  <2>1. /\ IsFiniteSet(AttemptsOfEnded \cup new)
        /\ Cardinality(AttemptsOfEnded \cup new)
             = Cardinality(AttemptsOfEnded) + Cardinality(new)
                 - Cardinality(AttemptsOfEnded \cap new)
    BY <1>7, FS_Union
  <2>2. Cardinality(AttemptsOfEnded) + tries - 0 = Cardinality(AttemptsOfEnded) + tries
    BY <1>8
  <2>3. QED
    BY <1>4, <1>7, <1>8, <2>1, <2>2
<1>10. /\ IsFiniteSet(AttemptsUnderWay \ old)
       /\ Cardinality(AttemptsUnderWay \ old) = Cardinality(AttemptsUnderWay) - attempt[t]
  <2>1. /\ IsFiniteSet(AttemptsUnderWay \ old)
        /\ Cardinality(AttemptsUnderWay \ old)
             = Cardinality(AttemptsUnderWay) - Cardinality(AttemptsUnderWay \cap old)
    BY FS_Difference
  <2>2. QED
    BY <1>6, <1>7, <2>1
<1>11. QED
  BY <1>3, <1>5, <1>9, <1>10

LEMMA CountedStep == Inv /\ Counted /\ [Next]_vars => Counted'
<1> SUFFICES ASSUME Inv, Counted, [Next]_vars PROVE Counted'
  OBVIOUS
<1>a. TypeOK /\ MaxRetries \in Nat /\ Durations \subseteq Nat /\ samples \in Seq(Nat)
      /\ Len(samples) \in Nat /\ Ascending(samples)
  BY DecoratorAssumption DEF Inv, CallsInv, SamplesInv
<1>b. Cardinality(AttemptsOfEnded) \in Nat /\ Cardinality(AttemptsUnderWay) \in Nat
  BY FS_CardinalityType DEF Counted, AttemptsCounted
<1>1. ASSUME UNCHANGED <<stack, samples, ended>>, AttemptsUnderWay' = AttemptsUnderWay
      PROVE  Counted'
  <2>1. AttemptsOfEnded' = AttemptsOfEnded
    BY <1>1 DEF AttemptsOfEnded
  <2>2. AttemptsCounted'
    BY <1>1, <2>1 DEF Counted, AttemptsCounted
  <2>3. \A place : PlacedAt(place) => PlacedAt(place)'
    BY <1>1 DEF PlacedAt
  <2>4. QED
    BY <1>1, <2>2, <2>3 DEF Counted
<1>2. ASSUME NEW t \in Tasks, Call(t) PROVE Counted'
  <2>1. /\ pc[t] = "idle" /\ pc' = [pc EXCEPT ![t] = "attempt"]
        /\ attempt' = [attempt EXCEPT ![t] = 0] /\ UNCHANGED <<stack, samples, ended>>
    BY <1>2 DEF Call
  <2>2. \A k \in 1..MaxRetries : ~(k <= 0)
    OBVIOUS
  <2>3. \A u \in Tasks, k \in 1..MaxRetries :
          pc'[u] # "idle" /\ k <= attempt'[u] <=> pc[u] # "idle" /\ k <= attempt[u]
    BY <1>a, <2>1, <2>2 DEF TypeOK
  <2>4. QED
    BY <1>1, <2>1, <2>3 DEF AttemptsUnderWay
<1>3. ASSUME NEW t \in Tasks, BackoffEnds(t) PROVE Counted'
  <2>1. \A u \in Tasks : pc'[u] # "idle" <=> pc[u] # "idle"
    BY <1>a, <1>3 DEF BackoffEnds, TypeOK
  <2>2. UNCHANGED <<stack, samples, ended, attempt>>
    BY <1>3 DEF BackoffEnds
  <2>3. QED
    BY <1>1, <2>1, <2>2 DEF AttemptsUnderWay
<1>4. ASSUME NEW t \in Tasks, AttemptFails(t) PROVE Counted'
  <2> DEFINE x == <<t, attempt[t] + 1>>
  <2>1. /\ pc[t] = "attempt" /\ pc' = [pc EXCEPT ![t] = "backoff"]
        /\ attempt' = [attempt EXCEPT ![t] = @ + 1] /\ UNCHANGED <<stack, ended>>
        /\ \E d \in Durations : IF stack = "retry_outside" THEN Measure(d) ELSE NotMeasured
        /\ attempt[t] + 1 \in 1..MaxRetries /\ attempt[t] \in 0..MaxRetries
    BY <1>a, <1>4 DEF AttemptFails, GivesUp, TypeOK
  <2>2. AttemptsUnderWay' = AttemptsUnderWay \cup {x}
    <3>1. \A u \in Tasks : u # t => pc'[u] = pc[u] /\ attempt'[u] = attempt[u]
      BY <1>a, <2>1 DEF TypeOK
    <3>2. pc'[t] = "backoff" /\ attempt'[t] = attempt[t] + 1
      BY <1>a, <2>1 DEF TypeOK
    <3>3. \A k \in 1..MaxRetries :
            k <= attempt[t] + 1 <=> k <= attempt[t] \/ k = attempt[t] + 1
      BY <2>1
    <3>4. \A u \in Tasks, k \in 1..MaxRetries :
            pc'[u] # "idle" /\ k <= attempt'[u]
              <=> (pc[u] # "idle" /\ k <= attempt[u]) \/ <<u, k>> = x
      BY <2>1, <3>1, <3>2, <3>3
    <3>5. x \in Tasks \X (1..MaxRetries)
      BY <2>1
    <3> HIDE DEF x
    <3>6. \A u \in Tasks, k \in 1..MaxRetries :
            <<u, k>> \in AttemptsUnderWay' <=> <<u, k>> \in AttemptsUnderWay \/ <<u, k>> = x
      BY <3>4 DEF AttemptsUnderWay
    <3>7. /\ AttemptsUnderWay' \subseteq Tasks \X (1..MaxRetries)
          /\ AttemptsUnderWay \cup {x} \subseteq Tasks \X (1..MaxRetries)
      BY <3>5 DEF AttemptsUnderWay
    <3>8. QED
      BY <3>6, <3>7
  <2>3. x \notin AttemptsUnderWay
    BY <2>1 DEF AttemptsUnderWay
  <2> HIDE DEF x
  <2>4. /\ IsFiniteSet(AttemptsUnderWay \cup {x})
        /\ Cardinality(AttemptsUnderWay \cup {x}) = Cardinality(AttemptsUnderWay) + 1
    BY <2>3, FS_AddElement DEF Counted, AttemptsCounted
  <2>5. AttemptsOfEnded' = AttemptsOfEnded
    BY <2>1 DEF AttemptsOfEnded
  <2>6. CASE stack = "retry_outside"
    <3>1. PICK d \in Nat : samples' = Insort(samples, d)
      BY <1>a, <2>1, <2>6 DEF Measure
    <3>2. Len(samples') = Len(samples) + 1
      BY <1>a, <3>1, InsortSorted
    <3>3. Len(samples') = Cardinality(AttemptsOfEnded') + Cardinality(AttemptsUnderWay')
      BY <1>a, <1>b, <2>2, <2>4, <2>5, <2>6, <3>2 DEF Counted, AttemptsCounted
    <3>4. QED
      BY <2>1, <2>2, <2>4, <2>5, <2>6, <3>3 DEF Counted, AttemptsCounted
  <2>7. CASE stack # "retry_outside"
    <3>1. samples' = samples
      BY <2>1, <2>7 DEF NotMeasured
    <3>2. \A place : PlacedAt(place) => PlacedAt(place)'
      BY <2>1, <3>1 DEF PlacedAt
    <3>3. AttemptsCounted'
      BY <2>1, <2>2, <2>4, <2>5, <2>7 DEF Counted, AttemptsCounted
    <3>4. QED
      BY <2>1, <3>2, <3>3 DEF Counted
  <2>8. QED
    BY <2>6, <2>7
<1>5. ASSUME NEW t \in Tasks, NEW tries \in 1..(MaxRetries + 1), NEW d \in Nat, Ends(t, tries, d)
      PROVE  Counted'
  <2>1. PICK outcome \in {"returned", "raised", "cancelled", "exhausted"} :
          CallEnds(t, outcome, tries, d)
    BY <1>5 DEF Ends
  <2>2. pc[t] # "idle" /\ stack' = stack /\ stack \in Stacks
    BY <1>a, <1>5, <2>1 DEF Ends, CallEnds, TypeOK
  <2>3. /\ IsFiniteSet(AttemptsOfEnded)' /\ IsFiniteSet(AttemptsUnderWay)'
        /\ Cardinality(AttemptsOfEnded') = Cardinality(AttemptsOfEnded) + tries
        /\ Cardinality(AttemptsUnderWay') = Cardinality(AttemptsUnderWay) - attempt[t]
    BY <2>1, <2>2, AttemptsMove DEF Counted, AttemptsCounted
  <2>4. CASE stack = "timing_outside"
    <3>1. Measure(spent[t] + d)
      <4>1. spent[t] \in Nat /\ "retry_outside" # "timing_outside"
        BY <1>a DEF TypeOK
      <4>2. d = 0 => spent[t] + d = spent[t]
        BY <4>1
      <4>3. QED
        BY <1>5, <2>4, <4>1, <4>2 DEF Ends
    <3>2. PICK place : PlacedAt(place)
      BY <2>4 DEF Counted
    <3>3. \E q : PlacedAt(q)'
      BY <2>1, <3>1, <3>2, PlacedStep
    <3>4. AttemptsCounted'
      BY <2>2, <2>3, <2>4 DEF AttemptsCounted
    <3>5. QED
      BY <3>3, <3>4 DEF Counted
  <2>5. CASE stack = "retry_outside"
    <3>1. Len(samples) = Cardinality(AttemptsOfEnded) + Cardinality(AttemptsUnderWay)
      BY <2>5 DEF Counted, AttemptsCounted
    <3>2. attempt[t] \in 0..MaxRetries
      BY <1>a DEF TypeOK
    <3>3. Len(samples') = Len(samples) + tries - attempt[t]
      <4>1. CASE tries = attempt[t] + 1 /\ Measure(d)
        <5>1. Len(samples') = Len(samples) + 1
          BY <1>a, <4>1, InsortSorted DEF Measure
        <5>2. QED
          BY <1>a, <3>2, <4>1, <5>1
      <4>2. CASE tries = attempt[t] /\ NotMeasured
        BY <1>a, <3>2, <4>2 DEF NotMeasured
      <4>3. QED
        BY <1>5, <2>5, <4>1, <4>2 DEF Ends
    <3>4. Len(samples') = Cardinality(AttemptsOfEnded') + Cardinality(AttemptsUnderWay')
      <4>1. tries \in Nat /\ attempt[t] \in Nat
        BY <1>a, <3>2
      <4>2. QED
        BY <1>b, <2>3, <3>1, <3>3, <4>1
    <3>5. QED
      BY <2>2, <2>3, <2>5, <3>4 DEF Counted, AttemptsCounted
  <2>6. QED
    BY <2>2, <2>4, <2>5 DEF Stacks
<1>6. CASE UNCHANGED vars
  BY <1>1, <1>6 DEF vars, AttemptsUnderWay
<1>7. QED
  BY <1>2, <1>3, <1>4, <1>5, <1>6, StepCases

LEMMA CountedInit == Init => Counted
<1> SUFFICES ASSUME Init PROVE Counted
  OBVIOUS
<1>1. samples = <<>> /\ ended = <<>> /\ DOMAIN samples = {} /\ DOMAIN ended = {}
  BY DEF Init
<1>2. AttemptsOfEnded = {} /\ AttemptsUnderWay = {}
  BY <1>1 DEF Init, AttemptsOfEnded, AttemptsUnderWay
<1>3. AttemptsCounted
  <2>1. IsFiniteSet({}) /\ Cardinality({}) = 0
    BY FS_EmptySet
  <2>2. QED
    BY <1>1, <1>2, <2>1 DEF AttemptsCounted
<1>4. \E place : PlacedAt(place)
  <2> DEFINE none == [i \in {} |-> 0]
  <2>1. none \in Bijection({}, {})
    BY DEF Bijection, Injection, Surjection, IsInjective
  <2>2. PlacedAt(none)
    BY <1>1, <2>1 DEF PlacedAt
  <2>3. QED
    BY <2>2
<1>5. QED
  BY <1>3, <1>4 DEF Counted

\* Timer and counter go together, and count what happened: outside the retries,
\* the timer has the durations of the calls that ended, sorted; inside, a sample
\* for every attempt of every call, cancelled ones included, however the calls of
\* the consumers interleave (TimingDecorator.process, MetricsRegistry.timing).
THEOREM MetricsExactAlways == Spec => []MetricsExact
<1>1. Inv /\ Counted => MetricsExact
  BY DEF Inv, SamplesInv, Ascending, Counted, AttemptsCounted, PlacedAt, MetricsExact, CallsTimed
<1>2. QED
  BY <1>1, InvAlways, CountedInit, CountedStep, PTL DEF Spec

-------------------------------------------------------------------------------
(* Percentiles *)

\* The rank of the p-th percentile among n samples.
Rank(n, p) == Max({1, Min({n, (p * n) \div 100 + 1})})

\* The rank is within the samples and a p-th of them down.
RankRight(n, p) ==
  /\ Rank(n, p) \in 1..n
  /\ 100 * (Rank(n, p) - 1) <= p * n
  /\ 100 * Rank(n, p) >= p * n

LEMMA RankBounds ==
  ASSUME NEW n \in Nat \ {0}, NEW p \in {50, 95, 99}
  PROVE  RankRight(n, p)
<1> DEFINE h == (p * n) \div 100
           m == Min({n, h + 1})
           r == Max({1, m})
<1>1. h \in Nat /\ 100 * h <= p * n /\ p * n < 100 * h + 100
  BY Z3
<1>2. Rank(n, p) = r
  BY DEF Rank
<1> HIDE DEF h
<1>3. m = IF n <= h + 1 THEN n ELSE h + 1
  BY <1>1, MinOfTwo
<1>4. m \in Int /\ m >= 1
  BY <1>1, <1>3
<1> HIDE DEF m
<1>5. r = IF 1 >= m THEN 1 ELSE m
  <2>1. 1 \in Int
    OBVIOUS
  <2>2. QED
    BY <1>4, <2>1, MaxOfTwo
<1> HIDE DEF r
<1>6. r = IF n <= h + 1 THEN n ELSE h + 1
  BY <1>1, <1>3, <1>4, <1>5
<1>7. r \in 1..n
  BY <1>1, <1>6
<1>8. 100 * (r - 1) <= p * n /\ 100 * r >= p * n
  BY <1>1, <1>6
<1>9. QED
  BY <1>2, <1>7, <1>8 DEF RankRight

\* Whatever was measured, in whichever order, what snapshot() reports as the 50th,
\* 95th and 99th percentile is one: the share p of the samples at most is below it,
\* and the share p at least is not above.
THEOREM QuantilesRightAlways == Spec => []QuantilesRight
<1>1. Inv => QuantilesRight
  <2> SUFFICES ASSUME Inv, samples # <<>>, NEW p \in {50, 95, 99}
               PROVE  /\ 100 * Cardinality({i \in DOMAIN samples :
                                              samples[i] < Percentile(samples, p)})
                           <= p * Len(samples)
                      /\ 100 * Cardinality({i \in DOMAIN samples :
                                              samples[i] <= Percentile(samples, p)})
                           >= p * Len(samples)
    BY DEF QuantilesRight
  <2> DEFINE n == Len(samples)
             r == Rank(n, p)
             q == samples[r]
             Below == {i \in DOMAIN samples : samples[i] < q}
             Upto  == {i \in DOMAIN samples : samples[i] <= q}
  <2>1. /\ samples \in Seq(Nat) /\ Ascending(samples) /\ n \in Nat \ {0}
        /\ DOMAIN samples = 1..n /\ \A i \in 1..n : samples[i] \in Nat
    BY DEF Inv, SamplesInv
  <2>2. r \in 1..n /\ 100 * (r - 1) <= p * n /\ 100 * r >= p * n
    <3> HIDE DEF n
    <3>1. n \in Nat \ {0} /\ p \in {50, 95, 99}
      BY <2>1
    <3>2. RankRight(n, p)
      BY <3>1, RankBounds
    <3>3. QED
      BY <3>2 DEF RankRight
  <2>3. Percentile(samples, p) = q
    BY DEF Percentile, Rank
  <2> HIDE DEF n, r
  <2>4. Below \subseteq 1..(r - 1)
    BY <2>1, <2>2 DEF Ascending
  <2>5. 1..r \subseteq Upto /\ Upto \subseteq 1..n
    BY <2>1, <2>2 DEF Ascending
  <2>6. /\ IsFiniteSet(1..(r - 1)) /\ Cardinality(1..(r - 1)) = r - 1
        /\ IsFiniteSet(1..n) /\ Cardinality(1..r) = r
    BY <2>1, <2>2, UpToCounts
  <2> HIDE DEF Below, Upto
  <2>7. Cardinality(Below) <= r - 1 /\ Cardinality(Below) \in Nat
    <3>1. IsFiniteSet(Below)
      BY <2>4, <2>6, FS_Subset
    <3>2. Cardinality(Below) <= Cardinality(1..(r - 1)) /\ Cardinality(Below) \in Nat
      BY <2>4, <2>6, <3>1, FS_Subset, FS_CardinalityType
    <3>3. QED
      BY <2>6, <3>2
  <2>8. Cardinality(Upto) >= r /\ Cardinality(Upto) \in Nat
    <3>1. IsFiniteSet(Upto)
      BY <2>5, <2>6, FS_Subset
    <3>2. Cardinality(1..r) <= Cardinality(Upto) /\ Cardinality(Upto) \in Nat
      BY <2>5, <3>1, FS_Subset, FS_CardinalityType
    <3>3. QED
      BY <2>6, <3>2
  <2>9. 100 * Cardinality(Below) <= 100 * (r - 1) /\ 100 * Cardinality(Upto) >= 100 * r
    BY <2>2, <2>7, <2>8
  <2>10. 100 * Cardinality(Below) <= p * n /\ 100 * Cardinality(Upto) >= p * n
    BY <2>1, <2>2, <2>7, <2>8, <2>9
  <2>11. QED
    BY <2>3, <2>10 DEF n, Below, Upto
<1>2. QED
  BY <1>1, InvAlways, PTL

-------------------------------------------------------------------------------
(* Sums and the variance *)

\* f has the sums of the prefixes of s.
Sums(f, s) ==
  /\ f \in [0..Len(s) -> Int] /\ f[0] = 0
  /\ \A i \in 1..Len(s) : f[i] = f[i - 1] + s[i]

\* Total goes through them, and there is one way to do so.
LEMMA TotalSums ==
  ASSUME NEW s \in Seq(Int)
  PROVE  \E f : Sums(f, s) /\ Total(s) = f[Len(s)]
<1> DEFINE n == Len(s)
           next == [i \in 1..n |-> [x \in Int |-> x + s[i]]]
           P(g) == g = [i \in 0..n |-> IF i = 0 THEN 0 ELSE g[i - 1] + s[i]]
           upTo == CHOOSE g : P(g)
<1>1. n \in Nat /\ \A i \in 1..n : s[i] \in Int
  OBVIOUS
<1>2. next \in [1..n -> [Int -> Int]]
  BY <1>1
<1>3. PICK g : Recurses(g, n, Int, 0, next)
  <2>1. 0 \in Int
    OBVIOUS
  <2> HIDE DEF next, n, P, upTo
  <2>2. QED
    BY <1>1, <1>2, <2>1, Recursion
<1>4. ASSUME NEW i \in 1..n PROVE g[i] = g[i - 1] + s[i]
  <2>1. i - 1 \in 0..n
    BY <1>1
  <2>2. g[i - 1] \in Int
    BY <2>1, <1>3 DEF Recurses
  <2>3. QED
    BY <2>2, <1>3 DEF Recurses
<1>5. P(g)
  <2> HIDE DEF n
  <2>1. g = [i \in 0..n |-> g[i]]
    BY <1>3 DEF Recurses
  <2>2. \A i \in 0..n : i = 0 \/ i \in 1..n
    BY <1>1
  <2>3. \A i \in 0..n : g[i] = IF i = 0 THEN 0 ELSE g[i - 1] + s[i]
    BY <1>3, <1>4, <2>2 DEF Recurses
  <2>4. QED
    BY <2>1, <2>3
<1>6. P(upTo)
  <2> HIDE DEF P
  <2> QED BY <1>5, Zenon
<1>7. Total(s) = upTo[n]
  BY Zenon DEF Total
<1> HIDE DEF upTo, n
<1>8. \A i \in 0..n : upTo[i] = IF i = 0 THEN 0 ELSE upTo[i - 1] + s[i]
  BY <1>6, Zenon
<1>9. upTo[0] = 0 /\ \A i \in 1..n : upTo[i] = upTo[i - 1] + s[i]
  BY <1>1, <1>8
<1>10. \A i \in 0..n : upTo[i] \in Int
  <2> DEFINE S == {i \in Nat : i <= n => upTo[i] \in Int}
  <2>1. 0 \in S
    BY <1>9
  <2>2. ASSUME NEW i \in Nat, i \in S PROVE i + 1 \in S
    <3> SUFFICES ASSUME i + 1 <= n PROVE upTo[i + 1] \in Int
      OBVIOUS
    <3>1. i + 1 \in 1..n /\ upTo[i] \in Int /\ (i + 1) - 1 = i /\ s[i + 1] \in Int
      BY <2>2, <1>1
    <3>2. QED
      BY <3>1, <1>9
  <2>3. Nat \subseteq S
    <3> HIDE DEF S
    <3> QED BY <2>1, <2>2, SetInduction
  <2>4. QED
    BY <2>3, <1>1
<1>11. upTo = [i \in 0..n |-> upTo[i]]
  BY <1>6
<1>12. upTo \in [0..n -> Int]
  BY <1>10, <1>11
<1>13. QED
  BY <1>7, <1>9, <1>12 DEF n, Sums

LEMMA TotalIs ==
  ASSUME NEW s \in Seq(Int), NEW f, Sums(f, s)
  PROVE  Total(s) = f[Len(s)]
<1>1. PICK n \in Nat : n = Len(s) /\ \A i \in 1..n : s[i] \in Int
  OBVIOUS
<1>2. PICK g : Sums(g, s) /\ Total(s) = g[n]
  BY <1>1, TotalSums
<1> DEFINE S == {i \in Nat : i <= n => f[i] = g[i]}
<1>3. 0 \in S
  BY <1>2 DEF Sums
<1>4. ASSUME NEW i \in Nat, i \in S PROVE i + 1 \in S
  <2> SUFFICES ASSUME i + 1 <= n PROVE f[i + 1] = g[i + 1]
    OBVIOUS
  <2>1. i + 1 \in 1..n /\ f[i] = g[i] /\ (i + 1) - 1 = i
    BY <1>4, <1>1
  <2>2. f[i + 1] = f[i] + s[i + 1] /\ g[i + 1] = g[i] + s[i + 1]
    BY <2>1, <1>1, <1>2 DEF Sums
  <2>3. QED
    BY <2>1, <2>2
<1>5. n \in S
  <2> HIDE DEF S
  <2> QED BY <1>3, <1>4, SetInduction
<1>6. QED
  BY <1>1, <1>2, <1>5

LEMMA TotalInt == ASSUME NEW s \in Seq(Int) PROVE Total(s) \in Int
<1>1. PICK n \in Nat : n = Len(s)
  OBVIOUS
<1>2. PICK f : Sums(f, s) /\ Total(s) = f[n]
  BY <1>1, TotalSums
<1>3. f \in [0..n -> Int] /\ n \in 0..n
  BY <1>1, <1>2 DEF Sums
<1>4. QED
  BY <1>2, <1>3

LEMMA TotalEmpty == Total(<<>>) = 0
<1>1. <<>> \in Seq(Int) /\ Len(<<>>) = 0
  OBVIOUS
<1>2. PICK f : Sums(f, <<>>) /\ Total(<<>>) = f[0]
  BY <1>1, TotalSums
<1>3. QED
  BY <1>2 DEF Sums

LEMMA TotalAppend ==
  ASSUME NEW s \in Seq(Int), NEW x \in Int
  PROVE  Total(Append(s, x)) = Total(s) + x
<1>1. PICK n \in Nat : n = Len(s)
  OBVIOUS
<1>2. PICK t \in Seq(Int) : /\ t = Append(s, x) /\ Len(t) = n + 1 /\ t[n + 1] = x
                            /\ \A i \in 1..n : t[i] = s[i]
  <2>1. /\ Append(s, x) \in Seq(Int) /\ Len(Append(s, x)) = n + 1
        /\ Append(s, x)[n + 1] = x /\ \A i \in 1..n : Append(s, x)[i] = s[i]
    BY <1>1
  <2>2. QED
    BY <2>1
<1>3. PICK f : Sums(f, t) /\ Total(t) = f[n + 1]
  BY <1>2, TotalSums
<1> DEFINE g == [i \in 0..n |-> f[i]]
<1>4. f \in [0..(n + 1) -> Int] /\ f[0] = 0 /\ \A i \in 1..(n + 1) : f[i] = f[i - 1] + t[i]
  BY <1>2, <1>3 DEF Sums
<1>5. Sums(g, s)
  <2>1. g \in [0..n -> Int] /\ g[0] = 0
    BY <1>4
  <2>2. \A i \in 1..n : i - 1 \in 0..n /\ i \in 0..n /\ i \in 1..(n + 1)
    OBVIOUS
  <2>3. \A i \in 1..n : g[i] = g[i - 1] + s[i]
    BY <1>2, <1>4, <2>2
  <2>4. QED
    BY <1>1, <2>1, <2>3 DEF Sums
<1>6. Total(s) = f[n]
  <2>1. g[n] = f[n]
    OBVIOUS
  <2> HIDE DEF g
  <2>2. QED
    BY <1>1, <1>5, <2>1, TotalIs
<1>7. n + 1 \in 1..(n + 1) /\ (n + 1) - 1 = n
  OBVIOUS
<1>8. f[n + 1] = f[n] + x
  BY <1>2, <1>4, <1>7
<1>9. QED
  BY <1>2, <1>3, <1>6, <1>8

\* Len(w)^3 times the variance is what the textbook's variance gives: the mean of
\* the squares less the square of the mean.
LEMMA SquareOfDeviation ==
  ASSUME NEW n \in Int, NEW t \in Int, NEW q \in Int, NEW f \in Int, NEW i \in Int, NEW x \in Int
  PROVE  n * n * (q + x * x) - 2 * n * t * (f + x) + i * t * t
           = (n * n * q - 2 * n * t * f + (i - 1) * t * t) + (n * x - t) * (n * x - t)
OBVIOUS

LEMMA SpreadOfTotals ==
  ASSUME NEW n \in Int, NEW q \in Int, NEW t \in Int
  PROVE  n * n * q - 2 * n * t * t + n * t * t = n * (n * q - t * t)
OBVIOUS

LEMMA SpreadIs ==
  ASSUME NEW w \in Seq(Int)
  PROVE  /\ Squares(w) \in Int
         /\ Spread(w) = Len(w) * (Len(w) * Squares(w) - Total(w) * Total(w))
<1>1. PICK n \in Nat : n = Len(w) /\ DOMAIN w = 1..n /\ \A j \in 1..n : w[j] \in Int
  OBVIOUS
<1>2. PICK t \in Int : t = Total(w)
  BY TotalInt
<1>3. PICK f : Sums(f, w) /\ t = f[n]
  BY <1>1, <1>2, TotalSums
<1>4. PICK sq \in Seq(Int) : /\ sq = [j \in DOMAIN w |-> w[j] * w[j]]
                             /\ Len(sq) = n /\ \A j \in 1..n : sq[j] = w[j] * w[j]
  <2> DEFINE r == [j \in 1..n |-> w[j] * w[j]]
  <2>1. \A j \in 1..n : w[j] * w[j] \in Int
    BY <1>1
  <2>2. r \in Seq(Int) /\ Len(r) = n /\ \A j \in 1..n : r[j] = w[j] * w[j]
    BY <2>1
  <2>3. [j \in DOMAIN w |-> w[j] * w[j]] = r
    BY <1>1
  <2> HIDE DEF r
  <2>4. QED
    BY <2>2, <2>3
<1>5. Squares(w) = Total(sq)
  BY <1>4 DEF Squares
<1>6. PICK q : Sums(q, sq) /\ Total(sq) = q[n]
  BY <1>4, TotalSums
<1>7. PICK dev \in Seq(Int) : /\ dev = [j \in DOMAIN w |-> Deviation(w, w[j]) * Deviation(w, w[j])]
                              /\ Len(dev) = n
                              /\ \A j \in 1..n : dev[j] = (n * w[j] - t) * (n * w[j] - t)
  <2> DEFINE r == [j \in 1..n |-> (n * w[j] - t) * (n * w[j] - t)]
  <2>1. \A j \in 1..n : (n * w[j] - t) * (n * w[j] - t) \in Int
    BY <1>1
  <2>2. r \in Seq(Int) /\ Len(r) = n /\ \A j \in 1..n : r[j] = (n * w[j] - t) * (n * w[j] - t)
    BY <2>1
  <2>3. \A j \in 1..n : Deviation(w, w[j]) = n * w[j] - t
    BY <1>1, <1>2 DEF Deviation
  <2>4. [j \in DOMAIN w |-> Deviation(w, w[j]) * Deviation(w, w[j])] = r
    BY <1>1, <2>3
  <2> HIDE DEF r
  <2>5. QED
    BY <2>2, <2>4
<1>8. Spread(w) = Total(dev)
  BY <1>7 DEF Spread
<1>9. f \in [0..n -> Int] /\ f[0] = 0 /\ \A i \in 1..n : f[i] = f[i - 1] + w[i]
  BY <1>1, <1>3 DEF Sums
<1>10. q \in [0..n -> Int] /\ q[0] = 0 /\ \A i \in 1..n : q[i] = q[i - 1] + w[i] * w[i]
  BY <1>4, <1>6 DEF Sums
<1> DEFINE h == [i \in 0..n |-> n * n * q[i] - 2 * n * t * f[i] + i * t * t]
<1>11. Sums(h, dev)
  <2>1. \A i \in 0..n : n * n * q[i] - 2 * n * t * f[i] + i * t * t \in Int
    BY <1>9, <1>10
  <2>2. h \in [0..n -> Int]
    BY <2>1
  <2>3. h[0] = 0
    BY <1>9, <1>10
  <2>4. ASSUME NEW i \in 1..n PROVE h[i] = h[i - 1] + dev[i]
    <3>1. i - 1 \in 0..n /\ i \in 0..n /\ i \in Int
      OBVIOUS
    <3>2. PICK a \in Int, b \in Int, x \in Int : a = q[i - 1] /\ b = f[i - 1] /\ x = w[i]
      BY <1>1, <1>9, <1>10, <3>1
    <3>3. q[i] = a + x * x /\ f[i] = b + x
      BY <1>9, <1>10, <3>2
    <3>4. h[i] = n * n * (a + x * x) - 2 * n * t * (b + x) + i * t * t
      BY <3>1, <3>3
    <3>5. h[i - 1] = n * n * a - 2 * n * t * b + (i - 1) * t * t
      BY <3>1, <3>2
    <3>6. dev[i] = (n * x - t) * (n * x - t)
      BY <1>7, <3>2
    <3> HIDE DEF h
    <3>7. n \in Int
      OBVIOUS
    <3>8. QED
      BY <3>1, <3>4, <3>5, <3>6, <3>7, SquareOfDeviation
  <2> HIDE DEF h
  <2>5. QED
    BY <1>7, <2>2, <2>3, <2>4 DEF Sums
<1>12. h[n] = n * n * q[n] - 2 * n * t * t + n * t * t
  BY <1>3
<1>13. Total(dev) = h[n]
  <2> HIDE DEF h
  <2> QED BY <1>7, <1>11, TotalIs
<1>14. q[n] \in Int
  BY <1>10
<1>15. h[n] = n * (n * q[n] - t * t)
  <2> HIDE DEF h
  <2> QED BY <1>12, <1>14, SpreadOfTotals
<1> HIDE DEF h
<1>16. QED
  BY <1>1, <1>2, <1>5, <1>6, <1>8, <1>13, <1>14, <1>15

-------------------------------------------------------------------------------
(* The z-score *)

\* A variance is not negative.
LEMMA SpreadNat ==
  ASSUME NEW w \in Seq(Int)
  PROVE  Spread(w) >= 0
<1>1. PICK n \in Nat : n = Len(w) /\ DOMAIN w = 1..n /\ \A j \in 1..n : w[j] \in Int
  OBVIOUS
<1>2. \A j \in 1..n : Deviation(w, w[j]) \in Int
  BY <1>1, TotalInt DEF Deviation
<1>3. PICK r \in Seq(Int) : /\ r = [j \in DOMAIN w |-> Deviation(w, w[j]) * Deviation(w, w[j])]
                           /\ Len(r) = n /\ \A j \in 1..n : r[j] >= 0
  <2>1. \A j \in 1..n : /\ Deviation(w, w[j]) * Deviation(w, w[j]) \in Int
                        /\ Deviation(w, w[j]) * Deviation(w, w[j]) >= 0
    <3>1. \A d \in Int : d * d \in Int /\ d * d >= 0
      OBVIOUS
    <3>2. QED
      BY <1>2, <3>1
  <2> DEFINE q == [j \in 1..n |-> Deviation(w, w[j]) * Deviation(w, w[j])]
  <2>2. q \in Seq(Int) /\ Len(q) = n /\ \A j \in 1..n : q[j] >= 0
    BY <2>1
  <2>3. [j \in DOMAIN w |-> Deviation(w, w[j]) * Deviation(w, w[j])] = q
    BY <1>1
  <2> HIDE DEF q
  <2>4. QED
    BY <2>2, <2>3
<1>4. PICK f : Sums(f, r) /\ Total(r) = f[n]
  BY <1>3, TotalSums
<1>5. f \in [0..n -> Int] /\ f[0] = 0 /\ \A i \in 1..n : f[i] = f[i - 1] + r[i]
  BY <1>3, <1>4 DEF Sums
<1> DEFINE S == {i \in Nat : i <= n => f[i] >= 0}
<1>6. ASSUME NEW i \in Nat, i \in S PROVE i + 1 \in S
  <2>1. CASE i + 1 <= n
    <3>1. i + 1 \in 1..n /\ (i + 1) - 1 = i /\ i \in 0..n /\ i <= n
      BY <2>1
    <3>2. f[i] \in Int /\ f[i] >= 0 /\ r[i + 1] >= 0 /\ r[i + 1] \in Int
      BY <1>3, <1>5, <1>6, <3>1
    <3>3. f[i + 1] = f[i] + r[i + 1]
      BY <1>5, <3>1
    <3>4. QED
      BY <3>2, <3>3
  <2>2. QED
    BY <2>1
<1>7. 0 \in S
  BY <1>5
<1> HIDE DEF S
<1>8. n \in S
  BY <1>6, <1>7, SetInduction
<1>9. QED
  BY <1>3, <1>4, <1>8 DEF S, Spread

\* A positive factor leaves a comparison as it is.
LEMMA Scaled ==
  ASSUME NEW n \in Nat, n > 0, NEW a \in Int, NEW b \in Int
  PROVE  n * a > n * b <=> a > b
<1>1. CASE a > b
  <2>1. PICK d \in Nat : a = b + d /\ d > 0
    <3>1. a - b \in Nat /\ a = b + (a - b) /\ a - b > 0
      BY <1>1
    <3>2. QED
      BY <3>1
  <2>2. n * a = n * b + n * d /\ n * d > 0
    BY <2>1
  <2>3. n * b \in Int /\ n * d \in Int
    BY <2>1
  <2>4. QED
    BY <1>1, <2>2, <2>3
<1>2. CASE ~(a > b)
  <2>1. PICK d \in Nat : b = a + d
    <3>1. b - a \in Nat /\ b = a + (b - a)
      BY <1>2
    <3>2. QED
      BY <3>1
  <2>2. n * b = n * a + n * d /\ n * d >= 0
    BY <2>1
  <2>3. n * a \in Int /\ n * d \in Int
    BY <2>1
  <2>4. QED
    BY <1>2, <2>2, <2>3
<1>3. QED
  BY <1>1, <1>2

\* What ZScoreExact says of a value x after the window w.
ZRight(w, x) ==
  LET v == Len(w) * Squares(w) - Total(w) * Total(w)
      d == Len(w) * x - Total(w)
  IN  /\ Len(w) >= ZMinSamples
      /\ v > 0
      /\ ZDen * ZDen * (d * d) > ZNum * ZNum * v

LEMMA ZAlarmRight ==
  ASSUME NEW w \in Seq(Int), NEW x \in Int
  PROVE  ZAlarm(w, x) <=> ZRight(w, x)
<1>1. PICK n \in Nat, t \in Int, q \in Int : n = Len(w) /\ t = Total(w) /\ q = Squares(w)
  BY TotalInt, SpreadIs
<1>2. PICK v \in Int, d \in Int, z \in Int, y \in Int :
         v = n * q - t * t /\ d = n * x - t /\ z = ZNum * ZNum /\ y = ZDen * ZDen
  <2>1. n * q - t * t \in Int /\ n * x - t \in Int /\ ZNum * ZNum \in Int /\ ZDen * ZDen \in Int
    BY DetectorAssumption
  <2>2. QED
    BY <2>1
<1>3. Spread(w) = n * v /\ Deviation(w, x) = d
  BY <1>1, <1>2, SpreadIs DEF Deviation
<1>4. ZAlarm(w, x) <=> n >= ZMinSamples /\ n * v > 0 /\ y * (n * d * d) > z * (n * v)
  BY <1>1, <1>2, <1>3 DEF ZAlarm
<1>5. ZRight(w, x) <=> n >= ZMinSamples /\ v > 0 /\ y * (d * d) > z * v
  BY <1>1, <1>2 DEF ZRight
<1>6. CASE n > 0
  <2>1. PICK e \in Int : e = d * d
    BY <1>2
  <2>2. y * e \in Int /\ z * v \in Int /\ y * (n * e) = n * (y * e) /\ z * (n * v) = n * (z * v)
        /\ n * 0 = 0 /\ n * d * d = n * (d * d)
    BY <1>2, <2>1
  <2>3. (n * v > n * 0 <=> v > 0) /\ (n * (y * e) > n * (z * v) <=> y * e > z * v)
    BY <1>6, <2>2, Scaled
  <2>4. QED
    BY <1>4, <1>5, <2>1, <2>2, <2>3
<1>7. CASE ~(n > 0)
  <2>1. ~(n >= ZMinSamples)
    BY <1>7, DetectorAssumption
  <2>2. QED
    BY <1>4, <1>5, <2>1
<1>8. QED
  BY <1>6, <1>7

-------------------------------------------------------------------------------
(* The sorted view, counted *)

LEMMA InsertCounts ==
  ASSUME NEW s \in Seq(Int), Ascending(s), NEW x \in Int,
         NEW r, r = InsertAt(s, CountUpTo(s, x) + 1, x), NEW v \in Int
  PROVE  CountUpTo(r, v) = CountUpTo(s, v) + One(x, v)
<1>0. PICK n \in Nat : n = Len(s) /\ DOMAIN s = 1..n /\ \A k \in 1..n : s[k] \in Int
  OBVIOUS
<1>1. PICK c \in 0..n, d \in 0..n : c = CountUpTo(s, x) /\ d = CountUpTo(s, v)
  BY <1>0, CountTyped
<1>2. /\ r \in Seq(Int) /\ Len(r) = n + 1 /\ DOMAIN r = 1..(n + 1)
      /\ \A k \in 1..(n + 1) : r[k] = IF k <= c THEN s[k] ELSE IF k = c + 1 THEN x ELSE s[k - 1]
  <2>1. IsInsert(r, s, Len(s), CountUpTo(s, x), x, Int)
    BY InsertAscending, Zenon
  <2>2. QED
    BY <1>0, <1>1, <2>1 DEF IsInsert
<1>3. \A k \in 1..n : (s[k] <= x <=> k <= c) /\ (s[k] <= v <=> k <= d)
  BY <1>0, <1>1, CountPrefix
<1>4. CASE x <= v
  <2>1. c <= d
    BY <1>0, <1>1, <1>4, CountMonotonic
  <2>2. ASSUME NEW k \in 1..(n + 1) PROVE r[k] <= v <=> k <= d + 1
    <3>1. CASE k <= c
      <4>1. k \in 1..n /\ k <= d /\ k <= d + 1
        BY <2>1, <3>1
      <4>2. r[k] = s[k]
        BY <1>2, <3>1
      <4>3. QED
        BY <1>3, <4>1, <4>2
    <3>2. CASE k = c + 1
      <4>1. k <= d + 1 /\ ~(k <= c)
        BY <2>1, <3>2
      <4>2. r[k] = x
        BY <1>2, <3>2, <4>1
      <4>3. QED
        BY <1>4, <4>1, <4>2
    <3>3. CASE k > c + 1
      <4>1. k - 1 \in 1..n /\ ~(k <= c) /\ k # c + 1 /\ (k - 1 <= d <=> k <= d + 1)
        BY <1>0, <1>1, <3>3
      <4>2. r[k] = s[k - 1]
        BY <1>0, <1>2, <4>1
      <4>3. QED
        BY <1>0, <1>3, <4>1, <4>2
    <3>4. QED
      BY <1>0, <3>1, <3>2, <3>3
  <2>3. d + 1 \in 0..Len(r)
    BY <1>0, <1>2
  <2>4. CountUpTo(r, v) = d + 1
    BY <1>0, <1>2, <2>2, <2>3, CountIs
  <2>5. QED
    BY <1>0, <1>1, <1>4, <2>4 DEF One
<1>5. CASE ~(x <= v)
  <2>1. d <= c
    BY <1>0, <1>1, <1>5, CountMonotonic
  <2>2. ASSUME NEW k \in 1..(n + 1) PROVE r[k] <= v <=> k <= d
    <3>1. CASE k <= c
      <4>1. k \in 1..n
        BY <3>1
      <4>2. r[k] = s[k]
        BY <1>2, <3>1
      <4>3. QED
        BY <1>3, <4>1, <4>2
    <3>2. CASE k = c + 1
      <4>1. r[k] = x /\ ~(k <= d)
        BY <1>0, <1>2, <2>1, <3>2
      <4>2. QED
        BY <1>0, <1>5, <4>1
    <3>3. CASE k > c + 1
      <4>1. k - 1 \in 1..n /\ ~(k <= c) /\ k # c + 1 /\ ~(k - 1 <= d) /\ ~(k <= d)
        BY <1>0, <1>1, <2>1, <3>3
      <4>2. r[k] = s[k - 1]
        BY <1>0, <1>2, <4>1
      <4>3. QED
        BY <1>0, <1>3, <4>1, <4>2
    <3>4. QED
      BY <1>0, <3>1, <3>2, <3>3
  <2>3. d \in 0..Len(r)
    BY <1>0, <1>2
  <2>4. CountUpTo(r, v) = d
    BY <1>0, <1>2, <2>2, <2>3, CountIs
  <2>5. QED
    BY <1>0, <1>1, <1>5, <2>4 DEF One
<1>6. QED
  BY <1>0, <1>4, <1>5

\* bisect_left finds an element that occurs; the list without it.
LEMMA EvictedIs ==
  ASSUME NEW s \in Seq(Int), Ascending(s), NEW old \in Int,
         CountUpTo(s, old - 1) < CountUpTo(s, old)
  PROVE  /\ CountUpTo(s, old - 1) + 1 \in 1..Len(s)
         /\ s[CountUpTo(s, old - 1) + 1] = old
         /\ Evicted(s, old) = RemoveAt(s, CountUpTo(s, old - 1) + 1)
<1>0. PICK n \in Nat : n = Len(s) /\ DOMAIN s = 1..n /\ \A k \in 1..n : s[k] \in Int
  OBVIOUS
<1>1. PICK b \in 0..n, d \in 0..n : b = CountUpTo(s, old - 1) /\ d = CountUpTo(s, old) /\ b < d
  BY <1>0, CountTyped
<1>2. BisectLeft(s, old) = b
  <2>1. {k \in DOMAIN s : s[k] < old} = NotAbove(s, old - 1)
    BY <1>0, <1>1 DEF NotAbove
  <2>2. QED
    BY <1>0, <1>1, <2>1 DEF BisectLeft, CountUpTo
<1>3. b + 1 \in 1..n
  BY <1>0, <1>1
<1>4. s[b + 1] = old
  <2>1. \A k \in 1..n : (s[k] <= old - 1 <=> k <= b) /\ (s[k] <= old <=> k <= d)
    BY <1>0, <1>1, CountPrefix
  <2>2. b + 1 <= d /\ ~(b + 1 <= b)
    BY <1>0, <1>1
  <2>3. s[b + 1] <= old /\ ~(s[b + 1] <= old - 1) /\ s[b + 1] \in Int
    BY <1>0, <1>1, <1>3, <2>1, <2>2
  <2>4. QED
    BY <1>0, <2>3
<1>5. Evicted(s, old) = RemoveAt(s, b + 1)
  BY <1>0, <1>1, <1>2, <1>3, <1>4 DEF Evicted
<1>6. QED
  BY <1>0, <1>1, <1>3, <1>4, <1>5

LEMMA EvictAscending ==
  ASSUME NEW s \in Seq(Int), Ascending(s), NEW old \in Int,
         CountUpTo(s, old - 1) < CountUpTo(s, old)
  PROVE  /\ Evicted(s, old) \in Seq(Int) /\ Len(Evicted(s, old)) = Len(s) - 1
         /\ Ascending(Evicted(s, old))
         /\ \A v \in Int : CountUpTo(Evicted(s, old), v) =
                             CountUpTo(s, v) - One(old, v)
<1>0. PICK n \in Nat : n = Len(s) /\ DOMAIN s = 1..n /\ \A k \in 1..n : s[k] \in Int
  OBVIOUS
<1>1. PICK i \in 1..n : /\ i = CountUpTo(s, old - 1) + 1 /\ s[i] = old
                        /\ Evicted(s, old) = RemoveAt(s, i)
  BY <1>0, EvictedIs
<1>r. PICK r : r = Evicted(s, old)
  OBVIOUS
<1>2. /\ r \in Seq(Int) /\ Len(r) = n - 1 /\ DOMAIN r = 1..(n - 1)
      /\ \A k \in 1..(n - 1) : r[k] = IF k < i THEN s[k] ELSE s[k + 1]
  <2>1. r = RemoveAt(s, i) /\ i \in 1..Len(s)
    BY <1>0, <1>1, <1>r
  <2>2. IsRemoval(r, s, Len(s), i, Int)
    BY <2>1, Removed, Zenon
  <2>3. QED
    BY <1>0, <2>2 DEF IsRemoval
<1>3. ASSUME NEW j \in 1..(n - 1), NEW k \in 1..(n - 1), j <= k PROVE r[j] <= r[k]
  <2>1. PICK a \in 1..n : r[j] = s[a] /\ (a = j \/ a = j + 1) /\ (j < i <=> a = j)
    <3>1. j \in 1..n /\ j + 1 \in 1..n /\ j # j + 1
      BY <1>0, <1>1
    <3>2. QED
      BY <1>0, <1>2, <3>1
  <2>2. PICK b \in 1..n : r[k] = s[b] /\ (b = k \/ b = k + 1) /\ (k < i <=> b = k)
    <3>1. k \in 1..n /\ k + 1 \in 1..n /\ k # k + 1
      BY <1>0, <1>1
    <3>2. QED
      BY <1>0, <1>2, <3>1
  <2>3. a <= b
    <3>1. CASE a = j
      BY <1>3, <2>1, <2>2, <3>1
    <3>2. CASE a = j + 1
      <4>1. ~(j < i) /\ ~(k < i)
        BY <1>3, <2>1, <3>2
      <4>2. b = k + 1
        BY <2>2, <4>1
      <4>3. QED
        BY <1>3, <3>2, <4>2
    <3>3. QED
      BY <2>1, <3>1, <3>2
  <2>4. QED
    BY <1>0, <1>1, <2>1, <2>2, <2>3 DEF Ascending
<1>4. Ascending(r)
  BY <1>0, <1>2, <1>3 DEF Ascending
<1>5. ASSUME NEW v \in Int
      PROVE  CountUpTo(r, v) = CountUpTo(s, v) - One(old, v)
  <2>1. PICK d \in 0..n : d = CountUpTo(s, v)
    BY <1>0, <1>1, CountTyped
  <2>2. \A k \in 1..n : s[k] <= v <=> k <= d
    BY <1>0, <1>1, <2>1, CountPrefix
  <2>3. old <= v <=> i <= d
    BY <1>0, <1>1, <2>2
  <2>4. CASE i <= d
    <3>1. ASSUME NEW k \in 1..(n - 1) PROVE r[k] <= v <=> k <= d - 1
      <4>1. CASE k < i
        <5>1. k \in 1..n /\ r[k] = s[k] /\ k <= d /\ k <= d - 1
          BY <1>0, <1>1, <1>2, <2>4, <4>1
        <5>2. QED
          BY <1>0, <2>2, <5>1
      <4>2. CASE ~(k < i)
        <5>1. k + 1 \in 1..n /\ r[k] = s[k + 1] /\ (k + 1 <= d <=> k <= d - 1)
          BY <1>0, <1>1, <1>2, <4>2
        <5>2. QED
          BY <1>0, <2>2, <5>1
      <4>3. QED
        BY <1>0, <4>1, <4>2
    <3>2. d - 1 \in 0..Len(r)
      BY <1>0, <1>1, <1>2, <2>4
    <3>3. CountUpTo(r, v) = d - 1
      BY <1>0, <1>2, <3>1, <3>2, CountIs
    <3>4. QED
      BY <1>0, <2>1, <2>3, <2>4, <3>3 DEF One
  <2>5. CASE ~(i <= d)
    <3>1. ASSUME NEW k \in 1..(n - 1) PROVE r[k] <= v <=> k <= d
      <4>1. CASE k < i
        <5>1. k \in 1..n /\ r[k] = s[k]
          BY <1>0, <1>1, <1>2, <4>1
        <5>2. QED
          BY <1>0, <2>2, <5>1
      <4>2. CASE ~(k < i)
        <5>1. k + 1 \in 1..n /\ ~(k + 1 <= d) /\ ~(k <= d)
          BY <1>1, <2>5, <4>2
        <5>2. r[k] = s[k + 1]
          BY <1>2, <4>2
        <5>3. QED
          BY <2>2, <5>1, <5>2
      <4>3. QED
        BY <1>0, <4>1, <4>2
    <3>2. d \in 0..Len(r)
      BY <1>0, <1>1, <1>2, <2>5
    <3>3. CountUpTo(r, v) = d
      BY <1>0, <1>2, <3>1, <3>2, CountIs
    <3>4. d - 0 = d
      BY <1>0, <2>1
    <3>5. QED
      BY <1>0, <2>1, <2>3, <2>5, <3>3, <3>4 DEF One
  <2>6. QED
    BY <1>0, <2>4, <2>5
<1>6. QED
  BY <1>0, <1>r, <1>2, <1>4, <1>5

LEMMA CountAppend ==
  ASSUME NEW w \in Seq(Int), NEW x \in Int, NEW v \in Int
  PROVE  CountUpTo(Append(w, x), v) = CountUpTo(w, v) + One(x, v)
<1>1. PICK n \in Nat : n = Len(w) /\ DOMAIN w = 1..n /\ \A k \in 1..n : w[k] \in Int
  OBVIOUS
<1>2. PICK t : t = Append(w, x)
  OBVIOUS
<1>3. DOMAIN t = 1..(n + 1) /\ t[n + 1] = x /\ \A k \in 1..n : t[k] = w[k]
  BY <1>1, <1>2
<1>4. IsFiniteSet(NotAbove(w, v)) /\ CountUpTo(w, v) \in 0..n
  BY <1>1, CountTyped
<1>5. CASE x <= v
  <2>1. NotAbove(t, v) = NotAbove(w, v) \cup {n + 1}
    BY <1>1, <1>3, <1>5 DEF NotAbove
  <2>2. n + 1 \notin NotAbove(w, v)
    BY <1>1 DEF NotAbove
  <2>3. QED
    BY <1>2, <1>4, <1>5, <2>1, <2>2, FS_AddElement DEF CountUpTo, One
<1>6. CASE ~(x <= v)
  <2>1. NotAbove(t, v) = NotAbove(w, v)
    BY <1>1, <1>3, <1>6 DEF NotAbove
  <2>2. QED
    BY <1>2, <1>4, <1>6, <2>1 DEF CountUpTo, One
<1>7. QED
  BY <1>5, <1>6

LEMMA CountTail ==
  ASSUME NEW w \in Seq(Int), w # <<>>, NEW v \in Int
  PROVE  CountUpTo(Tail(w), v) = CountUpTo(w, v) - One(Head(w), v)
<1>1. PICK n \in Nat : n = Len(w) /\ DOMAIN w = 1..n /\ n >= 1 /\ \A k \in 1..n : w[k] \in Int
  OBVIOUS
<1>2. PICK t : t = Tail(w) /\ DOMAIN t = 1..(n - 1) /\ \A k \in 1..(n - 1) : t[k] = w[k + 1]
  <2>1. DOMAIN Tail(w) = 1..(n - 1)
    BY <1>1
  <2>2. \A k \in 1..(n - 1) : Tail(w)[k] = w[k + 1]
    BY <1>1
  <2>3. QED
    BY <2>1, <2>2
<1>3. t \in Seq(Int) /\ Head(w) = w[1]
  BY <1>1, <1>2
<1> DEFINE S == NotAbove(t, v)
           T == NotAbove(w, v) \ {1}
           f == [k \in S |-> k + 1]
<1>4. S \subseteq 1..(n - 1) /\ T \subseteq 2..n
  BY <1>1, <1>2 DEF NotAbove
<1>5. f \in [S -> T]
  <2>1. ASSUME NEW k \in S PROVE k + 1 \in T
    <3>1. k \in 1..(n - 1) /\ k + 1 \in 1..n /\ k + 1 # 1
      BY <1>4
    <3>2. t[k] <= v /\ t[k] = w[k + 1]
      BY <1>2, <3>1 DEF NotAbove
    <3>3. QED
      BY <1>1, <3>1, <3>2 DEF NotAbove
  <2>2. QED
    BY <2>1
<1>6. \A a, b \in S : f[a] = f[b] => a = b
  BY <1>4
<1>7. \A b \in T : \E a \in S : f[a] = b
  <2>1. ASSUME NEW b \in T PROVE b - 1 \in S /\ (b - 1) + 1 = b
    <3>1. b \in 2..n /\ b - 1 \in 1..(n - 1) /\ (b - 1) + 1 = b
      BY <1>4
    <3>2. w[b] <= v /\ t[b - 1] = w[b]
      BY <1>2, <3>1 DEF NotAbove
    <3>3. QED
      BY <1>2, <3>1, <3>2 DEF NotAbove
  <2>2. ASSUME NEW b \in T PROVE f[b - 1] = b
    BY <2>1
  <2>3. QED
    BY <2>1, <2>2
<1>8. ExistsBijection(S, T)
  <2> HIDE DEF S, T, f
  <2>1. f \in Bijection(S, T)
    BY <1>5, <1>6, <1>7 DEF Bijection, Injection, Surjection, IsInjective
  <2>2. QED
    BY <2>1 DEF ExistsBijection
<1>9. IsFiniteSet(S) /\ IsFiniteSet(NotAbove(w, v)) /\ CountUpTo(w, v) \in 0..n
  BY <1>1, <1>3, CountTyped
<1>10. Cardinality(T) = Cardinality(S)
  BY <1>8, <1>9, FS_Bijection
<1>11. 1 \in NotAbove(w, v) <=> Head(w) <= v
  BY <1>1, <1>3 DEF NotAbove
<1>12. Cardinality(T) = CountUpTo(w, v) - One(Head(w), v)
  <2>1. Cardinality(T) = IF 1 \in NotAbove(w, v) THEN Cardinality(NotAbove(w, v)) - 1
                         ELSE Cardinality(NotAbove(w, v))
    BY <1>9, FS_RemoveElement
  <2>2. CASE Head(w) <= v
    BY <1>11, <2>1, <2>2 DEF CountUpTo, One
  <2>3. CASE ~(Head(w) <= v)
    <3>1. Cardinality(T) = CountUpTo(w, v) /\ One(Head(w), v) = 0
      BY <1>11, <2>1, <2>3 DEF CountUpTo, One
    <3>2. QED
      BY <1>9, <3>1
  <2>4. QED
    BY <2>2, <2>3
<1>13. QED
  BY <1>2, <1>10, <1>12 DEF CountUpTo

-------------------------------------------------------------------------------
(* The window and its sorted view *)

\* s has the elements of w, each as often, in ascending order.
IsView(s, w) ==
  /\ s \in Seq(Int) /\ w \in Seq(Int) /\ Len(s) = Len(w)
  /\ Ascending(s)
  /\ \A v \in Int : CountUpTo(s, v) = CountUpTo(w, v)

\* The eviction takes the oldest value from both.
LEMMA ViewEvicted ==
  ASSUME NEW s, NEW w, IsView(s, w), w # <<>>
  PROVE  IsView(Evicted(s, Head(w)), Tail(w))
<1>1. s \in Seq(Int) /\ w \in Seq(Int) /\ Len(s) = Len(w) /\ Ascending(s)
  BY DEF IsView
<1>2. Head(w) \in Int /\ Tail(w) \in Seq(Int) /\ Len(Tail(w)) = Len(w) - 1
  BY <1>1
<1>3. PICK old \in Int : old = Head(w)
  BY <1>2
<1>4. PICK n \in Nat : n = Len(w)
  BY <1>1
<1>5. CountUpTo(s, old - 1) < CountUpTo(s, old)
  <2>1. CountUpTo(w, old - 1) \in 0..n /\ CountUpTo(w, old) \in 0..n
    BY <1>1, <1>4, CountTyped
  <2>2. NotAbove(w, old - 1) \subseteq NotAbove(w, old)
    BY <1>1 DEF NotAbove
  <2>3. 1 \in NotAbove(w, old) /\ 1 \notin NotAbove(w, old - 1)
    BY <1>1, <1>3 DEF NotAbove
  <2>4. CountUpTo(w, old - 1) <= CountUpTo(w, old)
    BY <1>1, CountMonotonic
  <2>5. CountUpTo(w, old - 1) # CountUpTo(w, old)
    <3>1. IsFiniteSet(NotAbove(w, old))
      BY <1>1, CountTyped
    <3>2. QED
      BY <2>2, <2>3, <3>1, FS_Subset DEF CountUpTo
  <2>6. QED
    BY <2>1, <2>4, <2>5 DEF IsView
<1>6. /\ Evicted(s, old) \in Seq(Int) /\ Len(Evicted(s, old)) = Len(s) - 1
      /\ Ascending(Evicted(s, old))
      /\ \A v \in Int : CountUpTo(Evicted(s, old), v) =
                          CountUpTo(s, v) - One(old, v)
  BY <1>1, <1>5, EvictAscending
<1>8. \A v \in Int : CountUpTo(Tail(w), v) = CountUpTo(w, v) - One(old, v)
  BY <1>1, <1>3, CountTail, Zenon
<1>9. \A v \in Int : CountUpTo(Evicted(s, old), v) = CountUpTo(Tail(w), v)
  BY <1>6, <1>8, Zenon DEF IsView
<1>10. QED
  BY <1>1, <1>2, <1>3, <1>6, <1>9 DEF IsView

\* The insertion adds the newest to both.
LEMMA ViewInserted ==
  ASSUME NEW s, NEW w, IsView(s, w), NEW x \in Int
  PROVE  IsView(InsertAt(s, BisectRight(s, x) + 1, x), Append(w, x))
<1>1. s \in Seq(Int) /\ w \in Seq(Int) /\ Len(s) = Len(w) /\ Ascending(s)
  BY DEF IsView
<1>2. BisectRight(s, x) = CountUpTo(s, x)
  BY DEF BisectRight, CountUpTo, NotAbove
<1>3. PICK r : r = InsertAt(s, CountUpTo(s, x) + 1, x)
  OBVIOUS
<1>4. IsInsert(r, s, Len(s), CountUpTo(s, x), x, Int) /\ Ascending(r)
  BY <1>1, <1>3, InsertAscending, Zenon
<1>5. \A v \in Int : CountUpTo(r, v) = CountUpTo(s, v) + One(x, v)
  BY <1>1, <1>3, InsertCounts, Zenon
<1>6. \A v \in Int : CountUpTo(Append(w, x), v) = CountUpTo(w, v) + One(x, v)
  BY <1>1, CountAppend, Zenon
<1>7. \A v \in Int : CountUpTo(r, v) = CountUpTo(Append(w, x), v)
  BY <1>5, <1>6, Zenon DEF IsView
<1>8. r \in Seq(Int) /\ Len(r) = Len(w) + 1
  BY <1>1, <1>4 DEF IsInsert
<1>9. Append(w, x) \in Seq(Int) /\ Len(Append(w, x)) = Len(w) + 1
  BY <1>1
<1>10. QED
  BY <1>2, <1>3, <1>4, <1>7, <1>8, <1>9 DEF IsView

\* _add keeps the two views of the window in step.
LEMMA ViewAfter ==
  ASSUME IsView(sorted, iWindow), NEW x \in Int
  PROVE  IsView(Sorted(x), Push(iWindow, x))
<1>1. CASE Len(iWindow) = WindowSize
  <2>1. iWindow # <<>>
    BY <1>1, DetectorAssumption
  <2>2. IsView(Evicted(sorted, Head(iWindow)), Tail(iWindow))
    BY <2>1, ViewEvicted
  <2>3. PICK s, w : s = Evicted(sorted, Head(iWindow)) /\ w = Tail(iWindow)
    OBVIOUS
  <2>4. Sorted(x) = InsertAt(s, BisectRight(s, x) + 1, x) /\ Push(iWindow, x) = Append(w, x)
    BY <1>1, <2>3 DEF Sorted, Push
  <2>5. QED
    BY <2>2, <2>3, <2>4, ViewInserted
<1>2. CASE Len(iWindow) # WindowSize
  <2>1. /\ Sorted(x) = InsertAt(sorted, BisectRight(sorted, x) + 1, x)
        /\ Push(iWindow, x) = Append(iWindow, x)
    BY <1>2 DEF Sorted, Push
  <2>2. QED
    BY <2>1, ViewInserted
<1>3. QED
  BY <1>1, <1>2

-------------------------------------------------------------------------------
(* The quartiles *)

\* The k-th smallest, which IqrExact finds by counting, is where the sorted view
\* has it.
LEMMA KthSmallestIs ==
  ASSUME NEW s, NEW w, IsView(s, w), NEW k \in 1..Len(w)
  PROVE  KthSmallest(w, k) = s[k] /\ s[k] \in Int
<1>1. PICK n \in Nat : /\ n = Len(w) /\ n = Len(s) /\ DOMAIN w = 1..n /\ DOMAIN s = 1..n
                       /\ \A i \in 1..n : w[i] \in Int /\ s[i] \in Int
  BY DEF IsView
<1>2. s \in Seq(Int) /\ w \in Seq(Int) /\ Ascending(s) /\ k \in 1..n
  BY <1>1 DEF IsView
<1>3. PICK u \in Int : u = s[k]
  BY <1>1, <1>2
<1> DEFINE Is(v) == /\ Cardinality({j \in DOMAIN w : w[j] < v}) < k
                    /\ Cardinality({j \in DOMAIN w : w[j] <= v}) >= k
<1>4. ASSUME NEW v \in Int
      PROVE  Is(v) <=> CountUpTo(w, v - 1) < k /\ CountUpTo(w, v) >= k
  <2>1. {j \in DOMAIN w : w[j] < v} = NotAbove(w, v - 1)
    BY <1>1 DEF NotAbove
  <2>2. {j \in DOMAIN w : w[j] <= v} = NotAbove(w, v)
    BY DEF NotAbove
  <2>3. QED
    BY <2>1, <2>2 DEF CountUpTo
<1>5. ASSUME NEW v \in Int
      PROVE  Is(v) <=> v = u
  <2>1. /\ CountUpTo(w, v - 1) = CountUpTo(s, v - 1) /\ CountUpTo(w, v) = CountUpTo(s, v)
        /\ CountUpTo(s, v - 1) \in 0..n /\ CountUpTo(s, v) \in 0..n
    <3>1. v - 1 \in Int
      OBVIOUS
    <3>2. CountUpTo(w, v - 1) = CountUpTo(s, v - 1) /\ CountUpTo(w, v) = CountUpTo(s, v)
      BY <3>1, Zenon DEF IsView
    <3>3. CountUpTo(s, v - 1) \in 0..Len(s) /\ CountUpTo(s, v) \in 0..Len(s)
      BY <1>2, CountTyped
    <3>4. QED
      BY <1>1, <3>2, <3>3
  <2>2. (u <= v - 1 <=> k <= CountUpTo(s, v - 1)) /\ (u <= v <=> k <= CountUpTo(s, v))
    BY <1>1, <1>2, <1>3, CountPrefix
  <2>3. Is(v) <=> ~(u <= v - 1) /\ u <= v
    <3>1. Is(v) <=> CountUpTo(s, v - 1) < k /\ CountUpTo(s, v) >= k
      BY <1>4, <2>1
    <3> HIDE DEF Is
    <3>2. QED
      BY <2>1, <2>2, <3>1
  <2> HIDE DEF Is
  <2>4. QED
    BY <2>3
<1>6. u \in Range(w)
  <2>1. CountUpTo(w, u - 1) < k /\ CountUpTo(w, u) >= k
    BY <1>4, <1>5
  <2>2. NotAbove(w, u - 1) # NotAbove(w, u)
    <3>1. CountUpTo(w, u - 1) \in 0..n /\ CountUpTo(w, u) \in 0..n
      BY <1>1, <1>2, CountTyped
    <3>2. CountUpTo(w, u - 1) # CountUpTo(w, u)
      BY <2>1, <3>1
    <3>3. QED
      BY <3>2 DEF CountUpTo
  <2>3. PICK j \in 1..n : (j \in NotAbove(w, u - 1)) # (j \in NotAbove(w, u))
    BY <1>1, <2>2 DEF NotAbove
  <2>4. (w[j] <= u - 1) # (w[j] <= u) /\ w[j] \in Int
    BY <1>1, <2>3 DEF NotAbove
  <2>5. w[j] = u
    BY <2>4
  <2>6. QED
    BY <1>1, <2>5 DEF Range
<1>7. \A v \in Range(w) : v \in Int
  BY <1>1 DEF Range
<1>8. KthSmallest(w, k) = CHOOSE v \in Range(w) : Is(v)
  BY DEF KthSmallest
<1> HIDE DEF Is
<1>9. (CHOOSE v \in Range(w) : Is(v)) = u
  BY <1>5, <1>6, <1>7
<1>10. QED
  BY <1>3, <1>8, <1>9

LEMMA QuarterOfGaps ==
  ASSUME NEW p \in {1, 3}, NEW n \in Nat, n >= 2, NEW g, g = p * (n - 1)
  PROVE  /\ g \div 4 \in Nat /\ g % 4 \in 0..3
         /\ g \div 4 + 2 <= n
OBVIOUS

LEMMA QuartileIs ==
  ASSUME NEW s, NEW w, IsView(s, w), Len(w) >= 2, NEW p \in {1, 3}
  PROVE  QuarterRank(s, p) = Quartile(w, p) /\ QuarterRank(s, p) \in Int
<1>1. PICK n \in Nat : n = Len(w) /\ n = Len(s) /\ n >= 2
  BY DEF IsView
<1>2. PICK g \in Nat : g = p * (n - 1)
  BY <1>1
<1>3. PICK q \in Nat, r \in 0..3 : q = g \div 4 /\ r = g % 4 /\ q + 2 <= n
  BY <1>1, <1>2, QuarterOfGaps
<1>4. q + 1 \in 1..n /\ q + 2 \in 1..n /\ q + 1 < n /\ (q + 1) + 1 = q + 2 /\ 1 + q = q + 1 /\ 2 + q = q + 2
  BY <1>3
<1>5. PICK a \in Int, b \in Int : /\ a = s[q + 1] /\ a = KthSmallest(w, 1 + q)
                                  /\ b = s[q + 2] /\ b = KthSmallest(w, 2 + q)
  <2>1. 1 + q \in 1..Len(w) /\ 2 + q \in 1..Len(w)
    BY <1>1, <1>4
  <2>2. /\ KthSmallest(w, 1 + q) = s[1 + q] /\ s[1 + q] \in Int
        /\ KthSmallest(w, 2 + q) = s[2 + q] /\ s[2 + q] \in Int
    BY <2>1, KthSmallestIs
  <2>3. QED
    BY <1>4, <2>2
<1>6. QuarterRank(s, p) = 4 * a + r * (b - a)
  BY <1>1, <1>2, <1>3, <1>4, <1>5 DEF QuarterRank
<1>7. Quartile(w, p) = IF r = 0 THEN 4 * a ELSE (4 - r) * a + r * b
  BY <1>1, <1>2, <1>3, <1>5 DEF Quartile
<1>8. 4 * a + r * (b - a) = (4 - r) * a + r * b /\ 4 * a + r * (b - a) \in Int
  BY <1>3
<1>9. r = 0 => (4 - r) * a + r * b = 4 * a
  OBVIOUS
<1>10. QED
  BY <1>6, <1>7, <1>8, <1>9

\* What IqrExact says of a value x after the window w.
IqrRight(w, x) ==
  /\ Len(w) >= IqrMinSamples
  /\ LET q1 == Quartile(w, 1)
         q3 == Quartile(w, 3)
     IN  /\ q1 # q3
         /\ \/ KDen * (q1 - 4 * x) > KNum * (q3 - q1)
            \/ KDen * (4 * x - q3) > KNum * (q3 - q1)

LEMMA IqrAlarmRight ==
  ASSUME NEW s, NEW w, IsView(s, w), NEW x \in Int
  PROVE  IqrAlarm(s, x) <=> IqrRight(w, x)
<1>1. PICK n \in Nat : n = Len(w) /\ n = Len(s)
  BY DEF IsView
<1>2. CASE n >= IqrMinSamples
  <2>1. n >= 2
    BY <1>2, DetectorAssumption
  <2>2. PICK q1 \in Int, q3 \in Int : /\ q1 = QuarterRank(s, 1) /\ q1 = Quartile(w, 1)
                                      /\ q3 = QuarterRank(s, 3) /\ q3 = Quartile(w, 3)
    BY <1>1, <2>1, QuartileIs
  <2>3. PICK kn \in Int, kd \in Int : kn = KNum /\ kd = KDen
    BY DetectorAssumption
  <2>4. IqrAlarm(s, x) <=> /\ q3 - q1 # 0
                           /\ \/ 4 * kd * x < kd * q1 - kn * (q3 - q1)
                              \/ 4 * kd * x > kd * q3 + kn * (q3 - q1)
    BY <1>1, <1>2, <2>2, <2>3 DEF IqrAlarm
  <2>5. IqrRight(w, x) <=> /\ q1 # q3
                           /\ \/ kd * (q1 - 4 * x) > kn * (q3 - q1)
                              \/ kd * (4 * x - q3) > kn * (q3 - q1)
    BY <1>1, <1>2, <2>2, <2>3 DEF IqrRight
  <2>6. /\ kd * (q1 - 4 * x) = kd * q1 - 4 * kd * x
        /\ kd * (4 * x - q3) = 4 * kd * x - kd * q3
        /\ kd * q1 \in Int /\ kd * q3 \in Int /\ 4 * kd * x \in Int /\ kn * (q3 - q1) \in Int
    OBVIOUS
  <2>7. PICK A \in Int, B \in Int, C \in Int, E \in Int :
          A = kd * q1 /\ B = kd * q3 /\ C = 4 * kd * x /\ E = kn * (q3 - q1)
    BY <2>6
  <2>8. (C < A - E <=> A - C > E) /\ (C > B + E <=> C - B > E) /\ (q3 - q1 # 0 <=> q1 # q3)
    OBVIOUS
  <2>9. QED
    BY <2>4, <2>5, <2>6, <2>7, <2>8
<1>3. CASE ~(n >= IqrMinSamples)
  BY <1>1, <1>3 DEF IqrAlarm, IqrRight
<1>4. QED
  BY <1>2, <1>3

-------------------------------------------------------------------------------
(* The windows of a history *)

LEMMA AtLeast0Is ==
  \A x \in Int : AtLeast0(x) \in Nat /\ (x > 0 => AtLeast0(x) = x) /\ (x <= 0 => AtLeast0(x) = 0)
BY DEF AtLeast0

\* Before, of any history.
BeforeIn(s, i) == SubSeq(s, AtLeast0(i - 1 - WindowSize) + 1, i - 1)

\* w has the elements of s from behind the a-th, n of them.
IsStretch(w, s, a, n) ==
  /\ w \in Seq(Int) /\ Len(w) = n
  /\ \A k \in 1..n : w[k] = s[a + k]

LEMMA StretchOf ==
  ASSUME NEW s \in Seq(Int), NEW a \in Nat, NEW b \in 0..Len(s), a <= b
  PROVE  IsStretch(SubSeq(s, a + 1, b), s, a, b - a)
<1>1. PICK c \in Int, d \in Int : c = a + 1 /\ d = b /\ \A k \in c..d : s[k] \in Int
  <2>1. \A k \in (a + 1)..b : k \in 1..Len(s)
    OBVIOUS
  <2>2. \A k \in (a + 1)..b : s[k] \in Int
    BY <2>1
  <2>3. QED
    BY <2>2
<1>2. PICK w : w = SubSeq(s, c, d)
  OBVIOUS
<1>3. /\ w \in Seq(Int) /\ Len(w) = (IF c <= d THEN d - c + 1 ELSE 0)
      /\ \A k \in 1..(d - c + 1) : w[k] = s[c + k - 1]
  BY <1>1, <1>2, SubSeqProperties
<1>4. d - c + 1 = b - a /\ (~(c <= d) => b - a = 0) /\ \A k \in 1..(b - a) : c + k - 1 = a + k
  BY <1>1
<1>5. w \in Seq(Int) /\ Len(w) = b - a /\ \A k \in 1..(b - a) : w[k] = s[a + k]
  BY <1>3, <1>4
<1>6. w = SubSeq(s, a + 1, b)
  BY <1>1, <1>2
<1>7. QED
  BY <1>5, <1>6 DEF IsStretch

LEMMA WholeStretch ==
  ASSUME NEW s \in Seq(Int)
  PROVE  SubSeq(s, 1, Len(s)) = s
OBVIOUS

\* A new value changes no stretch of what came before it.
LEMMA StretchStable ==
  ASSUME NEW s \in Seq(Int), NEW x \in Int, NEW j \in Nat, j >= 1, NEW i \in 0..Len(s)
  PROVE  SubSeq(Append(s, x), j, i) = SubSeq(s, j, i)
<1>1. PICK t \in Seq(Int) : t = Append(s, x) /\ Len(t) = Len(s) + 1 /\ \A k \in 1..Len(s) : t[k] = s[k]
  <2>1. /\ Append(s, x) \in Seq(Int) /\ Len(Append(s, x)) = Len(s) + 1
        /\ \A k \in 1..Len(s) : Append(s, x)[k] = s[k]
    OBVIOUS
  <2>2. QED
    BY <2>1
<1>2. CASE j <= i
  <2>1. PICK a \in Nat : j = a + 1 /\ a <= i
    <3>1. j - 1 \in Nat /\ j = (j - 1) + 1 /\ j - 1 <= i
      BY <1>2
    <3>2. QED
      BY <3>1
  <2>2. i \in 0..Len(t) /\ i - a \in Nat
    BY <1>1, <2>1
  <2>3. IsStretch(SubSeq(t, a + 1, i), t, a, i - a) /\ IsStretch(SubSeq(s, a + 1, i), s, a, i - a)
    BY <2>1, <2>2, StretchOf
  <2>4. \A k \in 1..(i - a) : a + k \in 1..Len(s)
    BY <2>1
  <2>5. \A k \in 1..(i - a) : t[a + k] = s[a + k]
    BY <1>1, <2>4
  <2>6. SubSeq(t, a + 1, i) = SubSeq(s, a + 1, i)
    <3>1. PICK v, w : v = SubSeq(t, a + 1, i) /\ w = SubSeq(s, a + 1, i)
      OBVIOUS
    <3>2. PICK d \in Nat : d = i - a
      BY <2>2
    <3>3. /\ v \in Seq(Int) /\ Len(v) = d /\ \A k \in 1..d : v[k] = t[a + k]
          /\ w \in Seq(Int) /\ Len(w) = d /\ \A k \in 1..d : w[k] = s[a + k]
      BY <2>3, <3>1, <3>2 DEF IsStretch
    <3>4. \A k \in 1..d : v[k] = w[k]
      BY <2>5, <3>2, <3>3
    <3>5. v = w
      BY <3>3, <3>4, SeqEqual
    <3>6. QED
      BY <3>1, <3>5
  <2>7. QED
    BY <1>1, <2>1, <2>6
<1>3. CASE i < j
  <2>1. SubSeq(t, j, i) = <<>> /\ SubSeq(s, j, i) = <<>>
    BY <1>3, SubSeqEmpty
  <2>2. QED
    BY <1>1, <2>1
<1>4. QED
  BY <1>2, <1>3

LEMMA BeforeStable ==
  ASSUME NEW s \in Seq(Int), NEW x \in Int, NEW i \in 1..(Len(s) + 1)
  PROVE  BeforeIn(Append(s, x), i) = BeforeIn(s, i)
<1>1. PICK j \in Nat : j = AtLeast0(i - 1 - WindowSize) + 1 /\ j >= 1
  <2>1. AtLeast0(i - 1 - WindowSize) \in Nat
    BY DetectorAssumption DEF AtLeast0
  <2>2. QED
    BY <2>1
<1>2. i - 1 \in 0..Len(s)
  OBVIOUS
<1>3. SubSeq(Append(s, x), j, i - 1) = SubSeq(s, j, i - 1)
  BY <1>1, <1>2, StretchStable
<1>4. QED
  BY <1>1, <1>3 DEF BeforeIn

\* Where the window begins and how long it is.
LEMMA BeforeShape ==
  ASSUME NEW s \in Seq(Int), NEW i \in 1..(Len(s) + 1)
  PROVE  /\ AtLeast0(i - 1 - WindowSize) \in 0..(i - 1)
         /\ IsStretch(BeforeIn(s, i), s, AtLeast0(i - 1 - WindowSize),
                      i - 1 - AtLeast0(i - 1 - WindowSize))
<1>1. PICK a \in Nat : a = AtLeast0(i - 1 - WindowSize) /\ a <= i - 1
  <2>1. PICK d \in Int : d = i - 1 - WindowSize /\ d <= i - 1
    <3>1. i - 1 - WindowSize \in Int /\ i - 1 - WindowSize <= i - 1
      BY DetectorAssumption
    <3>2. QED
      BY <3>1
  <2>2. AtLeast0(d) \in Nat /\ AtLeast0(d) <= i - 1
    <3>1. AtLeast0(d) \in Nat /\ (AtLeast0(d) = d \/ AtLeast0(d) = 0)
      BY <2>1, AtLeast0Is
    <3>2. i - 1 \in Nat
      OBVIOUS
    <3>3. QED
      BY <2>1, <3>1, <3>2
  <2>3. QED
    BY <2>1, <2>2
<1>2. i - 1 \in 0..Len(s) /\ a <= i - 1
  BY <1>1
<1>3. IsStretch(SubSeq(s, a + 1, i - 1), s, a, (i - 1) - a)
  BY <1>2, StretchOf
<1>4. QED
  BY <1>1, <1>2, <1>3 DEF BeforeIn

\* The deque is the window: it takes the value in, and lets the oldest go.
LEMMA BeforeNext ==
  ASSUME NEW s \in Seq(Int), NEW x \in Int
  PROVE  BeforeIn(Append(s, x), Len(s) + 2) = Push(BeforeIn(s, Len(s) + 1), x)
<1>1. PICK m \in Nat : m = Len(s)
  OBVIOUS
<1>2. PICK t \in Seq(Int) : /\ t = Append(s, x) /\ Len(t) = m + 1 /\ t[m + 1] = x
                            /\ \A k \in 1..m : t[k] = s[k]
  <2>1. /\ Append(s, x) \in Seq(Int) /\ Len(Append(s, x)) = m + 1
        /\ Append(s, x)[m + 1] = x /\ \A k \in 1..m : Append(s, x)[k] = s[k]
    BY <1>1
  <2>2. QED
    BY <2>1
<1>3. PICK z \in Nat : z = WindowSize /\ z > 1
  BY DetectorAssumption
<1>4. PICK a \in Nat : /\ a = AtLeast0(m - z)
                       /\ (m - z > 0 => a = m - z) /\ (m - z <= 0 => a = 0)
  <2>1. m - z \in Int
    OBVIOUS
  <2>2. QED
    BY <2>1, AtLeast0Is
<1>5. PICK b \in Nat : /\ b = AtLeast0((m + 1) - z)
                       /\ ((m + 1) - z > 0 => b = (m + 1) - z) /\ ((m + 1) - z <= 0 => b = 0)
  <2>1. (m + 1) - z \in Int
    OBVIOUS
  <2>2. QED
    BY <2>1, AtLeast0Is
<1>6. PICK w, v : w = BeforeIn(s, m + 1) /\ v = BeforeIn(t, m + 2)
  OBVIOUS
<1>7. IsStretch(w, s, a, m - a)
  <2>1. m + 1 \in 1..(Len(s) + 1) /\ (m + 1) - 1 - WindowSize = m - z /\ (m + 1) - 1 = m
    BY <1>1, <1>3
  <2>2. IsStretch(BeforeIn(s, m + 1), s, AtLeast0((m + 1) - 1 - WindowSize),
                  (m + 1) - 1 - AtLeast0((m + 1) - 1 - WindowSize))
    BY <2>1, BeforeShape
  <2>3. QED
    BY <1>4, <1>6, <2>1, <2>2
<1>8. IsStretch(v, t, b, (m + 1) - b)
  <2>1. m + 2 \in 1..(Len(t) + 1) /\ (m + 2) - 1 - WindowSize = (m + 1) - z /\ (m + 2) - 1 = m + 1
    BY <1>2, <1>3
  <2>2. IsStretch(BeforeIn(t, m + 2), t, AtLeast0((m + 2) - 1 - WindowSize),
                  (m + 2) - 1 - AtLeast0((m + 2) - 1 - WindowSize))
    BY <2>1, BeforeShape
  <2>3. QED
    BY <1>5, <1>6, <2>1, <2>2
<1>9. w \in Seq(Int) /\ Len(w) = m - a /\ \A k \in 1..(m - a) : w[k] = s[a + k]
  BY <1>7 DEF IsStretch
<1>10. v \in Seq(Int) /\ Len(v) = (m + 1) - b /\ \A k \in 1..((m + 1) - b) : v[k] = t[b + k]
  BY <1>8 DEF IsStretch
<1>11. CASE m >= z
  <2>1. a = m - z /\ b = m + 1 - z /\ m - a = z /\ (m + 1) - b = z
    <3>1. (m - z > 0 \/ (m - z <= 0 /\ m - z = 0)) /\ (m + 1) - z > 0
      BY <1>11
    <3>2. a = m - z /\ b = (m + 1) - z
      BY <1>4, <1>5, <3>1
    <3>3. QED
      BY <3>2
  <2>2. Len(w) = z /\ w # <<>> /\ \A k \in 1..z : w[k] = s[(m - z) + k]
    BY <1>3, <1>9, <2>1
  <2>3. PICK u \in Seq(Int) : u = Tail(w) /\ Len(u) = z - 1 /\ \A k \in 1..(z - 1) : u[k] = w[k + 1]
    <3>1. Tail(w) \in Seq(Int) /\ Len(Tail(w)) = z - 1 /\ \A k \in 1..(z - 1) : Tail(w)[k] = w[k + 1]
      BY <1>3, <1>9, <2>2
    <3>2. QED
      BY <3>1
  <2>4. PICK p \in Seq(Int) : /\ p = Append(u, x) /\ Len(p) = z /\ p[z] = x
                              /\ \A k \in 1..(z - 1) : p[k] = u[k]
    <3>1. /\ Append(u, x) \in Seq(Int) /\ Len(Append(u, x)) = z /\ Append(u, x)[z] = x
          /\ \A k \in 1..(z - 1) : Append(u, x)[k] = u[k]
      BY <1>3, <2>3
    <3>2. QED
      BY <3>1
  <2>5. ASSUME NEW k \in 1..z PROVE p[k] = v[k]
    <3>1. v[k] = t[(m + 1 - z) + k]
      BY <1>10, <2>1
    <3>2. CASE k = z
      <4>1. (m + 1 - z) + k = m + 1
        BY <3>2
      <4>2. QED
        BY <1>2, <2>4, <3>1, <3>2, <4>1
    <3>3. CASE k # z
      <4>1. k \in 1..(z - 1) /\ k + 1 \in 1..z /\ (m + 1 - z) + k = (m - z) + (k + 1)
        BY <3>3
      <4>2. (m - z) + (k + 1) \in 1..m
        BY <1>11, <4>1
      <4>3. p[k] = s[(m - z) + (k + 1)]
        BY <2>2, <2>3, <2>4, <4>1
      <4>4. QED
        BY <1>2, <3>1, <4>1, <4>2, <4>3
    <3>4. QED
      BY <3>2, <3>3
  <2>6. p = v
    <3>1. Len(p) = Len(v) /\ \A k \in 1..Len(p) : p[k] = v[k]
      BY <1>10, <2>1, <2>4, <2>5
    <3>2. QED
      BY <1>10, <3>1, SeqEqual
  <2>7. Push(w, x) = p
    BY <1>3, <2>2, <2>3, <2>4 DEF Push
  <2>8. QED
    BY <1>1, <1>2, <1>6, <2>6, <2>7
<1>12. CASE m < z
  <2>1. a = 0 /\ b = 0 /\ m - a = m /\ (m + 1) - b = m + 1
    BY <1>3, <1>4, <1>5, <1>12
  <2>2. w \in Seq(Int) /\ Len(w) = m /\ \A k \in 1..m : w[k] = s[k]
    BY <1>9, <2>1
  <2>3. v \in Seq(Int) /\ Len(v) = m + 1 /\ \A k \in 1..(m + 1) : v[k] = t[k]
    BY <1>10, <2>1
  <2>4. PICK p \in Seq(Int) : /\ p = Append(w, x) /\ Len(p) = m + 1 /\ p[m + 1] = x
                              /\ \A k \in 1..m : p[k] = w[k]
    <3>1. /\ Append(w, x) \in Seq(Int) /\ Len(Append(w, x)) = m + 1 /\ Append(w, x)[m + 1] = x
          /\ \A k \in 1..m : Append(w, x)[k] = w[k]
      BY <2>2
    <3>2. QED
      BY <3>1
  <2>5. ASSUME NEW k \in 1..(m + 1) PROVE p[k] = v[k]
    <3>1. CASE k = m + 1
      BY <1>2, <2>3, <2>4, <3>1
    <3>2. CASE k # m + 1
      <4>1. k \in 1..m
        BY <3>2
      <4>2. QED
        BY <1>2, <2>2, <2>3, <2>4, <4>1
    <3>3. QED
      BY <3>1, <3>2
  <2>6. p = v
    BY <2>3, <2>4, <2>5, SeqEqual
  <2>7. Push(w, x) = p
    BY <1>3, <1>12, <2>2, <2>4 DEF Push
  <2>8. QED
    BY <1>1, <1>2, <1>6, <2>6, <2>7
<1>13. QED
  BY <1>11, <1>12

-------------------------------------------------------------------------------
(* CUSUM: which stretches are beyond the slack *)

\* A drift a is more than b standard deviations, v being the variance.
Beyond(v, a, b) == a > 0 /\ a * a > b * b * v

LEMMA SquareUp ==
  ASSUME NEW a \in Nat, NEW b \in Nat
  PROVE  a * a > b * b <=> a > b
<1>1. CASE a > b
  <2>1. PICK d \in Nat : a = b + d /\ d > 0
    <3>1. a - b \in Nat /\ a = b + (a - b) /\ a - b > 0
      BY <1>1
    <3>2. QED
      BY <3>1
  <2>2. (b + d) * (b + d) = b * b + (2 * (b * d) + d * d) /\ b * d >= 0 /\ d * d > 0
    BY <2>1
  <2>3. b * b \in Int /\ b * d \in Int /\ d * d \in Int
    OBVIOUS
  <2>4. QED
    BY <1>1, <2>1, <2>2, <2>3
<1>2. CASE ~(a > b)
  <2>1. PICK d \in Nat : b = a + d
    <3>1. b - a \in Nat /\ b = a + (b - a)
      BY <1>2
    <3>2. QED
      BY <3>1
  <2>2. (a + d) * (a + d) = a * a + (2 * (a * d) + d * d) /\ a * d >= 0 /\ d * d >= 0
    BY <2>1
  <2>3. a * a \in Int /\ a * d \in Int /\ d * d \in Int
    OBVIOUS
  <2>4. QED
    BY <1>2, <2>1, <2>2, <2>3
<1>3. QED
  BY <1>1, <1>2

LEMMA ProductUp ==
  ASSUME NEW a \in Nat, NEW b \in Nat, NEW c \in Nat, NEW d \in Nat
  PROVE  /\ a <= b /\ c <= d => a * c <= b * d
         /\ a > b /\ c > d => a * c > b * d
<1>1. ASSUME a <= b, c <= d PROVE a * c <= b * d
  <2>1. PICK e \in Nat, f \in Nat : b = a + e /\ d = c + f
    <3>1. b - a \in Nat /\ b = a + (b - a) /\ d - c \in Nat /\ d = c + (d - c)
      BY <1>1
    <3>2. QED
      BY <3>1
  <2>2. (a + e) * (c + f) = a * c + (a * f + (e * c + e * f))
    OBVIOUS
  <2>3. a * c \in Nat /\ a * f \in Nat /\ e * c \in Nat /\ e * f \in Nat
    OBVIOUS
  <2>4. QED
    BY <2>1, <2>2, <2>3
<1>2. ASSUME a > b, c > d PROVE a * c > b * d
  <2>1. PICK e \in Nat, f \in Nat : a = b + e /\ c = d + f /\ e > 0 /\ f > 0
    <3>1. /\ a - b \in Nat /\ a = b + (a - b) /\ a - b > 0
          /\ c - d \in Nat /\ c = d + (c - d) /\ c - d > 0
      BY <1>2
    <3>2. QED
      BY <3>1
  <2>2. (b + e) * (d + f) = b * d + (b * f + (e * d + e * f))
    OBVIOUS
  <2>3. b * d \in Nat /\ b * f \in Nat /\ e * d \in Nat /\ e * f \in Nat /\ e * f > 0
    BY <2>1
  <2>4. QED
    BY <2>1, <2>2, <2>3
<1>3. QED
  BY <1>1, <1>2

\* The square of a sum, and of the product of two slacks.
LEMMA Squared ==
  ASSUME NEW v \in Nat, NEW a \in Nat, NEW b \in Nat, NEW c \in Nat, NEW d \in Nat
  PROVE  /\ (a + c) * (a + c) = a * a + 2 * (a * c) + c * c
         /\ (b + d) * (b + d) * v = b * b * v + 2 * (b * d * v) + d * d * v
         /\ (a * a) * (c * c) = (a * c) * (a * c)
         /\ (b * b * v) * (d * d * v) = (b * d * v) * (b * d * v)
<1>1. (a + c) * (a + c) = a * a + 2 * (a * c) + c * c
  OBVIOUS
<1>2. (b + d) * (b + d) * v = b * b * v + 2 * (b * d * v) + d * d * v
  <2>1. (b + d) * (b + d) = b * b + 2 * (b * d) + d * d
    OBVIOUS
  <2>2. PICK x \in Nat, y \in Nat, z \in Nat : x = b * b /\ y = b * d /\ z = d * d
    OBVIOUS
  <2>3. (x + 2 * y + z) * v = x * v + 2 * (y * v) + z * v
    OBVIOUS
  <2>4. QED
    BY <2>1, <2>2, <2>3
<1>3. (a * a) * (c * c) = (a * c) * (a * c)
  OBVIOUS
<1>4. (b * b * v) * (d * d * v) = (b * d * v) * (b * d * v)
  OBVIOUS
<1>5. QED
  BY <1>1, <1>2, <1>3, <1>4

LEMMA BeyondTogether ==
  ASSUME NEW v \in Nat, NEW a \in Int, NEW b \in Nat, NEW c \in Int, NEW d \in Nat,
         Beyond(v, a, b), Beyond(v, c, d)
  PROVE  Beyond(v, a + c, b + d)
<1>1. a \in Nat /\ c \in Nat /\ a > 0 /\ c > 0 /\ a * a > b * b * v /\ c * c > d * d * v
  BY DEF Beyond
<1>2. PICK p \in Nat, q \in Nat, r \in Nat, s \in Nat, y \in Nat, z \in Nat :
        /\ p = a * a /\ q = c * c /\ r = b * b * v /\ s = d * d * v
        /\ y = a * c /\ z = b * d * v
  BY <1>1
<1>3. p > r /\ q > s
  BY <1>1, <1>2
<1>4. p * q > r * s
  BY <1>3, ProductUp
<1>5. p * q = y * y /\ r * s = z * z
  BY <1>1, <1>2, Squared
<1>6. y > z
  BY <1>4, <1>5, SquareUp
<1>7. (a + c) * (a + c) = p + 2 * y + q /\ (b + d) * (b + d) * v = r + 2 * z + s
  BY <1>1, <1>2, Squared
<1>8. (a + c) * (a + c) > (b + d) * (b + d) * v
  BY <1>3, <1>6, <1>7
<1>9. QED
  BY <1>1, <1>8 DEF Beyond

LEMMA NotBeyondTogether ==
  ASSUME NEW v \in Nat, NEW a \in Int, NEW b \in Nat, NEW c \in Int, NEW d \in Nat,
         ~Beyond(v, a, b), ~Beyond(v, c, d)
  PROVE  ~Beyond(v, a + c, b + d)
<1> SUFFICES ASSUME a + c > 0 PROVE (a + c) * (a + c) <= (b + d) * (b + d) * v
  <2>1. (a + c) * (a + c) \in Int /\ (b + d) * (b + d) * v \in Int
    OBVIOUS
  <2>2. QED
    BY <2>1 DEF Beyond
<1>1. PICK r \in Nat, s \in Nat, z \in Nat : r = b * b * v /\ s = d * d * v /\ z = b * d * v
  OBVIOUS
<1>2. (b + d) * (b + d) * v = r + 2 * z + s
  BY <1>1, Squared
<1>3. CASE a > 0 /\ c > 0
  <2>1. PICK p \in Nat, q \in Nat, y \in Nat : p = a * a /\ q = c * c /\ y = a * c
    BY <1>3
  <2>2. p <= r /\ q <= s
    BY <1>1, <1>3, <2>1 DEF Beyond
  <2>3. p * q <= r * s
    BY <2>2, ProductUp
  <2>4. p * q = y * y /\ r * s = z * z
    BY <1>1, <1>3, <2>1, Squared
  <2>5. y <= z
    <3>1. y * y \in Nat /\ z * z \in Nat /\ ~(y * y > z * z)
      BY <2>3, <2>4
    <3>2. ~(y > z)
      BY <3>1, SquareUp
    <3>3. QED
      BY <3>2
  <2>6. (a + c) * (a + c) = p + 2 * y + q
    BY <1>3, <2>1, Squared
  <2>7. QED
    BY <1>2, <2>2, <2>5, <2>6
<1>4. ASSUME NEW e \in Nat, e * e <= r + s, a + c <= e
      PROVE  (a + c) * (a + c) <= (b + d) * (b + d) * v
  <2>1. a + c \in Nat
    OBVIOUS
  <2>2. (a + c) * (a + c) <= e * e
    BY <1>4, <2>1, ProductUp
  <2>3. (a + c) * (a + c) \in Int /\ e * e \in Int
    OBVIOUS
  <2>4. QED
    BY <1>2, <1>4, <2>2, <2>3
<1>5. CASE ~(a > 0)
  <2>1. c \in Nat /\ c > 0 /\ a + c <= c
    BY <1>5
  <2>2. c * c \in Nat /\ c * c <= s
    BY <1>1, <2>1 DEF Beyond
  <2>3. c * c <= r + s
    BY <2>2
  <2>4. QED
    BY <1>4, <2>1, <2>3
<1>6. CASE ~(c > 0)
  <2>1. a \in Nat /\ a > 0 /\ a + c <= a
    BY <1>6
  <2>2. a * a \in Nat /\ a * a <= r
    BY <1>1, <2>1 DEF Beyond
  <2>3. a * a <= r + s
    BY <2>2
  <2>4. QED
    BY <1>4, <2>1, <2>3
<1>7. QED
  BY <1>3, <1>5, <1>6

\* Both directions at once.
LEMMA BothSides ==
  ASSUME NEW v \in Nat, NEW d \in Int, NEW b \in Nat
  PROVE  d * d > b * b * v <=> Beyond(v, d, b) \/ Beyond(v, -d, b)
<1>1. b * b * v \in Nat /\ (-d) * (-d) = d * d /\ d * d \in Int
  OBVIOUS
<1>2. d = 0 => d * d = 0
  OBVIOUS
<1>3. d > 0 \/ -d > 0 \/ d = 0
  OBVIOUS
<1>4. QED
  BY <1>1, <1>2, <1>3 DEF Beyond

\* A sum, or the drift and slack of a stretch.
IsSum(s) == s.drift \in Int /\ s.slack \in Nat

\* s with p and q more is beyond.
Over(v, s, p, q) == Beyond(v, s.drift + p, s.slack + q)

\* The sum h tells what the stretches f[j] of the starts J will be.
Tracks(v, h, f, J) ==
  /\ IsSum(h)
  /\ h = NoSum \/ Beyond(v, h.drift, h.slack)
  /\ \A p \in Int, q \in Nat :
       ~Beyond(v, p, q) => (Over(v, h, p, q) <=> \E j \in J : Over(v, f[j], p, q))

\* The stretches g are the stretches f of the starts J, with e and a more.
Prolonged(f, g, J, e, a) ==
  \A j \in J : /\ IsSum(f[j])
               /\ g[j].drift = f[j].drift + e /\ g[j].slack = f[j].slack + a

\* One value more prolongs every stretch by its deviation e and the slack a, and
\* begins one.
LEMMA TracksStep ==
  ASSUME NEW v \in Nat, NEW h, NEW f, NEW g, NEW J, Tracks(v, h, f, J),
         NEW e \in Int, NEW a \in Nat, NEW n, Prolonged(f, g, J, e, a),
         g[n].drift = e, g[n].slack = a,
         NEW b, b = IF Beyond(v, h.drift + e, h.slack + a)
                    THEN [drift |-> h.drift + e, slack |-> h.slack + a] ELSE NoSum
  PROVE  Tracks(v, b, g, J \cup {n})
<1>1. PICK x \in Int, y \in Nat : x = h.drift /\ y = h.slack
  BY DEF Tracks, IsSum
<1>2. (x = 0 /\ y = 0) \/ Beyond(v, x, y)
  BY <1>1 DEF Tracks, NoSum
<1>3. CASE Beyond(v, x + e, y + a)
  <2>1. b.drift = x + e /\ b.slack = y + a
    BY <1>1, <1>3
  <2>2. IsSum(b) /\ Beyond(v, b.drift, b.slack)
    BY <1>3, <2>1 DEF IsSum
  <2>3. ASSUME NEW p \in Int, NEW q \in Nat, ~Beyond(v, p, q)
        PROVE  Over(v, b, p, q) <=> \E j \in J \cup {n} : Over(v, g[j], p, q)
    <3>1. /\ Over(v, b, p, q) <=> Beyond(v, x + (e + p), y + (a + q))
          /\ Over(v, g[n], p, q) <=> Beyond(v, e + p, a + q)
      <4>1. (x + e) + p = x + (e + p) /\ (y + a) + q = y + (a + q)
        OBVIOUS
      <4>2. QED
        BY <2>1, <4>1 DEF Over
    <3>2. CASE Beyond(v, e + p, a + q)
      <4>1. Beyond(v, x + (e + p), y + (a + q))
        <5>1. CASE x = 0 /\ y = 0
          BY <3>2, <5>1
        <5>2. CASE Beyond(v, x, y)
          BY <3>2, <5>2, BeyondTogether
        <5>3. QED
          BY <1>2, <5>1, <5>2
      <4>2. QED
        BY <3>1, <3>2, <4>1
    <3>3. CASE ~Beyond(v, e + p, a + q)
      <4>1. e + p \in Int /\ a + q \in Nat
        OBVIOUS
      <4>2. Over(v, h, e + p, a + q) <=> \E j \in J : Over(v, f[j], e + p, a + q)
        BY <3>3, <4>1 DEF Tracks
      <4>3. Over(v, h, e + p, a + q) <=> Over(v, b, p, q)
        BY <1>1, <3>1 DEF Over
      <4>4. ASSUME NEW j \in J PROVE Over(v, f[j], e + p, a + q) <=> Over(v, g[j], p, q)
        <5>1. PICK c \in Int, d \in Nat : c = f[j].drift /\ d = f[j].slack
          BY DEF Prolonged, IsSum
        <5>2. g[j].drift = c + e /\ g[j].slack = d + a
          BY <5>1 DEF Prolonged
        <5>3. (c + e) + p = c + (e + p) /\ (d + a) + q = d + (a + q)
          OBVIOUS
        <5>4. QED
          BY <5>1, <5>2, <5>3 DEF Over
      <4>5. QED
        BY <3>1, <3>3, <4>2, <4>3, <4>4
    <3>4. QED
      BY <3>2, <3>3
  <2>4. QED
    BY <2>2, <2>3 DEF Tracks
<1>4. CASE ~Beyond(v, x + e, y + a)
  <2>1. b = NoSum
    BY <1>1, <1>4
  <2>2. b.drift = 0 /\ b.slack = 0 /\ IsSum(b)
    BY <2>1 DEF NoSum, IsSum
  <2>3. ASSUME NEW p \in Int, NEW q \in Nat, ~Beyond(v, p, q)
        PROVE  ~Over(v, b, p, q) /\ \A j \in J \cup {n} : ~Over(v, g[j], p, q)
    <3>1. ~Over(v, b, p, q)
      <4>1. 0 + p = p /\ 0 + q = q
        OBVIOUS
      <4>2. QED
        BY <2>2, <2>3, <4>1 DEF Over
    <3>2. ~Beyond(v, x + (e + p), y + (a + q))
      <4>1. x + e \in Int /\ y + a \in Nat
        OBVIOUS
      <4>2. ~Beyond(v, (x + e) + p, (y + a) + q)
        BY <1>4, <2>3, <4>1, NotBeyondTogether
      <4>3. (x + e) + p = x + (e + p) /\ (y + a) + q = y + (a + q)
        OBVIOUS
      <4>4. QED
        BY <4>2, <4>3
    <3>3. ~Beyond(v, e + p, a + q)
      <4>1. e + p \in Int /\ a + q \in Nat /\ 0 + (e + p) = e + p /\ 0 + (a + q) = a + q
        OBVIOUS
      <4>2. CASE x = 0 /\ y = 0
        BY <3>2, <4>1, <4>2
      <4>3. CASE Beyond(v, x, y)
        BY <3>2, <4>1, <4>3, BeyondTogether
      <4>4. QED
        BY <1>2, <4>2, <4>3
    <3>4. ~Over(v, g[n], p, q)
      BY <3>3 DEF Over
    <3>5. ASSUME NEW j \in J PROVE ~Over(v, g[j], p, q)
      <4>1. e + p \in Int /\ a + q \in Nat
        OBVIOUS
      <4>2. ~Over(v, h, e + p, a + q)
        BY <1>1, <3>2 DEF Over
      <4>3. ~Over(v, f[j], e + p, a + q)
        BY <3>3, <4>1, <4>2 DEF Tracks
      <4>4. PICK c \in Int, d \in Nat : c = f[j].drift /\ d = f[j].slack
        BY DEF Prolonged, IsSum
      <4>5. g[j].drift = c + e /\ g[j].slack = d + a
        BY <4>4 DEF Prolonged
      <4>6. (c + e) + p = c + (e + p) /\ (d + a) + q = d + (a + q)
        OBVIOUS
      <4>7. QED
        BY <4>3, <4>4, <4>5, <4>6 DEF Over
    <3>6. QED
      BY <3>1, <3>4, <3>5
  <2>4. QED
    BY <2>1, <2>2, <2>3 DEF Tracks
<1>5. QED
  BY <1>1, <1>3, <1>4

\* No sum tracks no stretch.
LEMMA TracksNothing ==
  ASSUME NEW v \in Nat, NEW f
  PROVE  Tracks(v, NoSum, f, {})
<1>1. NoSum.drift = 0 /\ NoSum.slack = 0
  BY DEF NoSum
<1>2. ASSUME NEW p \in Int, NEW q \in Nat, ~Beyond(v, p, q) PROVE ~Over(v, NoSum, p, q)
  <2>1. 0 + p = p /\ 0 + q = q
    OBVIOUS
  <2>2. QED
    BY <1>1, <1>2, <2>1 DEF Over
<1>3. QED
  BY <1>1, <1>2 DEF Tracks, IsSum

\* The variance of a warmup, multiplied by the square of its length.
VarianceOf(w) == Len(w) * Squares(w) - Total(w) * Total(w)

LEMMA VarianceNat ==
  ASSUME NEW w \in Seq(Int), Len(w) > 0
  PROVE  VarianceOf(w) \in Nat /\ Spread(w) = Len(w) * VarianceOf(w)
<1>1. PICK n \in Nat, v \in Int : n = Len(w) /\ v = VarianceOf(w) /\ Spread(w) = n * v
  <2>1. VarianceOf(w) \in Int
    BY TotalInt, SpreadIs DEF VarianceOf
  <2>2. QED
    BY <2>1, SpreadIs DEF VarianceOf
<1>2. v \in Nat
  <2>1. n * v >= 0 /\ n > 0
    BY <1>1, SpreadNat
  <2>2. QED
    BY <1>1, <2>1
<1>3. QED
  BY <1>1, <1>2

\* A sum is compared through Spread, a stretch through the variance.
LEMMA AboveIs ==
  ASSUME NEW w \in Seq(Int), w = warmup, Len(w) > 0, NEW s, IsSum(s), NEW t \in Nat
  PROVE  VarianceOf(w) \in Nat /\ (Above(s, t) <=> Over(VarianceOf(w), s, 0, t))
<1>1. PICK n \in Nat, v \in Nat : n = Len(w) /\ v = VarianceOf(w) /\ Spread(w) = n * v
  BY VarianceNat
<1>2. PICK a \in Int, b \in Nat : a = s.drift /\ b = s.slack + t
  <2>1. s.slack + t \in Nat
    BY DEF IsSum
  <2>2. QED
    BY <2>1 DEF IsSum
<1>3. PICK x \in Int, y \in Int : x = a * a /\ y = b * b
  OBVIOUS
<1>4. Above(s, t) <=> a > 0 /\ n * x > y * (n * v)
  BY <1>1, <1>2, <1>3 DEF Above
<1>5. Over(v, s, 0, t) <=> a > 0 /\ x > y * v
  BY <1>2, <1>3 DEF Over, Beyond
<1>6. y * v \in Int /\ y * (n * v) = n * (y * v)
  OBVIOUS
<1>7. n * x > n * (y * v) <=> x > y * v
  BY <1>1, <1>6, Scaled
<1>8. QED
  BY <1>1, <1>4, <1>5, <1>6, <1>7

\* Drift, of any history and warmup.
DriftIn(s, w, j, i) ==
  CusumDen * (WarmupSamples * Total(SubSeq(s, j, i)) - (i - j + 1) * Total(w))

LEMMA DriftInt ==
  ASSUME NEW s \in Seq(Int), NEW w \in Seq(Int), NEW i \in 0..Len(s), NEW j \in 1..(i + 1)
  PROVE  SubSeq(s, j, i) \in Seq(Int) /\ DriftIn(s, w, j, i) \in Int
<1>1. SubSeq(s, j, i) \in Seq(Int)
  <2>1. \A k \in j..i : s[k] \in Int
    <3>1. \A k \in j..i : k \in 1..Len(s)
      OBVIOUS
    <3>2. QED
      BY <3>1
  <2>2. QED
    BY <2>1, SubSeqProperties
<1>2. Total(SubSeq(s, j, i)) \in Int /\ Total(w) \in Int
  BY <1>1, TotalInt
<1>3. PICK a \in Int, b \in Int, c \in Int, d \in Int :
        a = Total(SubSeq(s, j, i)) /\ b = Total(w) /\ c = CusumDen /\ d = WarmupSamples
  BY <1>2, DetectorAssumption
<1>4. c * (d * a - (i - j + 1) * b) \in Int
  OBVIOUS
<1>5. QED
  BY <1>1, <1>3, <1>4 DEF DriftIn

LEMMA DriftStable ==
  ASSUME NEW s \in Seq(Int), NEW w, NEW x \in Int, NEW i \in 0..Len(s), NEW j \in Nat, j >= 1
  PROVE  DriftIn(Append(s, x), w, j, i) = DriftIn(s, w, j, i)
BY StretchStable DEF DriftIn

LEMMA DriftEmpty ==
  ASSUME NEW s, NEW w \in Seq(Int), NEW i \in Nat
  PROVE  DriftIn(s, w, i + 1, i) = 0
<1>1. i + 1 \in Int /\ i \in Int /\ i < i + 1
  OBVIOUS
<1>2. SubSeq(s, i + 1, i) = <<>>
  BY <1>1, SubSeqEmpty
<1>3. PICK b \in Int, c \in Int, d \in Int : b = Total(w) /\ c = CusumDen /\ d = WarmupSamples
  BY TotalInt, DetectorAssumption
<1>4. i - (i + 1) + 1 = 0 /\ c * (d * 0 - 0 * b) = 0
  OBVIOUS
<1>5. QED
  BY <1>2, <1>3, <1>4, TotalEmpty DEF DriftIn

\* What a value adds to every drift that goes on to it.
LEMMA DriftNext ==
  ASSUME NEW s \in Seq(Int), NEW w \in Seq(Int), Len(w) = WarmupSamples, NEW x \in Int,
         NEW j \in 1..(Len(s) + 1)
  PROVE  /\ CusumDen * Deviation(w, x) \in Int
         /\ DriftIn(Append(s, x), w, j, Len(s) + 1)
              = DriftIn(s, w, j, Len(s)) + CusumDen * Deviation(w, x)
<1>1. PICK m \in Nat : m = Len(s)
  OBVIOUS
<1>2. PICK t \in Seq(Int) : t = Append(s, x) /\ Len(t) = m + 1 /\ t[m + 1] = x
  <2>1. Append(s, x) \in Seq(Int) /\ Len(Append(s, x)) = m + 1 /\ Append(s, x)[m + 1] = x
    BY <1>1
  <2>2. QED
    BY <2>1
<1>3. PICK u \in Seq(Int) : u = SubSeq(s, j, m)
  <2>1. m \in 0..Len(s) /\ j \in 1..(m + 1)
    BY <1>1
  <2>2. QED
    BY <2>1, DriftInt
<1>4. SubSeq(t, j, m + 1) = Append(u, x)
  <2>1. j \in 1..Len(t) /\ m + 1 \in j..Len(t) /\ (m + 1) - 1 = m
    BY <1>1, <1>2
  <2>2. SubSeq(t, j, m + 1) = SubSeq(t, j, (m + 1) - 1) \o <<t[m + 1]>>
    BY <2>1, SubSeqRecursiveSecond
  <2>3. SubSeq(t, j, m) = u
    <3>1. j \in Nat /\ j >= 1 /\ m \in 0..Len(s)
      BY <1>1
    <3>2. QED
      BY <1>2, <1>3, <3>1, StretchStable
  <2>4. SubSeq(t, j, m + 1) = u \o <<x>>
    BY <1>2, <2>1, <2>2, <2>3
  <2>5. u \o <<x>> = Append(u, x)
    OBVIOUS
  <2>6. QED
    BY <2>4, <2>5
<1>5. Total(Append(u, x)) = Total(u) + x
  BY TotalAppend
<1>6. PICK a \in Int, b \in Int, c \in Int : a = Total(u) /\ b = Total(w) /\ c = CusumDen
  BY TotalInt, DetectorAssumption
<1>7. PICK p \in Nat : p = WarmupSamples
  BY DetectorAssumption
<1>8. Deviation(w, x) = p * x - b
  BY <1>6, <1>7 DEF Deviation
<1>9. DriftIn(t, w, j, m + 1) = c * (p * (a + x) - ((m + 1) - j + 1) * b)
  BY <1>4, <1>5, <1>6, <1>7 DEF DriftIn
<1>10. DriftIn(s, w, j, m) = c * (p * a - (m - j + 1) * b)
  BY <1>3, <1>6, <1>7 DEF DriftIn
<1>11. c * (p * (a + x) - ((m + 1) - j + 1) * b)
          = c * (p * a - (m - j + 1) * b) + c * (p * x - b)
  <2>1. PICK k \in Int, l \in Int : k = m - j + 1 /\ l = p * a
    OBVIOUS
  <2>2. p * (a + x) = l + p * x /\ ((m + 1) - j + 1) * b = k * b + b
    BY <2>1
  <2>3. PICK f \in Int, g \in Int : f = k * b /\ g = p * x
    BY <2>1
  <2>4. c * ((l + g) - (f + b)) = c * (l - f) + c * (g - b)
    BY <2>1, <2>3
  <2>5. QED
    BY <2>1, <2>2, <2>3, <2>4
<1>12. c * (p * x - b) \in Int
  OBVIOUS
<1>13. QED
  BY <1>1, <1>2, <1>6, <1>8, <1>9, <1>10, <1>11, <1>12

-------------------------------------------------------------------------------
(* The last alarm *)

\* The alarms of CUSUM before the i-th value, and the end of the warmup.
Restarts(al, i) == {j \in 1..(i - 1) : <<"cusum", j>> \in al} \cup {WarmupSamples}

LastIn(al, i) == CHOOSE j \in Restarts(al, i) : \A l \in Restarts(al, i) : l <= j

IsLast(L, al, i) == L \in Restarts(al, i) /\ \A l \in Restarts(al, i) : l <= L

LEMMA LastIs ==
  ASSUME NEW L, NEW al, NEW i \in Nat, IsLast(L, al, i)
  PROVE  LastIn(al, i) = L /\ L \in Nat
<1>1. \A l \in Restarts(al, i) : l \in Nat
  BY DetectorAssumption DEF Restarts
<1>2. L \in Restarts(al, i) /\ \A l \in Restarts(al, i) : l <= L
  BY DEF IsLast
<1>3. \A l \in Restarts(al, i) : (\A k \in Restarts(al, i) : k <= l) => l = L
  BY <1>1, <1>2
<1>4. QED
  BY <1>1, <1>2, <1>3 DEF LastIn

LEMMA RestartsStable ==
  ASSUME NEW al, NEW am, NEW i,
         \A j \in 1..(i - 1) : <<"cusum", j>> \in am <=> <<"cusum", j>> \in al
  PROVE  Restarts(am, i) = Restarts(al, i) /\ LastIn(am, i) = LastIn(al, i)
<1>1. Restarts(am, i) = Restarts(al, i)
  BY DEF Restarts
<1>2. QED
  BY <1>1 DEF LastIn

\* The stretches that end with the history, their drift up and down.
Ups(s, w) ==
  [j \in 1..Len(s) |-> [drift |-> DriftIn(s, w, j, Len(s)),
                        slack |-> (Len(s) - j + 1) * CusumSlack]]
Downs(s, w) ==
  [j \in 1..Len(s) |-> [drift |-> -DriftIn(s, w, j, Len(s)),
                        slack |-> (Len(s) - j + 1) * CusumSlack]]

\* The stretch from j to i is beyond the threshold, upwards or downwards.
StretchBeyond(s, w, j, i) ==
  LET bound == CusumThreshold + (i - j + 1) * CusumSlack
  IN  \/ Beyond(VarianceOf(w), DriftIn(s, w, j, i), bound)
      \/ Beyond(VarianceOf(w), -DriftIn(s, w, j, i), bound)

\* What CusumExact says of the i-th value.
CusumRight(s, w, al, i) == \E j \in (LastIn(al, i) + 1)..i : StretchBeyond(s, w, j, i)

Starts(s, al) == (LastIn(al, Len(s) + 1) + 1)..Len(s)

\* The warmup has the first values, and the sums h and l track the stretches since
\* the last alarm.
CusumInv(s, w, h, l, al) ==
  /\ w \in Seq(Int)
  /\ IF Len(s) <= WarmupSamples THEN w = s
     ELSE Len(w) = WarmupSamples /\ w = SubSeq(s, 1, WarmupSamples)
  /\ Len(s) <= WarmupSamples => h = NoSum /\ l = NoSum
  /\ \A j : <<"cusum", j>> \in al => j \in (WarmupSamples + 1)..Len(s)
  /\ \A i \in 1..(Len(s) + 1) : IsLast(LastIn(al, i), al, i)
  /\ Len(s) >= WarmupSamples => /\ Tracks(VarianceOf(w), h, Ups(s, w), Starts(s, al))
                                /\ Tracks(VarianceOf(w), l, Downs(s, w), Starts(s, al))
  /\ \A i \in 1..Len(s) : <<"cusum", i>> \in al <=> CusumRight(s, w, al, i)

\* What the next value, with deviation e, makes of the stretches.
StretchesMoved(s, t, w, e) ==
  /\ Prolonged(Ups(s, w), Ups(t, w), 1..Len(s), e, CusumSlack)
  /\ Prolonged(Downs(s, w), Downs(t, w), 1..Len(s), -e, CusumSlack)
  /\ Ups(t, w)[Len(s) + 1].drift = e /\ Ups(t, w)[Len(s) + 1].slack = CusumSlack
  /\ Downs(t, w)[Len(s) + 1].drift = -e /\ Downs(t, w)[Len(s) + 1].slack = CusumSlack

LEMMA StretchesNext ==
  ASSUME NEW s \in Seq(Int), NEW w \in Seq(Int), Len(w) = WarmupSamples, NEW x \in Int
  PROVE  /\ CusumDen * Deviation(w, x) \in Int
         /\ StretchesMoved(s, Append(s, x), w, CusumDen * Deviation(w, x))
<1>1. PICK m \in Nat : m = Len(s)
  OBVIOUS
<1>2. PICK t \in Seq(Int) : t = Append(s, x) /\ Len(t) = m + 1
  <2>1. Append(s, x) \in Seq(Int) /\ Len(Append(s, x)) = m + 1
    BY <1>1
  <2>2. QED
    BY <2>1
<1>3. PICK a \in Nat : a = CusumSlack
  BY DetectorAssumption
<1>4. 1 \in 1..(Len(s) + 1)
  BY <1>1
<1>5. PICK e \in Int : e = CusumDen * Deviation(w, x)
  BY <1>4, DriftNext
<1>6. \A j \in 1..(m + 1) : DriftIn(t, w, j, m + 1) = DriftIn(s, w, j, m) + e
  BY <1>1, <1>2, <1>5, DriftNext
<1>7. \A j \in 1..m : DriftIn(s, w, j, m) \in Int
  <2>1. m \in 0..Len(s) /\ \A j \in 1..m : j \in 1..(m + 1)
    BY <1>1
  <2>2. QED
    BY <2>1, DriftInt
<1>8. DriftIn(s, w, m + 1, m) = 0
  BY <1>1, DriftEmpty
<1>9. /\ \A j \in 1..m : /\ Ups(s, w)[j].drift = DriftIn(s, w, j, m)
                         /\ Downs(s, w)[j].drift = -DriftIn(s, w, j, m)
                         /\ Ups(s, w)[j].slack = (m - j + 1) * a
                         /\ Downs(s, w)[j].slack = (m - j + 1) * a
  BY <1>1, <1>3 DEF Ups, Downs
<1>10. \A j \in 1..(m + 1) : /\ Ups(t, w)[j].drift = DriftIn(t, w, j, m + 1)
                             /\ Downs(t, w)[j].drift = -DriftIn(t, w, j, m + 1)
                             /\ Ups(t, w)[j].slack = ((m + 1) - j + 1) * a
                             /\ Downs(t, w)[j].slack = ((m + 1) - j + 1) * a
  BY <1>2, <1>3 DEF Ups, Downs
<1>11. ASSUME NEW j \in 1..m
       PROVE  /\ IsSum(Ups(s, w)[j]) /\ IsSum(Downs(s, w)[j])
              /\ Ups(t, w)[j].drift = Ups(s, w)[j].drift + e
              /\ Downs(t, w)[j].drift = Downs(s, w)[j].drift + -e
              /\ Ups(t, w)[j].slack = Ups(s, w)[j].slack + a
              /\ Downs(t, w)[j].slack = Downs(s, w)[j].slack + a
  <2>1. PICK d \in Int : d = DriftIn(s, w, j, m)
    BY <1>7
  <2>2. j \in 1..(m + 1)
    BY <1>1
  <2>3. DriftIn(t, w, j, m + 1) = d + e
    BY <1>6, <2>1, <2>2
  <2>4. PICK k \in Nat : k = m - j + 1
    <3>1. m - j + 1 \in Nat
      OBVIOUS
    <3>2. QED
      BY <3>1
  <2>5. (m + 1) - j + 1 = k + 1 /\ k * a \in Nat /\ (k + 1) * a = k * a + a
    BY <2>4
  <2>6. -(d + e) = -d + -e /\ -d \in Int
    OBVIOUS
  <2>7. QED
    BY <1>9, <1>10, <2>1, <2>2, <2>3, <2>4, <2>5, <2>6 DEF IsSum
<1>12. /\ Ups(t, w)[m + 1].drift = e /\ Ups(t, w)[m + 1].slack = a
       /\ Downs(t, w)[m + 1].drift = -e /\ Downs(t, w)[m + 1].slack = a
  <2>1. m + 1 \in 1..(m + 1) /\ 0 + e = e
    BY <1>1
  <2>2. DriftIn(t, w, m + 1, m + 1) = e
    BY <1>6, <1>8, <2>1
  <2>3. ((m + 1) - (m + 1) + 1) * a = a
    OBVIOUS
  <2>4. QED
    BY <1>10, <2>1, <2>2, <2>3
<1>13. QED
  BY <1>1, <1>2, <1>3, <1>5, <1>11, <1>12 DEF StretchesMoved, Prolonged

\* What High and Low make of the sum h, with deviation e.
NextSum(v, h, e) ==
  IF Beyond(v, h.drift + e, h.slack + CusumSlack)
  THEN [drift |-> h.drift + e, slack |-> h.slack + CusumSlack] ELSE NoSum

\* A value that is scored.
LEMMA CusumScored ==
  ASSUME NEW s \in Seq(Int), NEW w, NEW h, NEW l, NEW al, CusumInv(s, w, h, l, al),
         Len(s) >= WarmupSamples, VarianceOf(w) \in Nat,
         NEW x \in Int, NEW hi, NEW lo, NEW fires \in BOOLEAN, NEW am,
         hi = NextSum(VarianceOf(w), h, CusumDen * Deviation(w, x)),
         lo = NextSum(VarianceOf(w), l, -(CusumDen * Deviation(w, x))),
         fires <=> \/ Over(VarianceOf(w), hi, 0, CusumThreshold)
                   \/ Over(VarianceOf(w), lo, 0, CusumThreshold),
         \A j : <<"cusum", j>> \in am <=> <<"cusum", j>> \in al \/ (j = Len(s) + 1 /\ fires)
  PROVE  CusumInv(Append(s, x), w, IF fires THEN NoSum ELSE hi, IF fires THEN NoSum ELSE lo, am)
<1>1. PICK m \in Nat, z \in Nat : m = Len(s) /\ z = WarmupSamples /\ m >= z /\ z >= 2
  BY DetectorAssumption
<1>2. PICK t \in Seq(Int) : t = Append(s, x) /\ Len(t) = m + 1
  <2>1. Append(s, x) \in Seq(Int) /\ Len(Append(s, x)) = m + 1
    BY <1>1
  <2>2. QED
    BY <2>1
<1>3. w \in Seq(Int) /\ Len(w) = z
  BY <1>1 DEF CusumInv
<1>4. PICK e \in Int, a \in Nat : e = CusumDen * Deviation(w, x) /\ a = CusumSlack
  BY <1>1, <1>3, StretchesNext, DetectorAssumption
<1>5. PICK v \in Nat, limit \in Nat : v = VarianceOf(w) /\ limit = CusumThreshold
  BY DetectorAssumption
<1>6. PICK L \in Nat : L = LastIn(al, m + 1) /\ IsLast(L, al, m + 1) /\ L \in z..m
  <2>1. IsLast(LastIn(al, m + 1), al, m + 1)
    BY <1>1 DEF CusumInv
  <2>2. LastIn(al, m + 1) \in Nat
    BY <1>1, <2>1, LastIs
  <2>3. LastIn(al, m + 1) \in Restarts(al, m + 1) /\ z <= LastIn(al, m + 1)
    BY <1>1, <2>1 DEF IsLast, Restarts
  <2>4. LastIn(al, m + 1) \in 1..m \/ LastIn(al, m + 1) = z
    BY <1>1, <2>3 DEF Restarts
  <2>5. QED
    BY <1>1, <2>1, <2>2, <2>3, <2>4
<1> DEFINE J == (L + 1)..m
           K == (L + 1)..(m + 1)
<1>7. J \cup {m + 1} = K /\ J \subseteq 1..m
  <2>1. \A j \in K : j \in J \/ j = m + 1
    BY <1>6
  <2>2. \A j \in J : j \in K /\ j \in 1..m
    BY <1>6
  <2>3. m + 1 \in K
    BY <1>6
  <2> HIDE DEF J, K
  <2>4. QED
    BY <2>1, <2>2, <2>3
<1>8. Starts(s, al) = J
  BY <1>1, <1>6 DEF Starts
<1>9. PICK f, g, fd, gd : f = Ups(s, w) /\ g = Ups(t, w) /\ fd = Downs(s, w) /\ gd = Downs(t, w)
  OBVIOUS
<1>10. /\ Prolonged(f, g, J, e, a) /\ Prolonged(fd, gd, J, -e, a)
       /\ g[m + 1].drift = e /\ g[m + 1].slack = a
       /\ gd[m + 1].drift = -e /\ gd[m + 1].slack = a
  <2>1. StretchesMoved(s, t, w, e)
    BY <1>1, <1>2, <1>3, <1>4, StretchesNext
  <2>2. /\ Prolonged(f, g, 1..m, e, a) /\ Prolonged(fd, gd, 1..m, -e, a)
        /\ g[m + 1].drift = e /\ g[m + 1].slack = a
        /\ gd[m + 1].drift = -e /\ gd[m + 1].slack = a
    BY <1>1, <1>4, <1>9, <2>1 DEF StretchesMoved
  <2> HIDE DEF J, K
  <2>3. QED
    BY <1>7, <2>2 DEF Prolonged
<1>11. Tracks(v, h, f, J) /\ Tracks(v, l, fd, J)
  BY <1>1, <1>5, <1>8, <1>9 DEF CusumInv
<1>12. /\ hi = IF Beyond(v, h.drift + e, h.slack + a)
                THEN [drift |-> h.drift + e, slack |-> h.slack + a] ELSE NoSum
       /\ lo = IF Beyond(v, l.drift + -e, l.slack + a)
                THEN [drift |-> l.drift + -e, slack |-> l.slack + a] ELSE NoSum
  BY <1>4, <1>5 DEF NextSum
<1>13. 0 \in Int /\ limit \in Nat /\ ~Beyond(v, 0, limit)
  BY DEF Beyond
<1>14. Tracks(v, hi, g, K) /\ (Over(v, hi, 0, limit) <=> \E j \in K : Over(v, g[j], 0, limit))
  <2> HIDE DEF J, K
  <2>1. Tracks(v, hi, g, J \cup {m + 1})
    BY <1>10, <1>11, <1>12, TracksStep, Zenon
  <2>2. Tracks(v, hi, g, K)
    BY <1>7, <2>1
  <2>3. QED
    BY <1>13, <2>2 DEF Tracks
<1>15. Tracks(v, lo, gd, K) /\ (Over(v, lo, 0, limit) <=> \E j \in K : Over(v, gd[j], 0, limit))
  <2>1. -e \in Int
    OBVIOUS
  <2> HIDE DEF J, K
  <2>2. Tracks(v, lo, gd, J \cup {m + 1})
    BY <1>10, <1>11, <1>12, <2>1, TracksStep, Zenon
  <2>3. Tracks(v, lo, gd, K)
    BY <1>7, <2>2
  <2>4. QED
    BY <1>13, <2>3 DEF Tracks
<1>16. ASSUME NEW i \in 1..(m + 1)
       PROVE  Restarts(am, i) = Restarts(al, i) /\ LastIn(am, i) = LastIn(al, i)
  <2>1. \A j \in 1..(i - 1) : j # Len(s) + 1
    BY <1>1
  <2>2. \A j \in 1..(i - 1) : <<"cusum", j>> \in am <=> <<"cusum", j>> \in al
    BY <2>1
  <2>3. QED
    BY <2>2, RestartsStable
<1>17. fires <=> CusumRight(t, w, am, m + 1)
  <2>1. LastIn(am, m + 1) = L
    BY <1>6, <1>16
  <2>2. ASSUME NEW j \in K
        PROVE  StretchBeyond(t, w, j, m + 1) <=> Over(v, g[j], 0, limit) \/ Over(v, gd[j], 0, limit)
    <3>1. j \in 1..Len(t) /\ j \in 1..(m + 1)
      BY <1>2, <1>6
    <3>2. PICK d \in Int, k \in Nat : d = DriftIn(t, w, j, m + 1) /\ k = ((m + 1) - j + 1) * a
      <4>1. m + 1 \in 0..Len(t) /\ j \in 1..((m + 1) + 1)
        BY <1>2, <3>1
      <4>2. DriftIn(t, w, j, m + 1) \in Int
        BY <1>3, <4>1, DriftInt
      <4>3. PICK k \in Nat : k = (m + 1) - j + 1
        BY <3>1
      <4>4. k * a \in Nat
        OBVIOUS
      <4>5. QED
        BY <4>2, <4>3, <4>4
    <3>3. g[j].drift = d /\ g[j].slack = k /\ gd[j].drift = -d /\ gd[j].slack = k
      BY <1>2, <1>4, <1>9, <3>1, <3>2 DEF Ups, Downs
    <3>4. d + 0 = d /\ -d + 0 = -d /\ k + limit = limit + k
      OBVIOUS
    <3>5. /\ Over(v, g[j], 0, limit) <=> Beyond(v, d, limit + k)
          /\ Over(v, gd[j], 0, limit) <=> Beyond(v, -d, limit + k)
      BY <3>3, <3>4 DEF Over
    <3>6. StretchBeyond(t, w, j, m + 1) <=> Beyond(v, d, limit + k) \/ Beyond(v, -d, limit + k)
      BY <1>4, <1>5, <3>2 DEF StretchBeyond
    <3>7. QED
      BY <3>5, <3>6
  <2>3. CusumRight(t, w, am, m + 1) <=> \E j \in K : StretchBeyond(t, w, j, m + 1)
    BY <2>1 DEF CusumRight
  <2>4. fires <=> Over(v, hi, 0, limit) \/ Over(v, lo, 0, limit)
    BY <1>5
  <2> HIDE DEF K
  <2>5. QED
    BY <1>14, <1>15, <2>2, <2>3, <2>4
<1>18. ASSUME NEW i \in 1..(m + 1) PROVE IsLast(LastIn(am, i), am, i)
  <2>1. IsLast(LastIn(al, i), al, i)
    BY <1>1 DEF CusumInv
  <2>2. QED
    BY <1>16, <2>1 DEF IsLast
<1>19. \A j : <<"cusum", j>> \in al => j \in (z + 1)..m
  BY <1>1 DEF CusumInv
<1>20. Restarts(am, m + 2) = Restarts(am, m + 1) \cup {j \in {m + 1} : fires}
  <2>1. 1..((m + 2) - 1) = 1..((m + 1) - 1) \cup {m + 1}
    OBVIOUS
  <2>2. <<"cusum", m + 1>> \in am <=> fires
    <3>1. ~(m + 1 \in (z + 1)..m)
      OBVIOUS
    <3>2. QED
      BY <1>1, <1>19, <3>1
  <2>3. QED
    BY <2>1, <2>2 DEF Restarts
<1>21. IsLast(IF fires THEN m + 1 ELSE L, am, m + 2)
  <2>1. Restarts(am, m + 1) = Restarts(al, m + 1)
    BY <1>16
  <2>2. \A k \in Restarts(am, m + 1) : k \in Nat /\ k <= L
    <3>1. \A k \in Restarts(al, m + 1) : k \in Nat
      <4>1. \A k \in 1..((m + 1) - 1) : k \in Nat
        OBVIOUS
      <4>2. QED
        BY <1>1, <4>1 DEF Restarts
    <3>2. QED
      BY <1>6, <2>1, <3>1 DEF IsLast
  <2>3. L \in Restarts(am, m + 1)
    BY <1>6, <2>1 DEF IsLast
  <2>4. CASE fires
    <3>1. Restarts(am, m + 2) = Restarts(am, m + 1) \cup {m + 1}
      BY <1>20, <2>4
    <3>2. \A k \in Nat : k <= L => k <= m + 1
      BY <1>6
    <3>3. \A k \in Restarts(am, m + 1) : k <= m + 1
      BY <2>2, <3>2
    <3>4. m + 1 <= m + 1
      OBVIOUS
    <3>5. \A k \in Restarts(am, m + 2) : k <= m + 1
      BY <3>1, <3>3, <3>4
    <3>6. QED
      BY <2>4, <3>1, <3>5 DEF IsLast
  <2>5. CASE ~fires
    <3>1. Restarts(am, m + 2) = Restarts(am, m + 1)
      BY <1>20, <2>5
    <3>2. QED
      BY <2>2, <2>3, <2>5, <3>1 DEF IsLast
  <2>6. QED
    BY <2>4, <2>5
<1>22. LastIn(am, m + 2) = IF fires THEN m + 1 ELSE L
  BY <1>21, LastIs
<1>23. \A i \in 1..(Len(t) + 1) : IsLast(LastIn(am, i), am, i)
  <2>1. \A i \in 1..(Len(t) + 1) : i \in 1..(m + 1) \/ i = m + 2
    BY <1>2
  <2>2. QED
    BY <1>18, <1>21, <1>22, <2>1
<1>24. /\ Tracks(v, IF fires THEN NoSum ELSE hi, g, Starts(t, am))
       /\ Tracks(v, IF fires THEN NoSum ELSE lo, gd, Starts(t, am))
  <2>1. Starts(t, am) = (LastIn(am, m + 2) + 1)..(m + 1)
    <3>1. Len(t) + 1 = m + 2
      BY <1>2
    <3>2. QED
      BY <1>2, <3>1 DEF Starts
  <2>2. CASE fires
    <3>1. Starts(t, am) = {}
      BY <1>22, <2>1, <2>2
    <3>2. QED
      BY <2>2, <3>1, TracksNothing
  <2>3. CASE ~fires
    <3>1. Starts(t, am) = K
      BY <1>22, <2>1, <2>3
    <3> HIDE DEF K
    <3>2. QED
      BY <1>14, <1>15, <2>3, <3>1
  <2>4. QED
    BY <2>2, <2>3
<1>25. ASSUME NEW i \in 1..Len(t) PROVE <<"cusum", i>> \in am <=> CusumRight(t, w, am, i)
  <2>1. CASE i = m + 1
    <3>1. <<"cusum", m + 1>> \in am <=> fires
      <4>1. ~(m + 1 \in (z + 1)..m)
        OBVIOUS
      <4>2. QED
        BY <1>1, <1>19, <4>1
    <3>2. QED
      BY <1>17, <2>1, <3>1
  <2>2. CASE i # m + 1
    <3>1. i \in 1..m /\ i \in 0..Len(s) /\ i \in 1..(m + 1)
      BY <1>1, <1>2, <2>2
    <3>2. <<"cusum", i>> \in am <=> CusumRight(s, w, al, i)
      BY <1>1, <2>2, <3>1 DEF CusumInv
    <3>3. LastIn(am, i) = LastIn(al, i) /\ LastIn(al, i) \in Nat
      <4>1. IsLast(LastIn(al, i), al, i)
        BY <1>1, <3>1 DEF CusumInv
      <4>2. QED
        BY <1>16, <3>1, <4>1, LastIs
    <3>4. PICK M \in Nat : M = LastIn(al, i) /\ M = LastIn(am, i)
      BY <3>3
    <3>5. \A j \in (M + 1)..i : DriftIn(t, w, j, i) = DriftIn(s, w, j, i)
      <4>1. \A j \in (M + 1)..i : j \in Nat /\ j >= 1
        BY <3>4
      <4>2. QED
        BY <1>2, <3>1, <4>1, DriftStable
    <3>6. CusumRight(t, w, am, i) <=> CusumRight(s, w, al, i)
      BY <3>4, <3>5 DEF CusumRight, StretchBeyond
    <3>7. QED
      BY <3>2, <3>6
  <2>3. QED
    BY <2>1, <2>2
<1>26. \A j : <<"cusum", j>> \in am => j \in (z + 1)..Len(t)
  <2>1. \A j \in (z + 1)..m : j \in (z + 1)..Len(t)
    BY <1>2
  <2>2. m + 1 \in (z + 1)..Len(t)
    BY <1>1, <1>2
  <2>3. QED
    BY <1>1, <1>19, <2>1, <2>2
<1>27. w = SubSeq(t, 1, z)
  <2>1. w = SubSeq(s, 1, z)
    <3>1. CASE m <= z
      <4>1. w = s /\ m = z
        BY <1>1, <3>1 DEF CusumInv
      <4>2. QED
        BY <1>1, <4>1, WholeStretch
    <3>2. CASE ~(m <= z)
      BY <1>1, <3>2 DEF CusumInv
    <3>3. QED
      BY <3>1, <3>2
  <2>2. z \in 0..Len(s) /\ 1 \in Nat
    BY <1>1
  <2>3. QED
    BY <1>2, <2>1, <2>2, StretchStable
<1>28. ~(Len(t) <= WarmupSamples) /\ Len(t) >= WarmupSamples
  BY <1>1, <1>2
<1>29. QED
  BY <1>1, <1>2, <1>3, <1>5, <1>9, <1>23, <1>24, <1>25, <1>26, <1>27, <1>28 DEF CusumInv

\* A value that the warmup absorbs.
LEMMA CusumAbsorbed ==
  ASSUME NEW s \in Seq(Int), NEW w, NEW h, NEW l, NEW al, CusumInv(s, w, h, l, al),
         Len(s) < WarmupSamples, NEW x \in Int, NEW am,
         \A j : <<"cusum", j>> \in am <=> <<"cusum", j>> \in al
  PROVE  CusumInv(Append(s, x), Append(w, x), h, l, am)
<1>1. PICK m \in Nat, z \in Nat : m = Len(s) /\ z = WarmupSamples /\ m < z /\ z >= 2
  BY DetectorAssumption
<1>2. PICK t \in Seq(Int) : t = Append(s, x) /\ Len(t) = m + 1
  <2>1. Append(s, x) \in Seq(Int) /\ Len(Append(s, x)) = m + 1
    BY <1>1
  <2>2. QED
    BY <2>1
<1>3. w = s /\ h = NoSum /\ l = NoSum
  BY <1>1 DEF CusumInv
<1>4. \A j : <<"cusum", j>> \notin al /\ <<"cusum", j>> \notin am
  <2>1. (z + 1)..Len(s) = {}
    BY <1>1
  <2>2. QED
    BY <1>1, <2>1 DEF CusumInv
<1>5. ASSUME NEW i \in 1..(m + 2) PROVE IsLast(z, am, i) /\ LastIn(am, i) = z
  <2>1. Restarts(am, i) = {z}
    BY <1>1, <1>4 DEF Restarts
  <2>2. IsLast(z, am, i)
    BY <1>1, <2>1 DEF IsLast
  <2>3. QED
    BY <2>2, LastIs
<1>6. Starts(t, am) = {}
  <2>1. Len(t) + 1 \in 1..(m + 2)
    BY <1>1, <1>2
  <2>2. LastIn(am, Len(t) + 1) = z
    BY <1>5, <2>1
  <2>3. QED
    BY <1>1, <1>2, <2>2 DEF Starts
<1>7. Len(t) >= z => VarianceOf(t) \in Nat
  <2>1. Len(t) \in Nat /\ Len(t) > 0
    BY <1>1, <1>2
  <2>2. QED
    BY <2>1, VarianceNat
<1>8. Len(t) >= z => /\ Tracks(VarianceOf(t), h, Ups(t, t), Starts(t, am))
                     /\ Tracks(VarianceOf(t), l, Downs(t, t), Starts(t, am))
  BY <1>3, <1>6, <1>7, TracksNothing
<1>9. ASSUME NEW i \in 1..Len(t) PROVE ~CusumRight(t, t, am, i)
  <2>1. i \in 1..(m + 2) /\ i <= z
    BY <1>1, <1>2
  <2>2. (LastIn(am, i) + 1)..i = {}
    BY <1>1, <1>5, <2>1
  <2>3. QED
    BY <2>2 DEF CusumRight
<1>10. \A i \in 1..(Len(t) + 1) : IsLast(LastIn(am, i), am, i)
  BY <1>2, <1>5
<1>11. Len(t) <= WarmupSamples
  BY <1>1, <1>2
<1>12. QED
  BY <1>1, <1>2, <1>3, <1>4, <1>8, <1>9, <1>10, <1>11 DEF CusumInv

-------------------------------------------------------------------------------
(* The detectors *)

\* The z-score and the IQR detector have fired where they should.
ZExactIn(s, al) ==
  \A i \in 1..Len(s) : <<"z_score", i>> \in al <=> ZRight(BeforeIn(s, i), s[i])

IqrExactIn(s, al) ==
  \A i \in 1..Len(s) : <<"iqr", i>> \in al <=> IqrRight(BeforeIn(s, i), s[i])

\* What the detectors keep, by what they have seen.
DetectorsInv ==
  /\ seen \in Seq(Int)
  /\ \A a \in alarms : \E d \in {"z_score", "iqr", "cusum"} : \E i \in 1..Len(seen) : a = <<d, i>>
  /\ zWindow = BeforeIn(seen, Len(seen) + 1)
  /\ iWindow = BeforeIn(seen, Len(seen) + 1)
  /\ IsView(sorted, iWindow)
  /\ CusumInv(seen, warmup, sHigh, sLow, alarms)
  /\ ZExactIn(seen, alarms)
  /\ IqrExactIn(seen, alarms)

\* Nothing seen, nothing kept.
LEMMA NothingKept ==
  ASSUME NEW s, s = <<>>, NEW z, z = <<>>, NEW v, v = <<>>, NEW w, w = <<>>,
         NEW h, h = NoSum, NEW l, l = NoSum, NEW al, al = {}
  PROVE  /\ s \in Seq(Int)
         /\ z = BeforeIn(s, Len(s) + 1)
         /\ IsView(v, z)
         /\ CusumInv(s, w, h, l, al)
         /\ ZExactIn(s, al) /\ IqrExactIn(s, al)
<1>1. s \in Seq(Int) /\ Len(s) = 0
  OBVIOUS
<1>2. BeforeIn(s, Len(s) + 1) = <<>>
  <2>1. PICK n \in Nat : n = WindowSize /\ n > 1
    BY DetectorAssumption
  <2>2. (0 + 1) - 1 - n \in Int /\ (0 + 1) - 1 - n <= 0
    BY <2>1
  <2>3. AtLeast0((0 + 1) - 1 - n) = 0
    BY <2>2, AtLeast0Is
  <2>4. BeforeIn(s, Len(s) + 1) = SubSeq(s, 0 + 1, (0 + 1) - 1)
    BY <1>1, <2>1, <2>3 DEF BeforeIn
  <2>5. SubSeq(s, 1, 0) = <<>>
    BY SubSeqEmpty
  <2>6. QED
    BY <2>4, <2>5
<1>3. IsView(v, z)
  <2>1. v = z /\ v \in Seq(Int) /\ DOMAIN v = {}
    OBVIOUS
  <2>2. QED
    BY <2>1 DEF IsView, Ascending
<1>4. CusumInv(s, w, h, l, al)
  <2>1. \A j : <<"cusum", j>> \notin al
    OBVIOUS
  <2>2. PICK n \in Nat : n = WarmupSamples /\ n >= 2
    BY DetectorAssumption
  <2>3. ASSUME NEW i \in 1..1 PROVE IsLast(LastIn(al, i), al, i)
    <3>1. Restarts(al, i) = {n}
      BY <2>1, <2>2 DEF Restarts
    <3>2. IsLast(n, al, i)
      BY <2>2, <3>1 DEF IsLast
    <3>3. QED
      BY <3>2, LastIs
  <2>4. w \in Seq(Int) /\ w = s /\ Len(s) <= WarmupSamples /\ ~(Len(s) >= WarmupSamples)
    BY <1>1, <2>2
  <2>5. 1..Len(s) = {} /\ 1..(Len(s) + 1) = 1..1
    BY <1>1
  <2>6. QED
    BY <2>1, <2>3, <2>4, <2>5 DEF CusumInv
<1>5. ZExactIn(s, al) /\ IqrExactIn(s, al)
  <2>1. 1..Len(s) = {}
    BY <1>1
  <2>2. QED
    BY <2>1 DEF ZExactIn, IqrExactIn
<1>6. QED
  BY <1>1, <1>2, <1>3, <1>4, <1>5

LEMMA DetectorsInvInit == DetectorsInit => DetectorsInv
<1> SUFFICES ASSUME DetectorsInit PROVE DetectorsInv
  OBVIOUS
<1>1. /\ seen \in Seq(Int)
      /\ zWindow = BeforeIn(seen, Len(seen) + 1)
      /\ iWindow = BeforeIn(seen, Len(seen) + 1)
      /\ IsView(sorted, iWindow)
      /\ CusumInv(seen, warmup, sHigh, sLow, alarms)
      /\ ZExactIn(seen, alarms) /\ IqrExactIn(seen, alarms)
  BY NothingKept DEF DetectorsInit
<1>2. alarms = {}
  BY DEF DetectorsInit
<1>3. QED
  BY <1>1, <1>2 DEF DetectorsInv

LEMMA DetectorsInvReset == Reset => DetectorsInv'
<1> SUFFICES ASSUME Reset PROVE DetectorsInv'
  OBVIOUS
<1>1. /\ seen' \in Seq(Int)
      /\ zWindow' = BeforeIn(seen', Len(seen') + 1)
      /\ iWindow' = BeforeIn(seen', Len(seen') + 1)
      /\ IsView(sorted', iWindow')
      /\ CusumInv(seen', warmup', sHigh', sLow', alarms')
      /\ ZExactIn(seen', alarms') /\ IqrExactIn(seen', alarms')
  BY NothingKept DEF Reset
<1>2. alarms' = {}
  BY DEF Reset
<1>3. QED
  BY <1>1, <1>2 DEF DetectorsInv

\* The alarms a value raises.
LEMMA DetectAlarms ==
  ASSUME NEW x, Detect(x), NEW m \in Nat, m = Len(seen)
  PROVE  /\ \A i : <<"z_score", i>> \in alarms' <=>
                     <<"z_score", i>> \in alarms \/ (i = m + 1 /\ ZAlarm(zWindow, x))
         /\ \A i : <<"iqr", i>> \in alarms' <=>
                     <<"iqr", i>> \in alarms \/ (i = m + 1 /\ IqrAlarm(sorted, x))
         /\ \A i : <<"cusum", i>> \in alarms' <=>
                     <<"cusum", i>> \in alarms \/ (i = m + 1 /\ CusumAlarm(x))
         /\ \A a \in alarms' : a \in alarms \/ \E d \in {"z_score", "iqr", "cusum"} : a = <<d, m + 1>>
<1> DEFINE raised(a) == CASE a[1] = "z_score" -> ZAlarm(zWindow, x)
                          [] a[1] = "iqr"     -> IqrAlarm(sorted, x)
                          [] OTHER            -> CusumAlarm(x)
           new == {a \in {"z_score", "iqr", "cusum"} \X {m + 1} : raised(a)}
<1>1. alarms' = alarms \cup new
  BY DEF Detect
<1>2. /\ \A i : raised(<<"z_score", i>>) <=> ZAlarm(zWindow, x)
      /\ \A i : raised(<<"iqr", i>>) <=> IqrAlarm(sorted, x)
      /\ \A i : raised(<<"cusum", i>>) <=> CusumAlarm(x)
  OBVIOUS
<1> HIDE DEF raised
<1>3. \A d \in {"z_score", "iqr", "cusum"} : \A i : <<d, i>> \in new <=> i = m + 1 /\ raised(<<d, i>>)
  OBVIOUS
<1>4. \A a \in new : \E d \in {"z_score", "iqr", "cusum"} : a = <<d, m + 1>>
  OBVIOUS
<1> HIDE DEF new
<1>5. QED
  BY <1>1, <1>2, <1>3, <1>4

\* Of a detector that scores a value by what came before it and has been right
\* so far: it stays so.
LEMMA ZExactNext ==
  ASSUME NEW s \in Seq(Int), NEW x \in Int, NEW al, NEW am, ZExactIn(s, al),
         <<"z_score", Len(s) + 1>> \notin al,
         \A i : <<"z_score", i>> \in am <=>
           <<"z_score", i>> \in al \/ (i = Len(s) + 1 /\ ZRight(BeforeIn(s, Len(s) + 1), x))
  PROVE  ZExactIn(Append(s, x), am)
<1>1. PICK m \in Nat : m = Len(s)
  OBVIOUS
<1>2. Len(Append(s, x)) = m + 1 /\ Append(s, x)[m + 1] = x
  BY <1>1
<1>3. ASSUME NEW i \in 1..(m + 1)
      PROVE  <<"z_score", i>> \in am <=> ZRight(BeforeIn(Append(s, x), i), Append(s, x)[i])
  <2>1. BeforeIn(Append(s, x), i) = BeforeIn(s, i)
    BY <1>1, BeforeStable
  <2>2. CASE i = m + 1
    BY <1>1, <1>2, <2>1, <2>2
  <2>3. CASE i # m + 1
    <3>1. i \in 1..Len(s) /\ Append(s, x)[i] = s[i]
      BY <1>1, <2>3
    <3>2. <<"z_score", i>> \in am <=> <<"z_score", i>> \in al
      BY <1>1, <2>3
    <3>3. QED
      BY <2>1, <3>1, <3>2 DEF ZExactIn
  <2>4. QED
    BY <2>2, <2>3
<1>4. QED
  BY <1>2, <1>3 DEF ZExactIn

LEMMA IqrExactNext ==
  ASSUME NEW s \in Seq(Int), NEW x \in Int, NEW al, NEW am, IqrExactIn(s, al),
         <<"iqr", Len(s) + 1>> \notin al,
         \A i : <<"iqr", i>> \in am <=>
           <<"iqr", i>> \in al \/ (i = Len(s) + 1 /\ IqrRight(BeforeIn(s, Len(s) + 1), x))
  PROVE  IqrExactIn(Append(s, x), am)
<1>1. PICK m \in Nat : m = Len(s)
  OBVIOUS
<1>2. Len(Append(s, x)) = m + 1 /\ Append(s, x)[m + 1] = x
  BY <1>1
<1>3. ASSUME NEW i \in 1..(m + 1)
      PROVE  <<"iqr", i>> \in am <=> IqrRight(BeforeIn(Append(s, x), i), Append(s, x)[i])
  <2>1. BeforeIn(Append(s, x), i) = BeforeIn(s, i)
    BY <1>1, BeforeStable
  <2>2. CASE i = m + 1
    BY <1>1, <1>2, <2>1, <2>2
  <2>3. CASE i # m + 1
    <3>1. i \in 1..Len(s) /\ Append(s, x)[i] = s[i]
      BY <1>1, <2>3
    <3>2. <<"iqr", i>> \in am <=> <<"iqr", i>> \in al
      BY <1>1, <2>3
    <3>3. QED
      BY <2>1, <3>1, <3>2 DEF IqrExactIn
  <2>4. QED
    BY <2>2, <2>3
<1>4. QED
  BY <1>2, <1>3 DEF IqrExactIn

\* What the code does to a sum is what NextSum says.
LEMMA MovedIs ==
  ASSUME warmup \in Seq(Int), Len(warmup) > 0, NEW s, IsSum(s), NEW d, NEW e \in Int,
         e = CusumDen * d
  PROVE  /\ Moved(s, d) = NextSum(VarianceOf(warmup), s, e)
         /\ IsSum(Moved(s, d))
<1>1. PICK b \in Int, c \in Nat : b = s.drift + e /\ c = s.slack + CusumSlack
  <2>1. PICK x \in Int, y \in Nat, a \in Nat : x = s.drift /\ y = s.slack /\ a = CusumSlack
    BY DetectorAssumption DEF IsSum
  <2>2. x + e \in Int /\ y + a \in Nat
    OBVIOUS
  <2>3. QED
    BY <2>1, <2>2
<1>2. PICK sum : sum = [drift |-> b, slack |-> c]
  OBVIOUS
<1>3. sum.drift = b /\ sum.slack = c /\ IsSum(sum)
  BY <1>2 DEF IsSum
<1>4. Moved(s, d) = IF Above(sum, 0) THEN sum ELSE NoSum
  BY <1>1, <1>2 DEF Moved
<1>5. Above(sum, 0) <=> Beyond(VarianceOf(warmup), b, c)
  <2>1. Above(sum, 0) <=> Over(VarianceOf(warmup), sum, 0, 0)
    BY <1>3, AboveIs
  <2>2. b + 0 = b /\ c + 0 = c
    OBVIOUS
  <2>3. QED
    BY <1>3, <2>1, <2>2 DEF Over
<1>6. NextSum(VarianceOf(warmup), s, e) = IF Beyond(VarianceOf(warmup), b, c) THEN sum ELSE NoSum
  BY <1>1, <1>2 DEF NextSum
<1>7. IsSum(NoSum)
  BY DEF IsSum, NoSum
<1>8. QED
  BY <1>3, <1>4, <1>5, <1>6, <1>7

\* A value keeps the sums of CUSUM right.
LEMMA CusumKept ==
  ASSUME CusumInv(seen, warmup, sHigh, sLow, alarms), seen \in Seq(Int), NEW x \in Int, Detect(x)
  PROVE  CusumInv(seen', warmup', sHigh', sLow', alarms')
<1>1. PICK m \in Nat : m = Len(seen)
  OBVIOUS
<1>2. seen' = Append(seen, x) /\ Cusum(x)
  BY DEF Detect
<1>3. \A j : <<"cusum", j>> \in alarms' <=>
               <<"cusum", j>> \in alarms \/ (j = Len(seen) + 1 /\ CusumAlarm(x))
  BY <1>1, DetectAlarms
<1>4. warmup \in Seq(Int) /\ Len(warmup) = IF m <= WarmupSamples THEN m ELSE WarmupSamples
  BY <1>1 DEF CusumInv
<1>5. PICK z \in Nat : z = WarmupSamples /\ z >= 2
  BY DetectorAssumption
<1>6. CASE m >= z
  <2>1. Len(warmup) = z /\ Calibrated
    BY <1>4, <1>5, <1>6 DEF Calibrated
  <2>2. /\ warmup' = warmup
        /\ sHigh' = IF CusumAlarm(x) THEN NoSum ELSE High(x)
        /\ sLow' = IF CusumAlarm(x) THEN NoSum ELSE Low(x)
    BY <1>2, <2>1 DEF Cusum, SumsAfter
  <2>3. VarianceOf(warmup) \in Nat
    BY <1>4, <1>5, <2>1, VarianceNat
  <2>4. IsSum(sHigh) /\ IsSum(sLow)
    BY <1>1, <1>5, <1>6 DEF CusumInv, Tracks
  <2>5. PICK e \in Int : e = CusumDen * Deviation(warmup, x)
    <3>1. Len(warmup) = WarmupSamples
      BY <1>5, <2>1
    <3>2. CusumDen * Deviation(warmup, x) \in Int
      BY <1>4, <3>1, StretchesNext
    <3>3. QED
      BY <3>2
  <2>6. CusumDen * (-Deviation(warmup, x)) = -e
    <3>1. PICK c \in Int, d \in Int : c = CusumDen /\ d = Deviation(warmup, x)
      BY <1>4, DetectorAssumption, TotalInt DEF Deviation
    <3>2. c * (-d) = -(c * d)
      OBVIOUS
    <3>3. QED
      BY <2>5, <3>1, <3>2
  <2>7. High(x) = NextSum(VarianceOf(warmup), sHigh, e) /\ IsSum(High(x))
    <3>1. High(x) = Moved(sHigh, Deviation(warmup, x))
      BY DEF High
    <3>2. QED
      BY <1>4, <1>5, <2>1, <2>4, <2>5, <3>1, MovedIs
  <2>8. Low(x) = NextSum(VarianceOf(warmup), sLow, -e) /\ IsSum(Low(x))
    <3>1. Low(x) = Moved(sLow, -Deviation(warmup, x)) /\ -e \in Int
      BY DEF Low
    <3>2. QED
      BY <1>4, <1>5, <2>1, <2>4, <2>6, <3>1, MovedIs
  <2>9. PICK fires \in BOOLEAN : fires <=> CusumAlarm(x)
    BY Zenon
  <2>10. fires <=> \/ Over(VarianceOf(warmup), High(x), 0, CusumThreshold)
                  \/ Over(VarianceOf(warmup), Low(x), 0, CusumThreshold)
    <3>1. CusumThreshold \in Nat /\ Len(warmup) > 0
      BY <1>5, <2>1, DetectorAssumption
    <3>2. /\ Above(High(x), CusumThreshold) <=> Over(VarianceOf(warmup), High(x), 0, CusumThreshold)
          /\ Above(Low(x), CusumThreshold) <=> Over(VarianceOf(warmup), Low(x), 0, CusumThreshold)
      BY <1>4, <2>7, <2>8, <3>1, AboveIs
    <3>3. QED
      BY <2>1, <2>9, <3>2 DEF CusumAlarm
  <2>11. \A j : <<"cusum", j>> \in alarms' <=>
                 <<"cusum", j>> \in alarms \/ (j = Len(seen) + 1 /\ fires)
    BY <1>3, <2>9
  <2>12. Len(seen) >= WarmupSamples
    BY <1>1, <1>5, <1>6
  <2>13. CusumInv(Append(seen, x), warmup, IF fires THEN NoSum ELSE High(x),
                  IF fires THEN NoSum ELSE Low(x), alarms')
    BY <2>3, <2>5, <2>7, <2>8, <2>10, <2>11, <2>12, CusumScored
  <2>14. QED
    BY <1>2, <2>2, <2>9, <2>13
<1>7. CASE ~(m >= z)
  <2>1. ~Calibrated
    BY <1>4, <1>5, <1>7 DEF Calibrated
  <2>2. warmup' = Append(warmup, x) /\ sHigh' = sHigh /\ sLow' = sLow
    BY <1>2, <2>1 DEF Cusum
  <2>3. \A j : <<"cusum", j>> \in alarms' <=> <<"cusum", j>> \in alarms
    BY <1>3, <2>1 DEF CusumAlarm
  <2>4. Len(seen) < WarmupSamples
    BY <1>1, <1>5, <1>7
  <2>5. CusumInv(Append(seen, x), Append(warmup, x), sHigh, sLow, alarms')
    BY <2>3, <2>4, CusumAbsorbed
  <2>6. QED
    BY <1>2, <2>2, <2>5
<1>8. QED
  BY <1>6, <1>7

LEMMA DetectorsInvDetect ==
  ASSUME DetectorsInv, NEW x \in Values, Detect(x)
  PROVE  DetectorsInv'
<1>1. x \in Int
  BY DetectorAssumption
<1>2. seen \in Seq(Int)
  BY DEF DetectorsInv
<1>3. PICK m \in Nat : m = Len(seen)
  BY <1>2
<1>4. /\ seen' = Append(seen, x) /\ zWindow' = Push(zWindow, x) /\ iWindow' = Push(iWindow, x)
      /\ sorted' = Sorted(x)
  BY DEF Detect
<1>5. seen' \in Seq(Int) /\ Len(seen') = m + 1
  BY <1>1, <1>2, <1>3, <1>4
<1>6. BeforeIn(seen', Len(seen') + 1) = Push(BeforeIn(seen, Len(seen) + 1), x)
  <2>1. Len(seen') + 1 = Len(seen) + 2
    BY <1>3, <1>5
  <2>2. QED
    BY <1>1, <1>2, <1>4, <2>1, BeforeNext
<1>7. zWindow' = BeforeIn(seen', Len(seen') + 1) /\ iWindow' = BeforeIn(seen', Len(seen') + 1)
  BY <1>4, <1>6 DEF DetectorsInv
<1>8. IsView(sorted', iWindow')
  BY <1>1, <1>4, ViewAfter DEF DetectorsInv
<1>9. CusumInv(seen', warmup', sHigh', sLow', alarms')
  BY <1>1, <1>2, CusumKept DEF DetectorsInv
<1>10. \A d : <<d, m + 1>> \notin alarms
  <2>1. \A d : \A e \in {"z_score", "iqr", "cusum"} : \A i \in 1..m : <<d, m + 1>> # <<e, i>>
    OBVIOUS
  <2>2. QED
    BY <1>3, <2>1 DEF DetectorsInv
<1>11. ZAlarm(zWindow, x) <=> ZRight(BeforeIn(seen, Len(seen) + 1), x)
  <2>1. zWindow = BeforeIn(seen, Len(seen) + 1) /\ zWindow = iWindow /\ iWindow \in Seq(Int)
    BY DEF DetectorsInv, IsView
  <2>2. QED
    BY <1>1, <2>1, ZAlarmRight
<1>12. IqrAlarm(sorted, x) <=> IqrRight(BeforeIn(seen, Len(seen) + 1), x)
  BY <1>1, IqrAlarmRight DEF DetectorsInv
<1>13. ZExactIn(seen', alarms')
  <2>1. \A i : <<"z_score", i>> \in alarms' <=>
          <<"z_score", i>> \in alarms \/ (i = Len(seen) + 1 /\ ZRight(BeforeIn(seen, Len(seen) + 1), x))
    BY <1>3, <1>11, DetectAlarms
  <2>2. <<"z_score", Len(seen) + 1>> \notin alarms /\ ZExactIn(seen, alarms)
    BY <1>3, <1>10 DEF DetectorsInv
  <2>3. QED
    BY <1>1, <1>2, <1>4, <2>1, <2>2, ZExactNext
<1>14. IqrExactIn(seen', alarms')
  <2>1. \A i : <<"iqr", i>> \in alarms' <=>
          <<"iqr", i>> \in alarms \/ (i = Len(seen) + 1 /\ IqrRight(BeforeIn(seen, Len(seen) + 1), x))
    BY <1>3, <1>12, DetectAlarms
  <2>2. <<"iqr", Len(seen) + 1>> \notin alarms /\ IqrExactIn(seen, alarms)
    BY <1>3, <1>10 DEF DetectorsInv
  <2>3. QED
    BY <1>1, <1>2, <1>4, <2>1, <2>2, IqrExactNext
<1>15. \A a \in alarms' : \E d \in {"z_score", "iqr", "cusum"} : \E i \in 1..Len(seen') : a = <<d, i>>
  <2>1. \A a \in alarms' : a \in alarms \/ \E d \in {"z_score", "iqr", "cusum"} : a = <<d, m + 1>>
    BY <1>3, DetectAlarms
  <2>2. m + 1 \in 1..Len(seen') /\ \A i \in 1..Len(seen) : i \in 1..Len(seen')
    BY <1>3, <1>5
  <2>3. QED
    BY <2>1, <2>2 DEF DetectorsInv
<1>16. QED
  BY <1>5, <1>7, <1>8, <1>9, <1>13, <1>14, <1>15 DEF DetectorsInv

LEMMA DetectorsInvStep == DetectorsInv /\ [DetectorsNext]_detectorVars => DetectorsInv'
<1> SUFFICES ASSUME DetectorsInv, [DetectorsNext]_detectorVars PROVE DetectorsInv'
  OBVIOUS
<1>1. CASE Reset
  BY <1>1, DetectorsInvReset
<1>2. CASE \E x \in Values : Detect(x)
  BY <1>2, DetectorsInvDetect
<1>3. CASE UNCHANGED detectorVars
  BY <1>3 DEF DetectorsInv, detectorVars
<1>4. QED
  BY <1>1, <1>2, <1>3 DEF DetectorsNext

LEMMA DetectorsInvExact == DetectorsInv => PointAlarmsExact
<1> SUFFICES ASSUME DetectorsInv PROVE PointAlarmsExact
  OBVIOUS
<1>1. seen \in Seq(Int) /\ DOMAIN seen = 1..Len(seen)
  BY DEF DetectorsInv
<1>2. ASSUME NEW i PROVE Before(i) = BeforeIn(seen, i)
  BY DEF Before, BeforeIn
<1>3. ZScoreExact
  BY <1>1, <1>2 DEF DetectorsInv, ZExactIn, ZScoreExact, ZRight, Fires
<1>4. IqrExact
  BY <1>1, <1>2 DEF DetectorsInv, IqrExactIn, IqrExact, IqrRight, Fires
<1>5. CusumExact
  <2>0. PICK z \in Nat : z = WarmupSamples /\ z >= 2
    BY DetectorAssumption
  <2>1. PICK w, v : /\ z = WarmupSamples /\ z >= 2 /\ w = SubSeq(seen, 1, z)
                    /\ v = z * Squares(w) - Total(w) * Total(w)
    BY <2>0
  <2>2. ASSUME NEW i \in DOMAIN seen PROVE LastAlarm(i) = LastIn(alarms, i) /\ LastIn(alarms, i) \in Nat
                                           /\ LastIn(alarms, i) >= z
    <3>1. LastAlarm(i) = LastIn(alarms, i)
      BY DEF LastAlarm, LastIn, Restarts, Fires
    <3>2. IsLast(LastIn(alarms, i), alarms, i) /\ i \in Nat
      BY <1>1 DEF DetectorsInv, CusumInv
    <3>3. z \in Restarts(alarms, i)
      BY <2>1 DEF Restarts
    <3>4. QED
      BY <3>1, <3>2, <3>3, LastIs DEF IsLast
  <2>3. ASSUME NEW i \in DOMAIN seen, NEW j \in (LastAlarm(i) + 1)..i
        PROVE  LET k     == i - j + 1
                   drift == CusumDen * (z * Total(SubSeq(seen, j, i)) - k * Total(w))
                   bound == CusumThreshold + k * CusumSlack
               IN  drift * drift > bound * bound * v <=> StretchBeyond(seen, warmup, j, i)
    <3>1. i \in 1..Len(seen) /\ j \in 1..i /\ j > z /\ Len(seen) > z
      BY <1>1, <2>1, <2>2
    <3>2. warmup = w /\ w \in Seq(Int) /\ Len(w) = z
      BY <2>1, <3>1 DEF DetectorsInv, CusumInv
    <3>3. v = VarianceOf(w) /\ v \in Nat
      <4>1. v = VarianceOf(w)
        BY <2>1, <3>2 DEF VarianceOf
      <4>2. Len(w) > 0
        BY <2>1, <3>2
      <4>3. QED
        BY <3>2, <4>1, <4>2, VarianceNat
    <3>4. PICK d \in Int : d = DriftIn(seen, w, j, i)
      <4>1. i \in 0..Len(seen) /\ j \in 1..(i + 1)
        BY <3>1
      <4>2. QED
        BY <1>1, <3>2, <4>1, DriftInt
    <3>5. PICK b \in Nat : b = CusumThreshold + (i - j + 1) * CusumSlack
      <4>1. PICK k \in Nat, c \in Nat : k = i - j + 1 /\ c = CusumSlack
        BY <3>1, DetectorAssumption
      <4>2. k * c \in Nat
        OBVIOUS
      <4>3. QED
        BY <4>1, <4>2, DetectorAssumption
    <3>6. d = CusumDen * (z * Total(SubSeq(seen, j, i)) - (i - j + 1) * Total(w))
      BY <2>1, <3>4 DEF DriftIn
    <3>7. StretchBeyond(seen, warmup, j, i) <=> Beyond(v, d, b) \/ Beyond(v, -d, b)
      BY <3>2, <3>3, <3>4, <3>5 DEF StretchBeyond
    <3>8. d * d > b * b * v <=> Beyond(v, d, b) \/ Beyond(v, -d, b)
      BY <3>3, BothSides
    <3>9. QED
      BY <3>5, <3>6, <3>7, <3>8
  <2>4. \A i \in DOMAIN seen : Fires("cusum", i) <=> CusumRight(seen, warmup, alarms, i)
    BY <1>1 DEF DetectorsInv, CusumInv, Fires
  <2>5. QED
    BY <2>1, <2>2, <2>3, <2>4 DEF CusumExact, CusumRight
<1>6. QED
  BY <1>3, <1>4, <1>5 DEF PointAlarmsExact

\* However long the history and whatever is in it, each detector has fired
\* exactly where its definition over the history says.
THEOREM PointAlarmsExactAlways == DetectorsSpec => []PointAlarmsExact
<1>1. DetectorsSpec => []DetectorsInv
  BY DetectorsInvInit, DetectorsInvStep, PTL DEF DetectorsSpec
<1>2. QED
  BY <1>1, DetectorsInvExact, PTL

===============================================================================
