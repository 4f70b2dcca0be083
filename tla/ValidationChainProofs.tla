------------------------- MODULE ValidationChainProofs -------------------------
(***************************************************************************)
(* The rate bound of ValidationChain, for every set of sources, capacity,  *)
(* rate and chain.  The bound speaks of pairs of accepted records; it is   *)
(* inductive together with Credit, which bounds the tokens left by what    *)
(* every stretch that ends now still allows.                               *)
(***************************************************************************)
EXTENDS ValidationChain, TLAPS

\* For every accepted record of a source: what has been accepted from it on, with
\* the tokens left, is within the bound for the time until the bucket was last
\* touched.
Credit ==
  \A k \in Keys : \A i \in DOMAIN passed[k] :
    /\ passed[k][i] <= bucket[k].last
    /\ (Len(passed[k]) - i + 1) * Cost + bucket[k].tokens
         <= Full + (bucket[k].last - passed[k][i]) * Refill

RateInv == TypeOK /\ Credit /\ RateBounded

LEMMA FullType == Full \in Nat
BY BucketAssumption DEF Full

\* Refilling keeps within the capacity, loses nothing, and credits no more than
\* the elapsed time is worth.
LEMMA LevelBounds ==
  ASSUME TypeOK, NEW k \in Keys
  PROVE  /\ Level(k) \in 0..Full
         /\ Level(k) <= bucket[k].tokens + (now - bucket[k].last) * Refill
<1> DEFINE b == bucket[k]
           gain == (now - b.last) * Refill
<1>1. b.tokens \in 0..Full /\ b.last \in Nat /\ b.last <= now /\ now \in Nat
  BY BucketAssumption DEF TypeOK
<1>2. gain \in Nat
  BY <1>1, BucketAssumption
<1> HIDE DEF gain
<1>3. Level(k) = IF b.tokens + gain < Full THEN b.tokens + gain ELSE Full
  BY DEF Level, gain
<1>4. QED
  BY <1>1, <1>2, <1>3, FullType DEF gain

\* A record the limiter admits pays for itself; any other leaves the level.
LEMMA TouchedBounds ==
  ASSUME TypeOK, NEW k \in Keys
  PROVE  /\ Touched(k) \in [tokens : 0..Full, last : Nat]
         /\ Touched(k).last = now
         /\ Touched(k).tokens <= Level(k)
         /\ Allowed(k) => Touched(k).tokens = Level(k) - Cost
<1>1. Level(k) \in 0..Full /\ now \in Nat /\ Cost \in Nat
  BY LevelBounds, BucketAssumption DEF TypeOK
<1>2. (IF Allowed(k) THEN Level(k) - Cost ELSE Level(k)) \in 0..Full
  BY <1>1, FullType DEF Allowed
<1>3. QED
  BY <1>1, <1>2 DEF Touched

\* What a stretch allows when it is prolonged from last to time.
LEMMA Prolonged ==
  ASSUME NEW t \in Nat, NEW last \in Nat, NEW time \in Nat, NEW used \in Int,
         NEW old \in Int, NEW new \in Int,
         used + old <= Full + (last - t) * Refill,
         new <= old + (time - last) * Refill
  PROVE  used + new <= Full + (time - t) * Refill
<1>1. (last - t) * Refill + (time - last) * Refill = (time - t) * Refill
  BY BucketAssumption
<1>2. (last - t) * Refill \in Int /\ (time - last) * Refill \in Int
  BY BucketAssumption
<1>3. QED
  BY <1>1, <1>2, FullType

LEMMA RateInvInit == Init => RateInv
<1> SUFFICES ASSUME Init PROVE RateInv
  OBVIOUS
<1>1. TypeOK
  BY FullType, BucketAssumption DEF Init, TypeOK
<1>2. \A k \in Keys : DOMAIN passed[k] = {}
  BY DEF Init
<1>3. QED
  BY <1>1, <1>2 DEF RateInv, Credit, RateBounded

LEMMA TickKeepsRateInv == RateInv /\ Tick => RateInv'
<1> SUFFICES ASSUME RateInv, Tick PROVE RateInv'
  OBVIOUS
<1>1. TypeOK'
  BY BucketAssumption DEF RateInv, TypeOK, Tick
<1>2. QED
  BY <1>1 DEF RateInv, Credit, RateBounded, Tick

\* A record that passes the whole chain has been admitted by the limiter.
LEMMA PassesAllowed ==
  ASSUME NEW r \in Record, Passes(r)
  PROVE  LimiterAsked(r) /\ Allowed(Key(r))
<1>1. PICK i \in DOMAIN Chain : Chain[i] = "rate_limit"
  BY ChainAssumption
<1>2. Allowed(Key(r))
  BY <1>1 DEF Passes, Accepts
<1>3. \A j \in 1..(i - 1) : j \in DOMAIN Chain
  BY <1>1, ChainAssumption
<1>4. Asked(i, r)
  BY <1>3 DEF Passes, Asked
<1>5. QED
  BY <1>1, <1>2, <1>4 DEF LimiterAsked

LEMMA ValidateKeepsRateInv ==
  ASSUME RateInv, NEW r \in Record, Validate(r)
  PROVE  RateInv'
<1> DEFINE k == Key(r)
<1> USE DEF RateInv
<1>1. k \in Keys
  BY DEF Key, Keys, Record
<1> HIDE DEF k
<1>2. /\ bucket[k] \in [tokens : 0..Full, last : Nat]
      /\ bucket[k].last <= now
      /\ passed[k] \in Seq(Nat)
      /\ now \in Nat
  BY <1>1, BucketAssumption DEF TypeOK
<1>3. \A x \in Keys \ {k} : bucket'[x] = bucket[x] /\ passed'[x] = passed[x]
  BY DEF Validate, TypeOK, k
<1>4. \/ bucket'[k] = bucket[k] /\ ~Passes(r)
      \/ bucket'[k] = Touched(k)
  BY <1>1, PassesAllowed DEF Validate, TypeOK, k
<1>5. /\ Passes(r) => bucket'[k] = Touched(k) /\ Allowed(k)
      /\ Passes(r) => passed'[k] = Append(passed[k], now)
      /\ ~Passes(r) => passed'[k] = passed[k]
  BY <1>1, PassesAllowed DEF Validate, TypeOK, k
<1>6. now' = now
  BY DEF Validate
<1>7. TypeOK'
  <2>1. bucket' \in [Keys -> [tokens : 0..Full, last : Nat]]
    BY <1>1, TouchedBounds DEF Validate, TypeOK, k
  <2>2. \A x \in Keys : bucket'[x].last <= now'
    <3>1. bucket'[k].last <= now
      BY <1>1, <1>2, <1>4, TouchedBounds
    <3>2. QED
      BY <1>3, <1>6, <3>1 DEF TypeOK
  <2>3. passed' \in [Keys -> Seq(Nat)]
    BY <1>1, <1>2 DEF Validate, TypeOK, k
  <2>4. QED
    BY <1>6, <2>1, <2>2, <2>3 DEF TypeOK
<1>8. Credit'
  <2> SUFFICES ASSUME NEW x \in Keys, NEW i \in DOMAIN passed'[x]
               PROVE  /\ passed'[x][i] <= bucket'[x].last
                      /\ (Len(passed'[x]) - i + 1) * Cost + bucket'[x].tokens
                           <= Full + (bucket'[x].last - passed'[x][i]) * Refill
    BY DEF Credit
  <2>1. CASE x # k
    BY <2>1, <1>3 DEF Credit
  <2>2. CASE x = k /\ ~Passes(r)
    \* Nothing accepted: the tokens grew by the time elapsed at most.
    <3> DEFINE used == (Len(passed[k]) - i + 1) * Cost
               t == passed[k][i]
    <3>1. passed'[k] = passed[k] /\ i \in 1..Len(passed[k])
      BY <1>2, <1>5, <2>2
    <3>2. /\ t \in Nat /\ t <= bucket[k].last
          /\ used + bucket[k].tokens <= Full + (bucket[k].last - t) * Refill
      BY <1>1, <1>2, <3>1 DEF Credit
    <3>3. used \in Int
      BY <1>2, <3>1, BucketAssumption
    <3> HIDE DEF used, t
    <3>4. CASE bucket'[k] = bucket[k]
      BY <2>2, <3>1, <3>2, <3>4 DEF used, t
    <3>5. CASE bucket'[k] = Touched(k)
      <4>1. /\ Touched(k).tokens \in Int
            /\ Touched(k).tokens <= bucket[k].tokens
                                      + (now - bucket[k].last) * Refill
        <5>1. /\ Touched(k).tokens \in 0..Full
              /\ Touched(k).tokens <= Level(k)
              /\ Level(k) \in 0..Full
          BY <1>1, TouchedBounds, LevelBounds
        <5>2. Level(k) <= bucket[k].tokens + (now - bucket[k].last) * Refill
          BY <1>1, LevelBounds
        <5>3. (now - bucket[k].last) * Refill \in Int
          BY <1>2, BucketAssumption
        <5>4. QED
          BY <1>2, <5>1, <5>2, <5>3, FullType
      <4>2. bucket[k].tokens \in Int /\ bucket[k].last \in Nat
        BY <1>2, FullType
      <4>3. used + Touched(k).tokens <= Full + (now - t) * Refill
        BY <1>2, <3>2, <3>3, <4>1, <4>2, Prolonged
      <4>4. t <= now
        BY <1>2, <3>2, <4>2
      <4>5. Touched(k).last = now
        BY <1>1, TouchedBounds
      <4>6. QED
        BY <2>2, <3>1, <3>5, <4>3, <4>4, <4>5 DEF used, t
    <3>6. QED
      BY <1>4, <3>4, <3>5
  <2>3. CASE x = k /\ Passes(r)
    \* Accepted: one more record is used, and its cost leaves the bucket.
    <3> DEFINE n == Len(passed[k])
    <3>1. /\ bucket'[k] = Touched(k)
          /\ Touched(k).last = now
          /\ Touched(k).tokens = Level(k) - Cost
          /\ Level(k) \in 0..Full
          /\ Level(k) <= bucket[k].tokens + (now - bucket[k].last) * Refill
      BY <1>1, <1>5, <2>3, TouchedBounds, LevelBounds
    <3>2. /\ Len(passed'[k]) = n + 1
          /\ i \in 1..(n + 1)
          /\ passed'[k][n + 1] = now
          /\ \A j \in 1..n : passed'[k][j] = passed[k][j]
          /\ n \in Nat
      BY <1>2, <1>5, <2>3
    <3> HIDE DEF n
    <3>3. CASE i = n + 1
      <4>1. (n + 1 - i + 1) * Cost + (Level(k) - Cost) = Level(k)
        BY <3>1, <3>2, <3>3, FullType, BucketAssumption
      <4>2. (now - now) * Refill = 0
        BY <1>2, BucketAssumption
      <4>3. QED
        BY <1>2, <2>3, <3>1, <3>2, <3>3, <4>1, <4>2, FullType
    <3>4. CASE i \in 1..n
      <4> DEFINE used == (n - i + 1) * Cost
                 t == passed[k][i]
      <4>1. /\ t \in Nat /\ t <= bucket[k].last
            /\ used + bucket[k].tokens <= Full + (bucket[k].last - t) * Refill
        <5>1. i \in DOMAIN passed[k] /\ n = Len(passed[k])
          BY <1>2, <3>4 DEF n
        <5>2. t \in Nat
          BY <1>2, <5>1
        <5>3. QED
          BY <1>1, <5>1, <5>2 DEF Credit
      <4>2. /\ used \in Int
            /\ (n + 1 - i + 1) * Cost = used + Cost
        BY <3>2, <3>4, BucketAssumption
      <4> HIDE DEF used, t
      <4>3. bucket[k].tokens \in Int /\ bucket[k].last \in Nat /\ Level(k) \in Int
        BY <1>2, <3>1, FullType
      <4>4. used + Level(k) <= Full + (now - t) * Refill
        <5>1. Level(k) <= bucket[k].tokens + (now - bucket[k].last) * Refill
          BY <3>1
        <5>2. t \in Nat /\ used \in Int /\ now \in Nat
          BY <1>2, <4>1, <4>2
        <5>3. used + bucket[k].tokens <= Full + (bucket[k].last - t) * Refill
          BY <4>1
        <5>4. QED
          BY <4>3, <5>1, <5>2, <5>3, Prolonged
      <4>5. (n + 1 - i + 1) * Cost + (Level(k) - Cost) = used + Level(k)
        BY <4>2, <4>3, BucketAssumption
      <4>6. t <= now
        BY <1>2, <4>1, <4>3
      <4>7. passed'[k][i] = t
        BY <3>2, <3>4 DEF t
      <4>8. QED
        BY <2>3, <3>1, <3>2, <4>4, <4>5, <4>6, <4>7
    <3>5. QED
      BY <3>2, <3>3, <3>4
  <2>4. QED
    BY <2>1, <2>2, <2>3
<1>9. RateBounded'
  <2> SUFFICES ASSUME NEW x \in Keys,
                      NEW i \in DOMAIN passed'[x], NEW j \in DOMAIN passed'[x],
                      i <= j
               PROVE  (j - i + 1) * Cost
                        <= Full + (passed'[x][j] - passed'[x][i]) * Refill
    BY DEF RateBounded
  <2>1. CASE passed'[x] = passed[x]
    BY <2>1 DEF RateBounded
  <2>2. CASE x = k /\ Passes(r)
    <3> DEFINE n == Len(passed[k])
    <3>1. /\ passed'[k] = Append(passed[k], now)
          /\ n \in Nat
          /\ Len(passed'[k]) = n + 1
          /\ i \in 1..(n + 1) /\ j \in 1..(n + 1)
          /\ passed'[k][n + 1] = now
          /\ \A l \in 1..n : passed'[k][l] = passed[k][l]
      BY <1>2, <1>5, <2>2
    <3> HIDE DEF n
    <3>2. CASE j \in 1..n
      <4>1. i \in DOMAIN passed[k] /\ j \in DOMAIN passed[k]
        BY <1>2, <3>1, <3>2 DEF n
      <4>2. passed'[k][i] = passed[k][i] /\ passed'[k][j] = passed[k][j]
        BY <3>1, <3>2
      <4>3. QED
        BY <1>1, <2>2, <4>1, <4>2 DEF RateBounded
    <3>3. CASE j = n + 1
      \* The new record ends the stretch: this is its credit.
      <4>1. /\ (n + 1 - i + 1) * Cost + bucket'[k].tokens
                 <= Full + (bucket'[k].last - passed'[k][i]) * Refill
        <5>1. i \in DOMAIN passed'[k] /\ Len(passed'[k]) = n + 1
          BY <2>2, <3>1
        <5>2. (Len(passed'[k]) - i + 1) * Cost + bucket'[k].tokens
                <= Full + (bucket'[k].last - passed'[k][i]) * Refill
          BY <1>1, <1>8, <5>1 DEF Credit
        <5>3. Len(passed'[k]) - i + 1 = n + 1 - i + 1
          BY <3>1, <5>1
        <5>4. QED
          BY <5>2, <5>3
      <4>2. bucket'[k].last = now /\ bucket'[k].tokens \in 0..Full
        BY <1>1, <1>5, <2>2, TouchedBounds
      <4>3. passed'[k][i] \in Nat
        BY <1>1, <1>7, <2>2 DEF TypeOK
      <4>4. /\ (j - i + 1) * Cost \in Int
            /\ (j - i + 1) * Cost = (n + 1 - i + 1) * Cost
            /\ (now - passed'[k][i]) * Refill \in Int
        BY <1>2, <3>1, <3>3, <4>3, BucketAssumption
      <4>5. (j - i + 1) * Cost + bucket'[k].tokens
              <= Full + (now - passed'[k][i]) * Refill
        BY <4>1, <4>2, <4>4
      <4>6. (j - i + 1) * Cost <= Full + (now - passed'[k][i]) * Refill
        BY <4>2, <4>4, <4>5, FullType
      <4>7. QED
        BY <2>2, <3>1, <3>3, <4>6
    <3>4. QED
      BY <3>1, <3>2, <3>3
  <2>3. QED
    BY <1>3, <1>5, <2>1, <2>2
<1>10. QED
  BY <1>7, <1>8, <1>9

LEMMA RateInvAlways == Spec => []RateInv
<1>1. Init => RateInv
  BY RateInvInit
<1>2. RateInv /\ [Next]_vars => RateInv'
  <2>1. CASE UNCHANGED vars
    BY <2>1 DEF vars, RateInv, TypeOK, Credit, RateBounded
  <2>2. QED
    BY <2>1, TickKeepsRateInv, ValidateKeepsRateInv DEF Next
<1>3. QED
  BY <1>1, <1>2, PTL DEF Spec

\* The limiter's bookkeeping: a bucket holds between nothing and its capacity,
\* and was last touched in the past (RateLimitValidator.validate).
THEOREM BucketsTyped == Spec => []TypeOK
<1>1. RateInv => TypeOK
  BY DEF RateInv
<1>2. QED
  BY <1>1, RateInvAlways, PTL

\* However many sources there are, whatever the capacity and the rate, and
\* wherever the limiter stands in the chain (ValidationStage.process), no source
\* gets more records through in any stretch of time than the capacity and what
\* the stretch refills.
THEOREM RateIsBounded == Spec => []RateBounded
<1>1. RateInv => RateBounded
  BY DEF RateInv
<1>2. QED
  BY <1>1, RateInvAlways, PTL

-------------------------------------------------------------------------------
(* The limiter gives away no tokens either. *)

LimiterLast == Chain # <<>> /\ Chain[Len(Chain)] = "rate_limit"

\* A bucket that is not full was emptied by accepted records: for the stretch since
\* one of them the tokens left are all that the bound still allows.
Owed(k) ==
  \/ bucket[k].tokens = Full
  \/ \E i \in DOMAIN passed[k] :
       (Len(passed[k]) - i + 1) * Cost + bucket[k].tokens
         >= Full + (bucket[k].last - passed[k][i]) * Refill

OwedInv == RateInv /\ \A k \in Keys : Owed(k)

LEMMA CapacityPays == Cost <= Full
<1>1. Capacity \in Nat /\ Capacity >= 1 /\ Cost \in Nat
  BY BucketAssumption
<1>2. (Capacity - 1) * Cost \in Nat
  BY <1>1
<1>3. Capacity * Cost = (Capacity - 1) * Cost + Cost
  BY <1>1
<1>4. QED
  BY <1>1, <1>2, <1>3 DEF Full

LEMMA StretchesAdd ==
  ASSUME NEW s \in Int, NEW t \in Int, NEW u \in Int
  PROVE  /\ (t - s) * Refill \in Int /\ (u - t) * Refill \in Int
         /\ (t - s) * Refill + (u - t) * Refill = (u - s) * Refill
<1>1. Refill \in Int
  BY BucketAssumption
<1>2. (t - s) * Refill \in Int /\ (u - t) * Refill \in Int
  BY <1>1
<1>3. (t - s) * Refill + (u - t) * Refill = (u - s) * Refill
  BY <1>1
<1>4. QED
  BY <1>2, <1>3

\* The level is the capacity, or the same stretch still accounts for it.
LEMMA OwedLevel ==
  ASSUME TypeOK, NEW k \in Keys, Owed(k), Level(k) # Full
  PROVE  \E i \in DOMAIN passed[k] :
           (Len(passed[k]) - i + 1) * Cost + Level(k)
             >= Full + (now - passed[k][i]) * Refill
<1> DEFINE gain == (now - bucket[k].last) * Refill
<1>1. /\ bucket[k].tokens \in 0..Full /\ bucket[k].last \in Nat
      /\ bucket[k].last <= now /\ now \in Nat
      /\ passed[k] \in Seq(Nat)
  BY BucketAssumption DEF TypeOK
<1>2. gain \in Nat
  BY <1>1, BucketAssumption
<1>3. Level(k) = bucket[k].tokens + gain /\ bucket[k].tokens + gain < Full
  BY DEF Level
<1> HIDE DEF gain
<1>4. bucket[k].tokens # Full
  BY <1>1, <1>2, <1>3, FullType
<1>5. PICK i \in DOMAIN passed[k] :
        (Len(passed[k]) - i + 1) * Cost + bucket[k].tokens
          >= Full + (bucket[k].last - passed[k][i]) * Refill
  BY <1>4 DEF Owed
<1> DEFINE used == (Len(passed[k]) - i + 1) * Cost
           t == passed[k][i]
           old == (bucket[k].last - t) * Refill
<1>6. t \in Nat /\ used \in Int
  BY <1>1, BucketAssumption
<1>7. old \in Int /\ old + gain = (now - t) * Refill
  <2>1. t \in Int /\ bucket[k].last \in Int /\ now \in Int
    BY <1>1, <1>6
  <2> HIDE DEF t
  <2>2. /\ (bucket[k].last - t) * Refill \in Int
        /\ (bucket[k].last - t) * Refill + (now - bucket[k].last) * Refill
             = (now - t) * Refill
    BY <2>1, StretchesAdd
  <2>3. QED
    BY <2>2 DEF gain
<1>8. used + bucket[k].tokens >= Full + old
  BY <1>5
<1> HIDE DEF used, old, t
<1>9. used + Level(k) >= Full + (now - t) * Refill
  BY <1>1, <1>2, <1>3, <1>6, <1>7, <1>8, FullType
<1>10. QED
  BY <1>9 DEF used, t

\* When the limiter is the last to be asked, what it admits passes.
LEMMA AdmittedPasses ==
  ASSUME LimiterLast, NEW r \in Record, LimiterAsked(r), Allowed(Key(r))
  PROVE  Passes(r)
<1>1. PICK i \in DOMAIN Chain : Chain[i] = "rate_limit" /\ Asked(i, r)
  BY DEF LimiterAsked
<1>2. Len(Chain) \in Nat /\ DOMAIN Chain = 1..Len(Chain) /\ Len(Chain) >= 1
  BY <1>1, ChainAssumption
<1>3. i = Len(Chain)
  <2>1. Len(Chain) \in DOMAIN Chain
    BY <1>2
  <2>2. QED
    BY <1>1, <2>1, ChainAssumption DEF LimiterLast
<1>4. \A j \in 1..(i - 1) : Accepts(Chain[j], r)
  BY <1>1 DEF Asked
<1>5. Accepts(Chain[i], r)
  BY <1>1 DEF Accepts
<1>6. \A j \in DOMAIN Chain : j \in 1..(i - 1) \/ j = i
  BY <1>2, <1>3
<1>7. QED
  BY <1>4, <1>5, <1>6 DEF Passes

LEMMA ValidateKeepsOwed ==
  ASSUME LimiterLast, OwedInv, NEW r \in Record, Validate(r), NEW x \in Keys
  PROVE  Owed(x)'
<1> DEFINE k == Key(r)
           n == Len(passed[k])
<1>1. k \in Keys /\ TypeOK /\ now' = now
  BY DEF Key, Keys, Record, OwedInv, RateInv, Validate
<1>2. \A y \in Keys \ {k} : bucket'[y] = bucket[y] /\ passed'[y] = passed[y]
  BY <1>1 DEF Validate, TypeOK
<1>3. CASE x # k
  BY <1>2, <1>3 DEF OwedInv, Owed
<1>4. CASE x = k /\ ~LimiterAsked(r)
  <2>1. ~Passes(r)
    BY <1>4, PassesAllowed
  <2>2. bucket' = bucket /\ passed' = passed
    BY <1>4, <2>1 DEF Validate
  <2>3. QED
    BY <2>2 DEF OwedInv, Owed
<1>5. CASE x = k /\ LimiterAsked(r) /\ ~Allowed(k)
  <2>1. /\ Touched(k).tokens = Level(k) /\ Touched(k).last = now
        /\ Level(k) \in 0..Full /\ ~(Level(k) >= Cost)
    BY <1>1, <1>5, LevelBounds DEF Touched, Allowed
  <2>2. bucket'[k] = Touched(k) /\ passed'[k] = passed[k]
    <3>1. ~Passes(r)
      BY <1>5, PassesAllowed
    <3>2. QED
      BY <1>1, <1>5, <3>1 DEF Validate, TypeOK
  <2>3. Level(k) # Full
    BY <2>1, CapacityPays, FullType, BucketAssumption
  <2> HIDE DEF k
  <2>4. PICK i \in DOMAIN passed[k] :
          (Len(passed[k]) - i + 1) * Cost + Level(k)
            >= Full + (now - passed[k][i]) * Refill
    BY <1>1, <2>3, OwedLevel DEF OwedInv
  <2>5. QED
    BY <1>5, <2>1, <2>2, <2>4 DEF Owed
<1>6. CASE x = k /\ LimiterAsked(r) /\ Allowed(k)
  <2>1. /\ Touched(k).tokens = Level(k) - Cost /\ Touched(k).last = now
        /\ Level(k) \in 0..Full
    BY <1>1, <1>6, LevelBounds DEF Touched
  <2>2. bucket'[k] = Touched(k) /\ passed'[k] = Append(passed[k], now)
    <3>1. Passes(r)
      BY <1>6, AdmittedPasses
    <3>2. QED
      BY <1>1, <1>6, <3>1 DEF Validate, TypeOK
  <2>3. /\ passed[k] \in Seq(Nat) /\ n \in Nat /\ now \in Nat
        /\ DOMAIN passed[k] = 1..n
    BY <1>1, BucketAssumption DEF TypeOK
  <2>4. /\ Len(passed'[k]) = n + 1 /\ DOMAIN passed'[k] = 1..(n + 1)
        /\ passed'[k][n + 1] = now
        /\ \A j \in 1..n : passed'[k][j] = passed[k][j]
    BY <2>2, <2>3
  <2> HIDE DEF k, n
  <2>5. CASE Level(k) = Full
    <3>1. ((n + 1) - (n + 1) + 1) * Cost + (Full - Cost) = Full /\ (now - now) * Refill = 0
      BY <2>3, FullType, BucketAssumption
    <3>2. n + 1 \in DOMAIN passed'[k]
      BY <2>3, <2>4
    <3>3. (Len(passed'[k]) - (n + 1) + 1) * Cost + bucket'[k].tokens
            >= Full + (bucket'[k].last - passed'[k][n + 1]) * Refill
      BY <2>1, <2>2, <2>4, <2>5, <3>1, FullType
    <3>4. QED
      BY <1>6, <3>2, <3>3 DEF Owed
  <2>6. CASE Level(k) # Full
    <3>1. PICK i \in DOMAIN passed[k] :
            (Len(passed[k]) - i + 1) * Cost + Level(k)
              >= Full + (now - passed[k][i]) * Refill
      BY <1>1, <2>6, OwedLevel DEF OwedInv
    <3>2. i \in 1..n /\ i \in DOMAIN passed'[k] /\ passed'[k][i] = passed[k][i]
      <4>1. n \in Nat /\ DOMAIN passed[k] = 1..n /\ DOMAIN passed'[k] = 1..(n + 1)
        BY <2>3, <2>4
      <4>2. i \in 1..n
        BY <4>1
      <4>3. i \in 1..(n + 1)
        BY <4>1, <4>2
      <4>4. passed'[k][i] = passed[k][i]
        BY <2>4, <4>2, Zenon
      <4>5. QED
        BY <4>1, <4>2, <4>3, <4>4, Zenon
    <3>3. ((n + 1) - i + 1) * Cost + (Level(k) - Cost) = (n - i + 1) * Cost + Level(k)
      BY <2>1, <2>3, <3>2, FullType, BucketAssumption
    <3>4. (n - i + 1) * Cost + Level(k) >= Full + (now - passed[k][i]) * Refill
      BY <3>1 DEF n
    <3>5. (Len(passed'[k]) - i + 1) * Cost + bucket'[k].tokens
            >= Full + (bucket'[k].last - passed'[k][i]) * Refill
      BY <2>1, <2>2, <2>4, <3>2, <3>3, <3>4
    <3>6. QED
      BY <1>6, <3>2, <3>5 DEF Owed
  <2>7. QED
    BY <2>5, <2>6
<1>7. QED
  BY <1>3, <1>4, <1>5, <1>6

\* With the limiter last in the chain a source is rejected only when one more record
\* would exceed its rate: schema and size rejections, and its own, cost it nothing.
THEOREM RejectsOnlyExcessAlways ==
  ASSUME LimiterLast
  PROVE  Spec => []RejectsOnlyExcess
<1>1. OwedInv => RejectsOnlyExcess
  <2> SUFFICES ASSUME OwedInv, NEW k \in Keys, ~Allowed(k)
               PROVE  \E i \in DOMAIN passed[k] :
                        (Len(passed[k]) - i + 2) * Cost
                          > Full + (now - passed[k][i]) * Refill
    BY DEF RejectsOnlyExcess
  <2>1. TypeOK /\ Owed(k)
    BY DEF OwedInv, RateInv
  <2>2. Level(k) \in 0..Full /\ ~(Level(k) >= Cost)
    BY <2>1, LevelBounds DEF Allowed
  <2>3. Level(k) # Full
    BY <2>2, CapacityPays, FullType, BucketAssumption
  <2>4. PICK i \in DOMAIN passed[k] :
          (Len(passed[k]) - i + 1) * Cost + Level(k)
            >= Full + (now - passed[k][i]) * Refill
    BY <2>1, <2>3, OwedLevel
  <2> DEFINE n == Len(passed[k])
             bound == Full + (now - passed[k][i]) * Refill
  <2>5. n \in Nat /\ i \in 1..n /\ passed[k][i] \in Nat /\ now \in Nat
    BY <2>1, BucketAssumption DEF TypeOK
  <2>6. bound \in Int
    BY <2>5, FullType, BucketAssumption
  <2>7. (n - i + 1) * Cost + Level(k) >= bound
    BY <2>4
  <2> HIDE DEF n, bound
  <2>8. (n - i + 2) * Cost = (n - i + 1) * Cost + Cost /\ (n - i + 1) * Cost \in Int
    BY <2>5, BucketAssumption
  <2>9. (n - i + 2) * Cost > bound
    BY <2>2, <2>6, <2>7, <2>8, FullType, BucketAssumption
  <2>10. QED
    BY <2>9 DEF n, bound
<1>2. Init => OwedInv
  BY RateInvInit DEF OwedInv, Owed, Init
<1>3. OwedInv /\ [Next]_vars => OwedInv'
  <2> SUFFICES ASSUME OwedInv, [Next]_vars PROVE OwedInv'
    OBVIOUS
  <2>1. CASE UNCHANGED vars
    BY <2>1 DEF vars, OwedInv, RateInv, TypeOK, Credit, RateBounded, Owed
  <2>2. CASE Tick
    BY <2>2, TickKeepsRateInv DEF Tick, OwedInv, Owed
  <2>3. ASSUME NEW r \in Record, Validate(r) PROVE OwedInv'
    BY <2>3, ValidateKeepsRateInv, ValidateKeepsOwed DEF OwedInv
  <2>4. QED
    BY <2>1, <2>2, <2>3 DEF Next
<1>4. QED
  BY <1>1, <1>2, <1>3, PTL DEF Spec

===============================================================================
