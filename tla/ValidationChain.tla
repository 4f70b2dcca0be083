---------------------------- MODULE ValidationChain ----------------------------
(***************************************************************************)
(* The validation stage: stages/validation/chain.py walks the configured   *)
(* validators (schema, size, rate limit) and stops at the first that       *)
(* rejects the record; the rate limiter keeps a token bucket per source.   *)
(* validate() never suspends, so validating a record is one step whatever  *)
(* consumer does it.                                                       *)
(*                                                                         *)
(* The clock is time.monotonic, in ticks.  Tokens are exact: a record      *)
(* costs Cost units and a tick refills Refill units, so refill_per_sec is  *)
(* Refill / Cost tokens a tick, any rational.                              *)
(***************************************************************************)
EXTENDS Integers, Sequences

CONSTANTS
  Sources,     \* the sources of records, Unnamed among them if records lack one
  Unnamed,     \* record.source = ""
  Unknown,     \* "<unknown>", the key of records without a source
  Chain,       \* the kinds of validators, in the order of the configuration
  Capacity,    \* capacity
  Refill, Cost,
  MaxTime      \* bound: the clock stops there

Kinds == {"schema", "size", "rate_limit"}

\* The constructors reject a capacity or a rate of 0; one limiter, as in the docs.
ASSUME ChainAssumption ==
  /\ Chain \in Seq(Kinds)
  /\ \E i \in DOMAIN Chain : Chain[i] = "rate_limit"
  /\ \A i, j \in DOMAIN Chain :
       Chain[i] = "rate_limit" /\ Chain[j] = "rate_limit" => i = j

ASSUME BucketAssumption ==
  /\ Capacity \in Nat \ {0}
  /\ Refill \in Nat \ {0}
  /\ Cost \in Nat \ {0}
  /\ MaxTime \in Nat

\* A record as the validators see it: its source, whether it has the required
\* fields, whether its message is small enough.
Record == [source : Sources, complete : BOOLEAN, small : BOOLEAN]

Keys == (Sources \ {Unnamed}) \cup {Unknown}
Key(r) == IF r.source = Unnamed THEN Unknown ELSE r.source

Full == Capacity * Cost

VARIABLES
  now,     \* the clock
  bucket,  \* _buckets
  passed   \* [Keys -> the times at which its records passed the chain]

vars == <<now, bucket, passed>>

\* A key that _buckets does not hold is a full bucket.
Init ==
  /\ now = 0
  /\ bucket = [k \in Keys |-> [tokens |-> Full, last |-> 0]]
  /\ passed = [k \in Keys |-> <<>>]

Tick ==
  /\ now < MaxTime
  /\ now' = now + 1
  /\ UNCHANGED <<bucket, passed>>

-------------------------------------------------------------------------------
(* The rate limiter. *)

\* The refill without the capacity.
LevelUncapped(k) == bucket[k].tokens + (now - bucket[k].last) * Refill

\* The tokens of a bucket, refilled for the time since it was last touched.
Level(k) ==
  LET tokens == bucket[k].tokens + (now - bucket[k].last) * Refill
  IN  IF tokens < Full THEN tokens ELSE Full

Allowed(k) == Level(k) >= Cost

\* A bucket whose time is brought forward by accepted records only.
TouchedIfAllowed(k) ==
  [tokens |-> IF Allowed(k) THEN Level(k) - Cost ELSE Level(k),
   last   |-> IF Allowed(k) THEN now ELSE bucket[k].last]

\* What the validator leaves: the time is brought forward either way.
Touched(k) ==
  [tokens |-> IF Allowed(k) THEN Level(k) - Cost ELSE Level(k),
   last   |-> now]

-------------------------------------------------------------------------------
(* The chain. *)

Accepts(kind, r) ==
  CASE kind = "schema" -> r.complete
    [] kind = "size"   -> r.small
    [] OTHER           -> Allowed(Key(r))

\* A chain that asks every validator, to report all the reasons at once.
AskedRegardless(i, r) == TRUE

\* The first i - 1 validators accept the record.
Asked(i, r) == \A j \in 1..(i - 1) : Accepts(Chain[j], r)

LimiterAsked(r) ==
  \E i \in DOMAIN Chain : Chain[i] = "rate_limit" /\ Asked(i, r)

Passes(r) == \A i \in DOMAIN Chain : Accepts(Chain[i], r)

Validate(r) ==
  /\ bucket' = IF LimiterAsked(r)
               THEN [bucket EXCEPT ![Key(r)] = Touched(Key(r))]
               ELSE bucket
  /\ passed' = IF Passes(r)
               THEN [passed EXCEPT ![Key(r)] = Append(@, now)]
               ELSE passed
  /\ UNCHANGED now

Next == Tick \/ \E r \in Record : Validate(r)

Spec == Init /\ [][Next]_vars

-------------------------------------------------------------------------------

\* A bucket never holds more than its capacity nor a fraction below nothing, and
\* its time is never ahead of the clock.
TypeOK ==
  /\ now \in 0..MaxTime
  /\ bucket \in [Keys -> [tokens : 0..Full, last : Nat]]
  /\ \A k \in Keys : bucket[k].last <= now
  /\ passed \in [Keys -> Seq(Nat)]

\* What the limiter is for: however the records of the sources interleave, in any
\* stretch of time a source gets no more records through the chain than its
\* capacity and what that stretch refills.
RateBounded ==
  \A k \in Keys : \A i, j \in DOMAIN passed[k] :
    i <= j =>
      (j - i + 1) * Cost <= Full + (passed[k][j] - passed[k][i]) * Refill

\* And no less than that: when the limiter would reject a record now, one more
\* would exceed that bound for the stretch since some earlier record.  So a
\* source that keeps to its rate is never rejected, in particular not because of
\* records that another validator rejects (with the limiter last in the chain) or
\* because rejected records cost it tokens.
RejectsOnlyExcess ==
  \A k \in Keys :
    Allowed(k) \/ \E i \in DOMAIN passed[k] :
      (Len(passed[k]) - i + 2) * Cost > Full + (now - passed[k][i]) * Refill

===============================================================================
