---------------------------- MODULE StageDecorators ----------------------------
(***************************************************************************)
(* stages/decorators/: a stage wrapped for retries, timing and logging,    *)
(* called by several consumers at once, with the registry of               *)
(* observability/metrics.py that the timing goes to.  Both orders of the   *)
(* stack are modelled: TimingDecorator(RetryDecorator(LoggingDecorator(s)))*)
(* measures calls, RetryDecorator(TimingDecorator(LoggingDecorator(s)))    *)
(* measures attempts.                                                      *)
(*                                                                         *)
(* A call suspends in the inner stage and in the retry's sleep.  The       *)
(* registry's lock is never held across a suspension, so both its updates, *)
(* in the finally of the timing, belong to the step that ends what is      *)
(* timed, cancellations included.  Logging leaves results and exceptions   *)
(* as they are.  Times are in ticks, an attempt's chosen when it ends.     *)
(***************************************************************************)
EXTENDS Integers, Sequences, FiniteSets, SequencesExt, FiniteSetsExt

CONSTANTS
  Tasks,                             \* the consumers
  MaxRetries, BaseDelay, MaxDelay, BackoffFactor,
  Durations,                         \* how long an attempt may take
  MaxCalls                           \* bound: how many calls are made

\* What RetryDecorator.__init__ accepts.
ASSUME DecoratorAssumption ==
  /\ {MaxRetries, BaseDelay, MaxDelay, BackoffFactor, MaxCalls} \subseteq Nat
  /\ Durations \subseteq Nat

\* A power of naturals is a natural: the provers know nothing of ^.
ASSUME PowersAssumption == \A k \in 0..MaxRetries : BackoffFactor ^ k \in Nat

Stacks == {"timing_outside", "retry_outside"}

VARIABLES
  stack,        \* which decorator is outside
  pc,           \* [Tasks -> where the call is suspended]
  attempt,      \* [Tasks -> the failed attempts of the call]
  spent,        \* [Tasks -> the time since the call began]
  samples,      \* the timer stage.<name>.duration_s
  invocations,  \* the counter stage.<name>.invocations
  ended         \* the calls that have ended: [outcome, tries, took]

vars == <<stack, pc, attempt, spent, samples, invocations, ended>>

Init ==
  /\ stack \in Stacks
  /\ pc = [t \in Tasks |-> "idle"]
  /\ attempt = [t \in Tasks |-> 0]
  /\ spent = [t \in Tasks |-> 0]
  /\ samples = <<>>
  /\ invocations = 0
  /\ ended = <<>>

-------------------------------------------------------------------------------
(* MetricsRegistry *)

\* bisect.insort
Insort(s, x) == InsertAt(s, Cardinality({i \in DOMAIN s : s[i] <= x}) + 1, x)

\* The percentile taken at the rank after it.
PercentileAbove(s, p) == s[Min({Len(s), (p * Len(s)) \div 100 + 2})]

\* The p-th percentile of a sorted, nonempty sequence.
Percentile(s, p) == s[Max({1, Min({Len(s), (p * Len(s)) \div 100 + 1})})]

Measure(elapsed) ==
  /\ samples' = Insort(samples, elapsed)
  /\ invocations' = invocations + 1

NotMeasured == UNCHANGED <<samples, invocations>>

-------------------------------------------------------------------------------
(* process() of the three decorators *)

\* The delay without its cap.
DelayUncapped(k) == BaseDelay * BackoffFactor ^ (k - 1)

\* base * factor ^ (attempt - 1), capped.
Delay(k) == Min({MaxDelay, BaseDelay * BackoffFactor ^ (k - 1)})

Call(t) ==
  /\ pc[t] = "idle"
  /\ Len(ended) + Cardinality({u \in Tasks : pc[u] # "idle"}) < MaxCalls
  /\ pc' = [pc EXCEPT ![t] = "attempt"]
  /\ attempt' = [attempt EXCEPT ![t] = 0]
  /\ spent' = [spent EXCEPT ![t] = 0]
  /\ UNCHANGED <<stack, samples, invocations, ended>>

\* A timing that has no finally.
MeasureIfReturned(t, outcome, d) ==
  IF outcome # "returned" THEN NotMeasured
  ELSE Measure(IF stack = "retry_outside" THEN d ELSE spent[t] + d)

\* What the timing sees of a call whose last attempt ends after d.
MeasureEnd(t, outcome, d) ==
  Measure(IF stack = "retry_outside" THEN d ELSE spent[t] + d)

CallEnds(t, outcome, tries, d) ==
  /\ pc' = [pc EXCEPT ![t] = "idle"]
  /\ ended' = Append(ended, [outcome |-> outcome, tries |-> tries,
                             took |-> spent[t] + d])
  /\ UNCHANGED <<stack, attempt, spent>>

\* The attempt returns, raises what is not a TransientStageError, or is
\* cancelled: the retry passes all of them on.
AttemptEnds(t) ==
  /\ pc[t] = "attempt"
  /\ \E outcome \in {"returned", "raised", "cancelled"}, d \in Durations :
       /\ MeasureEnd(t, outcome, d)
       /\ CallEnds(t, outcome, attempt[t] + 1, d)

\* The last retry not made.
GivesUpEarly(failures) == failures >= MaxRetries

GivesUp(failures) == failures > MaxRetries

\* A TransientStageError when no retry is left.
AttemptsExhausted(t) ==
  /\ pc[t] = "attempt"
  /\ GivesUp(attempt[t] + 1)
  /\ \E d \in Durations :
       /\ MeasureEnd(t, "exhausted", d)
       /\ CallEnds(t, "exhausted", attempt[t] + 1, d)

\* A TransientStageError that will be retried.
AttemptFails(t) ==
  /\ pc[t] = "attempt"
  /\ ~GivesUp(attempt[t] + 1)
  /\ \E d \in Durations :
       /\ IF stack = "retry_outside" THEN Measure(d) ELSE NotMeasured
       /\ spent' = [spent EXCEPT ![t] = @ + d]
  /\ attempt' = [attempt EXCEPT ![t] = @ + 1]
  /\ pc' = [pc EXCEPT ![t] = "backoff"]
  /\ UNCHANGED <<stack, ended>>

BackoffEnds(t) ==
  /\ pc[t] = "backoff"
  /\ spent' = [spent EXCEPT ![t] = @ + Delay(attempt[t])]
  /\ pc' = [pc EXCEPT ![t] = "attempt"]
  /\ UNCHANGED <<stack, attempt, samples, invocations, ended>>

BackoffCancelled(t) ==
  /\ pc[t] = "backoff"
  /\ IF stack = "retry_outside" THEN NotMeasured ELSE Measure(spent[t])
  /\ CallEnds(t, "cancelled", attempt[t], 0)

Done == Len(ended) = MaxCalls /\ UNCHANGED vars

Next ==
  \/ \E t \in Tasks :
       \/ Call(t)
       \/ AttemptEnds(t)
       \/ AttemptsExhausted(t)
       \/ AttemptFails(t)
       \/ BackoffEnds(t)
       \/ BackoffCancelled(t)
  \/ Done

Spec == Init /\ [][Next]_vars

-------------------------------------------------------------------------------
(* Properties *)

\* The variables hold what the code's fields can hold.
TypeOK ==
  /\ stack \in Stacks
  /\ pc \in [Tasks -> {"idle", "attempt", "backoff"}]
  /\ attempt \in [Tasks -> 0..MaxRetries]
  /\ spent \in [Tasks -> Nat]
  /\ samples \in Seq(Nat)
  /\ invocations \in Nat
  /\ ended \in Seq([outcome : {"returned", "raised", "cancelled", "exhausted"},
                    tries : 1..(MaxRetries + 1), took : Nat])

\* A stage is attempted MaxRetries + 1 times at most, and an error is given up
\* on only after as many attempts.
TriesBounded ==
  \A i \in DOMAIN ended :
    /\ ended[i].tries <= MaxRetries + 1
    /\ ended[i].outcome = "exhausted" => ended[i].tries = MaxRetries + 1

\* Between two attempts of a call the whole of its backoff went by.
Backoffs[n \in 0..MaxRetries] == IF n = 0 THEN 0 ELSE Backoffs[n - 1] + Delay(n)

BackoffsWaited == \A i \in DOMAIN ended : ended[i].took >= Backoffs[ended[i].tries - 1]

\* What n attempts can take, no attempt longer than longest and no delay longer
\* than MaxDelay.
Utmost(n, longest) == n * longest + (n - 1) * MaxDelay

Longest(d) == d \in Durations /\ \A e \in Durations : e <= d

DelaysCapped ==
  \A longest \in Durations, i \in DOMAIN ended :
    Longest(longest) => ended[i].took <= Utmost(ended[i].tries, longest)

\* Retries are bounded, in number and in time, however the call ends, cancelled in
\* a backoff or not: a consumer that sees a call end after n attempts was held up
\* for the n - 1 delays between them, and for no more than MaxDelay at each.
RetriesRight == TriesBounded /\ BackoffsWaited /\ DelaysCapped

\* The metrics count what happened, in whichever order concurrent calls end: the
\* timer has one sample for each invocation, and with the timing outside those
\* are the durations of all the calls that ended, sorted, with the retry outside
\* there is one for every attempt of calls that ended or go on.
CallsTimed ==
  /\ \A i, j \in DOMAIN samples : i <= j => samples[i] <= samples[j]
  /\ \E place \in Bijection(DOMAIN ended, DOMAIN samples) :
       \A i \in DOMAIN ended : samples[place[i]] = ended[i].took

AttemptsOfEnded ==
  {a \in (DOMAIN ended) \X (1..(MaxRetries + 1)) : a[2] <= ended[a[1]].tries}
AttemptsUnderWay ==
  {a \in Tasks \X (1..MaxRetries) : pc[a[1]] # "idle" /\ a[2] <= attempt[a[1]]}

MetricsExact ==
  /\ invocations = Len(samples)
  /\ stack = "timing_outside" => CallsTimed
  /\ stack = "retry_outside" =>
       Len(samples) = Cardinality(AttemptsOfEnded) + Cardinality(AttemptsUnderWay)

\* The percentiles of snapshot() are percentiles: at most the share p of the
\* samples is below, and at least the share p is not above.
QuantilesRight ==
  samples # <<>> =>
    \A p \in {50, 95, 99} :
      LET q == Percentile(samples, p)
      IN  /\ 100 * Cardinality({i \in DOMAIN samples : samples[i] < q}) <= p * Len(samples)
          /\ 100 * Cardinality({i \in DOMAIN samples : samples[i] <= q}) >= p * Len(samples)

===============================================================================
