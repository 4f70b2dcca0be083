# PipelineX in TLA+

A specification and verification of [PipelineX](../src/README.md), an asyncio
log pipeline: a source is read line by line, records go through a list of
stages, and what survives is saved in batches, while closed block traces are
scored by detectors. The source of truth is the code in `src/src/pipelinex`
(Python 3.12, as in the Dockerfile); every definition that models code has its
lines in the `map` of [PROJECT.json](PROJECT.json).

Contents: [1 The system](#1-the-system) · [2 The modules](#2-the-modules) ·
[3 The runs](#3-the-runs) · [4 Fairness](#4-fairness) · [5 The proofs](#5-the-proofs) ·
[6 Where the documents and the code differ](#6-where-the-documents-and-the-code-differ) ·
[7 Not modelled](#7-not-modelled) · [8 Plan](#8-plan) · [9 Running it](#9-running-it)

## 1 The system

```
 source --> producer --> queue --> consumers: parse, validate, match template,
            (task)      (bounded)  (tasks)    sessionize, detect --> buffer --> save_batch
                                                   |                   ^
                                          traces, lock, janitor     flusher (task)
                                                   |
                                            bus: BlockTraceClosed --> handlers --> save_anomaly
```

| component | state it keeps | operations | what makes it hard | what makes it correct |
|---|---|---|---|---|
| executor `core/pipeline.py` | queue and its unfinished count, buffer, two counters, shutdown event | producer, N consumers, flusher, `run()` | tasks interleave at every await; saves fail after their records were counted; source errors, cancellation; winding down | no record lost or twice; exact counters; bounded memory; `run()` returns |
| sessionizer `stages/sessionizing/block_sessionizer.py` | ordered dictionary of open traces, last log time, lock | `process`, janitor pass, `stop` | publishes, hence waits for handlers, while it holds the lock; janitor against consumers; cancelled janitor | a record is in one trace of its block, in order; true reasons; bounded traces; terminal traces close |
| event bus `events/bus.py` | handlers | `publish`, `subscribe` | handlers run concurrently, some fail | every handler gets every trace |
| validation `stages/validation` | a token bucket per source | `ValidationStage.process` | short-circuit; refills on accepted and rejected records | rate bound, no needless rejection |
| point detectors `detectors/{zscore,iqr,cusum}.py` | windows, sorted view, sums | `detect`, `reset` | two views of a window, warm-up, alarm-and-reset | fire exactly when their definition says |
| sequence detector `detectors/sequence.py` | a trained model | `detect_trace` | traces cut by eviction and cap | novel n-grams are flagged |
| detector stage `detectors/detector_stage.py` | anomaly count | `process` | saves the anomaly before the record | counts what it saved |
| parser, templates `stages/parsing`, `stages/enrichment` | none | `process` | ordering of templates | identity is preserved, first match wins |
| decorators `stages/decorators`, registry `observability/metrics.py` | timer and counter of a stage | `process` of retry, timing and logging | calls of several consumers, errors and cancellations inside two wrappings, in either order | bounded, spaced attempts; metrics that match what happened; true percentiles |
| repositories `persistence` | records, traces, anomalies | save, query, aggregate | two implementations of one promise | the same answers |
| configuration, factories, builder `core/config.py`, `core/builder.py`, `*/factory.py` | none | `load_config`, `create`, `build_pipeline` | checks spread over models, constructors and the builder; flags that bypass them | a pipeline that is built is one the components accept |
| command line `cli.py` | none | start, run, stop | order of shutdown, interrupts | no open trace after stop |
| query API `api/routes.py` | none | listing of logs, anomalies, counts | sorts and cuts what comes in no order | the newest first, none left out |
| generator, trainer, evaluators `scripts` | log, label, model and report files | generate, train, score | four programs that must agree on what a block, a window and an anomaly are | no false alarm on what was learned; injected faults caught where templates show them; reports that add up |
| parsers, sources, listeners, benchmark | | | | see [7](#7-not-modelled) |

The components meet in five places. Consumers call the stages in order, so the
sessionizer's lock serialises them. The sessionizer publishes closed traces on
the bus and waits for the handlers. Detectors save anomalies through the same
repository as the executor's batches. And the CLI starts the sessionizer before
the executor and stops it afterwards, also when the run is interrupted. The
sequence detector's model is a file: the trainer writes it, the builder and an
evaluator read it.

The things that are hard to test here are listed with their lines under
`hazards` in PROJECT.json, each with the properties that watch it.

## 2 The modules

Everything runs on one event loop. **A step of a specification is what one task
does between two awaits that really suspend it**; nothing else can interleave.
An `asyncio.Lock` that is free, a queue with room or an `await` of a coroutine
that never suspends is not a suspension.

### PipelineExecutor (abstract specification: RecordLedger)

| code | model |
|---|---|
| the tasks of `run()` | `pc`, a label for every await: a consumer in `get`, `stage`, `save`; the flusher in `sleep`, `save`; `run()` in `await_producer`, `join`, `gather`, `final_save` |
| `_queue`, its unfinished count | `queue`, `unfinished` |
| `_batch_buffer`, `to_save` | `buffer`, `batch[task]` |
| `_records_processed`, `_records_failed` | `processed`, `failed` |
| the repository | `stored`; a save that ends in `SaveOutcomes`: stored, `RepositoryError`, another exception |
| (history) records counted as failed | `dropped` |

Line *i* is record *i*. The batch lock is not modelled: no await that suspends
happens while it is held, so it is never contended. The 0.5 s timeout around
`queue.get()` is a stutter, because in Python 3.12 a cancelled or timed-out
`wait_for(queue.get())` has not taken an item (in 3.11 it may return one that
the cancellation then loses; CI also runs 3.11). A `RepositoryError` means that
the transaction was rolled back. A cancelled save may or may not have been
committed. `run()` is interrupted at most once. `run()` never cancels the
flusher except through an interrupted `gather`.

`RecordLedger` says what the executor is for: it accepts records one by one,
settles each as stored or failed, and reports counts that match, only when all
are settled. `ImplementsLedger` is the refinement.

### BlockSessionizer (abstract specification: BlockTraces)

| code | model |
|---|---|
| `process()` in a consumer, `_janitor_loop`, `stop()` called by `cli._run` | `pc`: `lock` (waiting for it), `publish`, `sleep`, ... |
| `asyncio.Lock`: holder and waiters, first come first served | `lockq` |
| `_open` (an `OrderedDict`) | `order` (keys, least recently touched first) and `trace` |
| `_latest_log_ts` | `latest` |
| `to_close` of a janitor pass | `todo` |
| handlers a `publish` still waits for | `calls` |
| (history) records given to `process()`, traces published, traces handled | `log`, `emitted`, `delivered` |

The holder of the lock suspends only in `publish`, still holding the lock; the
other tasks queue behind it. Records without a `block_id` leave `process()` at
once and are not inputs. Log times are small integers; a record without a
timestamp opens a trace at `WallClock`, later than all of them. `BlockTraces`
says what traces are: each attached record joins the open trace of its block,
traces are closed once and never reopened; `ImplementsTraces` is the refinement.
The loops over the dictionary are `Filter` of module Filtering, a recursive
function that the proofs can open.

### Pipeline (with SequenceDetector): the composition

`Pipeline` puts PipelineExecutor, BlockSessionizer and SequenceDetector
together as `core/builder.py` and `cli._run` do, and joins their steps: an
action of it takes an action of each component that the step is about, and
leaves the others unchanged.

| code | model |
|---|---|
| a consumer in `stage.process()` | `pc[w] = "stage"` of the executor; `stage[w]`, the stage it is in; `spc[w]`, where in the sessionizer |
| the list of stages | `StageOrder`, of those that suspend; the parser, the validators, the template matcher and a detector that finds nothing belong to the step before |
| `DetectorStage.process` | `AnomalySaved`, `AnomalyFails`: the anomaly first, then the record |
| `on_trace_closed` | `TraceHandled`: the sequence detector on the published trace, then `save_anomaly` |
| `_run` | `WindDown` and `Interrupt` of `run()`, then `StopSessionizer` and `FlushTraces`, interrupted or not |

What the stages make of a line is a constant (`Lines`): parsed, valid, its
block, its time, the templates it matches, anomalous to a point detector or not.
The order of the lines is the order of the log. There is one detector stage.
`TracesAssumption` is the sessionizer's assumption on its constants, in terms of
those of the pipeline.

### Repositories (abstract specification: LogStore)

Both repositories are fed the same calls by the same tasks. A write to memory
is one step, since its lock is held over no await. A write to Postgres is a
transaction: `Begin`, one `InsertRow` per row, `Commit`, `Acknowledge`, between
which other tasks work, the server fails, a key is refused or waited for, the
answer to the commit gets lost, the task is cancelled. Postgres itself (unique
keys, isolation, rollback) is external. `query`, `aggregate` and the API's
listing of anomalies change nothing and are operators: a loop for the one,
clauses with SQL's nulls and an arbitrary order for the other. A row is its key
and the columns that queries read. The code's ids are fresh, so no call is made
twice; the keys of traces are their blocks, which do come twice. A filter's run
is a text, as in the code: memory compares it with `str()` of a record's run
(`RunText`, "None" for none), Postgres parses it (`RunOf`, or `Malformed`, a
`ValueError` before any statement). The server may fail with a `SQLAlchemyError`,
which is translated, or with what the socket raises, which is not (`Broken`).

`LogStore` says what a repository owes its writers: a call lands whole or not
at all, no key lands twice, and a call that returns normally has landed.
`ImplementsStore` is the refinement, for Postgres.

### ValidationChain

One step is one record through the chain (`validate()` does not suspend):
`Asked` is the short-circuit, `Level`, `Allowed` and `Touched` are the token
bucket. Schema and size are predicates of the record. Time is in ticks, and
tokens are exact: a record costs `Cost` units, a tick refills `Refill`. A key
missing from `_buckets` is a full bucket. `passed` is history. The clock is
`time.monotonic`; with an injected clock that runs backwards the rate bound does
not hold, because the time is then credited twice.

### NumericDetectors

A value is stepped through the three detectors. The code's divisions and roots
are multiplied out, so that integers are exact: a z-score is compared squared,
quartiles are multiplied by 4. A CUSUM sum has two parts, the drift and the slack
taken off in standard deviations (`NoSum`), which only a comparison brings
together, squared (`Above`), as the standard deviation is a root. Any warmup from
two samples on will do. `seen` and `alarms` are history. `QuarterRank` is the code's `_percentile`. Rounding is
not modelled. The specification is `DetectorsSpec`, as it is proved about in one
module with StageDecorators.

### StageDecorators

| code | model |
|---|---|
| `RetryDecorator.process` | `Call`, then `AttemptEnds`, `AttemptFails` and `BackoffEnds` in turn, or `AttemptsExhausted`; `attempt`, `Delay` |
| `TimingDecorator.process`, its `finally` | `MeasureEnd`, part of the step that ends the call or the attempt, or cancels it |
| which of the two is outside | `stack`, chosen at the start |
| `MetricsRegistry`: `bisect.insort`, `snapshot()` | `samples`, `invocations`; `Insort`, `Percentile` |
| (history) the calls that have ended | `ended` |

`pc` says where a task's call is suspended: in the stage or in the retry's
sleep; it may be cancelled in both. The registry's lock is held over no await.
Nothing in the builder wires decorators; they are modelled as their docstrings
and tests stack them, on an arbitrary stage.

### SyntheticLogs, Evaluation, Configuration (run by MCCommands)

What the commands do is sequential: a step is one of the things a command does,
and what makes it large are the inputs.

- `SyntheticLogs` writes a log line by line, in the order in which blocks happen
  to be picked, with the three kinds of anomaly (`Truncated`, `Reordered`,
  `Injected`), until it is exhausted or cut.
- `Evaluation` extends it: `LabelBlocks` writes the labels, `Train` the model,
  `EvaluateHdfs` scores blocks by an instance of SequenceDetector, `EvaluateBgl`
  windows of time. `Confusion` and the quotients are `_eval_common.py`. The
  windows a point detector flags are any.
- `Configuration` is `pipelinex run` until the executor starts: `Load` with every
  check of `core/config.py`, `Override` with the two flags, `Build` with what the
  factories and constructors raise, in the order of `build_pipeline`; the result
  is a built pipeline or the type of the exception. Validators and detectors take
  any arguments from the file (`extra="allow"`): each constructor's checks are
  modelled in their order (`RateLimitError`, `CusumError`, ...), over integers,
  numbers that are not whole, NaN, values of other types and arguments it does
  not have, with the defaults of those not given. The `n` of a sequence model is
  any integer, since `SequenceModel.from_dict` asks nothing else of it: Pipeline and
  Evaluation take any, and below 1 there are no n-grams.

## 3 The runs

| run | instance | what it shows | states |
|---|---|---|---|
| executor_normal | 8 lines, 2 consumers, queue 1, batch 2, saves succeed or raise `RepositoryError` | `Conserved`, `CountersExact`, `BoundedMemory`, `ImplementsLedger` | 263,832 |
| executor_faults | 4 lines, 2 consumers, queue 2, batch 2, every failure, source may fail or stall, interrupt | `TypeOK`, `JoinCounts`, `OnePlace`, `BatchesBounded`, `NothingLeftBehind`, `LossOnlyInHand`, `RunCompletes`, `PartialBatchDrains` | 66,923 |
| executor_conservation_doc | 3 lines, 1 consumer | an unexpected exception of a save breaks the count (section 6) | violation |
| sessionizer | 3 records, 2 consumers, 3 blocks, 2 open traces, 2 handlers, terminal events, missing events and times, interrupt | `TypeOK`, `CapacityKept`, `TracesTruthful`, `DeliveryComplete`, `ReasonsTrue`, `PassComplete`, `ImplementsTraces`, `TerminalCloses`, `ProcessEnds` | 321,158 |
| sessionizer_stop_doc | 2 records, 1 consumer, 1 handler | the janitor's trace is lost in `stop()` (section 6) | violation |
| sessionizer_cap_doc | 3 records, 1 consumer, cap 2 | the hard cap does not bound records without an event (section 6) | violation |
| pipeline | 4 lines, 2 consumers, queue 1, batch 2, traces cut at 3 events, 2 n-grams, saves of batches and anomalies succeed or raise `RepositoryError`, interrupt | `LogOrderKept`, `EveryLineTraced`, `AlarmsRight`, `AnomaliesFollowed`, `RunAndStopEnd` | 285,900 |
| repositories | 2 tasks, 3 calls of 8 (batches, an empty batch, traces of the same blocks, anomalies), every failure | `SameAnswers` (queries, aggregates and the API's listing), `ImplementsStore` | 269,201 |
| validation | 2 keys, capacity 2, two thirds of a token a tick, 6 ticks | `TypeOK`, `RateBounded`, `RejectsOnlyExcess` | 134,839 |
| detectors | values 0, 1, 2, 7; sequences of 7; window 5, warmup 3 | `PointAlarmsExact`, for all three | 21,845 |
| decorators | 2 tasks, 3 calls, 2 retries, delays 1 and 2 (4 without the cap), both stacks | `RetriesRight`, `MetricsExact`, `QuantilesRight` | 708,698 |
| commands | 2 blocks of 4 kinds, `--max-lines` 4 or none, 3 BGL lines at 8 times, windows of 5 widths; every file with two sections changed and both flags | `NormalNeverFlagged`, `InjectedCaught`, `ReportAddsUp`, `WindowsExact`, `BuildsWithinAssumptions` | 1,004,503 |

Why the bounds are enough:

- *executor*: two consumers are the least at which batches are swapped by one
  task while another appends; the flusher and `run()` are third and fourth
  actors on the buffer. Batch size 2 has partial and full batches. With 8 lines
  the run fills the queue, both consumers' batches and the buffer at once:
  `BoundedMemory` is tight there (its bound less one is violated). In
  executor_faults 4 lines leave a queue, a held record, a buffer and a batch at
  the moment of a failure or an interrupt. The consumers are symmetric in
  executor_normal, whose properties do not distinguish them and are not liveness.
- *sessionizer*: two consumers and the janitor make a queue of two behind a
  publishing holder. Three blocks with two open traces evict, and two records
  of a block meet the cap or reopen what the janitor closed. Two handlers let
  one end before the other. With a window of 1 the times make traces age, stay,
  and arrive out of order.
- *pipeline*: three lines of one block, on two consumers: an outlier, which
  suspends a second time in the detector stage, one with a terminal event, after
  which the janitor may close the trace, and one that ends its trace at the cap
  or opens the block again; the fourth is refused. The transition that is not
  normal is the last, so it is in the trace, or cut away, depending on the
  janitor. With saves that raise something else than `RepositoryError`
  `AnomaliesFollowed` fails, as `Conserved` does (section 6).
- *repositories*: three calls by two tasks have two open transactions and rows
  that are already there, at once. Two calls save traces of the same two blocks
  in opposite orders, so that transactions wait for each other; only the server
  or a cancellation ends that. Three records, of two runs and of none, one of them
  without a time, against 240 filters, whose run is one of them, another spelling
  of it, "None", no UUID, or not asked for.
- *validation*: with two thirds of a token a tick the bucket has fractions, hits
  its capacity and empties; six ticks are two periods of the fractions.
- *detectors*: two values are evicted from a full window of five, with equal
  values; 7 is far enough to be an outlier among 0, 1, 2. After a warmup of three,
  whose standard deviation is irrational for some values, four are left for a
  drift over several values, an alarm and a second one. A z-score of 1.5 is reached.
- *decorators*: two retries have a delay below the cap and one cut to it. With three
  calls two overlap and end in either order, and a third starts with the
  `attempt` of the one before; up to nine attempts are measured, among which the
  ranks of the three percentiles differ.
- *commands*: a lifecycle of four kinds is the shortest that all three strategies
  can change in several ways, and has both events that the sample templates
  merge. Two blocks interleave and may be labelled differently; the cap of four
  lines cuts a block that the trainer or the evaluator sees whole. The blocks are
  symmetric: nothing tells them apart but their lines and labels. The times are
  two sides of a boundary of each admissible width, 30, 60, 120 and 3600 s, the
  end of a minute and of an hour among them; 90 is a width that `WindowsExact`
  leaves out. Of a configuration the order of checks matters, for which two wrong
  sections at a time are enough.

Each property has a mutant in PROJECT.json: a plausible bug of the code (kept in
the module just before the definition it would replace, and used nowhere else)
under which TLC finds that property violated.

## 4 Fairness

Weak fairness of each task's steps is what the event loop gives: a task whose
await is over is scheduled in turn. It presumes that stages and saves come
back. **Not** assumed: that the source yields another line or ends
(`ProducerPull` and `ProducerEnds` have no fairness: stdin may stall),
that any save succeeds, that a failure, an interrupt or a further record
occurs. The flusher's and the janitor's sleeps end, and so do handlers. In the
sessionizer alone a run may go on for ever, and `stop()` is only owed once the
run has been interrupted; in `Pipeline` it is owed when `run()` has ended. A
repository owes nothing: Repositories has no fairness, and TLC does not check
deadlock there, since all calls may be made. The decorators and the commands
promise nothing about time but bounds, and their modules state no fairness.

## 5 The proofs

TLAPS checks the following for every value of the constants, from the named
assumptions only, which TLC evaluates in the runs. `ConstantsAssumption`,
`TasksAssumption`, `SessionizerAssumption`, `TracesAssumption`,
`DetectorAssumption`, `ChainAssumption`, `BucketAssumption` and
`DecoratorAssumption` are what the constructors and the configuration accept;
`LinesAssumption` and `CallsAssumption` say what a line and a call are;
`LogsAssumption`: a lifecycle is a list of at least three kinds;
`EvaluationAssumption`: finitely many blocks, positive widths, and any integer for n;
`RowsAssumption` and `FiltersAssumption`: which columns of a row are never null,
that a run id reads back as it was written, and that a limit is positive, as the
API demands; `FilesAssumption`: what a
configuration file and the flags can say at all, before
any check; `JanitorAssumption`: the janitor is a task of its own; `PowersAssumption`: powers
of naturals are naturals, as the provers know nothing of `^`. What a theorem
assumes beyond them is in its statement.

Every property that is not liveness is proved, and every refinement. One theorem,
`InjectedCaughtAlways`, has a hypothesis about the data, `Tellable`.

**PipelineExecutorProofs**, in five parts that build on each other:

- `TypeCorrect` (`TypeOK`), `JoinCountsAlways` (`JoinCounts`),
  `BatchesBoundedAlways` (`BatchesBounded`). `JoinCounts` equates a counter with a
  cardinality, so each step needs to know how the set of busy consumers changes
  (`BusyGrows`, `BusyShrinks`), and `unfinished \in Nat` holds only because of it:
  `task_done` subtracts. The invariant is therefore `TypeInv`: `TypeOK`,
  `JoinCounts` and `Control`, which says what a task holds at each of its labels.
- `OnePlaceAlways` (`OnePlace`), `LossOnlyInHandAlways` (`LossOnlyInHand`), both
  in every environment, and `ConservedAlways` (`Conserved`), if saves raise
  `RepositoryError` at worst. That a record a consumer takes is nowhere else does
  not follow from `OnePlace`: `Places` adds that the queue holds exactly the
  records after those taken so far, in order (`QueueInOrder`), and that whatever
  is elsewhere was taken (`BelowTaken`). `Conserved` needs `Calm` too: on the
  normal path the shutdown flag is set only when no consumer works, so that no
  cancellation loses a record.
- `FailedExactAlways` in every environment, and `CountersExactAlways`
  (`CountersExact`) under the same condition on saves. The proof is the
  bookkeeping of `_flush_batch`: a rejected batch takes off exactly those of its
  records that were counted before, which are all but the one of the consumer
  that saves (`Counted`).
- `NothingLeftBehindAlways` (`NothingLeftBehind`), in every environment, from
  `WoundDown`, which says what is behind `run()` at each label of its end; and
  `ImplementsLedgerAlways` (`ImplementsLedger`): initial states map to initial
  states, and each of the 23 actions to a step of RecordLedger or a stutter. The
  latter is for a `CalmEnvironment` (no unexpected exception of a save, no source
  that raises, no interrupt), that of the run that checks it: in others the
  ledger's promise is broken (section 6).
- `BoundedMemoryAlways` (`BoundedMemory`), also for a `CalmEnvironment`.
  `BufferOnlyWithRoom` is why the bound is sharp: a consumer that fills a batch
  empties the buffer, so there is a record in the buffer or with the flusher only
  while some consumer saves no full batch. `UnionBound` counts the batches.

**BlockSessionizerProofs**: `TypeOKAlways`, `CapacityKeptAlways`,
`TracesTruthfulAlways`, `DeliveryCompleteAlways`, `ReasonsTrueAlways`,
`PassCompleteAlways` and `ImplementsTracesAlways`, each for the property it is
named after, with terminal events, evictions, caps, missing events and times,
interruptions and second interruptions. One inductive invariant carries them
all, `Inv`:

- `Queued`: who waits for the lock is in its line, once, and only its holder
  publishes. So what one task leaves half done no other can touch.
- `Kept`: the dictionary has its keys in `order`, each once, least recently
  touched first; each trace is about records of its block (`Fits`); and the
  bounds of `CapacityKept`.
- `Numbered`: the lock is first come first served, so whoever waits for it has a
  later record than every trace. This is why ids stay in order and an attach is
  a step of BlockTraces.
- `PassIsCurrent`: what a janitor pass has still to close is exactly what a fresh
  look would find due, for the reason it would find. It is true because the lock
  is held over the pass and `latest` only moves under it, and it gives
  `ReasonsTrue` and `PassComplete` at once.
- `EndsInOrder`: consumers end before the janitor, the janitor before the flush.
- `DeliveredOnce`: every handler was given an increasing sequence of traces, and
  misses at most one, that at whose publishing the janitor was cancelled. The
  bound of `DeliveryComplete` on the undelivered traces is not inductive without
  naming that trace.

Three results go beyond what the runs check. `TracesInOrder`, from the refinement
alone: the traces of a block, one after the other, have ever later records.
`AllClosedAlways`: after a `stop()` that nothing interrupted, every record that
`process()` was given is in a closed trace. `NoGapsAlways`: a record is attached
only when all those given before it are, also in a run that is interrupted.

**PipelineProofs** carries both over to the composition.
`PipelineImplementsExecutor` and `PipelineImplementsSessionizer`: every step of
`Pipeline` is a step of its executor or leaves it alone, and a step of its
sessionizer or leaves that alone, so that all theorems above hold of the
program. From them:

- `AnomaliesFollowedAlways` (`AnomaliesFollowed`), if saves raise
  `RepositoryError` at worst: `Custody` says that a consumer in a stage or in the
  sessionizer has a record from the executor, so an anomaly is of a record that
  was taken from the queue, and `Conserved` and `NothingLeftBehind` say where
  that is.
- `LogOrderKeptAlways` (`LogOrderKept`): the sessionizer numbers its records by
  itself, and `TracesInOrder` is about those numbers. `GivenInOrder` ties them to
  the log: the lines taken from the queue that have a trace to join are exactly
  the sessionizer's records, in the order of the source.
- `EveryLineTracedAlways` (`EveryLineTraced`), if saves raise `RepositoryError` at
  worst: `AllClosedAlways` of the sessionizer, `GivenInOrder`, and `Conserved`.
- `AlarmsRightAlways` (`AlarmsRight`): the events of a closed trace are a piece of
  those its block has in the log (`PieceOfBlock`), so its n-grams are n-grams of
  the block. `TraceHasItsLines`: between the first and the last line of a trace no
  line of its block is missing, by `NoGapsAlways` and `TracesInOrder`. The events
  of both are filtered, and `PieceOf` of Induction says of two ascending lists
  that one with all that the other has between two bounds is a piece of it. That
  a trace which must raise an alarm has raised it is in `AlarmsKept`, with the
  cancellation of the detector between its score and its save.

**RepositoriesProofs**: `ImplementsStoreAlways` (`ImplementsStore`), for any tasks
and batches and a server that fails at any statement. That the rows of a call
land together, each key once, is decided while the call inserts them and used
when it commits, with other transactions in between; `Isolated` is what holds
meanwhile: the keys a transaction has inserted are neither in its table nor in
another open transaction on it. `SameAnswersAlways` (`SameAnswers`), for any
filters that spell a run id, if they have one, as `str()` does (`Canonical`), has
two halves. What the two hold: memory has a call's rows as soon as
the call is made, in one stretch, Postgres when it commits, and other tasks'
stretches come in between; `AllAccounted` says where the stretch of each call
under way begins, that no two meet, and that all else in memory is what is
committed, each row once. Without a call under way both have the same rows
(`SameRows`). What they answer then: the loop's conditions are the clauses'
(`SameConditions`; for the run, `RunText` and `RunOf` undo each other there), a list without repetitions has as many elements as its range
(`InjectiveSize`), which makes counts and limits agree, and of two lists of the
same rows, each sorted newest first, neither is ever ahead in time
(`NeverAhead`, by the pigeonhole principle).

**ValidationChainProofs**: `BucketsTyped` (`TypeOK`) and `RateIsBounded`
(`RateBounded`), for any sources, capacity, rate and any position of the limiter
in the chain. The bound speaks of pairs of accepted records and is not
inductive: it says nothing of the tokens that are left. `Credit` adds that, for
every accepted record, what was accepted since plus the tokens left is within
the bound up to the bucket's last refill. A tick leaves it alone, a refill adds
to both sides the same time (`Prolonged`), an accepted record moves its cost
from the tokens to the count, and its own bound is `Credit` at that moment.
`RejectsOnlyExcessAlways` (`RejectsOnlyExcess`), with the limiter last in the
chain (`LimiterLast`), is the converse: `Owed` says that in a bucket that is not
full, for the stretch since some accepted record, the tokens left are all that
the bound allows. Elsewhere in the chain a later validator can reject a record
that was paid for, and the property does not hold.

**StagesProofs**, of the decorators (StageDecorators), for any number of tasks,
calls and retries and both stacks:

- `RetriesRightAlways` (`RetriesRight`): a call that waits has failed at least
  once and never more than `MaxRetries` times (`CallsInv`), and the time it has
  spent covers the backoffs so far (`Waited`), whose sum is a function defined by
  recursion (`Backoffs`). That none of them was longer than `MaxDelay` is measured
  against the longest duration of an attempt (`Capped`).
- `MetricsExactAlways` (`MetricsExact`): `Counted` has, with the timing outside, a
  bijection that places every ended call at its sample, which an insertion moves
  (`PlacedMore`); with the retry outside, it counts attempts, those of ended calls
  and those of calls that go on, and an end moves a call's from one set to the
  other (`AttemptsMove`).
- `QuantilesRightAlways` (`QuantilesRight`): the samples stay ascending, because
  `insort` puts a sample behind all that are not greater (`InsertAscending`, from
  `CountPrefix`: in an ascending list those are a prefix), and the rank that
  `snapshot()` computes lies within the samples and a p-th of them down
  (`RankBounds`).

And of the point detectors (NumericDetectors), for any integers, any windows,
warmups, rational thresholds and lengths of the history:
`PointAlarmsExactAlways` (`PointAlarmsExact`). The property compares the alarms so
far with definitions over the whole history and says nothing of what a detector
keeps; `DetectorsInv` says what that is.

- The z-score: the window is the `WindowSize` values before the next one
  (`BeforeIn`, `BeforeNext`), and no later value changes what was before an
  earlier one (`BeforeStable`). The sum of the squared deviations is the
  textbook's variance multiplied out (`SpreadIs`), by induction over the window;
  both are sums of integers, so the same factor scales both sides of the
  comparison (`ZAlarmRight`).
- IQR: the sorted view is ascending and has, up to every bound, as many values as
  the window (`IsView`). Evicting the oldest and inserting the newest change both
  counts alike (`ViewEvicted`, `ViewInserted`), also with equal values in the
  window: what `bisect_left` finds is there because the window has it
  (`EvictedIs`). So the k-th smallest of the window, found by counting, is the
  k-th of the view (`KthSmallestIs`), and the interpolated quartiles agree
  (`QuartileIs`).
- CUSUM: the stretches that end here and begin after the last alarm are not
  compared with each other, which would take square roots; each is only beyond
  its slack, or not. A sum tracks them (`Tracks`) if whatever is added from here
  on, not beyond the slack by itself, takes the sum beyond exactly when it takes
  one of them. One value prolongs each stretch and begins a new one
  (`TracksStep`): two that are beyond are so together, and two that are not are
  not (`BeyondTogether`, `NotBeyondTogether`), so that cutting the sum at 0 forgets
  none that matters, and the sum exceeds the limit exactly when some stretch does
  (`CusumScored`). An alarm empties the set of stretches; the warmup has none
  (`CusumAbsorbed`).

**CommandsProofs**, for any log, labels, flags and configuration file:

- `BuildsWithinAssumptionsAlways` (`BuildsWithinAssumptions`): `Checked` is what
  the checks so far have established; the list of what the constructors raise is
  empty only when none raises (`NoErrors`, `ErrorLists`), a constructor raises
  nothing only when none of its checks does (`ChecksRaise`), and then its
  arguments are in range (`RateLimitWithin`, `ZScoreWithin`, `IqrWithin`,
  `CusumWithin`, `BuiltIsWithin`). It needs that the file's arguments have the types
  that the constructors declare (`Sane`): NaN passes every comparison.
- `NormalNeverFlaggedAlways` (`NormalNeverFlagged`): no file is read after it has
  become stale, so each says what a script would make of the others now
  (`FilesCurrent`). The events of a block in fewer lines are a piece of those in
  more (`EventsGrow`), so the trainer has seen every n-gram of a normal block that
  the evaluator sees.
- `CaughtByNgramsAlways`: of a log that is complete and read to its end, the events
  of a block are those of its sequence, however the blocks are interleaved
  (`LogTold`, `EventsAre`), so under true labels the model has the n-grams of the
  lifecycle and the blocks flagged are those that have another (`FiresOnNovel`).
- `InjectedCaughtAlways` (`InjectedCaught`) says which of the injected anomalies
  these are. That depends on the data, and `Tellable` is what it needs: a block the
  generator can make begins like the lifecycle, as the templates tell lines apart,
  exactly when it has the lifecycle's n-grams only. This is false for `--n 1`, since
  a reordered block has no single event that the normal one lacks, and for n-grams
  longer than a block, which has none. MCCommands assumes it, so that TLC evaluates
  it, of the lifecycle of the run (`ShortIsTellable`) and of the six kinds and three
  exception events of the code at the trainer's default of 2 (`GeneratorIsTellable`).
- `ReportAddsUpAlways` (`ReportAddsUp`): `ConfusionCounts`, and that precision,
  recall and F1 are each the share they should be, or 0 where its denominator is
  (`QuotientIsShare`, `F1Value`).
- `WindowsExactAlways` (`WindowsExact`): the window of a second is a multiple of
  the width that holds it (`WindowHolds`), there is one such multiple
  (`OneWindow`), and a filter keeps as many lines as there are (`FilterCount`).

**Induction** is what makes proofs about loops over data possible. The library's
induction theorems take an operator as a parameter, which the provers cannot
instantiate; but that a nonempty set of naturals has a least member is a
statement about sets (`Least`), and it gives induction for sets (`SetInduction`),
the functions that a recursion defines (`Recursion`), and what a loop that
filters a list returns (`FilterKeeps`, `FilterAppend`) and where in the list it
took it from (`FilterPositions`), that only its elements matter (`FilterSame`),
and what it returns of a piece of it (`FilterOfPiece`).
`Filtering` is that loop, as the sessionizer uses it to touch a key and to list
what is due, the repositories for a query, `Pipeline` and `Evaluation` to say what
events a block has in the log, and `Configuration` to list what the constructors
raise.

Model-checked only: everything about liveness (out of reach of the prover, as is
`ENABLED`: `RunCompletes`, `PartialBatchDrains`, `TerminalCloses`, `ProcessEnds`,
`RunAndStopEnd`).

## 6 Where the documents and the code differ

Shown by a run:

- `docs/ONBOARDING.md:977` says `records_in == records_persisted +
  records_failed`. Not when `save_batch` raises anything but `RepositoryError`:
  the batch is gone and one record of it, or none, is counted.
- `docs/ONBOARDING.md:558-561` says that no in-flight trace is lost on shutdown.
  `stop()` cancels the janitor while it publishes a trace it has popped.
- `block_sessionizer.py:20`: the hard cap is said to count records. It counts
  events, and records that matched no template add none.

Met while reading, without a run of their own:

- `core/config.py:3-5` says that the schema catches typos and type errors at load
  time. The models of validators and detectors allow extra fields: a file with an
  argument that no constructor has, or of another type, is loaded, and
  `build_pipeline` raises a `TypeError` or `ValueError`, no `ConfigurationError`.
- `core/config.py:119` says that there are 1 to 64 workers. `cli.py:46-47` assigns
  `--workers` to a configuration that was checked before: `--workers 0` starts no
  consumer and the run never ends.
- `docs/QA_PREP.md:157` has the two repositories truly interchangeable. A run id
  in upper case, or without hyphens, matches in Postgres, which parses it, and
  not in memory, which compares texts (`SameAnswers` is about the spelling of
  `str()` only).
- `docs/concurrency-model.md:66` says that after a `SourceError` "consumers drain
  the queue then exit". The consumers are cancelled and the queue is given up
  (`LossOnlyInHand` says what that costs).
- `docs/concurrency-model.md:127` says a slow detector cannot stall a consumer.
  `publish` is awaited with the sessionizer's lock held, and every consumer with
  a record of a block waits for that lock.
- `core/pipeline.py:11-12`: the flusher keeps partial batches from staying in
  memory; one unexpected exception of a save ends it for the rest of the run
  (`PartialBatchDrains` has that exception).
- `docs/PRESENTATION.md:1000`, no record lost on Ctrl-C: an interrupt gives up
  the queue in the same way as a source error.
- `block_sessionizer.py:31-32`: eviction is said to take the oldest trace by
  `last_timestamp`; it takes the one least recently touched.
- `docs/ONBOARDING.md:553`: a terminal trace's reason is said to be `timeout`; it
  is `terminal`.
- `detectors/zscore.py:8-10`: the value is said to be pushed before it is
  scored; it is scored first, as the comment in `detect` says.
- `docs/QA_PREP.md:173` calls `ValidationError` a `TransientStageError`; it is a
  `StageError`, and a rejected record is handled as an unexpected error.
- `core/interfaces.py:143-144`: both repositories are said to pass the same
  tests as a guarantee. They differ in: a record without a timestamp, which
  `postgres_repo._row_to_record` returns with the current time (`SameAnswers`
  allows for it); a second trace of a block, which the table's key `block_id`
  refuses and the list keeps, and the sessionizer does close a block twice;
  `record_ids`, which Postgres does not store; `limit=0`, for which memory
  returns a record; a `pipeline_run_id` that is no UUID, which raises `ValueError`
  in Postgres, while in memory it matches nothing, or, if it is "None", the
  records without a run.
- A connection that is refused before Postgres answers, or breaks, may be an
  `OSError`, which
  `postgres_repo` does not translate into a `RepositoryError`: the executor
  takes it for an unexpected error and loses the batch (section 3,
  executor_conservation_doc).
- `detectors/detector_stage.py:4-5`: the record is said to continue unchanged. It
  is dropped when `save_anomaly` raises, and since `RepositoryError` is no
  `TransientStageError` a `RetryDecorator` would not help.
- `core/models.py:87-88`: detectors are told to query the repository by the ids of
  a trace. When the trace is published its records may still be in a buffer.
- A point detector with `min_samples` above `window_size` is accepted and never
  fires.
- A NaN in the file (`.nan`) passes every comparison of the constructors: a
  `threshold` of NaN never fires, a `min_samples` of NaN waits for no sample.
- `SequenceModel.from_dict` takes any integer for `n`, and `--n` of the trainer any
  too: with 0 or less there are no n-grams and nothing is ever flagged.
- A malformed DSN is an exception of SQLAlchemy when the pipeline is built.
- `core/builder.py:206`: when the model file is missing the sequence detector is
  built with an empty model, and fires on every trace long enough to score.
- `scripts/train_sequence_model.py:11` says that the model has the n-grams that
  occur "only in Normal" blocks; it has those of all Normal blocks, whether or
  not Anomaly blocks have them too (lines 138-144).
- `scripts/evaluate_bgl_point.py:161-170`: a width that is no multiple of a minute
  is rounded down to one (90 s gives windows of a minute), one that does not
  divide a minute or an hour gives windows of unequal lengths, and one above an
  hour windows of an hour. `Admissible` in `WindowsExact` leaves these out.
- The sample templates match two of the generator's kinds of line with one
  template each (E9 for E21, E7 for E22), and neither E4, whose template has two
  spaces, nor E14: an exception event may leave no trace, which is why
  `InjectedCaught` speaks of what the evaluator sees.
- `docs/QA_PREP.md:55` claims that by construction every fire is correct, given
  clean labels. That needs, beyond the labels, that the trainer read as much of
  the block as the evaluator does (`NormalNeverFlagged`).
- `docs/QA_PREP.md:236` says that the evaluation script asserts that templates
  matched before it computes F1; `evaluate_hdfs_sequence.py` does not.

## 7 Not modelled

- Parsers: stateless regular expressions, for which the repository has property
  tests. The modules start from what a line is parsed to.
- The throughput benchmark: it times the executor, which PipelineExecutor models.
- Listeners and the events other than a closed trace: nothing in `src/`
  subscribes them. The registry's gauge and `reset()`: nothing calls them while
  a pipeline runs. `ParserFactory.detect`: nothing calls it.
- Of the repositories `all_traces`, `all_records` and `close`; of the API what is
  not the listing of anomalies, each a query or an aggregate passed on.
- Of the command line the commands `serve` and `info`, and what is printed; of the
  evaluators the rendering of `BENCHMARKS.md` and of JSON.
- File handling of the sources. Data classes, interfaces and exception types
  appear as records and outcomes. Logging.
- A handler that hangs, or a stage: with one that never ends, whatever waits for
  the sessionizer's lock waits for ever, `stop()` included.
- An executor over a repository that raises for rows that have landed (a lost
  answer to a commit, which Repositories and LogStore have): PipelineExecutor takes
  a `RepositoryError` to mean that nothing landed, and the counters are off by that
  batch when it does not.
- Wall-clock durations: a sleep is a step that may come at any time (in
  StageDecorators it takes its delay). Floating-point rounding.

## 8 Plan

1. *Done*: PipelineExecutor with RecordLedger; BlockSessionizer with BlockTraces;
   ValidationChain; NumericDetectors; Pipeline with SequenceDetector, the
   composition; Repositories with LogStore; StageDecorators; SyntheticLogs with
   Evaluation; Configuration.
2. *Done*: the proofs of section 5. What is left to TLC is liveness.

## 9 Running it

```
tlc -workers 2 -config executor_faults.cfg MCPipelineExecutor
tlc -workers 2 -config sessionizer.cfg MCBlockSessionizer
tlc -workers 2 -config pipeline.cfg MCPipeline
tlc -workers 2 -config repositories.cfg MCRepositories
tlc -workers 2 -config validation.cfg MCValidationChain
tlc -workers 2 -config detectors.cfg NumericDetectors
tlc -workers 2 -config decorators.cfg StageDecorators
tlc -workers 2 -config commands.cfg MCCommands
tlapm PipelineExecutorProofs.tla
tlapm BlockSessionizerProofs.tla
tlapm PipelineProofs.tla
tlapm RepositoriesProofs.tla
tlapm ValidationChainProofs.tla
tlapm StagesProofs.tla
tlapm CommandsProofs.tla
tlapm Induction.tla
```

The module and configuration of every run are in PROJECT.json. TLC takes between
a second and four minutes for each, tlapm up to ten minutes for a module.
