--------------------------- MODULE PipelineExecutor ---------------------------
(***************************************************************************)
(* The executor of core/pipeline.py: a producer task, a pool of consumer   *)
(* tasks, a flusher task and the main task that runs them, over a bounded  *)
(* asyncio.Queue, a batch buffer and a repository.                         *)
(*                                                                         *)
(* The tasks share one event loop, so a step is everything a task does     *)
(* between two awaits that really suspend it: queue.get on an empty queue, *)
(* queue.put on a full one, stage.process, repository.save_batch, sleep,   *)
(* join and gather.  The batch lock is held over no such await, hence it   *)
(* is always free and needs no variable: appending a record, finding the   *)
(* buffer full and swapping it out is one step.  The 0.5 s timeout around  *)
(* queue.get (Python 3.12, where a get that times out or is cancelled      *)
(* takes no item) only sends an idle consumer round its loop: a stutter.   *)
(*                                                                         *)
(* Line i of the source becomes record i.  A batch is a set of records:    *)
(* save_batch stores it in one transaction.                                *)
(***************************************************************************)
EXTENDS Integers, Sequences, FiniteSets

CONSTANTS
  NumLines,       \* the number of lines the source yields before it ends
  Workers,        \* the consumer tasks
  Producer, Flusher, Main,
  QueueSize,      \* queue_size, at least 1 (core/config.py)
  BatchSize,      \* batch_size, at least 1 (core/config.py)
  SaveOutcomes,   \* how save_batch may end in this environment
  SourceMayFail,  \* whether the source may raise
  MayInterrupt    \* whether the task of run() may be cancelled (Ctrl-C), once

Outcomes == {"ok", "repository_error", "unexpected_error"}

ASSUME ConstantsAssumption ==
  /\ NumLines \in Nat
  /\ QueueSize \in Nat \ {0}
  /\ BatchSize \in Nat \ {0}
  /\ IsFiniteSet(Workers)
  /\ SaveOutcomes \subseteq Outcomes
  /\ SourceMayFail \in BOOLEAN
  /\ MayInterrupt \in BOOLEAN

ASSUME TasksAssumption ==
  /\ Producer \notin Workers
  /\ Flusher \notin Workers
  /\ Main \notin Workers
  /\ Producer # Flusher
  /\ Producer # Main
  /\ Flusher # Main

Records == 1..NumLines
NoRecord == 0
Tasks == Workers \cup {Producer, Flusher, Main}
Savers == Workers \cup {Flusher, Main}   \* the tasks that call _flush_batch

VARIABLES
  pc,           \* [Tasks -> where the task is suspended]
  enqueued,     \* how many records the producer has put
  queue,        \* _queue, oldest first
  unfinished,   \* the queue's count of puts without a task_done
  held,         \* [Workers -> the record the consumer is processing]
  buffer,       \* _batch_buffer
  batch,        \* [Savers -> to_save, while save_batch runs]
  shutdown,     \* _shutdown_event; the consumers are cancelled with it
  interrupted,  \* the task of run() has been cancelled
  processed,    \* _records_processed
  failed,       \* _records_failed
  stored,       \* what the repository holds
  dropped       \* the records counted in _records_failed

vars == <<pc, enqueued, queue, unfinished, held, buffer, batch, shutdown,
          interrupted, processed, failed, stored, dropped>>

Init ==
  /\ pc = [t \in Tasks |->
             CASE t = Producer -> "pull"
               [] t = Flusher  -> "sleep"
               [] t = Main     -> "await_producer"
               [] OTHER        -> "get"]
  /\ enqueued = 0
  /\ queue = <<>>
  /\ unfinished = 0
  /\ held = [w \in Workers |-> NoRecord]
  /\ buffer = {}
  /\ batch = [s \in Savers |-> {}]
  /\ shutdown = FALSE
  /\ interrupted = FALSE
  /\ processed = 0
  /\ failed = 0
  /\ stored = {}
  /\ dropped = {}

Goto(t, label) == pc' = [pc EXCEPT ![t] = label]

-------------------------------------------------------------------------------
(* The producer: _produce. *)

\* The record in the producer's hands is the next one, enqueued + 1.
ProducerPull ==
  /\ pc[Producer] = "pull"
  /\ enqueued < NumLines
  /\ Goto(Producer, "put")
  /\ UNCHANGED <<enqueued, queue, unfinished, held, buffer, batch, shutdown,
                 interrupted, processed, failed, stored, dropped>>

\* _produce with queue.put_nowait on an unbounded queue.
QueueUnbounded == TRUE

QueueHasRoom == Len(queue) < QueueSize

ProducerPut ==
  /\ pc[Producer] = "put"
  /\ QueueHasRoom
  /\ queue' = Append(queue, enqueued + 1)
  /\ enqueued' = enqueued + 1
  /\ unfinished' = unfinished + 1
  /\ Goto(Producer, "pull")
  /\ UNCHANGED <<held, buffer, batch, shutdown, interrupted, processed, failed,
                 stored, dropped>>

ProducerEnds ==
  /\ pc[Producer] = "pull"
  /\ enqueued = NumLines
  /\ Goto(Producer, "done")
  /\ UNCHANGED <<enqueued, queue, unfinished, held, buffer, batch, shutdown,
                 interrupted, processed, failed, stored, dropped>>

SourceFails ==
  /\ SourceMayFail
  /\ pc[Producer] = "pull"
  /\ Goto(Producer, "raised")
  /\ UNCHANGED <<enqueued, queue, unfinished, held, buffer, batch, shutdown,
                 interrupted, processed, failed, stored, dropped>>

-------------------------------------------------------------------------------
(* A consumer: _consume, with _buffer_for_batch and _flush_batch. *)

WorkerGet(w) ==
  /\ ~shutdown
  /\ pc[w] = "get"
  /\ queue # <<>>
  /\ held' = [held EXCEPT ![w] = Head(queue)]
  /\ queue' = Tail(queue)
  /\ Goto(w, "stage")
  /\ UNCHANGED <<enqueued, unfinished, buffer, batch, shutdown, interrupted,
                 processed, failed, stored, dropped>>

\* task_done missing from the consumer's finally.
TaskDoneForgotten(w, label) ==
  /\ UNCHANGED unfinished
  /\ held' = [held EXCEPT ![w] = NoRecord]
  /\ Goto(w, label)

\* The finally of the consumer's loop body.
TaskDone(w, label) ==
  /\ unfinished' = unfinished - 1
  /\ held' = [held EXCEPT ![w] = NoRecord]
  /\ Goto(w, label)

\* FatalStageError, TransientStageError and any other Exception do the same.
StageFails(w) ==
  /\ ~shutdown
  /\ pc[w] = "stage"
  /\ failed' = failed + 1
  /\ dropped' = dropped \cup {held[w]}
  /\ TaskDone(w, "get")
  /\ UNCHANGED <<enqueued, queue, buffer, batch, shutdown, interrupted,
                 processed, stored>>

WithHeld(w) == buffer \cup {held[w]}

\* should_flush with > for >=.
BatchOverfull(w) == Cardinality(WithHeld(w)) > BatchSize

BatchIsFull(w) == Cardinality(WithHeld(w)) >= BatchSize

\* The swap of _flush_batch without emptying the buffer.
CopyBuffer(s, records) ==
  /\ batch' = [batch EXCEPT ![s] = records]
  /\ UNCHANGED buffer

\* The swap with its two assignments the wrong way round.
ForgetBuffer(s, records) ==
  /\ UNCHANGED batch
  /\ buffer' = {}

\* An early return of _flush_batch for every batch that is not full.
NotYetFull == Cardinality(buffer) < BatchSize

\* The early return of _flush_batch.
NothingToFlush == buffer = {}

\* _flush_batch takes the whole buffer and leaves an empty one.
SwapBuffer(s, records) ==
  /\ batch' = [batch EXCEPT ![s] = records]
  /\ buffer' = {}

\* The stages end and the batch is not full yet.
BufferRecord(w) ==
  /\ ~shutdown
  /\ pc[w] = "stage"
  /\ ~BatchIsFull(w)
  /\ buffer' = WithHeld(w)
  /\ processed' = processed + 1
  /\ TaskDone(w, "get")
  /\ UNCHANGED <<enqueued, queue, batch, shutdown, interrupted, failed, stored,
                 dropped>>

\* The record fills the batch: this consumer swaps the buffer out and saves it.
FillBatch(w) ==
  /\ ~shutdown
  /\ pc[w] = "stage"
  /\ BatchIsFull(w)
  /\ SwapBuffer(w, WithHeld(w))
  /\ Goto(w, "save")
  /\ UNCHANGED <<enqueued, queue, unfinished, held, shutdown, interrupted,
                 processed, failed, stored, dropped>>

\* save_batch returns to _flush_batch; a RepositoryError is accounted there.
SaveOk(s) ==
  /\ "ok" \in SaveOutcomes
  /\ stored' = stored \cup batch[s]
  /\ batch' = [batch EXCEPT ![s] = {}]
  /\ UNCHANGED <<failed, dropped>>

\* The counters of a rejected batch: its records were counted as processed.
KeepCount(s) == processed
Uncount(s) == processed - Cardinality(batch[s])

SaveRejected(s) ==
  /\ "repository_error" \in SaveOutcomes
  /\ failed' = failed + Cardinality(batch[s])
  /\ dropped' = dropped \cup batch[s]
  /\ batch' = [batch EXCEPT ![s] = {}]
  /\ UNCHANGED stored

WorkerSaved(w) ==
  /\ ~shutdown
  /\ pc[w] = "save"
  /\ \/ SaveOk(w) /\ processed' = processed + 1
     \/ SaveRejected(w) /\ processed' = Uncount(w) + 1
  /\ TaskDone(w, "get")
  /\ UNCHANGED <<enqueued, queue, buffer, shutdown, interrupted>>

\* Not a RepositoryError: the consumer's except counts its own record only.
WorkerSaveRaises(w) ==
  /\ ~shutdown
  /\ "unexpected_error" \in SaveOutcomes
  /\ pc[w] = "save"
  /\ failed' = failed + 1
  /\ dropped' = dropped \cup {held[w]}
  /\ batch' = [batch EXCEPT ![w] = {}]
  /\ TaskDone(w, "get")
  /\ UNCHANGED <<enqueued, queue, buffer, shutdown, interrupted, processed,
                 stored>>

\* A cancelled save may already have reached the repository.
CancelledSave(s) ==
  /\ stored' \in {stored, stored \cup batch[s]}
  /\ batch' = [batch EXCEPT ![s] = {}]

\* CancelledError: no except clause takes it, the finally still runs.
WorkerCancelled(w) ==
  /\ shutdown
  /\ \/ /\ pc[w] = "get"
        /\ Goto(w, "exit")
        /\ UNCHANGED <<unfinished, held, batch, stored>>
     \/ /\ pc[w] = "stage"
        /\ TaskDone(w, "exit")
        /\ UNCHANGED <<batch, stored>>
     \/ /\ pc[w] = "save"
        /\ CancelledSave(w)
        /\ TaskDone(w, "exit")
  /\ UNCHANGED <<enqueued, queue, buffer, shutdown, interrupted, processed,
                 failed, dropped>>

-------------------------------------------------------------------------------
(* The flusher: _batch_flusher.  It is not cancelled by run(). *)

FlusherLoop == IF shutdown THEN "exit" ELSE "sleep"

FlusherWakes ==
  /\ pc[Main] # "gather_cancelled"
  /\ pc[Flusher] = "sleep"
  /\ IF NothingToFlush
     THEN Goto(Flusher, FlusherLoop) /\ UNCHANGED <<buffer, batch>>
     ELSE /\ SwapBuffer(Flusher, buffer)
          /\ Goto(Flusher, "save")
  /\ UNCHANGED <<enqueued, queue, unfinished, held, shutdown, interrupted,
                 processed, failed, stored, dropped>>

FlusherSaved ==
  /\ pc[Main] # "gather_cancelled"
  /\ pc[Flusher] = "save"
  /\ \/ SaveOk(Flusher) /\ UNCHANGED processed
     \/ SaveRejected(Flusher) /\ processed' = Uncount(Flusher)
  /\ Goto(Flusher, FlusherLoop)
  /\ UNCHANGED <<enqueued, queue, unfinished, held, buffer, shutdown,
                 interrupted>>

\* The exception leaves the loop and ends the task; gather swallows it.
FlusherDies ==
  /\ pc[Main] # "gather_cancelled"
  /\ "unexpected_error" \in SaveOutcomes
  /\ pc[Flusher] = "save"
  /\ batch' = [batch EXCEPT ![Flusher] = {}]
  /\ Goto(Flusher, "exit")
  /\ UNCHANGED <<enqueued, queue, unfinished, held, buffer, shutdown,
                 interrupted, processed, failed, stored, dropped>>

\* Cancelling gather cancels its children, the flusher among them.
FlusherCancelled ==
  /\ pc[Main] = "gather_cancelled"
  /\ \/ pc[Flusher] = "sleep" /\ UNCHANGED <<batch, stored>>
     \/ pc[Flusher] = "save" /\ CancelledSave(Flusher)
  /\ Goto(Flusher, "exit")
  /\ UNCHANGED <<enqueued, queue, unfinished, held, buffer, shutdown,
                 interrupted, processed, failed, dropped>>

-------------------------------------------------------------------------------
(* The main task: run. *)

\* await producer, then await queue.join().
MainJoins ==
  /\ pc[Main] = "await_producer"
  /\ pc[Producer] = "done"
  /\ ~interrupted
  /\ Goto(Main, "join")
  /\ UNCHANGED <<enqueued, queue, unfinished, held, buffer, batch, shutdown,
                 interrupted, processed, failed, stored, dropped>>

\* Waiting for an empty queue instead of the join.
QueueDrained == queue = <<>>

Joined == unfinished = 0

\* The finally: reached from the join, or by the exception of either await.
MainWindsDown ==
  /\ \/ pc[Main] = "join" /\ (Joined \/ interrupted)
     \/ /\ pc[Main] = "await_producer"
        /\ pc[Producer] \in {"raised", "cancelled"} \/ interrupted
  /\ shutdown' = TRUE
  /\ Goto(Main, "gather")
  /\ UNCHANGED <<enqueued, queue, unfinished, held, buffer, batch, interrupted,
                 processed, failed, stored, dropped>>

\* A gather over the consumers only.
ConsumersGathered == \A t \in Workers : pc[t] = "exit"

Gathered == \A t \in Workers \cup {Flusher} : pc[t] = "exit"

\* run() returns a result unless an exception is on its way out.
RunEnds == IF pc[Producer] = "done" /\ ~interrupted THEN "returned" ELSE "raised"

\* run() without its final drain.
MainGatheredNoDrain ==
  /\ pc[Main] = "gather"
  /\ Gathered
  /\ Goto(Main, RunEnds)
  /\ UNCHANGED <<enqueued, queue, unfinished, held, buffer, batch, shutdown,
                 interrupted, processed, failed, stored, dropped>>

MainGathered ==
  /\ pc[Main] = "gather"
  /\ Gathered
  /\ IF NothingToFlush
     THEN Goto(Main, RunEnds) /\ UNCHANGED <<buffer, batch>>
     ELSE /\ SwapBuffer(Main, buffer)
          /\ Goto(Main, "final_save")
  /\ UNCHANGED <<enqueued, queue, unfinished, held, shutdown, interrupted,
                 processed, failed, stored, dropped>>

MainSaved ==
  /\ pc[Main] = "final_save"
  /\ \/ SaveOk(Main) /\ UNCHANGED processed
     \/ SaveRejected(Main) /\ processed' = Uncount(Main)
  /\ Goto(Main, RunEnds)
  /\ UNCHANGED <<enqueued, queue, unfinished, held, buffer, shutdown,
                 interrupted>>

MainSaveRaises ==
  /\ "unexpected_error" \in SaveOutcomes
  /\ pc[Main] = "final_save"
  /\ batch' = [batch EXCEPT ![Main] = {}]
  /\ Goto(Main, "raised")
  /\ UNCHANGED <<enqueued, queue, unfinished, held, buffer, shutdown,
                 interrupted, processed, failed, stored, dropped>>

\* A cancelled gather skips the final flush.
MainGatherCancelled ==
  /\ pc[Main] = "gather_cancelled"
  /\ Gathered
  /\ Goto(Main, "raised")
  /\ UNCHANGED <<enqueued, queue, unfinished, held, buffer, batch, shutdown,
                 interrupted, processed, failed, stored, dropped>>

\* Cancelling a task cancels the task it awaits.
ProducerCancelled == Goto(Producer, "cancelled")

\* Ctrl-C: the cancellation reaches whatever run() awaits at that moment.
Interrupt ==
  /\ MayInterrupt
  /\ ~interrupted
  /\ interrupted' = TRUE
  /\ \/ /\ pc[Main] = "await_producer"
        /\ pc[Producer] \in {"pull", "put"}
        /\ ProducerCancelled
        /\ UNCHANGED <<batch, stored>>
     \/ /\ pc[Main] = "await_producer"
        /\ pc[Producer] \in {"done", "raised"}
        /\ UNCHANGED <<pc, batch, stored>>
     \/ pc[Main] = "join" /\ UNCHANGED <<pc, batch, stored>>
     \/ /\ pc[Main] = "gather"
        /\ Goto(Main, "gather_cancelled")
        /\ UNCHANGED <<batch, stored>>
     \/ /\ pc[Main] = "final_save"
        /\ CancelledSave(Main)
        /\ Goto(Main, "raised")
  /\ UNCHANGED <<enqueued, queue, unfinished, held, buffer, shutdown, processed,
                 failed, dropped>>

-------------------------------------------------------------------------------

ProducerStep == ProducerPull \/ ProducerPut \/ ProducerEnds

WorkerStep(w) ==
  \/ WorkerGet(w)
  \/ StageFails(w)
  \/ BufferRecord(w)
  \/ FillBatch(w)
  \/ WorkerSaved(w)
  \/ WorkerSaveRaises(w)
  \/ WorkerCancelled(w)

FlusherStep == FlusherWakes \/ FlusherSaved \/ FlusherDies \/ FlusherCancelled

MainStep ==
  \/ MainJoins
  \/ MainWindsDown
  \/ MainGathered
  \/ MainSaved
  \/ MainSaveRaises
  \/ MainGatherCancelled

Ended == pc[Main] \in {"returned", "raised"}

Terminated == Ended /\ UNCHANGED vars

Next ==
  \/ ProducerStep
  \/ SourceFails
  \/ \E w \in Workers : WorkerStep(w)
  \/ FlusherStep
  \/ MainStep
  \/ Interrupt
  \/ Terminated

\* What asyncio owes a task that can run: stages, saves and sleeps come back.
TasksFair ==
  /\ WF_vars(ProducerPut)
  /\ \A w \in Workers : WF_vars(WorkerStep(w))
  /\ WF_vars(FlusherStep)
  /\ WF_vars(MainStep)

\* The source owes nothing: a file ends, but stdin may stall for ever.
Spec == Init /\ [][Next]_vars
FairSpec == Spec /\ TasksFair

-------------------------------------------------------------------------------
(* Where a record can be. *)

Accepted == 1..enqueued
Queued   == {queue[i] : i \in DOMAIN queue}
Busy     == {w \in Workers : pc[w] \in {"stage", "save"}}
InStages == {held[w] : w \in {v \in Workers : pc[v] = "stage"}}
Saving   == UNION {batch[s] : s \in Savers}
Settled  == stored \cup dropped

\* The run is leaving its normal path: consumers may be cancelled at work.
Abnormal == interrupted \/ pc[Producer] = "raised"

WorkerLabels == {"get", "stage", "save", "exit"}
ProducerLabels == {"pull", "put", "done", "raised", "cancelled"}
FlusherLabels == {"sleep", "save", "exit"}
MainLabels == {"await_producer", "join", "gather", "gather_cancelled",
               "final_save", "returned", "raised"}

PcOK ==
  /\ pc \in [Tasks -> WorkerLabels \cup ProducerLabels \cup FlusherLabels
                        \cup MainLabels]
  /\ \A w \in Workers : pc[w] \in WorkerLabels
  /\ pc[Producer] \in ProducerLabels
  /\ pc[Flusher] \in FlusherLabels
  /\ pc[Main] \in MainLabels

\* The variables hold what the code's fields can hold.
TypeOK ==
  /\ PcOK
  /\ enqueued \in 0..NumLines
  /\ queue \in Seq(Records)
  /\ Len(queue) <= QueueSize
  /\ unfinished \in Nat
  /\ held \in [Workers -> Records \cup {NoRecord}]
  /\ buffer \in SUBSET Records
  /\ batch \in [Savers -> SUBSET Records]
  /\ shutdown \in BOOLEAN
  /\ interrupted \in BOOLEAN
  /\ processed \in Int
  /\ failed \in Nat
  /\ stored \in SUBSET Records
  /\ dropped \in SUBSET Records

-------------------------------------------------------------------------------
(* Safety. *)

\* queue.join() counts what it should: a put is unfinished while its record is
\* in the queue or with a consumer, also when a stage or a save raised and when
\* the consumer is cancelled (the finally of _consume).  So task_done is never
\* called once too often, and the join can return only when no consumer works.
JoinCounts == unfinished = Len(queue) + Cardinality(Busy)

\* No record is ever in two places: two consumers never hold the same record,
\* a swapped-out batch shares nothing with the buffer or another batch, and
\* what is stored or counted as failed is never stored or counted again.
OnePlace ==
  /\ \A i, j \in DOMAIN queue : queue[i] = queue[j] => i = j
  /\ \A v, w \in Busy : held[v] = held[w] => v = w
  /\ \A s, t \in Savers : s # t => batch[s] \cap batch[t] = {}
  /\ Queued \cap (InStages \cup buffer \cup Saving \cup Settled) = {}
  /\ InStages \cap (buffer \cup Saving \cup Settled) = {}
  /\ buffer \cap (Saving \cup Settled) = {}
  /\ Saving \cap Settled = {}
  /\ stored \cap dropped = {}

\* On the normal path no record the producer has put is lost, not even when the
\* run winds down: it is queued, in the stages, buffered, being saved, stored,
\* or counted as failed.
Conserved ==
  ~Abnormal =>
    Accepted = Queued \cup InStages \cup buffer \cup Saving \cup Settled

\* The counters, at every moment: the records counted as processed are those
\* stored, buffered or in a batch being saved, except the one of a consumer
\* that saves a batch and has not reached its own increment yet; the correction
\* in _flush_batch keeps this true when a batch is rejected.
CountedProcessed ==
  (stored \cup buffer \cup Saving)
    \ {held[w] : w \in {v \in Workers : pc[v] = "save"}}

CountersExact ==
  /\ failed = Cardinality(dropped)
  /\ ~Abnormal => processed = Cardinality(CountedProcessed)

\* Backpressure: whatever the source's speed, what run() has accepted and not
\* settled fits in the queue, one batch for each consumer, and one batch that is
\* not full.  One, although both the buffer and the flusher may hold such a
\* batch: the consumer that fills a batch empties the buffer, so a record can be
\* in the buffer only while some consumer is not saving a full batch.
BoundedMemory ==
  Cardinality(Accepted \ Settled) <=
    QueueSize + Cardinality(Workers) * BatchSize + (BatchSize - 1)

\* A batch is full only in the hands of the consumer that filled it: at every
\* await the buffer has room for a record, whichever tasks append and swap.
BatchesBounded ==
  /\ Cardinality(buffer) < BatchSize
  /\ Cardinality(batch[Flusher]) < BatchSize
  /\ Cardinality(batch[Main]) < BatchSize
  /\ \A w \in Workers : Cardinality(batch[w]) <= BatchSize

\* Unless it is interrupted a run leaves nothing behind, whichever saves failed,
\* when the flusher died on the way and when the source raises too: the finally
\* waits for every task and saves the buffer.  A run that returns has read the
\* source to its end and emptied the queue.
NothingLeftBehind ==
  Ended /\ ~interrupted =>
    /\ Busy = {} /\ buffer = {} /\ Saving = {}
    /\ pc[Main] = "returned" => enqueued = NumLines /\ queue = <<>>

\* No step makes a record vanish but two: the cancellation of the task that has
\* it in hand (a consumer once the run winds down; the flusher or the final drain
\* when run() is interrupted there), and a save that raises something else than
\* a RepositoryError.  In the queue and in the buffer a record is safe.
Pipeline == Queued \cup InStages \cup buffer \cup Saving

AtRisk ==
  (IF shutdown THEN InStages ELSE {})
    \cup (IF shutdown \/ "unexpected_error" \in SaveOutcomes THEN Saving ELSE {})

LossOnlyInHand ==
  [][Pipeline \ (Pipeline \cup Settled)' \subseteq AtRisk]_vars

-------------------------------------------------------------------------------
(* Liveness and refinement. *)

\* run() comes to an end once the source is exhausted or has failed, or the run is
\* interrupted: the join never waits for a record nobody will finish, the gather
\* never for a task that does not stop, whatever fails on the way.
RunCompletes == pc[Producer] \in {"done", "raised", "cancelled"} ~> Ended

\* A partial batch does not sit in memory: although no further line may ever
\* come from the source, every buffered record leaves the buffer, as long as the
\* flusher lives or the run goes on.
PartialBatchDrains ==
  \A r \in Records : r \in buffer ~> (r \notin buffer \/ pc[Flusher] = "exit")

Ledger == INSTANCE RecordLedger WITH
  accepted <- enqueued,
  report   <- IF pc[Main] = "returned"
              THEN [processed |-> processed, failed |-> failed]
              ELSE [processed |-> -1, failed |-> -1]

\* The executor keeps the ledger of RecordLedger when the source ends by itself,
\* nobody interrupts the run and the repository raises only RepositoryError.
ImplementsLedger == Ledger!LedgerSpec

-------------------------------------------------------------------------------
(* What the documents say of failures and interruptions. *)

\* docs/ONBOARDING.md, line 977: "records_in == records_persisted +
\* records_failed" for a run that returns.
RecordsConservation ==
  pc[Main] = "returned" => enqueued = Cardinality(stored) + failed

===============================================================================
