-------------------------------- MODULE Pipeline --------------------------------
(***************************************************************************)
(* A run of the program as core/builder.py puts it together and cli.py     *)
(* runs it: the executor of PipelineExecutor, whose consumers take every   *)
(* record through the parser, the validators, the template matcher, the    *)
(* sessionizer of BlockSessionizer and the point detectors; the sequence   *)
(* detector as the handler of closed traces; the sessionizer started       *)
(* before run() and stopped after it, however it ends.                     *)
(*                                                                         *)
(* Of the stages only two suspend: the sessionizer, at its lock and while  *)
(* it publishes, and a detector stage, while it saves an anomaly.  What a  *)
(* consumer does before, between and after them belongs to the step that   *)
(* comes back from the await before.                                       *)
(***************************************************************************)
EXTENDS PipelineExecutor, FiniteSetsExt, SequencesExt, Filtering

CONSTANTS
  Lines,      \* [1..NumLines -> what the stages make of the line], see below
  Templates,  \* the template matcher's events, in the order of its file
  NoBlock,    \* the block of a record without a block_id
  Detector,   \* the subscriber to closed traces
  Janitor, Blocks, NoEvent, TerminalEvents, MaxPerTrace, MaxOpen, IdleWindow,
  WallClock,                              \* as in BlockSessionizer
  N, NormalNgrams, ThresholdNum, ThresholdDen   \* as in SequenceDetector

\* A line is parsed or not, and what is parsed is valid or not, has a block and a
\* time, matches some of the templates, and is anomalous to a point detector or not.
ASSUME LinesAssumption ==
  /\ DOMAIN Lines = 1..NumLines
  /\ \A l \in 1..NumLines :
       /\ {Lines[l].parsed, Lines[l].valid, Lines[l].anomalous} \subseteq BOOLEAN
       /\ Lines[l].block \in Blocks \cup {NoBlock}
       /\ Lines[l].matches \subseteq DOMAIN Templates
  /\ NoBlock \notin Blocks

ASSUME DetectorAssumption ==
  /\ N \in Int
  /\ ThresholdNum \in Nat
  /\ ThresholdDen \in Nat \ {0}

\* What the constructors of the sessionizer and the matcher accept; log times are
\* no later than the clock of the run.
ASSUME TracesAssumption ==
  /\ MaxPerTrace \in Nat \ {0}
  /\ MaxOpen \in Nat \ {0}
  /\ IdleWindow \in Nat \ {0}
  /\ WallClock \in Nat
  /\ NoEvent \notin TerminalEvents
  /\ \A l \in 1..NumLines : Lines[l].ts \in {-1} \cup 0..WallClock

ASSUME JanitorAssumption == Janitor \notin Workers \cup {Main}

VARIABLES
  stage,      \* [Workers -> the stage that holds the consumer's record]
  spc, log, arg, lockq, order, trace, latest, todo, emitted, calls, delivered,
  halted,     \* BlockSessionizer's variables; spc and halted are its pc and interrupted
  anomalies,  \* the records of the anomalies that detector stages have saved
  alarms      \* the closed traces the sequence detector fired on, saved or not

executorVars == vars
sessionizerVars == <<spc, log, arg, lockq, order, trace, latest, todo, emitted,
                     calls, delivered, halted>>
pipelineVars == <<executorVars, stage, sessionizerVars, anomalies, alarms>>

\* The parser or a validator refuses the others.
PassesChecks(l) == Lines[l].parsed /\ Lines[l].valid

\* The first template that matches names the event.
EventId(l) ==
  IF Lines[l].matches = {} THEN NoEvent ELSE Templates[Min(Lines[l].matches)]

\* What reaches the sessionizer of line l, and its number there.
Input(l) == [block |-> Lines[l].block, event |-> EventId(l),
             ts |-> Lines[l].ts, line |-> l]

S == INSTANCE BlockSessionizer WITH
  Consumers <- Workers,
  Handlers <- {Detector},
  Inputs <- {Input(l) : l \in {k \in 1..NumLines : Lines[k].block # NoBlock}},
  NumRecords <- NumLines,
  MayInterrupt <- TRUE,
  pc <- spc,
  interrupted <- halted

D == INSTANCE SequenceDetector

PipelineInit ==
  /\ Init
  /\ S!Init
  /\ stage = [w \in Workers |-> "none"]
  /\ anomalies = {}
  /\ alarms = {}

-------------------------------------------------------------------------------
(* The stages of a consumer. *)

\* The detectors before the sessionizer.
StageOrderSwapped == <<"detectors", "sessionizer">>

\* The stages that suspend, in the builder's order.
StageOrder == <<"sessionizer", "detectors">>

\* A record passes by the sessionizer without a block_id, and by a detector
\* that finds nothing.
Suspends(s, l) ==
  \/ s = "sessionizer" /\ Lines[l].block # NoBlock
  \/ s = "detectors" /\ Lines[l].anomalous

\* The stage at which line l suspends after the first i stages of the order.
StageAfter(i, l) ==
  LET later == {j \in (i + 1)..Len(StageOrder) : Suspends(StageOrder[j], l)}
  IN  IF later = {} THEN "done"
      ELSE StageOrder[CHOOSE j \in later : \A k \in later : j <= k]

PlaceOf(s) == CHOOSE i \in DOMAIN StageOrder : StageOrder[i] = s

\* The consumer's record reaches stage s: process() of the sessionizer begins
\* by asking for the lock, in the step that comes from the stage before.
Enter(w, s, l) ==
  /\ stage' = [stage EXCEPT ![w] = s]
  /\ IF s = "sessionizer"
     THEN S!Arrive(w) /\ Last(log') = Input(l)
     ELSE UNCHANGED sessionizerVars

\* A consumer takes a record as far as its first suspension or its rejection.
TakeLine(w) ==
  /\ WorkerGet(w)
  /\ LET l == Head(queue)
     IN  IF PassesChecks(l) THEN Enter(w, StageAfter(0, l), l)
                              ELSE Enter(w, "refused", l)
  /\ UNCHANGED <<anomalies, alarms>>

\* The locked part of process(), with or without a trace to close.
AttachRecord(w) ==
  /\ ~shutdown
  /\ \/ S!Attach(w) /\ stage' = [stage EXCEPT ![w] = StageAfter(PlaceOf("sessionizer"), held[w])]
     \/ S!AttachAndCap(w) /\ UNCHANGED stage
     \/ S!AttachAndEvict(w) /\ UNCHANGED stage
  /\ UNCHANGED <<executorVars, anomalies, alarms>>

LeaveSessionizer(w) ==
  /\ ~shutdown
  /\ S!ProcessReturns(w)
  /\ stage' = [stage EXCEPT ![w] = StageAfter(PlaceOf("sessionizer"), held[w])]
  /\ UNCHANGED <<executorVars, anomalies, alarms>>

\* DetectorStage: the anomaly is saved before its record; whatever save_anomaly
\* raises, for an anomaly that is stored or is not, drops the record.
AnomalySaved(w) ==
  /\ ~shutdown
  /\ stage[w] = "detectors"
  /\ "ok" \in SaveOutcomes
  /\ anomalies' = anomalies \cup {held[w]}
  /\ Enter(w, StageAfter(PlaceOf("detectors"), held[w]), held[w])
  /\ UNCHANGED <<executorVars, alarms>>

AnomalyFails(w) ==
  /\ ~shutdown
  /\ stage[w] = "detectors"
  /\ SaveOutcomes # {"ok"}
  /\ anomalies' \in {anomalies, anomalies \cup {held[w]}}
  /\ Enter(w, "refused", held[w])
  /\ UNCHANGED <<executorVars, alarms>>

FinishRecord(w) ==
  /\ stage[w] = "done"
  /\ BufferRecord(w) \/ FillBatch(w)
  /\ stage' = [stage EXCEPT ![w] = "none"]
  /\ UNCHANGED <<sessionizerVars, anomalies, alarms>>

RefuseRecord(w) ==
  /\ stage[w] = "refused"
  /\ StageFails(w)
  /\ stage' = [stage EXCEPT ![w] = "none"]
  /\ UNCHANGED <<sessionizerVars, anomalies, alarms>>

BatchSaved(w) ==
  /\ WorkerSaved(w) \/ WorkerSaveRaises(w)
  /\ UNCHANGED <<stage, sessionizerVars, anomalies, alarms>>

\* Fires on the trace being published, whose alarm may or may not be saved.
Alarm(saved) == [trace |-> Len(emitted), saved |-> saved]
DetectorFires == D!Fires(Last(emitted).events)

\* A publish that is cancelled cancels the handler, perhaps in save_anomaly.
CancelledHandler(t) ==
  IF calls[t] # {} /\ DetectorFires
  THEN \E saved \in BOOLEAN : alarms' = alarms \cup {Alarm(saved)}
  ELSE UNCHANGED alarms

\* run() cancels a consumer wherever it is.
ConsumerCancelled(w) ==
  /\ WorkerCancelled(w)
  /\ stage' = [stage EXCEPT ![w] = "none"]
  /\ IF stage[w] = "sessionizer"
     THEN S!ConsumerCancelled(w) /\ CancelledHandler(w)
     ELSE UNCHANGED <<sessionizerVars, alarms>>
  /\ IF stage[w] = "detectors"
     THEN anomalies' \in {anomalies, anomalies \cup {held[w]}}
     ELSE UNCHANGED anomalies

-------------------------------------------------------------------------------
(* run() and stop(), and the tasks that are not consumers. *)

\* run() winds down: after the join the consumers are idle, after an exception
\* the cancellation meets them anywhere.
WindDown ==
  /\ MainWindsDown
  /\ IF pc[Main] = "join" /\ Joined /\ ~interrupted
     THEN UNCHANGED sessionizerVars
     ELSE S!Interrupt
  /\ UNCHANGED <<stage, anomalies, alarms>>

ExecutorStep ==
  /\ \/ ProducerStep
     \/ SourceFails
     \/ FlusherStep
     \/ MainJoins
     \/ MainGathered
     \/ MainSaved
     \/ MainSaveRaises
     \/ MainGatherCancelled
     \/ Interrupt
  /\ UNCHANGED <<stage, sessionizerVars, anomalies, alarms>>

\* The finally of cli.py.
StopSessionizer ==
  /\ Ended
  /\ S!Stop
  /\ UNCHANGED <<executorVars, stage, anomalies, alarms>>

FlushTraces ==
  /\ S!FlushNext
  /\ UNCHANGED <<executorVars, stage, anomalies, alarms>>

\* Ctrl-C during stop(), the first or a second.
InterruptStop ==
  /\ MayInterrupt
  /\ S!InterruptFlush
  /\ CancelledHandler(Main)
  /\ UNCHANGED <<executorVars, stage, anomalies>>

JanitorWorks ==
  /\ S!JanitorWakes \/ S!JanitorPass \/ S!JanitorGoesOn
  /\ UNCHANGED <<executorVars, stage, anomalies, alarms>>

JanitorStops ==
  /\ S!JanitorCancelled
  /\ CancelledHandler(Janitor)
  /\ UNCHANGED <<executorVars, stage, anomalies>>

\* on_trace_closed: detect_trace, then save_anomaly, whose failure the bus
\* swallows.
TraceHandled(t) ==
  /\ S!HandlerEnds(t, Detector)
  /\ IF DetectorFires
     THEN \/ "ok" \in SaveOutcomes /\ alarms' = alarms \cup {Alarm(TRUE)}
          \/ SaveOutcomes # {"ok"} /\ alarms' = alarms \cup {Alarm(FALSE)}
     ELSE UNCHANGED alarms
  /\ UNCHANGED <<executorVars, stage, anomalies>>

-------------------------------------------------------------------------------

ConsumerStep(w) ==
  \/ TakeLine(w)
  \/ AttachRecord(w)
  \/ LeaveSessionizer(w)
  \/ AnomalySaved(w)
  \/ AnomalyFails(w)
  \/ FinishRecord(w)
  \/ RefuseRecord(w)
  \/ BatchSaved(w)
  \/ ConsumerCancelled(w)

Over == Ended /\ S!Stopped

PipelineNext ==
  \/ \E w \in Workers : ConsumerStep(w)
  \/ ExecutorStep
  \/ WindDown
  \/ StopSessionizer
  \/ FlushTraces
  \/ InterruptStop
  \/ JanitorWorks
  \/ JanitorStops
  \/ \E t \in S!Tasks : TraceHandled(t)
  \/ Over /\ UNCHANGED pipelineVars

\* As in the components: tasks, stages, saves and handlers come back; the
\* source, failures and interrupts owe nothing.
PipelineSpec == PipelineInit /\ [][PipelineNext]_pipelineVars

PipelineFair ==
  /\ WF_pipelineVars(ProducerPut /\ ExecutorStep)
  /\ \A w \in Workers : WF_pipelineVars(ConsumerStep(w))
  /\ WF_pipelineVars(FlusherStep /\ ExecutorStep)
  /\ WF_pipelineVars(MainStep /\ (ExecutorStep \/ WindDown))
  /\ WF_pipelineVars(StopSessionizer)
  /\ WF_pipelineVars(FlushTraces)
  /\ WF_pipelineVars(JanitorWorks)
  /\ WF_pipelineVars(JanitorStops)
  /\ \A t \in S!Tasks : WF_pipelineVars(TraceHandled(t))

FairPipelineSpec == PipelineSpec /\ PipelineFair

-------------------------------------------------------------------------------
(* Properties. *)

\* The order of the log survives the consumers: whatever runs between them, the
\* traces of a block have its lines in the order of the source, within a trace and
\* from one trace of the block to the next, evictions and reopenings included.
LineOf(n) == log[n].line
InLineOrder(ids) == \A i, j \in DOMAIN ids : i < j => LineOf(ids[i]) < LineOf(ids[j])
AllEarlier(ids, later) == \A m \in Range(ids), n \in Range(later) : LineOf(m) < LineOf(n)

LogOrderKept ==
  /\ \A b \in DOMAIN trace : InLineOrder(trace[b].ids)
  /\ \A i \in DOMAIN emitted :
       /\ InLineOrder(emitted[i].ids)
       /\ \A j \in DOMAIN emitted :
            i < j /\ emitted[i].block = emitted[j].block
              => AllEarlier(emitted[i].ids, emitted[j].ids)
       /\ emitted[i].block \in DOMAIN trace
            => AllEarlier(emitted[i].ids, trace[emitted[i].block].ids)

\* When a run that nothing cut short is over, every accepted line with a block is
\* in a closed trace, whatever became of its record after the sessionizer; and a
\* record is stored or counted as failed.
Traceable(l) == PassesChecks(l) /\ Lines[l].block # NoBlock

EveryLineTraced ==
  Over /\ ~halted /\ pc[Main] = "returned" =>
    /\ UNION {{LineOf(n) : n \in Range(emitted[i].ids)} :
                i \in DOMAIN emitted}
         = {l \in Records : Traceable(l)}
    /\ stored \cup dropped = Records

\* The sequence detector judges a trace as it would judge the log: a trace it
\* fires on has a novel n-gram which is one of the block's, read off the source's
\* lines; and at a threshold of zero it fires on a trace that holds all the block's
\* events if any of their n-grams is novel.  How consumers interleave and where a
\* trace is cut makes no alarm.
EventLines(b) ==
  {l \in 1..NumLines : PassesChecks(l) /\ Lines[l].block = b /\ EventId(l) # NoEvent}

EventsOf(b) ==
  LET lines == Filter([l \in 1..NumLines |-> l], EventLines(b))
  IN  [i \in DOMAIN lines |-> EventId(lines[i])]

AlarmsRight ==
  /\ \A a \in alarms :
       LET b == emitted[a.trace].block
       IN  D!Novel(emitted[a.trace].events) \cap D!Ngrams(EventsOf(b)) # {}
  /\ ThresholdNum = 0 =>
       \A i \in Range(delivered[Detector]) :
         LET events == EventsOf(emitted[i].block)
         IN  Len(emitted[i].events) = Len(events) /\ D!Novel(events) # {}
               => \E a \in alarms : a.trace = i

\* An anomaly of a point detector is saved before its record and points to a
\* record that is still on its way, stored, or counted as failed; a run that
\* returns leaves none whose record is neither.
OnItsWay ==
  {held[w] : w \in Workers} \cup buffer \cup UNION {batch[s] : s \in Savers}

AnomaliesFollowed ==
  ~interrupted /\ pc[Producer] # "raised" =>
    /\ anomalies \subseteq OnItsWay \cup stored \cup dropped
    /\ pc[Main] = "returned" => anomalies \subseteq stored \cup dropped

\* Once the source has ended, run() and then stop() return, although consumers
\* wait for the sessionizer's lock, its holder for the detector, and the
\* detector for the repository.
RunAndStopEnd == pc[Producer] \in {"done", "raised"} ~> Over

===============================================================================
