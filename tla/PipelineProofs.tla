----------------------------- MODULE PipelineProofs -----------------------------
(***************************************************************************)
(* The composition keeps what its executor promises, for any lines, stages *)
(* that suspend, traces, detector models and numbers of consumers.         *)
(*                                                                         *)
(* Every step of Pipeline takes a step of the executor or leaves it alone, *)
(* so that the executor's theorems hold of the program.  That an anomaly   *)
(* always has its record rests on them and on Custody: a consumer that is  *)
(* in a stage, or in the sessionizer, has a record the executor gave it.   *)
(*                                                                         *)
(* It also takes a step of the sessionizer or leaves that alone, so that   *)
(* the sessionizer's theorems hold of it too.  GivenInOrder ties the two   *)
(* together: the consumers ask for the lock in the order of the lines.     *)
(* So the events of a trace are a piece of those its block has in the log, *)
(* and what the detector finds novel in the one is novel in the other.     *)
(***************************************************************************)
EXTENDS Pipeline, PipelineExecutorProofs, Induction, SequenceTheorems

LEMMA ExecutorMoves == PipelineNext => [Next]_executorVars
<1> SUFFICES ASSUME PipelineNext PROVE [Next]_executorVars
  OBVIOUS
<1>1. ASSUME NEW w \in Workers, ConsumerStep(w) PROVE [Next]_executorVars
  <2>1. CASE TakeLine(w)
    BY <2>1 DEF TakeLine, Next, WorkerStep
  <2>2. CASE AttachRecord(w)
    BY <2>2 DEF AttachRecord, executorVars
  <2>3. CASE LeaveSessionizer(w)
    BY <2>3 DEF LeaveSessionizer, executorVars
  <2>4. CASE AnomalySaved(w)
    BY <2>4 DEF AnomalySaved, executorVars
  <2>5. CASE AnomalyFails(w)
    BY <2>5 DEF AnomalyFails, executorVars
  <2>6. CASE FinishRecord(w)
    BY <2>6 DEF FinishRecord, Next, WorkerStep
  <2>7. CASE RefuseRecord(w)
    BY <2>7 DEF RefuseRecord, Next, WorkerStep
  <2>8. CASE BatchSaved(w)
    BY <2>8 DEF BatchSaved, Next, WorkerStep
  <2>9. CASE ConsumerCancelled(w)
    BY <2>9 DEF ConsumerCancelled, Next, WorkerStep
  <2>10. QED
    BY <1>1, <2>1, <2>2, <2>3, <2>4, <2>5, <2>6, <2>7, <2>8, <2>9 DEF ConsumerStep
<1>2. CASE ExecutorStep
  BY <1>2 DEF ExecutorStep, Next, MainStep
<1>3. CASE WindDown
  BY <1>3 DEF WindDown, Next, MainStep
<1>4. CASE StopSessionizer \/ FlushTraces \/ InterruptStop \/ JanitorWorks \/ JanitorStops
  BY <1>4
     DEF StopSessionizer, FlushTraces, InterruptStop, JanitorWorks, JanitorStops, executorVars
<1>5. ASSUME NEW t \in S!Tasks, TraceHandled(t) PROVE [Next]_executorVars
  BY <1>5 DEF TraceHandled, executorVars
<1>6. CASE UNCHANGED pipelineVars
  BY <1>6 DEF pipelineVars
<1>7. QED
  BY <1>1, <1>2, <1>3, <1>4, <1>5, <1>6 DEF PipelineNext

\* The program is an executor: whatever its stages, its sessionizer and its
\* detectors do, the tasks of run() behave as PipelineExecutor says.
THEOREM PipelineImplementsExecutor == PipelineSpec => Spec
<1>1. PipelineInit => Init
  BY DEF PipelineInit
<1>2. [PipelineNext]_pipelineVars => [Next]_vars
  BY ExecutorMoves DEF pipelineVars, executorVars
<1>3. QED
  BY <1>1, <1>2, PTL DEF PipelineSpec, Spec

-------------------------------------------------------------------------------
(* Who has a record, in the executor and in the sessionizer. *)

Inside(w) == spc[w] \in {"lock", "publish"}

Custody ==
  /\ DOMAIN stage = Workers /\ DOMAIN spc = S!Tasks
  /\ \A w \in Workers : stage[w] # "none" => pc[w] = "stage"
  /\ \A w \in Workers : Inside(w) => stage[w] = "sessionizer"

LEMMA CustodyInit == PipelineInit => Custody
<1> SUFFICES ASSUME PipelineInit PROVE Custody
  OBVIOUS
<1>1. \A w \in Workers : spc[w] = "idle"
  BY JanitorAssumption, TasksAssumption DEF PipelineInit, S!Init, S!Tasks
<1>2. DOMAIN stage = Workers /\ DOMAIN spc = S!Tasks /\ \A w \in Workers : stage[w] = "none"
  BY DEF PipelineInit, S!Init
<1>3. QED
  BY <1>1, <1>2 DEF Custody, Inside

\* A consumer that has the record goes on to a stage.
LEMMA EnterKeeps ==
  ASSUME Custody, NEW w \in Workers, NEW s, NEW l, Enter(w, s, l), ~Inside(w),
         pc'[w] = "stage", \A v \in Workers \ {w} : pc'[v] = pc[v]
  PROVE  Custody'
<1>1. /\ DOMAIN stage' = Workers /\ stage'[w] = s
      /\ \A v \in Workers \ {w} : stage'[v] = stage[v]
  BY DEF Enter, Custody
<1>2. CASE s = "sessionizer"
  <2>1. spc' = [spc EXCEPT ![w] = "lock"]
    BY <1>2 DEF Enter, S!Arrive, S!Goto
  <2>2. DOMAIN spc' = S!Tasks /\ \A v \in Workers \ {w} : spc'[v] = spc[v]
    BY <2>1 DEF Custody, S!Tasks
  <2>3. QED
    BY <1>1, <1>2, <2>2 DEF Custody, Inside
<1>3. CASE s # "sessionizer"
  <2>1. spc' = spc
    BY <1>3 DEF Enter, sessionizerVars
  <2>2. QED
    BY <1>1, <2>1 DEF Custody, Inside
<1>4. QED
  BY <1>2, <1>3

\* The executor's other tasks take no record from a consumer.
LEMMA OthersLeaveConsumers ==
  ASSUME PcOK, ExecutorStep \/ WindDown, NEW w \in Workers
  PROVE  pc'[w] = pc[w]
<1> USE TasksAssumption DEF PcOK, Tasks, Goto
<1>1. CASE ProducerStep \/ SourceFails
  BY <1>1 DEF ProducerStep, ProducerPull, ProducerPut, ProducerEnds, SourceFails
<1>2. CASE FlusherStep
  BY <1>2 DEF FlusherStep, FlusherWakes, FlusherSaved, FlusherDies, FlusherCancelled
<1>3. CASE MainJoins \/ MainGathered \/ MainSaved \/ MainSaveRaises \/ MainGatherCancelled
  BY <1>3 DEF MainJoins, MainGathered, MainSaved, MainSaveRaises, MainGatherCancelled
<1>4. CASE Interrupt
  BY <1>4 DEF Interrupt, ProducerCancelled
<1>5. CASE WindDown
  BY <1>5 DEF WindDown, MainWindsDown
<1>6. QED
  BY <1>1, <1>2, <1>3, <1>4, <1>5 DEF ExecutorStep

\* Nor do the janitor and stop().
LEMMA OthersLeaveSessionizer ==
  ASSUME Custody, NEW t \in {Janitor, Main}, NEW label, S!Goto(t, label)
  PROVE  DOMAIN spc' = S!Tasks /\ \A w \in Workers : spc'[w] = spc[w]
BY JanitorAssumption, TasksAssumption DEF Custody, S!Goto, S!Tasks

LEMMA CustodyStep == PcOK /\ Custody /\ [PipelineNext]_pipelineVars => Custody'
<1> SUFFICES ASSUME PcOK, Custody, [PipelineNext]_pipelineVars PROVE Custody'
  OBVIOUS
<1>1. ASSUME NEW w \in Workers, TakeLine(w) PROVE Custody'
  <2>1. pc[w] = "get" /\ pc'[w] = "stage" /\ \A v \in Workers \ {w} : pc'[v] = pc[v]
    BY <1>1 DEF TakeLine, WorkerGet, Goto, PcOK, Tasks
  <2>2. ~Inside(w)
    BY <2>1 DEF Custody
  <2>3. \E s : Enter(w, s, Head(queue))
    BY <1>1 DEF TakeLine
  <2>4. QED
    BY <2>1, <2>2, <2>3, EnterKeeps
<1>2. ASSUME NEW w \in Workers, AttachRecord(w) PROVE Custody'
  <2>1. pc' = pc
    BY <1>2 DEF AttachRecord, executorVars, vars
  <2>2. spc[w] = "lock" /\ stage[w] = "sessionizer" /\ pc[w] = "stage"
    BY <1>2 DEF AttachRecord, S!Attach, S!AttachAndCap, S!AttachAndEvict, Custody, Inside
  <2>3. CASE S!Attach(w)
    <3>1. spc' = [spc EXCEPT ![w] = "idle"]
      BY <2>3 DEF S!Attach, S!Goto
    <3>2. DOMAIN stage' = Workers /\ \A v \in Workers \ {w} : stage'[v] = stage[v]
      BY <1>2 DEF AttachRecord, Custody
    <3>3. /\ DOMAIN spc' = S!Tasks /\ spc'[w] = "idle"
          /\ \A v \in Workers \ {w} : spc'[v] = spc[v]
      BY <3>1 DEF Custody, S!Tasks
    <3>4. QED
      BY <2>1, <2>2, <3>2, <3>3 DEF Custody, Inside
  <2>4. CASE (S!AttachAndCap(w) \/ S!AttachAndEvict(w)) /\ UNCHANGED stage
    <3>1. spc' = [spc EXCEPT ![w] = "publish"]
      BY <2>4 DEF S!AttachAndCap, S!AttachAndEvict, S!Emit, S!Goto
    <3>2. DOMAIN spc' = S!Tasks /\ \A v \in Workers \ {w} : spc'[v] = spc[v]
      BY <3>1 DEF Custody, S!Tasks
    <3>3. QED
      BY <2>1, <2>2, <2>4, <3>2 DEF Custody, Inside
  <2>5. QED
    BY <1>2, <2>3, <2>4 DEF AttachRecord
<1>3. ASSUME NEW w \in Workers, LeaveSessionizer(w) PROVE Custody'
  <2>1. pc' = pc
    BY <1>3 DEF LeaveSessionizer, executorVars, vars
  <2>2. spc[w] = "publish" /\ spc' = [spc EXCEPT ![w] = "idle"]
    BY <1>3 DEF LeaveSessionizer, S!ProcessReturns, S!Published, S!Goto
  <2>3. pc[w] = "stage"
    BY <2>2 DEF Custody, Inside
  <2>4. DOMAIN stage' = Workers /\ \A v \in Workers \ {w} : stage'[v] = stage[v]
    BY <1>3 DEF LeaveSessionizer, Custody
  <2>5. /\ DOMAIN spc' = S!Tasks /\ spc'[w] = "idle"
        /\ \A v \in Workers \ {w} : spc'[v] = spc[v]
    BY <2>2 DEF Custody, S!Tasks
  <2>6. QED
    BY <2>1, <2>3, <2>4, <2>5 DEF Custody, Inside
<1>4. ASSUME NEW w \in Workers, AnomalySaved(w) \/ AnomalyFails(w) PROVE Custody'
  <2>1. pc' = pc /\ stage[w] = "detectors"
    BY <1>4 DEF AnomalySaved, AnomalyFails, executorVars, vars
  <2>2. pc[w] = "stage" /\ ~Inside(w)
    BY <2>1 DEF Custody
  <2>3. \E s : Enter(w, s, held[w])
    BY <1>4 DEF AnomalySaved, AnomalyFails
  <2>4. QED
    BY <2>1, <2>2, <2>3, EnterKeeps
<1>5. ASSUME NEW w \in Workers, FinishRecord(w) \/ RefuseRecord(w) PROVE Custody'
  <2>1. \A v \in Workers \ {w} : pc'[v] = pc[v]
    BY <1>5
       DEF FinishRecord, RefuseRecord, BufferRecord, FillBatch, StageFails, TaskDone, Goto,
           PcOK, Tasks
  <2>2. /\ stage[w] # "sessionizer" /\ stage' = [stage EXCEPT ![w] = "none"]
        /\ spc' = spc
    BY <1>5 DEF FinishRecord, RefuseRecord, sessionizerVars
  <2>3. QED
    BY <2>1, <2>2 DEF Custody, Inside
<1>6. ASSUME NEW w \in Workers, BatchSaved(w) PROVE Custody'
  <2>1. pc[w] = "save" /\ \A v \in Workers \ {w} : pc'[v] = pc[v]
    BY <1>6 DEF BatchSaved, WorkerSaved, WorkerSaveRaises, TaskDone, Goto, PcOK, Tasks
  <2>2. stage' = stage /\ spc' = spc
    BY <1>6 DEF BatchSaved, sessionizerVars
  <2>3. QED
    BY <2>1, <2>2 DEF Custody, Inside
<1>7. ASSUME NEW w \in Workers, ConsumerCancelled(w) PROVE Custody'
  <2>1. \A v \in Workers \ {w} : pc'[v] = pc[v]
    BY <1>7 DEF ConsumerCancelled, WorkerCancelled, TaskDone, Goto, PcOK, Tasks
  <2>2. stage' = [stage EXCEPT ![w] = "none"]
    BY <1>7 DEF ConsumerCancelled
  <2>3. /\ DOMAIN spc' = S!Tasks /\ ~Inside(w)'
        /\ \A v \in Workers \ {w} : spc'[v] = spc[v]
    <3>1. CASE stage[w] = "sessionizer"
      <4>1. spc' = [spc EXCEPT ![w] = "idle"]
        BY <1>7, <3>1 DEF ConsumerCancelled, S!ConsumerCancelled, S!Cancelled, S!Goto
      <4>2. QED
        BY <4>1 DEF Custody, Inside, S!Tasks
    <3>2. CASE stage[w] # "sessionizer"
      BY <1>7, <3>2 DEF ConsumerCancelled, sessionizerVars, Custody, Inside
    <3>3. QED
      BY <3>1, <3>2
  <2>4. QED
    BY <2>1, <2>2, <2>3 DEF Custody, Inside
<1>8. CASE ExecutorStep \/ WindDown
  <2>1. \A w \in Workers : pc'[w] = pc[w]
    BY <1>8, OthersLeaveConsumers
  <2>2. stage' = stage
    BY <1>8 DEF ExecutorStep, WindDown
  <2>3. spc' = spc \/ S!Goto(Main, "cancelling")
    BY <1>8 DEF ExecutorStep, WindDown, sessionizerVars, S!Interrupt
  <2>4. DOMAIN spc' = S!Tasks /\ \A w \in Workers : spc'[w] = spc[w]
    BY <2>3, OthersLeaveSessionizer DEF Custody
  <2>5. QED
    BY <2>1, <2>2, <2>4 DEF Custody, Inside
<1>9. CASE StopSessionizer \/ FlushTraces \/ InterruptStop \/ JanitorWorks \/ JanitorStops
  <2>1. pc' = pc /\ stage' = stage
    BY <1>9
       DEF StopSessionizer, FlushTraces, InterruptStop, JanitorWorks, JanitorStops,
           executorVars, vars
  <2>2. \E t \in {Janitor, Main} : \E label : S!Goto(t, label)
    BY <1>9
       DEF StopSessionizer, FlushTraces, InterruptStop, JanitorWorks, JanitorStops,
           S!Stop, S!FlushNext, S!InterruptFlush, S!JanitorWakes, S!JanitorPass,
           S!JanitorGoesOn, S!JanitorCancelled, S!Cancelled, S!CloseNext, S!PassEnds, S!Emit
  <2>3. DOMAIN spc' = S!Tasks /\ \A w \in Workers : spc'[w] = spc[w]
    BY <2>2, OthersLeaveSessionizer
  <2>4. QED
    BY <2>1, <2>3 DEF Custody, Inside
<1>10. ASSUME NEW t \in S!Tasks, TraceHandled(t) PROVE Custody'
  BY <1>10 DEF TraceHandled, S!HandlerEnds, executorVars, vars, Custody, Inside
<1>11. CASE UNCHANGED pipelineVars
  BY <1>11 DEF pipelineVars, executorVars, vars, sessionizerVars, Custody, Inside
<1>12. QED
  BY <1>1, <1>2, <1>3, <1>4, <1>5, <1>6, <1>7, <1>8, <1>9, <1>10, <1>11
  DEF PipelineNext, ConsumerStep

-------------------------------------------------------------------------------
(* Anomalies of point detectors. *)

\* An anomaly is of a record that a consumer has taken.
AnomaliesTaken == anomalies \subseteq 1..Taken

LEMMA AnomaliesTakenStep ==
  ASSUME SafeInv, Custody, AnomaliesTaken, [PipelineNext]_pipelineVars
  PROVE  AnomaliesTaken'
<1>1. Taken \in Nat /\ Taken' \in Nat /\ Taken <= Taken'
  <2>1. [Next]_vars
    BY ExecutorMoves DEF pipelineVars, executorVars
  <2>2. Taken \in Nat /\ (Taken' = Taken \/ Taken' = Taken + 1)
    BY <2>1, QueueStep DEF SafeInv, Places, QueueInOrder
  <2>3. QED
    BY <2>2
<1>2. \/ anomalies' \subseteq anomalies
      \/ \E w \in Workers :
           stage[w] = "detectors" /\ anomalies' \subseteq anomalies \cup {held[w]}
  BY DEF PipelineNext, ConsumerStep, TakeLine, AttachRecord, LeaveSessionizer, AnomalySaved,
         AnomalyFails, FinishRecord, RefuseRecord, BatchSaved, ConsumerCancelled,
         ExecutorStep, WindDown, StopSessionizer, FlushTraces, InterruptStop, JanitorWorks,
         JanitorStops, TraceHandled, pipelineVars
<1>3. ASSUME NEW w \in Workers, stage[w] = "detectors" PROVE held[w] \in 1..Taken
  <2>1. held[w] # NoRecord
    BY <1>3 DEF Custody, SafeInv, TypeInv, Control
  <2>2. held[w] \in Records /\ held[w] <= Taken
    BY <2>1 DEF SafeInv, TypeInv, TypeOK, Places, BelowTaken
  <2>3. QED
    BY <1>1, <2>2, ConstantsAssumption DEF Records
<1>4. 1..Taken \subseteq 1..Taken'
  <2> DEFINE before == Taken
             after == Taken'
  <2>1. before \in Nat /\ after \in Nat /\ before <= after
    BY <1>1
  <2> HIDE DEF before, after
  <2>2. 1..before \subseteq 1..after
    BY <2>1
  <2>3. QED
    BY <2>2 DEF before, after
<1>5. anomalies' \subseteq 1..Taken
  BY <1>2, <1>3 DEF AnomaliesTaken
<1>6. QED
  BY <1>4, <1>5 DEF AnomaliesTaken

LEMMA AnomaliesHaveRecords ==
  ASSUME SafeInv, Conserved, NothingLeftBehind, AnomaliesTaken
  PROVE  AnomaliesFollowed
<1> SUFFICES ASSUME ~Abnormal, NEW r \in anomalies
             PROVE  /\ r \in OnItsWay \cup stored \cup dropped
                    /\ pc[Main] = "returned" => r \in stored \cup dropped
  BY DEF AnomaliesFollowed, Abnormal
<1>1. r \in 1..Taken /\ Taken \in Nat /\ Len(queue) \in Nat /\ enqueued \in Nat
  BY ConstantsAssumption
     DEF AnomaliesTaken, SafeInv, TypeInv, TypeOK, Places, QueueInOrder
<1>2. r \in Accepted
  BY <1>1 DEF Accepted, Taken
<1>3. r \notin Queued
  <2>1. \A i \in DOMAIN queue : queue[i] = Taken + i /\ i \in Nat /\ i >= 1
    BY DEF SafeInv, TypeInv, TypeOK, Places, QueueInOrder
  <2>2. QED
    BY <1>1, <2>1 DEF Queued
<1>4. r \in InStages \cup buffer \cup Saving \cup Settled
  BY <1>2, <1>3 DEF Conserved
<1>5. r \in OnItsWay \cup stored \cup dropped
  BY <1>4 DEF InStages, Saving, Settled, OnItsWay
<1>6. ASSUME pc[Main] = "returned" PROVE r \in stored \cup dropped
  <2>1. Busy = {} /\ buffer = {} /\ Saving = {}
    BY <1>6 DEF NothingLeftBehind, Ended, Abnormal
  <2>2. QED
    BY <1>4, <2>1 DEF InStages, Busy, Settled
<1>7. QED
  BY <1>5, <1>6

\* A point detector's anomaly is saved before its record: on the normal path of a
\* run the record is on its way, stored or counted as failed, and when run() has
\* returned it is one of the latter, provided that saves raise RepositoryError at
\* worst (DetectorStage.process, PipelineExecutor.run).
THEOREM AnomaliesFollowedAlways ==
  ASSUME "unexpected_error" \notin SaveOutcomes
  PROVE  PipelineSpec => []AnomaliesFollowed
<1>1. PipelineInit => Custody /\ AnomaliesTaken
  BY CustodyInit DEF PipelineInit, AnomaliesTaken
<1>2. /\ SafeInv /\ Custody /\ AnomaliesTaken /\ [PipelineNext]_pipelineVars
      => Custody' /\ AnomaliesTaken'
  BY CustodyStep, AnomaliesTakenStep DEF SafeInv, TypeInv, TypeOK
<1>3. Spec => []Conserved
  BY ConservedAlways
<1>4. SafeInv /\ Conserved /\ NothingLeftBehind /\ AnomaliesTaken => AnomaliesFollowed
  BY AnomaliesHaveRecords
<1>5. QED
  BY <1>1, <1>2, <1>3, <1>4, PipelineImplementsExecutor, SafeInvAlways,
     NothingLeftBehindAlways, PTL DEF PipelineSpec

-------------------------------------------------------------------------------
(* The sessionizer of the program is one that BlockSessionizerProofs is about. *)

SP == INSTANCE BlockSessionizerProofs WITH
  Consumers <- Workers,
  Handlers <- {Detector},
  Inputs <- {Input(l) : l \in {k \in 1..NumLines : Lines[k].block # NoBlock}},
  NumRecords <- NumLines,
  MayInterrupt <- TRUE,
  pc <- spc,
  interrupted <- halted

LEMMA SessionizerAccepts == SP!SessionizerAssumption /\ SP!TasksAssumption
<1>1. \A in \in {Input(l) : l \in {k \in 1..NumLines : Lines[k].block # NoBlock}} :
        in.block \in Blocks /\ in.ts \in {SP!NoTime} \cup 0..WallClock
  BY LinesAssumption, TracesAssumption DEF Input, SP!NoTime
<1>2. SP!SessionizerAssumption
  BY <1>1, ConstantsAssumption, TracesAssumption DEF SP!SessionizerAssumption
<1>3. SP!TasksAssumption
  BY JanitorAssumption, TasksAssumption DEF SP!TasksAssumption
<1>4. QED
  BY <1>2, <1>3

LEMMA SameInit == S!Init = SP!Init
BY DEF S!Init, SP!Init, S!Tasks, SP!Tasks, S!NoTime, SP!NoTime

LEMMA SameNext == S!Next = SP!Next
BY DEF S!Stopped, SP!Stopped, S!NoTime, SP!NoTime, S!Tasks, SP!Tasks, S!vars, SP!vars, S!Goto,
       SP!Goto, S!Holds, SP!Holds, S!Earlier, SP!Earlier, S!Later, SP!Later, S!NewTrace,
       SP!NewTrace, S!Add, SP!Add, S!IsOpen, SP!IsOpen, S!Touch, SP!Touch, S!Put,
       SP!Put, S!Without, SP!Without, S!Closed, SP!Closed, S!Emit, SP!Emit, S!Arrive,
       SP!Arrive, S!Grown, SP!Grown, S!HitsCap, SP!HitsCap, S!OverCapacity,
       SP!OverCapacity, S!Observe, SP!Observe, S!Attach, SP!Attach, S!AttachAndCap,
       SP!AttachAndCap, S!AttachAndEvict, SP!AttachAndEvict, S!Published, SP!Published,
       S!ProcessReturns, SP!ProcessReturns, S!HandlerEnds, SP!HandlerEnds,
       S!JanitorWakes, SP!JanitorWakes, S!Aged, SP!Aged, S!Due, SP!Due, S!ReasonToClose,
       SP!ReasonToClose, S!ToClose, SP!ToClose, S!CloseNext, SP!CloseNext, S!PassEnds,
       SP!PassEnds, S!JanitorPass, SP!JanitorPass, S!JanitorGoesOn, SP!JanitorGoesOn,
       S!Cancelled, SP!Cancelled, S!Interrupt, SP!Interrupt, S!ConsumerCancelled,
       SP!ConsumerCancelled, S!Stop, SP!Stop, S!JanitorCancelled, SP!JanitorCancelled,
       S!FlushNext, SP!FlushNext, S!InterruptFlush, SP!InterruptFlush, S!ConsumerStep,
       SP!ConsumerStep, S!JanitorStep, SP!JanitorStep, S!Terminated, SP!Terminated,
       S!Next, SP!Next, S!Filter, SP!Filter, S!RemoveFirst, SP!RemoveFirst,
       S!SelectInSeq, SP!SelectInSeq, S!RemoveAt, SP!RemoveAt, S!Min, SP!Min

\* Every step of Pipeline is a step of the sessionizer or leaves it alone.
LEMMA SessionizerMoves == PipelineNext => [S!Next]_sessionizerVars
<1> SUFFICES ASSUME PipelineNext PROVE [S!Next]_sessionizerVars
  OBVIOUS
<1>1. ASSUME NEW w \in Workers, NEW s, NEW l, Enter(w, s, l) PROVE [S!Next]_sessionizerVars
  BY <1>1 DEF Enter, S!Next
<1>2. ASSUME NEW w \in Workers, ConsumerStep(w) PROVE [S!Next]_sessionizerVars
  <2>1. CASE \E s, l : Enter(w, s, l)
    BY <1>1, <2>1
  <2>2. CASE UNCHANGED sessionizerVars
    BY <2>2
  <2>3. CASE S!ConsumerStep(w)
    BY <2>3 DEF S!Next
  <2>4. QED
    BY <1>2, <2>1, <2>2, <2>3
    DEF ConsumerStep, TakeLine, AttachRecord, LeaveSessionizer, AnomalySaved, AnomalyFails,
        FinishRecord, RefuseRecord, BatchSaved, ConsumerCancelled, S!ConsumerStep
<1>3. CASE ExecutorStep \/ WindDown
  BY <1>3 DEF ExecutorStep, WindDown, S!Next
<1>4. CASE StopSessionizer \/ FlushTraces \/ InterruptStop \/ JanitorWorks \/ JanitorStops
  BY <1>4 DEF StopSessionizer, FlushTraces, InterruptStop, JanitorWorks, JanitorStops, S!Next,
              S!JanitorStep
<1>5. ASSUME NEW t \in S!Tasks, TraceHandled(t) PROVE [S!Next]_sessionizerVars
  BY <1>5 DEF TraceHandled, S!Next
<1>6. CASE UNCHANGED pipelineVars
  BY <1>6 DEF pipelineVars
<1>7. QED
  BY <1>2, <1>3, <1>4, <1>5, <1>6 DEF PipelineNext

\* The program is a sessionizer: whatever the executor, the detectors and the
\* repository do, process(), the janitor and stop() behave as BlockSessionizer says.
THEOREM PipelineImplementsSessionizer == PipelineSpec => S!Spec
<1>1. PipelineInit => S!Init
  BY DEF PipelineInit
<1>2. [PipelineNext]_pipelineVars => [S!Next]_(S!vars)
  BY SessionizerMoves DEF pipelineVars, sessionizerVars, S!vars
<1>3. QED
  BY <1>1, <1>2, PTL DEF PipelineSpec, S!Spec

LEMMA SessionizerRuns == PipelineSpec => SP!Spec
<1>1. PipelineInit => SP!Init
  BY SameInit DEF PipelineInit
<1>2. [PipelineNext]_pipelineVars => [SP!Next]_(SP!vars)
  BY SessionizerMoves, SameNext DEF pipelineVars, sessionizerVars, SP!vars
<1>3. QED
  BY <1>1, <1>2, PTL DEF PipelineSpec, SP!Spec

LEMMA SessionizerFacts ==
  PipelineSpec => /\ []SP!Inv
                  /\ []SP!InNumberOrder(SP!LastAttached, SP!Current, SP!ClosedTraces)
                  /\ []SP!AllClosed
                  /\ []SP!NoGaps
<1>1. SP!Spec => []SP!Inv
  BY SessionizerAccepts, SP!InvAlways
<1>2. SP!Spec => []SP!InNumberOrder(SP!LastAttached, SP!Current, SP!ClosedTraces)
  BY SessionizerAccepts, SP!TracesInOrder
<1>3. SP!Spec => []SP!AllClosed
  BY SessionizerAccepts, SP!AllClosedAlways
<1>4. SP!Spec => []SP!NoGaps
  BY SessionizerAccepts, SP!NoGapsAlways
<1>5. QED
  BY <1>1, <1>2, <1>3, <1>4, SessionizerRuns, PTL

-------------------------------------------------------------------------------
(* Lines and records: process() is called on the lines in the order of the source. *)

\* The sessionizer was given the lines that have a trace to join, among those taken
\* so far, each once and in their order.
GivenInOrder ==
  /\ \A n \in DOMAIN log : LineOf(n) \in 1..Taken /\ Traceable(LineOf(n))
  /\ \A m, n \in DOMAIN log : m < n => LineOf(m) < LineOf(n)
  /\ \A l \in 1..Taken : Traceable(l) => \E n \in DOMAIN log : LineOf(n) = l

\* A line goes to the sessionizer first if it has a block, and not after the detectors.
LEMMA FirstStage ==
  ASSUME NEW l
  PROVE  StageAfter(0, l) = "sessionizer" <=> Lines[l].block # NoBlock
<1> DEFINE later == {j \in 1..2 : Suspends(StageOrder[j], l)}
           next == CHOOSE j \in later : \A k \in later : j <= k
<1>1. StageAfter(0, l) = IF later = {} THEN "done" ELSE StageOrder[next]
  BY DEF StageAfter, StageOrder
<1>2. StageOrder[1] = "sessionizer" /\ StageOrder[2] = "detectors"
  BY DEF StageOrder
<1>3. 1 \in later <=> Lines[l].block # NoBlock
  BY <1>2 DEF Suspends
<1>4. \A j \in later : j = 1 \/ j = 2
  OBVIOUS
<1> HIDE DEF later
<1>5. CASE 1 \in later
  <2>1. \A j \in later : (\A k \in later : j <= k) <=> j = 1
    BY <1>4, <1>5
  <2>2. next \in later /\ \A k \in later : next <= k
    BY <1>5, <2>1
  <2>3. next = 1
    BY <2>1, <2>2
  <2>4. QED
    BY <1>1, <1>2, <1>3, <1>5, <2>3
<1>6. CASE 1 \notin later /\ later # {}
  <2>1. 2 \in later /\ \A k \in later : 2 <= k
    BY <1>4, <1>6
  <2>2. next \in later
    BY <2>1
  <2>3. next = 2
    BY <1>4, <1>6, <2>2
  <2>4. QED
    BY <1>1, <1>2, <1>3, <1>6, <2>3
<1>7. CASE later = {}
  BY <1>1, <1>3, <1>7
<1>8. QED
  BY <1>5, <1>6, <1>7

LEMMA LastStage ==
  ASSUME NEW l
  PROVE  StageAfter(PlaceOf("detectors"), l) = "done"
<1>1. StageOrder[1] = "sessionizer" /\ StageOrder[2] = "detectors" /\ Len(StageOrder) = 2
      /\ DOMAIN StageOrder = {1, 2}
  BY DEF StageOrder
<1>2. PlaceOf("detectors") = 2
  BY <1>1 DEF PlaceOf
<1>3. {j \in 3..2 : Suspends(StageOrder[j], l)} = {}
  OBVIOUS
<1>4. QED
  BY <1>1, <1>2, <1>3 DEF StageAfter

\* One line more is taken, and given to the sessionizer if it has a trace to join.
LEMMA TakesLine ==
  ASSUME GivenInOrder, Taken \in Nat, Taken' = Taken + 1, NEW Elems, log \in Seq(Elems), NEW l, l = Taken',
         IF Traceable(l) THEN Input(l) \in Elems /\ log' = Append(log, Input(l))
                         ELSE log' = log
  PROVE  GivenInOrder'
<1> DEFINE before == Taken
<1>0. before \in Nat /\ l = before + 1 /\ Taken' = l /\ Taken = before
  OBVIOUS
<1> HIDE DEF before
<1>1. Input(l).line = l
  BY DEF Input
<1>2. \A k \in Nat : k \in 1..l <=> k \in 1..before \/ k = l
  BY <1>0
<1>3. CASE ~Traceable(l)
  <2>1. log' = log /\ \A n : LineOf(n)' = LineOf(n)
    BY <1>3 DEF LineOf
  <2>2. \A k \in 1..before : k \in 1..l
    BY <1>0
  <2>3. \A k \in 1..l : k \in 1..before \/ k = l
    BY <1>0
  <2>4. QED
    BY <1>0, <1>3, <2>1, <2>2, <2>3 DEF GivenInOrder, LineOf, Traceable, PassesChecks
<1>4. CASE Traceable(l)
  <2>1. PICK in \in Elems : in = Input(l)
    BY <1>4
  <2>2. PICK s \in Seq(Elems) : s = log
    OBVIOUS
  <2>3. log' = Append(s, in)
    BY <1>4, <2>1, <2>2
  <2>4. /\ Len(s) \in Nat /\ DOMAIN log = 1..Len(s) /\ DOMAIN log' = 1..(Len(s) + 1)
        /\ log'[Len(s) + 1] = in /\ \A n \in 1..Len(s) : log'[n] = log[n]
    BY <2>2, <2>3
  <2> DEFINE line(n) == log[n].line
             line2(n) == log'[n].line
  <2>5. line2(Len(s) + 1) = l /\ \A n \in 1..Len(s) : line2(n) = line(n)
    BY <1>1, <2>1, <2>4
  <2>6. /\ \A n \in 1..Len(s) : line(n) \in 1..before /\ Traceable(line(n))
        /\ \A m, n \in 1..Len(s) : m < n => line(m) < line(n)
        /\ \A k \in 1..before : Traceable(k) => \E n \in 1..Len(s) : line(n) = k
    BY <1>0, <2>4 DEF GivenInOrder, LineOf
  <2> HIDE DEF line, line2
  <2>7. ASSUME NEW n \in 1..(Len(s) + 1)
        PROVE  line2(n) \in 1..l /\ Traceable(line2(n))
    <3>1. n \in 1..Len(s) \/ n = Len(s) + 1
      BY <2>4
    <3>2. \A k \in 1..before : k \in 1..l
      BY <1>0
    <3>3. l \in 1..l
      BY <1>0
    <3>4. QED
      BY <1>4, <2>5, <2>6, <3>1, <3>2, <3>3
  <2>8. ASSUME NEW m \in 1..(Len(s) + 1), NEW n \in 1..(Len(s) + 1), m < n
        PROVE  line2(m) < line2(n)
    <3>1. m \in 1..Len(s)
      BY <2>4, <2>8
    <3>2. CASE n \in 1..Len(s)
      BY <2>5, <2>6, <2>8, <3>1, <3>2
    <3>3. CASE n = Len(s) + 1
      <4>1. line2(m) \in 1..before
        BY <2>5, <2>6, <3>1
      <4>2. QED
        BY <1>0, <2>5, <3>3, <4>1
    <3>4. QED
      BY <2>4, <3>2, <3>3
  <2>9. ASSUME NEW k \in 1..l, Traceable(k) PROVE \E n \in 1..(Len(s) + 1) : line2(n) = k
    <3>1. CASE k = l
      <4>1. Len(s) + 1 \in 1..(Len(s) + 1)
        BY <2>4
      <4>2. QED
        BY <2>5, <3>1, <4>1
    <3>2. CASE k \in 1..before
      <4>1. PICK n \in 1..Len(s) : line(n) = k
        BY <2>6, <2>9, <3>2
      <4>2. n \in 1..(Len(s) + 1)
        BY <2>4, <4>1
      <4>3. QED
        BY <2>5, <4>1, <4>2
    <3>3. QED
      BY <1>0, <3>1, <3>2
  <2>10. QED
    BY <1>0, <2>4, <2>7, <2>8, <2>9 DEF GivenInOrder, LineOf, line2, Traceable, PassesChecks
<1>5. QED
  BY <1>3, <1>4

Given == {Input(l) : l \in {k \in 1..NumLines : Lines[k].block # NoBlock}}

LEMMA OthersTakeNothing ==
  ASSUME SafeInv, PipelineNext, \A w \in Workers : ~TakeLine(w)
  PROVE  Taken' = Taken /\ UNCHANGED log
<1>1. TypeInv /\ QueueInOrder /\ PcOK
  BY DEF SafeInv, Places, TypeInv, TypeOK
<1>2. CASE UNCHANGED <<executorVars, log>>
  BY <1>2 DEF executorVars, vars, Taken
<1>3. CASE ExecutorStep \/ WindDown
  <2>1. UNCHANGED log
    BY <1>3 DEF ExecutorStep, WindDown, sessionizerVars, S!Interrupt
  <2>2. \A w \in Workers : pc'[w] = pc[w]
    BY <1>1, <1>3, OthersLeaveConsumers
  <2>3. ~ \E w \in Workers : WorkerGet(w)
    BY <1>1, <2>2 DEF WorkerGet, Goto, PcOK, Tasks
  <2>4. [Next]_vars
    BY ExecutorMoves DEF executorVars
  <2>5. QED
    BY <1>1, <2>1, <2>3, <2>4, QueueStep
<1>4. ASSUME NEW w \in Workers, FinishRecord(w) \/ RefuseRecord(w) \/ BatchSaved(w) \/ ConsumerCancelled(w)
      PROVE  Taken' = Taken /\ UNCHANGED log
  <2>1. UNCHANGED <<enqueued, queue>>
    BY <1>4
       DEF FinishRecord, RefuseRecord, BatchSaved, ConsumerCancelled, BufferRecord, FillBatch,
           StageFails, WorkerSaved, WorkerSaveRaises, WorkerCancelled
  <2>2. UNCHANGED log
    BY <1>4
       DEF FinishRecord, RefuseRecord, BatchSaved, ConsumerCancelled, sessionizerVars,
           S!ConsumerCancelled
  <2>3. QED
    BY <2>1, <2>2 DEF Taken
<1>5. ASSUME NEW w \in Workers, AnomalySaved(w) \/ AnomalyFails(w)
      PROVE  UNCHANGED <<executorVars, log>>
  <2>1. UNCHANGED executorVars /\ \E s : s # "sessionizer" /\ Enter(w, s, held[w])
    BY <1>5, LastStage DEF AnomalySaved, AnomalyFails
  <2>2. QED
    BY <2>1 DEF Enter, sessionizerVars
<1>6. ASSUME NEW w \in Workers, AttachRecord(w) \/ LeaveSessionizer(w)
      PROVE  UNCHANGED <<executorVars, log>>
  BY <1>6
     DEF AttachRecord, LeaveSessionizer, S!Attach, S!AttachAndCap, S!AttachAndEvict,
         S!ProcessReturns
<1>7. CASE StopSessionizer \/ FlushTraces \/ InterruptStop \/ JanitorWorks \/ JanitorStops
  BY <1>2, <1>7
     DEF StopSessionizer, FlushTraces, InterruptStop, JanitorWorks, JanitorStops, S!Stop,
         S!FlushNext, S!InterruptFlush, S!JanitorWakes, S!JanitorPass, S!JanitorGoesOn,
         S!JanitorCancelled
<1>8. CASE \E t \in S!Tasks : TraceHandled(t)
  BY <1>2, <1>8 DEF TraceHandled, S!HandlerEnds
<1>9. CASE UNCHANGED pipelineVars
  BY <1>2, <1>9 DEF pipelineVars, sessionizerVars
<1>10. QED
  BY <1>2, <1>3, <1>4, <1>5, <1>6, <1>7, <1>8, <1>9 DEF PipelineNext, ConsumerStep

LEMMA GivenInOrderStep ==
  ASSUME SafeInv, GivenInOrder, log \in Seq(Given), [PipelineNext]_pipelineVars
  PROVE  GivenInOrder'
<1>1. Taken \in Nat
  BY DEF SafeInv, Places, QueueInOrder
<1>2. ASSUME NEW w \in Workers, TakeLine(w) PROVE GivenInOrder'
  <2>1. PICK l : l = Head(queue)
    OBVIOUS
  <2>2. Taken' = Taken + 1 /\ l = Taken'
    BY <1>2, <2>1, QueueStepTaken DEF TakeLine, SafeInv, Places
  <2>3. Enter(w, IF PassesChecks(l) THEN StageAfter(0, l) ELSE "refused", l)
    BY <1>2, <2>1 DEF TakeLine
  <2>4. CASE Traceable(l)
    <3>1. S!Arrive(w) /\ Last(log') = Input(l)
      BY <2>3, <2>4, FirstStage DEF Enter, Traceable
    <3>2. PICK in \in Given : log' = Append(log, in)
      BY <3>1 DEF S!Arrive, Given
    <3>3. Last(Append(log, in)) = in
      <4>1. PICK s \in Seq(Given) : s = log
        OBVIOUS
      <4>2. Last(Append(s, in)) = in
        BY DEF Last
      <4>3. QED
        BY <4>1, <4>2
    <3>4. in = Input(l)
      BY <3>1, <3>2, <3>3
    <3>5. QED
      BY <1>1, <2>2, <2>4, <3>2, <3>4, TakesLine
  <2>5. CASE ~Traceable(l)
    <3>1. UNCHANGED log
      BY <2>3, <2>5, FirstStage DEF Enter, Traceable, sessionizerVars
    <3>2. QED
      BY <1>1, <2>2, <2>5, <3>1, TakesLine
  <2>6. QED
    BY <2>4, <2>5
<1>3. ASSUME Taken' = Taken, UNCHANGED log PROVE GivenInOrder'
  BY <1>3 DEF GivenInOrder, LineOf, Traceable, PassesChecks
<1>4. CASE UNCHANGED pipelineVars
  BY <1>3, <1>4 DEF pipelineVars, executorVars, vars, sessionizerVars, Taken
<1>5. QED
  BY <1>2, <1>3, <1>4, OthersTakeNothing

LEMMA GivenInOrderAlways == PipelineSpec => []GivenInOrder
<1>1. PipelineInit => GivenInOrder
  <2> SUFFICES ASSUME PipelineInit PROVE GivenInOrder
    OBVIOUS
  <2>1. Taken = 0
    BY SafeInvInit DEF PipelineInit
  <2>2. DOMAIN log = {} /\ 1..0 = {}
    BY DEF PipelineInit, S!Init
  <2>3. QED
    BY <2>1, <2>2 DEF GivenInOrder
<1>2. SP!Inv => log \in Seq(Given)
  BY DEF SP!Inv, SP!Typed, Given
<1>3. SafeInv /\ SP!Inv /\ GivenInOrder /\ [PipelineNext]_pipelineVars => GivenInOrder'
  BY <1>2, GivenInOrderStep
<1>4. QED
  BY <1>1, <1>3, SessionizerFacts, PipelineImplementsExecutor, SafeInvAlways, PTL
  DEF PipelineSpec

-------------------------------------------------------------------------------
(* The order of the log, and every line in a trace. *)

\* The records of a trace, open or closed, are records the sessionizer was given.
LEMMA TracedAreGiven ==
  ASSUME SP!Inv
  PROVE  /\ \A b \in DOMAIN trace :
              b \in Blocks /\ \A i \in DOMAIN trace[b].ids : trace[b].ids[i] \in DOMAIN log
         /\ \A k \in DOMAIN emitted :
              /\ emitted[k].block \in Blocks
              /\ \A i \in DOMAIN emitted[k].ids : emitted[k].ids[i] \in DOMAIN log
<1>1. DOMAIN log = 1..Len(log)
  <2>1. log \in Seq(Given)
    BY DEF SP!Inv, SP!Typed, Given
  <2>2. QED
    BY <2>1
<1>2. SP!Dictionary(order, trace) /\ \A k \in DOMAIN emitted : SP!Fits(emitted[k].block, emitted[k])
  BY DEF SP!Inv, SP!Kept
<1>3. \A b \in DOMAIN trace : SP!Sound(b, trace[b])
  BY <1>2, SessionizerAccepts, SP!DictionaryFacts
<1>4. \A k \in DOMAIN emitted : emitted[k].block \in Blocks
  <2>1. emitted \in Seq(SP!ClosedTrace)
    BY DEF SP!Inv, SP!Typed
  <2>2. \A k \in DOMAIN emitted : emitted[k] \in SP!ClosedTrace
    BY <2>1
  <2>3. QED
    BY <2>2 DEF SP!ClosedTrace
<1>5. QED
  BY <1>1, <1>2, <1>3, <1>4 DEF SP!Sound, SP!Fits

\* The numbers ascend within a trace, and from one trace of a block to the next.
LEMMA NumbersAscend ==
  ASSUME SP!Inv, SP!InNumberOrder(SP!LastAttached, SP!Current, SP!ClosedTraces)
  PROVE  /\ \A b \in DOMAIN trace : SP!Increasing(trace[b].ids)
         /\ \A i \in DOMAIN emitted :
              /\ SP!Increasing(emitted[i].ids)
              /\ \A j \in DOMAIN emitted :
                   i < j /\ emitted[i].block = emitted[j].block
                     => SP!Precedes(emitted[i].ids, emitted[j].ids)
              /\ emitted[i].block \in DOMAIN trace
                   => SP!Precedes(emitted[i].ids, trace[emitted[i].block].ids)
<1>1. ASSUME NEW b \in DOMAIN trace
      PROVE  b \in Blocks /\ SP!Current[b] = trace[b].ids
  BY <1>1, TracedAreGiven DEF SP!Current, SP!IsOpen
<1>2. /\ DOMAIN SP!ClosedTraces = DOMAIN emitted
      /\ \A i \in DOMAIN emitted : /\ SP!ClosedTraces[i].ids = emitted[i].ids
                                   /\ SP!ClosedTraces[i].block = emitted[i].block
  BY DEF SP!ClosedTraces
<1>3. /\ \A b \in DOMAIN trace : SP!Increasing(trace[b].ids)
      /\ \A i \in DOMAIN emitted : SP!Increasing(emitted[i].ids)
  BY <1>1, <1>2 DEF SP!InNumberOrder
<1>4. ASSUME NEW i \in DOMAIN emitted, NEW j \in DOMAIN emitted, i < j,
             emitted[i].block = emitted[j].block
      PROVE  SP!Precedes(emitted[i].ids, emitted[j].ids)
  BY <1>2, <1>4 DEF SP!InNumberOrder
<1>5. ASSUME NEW i \in DOMAIN emitted, emitted[i].block \in DOMAIN trace
      PROVE  SP!Precedes(emitted[i].ids, trace[emitted[i].block].ids)
  BY <1>1, <1>2, <1>5 DEF SP!InNumberOrder
<1>6. QED
  BY <1>3, <1>4, <1>5

LEMMA LogIsInOrder ==
  ASSUME SP!Inv, SP!InNumberOrder(SP!LastAttached, SP!Current, SP!ClosedTraces), GivenInOrder
  PROVE  LogOrderKept
<1>1. \A ids : SP!Increasing(ids) /\ (\A i \in DOMAIN ids : ids[i] \in DOMAIN log)
               => InLineOrder(ids)
  BY DEF SP!Increasing, InLineOrder, GivenInOrder
<1>2. ASSUME NEW ids, NEW later, SP!Precedes(ids, later),
             \A i \in DOMAIN ids : ids[i] \in DOMAIN log,
             \A i \in DOMAIN later : later[i] \in DOMAIN log
      PROVE  AllEarlier(ids, later)
  BY <1>2 DEF SP!Precedes, AllEarlier, GivenInOrder, Range, SP!Range
<1>3. QED
  BY <1>1, <1>2, NumbersAscend, TracedAreGiven DEF LogOrderKept

\* Whatever the consumers' interleaving, the evictions and the janitor, a block's
\* traces hold its lines in the order of the source, within a trace and from one
\* to the next (BlockSessionizer.process, under its lock, in a run of the
\* executor's consumers).
THEOREM LogOrderKeptAlways == PipelineSpec => []LogOrderKept
BY SessionizerFacts, GivenInOrderAlways, LogIsInOrder, PTL

LEMMA AllLinesTraced ==
  ASSUME EndInv, Conserved, NothingLeftBehind, SP!Inv, SP!AllClosed, GivenInOrder
  PROVE  EveryLineTraced
<1> SUFFICES ASSUME Over, ~halted, pc[Main] = "returned"
             PROVE  /\ UNION {{LineOf(n) : n \in Range(emitted[i].ids)} : i \in DOMAIN emitted}
                         = {l \in Records : Traceable(l)}
                    /\ stored \cup dropped = Records
  BY DEF EveryLineTraced
<1>1. ~interrupted /\ ~Abnormal
  BY DEF EndInv, WoundDown, Abnormal
<1>2. Busy = {} /\ buffer = {} /\ Saving = {} /\ enqueued = NumLines /\ queue = <<>>
  BY <1>1 DEF NothingLeftBehind, Ended
<1>3. Taken = NumLines
  BY <1>2, ConstantsAssumption DEF Taken
<1>4. stored \cup dropped = Records
  BY <1>1, <1>2 DEF Conserved, Accepted, Records, Queued, InStages, Busy, Settled
<1>5. SP!ClosedIds = DOMAIN log
  <2>1. log \in Seq(Given)
    BY DEF SP!Inv, SP!Typed, Given
  <2>2. DOMAIN log = 1..Len(log)
    BY <2>1
  <2>3. QED
    BY <2>2 DEF SP!AllClosed, Over, S!Stopped, SP!Stopped
<1>6. UNION {{LineOf(n) : n \in Range(emitted[i].ids)} : i \in DOMAIN emitted}
        = {LineOf(n) : n \in DOMAIN log}
  BY <1>5 DEF SP!ClosedIds, SP!Range, Range
<1>7. {LineOf(n) : n \in DOMAIN log} = {l \in Records : Traceable(l)}
  BY <1>3 DEF GivenInOrder, Records
<1>8. QED
  BY <1>4, <1>6, <1>7

\* A run that returns, and whose stop() was not interrupted, leaves every line with a
\* block that parses and validates in a closed trace, and nothing else in them,
\* and every record is stored or counted as failed, provided that saves raise
\* RepositoryError at worst (PipelineExecutor.run, then BlockSessionizer.stop).
THEOREM EveryLineTracedAlways ==
  ASSUME "unexpected_error" \notin SaveOutcomes
  PROVE  PipelineSpec => []EveryLineTraced
<1>1. Spec => []Conserved
  BY ConservedAlways
<1>2. QED
  BY <1>1, AllLinesTraced, PipelineImplementsExecutor, EndInvAlways, NothingLeftBehindAlways,
     SessionizerFacts, GivenInOrderAlways, PTL

-------------------------------------------------------------------------------
(* The alarms: a trace's events are a piece of its block's. *)

LEMMA LogFacts ==
  ASSUME SP!Inv, GivenInOrder, NEW n \in DOMAIN log
  PROVE  /\ LineOf(n) \in 1..NumLines /\ Traceable(LineOf(n))
         /\ log[n] = Input(LineOf(n)) /\ log[n] \in Given
<1>1. log \in Seq(Given)
  BY DEF SP!Inv, SP!Typed, Given
<1>2. log[n] \in Given
  BY <1>1
<1>3. PICK l \in 1..NumLines : log[n] = Input(l)
  BY <1>2 DEF Given
<1>4. LineOf(n) = l
  BY <1>3 DEF LineOf, Input
<1>5. QED
  BY <1>2, <1>3, <1>4 DEF GivenInOrder

LEMMA EmittedFacts ==
  ASSUME SP!Inv, SP!InNumberOrder(SP!LastAttached, SP!Current, SP!ClosedTraces),
         NEW i \in DOMAIN emitted
  PROVE  /\ emitted[i].ids \in Seq(Nat) /\ emitted[i].ids # <<>>
         /\ \A k \in DOMAIN emitted[i].ids :
              /\ emitted[i].ids[k] \in DOMAIN log
              /\ log[emitted[i].ids[k]].block = emitted[i].block
         /\ SP!Increasing(emitted[i].ids)
         /\ emitted[i].events = SP!EventsOf(emitted[i].ids)
         /\ emitted[i].events \in Seq(SP!Events)
<1>2. SP!Increasing(emitted[i].ids)
  BY NumbersAscend
<1>3. SP!Fits(emitted[i].block, emitted[i])
  BY DEF SP!Inv, SP!Kept
<1>4. emitted[i] \in SP!ClosedTrace
  <2>1. emitted \in Seq(SP!ClosedTrace)
    BY DEF SP!Inv, SP!Typed
  <2>2. QED
    BY <2>1
<1>5. emitted[i].ids \in Seq(SP!Ids) /\ emitted[i].events \in Seq(SP!Events)
  BY <1>4 DEF SP!ClosedTrace
<1>6. emitted[i].ids \in Seq(Nat)
  <2>1. SP!Ids \subseteq Nat
    BY DEF SP!Ids
  <2>2. QED
    BY <1>5, <2>1, SeqMonotonic
<1>7. QED
  BY <1>2, <1>3, <1>5, <1>6, TracedAreGiven DEF SP!Fits, SP!Truthful

\* Between its first and its last line, a trace has all the lines of its block.
LEMMA TraceHasItsLines ==
  ASSUME SP!Inv, SP!InNumberOrder(SP!LastAttached, SP!Current, SP!ClosedTraces), SP!NoGaps,
         GivenInOrder, Taken \in Nat, NEW i \in DOMAIN emitted,
         NEW first \in DOMAIN emitted[i].ids, NEW last \in DOMAIN emitted[i].ids,
         NEW l \in 1..NumLines, PassesChecks(l), Lines[l].block = emitted[i].block,
         LineOf(emitted[i].ids[first]) <= l, l <= LineOf(emitted[i].ids[last])
  PROVE  \E k \in DOMAIN emitted[i].ids : LineOf(emitted[i].ids[k]) = l
<1> DEFINE b == emitted[i].block
           ids == emitted[i].ids
<1>1. b \in Blocks /\ ids[first] \in DOMAIN log /\ ids[last] \in DOMAIN log
  BY TracedAreGiven
<1>2. \A n \in DOMAIN log : n \in Nat /\ LineOf(n) \in 1..NumLines
  <2>1. log \in Seq(Given)
    BY DEF SP!Inv, SP!Typed, Given
  <2>2. \A n \in DOMAIN log : n \in Nat
    BY <2>1
  <2>3. QED
    BY <2>2, LogFacts
<1>3. l \in Nat /\ l \in 1..Taken /\ Traceable(l)
  <2>1. LineOf(ids[last]) \in 1..Taken
    BY <1>1 DEF GivenInOrder
  <2>2. l \in Nat /\ l \in 1..Taken
    BY <1>1, <1>2, <2>1
  <2>3. b # NoBlock
    BY <1>1, LinesAssumption
  <2>4. QED
    BY <2>2, <2>3 DEF Traceable
<1>4. PICK n \in DOMAIN log : LineOf(n) = l
  BY <1>3 DEF GivenInOrder
<1>5. ids[first] <= n /\ n <= ids[last]
  <2>1. ~(n < ids[first]) /\ ~(ids[last] < n)
    <3>1. /\ n < ids[first] => LineOf(n) < LineOf(ids[first])
          /\ ids[last] < n => LineOf(ids[last]) < LineOf(n)
      BY <1>1, <1>4 DEF GivenInOrder
    <3>2. LineOf(ids[first]) \in Nat /\ LineOf(ids[last]) \in Nat
      BY <1>1, <1>2
    <3>3. QED
      BY <1>3, <1>4, <3>1, <3>2
  <2>2. QED
    BY <1>1, <1>2, <1>4, <2>1
<1>6. n \in SP!Attached
  <2>1. ids[last] \in SP!Attached
    BY DEF SP!Attached, SP!ClosedIds, SP!Range
  <2>2. n \in 1..ids[last]
    <3>1. n \in 1..Len(log)
      <4>1. log \in Seq(Given)
        BY DEF SP!Inv, SP!Typed, Given
      <4>2. QED
        BY <1>4, <4>1
    <3>2. QED
      BY <1>1, <1>2, <1>5, <3>1
  <2>3. QED
    BY <2>1, <2>2 DEF SP!NoGaps
<1>7. log[n].block = b
  BY <1>4, LogFacts DEF Input
<1>8. CASE n \in SP!OpenIds
  <2>1. PICK o \in DOMAIN trace : n \in Range(trace[o].ids)
    BY <1>8 DEF SP!OpenIds, SP!Range, Range
  <2>2. SP!Sound(o, trace[o])
    BY <2>1, SessionizerAccepts, SP!DictionaryFacts DEF SP!Inv, SP!Kept
  <2>3. o = b
    BY <1>7, <2>1, <2>2 DEF SP!Sound, SP!Fits, SP!Truthful, Range
  <2>4. SP!Precedes(ids, trace[b].ids)
    BY <2>1, <2>3, NumbersAscend
  <2>5. ids[last] < n
    BY <2>1, <2>3, <2>4 DEF SP!Precedes, SP!Range, Range
  <2>6. QED
    BY <1>1, <1>2, <1>4, <1>5, <2>5
<1>9. CASE n \in SP!ClosedIds
  <2>1. PICK j \in DOMAIN emitted : n \in Range(emitted[j].ids)
    BY <1>9 DEF SP!ClosedIds, SP!Range, Range
  <2>2. SP!Fits(emitted[j].block, emitted[j])
    BY DEF SP!Inv, SP!Kept
  <2>3. emitted[j].block = b
    BY <1>7, <2>1, <2>2 DEF SP!Fits, SP!Truthful, Range
  <2>4. i \in Int /\ j \in Int
    <3>1. emitted \in Seq(SP!ClosedTrace)
      BY DEF SP!Inv, SP!Typed
    <3>2. QED
      BY <3>1
  <2>5. CASE j = i
    BY <1>4, <2>1, <2>5 DEF Range
  <2>6. CASE j < i
    <3>1. SP!Precedes(emitted[j].ids, ids)
      BY <2>3, <2>6, NumbersAscend
    <3>2. n < ids[first]
      BY <2>1, <3>1 DEF SP!Precedes, SP!Range, Range
    <3>3. QED
      BY <1>1, <1>2, <1>4, <1>5, <3>2
  <2>7. CASE i < j
    <3>1. SP!Precedes(ids, emitted[j].ids)
      BY <2>3, <2>7, NumbersAscend
    <3>2. ids[last] < n
      BY <2>1, <3>1 DEF SP!Precedes, SP!Range, Range
    <3>3. QED
      BY <1>1, <1>2, <1>4, <1>5, <3>2
  <2>8. QED
    BY <2>4, <2>5, <2>6, <2>7
<1>10. QED
  BY <1>6, <1>8, <1>9 DEF SP!Attached

LEMMA SameFilter == \A s, T : SP!Filter(s, T) = Filter(s, T)
BY DEF SP!Filter, Filter

\* Where in a trace the events it shows stand: each belongs to one of its
\* lines, in their order, and no line with an event is passed over.
Shown(pos, events, ids) ==
  /\ pos \in [1..Len(events) -> DOMAIN ids]
  /\ Ascends(pos)
  /\ \A j \in 1..Len(events) :
       LET l == LineOf(ids[pos[j]]) IN events[j] = EventId(l) /\ EventId(l) # NoEvent
  /\ \A k \in DOMAIN ids :
       EventId(LineOf(ids[k])) # NoEvent => \E j \in 1..Len(events) : pos[j] = k

\* The events a trace shows, as those of the lines it was given.
LEMMA EventsOfTrace ==
  ASSUME SP!Inv, SP!InNumberOrder(SP!LastAttached, SP!Current, SP!ClosedTraces), GivenInOrder,
         NEW i \in DOMAIN emitted
  PROVE  /\ Len(emitted[i].events) \in Nat
         /\ \E pos : Shown(pos, emitted[i].events, emitted[i].ids)
<1>1. PICK ids \in Seq(Nat) : ids = emitted[i].ids
  BY EmittedFacts
<1>2. PICK tr \in Seq(SP!Events) : tr = emitted[i].events /\ tr = SP!EventsOf(ids)
  BY <1>1, EmittedFacts
<1> DEFINE s == [k \in DOMAIN ids |-> log[ids[k]].event]
           n == Len(ids)
           All == {EventId(l) : l \in 1..NumLines}
<1>3. n \in Nat /\ DOMAIN ids = 1..n
  OBVIOUS
<1>4. ASSUME NEW k \in 1..n
      PROVE  /\ s[k] = EventId(LineOf(ids[k])) /\ s[k] \in All
             /\ s[k] \in SP!Events <=> s[k] # NoEvent
  <2>1. ids[k] \in DOMAIN log
    BY <1>1, <1>3, EmittedFacts
  <2>2. log[ids[k]] = Input(LineOf(ids[k])) /\ LineOf(ids[k]) \in 1..NumLines /\ log[ids[k]] \in Given
    BY <2>1, LogFacts
  <2>3. s[k] = log[ids[k]].event
    BY <1>3
  <2>4. s[k] = EventId(LineOf(ids[k]))
    BY <2>2, <2>3 DEF Input
  <2>5. s[k] \in SP!Events <=> s[k] # NoEvent
    BY <2>2, <2>3 DEF SP!Events, Given
  <2>6. QED
    BY <2>2, <2>4, <2>5
<1>5. s \in Seq(All) /\ Len(s) = n
  <2>1. s = [k \in 1..n |-> s[k]]
    BY <1>3
  <2> HIDE DEF s, All, n
  <2>2. s \in [1..n -> All]
    BY <1>4, <2>1
  <2>3. QED
    BY <1>3, <2>2
<1>6. tr = Filter(s, SP!Events)
  BY <1>2, SameFilter DEF SP!EventsOf
<1> HIDE DEF s, All, n
<1>7. PICK pos : Positions(pos, Filter(s, SP!Events), Len(s), s, SP!Events)
  BY <1>5, FilterPositions
<1>8. /\ pos \in [1..Len(tr) -> 1..n] /\ Ascends(pos)
      /\ \A j \in 1..Len(tr) : tr[j] = s[pos[j]] /\ s[pos[j]] \in SP!Events
      /\ \A k \in 1..n : s[k] \in SP!Events => \E j \in 1..Len(tr) : pos[j] = k
  BY <1>5, <1>6, <1>7 DEF Positions
<1>9. \A j \in 1..Len(tr) : tr[j] = EventId(LineOf(ids[pos[j]])) /\ tr[j] # NoEvent
  BY <1>4, <1>8
<1>10. \A k \in 1..n : EventId(LineOf(ids[k])) # NoEvent => \E j \in 1..Len(tr) : pos[j] = k
  BY <1>4, <1>8
<1>11. Len(tr) \in Nat
  OBVIOUS
<1>12. Shown(pos, tr, ids)
  BY <1>3, <1>8, <1>9, <1>10 DEF Shown
<1>13. QED
  BY <1>1, <1>2, <1>11, <1>12

\* The events of a block, as those of its lines.
LEMMA EventsOfLines ==
  ASSUME NEW b
  PROVE  /\ Len(EventsOf(b)) \in Nat
         /\ \E pos \in [1..Len(EventsOf(b)) -> 1..NumLines] :
              /\ Ascends(pos)
              /\ \A j \in 1..Len(EventsOf(b)) : EventsOf(b)[j] = EventId(pos[j])
              /\ \A x : (\E j \in 1..Len(EventsOf(b)) : pos[j] = x) <=> x \in EventLines(b)
<1> DEFINE s == [l \in 1..NumLines |-> l]
           T == EventLines(b)
<1>1. NumLines \in Nat
  BY ConstantsAssumption
<1>2. s \in Seq(Nat) /\ Len(s) = NumLines /\ \A l \in 1..NumLines : s[l] = l
  BY <1>1
<1>3. T \subseteq 1..NumLines
  BY DEF EventLines
<1> HIDE DEF s, T
<1>4. PICK lines \in Seq(Nat) : lines = Filter(s, T)
  BY <1>2, FilterKeeps
<1>5. PICK pos : Positions(pos, lines, NumLines, s, T)
  BY <1>2, <1>4, FilterPositions
<1>6. /\ pos \in [1..Len(lines) -> 1..NumLines] /\ Ascends(pos)
      /\ \A j \in 1..Len(lines) : lines[j] = pos[j] /\ pos[j] \in T
      /\ \A k \in 1..NumLines : k \in T => \E j \in 1..Len(lines) : pos[j] = k
  BY <1>2, <1>5 DEF Positions
<1>7. EventsOf(b) = [j \in 1..Len(lines) |-> EventId(lines[j])]
  <2>1. EventsOf(b) = [j \in DOMAIN lines |-> EventId(lines[j])]
    BY <1>4 DEF EventsOf, s, T
  <2>2. DOMAIN lines = 1..Len(lines)
    OBVIOUS
  <2>3. QED
    BY <2>1, <2>2
<1>8. Len(lines) \in Nat
  OBVIOUS
<1>9. Len(EventsOf(b)) = Len(lines)
  BY <1>7, <1>8
<1>10. \A j \in 1..Len(lines) : EventsOf(b)[j] = EventId(pos[j])
  BY <1>6, <1>7
<1>11. \A x : (\E j \in 1..Len(lines) : pos[j] = x) <=> x \in T
  BY <1>3, <1>6
<1>12. QED
  BY <1>6, <1>8, <1>9, <1>10, <1>11 DEF T

\* The events of a closed trace are a piece of its block's events in the log.
LEMMA PieceOfBlock ==
  ASSUME SP!Inv, SP!InNumberOrder(SP!LastAttached, SP!Current, SP!ClosedTraces), SP!NoGaps,
         GivenInOrder, Taken \in Nat, NEW i \in DOMAIN emitted
  PROVE  \E d \in Nat :
           /\ d + Len(emitted[i].events) <= Len(EventsOf(emitted[i].block))
           /\ \A j \in 1..Len(emitted[i].events) :
                emitted[i].events[j] = EventsOf(emitted[i].block)[d + j]
<1>1. PICK ids \in Seq(Nat) : ids = emitted[i].ids /\ ids # <<>>
  BY EmittedFacts
<1>2. PICK tr, all, b : tr = emitted[i].events /\ b = emitted[i].block /\ all = EventsOf(b)
  OBVIOUS
<1>3. PICK n \in Nat : n = Len(ids) /\ n >= 1 /\ DOMAIN ids = 1..n
  <2>1. Len(ids) \in Nat /\ Len(ids) # 0 /\ DOMAIN ids = 1..Len(ids)
    BY <1>1
  <2>2. Len(ids) >= 1
    BY <2>1
  <2>3. QED
    BY <2>1, <2>2
<1> DEFINE line(k) == LineOf(ids[k])
           low == line(1)
           high == line(n)
<1>4. \A k \in 1..n :
        /\ ids[k] \in DOMAIN log /\ line(k) \in 1..NumLines
        /\ PassesChecks(line(k)) /\ Lines[line(k)].block = b
  <2> SUFFICES ASSUME NEW k \in 1..n
               PROVE  /\ ids[k] \in DOMAIN log /\ line(k) \in 1..NumLines
                      /\ PassesChecks(line(k)) /\ Lines[line(k)].block = b
    OBVIOUS
  <2>1. ids[k] \in DOMAIN log /\ log[ids[k]].block = b
    BY <1>1, <1>2, <1>3, EmittedFacts
  <2>2. QED
    BY <2>1, LogFacts DEF Traceable, Input
<1>5. \A k, m \in 1..n : k < m => line(k) < line(m)
  <2>1. SP!Increasing(ids)
    BY <1>1, EmittedFacts
  <2>2. QED
    BY <1>3, <1>4, <2>1 DEF SP!Increasing, GivenInOrder
<1>6. \A l \in 1..NumLines :
        PassesChecks(l) /\ Lines[l].block = b /\ low <= l /\ l <= high
          => \E k \in 1..n : line(k) = l
  <2>1. 1 \in DOMAIN ids /\ n \in DOMAIN ids
    BY <1>3
  <2>2. QED
    BY <1>1, <1>2, <1>3, <2>1, TraceHasItsLines
<1>7. PICK pos \in [1..Len(tr) -> 1..n] :
        /\ Ascends(pos)
        /\ \A j \in 1..Len(tr) : tr[j] = EventId(line(pos[j])) /\ EventId(line(pos[j])) # NoEvent
        /\ \A k \in 1..n : EventId(line(k)) # NoEvent => \E j \in 1..Len(tr) : pos[j] = k
  <2>1. PICK pos : Shown(pos, tr, ids)
    BY <1>1, <1>2, EventsOfTrace
  <2>2. QED
    BY <1>3, <2>1 DEF Shown
<1>8. PICK r \in [1..Len(all) -> 1..NumLines] :
        /\ Ascends(r)
        /\ \A j \in 1..Len(all) : all[j] = EventId(r[j])
        /\ \A x : (\E j \in 1..Len(all) : r[j] = x) <=> x \in EventLines(b)
  BY <1>2, EventsOfLines
<1>9. Len(tr) \in Nat /\ Len(all) \in Nat
  BY <1>2, EventsOfTrace, EventsOfLines
<1> DEFINE q == [j \in 1..Len(tr) |-> line(pos[j])]
<1>10. \A j \in 1..Len(tr) : q[j] = line(pos[j])
  OBVIOUS
<1>11. q = [j \in 1..Len(tr) |-> q[j]]
  OBVIOUS
<1> HIDE DEF line, q
<1>12. \A k \in 1..n : line(k) \in Nat /\ low <= line(k) /\ line(k) <= high
  <2> SUFFICES ASSUME NEW k \in 1..n
               PROVE  line(k) \in Nat /\ low <= line(k) /\ line(k) <= high
    OBVIOUS
  <2>1. 1 \in 1..n /\ n \in 1..n
    BY <1>3
  <2>2. line(1) \in Nat /\ line(k) \in Nat /\ line(n) \in Nat
    BY <1>4, <2>1
  <2>3. (k = 1 \/ 1 < k) /\ (k = n \/ k < n)
    BY <1>3
  <2>4. QED
    BY <1>5, <2>1, <2>2, <2>3
<1>13. low \in Nat /\ high \in Nat
  BY <1>3, <1>12
<1>14. q \in [1..Len(tr) -> Nat] /\ r \in [1..Len(all) -> Nat]
  <2>1. \A j \in 1..Len(tr) : q[j] \in Nat
    BY <1>7, <1>10, <1>12
  <2>2. QED
    BY <1>8, <1>11, <2>1
<1>15. Ascends(q)
  <2>1. \A j, k \in 1..Len(tr) : j < k => pos[j] < pos[k]
    BY <1>7 DEF Ascends
  <2>2. ASSUME NEW j \in 1..Len(tr), NEW k \in 1..Len(tr), j < k PROVE q[j] < q[k]
    <3>1. pos[j] \in 1..n /\ pos[k] \in 1..n /\ pos[j] < pos[k]
      BY <2>1, <2>2
    <3>2. line(pos[j]) < line(pos[k])
      BY <1>5, <3>1
    <3>3. QED
      BY <1>10, <3>2
  <2>3. QED
    BY <1>14, <2>2 DEF Ascends
<1>16. ASSUME NEW x
       PROVE  (\E j \in 1..Len(tr) : q[j] = x)
                <=> x \in low..high /\ \E j \in 1..Len(all) : r[j] = x
  <2>1. ASSUME NEW j \in 1..Len(tr), q[j] = x PROVE x \in low..high /\ x \in EventLines(b)
    <3>1. pos[j] \in 1..n /\ x = line(pos[j]) /\ EventId(x) # NoEvent
      BY <1>7, <1>10, <2>1
    <3>2. QED
      BY <1>4, <1>12, <1>13, <3>1 DEF EventLines
  <2>2. ASSUME x \in low..high, x \in EventLines(b) PROVE \E j \in 1..Len(tr) : q[j] = x
    <3>1. /\ x \in 1..NumLines /\ PassesChecks(x) /\ Lines[x].block = b /\ EventId(x) # NoEvent
          /\ low <= x /\ x <= high
      BY <1>13, <2>2 DEF EventLines
    <3>2. PICK k \in 1..n : line(k) = x
      BY <1>6, <3>1
    <3>3. PICK j \in 1..Len(tr) : pos[j] = k
      BY <1>7, <3>1, <3>2
    <3>4. QED
      BY <1>10, <3>2, <3>3
  <2>3. QED
    BY <1>8, <2>1, <2>2
<1>17. PICK d \in Nat : d + Len(tr) <= Len(all) /\ \A j \in 1..Len(tr) : q[j] = r[d + j]
  <2>1. CutFrom(q, Len(tr), r, Len(all), low, high)
    BY <1>8, <1>9, <1>13, <1>14, <1>15, <1>16 DEF CutFrom
  <2> HIDE DEF low, high
  <2>2. \E d : PieceAt(q, Len(tr), r, Len(all), d)
    BY <2>1, PieceOf
  <2>3. QED
    BY <2>2 DEF PieceAt
<1>18. ASSUME NEW j \in 1..Len(tr) PROVE tr[j] = all[d + j]
  <2>1. d + j \in 1..Len(all)
    BY <1>9, <1>17
  <2>2. all[d + j] = EventId(r[d + j]) /\ tr[j] = EventId(q[j])
    BY <1>7, <1>8, <1>10, <2>1
  <2>3. QED
    BY <1>17, <2>2
<1>19. QED
  BY <1>2, <1>17, <1>18

\* The n-grams of a piece are n-grams of the whole.
LEMMA NgramsOfPiece ==
  ASSUME NEW t, NEW a, NEW d \in Nat, Len(t) \in Nat, Len(a) \in Nat, d + Len(t) <= Len(a),
         \A j \in 1..Len(t) : t[j] = a[d + j]
  PROVE  D!Ngrams(t) \subseteq D!Ngrams(a)
<1> SUFFICES ASSUME NEW g \in D!Ngrams(t) PROVE g \in D!Ngrams(a)
  OBVIOUS
<1>1. N \in Nat \ {0}
  BY DetectorAssumption DEF D!Ngrams
<1>2. PICK m, k : m = Len(t) /\ k = Len(a) /\ m \in Nat /\ k \in Nat /\ d + m <= k
  OBVIOUS
<1>3. PICK i \in 1..(m - N + 1) : g = [j \in 1..N |-> t[i + j - 1]]
  BY <1>1, <1>2 DEF D!Ngrams
<1>4. d + i \in 1..(k - N + 1)
  BY <1>1, <1>2, <1>3
<1>5. ASSUME NEW j \in 1..N PROVE t[i + j - 1] = a[(d + i) + j - 1]
  <2>1. i + j - 1 \in 1..m /\ d + (i + j - 1) = (d + i) + j - 1
    BY <1>1, <1>2, <1>3
  <2>2. QED
    BY <1>2, <2>1
<1>6. g = [j \in 1..N |-> a[(d + i) + j - 1]]
  BY <1>3, <1>5
<1>7. QED
  BY <1>1, <1>2, <1>4, <1>6 DEF D!Ngrams

LEMMA SameSize == \A T : D!Cardinality(T) = Cardinality(T)
BY DEF D!Cardinality, Cardinality, D!IsFiniteSet, IsFiniteSet

\* The detector fires only on something novel, and at a threshold of zero always then.
LEMMA FiresOnNovel ==
  ASSUME NEW t, Len(t) \in Nat
  PROVE  /\ D!Fires(t) => D!Novel(t) # {}
         /\ ThresholdNum = 0 /\ D!Novel(t) # {} => D!Fires(t)
<1> DEFINE last == Len(t) - N + 1
           grams == D!Ngrams(t)
           novel == D!Novel(t)
           gram(i) == [j \in 1..N |-> t[i + j - 1]]
<1>1. /\ N \in Int /\ ThresholdNum \in Nat /\ ThresholdDen \in Nat \ {0} /\ last \in Int
  BY DetectorAssumption
<1>2. IsFiniteSet(1..last)
  BY <1>1, FS_Interval
<1>3. grams \in {{}, {gram(i) : i \in 1..last}}
  BY DEF D!Ngrams
<1> HIDE DEF gram, last
<1>4. IsFiniteSet(grams)
  <2> HIDE DEF grams
  <2>1. IsFiniteSet({gram(i) : i \in 1..last})
    <3> DEFINE f == [i \in 1..last |-> gram(i)]
               T == {gram(i) : i \in 1..last}
    <3>1. f \in Surjection(1..last, T)
      BY DEF Surjection
    <3>2. QED
      BY <1>2, <3>1, FS_Surjection
  <2>2. QED
    BY <1>3, <2>1, FS_EmptySet
<1>5. novel \subseteq grams
  BY DEF D!Novel
<1> HIDE DEF grams, novel
<1>6. /\ IsFiniteSet(novel) /\ Cardinality(novel) \in Nat /\ Cardinality(grams) \in Nat
      /\ novel = {} <=> Cardinality(novel) = 0
  BY <1>4, <1>5, FS_Subset, FS_CardinalityType, FS_EmptySet
<1>7. D!Fires(t) <=> grams # {} /\ Cardinality(novel) * ThresholdDen > ThresholdNum * Cardinality(grams)
  BY SameSize DEF D!Fires, grams, novel
<1>8. PICK x \in Nat, y \in Nat : x = Cardinality(novel) /\ y = Cardinality(grams)
  BY <1>6
<1>9. ASSUME D!Fires(t) PROVE novel # {}
  <2>1. x * ThresholdDen > ThresholdNum * y
    BY <1>7, <1>8, <1>9
  <2>2. ThresholdNum * y >= 0
    BY <1>1
  <2>3. x # 0
    BY <1>1, <2>1, <2>2
  <2>4. QED
    BY <1>6, <1>8, <2>3
<1>10. ASSUME ThresholdNum = 0, novel # {} PROVE D!Fires(t)
  <2>1. x # 0
    BY <1>6, <1>8, <1>10
  <2>2. x * ThresholdDen > 0 * y
    BY <1>1, <2>1
  <2>3. QED
    BY <1>5, <1>7, <1>8, <1>10, <2>2
<1>11. QED
  BY <1>9, <1>10 DEF novel

\* The alarms are those of the traces the detector has dealt with, and perhaps of the
\* one at which it was cancelled.
AlarmsKept ==
  /\ \A a \in alarms : a.trace \in DOMAIN emitted /\ D!Fires(emitted[a.trace].events)
  /\ \A i \in Range(delivered[Detector]) :
       D!Fires(emitted[i].events) => \E a \in alarms : a.trace = i

LEMMA AlarmsFrame ==
  ASSUME SP!Inv, AlarmsKept, UNCHANGED <<alarms, delivered>>,
         emitted' = emitted \/ \E e : emitted' = Append(emitted, e)
  PROVE  AlarmsKept'
<1>1. emitted \in Seq(SP!ClosedTrace)
  BY DEF SP!Inv, SP!Typed
<1>2. \A i \in DOMAIN emitted : i \in DOMAIN emitted' /\ emitted'[i] = emitted[i]
  <2>1. PICK s \in Seq(SP!ClosedTrace) : s = emitted
    BY <1>1
  <2>2. Len(s) \in Nat /\ DOMAIN s = 1..Len(s)
    OBVIOUS
  <2>3. ASSUME NEW e
        PROVE  \A i \in DOMAIN s : i \in DOMAIN Append(s, e) /\ Append(s, e)[i] = s[i]
    <3>1. s \in Seq(SP!ClosedTrace \cup {e}) /\ e \in SP!ClosedTrace \cup {e}
      BY SeqMonotonic
    <3>2. /\ DOMAIN Append(s, e) = 1..(Len(s) + 1)
          /\ \A i \in 1..Len(s) : Append(s, e)[i] = s[i]
      BY <3>1
    <3>3. QED
      BY <2>2, <3>2
  <2>4. QED
    BY <2>1, <2>3
<1>3. \A i \in Range(delivered[Detector]) : i \in DOMAIN emitted
  <2>1. DOMAIN emitted = 1..Len(emitted)
    BY <1>1
  <2>2. QED
    BY <2>1 DEF SP!Inv, SP!DeliveredOnce, Range
<1>4. \A i \in DOMAIN emitted : D!Fires(emitted'[i].events) = D!Fires(emitted[i].events)
  BY <1>2
<1>5. /\ \A a \in alarms' : a.trace \in DOMAIN emitted' /\ D!Fires(emitted'[a.trace].events)
      /\ \A i \in Range(delivered'[Detector]) :
           D!Fires(emitted'[i].events) => \E a \in alarms' : a.trace = i
  BY <1>2, <1>3, <1>4 DEF AlarmsKept
<1>6. QED
  BY <1>5 DEF AlarmsKept, D!Fires, D!Novel, D!Ngrams

\* The trace that is being published may get its alarm.
LEMMA AlarmsAdded ==
  ASSUME SP!Inv, AlarmsKept, UNCHANGED emitted, emitted # <<>>, alarms \subseteq alarms',
         \A a \in alarms' \ alarms : a.trace = Len(emitted) /\ DetectorFires,
         \A i \in Range(delivered'[Detector]) :
           \/ i \in Range(delivered[Detector])
           \/ i = Len(emitted) /\ (DetectorFires => \E a \in alarms' : a.trace = i)
  PROVE  AlarmsKept'
<1>1. emitted \in Seq(SP!ClosedTrace)
  BY DEF SP!Inv, SP!Typed
<1>2. Len(emitted) \in DOMAIN emitted /\ Last(emitted) = emitted[Len(emitted)]
  <2>1. Len(emitted) \in Nat /\ Len(emitted) # 0 /\ DOMAIN emitted = 1..Len(emitted)
    BY <1>1
  <2>2. QED
    BY <2>1 DEF Last
<1>3. DetectorFires <=> D!Fires(emitted[Len(emitted)].events)
  BY <1>2 DEF DetectorFires
<1>4. /\ \A a \in alarms' : a.trace \in DOMAIN emitted' /\ D!Fires(emitted'[a.trace].events)
      /\ \A i \in Range(delivered'[Detector]) :
           D!Fires(emitted'[i].events) => \E a \in alarms' : a.trace = i
  BY <1>2, <1>3 DEF AlarmsKept
<1>5. QED
  BY <1>4 DEF AlarmsKept, D!Fires, D!Novel, D!Ngrams

\* A task that publishes has published something.
LEMMA PublishesTrace ==
  ASSUME SP!Inv, NEW t \in SP!Tasks, calls[t] # {} \/ spc[t] = "publish"
  PROVE  emitted # <<>>
BY DEF SP!Inv, SP!Queued

LEMMA CancelledHandlerKeeps ==
  ASSUME SP!Inv, AlarmsKept, NEW t \in SP!Tasks, CancelledHandler(t),
         UNCHANGED <<emitted, delivered>>
  PROVE  AlarmsKept'
<1>1. CASE UNCHANGED alarms
  BY <1>1, AlarmsFrame
<1>2. CASE calls[t] # {} /\ DetectorFires
  <2>1. PICK saved \in BOOLEAN : alarms' = alarms \cup {Alarm(saved)}
    BY <1>2 DEF CancelledHandler
  <2>2. \A a \in alarms' \ alarms : a.trace = Len(emitted)
    BY <2>1 DEF Alarm
  <2>3. emitted # <<>>
    BY <1>2, PublishesTrace
  <2>4. QED
    BY <1>2, <2>1, <2>2, <2>3, AlarmsAdded
<1>3. QED
  BY <1>1, <1>2 DEF CancelledHandler

LEMMA AlarmsKeptStep ==
  ASSUME SP!Inv, AlarmsKept, [PipelineNext]_pipelineVars
  PROVE  AlarmsKept'
<1>1. Workers \subseteq SP!Tasks /\ Janitor \in SP!Tasks /\ Main \in SP!Tasks
  BY DEF SP!Tasks
<1>2. ASSUME UNCHANGED <<alarms, delivered, emitted>> PROVE AlarmsKept'
  BY <1>2, AlarmsFrame
<1>3. ASSUME NEW w \in Workers, ConsumerStep(w) PROVE AlarmsKept'
  <2>1. \A s, l : Enter(w, s, l) => UNCHANGED <<delivered, emitted>>
    BY DEF Enter, S!Arrive, sessionizerVars
  <2>2. CASE TakeLine(w) \/ AnomalySaved(w) \/ AnomalyFails(w)
    <3>1. UNCHANGED alarms /\ \E s, l : Enter(w, s, l)
      BY <2>2 DEF TakeLine, AnomalySaved, AnomalyFails
    <3>2. QED
      BY <1>2, <2>1, <3>1
  <2>3. CASE AttachRecord(w)
    <3>1. /\ UNCHANGED <<alarms, delivered>>
          /\ emitted' = emitted \/ \E e : emitted' = Append(emitted, e)
      BY <2>3 DEF AttachRecord, S!Attach, S!AttachAndCap, S!AttachAndEvict, S!Emit
    <3>2. QED
      BY <3>1, AlarmsFrame
  <2>4. CASE LeaveSessionizer(w) \/ FinishRecord(w) \/ RefuseRecord(w) \/ BatchSaved(w)
    BY <1>2, <2>4 DEF LeaveSessionizer, FinishRecord, RefuseRecord, BatchSaved,
                      S!ProcessReturns, sessionizerVars
  <2>5. CASE ConsumerCancelled(w)
    <3>1. CASE S!ConsumerCancelled(w) /\ CancelledHandler(w)
      <4>1. UNCHANGED <<emitted, delivered>>
        BY <3>1 DEF S!ConsumerCancelled
      <4>2. QED
        BY <1>1, <3>1, <4>1, CancelledHandlerKeeps
    <3>2. CASE UNCHANGED <<sessionizerVars, alarms>>
      BY <1>2, <3>2 DEF sessionizerVars
    <3>3. QED
      BY <2>5, <3>1, <3>2 DEF ConsumerCancelled
  <2>6. QED
    BY <1>3, <2>2, <2>3, <2>4, <2>5 DEF ConsumerStep
<1>4. CASE ExecutorStep \/ WindDown \/ StopSessionizer
  BY <1>2, <1>4 DEF ExecutorStep, WindDown, StopSessionizer, S!Interrupt, S!Stop, sessionizerVars
<1>5. CASE FlushTraces \/ JanitorWorks
  <2>1. /\ UNCHANGED <<alarms, delivered>>
        /\ emitted' = emitted \/ \E e : emitted' = Append(emitted, e)
    BY <1>5 DEF FlushTraces, JanitorWorks, S!FlushNext, S!JanitorWakes, S!JanitorPass,
                S!JanitorGoesOn, S!CloseNext, S!PassEnds, S!Emit
  <2>2. QED
    BY <2>1, AlarmsFrame
<1>6. CASE InterruptStop
  <2>1. UNCHANGED <<emitted, delivered>> /\ CancelledHandler(Main)
    BY <1>6 DEF InterruptStop, S!InterruptFlush
  <2>2. QED
    BY <1>1, <2>1, CancelledHandlerKeeps
<1>7. CASE JanitorStops
  <2>1. UNCHANGED <<emitted, delivered>> /\ CancelledHandler(Janitor)
    BY <1>7 DEF JanitorStops, S!JanitorCancelled
  <2>2. QED
    BY <1>1, <2>1, CancelledHandlerKeeps
<1>8. ASSUME NEW t \in S!Tasks, TraceHandled(t) PROVE AlarmsKept'
  <2>1. /\ spc[t] = "publish" /\ UNCHANGED emitted
        /\ delivered' = [delivered EXCEPT ![Detector] = Append(@, Len(emitted))]
    BY <1>8 DEF TraceHandled, S!HandlerEnds
  <2>2. emitted # <<>>
    BY <2>1, PublishesTrace DEF S!Tasks, SP!Tasks
  <2>3. /\ alarms \subseteq alarms'
        /\ \A a \in alarms' \ alarms : a.trace = Len(emitted) /\ DetectorFires
        /\ DetectorFires => \E a \in alarms' : a.trace = Len(emitted)
    <3>1. CASE DetectorFires
      <4>1. PICK saved \in BOOLEAN : alarms' = alarms \cup {Alarm(saved)}
        BY <1>8, <3>1 DEF TraceHandled
      <4>2. Alarm(saved).trace = Len(emitted)
        BY DEF Alarm
      <4>3. QED
        BY <3>1, <4>1, <4>2
    <3>2. CASE ~DetectorFires
      BY <1>8, <3>2 DEF TraceHandled
    <3>3. QED
      BY <3>1, <3>2
  <2>4. \A i \in Range(delivered'[Detector]) : i \in Range(delivered[Detector]) \/ i = Len(emitted)
    <3>1. delivered \in [{Detector} -> Seq(Nat)]
      BY DEF SP!Inv, SP!DeliveredOnce
    <3>2. PICK s \in Seq(Nat) : s = delivered[Detector]
      BY <3>1
    <3>3. delivered'[Detector] = Append(s, Len(emitted))
      BY <2>1, <3>1, <3>2
    <3>4. PICK e \in Nat : e = Len(emitted)
      <4>1. emitted \in Seq(SP!ClosedTrace)
        BY DEF SP!Inv, SP!Typed
      <4>2. QED
        BY <4>1
    <3>5. Range(Append(s, e)) = Range(s) \cup {e}
      BY AppendProperties DEF Range
    <3>6. QED
      BY <3>2, <3>3, <3>4, <3>5
  <2>5. QED
    BY <2>1, <2>2, <2>3, <2>4, AlarmsAdded
<1>9. CASE UNCHANGED pipelineVars
  BY <1>2, <1>9 DEF pipelineVars, sessionizerVars
<1>10. QED
  BY <1>3, <1>4, <1>5, <1>6, <1>7, <1>8, <1>9 DEF PipelineNext

LEMMA AlarmsAreRight ==
  ASSUME SP!Inv, SP!InNumberOrder(SP!LastAttached, SP!Current, SP!ClosedTraces), SP!NoGaps,
         GivenInOrder, Taken \in Nat, AlarmsKept
  PROVE  AlarmsRight
<1>1. ASSUME NEW a \in alarms
      PROVE  D!Novel(emitted[a.trace].events)
               \cap D!Ngrams(EventsOf(emitted[a.trace].block)) # {}
  <2>1. PICK i \in DOMAIN emitted : i = a.trace /\ D!Fires(emitted[i].events)
    BY DEF AlarmsKept
  <2>2. PICK t, all : t = emitted[i].events /\ all = EventsOf(emitted[i].block)
    OBVIOUS
  <2>3. Len(t) \in Nat /\ Len(all) \in Nat
    BY <2>2, EventsOfTrace, EventsOfLines
  <2>4. D!Ngrams(t) \subseteq D!Ngrams(all)
    <3>1. PICK d \in Nat : d + Len(t) <= Len(all) /\ \A j \in 1..Len(t) : t[j] = all[d + j]
      BY <2>2, PieceOfBlock
    <3>2. QED
      BY <2>3, <3>1, NgramsOfPiece
  <2>5. D!Novel(t) # {}
    BY <2>1, <2>2, <2>3, FiresOnNovel
  <2>6. D!Novel(t) \subseteq D!Ngrams(t)
    BY DEF D!Novel
  <2>7. D!Novel(t) \cap D!Ngrams(all) # {}
    BY <2>4, <2>5, <2>6
  <2>8. QED
    BY <2>1, <2>2, <2>7
<1>2. ASSUME ThresholdNum = 0, NEW i \in Range(delivered[Detector]),
             Len(emitted[i].events) = Len(EventsOf(emitted[i].block)),
             D!Novel(EventsOf(emitted[i].block)) # {}
      PROVE  \E a \in alarms : a.trace = i
  <2>1. i \in DOMAIN emitted
    <3>1. emitted \in Seq(SP!ClosedTrace)
      BY DEF SP!Inv, SP!Typed
    <3>2. DOMAIN emitted = 1..Len(emitted)
      BY <3>1
    <3>3. QED
      BY <3>2 DEF SP!Inv, SP!DeliveredOnce, Range
  <2>2. PICK t, all : t = emitted[i].events /\ all = EventsOf(emitted[i].block)
    OBVIOUS
  <2>3. Len(t) \in Nat /\ Len(all) \in Nat /\ Len(t) = Len(all)
    BY <1>2, <2>1, <2>2, EventsOfTrace, EventsOfLines
  <2>4. PICK d \in Nat : d + Len(t) <= Len(all) /\ \A j \in 1..Len(t) : t[j] = all[d + j]
    BY <2>1, <2>2, PieceOfBlock
  <2>5. d = 0
    BY <2>3, <2>4
  <2>6. \A j \in 1..Len(all) : all[j] = t[0 + j]
    BY <2>3, <2>4, <2>5
  <2>7. D!Ngrams(all) \subseteq D!Ngrams(t)
    <3>1. PICK zero \in Nat : zero = 0
      OBVIOUS
    <3>2. zero + Len(all) <= Len(t) /\ \A j \in 1..Len(all) : all[j] = t[zero + j]
      BY <2>3, <2>6, <3>1
    <3>3. QED
      BY <2>3, <3>2, NgramsOfPiece
  <2>8. D!Novel(t) # {}
    BY <1>2, <2>2, <2>7 DEF D!Novel
  <2>9. D!Fires(t)
    BY <1>2, <2>3, <2>8, FiresOnNovel
  <2>10. QED
    BY <2>2, <2>9 DEF AlarmsKept
<1>3. QED
  BY <1>1, <1>2 DEF AlarmsRight

\* Wherever traces are cut and however consumers interleave, the sequence detector
\* fires only on a trace with a novel n-gram that its block has in the log, and at a
\* threshold of zero on every trace it has dealt with that holds all its block's
\* events, if one of their n-grams is novel (SequenceDetector.detect_trace, called by
\* the bus with what BlockSessionizer closes).
THEOREM AlarmsRightAlways == PipelineSpec => []AlarmsRight
<1>1. PipelineInit => AlarmsKept
  BY DEF PipelineInit, S!Init, AlarmsKept, Range
<1>2. SP!Inv /\ AlarmsKept /\ [PipelineNext]_pipelineVars => AlarmsKept'
  BY AlarmsKeptStep
<1>3. SafeInv => Taken \in Nat
  BY DEF SafeInv, Places, QueueInOrder
<1>4. QED
  BY <1>1, <1>2, <1>3, SessionizerFacts, GivenInOrderAlways, AlarmsAreRight, SafeInvAlways,
     PipelineImplementsExecutor, PTL DEF PipelineSpec

===============================================================================
