------------------------- MODULE PipelineExecutorProofs -------------------------
(***************************************************************************)
(* Proofs about PipelineExecutor, for any number of lines and consumers,   *)
(* any queue and batch size and any environment (failing saves, a source   *)
(* that raises, an interrupt).                                             *)
(*                                                                         *)
(* TypeOK is not inductive alone: that task_done keeps unfinished a        *)
(* natural number rests on JoinCounts, and that a dropped record is a      *)
(* record rests on the consumer's place in its loop (Control).             *)
(***************************************************************************)
EXTENDS PipelineExecutor, FiniteSetTheorems, TLAPS

\* Where each task is, against what it has in hand.
Control ==
  /\ pc[Producer] = "put" => enqueued < NumLines
  /\ \A w \in Workers : pc[w] \in {"stage", "save"} <=> held[w] # NoRecord
  /\ \A w \in Workers : pc[w] = "exit" => shutdown
  /\ \A w \in Workers : pc[w] # "save" => batch[w] = {}
  /\ \A w \in Workers : pc[w] = "save" => held[w] \in batch[w]
  /\ pc[Flusher] # "save" => batch[Flusher] = {}
  /\ pc[Main] # "final_save" => batch[Main] = {}
  /\ shutdown <=> pc[Main] \notin {"await_producer", "join"}

TypeInv == TypeOK /\ Control /\ JoinCounts

-------------------------------------------------------------------------------

LEMMA BusyIsFinite == PcOK => IsFiniteSet(Busy) /\ Cardinality(Busy) \in Nat
BY ConstantsAssumption, FS_Subset, FS_CardinalityType DEF Busy

\* A consumer that takes a record joins the busy ones.
LEMMA BusyGrows ==
  ASSUME PcOK, NEW w \in Workers, pc[w] = "get",
         NEW l \in {"stage", "save"}, Goto(w, l)
  PROVE  Cardinality(Busy') = Cardinality(Busy) + 1
<1>1. Busy' = Busy \cup {w}
  BY DEF Busy, Goto, PcOK, Tasks
<1>2. w \notin Busy
  BY DEF Busy
<1>3. QED
  BY <1>1, <1>2, BusyIsFinite, FS_AddElement

\* A consumer that calls task_done leaves them.
LEMMA BusyShrinks ==
  ASSUME PcOK, NEW w \in Workers, pc[w] \in {"stage", "save"},
         NEW l \in {"get", "exit"}, Goto(w, l)
  PROVE  /\ Cardinality(Busy') = Cardinality(Busy) - 1
         /\ Cardinality(Busy) > 0
<1>1. Busy' = Busy \ {w}
  BY DEF Busy, Goto, PcOK, Tasks
<1>2. w \in Busy
  BY DEF Busy
<1>3. Cardinality(Busy') = Cardinality(Busy) - 1
  BY <1>1, <1>2, BusyIsFinite, FS_RemoveElement
<1>4. Cardinality(Busy) # 0
  BY <1>2, BusyIsFinite, FS_EmptySet
<1>5. QED
  BY <1>3, <1>4, BusyIsFinite

LEMMA TypeInvInit == Init => TypeInv
<1> SUFFICES ASSUME Init PROVE TypeInv
  OBVIOUS
<1>1. PcOK
  BY TasksAssumption
     DEF Init, PcOK, Tasks, WorkerLabels, ProducerLabels, FlusherLabels, MainLabels
<1>2. TypeOK
  <2>1. queue \in Seq(Records) /\ Len(queue) <= QueueSize
    BY ConstantsAssumption DEF Init
  <2>2. held \in [Workers -> Records \cup {NoRecord}]
    BY DEF Init
  <2>3. batch \in [Savers -> SUBSET Records]
    BY DEF Init
  <2>4. enqueued \in 0..NumLines /\ unfinished \in Nat /\ failed \in Nat
    BY ConstantsAssumption DEF Init
  <2>5. shutdown \in BOOLEAN /\ interrupted \in BOOLEAN
    BY DEF Init
  <2>6. /\ processed \in Int
        /\ buffer \in SUBSET Records
        /\ stored \in SUBSET Records
        /\ dropped \in SUBSET Records
    BY DEF Init
  <2>7. QED
    BY <1>1, <2>1, <2>2, <2>3, <2>4, <2>5, <2>6 DEF TypeOK
<1>3. Control
  BY TasksAssumption DEF Init, Control, Tasks, Savers, NoRecord
<1>4. Busy = {}
  BY TasksAssumption DEF Init, Busy, Tasks
<1>5. JoinCounts
  BY <1>4, FS_EmptySet DEF Init, JoinCounts
<1>6. QED
  BY <1>2, <1>3, <1>5 DEF TypeInv

-------------------------------------------------------------------------------

\* What a consumer's task_done does to the counts, whatever else it does.
LEMMA TaskDoneCounts ==
  ASSUME TypeInv, NEW w \in Workers, pc[w] \in {"stage", "save"},
         NEW l \in {"get", "exit"}, TaskDone(w, l)
  PROVE  /\ unfinished' \in Nat
         /\ unfinished' = Len(queue) + Cardinality(Busy')
<1>1. /\ Cardinality(Busy') = Cardinality(Busy) - 1
      /\ Cardinality(Busy) > 0
  BY BusyShrinks DEF TypeInv, TypeOK, TaskDone
<1>2. Cardinality(Busy) \in Nat /\ Len(queue) \in Nat
  BY BusyIsFinite DEF TypeInv, TypeOK
<1>3. unfinished' = unfinished - 1 /\ unfinished = Len(queue) + Cardinality(Busy)
  BY DEF TaskDone, TypeInv, JoinCounts
<1>4. QED
  BY <1>1, <1>2, <1>3


\* What the tasks have in hand fits where they are, after every step.
LEMMA ControlStep == TypeInv /\ [Next]_vars => Control'
<1> SUFFICES ASSUME TypeInv, [Next]_vars PROVE Control'
  OBVIOUS
<1> USE TasksAssumption DEF TypeInv, TypeOK, PcOK, Tasks, Savers, Control, Goto
<1>1. CASE ProducerPull
  BY <1>1 DEF ProducerPull
<1>2. CASE ProducerPut
  BY <1>2 DEF ProducerPut, QueueHasRoom
<1>3. CASE ProducerEnds
  BY <1>3 DEF ProducerEnds
<1>4. CASE SourceFails
  BY <1>4 DEF SourceFails
<1>5. ASSUME NEW w \in Workers, WorkerGet(w) PROVE Control'
  <2>1. Head(queue) \in Records
    BY <1>5 DEF WorkerGet
  <2>2. QED
    BY <1>5, <2>1 DEF WorkerGet, NoRecord, Records
<1>6. ASSUME NEW w \in Workers, StageFails(w) PROVE Control'
  BY <1>6 DEF StageFails, TaskDone
<1>7. ASSUME NEW w \in Workers, BufferRecord(w) PROVE Control'
  BY <1>7 DEF BufferRecord, BatchIsFull, TaskDone
<1>8. ASSUME NEW w \in Workers, FillBatch(w) PROVE Control'
  BY <1>8 DEF FillBatch, SwapBuffer, BatchIsFull, WithHeld
<1>9. ASSUME NEW w \in Workers, WorkerSaved(w) PROVE Control'
  BY <1>9 DEF WorkerSaved, TaskDone, SaveOk, SaveRejected, Uncount, NoRecord
<1>10. ASSUME NEW w \in Workers, WorkerSaveRaises(w) PROVE Control'
  BY <1>10 DEF WorkerSaveRaises, TaskDone
<1>11. ASSUME NEW w \in Workers, WorkerCancelled(w) PROVE Control'
  BY <1>11 DEF WorkerCancelled, TaskDone, CancelledSave
<1>12. CASE FlusherWakes
  BY <1>12 DEF FlusherWakes, NothingToFlush, SwapBuffer
<1>13. CASE FlusherSaved
  BY <1>13 DEF FlusherSaved, SaveOk, SaveRejected, Uncount
<1>14. CASE FlusherDies
  BY <1>14 DEF FlusherDies
<1>15. CASE FlusherCancelled
  BY <1>15 DEF FlusherCancelled, CancelledSave
<1>16. CASE MainJoins
  BY <1>16 DEF MainJoins
<1>17. CASE MainWindsDown
  BY <1>17 DEF MainWindsDown, Joined
<1>18. CASE MainGathered
  BY <1>18 DEF MainGathered, NothingToFlush, SwapBuffer, RunEnds
<1>19. CASE MainSaved
  BY <1>19 DEF MainSaved, SaveOk, SaveRejected, Uncount, RunEnds
<1>20. CASE MainSaveRaises
  BY <1>20 DEF MainSaveRaises
<1>21. CASE MainGatherCancelled
  BY <1>21 DEF MainGatherCancelled
<1>22. CASE Interrupt
  BY <1>22 DEF Interrupt, ProducerCancelled, CancelledSave
<1>23. CASE UNCHANGED vars
  BY <1>23 DEF vars
<1>24. QED
  BY <1>1, <1>2, <1>3, <1>4, <1>5, <1>6, <1>7, <1>8, <1>9, <1>10, <1>11, <1>12,
     <1>13, <1>14, <1>15, <1>16, <1>17, <1>18, <1>19, <1>20, <1>21, <1>22, <1>23
  DEF Next, ProducerStep, WorkerStep, FlusherStep, MainStep, Terminated

\* A step that moves no consumer and leaves the queue alone keeps the counts.
LEMMA QuietStep ==
  ASSUME PcOK, JoinCounts, unfinished \in Nat,
         UNCHANGED <<queue, unfinished>>, \A w \in Workers : pc'[w] = pc[w]
  PROVE  JoinCounts' /\ unfinished' \in Nat
<1>1. Busy' = Busy
  BY DEF Busy
<1>2. QED
  BY <1>1 DEF JoinCounts

\* The queue's unfinished count stays exact after every step.
LEMMA CountsStep == TypeInv /\ [Next]_vars => JoinCounts' /\ unfinished' \in Nat
<1> SUFFICES ASSUME TypeInv, [Next]_vars PROVE JoinCounts' /\ unfinished' \in Nat
  OBVIOUS
<1>a. PcOK /\ JoinCounts /\ unfinished \in Nat
  BY DEF TypeInv, TypeOK
<1>b. Cardinality(Busy) \in Nat /\ Len(queue) \in Nat
  BY BusyIsFinite DEF TypeInv, TypeOK
<1> USE <1>a, <1>b
<1>1. CASE ProducerPull
  BY <1>1, QuietStep, TasksAssumption DEF ProducerPull, Goto, PcOK, Tasks
<1>2. CASE ProducerPut
  <2>1. Busy' = Busy
    BY <1>2, TasksAssumption DEF ProducerPut, QueueHasRoom, Goto, PcOK, Tasks, Busy
  <2>2. Len(queue') = Len(queue) + 1
    BY <1>2 DEF ProducerPut, QueueHasRoom, TypeOK
  <2>3. QED
    BY <1>2, <2>1, <2>2 DEF ProducerPut, QueueHasRoom, JoinCounts
<1>3. CASE ProducerEnds
  BY <1>3, QuietStep, TasksAssumption DEF ProducerEnds, Goto, PcOK, Tasks
<1>4. CASE SourceFails
  BY <1>4, QuietStep, TasksAssumption DEF SourceFails, Goto, PcOK, Tasks
<1>5. ASSUME NEW w \in Workers, WorkerGet(w) PROVE JoinCounts' /\ unfinished' \in Nat
  <2>1. Cardinality(Busy') = Cardinality(Busy) + 1
    BY <1>5, BusyGrows DEF WorkerGet
  <2>2. Len(queue') = Len(queue) - 1
    BY <1>5 DEF WorkerGet, TypeOK
  <2>3. QED
    BY <1>5, <2>1, <2>2 DEF WorkerGet, JoinCounts
<1>6. ASSUME NEW w \in Workers, StageFails(w) PROVE JoinCounts' /\ unfinished' \in Nat
  BY <1>6, TaskDoneCounts DEF StageFails, JoinCounts
<1>7. ASSUME NEW w \in Workers, BufferRecord(w) PROVE JoinCounts' /\ unfinished' \in Nat
  BY <1>7, TaskDoneCounts DEF BufferRecord, BatchIsFull, JoinCounts
<1>8. ASSUME NEW w \in Workers, FillBatch(w) PROVE JoinCounts' /\ unfinished' \in Nat
  <2>1. Busy' = Busy
    BY <1>8 DEF FillBatch, SwapBuffer, BatchIsFull, Goto, PcOK, Tasks, Busy
  <2>2. QED
    BY <1>8, <2>1 DEF FillBatch, SwapBuffer, BatchIsFull, JoinCounts
<1>9. ASSUME NEW w \in Workers, WorkerSaved(w) PROVE JoinCounts' /\ unfinished' \in Nat
  BY <1>9, TaskDoneCounts DEF WorkerSaved, JoinCounts
<1>10. ASSUME NEW w \in Workers, WorkerSaveRaises(w) PROVE JoinCounts' /\ unfinished' \in Nat
  BY <1>10, TaskDoneCounts DEF WorkerSaveRaises, JoinCounts
<1>11. ASSUME NEW w \in Workers, WorkerCancelled(w) PROVE JoinCounts' /\ unfinished' \in Nat
  <2>1. CASE pc[w] = "get"
    <3>1. Busy' = Busy
      BY <1>11, <2>1 DEF WorkerCancelled, Goto, PcOK, Tasks, Busy
    <3>2. QED
      BY <1>11, <2>1, <3>1 DEF WorkerCancelled, JoinCounts
  <2>2. CASE pc[w] \in {"stage", "save"}
    BY <1>11, <2>2, TaskDoneCounts DEF WorkerCancelled, JoinCounts
  <2>3. QED
    BY <1>11, <2>1, <2>2 DEF WorkerCancelled
<1>12. CASE FlusherWakes
  BY <1>12, QuietStep, TasksAssumption DEF FlusherWakes, NothingToFlush, SwapBuffer, Goto, PcOK, Tasks
<1>13. CASE FlusherSaved
  BY <1>13, QuietStep, TasksAssumption DEF FlusherSaved, Goto, PcOK, Tasks
<1>14. CASE FlusherDies
  BY <1>14, QuietStep, TasksAssumption DEF FlusherDies, Goto, PcOK, Tasks
<1>15. CASE FlusherCancelled
  BY <1>15, QuietStep, TasksAssumption DEF FlusherCancelled, Goto, PcOK, Tasks
<1>16. CASE MainJoins
  BY <1>16, QuietStep, TasksAssumption DEF MainJoins, Goto, PcOK, Tasks
<1>17. CASE MainWindsDown
  BY <1>17, QuietStep, TasksAssumption DEF MainWindsDown, Joined, Goto, PcOK, Tasks
<1>18. CASE MainGathered
  BY <1>18, QuietStep, TasksAssumption DEF MainGathered, NothingToFlush, SwapBuffer, Goto, PcOK, Tasks
<1>19. CASE MainSaved
  BY <1>19, QuietStep, TasksAssumption DEF MainSaved, Goto, PcOK, Tasks
<1>20. CASE MainSaveRaises
  BY <1>20, QuietStep, TasksAssumption DEF MainSaveRaises, Goto, PcOK, Tasks
<1>21. CASE MainGatherCancelled
  BY <1>21, QuietStep, TasksAssumption DEF MainGatherCancelled, Goto, PcOK, Tasks
<1>22. CASE Interrupt
  BY <1>22, QuietStep, TasksAssumption DEF Interrupt, ProducerCancelled, Goto, PcOK, Tasks, CancelledSave
<1>23. CASE UNCHANGED vars
  BY <1>23 DEF vars, JoinCounts, Busy
<1>24. QED
  BY <1>1, <1>2, <1>3, <1>4, <1>5, <1>6, <1>7, <1>8, <1>9, <1>10, <1>11, <1>12,
     <1>13, <1>14, <1>15, <1>16, <1>17, <1>18, <1>19, <1>20, <1>21, <1>22, <1>23
  DEF Next, ProducerStep, WorkerStep, FlusherStep, MainStep, Terminated


\* The size of a batch of records is a natural number.
LEMMA BatchIsFinite ==
  ASSUME NEW B \in SUBSET Records
  PROVE  IsFiniteSet(B) /\ Cardinality(B) \in Nat
<1>1. 1 \in Int /\ NumLines \in Int
  BY ConstantsAssumption
<1>2. IsFiniteSet(Records)
  BY <1>1, FS_Interval DEF Records
<1>3. QED
  BY <1>2, FS_Subset, FS_CardinalityType

\* Every variable keeps its type in every step.
LEMMA TypesStep == TypeInv /\ [Next]_vars => TypeOK'
<1> SUFFICES ASSUME TypeInv, [Next]_vars PROVE TypeOK'
  OBVIOUS
<1>a. Control /\ TypeOK
  BY DEF TypeInv
<1>b. unfinished' \in Nat
  BY CountsStep
<1>c. \A s \in Savers : Cardinality(batch[s]) \in Nat
  BY <1>a, BatchIsFinite DEF TypeOK
<1> USE <1>a, <1>b, <1>c, TasksAssumption
    DEF TypeOK, PcOK, Tasks, Savers, WorkerLabels, ProducerLabels, FlusherLabels,
        MainLabels, Goto
<1>1. CASE ProducerPull
  BY <1>1 DEF ProducerPull
<1>2. CASE ProducerPut
  <2>1. PcOK'
    BY <1>2 DEF ProducerPut, QueueHasRoom
  <2>2. enqueued + 1 \in Records
    BY <1>2, ConstantsAssumption DEF ProducerPut, QueueHasRoom, Control, Records
  <2>3. queue' \in Seq(Records) /\ Len(queue') <= QueueSize
    BY <1>2, <2>2, ConstantsAssumption DEF ProducerPut, QueueHasRoom
  <2>4. QED
    BY <1>2, <2>1, <2>2, <2>3 DEF ProducerPut, QueueHasRoom, Records
<1>3. CASE ProducerEnds
  BY <1>3 DEF ProducerEnds
<1>4. CASE SourceFails
  BY <1>4 DEF SourceFails
<1>5. ASSUME NEW w \in Workers, WorkerGet(w) PROVE TypeOK'
  <2>1. PcOK'
    BY <1>5 DEF WorkerGet
  <2>2. /\ Head(queue) \in Records
        /\ queue' \in Seq(Records)
        /\ Len(queue') <= QueueSize
    BY <1>5, ConstantsAssumption DEF WorkerGet
  <2>3. QED
    BY <1>5, <2>1, <2>2 DEF WorkerGet
<1>6. ASSUME NEW w \in Workers, StageFails(w) PROVE TypeOK'
  BY <1>6 DEF StageFails, TaskDone, Control, NoRecord
<1>7. ASSUME NEW w \in Workers, BufferRecord(w) PROVE TypeOK'
  BY <1>7 DEF BufferRecord, BatchIsFull, TaskDone, Control, NoRecord, WithHeld
<1>8. ASSUME NEW w \in Workers, FillBatch(w) PROVE TypeOK'
  BY <1>8 DEF FillBatch, SwapBuffer, BatchIsFull, Control, NoRecord, WithHeld
<1>9. ASSUME NEW w \in Workers, WorkerSaved(w) PROVE TypeOK'
  <2>1. Cardinality(batch[w]) \in Nat /\ batch[w] \in SUBSET Records
    OBVIOUS
  <2>2. CASE SaveOk(w) /\ processed' = processed + 1
    BY <1>9, <2>1, <2>2 DEF WorkerSaved, TaskDone, SaveOk, NoRecord
  <2>3. CASE /\ SaveRejected(w)
             /\ processed' = processed - Cardinality(batch[w]) + 1
    BY <1>9, <2>1, <2>3 DEF WorkerSaved, TaskDone, SaveRejected, Uncount, NoRecord
  <2>4. QED
    BY <1>9, <2>2, <2>3 DEF WorkerSaved, Uncount
<1>10. ASSUME NEW w \in Workers, WorkerSaveRaises(w) PROVE TypeOK'
  BY <1>10 DEF WorkerSaveRaises, TaskDone, Control, NoRecord
<1>11. ASSUME NEW w \in Workers, WorkerCancelled(w) PROVE TypeOK'
  BY <1>11 DEF WorkerCancelled, TaskDone, CancelledSave
<1>12. CASE FlusherWakes
  BY <1>12 DEF FlusherWakes, NothingToFlush, SwapBuffer, FlusherLoop
<1>13. CASE FlusherSaved
  BY <1>13 DEF FlusherSaved, SaveOk, SaveRejected, Uncount, FlusherLoop
<1>14. CASE FlusherDies
  BY <1>14 DEF FlusherDies
<1>15. CASE FlusherCancelled
  BY <1>15 DEF FlusherCancelled, CancelledSave
<1>16. CASE MainJoins
  BY <1>16 DEF MainJoins
<1>17. CASE MainWindsDown
  BY <1>17 DEF MainWindsDown, Joined
<1>18. CASE MainGathered
  BY <1>18 DEF MainGathered, NothingToFlush, SwapBuffer, RunEnds
<1>19. CASE MainSaved
  BY <1>19 DEF MainSaved, SaveOk, SaveRejected, Uncount, RunEnds
<1>20. CASE MainSaveRaises
  BY <1>20 DEF MainSaveRaises
<1>21. CASE MainGatherCancelled
  BY <1>21 DEF MainGatherCancelled
<1>22. CASE Interrupt
  BY <1>22 DEF Interrupt, ProducerCancelled, CancelledSave
<1>23. CASE UNCHANGED vars
  BY <1>23 DEF vars
<1>24. QED
  BY <1>1, <1>2, <1>3, <1>4, <1>5, <1>6, <1>7, <1>8, <1>9, <1>10, <1>11, <1>12,
     <1>13, <1>14, <1>15, <1>16, <1>17, <1>18, <1>19, <1>20, <1>21, <1>22, <1>23
  DEF Next, ProducerStep, WorkerStep, FlusherStep, MainStep, Terminated

LEMMA TypeInvStep == TypeInv /\ [Next]_vars => TypeInv'
BY TypesStep, ControlStep, CountsStep DEF TypeInv

LEMMA TypeInvAlways == Spec => []TypeInv
<1>1. Init => TypeInv
  BY TypeInvInit
<1>2. TypeInv /\ [Next]_vars => TypeInv'
  BY TypeInvStep
<1>3. QED
  BY <1>1, <1>2, PTL DEF Spec

\* Every variable of the executor always holds a value of its kind.
THEOREM TypeCorrect == Spec => []TypeOK
<1>1. TypeInv => TypeOK
  BY DEF TypeInv
<1>2. QED
  BY <1>1, TypeInvAlways, PTL

\* queue.join() counts what it should: the unfinished puts are the records in
\* the queue and those with a consumer, in every environment.
THEOREM JoinCountsAlways == Spec => []JoinCounts
<1>1. TypeInv => JoinCounts
  BY DEF TypeInv
<1>2. QED
  BY <1>1, TypeInvAlways, PTL

-------------------------------------------------------------------------------

\* Only the append that fills the buffer can make a batch of BatchSize records,
\* and it leaves the buffer empty.
LEMMA BatchesBoundedStep ==
  TypeInv /\ BatchesBounded /\ [Next]_vars => BatchesBounded'
<1> SUFFICES ASSUME TypeInv, BatchesBounded, [Next]_vars PROVE BatchesBounded'
  OBVIOUS
<1>a. BatchesBounded
  OBVIOUS
<1>b. /\ batch \in [Savers -> SUBSET Records]
      /\ buffer \in SUBSET Records
      /\ IsFiniteSet(buffer) /\ Cardinality(buffer) \in Nat
  BY BatchIsFinite DEF TypeInv, TypeOK
<1>c. Cardinality({}) = 0 /\ BatchSize \in Nat /\ 0 < BatchSize
  BY FS_EmptySet, ConstantsAssumption
<1> USE <1>a, <1>b, <1>c, TasksAssumption DEF BatchesBounded, Savers
<1>1. CASE ProducerPull
  BY <1>1 DEF ProducerPull
<1>2. CASE ProducerPut
  BY <1>2 DEF ProducerPut, QueueHasRoom
<1>3. CASE ProducerEnds
  BY <1>3 DEF ProducerEnds
<1>4. CASE SourceFails
  BY <1>4 DEF SourceFails
<1>5. ASSUME NEW w \in Workers, WorkerGet(w) PROVE BatchesBounded'
  BY <1>5 DEF WorkerGet
<1>6. ASSUME NEW w \in Workers, StageFails(w) PROVE BatchesBounded'
  BY <1>6 DEF StageFails, TaskDone
<1>7. ASSUME NEW w \in Workers, BufferRecord(w) PROVE BatchesBounded'
  <2>1. Cardinality(WithHeld(w)) \in Nat
    BY FS_AddElement, FS_CardinalityType DEF WithHeld
  <2>2. QED
    BY <1>7, <2>1 DEF BufferRecord, BatchIsFull
<1>8. ASSUME NEW w \in Workers, FillBatch(w) PROVE BatchesBounded'
  <2>1. Cardinality(WithHeld(w)) \in {Cardinality(buffer), Cardinality(buffer) + 1}
    BY <1>b, FS_AddElement DEF WithHeld
  <2>2. Cardinality(WithHeld(w)) <= BatchSize
    BY <2>1
  <2>3. QED
    BY <1>8, <2>2 DEF FillBatch, SwapBuffer, BatchIsFull
<1>9. ASSUME NEW w \in Workers, WorkerSaved(w) PROVE BatchesBounded'
  <2>1. batch' = [batch EXCEPT ![w] = {}] /\ UNCHANGED buffer
    BY <1>9 DEF WorkerSaved, SaveOk, SaveRejected, Uncount
  <2>2. QED
    BY <2>1
<1>10. ASSUME NEW w \in Workers, WorkerSaveRaises(w) PROVE BatchesBounded'
  BY <1>10 DEF WorkerSaveRaises, TaskDone
<1>11. ASSUME NEW w \in Workers, WorkerCancelled(w) PROVE BatchesBounded'
  BY <1>11 DEF WorkerCancelled, TaskDone, CancelledSave
<1>12. CASE FlusherWakes
  BY <1>12 DEF FlusherWakes, NothingToFlush, SwapBuffer
<1>13. CASE FlusherSaved
  BY <1>13 DEF FlusherSaved, SaveOk, SaveRejected, Uncount
<1>14. CASE FlusherDies
  BY <1>14 DEF FlusherDies
<1>15. CASE FlusherCancelled
  BY <1>15 DEF FlusherCancelled, CancelledSave
<1>16. CASE MainJoins
  BY <1>16 DEF MainJoins
<1>17. CASE MainWindsDown
  BY <1>17 DEF MainWindsDown, Joined
<1>18. CASE MainGathered
  BY <1>18 DEF MainGathered, NothingToFlush, SwapBuffer
<1>19. CASE MainSaved
  BY <1>19 DEF MainSaved, SaveOk, SaveRejected, Uncount
<1>20. CASE MainSaveRaises
  BY <1>20 DEF MainSaveRaises
<1>21. CASE MainGatherCancelled
  BY <1>21 DEF MainGatherCancelled
<1>22. CASE Interrupt
  BY <1>22 DEF Interrupt, ProducerCancelled, CancelledSave
<1>23. CASE UNCHANGED vars
  BY <1>23 DEF vars
<1>24. QED
  BY <1>1, <1>2, <1>3, <1>4, <1>5, <1>6, <1>7, <1>8, <1>9, <1>10, <1>11, <1>12,
     <1>13, <1>14, <1>15, <1>16, <1>17, <1>18, <1>19, <1>20, <1>21, <1>22, <1>23
  DEF Next, ProducerStep, WorkerStep, FlusherStep, MainStep, Terminated

\* A consumer never saves more than BatchSize records at once, the flusher and
\* the final drain always fewer, and the buffer always has room for one more.
THEOREM BatchesBoundedAlways == Spec => []BatchesBounded
<1>1. Init => BatchesBounded
  BY FS_EmptySet, ConstantsAssumption DEF Init, BatchesBounded, Savers
<1>2. TypeInv /\ BatchesBounded /\ [Next]_vars => BatchesBounded'
  BY BatchesBoundedStep
<1>3. QED
  BY <1>1, <1>2, TypeInvAlways, PTL DEF Spec

-------------------------------------------------------------------------------
(***************************************************************************)
(* Where the records are, for any number of lines and consumers and any    *)
(* queue and batch size: a record is never in two places, and on the       *)
(* normal path none is missing.                                            *)
(*                                                                         *)
(* OnePlace is not inductive alone: that a record a consumer takes is      *)
(* nowhere else rests on the queue holding exactly the records after those *)
(* taken so far, in order (QueueInOrder, BelowTaken).  Conserved rests on  *)
(* the wind-down too: a run that nobody interrupted and whose source did   *)
(* not raise sets the shutdown flag only once no consumer works (Calm).    *)
(***************************************************************************)

\* How many records the consumers have taken from the queue.
Taken == enqueued - Len(queue)

QueueInOrder ==
  /\ Taken \in Nat
  /\ \A i \in DOMAIN queue : queue[i] = Taken + i

BelowTaken ==
  /\ \A w \in Workers : held[w] <= Taken
  /\ \A r \in buffer \cup stored \cup dropped : r <= Taken
  /\ \A s \in Savers : \A r \in batch[s] : r <= Taken

StagesApart ==
  \A w \in Workers : pc[w] = "stage" =>
    /\ held[w] \notin buffer \cup stored \cup dropped
    /\ \A s \in Savers : held[w] \notin batch[s]
    /\ \A v \in Workers : pc[v] = "stage" /\ held[v] = held[w] => v = w

BatchesApart ==
  \A s \in Savers : \A r \in batch[s] :
    /\ r \notin buffer \cup stored \cup dropped
    /\ \A t \in Savers : r \in batch[t] => t = s

BufferApart == \A r \in buffer : r \notin stored \cup dropped

SettledApart == \A r \in stored : r \notin dropped

Places ==
  QueueInOrder /\ BelowTaken /\ StagesApart /\ BatchesApart /\ BufferApart /\ SettledApart

SafeInv == TypeInv /\ Places

-------------------------------------------------------------------------------

\* A step that leaves the queue alone, and only releases consumers.
LEMMA QueueAlone ==
  ASSUME QueueInOrder, UNCHANGED <<enqueued, queue>>
  PROVE  QueueInOrder' /\ Taken' = Taken
BY DEF QueueInOrder, Taken

\* The queue stays in order, and a consumer takes the record after the last taken.
LEMMA QueueStep ==
  TypeInv /\ QueueInOrder /\ [Next]_vars =>
    /\ QueueInOrder'
    /\ \/ Taken' = Taken
       \/ \E w \in Workers : WorkerGet(w) /\ Taken' = Taken + 1 /\ Head(queue) = Taken'
<1> SUFFICES ASSUME TypeInv, QueueInOrder, [Next]_vars
             PROVE  /\ QueueInOrder'
                    /\ \/ Taken' = Taken
                       \/ \E w \in Workers :
                            WorkerGet(w) /\ Taken' = Taken + 1 /\ Head(queue) = Taken'
  OBVIOUS
<1>a. queue \in Seq(Records) /\ enqueued \in Nat /\ Len(queue) \in Nat
  BY ConstantsAssumption DEF TypeInv, TypeOK
<1>1. CASE ProducerPut
  <2>1. /\ Len(queue') = Len(queue) + 1
        /\ DOMAIN queue' = 1..(Len(queue) + 1)
        /\ \A i \in 1..Len(queue) : queue'[i] = queue[i]
        /\ queue'[Len(queue) + 1] = enqueued + 1
    BY <1>1, <1>a DEF ProducerPut, QueueHasRoom, Records
  <2>2. enqueued' = enqueued + 1
    BY <1>1 DEF ProducerPut
  <2>3. Taken' = Taken
    BY <2>1, <2>2, <1>a DEF Taken
  <2>4. ASSUME NEW i \in DOMAIN queue' PROVE queue'[i] = Taken + i
    <3>1. CASE i = Len(queue) + 1
      BY <3>1, <2>1, <1>a DEF Taken
    <3>2. CASE i \in 1..Len(queue)
      BY <3>2, <2>1, <1>a DEF QueueInOrder
    <3>3. QED
      BY <2>1, <2>4, <3>1, <3>2, <1>a
  <2>5. QED
    BY <2>3, <2>4 DEF QueueInOrder
<1>2. ASSUME NEW w \in Workers, WorkerGet(w)
      PROVE  QueueInOrder' /\ Taken' = Taken + 1 /\ Head(queue) = Taken'
  <2>1. queue # <<>> /\ queue' = Tail(queue) /\ enqueued' = enqueued
    BY <1>2 DEF WorkerGet
  <2>2. /\ Len(queue') = Len(queue) - 1
        /\ DOMAIN queue' = 1..(Len(queue) - 1)
        /\ DOMAIN queue = 1..Len(queue)
        /\ 1 \in DOMAIN queue
        /\ \A i \in DOMAIN queue' : queue'[i] = queue[i + 1]
        /\ Head(queue) = queue[1]
    BY <2>1, <1>a
  <2>3. Taken' = Taken + 1
    BY <2>1, <2>2, <1>a DEF Taken
  <2>4. Head(queue) = Taken'
    BY <2>2, <2>3 DEF QueueInOrder
  <2>5. ASSUME NEW i \in DOMAIN queue' PROVE queue'[i] = Taken' + i
    <3>1. i + 1 \in DOMAIN queue /\ i \in Int
      BY <2>2, <1>a
    <3>2. QED
      BY <3>1, <2>2, <2>3 DEF QueueInOrder
  <2>6. QED
    BY <2>3, <2>4, <2>5 DEF QueueInOrder
<1>3. CASE UNCHANGED <<enqueued, queue>>
  BY <1>3, QueueAlone
<1>4. QED
  BY <1>1, <1>2, <1>3
  DEF Next, ProducerStep, WorkerStep, FlusherStep, MainStep, Terminated, vars,
      ProducerPull, ProducerEnds, SourceFails, StageFails, BufferRecord, FillBatch,
      WorkerSaved, WorkerSaveRaises, WorkerCancelled, FlusherWakes, FlusherSaved,
      FlusherDies, FlusherCancelled, MainJoins, MainWindsDown, MainGathered,
      MainSaved, MainSaveRaises, MainGatherCancelled, Interrupt

\* The record a consumer takes is the one after the last taken.
LEMMA QueueStepTaken ==
  ASSUME TypeInv, QueueInOrder, NEW w \in Workers, WorkerGet(w)
  PROVE  Taken' = Taken + 1 /\ Head(queue) = Taken'
<1>1. queue \in Seq(Records) /\ queue # <<>> /\ queue' = Tail(queue) /\ enqueued' = enqueued
  BY DEF WorkerGet, TypeInv, TypeOK
<1>2. Len(queue') = Len(queue) - 1 /\ Head(queue) = queue[1] /\ 1 \in DOMAIN queue
  BY <1>1
<1>3. QED
  BY <1>1, <1>2, ConstantsAssumption DEF TypeInv, TypeOK, QueueInOrder, Taken

\* What the prover needs to know of the types.
LEMMA PlaceTypes ==
  ASSUME TypeInv
  PROVE  /\ held \in [Workers -> Nat]
         /\ batch \in [Savers -> SUBSET Nat]
         /\ buffer \subseteq Nat /\ stored \subseteq Nat /\ dropped \subseteq Nat
         /\ enqueued \in Nat /\ Len(queue) \in Nat
<1>1. Records \subseteq Nat
  BY ConstantsAssumption DEF Records
<1>2. held \in [Workers -> Nat]
  <2>1. held \in [Workers -> Records \cup {NoRecord}] /\ Records \cup {NoRecord} \subseteq Nat
    BY <1>1 DEF TypeInv, TypeOK, NoRecord
  <2>2. QED
    BY <2>1
<1>3. batch \in [Savers -> SUBSET Nat]
  <2>1. batch \in [Savers -> SUBSET Records] /\ SUBSET Records \subseteq SUBSET Nat
    BY <1>1 DEF TypeInv, TypeOK
  <2>2. QED
    BY <2>1
<1>4. QED
  BY <1>1, <1>2, <1>3, ConstantsAssumption DEF TypeInv, TypeOK

\* No consumer enters the stages, and one that stays keeps its record.
OnlyReleases ==
  \A w \in Workers :
    /\ pc'[w] = "stage" => pc[w] = "stage"
    /\ held'[w] \in {held[w], NoRecord}
    /\ pc'[w] = "stage" => held'[w] = held[w]

\* A step that moves no record, but for those it takes from the stages.
LEMMA NothingMoves ==
  ASSUME SafeInv, OnlyReleases, UNCHANGED <<enqueued, queue, buffer, batch, stored, dropped>>
  PROVE  Places'
<1>1. QueueInOrder' /\ Taken' = Taken /\ Taken \in Nat
  BY QueueAlone DEF SafeInv, Places, QueueInOrder
<1>2. BelowTaken'
  BY <1>1, PlaceTypes DEF SafeInv, Places, BelowTaken, OnlyReleases, NoRecord
<1>3. StagesApart'
  BY PlaceTypes DEF SafeInv, Places, StagesApart, OnlyReleases
<1>4. BatchesApart' /\ BufferApart' /\ SettledApart'
  BY DEF SafeInv, Places, BatchesApart, BufferApart, SettledApart
<1>5. QED
  BY <1>1, <1>2, <1>3, <1>4 DEF Places

\* A saver's batch is settled one way or the other, or forgotten.
LEMMA BatchLeaves ==
  ASSUME SafeInv, NEW s \in Savers, OnlyReleases,
         batch' = [batch EXCEPT ![s] = {}],
         \/ stored' = stored \cup batch[s] /\ UNCHANGED dropped
         \/ dropped' = dropped \cup batch[s] /\ UNCHANGED stored
         \/ UNCHANGED <<stored, dropped>>,
         UNCHANGED <<enqueued, queue, buffer>>
  PROVE  Places'
<1>1. QueueInOrder' /\ Taken' = Taken /\ Taken \in Nat
  BY QueueAlone DEF SafeInv, Places, QueueInOrder
<1>2. BelowTaken'
  BY <1>1, PlaceTypes DEF SafeInv, Places, BelowTaken, OnlyReleases, NoRecord
<1>3. StagesApart'
  BY PlaceTypes DEF SafeInv, Places, StagesApart, OnlyReleases
<1>4. BatchesApart'
  BY PlaceTypes DEF SafeInv, Places, BatchesApart
<1>5. BufferApart' /\ SettledApart'
  BY PlaceTypes DEF SafeInv, Places, BatchesApart, BufferApart, SettledApart
<1>6. QED
  BY <1>1, <1>2, <1>3, <1>4, <1>5 DEF Places

\* The buffer, and the record of a consumer that leaves the stages with it, become
\* the batch of a saver that had none.
LEMMA BufferLeaves ==
  ASSUME SafeInv, NEW s \in Savers, batch[s] = {}, NEW records, SwapBuffer(s, records),
         \/ records = buffer /\ OnlyReleases
         \/ /\ s \in Workers /\ records = WithHeld(s) /\ pc[s] = "stage"
            /\ OnlyReleases /\ pc'[s] # "stage",
         UNCHANGED <<enqueued, queue, stored, dropped>>
  PROVE  Places'
<1>1. QueueInOrder' /\ Taken' = Taken /\ Taken \in Nat
  BY QueueAlone DEF SafeInv, Places, QueueInOrder
<1>2. BelowTaken'
  BY <1>1, PlaceTypes
     DEF SafeInv, Places, BelowTaken, OnlyReleases, NoRecord, SwapBuffer, WithHeld
<1>3. StagesApart'
  BY PlaceTypes DEF SafeInv, Places, StagesApart, OnlyReleases, SwapBuffer, WithHeld
<1>4. BatchesApart'
  BY PlaceTypes
     DEF SafeInv, Places, StagesApart, BatchesApart, BufferApart, SwapBuffer, WithHeld
<1>5. BufferApart' /\ SettledApart'
  BY PlaceTypes DEF SafeInv, Places, BufferApart, SettledApart, SwapBuffer
<1>6. QED
  BY <1>1, <1>2, <1>3, <1>4, <1>5 DEF Places

\* The places of the records stay below the taken ones and apart.
LEMMA PlacesStep == SafeInv /\ [Next]_vars => Places'
<1> SUFFICES ASSUME SafeInv, [Next]_vars PROVE Places'
  OBVIOUS
<1>a. /\ PcOK /\ Control /\ Places
      /\ held \in [Workers -> Records \cup {NoRecord}]
      /\ batch \in [Savers -> SUBSET Records]
      /\ enqueued \in Nat /\ Len(queue) \in Nat
      /\ Taken \in Nat
  BY ConstantsAssumption DEF SafeInv, TypeInv, TypeOK, Places, QueueInOrder
<1>b. /\ QueueInOrder'
      /\ \/ Taken' = Taken
         \/ \E w \in Workers : WorkerGet(w) /\ Taken' = Taken + 1 /\ Head(queue) = Taken'
  BY QueueStep DEF SafeInv, Places
<1>c. /\ \A w \in Workers : held[w] \in Nat
      /\ Records \subseteq Nat
      /\ buffer \subseteq Nat /\ stored \subseteq Nat /\ dropped \subseteq Nat
      /\ \A s \in Savers : batch[s] \subseteq Nat
  BY <1>a, ConstantsAssumption DEF SafeInv, TypeInv, TypeOK, Records, NoRecord
<1> USE <1>a, <1>b, <1>c, TasksAssumption
    DEF PcOK, Places, BelowTaken, StagesApart, BatchesApart, BufferApart, SettledApart,
        Control, Tasks, Savers, NoRecord, Goto
<1>1. CASE ProducerPull
  BY <1>1 DEF ProducerPull
<1>2. CASE ProducerPut
  BY <1>2 DEF ProducerPut, QueueHasRoom
<1>3. CASE ProducerEnds
  BY <1>3 DEF ProducerEnds
<1>4. CASE SourceFails
  BY <1>4 DEF SourceFails
<1>5. ASSUME NEW w \in Workers, WorkerGet(w) PROVE Places'
  <2>1. /\ Taken' = Taken + 1 /\ Head(queue) = Taken'
        /\ held' = [held EXCEPT ![w] = Taken']
        /\ pc[w] # "stage"
        /\ UNCHANGED <<buffer, batch, stored, dropped>>
    BY <1>5, QueueStepTaken DEF SafeInv, WorkerGet
  <2>2. BelowTaken'
    BY <2>1, PlaceTypes DEF SafeInv
  <2>3. StagesApart'
    BY <1>5, <2>1, PlaceTypes DEF SafeInv, WorkerGet
  <2>4. QED
    BY <2>1, <2>2, <2>3
<1>6. ASSUME NEW w \in Workers, StageFails(w) PROVE Places'
  BY <1>6 DEF StageFails, TaskDone
<1>7. ASSUME NEW w \in Workers, BufferRecord(w) PROVE Places'
  BY <1>7 DEF BufferRecord, BatchIsFull, TaskDone, WithHeld
<1>8. ASSUME NEW w \in Workers, FillBatch(w) PROVE Places'
  <2>1. w \in Savers /\ batch[w] = {} /\ pc'[w] # "stage" /\ OnlyReleases
    BY <1>8 DEF FillBatch, SwapBuffer, BatchIsFull, OnlyReleases
  <2>2. QED
    BY <1>8, <2>1, BufferLeaves DEF FillBatch, BatchIsFull
<1>9. ASSUME NEW w \in Workers, WorkerSaved(w) PROVE Places'
  <2>1. w \in Savers /\ OnlyReleases
    BY <1>9 DEF WorkerSaved, TaskDone, OnlyReleases
  <2>2. QED
    BY <1>9, <2>1, BatchLeaves DEF WorkerSaved, SaveOk, SaveRejected, Uncount
<1>10. ASSUME NEW w \in Workers, WorkerSaveRaises(w) PROVE Places'
  BY <1>10 DEF WorkerSaveRaises, TaskDone
<1>11. ASSUME NEW w \in Workers, WorkerCancelled(w) PROVE Places'
  <2>1. w \in Savers /\ OnlyReleases /\ batch \in [Savers -> SUBSET Records]
    BY <1>11 DEF WorkerCancelled, TaskDone, OnlyReleases
  <2>2. CASE pc[w] = "save"
    BY <1>11, <2>1, <2>2, BatchLeaves DEF WorkerCancelled, CancelledSave
  <2>3. CASE pc[w] # "save"
    <3>1. batch' = [batch EXCEPT ![w] = {}]
      BY <1>11, <2>1, <2>3 DEF WorkerCancelled
    <3>2. QED
      BY <1>11, <2>1, <2>3, <3>1, BatchLeaves DEF WorkerCancelled
  <2>4. QED
    BY <2>2, <2>3
<1>12. CASE FlusherWakes
  <2>1. Flusher \in Savers /\ OnlyReleases
    BY <1>12 DEF FlusherWakes, NothingToFlush, SwapBuffer, OnlyReleases
  <2>2. CASE NothingToFlush
    BY <1>12, <2>1, <2>2, NothingMoves DEF FlusherWakes
  <2>3. CASE ~NothingToFlush
    BY <1>12, <2>1, <2>3, BufferLeaves DEF FlusherWakes
  <2>4. QED
    BY <2>2, <2>3
<1>13. CASE FlusherSaved
  <2>1. Flusher \in Savers /\ OnlyReleases
    BY <1>13 DEF FlusherSaved, OnlyReleases
  <2>2. QED
    BY <1>13, <2>1, BatchLeaves DEF FlusherSaved, SaveOk, SaveRejected, Uncount
<1>14. CASE FlusherDies
  BY <1>14 DEF FlusherDies
<1>15. CASE FlusherCancelled
  <2>1. Flusher \in Savers /\ OnlyReleases
    BY <1>15 DEF FlusherCancelled, OnlyReleases
  <2>2. CASE pc[Flusher] = "save"
    BY <1>15, <2>1, <2>2, BatchLeaves DEF FlusherCancelled, CancelledSave
  <2>3. CASE pc[Flusher] # "save"
    BY <1>15, <2>1, <2>3, NothingMoves DEF FlusherCancelled
  <2>4. QED
    BY <2>2, <2>3
<1>16. CASE MainJoins
  BY <1>16 DEF MainJoins
<1>17. CASE MainWindsDown
  BY <1>17 DEF MainWindsDown, Joined
<1>18. CASE MainGathered
  <2>1. Main \in Savers /\ OnlyReleases
    BY <1>18 DEF MainGathered, NothingToFlush, SwapBuffer, OnlyReleases
  <2>2. CASE NothingToFlush
    BY <1>18, <2>1, <2>2, NothingMoves DEF MainGathered
  <2>3. CASE ~NothingToFlush
    BY <1>18, <2>1, <2>3, BufferLeaves DEF MainGathered
  <2>4. QED
    BY <2>2, <2>3
<1>19. CASE MainSaved
  <2>1. Main \in Savers /\ OnlyReleases
    BY <1>19 DEF MainSaved, OnlyReleases
  <2>2. QED
    BY <1>19, <2>1, BatchLeaves DEF MainSaved, SaveOk, SaveRejected, Uncount
<1>20. CASE MainSaveRaises
  BY <1>20 DEF MainSaveRaises
<1>21. CASE MainGatherCancelled
  BY <1>21 DEF MainGatherCancelled
<1>22. CASE Interrupt
  <2>1. Main \in Savers /\ OnlyReleases
    BY <1>22 DEF Interrupt, ProducerCancelled, OnlyReleases
  <2>2. CASE CancelledSave(Main)
    BY <1>22, <2>1, <2>2, BatchLeaves DEF Interrupt, CancelledSave
  <2>3. CASE UNCHANGED <<batch, stored>>
    BY <1>22, <2>3 DEF Interrupt, ProducerCancelled
  <2>4. QED
    BY <1>22, <2>2, <2>3 DEF Interrupt
<1>23. CASE UNCHANGED vars
  BY <1>23 DEF vars
<1>24. QED
  BY <1>1, <1>2, <1>3, <1>4, <1>5, <1>6, <1>7, <1>8, <1>9, <1>10, <1>11, <1>12, <1>13, <1>14, <1>15, <1>16, <1>17, <1>18, <1>19, <1>20, <1>21, <1>22, <1>23
  DEF Next, ProducerStep, WorkerStep, FlusherStep, MainStep, Terminated

LEMMA SafeInvInit == Init => SafeInv /\ Taken = 0
<1> SUFFICES ASSUME Init PROVE SafeInv /\ Taken = 0
  OBVIOUS
<1>1. TypeInv
  BY TypeInvInit
<1>2. enqueued = 0 /\ Len(queue) = 0 /\ DOMAIN queue = {}
  BY DEF Init
<1>3. Taken = 0
  BY <1>2 DEF Taken
<1>4. QueueInOrder
  BY <1>2, <1>3 DEF QueueInOrder
<1>5. BelowTaken
  BY <1>3 DEF Init, BelowTaken, NoRecord
<1>6. StagesApart /\ BatchesApart /\ BufferApart /\ SettledApart
  BY TasksAssumption
     DEF Init, StagesApart, BatchesApart, BufferApart, SettledApart, Tasks
<1>7. QED
  BY <1>1, <1>3, <1>4, <1>5, <1>6 DEF SafeInv, Places

LEMMA SafeInvAlways == Spec => []SafeInv
<1>1. Init => SafeInv
  BY SafeInvInit
<1>2. SafeInv /\ [Next]_vars => SafeInv'
  BY TypeInvStep, PlacesStep DEF SafeInv
<1>3. QED
  BY <1>1, <1>2, PTL DEF Spec

\* The quantified form says what OnePlace says with intersections.
LEMMA PlacesApart == SafeInv => OnePlace
<1> SUFFICES ASSUME SafeInv PROVE OnePlace
  OBVIOUS
<1>a. PcOK /\ Control /\ Places
  BY DEF SafeInv, TypeInv, TypeOK
<1>b. /\ held \in [Workers -> Nat] /\ batch \in [Savers -> SUBSET Nat]
      /\ buffer \subseteq Nat /\ stored \subseteq Nat /\ dropped \subseteq Nat
      /\ Taken \in Nat /\ queue \in Seq(Records)
  BY <1>a, PlaceTypes DEF SafeInv, TypeInv, TypeOK, Places, QueueInOrder
<1>1. \A i \in DOMAIN queue : i \in Nat /\ i > 0 /\ queue[i] = Taken + i
  BY <1>a, <1>b DEF Places, QueueInOrder
<1>2. \A i, j \in DOMAIN queue : queue[i] = queue[j] => i = j
  BY <1>b, <1>1
<1>3. \A v, w \in Busy : held[v] = held[w] => v = w
  <2> SUFFICES ASSUME NEW v \in Busy, NEW w \in Busy, held[v] = held[w] PROVE v = w
    OBVIOUS
  <2>1. /\ v \in Workers /\ w \in Workers /\ v \in Savers /\ w \in Savers
        /\ pc[v] = "stage" \/ held[v] \in batch[v]
        /\ pc[w] = "stage" \/ held[w] \in batch[w]
    BY <1>a DEF Busy, Control, Savers
  <2>2. QED
    BY <1>a, <2>1 DEF Places, StagesApart, BatchesApart
<1>4. \A s, t \in Savers : s # t => batch[s] \cap batch[t] = {}
  BY <1>a DEF Places, BatchesApart
<1>5. \A r \in Queued : r > Taken
  BY <1>b, <1>1 DEF Queued
<1>6. \A r \in InStages \cup buffer \cup Saving \cup Settled : r <= Taken
  BY <1>a DEF Places, BelowTaken, InStages, Saving, Settled
<1>7. Queued \cap (InStages \cup buffer \cup Saving \cup Settled) = {}
  <2>1. \A r \in InStages \cup buffer \cup Saving \cup Settled : r \in Nat
    BY <1>b DEF InStages, Saving, Settled
  <2>2. QED
    BY <1>b, <1>5, <1>6, <2>1
<1>8. InStages \cap (buffer \cup Saving \cup Settled) = {}
  BY <1>a DEF Places, StagesApart, InStages, Saving, Settled
<1>9. buffer \cap (Saving \cup Settled) = {}
  BY <1>a DEF Places, BatchesApart, BufferApart, Saving, Settled
<1>10. Saving \cap Settled = {} /\ stored \cap dropped = {}
  BY <1>a DEF Places, BatchesApart, SettledApart, Saving, Settled
<1>11. QED
  BY <1>2, <1>3, <1>4, <1>7, <1>8, <1>9, <1>10 DEF OnePlace

\* No record is ever in two places, whatever fails and whoever is cancelled: none
\* is processed by two consumers, saved twice, or both stored and counted as failed.
THEOREM OnePlaceAlways == Spec => []OnePlace
BY SafeInvAlways, PlacesApart, PTL

-------------------------------------------------------------------------------
(* No record is missing on the normal path. *)

\* Off the normal path only may a task be cancelled with a record in hand.
Calm ==
  /\ pc[Main] = "gather_cancelled" => interrupted
  /\ pc[Producer] = "cancelled" => interrupted
  /\ shutdown /\ ~Abnormal => \A w \in Workers : pc[w] \notin {"stage", "save"}

LEMMA CalmStep == TypeInv /\ Calm /\ [Next]_vars => Calm'
<1> SUFFICES ASSUME TypeInv, Calm, [Next]_vars PROVE Calm'
  OBVIOUS
<1>a. PcOK /\ Calm /\ Control
  BY DEF TypeInv, TypeOK
<1>b. Joined => \A w \in Workers : pc[w] \notin {"stage", "save"}
  <2>1. Cardinality(Busy) \in Nat /\ Len(queue) \in Nat /\ IsFiniteSet(Busy)
    BY <1>a, BusyIsFinite DEF TypeInv, TypeOK
  <2>2. Joined => Cardinality(Busy) = 0
    BY <2>1 DEF Joined, TypeInv, JoinCounts
  <2>3. QED
    BY <2>1, <2>2, FS_EmptySet DEF Busy
<1> USE <1>a, TasksAssumption DEF PcOK, Calm, Abnormal, Control, Tasks, Goto
<1>1. CASE ProducerPull
  BY <1>1 DEF ProducerPull
<1>2. CASE ProducerPut
  BY <1>2 DEF ProducerPut, QueueHasRoom
<1>3. CASE ProducerEnds
  BY <1>3 DEF ProducerEnds
<1>4. CASE SourceFails
  BY <1>4 DEF SourceFails
<1>5. ASSUME NEW w \in Workers, WorkerGet(w) PROVE Calm'
  BY <1>5 DEF WorkerGet
<1>6. ASSUME NEW w \in Workers, StageFails(w) PROVE Calm'
  BY <1>6 DEF StageFails, TaskDone
<1>7. ASSUME NEW w \in Workers, BufferRecord(w) PROVE Calm'
  BY <1>7 DEF BufferRecord, BatchIsFull, TaskDone, WithHeld
<1>8. ASSUME NEW w \in Workers, FillBatch(w) PROVE Calm'
  BY <1>8 DEF FillBatch, SwapBuffer, BatchIsFull, WithHeld
<1>9. ASSUME NEW w \in Workers, WorkerSaved(w) PROVE Calm'
  BY <1>9 DEF WorkerSaved, TaskDone, SaveOk, SaveRejected, Uncount
<1>10. ASSUME NEW w \in Workers, WorkerSaveRaises(w) PROVE Calm'
  BY <1>10 DEF WorkerSaveRaises, TaskDone
<1>11. ASSUME NEW w \in Workers, WorkerCancelled(w) PROVE Calm'
  BY <1>11 DEF WorkerCancelled, TaskDone, CancelledSave
<1>12. CASE FlusherWakes
  BY <1>12 DEF FlusherWakes, NothingToFlush, SwapBuffer
<1>13. CASE FlusherSaved
  BY <1>13 DEF FlusherSaved, SaveOk, SaveRejected, Uncount
<1>14. CASE FlusherDies
  BY <1>14 DEF FlusherDies
<1>15. CASE FlusherCancelled
  BY <1>15 DEF FlusherCancelled, CancelledSave
<1>16. CASE MainJoins
  BY <1>16 DEF MainJoins
<1>17. CASE MainWindsDown
  BY <1>17, <1>b DEF MainWindsDown
<1>18. CASE MainGathered
  BY <1>18 DEF MainGathered, NothingToFlush, SwapBuffer, RunEnds
<1>19. CASE MainSaved
  BY <1>19 DEF MainSaved, SaveOk, SaveRejected, Uncount, RunEnds
<1>20. CASE MainSaveRaises
  BY <1>20 DEF MainSaveRaises
<1>21. CASE MainGatherCancelled
  BY <1>21 DEF MainGatherCancelled
<1>22. CASE Interrupt
  BY <1>22 DEF Interrupt, ProducerCancelled, CancelledSave
<1>23. CASE UNCHANGED vars
  BY <1>23 DEF vars
<1>24. QED
  BY <1>1, <1>2, <1>3, <1>4, <1>5, <1>6, <1>7, <1>8, <1>9, <1>10, <1>11,
     <1>12, <1>13, <1>14, <1>15, <1>16, <1>17, <1>18, <1>19, <1>20, <1>21,
     <1>22, <1>23
  DEF Next, ProducerStep, WorkerStep, FlusherStep, MainStep, Terminated

\* Every record taken from the queue is somewhere.
NoneMissing ==
  \A r \in 1..Taken :
    \/ \E w \in Workers : pc[w] = "stage" /\ held[w] = r
    \/ r \in buffer \cup stored \cup dropped
    \/ \E s \in Savers : r \in batch[s]

\* The three ways a record moves without getting lost: every record in one of the
\* places before the step is in one of them after it.
NothingLost ==
  /\ \A w \in Workers : pc[w] = "stage" =>
       \/ pc'[w] = "stage" /\ held'[w] = held[w]
       \/ held[w] \in (buffer \cup stored \cup dropped)'
       \/ \E s \in Savers : held[w] \in batch'[s]
  /\ \A r \in buffer \cup stored \cup dropped :
       \/ r \in (buffer \cup stored \cup dropped)'
       \/ \E s \in Savers : r \in batch'[s]
  /\ \A s \in Savers : \A r \in batch[s] :
       r \in batch'[s] \cup (stored \cup dropped)'

LEMMA NothingLostKeeps ==
  ASSUME NoneMissing, Taken \in Nat, NothingLost, Taken' = Taken
  PROVE  NoneMissing'
BY DEF NoneMissing, NothingLost

\* When the repository raises only RepositoryError, no step of the normal path but
\* the taking of a record changes which records there are.
LEMMA LostOnlyAbnormally ==
  ASSUME "unexpected_error" \notin SaveOutcomes
  PROVE  TypeInv /\ Calm /\ ~Abnormal /\ [Next]_vars /\ ~Abnormal' =>
           NothingLost \/ \E w \in Workers : WorkerGet(w)
<1> SUFFICES ASSUME TypeInv, Calm, ~Abnormal, [Next]_vars, ~Abnormal',
                    \A w \in Workers : ~WorkerGet(w)
             PROVE  NothingLost
  OBVIOUS
<1>a. /\ PcOK /\ Calm /\ Control /\ ~Abnormal
      /\ batch \in [Savers -> SUBSET Records] /\ held \in [Workers -> Records \cup {NoRecord}]
  BY DEF TypeInv, TypeOK
<1> USE <1>a, TasksAssumption
    DEF PcOK, Calm, Abnormal, NothingLost, Control, Tasks, Savers, Goto
<1>1. CASE ProducerPull
  BY <1>1 DEF ProducerPull
<1>2. CASE ProducerPut
  BY <1>2 DEF ProducerPut, QueueHasRoom
<1>3. CASE ProducerEnds
  BY <1>3 DEF ProducerEnds
<1>4. CASE SourceFails
  BY <1>4 DEF SourceFails
<1>5. ASSUME NEW w \in Workers, WorkerGet(w) PROVE NothingLost
  BY <1>5
<1>6. ASSUME NEW w \in Workers, StageFails(w) PROVE NothingLost
  BY <1>6 DEF StageFails, TaskDone
<1>7. ASSUME NEW w \in Workers, BufferRecord(w) PROVE NothingLost
  BY <1>7 DEF BufferRecord, BatchIsFull, TaskDone, WithHeld
<1>8. ASSUME NEW w \in Workers, FillBatch(w) PROVE NothingLost
  BY <1>8 DEF FillBatch, SwapBuffer, BatchIsFull, WithHeld
<1>9. ASSUME NEW w \in Workers, WorkerSaved(w) PROVE NothingLost
  BY <1>9 DEF WorkerSaved, TaskDone, SaveOk, SaveRejected, Uncount
<1>10. ASSUME NEW w \in Workers, WorkerSaveRaises(w) PROVE NothingLost
  BY <1>10 DEF WorkerSaveRaises, TaskDone
<1>11. ASSUME NEW w \in Workers, WorkerCancelled(w) PROVE NothingLost
  BY <1>11 DEF WorkerCancelled, TaskDone, CancelledSave
<1>12. CASE FlusherWakes
  BY <1>12 DEF FlusherWakes, NothingToFlush, SwapBuffer
<1>13. CASE FlusherSaved
  BY <1>13 DEF FlusherSaved, SaveOk, SaveRejected, Uncount
<1>14. CASE FlusherDies
  BY <1>14 DEF FlusherDies
<1>15. CASE FlusherCancelled
  BY <1>15 DEF FlusherCancelled, CancelledSave
<1>16. CASE MainJoins
  BY <1>16 DEF MainJoins
<1>17. CASE MainWindsDown
  BY <1>17 DEF MainWindsDown, Joined
<1>18. CASE MainGathered
  BY <1>18 DEF MainGathered, NothingToFlush, SwapBuffer, RunEnds
<1>19. CASE MainSaved
  BY <1>19 DEF MainSaved, SaveOk, SaveRejected, Uncount, RunEnds
<1>20. CASE MainSaveRaises
  BY <1>20 DEF MainSaveRaises
<1>21. CASE MainGatherCancelled
  BY <1>21 DEF MainGatherCancelled
<1>22. CASE Interrupt
  BY <1>22 DEF Interrupt, ProducerCancelled, CancelledSave
<1>23. CASE UNCHANGED vars
  BY <1>23 DEF vars
<1>24. QED
  BY <1>1, <1>2, <1>3, <1>4, <1>5, <1>6, <1>7, <1>8, <1>9, <1>10, <1>11,
     <1>12, <1>13, <1>14, <1>15, <1>16, <1>17, <1>18, <1>19, <1>20, <1>21,
     <1>22, <1>23
  DEF Next, ProducerStep, WorkerStep, FlusherStep, MainStep, Terminated

\* The taking of a record: it is with the consumer that takes it.
LEMMA TakenKeeps ==
  ASSUME SafeInv, NoneMissing, NEW w \in Workers, WorkerGet(w)
  PROVE  NoneMissing'
<1>1. Taken' = Taken + 1 /\ Head(queue) = Taken' /\ Taken \in Nat
  BY QueueStepTaken DEF SafeInv, Places, QueueInOrder
<1>2. /\ pc'[w] = "stage" /\ held'[w] = Taken' /\ pc[w] = "get"
      /\ \A v \in Workers : v # w => pc'[v] = pc[v] /\ held'[v] = held[v]
      /\ UNCHANGED <<buffer, batch, stored, dropped>>
  BY <1>1 DEF WorkerGet, Goto, SafeInv, TypeInv, TypeOK, PcOK, Tasks
<1>3. SUFFICES ASSUME NEW r \in 1..Taken'
               PROVE  \/ \E v \in Workers : pc'[v] = "stage" /\ held'[v] = r
                      \/ r \in buffer \cup stored \cup dropped
                      \/ \E s \in Savers : r \in batch[s]
  BY <1>2 DEF NoneMissing
<1>4. CASE r = Taken'
  BY <1>2, <1>4
<1>5. CASE r # Taken'
  <2>1. r \in 1..Taken
    BY <1>1, <1>5
  <2>2. QED
    BY <1>2, <2>1 DEF NoneMissing
<1>6. QED
  BY <1>4, <1>5

\* In membership form, the records accepted are the queued and the taken ones.
LEMMA AcceptedAre ==
  ASSUME SafeInv, NoneMissing
  PROVE  Accepted = Queued \cup InStages \cup buffer \cup Saving \cup Settled
<1>a. /\ PcOK /\ Control /\ Places
      /\ held \in [Workers -> Nat] /\ batch \in [Savers -> SUBSET Nat]
      /\ buffer \subseteq Records /\ stored \subseteq Records /\ dropped \subseteq Records
      /\ \A w \in Workers : held[w] \in Records \cup {NoRecord}
      /\ \A s \in Savers : batch[s] \subseteq Records
      /\ queue \in Seq(Records) /\ Len(queue) \in Nat /\ enqueued \in Nat
      /\ Taken \in Nat
  BY PlaceTypes, ConstantsAssumption DEF SafeInv, TypeInv, TypeOK, Places, QueueInOrder
<1>b. \A r \in Records : r \in Nat /\ 1 <= r
  BY ConstantsAssumption DEF Records
<1>1. Queued = (Taken + 1)..enqueued
  <2>1. DOMAIN queue = 1..Len(queue) /\ Taken + Len(queue) = enqueued
    BY <1>a DEF Taken
  <2>2. \A i \in 1..Len(queue) : queue[i] = Taken + i
    BY <1>a, <2>1 DEF Places, QueueInOrder
  <2>3. Queued \subseteq (Taken + 1)..enqueued
    BY <1>a, <2>1, <2>2 DEF Queued
  <2>4. ASSUME NEW r \in (Taken + 1)..enqueued PROVE r \in Queued
    <3>1. r - Taken \in 1..Len(queue) /\ Taken + (r - Taken) = r
      BY <1>a, <2>1
    <3>2. queue[r - Taken] = r
      BY <2>2, <3>1
    <3>3. QED
      BY <2>1, <3>1, <3>2 DEF Queued
  <2>5. QED
    BY <2>3, <2>4
<1>2. InStages \cup buffer \cup Saving \cup Settled = 1..Taken
  <2>1. ASSUME NEW r \in InStages \cup buffer \cup Saving \cup Settled PROVE r \in 1..Taken
    <3>1. r \in Records
      BY <1>a DEF Control, InStages, Saving, Settled
    <3>2. r <= Taken
      BY <1>a DEF Places, BelowTaken, InStages, Saving, Settled
    <3>3. QED
      BY <1>a, <1>b, <3>1, <3>2
  <2>2. ASSUME NEW r \in 1..Taken PROVE r \in InStages \cup buffer \cup Saving \cup Settled
    BY DEF NoneMissing, InStages, Saving, Settled
  <2>3. QED
    BY <2>1, <2>2
<1>3. Accepted = (1..Taken) \cup ((Taken + 1)..enqueued)
  BY <1>a DEF Accepted, Taken
<1>4. QED
  BY <1>1, <1>2, <1>3

ConservedInv == SafeInv /\ Calm /\ (~Abnormal => NoneMissing)

\* A run that was once abnormal stays so.
LEMMA AbnormalStays == TypeInv /\ Abnormal /\ [Next]_vars => Abnormal'
<1> SUFFICES ASSUME TypeInv, Abnormal, [Next]_vars PROVE Abnormal'
  OBVIOUS
<1>a. PcOK
  BY DEF TypeInv, TypeOK
<1> USE <1>a, TasksAssumption DEF PcOK, Abnormal, Tasks, Goto
<1>1. CASE ProducerPull
  BY <1>1 DEF ProducerPull
<1>2. CASE ProducerPut
  BY <1>2 DEF ProducerPut, QueueHasRoom
<1>3. CASE ProducerEnds
  BY <1>3 DEF ProducerEnds
<1>4. CASE SourceFails
  BY <1>4 DEF SourceFails
<1>5. ASSUME NEW w \in Workers, WorkerGet(w) PROVE Abnormal'
  BY <1>5 DEF WorkerGet
<1>6. ASSUME NEW w \in Workers, StageFails(w) PROVE Abnormal'
  BY <1>6 DEF StageFails, TaskDone
<1>7. ASSUME NEW w \in Workers, BufferRecord(w) PROVE Abnormal'
  BY <1>7 DEF BufferRecord, BatchIsFull, TaskDone, WithHeld
<1>8. ASSUME NEW w \in Workers, FillBatch(w) PROVE Abnormal'
  BY <1>8 DEF FillBatch, SwapBuffer, BatchIsFull, WithHeld
<1>9. ASSUME NEW w \in Workers, WorkerSaved(w) PROVE Abnormal'
  BY <1>9 DEF WorkerSaved, TaskDone, SaveOk, SaveRejected, Uncount
<1>10. ASSUME NEW w \in Workers, WorkerSaveRaises(w) PROVE Abnormal'
  BY <1>10 DEF WorkerSaveRaises, TaskDone
<1>11. ASSUME NEW w \in Workers, WorkerCancelled(w) PROVE Abnormal'
  BY <1>11 DEF WorkerCancelled, TaskDone, CancelledSave
<1>12. CASE FlusherWakes
  BY <1>12 DEF FlusherWakes, NothingToFlush, SwapBuffer
<1>13. CASE FlusherSaved
  BY <1>13 DEF FlusherSaved, SaveOk, SaveRejected, Uncount
<1>14. CASE FlusherDies
  BY <1>14 DEF FlusherDies
<1>15. CASE FlusherCancelled
  BY <1>15 DEF FlusherCancelled, CancelledSave
<1>16. CASE MainJoins
  BY <1>16 DEF MainJoins
<1>17. CASE MainWindsDown
  BY <1>17 DEF MainWindsDown, Joined
<1>18. CASE MainGathered
  BY <1>18 DEF MainGathered, NothingToFlush, SwapBuffer, RunEnds
<1>19. CASE MainSaved
  BY <1>19 DEF MainSaved, SaveOk, SaveRejected, Uncount, RunEnds
<1>20. CASE MainSaveRaises
  BY <1>20 DEF MainSaveRaises
<1>21. CASE MainGatherCancelled
  BY <1>21 DEF MainGatherCancelled
<1>22. CASE Interrupt
  BY <1>22 DEF Interrupt, ProducerCancelled, CancelledSave
<1>23. CASE UNCHANGED vars
  BY <1>23 DEF vars
<1>24. QED
  BY <1>1, <1>2, <1>3, <1>4, <1>5, <1>6, <1>7, <1>8, <1>9, <1>10, <1>11,
     <1>12, <1>13, <1>14, <1>15, <1>16, <1>17, <1>18, <1>19, <1>20, <1>21,
     <1>22, <1>23
  DEF Next, ProducerStep, WorkerStep, FlusherStep, MainStep, Terminated

\* In an environment whose repository raises only RepositoryError, no record the
\* producer has put is missing while the run is on its normal path: neither the
\* swap of the buffer nor the three tasks that save lose one.
THEOREM ConservedAlways ==
  ASSUME "unexpected_error" \notin SaveOutcomes
  PROVE  Spec => []Conserved
<1>1. Init => ConservedInv
  <2> SUFFICES ASSUME Init PROVE ConservedInv
    OBVIOUS
  <2>1. SafeInv /\ Taken = 0
    BY SafeInvInit
  <2>2. Calm
    BY TasksAssumption DEF Init, Calm, Tasks
  <2>3. NoneMissing
    BY <2>1 DEF NoneMissing
  <2>4. QED
    BY <2>1, <2>2, <2>3 DEF ConservedInv
<1>2. ConservedInv /\ [Next]_vars => ConservedInv'
  <2> SUFFICES ASSUME ConservedInv, [Next]_vars PROVE ConservedInv'
    OBVIOUS
  <2>1. SafeInv' /\ Calm'
    BY TypeInvStep, PlacesStep, CalmStep DEF ConservedInv, SafeInv
  <2>2. ASSUME ~Abnormal' PROVE NoneMissing'
    <3>1. ~Abnormal /\ NoneMissing
      BY <2>2, AbnormalStays DEF ConservedInv, SafeInv
    <3>2. CASE \E w \in Workers : WorkerGet(w)
      BY <3>1, <3>2, TakenKeeps DEF ConservedInv
    <3>3. CASE \A w \in Workers : ~WorkerGet(w)
      <4>1. NothingLost
        BY <2>2, <3>1, <3>3, LostOnlyAbnormally DEF ConservedInv, SafeInv
      <4>2. Taken' = Taken /\ Taken \in Nat
        BY <3>3, QueueStep DEF ConservedInv, SafeInv, Places, QueueInOrder
      <4>3. QED
        BY <3>1, <4>1, <4>2, NothingLostKeeps
    <3>4. QED
      BY <3>2, <3>3
  <2>3. QED
    BY <2>1, <2>2 DEF ConservedInv
<1>3. ConservedInv => Conserved
  BY AcceptedAre DEF ConservedInv, Conserved
<1>4. QED
  BY <1>1, <1>2, <1>3, PTL DEF Spec

-------------------------------------------------------------------------------
(* A record gets lost only in the hands of a task. *)

\* Where a step that loses nothing else than what is at risk takes the records.
LostAtRisk ==
  /\ \A w \in Workers : pc[w] = "stage" /\ ~shutdown =>
       \/ pc'[w] = "stage" /\ held'[w] = held[w]
       \/ held[w] \in (buffer \cup stored \cup dropped)'
       \/ \E s \in Savers : held[w] \in batch'[s]
  /\ \A r \in buffer : r \in buffer' \/ \E s \in Savers : r \in batch'[s]
  /\ ~shutdown /\ "unexpected_error" \notin SaveOutcomes =>
       \A s \in Savers : \A r \in batch[s] : r \in batch'[s] \cup (stored \cup dropped)'

LEMMA LostAtRiskStep == TypeInv /\ [Next]_vars => LostAtRisk
<1> SUFFICES ASSUME TypeInv, [Next]_vars PROVE LostAtRisk
  OBVIOUS
<1>a. /\ PcOK /\ Control
      /\ batch \in [Savers -> SUBSET Records] /\ held \in [Workers -> Records \cup {NoRecord}]
  BY DEF TypeInv, TypeOK
<1> USE <1>a, TasksAssumption DEF PcOK, LostAtRisk, Control, Tasks, Savers, Goto
<1>1. CASE ProducerPull
  BY <1>1 DEF ProducerPull
<1>2. CASE ProducerPut
  BY <1>2 DEF ProducerPut, QueueHasRoom
<1>3. CASE ProducerEnds
  BY <1>3 DEF ProducerEnds
<1>4. CASE SourceFails
  BY <1>4 DEF SourceFails
<1>5. ASSUME NEW w \in Workers, WorkerGet(w) PROVE LostAtRisk
  BY <1>5 DEF WorkerGet
<1>6. ASSUME NEW w \in Workers, StageFails(w) PROVE LostAtRisk
  BY <1>6 DEF StageFails, TaskDone
<1>7. ASSUME NEW w \in Workers, BufferRecord(w) PROVE LostAtRisk
  BY <1>7 DEF BufferRecord, BatchIsFull, TaskDone, WithHeld
<1>8. ASSUME NEW w \in Workers, FillBatch(w) PROVE LostAtRisk
  BY <1>8 DEF FillBatch, SwapBuffer, BatchIsFull, WithHeld
<1>9. ASSUME NEW w \in Workers, WorkerSaved(w) PROVE LostAtRisk
  BY <1>9 DEF WorkerSaved, TaskDone, SaveOk, SaveRejected, Uncount
<1>10. ASSUME NEW w \in Workers, WorkerSaveRaises(w) PROVE LostAtRisk
  BY <1>10 DEF WorkerSaveRaises, TaskDone
<1>11. ASSUME NEW w \in Workers, WorkerCancelled(w) PROVE LostAtRisk
  BY <1>11 DEF WorkerCancelled, TaskDone, CancelledSave
<1>12. CASE FlusherWakes
  BY <1>12 DEF FlusherWakes, NothingToFlush, SwapBuffer
<1>13. CASE FlusherSaved
  BY <1>13 DEF FlusherSaved, SaveOk, SaveRejected, Uncount
<1>14. CASE FlusherDies
  BY <1>14 DEF FlusherDies
<1>15. CASE FlusherCancelled
  BY <1>15 DEF FlusherCancelled, CancelledSave
<1>16. CASE MainJoins
  BY <1>16 DEF MainJoins
<1>17. CASE MainWindsDown
  BY <1>17 DEF MainWindsDown, Joined
<1>18. CASE MainGathered
  BY <1>18 DEF MainGathered, NothingToFlush, SwapBuffer, RunEnds
<1>19. CASE MainSaved
  BY <1>19 DEF MainSaved, SaveOk, SaveRejected, Uncount, RunEnds
<1>20. CASE MainSaveRaises
  BY <1>20 DEF MainSaveRaises
<1>21. CASE MainGatherCancelled
  BY <1>21 DEF MainGatherCancelled
<1>22. CASE Interrupt
  BY <1>22 DEF Interrupt, ProducerCancelled, CancelledSave
<1>23. CASE UNCHANGED vars
  BY <1>23 DEF vars
<1>24. QED
  BY <1>1, <1>2, <1>3, <1>4, <1>5, <1>6, <1>7, <1>8, <1>9, <1>10, <1>11,
     <1>12, <1>13, <1>14, <1>15, <1>16, <1>17, <1>18, <1>19, <1>20, <1>21,
     <1>22, <1>23
  DEF Next, ProducerStep, WorkerStep, FlusherStep, MainStep, Terminated

\* A queued record stays queued or goes to a consumer.
LEMMA QueuedStay ==
  TypeInv /\ [Next]_vars => Queued \subseteq Queued' \cup InStages'
<1> SUFFICES ASSUME TypeInv, [Next]_vars PROVE Queued \subseteq Queued' \cup InStages'
  OBVIOUS
<1>a. queue \in Seq(Records) /\ DOMAIN queue = 1..Len(queue) /\ Len(queue) \in Nat /\ PcOK
      /\ held \in [Workers -> Records \cup {NoRecord}]
  BY DEF TypeInv, TypeOK
<1>1. CASE ProducerPut
  <2>1. /\ DOMAIN queue' = 1..(Len(queue) + 1)
        /\ \A i \in 1..Len(queue) : queue'[i] = queue[i]
    BY <1>1, <1>a, ConstantsAssumption DEF ProducerPut, QueueHasRoom, Records
  <2>2. QED
    BY <2>1, <1>a DEF Queued
<1>2. ASSUME NEW w \in Workers, WorkerGet(w) PROVE Queued \subseteq Queued' \cup InStages'
  <2>1. queue # <<>> /\ queue' = Tail(queue) /\ pc'[w] = "stage" /\ held'[w] = Head(queue)
    BY <1>2, <1>a DEF WorkerGet, Goto, PcOK, Tasks
  <2>2. /\ DOMAIN queue' = 1..(Len(queue) - 1)
        /\ \A i \in DOMAIN queue' : queue'[i] = queue[i + 1]
        /\ Head(queue) = queue[1]
    BY <2>1, <1>a
  <2>3. ASSUME NEW i \in DOMAIN queue PROVE queue[i] \in Queued' \cup InStages'
    <3>1. CASE i = 1
      BY <2>1, <2>2, <3>1 DEF InStages
    <3>2. CASE i # 1
      <4>1. i - 1 \in DOMAIN queue' /\ queue'[i - 1] = queue[i]
        BY <2>2, <3>2, <1>a
      <4>2. QED
        BY <4>1 DEF Queued
    <3>3. QED
      BY <3>1, <3>2
  <2>4. QED
    BY <2>3 DEF Queued
<1>3. CASE UNCHANGED queue
  BY <1>3 DEF Queued
<1>4. QED
  BY <1>1, <1>2, <1>3
  DEF Next, ProducerStep, WorkerStep, FlusherStep, MainStep, Terminated, vars,
      ProducerPull, ProducerEnds, SourceFails, StageFails, BufferRecord, FillBatch,
      WorkerSaved, WorkerSaveRaises, WorkerCancelled, FlusherWakes, FlusherSaved,
      FlusherDies, FlusherCancelled, MainJoins, MainWindsDown, MainGathered,
      MainSaved, MainSaveRaises, MainGatherCancelled, Interrupt

\* No step makes a record vanish but the cancellation of the task that has it in
\* hand and a save that raises something else than a RepositoryError.
THEOREM LossOnlyInHandAlways == Spec => LossOnlyInHand
<1>1. TypeInv /\ [Next]_vars => [Pipeline \ (Pipeline \cup Settled)' \subseteq AtRisk]_vars
  <2> SUFFICES ASSUME TypeInv, [Next]_vars, NEW r \in Pipeline, r \notin AtRisk
               PROVE  r \in (Pipeline \cup Settled)'
    OBVIOUS
  <2>1. CASE r \in Queued
    BY <2>1, QueuedStay DEF Pipeline
  <2>2. CASE r \in InStages
    <3>1. PICK w \in Workers : pc[w] = "stage" /\ held[w] = r
      BY <2>2 DEF InStages
    <3>2. ~shutdown
      BY <2>2 DEF AtRisk
    <3>3. QED
      BY <3>1, <3>2, LostAtRiskStep DEF LostAtRisk, Pipeline, Settled, InStages, Saving
  <2>3. CASE r \in buffer
    BY <2>3, LostAtRiskStep DEF LostAtRisk, Pipeline, Saving
  <2>4. CASE r \in Saving
    <3>1. ~shutdown /\ "unexpected_error" \notin SaveOutcomes
      BY <2>4 DEF AtRisk
    <3>2. QED
      BY <2>4, <3>1, LostAtRiskStep DEF LostAtRisk, Pipeline, Settled, Saving
  <2>5. QED
    BY <2>1, <2>2, <2>3, <2>4 DEF Pipeline
<1>2. QED
  BY <1>1, TypeInvAlways, PTL DEF Spec, LossOnlyInHand

-------------------------------------------------------------------------------
(***************************************************************************)
(* The counters of the executor agree with where the records are, for any  *)
(* number of lines and consumers and any queue and batch size, in every    *)
(* environment whose repository raises only RepositoryError.               *)
(*                                                                         *)
(* The counts follow from the places: what is added to dropped was not in  *)
(* it, what joins the processed records was not among them, and the        *)
(* correction of a rejected batch takes off exactly those of its records   *)
(* that were counted before (all but the one of the consumer that saves).  *)
(***************************************************************************)

\* CountedProcessed, in membership form.
Counted ==
  {r \in Records :
     \/ r \in stored \cup buffer
     \/ \E s \in Savers : r \in batch[s] /\ (s \in Workers => r # held[s])}

LEMMA CountedIs == SafeInv => CountedProcessed = Counted
<1> SUFFICES ASSUME SafeInv PROVE CountedProcessed = Counted
  OBVIOUS
<1>a. /\ Control /\ Places /\ Workers \subseteq Savers
      /\ buffer \subseteq Records /\ stored \subseteq Records
      /\ \A s \in Savers : batch[s] \subseteq Records
  BY DEF SafeInv, TypeInv, TypeOK, Savers
<1>1. ASSUME NEW r \in CountedProcessed PROVE r \in Counted
  <2>1. r \in Records
    BY <1>a, <1>1 DEF CountedProcessed, Saving
  <2>2. CASE r \in stored \cup buffer
    BY <2>1, <2>2 DEF Counted
  <2>3. ASSUME NEW s \in Savers, r \in batch[s] PROVE r \in Counted
    <3>1. s \in Workers => r # held[s]
      BY <1>a, <1>1, <2>3 DEF Control, CountedProcessed
    <3>2. QED
      BY <2>1, <2>3, <3>1 DEF Counted
  <2>4. QED
    BY <1>1, <2>2, <2>3 DEF CountedProcessed, Saving
<1>2. ASSUME NEW r \in Counted PROVE r \in CountedProcessed
  <2>1. r \in stored \cup buffer \cup Saving
    BY <1>2 DEF Counted, Saving
  <2>2. ASSUME NEW w \in Workers, pc[w] = "save" PROVE r # held[w]
    BY <1>a, <1>2, <2>2 DEF Counted, Control, Places, BatchesApart
  <2>3. QED
    BY <2>1, <2>2 DEF CountedProcessed
<1>3. QED
  BY <1>1, <1>2

LEMMA CountedIsFinite == Counted \in SUBSET Records /\ IsFiniteSet(Counted)
BY BatchIsFinite DEF Counted

\* What the step lemmas use of the invariant.
LEMMA CountingFacts ==
  ASSUME SafeInv
  PROVE  /\ PcOK /\ Control /\ StagesApart /\ BatchesApart /\ BufferApart
         /\ held \in [Workers -> Records \cup {NoRecord}]
         /\ batch \in [Savers -> SUBSET Records]
         /\ buffer \subseteq Records /\ stored \subseteq Records /\ dropped \subseteq Records
         /\ processed \in Int /\ failed \in Nat
         /\ \A s \in Savers : IsFiniteSet(batch[s]) /\ Cardinality(batch[s]) \in Nat
         /\ IsFiniteSet(dropped) /\ Cardinality(dropped) \in Nat
         /\ NoRecord \notin Records
<1>1. /\ PcOK /\ Control /\ StagesApart /\ BatchesApart /\ BufferApart
      /\ held \in [Workers -> Records \cup {NoRecord}]
      /\ batch \in [Savers -> SUBSET Records]
      /\ buffer \subseteq Records /\ stored \subseteq Records /\ dropped \subseteq Records
      /\ processed \in Int /\ failed \in Nat
  BY DEF SafeInv, TypeInv, TypeOK, Places
<1>2. NoRecord \notin Records
  BY ConstantsAssumption DEF Records, NoRecord
<1>3. QED
  BY <1>1, <1>2, BatchIsFinite

-------------------------------------------------------------------------------
(* The failed records. *)

FailedExact == failed = Cardinality(dropped)

\* A record, or a batch, is dropped that was not dropped before.
LEMMA DropsCount ==
  ASSUME SafeInv, FailedExact,
         \/ UNCHANGED <<failed, dropped>>
         \/ \E w \in Workers : /\ pc[w] \in {"stage", "save"}
                               /\ dropped' = dropped \cup {held[w]}
                               /\ failed' = failed + 1
         \/ \E s \in Savers : SaveRejected(s)
  PROVE  FailedExact'
<1>1. CASE UNCHANGED <<failed, dropped>>
  BY <1>1 DEF FailedExact
<1>2. ASSUME NEW w \in Workers, pc[w] \in {"stage", "save"},
             dropped' = dropped \cup {held[w]}, failed' = failed + 1
      PROVE  FailedExact'
  <2>1. held[w] \notin dropped
    BY <1>2, CountingFacts DEF Control, StagesApart, BatchesApart, Savers
  <2>2. QED
    BY <1>2, <2>1, CountingFacts, FS_AddElement DEF FailedExact
<1>3. ASSUME NEW s \in Savers, SaveRejected(s) PROVE FailedExact'
  <2>1. dropped \cap batch[s] = {}
    BY CountingFacts DEF BatchesApart
  <2>2. IsFiniteSet(dropped) /\ IsFiniteSet(batch[s])
    BY CountingFacts
  <2>3. Cardinality(dropped \cup batch[s])
          = Cardinality(dropped) + Cardinality(batch[s]) - Cardinality(dropped \cap batch[s])
    BY <2>2, FS_Union
  <2>4. Cardinality(dropped \cap batch[s]) = 0
    BY <2>1, FS_EmptySet
  <2>5. Cardinality(dropped) \in Nat /\ Cardinality(batch[s]) \in Nat
    BY <2>2, FS_CardinalityType
  <2>6. Cardinality(dropped \cup batch[s]) = Cardinality(dropped) + Cardinality(batch[s])
    BY <2>3, <2>4, <2>5
  <2>7. QED
    BY <1>3, <2>6 DEF SaveRejected, FailedExact
<1>4. QED
  BY <1>1, <1>2, <1>3

LEMMA FailedExactStep == SafeInv /\ FailedExact /\ [Next]_vars => FailedExact'
<1> SUFFICES ASSUME SafeInv, FailedExact, [Next]_vars PROVE FailedExact'
  OBVIOUS
<1> USE DropsCount DEF Savers
<1>1. CASE ProducerPull
  BY <1>1 DEF ProducerPull
<1>2. CASE ProducerPut
  BY <1>2 DEF ProducerPut, QueueHasRoom
<1>3. CASE ProducerEnds
  BY <1>3 DEF ProducerEnds
<1>4. CASE SourceFails
  BY <1>4 DEF SourceFails
<1>5. ASSUME NEW w \in Workers, WorkerGet(w) PROVE FailedExact'
  BY <1>5 DEF WorkerGet
<1>6. ASSUME NEW w \in Workers, StageFails(w) PROVE FailedExact'
  BY <1>6 DEF StageFails
<1>7. ASSUME NEW w \in Workers, BufferRecord(w) PROVE FailedExact'
  BY <1>7 DEF BufferRecord, BatchIsFull, TaskDone, WithHeld
<1>8. ASSUME NEW w \in Workers, FillBatch(w) PROVE FailedExact'
  BY <1>8 DEF FillBatch, SwapBuffer, BatchIsFull, WithHeld
<1>9. ASSUME NEW w \in Workers, WorkerSaved(w) PROVE FailedExact'
  BY <1>9 DEF WorkerSaved, SaveOk
<1>10. ASSUME NEW w \in Workers, WorkerSaveRaises(w) PROVE FailedExact'
  BY <1>10 DEF WorkerSaveRaises
<1>11. ASSUME NEW w \in Workers, WorkerCancelled(w) PROVE FailedExact'
  BY <1>11 DEF WorkerCancelled, TaskDone, CancelledSave
<1>12. CASE FlusherWakes
  BY <1>12 DEF FlusherWakes, NothingToFlush, SwapBuffer
<1>13. CASE FlusherSaved
  BY <1>13 DEF FlusherSaved, SaveOk
<1>14. CASE FlusherDies
  BY <1>14 DEF FlusherDies
<1>15. CASE FlusherCancelled
  BY <1>15 DEF FlusherCancelled, CancelledSave
<1>16. CASE MainJoins
  BY <1>16 DEF MainJoins
<1>17. CASE MainWindsDown
  BY <1>17 DEF MainWindsDown, Joined
<1>18. CASE MainGathered
  BY <1>18 DEF MainGathered, NothingToFlush, SwapBuffer, RunEnds
<1>19. CASE MainSaved
  BY <1>19 DEF MainSaved, SaveOk
<1>20. CASE MainSaveRaises
  BY <1>20 DEF MainSaveRaises
<1>21. CASE MainGatherCancelled
  BY <1>21 DEF MainGatherCancelled
<1>22. CASE Interrupt
  BY <1>22 DEF Interrupt, ProducerCancelled, CancelledSave
<1>23. CASE UNCHANGED vars
  BY <1>23 DEF vars
<1>24. QED
  BY <1>1, <1>2, <1>3, <1>4, <1>5, <1>6, <1>7, <1>8, <1>9, <1>10, <1>11,
     <1>12, <1>13, <1>14, <1>15, <1>16, <1>17, <1>18, <1>19, <1>20, <1>21,
     <1>22, <1>23
  DEF Next, ProducerStep, WorkerStep, FlusherStep, MainStep, Terminated

\* The failed counter is the number of records given up on, in every environment
\* and at every moment, whatever is interrupted.
THEOREM FailedExactAlways == Spec => []FailedExact
<1>1. Init => FailedExact
  BY FS_EmptySet DEF Init, FailedExact
<1>2. SafeInv /\ FailedExact /\ [Next]_vars => FailedExact'
  BY FailedExactStep
<1>3. QED
  BY <1>1, <1>2, SafeInvAlways, PTL DEF Spec

-------------------------------------------------------------------------------
(* The processed records. *)

ProcessedExact == processed = Cardinality(Counted)

\* A consumer counts its record when it is buffered, or when its batch is stored.
LEMMA OneMore ==
  ASSUME SafeInv, ProcessedExact, NEW w \in Workers, pc[w] \in {"stage", "save"},
         Counted' = Counted \cup {held[w]}, processed' = processed + 1
  PROVE  ProcessedExact'
<1>1. held[w] \notin Counted
  <2>1. CASE pc[w] = "stage"
    BY <2>1, CountingFacts DEF StagesApart, Counted
  <2>2. CASE pc[w] = "save"
    BY <2>2, CountingFacts DEF Control, BatchesApart, Counted, Savers
  <2>3. QED
    BY <2>1, <2>2
<1>2. QED
  BY <1>1, CountedIsFinite, FS_AddElement DEF ProcessedExact

\* The saves of the flusher and of the final drain: every record was counted.
LEMMA BatchUncounted ==
  ASSUME SafeInv, ProcessedExact, NEW s \in Savers \ Workers,
         Counted' = Counted \ batch[s], processed' = Uncount(s)
  PROVE  ProcessedExact'
<1>1. batch[s] \subseteq Counted
  BY CountingFacts DEF Counted
<1>2. Counted \cap batch[s] = batch[s]
  BY <1>1
<1>3. Cardinality(Counted \ batch[s]) = Cardinality(Counted) - Cardinality(batch[s])
  BY <1>2, CountedIsFinite, FS_Difference
<1>4. QED
  BY <1>3 DEF ProcessedExact, Uncount

\* The save of a consumer: all but its own record were counted, and it counts that
\* one although the batch was rejected.
LEMMA OwnBatchUncounted ==
  ASSUME SafeInv, ProcessedExact, NEW w \in Workers, pc[w] = "save",
         Counted' = Counted \ batch[w], processed' = Uncount(w) + 1
  PROVE  ProcessedExact'
<1>1. w \in Savers /\ held[w] \in batch[w] /\ IsFiniteSet(batch[w])
      /\ Cardinality(batch[w]) \in Nat /\ batch[w] \subseteq Records
  BY CountingFacts DEF Control, Savers
<1>2. Counted \cap batch[w] = batch[w] \ {held[w]}
  BY <1>1, CountingFacts DEF Counted, BatchesApart
<1>3. Cardinality(batch[w] \ {held[w]}) = Cardinality(batch[w]) - 1
  BY <1>1, FS_RemoveElement
<1>4. Cardinality(Counted \ batch[w]) = Cardinality(Counted) - (Cardinality(batch[w]) - 1)
  <2>1. Cardinality(Counted \ batch[w])
          = Cardinality(Counted) - Cardinality(Counted \cap batch[w])
    BY CountedIsFinite, FS_Difference
  <2>2. QED
    BY <1>2, <1>3, <2>1
<1>5. Cardinality(Counted) \in Nat
  BY CountedIsFinite, FS_CardinalityType
<1>6. QED
  BY <1>1, <1>4, <1>5 DEF ProcessedExact, Uncount

\* How the processed counter and the records it counts move together.
CountsFollow ==
  \/ Counted' = Counted /\ processed' = processed
  \/ \E w \in Workers : /\ pc[w] \in {"stage", "save"}
                        /\ Counted' = Counted \cup {held[w]}
                        /\ processed' = processed + 1
  \/ \E s \in Savers \ Workers : /\ Counted' = Counted \ batch[s]
                                 /\ processed' = Uncount(s)
  \/ \E w \in Workers : /\ pc[w] = "save"
                        /\ Counted' = Counted \ batch[w]
                        /\ processed' = Uncount(w) + 1

LEMMA ProcessedExactStep ==
  ASSUME "unexpected_error" \notin SaveOutcomes
  PROVE  SafeInv /\ Calm /\ ProcessedExact /\ [Next]_vars /\ ~Abnormal' => ProcessedExact'
<1> SUFFICES ASSUME SafeInv, Calm, ProcessedExact, [Next]_vars, ~Abnormal'
             PROVE  ProcessedExact'
  OBVIOUS
<1>a. ~Abnormal
  BY AbnormalStays DEF SafeInv
<1>b. SUFFICES CountsFollow
  BY OneMore, BatchUncounted, OwnBatchUncounted DEF CountsFollow, ProcessedExact
<1> USE <1>a, CountingFacts, TasksAssumption
    DEF PcOK, Control, Calm, Abnormal, Tasks, Savers, Goto, NoRecord
<1>1. CASE ProducerPull
  <2>1. Counted' = Counted /\ processed' = processed
    BY <1>1 DEF ProducerPull, Counted
  <2>2. QED
    BY <2>1 DEF CountsFollow
<1>2. CASE ProducerPut
  <2>1. Counted' = Counted /\ processed' = processed
    BY <1>2 DEF ProducerPut, QueueHasRoom, Counted
  <2>2. QED
    BY <2>1 DEF CountsFollow
<1>3. CASE ProducerEnds
  <2>1. Counted' = Counted /\ processed' = processed
    BY <1>3 DEF ProducerEnds, Counted
  <2>2. QED
    BY <2>1 DEF CountsFollow
<1>4. CASE SourceFails
  BY <1>4 DEF SourceFails
<1>5. ASSUME NEW w \in Workers, WorkerGet(w) PROVE CountsFollow
  <2>1. Counted' = Counted /\ processed' = processed
    BY <1>5 DEF WorkerGet, Counted
  <2>2. QED
    BY <2>1 DEF CountsFollow
<1>6. ASSUME NEW w \in Workers, StageFails(w) PROVE CountsFollow
  <2>1. Counted' = Counted /\ processed' = processed
    BY <1>6 DEF StageFails, TaskDone, Counted
  <2>2. QED
    BY <2>1 DEF CountsFollow
<1>7. ASSUME NEW w \in Workers, BufferRecord(w) PROVE CountsFollow
  <2>1. Counted' = Counted \cup {held[w]} /\ pc[w] = "stage" /\ processed' = processed + 1
    BY <1>7 DEF BufferRecord, BatchIsFull, TaskDone, WithHeld, Counted, StagesApart
  <2>2. QED
    BY <2>1 DEF CountsFollow
<1>8. ASSUME NEW w \in Workers, FillBatch(w) PROVE CountsFollow
  <2>1. Counted' = Counted /\ processed' = processed
    BY <1>8 DEF FillBatch, SwapBuffer, BatchIsFull, WithHeld, Counted, StagesApart
  <2>2. QED
    BY <2>1 DEF CountsFollow
<1>9. ASSUME NEW w \in Workers, WorkerSaved(w) PROVE CountsFollow
  <2>1. pc[w] = "save"
    BY <1>9 DEF WorkerSaved
  <2>2. CASE SaveOk(w) /\ processed' = processed + 1
    <3>1. Counted' = Counted \cup {held[w]}
      BY <1>9, <2>2 DEF WorkerSaved, TaskDone, SaveOk, Counted, BatchesApart
    <3>2. QED
      BY <2>1, <2>2, <3>1 DEF CountsFollow
  <2>3. CASE SaveRejected(w) /\ processed' = Uncount(w) + 1
    <3>1. Counted' = Counted \ batch[w]
      BY <1>9, <2>3 DEF WorkerSaved, TaskDone, SaveRejected, Counted, BatchesApart
    <3>2. QED
      BY <2>1, <2>3, <3>1 DEF CountsFollow
  <2>4. QED
    BY <1>9, <2>2, <2>3 DEF WorkerSaved
<1>10. ASSUME NEW w \in Workers, WorkerSaveRaises(w) PROVE CountsFollow
  BY <1>10 DEF WorkerSaveRaises
<1>11. ASSUME NEW w \in Workers, WorkerCancelled(w) PROVE CountsFollow
  <2>1. Counted' = Counted /\ processed' = processed
    BY <1>11 DEF WorkerCancelled, TaskDone, CancelledSave, Counted
  <2>2. QED
    BY <2>1 DEF CountsFollow
<1>12. CASE FlusherWakes
  <2>1. Counted' = Counted /\ processed' = processed
    BY <1>12 DEF FlusherWakes, NothingToFlush, SwapBuffer, Counted
  <2>2. QED
    BY <2>1 DEF CountsFollow
<1>13. CASE FlusherSaved
  <2>1. CASE SaveOk(Flusher) /\ processed' = processed
    <3>1. Counted' = Counted
      BY <1>13, <2>1 DEF FlusherSaved, SaveOk, Counted
    <3>2. QED
      BY <2>1, <3>1 DEF CountsFollow
  <2>2. CASE SaveRejected(Flusher) /\ processed' = Uncount(Flusher)
    <3>1. Counted' = Counted \ batch[Flusher]
      BY <1>13, <2>2 DEF FlusherSaved, SaveRejected, Counted, BatchesApart
    <3>2. QED
      BY <2>2, <3>1 DEF CountsFollow
  <2>3. QED
    BY <1>13, <2>1, <2>2 DEF FlusherSaved
<1>14. CASE FlusherDies
  BY <1>14 DEF FlusherDies
<1>15. CASE FlusherCancelled
  BY <1>15 DEF FlusherCancelled
<1>16. CASE MainJoins
  <2>1. Counted' = Counted /\ processed' = processed
    BY <1>16 DEF MainJoins, Counted
  <2>2. QED
    BY <2>1 DEF CountsFollow
<1>17. CASE MainWindsDown
  <2>1. Counted' = Counted /\ processed' = processed
    BY <1>17 DEF MainWindsDown, Joined, Counted
  <2>2. QED
    BY <2>1 DEF CountsFollow
<1>18. CASE MainGathered
  <2>1. Counted' = Counted /\ processed' = processed
    BY <1>18 DEF MainGathered, NothingToFlush, SwapBuffer, RunEnds, Counted
  <2>2. QED
    BY <2>1 DEF CountsFollow
<1>19. CASE MainSaved
  <2>1. CASE SaveOk(Main) /\ processed' = processed
    <3>1. Counted' = Counted
      BY <1>19, <2>1 DEF MainSaved, SaveOk, Counted
    <3>2. QED
      BY <2>1, <3>1 DEF CountsFollow
  <2>2. CASE SaveRejected(Main) /\ processed' = Uncount(Main)
    <3>1. Counted' = Counted \ batch[Main]
      BY <1>19, <2>2 DEF MainSaved, SaveRejected, Counted, BatchesApart
    <3>2. QED
      BY <2>2, <3>1 DEF CountsFollow
  <2>3. QED
    BY <1>19, <2>1, <2>2 DEF MainSaved
<1>20. CASE MainSaveRaises
  BY <1>20 DEF MainSaveRaises
<1>21. CASE MainGatherCancelled
  <2>1. Counted' = Counted /\ processed' = processed
    BY <1>21 DEF MainGatherCancelled, Counted
  <2>2. QED
    BY <2>1 DEF CountsFollow
<1>22. CASE Interrupt
  BY <1>22 DEF Interrupt
<1>23. CASE UNCHANGED vars
  <2>1. Counted' = Counted /\ processed' = processed
    BY <1>23 DEF vars, Counted
  <2>2. QED
    BY <2>1 DEF CountsFollow
<1>24. QED
  BY <1>1, <1>2, <1>3, <1>4, <1>5, <1>6, <1>7, <1>8, <1>9, <1>10, <1>11,
     <1>12, <1>13, <1>14, <1>15, <1>16, <1>17, <1>18, <1>19, <1>20, <1>21,
     <1>22, <1>23
  DEF Next, ProducerStep, WorkerStep, FlusherStep, MainStep, Terminated

CountersInv == SafeInv /\ Calm /\ FailedExact /\ (~Abnormal => ProcessedExact)

\* The counters the run reports agree with where the records are, at every moment of
\* a run on its normal path, whichever batches the repository rejects.
THEOREM CountersExactAlways ==
  ASSUME "unexpected_error" \notin SaveOutcomes
  PROVE  Spec => []CountersExact
<1>1. Init => CountersInv
  <2> SUFFICES ASSUME Init PROVE CountersInv
    OBVIOUS
  <2>1. SafeInv
    BY SafeInvInit
  <2>2. Calm
    BY TasksAssumption DEF Init, Calm, Tasks
  <2>3. Counted = {}
    BY DEF Init, Counted
  <2>4. FailedExact /\ ProcessedExact
    BY <2>3, FS_EmptySet DEF Init, FailedExact, ProcessedExact
  <2>5. QED
    BY <2>1, <2>2, <2>4 DEF CountersInv
<1>2. CountersInv /\ [Next]_vars => CountersInv'
  <2> SUFFICES ASSUME CountersInv, [Next]_vars PROVE CountersInv'
    OBVIOUS
  <2>1. SafeInv' /\ Calm'
    BY TypeInvStep, PlacesStep, CalmStep DEF CountersInv, SafeInv
  <2>2. FailedExact'
    BY FailedExactStep DEF CountersInv
  <2>3. ~Abnormal' => ProcessedExact'
    BY ProcessedExactStep, AbnormalStays DEF CountersInv, SafeInv
  <2>4. QED
    BY <2>1, <2>2, <2>3 DEF CountersInv
<1>3. CountersInv => CountersExact
  BY CountedIs DEF CountersInv, CountersExact, FailedExact, ProcessedExact
<1>4. QED
  BY <1>1, <1>2, <1>3, PTL DEF Spec

-------------------------------------------------------------------------------
(***************************************************************************)
(* How a run of the executor ends, and that the executor implements        *)
(* RecordLedger, for any number of lines and consumers and any queue and   *)
(* batch size.                                                             *)
(*                                                                         *)
(* WoundDown says what is behind the main task at each point of its        *)
(* wind-down: after the join the source is exhausted and the queue empty,  *)
(* after the gather every task has stopped, and after the final swap the   *)
(* buffer is empty and nobody is left to fill it.                          *)
(***************************************************************************)

PastGather == pc[Main] = "final_save" \/ Ended

WoundDown ==
  /\ pc[Producer] = "done" => enqueued = NumLines
  /\ pc[Main] = "join" => pc[Producer] = "done"
  /\ shutdown /\ ~Abnormal => pc[Producer] = "done" /\ queue = <<>>
  /\ PastGather => Gathered
  /\ PastGather /\ ~interrupted => buffer = {}
  /\ pc[Main] = "returned" => pc[Producer] = "done" /\ ~interrupted

LEMMA WoundDownStep == TypeInv /\ Calm /\ WoundDown /\ [Next]_vars => WoundDown'
<1> SUFFICES ASSUME TypeInv, Calm, WoundDown, [Next]_vars PROVE WoundDown'
  OBVIOUS
<1>a. /\ PcOK /\ Calm /\ Control /\ WoundDown
      /\ enqueued \in 0..NumLines /\ queue \in Seq(Records)
  BY DEF TypeInv, TypeOK
<1>b. Joined => queue = <<>>
  <2>1. Cardinality(Busy) \in Nat /\ Len(queue) \in Nat
    BY <1>a, BusyIsFinite
  <2>2. Joined => Len(queue) = 0
    BY <2>1 DEF Joined, TypeInv, JoinCounts
  <2>3. QED
    BY <1>a, <2>2
<1> USE <1>a, TasksAssumption
    DEF PcOK, Calm, Abnormal, Control, WoundDown, PastGather, Ended, Gathered, Tasks, Goto
<1>1. CASE ProducerPull
  BY <1>1 DEF ProducerPull
<1>2. CASE ProducerPut
  BY <1>2 DEF ProducerPut, QueueHasRoom
<1>3. CASE ProducerEnds
  BY <1>3 DEF ProducerEnds
<1>4. CASE SourceFails
  BY <1>4 DEF SourceFails
<1>5. ASSUME NEW w \in Workers, WorkerGet(w) PROVE WoundDown'
  BY <1>5 DEF WorkerGet
<1>6. ASSUME NEW w \in Workers, StageFails(w) PROVE WoundDown'
  BY <1>6 DEF StageFails, TaskDone
<1>7. ASSUME NEW w \in Workers, BufferRecord(w) PROVE WoundDown'
  BY <1>7 DEF BufferRecord, BatchIsFull, TaskDone, WithHeld
<1>8. ASSUME NEW w \in Workers, FillBatch(w) PROVE WoundDown'
  BY <1>8 DEF FillBatch, SwapBuffer, BatchIsFull, WithHeld
<1>9. ASSUME NEW w \in Workers, WorkerSaved(w) PROVE WoundDown'
  BY <1>9 DEF WorkerSaved, TaskDone, SaveOk, SaveRejected, Uncount
<1>10. ASSUME NEW w \in Workers, WorkerSaveRaises(w) PROVE WoundDown'
  BY <1>10 DEF WorkerSaveRaises, TaskDone
<1>11. ASSUME NEW w \in Workers, WorkerCancelled(w) PROVE WoundDown'
  BY <1>11 DEF WorkerCancelled, TaskDone, CancelledSave
<1>12. CASE FlusherWakes
  BY <1>12 DEF FlusherWakes, NothingToFlush, SwapBuffer
<1>13. CASE FlusherSaved
  BY <1>13 DEF FlusherSaved, SaveOk, SaveRejected, Uncount
<1>14. CASE FlusherDies
  BY <1>14 DEF FlusherDies
<1>15. CASE FlusherCancelled
  BY <1>15 DEF FlusherCancelled, CancelledSave
<1>16. CASE MainJoins
  BY <1>16 DEF MainJoins
<1>17. CASE MainWindsDown
  BY <1>17, <1>b DEF MainWindsDown
<1>18. CASE MainGathered
  BY <1>18 DEF MainGathered, NothingToFlush, SwapBuffer, RunEnds
<1>19. CASE MainSaved
  BY <1>19 DEF MainSaved, SaveOk, SaveRejected, Uncount, RunEnds
<1>20. CASE MainSaveRaises
  BY <1>20 DEF MainSaveRaises
<1>21. CASE MainGatherCancelled
  BY <1>21 DEF MainGatherCancelled
<1>22. CASE Interrupt
  BY <1>22 DEF Interrupt, ProducerCancelled, CancelledSave
<1>23. CASE UNCHANGED vars
  BY <1>23 DEF vars
<1>24. QED
  BY <1>1, <1>2, <1>3, <1>4, <1>5, <1>6, <1>7, <1>8, <1>9, <1>10, <1>11,
     <1>12, <1>13, <1>14, <1>15, <1>16, <1>17, <1>18, <1>19, <1>20, <1>21,
     <1>22, <1>23
  DEF Next, ProducerStep, WorkerStep, FlusherStep, MainStep, Terminated

EndInv == SafeInv /\ Calm /\ WoundDown

LEMMA EndInvInit == Init => EndInv
<1> SUFFICES ASSUME Init PROVE EndInv
  OBVIOUS
<1>1. SafeInv
  BY SafeInvInit
<1>2. Calm /\ WoundDown
  BY TasksAssumption DEF Init, Calm, WoundDown, PastGather, Ended, Tasks
<1>3. QED
  BY <1>1, <1>2 DEF EndInv

LEMMA EndInvStep == EndInv /\ [Next]_vars => EndInv'
BY TypeInvStep, PlacesStep, CalmStep, WoundDownStep DEF EndInv, SafeInv

LEMMA EndInvAlways == Spec => []EndInv
BY EndInvInit, EndInvStep, PTL DEF Spec

\* Unless it is interrupted a run leaves nothing behind when it ends, whichever saves
\* failed, although the flusher died on the way and although the source raised.
THEOREM NothingLeftBehindAlways == Spec => []NothingLeftBehind
<1>1. EndInv => NothingLeftBehind
  <2> SUFFICES ASSUME EndInv, Ended, ~interrupted
               PROVE  /\ Busy = {} /\ buffer = {} /\ Saving = {}
                      /\ pc[Main] = "returned" => enqueued = NumLines /\ queue = <<>>
    BY DEF NothingLeftBehind
  <2>a. PcOK /\ Control /\ WoundDown /\ Gathered
    BY DEF EndInv, SafeInv, TypeInv, TypeOK, WoundDown, PastGather
  <2>1. Busy = {}
    BY <2>a DEF Gathered, Busy
  <2>2. buffer = {}
    BY <2>a DEF WoundDown, PastGather
  <2>3. \A s \in Savers : batch[s] = {}
    BY <2>a, TasksAssumption DEF Control, Gathered, Savers, Ended
  <2>4. pc[Main] = "returned" => enqueued = NumLines /\ queue = <<>>
    BY <2>a DEF WoundDown, Control, Abnormal
  <2>5. QED
    BY <2>1, <2>2, <2>3, <2>4 DEF Saving
<1>2. QED
  BY <1>1, EndInvAlways, PTL

-------------------------------------------------------------------------------
(* The refinement of RecordLedger. *)

\* Nothing but the stages fails, and a repository that says so.
CalmEnvironment ==
  /\ "unexpected_error" \notin SaveOutcomes
  /\ SourceMayFail = FALSE
  /\ MayInterrupt = FALSE

LedgerInv ==
  SafeInv /\ Calm /\ WoundDown /\ BatchesBounded /\ ~Abnormal
    /\ NoneMissing /\ FailedExact /\ ProcessedExact

LEMMA NeverAbnormal ==
  ASSUME CalmEnvironment
  PROVE  PcOK /\ ~Abnormal /\ [Next]_vars => ~Abnormal'
<1> SUFFICES ASSUME PcOK, ~Abnormal, [Next]_vars PROVE ~Abnormal'
  OBVIOUS
<1> USE TasksAssumption DEF CalmEnvironment, PcOK, Abnormal, Tasks, Goto
<1>1. CASE ProducerPull
  BY <1>1 DEF ProducerPull
<1>2. CASE ProducerPut
  BY <1>2 DEF ProducerPut, QueueHasRoom
<1>3. CASE ProducerEnds
  BY <1>3 DEF ProducerEnds
<1>4. CASE SourceFails
  BY <1>4 DEF SourceFails
<1>5. ASSUME NEW w \in Workers, WorkerGet(w) PROVE ~Abnormal'
  BY <1>5 DEF WorkerGet
<1>6. ASSUME NEW w \in Workers, StageFails(w) PROVE ~Abnormal'
  BY <1>6 DEF StageFails, TaskDone
<1>7. ASSUME NEW w \in Workers, BufferRecord(w) PROVE ~Abnormal'
  BY <1>7 DEF BufferRecord, BatchIsFull, TaskDone, WithHeld
<1>8. ASSUME NEW w \in Workers, FillBatch(w) PROVE ~Abnormal'
  BY <1>8 DEF FillBatch, SwapBuffer, BatchIsFull, WithHeld
<1>9. ASSUME NEW w \in Workers, WorkerSaved(w) PROVE ~Abnormal'
  BY <1>9 DEF WorkerSaved, TaskDone, SaveOk, SaveRejected, Uncount
<1>10. ASSUME NEW w \in Workers, WorkerSaveRaises(w) PROVE ~Abnormal'
  BY <1>10 DEF WorkerSaveRaises, TaskDone
<1>11. ASSUME NEW w \in Workers, WorkerCancelled(w) PROVE ~Abnormal'
  BY <1>11 DEF WorkerCancelled, TaskDone, CancelledSave
<1>12. CASE FlusherWakes
  BY <1>12 DEF FlusherWakes, NothingToFlush, SwapBuffer
<1>13. CASE FlusherSaved
  BY <1>13 DEF FlusherSaved, SaveOk, SaveRejected, Uncount
<1>14. CASE FlusherDies
  BY <1>14 DEF FlusherDies
<1>15. CASE FlusherCancelled
  BY <1>15 DEF FlusherCancelled, CancelledSave
<1>16. CASE MainJoins
  BY <1>16 DEF MainJoins
<1>17. CASE MainWindsDown
  BY <1>17 DEF MainWindsDown, Joined
<1>18. CASE MainGathered
  BY <1>18 DEF MainGathered, NothingToFlush, SwapBuffer, RunEnds
<1>19. CASE MainSaved
  BY <1>19 DEF MainSaved, SaveOk, SaveRejected, Uncount, RunEnds
<1>20. CASE MainSaveRaises
  BY <1>20 DEF MainSaveRaises
<1>21. CASE MainGatherCancelled
  BY <1>21 DEF MainGatherCancelled
<1>22. CASE Interrupt
  BY <1>22 DEF Interrupt, ProducerCancelled, CancelledSave
<1>23. CASE UNCHANGED vars
  BY <1>23 DEF vars
<1>24. QED
  BY <1>1, <1>2, <1>3, <1>4, <1>5, <1>6, <1>7, <1>8, <1>9, <1>10, <1>11,
     <1>12, <1>13, <1>14, <1>15, <1>16, <1>17, <1>18, <1>19, <1>20, <1>21,
     <1>22, <1>23
  DEF Next, ProducerStep, WorkerStep, FlusherStep, MainStep, Terminated

LEMMA LedgerInvStep ==
  ASSUME CalmEnvironment
  PROVE  LedgerInv /\ [Next]_vars => LedgerInv'
<1> SUFFICES ASSUME LedgerInv, [Next]_vars PROVE LedgerInv'
  OBVIOUS
<1>1. SafeInv' /\ Calm' /\ WoundDown'
  BY EndInvStep DEF LedgerInv, EndInv
<1>2. BatchesBounded'
  BY BatchesBoundedStep DEF LedgerInv, SafeInv
<1>3. ~Abnormal'
  BY NeverAbnormal DEF LedgerInv, SafeInv, TypeInv, TypeOK
<1>4. NoneMissing'
  <2>1. CASE \E w \in Workers : WorkerGet(w)
    BY <2>1, TakenKeeps DEF LedgerInv
  <2>2. CASE \A w \in Workers : ~WorkerGet(w)
    <3>1. NothingLost
      BY <1>3, <2>2, LostOnlyAbnormally DEF LedgerInv, SafeInv, CalmEnvironment
    <3>2. Taken' = Taken /\ Taken \in Nat
      BY <2>2, QueueStep DEF LedgerInv, SafeInv, Places, QueueInOrder
    <3>3. QED
      BY <3>1, <3>2, NothingLostKeeps DEF LedgerInv
  <2>3. QED
    BY <2>1, <2>2
<1>5. FailedExact' /\ ProcessedExact'
  BY <1>3, FailedExactStep, ProcessedExactStep DEF LedgerInv, CalmEnvironment
<1>6. QED
  BY <1>1, <1>2, <1>3, <1>4, <1>5 DEF LedgerInv

\* What a step does to the ledger while the run has not returned.
Settles ==
  \E group \in SUBSET ((1..enqueued) \ (stored \cup dropped)) :
    /\ Cardinality(group) <= BatchSize
    /\ \/ stored' = stored \cup group /\ UNCHANGED dropped
       \/ dropped' = dropped \cup group /\ UNCHANGED stored
    /\ UNCHANGED enqueued

\* A batch in a saver's hands, and a record in the stages, is pending and small.
LEMMA GroupsArePending ==
  ASSUME LedgerInv
  PROVE  /\ \A s \in Savers : /\ batch[s] \subseteq (1..enqueued) \ (stored \cup dropped)
                              /\ Cardinality(batch[s]) <= BatchSize
         /\ \A w \in Workers : pc[w] = "stage" =>
              /\ {held[w]} \subseteq (1..enqueued) \ (stored \cup dropped)
              /\ Cardinality({held[w]}) <= BatchSize
<1>a. /\ Control /\ StagesApart /\ BatchesApart /\ BelowTaken /\ BatchesBounded
      /\ held \in [Workers -> Records \cup {NoRecord}]
      /\ \A s \in Savers : batch[s] \subseteq Records /\ Cardinality(batch[s]) \in Nat
      /\ Taken \in Nat /\ Taken <= enqueued /\ enqueued \in Nat
      /\ \A r \in Records : r \in Nat /\ 1 <= r
  <2>1. Len(queue) \in Nat /\ enqueued \in Nat /\ Taken \in Nat
    BY PlaceTypes DEF LedgerInv, SafeInv, Places, QueueInOrder
  <2>2. Taken <= enqueued
    BY <2>1 DEF Taken
  <2>3. \A r \in Records : r \in Nat /\ 1 <= r
    BY ConstantsAssumption DEF Records
  <2>4. QED
    BY <2>1, <2>2, <2>3, CountingFacts DEF LedgerInv, SafeInv, Places
<1>1. ASSUME NEW s \in Savers PROVE Cardinality(batch[s]) <= BatchSize
  BY <1>a, ConstantsAssumption DEF BatchesBounded, Savers
<1>2. ASSUME NEW s \in Savers, NEW r \in batch[s]
      PROVE  r \in (1..enqueued) \ (stored \cup dropped)
  BY <1>a DEF BelowTaken, BatchesApart
<1>3. ASSUME NEW w \in Workers, pc[w] = "stage"
      PROVE  /\ held[w] \in (1..enqueued) \ (stored \cup dropped)
             /\ Cardinality({held[w]}) <= BatchSize
  <2>1. Cardinality({held[w]}) = 1
    BY FS_Singleton
  <2>2. QED
    BY <1>a, <1>3, <2>1, ConstantsAssumption DEF Control, BelowTaken, StagesApart
<1>4. QED
  BY <1>1, <1>2, <1>3

\* Every step of the executor accepts a line, settles a group of pending ones, or
\* changes neither.
LEMMA LedgerMoves ==
  ASSUME CalmEnvironment
  PROVE  LedgerInv /\ [Next]_vars =>
           \/ Settles
           \/ UNCHANGED <<enqueued, stored, dropped>>
           \/ /\ enqueued < NumLines /\ enqueued' = enqueued + 1
              /\ UNCHANGED <<stored, dropped>> /\ pc'[Main] = pc[Main]
<1> SUFFICES ASSUME LedgerInv, [Next]_vars
             PROVE  \/ Settles
                    \/ UNCHANGED <<enqueued, stored, dropped>>
                    \/ /\ enqueued < NumLines /\ enqueued' = enqueued + 1
                       /\ UNCHANGED <<stored, dropped>> /\ pc'[Main] = pc[Main]
  OBVIOUS
<1> DEFINE Goal == \/ Settles
                   \/ UNCHANGED <<enqueued, stored, dropped>>
                   \/ /\ enqueued < NumLines /\ enqueued' = enqueued + 1
                      /\ UNCHANGED <<stored, dropped>> /\ pc'[Main] = pc[Main]
<1>a. PcOK /\ Control /\ Calm /\ ~Abnormal
  BY DEF LedgerInv, SafeInv, TypeInv, TypeOK
<1>b. \A s \in Savers : SaveOk(s) /\ UNCHANGED enqueued => Settles
  BY GroupsArePending DEF SaveOk, Settles
<1>c. \A s \in Savers : SaveRejected(s) /\ UNCHANGED enqueued => Settles
  BY GroupsArePending DEF SaveRejected, Settles
<1> USE <1>a, TasksAssumption
    DEF PcOK, Control, Calm, Abnormal, Tasks, Savers, Goto, CalmEnvironment
<1>1. CASE ProducerPull
  BY <1>1 DEF ProducerPull
<1>2. CASE ProducerPut
  BY <1>2 DEF ProducerPut, QueueHasRoom
<1>3. CASE ProducerEnds
  BY <1>3 DEF ProducerEnds
<1>4. CASE SourceFails
  BY <1>4 DEF SourceFails
<1>5. ASSUME NEW w \in Workers, WorkerGet(w) PROVE Goal
  BY <1>5 DEF WorkerGet
<1>6. ASSUME NEW w \in Workers, StageFails(w) PROVE Goal
  BY <1>6, GroupsArePending DEF StageFails, Settles
<1>7. ASSUME NEW w \in Workers, BufferRecord(w) PROVE Goal
  BY <1>7 DEF BufferRecord, BatchIsFull, TaskDone, WithHeld
<1>8. ASSUME NEW w \in Workers, FillBatch(w) PROVE Goal
  BY <1>8 DEF FillBatch, SwapBuffer, BatchIsFull, WithHeld
<1>9. ASSUME NEW w \in Workers, WorkerSaved(w) PROVE Goal
  BY <1>9, <1>b, <1>c DEF WorkerSaved
<1>10. ASSUME NEW w \in Workers, WorkerSaveRaises(w) PROVE Goal
  BY <1>10 DEF WorkerSaveRaises, TaskDone
<1>11. ASSUME NEW w \in Workers, WorkerCancelled(w) PROVE Goal
  BY <1>11 DEF WorkerCancelled, TaskDone, CancelledSave
<1>12. CASE FlusherWakes
  BY <1>12 DEF FlusherWakes, NothingToFlush, SwapBuffer
<1>13. CASE FlusherSaved
  BY <1>13, <1>b, <1>c DEF FlusherSaved
<1>14. CASE FlusherDies
  BY <1>14 DEF FlusherDies
<1>15. CASE FlusherCancelled
  BY <1>15 DEF FlusherCancelled, CancelledSave
<1>16. CASE MainJoins
  BY <1>16 DEF MainJoins
<1>17. CASE MainWindsDown
  BY <1>17 DEF MainWindsDown, Joined
<1>18. CASE MainGathered
  BY <1>18 DEF MainGathered, NothingToFlush, SwapBuffer, RunEnds
<1>19. CASE MainSaved
  BY <1>19, <1>b, <1>c DEF MainSaved
<1>20. CASE MainSaveRaises
  BY <1>20 DEF MainSaveRaises
<1>21. CASE MainGatherCancelled
  BY <1>21 DEF MainGatherCancelled
<1>22. CASE Interrupt
  BY <1>22 DEF Interrupt, ProducerCancelled, CancelledSave
<1>23. CASE UNCHANGED vars
  BY <1>23 DEF vars
<1>24. QED
  BY <1>1, <1>2, <1>3, <1>4, <1>5, <1>6, <1>7, <1>8, <1>9, <1>10, <1>11,
     <1>12, <1>13, <1>14, <1>15, <1>16, <1>17, <1>18, <1>19, <1>20, <1>21,
     <1>22, <1>23
  DEF Next, ProducerStep, WorkerStep, FlusherStep, MainStep, Terminated

\* A run that has returned stands still.
LEMMA ReturnedStays ==
  LedgerInv /\ pc[Main] = "returned" /\ [Next]_vars => UNCHANGED vars
<1> SUFFICES ASSUME LedgerInv, pc[Main] = "returned", [Next]_vars PROVE UNCHANGED vars
  OBVIOUS
<1>a. /\ pc[Main] = "returned" /\ pc[Producer] = "done" /\ pc[Flusher] = "exit"
      /\ \A w \in Workers : pc[w] = "exit"
  BY DEF LedgerInv, WoundDown, PastGather, Ended, Gathered
<1> USE <1>a
<1>1. CASE ProducerPull
  BY <1>1 DEF ProducerPull
<1>2. CASE ProducerPut
  BY <1>2 DEF ProducerPut, QueueHasRoom
<1>3. CASE ProducerEnds
  BY <1>3 DEF ProducerEnds
<1>4. CASE SourceFails
  BY <1>4 DEF SourceFails
<1>5. ASSUME NEW w \in Workers, WorkerGet(w) PROVE UNCHANGED vars
  BY <1>5 DEF WorkerGet
<1>6. ASSUME NEW w \in Workers, StageFails(w) PROVE UNCHANGED vars
  BY <1>6 DEF StageFails, TaskDone
<1>7. ASSUME NEW w \in Workers, BufferRecord(w) PROVE UNCHANGED vars
  BY <1>7 DEF BufferRecord, BatchIsFull, TaskDone, WithHeld
<1>8. ASSUME NEW w \in Workers, FillBatch(w) PROVE UNCHANGED vars
  BY <1>8 DEF FillBatch, SwapBuffer, BatchIsFull, WithHeld
<1>9. ASSUME NEW w \in Workers, WorkerSaved(w) PROVE UNCHANGED vars
  BY <1>9 DEF WorkerSaved, TaskDone, SaveOk, SaveRejected, Uncount
<1>10. ASSUME NEW w \in Workers, WorkerSaveRaises(w) PROVE UNCHANGED vars
  BY <1>10 DEF WorkerSaveRaises, TaskDone
<1>11. ASSUME NEW w \in Workers, WorkerCancelled(w) PROVE UNCHANGED vars
  BY <1>11 DEF WorkerCancelled, TaskDone, CancelledSave
<1>12. CASE FlusherWakes
  BY <1>12 DEF FlusherWakes, NothingToFlush, SwapBuffer
<1>13. CASE FlusherSaved
  BY <1>13 DEF FlusherSaved, SaveOk, SaveRejected, Uncount
<1>14. CASE FlusherDies
  BY <1>14 DEF FlusherDies
<1>15. CASE FlusherCancelled
  BY <1>15 DEF FlusherCancelled, CancelledSave
<1>16. CASE MainJoins
  BY <1>16 DEF MainJoins
<1>17. CASE MainWindsDown
  BY <1>17 DEF MainWindsDown, Joined
<1>18. CASE MainGathered
  BY <1>18 DEF MainGathered, NothingToFlush, SwapBuffer, RunEnds
<1>19. CASE MainSaved
  BY <1>19 DEF MainSaved, SaveOk, SaveRejected, Uncount, RunEnds
<1>20. CASE MainSaveRaises
  BY <1>20 DEF MainSaveRaises
<1>21. CASE MainGatherCancelled
  BY <1>21 DEF MainGatherCancelled
<1>22. CASE Interrupt
  BY <1>22 DEF Interrupt, ProducerCancelled, CancelledSave
<1>23. CASE UNCHANGED vars
  BY <1>23 DEF vars
<1>24. QED
  BY <1>1, <1>2, <1>3, <1>4, <1>5, <1>6, <1>7, <1>8, <1>9, <1>10, <1>11,
     <1>12, <1>13, <1>14, <1>15, <1>16, <1>17, <1>18, <1>19, <1>20, <1>21,
     <1>22, <1>23
  DEF Next, ProducerStep, WorkerStep, FlusherStep, MainStep, Terminated

\* What holds when a run has returned.
ReportTrue ==
  pc[Main] = "returned" =>
    /\ enqueued = NumLines
    /\ (1..enqueued) \ (stored \cup dropped) = {}
    /\ processed = Cardinality(stored)
    /\ failed = Cardinality(dropped)

LEMMA ReturnedReport == LedgerInv => ReportTrue
<1> SUFFICES ASSUME LedgerInv, pc[Main] = "returned"
             PROVE  /\ enqueued = NumLines
                    /\ (1..enqueued) \ (stored \cup dropped) = {}
                    /\ processed = Cardinality(stored)
                    /\ failed = Cardinality(dropped)
  BY DEF ReportTrue
<1>a. /\ PcOK /\ Control /\ WoundDown /\ Gathered /\ ~Abnormal
      /\ stored \subseteq Records
  BY DEF LedgerInv, SafeInv, TypeInv, TypeOK, WoundDown, PastGather, Ended
<1>1. buffer = {} /\ queue = <<>> /\ enqueued = NumLines
  BY <1>a DEF WoundDown, PastGather, Ended, Abnormal, Control
<1>2. \A s \in Savers : batch[s] = {}
  BY <1>a, TasksAssumption DEF Control, Gathered, Savers
<1>3. Counted = stored
  BY <1>a, <1>1, <1>2 DEF Counted
<1>4. Taken = enqueued
  <2>1. Len(queue) = 0 /\ enqueued \in Int
    BY <1>1, PlaceTypes DEF LedgerInv, SafeInv
  <2>2. QED
    BY <2>1 DEF Taken
<1>5. \A r \in 1..enqueued : r \in stored \cup dropped
  BY <1>a, <1>1, <1>2, <1>4 DEF LedgerInv, NoneMissing, Gathered
<1>6. QED
  BY <1>1, <1>3, <1>5 DEF LedgerInv, FailedExact, ProcessedExact

\* The ledger counts as the executor does.
LEMMA SameCardinality == \A S : Ledger!Cardinality(S) = Cardinality(S)
BY DEF Ledger!Cardinality, Cardinality

\* A group that is settled, in the terms of the ledger.
LEMMA SettlesSome ==
  ASSUME NEW group, group # {}, group \subseteq (1..enqueued) \ (stored \cup dropped),
         Cardinality(group) <= BatchSize,
         \/ stored' = stored \cup group /\ UNCHANGED dropped
         \/ dropped' = dropped \cup group /\ UNCHANGED stored,
         UNCHANGED enqueued
  PROVE  Ledger!SettleSome
<1>1. group \in SUBSET Ledger!Pending
  BY DEF Ledger!Pending
<1>2. QED
  BY <1>1, SameCardinality DEF Ledger!SettleSome

LEMMA LedgerStep ==
  ASSUME CalmEnvironment
  PROVE  LedgerInv /\ LedgerInv' /\ [Next]_vars => [Ledger!LedgerNext]_(Ledger!ledgerVars)
<1> SUFFICES ASSUME LedgerInv, LedgerInv', [Next]_vars
             PROVE  [Ledger!LedgerNext]_(Ledger!ledgerVars)
  OBVIOUS
<1> DEFINE report == IF pc[Main] = "returned"
                     THEN [processed |-> processed, failed |-> failed]
                     ELSE [processed |-> -1, failed |-> -1]
<1>1. CASE pc[Main] = "returned"
  <2>1. UNCHANGED <<enqueued, stored, dropped, pc, processed, failed>>
    BY <1>1, ReturnedStays DEF vars
  <2>2. QED
    BY <2>1 DEF Ledger!ledgerVars
<1>2. CASE pc[Main] # "returned" /\ pc'[Main] # "returned"
  <2>1. report = Ledger!NoReport /\ report' = report
    BY <1>2 DEF Ledger!NoReport
  <2>2. CASE Settles
    <3>1. PICK group \in SUBSET ((1..enqueued) \ (stored \cup dropped)) :
            /\ Cardinality(group) <= BatchSize
            /\ \/ stored' = stored \cup group /\ UNCHANGED dropped
               \/ dropped' = dropped \cup group /\ UNCHANGED stored
            /\ UNCHANGED enqueued
      BY <2>2 DEF Settles
    <3>2. CASE group = {}
      BY <2>1, <3>1, <3>2 DEF Ledger!ledgerVars
    <3>3. CASE group # {}
      <4>1. Ledger!SettleSome
        BY <3>1, <3>3, SettlesSome
      <4>2. QED
        BY <2>1, <4>1 DEF Ledger!LedgerNext, Ledger!Settle
    <3>4. QED
      BY <3>2, <3>3
  <2>3. CASE UNCHANGED <<enqueued, stored, dropped>>
    BY <2>1, <2>3 DEF Ledger!ledgerVars
  <2>4. CASE enqueued < NumLines /\ enqueued' = enqueued + 1 /\ UNCHANGED <<stored, dropped>>
    BY <2>1, <2>4 DEF Ledger!LedgerNext, Ledger!Accept
  <2>5. QED
    BY <2>2, <2>3, <2>4, LedgerMoves
<1>3. CASE pc[Main] # "returned" /\ pc'[Main] = "returned"
  <2>1. report = Ledger!NoReport /\ report' = [processed |-> processed', failed |-> failed']
    BY <1>3 DEF Ledger!NoReport
  <2>2. /\ enqueued' = NumLines
        /\ (1..enqueued') \ (stored' \cup dropped') = {}
        /\ processed' = Cardinality(stored')
        /\ failed' = Cardinality(dropped')
    <3>1. ReportTrue'
      BY ReturnedReport, PTL
    <3>2. QED
      BY <1>3, <3>1 DEF ReportTrue
  <2>3. Settles \/ UNCHANGED <<enqueued, stored, dropped>>
    BY <1>3, LedgerMoves
  <2>4. Ledger!SettleSome \/ UNCHANGED <<enqueued, stored, dropped>>
    <3>1. CASE UNCHANGED <<enqueued, stored, dropped>>
      BY <3>1
    <3>2. CASE Settles
      <4>1. PICK group \in SUBSET ((1..enqueued) \ (stored \cup dropped)) :
              /\ Cardinality(group) <= BatchSize
              /\ \/ stored' = stored \cup group /\ UNCHANGED dropped
                 \/ dropped' = dropped \cup group /\ UNCHANGED stored
              /\ UNCHANGED enqueued
        BY <3>2 DEF Settles
      <4>2. CASE group = {}
        BY <4>1, <4>2
      <4>3. CASE group # {}
        BY <4>1, <4>3, SettlesSome
      <4>4. QED
        BY <4>2, <4>3
    <3>3. QED
      BY <2>3, <3>1, <3>2
  <2>5. enqueued = NumLines
    BY <2>2, <2>3 DEF Settles
  <2>6. QED
    BY <2>1, <2>2, <2>4, <2>5, SameCardinality
    DEF Ledger!LedgerNext, Ledger!Report, Ledger!Pending
<1>4. QED
  BY <1>1, <1>2, <1>3

LEMMA LedgerInvInit == Init => LedgerInv /\ Ledger!LedgerInit
<1> SUFFICES ASSUME Init PROVE LedgerInv /\ Ledger!LedgerInit
  OBVIOUS
<1>1. EndInv /\ Taken = 0
  BY EndInvInit, SafeInvInit
<1>2. Counted = {}
  BY DEF Init, Counted
<1>3. FailedExact /\ ProcessedExact
  BY <1>2, FS_EmptySet DEF Init, FailedExact, ProcessedExact
<1>4. NoneMissing
  BY <1>1 DEF NoneMissing
<1>5. BatchesBounded
  BY FS_EmptySet, ConstantsAssumption DEF Init, BatchesBounded, Savers
<1>6. ~Abnormal /\ pc[Main] # "returned"
  BY TasksAssumption DEF Init, Abnormal, Tasks
<1>7. Ledger!LedgerInit
  BY <1>6 DEF Init, Ledger!LedgerInit, Ledger!NoReport
<1>8. QED
  BY <1>1, <1>3, <1>4, <1>5, <1>6, <1>7 DEF EndInv, LedgerInv

\* In an environment where only stages and, with a RepositoryError, saves fail, every
\* behaviour of the tasks, the queue and the batches is one of the ledger: each line
\* is settled exactly once and a run that returns reports how many went each way.
THEOREM ImplementsLedgerAlways ==
  ASSUME CalmEnvironment
  PROVE  Spec => ImplementsLedger
<1>1. Init => LedgerInv /\ Ledger!LedgerInit
  BY LedgerInvInit
<1>2. LedgerInv /\ [Next]_vars => LedgerInv'
  BY LedgerInvStep
<1>3. LedgerInv /\ LedgerInv' /\ [Next]_vars => [Ledger!LedgerNext]_(Ledger!ledgerVars)
  BY LedgerStep
<1>4. QED
  BY <1>1, <1>2, <1>3, PTL DEF Spec, ImplementsLedger, Ledger!LedgerSpec

-------------------------------------------------------------------------------
(***************************************************************************)
(* Backpressure: the bound on what a run has accepted and not settled, for *)
(* any number of lines and consumers and any queue and batch size.         *)
(*                                                                         *)
(* Each consumer has at most one batch in hand; the bound is sharp because *)
(* when every consumer saves one the buffer is empty (BufferOnlyWithRoom), *)
(* and a consumer that saves none has at most one record.                  *)
(***************************************************************************)

\* As many sets as V has elements, none larger than B.
LEMMA UnionBound ==
  ASSUME NEW V, IsFiniteSet(V), NEW B \in Nat, NEW H,
         \A v \in V : IsFiniteSet(H[v]) /\ Cardinality(H[v]) <= B
  PROVE  /\ IsFiniteSet(UNION {H[v] : v \in V})
         /\ Cardinality(UNION {H[v] : v \in V}) <= Cardinality(V) * B
<1> DEFINE U == UNION {H[v] : v \in V}
           Place(v) == CHOOSE g \in [H[v] -> 1..B] :
                         \A x, y \in H[v] : g[x] = g[y] => x = y
           Owner(x) == CHOOSE v \in V : x \in H[v]
           f == [x \in U |-> <<Owner(x), Place(Owner(x))[x]>>]
<1>1. ASSUME NEW v \in V
      PROVE  /\ Place(v) \in [H[v] -> 1..B]
             /\ \A x, y \in H[v] : Place(v)[x] = Place(v)[y] => x = y
  <2> DEFINE n == Cardinality(H[v])
  <2>1. n \in Nat /\ n <= B /\ IsFiniteSet(H[v])
    BY FS_CardinalityType
  <2>2. IsFiniteSet(1..n) /\ Cardinality(1..n) = n
    BY <2>1, FS_Interval
  <2>3. ExistsBijection(H[v], 1..n)
    BY <2>1, <2>2, FS_SameCardinalityBij
  <2>4. PICK g \in [H[v] -> 1..n] : \A x, y \in H[v] : g[x] = g[y] => x = y
    BY <2>3 DEF ExistsBijection, Bijection, Injection, IsInjective
  <2>5. g \in [H[v] -> 1..B]
    BY <2>1, <2>4
  <2>6. QED
    BY <2>4, <2>5
<1>2. \A x \in U : Owner(x) \in V /\ x \in H[Owner(x)]
  OBVIOUS
<1> HIDE DEF Place, Owner
<1>3. f \in [U -> V \X (1..B)]
  BY <1>1, <1>2
<1>4. ASSUME NEW x \in U, NEW y \in U, f[x] = f[y] PROVE x = y
  BY <1>1, <1>2, <1>4
<1>5. f \in Injection(U, V \X (1..B))
  BY <1>3, <1>4 DEF Injection, IsInjective
<1>6. IsFiniteSet(1..B) /\ Cardinality(1..B) = B
  BY FS_Interval
<1>7. /\ IsFiniteSet(V \X (1..B))
      /\ Cardinality(V \X (1..B)) = Cardinality(V) * B
  BY <1>6, FS_Product
<1>8. QED
  BY <1>5, <1>7, FS_Injection

\* Two sets have no more elements together than each alone.
LEMMA AtMostBoth ==
  ASSUME NEW S, NEW T, IsFiniteSet(S), IsFiniteSet(T)
  PROVE  /\ IsFiniteSet(S \cup T)
         /\ Cardinality(S \cup T) <= Cardinality(S) + Cardinality(T)
         /\ Cardinality(S \cup T) \in Nat
         /\ Cardinality(S) \in Nat /\ Cardinality(T) \in Nat
<1>1. IsFiniteSet(S \cap T) /\ Cardinality(S \cap T) \in Nat
  BY FS_Intersection, FS_CardinalityType
<1>2. Cardinality(S) \in Nat /\ Cardinality(T) \in Nat
  BY FS_CardinalityType
<1>3. /\ IsFiniteSet(S \cup T)
      /\ Cardinality(S \cup T) = Cardinality(S) + Cardinality(T) - Cardinality(S \cap T)
  BY FS_Union
<1>4. Cardinality(S \cup T) \in Nat
  BY <1>3, FS_CardinalityType
<1>5. QED
  BY <1>1, <1>2, <1>3, <1>4

-------------------------------------------------------------------------------

BufferOnlyWithRoom == (\A w \in Workers : pc[w] = "save") => buffer = {}

LEMMA BufferOnlyWithRoomStep ==
  TypeInv /\ BufferOnlyWithRoom /\ [Next]_vars => BufferOnlyWithRoom'
<1> SUFFICES ASSUME TypeInv, BufferOnlyWithRoom, [Next]_vars PROVE BufferOnlyWithRoom'
  OBVIOUS
<1>a. PcOK /\ BufferOnlyWithRoom
  BY DEF TypeInv, TypeOK
<1> USE <1>a, TasksAssumption DEF PcOK, BufferOnlyWithRoom, Tasks, Goto
<1>1. CASE ProducerPull
  BY <1>1 DEF ProducerPull
<1>2. CASE ProducerPut
  BY <1>2 DEF ProducerPut, QueueHasRoom
<1>3. CASE ProducerEnds
  BY <1>3 DEF ProducerEnds
<1>4. CASE SourceFails
  BY <1>4 DEF SourceFails
<1>5. ASSUME NEW w \in Workers, WorkerGet(w) PROVE BufferOnlyWithRoom'
  BY <1>5 DEF WorkerGet
<1>6. ASSUME NEW w \in Workers, StageFails(w) PROVE BufferOnlyWithRoom'
  BY <1>6 DEF StageFails, TaskDone
<1>7. ASSUME NEW w \in Workers, BufferRecord(w) PROVE BufferOnlyWithRoom'
  BY <1>7 DEF BufferRecord, BatchIsFull, TaskDone, WithHeld
<1>8. ASSUME NEW w \in Workers, FillBatch(w) PROVE BufferOnlyWithRoom'
  BY <1>8 DEF FillBatch, SwapBuffer, BatchIsFull, WithHeld
<1>9. ASSUME NEW w \in Workers, WorkerSaved(w) PROVE BufferOnlyWithRoom'
  BY <1>9 DEF WorkerSaved, TaskDone, SaveOk, SaveRejected, Uncount
<1>10. ASSUME NEW w \in Workers, WorkerSaveRaises(w) PROVE BufferOnlyWithRoom'
  BY <1>10 DEF WorkerSaveRaises, TaskDone
<1>11. ASSUME NEW w \in Workers, WorkerCancelled(w) PROVE BufferOnlyWithRoom'
  BY <1>11 DEF WorkerCancelled, TaskDone, CancelledSave
<1>12. CASE FlusherWakes
  BY <1>12 DEF FlusherWakes, NothingToFlush, SwapBuffer
<1>13. CASE FlusherSaved
  BY <1>13 DEF FlusherSaved, SaveOk, SaveRejected, Uncount
<1>14. CASE FlusherDies
  BY <1>14 DEF FlusherDies
<1>15. CASE FlusherCancelled
  BY <1>15 DEF FlusherCancelled, CancelledSave
<1>16. CASE MainJoins
  BY <1>16 DEF MainJoins
<1>17. CASE MainWindsDown
  BY <1>17 DEF MainWindsDown, Joined
<1>18. CASE MainGathered
  BY <1>18 DEF MainGathered, NothingToFlush, SwapBuffer, RunEnds
<1>19. CASE MainSaved
  BY <1>19 DEF MainSaved, SaveOk, SaveRejected, Uncount, RunEnds
<1>20. CASE MainSaveRaises
  BY <1>20 DEF MainSaveRaises
<1>21. CASE MainGatherCancelled
  BY <1>21 DEF MainGatherCancelled
<1>22. CASE Interrupt
  BY <1>22 DEF Interrupt, ProducerCancelled, CancelledSave
<1>23. CASE UNCHANGED vars
  BY <1>23 DEF vars
<1>24. QED
  BY <1>1, <1>2, <1>3, <1>4, <1>5, <1>6, <1>7, <1>8, <1>9, <1>10, <1>11,
     <1>12, <1>13, <1>14, <1>15, <1>16, <1>17, <1>18, <1>19, <1>20, <1>21,
     <1>22, <1>23
  DEF Next, ProducerStep, WorkerStep, FlusherStep, MainStep, Terminated

\* What a consumer has in hand: its record, or its batch.
InHand == [w \in Workers |-> batch[w] \cup (IF pc[w] = "stage" THEN {held[w]} ELSE {})]

OffQueue ==
  (UNION {InHand[w] : w \in Workers}) \cup buffer \cup batch[Flusher] \cup batch[Main]

LEMMA HandsBounded ==
  ASSUME LedgerInv, BufferOnlyWithRoom
  PROVE  /\ IsFiniteSet(OffQueue)
         /\ Cardinality(OffQueue) <= Cardinality(Workers) * BatchSize + (BatchSize - 1)
<1> DEFINE Hands(V) == UNION {InHand[w] : w \in V}
           W == Cardinality(Workers)
<1>a. /\ Control /\ BatchesBounded /\ BatchSize \in Nat /\ 0 < BatchSize
      /\ W \in Nat /\ IsFiniteSet(Workers)
      /\ IsFiniteSet(buffer) /\ Cardinality(buffer) \in Nat
      /\ \A s \in Savers : IsFiniteSet(batch[s]) /\ Cardinality(batch[s]) \in Nat
      /\ Flusher \in Savers /\ Main \in Savers
  BY ConstantsAssumption, FS_CardinalityType, CountingFacts, BatchIsFinite
     DEF LedgerInv, SafeInv, TypeInv, TypeOK, Savers
<1>b. \A w \in Workers : /\ IsFiniteSet(InHand[w]) /\ Cardinality(InHand[w]) <= BatchSize
                         /\ pc[w] # "save" => Cardinality(InHand[w]) <= 1
  <2> SUFFICES ASSUME NEW w \in Workers
               PROVE  /\ IsFiniteSet(InHand[w]) /\ Cardinality(InHand[w]) <= BatchSize
                      /\ pc[w] # "save" => Cardinality(InHand[w]) <= 1
    OBVIOUS
  <2>1. CASE pc[w] = "save"
    BY <1>a, <2>1 DEF InHand, BatchesBounded, Savers
  <2>2. CASE pc[w] = "stage"
    <3>1. InHand[w] = {held[w]}
      BY <1>a, <2>2 DEF InHand, Control
    <3>2. IsFiniteSet({held[w]}) /\ Cardinality({held[w]}) = 1
      BY FS_Singleton
    <3>3. QED
      BY <1>a, <2>2, <3>1, <3>2
  <2>3. CASE pc[w] \notin {"stage", "save"}
    <3>1. InHand[w] = {}
      BY <1>a, <2>3 DEF InHand, Control
    <3>2. QED
      BY <1>a, <3>1, FS_EmptySet
  <2>4. QED
    BY <2>1, <2>2, <2>3
<1>1. IsFiniteSet(Hands(Workers)) /\ Cardinality(Hands(Workers)) <= W * BatchSize
  BY <1>a, <1>b, UnionBound
<1>2. CASE pc[Main] = "final_save"
  <2>1. Hands(Workers) = {} /\ buffer = {} /\ batch[Flusher] = {}
    BY <1>2, <1>a DEF LedgerInv, WoundDown, PastGather, Gathered, Abnormal, InHand, Control
  <2>2. OffQueue = batch[Main]
    BY <2>1 DEF OffQueue
  <2>3. W * BatchSize \in Nat
    BY <1>a
  <2> HIDE DEF W
  <2>4. Cardinality(batch[Main]) <= W * BatchSize + (BatchSize - 1)
    BY <1>a, <2>3 DEF BatchesBounded
  <2>5. QED
    BY <1>a, <2>2, <2>4 DEF W
<1>3. CASE pc[Main] # "final_save" /\ \A w \in Workers : pc[w] = "save"
  <2>1. buffer = {} /\ batch[Main] = {}
    BY <1>3, <1>a DEF BufferOnlyWithRoom, Control
  <2>2. OffQueue = Hands(Workers) \cup batch[Flusher]
    BY <2>1 DEF OffQueue
  <2>3. /\ IsFiniteSet(Hands(Workers) \cup batch[Flusher])
        /\ Cardinality(Hands(Workers) \cup batch[Flusher])
             <= Cardinality(Hands(Workers)) + Cardinality(batch[Flusher])
        /\ Cardinality(Hands(Workers) \cup batch[Flusher]) \in Nat
        /\ Cardinality(Hands(Workers)) \in Nat
    BY <1>1, <1>a, AtMostBoth
  <2>4. W * BatchSize \in Nat
    BY <1>a
  <2>5. Cardinality(Hands(Workers) \cup batch[Flusher]) <= W * BatchSize + (BatchSize - 1)
    <3> HIDE DEF W, Hands
    <3>1. Cardinality(batch[Flusher]) <= BatchSize - 1
      BY <1>a DEF BatchesBounded
    <3>2. QED
      BY <1>1, <1>a, <2>3, <2>4, <3>1
  <2>6. QED
    BY <2>2, <2>3, <2>5
<1>4. ASSUME pc[Main] # "final_save", NEW v \in Workers, pc[v] # "save"
      PROVE  /\ IsFiniteSet(OffQueue)
             /\ Cardinality(OffQueue) <= W * BatchSize + (BatchSize - 1)
  <2> DEFINE Others == Hands(Workers \ {v})
             Loose   == buffer \cup batch[Flusher]
  <2>1. OffQueue = (Others \cup InHand[v]) \cup Loose
    BY <1>4, <1>a DEF Control, OffQueue
  <2>2. /\ IsFiniteSet(Workers \ {v}) /\ Cardinality(Workers \ {v}) = W - 1
        /\ W - 1 \in Nat
    <3>1. IsFiniteSet(Workers \ {v}) /\ Cardinality(Workers \ {v}) = W - 1
      BY <1>a, FS_RemoveElement
    <3>2. QED
      BY <3>1, FS_CardinalityType
  <2>3. IsFiniteSet(Others) /\ Cardinality(Others) <= (W - 1) * BatchSize
    <3>1. \A w \in Workers \ {v} :
            IsFiniteSet(InHand[w]) /\ Cardinality(InHand[w]) <= BatchSize
      BY <1>b
    <3>2. /\ IsFiniteSet(Others)
          /\ Cardinality(Others) <= Cardinality(Workers \ {v}) * BatchSize
      BY <1>a, <2>2, <3>1, UnionBound
    <3>3. QED
      BY <2>2, <3>2
  <2>4. IsFiniteSet(InHand[v]) /\ Cardinality(InHand[v]) <= 1
    BY <1>4, <1>b
  <2>5. (W - 1) * BatchSize = W * BatchSize - BatchSize /\ W * BatchSize \in Nat
    <3> HIDE DEF W
    <3>1. QED
      BY <1>a
  <2> HIDE DEF Others, W
  <2>6. /\ IsFiniteSet(Others \cup InHand[v])
        /\ Cardinality(Others \cup InHand[v]) <= Cardinality(Others) + Cardinality(InHand[v])
        /\ Cardinality(Others \cup InHand[v]) \in Nat
        /\ Cardinality(Others) \in Nat /\ Cardinality(InHand[v]) \in Nat
    BY <2>3, <2>4, AtMostBoth
  <2>7. /\ IsFiniteSet(Loose)
        /\ Cardinality(Loose) <= Cardinality(buffer) + Cardinality(batch[Flusher])
        /\ Cardinality(Loose) \in Nat
    BY <1>a, AtMostBoth
  <2> HIDE DEF Loose
  <2>8. /\ IsFiniteSet((Others \cup InHand[v]) \cup Loose)
        /\ Cardinality((Others \cup InHand[v]) \cup Loose)
             <= Cardinality(Others \cup InHand[v]) + Cardinality(Loose)
        /\ Cardinality((Others \cup InHand[v]) \cup Loose) \in Nat
    BY <2>6, <2>7, AtMostBoth
  <2>9. Cardinality(Loose) <= (BatchSize - 1) + (BatchSize - 1)
    BY <1>a, <2>7 DEF BatchesBounded
  <2>10. Cardinality(Others \cup InHand[v]) <= W * BatchSize - BatchSize + 1
    BY <1>a, <2>3, <2>4, <2>5, <2>6
  <2>11. Cardinality((Others \cup InHand[v]) \cup Loose) <= W * BatchSize + (BatchSize - 1)
    BY <1>a, <2>5, <2>6, <2>7, <2>8, <2>9, <2>10
  <2>12. QED
    BY <2>1, <2>8, <2>11 DEF W
<1>5. QED
  BY <1>2, <1>3, <1>4

\* Whatever the speed of the source, what a run has accepted and not settled fits in
\* the queue, one batch for each consumer and one batch that is not full.
THEOREM BoundedMemoryAlways ==
  ASSUME CalmEnvironment
  PROVE  Spec => []BoundedMemory
<1>1. LedgerInv /\ BufferOnlyWithRoom => BoundedMemory
  <2> SUFFICES ASSUME LedgerInv, BufferOnlyWithRoom PROVE BoundedMemory
    OBVIOUS
  <2> DEFINE bound == Cardinality(Workers) * BatchSize + (BatchSize - 1)
  <2>1. IsFiniteSet(OffQueue) /\ Cardinality(OffQueue) <= bound
    BY HandsBounded
  <2>2. IsFiniteSet(Queued) /\ Cardinality(Queued) <= QueueSize
    <3>1. /\ queue \in Seq(Records) /\ Len(queue) \in Nat /\ Len(queue) <= QueueSize
          /\ Taken \in Nat /\ enqueued \in Nat /\ QueueSize \in Nat
      BY PlaceTypes, ConstantsAssumption
         DEF LedgerInv, SafeInv, TypeInv, TypeOK, Places, QueueInOrder
    <3>2. Queued \subseteq (Taken + 1)..enqueued
      BY <3>1 DEF LedgerInv, SafeInv, Places, QueueInOrder, Queued, Taken
    <3>3. /\ IsFiniteSet((Taken + 1)..enqueued)
          /\ Cardinality((Taken + 1)..enqueued) <= QueueSize
      <4>1. /\ IsFiniteSet((Taken + 1)..enqueued)
            /\ Cardinality((Taken + 1)..enqueued) =
                 IF Taken + 1 > enqueued THEN 0 ELSE enqueued - (Taken + 1) + 1
        <5>1. Taken + 1 \in Int /\ enqueued \in Int
          BY <3>1
        <5>2. QED
          BY <5>1, FS_Interval
      <4>2. Taken = enqueued - Len(queue)
        BY DEF Taken
      <4>3. QED
        BY <3>1, <4>1, <4>2
    <3>4. IsFiniteSet(Queued) /\ Cardinality(Queued) <= Cardinality((Taken + 1)..enqueued)
      BY <3>2, <3>3, FS_Subset
    <3>5. Cardinality(Queued) \in Nat /\ Cardinality((Taken + 1)..enqueued) \in Nat
      BY <3>3, <3>4, FS_CardinalityType
    <3>6. QED
      BY <3>1, <3>3, <3>4, <3>5
  <2>3. Accepted \ Settled \subseteq Queued \cup OffQueue
    <3>1. Accepted = Queued \cup InStages \cup buffer \cup Saving \cup Settled
      BY AcceptedAre DEF LedgerInv
    <3>2. InStages \cup Saving \subseteq OffQueue
      <4>1. \A w \in Workers : InHand[w] \subseteq OffQueue
        BY DEF OffQueue
      <4>2. \A w \in Workers : batch[w] \subseteq InHand[w]
        BY DEF InHand
      <4>3. \A w \in Workers : pc[w] = "stage" => held[w] \in InHand[w]
        BY DEF InHand
      <4>4. \A s \in Savers : batch[s] \subseteq OffQueue
        BY <4>1, <4>2 DEF OffQueue, Savers
      <4>5. QED
        BY <4>1, <4>3, <4>4 DEF InStages, Saving
    <3>3. buffer \subseteq OffQueue
      BY DEF OffQueue
    <3>4. QED
      BY <3>1, <3>2, <3>3
  <2>4. /\ IsFiniteSet(Queued \cup OffQueue)
        /\ Cardinality(Queued \cup OffQueue) <= Cardinality(Queued) + Cardinality(OffQueue)
        /\ Cardinality(Queued \cup OffQueue) \in Nat
        /\ Cardinality(Queued) \in Nat /\ Cardinality(OffQueue) \in Nat
    BY <2>1, <2>2, AtMostBoth
  <2>5. /\ Cardinality(Accepted \ Settled) <= Cardinality(Queued \cup OffQueue)
        /\ Cardinality(Accepted \ Settled) \in Nat
    BY <2>3, <2>4, FS_Subset, FS_CardinalityType
  <2>6. Cardinality(Workers) * BatchSize \in Nat /\ BatchSize \in Nat /\ QueueSize \in Nat
    <3>1. Cardinality(Workers) \in Nat /\ BatchSize \in Nat /\ QueueSize \in Nat
      BY ConstantsAssumption, FS_CardinalityType
    <3>2. QED
      BY <3>1
  <2>7. QED
    BY <2>1, <2>2, <2>4, <2>5, <2>6 DEF BoundedMemory
<1>2. Init => LedgerInv /\ BufferOnlyWithRoom
  BY LedgerInvInit DEF Init, BufferOnlyWithRoom
<1>3. LedgerInv /\ BufferOnlyWithRoom /\ [Next]_vars => (LedgerInv /\ BufferOnlyWithRoom)'
  BY LedgerInvStep, BufferOnlyWithRoomStep DEF LedgerInv, SafeInv
<1>4. QED
  BY <1>1, <1>2, <1>3, PTL DEF Spec

===============================================================================
