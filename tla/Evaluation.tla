------------------------------- MODULE Evaluation -------------------------------
(***************************************************************************)
(* The offline scripts, each a sequential program over the files of the    *)
(* project: scripts/train_sequence_model.py builds the sequence model from *)
(* a log and its labels, evaluate_hdfs_sequence.py scores the blocks of a  *)
(* log with it, evaluate_bgl_point.py the windows of a BGL log with the    *)
(* point detectors, and _eval_common.py counts.  A session trains once and *)
(* evaluates once: neither script reads what an earlier run of it left.    *)
(*                                                                         *)
(* A line that does not parse, has no block or matches no template counts  *)
(* as a line and as nothing else.  Which windows the point detectors flag  *)
(* is left open here: NumericDetectors has them.                           *)
(***************************************************************************)
EXTENDS SyntheticLogs, Filtering

CONSTANTS
  EventOf(_),      \* the template that the line of a kind matches, or NoEvent
  NoEvent,
  N,               \* --n of the trainer, written to the model and read from it
  LineCaps,        \* the values of --max-lines
  WindowWidths,    \* the values of --window-seconds
  None             \* a file that has not been written

ASSUME EvaluationAssumption ==
  /\ IsFiniteSet(Blocks)
  /\ N \in Int
  /\ LineCaps \subseteq Nat
  /\ WindowWidths \subseteq Nat \ {0}

VARIABLES
  labels,  \* anomaly_label.csv: [Blocks -> "Normal", "Anomaly" or "none"]
  model,   \* the model file, with the --max-lines it was trained with
  report   \* what the last evaluation found

evaluationVars == <<logVars, labels, model, report>>

EvaluationInit ==
  /\ LogsInit
  /\ labels = None
  /\ model = None
  /\ report = None

FirstLines(cap) == SubSeq(log, 1, IF cap < Len(log) THEN cap ELSE Len(log))

\* The labels are written by whoever knows the log.
LabelBlocks ==
  /\ ~writing
  /\ format = "hdfs"
  /\ labels = None
  /\ labels' \in [Blocks -> {"Normal", "Anomaly", "none"}]
  /\ UNCHANGED <<logVars, model, report>>

-------------------------------------------------------------------------------
(* The trainer *)

Templates == {EventOf(k) : k \in Range(Lifecycle) \cup ExceptionEvents} \ {NoEvent}

Visible(kinds) == Filter([i \in DOMAIN kinds |-> EventOf(kinds[i])], Templates)

\* block_events of the first lines of the log.
EventsOf(b, cap) ==
  LET lines == Filter(FirstLines(cap), {l \in Range(log) : l.block = b})
  IN  Visible([i \in DOMAIN lines |-> lines[i].kind])

\* The detector with the model file.
Detector == INSTANCE SequenceDetector WITH
  NormalNgrams <- model.normal, ThresholdNum <- 0, ThresholdDen <- 1

NgramsOf(b, cap) == Detector!Ngrams(EventsOf(b, cap))

Labelled(label) == {b \in Blocks : labels[b] = label}

\* The n-grams seen in Normal blocks and in no other labelled block.
LearnedOnlyNormal(cap) ==
  UNION {NgramsOf(b, cap) : b \in Labelled("Normal")}
    \ UNION {NgramsOf(b, cap) : b \in Labelled("Anomaly")}

\* The n-grams of all labelled blocks.
LearnedFromAll(cap) ==
  UNION {NgramsOf(b, cap) : b \in Labelled("Normal") \cup Labelled("Anomaly")}

Learned(cap) == UNION {NgramsOf(b, cap) : b \in Labelled("Normal")}

Train(cap) ==
  /\ ~writing
  /\ labels # None
  /\ model = None
  /\ model' = [normal |-> Learned(cap), cap |-> cap]
  /\ UNCHANGED <<logVars, labels, report>>

-------------------------------------------------------------------------------
(* ConfusionMatrix *)

Confusion(predicted, actual, universe) ==
  [tp |-> Cardinality(predicted \cap actual),
   fp |-> Cardinality(predicted \ actual),
   fn |-> Cardinality(actual \ predicted),
   tn |-> Cardinality((universe \ predicted) \ actual)]

\* A quotient as a fraction; 0.0 for an empty denominator.
Quotient(a, b) == IF b = 0 THEN [num |-> 0, den |-> 1] ELSE [num |-> a, den |-> b]

Precision(cm) == Quotient(cm.tp, cm.tp + cm.fp)
Recall(cm) == Quotient(cm.tp, cm.tp + cm.fn)

\* 2 * p * r / (p + r)
F1(cm) ==
  LET p == Precision(cm)
      r == Recall(cm)
  IN  Quotient(2 * p.num * r.num, p.num * r.den + r.num * p.den)

Report(cap, width, windows, predicted, actual, universe) ==
  [cap |-> cap, width |-> width, windows |-> windows, predicted |-> predicted,
   actual |-> actual, universe |-> universe,
   cm |-> Confusion(predicted, actual, universe)]

-------------------------------------------------------------------------------
(* The HDFS evaluator *)

Observed(cap) == {b \in Blocks : EventsOf(b, cap) # <<>>}

Universe(cap) == Observed(cap) \ Labelled("none")

\* The labelled anomalies, seen in the log or not.
AnomalousUnseen(cap) == Labelled("Anomaly")

ActualAnomalies(cap) == Labelled("Anomaly") \cap Universe(cap)

EvaluateHdfs(cap) ==
  /\ ~writing
  /\ model # None
  /\ report = None
  /\ report' = Report(cap, 0, <<>>,
                      {b \in Universe(cap) : Detector!Fires(EventsOf(b, cap))},
                      ActualAnomalies(cap), Universe(cap))
  /\ UNCHANGED <<logVars, labels, model>>

-------------------------------------------------------------------------------
(* The BGL evaluator: _aggregate *)

\* The minutes not rounded.
WindowWithinMinute(t, width) == (t \div 60) * 60 + ((t % 60) \div width) * width

\* The start of a line's window: the second of its minute rounded down, and from
\* a minute on the minute of its hour.
Window(t, width) ==
  LET minutes == width \div 60
      minute == (t \div 60) % 60
  IN  IF width < 60
      THEN (t \div 60) * 60 + ((t % 60) \div width) * width
      ELSE (t \div 3600) * 3600 + ((minute \div minutes) * minutes) * 60

LinesIn(window, cap, width) ==
  Filter(FirstLines(cap), {l \in Range(log) : Window(l.time, width) = window})

\* The windows with at least one line, and how many each has.
Rates(cap, width) ==
  [k \in {Window(FirstLines(cap)[i].time, width) : i \in DOMAIN FirstLines(cap)} |->
     Len(LinesIn(k, cap, width))]

AlertWindows(cap, width) ==
  {k \in DOMAIN Rates(cap, width) :
     \E i \in DOMAIN LinesIn(k, cap, width) : LinesIn(k, cap, width)[i].alert}

EvaluateBgl(cap, width) ==
  /\ ~writing
  /\ format = "bgl"
  /\ report = None
  /\ \E predicted \in SUBSET DOMAIN Rates(cap, width) :
       report' = Report(cap, width, Rates(cap, width), predicted,
                        AlertWindows(cap, width), DOMAIN Rates(cap, width))
  /\ UNCHANGED <<logVars, labels, model>>

EvaluationNext ==
  \/ LogsNext /\ UNCHANGED <<labels, model, report>>
  \/ LabelBlocks
  \/ \E cap \in LineCaps :
       \/ Train(cap)
       \/ EvaluateHdfs(cap)
       \/ \E width \in WindowWidths : EvaluateBgl(cap, width)

-------------------------------------------------------------------------------
(* Properties *)

Evaluated(f) == report # None /\ format = f

\* No false positive "by construction" (docs/QA_PREP.md, line 55), whatever the
\* labels: a block labelled Normal is never flagged by a model trained with the
\* same labels, provided the trainer read as much of the log as the evaluator.
NormalNeverFlagged ==
  Evaluated("hdfs") /\ report.cap <= model.cap =>
    report.cm.fp = 0 /\ report.predicted \cap Labelled("Normal") = {}

LabelledTruly ==
  /\ \A b \in Blocks : labels[b] = IF sequences[b] = Lifecycle THEN "Normal" ELSE "Anomaly"
  /\ Labelled("Normal") # {}

\* The labels are true, a block is normal, and both scripts have read the whole
\* of a complete log.
WholeLogScored ==
  /\ Evaluated("hdfs")
  /\ LabelledTruly
  /\ \A b \in Blocks : cursors[b] = Len(sequences[b])
  /\ {model.cap, report.cap} \subseteq {c \in LineCaps : c >= Len(log)}

\* What the generator injects and the detector finds, once a model has been
\* trained on the whole of a truthfully labelled log with a normal block: just
\* the blocks whose lines, as the templates tell them apart, are no beginning of
\* the normal lifecycle.  Truncation is never found, an exception event without
\* a template neither, nor two swapped lines with the same template.
InjectedCaught ==
  WholeLogScored =>
    report.predicted =
      {b \in Blocks : ~IsPrefix(Visible(sequences[b]), Visible(Lifecycle))}

\* What InjectedCaught needs of the lifecycle, the templates and N: among the
\* blocks that the generator can make, those that begin like a normal one, as the
\* templates tell lines apart, are those that have its n-grams only.
Tellable ==
  \A s \in {Lifecycle} \cup Anomalous(Lifecycle) :
    Detector!Ngrams(Visible(s)) \subseteq Detector!Ngrams(Visible(Lifecycle))
      <=> IsPrefix(Visible(s), Visible(Lifecycle))

\* q is a of b, and 0 when there is nothing to divide by.
IsShare(q, a, b) == q.den > 0 /\ IF b = 0 THEN q.num = 0 ELSE q.num * b = a * q.den

\* A report adds up: each block or window scored is counted once, the positives
\* are the anomalies among them, precision and recall are the shares of the hits in
\* what is flagged and in what is anomalous, and F1 is the share of twice the hits
\* in both together.  With nothing flagged, or no anomaly, each of them is 0.
ReportAddsUp ==
  report # None =>
    LET cm == report.cm
        hits == Cardinality(report.predicted \cap report.actual)
        flagged == Cardinality(report.predicted)
        actual == Cardinality(report.actual)
    IN  /\ cm.tp + cm.fp + cm.tn + cm.fn = Cardinality(report.universe)
        /\ cm.tp + cm.fn = actual
        /\ IsShare(Precision(cm), hits, flagged)
        /\ IsShare(Recall(cm), hits, actual)
        /\ IsShare(F1(cm), 2 * hits, flagged + actual)

\* The rates of evaluate_bgl_point.py are rates: with a width that divides the
\* minute, or is a number of minutes that divides the hour, the windows are
\* the intervals [k, k + width) that hold a line, k a multiple of the width, and
\* the count of a window is the number of lines read in that interval.
Admissible(width) ==
  IF width < 60 THEN 60 % width = 0 ELSE width % 60 = 0 /\ 3600 % width = 0

WindowsExact ==
  Evaluated("bgl") /\ Admissible(report.width) =>
    LET lines == FirstLines(report.cap)
        within(k) == {i \in DOMAIN lines : lines[i].time \in k..(k + report.width - 1)}
    IN  /\ \A k \in DOMAIN report.windows :
             k % report.width = 0 /\ report.windows[k] = Cardinality(within(k))
        /\ \A i \in DOMAIN lines : \E k \in DOMAIN report.windows : i \in within(k)
        /\ report.actual =
             {k \in DOMAIN report.windows : \E i \in within(k) : lines[i].alert}

===============================================================================
