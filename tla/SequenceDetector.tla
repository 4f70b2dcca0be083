---------------------------- MODULE SequenceDetector ----------------------------
(***************************************************************************)
(* detectors/sequence.py: a closed trace is scored by the share of its     *)
(* distinct n-grams that the model of normal behaviour does not contain.   *)
(* The threshold is the rational ThresholdNum / ThresholdDen.              *)
(***************************************************************************)
EXTENDS Integers, Sequences, FiniteSets

CONSTANTS
  N,             \* SequenceModel.n, an integer
  NormalNgrams,  \* SequenceModel.normal_ngrams
  ThresholdNum, ThresholdDen

\* A sequence shorter than N has none; nothing has any when the model file has an
\* n that is not positive, which nothing checks.
Ngrams(events) ==
  IF N <= 0 THEN {}
  ELSE {[j \in 1..N |-> events[i + j - 1]] : i \in 1..(Len(events) - N + 1)}

Novel(events) == Ngrams(events) \ NormalNgrams

\* detect_trace with // for /.
FiresWhenAllNovel(events) ==
  /\ Ngrams(events) # {}
  /\ (Cardinality(Novel(events)) \div Cardinality(Ngrams(events))) * ThresholdDen > ThresholdNum

Fires(events) ==
  /\ Ngrams(events) # {}
  /\ Cardinality(Novel(events)) * ThresholdDen > ThresholdNum * Cardinality(Ngrams(events))

===============================================================================
