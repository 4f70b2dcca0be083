----------------------------- MODULE SyntheticLogs -----------------------------
(***************************************************************************)
(* scripts/generate_synthetic_logs.py: a log in the HDFS format, the       *)
(* lifecycles of blocks interleaved at random, some with an anomaly, or in *)
(* the BGL format, lines at random times of which some carry an alert.     *)
(* Both are parsed without loss, the HDFS parser taking the block id out   *)
(* of the message and the BGL parser the label and the time.               *)
(***************************************************************************)
EXTENDS Integers, Sequences, FiniteSets, SequencesExt

CONSTANTS
  Blocks,
  Lifecycle,        \* _HDFS_NORMAL_LIFECYCLE
  ExceptionEvents,  \* _HDFS_EXCEPTION_EVENTS
  Times,            \* the times of BGL lines, in seconds from a full hour
  BglLines,         \* bound: how many lines a BGL log has at most
  Cuts              \* where --total or --duration may end the log

ASSUME LogsAssumption ==
  /\ Lifecycle \in Seq(Range(Lifecycle)) /\ Len(Lifecycle) >= 3
  /\ Times \subseteq Nat
  /\ Cuts \subseteq Nat

VARIABLES
  format,     \* --format
  sequences,  \* [Blocks -> the kinds of its lines]
  cursors,    \* [Blocks -> how many of them are written]
  log,        \* the lines written: [block, kind] or [time, alert]
  writing     \* whether the generator still runs

logVars == <<format, sequences, cursors, log, writing>>

\* _inject_hdfs_anomaly, by strategy.
Truncated(s) == {SubSeq(s, 1, k) : k \in 2..(Len(s) - 1)}
Reordered(s) ==
  {[s EXCEPT ![i] = s[i + 1], ![i + 1] = s[i]] : i \in 1..(Len(s) - 1)}
Injected(s) ==
  {InsertAt(s, i + 1, e) : i \in 1..(Len(s) - 1), e \in ExceptionEvents}
Anomalous(s) == Truncated(s) \cup Reordered(s) \cup Injected(s)

LogsInit ==
  /\ format \in {"hdfs", "bgl"}
  /\ sequences \in IF format = "bgl" THEN {[b \in Blocks |-> <<>>]}
                   ELSE [Blocks -> {Lifecycle} \cup Anomalous(Lifecycle)]
  /\ cursors = [b \in Blocks |-> 0]
  /\ log = <<>>
  /\ writing = TRUE

\* What the parser reads off a formatted line: the block id in its message, and
\* the message, of which only the kind matters.
HdfsLine(b, kind) == [block |-> b, kind |-> kind]

\* _hdfs_stream: any block that has lines left is next.
WriteHdfsLine(b) ==
  /\ writing
  /\ cursors[b] < Len(sequences[b])
  /\ cursors' = [cursors EXCEPT ![b] = @ + 1]
  /\ log' = Append(log, HdfsLine(b, sequences[b][cursors'[b]]))
  /\ UNCHANGED <<format, sequences, writing>>

\* _bgl_stream never ends by itself.
WriteBglLine ==
  /\ writing
  /\ format = "bgl"
  /\ Len(log) < BglLines
  /\ \E t \in Times, alert \in BOOLEAN :
       log' = Append(log, [time |-> t, alert |-> alert])
  /\ UNCHANGED <<format, sequences, cursors, writing>>

\* _write_stream: the stream is exhausted, or the total or deadline is reached.
EndWriting ==
  /\ writing
  /\ \/ format = "hdfs" /\ \A b \in Blocks : cursors[b] = Len(sequences[b])
     \/ format = "bgl" /\ log # <<>>
     \/ Len(log) \in Cuts
  /\ writing' = FALSE
  /\ UNCHANGED <<format, sequences, cursors, log>>

LogsNext ==
  \/ \E b \in Blocks : WriteHdfsLine(b)
  \/ WriteBglLine
  \/ EndWriting

===============================================================================
