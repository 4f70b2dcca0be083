----------------------------- MODULE MCRepositories -----------------------------
(* Records of two runs and of none, one of them without a timestamp; traces of *)
(* two blocks, both closed twice; anomalies of two detectors.                  *)
EXTENDS Repositories

CONSTANTS RunA, RunB

Record(key, severity, source, run, time) ==
  [key |-> key, severity |-> severity, source |-> source, run |-> run, time |-> time]
Trace(block, reason) == [key |-> block, reason |-> reason]
Anomaly(key, detector, time) == [key |-> key, detector |-> detector, time |-> time]

Into(table, rows) == [table |-> table, rows |-> rows]

SomeCalls == {
  Into("log_records", <<Record(1, "INFO", "app", RunA, 1), Record(2, "ERROR", "app", RunB, 2)>>),
  Into("log_records", <<Record(3, "INFO", "db", NoRun, NoTime)>>),
  Into("log_records", <<>>),
  Into("block_traces", <<Trace("b1", "evicted"), Trace("b2", "timeout")>>),
  Into("block_traces", <<Trace("b2", "shutdown"), Trace("b1", "shutdown")>>),
  Into("anomaly_events", <<Anomaly(1, "z_score", 1)>>),
  Into("anomaly_events", <<Anomaly(2, "cusum", 3)>>),
  Into("anomaly_events", <<Anomaly(3, "z_score", 2)>>)}

\* A run id as str() writes it, and what UUID() makes of that and of other texts.
StrOf(run) == CASE run = RunA -> "aa" [] run = RunB -> "bb" [] run = NoRun -> "None"
UuidOf(text) ==
  CASE text \in {"aa", "AA"} -> RunA [] text \in {"bb", "BB"} -> RunB [] OTHER -> Malformed

SomeFilters ==
  [severity : {Unset, "INFO"}, source : {Unset, "app"}, run : {Unset, "aa", "AA", "None", "run 1"},
   after : {Unset, 2}, before : {Unset, 1, 2}, limit : {1, 1000}]

===============================================================================
