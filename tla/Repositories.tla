------------------------------ MODULE Repositories ------------------------------
(***************************************************************************)
(* The two log repositories, fed the same calls by the same tasks:         *)
(* persistence/memory_repo.py keeps three lists, persistence/postgres_repo *)
(* three tables whose primary keys are persistence/schema.sql's.  A write  *)
(* to memory never suspends, since its lock is held over no await: it is   *)
(* part of the step that makes the call.  A write to Postgres is a         *)
(* transaction whose statements interleave with those of other tasks and   *)
(* may fail at any of them; its rows are inserted one by one               *)
(* (executemany) and seen by nobody until the commit, and the answer to    *)
(* the commit may get lost.  Postgres itself is external.                  *)
(*                                                                         *)
(* A row is what tells rows apart: its key (id; block_id for traces), and  *)
(* the columns that queries read.  query, aggregate and the API's listing  *)
(* change nothing, hence are operators on the state.                       *)
(***************************************************************************)
EXTENDS Integers, Sequences, FiniteSets, FiniteSetsExt, SequencesExt, Filtering

CONSTANTS
  Clients,   \* the tasks that write: consumers, the flusher, trace handlers
  Calls,     \* the writes they make, [table, rows]
  Filters,   \* the QueryFilters asked for
  Unset,     \* a filter's None: no condition
  NoTime,    \* the timestamp of a record without one
  NoRun,     \* the pipeline_run_id of a record without one
  RunText(_),  \* str(run id)
  RunOf(_),    \* UUID(text), or Malformed
  Malformed,   \* what UUID() refuses
  Now,       \* the time at which a row is read
  MaxCalls   \* bound: calls in a behaviour, no two the same, since ids are fresh

Tables == {"log_records", "block_traces", "anomaly_events"}

RowsOf(k) == Range(k.rows)

ASSUME CallsAssumption ==
  /\ Calls # {}
  /\ \A k \in Calls : k.table \in Tables /\ k.rows \in Seq(RowsOf(k))

Nulls == {NoTime, NoRun}

\* Severity and source are not null, and detected_at is not either.  A run id reads
\* back as it was written, and what None is written as is no run id.
ASSUME RowsAssumption ==
  /\ Nulls \cap Int = {} /\ NoTime # NoRun
  /\ RunOf(RunText(NoRun)) = Malformed
  /\ \A k \in Calls : \A r \in RowsOf(k) :
       /\ k.table = "log_records" =>
            /\ r.time \in Int \cup {NoTime}
            /\ (Nulls \cup {Unset}) \cap {r.severity, r.source} = {}
            /\ r.run # NoRun => RunOf(RunText(r.run)) = r.run /\ r.run # NoTime
       /\ k.table = "anomaly_events" => r.time \in Int

\* The API's limits are positive, and so are all others.
ASSUME FiltersAssumption ==
  /\ Malformed # Unset
  /\ \A f \in Filters :
       /\ Nulls \cap {f.severity, f.source} = {}
       /\ RunOf(f.run) \notin Nulls \cup {Unset}
       /\ {f.after, f.before} \subseteq Int \cup {Unset}
       /\ f.limit \in Nat \ {0}

VARIABLES
  memory,     \* [Tables -> the list InMemoryLogRepository keeps]
  committed,  \* [Tables -> the rows committed in Postgres]
  step,       \* [Clients -> where its call to Postgres is]
  call,       \* [Clients -> its call, or its last one]
  inserted,   \* [Clients -> how many rows its open transaction has inserted]
  outcome,    \* [Clients -> how its last call to Postgres ended]
  asked,      \* the calls made
  flawless    \* every call to Postgres so far was answered normally

vars == <<memory, committed, step, call, inserted, outcome, asked, flawless>>

Outcomes == {"none", "ok", "repository_error", "unexpected_error", "cancelled"}

Init ==
  /\ memory = [t \in Tables |-> <<>>]
  /\ committed = [t \in Tables |-> {}]
  /\ step = [c \in Clients |-> "idle"]
  /\ call = [c \in Clients |-> CHOOSE k \in Calls : TRUE]
  /\ inserted = [c \in Clients |-> 0]
  /\ outcome = [c \in Clients |-> "none"]
  /\ asked = {}
  /\ flawless = TRUE

Keys(rows) == {r.key : r \in rows}
InTransaction(c) == {call[c].rows[i] : i \in 1..inserted[c]}

\* save_batch, save_trace_batch, save_anomaly; save and save_trace pass one row.
Call(c) ==
  /\ Cardinality(asked) < MaxCalls
  /\ step[c] = "idle"
  /\ \E k \in Calls \ asked :
       /\ asked' = asked \cup {k}
       /\ call' = [call EXCEPT ![c] = k]
       /\ memory' = [memory EXCEPT ![k.table] = @ \o k.rows]
       /\ IF k.rows = <<>>
            THEN /\ outcome' = [outcome EXCEPT ![c] = "ok"]
                 /\ UNCHANGED step
            ELSE /\ outcome' = [outcome EXCEPT ![c] = "none"]
                 /\ step' = [step EXCEPT ![c] = "begin"]
  /\ UNCHANGED <<committed, inserted, flawless>>

\* engine.begin(): a connection from the pool.
Begin(c) ==
  /\ step[c] = "begin"
  /\ step' = [step EXCEPT ![c] = "insert"]
  /\ UNCHANGED <<memory, committed, call, inserted, outcome, asked, flawless>>

\* The call ends: what its transaction has not committed is rolled back.
Return(c, how) ==
  /\ step' = [step EXCEPT ![c] = "idle"]
  /\ inserted' = [inserted EXCEPT ![c] = 0]
  /\ outcome' = [outcome EXCEPT ![c] = how]
  /\ flawless' = (flawless /\ how = "ok")
  /\ UNCHANGED <<memory, committed, call, asked>>

NextRow(c) == call[c].rows[inserted[c] + 1]

\* A row whose key another open transaction has inserted waits for its end.
Awaited(c) ==
  \E d \in Clients \ {c} :
    /\ call[d].table = call[c].table
    /\ NextRow(c).key \in Keys(InTransaction(d))

\* InsertRow with a statement that commits by itself.
InsertRowAutocommit(c) ==
  /\ step[c] = "insert"
  /\ NextRow(c).key \notin Keys(committed[call[c].table])
  /\ committed' = [committed EXCEPT ![call[c].table] = @ \cup {NextRow(c)}]
  /\ inserted' = [inserted EXCEPT ![c] = @ + 1]
  /\ step' = [step EXCEPT ![c] = IF inserted'[c] = Len(call[c].rows) THEN "commit" ELSE @]
  /\ UNCHANGED <<memory, call, outcome, asked, flawless>>

InsertRow(c) ==
  /\ step[c] = "insert"
  /\ NextRow(c).key \notin Keys(committed[call[c].table]) \cup Keys(InTransaction(c))
  /\ ~Awaited(c)
  /\ inserted' = [inserted EXCEPT ![c] = @ + 1]
  /\ step' = [step EXCEPT ![c] = IF inserted'[c] = Len(call[c].rows) THEN "commit" ELSE @]
  /\ UNCHANGED <<memory, committed, call, outcome, asked, flawless>>

\* IntegrityError, an SQLAlchemyError: engine.begin() rolls back.
Conflict(c) ==
  /\ step[c] = "insert"
  /\ NextRow(c).key \in Keys(committed[call[c].table]) \cup Keys(InTransaction(c))
  /\ Return(c, "repository_error")

\* What a call raises: SQLAlchemyErrors are translated, whatever else the driver
\* or the socket raises is not.
Broken(c) == Return(c, "repository_error") \/ Return(c, "unexpected_error")

\* No connection: a pool that times out, or a refused one, an OSError.
ConnectFails(c) ==
  /\ step[c] = "begin"
  /\ Broken(c)

\* A lost connection, a deadlock broken by the server, a refused value.
ServerFails(c) ==
  /\ step[c] \in {"insert", "commit"}
  /\ Broken(c)

Commit(c) ==
  /\ step[c] = "commit"
  /\ committed' = [committed EXCEPT ![call[c].table] = @ \cup InTransaction(c)]
  /\ inserted' = [inserted EXCEPT ![c] = 0]
  /\ step' = [step EXCEPT ![c] = "committed"]
  /\ UNCHANGED <<memory, call, outcome, asked, flawless>>

Acknowledge(c) ==
  /\ step[c] = "committed"
  /\ Return(c, "ok")

AnswerLost(c) ==
  /\ step[c] = "committed"
  /\ Broken(c)

\* The executor cancels its consumers and the flusher at any await.
Cancel(c) ==
  /\ step[c] # "idle"
  /\ Return(c, "cancelled")

\* clear() and truncate_all(), which the tests call between scenarios.
Clear ==
  /\ \A c \in Clients : step[c] = "idle"
  /\ memory' = [t \in Tables |-> <<>>]
  /\ committed' = [t \in Tables |-> {}]
  /\ UNCHANGED <<step, call, inserted, outcome, asked, flawless>>

Next ==
  \/ \E c \in Clients :
       \/ Call(c) \/ Begin(c) \/ ConnectFails(c) \/ InsertRow(c) \/ Conflict(c)
       \/ ServerFails(c) \/ Commit(c) \/ Acknowledge(c) \/ AnswerLost(c)
       \/ Cancel(c)
  \/ Clear

Spec == Init /\ [][Next]_vars

-------------------------------------------------------------------------------
(* query, in memory: a loop over the list, and its break *)

Skipped(r, f) ==
  \/ f.severity # Unset /\ r.severity # f.severity
  \/ f.source # Unset /\ r.source # f.source
  \/ f.run # Unset /\ RunText(r.run) # f.run
  \/ f.after # Unset /\ (r.time = NoTime \/ r.time < f.after)
  \/ f.before # Unset /\ (r.time = NoTime \/ r.time > f.before)

\* The limit is looked at after a record was appended: one record at least.
MemoryQuery(f) ==
  LET list == memory["log_records"]
      kept == Filter(list, {r \in Range(list) : ~Skipped(r, f)})
  IN  SubSeq(kept, 1, Min({Len(kept), Max({1, f.limit})}))

-------------------------------------------------------------------------------
(* query, in Postgres: SELECT ... WHERE ... LIMIT, with no ORDER BY *)

Clause(column, op, value) ==
  IF value = Unset THEN {} ELSE {[column |-> column, op |-> op, value |-> value]}

\* The run asked for, whatever its spelling.
RunAsked(f) == IF f.run = Unset THEN Unset ELSE RunOf(f.run)

\* query with an interval open at its end.
ClausesOpenEnd(f) ==
  Clause("severity", "=", f.severity) \cup Clause("source", "=", f.source)
    \cup Clause("run", "=", RunAsked(f)) \cup Clause("time", ">=", f.after)
    \cup Clause("time", "<", f.before)

Clauses(f) ==
  Clause("severity", "=", f.severity) \cup Clause("source", "=", f.source)
    \cup Clause("run", "=", RunAsked(f)) \cup Clause("time", ">=", f.after)
    \cup Clause("time", "<=", f.before)

\* A comparison with null is not true.
Holds(r, clause) ==
  LET column == r[clause.column]
  IN  /\ column \notin Nulls
      /\ \/ clause.op = "=" /\ column = clause.value
         \/ clause.op = ">=" /\ column >= clause.value
         \/ clause.op = "<=" /\ column <= clause.value
         \/ clause.op = "<" /\ column < clause.value

Matching(f) == {r \in committed["log_records"] : \A cl \in Clauses(f) : Holds(r, cl)}

\* _row_to_record: a null timestamp comes back as the time of the reading.
ReadBack(r) == IF r.time = NoTime THEN [r EXCEPT !.time = Now] ELSE r

\* Any of these sets of records may come back: none does when the run is no UUID,
\* a ValueError before there is a statement.
PostgresAnswers(f) ==
  IF RunAsked(f) = Malformed THEN {}
  ELSE {{ReadBack(r) : r \in rows} :
          rows \in kSubset(Min({f.limit, Cardinality(Matching(f))}), Matching(f))}

-------------------------------------------------------------------------------
(* aggregate: counts by severity or by source *)

MemoryCounts(column) ==
  LET list == memory["log_records"]
  IN  [v \in {r[column] : r \in Range(list)} |->
         Len(Filter(list, {r \in Range(list) : r[column] = v}))]

PostgresCounts(column) ==
  LET rows == committed["log_records"]
  IN  [v \in {r[column] : r \in rows} |-> Cardinality({r \in rows : r[column] = v})]

-------------------------------------------------------------------------------
(* api/routes.py: list_anomalies, over what all_anomalies returns *)

MemoryAnomalies == memory["anomaly_events"]

\* A SELECT with no ORDER BY: the rows in any order.
PostgresAnomalies == SetToSeqs(committed["anomaly_events"])

Fits(detector, value) == detector = Unset \/ value = detector

\* sort with reverse=True, which leaves equals as they were.
Precedes(list, i, j) ==
  list[i].time > list[j].time \/ (list[i].time = list[j].time /\ i < j)

Place(list, j) == Cardinality({i \in DOMAIN list : Precedes(list, i, j)}) + 1

NewestFirst(list) ==
  [k \in DOMAIN list |-> list[CHOOSE j \in DOMAIN list : Place(list, j) = k]]

NewestThenCut(anomalies, limit) ==
  SubSeq(NewestFirst(anomalies), 1, Min({limit, Len(anomalies)}))

ListAnomalies(anomalies, detector, limit) ==
  NewestThenCut(Filter(anomalies, {a \in Range(anomalies) : Fits(detector, a.detector)}), limit)

-------------------------------------------------------------------------------
(* Properties *)

\* The tables of Postgres change by whole calls only, no key is in a table
\* twice, and a call that returned normally has landed, whatever the other
\* tasks do, wherever the server fails and whoever is cancelled: what
\* save_batch, save_trace_batch and save_anomaly owe to engine.begin().
Store == INSTANCE LogStore WITH
  tables <- committed,
  standing <- [c \in Clients |->
                 CASE step[c] = "idle" -> "free"
                   [] step[c] = "committed" -> "landed"
                   [] OTHER -> "asked"],
  wanted <- call,
  verdict <- [c \in Clients |->
                IF outcome[c] \in {"none", "ok"} THEN outcome[c] ELSE "error"]
ImplementsStore == Store!StoreSpec

\* The query for what an aggregate counts, with room for all.
Only(column, v) ==
  [severity |-> IF column = "severity" THEN v ELSE Unset,
   source |-> IF column = "source" THEN v ELSE Unset,
   run |-> Unset, after |-> Unset, before |-> Unset,
   limit |-> Len(memory["log_records"]) + 1]

TimesOf(anomalies) == [i \in DOMAIN anomalies |-> anomalies[i].time]

\* A run as str() writes it, or none.
Canonical(f) == f.run = Unset \/ (RunOf(f.run) # Malformed /\ RunText(RunOf(f.run)) = f.run)

QueryAlike(f) ==
  LET found == MemoryQuery(f)
  IN  /\ IsInjective(found)
      /\ {ReadBack(r) : r \in Range(found)} \in PostgresAnswers(f)

QueriesAlike == \A f \in Filters : Canonical(f) => QueryAlike(f)

CountsAlike ==
  \A column \in {"severity", "source"} :
    LET counts == PostgresCounts(column)
    IN  /\ MemoryCounts(column) = counts
        /\ \A v \in DOMAIN counts : counts[v] = Len(MemoryQuery(Only(column, v)))

ListsAlike ==
  \A rows \in PostgresAnomalies, limit \in 1..(Len(MemoryAnomalies) + 1),
     detector \in {Unset} \cup {a.detector : a \in Range(MemoryAnomalies)} :
    TimesOf(ListAnomalies(rows, detector, limit))
      = TimesOf(ListAnomalies(MemoryAnomalies, detector, limit))

Quiet == flawless /\ \A c \in Clients : step[c] = "idle"

\* The two repositories are interchangeable (core/interfaces.py) as long as
\* Postgres has served every call.  Once no call is under way, a query of one may
\* return just what it returns of the other, if the filter spells a run the way
\* str() does, and but for the timestamp of a record without one, in whose place
\* Postgres's reader puts the current time; so do their aggregates, which agree
\* with what a query for a value returns; and the API lists anomalies as new in
\* the same order, whatever order the rows come in.  A filter that names a run is
\* one that spells it as str() does: another spelling of a UUID is found by Postgres
\* alone, "None" in memory alone, and what is no UUID Postgres refuses.
SameAnswers == Quiet => QueriesAlike /\ CountsAlike /\ ListsAlike

===============================================================================
