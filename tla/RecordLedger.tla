------------------------------ MODULE RecordLedger ------------------------------
(***************************************************************************)
(* What a pipeline run promises about its records, whatever tasks, queues  *)
(* and batches it is made of: every line accepted from the source is       *)
(* settled exactly once, as stored or as dropped, in groups no larger than *)
(* a batch, and a run that returns has settled every line of the source    *)
(* and reports how many went each way.                                     *)
(***************************************************************************)
EXTENDS Integers, FiniteSets

CONSTANTS NumLines, BatchSize

VARIABLES
  accepted,   \* lines 1..accepted have entered the pipeline
  stored,     \* the records the repository holds
  dropped,    \* the records given up on
  report      \* the result of the run, once it has returned

ledgerVars == <<accepted, stored, dropped, report>>

NoReport == [processed |-> -1, failed |-> -1]

LedgerInit ==
  /\ accepted = 0
  /\ stored = {}
  /\ dropped = {}
  /\ report = NoReport

Accept ==
  /\ accepted < NumLines
  /\ accepted' = accepted + 1
  /\ UNCHANGED <<stored, dropped, report>>

Pending == (1..accepted) \ (stored \cup dropped)

\* A batch is stored, a batch is dropped, or a single record is dropped.
SettleSome ==
  /\ \E group \in SUBSET Pending :
       /\ group # {}
       /\ Cardinality(group) <= BatchSize
       /\ \/ stored' = stored \cup group /\ UNCHANGED dropped
          \/ dropped' = dropped \cup group /\ UNCHANGED stored
  /\ UNCHANGED accepted

Settle == SettleSome /\ UNCHANGED report

\* The run returns, at once with its last batch or later.
Report ==
  /\ report = NoReport
  /\ accepted = NumLines
  /\ SettleSome \/ UNCHANGED <<accepted, stored, dropped>>
  /\ Pending' = {}
  /\ report' = [processed |-> Cardinality(stored'), failed |-> Cardinality(dropped')]

LedgerNext == Accept \/ Settle \/ Report

LedgerSpec == LedgerInit /\ [][LedgerNext]_ledgerVars

===============================================================================
