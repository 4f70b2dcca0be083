--------------------------- MODULE BlockSessionizer ---------------------------
(***************************************************************************)
(* stages/sessionizing/block_sessionizer.py with the event bus it closes   *)
(* traces on (events/bus.py): consumer tasks in process(), the janitor     *)
(* task, and the main task that calls stop() as cli.py does, once the      *)
(* executor has finished with every consumer.                              *)
(*                                                                         *)
(* One asyncio.Lock guards the traces, first come first served.  Its       *)
(* holder suspends in one place only: bus.publish, which calls every       *)
(* handler of the trace in a task of its own and waits for all of them,    *)
(* the lock still held.  Hence a step is what a task does between taking   *)
(* the lock and publishing or releasing, and the handlers' returns are     *)
(* steps of their own.                                                     *)
(*                                                                         *)
(* Records are numbered in the order in which process() is called on them. *)
(* A record without a block id leaves process() at once and changes        *)
(* nothing, so it is not an input here.  Times are log times in seconds.   *)
(***************************************************************************)
EXTENDS Integers, Sequences, FiniteSets, SequencesExt, Filtering

CONSTANTS
  Consumers, Janitor, Main,
  Blocks,
  Handlers,         \* the subscribers to BlockTraceClosed, fixed by the builder
  Inputs,           \* the records: [block, event, ts]
  NumRecords,       \* bound: how many records arrive
  NoEvent,          \* a record that matched no template has no event_id
  TerminalEvents,
  MaxPerTrace,      \* max_records_per_trace
  MaxOpen,          \* max_open_traces
  IdleWindow,       \* idle_window_s
  WallClock,        \* datetime.now, later than every log time
  MayInterrupt      \* whether the run may be interrupted

NoTime == -1        \* timestamp is None

ASSUME SessionizerAssumption ==
  /\ NumRecords \in Nat
  /\ MaxPerTrace \in Nat \ {0}
  /\ MaxOpen \in Nat \ {0}
  /\ IdleWindow \in Nat \ {0}
  /\ WallClock \in Nat
  /\ MayInterrupt \in BOOLEAN
  /\ NoEvent \notin TerminalEvents
  /\ \A in \in Inputs :
       in.block \in Blocks /\ in.ts \in {NoTime} \cup 0..WallClock

ASSUME TasksAssumption ==
  /\ Janitor \notin Consumers
  /\ Main \notin Consumers
  /\ Janitor # Main

Tasks == Consumers \cup {Janitor, Main}

VARIABLES
  pc,         \* [Tasks -> where the task is suspended]
  log,        \* the records process() was called on, in order
  arg,        \* [Consumers -> the number of its record]
  lockq,      \* _lock: its holder, then those who wait for it
  order,      \* the keys of _open, the least recently touched block first
  trace,      \* [the blocks in order -> _OpenTrace]
  latest,     \* _latest_log_ts
  todo,       \* the janitor's to_close
  emitted,    \* the traces published; _traces_emitted is its length
  calls,      \* [Tasks -> the handlers its publish waits for]
  delivered,  \* [Handlers -> the numbers of the traces it has dealt with]
  interrupted \* the run has been interrupted

vars == <<pc, log, arg, lockq, order, trace, latest, todo, emitted, calls,
          delivered, interrupted>>

Init ==
  /\ pc = [t \in Tasks |-> CASE t = Janitor -> "sleep"
                             [] t = Main    -> "running"
                             [] OTHER       -> "idle"]
  /\ log = <<>>
  /\ arg = [c \in Consumers |-> 0]
  /\ lockq = <<>>
  /\ order = <<>>
  /\ trace = <<>>
  /\ latest = NoTime
  /\ todo = <<>>
  /\ emitted = <<>>
  /\ calls = [t \in Tasks |-> {}]
  /\ delivered = [h \in Handlers |-> <<>>]
  /\ interrupted = FALSE

Goto(t, label) == pc' = [pc EXCEPT ![t] = label]
Holds(t) == lockq # <<>> /\ Head(lockq) = t

-------------------------------------------------------------------------------
(* Traces and the ordered dictionary that holds the open ones. *)

Earlier(s, t) == IF s < t THEN s ELSE t

\* last_ts overwritten without a comparison.
LatestSeen(s, t) == s

Later(s, t) == IF s > t THEN s ELSE t

\* A trace opened by a record without a timestamp starts at the wall clock.
NewTrace(in) ==
  LET start == IF in.ts # NoTime THEN in.ts ELSE WallClock
  IN  [ids |-> <<>>, events |-> <<>>, first |-> start, last |-> start,
       terminal |-> FALSE]

\* _OpenTrace.add, and the terminal hint of process().
Add(tr, n, in) ==
  [ids      |-> Append(tr.ids, n),
   events   |-> IF in.event # NoEvent THEN Append(tr.events, in.event)
                ELSE tr.events,
   first    |-> IF in.ts # NoTime THEN Earlier(in.ts, tr.first) ELSE tr.first,
   last     |-> IF in.ts # NoTime THEN Later(in.ts, tr.last) ELSE tr.last,
   terminal |-> tr.terminal \/ in.event \in TerminalEvents]

IsOpen(b) == b \in DOMAIN trace

\* A dictionary keeps the place of a key it already has.
KeepPlace(b) == IF IsOpen(b) THEN order ELSE Append(order, b)

\* A key added without removing it from its place.
InsertTwice(b) == Append(order, b)

\* Insertion at the end, or move_to_end.
Touch(b) == Append(RemoveFirst(order, b), b)

Put(b, tr) == [x \in DOMAIN trace \cup {b} |-> IF x = b THEN tr ELSE trace[x]]

\* A trace published but not popped.
KeepEntry(f, b) == f

Without(f, b) == [x \in DOMAIN f \ {b} |-> f[x]]

Closed(b, tr, reason) ==
  [block |-> b, ids |-> tr.ids, events |-> tr.events, first |-> tr.first,
   last |-> tr.last, reason |-> reason]

\* _emit as far as its await: the trace is counted and every handler called.
Emit(t, b, tr, reason) ==
  /\ emitted' = Append(emitted, Closed(b, tr, reason))
  /\ calls' = [calls EXCEPT ![t] = Handlers]
  /\ Goto(t, "publish")

-------------------------------------------------------------------------------
(* A consumer: process. *)

Arrive(c) ==
  /\ pc[Main] = "running"
  /\ pc[c] = "idle"
  /\ Len(log) < NumRecords
  /\ \E in \in Inputs : log' = Append(log, in)
  /\ arg' = [arg EXCEPT ![c] = Len(log) + 1]
  /\ lockq' = Append(lockq, c)
  /\ Goto(c, "lock")
  /\ UNCHANGED <<order, trace, latest, todo, emitted, calls, delivered,
                 interrupted>>

\* A new trace for every record.
GrownAnew(c) == Add(NewTrace(log[arg[c]]), arg[c], log[arg[c]])

\* The block's trace with the consumer's record in it.
Grown(c) ==
  LET in == log[arg[c]]
  IN  Add(IF IsOpen(in.block) THEN trace[in.block] ELSE NewTrace(in), arg[c], in)

HitsCap(tr) == Len(tr.events) >= MaxPerTrace

OverCapacity(blocks) == Len(blocks) > MaxOpen

Observe(c) ==
  LET ts == log[arg[c]].ts
  IN  latest' = IF ts # NoTime THEN Later(ts, latest) ELSE latest

\* The locked part of process() when no trace has to be closed.
Attach(c) ==
  LET b == log[arg[c]].block
  IN  /\ pc[c] = "lock"
      /\ Holds(c)
      /\ pc[Main] = "running"
      /\ ~HitsCap(Grown(c))
      /\ ~OverCapacity(Touch(b))
      /\ Observe(c)
      /\ order' = Touch(b)
      /\ trace' = Put(b, Grown(c))
      /\ lockq' = Tail(lockq)
      /\ Goto(c, "idle")
      /\ UNCHANGED <<log, arg, todo, emitted, calls, delivered, interrupted>>

\* The hard cap closes the record's own trace.
AttachAndCap(c) ==
  LET b == log[arg[c]].block
  IN  /\ pc[c] = "lock"
      /\ Holds(c)
      /\ pc[Main] = "running"
      /\ HitsCap(Grown(c))
      /\ Observe(c)
      /\ order' = RemoveFirst(order, b)
      /\ trace' = Without(trace, b)
      /\ Emit(c, b, Grown(c), "evicted")
      /\ UNCHANGED <<log, arg, lockq, todo, delivered, interrupted>>

\* Too many open traces: the first of the dictionary goes.
AttachAndEvict(c) ==
  LET b == log[arg[c]].block
      victim == Head(Touch(b))
  IN  /\ pc[c] = "lock"
      /\ Holds(c)
      /\ pc[Main] = "running"
      /\ ~HitsCap(Grown(c))
      /\ OverCapacity(Touch(b))
      /\ Observe(c)
      /\ order' = Tail(Touch(b))
      /\ trace' = Without(Put(b, Grown(c)), victim)
      /\ Emit(c, victim, Put(b, Grown(c))[victim], "evicted")
      /\ UNCHANGED <<log, arg, lockq, todo, delivered, interrupted>>

Published(t) == pc[t] = "publish" /\ calls[t] = {}

\* process() without the end of its async with.
ProcessReturnsLocked(c) ==
  /\ Published(c)
  /\ Goto(c, "idle")
  /\ UNCHANGED <<log, arg, lockq, order, trace, latest, todo, emitted, calls,
                 delivered, interrupted>>

ProcessReturns(c) ==
  /\ Published(c)
  /\ lockq' = Tail(lockq)
  /\ Goto(c, "idle")
  /\ UNCHANGED <<log, arg, order, trace, latest, todo, emitted, calls,
                 delivered, interrupted>>

-------------------------------------------------------------------------------
(* The bus: publish and _safe_call. *)

\* A dispatch that gives up at the first handler that ends.
HandlerEndsAlone(t, h) ==
  /\ pc[t] = "publish"
  /\ h \in calls[t]
  /\ calls' = [calls EXCEPT ![t] = {}]
  /\ delivered' = [delivered EXCEPT ![h] = Append(@, Len(emitted))]
  /\ UNCHANGED <<pc, log, arg, lockq, order, trace, latest, todo, emitted,
                 interrupted>>

\* A handler ends, normally or with an exception that is logged and swallowed;
\* the others go on either way.  The trace is the last one emitted: the lock
\* lets nobody emit another before publish returns.
HandlerEnds(t, h) ==
  /\ pc[t] = "publish"
  /\ h \in calls[t]
  /\ calls' = [calls EXCEPT ![t] = @ \ {h}]
  /\ delivered' = [delivered EXCEPT ![h] = Append(@, Len(emitted))]
  /\ UNCHANGED <<pc, log, arg, lockq, order, trace, latest, todo, emitted,
                 interrupted>>

-------------------------------------------------------------------------------
(* The janitor: _janitor_loop and _janitor_pass. *)

JanitorWakes ==
  /\ pc[Janitor] = "sleep"
  /\ pc[Main] \in {"running", "cancelling"}
  /\ lockq' = Append(lockq, Janitor)
  /\ Goto(Janitor, "lock")
  /\ UNCHANGED <<log, arg, order, trace, latest, todo, emitted, calls,
                 delivered, interrupted>>

Aged(b) == trace[b].last < latest - IdleWindow

\* A janitor that forgets the terminal hint.
DueByAge(b) == Aged(b)

Due(b) == trace[b].terminal \/ Aged(b)

\* Timeout before terminal.
ReasonByAge(b) == IF Aged(b) THEN "timeout" ELSE "terminal"

ReasonToClose(b) == IF trace[b].terminal THEN "terminal" ELSE "timeout"

\* A pass that stops at the first trace that is due.
ToCloseFirst ==
  LET blocks == Filter(order, {b \in DOMAIN trace : Due(b)})
  IN  IF blocks = <<>> THEN <<>>
      ELSE <<[block |-> blocks[1], reason |-> ReasonToClose(blocks[1])]>>

ToClose ==
  LET blocks == Filter(order, {b \in DOMAIN trace : Due(b)})
  IN  [i \in DOMAIN blocks |->
         [block |-> blocks[i], reason |-> ReasonToClose(blocks[i])]]

CloseNext(due) ==
  LET b == Head(due).block
  IN  /\ order' = RemoveFirst(order, b)
      /\ trace' = Without(trace, b)
      /\ todo' = Tail(due)
      /\ Emit(Janitor, b, trace[b], Head(due).reason)
      /\ UNCHANGED lockq

PassEnds ==
  /\ lockq' = Tail(lockq)
  /\ Goto(Janitor, "sleep")
  /\ UNCHANGED <<order, trace, todo, emitted, calls>>

\* A pass takes the lock and judges every open trace.
JanitorPass ==
  /\ pc[Janitor] = "lock"
  /\ Holds(Janitor)
  /\ pc[Main] \in {"running", "cancelling"}
  /\ IF latest # NoTime /\ ToClose # <<>> THEN CloseNext(ToClose) ELSE PassEnds
  /\ UNCHANGED <<log, arg, latest, delivered, interrupted>>

\* It publishes one trace after the other, the lock held throughout.
JanitorGoesOn ==
  /\ Published(Janitor)
  /\ pc[Main] \in {"running", "cancelling"}
  /\ IF todo # <<>> THEN CloseNext(todo) ELSE PassEnds
  /\ UNCHANGED <<log, arg, latest, delivered, interrupted>>

-------------------------------------------------------------------------------
(* stop, called by cli.py when the executor has ended; interruptions. *)

\* A cancellation that leaves the lock taken.
CancelledLocked(t, label) ==
  /\ UNCHANGED lockq
  /\ calls' = [calls EXCEPT ![t] = {}]
  /\ Goto(t, label)

\* CancelledError leaves the lock's waiting line or its body, and cancels the
\* handlers the task is waiting for.
Cancelled(t, label) ==
  /\ lockq' = RemoveFirst(lockq, t)
  /\ calls' = [calls EXCEPT ![t] = {}]
  /\ Goto(t, label)

\* The executor cancels its consumers when its run is interrupted.
Interrupt ==
  /\ MayInterrupt
  /\ pc[Main] = "running"
  /\ interrupted' = TRUE
  /\ Goto(Main, "cancelling")
  /\ UNCHANGED <<log, arg, lockq, order, trace, latest, todo, emitted, calls,
                 delivered>>

ConsumerCancelled(c) ==
  /\ pc[Main] = "cancelling"
  /\ pc[c] \in {"lock", "publish"}
  /\ Cancelled(c, "idle")
  /\ UNCHANGED <<log, arg, order, trace, latest, todo, emitted, delivered,
                 interrupted>>

\* stop(): set _stopped, cancel the janitor and wait for it.  The executor has
\* ended, at whatever record, so no consumer is in process().
Stop ==
  /\ pc[Main] \in {"running", "cancelling"}
  /\ \A c \in Consumers : pc[c] = "idle"
  /\ Goto(Main, "stopping")
  /\ UNCHANGED <<log, arg, lockq, order, trace, latest, todo, emitted, calls,
                 delivered, interrupted>>

JanitorCancelled ==
  /\ pc[Main] = "stopping"
  /\ pc[Janitor] # "exit"
  /\ Cancelled(Janitor, "exit")
  /\ todo' = <<>>
  /\ UNCHANGED <<log, arg, order, trace, latest, emitted, delivered,
                 interrupted>>

\* The flush: every open trace, in the order of the dictionary.
FlushNext ==
  /\ \/ pc[Main] = "stopping" /\ pc[Janitor] = "exit" /\ lockq = <<>>
     \/ Published(Main)
  /\ IF order = <<>>
     THEN /\ Goto(Main, "stopped")
          /\ lockq' = <<>>
          /\ UNCHANGED <<order, trace, emitted, calls>>
     ELSE /\ lockq' = <<Main>>
          /\ order' = Tail(order)
          /\ trace' = Without(trace, Head(order))
          /\ Emit(Main, Head(order), trace[Head(order)], "shutdown")
  /\ UNCHANGED <<log, arg, latest, todo, delivered, interrupted>>

\* An interrupt that finds stop() publishing leaves the other traces open; one
\* that finds it waiting for the janitor is suppressed.
InterruptFlush ==
  /\ MayInterrupt
  /\ pc[Main] = "publish"
  /\ interrupted' = TRUE
  /\ Cancelled(Main, "stopped")
  /\ UNCHANGED <<log, arg, order, trace, latest, todo, emitted, delivered>>

-------------------------------------------------------------------------------

ConsumerStep(c) ==
  \/ Attach(c)
  \/ AttachAndCap(c)
  \/ AttachAndEvict(c)
  \/ ProcessReturns(c)
  \/ ConsumerCancelled(c)

JanitorStep == JanitorWakes \/ JanitorPass \/ JanitorGoesOn \/ JanitorCancelled

Stopped == pc[Main] = "stopped"

Terminated == Stopped /\ UNCHANGED vars

Next ==
  \/ \E c \in Consumers : Arrive(c) \/ ConsumerStep(c)
  \/ \E t \in Tasks : \E h \in Handlers : HandlerEnds(t, h)
  \/ JanitorStep
  \/ Interrupt
  \/ InterruptFlush
  \/ Stop
  \/ FlushNext
  \/ Terminated

\* The tasks of the sessionizer run when they can; the janitor's sleep ends.  A
\* run may go on for ever, but once it is interrupted stop() is called.
TasksFair ==
  /\ \A c \in Consumers : WF_vars(ConsumerStep(c))
  /\ WF_vars(JanitorStep)
  /\ WF_vars(pc[Main] = "cancelling" /\ Stop)
  /\ WF_vars(FlushNext)

\* Every handler ends: not a promise of the sessionizer.
HandlersFair == \A t \in Tasks : \A h \in Handlers : WF_vars(HandlerEnds(t, h))

Spec == Init /\ [][Next]_vars
FairSpec == Spec /\ TasksFair /\ HandlersFair

-------------------------------------------------------------------------------
(* Type invariant. *)

Ids == 1..NumRecords
Times == {NoTime} \cup 0..WallClock
Events == {in.event : in \in Inputs} \ {NoEvent}
Trace == [ids : Seq(Ids), events : Seq(Events), first : Nat, last : Nat,
          terminal : BOOLEAN]
Reasons == {"terminal", "timeout", "shutdown", "evicted"}

\* The variables hold what the code's fields can hold: the dictionary has the
\* keys of the traces, each once, and a task that publishes holds the lock.
TypeOK ==
  /\ \A c \in Consumers : pc[c] \in {"idle", "lock", "publish"}
  /\ pc[Janitor] \in {"sleep", "lock", "publish", "exit"}
  /\ pc[Main] \in {"running", "cancelling", "stopping", "publish", "stopped"}
  /\ log \in Seq(Inputs)
  /\ arg \in [Consumers -> 0..NumRecords]
  /\ lockq \in Seq(Tasks)
  /\ \A t \in Tasks : pc[t] = "publish" => Holds(t)
  /\ IsInjective(order)
  /\ Range(order) = DOMAIN trace
  /\ \A b \in DOMAIN trace : b \in Blocks /\ trace[b] \in Trace
  /\ latest \in Times
  /\ \A i \in DOMAIN todo :
       todo[i].block \in DOMAIN trace /\ todo[i].reason \in Reasons
  /\ \A i \in DOMAIN emitted :
       emitted[i].block \in Blocks /\ emitted[i].reason \in Reasons
  /\ calls \in [Tasks -> SUBSET Handlers]
  /\ \A h \in Handlers : delivered[h] \in Seq(1..Len(emitted))

-------------------------------------------------------------------------------
(* Safety. *)

OpenIds == UNION {Range(trace[b].ids) : b \in DOMAIN trace}
ClosedIds == UNION {Range(emitted[i].ids) : i \in DOMAIN emitted}

\* A trace, open or closed, tells the truth about its records: they are of its
\* block, its events are theirs in order, and its span is theirs (from the wall
\* clock on when the record that opened it has no timestamp).
TimesOf(ids) ==
  ({log[ids[i]].ts : i \in DOMAIN ids} \ {NoTime})
    \cup (IF log[ids[1]].ts = NoTime THEN {WallClock} ELSE {})

EventsOf(ids) == Filter([i \in DOMAIN ids |-> log[ids[i]].event], Events)

Truthful(b, tr) ==
  /\ tr.ids # <<>>
  /\ \A i \in DOMAIN tr.ids : log[tr.ids[i]].block = b
  /\ tr.events = EventsOf(tr.ids)
  /\ tr.first \in TimesOf(tr.ids) /\ \A t \in TimesOf(tr.ids) : tr.first <= t
  /\ tr.last \in TimesOf(tr.ids) /\ \A t \in TimesOf(tr.ids) : t <= tr.last

TracesTruthful ==
  /\ \A b \in DOMAIN trace : Truthful(b, trace[b])
  /\ \A i \in DOMAIN emitted : Truthful(emitted[i].block, emitted[i])

\* Capacity is kept at every await, by evicting the right trace: there are at
\* most MaxOpen traces, each with fewer than MaxPerTrace events, and whatever tasks
\* touch the dictionary, it is in least-recently-used order.
MemoryBounded ==
  /\ Len(order) <= MaxOpen
  /\ \A b \in DOMAIN trace : Len(trace[b].events) < MaxPerTrace

LeastRecentFirst ==
  \A i, j \in DOMAIN order :
    i < j => Last(trace[order[i]].ids) < Last(trace[order[j]].ids)

CapacityKept == MemoryBounded /\ LeastRecentFirst

\* A trace is closed for the reason it gives, judged at the very step that
\* closes it and not when the janitor looked: "terminal" with a terminal event,
\* "timeout" without one and idle for longer than the window, "evicted" at the
\* cap or when the traces are at their limit, "shutdown" in stop().
JustClosed(e) ==
  LET terminal == \E i \in DOMAIN e.events : e.events[i] \in TerminalEvents
  IN  CASE e.reason = "terminal" -> terminal
        [] e.reason = "timeout"  -> ~terminal /\ e.last < latest - IdleWindow
        [] e.reason = "evicted"  -> \/ Len(e.events) = MaxPerTrace
                                    \/ Len(order') = MaxOpen
        [] OTHER                 -> pc[Main] \in {"stopping", "publish"}

ReasonsTrue == [][emitted' # emitted => JustClosed(Last(emitted'))]_vars

\* A janitor pass that completes leaves no trace behind that is due: neither
\* one with a terminal event nor one that has been idle too long, although
\* consumers were calling process() while it published.  (Before the first
\* timestamp there is no log time to judge by, and a pass does nothing.)
PassComplete ==
  [][ /\ pc[Janitor] \in {"lock", "publish"}
      /\ pc'[Janitor] = "sleep"
      /\ latest' # NoTime
      => \A b \in DOMAIN trace' :
           ~trace'[b].terminal /\ trace'[b].last >= latest' - IdleWindow ]_vars

\* Every handler is called with the closed traces in the order they were closed,
\* never twice with one; when stop() returns in a run that was not interrupted,
\* no trace is open, and at most one closed trace has not reached a handler:
\* the one the janitor was publishing when stop() cancelled it.
Undelivered(h) == DOMAIN emitted \ Range(delivered[h])

DeliveryComplete ==
  /\ \A h \in Handlers :
       \A i, j \in DOMAIN delivered[h] : i < j => delivered[h][i] < delivered[h][j]
  /\ Stopped /\ ~interrupted =>
       /\ order = <<>>
       /\ \A h \in Handlers : Cardinality(Undelivered(h)) <= 1

-------------------------------------------------------------------------------
(* Liveness and refinement. *)

\* A trace with a terminal event is closed, even if no record ever follows it and
\* the run goes on for ever.
TerminalCloses ==
  \A b \in Blocks :
    (IsOpen(b) /\ trace[b].terminal /\ latest # NoTime)
      ~> (interrupted \/ (IsOpen(b) => ~trace[b].terminal))

\* process() returns, whoever publishes and waits for the lock meanwhile.
ProcessEnds == \A c \in Consumers : pc[c] = "lock" ~> pc[c] = "idle"

Attached == OpenIds \cup ClosedIds

LastAttached == IF Attached = {} THEN 0 ELSE Max(Attached)
Current == [b \in Blocks |-> IF IsOpen(b) THEN trace[b].ids ELSE <<>>]
ClosedTraces ==
  [i \in DOMAIN emitted |-> [block |-> emitted[i].block, ids |-> emitted[i].ids]]

Traces == INSTANCE BlockTraces WITH
  attached <- LastAttached, current <- Current, closed <- ClosedTraces

\* The traces of a block are its records, each once and in order.
ImplementsTraces == Traces!TracesSpec

-------------------------------------------------------------------------------
(* What the documents say. *)

\* docs/ONBOARDING.md, lines 558-561: on shutdown all open traces are emitted,
\* "records-conservation requires that no in-flight trace is lost".
StopLosesNoTrace == Stopped => \A h \in Handlers : Undelivered(h) = {}

\* block_sessionizer.py, line 20: "Hard cap: record_count > max_records_per_trace",
\* so no trace grows beyond that many records.
CapBoundsRecords == \A b \in DOMAIN trace : Len(trace[b].ids) <= MaxPerTrace

===============================================================================
