------------------------- MODULE BlockSessionizerProofs -------------------------
(***************************************************************************)
(* The sessionizer, for any consumers, handlers, records, blocks and       *)
(* limits: what it holds, what it closes and why, and what its handlers    *)
(* are given, with the janitor, evictions, interruptions and stop() at     *)
(* every await.                                                            *)
(***************************************************************************)
EXTENDS BlockSessionizer, Induction, FiniteSetTheorems, SequenceTheorems

(* Sequences without repetitions: the ordered dictionary and the lock's line. *)

LEMMA AppendFacts ==
  ASSUME NEW D, NEW s \in Seq(D), NEW e \in D
  PROVE  /\ Append(s, e) \in Seq(D)
         /\ Len(s) \in Nat /\ DOMAIN s = 1..Len(s)
         /\ Len(Append(s, e)) = Len(s) + 1
         /\ DOMAIN Append(s, e) = 1..(Len(s) + 1)
         /\ Append(s, e)[Len(s) + 1] = e
         /\ \A i \in 1..Len(s) : Append(s, e)[i] = s[i]
         /\ Range(Append(s, e)) = Range(s) \cup {e}
         /\ IsInjective(s) /\ e \notin Range(s) => IsInjective(Append(s, e))
         /\ s # <<>> => Append(s, e) # <<>> /\ Head(Append(s, e)) = Head(s)
<1> DEFINE r == Append(s, e)
           n == Len(s)
<1>1. /\ r \in Seq(D) /\ n \in Nat /\ DOMAIN s = 1..n
      /\ Len(r) = n + 1 /\ DOMAIN r = 1..(n + 1)
      /\ r[n + 1] = e /\ \A i \in 1..n : r[i] = s[i]
  OBVIOUS
<1>2. \A i : i \in 1..(n + 1) <=> i \in 1..n \/ i = n + 1
  BY <1>1
<1>3. s # <<>> => r # <<>> /\ Head(r) = Head(s)
  OBVIOUS
<1> HIDE DEF r, n
<1>4. Range(r) = Range(s) \cup {e}
  BY <1>1, <1>2 DEF Range
<1>5. IsInjective(s) /\ e \notin Range(s) => IsInjective(r)
  <2> SUFFICES ASSUME IsInjective(s), e \notin Range(s),
                      NEW i \in 1..(n + 1), NEW j \in 1..(n + 1), r[i] = r[j]
               PROVE  i = j
    BY <1>1 DEF IsInjective
  <2>1. \A k \in 1..n : s[k] # e
    BY <1>1 DEF Range
  <2>2. QED
    BY <1>1, <1>2, <2>1 DEF IsInjective
<1>6. QED
  BY <1>1, <1>3, <1>4, <1>5 DEF r, n

\* What is left is the rest, in the same order.
InOrder(r, s) ==
  \A i, j \in DOMAIN r : i < j =>
    \E k, l \in DOMAIN s : k < l /\ s[k] = r[i] /\ s[l] = r[j]

LEMMA TailFacts ==
  ASSUME NEW D, NEW s \in Seq(D), s # <<>>, IsInjective(s)
  PROVE  /\ Tail(s) \in Seq(D) /\ Len(s) \in Nat \ {0}
         /\ Len(Tail(s)) = Len(s) - 1
         /\ DOMAIN Tail(s) = 1..(Len(s) - 1) /\ DOMAIN s = 1..Len(s)
         /\ \A i \in 1..(Len(s) - 1) : Tail(s)[i] = s[i + 1]
         /\ Head(s) \in Range(s) /\ Head(s) \in D /\ Head(s) = s[1]
         /\ Range(Tail(s)) = Range(s) \ {Head(s)}
         /\ IsInjective(Tail(s))
         /\ InOrder(Tail(s), s)
<1> DEFINE r == Tail(s)
           n == Len(s)
<1>1. /\ r \in Seq(D) /\ n \in Nat \ {0} /\ DOMAIN s = 1..n
      /\ Len(r) = n - 1 /\ DOMAIN r = 1..(n - 1)
      /\ \A i \in 1..(n - 1) : r[i] = s[i + 1]
      /\ Head(s) = s[1] /\ Head(s) \in D /\ 1 \in 1..n
  OBVIOUS
<1> HIDE DEF r, n
<1>2. Range(r) = Range(s) \ {s[1]}
  <2>1. \A i \in 1..(n - 1) : i + 1 \in 1..n /\ i + 1 # 1
    BY <1>1
  <2>2. \A i \in 1..n : i # 1 => i - 1 \in 1..(n - 1) /\ (i - 1) + 1 = i
    BY <1>1
  <2>3. \A i \in 1..n : i # 1 => s[i] # s[1]
    BY <1>1 DEF IsInjective
  <2>4. ASSUME NEW x \in Range(r) PROVE x \in Range(s) /\ x # s[1]
    BY <2>1, <2>3, <1>1 DEF Range
  <2>5. ASSUME NEW x \in Range(s), x # s[1] PROVE x \in Range(r)
    <3>1. PICK i \in 1..n : x = s[i] /\ i # 1
      BY <2>5, <1>1 DEF Range
    <3>2. i - 1 \in DOMAIN r /\ r[i - 1] = x
      BY <3>1, <2>2, <1>1
    <3>3. QED
      BY <3>2 DEF Range
  <2>6. QED
    BY <2>4, <2>5
<1>3. IsInjective(r)
  <2>1. \A i, j \in 1..n : s[i] = s[j] => i = j
    BY <1>1 DEF IsInjective
  <2>2. \A i \in 1..(n - 1) : r[i] = s[i + 1] /\ i + 1 \in 1..n
    BY <1>1
  <2>3. \A i, j \in 1..(n - 1) : r[i] = r[j] => i + 1 = j + 1
    BY <2>1, <2>2
  <2>4. \A i, j \in 1..(n - 1) : i + 1 = j + 1 => i = j
    BY <1>1
  <2>5. QED
    BY <1>1, <2>3, <2>4 DEF IsInjective
<1>4. Head(s) \in Range(s)
  BY <1>1 DEF Range
<1>5. InOrder(r, s)
  <2>1. DOMAIN r = 1..(n - 1) /\ DOMAIN s = 1..n
    BY <1>1
  <2>2. ASSUME NEW i \in DOMAIN r, NEW j \in DOMAIN r, i < j
        PROVE  \E k, l \in DOMAIN s : k < l /\ s[k] = r[i] /\ s[l] = r[j]
    <3>1. i + 1 \in 1..n /\ j + 1 \in 1..n /\ i + 1 < j + 1
      BY <1>1, <2>1, <2>2
    <3>2. s[i + 1] = r[i] /\ s[j + 1] = r[j]
      BY <1>1, <2>1
    <3>3. QED
      BY <3>1, <3>2, <2>1
  <2>3. QED
    BY <2>2 DEF InOrder
<1>6. QED
  BY <1>1, <1>2, <1>3, <1>4, <1>5 DEF r, n

\* RemoveFirst takes the element at p out of its place.
LEMMA RemoveFirstAt ==
  ASSUME NEW D, NEW s \in Seq(D), IsInjective(s), NEW p \in 1..Len(s)
  PROVE  LET r == RemoveFirst(s, s[p])
         IN  /\ r \in Seq(D) /\ Len(r) = Len(s) - 1
             /\ \A i \in 1..(Len(s) - 1) : r[i] = IF i < p THEN s[i] ELSE s[i + 1]
<1> DEFINE e == s[p]
           I == {i \in 1..Len(s) : s[i] = e}
           n == Len(s)
           a == SubSeq(s, 1, p - 1)
           b == SubSeq(s, p + 1, n)
<1>1. I = {p}
  BY DEF IsInjective
<1>2. Min(I) = p
  BY <1>1 DEF Min
<1>3. SelectInSeq(s, LAMBDA v : v = e) = p
  <2>1. SelectInSeq(s, LAMBDA v : v = e) = IF I # {} THEN Min(I) ELSE 0
    BY Zenon DEF SelectInSeq
  <2>2. QED
    BY <1>1, <1>2, <2>1
<1>4. RemoveFirst(s, e) = RemoveAt(s, p)
  <2> HIDE DEF e
  <2>1. \E i \in 1..Len(s) : s[i] = e
    BY DEF e
  <2>2. RemoveFirst(s, e) = RemoveAt(s, SelectInSeq(s, LAMBDA v : v = e))
    BY <2>1, Zenon DEF RemoveFirst
  <2>3. QED
    BY <1>3, <2>2
<1>5. n \in Nat /\ p \in 1..n /\ \A i \in 1..n : s[i] \in D
  OBVIOUS
<1>6. /\ a \in Seq(D) /\ Len(a) = p - 1 /\ \A i \in 1..(p - 1) : a[i] = s[i]
      /\ b \in Seq(D) /\ Len(b) = n - p /\ \A i \in 1..(n - p) : b[i] = s[p + i]
  BY <1>5
<1>7. RemoveAt(s, p) = a \o b
  BY DEF RemoveAt
<1> HIDE DEF a, b, n
<1>8. /\ a \o b \in Seq(D) /\ Len(a \o b) = n - 1
      /\ \A i \in 1..(n - 1) :
           (a \o b)[i] = IF i <= p - 1 THEN a[i] ELSE b[i - (p - 1)]
  <2>1. /\ Len(a) \in Nat /\ Len(b) \in Nat /\ Len(a) + Len(b) = n - 1
    BY <1>5, <1>6
  <2> SUFFICES ASSUME a \in Seq(D), b \in Seq(D)
               PROVE  /\ a \o b \in Seq(D) /\ Len(a \o b) = n - 1
                      /\ \A i \in 1..(n - 1) :
                           (a \o b)[i] = IF i <= p - 1 THEN a[i] ELSE b[i - (p - 1)]
    BY <1>6
  <2>2. a \o b \in Seq(D) /\ Len(a \o b) = Len(a) + Len(b)
    OBVIOUS
  <2>3. \A i \in 1..(Len(a) + Len(b)) :
          (a \o b)[i] = IF i <= Len(a) THEN a[i] ELSE b[i - Len(a)]
    OBVIOUS
  <2>4. QED
    BY <2>1, <2>2, <2>3, <1>6
<1>9. ASSUME NEW i \in 1..(n - 1) PROVE (a \o b)[i] = IF i < p THEN s[i] ELSE s[i + 1]
  <2>1. CASE i < p
    <3>1. i \in 1..(p - 1) /\ i <= p - 1
      BY <2>1, <1>5
    <3>2. QED
      BY <2>1, <3>1, <1>6, <1>8
  <2>2. CASE i >= p
    <3>1. i - (p - 1) \in 1..(n - p) /\ p + (i - (p - 1)) = i + 1 /\ ~(i <= p - 1)
      BY <2>2, <1>5
    <3>2. (a \o b)[i] = b[i - (p - 1)]
      BY <3>1, <1>8
    <3>3. b[i - (p - 1)] = s[i + 1]
      BY <3>1, <1>6
    <3>4. QED
      BY <2>2, <3>2, <3>3, <1>5
  <2>3. i < p \/ i >= p
    BY <1>5
  <2>4. QED
    BY <2>1, <2>2, <2>3
<1>10. QED
  BY <1>4, <1>7, <1>8, <1>9 DEF n, e

LEMMA RemoveFirstFacts ==
  ASSUME NEW D, NEW s \in Seq(D), IsInjective(s), NEW e
  PROVE  LET r == RemoveFirst(s, e)
         IN  /\ r \in Seq(D) /\ IsInjective(r)
             /\ Len(s) \in Nat /\ Len(r) \in Nat
             /\ Range(r) = Range(s) \ {e}
             /\ Len(r) = IF e \in Range(s) THEN Len(s) - 1 ELSE Len(s)
             /\ InOrder(r, s)
             /\ s # <<>> /\ Head(s) # e => r # <<>> /\ Head(r) = Head(s)
<1> DEFINE r == RemoveFirst(s, e)
           n == Len(s)
<1>1. n \in Nat /\ DOMAIN s = 1..n
  OBVIOUS
<1>2. CASE e \notin Range(s)
  <2>1. ~ \E i \in 1..Len(s) : s[i] = e
    BY <1>2 DEF Range
  <2>2. r = s
    BY <2>1, Zenon DEF RemoveFirst
  <2>3. InOrder(s, s)
    BY DEF InOrder
  <2> HIDE DEF r
  <2>4. QED
    BY <1>1, <1>2, <2>2, <2>3 DEF r
<1>3. CASE e \in Range(s)
  <2>1. PICK p \in 1..n : s[p] = e
    BY <1>1, <1>3 DEF Range
  <2>2. /\ r \in Seq(D) /\ Len(r) = n - 1
        /\ \A i \in 1..(n - 1) : r[i] = IF i < p THEN s[i] ELSE s[i + 1]
    BY <2>1, RemoveFirstAt
  <2> HIDE DEF r, n
  <2>3. DOMAIN r = 1..(n - 1)
    BY <2>2
  <2> DEFINE at(i) == IF i < p THEN i ELSE i + 1
  <2>4. \A i \in 1..(n - 1) : r[i] = s[at(i)] /\ at(i) \in 1..n /\ at(i) # p
    BY <2>1, <2>2, <1>1
  <2>5. \A i, j \in 1..(n - 1) : i < j => at(i) < at(j)
    BY <1>1, <2>1
  <2>6. \A k \in 1..n : k # p => \E i \in 1..(n - 1) : at(i) = k
    <3> SUFFICES ASSUME NEW k \in 1..n, k # p PROVE \E i \in 1..(n - 1) : at(i) = k
      OBVIOUS
    <3>1. CASE k < p
      BY <3>1, <1>1, <2>1
    <3>2. CASE k > p
      <4>1. k - 1 \in 1..(n - 1) /\ ~(k - 1 < p) /\ (k - 1) + 1 = k
        BY <3>2, <1>1, <2>1
      <4>2. QED
        BY <4>1
    <3>3. QED
      BY <3>1, <3>2, <1>1
  <2>7. \A i, j \in 1..n : s[i] = s[j] => i = j
    BY <1>1 DEF IsInjective
  <2>8. IsInjective(r)
    <3>1. \A i, j \in 1..(n - 1) : at(i) = at(j) => i = j
      BY <1>1, <2>1
    <3> HIDE DEF at
    <3>2. \A i, j \in 1..(n - 1) : r[i] = r[j] => i = j
      BY <2>4, <2>7, <3>1
    <3>3. QED
      BY <2>3, <3>2 DEF IsInjective
  <2> HIDE DEF at
  <2>9. Range(r) = Range(s) \ {e}
    <3>1. \A x : x \in Range(r) <=> \E i \in 1..(n - 1) : x = s[at(i)]
      BY <2>3, <2>4 DEF Range
    <3>2. \A x : x \in Range(s) \ {e} <=> \E k \in 1..n : k # p /\ x = s[k]
      BY <1>1, <2>1, <2>7 DEF Range
    <3>3. QED
      BY <3>1, <3>2, <2>4, <2>6
  <2>10. InOrder(r, s)
    BY <1>1, <2>3, <2>4, <2>5 DEF InOrder
  <2>11. s # <<>> /\ Head(s) # e => r # <<>> /\ Head(r) = Head(s)
    <3> SUFFICES ASSUME s # <<>>, Head(s) # e PROVE r # <<>> /\ Head(r) = Head(s)
      OBVIOUS
    <3>1. Head(s) = s[1] /\ p # 1
      BY <2>1
    <3>2. 1 \in 1..(n - 1) /\ at(1) = 1
      BY <3>1, <2>1, <1>1 DEF at
    <3>3. r[1] = s[1] /\ r # <<>>
      BY <3>2, <2>2, <2>4
    <3>4. QED
      BY <3>1, <3>3, <2>2
  <2>12. Len(r) \in Nat
    BY <2>2, <1>1, <2>1
  <2>13. QED
    BY <1>1, <1>3, <2>2, <2>8, <2>9, <2>10, <2>11, <2>12 DEF r, n
<1>4. QED
  BY <1>2, <1>3

-------------------------------------------------------------------------------
(* The invariant. *)

Labels == {"idle", "lock", "publish", "sleep", "exit", "running", "cancelling",
           "stopping", "stopped"}

ClosedTrace == [block : Blocks, ids : Seq(Ids), events : Seq(Events), first : Nat,
                last : Nat, reason : Reasons]

\* What each variable can hold.
Typed ==
  /\ pc \in [Tasks -> Labels]
  /\ \A c \in Consumers : pc[c] \in {"idle", "lock", "publish"}
  /\ pc[Janitor] \in {"sleep", "lock", "publish", "exit"}
  /\ pc[Main] \in {"running", "cancelling", "stopping", "publish", "stopped"}
  /\ log \in Seq(Inputs) /\ Len(log) <= NumRecords
  /\ arg \in [Consumers -> Nat] /\ \A c \in Consumers : arg[c] <= Len(log)
  /\ latest \in Times
  /\ emitted \in Seq(ClosedTrace)
  /\ calls \in [Tasks -> SUBSET Handlers]
  /\ interrupted \in BOOLEAN

\* Who waits for the lock is in its line, once; only its holder publishes, and
\* only a task that publishes has handlers to wait for.
Queued ==
  /\ lockq \in Seq(Tasks) /\ IsInjective(lockq)
  /\ \A t \in Tasks : t \in Range(lockq) <=> pc[t] \in {"lock", "publish"}
  /\ \A t \in Tasks : pc[t] = "publish" => Holds(t) /\ emitted # <<>>
  /\ \A t \in Tasks : pc[t] # "publish" => calls[t] = {}

\* stop() comes after the consumers, and its flush after the janitor.
EndsInOrder ==
  /\ pc[Main] \in {"stopping", "publish", "stopped"} => \A c \in Consumers : pc[c] = "idle"
  /\ pc[Main] \in {"publish", "stopped"} => pc[Janitor] = "exit"
  /\ pc[Janitor] = "exit" => pc[Main] \in {"stopping", "publish", "stopped"}
  /\ pc[Main] = "cancelling" => interrupted
  /\ Stopped /\ ~interrupted => order = <<>>

\* A trace is a true one, and its terminal hint is about its events.
Fits(b, tr) ==
  /\ Truthful(b, tr)
  /\ \A i \in DOMAIN tr.ids : tr.ids[i] \in 1..Len(log)

HasTerminal(events) == \E i \in DOMAIN events : events[i] \in TerminalEvents

\* The dictionary o of the traces tr: their blocks in the order of their last records.
Dictionary(o, tr) ==
  /\ o \in Seq(Blocks) /\ IsInjective(o)
  /\ tr \in [Range(o) -> Trace]
  /\ \A b \in Range(o) : Fits(b, tr[b]) /\ (tr[b].terminal <=> HasTerminal(tr[b].events))
  /\ \A i, j \in DOMAIN o : i < j => Last(tr[o[i]].ids) < Last(tr[o[j]].ids)

Kept ==
  /\ Dictionary(order, trace)
  /\ MemoryBounded
  /\ \A i \in DOMAIN emitted : Fits(emitted[i].block, emitted[i])

\* Consumers take the lock in the order of their records, so whoever waits for it
\* has a later record than every trace.
Numbered ==
  /\ \A c \in Consumers :
       pc[c] = "lock" => arg[c] >= 1 /\ \A n \in Attached : n < arg[c]
  /\ \A i, j \in DOMAIN lockq :
       i < j /\ lockq[i] \in Consumers /\ lockq[j] \in Consumers
         => arg[lockq[i]] < arg[lockq[j]]

\* due lists every trace that is due, once, and for the right reason.
DueList(due) ==
  /\ due \in Seq([block : Blocks, reason : Reasons])
  /\ \A i, j \in DOMAIN due : due[i].block = due[j].block => i = j
  /\ \A i \in DOMAIN due :
       /\ due[i].block \in DOMAIN trace
       /\ Due(due[i].block)
       /\ due[i].reason = ReasonToClose(due[i].block)
  /\ \A b \in DOMAIN trace : Due(b) => \E i \in DOMAIN due : due[i].block = b

\* What the janitor has yet to close stays what a fresh look would find.
PassIsCurrent ==
  IF pc[Janitor] = "publish" THEN DueList(todo) ELSE todo = <<>>

\* Nothing emitted is missed but for the trace x at whose publishing the janitor was
\* cancelled, and the last one while its handlers are at work.
Reached(h, x) ==
  \A n \in DOMAIN emitted :
    \/ n \in Range(delivered[h])
    \/ n = x
    \/ n = Len(emitted) /\ \E t \in Tasks : h \in calls[t]

DeliveredOnce ==
  /\ delivered \in [Handlers -> Seq(Nat)]
  /\ \A h \in Handlers : \A i \in DOMAIN delivered[h] : delivered[h][i] \in 1..Len(emitted)
  /\ \A h \in Handlers :
       \A i, j \in DOMAIN delivered[h] : i < j => delivered[h][i] < delivered[h][j]
  /\ \A t \in Tasks : \A h \in calls[t] :
       \A i \in DOMAIN delivered[h] : delivered[h][i] < Len(emitted)
  /\ ~interrupted =>
       \E x \in Nat : /\ x # 0 => pc[Janitor] = "exit"
                      /\ \A h \in Handlers : Reached(h, x)

Inv == Typed /\ Queued /\ EndsInOrder /\ Kept /\ Numbered /\ PassIsCurrent /\ DeliveredOnce

-------------------------------------------------------------------------------
(* Records and traces. *)

LEMMA RecordFacts ==
  ASSUME log \in Seq(Inputs), NEW n \in 1..Len(log)
  PROVE  /\ log[n] \in Inputs
         /\ log[n].block \in Blocks
         /\ log[n].ts = NoTime \/ (log[n].ts \in Nat /\ log[n].ts \in 0..WallClock)
         /\ log[n].ts # NoTime => log[n].ts \in Nat
         /\ log[n].event # NoEvent <=> log[n].event \in Events
         /\ log[n].event \in TerminalEvents => log[n].event # NoEvent
         /\ WallClock \in Nat
<1>1. log[n] \in Inputs
  OBVIOUS
<1>2. /\ log[n].block \in Blocks /\ WallClock \in Nat
      /\ log[n].ts = NoTime \/ log[n].ts \in 0..WallClock
      /\ NoEvent \notin TerminalEvents
  BY <1>1, SessionizerAssumption
<1>3. log[n].event # NoEvent <=> log[n].event \in Events
  BY <1>1 DEF Events
<1>4. QED
  BY <1>1, <1>2, <1>3 DEF NoTime

\* The events of one record more.
LEMMA EventsOfAppend ==
  ASSUME log \in Seq(Inputs), NEW ids \in Seq(1..Len(log)), NEW n \in 1..Len(log)
  PROVE  EventsOf(Append(ids, n)) =
           IF log[n].event # NoEvent THEN Append(EventsOf(ids), log[n].event)
           ELSE EventsOf(ids)
<1> DEFINE D == {in.event : in \in Inputs}
           s == [i \in DOMAIN ids |-> log[ids[i]].event]
           r == [i \in DOMAIN Append(ids, n) |-> log[Append(ids, n)[i]].event]
           e == log[n].event
<1>1. \A k \in 1..Len(log) : log[k].event \in D
  BY RecordFacts
<1>2. /\ Len(ids) \in Nat /\ DOMAIN ids = 1..Len(ids)
      /\ \A i \in 1..Len(ids) : ids[i] \in 1..Len(log)
  OBVIOUS
<1>3. /\ DOMAIN Append(ids, n) = 1..(Len(ids) + 1)
      /\ Append(ids, n)[Len(ids) + 1] = n
      /\ \A i \in 1..Len(ids) : Append(ids, n)[i] = ids[i]
  OBVIOUS
<1>4. s \in Seq(D) /\ Len(s) = Len(ids) /\ e \in D
  <2>1. s \in [1..Len(ids) -> D]
    BY <1>1, <1>2
  <2>2. QED
    BY <2>1, <1>1, <1>2
<1>5. r = Append(s, e)
  <2>1. r \in Seq(D) /\ Len(r) = Len(ids) + 1
    <3>1. \A i \in 1..(Len(ids) + 1) : i \in 1..Len(ids) \/ i = Len(ids) + 1
      BY <1>2
    <3>2. r \in [1..(Len(ids) + 1) -> D]
      BY <3>1, <1>1, <1>2, <1>3
    <3>3. QED
      BY <3>2, <1>2
  <2>2. \A i \in 1..Len(ids) : r[i] = s[i]
    BY <1>2, <1>3
  <2>3. r[Len(ids) + 1] = e
    BY <1>2, <1>3
  <2> HIDE DEF r, s, e, D
  <2>4. QED
    BY <2>1, <2>2, <2>3, <1>4, <1>2
<1>6. Filter(r, Events) = IF e \in Events THEN Append(Filter(s, Events), e)
                          ELSE Filter(s, Events)
  <2> HIDE DEF r, s, e, D
  <2>1. QED
    BY <1>4, <1>5, FilterAppend
<1>7. e # NoEvent <=> e \in Events
  BY RecordFacts
<1>8. QED
  BY <1>6, <1>7 DEF EventsOf

LEMMA EventsOfNone == EventsOf(<<>>) = <<>>
<1>1. [i \in DOMAIN <<>> |-> log[<<>>[i]].event] = <<>>
  OBVIOUS
<1>2. QED
  BY <1>1, FilterEmpty DEF EventsOf

\* The times of a nonempty trace, and of one record more.
LEMMA TimesOfFacts ==
  ASSUME log \in Seq(Inputs), NEW ids \in Seq(1..Len(log)), NEW n \in 1..Len(log)
  PROVE  /\ ids # <<>> =>
              /\ TimesOf(Append(ids, n)) = TimesOf(ids) \cup ({log[n].ts} \ {NoTime})
              /\ TimesOf(ids) \subseteq Nat
         /\ TimesOf(Append(<<>>, n)) =
              {IF log[n].ts # NoTime THEN log[n].ts ELSE WallClock}
<1>1. /\ DOMAIN Append(ids, n) = 1..(Len(ids) + 1) /\ Len(ids) \in Nat
      /\ DOMAIN ids = 1..Len(ids)
      /\ Append(ids, n)[Len(ids) + 1] = n
      /\ \A i \in 1..Len(ids) : Append(ids, n)[i] = ids[i]
  OBVIOUS
<1>2. \A k \in 1..Len(log) : log[k].ts # NoTime => log[k].ts \in Nat
  BY RecordFacts
<1>3. WallClock \in Nat
  BY SessionizerAssumption
<1>4. ASSUME ids # <<>>
      PROVE  /\ TimesOf(Append(ids, n)) = TimesOf(ids) \cup ({log[n].ts} \ {NoTime})
             /\ TimesOf(ids) \subseteq Nat
  <2>1. 1 \in 1..Len(ids) /\ ids[1] \in 1..Len(log)
    BY <1>4
  <2>2. Append(ids, n)[1] = ids[1]
    BY <2>1, <1>1
  <2> DEFINE A == {log[ids[i]].ts : i \in DOMAIN ids}
             B == {log[Append(ids, n)[i]].ts : i \in DOMAIN Append(ids, n)}
  <2>3. B = A \cup {log[n].ts}
    <3>1. \A i : i \in 1..(Len(ids) + 1) <=> i \in 1..Len(ids) \/ i = Len(ids) + 1
      BY <1>1
    <3>2. \A x \in B : x \in A \/ x = log[n].ts
      BY <3>1, <1>1
    <3>3. \A x \in A : x \in B
      BY <3>1, <1>1
    <3>4. log[n].ts \in B
      BY <3>1, <1>1
    <3>5. QED
      BY <3>2, <3>3, <3>4
  <2>4. \A x \in A : x = NoTime \/ x \in Nat
    BY <1>2
  <2> HIDE DEF A, B
  <2>5. TimesOf(Append(ids, n)) =
          (B \ {NoTime}) \cup (IF log[ids[1]].ts = NoTime THEN {WallClock} ELSE {})
    BY <2>2 DEF TimesOf, B
  <2>6. TimesOf(ids) =
          (A \ {NoTime}) \cup (IF log[ids[1]].ts = NoTime THEN {WallClock} ELSE {})
    BY DEF TimesOf, A
  <2>7. QED
    BY <2>3, <2>4, <2>5, <2>6, <1>3
<1>5. TimesOf(Append(<<>>, n)) = {IF log[n].ts # NoTime THEN log[n].ts ELSE WallClock}
  <2>1. Append(<<>>, n) = <<n>> /\ DOMAIN <<n>> = {1} /\ <<n>>[1] = n
    OBVIOUS
  <2>2. QED
    BY <2>1 DEF TimesOf
<1>6. QED
  BY <1>4, <1>5

\* What a record does to the trace it joins.
Joined(b, tr, g, n) ==
  /\ g \in Trace
  /\ Fits(b, g)
  /\ g.terminal <=> HasTerminal(g.events)
  /\ g.ids = Append(tr.ids, n) /\ Last(g.ids) = n
  /\ Len(g.events) <= Len(tr.events) + 1

LEMMA FitsMeans ==
  ASSUME NEW b, NEW tr, tr.ids \in Seq(Ids), Fits(b, tr)
  PROVE  tr.ids \in Seq(1..Len(log))
<1>1. tr.ids \in [1..Len(tr.ids) -> 1..Len(log)] /\ Len(tr.ids) \in Nat
  BY DEF Fits
<1>2. QED
  BY <1>1

LEMMA EventsGrow ==
  ASSUME NEW events \in Seq(Events), NEW e \in Events
  PROVE  /\ Append(events, e) \in Seq(Events)
         /\ Len(Append(events, e)) = Len(events) + 1 /\ Len(events) \in Nat
         /\ HasTerminal(Append(events, e)) <=> HasTerminal(events) \/ e \in TerminalEvents
<1>1. /\ Append(events, e) \in Seq(Events)
      /\ Len(Append(events, e)) = Len(events) + 1 /\ Len(events) \in Nat
      /\ DOMAIN events = 1..Len(events) /\ DOMAIN Append(events, e) = 1..(Len(events) + 1)
      /\ \A i \in 1..Len(events) : Append(events, e)[i] = events[i]
      /\ Append(events, e)[Len(events) + 1] = e
  OBVIOUS
<1>2. \A i : i \in 1..(Len(events) + 1) <=> i \in 1..Len(events) \/ i = Len(events) + 1
  BY <1>1
<1>3. QED
  BY <1>1, <1>2 DEF HasTerminal

LEMMA IdsGrow ==
  ASSUME Len(log) \in Nat, Len(log) <= NumRecords, NEW n \in 1..Len(log),
         NEW ids \in Seq(1..Len(log))
  PROVE  /\ Append(ids, n) \in Seq(Ids) /\ Append(ids, n) \in Seq(1..Len(log))
         /\ Append(ids, n) # <<>> /\ Last(Append(ids, n)) = n
<1>1. \A i \in 1..Len(log) : i \in Ids
  BY SessionizerAssumption DEF Ids
<1>2. /\ Append(ids, n) \in Seq(1..Len(log)) /\ Append(ids, n) # <<>>
      /\ Len(Append(ids, n)) = Len(ids) + 1
      /\ Append(ids, n)[Len(ids) + 1] = n
  OBVIOUS
<1> DEFINE r == Append(ids, n)
<1> HIDE DEF r
<1>3. r \in Seq(1..Len(log)) => r \in Seq(Ids)
  BY <1>1, SeqMonotonic
<1>4. QED
  BY <1>2, <1>3 DEF Last, r

\* Every field of Add, but for the times.
LEMMA AddFields ==
  ASSUME log \in Seq(Inputs), Len(log) <= NumRecords, NEW n \in 1..Len(log),
         NEW tr \in Trace, tr.ids \in Seq(1..Len(log)), tr.events = EventsOf(tr.ids),
         tr.terminal <=> HasTerminal(tr.events)
  PROVE  LET g == Add(tr, n, log[n])
         IN  /\ g.ids = Append(tr.ids, n) /\ g.ids \in Seq(Ids) /\ g.ids # <<>>
             /\ g.ids \in Seq(1..Len(log))
             /\ Last(g.ids) = n
             /\ g.events = EventsOf(g.ids) /\ g.events \in Seq(Events)
             /\ Len(g.events) <= Len(tr.events) + 1
             /\ g.terminal \in BOOLEAN /\ (g.terminal <=> HasTerminal(g.events))
             /\ g.first = IF log[n].ts # NoTime THEN Earlier(log[n].ts, tr.first) ELSE tr.first
             /\ g.last = IF log[n].ts # NoTime THEN Later(log[n].ts, tr.last) ELSE tr.last
             /\ g = [ids |-> g.ids, events |-> g.events, first |-> g.first,
                     last |-> g.last, terminal |-> g.terminal]
<1> DEFINE in == log[n]
           g == Add(tr, n, in)
<1>1. /\ g.ids = Append(tr.ids, n)
      /\ g.events = IF in.event # NoEvent THEN Append(tr.events, in.event) ELSE tr.events
      /\ g.terminal = (tr.terminal \/ in.event \in TerminalEvents)
      /\ g.first = IF in.ts # NoTime THEN Earlier(in.ts, tr.first) ELSE tr.first
      /\ g.last = IF in.ts # NoTime THEN Later(in.ts, tr.last) ELSE tr.last
      /\ g = [ids |-> g.ids, events |-> g.events, first |-> g.first,
              last |-> g.last, terminal |-> g.terminal]
  BY DEF Add
<1>2. tr.events \in Seq(Events) /\ tr.terminal \in BOOLEAN /\ Len(tr.events) \in Nat
  BY DEF Trace
<1>3. /\ in.event # NoEvent <=> in.event \in Events
      /\ in.event \in TerminalEvents => in.event # NoEvent
  BY RecordFacts
<1> HIDE DEF g, in
<1>4. /\ g.ids \in Seq(Ids) /\ g.ids # <<>> /\ Last(g.ids) = n
      /\ g.ids \in Seq(1..Len(log))
  BY <1>1, IdsGrow
<1>5. g.events = EventsOf(g.ids)
  <2>1. EventsOf(Append(tr.ids, n)) =
          IF log[n].event # NoEvent THEN Append(EventsOf(tr.ids), log[n].event)
          ELSE EventsOf(tr.ids)
    BY EventsOfAppend
  <2>2. QED
    BY <2>1, <1>1 DEF in
<1>6. /\ g.events \in Seq(Events) /\ Len(g.events) <= Len(tr.events) + 1
      /\ g.terminal \in BOOLEAN /\ (g.terminal <=> HasTerminal(g.events))
  <2>1. CASE in.event # NoEvent
    <3>1. /\ Append(tr.events, in.event) \in Seq(Events)
          /\ Len(Append(tr.events, in.event)) = Len(tr.events) + 1
          /\ HasTerminal(Append(tr.events, in.event))
               <=> HasTerminal(tr.events) \/ in.event \in TerminalEvents
      BY <1>2, <1>3, <2>1, EventsGrow
    <3>2. g.events = Append(tr.events, in.event)
      BY <1>1, <2>1
    <3>3. g.events \in Seq(Events) /\ Len(g.events) <= Len(tr.events) + 1
      BY <1>2, <3>1, <3>2
    <3>4. g.terminal \in BOOLEAN /\ (g.terminal <=> HasTerminal(g.events))
      BY <1>1, <1>2, <3>1, <3>2, Zenon
    <3>5. QED
      BY <3>3, <3>4
  <2>2. CASE in.event = NoEvent
    BY <1>1, <1>2, <1>3, <2>2
  <2>3. QED
    BY <2>1, <2>2
<1>7. QED
  BY <1>1, <1>4, <1>5, <1>6 DEF g, in

LEMMA NextRecord ==
  ASSUME log \in Seq(Inputs), Len(log) <= NumRecords, NEW n \in 1..Len(log),
         NEW tr \in Trace, Fits(log[n].block, tr), tr.terminal <=> HasTerminal(tr.events)
  PROVE  Joined(log[n].block, tr, Add(tr, n, log[n]), n)
<1> DEFINE in == log[n]
           b == in.block
           g == Add(tr, n, in)
<1>1. tr.ids \in Seq(1..Len(log)) /\ tr.ids # <<>> /\ tr.events = EventsOf(tr.ids)
  BY FitsMeans DEF Fits, Truthful, Trace
<1>2. /\ g.ids = Append(tr.ids, n) /\ g.ids \in Seq(Ids) /\ g.ids # <<>>
      /\ g.ids \in Seq(1..Len(log))
      /\ Last(g.ids) = n
      /\ g.events = EventsOf(g.ids) /\ g.events \in Seq(Events)
      /\ Len(g.events) <= Len(tr.events) + 1
      /\ g.terminal \in BOOLEAN /\ (g.terminal <=> HasTerminal(g.events))
      /\ g.first = IF in.ts # NoTime THEN Earlier(in.ts, tr.first) ELSE tr.first
      /\ g.last = IF in.ts # NoTime THEN Later(in.ts, tr.last) ELSE tr.last
      /\ g = [ids |-> g.ids, events |-> g.events, first |-> g.first,
              last |-> g.last, terminal |-> g.terminal]
  BY <1>1, AddFields
<1>3. /\ TimesOf(g.ids) = TimesOf(tr.ids) \cup ({in.ts} \ {NoTime})
      /\ TimesOf(tr.ids) \subseteq Nat
  BY <1>1, <1>2, TimesOfFacts
<1>4. in.ts # NoTime => in.ts \in Nat
  BY RecordFacts
<1>5. /\ tr.first \in TimesOf(tr.ids) /\ \A t \in TimesOf(tr.ids) : tr.first <= t
      /\ tr.last \in TimesOf(tr.ids) /\ \A t \in TimesOf(tr.ids) : t <= tr.last
      /\ tr.first \in Nat /\ tr.last \in Nat
  BY DEF Fits, Truthful, Trace
<1>6. \A i \in DOMAIN g.ids : g.ids[i] \in 1..Len(log) /\ log[g.ids[i]].block = b
  <2>1. /\ \A i \in 1..Len(tr.ids) : log[tr.ids[i]].block = b /\ g.ids[i] = tr.ids[i]
        /\ g.ids[Len(tr.ids) + 1] = n
        /\ DOMAIN g.ids = 1..(Len(tr.ids) + 1) /\ Len(tr.ids) \in Nat
        /\ \A i \in 1..Len(tr.ids) : g.ids[i] \in 1..Len(log)
    BY <1>1, <1>2 DEF Fits, Truthful
  <2>2. \A i \in 1..(Len(tr.ids) + 1) : i \in 1..Len(tr.ids) \/ i = Len(tr.ids) + 1
    BY <2>1
  <2>3. QED
    BY <2>1, <2>2
<1> HIDE DEF g, in
<1>7. /\ g.first \in TimesOf(g.ids) /\ \A t \in TimesOf(g.ids) : g.first <= t
      /\ g.first \in Nat
  BY <1>2, <1>3, <1>4, <1>5 DEF Earlier
<1>8. /\ g.last \in TimesOf(g.ids) /\ \A t \in TimesOf(g.ids) : t <= g.last
      /\ g.last \in Nat
  BY <1>2, <1>3, <1>4, <1>5 DEF Later
<1>9. g \in Trace
  BY <1>2, <1>7, <1>8 DEF Trace
<1>10. QED
  BY <1>2, <1>6, <1>7, <1>8, <1>9 DEF Joined, Fits, Truthful, g, in

LEMMA FirstRecord ==
  ASSUME log \in Seq(Inputs), Len(log) <= NumRecords, NEW n \in 1..Len(log)
  PROVE  LET tr == NewTrace(log[n])
         IN  /\ Joined(log[n].block, tr, Add(tr, n, log[n]), n)
             /\ tr.ids = <<>> /\ tr.events = <<>>
<1> DEFINE in == log[n]
           b == in.block
           tr == NewTrace(in)
           g == Add(tr, n, in)
           start == IF in.ts # NoTime THEN in.ts ELSE WallClock
<1>1. /\ in.ts # NoTime => in.ts \in Nat
      /\ WallClock \in Nat
  BY RecordFacts
<1>2. /\ tr = [ids |-> <<>>, events |-> <<>>, first |-> start, last |-> start,
               terminal |-> FALSE]
      /\ tr.ids = <<>> /\ tr.events = <<>> /\ tr.first = start /\ tr.last = start
      /\ tr.terminal = FALSE
  BY DEF NewTrace
<1> HIDE DEF tr
<1>3. tr \in Trace /\ tr.ids \in Seq(1..Len(log)) /\ start \in Nat
  BY <1>1, <1>2 DEF Trace
<1> HIDE DEF start
<1>4. tr.events = EventsOf(tr.ids)
  BY <1>2, EventsOfNone
<1>5. tr.terminal <=> HasTerminal(tr.events)
  BY <1>2 DEF HasTerminal
<1>6. /\ g.ids = Append(tr.ids, n) /\ g.ids \in Seq(Ids) /\ g.ids # <<>>
      /\ g.ids \in Seq(1..Len(log))
      /\ Last(g.ids) = n
      /\ g.events = EventsOf(g.ids) /\ g.events \in Seq(Events)
      /\ Len(g.events) <= Len(tr.events) + 1
      /\ g.terminal \in BOOLEAN /\ (g.terminal <=> HasTerminal(g.events))
      /\ g.first = IF in.ts # NoTime THEN Earlier(in.ts, tr.first) ELSE tr.first
      /\ g.last = IF in.ts # NoTime THEN Later(in.ts, tr.last) ELSE tr.last
      /\ g = [ids |-> g.ids, events |-> g.events, first |-> g.first,
              last |-> g.last, terminal |-> g.terminal]
  BY <1>3, <1>4, <1>5, AddFields
<1>7. TimesOf(g.ids) = {start}
  BY <1>2, <1>3, <1>6, TimesOfFacts DEF start
<1>8. g.first = start /\ g.last = start
  BY <1>1, <1>2, <1>6 DEF start, Earlier, Later
<1>9. \A i \in DOMAIN g.ids : g.ids[i] = n
  BY <1>2, <1>6
<1> HIDE DEF g, in
<1>10. g \in Trace
  BY <1>3, <1>6, <1>8 DEF Trace
<1>11. Truthful(b, g)
  <2>1. \A i \in DOMAIN g.ids : log[g.ids[i]].block = b
    BY <1>9 DEF in
  <2>2. start <= start
    BY <1>3
  <2>3. QED
    BY <1>6, <1>7, <1>8, <2>1, <2>2 DEF Truthful
<1>12. QED
  BY <1>2, <1>6, <1>9, <1>10, <1>11 DEF Joined, Fits, g, in, tr

-------------------------------------------------------------------------------
(* The dictionary. *)

\* r is s without v.
Shrunk(r, s, v, D) ==
  r \in Seq(D) /\ IsInjective(r) /\ Range(r) = Range(s) \ {v} /\ InOrder(r, s)

LEMMA DictionaryShrinks ==
  ASSUME NEW o, NEW tr, Dictionary(o, tr), NEW v, NEW r, Shrunk(r, o, v, Blocks),
         NEW f, f = Without(tr, v)
  PROVE  Dictionary(r, f)
<1>1. /\ o \in Seq(Blocks) /\ tr \in [Range(o) -> Trace]
      /\ \A b \in Range(o) : Fits(b, tr[b]) /\ (tr[b].terminal <=> HasTerminal(tr[b].events))
      /\ \A i, j \in DOMAIN o : i < j => Last(tr[o[i]].ids) < Last(tr[o[j]].ids)
  BY DEF Dictionary
<1>2. /\ r \in Seq(Blocks) /\ IsInjective(r) /\ Range(r) = Range(o) \ {v} /\ InOrder(r, o)
  BY DEF Shrunk
<1>3. DOMAIN f = Range(r) /\ \A b \in Range(r) : f[b] = tr[b] /\ b \in Range(o)
  BY <1>1, <1>2 DEF Without
<1>4. f \in [Range(r) -> Trace]
  <2>1. f = [b \in Range(r) |-> f[b]]
    BY <1>1, <1>2 DEF Without
  <2>2. QED
    BY <2>1, <1>1, <1>3
<1>5. ASSUME NEW i \in DOMAIN r, NEW j \in DOMAIN r, i < j
      PROVE  Last(f[r[i]].ids) < Last(f[r[j]].ids)
  <2>1. PICK k, l \in DOMAIN o : k < l /\ o[k] = r[i] /\ o[l] = r[j]
    BY <1>2, <1>5 DEF InOrder
  <2>2. r[i] \in Range(r) /\ r[j] \in Range(r)
    BY DEF Range
  <2>3. Last(tr[o[k]].ids) < Last(tr[o[l]].ids)
    BY <1>1, <2>1
  <2>4. QED
    BY <2>1, <2>2, <2>3, <1>3
<1>6. Dictionary(r, f)
  BY <1>1, <1>2, <1>3, <1>4, <1>5 DEF Dictionary
<1>7. QED
  BY <1>1, <1>2, <1>3, <1>6

\* The record a consumer attaches.
Waits(c) ==
  /\ c \in Consumers
  /\ log \in Seq(Inputs) /\ Len(log) <= NumRecords
  /\ arg[c] \in 1..Len(log)
  /\ \A n \in Attached : n < arg[c]

LEMMA OpenIsAttached ==
  ASSUME NEW b \in DOMAIN trace, NEW i \in DOMAIN trace[b].ids
  PROVE  trace[b].ids[i] \in Attached
BY DEF Attached, OpenIds, Range

\* The trace of the block before the record.
Before(c) ==
  IF IsOpen(log[arg[c]].block) THEN trace[log[arg[c]].block] ELSE NewTrace(log[arg[c]])

LEMMA GrownFacts ==
  ASSUME Dictionary(order, trace), NEW c, Waits(c)
  PROVE  LET b == log[arg[c]].block
         IN  /\ b \in Blocks
             /\ Joined(b, Before(c), Grown(c), arg[c])
             /\ Grown(c) \in Trace
             /\ Before(c).events \in Seq(Events)
             /\ Before(c).ids = IF IsOpen(b) THEN trace[b].ids ELSE <<>>
             /\ ~IsOpen(b) => Before(c).events = <<>>
<1> DEFINE n == arg[c]
           b == log[n].block
<1>1. /\ log \in Seq(Inputs) /\ Len(log) <= NumRecords /\ n \in 1..Len(log)
      /\ trace \in [Range(order) -> Trace]
      /\ \A x \in Range(order) :
           Fits(x, trace[x]) /\ (trace[x].terminal <=> HasTerminal(trace[x].events))
  BY DEF Waits, Dictionary
<1>2. b \in Blocks
  BY <1>1, RecordFacts
<1> HIDE DEF n
<1>3. CASE IsOpen(b)
  <2>1. b \in Range(order) /\ trace[b] \in Trace
    BY <1>1, <1>3 DEF IsOpen
  <2>2. Joined(b, trace[b], Add(trace[b], n, log[n]), n)
    BY <1>1, <2>1, NextRecord
  <2>3. Before(c) = trace[b] /\ Grown(c) = Add(trace[b], n, log[n])
    BY <1>3 DEF Before, Grown, n
  <2>4. trace[b].events \in Seq(Events)
    BY <2>1 DEF Trace
  <2>5. QED
    BY <1>2, <1>3, <2>2, <2>3, <2>4 DEF n, Joined
<1>4. CASE ~IsOpen(b)
  <2>1. /\ Joined(b, NewTrace(log[n]), Add(NewTrace(log[n]), n, log[n]), n)
        /\ NewTrace(log[n]).ids = <<>> /\ NewTrace(log[n]).events = <<>>
    BY <1>1, FirstRecord
  <2>2. Before(c) = NewTrace(log[n]) /\ Grown(c) = Add(NewTrace(log[n]), n, log[n])
    BY <1>4 DEF Before, Grown, n
  <2>3. <<>> \in Seq(Events)
    OBVIOUS
  <2>4. QED
    BY <1>2, <1>4, <2>1, <2>2, <2>3 DEF n, Joined
<1>5. QED
  BY <1>3, <1>4

\* A record joins its block's trace, which becomes the most recent.
LEMMA DictionaryGrows ==
  ASSUME Dictionary(order, trace), NEW c, Waits(c), order \in Seq(Blocks)
  PROVE  LET b == log[arg[c]].block
         IN  /\ Dictionary(Touch(b), Put(b, Grown(c)))
             /\ Range(Touch(b)) = Range(order) \cup {b} /\ Touch(b) # <<>>
             /\ Len(Touch(b)) = IF IsOpen(b) THEN Len(order) ELSE Len(order) + 1
             /\ DOMAIN Put(b, Grown(c)) = DOMAIN trace \cup {b}
             /\ Put(b, Grown(c))[b] = Grown(c)
             /\ \A x \in DOMAIN trace \ {b} : Put(b, Grown(c))[x] = trace[x]
<1> DEFINE b == log[arg[c]].block
           r == RemoveFirst(order, b)
           o == Touch(b)
           g == Grown(c)
           f == Put(b, g)
<1>1. /\ b \in Blocks /\ g \in Trace /\ Fits(b, g) /\ (g.terminal <=> HasTerminal(g.events))
      /\ Last(g.ids) = arg[c]
  BY GrownFacts DEF Joined
<1>2. /\ trace \in [Range(order) -> Trace] /\ IsInjective(order)
      /\ \A x \in Range(order) :
           Fits(x, trace[x]) /\ (trace[x].terminal <=> HasTerminal(trace[x].events))
      /\ \A i, j \in DOMAIN order :
           i < j => Last(trace[order[i]].ids) < Last(trace[order[j]].ids)
  BY DEF Dictionary
<1>3. /\ DOMAIN f = Range(order) \cup {b} /\ f[b] = g
      /\ \A x \in Range(order) \ {b} : f[x] = trace[x]
      /\ f = [x \in Range(order) \cup {b} |-> f[x]]
  BY <1>2 DEF Put
<1> HIDE DEF g, b, f
<1>4. /\ r \in Seq(Blocks) /\ IsInjective(r)
      /\ Len(r) \in Nat /\ Len(order) \in Nat
      /\ Range(r) = Range(order) \ {b}
      /\ Len(r) = IF b \in Range(order) THEN Len(order) - 1 ELSE Len(order)
      /\ InOrder(r, order)
  BY <1>2, RemoveFirstFacts
<1>5. o = Append(r, b)
  BY DEF Touch
<1> HIDE DEF r, o
<1>6. /\ o \in Seq(Blocks) /\ IsInjective(o) /\ DOMAIN o = 1..(Len(r) + 1)
      /\ Len(o) = Len(r) + 1 /\ DOMAIN r = 1..Len(r)
      /\ o[Len(r) + 1] = b /\ \A i \in 1..Len(r) : o[i] = r[i]
      /\ Range(o) = Range(r) \cup {b}
  BY <1>1, <1>4, <1>5, AppendFacts
<1>7. Range(o) = Range(order) \cup {b} /\ o # <<>>
  BY <1>4, <1>6
<1>8. Len(o) = IF b \in Range(order) THEN Len(order) ELSE Len(order) + 1
  BY <1>4, <1>6
<1>9. f \in [Range(o) -> Trace]
  BY <1>1, <1>2, <1>3, <1>7
<1>10. \A x \in Range(o) : Fits(x, f[x]) /\ (f[x].terminal <=> HasTerminal(f[x].events))
  <2> SUFFICES ASSUME NEW x \in Range(o)
               PROVE  Fits(x, f[x]) /\ (f[x].terminal <=> HasTerminal(f[x].events))
    OBVIOUS
  <2>1. CASE x = b
    BY <2>1, <1>1, <1>3
  <2>2. CASE x # b
    <3>1. x \in Range(order) /\ f[x] = trace[x]
      BY <2>2, <1>3, <1>7
    <3>2. QED
      BY <3>1, <1>2
  <2>3. QED
    BY <2>1, <2>2
<1>11. \A x \in Range(order) \ {b} :
         f[x] = trace[x] /\ Last(f[x].ids) < arg[c]
  <2> SUFFICES ASSUME NEW x \in Range(order) \ {b} PROVE Last(trace[x].ids) < arg[c]
    BY <1>3
  <2>1. trace[x].ids \in Seq(Ids) /\ trace[x].ids # <<>> /\ x \in DOMAIN trace
    BY <1>2 DEF Fits, Truthful, Trace
  <2>2. Len(trace[x].ids) \in DOMAIN trace[x].ids
    BY <2>1
  <2>3. Last(trace[x].ids) \in Attached
    BY <2>1, <2>2, OpenIsAttached DEF Last
  <2>4. QED
    BY <2>3 DEF Waits
<1>12. ASSUME NEW i \in DOMAIN o, NEW j \in DOMAIN o, i < j
       PROVE  Last(f[o[i]].ids) < Last(f[o[j]].ids)
  <2>0. \A k \in 1..Len(r) : o[k] = r[k] /\ r[k] \in Range(order) \ {b}
    BY <1>4, <1>6 DEF Range
  <2>1. i \in 1..Len(r) /\ o[i] = r[i] /\ r[i] \in Range(order) \ {b}
    <3>1. i \in 1..Len(r)
      BY <1>4, <1>6, <1>12
    <3>2. QED
      BY <3>1, <2>0
  <2>2. CASE j = Len(r) + 1
    BY <2>1, <2>2, <1>1, <1>3, <1>6, <1>11
  <2>3. CASE j # Len(r) + 1
    <3>0. j \in 1..Len(r)
      BY <2>3, <1>4, <1>6
    <3>1. o[j] = r[j] /\ r[j] \in Range(order) \ {b}
      BY <3>0, <2>0
    <3>2. PICK k, l \in DOMAIN order : k < l /\ order[k] = r[i] /\ order[l] = r[j]
      BY <2>1, <3>0, <1>4, <1>6, <1>12 DEF InOrder
    <3>3. QED
      BY <2>1, <3>1, <3>2, <1>2, <1>11
  <2>4. QED
    BY <2>2, <2>3
<1>13. Dictionary(o, f)
  BY <1>6, <1>9, <1>10, <1>12 DEF Dictionary
<1>14. QED
  BY <1>2, <1>3, <1>7, <1>8, <1>13 DEF o, f, g, b, IsOpen

\* A fresh look at the dictionary finds what is due.
LEMMA ToCloseIsDue ==
  ASSUME Dictionary(order, trace)
  PROVE  DueList(ToClose)
<1> DEFINE T == {b \in DOMAIN trace : Due(b)}
           blocks == Filter(order, T)
<1>1. order \in Seq(Blocks) /\ IsInjective(order) /\ DOMAIN trace = Range(order)
  BY DEF Dictionary
<1>2. /\ blocks \in Seq(Blocks) /\ IsInjective(blocks)
      /\ Range(blocks) = Range(order) \cap T
  <2> HIDE DEF T
  <2>1. QED
    BY <1>1, FilterKeeps
<1>3. ToClose = [i \in DOMAIN blocks |->
                   [block |-> blocks[i], reason |-> ReasonToClose(blocks[i])]]
  BY DEF ToClose
<1> HIDE DEF blocks
<1>4. Range(blocks) = T
  BY <1>1, <1>2
<1> DEFINE due == ToClose
<1>5. /\ DOMAIN due = DOMAIN blocks
      /\ \A i \in DOMAIN due :
           /\ due[i] = [block |-> blocks[i], reason |-> ReasonToClose(blocks[i])]
           /\ due[i].block = blocks[i]
           /\ due[i].reason = ReasonToClose(due[i].block)
           /\ due[i].block \in DOMAIN trace /\ Due(due[i].block)
  BY <1>3, <1>4 DEF Range
<1>6. \A b : ReasonToClose(b) \in Reasons
  BY DEF ReasonToClose, Reasons
<1>7. due \in Seq([block : Blocks, reason : Reasons])
  <2>1. DOMAIN blocks = 1..Len(blocks) /\ Len(blocks) \in Nat
        /\ \A i \in DOMAIN blocks : blocks[i] \in Blocks
    BY <1>2
  <2> DEFINE E == [block : Blocks, reason : Reasons]
             m == Len(blocks)
  <2>2. due \in [1..m -> E]
    BY <1>3, <1>6, <2>1
  <2> HIDE DEF E, m, due
  <2>3. m \in Nat
    BY <2>1 DEF m
  <2>4. due \in Seq(E)
    BY <2>2, <2>3
  <2>5. QED
    BY <2>4 DEF E
<1> HIDE DEF due
<1>8. \A i, j \in DOMAIN due : due[i].block = due[j].block => i = j
  BY <1>2, <1>5 DEF IsInjective
<1>9. \A b \in DOMAIN trace : Due(b) => \E i \in DOMAIN due : due[i].block = b
  BY <1>4, <1>5 DEF Range
<1>10. QED
  BY <1>5, <1>7, <1>8, <1>9 DEF DueList, due

\* Once the first is closed, the others are still due.
LEMMA DueListShrinks ==
  ASSUME NEW due, DueList(due), due # <<>>,
         trace' = Without(trace, Head(due).block), latest' = latest
  PROVE  DueList(Tail(due))'
<1> DEFINE E == [block : Blocks, reason : Reasons]
           n == Len(due)
           r == Tail(due)
<1>1. /\ due \in Seq(E)
      /\ \A i, j \in DOMAIN due : due[i].block = due[j].block => i = j
      /\ \A i \in DOMAIN due : /\ due[i].block \in DOMAIN trace
                               /\ Due(due[i].block)
                               /\ due[i].reason = ReasonToClose(due[i].block)
      /\ \A b \in DOMAIN trace : Due(b) => \E i \in DOMAIN due : due[i].block = b
  BY DEF DueList
<1>2. /\ r \in Seq(E) /\ n \in Nat \ {0} /\ DOMAIN due = 1..n /\ DOMAIN r = 1..(n - 1)
      /\ \A i \in 1..(n - 1) : r[i] = due[i + 1]
      /\ Head(due) = due[1] /\ 1 \in 1..n
  BY <1>1
<1> HIDE DEF E, n, r
<1>3. DOMAIN trace' = DOMAIN trace \ {due[1].block}
      /\ \A b \in DOMAIN trace' : trace'[b] = trace[b]
  BY <1>2 DEF Without
<1>4. \A b \in DOMAIN trace' : (Due(b)' <=> Due(b)) /\ ReasonToClose(b)' = ReasonToClose(b)
  BY <1>3 DEF Due, Aged, ReasonToClose
<1>5. \A i \in 1..(n - 1) : i + 1 \in 1..n /\ i + 1 # 1
  BY <1>2
<1>6. \A i \in 1..(n - 1) :
        /\ r[i] = due[i + 1] /\ due[i + 1].block # due[1].block
        /\ r[i].block \in DOMAIN trace'
  <2> SUFFICES ASSUME NEW i \in 1..(n - 1)
               PROVE  /\ r[i] = due[i + 1] /\ due[i + 1].block # due[1].block
                      /\ r[i].block \in DOMAIN trace'
    OBVIOUS
  <2>1. r[i] = due[i + 1] /\ i + 1 \in DOMAIN due /\ 1 \in DOMAIN due /\ i + 1 # 1
    BY <1>2, <1>5
  <2>2. due[i + 1].block # due[1].block
    BY <1>1, <2>1
  <2>3. due[i + 1].block \in DOMAIN trace
    BY <1>1, <2>1
  <2>4. QED
    BY <1>3, <2>1, <2>2, <2>3
<1>7. ASSUME NEW i \in DOMAIN r, NEW j \in DOMAIN r, r[i].block = r[j].block PROVE i = j
  <2>1. i \in 1..(n - 1) /\ j \in 1..(n - 1)
    BY <1>2
  <2>2. due[i + 1].block = due[j + 1].block /\ i + 1 \in DOMAIN due /\ j + 1 \in DOMAIN due
    BY <1>2, <1>5, <1>6, <1>7, <2>1
  <2>3. i + 1 = j + 1
    BY <1>1, <2>2
  <2>4. QED
    BY <1>2, <2>1, <2>3
<1>8. ASSUME NEW b \in DOMAIN trace', Due(b)'
      PROVE  \E i \in DOMAIN r : r[i].block = b
  <2>1. PICK k \in 1..n : due[k].block = b
    BY <1>1, <1>2, <1>3, <1>4, <1>8
  <2>2. k # 1
    BY <1>3, <2>1
  <2>3. k - 1 \in 1..(n - 1) /\ (k - 1) + 1 = k
    BY <1>2, <2>2
  <2>4. r[k - 1].block = b
    BY <1>2, <2>1, <2>3
  <2>5. QED
    BY <1>2, <2>3, <2>4
<1>9. ASSUME NEW i \in DOMAIN r
      PROVE  /\ r[i].block \in DOMAIN trace'
             /\ Due(r[i].block)'
             /\ r[i].reason = ReasonToClose(r[i].block)'
  <2>1. i \in 1..(n - 1) /\ i + 1 \in DOMAIN due /\ r[i] = due[i + 1]
    BY <1>2, <1>5
  <2>2. r[i].block \in DOMAIN trace'
    BY <1>6, <2>1
  <2>3. Due(r[i].block) /\ r[i].reason = ReasonToClose(r[i].block)
    BY <1>1, <2>1
  <2>4. QED
    BY <1>4, <2>2, <2>3
<1>10. QED
  BY <1>2, <1>7, <1>8, <1>9 DEF DueList, E, r

-------------------------------------------------------------------------------
(* The steps, by what they do. *)

Active == pc[Main] \in {"running", "cancelling"}

\* The janitor holds the lock and has due to close.
PassAt(due) ==
  /\ Active
  /\ \/ pc[Janitor] = "lock" /\ Holds(Janitor) /\ latest # NoTime /\ due = ToClose
     \/ Published(Janitor) /\ due = todo

JanitorCloses ==
  /\ \E due : PassAt(due) /\ due # <<>> /\ CloseNext(due)
  /\ UNCHANGED <<log, arg, latest, delivered, interrupted>>

JanitorRests ==
  /\ Active
  /\ \/ pc[Janitor] = "lock" /\ Holds(Janitor) /\ (latest = NoTime \/ ToClose = <<>>)
     \/ Published(Janitor) /\ todo = <<>>
  /\ PassEnds
  /\ UNCHANGED <<log, arg, latest, delivered, interrupted>>

FlushStarts == pc[Main] = "stopping" /\ pc[Janitor] = "exit" /\ lockq = <<>>

Flushes ==
  /\ FlushStarts \/ Published(Main)
  /\ order # <<>>
  /\ lockq' = <<Main>>
  /\ order' = Tail(order)
  /\ trace' = Without(trace, Head(order))
  /\ Emit(Main, Head(order), trace[Head(order)], "shutdown")
  /\ UNCHANGED <<log, arg, latest, todo, delivered, interrupted>>

FlushEnds ==
  /\ FlushStarts \/ Published(Main)
  /\ order = <<>>
  /\ Goto(Main, "stopped")
  /\ lockq' = <<>>
  /\ UNCHANGED <<log, arg, latest, todo, delivered, interrupted, order, trace, emitted,
                 calls>>

\* A step with all its cases.
Step ==
  \/ \E c \in Consumers : Arrive(c)
  \/ \E c \in Consumers : Attach(c)
  \/ \E c \in Consumers : AttachAndCap(c)
  \/ \E c \in Consumers : AttachAndEvict(c)
  \/ \E c \in Consumers : ProcessReturns(c)
  \/ \E c \in Consumers : ConsumerCancelled(c)
  \/ \E t \in Tasks : \E h \in Handlers : HandlerEnds(t, h)
  \/ JanitorWakes
  \/ JanitorCloses
  \/ JanitorRests
  \/ JanitorCancelled
  \/ Interrupt
  \/ InterruptFlush
  \/ Stop
  \/ Flushes
  \/ FlushEnds
  \/ UNCHANGED vars

LEMMA StepCases == [Next]_vars => Step
<1> SUFFICES ASSUME [Next]_vars PROVE Step
  OBVIOUS
<1>1. CASE \E c \in Consumers : Arrive(c) \/ ConsumerStep(c)
  BY <1>1 DEF ConsumerStep, Step
<1>2. CASE \E t \in Tasks : \E h \in Handlers : HandlerEnds(t, h)
  BY <1>2 DEF Step
<1>3. CASE JanitorStep
  <2>1. JanitorPass => JanitorCloses \/ JanitorRests
    BY DEF JanitorPass, JanitorCloses, JanitorRests, PassAt, Active
  <2>2. JanitorGoesOn => JanitorCloses \/ JanitorRests
    BY DEF JanitorGoesOn, JanitorCloses, JanitorRests, PassAt, Active
  <2>3. QED
    BY <1>3, <2>1, <2>2 DEF JanitorStep, Step
<1>4. CASE FlushNext
  BY <1>4 DEF FlushNext, Flushes, FlushEnds, FlushStarts, Step
<1>5. CASE Interrupt \/ InterruptFlush \/ Stop
  BY <1>5 DEF Step
<1>6. CASE Terminated \/ UNCHANGED vars
  BY <1>6 DEF Terminated, Step
<1>7. QED
  BY <1>1, <1>2, <1>3, <1>4, <1>5, <1>6 DEF Next

-------------------------------------------------------------------------------
(* What the steps do to the traces. *)

LEMMA WaitsForLock ==
  ASSUME Typed, Numbered, NEW c \in Consumers, pc[c] = "lock"
  PROVE  Waits(c)
<1>1. arg[c] >= 1 /\ arg[c] <= Len(log) /\ arg[c] \in Nat /\ Len(log) \in Nat
  BY DEF Typed, Numbered
<1>2. arg[c] \in 1..Len(log)
  BY <1>1
<1>3. QED
  BY <1>2 DEF Waits, Typed, Numbered

\* A trace in order to be emitted, and a dictionary in order without it.
Sound(b, tr) ==
  b \in Blocks /\ tr \in Trace /\ Fits(b, tr) /\ (tr.terminal <=> HasTerminal(tr.events))

KeptNext == Dictionary(order', trace') /\ MemoryBounded'

LEMMA DictionaryFacts ==
  ASSUME Dictionary(order, trace)
  PROVE  /\ DOMAIN trace = Range(order)
         /\ \A b \in DOMAIN trace : Sound(b, trace[b])
         /\ order \in Seq(Blocks) /\ IsInjective(order)
<1>1. order \in Seq(Blocks) /\ IsInjective(order) /\ trace \in [Range(order) -> Trace]
      /\ \A b \in Range(order) :
           Fits(b, trace[b]) /\ (trace[b].terminal <=> HasTerminal(trace[b].events))
  BY DEF Dictionary
<1>2. \A b \in Range(order) : b \in Blocks
  BY <1>1 DEF Range
<1>3. QED
  BY <1>1, <1>2 DEF Sound

LEMMA AttachEffect ==
  ASSUME Typed, Numbered, Kept, NEW c \in Consumers, Attach(c)
  PROVE  KeptNext /\ Waits(c)
<1> DEFINE b == log[arg[c]].block
           o == Touch(b)
           f == Put(b, Grown(c))
<1>1. Waits(c)
  BY WaitsForLock DEF Attach
<1>2. order' = o /\ trace' = f /\ ~HitsCap(Grown(c)) /\ ~OverCapacity(o)
  BY DEF Attach
<1>3. /\ Dictionary(o, f)
      /\ DOMAIN f = DOMAIN trace \cup {b} /\ f[b] = Grown(c)
      /\ \A x \in DOMAIN trace \ {b} : f[x] = trace[x]
  BY <1>1, DictionaryGrows, DictionaryFacts DEF Kept
<1> HIDE DEF o, f, b
<1>4. Len(o) \in Nat
  BY <1>3 DEF Dictionary
<1>5. Grown(c) \in Trace
  BY <1>1, GrownFacts DEF Kept
<1>6. Len(Grown(c).events) \in Nat
  BY <1>5 DEF Trace
<1>7. Len(o) <= MaxOpen /\ Len(Grown(c).events) < MaxPerTrace
  BY <1>2, <1>4, <1>6, SessionizerAssumption DEF OverCapacity, HitsCap
<1>8. \A x \in DOMAIN f : Len(f[x].events) < MaxPerTrace
  BY <1>3, <1>7 DEF Kept, MemoryBounded
<1>9. QED
  BY <1>1, <1>2, <1>3, <1>7, <1>8 DEF KeptNext, MemoryBounded

\* The trace at its cap goes with the record that filled it.
LEMMA CapEffect ==
  ASSUME Typed, Numbered, Kept, NEW c \in Consumers, AttachAndCap(c)
  PROVE  /\ KeptNext /\ Waits(c)
         /\ Sound(log[arg[c]].block, Grown(c))
         /\ Len(Grown(c).events) = MaxPerTrace
<1> DEFINE b == log[arg[c]].block
<1>1. Waits(c)
  BY WaitsForLock DEF AttachAndCap
<1>2. /\ order' = RemoveFirst(order, b) /\ trace' = Without(trace, b)
      /\ HitsCap(Grown(c))
  BY DEF AttachAndCap
<1>3. /\ b \in Blocks /\ Grown(c) \in Trace
      /\ Joined(b, Before(c), Grown(c), arg[c])
      /\ Before(c).events \in Seq(Events)
      /\ ~IsOpen(b) => Before(c).events = <<>>
  BY <1>1, GrownFacts DEF Kept
<1> HIDE DEF b
<1>4. Sound(b, Grown(c))
  BY <1>3 DEF Joined, Sound
<1>5. /\ order \in Seq(Blocks) /\ IsInjective(order)
  BY DictionaryFacts DEF Kept
<1>6. /\ Shrunk(order', order, b, Blocks)
      /\ Len(order') \in Nat /\ Len(order') <= Len(order) /\ Len(order) \in Nat
  BY <1>2, <1>5, RemoveFirstFacts DEF Shrunk
<1>7. /\ Dictionary(order', trace') /\ DOMAIN trace' = DOMAIN trace \ {b}
      /\ \A x \in DOMAIN trace \ {b} : trace'[x] = trace[x]
  <2>1. PICK f : f = Without(trace, b)
    OBVIOUS
  <2>2. PICK r : r = order'
    OBVIOUS
  <2>3. Dictionary(r, f)
    BY <1>6, <2>1, <2>2, DictionaryShrinks DEF Kept
  <2>4. QED
    BY <1>2, <2>1, <2>2, <2>3 DEF Without
<1>8. MemoryBounded'
  <2>1. Len(order') <= MaxOpen
    BY <1>6, SessionizerAssumption DEF Kept, MemoryBounded
  <2>2. QED
    BY <1>7, <2>1 DEF Kept, MemoryBounded
<1>9. Len(Grown(c).events) = MaxPerTrace
  <2>1. /\ Len(Grown(c).events) <= Len(Before(c).events) + 1
        /\ Len(Grown(c).events) >= MaxPerTrace
    BY <1>2, <1>3 DEF Joined, HitsCap
  <2>2. Len(Before(c).events) < MaxPerTrace
    <3>1. CASE IsOpen(b)
      BY <3>1 DEF Before, Kept, MemoryBounded, IsOpen, b
    <3>2. CASE ~IsOpen(b)
      BY <3>2, <1>3, SessionizerAssumption
    <3>3. QED
      BY <3>1, <3>2
  <2>3. Len(Before(c).events) \in Nat /\ Len(Grown(c).events) \in Nat
    BY <1>3 DEF Trace
  <2>4. QED
    BY <2>1, <2>2, <2>3, SessionizerAssumption
<1>10. QED
  BY <1>1, <1>4, <1>7, <1>8, <1>9 DEF KeptNext, b

\* One trace too many: the first of the dictionary goes.
LEMMA EvictEffect ==
  ASSUME Typed, Numbered, Kept, NEW c \in Consumers, AttachAndEvict(c)
  PROVE  LET b == log[arg[c]].block
             victim == Head(Touch(b))
         IN  /\ KeptNext /\ Waits(c)
             /\ Sound(victim, Put(b, Grown(c))[victim])
             /\ victim \in DOMAIN Put(b, Grown(c))
             /\ Len(order') = MaxOpen
<1> DEFINE b == log[arg[c]].block
           o == Touch(b)
           f == Put(b, Grown(c))
           v == Head(o)
<1>1. Waits(c)
  BY WaitsForLock DEF AttachAndEvict
<1>2. /\ order' = Tail(o) /\ trace' = Without(f, v)
      /\ ~HitsCap(Grown(c)) /\ OverCapacity(o)
  BY DEF AttachAndEvict
<1>3. /\ Dictionary(o, f) /\ o # <<>>
      /\ Len(o) = IF IsOpen(b) THEN Len(order) ELSE Len(order) + 1
      /\ DOMAIN f = DOMAIN trace \cup {b} /\ f[b] = Grown(c)
      /\ \A x \in DOMAIN trace \ {b} : f[x] = trace[x]
  BY <1>1, DictionaryGrows, DictionaryFacts DEF Kept
<1>4. Grown(c) \in Trace
  BY <1>1, GrownFacts DEF Kept
<1> HIDE DEF o, f, b, v
<1>5. /\ o \in Seq(Blocks) /\ IsInjective(o) /\ f \in [Range(o) -> Trace]
      /\ \A x \in Range(o) : Fits(x, f[x]) /\ (f[x].terminal <=> HasTerminal(f[x].events))
  BY <1>3 DEF Dictionary
<1>6. /\ Shrunk(Tail(o), o, v, Blocks)
      /\ Len(Tail(o)) = Len(o) - 1 /\ Len(o) \in Nat
      /\ v \in Range(o) /\ v \in Blocks
  BY <1>3, <1>5, TailFacts DEF Shrunk, v
<1>7. /\ Dictionary(order', trace') /\ DOMAIN trace' = DOMAIN f \ {v}
      /\ \A x \in DOMAIN f \ {v} : trace'[x] = f[x]
  <2>1. PICK g : g = Without(f, v)
    OBVIOUS
  <2>2. PICK r : r = Tail(o)
    OBVIOUS
  <2>3. Dictionary(r, g)
    BY <1>3, <1>6, <2>1, <2>2, DictionaryShrinks
  <2>4. QED
    BY <1>2, <2>1, <2>2, <2>3 DEF Without
<1>8. Sound(v, f[v])
  BY <1>5, <1>6 DEF Sound
<1>9. Len(order') = MaxOpen
  <2>1. Len(order) \in Nat /\ Len(order) <= MaxOpen
    BY DictionaryFacts DEF Kept, MemoryBounded
  <2>2. Len(o) > MaxOpen /\ Len(o) <= Len(order) + 1
    BY <1>2, <1>3, <2>1 DEF OverCapacity
  <2>3. QED
    BY <1>2, <1>6, <2>1, <2>2, SessionizerAssumption
<1>10. MemoryBounded'
  <2>1. Len(Grown(c).events) < MaxPerTrace
    BY <1>2, <1>4, SessionizerAssumption DEF HitsCap, Trace
  <2>2. \A x \in DOMAIN trace' : Len(trace'[x].events) < MaxPerTrace
    BY <1>3, <1>7, <2>1 DEF Kept, MemoryBounded
  <2>3. QED
    BY <1>9, <2>2, SessionizerAssumption DEF MemoryBounded
<1>11. QED
  BY <1>1, <1>5, <1>6, <1>7, <1>8, <1>9, <1>10 DEF KeptNext, b, o, f, v

LEMMA CloseEffect ==
  ASSUME Kept, NEW b \in DOMAIN trace, NEW r, Shrunk(r, order, b, Blocks),
         Len(r) <= Len(order), order' = r, trace' = Without(trace, b)
  PROVE  KeptNext /\ Sound(b, trace[b])
<1>1. /\ Dictionary(order', trace')
      /\ DOMAIN trace' = DOMAIN trace \ {b}
      /\ \A x \in DOMAIN trace \ {b} : trace'[x] = trace[x]
  <2>1. PICK f : f = Without(trace, b)
    OBVIOUS
  <2>2. Dictionary(r, f)
    BY <2>1, DictionaryShrinks DEF Kept
  <2>3. QED
    BY <2>1, <2>2 DEF Without
<1>2. Sound(b, trace[b]) /\ order \in Seq(Blocks) /\ r \in Seq(Blocks)
  BY DictionaryFacts DEF Kept, Shrunk
<1>3. Len(order') <= MaxOpen
  <2>1. Len(order) \in Nat /\ Len(r) \in Nat /\ Len(order) <= MaxOpen
    BY <1>2 DEF Kept, MemoryBounded
  <2>2. QED
    BY <2>1, SessionizerAssumption
<1>4. MemoryBounded'
  BY <1>1, <1>3 DEF Kept, MemoryBounded
<1>5. QED
  BY <1>1, <1>2, <1>4 DEF KeptNext

\* The janitor closes a trace that is due when it does.
LEMMA JanitorDue ==
  ASSUME Kept, PassIsCurrent, NEW due, PassAt(due)
  PROVE  DueList(due)
<1>1. DueList(ToClose)
  BY ToCloseIsDue DEF Kept
<1>2. QED
  BY <1>1 DEF PassAt, PassIsCurrent, Published

LEMMA HeadIsDue ==
  ASSUME NEW due, DueList(due), due # <<>>
  PROVE  /\ Head(due).block \in DOMAIN trace /\ Due(Head(due).block)
         /\ Head(due).reason = ReasonToClose(Head(due).block)
<1>1. Head(due) = due[1] /\ 1 \in DOMAIN due
  BY DEF DueList
<1>2. QED
  BY <1>1 DEF DueList

LEMMA JanitorEffect ==
  ASSUME Kept, NEW due, DueList(due), due # <<>>, CloseNext(due)
  PROVE  LET b == Head(due).block
         IN  KeptNext /\ Sound(b, trace[b]) /\ b \in DOMAIN trace
<1> DEFINE b == Head(due).block
<1>1. b \in DOMAIN trace
  BY HeadIsDue
<1>2. order' = RemoveFirst(order, b) /\ trace' = Without(trace, b)
  BY DEF CloseNext
<1> HIDE DEF b
<1>3. order \in Seq(Blocks) /\ IsInjective(order)
  BY DictionaryFacts DEF Kept
<1>4. Shrunk(order', order, b, Blocks) /\ Len(order') <= Len(order)
  BY <1>2, <1>3, RemoveFirstFacts DEF Shrunk
<1>5. KeptNext /\ Sound(b, trace[b])
  BY <1>1, <1>2, <1>4, CloseEffect
<1>6. QED
  BY <1>1, <1>5 DEF b

LEMMA FlushEffect ==
  ASSUME Kept, Flushes
  PROVE  KeptNext /\ Sound(Head(order), trace[Head(order)]) /\ Head(order) \in DOMAIN trace
<1>1. order' = Tail(order) /\ trace' = Without(trace, Head(order)) /\ order # <<>>
  BY DEF Flushes
<1>2. order \in Seq(Blocks) /\ IsInjective(order) /\ DOMAIN trace = Range(order)
  BY DictionaryFacts DEF Kept
<1>3. /\ Shrunk(order', order, Head(order), Blocks) /\ Len(order') <= Len(order)
      /\ Head(order) \in DOMAIN trace
  BY <1>1, <1>2, TailFacts DEF Shrunk
<1>4. QED
  BY <1>1, <1>3, CloseEffect

\* So a task that emits holds the lock, and what it emits is a true trace.
Emits(t) ==
  /\ t \in Tasks
  /\ \/ Holds(t) /\ pc[t] \in {"lock", "publish"} /\ calls[t] = {} /\ lockq' = lockq
     \/ t = Main /\ (FlushStarts \/ Published(Main)) /\ lockq' = <<Main>>
  /\ Goto(t, "publish")
  /\ calls' = [calls EXCEPT ![t] = Handlers]
  /\ \E b, tr, reason :
       /\ Sound(b, tr) /\ reason \in Reasons
       /\ emitted' = Append(emitted, Closed(b, tr, reason))
  /\ KeptNext
  /\ UNCHANGED <<log, arg, delivered, interrupted>>

LEMMA LockedIsQuiet ==
  ASSUME Queued, NEW t \in Tasks, pc[t] = "lock"
  PROVE  calls[t] = {}
BY DEF Queued

LEMMA ReasonsListed ==
  /\ "evicted" \in Reasons /\ "shutdown" \in Reasons
  /\ \A b : ReasonToClose(b) \in Reasons
BY DEF Reasons, ReasonToClose

LEMMA EmitCases ==
  ASSUME Inv,
         \/ \E c \in Consumers : AttachAndCap(c) \/ AttachAndEvict(c)
         \/ JanitorCloses
         \/ Flushes
  PROVE  \E t \in Tasks : Emits(t)
<1>1. Janitor \in Tasks /\ Main \in Tasks /\ Consumers \subseteq Tasks
  BY DEF Tasks
<1>2. ASSUME NEW c \in Consumers, AttachAndCap(c) PROVE Emits(c)
  <2>1. KeptNext /\ Sound(log[arg[c]].block, Grown(c))
    BY <1>2, CapEffect DEF Inv
  <2>2. /\ pc[c] = "lock" /\ Holds(c) /\ UNCHANGED <<log, arg, lockq, delivered, interrupted>>
        /\ emitted' = Append(emitted, Closed(log[arg[c]].block, Grown(c), "evicted"))
        /\ calls' = [calls EXCEPT ![c] = Handlers]
        /\ Goto(c, "publish")
    BY <1>2 DEF AttachAndCap, Emit
  <2>3. calls[c] = {}
    BY <1>1, <2>2, LockedIsQuiet DEF Inv
  <2>4. QED
    BY <1>1, <2>1, <2>2, <2>3, ReasonsListed DEF Emits
<1>3. ASSUME NEW c \in Consumers, AttachAndEvict(c) PROVE Emits(c)
  <2> DEFINE f == Put(log[arg[c]].block, Grown(c))
             v == Head(Touch(log[arg[c]].block))
  <2>1. KeptNext /\ Sound(v, f[v])
    BY <1>3, EvictEffect DEF Inv
  <2>2. /\ pc[c] = "lock" /\ Holds(c) /\ UNCHANGED <<log, arg, lockq, delivered, interrupted>>
        /\ emitted' = Append(emitted, Closed(v, f[v], "evicted"))
        /\ calls' = [calls EXCEPT ![c] = Handlers]
        /\ Goto(c, "publish")
    BY <1>3 DEF AttachAndEvict, Emit
  <2>3. calls[c] = {}
    BY <1>1, <2>2, LockedIsQuiet DEF Inv
  <2> HIDE DEF f, v
  <2>4. QED
    BY <1>1, <2>1, <2>2, <2>3, ReasonsListed DEF Emits
<1>4. ASSUME JanitorCloses PROVE Emits(Janitor)
  <2>1. PICK due : PassAt(due) /\ due # <<>> /\ CloseNext(due)
    BY <1>4 DEF JanitorCloses
  <2>2. DueList(due)
    BY <2>1, JanitorDue DEF Inv
  <2> DEFINE b == Head(due).block
  <2>3. KeptNext /\ Sound(b, trace[b])
    BY <2>1, <2>2, JanitorEffect DEF Inv
  <2>4. Head(due).reason \in Reasons
    BY <2>1, <2>2, HeadIsDue, ReasonsListed
  <2>5. /\ UNCHANGED <<log, arg, lockq, delivered, interrupted>>
        /\ emitted' = Append(emitted, Closed(b, trace[b], Head(due).reason))
        /\ calls' = [calls EXCEPT ![Janitor] = Handlers]
        /\ Goto(Janitor, "publish")
    BY <1>4, <2>1 DEF JanitorCloses, CloseNext, Emit
  <2>6. Holds(Janitor) /\ pc[Janitor] \in {"lock", "publish"} /\ calls[Janitor] = {}
    BY <1>1, <2>1, LockedIsQuiet DEF PassAt, Published, Inv, Queued
  <2> HIDE DEF b
  <2>7. QED
    BY <1>1, <2>3, <2>4, <2>5, <2>6 DEF Emits
<1>5. ASSUME Flushes PROVE Emits(Main)
  <2>1. KeptNext /\ Sound(Head(order), trace[Head(order)])
    BY <1>5, FlushEffect DEF Inv
  <2>2. /\ UNCHANGED <<log, arg, delivered, interrupted>> /\ lockq' = <<Main>>
        /\ emitted' = Append(emitted, Closed(Head(order), trace[Head(order)], "shutdown"))
        /\ calls' = [calls EXCEPT ![Main] = Handlers]
        /\ Goto(Main, "publish")
        /\ FlushStarts \/ Published(Main)
    BY <1>5 DEF Flushes, Emit
  <2>3. QED
    BY <1>1, <2>1, <2>2, ReasonsListed DEF Emits
<1>6. QED
  BY <1>1, <1>2, <1>3, <1>4, <1>5

-------------------------------------------------------------------------------
(* What the steps do to the lock. *)

InLock == {"lock", "publish"}

\* t no longer waits for the lock, nor holds it.
Dequeued(t) ==
  /\ Shrunk(lockq', lockq, t, Tasks)
  /\ lockq # <<>> /\ Head(lockq) # t => lockq' # <<>> /\ Head(lockq') = Head(lockq)

Joins(t) ==
  /\ t \in Tasks /\ pc[t] \notin InLock
  /\ lockq' = Append(lockq, t) /\ Goto(t, "lock")
  /\ UNCHANGED <<calls, emitted>>
  /\ \/ t \in Consumers /\ Arrive(t)
     \/ t = Janitor /\ JanitorWakes

Leaves(t) ==
  /\ t \in Tasks
  /\ Dequeued(t)
  /\ \E label \in Labels \ InLock : Goto(t, label)
  /\ calls' = [calls EXCEPT ![t] = {}]
  /\ UNCHANGED emitted

LEMMA DequeuedBy ==
  ASSUME Queued, NEW t \in Tasks,
         \/ Holds(t) /\ lockq' = Tail(lockq)
         \/ lockq' = RemoveFirst(lockq, t)
         \/ pc[t] \notin InLock /\ lockq' = lockq
  PROVE  Dequeued(t)
<1>1. lockq \in Seq(Tasks) /\ IsInjective(lockq)
  BY DEF Queued
<1>2. CASE Holds(t) /\ lockq' = Tail(lockq)
  <2>1. lockq # <<>> /\ Head(lockq) = t
    BY <1>2 DEF Holds
  <2>2. QED
    BY <1>1, <1>2, <2>1, TailFacts DEF Dequeued, Shrunk
<1>3. CASE lockq' = RemoveFirst(lockq, t)
  BY <1>1, <1>3, RemoveFirstFacts DEF Dequeued, Shrunk
<1>4. CASE pc[t] \notin InLock /\ lockq' = lockq
  <2>1. t \notin Range(lockq)
    BY <1>4 DEF Queued, InLock
  <2>2. InOrder(lockq, lockq)
    BY DEF InOrder
  <2>3. QED
    BY <1>1, <1>4, <2>1, <2>2 DEF Dequeued, Shrunk
<1>5. QED
  BY <1>2, <1>3, <1>4

\* When the flush publishes, nobody waits for the lock.
LEMMA FlushAlone ==
  ASSUME Typed, Queued, EndsInOrder, FlushStarts \/ Published(Main)
  PROVE  /\ lockq = <<>> \/ lockq = <<Main>>
         /\ \A t \in Tasks : calls[t] = {}
<1>1. CASE FlushStarts
  <2>1. lockq = <<>>
    BY <1>1 DEF FlushStarts
  <2>2. Range(lockq) = {}
    BY <2>1 DEF Range
  <2>3. QED
    BY <2>1, <2>2 DEF Queued
<1>2. CASE Published(Main)
  <2>1. /\ pc[Main] = "publish" /\ calls[Main] = {} /\ Holds(Main)
        /\ \A t \in Tasks : t # Main => pc[t] \notin InLock
    BY <1>2, TasksAssumption DEF Published, Queued, EndsInOrder, InLock, Tasks
  <2>2. lockq \in Seq(Tasks) /\ IsInjective(lockq)
        /\ \A i \in DOMAIN lockq : lockq[i] \in Range(lockq) /\ lockq[i] \in Tasks
    BY DEF Queued, Range
  <2>3. \A i \in DOMAIN lockq : lockq[i] = Main
    BY <2>1, <2>2 DEF Queued, InLock
  <2>4. lockq # <<>> /\ 1 \in DOMAIN lockq /\ Len(lockq) \in Nat /\ DOMAIN lockq = 1..Len(lockq)
    BY <2>1, <2>2 DEF Holds
  <2>5. Len(lockq) = 1
    BY <2>2, <2>3, <2>4 DEF IsInjective
  <2>6. lockq = <<Main>>
    BY <2>2, <2>3, <2>4, <2>5
  <2>7. QED
    BY <2>1, <2>6 DEF Queued, InLock
<1>3. QED
  BY <1>1, <1>2

LEMMA QueueCases ==
  ASSUME Inv, Step
  PROVE  \E t \in Tasks : \/ Joins(t)
                          \/ Leaves(t)
                          \/ Emits(t)
                          \/ \E h \in Handlers : HandlerEnds(t, h)
                          \/ UNCHANGED <<pc, lockq, calls, emitted>>
<1>1. Typed /\ Queued /\ EndsInOrder
  BY DEF Inv
<1>2. /\ Janitor \in Tasks /\ Main \in Tasks /\ Consumers \subseteq Tasks
      /\ calls \in [Tasks -> SUBSET Handlers]
  BY <1>1 DEF Tasks, Typed
<1>3. \A t \in Tasks : calls[t] = {} => [calls EXCEPT ![t] = {}] = calls
  BY <1>2
<1>4. /\ {"idle", "sleep", "exit", "cancelling", "stopping", "stopped"} \subseteq Labels \ InLock
      /\ {"idle", "sleep", "running", "cancelling", "stopping"} \cap InLock = {}
  BY DEF Labels, InLock
<1>5. \A t \in Tasks : pc[t] \notin InLock \/ pc[t] = "lock" => calls[t] = {}
  BY <1>1 DEF Queued, InLock
<1>6. \A t \in Tasks : Published(t) => Holds(t) /\ calls[t] = {}
  BY <1>1 DEF Published, Queued
<1>7. ASSUME NEW c \in Consumers, Arrive(c) PROVE Joins(c)
  BY <1>2, <1>4, <1>7 DEF Arrive, Joins
<1>8. ASSUME NEW c \in Consumers, Attach(c) PROVE Leaves(c)
  <2>1. /\ pc[c] = "lock" /\ Holds(c) /\ lockq' = Tail(lockq) /\ Goto(c, "idle")
        /\ UNCHANGED <<calls, emitted>>
    BY <1>8 DEF Attach
  <2>2. Dequeued(c)
    BY <1>1, <1>2, <2>1, DequeuedBy
  <2>3. QED
    BY <1>2, <1>3, <1>4, <1>5, <2>1, <2>2 DEF Leaves
<1>9. ASSUME NEW c \in Consumers, ProcessReturns(c) PROVE Leaves(c)
  <2>1. /\ Published(c) /\ lockq' = Tail(lockq) /\ Goto(c, "idle")
        /\ UNCHANGED <<calls, emitted>>
    BY <1>9 DEF ProcessReturns
  <2>2. Dequeued(c)
    BY <1>1, <1>2, <1>6, <2>1, DequeuedBy
  <2>3. QED
    BY <1>2, <1>3, <1>4, <1>6, <2>1, <2>2 DEF Leaves
<1>10. ASSUME NEW t \in Tasks, NEW label \in Labels \ InLock, Cancelled(t, label),
              UNCHANGED emitted
       PROVE  Leaves(t)
  <2>1. Dequeued(t)
    BY <1>1, <1>10, DequeuedBy DEF Cancelled
  <2>2. QED
    BY <1>10, <2>1 DEF Leaves, Cancelled
<1>11. ASSUME NEW c \in Consumers, ConsumerCancelled(c) PROVE Leaves(c)
  BY <1>2, <1>4, <1>10, <1>11 DEF ConsumerCancelled
<1>12. ASSUME JanitorWakes PROVE Joins(Janitor)
  BY <1>2, <1>4, <1>12 DEF JanitorWakes, Joins
<1>13. ASSUME JanitorRests PROVE Leaves(Janitor)
  <2>1. /\ (pc[Janitor] = "lock" /\ Holds(Janitor)) \/ Published(Janitor)
        /\ lockq' = Tail(lockq) /\ Goto(Janitor, "sleep") /\ UNCHANGED <<calls, emitted>>
    BY <1>13 DEF JanitorRests, PassEnds
  <2>2. Dequeued(Janitor) /\ calls[Janitor] = {}
    BY <1>1, <1>2, <1>5, <1>6, <2>1, DequeuedBy
  <2>3. QED
    BY <1>2, <1>3, <1>4, <2>1, <2>2 DEF Leaves
<1>14. ASSUME JanitorCancelled PROVE Leaves(Janitor)
  BY <1>2, <1>4, <1>10, <1>14 DEF JanitorCancelled
<1>15. ASSUME InterruptFlush PROVE Leaves(Main)
  BY <1>2, <1>4, <1>10, <1>15 DEF InterruptFlush
<1>16. ASSUME NEW label \in {"cancelling", "stopping"}, pc[Main] \in {"running", "cancelling"},
              Goto(Main, label), UNCHANGED <<lockq, calls, emitted>>
       PROVE  Leaves(Main)
  <2>1. pc[Main] \notin InLock /\ calls[Main] = {}
    BY <1>2, <1>4, <1>5, <1>16
  <2>2. Dequeued(Main)
    BY <1>1, <1>2, <1>16, <2>1, DequeuedBy
  <2>3. QED
    BY <1>2, <1>3, <1>4, <1>16, <2>1, <2>2 DEF Leaves
<1>17. ASSUME Interrupt \/ Stop PROVE Leaves(Main)
  BY <1>16, <1>17 DEF Interrupt, Stop
<1>18. ASSUME FlushEnds PROVE Leaves(Main)
  <2>1. /\ FlushStarts \/ Published(Main)
        /\ lockq' = <<>> /\ Goto(Main, "stopped") /\ UNCHANGED <<calls, emitted>>
    BY <1>18 DEF FlushEnds
  <2>2. (lockq = <<>> \/ lockq = <<Main>>) /\ calls[Main] = {}
    BY <1>1, <1>2, <2>1, FlushAlone
  <2>3. Shrunk(<<>>, lockq, Main, Tasks)
    <3>1. Range(<<>>) = {} /\ Range(<<Main>>) = {Main} /\ <<>> \in Seq(Tasks)
          /\ IsInjective(<<>>) /\ \A s : InOrder(<<>>, s)
      BY DEF Range, IsInjective, InOrder
    <3>2. QED
      BY <2>2, <3>1 DEF Shrunk
  <2>4. Dequeued(Main)
    BY <2>1, <2>2, <2>3 DEF Dequeued
  <2>5. QED
    BY <1>2, <1>3, <1>4, <2>1, <2>2, <2>4 DEF Leaves
<1>19. ASSUME \/ \E c \in Consumers : AttachAndCap(c) \/ AttachAndEvict(c)
              \/ JanitorCloses
              \/ Flushes
       PROVE  \E t \in Tasks : Emits(t)
  BY <1>19, EmitCases
<1>20. CASE UNCHANGED vars
  BY <1>2, <1>20 DEF vars
<1>21. QED
  BY <1>2, <1>7, <1>8, <1>9, <1>11, <1>12, <1>13, <1>14, <1>15, <1>17, <1>18, <1>19, <1>20
  DEF Step

-------------------------------------------------------------------------------
(* The invariant is kept: types and the lock. *)

LEMMA ClosedFacts ==
  ASSUME NEW b, NEW tr, Sound(b, tr), NEW reason \in Reasons
  PROVE  LET e == Closed(b, tr, reason)
         IN  /\ e \in ClosedTrace /\ Fits(e.block, e)
             /\ e.block = b /\ e.ids = tr.ids /\ e.events = tr.events
             /\ e.last = tr.last /\ e.reason = reason
             /\ tr.terminal <=> HasTerminal(e.events)
<1> DEFINE e == Closed(b, tr, reason)
<1>1. /\ e.block = b /\ e.ids = tr.ids /\ e.events = tr.events /\ e.reason = reason
      /\ e.first = tr.first /\ e.last = tr.last
  BY DEF Closed
<1>2. e \in ClosedTrace
  BY DEF Closed, ClosedTrace, Sound, Trace
<1>3. Fits(b, e)
  BY <1>1 DEF Sound, Fits, Truthful
<1>4. QED
  BY <1>1, <1>2, <1>3 DEF Sound

LEMMA EmittedGrows ==
  ASSUME Typed, NEW t, Emits(t)
  PROVE  \E e \in ClosedTrace :
           /\ Fits(e.block, e)
           /\ emitted' = Append(emitted, e) /\ emitted' \in Seq(ClosedTrace)
           /\ emitted' # <<>> /\ Len(emitted') = Len(emitted) + 1 /\ Len(emitted) \in Nat
           /\ DOMAIN emitted = 1..Len(emitted) /\ DOMAIN emitted' = 1..(Len(emitted) + 1)
           /\ emitted'[Len(emitted) + 1] = e
           /\ \A i \in 1..Len(emitted) : emitted'[i] = emitted[i]
<1>1. PICK b, tr, reason :
        Sound(b, tr) /\ reason \in Reasons /\ emitted' = Append(emitted, Closed(b, tr, reason))
  BY DEF Emits
<1>2. PICK e : e = Closed(b, tr, reason)
  OBVIOUS
<1>3. e \in ClosedTrace /\ Fits(e.block, e)
  BY <1>1, <1>2, ClosedFacts
<1>4. emitted \in Seq(ClosedTrace) /\ emitted' = Append(emitted, e)
  BY <1>1, <1>2 DEF Typed
<1>5. QED
  BY <1>3, <1>4

LEMMA QueuedStep ==
  ASSUME Inv, Step
  PROVE  Queued'
<1>1. Typed /\ Queued
  BY DEF Inv
<1>2. /\ pc \in [Tasks -> Labels] /\ calls \in [Tasks -> SUBSET Handlers]
      /\ lockq \in Seq(Tasks) /\ IsInjective(lockq)
      /\ \A t \in Tasks : t \in Range(lockq) <=> pc[t] \in InLock
      /\ \A t \in Tasks : pc[t] = "publish" => Holds(t) /\ emitted # <<>>
      /\ \A t \in Tasks : pc[t] # "publish" => calls[t] = {}
  BY <1>1 DEF Typed, Queued, InLock
<1>3. PICK t \in Tasks : \/ Joins(t) \/ Leaves(t) \/ Emits(t)
                         \/ \E h \in Handlers : HandlerEnds(t, h)
                         \/ UNCHANGED <<pc, lockq, calls, emitted>>
  BY QueueCases
<1>4. CASE Joins(t)
  <2>1. /\ pc[t] \notin InLock /\ lockq' = Append(lockq, t) /\ UNCHANGED <<calls, emitted>>
        /\ pc' = [pc EXCEPT ![t] = "lock"]
    BY <1>4 DEF Joins, Goto
  <2>2. t \notin Range(lockq)
    BY <1>2, <2>1
  <2>3. /\ lockq' \in Seq(Tasks) /\ IsInjective(lockq') /\ Range(lockq') = Range(lockq) \cup {t}
        /\ lockq # <<>> => lockq' # <<>> /\ Head(lockq') = Head(lockq)
    BY <1>2, <2>1, <2>2, AppendFacts
  <2>4. /\ pc'[t] = "lock" /\ \A u \in Tasks : u # t => pc'[u] = pc[u]
    BY <1>2, <2>1
  <2>5. "lock" \in InLock /\ pc[t] # "publish"
    BY <2>1 DEF InLock
  <2>6. \A u \in Tasks : u \in Range(lockq') <=> pc'[u] \in InLock
    BY <1>2, <2>3, <2>4, <2>5
  <2>7. \A u \in Tasks : pc'[u] = "publish" => Holds(u)' /\ emitted' # <<>>
    BY <1>2, <2>1, <2>3, <2>4 DEF Holds
  <2>8. \A u \in Tasks : pc'[u] # "publish" => calls'[u] = {}
    BY <1>2, <2>1, <2>4, <2>5
  <2>9. QED
    BY <2>3, <2>6, <2>7, <2>8 DEF Queued, InLock
<1>5. CASE Leaves(t)
  <2>1. PICK label \in Labels \ InLock : pc' = [pc EXCEPT ![t] = label]
    BY <1>5 DEF Leaves, Goto
  <2>2. /\ lockq' \in Seq(Tasks) /\ IsInjective(lockq') /\ Range(lockq') = Range(lockq) \ {t}
        /\ lockq # <<>> /\ Head(lockq) # t => lockq' # <<>> /\ Head(lockq') = Head(lockq)
        /\ calls' = [calls EXCEPT ![t] = {}] /\ emitted' = emitted
    BY <1>5 DEF Leaves, Dequeued, Shrunk
  <2>3. /\ pc'[t] = label /\ label \notin InLock /\ \A u \in Tasks : u # t => pc'[u] = pc[u]
        /\ calls'[t] = {} /\ \A u \in Tasks : u # t => calls'[u] = calls[u]
    BY <1>2, <2>1, <2>2
  <2>4. label # "publish"
    BY DEF InLock
  <2>5. \A u \in Tasks : u \in Range(lockq') <=> pc'[u] \in InLock
    BY <1>2, <2>2, <2>3
  <2>6. \A u \in Tasks : pc'[u] = "publish" => Holds(u)' /\ emitted' # <<>>
    BY <1>2, <2>2, <2>3, <2>4 DEF Holds
  <2>7. \A u \in Tasks : pc'[u] # "publish" => calls'[u] = {}
    BY <1>2, <2>3
  <2>8. QED
    BY <2>2, <2>5, <2>6, <2>7 DEF Queued, InLock
<1>6. CASE Emits(t)
  <2>1. pc' = [pc EXCEPT ![t] = "publish"] /\ calls' = [calls EXCEPT ![t] = Handlers]
    BY <1>6 DEF Emits, Goto
  <2>2. emitted' # <<>>
    BY <1>1, <1>6, EmittedGrows
  <2>3. /\ pc'[t] = "publish" /\ \A u \in Tasks : u # t => pc'[u] = pc[u] /\ calls'[u] = calls[u]
    BY <1>2, <2>1
  <2>4. CASE Holds(t) /\ pc[t] \in {"lock", "publish"} /\ lockq' = lockq
    <3>1. \A u \in Tasks : u # t => pc'[u] # "publish"
      BY <1>2, <2>3, <2>4 DEF Holds
    <3>2. \A u \in Tasks : u \in Range(lockq') <=> pc'[u] \in InLock
      BY <1>2, <2>3, <2>4 DEF InLock
    <3>3. Holds(t)'
      BY <2>4 DEF Holds
    <3>4. QED
      BY <1>2, <2>2, <2>3, <2>4, <3>1, <3>2, <3>3 DEF Queued, InLock
  <2>5. CASE t = Main /\ (FlushStarts \/ Published(Main)) /\ lockq' = <<Main>>
    <3>1. lockq = <<>> \/ lockq = <<Main>>
      BY <1>1, <2>5, FlushAlone DEF Inv
    <3>2. Range(<<Main>>) = {Main} /\ Range(<<>>) = {} /\ IsInjective(<<Main>>)
          /\ Head(<<Main>>) = Main /\ <<Main>> # <<>>
      BY DEF Range, IsInjective
    <3>3. <<Main>> \in Seq(Tasks)
      BY DEF Tasks
    <3>4. \A u \in Tasks : u # Main => pc[u] \notin InLock
      BY <1>2, <3>1, <3>2
    <3>5. \A u \in Tasks : u \in Range(lockq') <=> pc'[u] \in InLock
      BY <2>3, <2>5, <3>2, <3>4 DEF InLock
    <3>6. \A u \in Tasks : u # Main => pc'[u] # "publish" /\ calls'[u] = {}
      BY <1>2, <2>3, <2>5, <3>4 DEF InLock
    <3>7. Holds(Main)'
      BY <2>5, <3>2 DEF Holds
    <3>8. QED
      BY <2>2, <2>3, <2>5, <3>2, <3>3, <3>5, <3>6, <3>7 DEF Queued, InLock
  <2>6. QED
    BY <1>6, <2>4, <2>5 DEF Emits
<1>7. CASE \E h \in Handlers : HandlerEnds(t, h)
  <2>1. PICK h \in Handlers : HandlerEnds(t, h)
    BY <1>7
  <2>2. /\ pc[t] = "publish" /\ calls' = [calls EXCEPT ![t] = @ \ {h}]
        /\ UNCHANGED <<pc, lockq, emitted>>
    BY <2>1 DEF HandlerEnds
  <2>3. \A u \in Tasks : u # t => calls'[u] = calls[u]
    BY <1>2, <2>2
  <2>4. QED
    BY <1>1, <1>2, <2>2, <2>3 DEF Queued, Holds
<1>8. CASE UNCHANGED <<pc, lockq, calls, emitted>>
  BY <1>1, <1>8 DEF Queued, Holds
<1>9. QED
  BY <1>3, <1>4, <1>5, <1>6, <1>7, <1>8

LEMMA RolesStep ==
  ASSUME Inv, Step
  PROVE  /\ \A c \in Consumers : pc'[c] \in {"idle", "lock", "publish"}
         /\ pc'[Janitor] \in {"sleep", "lock", "publish", "exit"}
         /\ pc'[Main] \in {"running", "cancelling", "stopping", "publish", "stopped"}
<1> DEFINE Roles(f) ==
      /\ \A c \in Consumers : f[c] \in {"idle", "lock", "publish"}
      /\ f[Janitor] \in {"sleep", "lock", "publish", "exit"}
      /\ f[Main] \in {"running", "cancelling", "stopping", "publish", "stopped"}
<1>1. pc \in [Tasks -> Labels] /\ Roles(pc)
  BY DEF Inv, Typed
<1>2. /\ Janitor \in Tasks /\ Main \in Tasks /\ Consumers \subseteq Tasks
      /\ Janitor \notin Consumers /\ Main \notin Consumers /\ Janitor # Main
  BY TasksAssumption DEF Tasks
<1>3. ASSUME NEW c \in Consumers, NEW label \in {"idle", "lock", "publish"}, Goto(c, label)
      PROVE  Roles(pc')
  BY <1>1, <1>2, <1>3 DEF Goto
<1>4. ASSUME NEW label \in {"sleep", "lock", "publish", "exit"}, Goto(Janitor, label)
      PROVE  Roles(pc')
  BY <1>1, <1>2, <1>4 DEF Goto
<1>5. ASSUME NEW label \in {"cancelling", "stopping", "publish", "stopped"}, Goto(Main, label)
      PROVE  Roles(pc')
  BY <1>1, <1>2, <1>5 DEF Goto
<1> HIDE DEF Roles
<1>6. ASSUME NEW c \in Consumers,
             \/ Arrive(c) \/ Attach(c) \/ AttachAndCap(c) \/ AttachAndEvict(c)
             \/ ProcessReturns(c) \/ ConsumerCancelled(c)
      PROVE  Roles(pc')
  BY <1>3, <1>6 DEF Arrive, Attach, AttachAndCap, AttachAndEvict, ProcessReturns,
                    ConsumerCancelled, Cancelled, Emit
<1>7. ASSUME JanitorWakes \/ JanitorCloses \/ JanitorRests \/ JanitorCancelled
      PROVE  Roles(pc')
  BY <1>4, <1>7 DEF JanitorWakes, JanitorCloses, JanitorRests, JanitorCancelled, Cancelled,
                    CloseNext, PassEnds, Emit
<1>8. ASSUME Interrupt \/ InterruptFlush \/ Stop \/ Flushes \/ FlushEnds
      PROVE  Roles(pc')
  BY <1>5, <1>8 DEF Interrupt, InterruptFlush, Stop, Flushes, FlushEnds, Cancelled, Emit
<1>9. ASSUME NEW t \in Tasks, NEW h \in Handlers, HandlerEnds(t, h) PROVE Roles(pc')
  BY <1>1, <1>9 DEF HandlerEnds
<1>10. ASSUME UNCHANGED vars PROVE Roles(pc')
  <2>1. pc' = pc
    BY <1>10 DEF vars
  <2>2. QED
    BY <1>1, <2>1
<1>11. Roles(pc')
  BY <1>6, <1>7, <1>8, <1>9, <1>10, Zenon DEF Step
<1>12. QED
  BY <1>11 DEF Roles

LEMMA LaterTime ==
  ASSUME log \in Seq(Inputs), latest \in Times, NEW n \in 1..Len(log),
         latest' = IF log[n].ts # NoTime THEN Later(log[n].ts, latest) ELSE latest
  PROVE  latest' \in Times
<1>1. log[n].ts = NoTime \/ log[n].ts \in 0..WallClock
  BY RecordFacts
<1>2. QED
  BY <1>1 DEF Times, Later

LEMMA ObserveTime ==
  ASSUME Typed, NEW c, Waits(c), Observe(c)
  PROVE  latest' \in Times
<1>1. log \in Seq(Inputs) /\ latest \in Times /\ arg[c] \in 1..Len(log)
  BY DEF Typed, Waits
<1>2. latest' = IF log[arg[c]].ts # NoTime THEN Later(log[arg[c]].ts, latest) ELSE latest
  BY DEF Observe
<1>3. QED
  BY <1>1, <1>2, LaterTime

\* What a call of process changes outside the lock.
LEMMA ArriveFacts ==
  ASSUME Typed, NEW c \in Consumers, Arrive(c)
  PROVE  /\ log' \in Seq(Inputs) /\ Len(log') = Len(log) + 1 /\ Len(log) \in Nat
         /\ Len(log') <= NumRecords
         /\ \A i \in 1..Len(log) : log'[i] = log[i] /\ i \in 1..Len(log')
         /\ arg' \in [Consumers -> Nat] /\ arg'[c] = Len(log) + 1
         /\ \A d \in Consumers : d # c => arg'[d] = arg[d]
         /\ \A d \in Consumers : arg'[d] <= Len(log')
<1>1. log \in Seq(Inputs) /\ Len(log) < NumRecords /\ NumRecords \in Nat
      /\ arg \in [Consumers -> Nat] /\ \A d \in Consumers : arg[d] <= Len(log)
  BY SessionizerAssumption DEF Arrive, Typed
<1>2. PICK in \in Inputs : log' = Append(log, in)
  BY DEF Arrive
<1>3. /\ log' \in Seq(Inputs) /\ Len(log') = Len(log) + 1 /\ Len(log) \in Nat
      /\ \A i \in 1..Len(log) : log'[i] = log[i] /\ i \in 1..Len(log')
  BY <1>1, <1>2
<1>4. arg' = [arg EXCEPT ![c] = Len(log) + 1]
  BY DEF Arrive
<1>5. /\ arg' \in [Consumers -> Nat] /\ arg'[c] = Len(log) + 1
      /\ \A d \in Consumers : d # c => arg'[d] = arg[d]
  BY <1>1, <1>3, <1>4
<1>6. ASSUME NEW d \in Consumers PROVE arg'[d] <= Len(log')
  <2>1. CASE d = c
    BY <1>3, <1>5, <2>1
  <2>2. CASE d # c
    <3>1. arg'[d] = arg[d] /\ arg[d] \in Nat /\ arg[d] <= Len(log)
      BY <1>1, <1>5, <2>2
    <3>2. QED
      BY <1>3, <3>1
  <2>3. QED
    BY <2>1, <2>2
<1>7. QED
  BY <1>1, <1>3, <1>5, <1>6

LEMMA TypedStep ==
  ASSUME Inv, Step
  PROVE  Typed'
<1>1. Typed /\ Kept /\ Numbered
  BY DEF Inv
<1>2. /\ pc' \in [Tasks -> Labels] /\ calls' \in [Tasks -> SUBSET Handlers]
      /\ emitted' \in Seq(ClosedTrace)
  <2>1. PICK t \in Tasks : \/ Joins(t) \/ Leaves(t) \/ Emits(t)
                           \/ \E h \in Handlers : HandlerEnds(t, h)
                           \/ UNCHANGED <<pc, lockq, calls, emitted>>
    BY QueueCases
  <2>2. /\ pc \in [Tasks -> Labels] /\ calls \in [Tasks -> SUBSET Handlers]
        /\ emitted \in Seq(ClosedTrace)
    BY <1>1 DEF Typed
  <2>3. CASE Joins(t) \/ Leaves(t)
    BY <2>2, <2>3 DEF Joins, Leaves, Goto, Labels
  <2>4. CASE Emits(t)
    <3>1. emitted' \in Seq(ClosedTrace)
      BY <1>1, <2>4, EmittedGrows
    <3>2. QED
      BY <2>2, <2>4, <3>1 DEF Emits, Goto, Labels
  <2>5. CASE \E h \in Handlers : HandlerEnds(t, h)
    BY <2>2, <2>5 DEF HandlerEnds
  <2>6. CASE UNCHANGED <<pc, lockq, calls, emitted>>
    BY <2>2, <2>6
  <2>7. QED
    BY <2>1, <2>3, <2>4, <2>5, <2>6
<1> DEFINE Rest == /\ log' \in Seq(Inputs) /\ Len(log') <= NumRecords
                   /\ arg' \in [Consumers -> Nat] /\ \A c \in Consumers : arg'[c] <= Len(log')
                   /\ latest' \in Times /\ interrupted' \in BOOLEAN
<1>3. ASSUME UNCHANGED <<log, arg>>, latest' \in Times, interrupted' \in {interrupted, TRUE}
      PROVE  Rest
  BY <1>1, <1>3 DEF Typed
<1>4. ASSUME NEW c \in Consumers, Arrive(c) PROVE Rest
  <2>1. UNCHANGED <<latest, interrupted>>
    BY <1>4 DEF Arrive
  <2>2. QED
    BY <1>1, <1>4, <2>1, ArriveFacts DEF Typed
<1> HIDE DEF Rest
<1>5. latest \in Times
  BY <1>1 DEF Typed
<1>6. ASSUME NEW c \in Consumers, Attach(c) \/ AttachAndCap(c) \/ AttachAndEvict(c) PROVE Rest
  <2>1. pc[c] = "lock" /\ Observe(c) /\ UNCHANGED <<log, arg, interrupted>>
    BY <1>6 DEF Attach, AttachAndCap, AttachAndEvict
  <2>2. latest' \in Times
    BY <1>1, <2>1, WaitsForLock, ObserveTime
  <2>3. QED
    BY <1>3, <2>1, <2>2
<1>7. ASSUME UNCHANGED <<log, arg, latest>>, interrupted' \in {interrupted, TRUE} PROVE Rest
  BY <1>3, <1>5, <1>7
<1>8. Rest
  BY <1>4, <1>6, <1>7
  DEF Step, ProcessReturns, ConsumerCancelled, HandlerEnds, JanitorWakes, JanitorCloses,
      JanitorRests, JanitorCancelled, Interrupt, InterruptFlush, Stop, Flushes, FlushEnds, vars
<1>9. QED
  BY <1>2, <1>8, RolesStep DEF Typed, Rest

-------------------------------------------------------------------------------
(* The invariant is kept: the end of the run. *)

LEMMA EndsStep ==
  ASSUME Inv, Step
  PROVE  EndsInOrder'
<1>1. /\ pc \in [Tasks -> Labels] /\ EndsInOrder
      /\ \A t \in Tasks : Published(t) => pc[t] = "publish"
  BY DEF Inv, Typed, Published
<1>2. /\ Janitor \in Tasks /\ Main \in Tasks /\ Consumers \subseteq Tasks
      /\ Janitor \notin Consumers /\ Main \notin Consumers /\ Janitor # Main
  BY TasksAssumption DEF Tasks
<1>3. ASSUME NEW c \in Consumers, NEW label, Goto(c, label), pc[Main] \in {"running", "cancelling"},
             UNCHANGED interrupted
      PROVE  EndsInOrder'
  <2>1. pc'[Main] = pc[Main] /\ pc'[Janitor] = pc[Janitor]
    BY <1>1, <1>2, <1>3 DEF Goto
  <2>2. QED
    BY <1>1, <1>3, <2>1 DEF EndsInOrder, Stopped
<1>4. ASSUME NEW label \in {"sleep", "lock", "publish"}, Goto(Janitor, label), Active,
             UNCHANGED interrupted
      PROVE  EndsInOrder'
  <2>1. pc'[Main] = pc[Main] /\ pc'[Janitor] = label
    BY <1>1, <1>2, <1>4 DEF Goto
  <2>2. QED
    BY <1>1, <1>4, <2>1 DEF EndsInOrder, Stopped, Active
<1>5. ASSUME NEW label, Goto(Main, label)
      PROVE  pc'[Main] = label /\ \A t \in Tasks : t # Main => pc'[t] = pc[t]
  BY <1>1, <1>2, <1>5 DEF Goto
<1>6. ASSUME NEW c \in Consumers,
             \/ Arrive(c) \/ Attach(c) \/ AttachAndCap(c) \/ AttachAndEvict(c)
             \/ ProcessReturns(c) \/ ConsumerCancelled(c)
      PROVE  EndsInOrder'
  <2>1. pc[c] = "publish" => pc[Main] \in {"running", "cancelling"}
    BY <1>2 DEF Inv, Typed, EndsInOrder
  <2>2. QED
    BY <1>3, <1>6, <2>1 DEF Arrive, Attach, AttachAndCap, AttachAndEvict, ProcessReturns,
                            ConsumerCancelled, Cancelled, Emit, Published
<1>7. ASSUME JanitorWakes \/ JanitorCloses \/ JanitorRests
      PROVE  EndsInOrder'
  BY <1>4, <1>7 DEF JanitorWakes, JanitorCloses, JanitorRests, PassAt, Active,
                    CloseNext, PassEnds, Emit
<1>8. ASSUME JanitorCancelled PROVE EndsInOrder'
  <2>1. pc[Main] = "stopping" /\ Goto(Janitor, "exit") /\ UNCHANGED <<order, interrupted>>
    BY <1>8 DEF JanitorCancelled, Cancelled
  <2>2. pc'[Janitor] = "exit" /\ \A t \in Tasks : t # Janitor => pc'[t] = pc[t]
    BY <1>1, <1>2, <2>1 DEF Goto
  <2>3. QED
    BY <1>1, <1>2, <2>1, <2>2 DEF EndsInOrder, Stopped
<1>9. ASSUME Interrupt PROVE EndsInOrder'
  <2>1. pc[Main] = "running" /\ Goto(Main, "cancelling") /\ interrupted' = TRUE
    BY <1>9 DEF Interrupt
  <2>2. QED
    BY <1>1, <1>2, <1>5, <2>1 DEF EndsInOrder, Stopped
<1>10. ASSUME InterruptFlush PROVE EndsInOrder'
  <2>1. pc[Main] = "publish" /\ Goto(Main, "stopped") /\ interrupted' = TRUE
    BY <1>10 DEF InterruptFlush, Cancelled
  <2>2. QED
    BY <1>1, <1>2, <1>5, <2>1 DEF EndsInOrder, Stopped
<1>11. ASSUME Stop PROVE EndsInOrder'
  <2>1. /\ \A c \in Consumers : pc[c] = "idle"
        /\ pc[Main] \in {"running", "cancelling"} /\ Goto(Main, "stopping")
    BY <1>11 DEF Stop
  <2>2. QED
    BY <1>1, <1>2, <1>5, <2>1 DEF EndsInOrder, Stopped
<1>12. ASSUME Flushes PROVE EndsInOrder'
  <2>1. /\ Goto(Main, "publish") /\ UNCHANGED interrupted
        /\ (pc[Main] = "stopping" /\ pc[Janitor] = "exit") \/ pc[Main] = "publish"
    BY <1>1, <1>2, <1>12 DEF Flushes, Emit, FlushStarts
  <2>2. QED
    BY <1>1, <1>2, <1>5, <2>1 DEF EndsInOrder, Stopped
<1>13. ASSUME FlushEnds PROVE EndsInOrder'
  <2>1. /\ Goto(Main, "stopped") /\ UNCHANGED <<order, interrupted>> /\ order = <<>>
        /\ (pc[Main] = "stopping" /\ pc[Janitor] = "exit") \/ pc[Main] = "publish"
    BY <1>1, <1>2, <1>13 DEF FlushEnds, FlushStarts
  <2>2. QED
    BY <1>1, <1>2, <1>5, <2>1 DEF EndsInOrder, Stopped
<1>14. ASSUME NEW t \in Tasks, NEW h \in Handlers, HandlerEnds(t, h) PROVE EndsInOrder'
  BY <1>1, <1>14 DEF HandlerEnds, EndsInOrder, Stopped
<1>15. ASSUME UNCHANGED vars PROVE EndsInOrder'
  BY <1>1, <1>15 DEF vars, EndsInOrder, Stopped
<1>16. QED
  BY <1>6, <1>7, <1>8, <1>9, <1>10, <1>11, <1>12, <1>13, <1>14, <1>15, Zenon DEF Step

-------------------------------------------------------------------------------
(* The invariant is kept: the traces. *)

\* New records change nothing about old traces.
LEMMA FitsLater ==
  ASSUME log \in Seq(Inputs), Len(log) <= Len(log'), Len(log') \in Nat,
         \A i \in 1..Len(log) : log'[i] = log[i],
         NEW b, NEW tr, Fits(b, tr), tr.ids \in Seq(Ids)
  PROVE  Fits(b, tr)'
<1>1. Len(log) \in Nat /\ 1..Len(log) \subseteq 1..Len(log')
  OBVIOUS
<1>2. \A i \in DOMAIN tr.ids : tr.ids[i] \in 1..Len(log) /\ log'[tr.ids[i]] = log[tr.ids[i]]
  BY DEF Fits
<1>3. tr.ids # <<>> /\ 1 \in DOMAIN tr.ids
  BY DEF Fits, Truthful
<1>4. TimesOf(tr.ids)' = TimesOf(tr.ids)
  <2>1. {log'[tr.ids[i]].ts : i \in DOMAIN tr.ids} = {log[tr.ids[i]].ts : i \in DOMAIN tr.ids}
    BY <1>2
  <2>2. log'[tr.ids[1]] = log[tr.ids[1]]
    BY <1>2, <1>3
  <2>3. QED
    BY <2>1, <2>2 DEF TimesOf
<1>5. EventsOf(tr.ids)' = EventsOf(tr.ids)
  <2>1. [i \in DOMAIN tr.ids |-> log'[tr.ids[i]].event]
          = [i \in DOMAIN tr.ids |-> log[tr.ids[i]].event]
    BY <1>2
  <2>2. QED
    BY <2>1 DEF EventsOf
<1>6. QED
  BY <1>1, <1>2, <1>4, <1>5 DEF Fits, Truthful

LEMMA KeptStep ==
  ASSUME Inv, Step
  PROVE  Kept'
<1>1. Typed /\ Kept /\ Numbered
  BY DEF Inv
<1>2. ASSUME UNCHANGED <<log, order, trace, emitted>> PROVE Kept'
  <2>1. Dictionary(order, trace)'
    BY <1>1, <1>2 DEF Kept, Dictionary, Fits, Truthful, TimesOf, EventsOf
  <2>2. MemoryBounded'
    BY <1>1, <1>2 DEF Kept, MemoryBounded
  <2>3. \A i \in DOMAIN emitted' : Fits(emitted[i].block, emitted[i])'
    BY <1>1, <1>2 DEF Kept, Fits, Truthful, TimesOf, EventsOf
  <2>4. QED
    BY <2>1, <2>2, <2>3 DEF Kept
<1>3. ASSUME NEW c \in Consumers, Arrive(c) PROVE Kept'
  <2>1. /\ log \in Seq(Inputs) /\ Len(log) <= Len(log') /\ Len(log') \in Nat
        /\ \A i \in 1..Len(log) : log'[i] = log[i]
    BY <1>1, <1>3, ArriveFacts DEF Typed
  <2>2. UNCHANGED <<order, trace, emitted>>
    BY <1>3 DEF Arrive
  <2>3. ASSUME NEW b \in Range(order) PROVE Fits(b, trace[b])'
    <3>1. trace[b] \in Trace /\ Fits(b, trace[b])
      BY <1>1 DEF Kept, Dictionary
    <3>2. PICK tr : tr = trace[b]
      OBVIOUS
    <3>3. Fits(b, tr)' /\ tr = trace'[b]
      BY <2>1, <2>2, <3>1, <3>2, FitsLater DEF Trace
    <3>4. QED
      BY <3>3 DEF Fits, Truthful
  <2>4. ASSUME NEW i \in DOMAIN emitted PROVE Fits(emitted[i].block, emitted[i])'
    <3>1. emitted[i] \in ClosedTrace /\ Fits(emitted[i].block, emitted[i])
      BY <1>1 DEF Kept, Typed
    <3>2. PICK e : e = emitted[i]
      OBVIOUS
    <3>3. Fits(e.block, e)' /\ e = emitted'[i]
      BY <2>1, <2>2, <3>1, <3>2, FitsLater DEF ClosedTrace
    <3>4. QED
      BY <3>3 DEF Fits, Truthful
  <2>5. Dictionary(order, trace)'
    BY <1>1, <2>2, <2>3 DEF Kept, Dictionary
  <2>6. MemoryBounded'
    BY <1>1, <2>2 DEF Kept, MemoryBounded
  <2>7. QED
    BY <2>2, <2>4, <2>5, <2>6 DEF Kept
<1>4. ASSUME KeptNext, UNCHANGED log PROVE Dictionary(order, trace)' /\ MemoryBounded'
  BY <1>4 DEF KeptNext, Dictionary, Fits, Truthful, TimesOf, EventsOf
<1>5. ASSUME NEW c \in Consumers, Attach(c) PROVE Kept'
  <2>1. KeptNext /\ UNCHANGED <<log, emitted>>
    BY <1>1, <1>5, AttachEffect DEF Attach
  <2>2. \A i \in DOMAIN emitted : Fits(emitted[i].block, emitted[i])'
    BY <1>1, <2>1 DEF Kept, Fits, Truthful, TimesOf, EventsOf
  <2>3. QED
    BY <1>4, <2>1, <2>2 DEF Kept
<1>6. ASSUME NEW t, Emits(t) PROVE Kept'
  <2>1. KeptNext /\ UNCHANGED log
    BY <1>6 DEF Emits
  <2>2. PICK e \in ClosedTrace :
          /\ Fits(e.block, e) /\ Len(emitted) \in Nat
          /\ DOMAIN emitted = 1..Len(emitted) /\ DOMAIN emitted' = 1..(Len(emitted) + 1)
          /\ emitted'[Len(emitted) + 1] = e
          /\ \A i \in 1..Len(emitted) : emitted'[i] = emitted[i]
    BY <1>1, <1>6, EmittedGrows
  <2>3. \A i \in DOMAIN emitted' : Fits(emitted'[i].block, emitted'[i])
    <3>1. \A i \in DOMAIN emitted' : i \in 1..Len(emitted) \/ i = Len(emitted) + 1
      BY <2>2
    <3>2. \A i \in 1..Len(emitted) : Fits(emitted'[i].block, emitted'[i])
      BY <1>1, <2>2 DEF Kept
    <3>3. QED
      BY <2>2, <3>1, <3>2
  <2>4. \A i \in DOMAIN emitted' : Fits(emitted[i].block, emitted[i])'
    BY <2>1, <2>3 DEF Fits, Truthful, TimesOf, EventsOf
  <2>5. QED
    BY <1>4, <2>1, <2>4 DEF Kept
<1>7. ASSUME \/ \E c \in Consumers : AttachAndCap(c) \/ AttachAndEvict(c)
             \/ JanitorCloses
             \/ Flushes
      PROVE  Kept'
  BY <1>6, <1>7, EmitCases
<1>8. QED
  BY <1>2, <1>3, <1>5, <1>7
  DEF Step, ProcessReturns, ConsumerCancelled, HandlerEnds, JanitorWakes, JanitorRests,
      PassEnds, JanitorCancelled, Interrupt, InterruptFlush, Stop, FlushEnds, vars

-------------------------------------------------------------------------------
(* The invariant is kept: the numbers of the records. *)

IdsOf(f) == UNION {Range(f[b].ids) : b \in DOMAIN f}

LEMMA AppendRange ==
  ASSUME NEW D, NEW s \in Seq(D), NEW e \in D
  PROVE  Range(Append(s, e)) = Range(s) \cup {e}
BY AppendFacts

LEMMA IdsOfPut ==
  ASSUME NEW b, NEW g
  PROVE  IdsOf(Put(b, g)) = IdsOf(Without(trace, b)) \cup Range(g.ids)
<1>1. /\ DOMAIN Put(b, g) = DOMAIN trace \cup {b}
      /\ \A x \in DOMAIN Put(b, g) : Put(b, g)[x] = IF x = b THEN g ELSE trace[x]
  BY DEF Put
<1>2. /\ DOMAIN Without(trace, b) = DOMAIN trace \ {b}
      /\ \A x \in DOMAIN Without(trace, b) : Without(trace, b)[x] = trace[x]
  BY DEF Without
<1>3. \A m : m \in IdsOf(Put(b, g))
               <=> m \in Range(g.ids) \/ \E x \in DOMAIN trace \ {b} : m \in Range(trace[x].ids)
  BY <1>1 DEF IdsOf
<1>4. \A m : m \in IdsOf(Without(trace, b))
               <=> \E x \in DOMAIN trace \ {b} : m \in Range(trace[x].ids)
  BY <1>2 DEF IdsOf
<1>5. QED
  BY <1>3, <1>4

\* The trace of b, if there was one, has one more.
LEMMA IdsOfJoined ==
  ASSUME NEW b, NEW n, NEW g,
         Range(g.ids) = {n} \cup (IF b \in DOMAIN trace THEN Range(trace[b].ids) ELSE {})
  PROVE  IdsOf(Without(trace, b)) \cup Range(g.ids) = IdsOf(trace) \cup {n}
<1>1. /\ DOMAIN Without(trace, b) = DOMAIN trace \ {b}
      /\ \A x \in DOMAIN Without(trace, b) : Without(trace, b)[x] = trace[x]
  BY DEF Without
<1>2. \A m : m \in IdsOf(trace) <=> \E x \in DOMAIN trace : m \in Range(trace[x].ids)
  BY DEF IdsOf
<1>3. \A m : m \in IdsOf(Without(trace, b))
               <=> \E x \in DOMAIN trace \ {b} : m \in Range(trace[x].ids)
  BY <1>1 DEF IdsOf
<1>4. QED
  BY <1>2, <1>3

LEMMA IdsOfShrunk ==
  ASSUME NEW f, NEW v \in DOMAIN f
  PROVE  IdsOf(Without(f, v)) \cup Range(f[v].ids) = IdsOf(f)
<1>1. /\ DOMAIN Without(f, v) = DOMAIN f \ {v}
      /\ \A x \in DOMAIN Without(f, v) : Without(f, v)[x] = f[x]
  BY DEF Without
<1>2. \A m : m \in IdsOf(Without(f, v)) <=> \E x \in DOMAIN f \ {v} : m \in Range(f[x].ids)
  BY <1>1 DEF IdsOf
<1>3. \A m : m \in IdsOf(f) <=> \E x \in DOMAIN f : m \in Range(f[x].ids)
  BY DEF IdsOf
<1>4. QED
  BY <1>2, <1>3

LEMMA ClosedIdsGrow ==
  ASSUME Typed, NEW b, NEW tr, NEW reason, Sound(b, tr), reason \in Reasons,
         emitted' = Append(emitted, Closed(b, tr, reason))
  PROVE  ClosedIds' = ClosedIds \cup Range(tr.ids)
<1>1. PICK e : e = Closed(b, tr, reason)
  OBVIOUS
<1>2. e \in ClosedTrace /\ e.ids = tr.ids
  BY <1>1, ClosedFacts
<1>3. emitted \in Seq(ClosedTrace) /\ emitted' = Append(emitted, e)
  BY <1>1 DEF Typed
<1>4. /\ DOMAIN emitted' = 1..(Len(emitted) + 1) /\ DOMAIN emitted = 1..Len(emitted)
      /\ Len(emitted) \in Nat /\ emitted'[Len(emitted) + 1] = e
      /\ \A i \in 1..Len(emitted) : emitted'[i] = emitted[i]
  BY <1>2, <1>3
<1>5. \A i : i \in 1..(Len(emitted) + 1) <=> i \in 1..Len(emitted) \/ i = Len(emitted) + 1
  BY <1>4
<1>6. \A m : m \in ClosedIds' <=> \E i \in DOMAIN emitted' : m \in Range(emitted'[i].ids)
  BY DEF ClosedIds
<1>7. \A m : m \in ClosedIds <=> \E i \in DOMAIN emitted : m \in Range(emitted[i].ids)
  BY DEF ClosedIds
<1>8. \A m : m \in ClosedIds' <=> m \in ClosedIds \/ m \in Range(e.ids)
  BY <1>4, <1>5, <1>6, <1>7
<1>9. QED
  BY <1>2, <1>8

LEMMA AttachedIs == Attached = IdsOf(trace) \cup ClosedIds
BY DEF Attached, OpenIds, IdsOf

\* A consumer that has the lock attaches its record, whatever it closes then.
Attaches(c) == Attach(c) \/ AttachAndCap(c) \/ AttachAndEvict(c)

LEMMA AttachesOne ==
  ASSUME Inv, NEW c \in Consumers, Attaches(c)
  PROVE  Attached' = Attached \cup {arg[c]}
<1> DEFINE b == log[arg[c]].block
           g == Grown(c)
<1>1. pc[c] = "lock"
  BY DEF Attaches, Attach, AttachAndCap, AttachAndEvict
<1>2. Waits(c) /\ Typed /\ Dictionary(order, trace)
  BY <1>1, WaitsForLock DEF Inv, Kept
<1>3. /\ Joined(b, Before(c), g, arg[c]) /\ g \in Trace
      /\ Before(c).ids = IF IsOpen(b) THEN trace[b].ids ELSE <<>>
  BY <1>2, GrownFacts
<1>4. /\ Before(c).ids \in Seq(Ids) /\ arg[c] \in Ids
      /\ g.ids = Append(Before(c).ids, arg[c])
  <2>1. \A x \in DOMAIN trace : trace[x].ids \in Seq(Ids)
    BY <1>2, DictionaryFacts DEF Sound, Trace
  <2>2. <<>> \in Seq(Ids)
    OBVIOUS
  <2>3. arg[c] \in 1..NumRecords
    BY <1>2, SessionizerAssumption DEF Waits
  <2>4. QED
    BY <1>3, <2>1, <2>2, <2>3 DEF Joined, IsOpen, Ids
<1> HIDE DEF b, g
<1>5. /\ IdsOf(Put(b, g)) = IdsOf(trace) \cup {arg[c]}
      /\ IdsOf(Without(trace, b)) \cup Range(g.ids) = IdsOf(trace) \cup {arg[c]}
  <2>1. Range(g.ids) = Range(Before(c).ids) \cup {arg[c]}
    <3>1. PICK old \in Seq(Ids), n \in Ids : old = Before(c).ids /\ n = arg[c]
      BY <1>4
    <3>2. Range(Append(old, n)) = Range(old) \cup {n}
      BY AppendRange
    <3>3. QED
      BY <1>4, <3>1, <3>2
  <2>2. Range(<<>>) = {}
    BY DEF Range
  <2>3. Range(g.ids) = {arg[c]} \cup (IF b \in DOMAIN trace THEN Range(trace[b].ids) ELSE {})
    BY <1>3, <2>1, <2>2 DEF IsOpen
  <2>4. IdsOf(Without(trace, b)) \cup Range(g.ids) = IdsOf(trace) \cup {arg[c]}
    BY <2>3, IdsOfJoined
  <2>5. IdsOf(Put(b, g)) = IdsOf(Without(trace, b)) \cup Range(g.ids)
    BY IdsOfPut
  <2>6. QED
    BY <2>4, <2>5
<1>6. Attached' = IdsOf(trace') \cup ClosedIds'
  BY DEF Attached, OpenIds, IdsOf
<1>7. CASE Attach(c)
  <2>1. trace' = Put(b, g) /\ UNCHANGED emitted
    BY <1>7 DEF Attach, b, g
  <2>2. ClosedIds' = ClosedIds
    BY <2>1 DEF ClosedIds
  <2>3. QED
    BY <1>5, <1>6, <2>1, <2>2, AttachedIs
<1>8. CASE AttachAndCap(c)
  <2>1. trace' = Without(trace, b) /\ emitted' = Append(emitted, Closed(b, g, "evicted"))
    BY <1>8 DEF AttachAndCap, Emit, b, g
  <2>2. Sound(b, g)
    BY <1>8, CapEffect DEF Inv, b, g
  <2>3. ClosedIds' = ClosedIds \cup Range(g.ids)
    BY <1>2, <2>1, <2>2, ClosedIdsGrow, ReasonsListed
  <2>4. QED
    BY <1>5, <1>6, <2>1, <2>3, AttachedIs
<1>9. CASE AttachAndEvict(c)
  <2> DEFINE v == Head(Touch(b))
             f == Put(b, g)
  <2>1. trace' = Without(f, v) /\ emitted' = Append(emitted, Closed(v, f[v], "evicted"))
    BY <1>9 DEF AttachAndEvict, Emit, b, g
  <2>2. Sound(v, f[v]) /\ v \in DOMAIN f
    BY <1>9, EvictEffect DEF Inv, b, g
  <2> HIDE DEF v, f
  <2>3. ClosedIds' = ClosedIds \cup Range(f[v].ids)
    BY <1>2, <2>1, <2>2, ClosedIdsGrow, ReasonsListed
  <2>4. IdsOf(Without(f, v)) \cup Range(f[v].ids) = IdsOf(f)
    BY <2>2, IdsOfShrunk
  <2>5. QED
    BY <1>5, <1>6, <2>1, <2>3, <2>4, AttachedIs DEF f
<1>10. QED
  BY <1>7, <1>8, <1>9 DEF Attaches

\* One trace is closed, as it is.
LEMMA ClosesOne ==
  ASSUME Inv, JanitorCloses \/ Flushes
  PROVE  \E b \in DOMAIN trace : \E reason \in Reasons :
           /\ Sound(b, trace[b]) /\ trace' = Without(trace, b)
           /\ emitted' = Append(emitted, Closed(b, trace[b], reason))
<1>1. CASE JanitorCloses
  <2>1. PICK due : PassAt(due) /\ due # <<>> /\ CloseNext(due)
    BY <1>1 DEF JanitorCloses
  <2>2. DueList(due)
    BY <2>1, JanitorDue DEF Inv
  <2>3. Sound(Head(due).block, trace[Head(due).block]) /\ Head(due).block \in DOMAIN trace
    BY <2>1, <2>2, JanitorEffect DEF Inv
  <2>4. Head(due).reason \in Reasons
    BY <2>1, <2>2, HeadIsDue, ReasonsListed
  <2>5. QED
    BY <2>1, <2>3, <2>4 DEF CloseNext, Emit
<1>2. CASE Flushes
  <2>1. Sound(Head(order), trace[Head(order)]) /\ Head(order) \in DOMAIN trace
    BY <1>2, FlushEffect DEF Inv
  <2>2. QED
    BY <1>2, <2>1, ReasonsListed DEF Flushes, Emit
<1>3. QED
  BY <1>1, <1>2

LEMMA ClosingAttachesNone ==
  ASSUME Inv, JanitorCloses \/ Flushes
  PROVE  Attached' = Attached
<1>1. PICK b \in DOMAIN trace, reason \in Reasons :
        /\ Sound(b, trace[b]) /\ trace' = Without(trace, b)
        /\ emitted' = Append(emitted, Closed(b, trace[b], reason))
  BY ClosesOne
<1>2. ClosedIds' = ClosedIds \cup Range(trace[b].ids)
  BY <1>1, ClosedIdsGrow DEF Inv
<1>3. IdsOf(Without(trace, b)) \cup Range(trace[b].ids) = IdsOf(trace)
  BY IdsOfShrunk
<1>4. Attached' = IdsOf(trace') \cup ClosedIds'
  BY DEF Attached, OpenIds, IdsOf
<1>5. QED
  BY <1>1, <1>2, <1>3, <1>4, AttachedIs

LEMMA AttachedSame ==
  ASSUME UNCHANGED <<trace, emitted>>
  PROVE  Attached' = Attached
BY DEF Attached, OpenIds, ClosedIds

\* What is attached has arrived.
LEMMA AttachedBound ==
  ASSUME Kept, NEW n \in Attached
  PROVE  n \in 1..Len(log)
<1>1. CASE n \in OpenIds
  <2>1. PICK b \in DOMAIN trace : n \in Range(trace[b].ids)
    BY <1>1 DEF OpenIds
  <2>2. Fits(b, trace[b])
    BY DictionaryFacts DEF Kept, Sound
  <2>3. QED
    BY <2>1, <2>2 DEF Fits, Range
<1>2. CASE n \in ClosedIds
  <2>1. PICK i \in DOMAIN emitted : n \in Range(emitted[i].ids)
    BY <1>2 DEF ClosedIds
  <2>2. Fits(emitted[i].block, emitted[i])
    BY DEF Kept
  <2>3. QED
    BY <2>1, <2>2 DEF Fits, Range
<1>3. QED
  BY <1>1, <1>2 DEF Attached

\* Those who leave the lock's line keep the order of the others.
LEMMA NumberedFrame ==
  ASSUME Numbered, UNCHANGED arg, InOrder(lockq', lockq),
         \A c \in Consumers :
           pc'[c] = "lock" => pc[c] = "lock" /\ \A n \in Attached' : n < arg[c]
  PROVE  Numbered'
<1>1. \A c \in Consumers :
        pc'[c] = "lock" => arg'[c] >= 1 /\ \A n \in Attached' : n < arg'[c]
  BY DEF Numbered
<1>2. ASSUME NEW i \in DOMAIN lockq', NEW j \in DOMAIN lockq', i < j,
             lockq'[i] \in Consumers, lockq'[j] \in Consumers
      PROVE  arg'[lockq'[i]] < arg'[lockq'[j]]
  <2>1. PICK k, l \in DOMAIN lockq : k < l /\ lockq[k] = lockq'[i] /\ lockq[l] = lockq'[j]
    BY <1>2 DEF InOrder
  <2>2. QED
    BY <1>2, <2>1 DEF Numbered
<1>3. QED
  BY <1>1, <1>2 DEF Numbered

LEMMA NumberedJoins ==
  ASSUME Inv, NEW t, Joins(t)
  PROVE  Numbered'
<1>1. Typed /\ Queued /\ Kept /\ Numbered
  BY DEF Inv
<1>2. lockq \in Seq(Tasks) /\ t \in Tasks /\ lockq' = Append(lockq, t)
      /\ \A d \in Tasks : pc'[d] = "lock" => d = t \/ pc[d] = "lock"
  BY <1>1 DEF Joins, Goto, Typed, Queued
<1>3. /\ DOMAIN lockq = 1..Len(lockq) /\ Len(lockq) \in Nat
      /\ DOMAIN lockq' = 1..(Len(lockq) + 1)
      /\ lockq'[Len(lockq) + 1] = t /\ \A i \in 1..Len(lockq) : lockq'[i] = lockq[i]
  BY <1>2, AppendFacts
<1>4. \A i \in DOMAIN lockq' : i \in 1..Len(lockq) \/ i = Len(lockq) + 1
  BY <1>3
<1>5. Attached' = Attached
  BY AttachedSame DEF Joins, Arrive, JanitorWakes
<1>6. CASE t = Janitor /\ JanitorWakes
  <2>1. UNCHANGED arg /\ t \notin Consumers /\ Consumers \subseteq Tasks
    BY <1>6, TasksAssumption DEF JanitorWakes, Tasks
  <2>2. \A c \in Consumers :
          pc'[c] = "lock" => arg'[c] >= 1 /\ \A n \in Attached' : n < arg'[c]
    BY <1>1, <1>2, <1>5, <2>1 DEF Numbered
  <2>3. ASSUME NEW i \in DOMAIN lockq', NEW j \in DOMAIN lockq', i < j,
               lockq'[i] \in Consumers, lockq'[j] \in Consumers
        PROVE  arg'[lockq'[i]] < arg'[lockq'[j]]
    <3>1. i \in 1..Len(lockq) /\ j \in 1..Len(lockq)
      BY <1>3, <1>4, <2>1, <2>3
    <3>2. lockq[i] \in Consumers /\ lockq[j] \in Consumers
      BY <1>3, <2>3, <3>1
    <3>3. QED
      BY <1>1, <1>3, <2>1, <2>3, <3>1, <3>2 DEF Numbered
  <2>4. QED
    BY <2>2, <2>3 DEF Numbered
<1>7. CASE t \in Consumers /\ Arrive(t)
  <2>1. /\ arg'[t] = Len(log) + 1 /\ Len(log) \in Nat
        /\ \A d \in Consumers : d # t => arg'[d] = arg[d]
    BY <1>1, <1>7, ArriveFacts
  <2>2. \A d \in Consumers : arg[d] < arg'[t]
    BY <1>1, <2>1 DEF Typed
  <2>3. \A n \in Attached' : n < arg'[t]
    BY <1>1, <1>5, <2>1, AttachedBound
  <2>4. \A c \in Consumers :
          pc'[c] = "lock" => arg'[c] >= 1 /\ \A n \in Attached' : n < arg'[c]
    <3> SUFFICES ASSUME NEW c \in Consumers, pc'[c] = "lock"
                 PROVE  arg'[c] >= 1 /\ \A n \in Attached' : n < arg'[c]
      OBVIOUS
    <3>1. CASE c = t
      BY <2>1, <2>3, <3>1
    <3>2. CASE c # t
      <4>1. pc[c] = "lock"
        BY <1>2, <3>2 DEF Tasks
      <4>2. QED
        BY <1>1, <1>5, <2>1, <3>2, <4>1 DEF Numbered
    <3>3. QED
      BY <3>1, <3>2
  <2>5. t \notin Range(lockq)
    BY <1>1, <1>2 DEF Queued, Joins, InLock
  <2>6. \A i \in 1..Len(lockq) : lockq[i] # t
    BY <1>3, <2>5 DEF Range
  <2>7. ASSUME NEW i \in DOMAIN lockq', NEW j \in DOMAIN lockq', i < j,
               lockq'[i] \in Consumers, lockq'[j] \in Consumers
        PROVE  arg'[lockq'[i]] < arg'[lockq'[j]]
    <3>1. i \in 1..Len(lockq) /\ lockq'[i] = lockq[i] /\ lockq[i] # t
      BY <1>3, <1>4, <2>6, <2>7
    <3>2. arg'[lockq'[i]] = arg[lockq[i]] /\ lockq[i] \in Consumers
      BY <2>1, <2>7, <3>1
    <3>3. CASE j = Len(lockq) + 1
      BY <1>3, <2>2, <3>2, <3>3
    <3>4. CASE j \in 1..Len(lockq)
      <4>1. lockq'[j] = lockq[j] /\ lockq[j] # t /\ lockq[j] \in Consumers
        BY <1>3, <2>6, <2>7, <3>4
      <4>2. arg'[lockq'[j]] = arg[lockq[j]]
        BY <2>1, <4>1
      <4>3. QED
        BY <1>1, <1>3, <2>7, <3>1, <3>2, <3>4, <4>1, <4>2 DEF Numbered
    <3>5. QED
      BY <1>4, <3>3, <3>4
  <2>8. QED
    BY <2>4, <2>7 DEF Numbered
<1>8. QED
  BY <1>6, <1>7 DEF Joins

LEMMA NumberedStep ==
  ASSUME Inv, Step
  PROVE  Numbered'
<1>1. Typed /\ Queued /\ Kept /\ Numbered
  BY DEF Inv
<1>2. PICK t \in Tasks : \/ Joins(t) \/ Leaves(t) \/ Emits(t)
                         \/ \E h \in Handlers : HandlerEnds(t, h)
                         \/ UNCHANGED <<pc, lockq, calls, emitted>>
  BY QueueCases
<1>3. CASE Joins(t)
  BY <1>3, NumberedJoins
<1>4. CASE ~Joins(t)
  <2>1. InOrder(lockq', lockq)
    <3>1. InOrder(lockq, lockq) /\ InOrder(<<Main>>, lockq)
      BY DEF InOrder
    <3>2. QED
      BY <1>2, <1>4, <3>1 DEF Leaves, Dequeued, Shrunk, Emits, HandlerEnds
  <2>2. \A d \in Tasks : pc'[d] = "lock" => pc[d] = "lock"
    BY <1>1, <1>2, <1>4 DEF Typed, Leaves, Emits, HandlerEnds, Goto, InLock
  <2>3. CASE \E c \in Consumers : Attaches(c)
    <3>1. PICK c \in Consumers : Attaches(c)
      BY <2>3
    <3>2. /\ pc[c] = "lock" /\ Holds(c) /\ UNCHANGED arg
          /\ Goto(c, "idle") \/ Goto(c, "publish")
      BY <3>1 DEF Attaches, Attach, AttachAndCap, AttachAndEvict, Emit
    <3>3. pc'[c] # "lock" /\ Consumers \subseteq Tasks
      BY <1>1, <3>2 DEF Goto, Typed, Tasks
    <3>4. Attached' = Attached \cup {arg[c]}
      BY <3>1, AttachesOne
    <3>5. ASSUME NEW d \in Consumers, pc'[d] = "lock"
          PROVE  pc[d] = "lock" /\ \A n \in Attached' : n < arg[d]
      <4>1. pc[d] = "lock" /\ d # c /\ d \in Tasks
        BY <2>2, <3>3, <3>5
      <4>2. d \in Range(lockq) /\ lockq \in Seq(Tasks)
        BY <1>1, <4>1 DEF Queued
      <4>3. PICK i \in DOMAIN lockq : lockq[i] = d
        BY <4>2 DEF Range
      <4>4. lockq[1] = c /\ 1 \in DOMAIN lockq /\ i \in Nat /\ i >= 1
        BY <3>2, <4>2 DEF Holds
      <4>5. 1 < i
        BY <4>1, <4>3, <4>4
      <4>6. arg[c] < arg[d]
        BY <1>1, <4>3, <4>4, <4>5 DEF Numbered
      <4>7. QED
        BY <1>1, <3>4, <4>1, <4>6 DEF Numbered
    <3>6. QED
      BY <1>1, <2>1, <3>2, <3>5, NumberedFrame
  <2>4. CASE \E c \in Consumers : Arrive(c)
    <3>1. PICK c \in Consumers : Arrive(c)
      BY <2>4
    <3>2. pc[c] = "idle" /\ pc'[c] = "lock"
      BY <1>1, <3>1 DEF Arrive, Goto, Typed, Tasks
    <3>3. QED
      BY <2>2, <3>2 DEF Tasks
  <2>5. ASSUME UNCHANGED arg, Attached' = Attached PROVE Numbered'
    <3>1. \A c \in Consumers :
            pc'[c] = "lock" => pc[c] = "lock" /\ \A n \in Attached' : n < arg[c]
      BY <1>1, <2>2, <2>5 DEF Numbered, Tasks
    <3>2. QED
      BY <1>1, <2>1, <2>5, <3>1, NumberedFrame
  <2>6. CASE JanitorCloses \/ Flushes
    BY <2>5, <2>6, ClosingAttachesNone DEF JanitorCloses, Flushes
  <2>7. CASE UNCHANGED <<arg, trace, emitted>>
    BY <2>5, <2>7, AttachedSame
  <2>8. QED
    BY <2>3, <2>4, <2>6, <2>7
    DEF Step, Attaches, ProcessReturns, ConsumerCancelled, HandlerEnds, JanitorWakes,
        JanitorRests, PassEnds, JanitorCancelled, Interrupt, InterruptFlush, Stop, FlushEnds,
        vars
<1>5. QED
  BY <1>3, <1>4

-------------------------------------------------------------------------------
(* The invariant is kept: the janitor's pass. *)

\* While the janitor publishes, nobody touches the traces or the log time.
LEMMA PublishingKeepsOut ==
  ASSUME Typed, Queued, EndsInOrder, pc[Janitor] = "publish"
  PROVE  /\ \A c \in Consumers : ~Holds(c) /\ pc[c] # "publish"
         /\ ~FlushStarts /\ ~Published(Main)
<1>1. Janitor \in Tasks /\ Consumers \subseteq Tasks /\ Janitor \notin Consumers
  BY TasksAssumption DEF Tasks
<1>2. Holds(Janitor)
  BY <1>1 DEF Queued
<1>3. \A c \in Consumers : ~Holds(c) /\ pc[c] # "publish"
  BY <1>1, <1>2 DEF Holds, Queued
<1>4. ~FlushStarts /\ ~Published(Main)
  BY DEF FlushStarts, Published, EndsInOrder
<1>5. QED
  BY <1>3, <1>4

LEMMA PassStep ==
  ASSUME Inv, Step
  PROVE  PassIsCurrent'
<1>1. /\ Typed /\ Queued /\ EndsInOrder /\ Kept /\ PassIsCurrent
      /\ pc \in [Tasks -> Labels]
  BY DEF Inv, Typed
<1>2. /\ Janitor \in Tasks /\ Main \in Tasks /\ Consumers \subseteq Tasks
      /\ Janitor \notin Consumers /\ Janitor # Main
  BY TasksAssumption DEF Tasks
<1>3. ASSUME JanitorCloses PROVE PassIsCurrent'
  <2>1. PICK due : PassAt(due) /\ due # <<>> /\ CloseNext(due)
    BY <1>3 DEF JanitorCloses
  <2>2. DueList(due)
    BY <1>1, <2>1, JanitorDue
  <2>3. /\ trace' = Without(trace, Head(due).block) /\ latest' = latest
        /\ todo' = Tail(due) /\ Goto(Janitor, "publish")
    BY <1>3, <2>1 DEF JanitorCloses, CloseNext, Emit
  <2>4. PICK rest : rest = Tail(due)
    OBVIOUS
  <2>5. DueList(rest)'
    BY <2>1, <2>2, <2>3, <2>4, DueListShrinks
  <2>6. todo' = rest /\ pc'[Janitor] = "publish"
    BY <1>1, <1>2, <2>3, <2>4 DEF Goto
  <2>7. QED
    BY <2>5, <2>6 DEF PassIsCurrent, DueList
<1>4. ASSUME NEW label, label # "publish", Goto(Janitor, label), todo' = <<>>
      PROVE  PassIsCurrent'
  BY <1>1, <1>2, <1>4 DEF Goto, PassIsCurrent
<1>5. ASSUME JanitorRests PROVE PassIsCurrent'
  BY <1>1, <1>4, <1>5 DEF JanitorRests, PassEnds, PassIsCurrent
<1>6. ASSUME JanitorCancelled PROVE PassIsCurrent'
  BY <1>4, <1>6 DEF JanitorCancelled, Cancelled
<1>7. ASSUME JanitorWakes PROVE PassIsCurrent'
  BY <1>1, <1>4, <1>7 DEF JanitorWakes, PassIsCurrent
<1>8. ASSUME pc'[Janitor] = pc[Janitor], UNCHANGED todo,
             pc[Janitor] = "publish" => UNCHANGED <<trace, latest>>
      PROVE  PassIsCurrent'
  <2>1. CASE pc[Janitor] = "publish"
    BY <1>1, <1>8, <2>1 DEF PassIsCurrent, DueList, Due, Aged, ReasonToClose
  <2>2. CASE pc[Janitor] # "publish"
    BY <1>1, <1>8, <2>2 DEF PassIsCurrent
  <2>3. QED
    BY <2>1, <2>2
<1>9. ASSUME NEW t \in Tasks, NEW label, t # Janitor, Goto(t, label)
      PROVE  pc'[Janitor] = pc[Janitor]
  BY <1>1, <1>2, <1>9 DEF Goto
<1>10. ASSUME NEW c \in Consumers, Attaches(c) PROVE PassIsCurrent'
  <2>1. /\ Holds(c) /\ UNCHANGED todo
        /\ Goto(c, "idle") \/ Goto(c, "publish")
    BY <1>10 DEF Attaches, Attach, AttachAndCap, AttachAndEvict, Emit
  <2>2. pc[Janitor] # "publish" /\ pc'[Janitor] = pc[Janitor]
    BY <1>1, <1>2, <1>9, <2>1, PublishingKeepsOut
  <2>3. QED
    BY <1>8, <2>1, <2>2
<1>11. ASSUME Flushes PROVE PassIsCurrent'
  <2>1. UNCHANGED todo /\ Goto(Main, "publish") /\ (FlushStarts \/ Published(Main))
    BY <1>11 DEF Flushes, Emit
  <2>2. pc[Janitor] # "publish" /\ pc'[Janitor] = pc[Janitor]
    BY <1>1, <1>2, <1>9, <2>1, PublishingKeepsOut
  <2>3. QED
    BY <1>8, <2>1, <2>2
<1>12. ASSUME NEW c \in Consumers, Arrive(c) \/ ProcessReturns(c) \/ ConsumerCancelled(c)
       PROVE  PassIsCurrent'
  BY <1>2, <1>8, <1>9, <1>12 DEF Arrive, ProcessReturns, ConsumerCancelled, Cancelled
<1>13. ASSUME Interrupt \/ InterruptFlush \/ Stop \/ FlushEnds PROVE PassIsCurrent'
  BY <1>2, <1>8, <1>9, <1>13 DEF Interrupt, InterruptFlush, Cancelled, Stop, FlushEnds
<1>14. ASSUME NEW t \in Tasks, NEW h \in Handlers, HandlerEnds(t, h) PROVE PassIsCurrent'
  BY <1>8, <1>14 DEF HandlerEnds
<1>15. ASSUME UNCHANGED vars PROVE PassIsCurrent'
  BY <1>8, <1>15 DEF vars
<1>16. QED
  BY <1>3, <1>5, <1>6, <1>7, <1>10, <1>11, <1>12, <1>13, <1>14, <1>15, Zenon
  DEF Step, Attaches

-------------------------------------------------------------------------------
(* The invariant is kept: the handlers. *)

LEMMA ExitStays ==
  ASSUME Inv, Step, pc[Janitor] = "exit"
  PROVE  pc'[Janitor] = "exit"
<1>1. /\ pc \in [Tasks -> Labels]
      /\ Janitor \in Tasks /\ Main \in Tasks /\ Consumers \subseteq Tasks
      /\ Janitor \notin Consumers /\ Janitor # Main
  BY TasksAssumption DEF Inv, Typed, Tasks
<1>2. ASSUME NEW t \in Tasks, NEW label, t # Janitor, Goto(t, label)
      PROVE  pc'[Janitor] = "exit"
  BY <1>1, <1>2 DEF Goto
<1>3. ASSUME NEW c \in Consumers,
             Arrive(c) \/ Attaches(c) \/ ProcessReturns(c) \/ ConsumerCancelled(c)
      PROVE  pc'[Janitor] = "exit"
  BY <1>1, <1>2, <1>3 DEF Arrive, Attaches, Attach, AttachAndCap, AttachAndEvict, Emit,
                          ProcessReturns, ConsumerCancelled, Cancelled
<1>4. ASSUME Interrupt \/ InterruptFlush \/ Stop \/ Flushes \/ FlushEnds
      PROVE  pc'[Janitor] = "exit"
  BY <1>1, <1>2, <1>4 DEF Interrupt, InterruptFlush, Cancelled, Stop, Flushes, FlushEnds, Emit
<1>5. ~JanitorWakes /\ ~JanitorCloses /\ ~JanitorRests /\ ~JanitorCancelled
  BY DEF JanitorWakes, JanitorCloses, JanitorRests, JanitorCancelled, PassAt, Published
<1>6. ASSUME \E t \in Tasks : \E h \in Handlers : HandlerEnds(t, h) PROVE pc'[Janitor] = "exit"
  BY <1>6 DEF HandlerEnds
<1>7. ASSUME UNCHANGED vars PROVE pc'[Janitor] = "exit"
  BY <1>7 DEF vars
<1>8. QED
  BY <1>3, <1>4, <1>5, <1>6, <1>7, Zenon DEF Step, Attaches

\* A trace is emitted when every handler has had the one before.
LEMMA EmitsAlone ==
  ASSUME Inv, NEW t, Emits(t)
  PROVE  \A u \in Tasks : calls[u] = {}
<1>1. Typed /\ Queued /\ EndsInOrder /\ t \in Tasks
  BY DEF Inv, Emits
<1>2. CASE Holds(t) /\ calls[t] = {}
  BY <1>1, <1>2 DEF Queued, Holds
<1>3. CASE FlushStarts \/ Published(Main)
  BY <1>1, <1>3, FlushAlone
<1>4. QED
  BY <1>2, <1>3 DEF Emits

LEMMA DeliveredEmits ==
  ASSUME Inv, Step, NEW t, Emits(t)
  PROVE  DeliveredOnce'
<1>1. Typed /\ DeliveredOnce /\ t \in Tasks /\ UNCHANGED <<delivered, interrupted>>
  BY DEF Inv, Emits
<1>2. /\ Len(emitted') = Len(emitted) + 1 /\ Len(emitted) \in Nat
      /\ DOMAIN emitted = 1..Len(emitted) /\ DOMAIN emitted' = 1..(Len(emitted) + 1)
  BY <1>1, EmittedGrows
<1>3. /\ \A u \in Tasks : calls[u] = {}
      /\ calls' = [calls EXCEPT ![t] = Handlers] /\ calls \in [Tasks -> SUBSET Handlers]
  BY <1>1, EmitsAlone DEF Emits, Typed
<1>4. \A h \in Handlers : \A i \in DOMAIN delivered[h] :
        delivered[h][i] \in 1..Len(emitted') /\ delivered[h][i] < Len(emitted')
  BY <1>1, <1>2 DEF DeliveredOnce
<1>5. \A u \in Tasks : \A h \in calls'[u] : h \in Handlers
  BY <1>3
<1>6. \A u \in Tasks : \A h \in calls'[u] :
        \A i \in DOMAIN delivered[h] : delivered[h][i] < Len(emitted')
  BY <1>4, <1>5
<1>7. ASSUME ~interrupted
      PROVE  \E x \in Nat : /\ x # 0 => pc'[Janitor] = "exit"
                            /\ \A h \in Handlers : Reached(h, x)'
  <2>1. PICK x \in Nat : /\ x # 0 => pc[Janitor] = "exit"
                         /\ \A h \in Handlers : Reached(h, x)
    BY <1>1, <1>7 DEF DeliveredOnce
  <2>2. ASSUME NEW h \in Handlers, NEW n \in DOMAIN emitted'
        PROVE  \/ n \in Range(delivered[h]) \/ n = x
               \/ n = Len(emitted') /\ \E u \in Tasks : h \in calls'[u]
    <3>1. CASE n \in DOMAIN emitted
      BY <1>3, <2>1, <3>1 DEF Reached
    <3>2. CASE n = Len(emitted) + 1
      BY <1>1, <1>2, <1>3, <3>2
    <3>3. QED
      BY <1>2, <3>1, <3>2
  <2>3. \A h \in Handlers : Reached(h, x)'
    BY <1>1, <2>2 DEF Reached
  <2>4. QED
    BY <2>1, <2>3, ExitStays
<1>8. QED
  BY <1>1, <1>4, <1>6, <1>7 DEF DeliveredOnce

LEMMA DeliveredHandler ==
  ASSUME Inv, NEW t \in Tasks, NEW h \in Handlers, HandlerEnds(t, h)
  PROVE  DeliveredOnce'
<1>1. /\ Typed /\ Queued /\ DeliveredOnce
      /\ calls \in [Tasks -> SUBSET Handlers] /\ delivered \in [Handlers -> Seq(Nat)]
      /\ pc[t] = "publish" /\ h \in calls[t] /\ calls' = [calls EXCEPT ![t] = @ \ {h}]
      /\ delivered' = [delivered EXCEPT ![h] = Append(@, Len(emitted))]
      /\ UNCHANGED <<pc, emitted, interrupted>>
  BY DEF Inv, Typed, DeliveredOnce, HandlerEnds
<1>2. Len(emitted) \in Nat \ {0} /\ DOMAIN emitted = 1..Len(emitted)
  <2>1. emitted # <<>> /\ emitted \in Seq(ClosedTrace)
    BY <1>1 DEF Queued, Typed
  <2>2. QED
    BY <2>1
<1>3. \A u \in Tasks : u # t => calls[u] = {}
  BY <1>1 DEF Queued, Holds
<1> DEFINE k == Len(emitted)
           s == delivered[h]
           r == delivered'[h]
<1>4. /\ s \in Seq(Nat) /\ r = Append(s, k)
      /\ \A g \in Handlers : g # h => delivered'[g] = delivered[g]
      /\ delivered' \in [Handlers -> Seq(Nat)]
  BY <1>1, <1>2
<1>5. /\ \A i \in DOMAIN s : s[i] \in 1..k /\ s[i] < k
      /\ \A i, j \in DOMAIN s : i < j => s[i] < s[j]
  BY <1>1 DEF DeliveredOnce
<1> HIDE DEF k, s, r
<1>6. /\ DOMAIN s = 1..Len(s) /\ Len(s) \in Nat /\ DOMAIN r = 1..(Len(s) + 1)
      /\ r[Len(s) + 1] = k /\ \A i \in 1..Len(s) : r[i] = s[i]
      /\ Range(r) = Range(s) \cup {k}
  <2>1. k \in Nat
    BY <1>2 DEF k
  <2>2. QED
    BY <1>4, <2>1, AppendFacts
<1>7. \A i : i \in 1..(Len(s) + 1) <=> i \in 1..Len(s) \/ i = Len(s) + 1
  BY <1>6
<1>8. k \in 1..k
  BY <1>2 DEF k
<1>9. /\ \A i \in DOMAIN r : r[i] \in 1..k
      /\ \A i, j \in DOMAIN r : i < j => r[i] < r[j]
  <2>1. \A i \in DOMAIN r : r[i] \in 1..k
    BY <1>5, <1>6, <1>7, <1>8
  <2>2. ASSUME NEW i \in DOMAIN r, NEW j \in DOMAIN r, i < j PROVE r[i] < r[j]
    <3>1. i \in 1..Len(s) /\ r[i] = s[i]
      BY <1>6, <2>2
    <3>2. CASE j = Len(s) + 1
      BY <1>5, <1>6, <3>1, <3>2
    <3>3. CASE j \in 1..Len(s)
      BY <1>5, <1>6, <2>2, <3>1, <3>3
    <3>4. QED
      BY <1>6, <1>7, <3>2, <3>3
  <2>3. QED
    BY <2>1, <2>2
<1>10. \A u \in Tasks : \A g \in Handlers : g \in calls'[u] => g # h
  BY <1>1, <1>3
<1>11. \A u \in Tasks : \A g \in Handlers : g # h => (g \in calls'[u] <=> g \in calls[u])
  BY <1>1
<1>12. \A u \in Tasks : calls'[u] \subseteq Handlers
  BY <1>1
<1>13. \A g \in Handlers : \A i \in DOMAIN delivered'[g] : delivered'[g][i] \in 1..Len(emitted)
  BY <1>1, <1>4, <1>9 DEF DeliveredOnce, k, r
<1>14. \A g \in Handlers :
         \A i, j \in DOMAIN delivered'[g] : i < j => delivered'[g][i] < delivered'[g][j]
  BY <1>1, <1>4, <1>9 DEF DeliveredOnce, r
<1>15. \A u \in Tasks : \A g \in calls'[u] :
         \A i \in DOMAIN delivered'[g] : delivered'[g][i] < Len(emitted)
  BY <1>1, <1>4, <1>10, <1>11, <1>12 DEF DeliveredOnce
<1>16. ASSUME ~interrupted
       PROVE  \E x \in Nat : /\ x # 0 => pc'[Janitor] = "exit"
                             /\ \A g \in Handlers : Reached(g, x)'
  <2>1. PICK x \in Nat : /\ x # 0 => pc[Janitor] = "exit"
                         /\ \A g \in Handlers : Reached(g, x)
    BY <1>1, <1>16 DEF DeliveredOnce
  <2>2. ASSUME NEW g \in Handlers, NEW n \in DOMAIN emitted
        PROVE  \/ n \in Range(delivered'[g]) \/ n = x
               \/ n = Len(emitted) /\ \E u \in Tasks : g \in calls'[u]
    <3>1. \/ n \in Range(delivered[g]) \/ n = x
          \/ n = Len(emitted) /\ \E u \in Tasks : g \in calls[u]
      BY <2>1 DEF Reached
    <3>2. CASE g = h
      BY <1>6, <3>1, <3>2 DEF k, s, r
    <3>3. CASE g # h
      BY <1>4, <1>11, <3>1, <3>3
    <3>4. QED
      BY <3>2, <3>3
  <2>3. \A g \in Handlers : Reached(g, x)'
    BY <1>1, <2>2 DEF Reached
  <2>4. QED
    BY <1>1, <2>1, <2>3
<1>17. QED
  BY <1>1, <1>4, <1>13, <1>14, <1>15, <1>16 DEF DeliveredOnce

LEMMA DeliveredStep ==
  ASSUME Inv, Step
  PROVE  DeliveredOnce'
<1>1. /\ Typed /\ Queued /\ EndsInOrder /\ DeliveredOnce
      /\ calls \in [Tasks -> SUBSET Handlers] /\ pc \in [Tasks -> Labels]
  BY DEF Inv, Typed
<1>2. Janitor \in Tasks /\ Main \in Tasks /\ Consumers \subseteq Tasks
  BY DEF Tasks
<1>3. ASSUME UNCHANGED <<calls, emitted, delivered>>, interrupted' \in {interrupted, TRUE}
      PROVE  DeliveredOnce'
  <2>1. ASSUME ~interrupted'
        PROVE  \E x \in Nat : /\ x # 0 => pc'[Janitor] = "exit"
                              /\ \A h \in Handlers : Reached(h, x)'
    <3>1. PICK x \in Nat : /\ x # 0 => pc[Janitor] = "exit"
                           /\ \A h \in Handlers : Reached(h, x)
      BY <1>1, <1>3, <2>1 DEF DeliveredOnce
    <3>2. \A h \in Handlers : Reached(h, x)'
      BY <1>3, <3>1 DEF Reached
    <3>3. QED
      BY <3>1, <3>2, ExitStays
  <2>2. QED
    BY <1>1, <1>3, <2>1 DEF DeliveredOnce
\* A publish that is cancelled leaves its trace behind.
<1>4. ASSUME NEW t \in Tasks, NEW label, Cancelled(t, label), UNCHANGED <<emitted, delivered>>,
             ~interrupted' => t = Janitor /\ pc'[Janitor] = "exit" /\ ~interrupted
      PROVE  DeliveredOnce'
  <2>1. calls' = [calls EXCEPT ![t] = {}]
    BY <1>4 DEF Cancelled
  <2>2. /\ calls'[t] = {} /\ \A u \in Tasks : u # t => calls'[u] = calls[u]
        /\ \A u \in Tasks : calls'[u] \subseteq calls[u]
    BY <1>1, <2>1
  <2>3. \A u \in Tasks : \A h \in calls'[u] :
          \A i \in DOMAIN delivered[h] : delivered[h][i] < Len(emitted)
    BY <1>1, <2>2 DEF DeliveredOnce
  <2>4. ASSUME ~interrupted'
        PROVE  \E x \in Nat : /\ x # 0 => pc'[Janitor] = "exit"
                              /\ \A h \in Handlers : Reached(h, x)'
    <3>1. PICK x \in Nat : /\ x # 0 => pc[Janitor] = "exit"
                           /\ \A h \in Handlers : Reached(h, x)
      BY <1>1, <1>4, <2>4 DEF DeliveredOnce
    <3>2. CASE calls[t] = {}
      <4>1. calls' = calls
        BY <1>1, <2>1, <3>2
      <4>2. \A h \in Handlers : Reached(h, x)'
        BY <1>4, <3>1, <4>1 DEF Reached
      <4>3. QED
        BY <1>4, <2>4, <3>1, <4>2
    <3>3. CASE calls[t] # {}
      <4>1. pc[Janitor] = "publish" /\ t = Janitor
        BY <1>1, <1>4, <2>4, <3>3 DEF Queued
      <4>2. x = 0 /\ 0 \notin DOMAIN emitted /\ Len(emitted) \in Nat
        BY <1>1, <3>1, <4>1 DEF Typed
      <4>3. \A h \in Handlers : \A n \in DOMAIN emitted :
              n \in Range(delivered[h]) \/ n = Len(emitted)
        BY <3>1, <4>2 DEF Reached
      <4>4. \A h \in Handlers : Reached(h, Len(emitted))'
        BY <1>4, <4>3 DEF Reached
      <4>5. QED
        BY <1>4, <2>4, <4>2, <4>4
    <3>4. QED
      BY <3>2, <3>3
  <2>5. QED
    BY <1>1, <1>4, <2>3, <2>4 DEF DeliveredOnce
<1>5. ASSUME NEW c \in Consumers, ConsumerCancelled(c) PROVE DeliveredOnce'
  <2>1. /\ Cancelled(c, "idle") /\ UNCHANGED <<emitted, delivered, interrupted>> /\ interrupted
    BY <1>1, <1>5 DEF ConsumerCancelled, EndsInOrder
  <2>2. QED
    BY <1>2, <1>4, <2>1
<1>6. ASSUME JanitorCancelled PROVE DeliveredOnce'
  <2>1. /\ Cancelled(Janitor, "exit") /\ UNCHANGED <<emitted, delivered, interrupted>>
        /\ pc'[Janitor] = "exit"
    BY <1>1, <1>2, <1>6 DEF JanitorCancelled, Cancelled, Goto
  <2>2. QED
    BY <1>2, <1>4, <2>1
<1>7. ASSUME InterruptFlush PROVE DeliveredOnce'
  BY <1>2, <1>4, <1>7 DEF InterruptFlush
<1>8. ASSUME \/ \E c \in Consumers : AttachAndCap(c) \/ AttachAndEvict(c)
             \/ JanitorCloses
             \/ Flushes
      PROVE  DeliveredOnce'
  BY <1>8, EmitCases, DeliveredEmits
<1>9. ASSUME \E t \in Tasks : \E h \in Handlers : HandlerEnds(t, h) PROVE DeliveredOnce'
  BY <1>9, DeliveredHandler
<1>10. ASSUME NEW c \in Consumers, Arrive(c) \/ Attach(c) \/ ProcessReturns(c)
       PROVE  DeliveredOnce'
  BY <1>3, <1>10 DEF Arrive, Attach, ProcessReturns
<1>11. ASSUME JanitorWakes \/ JanitorRests \/ Interrupt \/ Stop \/ FlushEnds
       PROVE  DeliveredOnce'
  BY <1>3, <1>11 DEF JanitorWakes, JanitorRests, PassEnds, Interrupt, Stop, FlushEnds
<1>12. ASSUME UNCHANGED vars PROVE DeliveredOnce'
  BY <1>3, <1>12 DEF vars
<1>13. QED
  BY <1>5, <1>6, <1>7, <1>8, <1>9, <1>10, <1>11, <1>12, Zenon DEF Step

-------------------------------------------------------------------------------
(* The invariant holds. *)

LEMMA NothingYet ==
  /\ \A S : <<>> \in Seq(S)
  /\ DOMAIN <<>> = {} /\ Len(<<>>) = 0
  /\ Range(<<>>) = {} /\ IsInjective(<<>>)
  /\ \A S : <<>> \in [{} -> S]
BY DEF Range, IsInjective

LEMMA InitInv == Init => Inv
<1> SUFFICES ASSUME Init PROVE Inv
  OBVIOUS
<1>1. /\ Janitor \notin Consumers /\ Main \notin Consumers /\ Janitor # Main
      /\ Tasks = Consumers \cup {Janitor, Main}
      /\ NumRecords \in Nat /\ MaxOpen \in Nat \ {0}
  BY TasksAssumption, SessionizerAssumption DEF Tasks
<1>2. pc = [t \in Tasks |-> CASE t = Janitor -> "sleep"
                              [] t = Main    -> "running"
                              [] OTHER       -> "idle"]
  BY DEF Init
<1>3. /\ \A c \in Consumers : pc[c] = "idle"
      /\ pc[Janitor] = "sleep" /\ pc[Main] = "running"
      /\ \A t \in Tasks : pc[t] \in {"idle", "sleep", "running"}
      /\ DOMAIN pc = Tasks
  BY <1>1, <1>2
<1>4. pc \in [Tasks -> Labels]
  <2>1. \A t \in Tasks : pc[t] \in Labels
    BY <1>3 DEF Labels
  <2>2. QED
    BY <1>2, <2>1
<1>5. /\ log = <<>> /\ arg = [c \in Consumers |-> 0] /\ lockq = <<>> /\ order = <<>>
      /\ trace = <<>> /\ latest = NoTime /\ todo = <<>> /\ emitted = <<>>
      /\ calls = [t \in Tasks |-> {}] /\ delivered = [h \in Handlers |-> <<>>]
      /\ interrupted = FALSE
  BY DEF Init
<1>6. Typed
  <2>1. /\ log \in Seq(Inputs) /\ Len(log) <= NumRecords
        /\ emitted \in Seq(ClosedTrace) /\ latest \in Times
    BY <1>1, <1>5, NothingYet DEF Times
  <2>2. /\ arg \in [Consumers -> Nat]
        /\ calls \in [Tasks -> SUBSET Handlers] /\ interrupted \in BOOLEAN
    BY <1>5
  <2>3. \A c \in Consumers : arg[c] <= Len(log)
    <3>1. Len(log) = 0
      BY <1>5
    <3>2. \A c \in Consumers : arg[c] = 0
      BY <1>5
    <3>3. QED
      BY <3>1, <3>2
  <2>4. QED
    BY <1>3, <1>4, <2>1, <2>2, <2>3 DEF Typed
<1>7. Queued
  BY <1>3, <1>5, NothingYet DEF Queued
<1>8. EndsInOrder
  BY <1>3, <1>5 DEF EndsInOrder, Stopped
<1>9. Kept
  BY <1>1, <1>5, NothingYet DEF Kept, Dictionary, MemoryBounded
<1>10. Numbered
  BY <1>3, <1>5, NothingYet DEF Numbered
<1>11. PassIsCurrent
  BY <1>3, <1>5 DEF PassIsCurrent
<1>12. DeliveredOnce
  <2>1. \A h \in Handlers : delivered[h] = <<>>
    BY <1>5
  <2>2. delivered \in [Handlers -> Seq(Nat)]
    BY <1>5, NothingYet
  <2>3. \A t \in Tasks : calls[t] = {}
    BY <1>5
  <2>4. 0 \in Nat /\ \A h \in Handlers : Reached(h, 0)
    BY <1>5, NothingYet DEF Reached
  <2>5. \E x \in Nat : /\ x # 0 => pc[Janitor] = "exit"
                       /\ \A h \in Handlers : Reached(h, x)
    BY <2>4
  <2>6. QED
    BY <2>1, <2>2, <2>3, <2>5, NothingYet DEF DeliveredOnce
<1>13. QED
  BY <1>6, <1>7, <1>8, <1>9, <1>10, <1>11, <1>12 DEF Inv

LEMMA InvStep == Inv /\ [Next]_vars => Inv'
<1> SUFFICES ASSUME Inv, [Next]_vars PROVE Inv'
  OBVIOUS
<1>1. Step
  BY StepCases
<1>2. QED
  BY <1>1, TypedStep, QueuedStep, EndsStep, KeptStep, NumberedStep, PassStep, DeliveredStep
  DEF Inv

LEMMA InvAlways == Spec => []Inv
BY InitInv, InvStep, PTL DEF Spec

-------------------------------------------------------------------------------
(* What it says. *)

\* The fields of the sessionizer hold what they can hold, the dictionary and the
\* lock's line included.
THEOREM TypeOKAlways == Spec => []TypeOK
<1>1. Inv => TypeOK
  <2> SUFFICES ASSUME Inv PROVE TypeOK
    OBVIOUS
  <2>1. Typed /\ Queued /\ Kept /\ PassIsCurrent /\ DeliveredOnce
    BY DEF Inv
  <2>2. arg \in [Consumers -> 0..NumRecords]
    <3>1. \A c \in Consumers : arg[c] \in 0..NumRecords
      <4>1. Len(log) \in Nat
        BY <2>1 DEF Typed
      <4>2. QED
        BY <2>1, <4>1, SessionizerAssumption DEF Typed
    <3>2. QED
      BY <2>1, <3>1 DEF Typed
  <2>3. /\ IsInjective(order) /\ Range(order) = DOMAIN trace
        /\ \A b \in DOMAIN trace : b \in Blocks /\ trace[b] \in Trace
    BY <2>1, DictionaryFacts DEF Kept, Sound
  <2>4. \A i \in DOMAIN todo : todo[i].block \in DOMAIN trace /\ todo[i].reason \in Reasons
    BY <2>1, ReasonsListed, NothingYet DEF PassIsCurrent, DueList
  <2>5. \A i \in DOMAIN emitted : emitted[i].block \in Blocks /\ emitted[i].reason \in Reasons
    <3>1. \A e \in ClosedTrace : e.block \in Blocks /\ e.reason \in Reasons
      BY DEF ClosedTrace
    <3>2. emitted \in Seq(ClosedTrace)
      BY <2>1 DEF Typed
    <3>3. \A i \in DOMAIN emitted : emitted[i] \in ClosedTrace
      BY <3>2
    <3>4. QED
      BY <3>1, <3>3
  <2>6. \A h \in Handlers : delivered[h] \in Seq(1..Len(emitted))
    <3> SUFFICES ASSUME NEW h \in Handlers PROVE delivered[h] \in Seq(1..Len(emitted))
      OBVIOUS
    <3>1. delivered[h] \in Seq(Nat) /\ \A i \in DOMAIN delivered[h] : delivered[h][i] \in 1..Len(emitted)
      BY <2>1 DEF DeliveredOnce
    <3>2. PICK s, S : s = delivered[h] /\ S = 1..Len(emitted)
      OBVIOUS
    <3>3. s \in Seq(Nat) /\ \A i \in 1..Len(s) : s[i] \in S
      BY <3>1, <3>2
    <3>4. s \in Seq(S)
      BY <3>3
    <3>5. QED
      BY <3>2, <3>4
  <2>7. /\ log \in Seq(Inputs) /\ latest \in Times /\ calls \in [Tasks -> SUBSET Handlers]
        /\ \A c \in Consumers : pc[c] \in {"idle", "lock", "publish"}
        /\ pc[Janitor] \in {"sleep", "lock", "publish", "exit"}
        /\ pc[Main] \in {"running", "cancelling", "stopping", "publish", "stopped"}
    BY <2>1 DEF Typed
  <2>8. lockq \in Seq(Tasks) /\ \A t \in Tasks : pc[t] = "publish" => Holds(t)
    BY <2>1 DEF Queued
  <2>9. QED
    BY <2>2, <2>3, <2>4, <2>5, <2>6, <2>7, <2>8 DEF TypeOK
<1>2. QED
  BY InvAlways, <1>1, PTL

\* At every await of process(), the janitor and stop(), _open is within its limits
\* and in least-recently-used order.
THEOREM CapacityKeptAlways == Spec => []CapacityKept
<1>1. Inv => CapacityKept
  BY DEF Inv, Kept, Dictionary, CapacityKept, LeastRecentFirst
<1>2. QED
  BY InvAlways, <1>1, PTL

\* Every trace, open in _open or published, has its block's records, their events in
\* order, and their span of log time.
THEOREM TracesTruthfulAlways == Spec => []TracesTruthful
<1>1. Inv => TracesTruthful
  BY DictionaryFacts DEF Inv, Kept, Sound, Fits, TracesTruthful
<1>2. QED
  BY InvAlways, <1>1, PTL

\* The handlers of BlockTraceClosed are called with every trace in the order in which
\* the traces were closed, once; and stop() leaves no trace open, and loses one
\* delivery at most, the one at which it cancelled the janitor.
THEOREM DeliveryCompleteAlways == Spec => []DeliveryComplete
<1>1. Inv => DeliveryComplete
  <2> SUFFICES ASSUME Inv PROVE DeliveryComplete
    OBVIOUS
  <2>1. Typed /\ Queued /\ EndsInOrder /\ DeliveredOnce
    BY DEF Inv
  <2>2. ASSUME Stopped, ~interrupted, NEW h \in Handlers
        PROVE  Cardinality(Undelivered(h)) <= 1
    <3>1. \A t \in Tasks : calls[t] = {}
      BY <2>1, <2>2 DEF Stopped, EndsInOrder, Queued, Tasks
    <3>2. PICK x \in Nat : Reached(h, x)
      BY <2>1, <2>2 DEF DeliveredOnce
    <3>3. Undelivered(h) \subseteq {x}
      BY <3>1, <3>2 DEF Undelivered, Reached
    <3>4. IsFiniteSet({x}) /\ Cardinality({x}) = 1
      BY FS_Singleton
    <3>5. Cardinality(Undelivered(h)) <= Cardinality({x})
      BY <3>3, <3>4, FS_Subset
    <3>6. QED
      BY <3>4, <3>5
  <2>3. QED
    BY <2>1, <2>2 DEF DeliveryComplete, EndsInOrder, DeliveredOnce
<1>2. QED
  BY InvAlways, <1>1, PTL

LEMMA LastOf ==
  ASSUME Typed, NEW b, NEW tr, Sound(b, tr), NEW reason \in Reasons,
         emitted' = Append(emitted, Closed(b, tr, reason))
  PROVE  Last(emitted') = Closed(b, tr, reason)
<1>1. PICK e : e = Closed(b, tr, reason)
  OBVIOUS
<1>2. e \in ClosedTrace /\ emitted \in Seq(ClosedTrace) /\ emitted' = Append(emitted, e)
  BY <1>1, ClosedFacts DEF Typed
<1>3. Len(emitted') = Len(emitted) + 1 /\ emitted'[Len(emitted) + 1] = e
  BY <1>2
<1>4. QED
  BY <1>1, <1>3 DEF Last

\* _emit is called with a reason that is true of the trace it is called with, at the
\* step that closes it: by the hard caps of process(), by a janitor that may have
\* looked long before, or by stop().
THEOREM ReasonsTrueAlways == Spec => ReasonsTrue
<1>1. ASSUME Inv, [Next]_vars, emitted' # emitted PROVE JustClosed(Last(emitted'))
  <2>1. Typed /\ Numbered /\ Kept /\ PassIsCurrent /\ Step
    BY <1>1, StepCases DEF Inv
  <2>2. ASSUME NEW b, NEW tr, Sound(b, tr), NEW reason \in Reasons,
               emitted' = Append(emitted, Closed(b, tr, reason)),
               \/ /\ reason = "evicted"
                  /\ Len(tr.events) = MaxPerTrace \/ Len(order') = MaxOpen
               \/ reason = "terminal" /\ tr.terminal
               \/ reason = "timeout" /\ ~tr.terminal /\ tr.last < latest - IdleWindow
               \/ reason = "shutdown" /\ pc[Main] \in {"stopping", "publish"}
        PROVE  JustClosed(Last(emitted'))
    <3>1. Last(emitted') = Closed(b, tr, reason)
      BY <2>1, <2>2, LastOf
    <3>2. PICK e : e = Closed(b, tr, reason)
      OBVIOUS
    <3>3. /\ e.events = tr.events /\ e.last = tr.last /\ e.reason = reason
          /\ tr.terminal <=> HasTerminal(e.events)
      BY <2>2, <3>2, ClosedFacts
    <3>4. JustClosed(e)
      BY <2>2, <3>3 DEF JustClosed, HasTerminal
    <3>5. QED
      BY <3>1, <3>2, <3>4
  <2>3. ASSUME NEW c \in Consumers, AttachAndCap(c) PROVE JustClosed(Last(emitted'))
    <3>1. emitted' = Append(emitted, Closed(log[arg[c]].block, Grown(c), "evicted"))
      BY <2>3 DEF AttachAndCap, Emit
    <3>2. Sound(log[arg[c]].block, Grown(c)) /\ Len(Grown(c).events) = MaxPerTrace
      BY <2>1, <2>3, CapEffect
    <3>3. QED
      BY <2>2, <3>1, <3>2, ReasonsListed
  <2>4. ASSUME NEW c \in Consumers, AttachAndEvict(c) PROVE JustClosed(Last(emitted'))
    <3> DEFINE f == Put(log[arg[c]].block, Grown(c))
               v == Head(Touch(log[arg[c]].block))
    <3>1. emitted' = Append(emitted, Closed(v, f[v], "evicted"))
      BY <2>4 DEF AttachAndEvict, Emit
    <3>2. Sound(v, f[v]) /\ Len(order') = MaxOpen
      BY <2>1, <2>4, EvictEffect
    <3> HIDE DEF v, f
    <3>3. QED
      BY <2>2, <3>1, <3>2, ReasonsListed
  <2>5. ASSUME JanitorCloses PROVE JustClosed(Last(emitted'))
    <3>1. PICK due : PassAt(due) /\ due # <<>> /\ CloseNext(due)
      BY <2>5 DEF JanitorCloses
    <3>2. DueList(due)
      BY <2>1, <3>1, JanitorDue
    <3> DEFINE b == Head(due).block
               reason == Head(due).reason
    <3>3. emitted' = Append(emitted, Closed(b, trace[b], reason))
      BY <3>1 DEF CloseNext, Emit
    <3>4. Sound(b, trace[b])
      BY <2>1, <3>1, <3>2, JanitorEffect
    <3>5. Due(b) /\ reason = ReasonToClose(b)
      BY <3>1, <3>2, HeadIsDue
    <3> HIDE DEF b, reason
    <3>6. \/ reason = "terminal" /\ trace[b].terminal
          \/ reason = "timeout" /\ ~trace[b].terminal /\ trace[b].last < latest - IdleWindow
      BY <3>5 DEF Due, Aged, ReasonToClose
    <3>7. reason \in Reasons
      BY <3>5, ReasonsListed
    <3>8. QED
      BY <2>2, <3>3, <3>4, <3>6, <3>7
  <2>6. ASSUME Flushes PROVE JustClosed(Last(emitted'))
    <3>1. /\ emitted' = Append(emitted, Closed(Head(order), trace[Head(order)], "shutdown"))
          /\ pc[Main] \in {"stopping", "publish"}
      BY <2>6 DEF Flushes, Emit, FlushStarts, Published
    <3>2. Sound(Head(order), trace[Head(order)])
      BY <2>1, <2>6, FlushEffect
    <3>3. QED
      BY <2>2, <3>1, <3>2, ReasonsListed
  <2>7. QED
    BY <1>1, <2>1, <2>3, <2>4, <2>5, <2>6
    DEF Step, Arrive, Attach, ProcessReturns, ConsumerCancelled, HandlerEnds, JanitorWakes,
        JanitorRests, PassEnds, JanitorCancelled, Interrupt, InterruptFlush, Stop, FlushEnds,
        vars
<1>2. Inv /\ [Next]_vars => [emitted' # emitted => JustClosed(Last(emitted'))]_vars
  BY <1>1
<1>3. QED
  BY InvAlways, <1>2, PTL DEF Spec, ReasonsTrue

LEMMA RestsOnly ==
  ASSUME Inv, Step, pc[Janitor] # "sleep", pc'[Janitor] = "sleep"
  PROVE  JanitorRests
<1>1. /\ pc \in [Tasks -> Labels]
      /\ Janitor \in Tasks /\ Main \in Tasks /\ Consumers \subseteq Tasks
      /\ Janitor \notin Consumers /\ Janitor # Main
  BY TasksAssumption DEF Inv, Typed, Tasks
<1>2. \A t \in Tasks : \A label : t # Janitor => ~Goto(t, label)
  BY <1>1 DEF Goto
<1>3. \A label : label # "sleep" => ~Goto(Janitor, label)
  BY <1>1 DEF Goto
<1>4. ASSUME NEW c \in Consumers
      PROVE  ~Arrive(c) /\ ~Attaches(c) /\ ~ProcessReturns(c) /\ ~ConsumerCancelled(c)
  BY <1>1, <1>2 DEF Arrive, Attaches, Attach, AttachAndCap, AttachAndEvict, Emit,
                    ProcessReturns, ConsumerCancelled, Cancelled
<1>5. ~Interrupt /\ ~InterruptFlush /\ ~Stop /\ ~Flushes /\ ~FlushEnds
  BY <1>1, <1>2 DEF Interrupt, InterruptFlush, Cancelled, Stop, Flushes, FlushEnds, Emit
<1>6. ~JanitorWakes /\ ~JanitorCloses /\ ~JanitorCancelled
  BY <1>3 DEF JanitorWakes, JanitorCloses, CloseNext, Emit, JanitorCancelled, Cancelled
<1>7. ~ \E t \in Tasks : \E h \in Handlers : HandlerEnds(t, h)
  BY DEF HandlerEnds
<1>8. ~ UNCHANGED vars
  BY DEF vars
<1>9. QED
  BY <1>4, <1>5, <1>6, <1>7, <1>8, Zenon DEF Step, Attaches

\* A pass of the janitor that ends has closed every trace that is due by then,
\* with all the awaits in it.
THEOREM PassCompleteAlways == Spec => PassComplete
<1> DEFINE A == /\ pc[Janitor] \in {"lock", "publish"}
                /\ pc'[Janitor] = "sleep"
                /\ latest' # NoTime
           B == \A b \in DOMAIN trace' :
                  ~trace'[b].terminal /\ trace'[b].last >= latest' - IdleWindow
<1>1. ASSUME Inv, [Next]_vars, A PROVE B
  <2>1. Typed /\ Kept /\ PassIsCurrent /\ Step
    BY <1>1, StepCases DEF Inv
  <2>2. JanitorRests
    BY <1>1, <2>1, RestsOnly
  <2>3. UNCHANGED <<trace, latest>> /\ latest # NoTime
    BY <1>1, <2>2 DEF JanitorRests, PassEnds
  <2>4. DueList(ToClose)
    BY <2>1, ToCloseIsDue DEF Kept
  <2>5. DueList(<<>>)
    BY <2>1, <2>2, <2>3, <2>4 DEF JanitorRests, Published, PassIsCurrent
  <2>6. ASSUME NEW b \in DOMAIN trace
        PROVE  ~trace[b].terminal /\ trace[b].last >= latest - IdleWindow
    <3>1. ~Due(b)
      BY <2>5, NothingYet DEF DueList
    <3>2. trace[b].last \in Nat
      BY <2>1, DictionaryFacts DEF Kept, Sound, Trace
    <3>3. latest \in Nat /\ IdleWindow \in Nat
      BY <2>1, <2>3, SessionizerAssumption DEF Typed, Times
    <3>4. QED
      BY <3>1, <3>2, <3>3 DEF Due, Aged
  <2>7. QED
    BY <2>3, <2>6
<1>2. Inv /\ [Next]_vars => [A => B]_vars
  BY <1>1
<1>3. Spec => [][A => B]_vars
  BY InvAlways, <1>2, PTL DEF Spec
<1>4. QED
  BY <1>3 DEF PassComplete

-------------------------------------------------------------------------------
(* The traces it promises. *)

LEMMA MaxIs ==
  ASSUME NEW S \in SUBSET Nat, NEW k \in S, \A n \in S : n <= k
  PROVE  Max(S) = k
<1>1. \A x \in S : (\A y \in S : x >= y) <=> x = k
  OBVIOUS
<1>2. Max(S) = CHOOSE x \in S : \A y \in S : x >= y
  BY DEF Max
<1>3. (CHOOSE x \in S : \A y \in S : x >= y) \in S
      /\ \A y \in S : (CHOOSE x \in S : \A z \in S : x >= z) >= y
  BY <1>1, Zenon
<1>4. QED
  BY <1>1, <1>2, <1>3

LEMMA HasMax ==
  ASSUME NEW S \in SUBSET Nat, S # {}, NEW N \in Nat, \A n \in S : n <= N
  PROVE  Max(S) \in S /\ \A n \in S : n <= Max(S)
<1> DEFINE U == {m \in Nat : \A n \in S : n <= m}
<1>1. U \in SUBSET Nat /\ N \in U
  OBVIOUS
<1>2. PICK u \in U : \A m \in U : u <= m
  <2> HIDE DEF U
  <2>1. QED
    BY <1>1, Least
<1>3. u \in S
  <2> SUFFICES ASSUME u \notin S PROVE FALSE
    OBVIOUS
  <2>1. u \in Nat /\ \A n \in S : n \in Nat /\ n <= u /\ n # u
    BY <1>2
  <2>2. PICK n \in S : TRUE
    OBVIOUS
  <2>3. u - 1 \in Nat
    BY <2>1, <2>2
  <2>4. \A m \in S : m <= u - 1
    BY <2>1
  <2>5. u - 1 \in U
    BY <2>3, <2>4
  <2>6. QED
    BY <1>2, <2>1, <2>5
<1>4. Max(S) = u
  BY <1>2, <1>3, MaxIs
<1>5. QED
  BY <1>2, <1>3, <1>4

LEMMA LastAttachedBounds ==
  ASSUME Inv
  PROVE  /\ LastAttached \in Nat
         /\ LastAttached # 0 => LastAttached \in Attached
         /\ \A n \in Attached : n \in Nat /\ n <= LastAttached
<1>1. /\ \A n \in Attached : n \in Nat /\ n <= Len(log)
      /\ Len(log) \in Nat
  BY AttachedBound DEF Inv, Typed
<1>2. CASE Attached = {}
  BY <1>2 DEF LastAttached
<1>3. CASE Attached # {}
  <2>1. Max(Attached) \in Attached /\ \A n \in Attached : n <= Max(Attached)
    BY <1>1, <1>3, HasMax
  <2>2. QED
    BY <1>1, <1>3, <2>1 DEF LastAttached
<1>4. QED
  BY <1>2, <1>3

LEMMA LastAttachedGrows ==
  ASSUME Inv, NEW c \in Consumers, Attaches(c)
  PROVE  LastAttached' = arg[c] /\ LastAttached' \in Nat /\ LastAttached' > LastAttached
<1>1. pc[c] = "lock"
  BY DEF Attaches, Attach, AttachAndCap, AttachAndEvict
<1>2. arg[c] \in Nat /\ arg[c] >= 1 /\ \A n \in Attached : n < arg[c]
  BY <1>1 DEF Inv, Typed, Numbered
<1>3. Attached' = Attached \cup {arg[c]} /\ \A n \in Attached : n \in Nat
  BY AttachesOne, LastAttachedBounds
<1>4. PICK S \in SUBSET Nat, k \in Nat :
        S = Attached' /\ k = arg[c] /\ \A n \in S : n \in Nat /\ n <= k
  BY <1>2, <1>3
<1>5. Max(S) = k
  BY <1>3, <1>4, MaxIs
<1>6. LastAttached' = arg[c]
  BY <1>3, <1>4, <1>5 DEF LastAttached
<1>7. LastAttached < arg[c]
  BY <1>2, LastAttachedBounds
<1>8. QED
  BY <1>2, <1>6, <1>7, LastAttachedBounds

CurrentOf(f) == [b \in Blocks |-> IF b \in DOMAIN f THEN f[b].ids ELSE <<>>]

LEMMA CurrentIs == Current = CurrentOf(trace) /\ Current' = CurrentOf(trace')
BY DEF Current, CurrentOf, IsOpen

LEMMA CurrentPut ==
  ASSUME NEW b \in Blocks, NEW g
  PROVE  CurrentOf(Put(b, g)) = [CurrentOf(trace) EXCEPT ![b] = g.ids]
<1>1. PICK f : f = Put(b, g)
  OBVIOUS
<1>2. /\ DOMAIN f = DOMAIN trace \cup {b}
      /\ \A x \in DOMAIN f : f[x] = IF x = b THEN g ELSE trace[x]
  BY <1>1 DEF Put
<1>3. CurrentOf(f) = [CurrentOf(trace) EXCEPT ![b] = g.ids]
  BY <1>2 DEF CurrentOf
<1>4. QED
  BY <1>1, <1>3

LEMMA CurrentWithout ==
  ASSUME NEW f, NEW v \in Blocks
  PROVE  CurrentOf(Without(f, v)) = [CurrentOf(f) EXCEPT ![v] = <<>>]
<1>1. PICK g : g = Without(f, v)
  OBVIOUS
<1>2. DOMAIN g = DOMAIN f \ {v} /\ \A x \in DOMAIN g : g[x] = f[x]
  BY <1>1 DEF Without
<1>3. CurrentOf(g) = [CurrentOf(f) EXCEPT ![v] = <<>>]
  BY <1>2 DEF CurrentOf
<1>4. QED
  BY <1>1, <1>3

LEMMA ClosedTracesGrow ==
  ASSUME Typed, NEW b, NEW tr, Sound(b, tr), NEW reason \in Reasons,
         emitted' = Append(emitted, Closed(b, tr, reason))
  PROVE  ClosedTraces' = Append(ClosedTraces, [block |-> b, ids |-> tr.ids])
<1>1. PICK e : e = Closed(b, tr, reason)
  OBVIOUS
<1>2. e \in ClosedTrace /\ e.block = b /\ e.ids = tr.ids
  BY <1>1, ClosedFacts
<1>3. emitted \in Seq(ClosedTrace) /\ emitted' = Append(emitted, e)
  BY <1>1 DEF Typed
<1> DEFINE n == Len(emitted)
           D == [block : Blocks, ids : Seq(Ids)]
           last == [block |-> b, ids |-> tr.ids]
<1>4. /\ n \in Nat /\ DOMAIN emitted = 1..n /\ DOMAIN emitted' = 1..(n + 1)
      /\ emitted'[n + 1] = e /\ \A i \in 1..n : emitted'[i] = emitted[i]
      /\ \A i \in 1..n : emitted[i] \in ClosedTrace
  BY <1>2, <1>3
<1>5. last \in D /\ \A x \in ClosedTrace : [block |-> x.block, ids |-> x.ids] \in D
  BY <1>2 DEF ClosedTrace
<1> DEFINE s == ClosedTraces
           r == ClosedTraces'
<1>6. /\ s = [i \in 1..n |-> [block |-> emitted[i].block, ids |-> emitted[i].ids]]
      /\ r = [i \in 1..(n + 1) |-> [block |-> emitted'[i].block, ids |-> emitted'[i].ids]]
  BY <1>4 DEF ClosedTraces
<1> HIDE DEF n, D, last, s, r
<1>7. s \in Seq(D) /\ Len(s) = n
  <2>1. s \in [1..n -> D]
    BY <1>4, <1>5, <1>6
  <2>2. QED
    BY <1>4, <2>1
<1>8. PICK q : q \in Seq(D) /\ q = Append(s, last)
  <2>1. Append(s, last) \in Seq(D)
    BY <1>5, <1>7, AppendFacts
  <2>2. QED
    BY <2>1
<1>9. /\ DOMAIN q = 1..(n + 1) /\ q[n + 1] = last
      /\ \A i \in 1..n : q[i] = s[i]
  BY <1>4, <1>5, <1>7, <1>8, AppendFacts
<1>10. \A i \in 1..(n + 1) : r[i] = q[i]
  <2>1. \A i \in 1..(n + 1) : i \in 1..n \/ i = n + 1
    BY <1>4
  <2>2. r[n + 1] = last
    BY <1>2, <1>4, <1>6 DEF last
  <2>3. \A i \in 1..n : r[i] = s[i]
    BY <1>4, <1>6
  <2>4. QED
    BY <1>9, <2>1, <2>2, <2>3
<1>11. r \in Seq(D) /\ Len(r) = Len(q) /\ Len(q) = n + 1
  <2>1. Len(q) = n + 1
    BY <1>4, <1>8, <1>9
  <2>2. \A i \in 1..(n + 1) : r[i] \in D
    BY <1>8, <1>10, <2>1
  <2>3. r \in [1..(n + 1) -> D] /\ n + 1 \in Nat
    BY <1>4, <1>6, <2>2
  <2>4. QED
    BY <2>1, <2>3
<1>12. r = q
  BY <1>8, <1>10, <1>11, SeqEqual
<1>13. QED
  BY <1>8, <1>12 DEF r, s, last

\* A record attached, and its trace closed or not.
LEMMA AttachingRefines ==
  ASSUME Inv, NEW c \in Consumers, Attaches(c)
  PROVE  Traces!Attach(log[arg[c]].block)
<1> DEFINE b == log[arg[c]].block
           g == Grown(c)
           f == Put(b, g)
           cur == [Current EXCEPT ![b] = Append(@, LastAttached')]
<1>1. pc[c] = "lock"
  BY DEF Attaches, Attach, AttachAndCap, AttachAndEvict
<1>2. Waits(c) /\ Typed /\ Numbered /\ Kept
  BY <1>1, WaitsForLock DEF Inv
<1>3. /\ b \in Blocks /\ g.ids = Append(Before(c).ids, arg[c])
      /\ Before(c).ids = IF IsOpen(b) THEN trace[b].ids ELSE <<>>
  BY <1>2, GrownFacts DEF Kept, Joined
<1>4. LastAttached' = arg[c] /\ LastAttached' \in Nat /\ LastAttached' > LastAttached
  BY LastAttachedGrows
<1>5. Current[b] = Before(c).ids
  BY <1>3 DEF Current
<1>6. cur = CurrentOf(f)
  <2>1. cur = [Current EXCEPT ![b] = g.ids]
    BY <1>3, <1>4, <1>5 DEF Current
  <2>2. QED
    BY <1>3, <2>1, CurrentIs, CurrentPut
<1> DEFINE Maybe == \/ Current' = cur /\ UNCHANGED ClosedTraces
                    \/ \E v \in Blocks :
                         /\ cur[v] # <<>>
                         /\ Current' = [cur EXCEPT ![v] = <<>>]
                         /\ ClosedTraces' = Append(ClosedTraces, [block |-> v, ids |-> cur[v]])
<1>7. Maybe => Traces!Attach(b)
  BY <1>4 DEF Traces!Attach, Traces!MaybeClose
<1>8. CASE Attach(c)
  <2>1. trace' = f /\ UNCHANGED emitted
    BY <1>8 DEF Attach
  <2>2. Current' = cur /\ UNCHANGED ClosedTraces
    BY <1>6, <2>1, CurrentIs DEF ClosedTraces
  <2>3. QED
    BY <1>7, <2>2
<1>9. ASSUME NEW v, NEW tr, Sound(v, tr), cur[v] = tr.ids, Current' = [cur EXCEPT ![v] = <<>>],
             emitted' = Append(emitted, Closed(v, tr, "evicted"))
      PROVE  Traces!Attach(b)
  <2>1. v \in Blocks /\ cur[v] # <<>>
    BY <1>9 DEF Sound, Fits, Truthful
  <2>2. ClosedTraces' = Append(ClosedTraces, [block |-> v, ids |-> tr.ids])
    BY <1>2, <1>9, ClosedTracesGrow, ReasonsListed
  <2> HIDE DEF cur
  <2>3. Maybe
    BY <1>9, <2>1, <2>2
  <2>4. QED
    BY <1>7, <2>3
<1>10. CASE AttachAndCap(c)
  <2>1. trace' = Without(trace, b) /\ emitted' = Append(emitted, Closed(b, g, "evicted"))
    BY <1>10 DEF AttachAndCap, Emit
  <2>2. Sound(b, g)
    BY <1>2, <1>10, CapEffect
  <2>3. cur[b] = g.ids
    BY <1>3, <1>4, <1>5 DEF Current
  <2>4. Current' = [Current EXCEPT ![b] = <<>>]
    BY <1>3, <2>1, CurrentIs, CurrentWithout
  <2>5. [cur EXCEPT ![b] = <<>>] = [Current EXCEPT ![b] = <<>>]
    BY DEF Current
  <2> HIDE DEF cur, b, g
  <2>6. QED
    BY <1>9, <2>1, <2>2, <2>3, <2>4, <2>5 DEF b
<1>11. CASE AttachAndEvict(c)
  <2> DEFINE v == Head(Touch(b))
  <2>1. trace' = Without(f, v) /\ emitted' = Append(emitted, Closed(v, f[v], "evicted"))
    BY <1>11 DEF AttachAndEvict, Emit
  <2>2. Sound(v, f[v]) /\ v \in DOMAIN f
    BY <1>2, <1>11, EvictEffect
  <2> HIDE DEF v, f, b, cur
  <2>3. v \in Blocks
    BY <2>2 DEF Sound
  <2>4. Current' = [cur EXCEPT ![v] = <<>>]
    BY <1>6, <2>1, <2>3, CurrentIs, CurrentWithout
  <2>5. cur[v] = f[v].ids
    BY <1>6, <2>2, <2>3 DEF CurrentOf
  <2>6. QED
    BY <1>9, <2>1, <2>2, <2>4, <2>5 DEF b
<1>12. QED
  BY <1>8, <1>10, <1>11 DEF Attaches

LEMMA ClosingRefines ==
  ASSUME Inv, JanitorCloses \/ Flushes
  PROVE  Traces!Close
<1>1. PICK b \in DOMAIN trace, reason \in Reasons :
        /\ Sound(b, trace[b]) /\ trace' = Without(trace, b)
        /\ emitted' = Append(emitted, Closed(b, trace[b], reason))
  BY ClosesOne
<1>2. UNCHANGED LastAttached
  BY ClosingAttachesNone DEF LastAttached
<1>3. b \in Blocks /\ Current[b] = trace[b].ids /\ Current[b] # <<>>
  BY <1>1 DEF Sound, Fits, Truthful, Current, IsOpen
<1>4. Current' = [Current EXCEPT ![b] = <<>>]
  BY <1>1, <1>3, CurrentIs, CurrentWithout
<1>5. ClosedTraces' = Append(ClosedTraces, [block |-> b, ids |-> Current[b]])
  BY <1>1, <1>3, ClosedTracesGrow DEF Inv
<1>6. QED
  BY <1>2, <1>3, <1>4, <1>5 DEF Traces!Close, Traces!MaybeClose

\* The sessionizer implements BlockTraces: whatever consumers, the janitor and stop()
\* do to _open, the traces of a block are its records in the order of their process()
\* calls, each record in one trace.
THEOREM ImplementsTracesAlways == Spec => ImplementsTraces
<1>1. Init => Traces!TracesInit
  <2> SUFFICES ASSUME Init PROVE Traces!TracesInit
    OBVIOUS
  <2>1. trace = <<>> /\ emitted = <<>>
    BY DEF Init
  <2>2. Attached = {}
    BY <2>1, NothingYet DEF Attached, OpenIds, ClosedIds
  <2>3. Current = [b \in Blocks |-> <<>>]
    BY <2>1, NothingYet DEF Current, IsOpen
  <2>4. ClosedTraces = <<>>
    BY <2>1, NothingYet DEF ClosedTraces
  <2>5. QED
    BY <2>2, <2>3, <2>4 DEF Traces!TracesInit, LastAttached
<1>2. Inv /\ [Next]_vars => [Traces!TracesNext]_(Traces!traceVars)
  <2> SUFFICES ASSUME Inv, Step PROVE [Traces!TracesNext]_(Traces!traceVars)
    BY StepCases
  <2>1. ASSUME NEW c \in Consumers, Attaches(c) PROVE Traces!TracesNext
    <3>1. log[arg[c]].block \in Blocks
      <4>1. pc[c] = "lock"
        BY <2>1 DEF Attaches, Attach, AttachAndCap, AttachAndEvict
      <4>2. QED
        BY <4>1, WaitsForLock, GrownFacts DEF Inv, Kept
    <3>2. QED
      BY <2>1, <3>1, AttachingRefines DEF Traces!TracesNext
  <2>2. ASSUME JanitorCloses \/ Flushes PROVE Traces!TracesNext
    BY <2>2, ClosingRefines DEF Traces!TracesNext
  <2>3. ASSUME UNCHANGED <<trace, emitted>> PROVE UNCHANGED Traces!traceVars
    <3>1. Attached' = Attached
      BY <2>3, AttachedSame
    <3>2. QED
      BY <2>3, <3>1 DEF Traces!traceVars, LastAttached, Current, IsOpen, ClosedTraces
  <2>4. QED
    BY <2>1, <2>2, <2>3
    DEF Step, Attaches, Arrive, ProcessReturns, ConsumerCancelled, HandlerEnds,
        JanitorWakes, JanitorRests, PassEnds, JanitorCancelled, Interrupt, InterruptFlush,
        Stop, FlushEnds, vars
<1>3. QED
  BY InvAlways, <1>1, <1>2, PTL DEF Spec, ImplementsTraces, Traces!TracesSpec

-------------------------------------------------------------------------------
(* The records of a block, and whether all are there. *)

Increasing(ids) == \A i, j \in DOMAIN ids : i < j => ids[i] < ids[j]
Precedes(ids, later) == \A m \in Range(ids), n \in Range(later) : m < n

\* The traces of a block, the closed ones cl and then the open one of cur, are of
\* ever later records, up to record a.
InNumberOrder(a, cur, cl) ==
  /\ a \in Nat
  /\ cur \in [Blocks -> Seq(Nat)]
  /\ cl \in Seq([block : Blocks, ids : Seq(Nat)])
  /\ \A b \in Blocks : Increasing(cur[b]) /\ \A n \in Range(cur[b]) : n <= a
  /\ \A i \in DOMAIN cl :
       /\ Increasing(cl[i].ids)
       /\ \A n \in Range(cl[i].ids) : n <= a
       /\ Precedes(cl[i].ids, cur[cl[i].block])
  /\ \A i, j \in DOMAIN cl :
       i < j /\ cl[i].block = cl[j].block => Precedes(cl[i].ids, cl[j].ids)

LEMMA OrderAttaches ==
  ASSUME NEW a, NEW cur, NEW cl, InNumberOrder(a, cur, cl),
         NEW n \in Nat, n > a, NEW b \in Blocks
  PROVE  InNumberOrder(n, [cur EXCEPT ![b] = Append(@, n)], cl)
<1>1. /\ a \in Nat /\ cur \in [Blocks -> Seq(Nat)]
      /\ cl \in Seq([block : Blocks, ids : Seq(Nat)])
  BY DEF InNumberOrder
<1>2. PICK old \in Seq(Nat) : old = cur[b]
  BY <1>1
<1>3. PICK new \in Seq(Nat) : new = Append(old, n)
  <2>1. Append(old, n) \in Seq(Nat)
    BY AppendFacts
  <2>2. QED
    BY <2>1
<1>4. /\ Len(old) \in Nat /\ DOMAIN old = 1..Len(old) /\ DOMAIN new = 1..(Len(old) + 1)
      /\ new[Len(old) + 1] = n /\ \A i \in 1..Len(old) : new[i] = old[i]
      /\ Range(new) = Range(old) \cup {n}
  BY <1>3, AppendFacts
<1>5. \A x \in Blocks : \A m \in Range(cur[x]) : m \in Nat /\ m <= a
  BY <1>1 DEF InNumberOrder, Range
<1>6. Increasing(new)
  <2>a. \A i \in DOMAIN old : old[i] \in Range(cur[b])
    BY <1>2 DEF Range
  <2>1. \A i \in DOMAIN old : old[i] \in Nat /\ old[i] < n
    BY <1>1, <1>5, <2>a
  <2>2. ASSUME NEW i \in DOMAIN new, NEW j \in DOMAIN new, i < j PROVE new[i] < new[j]
    <3>1. i \in 1..Len(old)
      BY <1>4, <2>2
    <3>2. CASE j = Len(old) + 1
      BY <1>4, <2>1, <3>1, <3>2
    <3>3. CASE j \in 1..Len(old)
      BY <1>2, <1>4, <2>2, <3>1, <3>3 DEF InNumberOrder, Increasing
    <3>4. QED
      BY <1>4, <3>2, <3>3
  <2>3. QED
    BY <2>2 DEF Increasing
<1>7. PICK then : then = [cur EXCEPT ![b] = Append(@, n)]
  OBVIOUS
<1>8. /\ then \in [Blocks -> Seq(Nat)] /\ then[b] = new
      /\ \A x \in Blocks \ {b} : then[x] = cur[x]
  BY <1>1, <1>2, <1>3, <1>7
<1>9. \A m \in Nat : m <= a => m <= n /\ m < n
  BY <1>1
<1>10. ASSUME NEW x \in Blocks PROVE Increasing(then[x]) /\ \A m \in Range(then[x]) : m <= n
  <2>1. \A m \in Range(cur[x]) \cup Range(old) : m <= n
    BY <1>2, <1>5, <1>9
  <2>2. CASE x = b
    BY <1>4, <1>6, <1>8, <2>1, <2>2
  <2>3. CASE x # b
    BY <1>8, <2>1, <2>3 DEF InNumberOrder
  <2>4. QED
    BY <2>2, <2>3
<1>11. ASSUME NEW i \in DOMAIN cl
       PROVE  /\ Increasing(cl[i].ids)
              /\ \A m \in Range(cl[i].ids) : m <= n
              /\ Precedes(cl[i].ids, then[cl[i].block])
  <2>a. cl[i] \in [block : Blocks, ids : Seq(Nat)]
    <3> DEFINE D == [block : Blocks, ids : Seq(Nat)]
    <3>1. cl \in Seq(D)
      BY <1>1
    <3> HIDE DEF D
    <3>2. cl[i] \in D
      BY <3>1
    <3>3. QED
      BY <3>2 DEF D
  <2>b. cl[i].block \in Blocks /\ cl[i].ids \in Seq(Nat)
    BY <2>a
  <2>1. cl[i].block \in Blocks /\ \A m \in Range(cl[i].ids) : m \in Nat
    BY <2>b DEF Range
  <2>2. \A m \in Range(cl[i].ids) : m <= n /\ m < n
    BY <1>9, <2>1 DEF InNumberOrder
  <2>c. Precedes(cl[i].ids, cur[cl[i].block])
    BY DEF InNumberOrder
  <2>d. Range(then[cl[i].block]) \subseteq Range(cur[cl[i].block]) \cup {n}
    BY <1>2, <1>4, <1>8, <2>1
  <2>3. Precedes(cl[i].ids, then[cl[i].block])
    BY <2>2, <2>c, <2>d DEF Precedes
  <2>4. QED
    BY <2>2, <2>3 DEF InNumberOrder
<1>12. InNumberOrder(n, then, cl)
  BY <1>1, <1>8, <1>10, <1>11 DEF InNumberOrder
<1>13. QED
  BY <1>7, <1>12

LEMMA OrderCloses ==
  ASSUME NEW a, NEW cur, NEW cl, InNumberOrder(a, cur, cl), NEW b \in Blocks
  PROVE  InNumberOrder(a, [cur EXCEPT ![b] = <<>>],
                       Append(cl, [block |-> b, ids |-> cur[b]]))
<1> DEFINE D == [block : Blocks, ids : Seq(Nat)]
<1>1. a \in Nat /\ cur \in [Blocks -> Seq(Nat)] /\ cl \in Seq(D)
  BY DEF InNumberOrder
<1>2. PICK e \in D : e = [block |-> b, ids |-> cur[b]]
  BY <1>1
<1> HIDE DEF D
<1>3. PICK s \in Seq(D) : s = Append(cl, e)
  <2>1. Append(cl, e) \in Seq(D)
    BY <1>1, AppendFacts
  <2>2. QED
    BY <2>1
<1>4. /\ Len(cl) \in Nat /\ DOMAIN cl = 1..Len(cl) /\ DOMAIN s = 1..(Len(cl) + 1)
      /\ s[Len(cl) + 1] = e /\ \A i \in 1..Len(cl) : s[i] = cl[i]
  BY <1>1, <1>3, AppendFacts
<1>5. \A i \in DOMAIN s : (i \in DOMAIN cl /\ s[i] = cl[i]) \/ (i = Len(cl) + 1 /\ s[i] = e)
  BY <1>4
<1>6. PICK then : then = [cur EXCEPT ![b] = <<>>]
  OBVIOUS
<1>7. /\ then \in [Blocks -> Seq(Nat)] /\ then[b] = <<>>
      /\ \A x \in Blocks \ {b} : then[x] = cur[x]
  BY <1>1, <1>6
<1>8. Range(<<>>) = {} /\ Increasing(<<>>)
  BY DEF Range, Increasing
<1>9. e.block = b /\ e.ids = cur[b]
  BY <1>2
<1>10. \A x \in Blocks : Increasing(then[x]) /\ \A m \in Range(then[x]) : m <= a
  BY <1>7, <1>8 DEF InNumberOrder
<1>11. ASSUME NEW i \in DOMAIN s
       PROVE  /\ Increasing(s[i].ids)
              /\ \A m \in Range(s[i].ids) : m <= a
              /\ Precedes(s[i].ids, then[s[i].block])
  <2>1. CASE s[i] = e
    BY <1>7, <1>8, <1>9, <2>1 DEF InNumberOrder, Precedes
  <2>2. CASE i \in DOMAIN cl /\ s[i] = cl[i]
    <3>a. cl[i] \in [block : Blocks, ids : Seq(Nat)]
      <4>1. cl[i] \in D
        BY <1>1, <2>2
      <4>2. QED
        BY <4>1 DEF D
    <3>1. cl[i].block \in Blocks
      BY <3>a
    <3>2. Precedes(cl[i].ids, then[cl[i].block])
      BY <1>7, <1>8, <2>2, <3>1 DEF InNumberOrder, Precedes
    <3>3. QED
      BY <2>2, <3>2 DEF InNumberOrder
  <2>3. QED
    BY <1>5, <2>1, <2>2
<1>12. ASSUME NEW i \in DOMAIN s, NEW j \in DOMAIN s, i < j, s[i].block = s[j].block
       PROVE  Precedes(s[i].ids, s[j].ids)
  <2>1. i \in DOMAIN cl /\ s[i] = cl[i]
    BY <1>4, <1>12
  <2>2. CASE s[j] = e
    BY <1>9, <1>12, <2>1, <2>2 DEF InNumberOrder
  <2>3. CASE j \in DOMAIN cl /\ s[j] = cl[j]
    BY <1>12, <2>1, <2>3 DEF InNumberOrder
  <2>4. QED
    BY <1>5, <2>2, <2>3
<1>13. InNumberOrder(a, then, s)
  BY <1>1, <1>3, <1>7, <1>10, <1>11, <1>12 DEF InNumberOrder, D
<1>14. QED
  BY <1>2, <1>3, <1>6, <1>13

LEMMA OrderKept ==
  InNumberOrder(LastAttached, Current, ClosedTraces) /\ [Traces!TracesNext]_(Traces!traceVars)
    => InNumberOrder(LastAttached, Current, ClosedTraces)'
<1> SUFFICES ASSUME InNumberOrder(LastAttached, Current, ClosedTraces),
                    [Traces!TracesNext]_(Traces!traceVars)
             PROVE  InNumberOrder(LastAttached', Current', ClosedTraces')
  OBVIOUS
<1>1. PICK a, cur, cl, a2, cur2, cl2 :
        /\ a = LastAttached /\ cur = Current /\ cl = ClosedTraces
        /\ a2 = LastAttached' /\ cur2 = Current' /\ cl2 = ClosedTraces'
  OBVIOUS
<1>2. InNumberOrder(a, cur, cl)
  BY <1>1
<1>3. ASSUME NEW n, NEW c, InNumberOrder(n, c, cl), a2 = n,
             \/ cur2 = c /\ cl2 = cl
             \/ \E b \in Blocks :
                  /\ cur2 = [c EXCEPT ![b] = <<>>]
                  /\ cl2 = Append(cl, [block |-> b, ids |-> c[b]])
      PROVE  InNumberOrder(a2, cur2, cl2)
  <2>1. ASSUME NEW b \in Blocks, cur2 = [c EXCEPT ![b] = <<>>],
               cl2 = Append(cl, [block |-> b, ids |-> c[b]])
        PROVE  InNumberOrder(a2, cur2, cl2)
    <3>1. InNumberOrder(n, [c EXCEPT ![b] = <<>>], Append(cl, [block |-> b, ids |-> c[b]]))
      BY <1>3, OrderCloses
    <3>2. QED
      BY <1>3, <2>1, <3>1
  <2>2. QED
    BY <1>3, <2>1
<1>4. CASE Traces!Close
  BY <1>1, <1>2, <1>3, <1>4 DEF Traces!Close, Traces!MaybeClose
<1>5. ASSUME NEW b \in Blocks, Traces!Attach(b)
      PROVE  InNumberOrder(a2, cur2, cl2)
  <2>1. PICK c : c = [cur EXCEPT ![b] = Append(@, a2)]
    OBVIOUS
  <2>2. /\ a2 \in Nat /\ a2 > a
        /\ \/ cur2 = c /\ cl2 = cl
           \/ \E x \in Blocks :
                /\ cur2 = [c EXCEPT ![x] = <<>>]
                /\ cl2 = Append(cl, [block |-> x, ids |-> c[x]])
    BY <1>1, <1>5, <2>1 DEF Traces!Attach, Traces!MaybeClose
  <2>3. InNumberOrder(a2, c, cl)
    BY <1>2, <2>1, <2>2, OrderAttaches
  <2>4. QED
    BY <1>3, <2>2, <2>3
<1>6. CASE UNCHANGED Traces!traceVars
  BY <1>1, <1>2, <1>6 DEF Traces!traceVars
<1>7. QED
  BY <1>1, <1>4, <1>5, <1>6 DEF Traces!TracesNext

\* The traces of a block, one after the other, have its records in the order of
\* their process() calls, none in two traces: whoever closes them, at whatever await.
THEOREM TracesInOrder == Spec => []InNumberOrder(LastAttached, Current, ClosedTraces)
<1>1. Traces!TracesInit => InNumberOrder(LastAttached, Current, ClosedTraces)
  <2> SUFFICES ASSUME Traces!TracesInit
               PROVE  InNumberOrder(LastAttached, Current, ClosedTraces)
    OBVIOUS
  <2>1. LastAttached = 0 /\ Current = [b \in Blocks |-> <<>>] /\ ClosedTraces = <<>>
    BY DEF Traces!TracesInit
  <2>2. Range(<<>>) = {} /\ Increasing(<<>>)
    BY DEF Range, Increasing
  <2>3. InNumberOrder(0, [b \in Blocks |-> <<>>], <<>>)
    BY <2>2 DEF InNumberOrder
  <2>4. QED
    BY <2>1, <2>3
<1>2. Spec => Traces!TracesInit /\ [][Traces!TracesNext]_(Traces!traceVars)
  BY ImplementsTracesAlways DEF ImplementsTraces, Traces!TracesSpec
<1>3. QED
  BY <1>1, <1>2, OrderKept, PTL

\* A record given to process() is in a trace, or its consumer waits for the lock.
NoneForgotten ==
  ~interrupted =>
    \A n \in 1..Len(log) :
      n \in Attached \/ \E c \in Consumers : pc[c] = "lock" /\ arg[c] = n

LEMMA NoneForgottenStep == Inv /\ NoneForgotten /\ [Next]_vars => NoneForgotten'
<1> SUFFICES ASSUME Inv, NoneForgotten, Step, ~interrupted', NEW n \in 1..Len(log')
             PROVE  \/ n \in Attached'
                    \/ \E c \in Consumers : pc'[c] = "lock" /\ arg'[c] = n
  BY StepCases DEF NoneForgotten
<1>1. Typed /\ Queued /\ EndsInOrder /\ Len(log) \in Nat /\ Consumers \subseteq Tasks
  BY DEF Inv, Typed, Tasks
<1>2. ASSUME NEW c \in Consumers, Arrive(c)
      PROVE  \/ n \in Attached'
             \/ \E d \in Consumers : pc'[d] = "lock" /\ arg'[d] = n
  <2>1. /\ Len(log') = Len(log) + 1 /\ arg'[c] = Len(log) + 1
        /\ \A d \in Consumers : d # c => arg'[d] = arg[d]
    BY <1>1, <1>2, ArriveFacts
  <2>2. /\ pc[c] = "idle" /\ pc'[c] = "lock" /\ ~interrupted
        /\ \A d \in Consumers : d # c => pc'[d] = pc[d]
    BY <1>1, <1>2 DEF Arrive, Goto, Typed
  <2>3. Attached' = Attached
    BY <1>2, AttachedSame DEF Arrive
  <2>4. CASE n = Len(log) + 1
    BY <2>1, <2>2, <2>4
  <2>5. CASE n \in 1..Len(log)
    BY <2>1, <2>2, <2>3, <2>5 DEF NoneForgotten
  <2>6. QED
    BY <1>1, <2>1, <2>4, <2>5
<1>3. ASSUME NEW c \in Consumers, Attaches(c)
      PROVE  \/ n \in Attached'
             \/ \E d \in Consumers : pc'[d] = "lock" /\ arg'[d] = n
  <2>1. Attached' = Attached \cup {arg[c]}
    BY <1>3, AttachesOne
  <2>2. /\ UNCHANGED <<log, arg, interrupted>>
        /\ \A d \in Consumers : d # c => pc'[d] = pc[d]
    BY <1>1, <1>3 DEF Attaches, Attach, AttachAndCap, AttachAndEvict, Emit, Goto, Typed
  <2>3. QED
    BY <2>1, <2>2 DEF NoneForgotten
<1>4. ASSUME UNCHANGED <<log, arg>>, Attached' = Attached, ~interrupted,
             \A d \in Consumers : pc[d] = "lock" => pc'[d] = "lock"
      PROVE  \/ n \in Attached'
             \/ \E d \in Consumers : pc'[d] = "lock" /\ arg'[d] = n
  BY <1>4 DEF NoneForgotten
<1>5. CASE JanitorCloses \/ Flushes
  <2>1. Attached' = Attached
    BY <1>5, ClosingAttachesNone
  <2>2. UNCHANGED <<log, arg, interrupted>>
    BY <1>5 DEF JanitorCloses, Flushes
  <2>3. \A d \in Consumers : pc'[d] = pc[d]
    BY <1>1, <1>5, TasksAssumption DEF JanitorCloses, CloseNext, Flushes, Emit, Goto, Typed
  <2>4. QED
    BY <1>4, <2>1, <2>2, <2>3
<1>6. CASE \E c \in Consumers : ProcessReturns(c)
  <2>1. UNCHANGED <<log, arg, trace, emitted, interrupted>>
    BY <1>6 DEF ProcessReturns
  <2>2. \A d \in Consumers : pc[d] = "lock" => pc'[d] = "lock"
    BY <1>1, <1>6 DEF ProcessReturns, Published, Goto, Typed
  <2>3. QED
    BY <1>4, <2>1, <2>2, AttachedSame
<1>7. CASE \E c \in Consumers : ConsumerCancelled(c)
  BY <1>1, <1>7 DEF ConsumerCancelled, EndsInOrder
<1>8. CASE \E t \in Tasks : \E h \in Handlers : HandlerEnds(t, h)
  BY <1>4, <1>8, AttachedSame DEF HandlerEnds
<1>9. CASE JanitorWakes \/ JanitorRests \/ JanitorCancelled
  <2>1. UNCHANGED <<log, arg, trace, emitted, interrupted>>
    BY <1>9 DEF JanitorWakes, JanitorRests, PassEnds, JanitorCancelled
  <2>2. \A d \in Consumers : pc'[d] = pc[d]
    BY <1>1, <1>9, TasksAssumption
       DEF JanitorWakes, JanitorRests, PassEnds, JanitorCancelled, Cancelled, Goto, Typed
  <2>3. QED
    BY <1>4, <2>1, <2>2, AttachedSame
<1>10. CASE Interrupt \/ InterruptFlush
  BY <1>10 DEF Interrupt, InterruptFlush
<1>11. CASE Stop \/ FlushEnds
  <2>1. UNCHANGED <<log, arg, trace, emitted, interrupted>>
    BY <1>11 DEF Stop, FlushEnds
  <2>2. \A d \in Consumers : pc'[d] = pc[d]
    BY <1>1, <1>11, TasksAssumption DEF Stop, FlushEnds, Goto, Typed
  <2>3. QED
    BY <1>4, <2>1, <2>2, AttachedSame
<1>12. CASE UNCHANGED vars
  BY <1>4, <1>12, AttachedSame DEF vars
<1>13. QED
  BY <1>2, <1>3, <1>5, <1>6, <1>7, <1>8, <1>9, <1>10, <1>11, <1>12 DEF Step, Attaches

\* When stop() has returned in a run that nobody interrupted, every record that was
\* ever given to process() is in a closed trace.
AllClosed == Stopped /\ ~interrupted => ClosedIds = 1..Len(log)

LEMMA AllAreClosed == Inv /\ NoneForgotten => AllClosed
<1> SUFFICES ASSUME Inv, NoneForgotten, Stopped, ~interrupted
             PROVE  ClosedIds = 1..Len(log)
  BY DEF AllClosed
<1>1. order = <<>> /\ \A c \in Consumers : pc[c] = "idle"
  BY DEF Inv, EndsInOrder, Stopped
<1>2. DOMAIN trace = {}
  BY <1>1, DictionaryFacts, NothingYet DEF Inv, Kept, Range
<1>3. Attached = ClosedIds
  BY <1>2 DEF Attached, OpenIds
<1>4. \A n \in 1..Len(log) : n \in Attached
  BY <1>1 DEF NoneForgotten
<1>5. \A n \in Attached : n \in 1..Len(log)
  BY AttachedBound DEF Inv
<1>6. QED
  BY <1>3, <1>4, <1>5

THEOREM AllClosedAlways == Spec => []AllClosed
<1>1. Init => NoneForgotten
  BY DEF Init, NoneForgotten
<1>2. QED
  BY InvAlways, NoneForgottenStep, AllAreClosed, <1>1, PTL DEF Spec

\* The records are attached in the order of their calls: none before an attached one
\* is left out, not even by a cancellation, since none is attached afterwards.
NoGaps ==
  /\ pc[Main] = "running" => ~interrupted
  /\ \A m \in Attached : \A n \in 1..m : n \in Attached

LEMMA HolderIsFirst ==
  ASSUME Inv, NEW c \in Consumers, Holds(c), NEW d \in Consumers, pc[d] = "lock", d # c
  PROVE  arg[c] < arg[d]
<1>1. /\ lockq \in Seq(Tasks) /\ lockq # <<>> /\ d \in Range(lockq)
  BY DEF Inv, Queued, Holds, Tasks
<1>2. /\ Len(lockq) \in Nat /\ DOMAIN lockq = 1..Len(lockq) /\ 1 \in DOMAIN lockq
      /\ lockq[1] = c
  BY <1>1 DEF Holds
<1>3. PICK j \in DOMAIN lockq : lockq[j] = d
  BY <1>1 DEF Range
<1>4. 1 < j
  BY <1>2, <1>3
<1>5. QED
  BY <1>2, <1>3, <1>4 DEF Inv, Numbered

LEMMA NoGapsStep == Inv /\ NoneForgotten /\ NoGaps /\ [Next]_vars => NoGaps'
<1> SUFFICES ASSUME Inv, NoneForgotten, NoGaps, Step
             PROVE  NoGaps'
  BY StepCases
<1>1. Typed /\ Queued /\ EndsInOrder /\ Len(log) \in Nat /\ Consumers \subseteq Tasks
  BY DEF Inv, Typed, Tasks
<1>2. ASSUME Attached' = Attached,
             pc'[Main] = "running" => pc[Main] = "running" /\ UNCHANGED interrupted
      PROVE  NoGaps'
  BY <1>2 DEF NoGaps
<1>3. ASSUME NEW c \in Consumers, Attaches(c) PROVE NoGaps'
  <2>1. Attached' = Attached \cup {arg[c]}
    BY <1>3, AttachesOne
  <2>2. /\ pc[Main] = "running" /\ pc[c] = "lock" /\ Holds(c)
        /\ UNCHANGED interrupted
    BY <1>3 DEF Attaches, Attach, AttachAndCap, AttachAndEvict
  <2>3. arg[c] \in 1..Len(log)
    BY <2>2, WaitsForLock DEF Inv, Waits
  <2>4. ASSUME NEW n \in 1..arg[c], n # arg[c] PROVE n \in Attached
    <3>1. n \in 1..Len(log) /\ n < arg[c]
      BY <1>1, <2>3, <2>4
    <3>2. CASE \E d \in Consumers : pc[d] = "lock" /\ arg[d] = n
      <4>1. PICK d \in Consumers : pc[d] = "lock" /\ arg[d] = n
        BY <3>2
      <4>2. d # c
        BY <2>4, <4>1
      <4>3. arg[c] < arg[d]
        BY <2>2, <4>1, <4>2, HolderIsFirst
      <4>4. QED
        BY <2>3, <3>1, <4>1, <4>3
    <3>3. QED
      BY <2>2, <3>1, <3>2 DEF NoGaps, NoneForgotten
  <2>5. \A m \in Attached' : \A n \in 1..m : n \in Attached'
    BY <2>1, <2>4 DEF NoGaps
  <2>6. QED
    BY <2>2, <2>5 DEF NoGaps
<1>4. CASE \E c \in Consumers : Arrive(c) \/ ProcessReturns(c) \/ ConsumerCancelled(c)
  <2>1. PICK c \in Consumers : Arrive(c) \/ ProcessReturns(c) \/ ConsumerCancelled(c)
    BY <1>4
  <2>2. UNCHANGED <<trace, emitted, interrupted>>
    BY <2>1 DEF Arrive, ProcessReturns, ConsumerCancelled
  <2>3. pc' = [pc EXCEPT ![c] = "lock"] \/ pc' = [pc EXCEPT ![c] = "idle"]
    BY <2>1 DEF Arrive, ProcessReturns, ConsumerCancelled, Cancelled, Goto
  <2>4. pc'[Main] = pc[Main]
    <3>1. pc \in [Tasks -> Labels] /\ Main \in Tasks /\ c # Main
      BY <1>1, TasksAssumption DEF Typed, Tasks
    <3>2. QED
      BY <2>3, <3>1
  <2>5. QED
    BY <1>2, <2>2, <2>4, AttachedSame
<1>5. CASE \E t \in Tasks : \E h \in Handlers : HandlerEnds(t, h)
  BY <1>2, <1>5, AttachedSame DEF HandlerEnds
<1>6. CASE JanitorWakes \/ JanitorRests \/ JanitorCancelled
  <2>1. UNCHANGED <<trace, emitted, interrupted>>
    BY <1>6 DEF JanitorWakes, JanitorRests, PassEnds, JanitorCancelled
  <2>2. \E label : pc' = [pc EXCEPT ![Janitor] = label]
    BY <1>6 DEF JanitorWakes, JanitorRests, PassEnds, JanitorCancelled, Cancelled, Goto
  <2>3. pc'[Main] = pc[Main]
    BY <1>1, <2>2, TasksAssumption DEF Typed
  <2>4. QED
    BY <1>2, <2>1, <2>3, AttachedSame
<1>7. CASE JanitorCloses \/ Flushes
  <2>1. Attached' = Attached
    BY <1>7, ClosingAttachesNone
  <2>2. UNCHANGED interrupted /\ (pc'[Main] = pc[Main] \/ pc'[Main] = "publish")
    BY <1>1, <1>7, TasksAssumption DEF JanitorCloses, CloseNext, Flushes, Emit, Goto, Typed, Tasks
  <2>3. QED
    BY <1>2, <2>1, <2>2
<1>8. CASE Interrupt \/ InterruptFlush \/ Stop \/ FlushEnds
  <2>1. UNCHANGED <<trace, emitted>> /\ pc'[Main] # "running"
    BY <1>1, <1>8
       DEF Interrupt, InterruptFlush, Cancelled, Stop, FlushEnds, Goto, Typed, Tasks
  <2>2. QED
    BY <1>2, <2>1, AttachedSame
<1>9. CASE UNCHANGED vars
  BY <1>2, <1>9, AttachedSame DEF vars
<1>10. QED
  BY <1>3, <1>4, <1>5, <1>6, <1>7, <1>8, <1>9 DEF Step, Attaches

\* A record is attached only when all those given to process() before it are, in
\* a run that is interrupted as well.
THEOREM NoGapsAlways == Spec => []NoGaps
<1>1. Init => NoneForgotten /\ NoGaps
  <2> SUFFICES ASSUME Init PROVE NoneForgotten /\ NoGaps
    OBVIOUS
  <2>1. Attached = {}
    BY DEF Init, Attached, OpenIds, ClosedIds
  <2>2. QED
    BY <2>1 DEF Init, NoneForgotten, NoGaps
<1>2. QED
  BY InvAlways, NoneForgottenStep, NoGapsStep, <1>1, PTL DEF Spec

===============================================================================
