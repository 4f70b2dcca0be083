--------------------------- MODULE RepositoriesProofs ---------------------------
(***************************************************************************)
(* PostgresLogRepository keeps the promise of LogStore, for any number of  *)
(* tasks, any batches of rows, and a server that may fail at every step.   *)
(*                                                                         *)
(* That the rows of a call land together, each key once, is decided while  *)
(* the call inserts them and used when it commits, other tasks' statements *)
(* and commits in between.  Isolated says why nothing is lost on the way:  *)
(* the keys a transaction has inserted are neither in its table nor in any *)
(* other open transaction on it.                                           *)
(*                                                                         *)
(* And where Postgres served every call, both repositories answer alike:   *)
(* AllAccounted finds in memory the rows of each call under way, one after *)
(* another, and all else is what is committed.                             *)
(***************************************************************************)
EXTENDS Repositories, Induction, FiniteSetTheorems, SequenceTheorems

Typed ==
  /\ committed \in [Tables -> SUBSET UNION {RowsOf(k) : k \in Calls}]
  /\ step \in [Clients -> {"idle", "begin", "insert", "commit", "committed"}]
  /\ call \in [Clients -> Calls]
  /\ inserted \in [Clients -> Nat]
  /\ outcome \in [Clients -> Outcomes]

\* How far each transaction is.
Progress ==
  \A c \in Clients :
    /\ step[c] \in {"idle", "begin", "committed"} => inserted[c] = 0
    /\ step[c] \in {"begin", "insert"} => inserted[c] < Len(call[c].rows)
    /\ step[c] = "commit" => inserted[c] = Len(call[c].rows)

\* The key of the i-th row of c's call.
KeyAt(c, i) == call[c].rows[i].key

KeysDistinct ==
  \A c \in Clients : \A i, j \in 1..inserted[c] : KeyAt(c, i) = KeyAt(c, j) => i = j

KeysFree ==
  \A c \in Clients : \A i \in 1..inserted[c] :
    \A r \in committed[call[c].table] : r.key # KeyAt(c, i)

KeysApart ==
  \A c, d \in Clients :
    c # d /\ call[c].table = call[d].table =>
      \A i \in 1..inserted[c], j \in 1..inserted[d] : KeyAt(c, i) # KeyAt(d, j)

Isolated == Typed /\ Progress /\ KeysDistinct /\ KeysFree /\ KeysApart

-------------------------------------------------------------------------------
(* The invariant. *)

LEMMA IsolatedInit == Init => Isolated
BY CallsAssumption
   DEF Init, Isolated, Typed, Progress, KeysDistinct, KeysFree, KeysApart, Outcomes

\* A call's rows and table.
LEMMA CallTyped ==
  ASSUME Typed, NEW c \in Clients
  PROVE  /\ call[c] \in Calls /\ call[c].table \in Tables
         /\ call[c].rows \in Seq(RowsOf(call[c]))
         /\ Len(call[c].rows) \in Nat
         /\ DOMAIN call[c].rows = 1..Len(call[c].rows)
BY CallsAssumption DEF Typed

LEMMA CallIsolated ==
  ASSUME Isolated, NEW c \in Clients, Call(c)
  PROVE  Isolated'
<1> USE DEF Isolated
<1>1. PICK k \in Calls :
        /\ call' = [call EXCEPT ![c] = k]
        /\ IF k.rows = <<>>
             THEN outcome' = [outcome EXCEPT ![c] = "ok"] /\ step' = step
             ELSE /\ outcome' = [outcome EXCEPT ![c] = "none"]
                  /\ step' = [step EXCEPT ![c] = "begin"]
  BY DEF Call
<1>2. step[c] = "idle" /\ inserted[c] = 0 /\ inserted' = inserted /\ committed' = committed
  BY DEF Call, Progress
<1>3. Typed'
  BY <1>1, <1>2 DEF Typed, Outcomes
<1>4. Progress'
  <2>1. k.rows # <<>> => Len(k.rows) > 0
    BY CallsAssumption
  <2>2. QED
    BY <1>1, <1>2, <2>1 DEF Progress, Typed
<1>5. \A d \in Clients \ {c} : call'[d] = call[d]
  BY <1>1 DEF Typed
<1>6. KeysDistinct' /\ KeysFree' /\ KeysApart'
  BY <1>2, <1>5 DEF KeysDistinct, KeysFree, KeysApart, KeyAt, Typed
<1>7. QED
  BY <1>3, <1>4, <1>6

\* The steps that end a call, roll back and commit nothing.
LEMMA ReturnIsolated ==
  ASSUME Isolated, NEW c \in Clients, NEW how \in Outcomes, Return(c, how)
  PROVE  Isolated'
<1> USE DEF Isolated
<1>1. /\ call' = call /\ committed' = committed
      /\ step' = [step EXCEPT ![c] = "idle"]
      /\ inserted' = [inserted EXCEPT ![c] = 0]
      /\ outcome' = [outcome EXCEPT ![c] = how]
  BY DEF Return
<1>2. Typed'
  BY <1>1 DEF Typed
<1>3. Progress'
  BY <1>1 DEF Progress, Typed
<1>4. KeysDistinct' /\ KeysFree' /\ KeysApart'
  BY <1>1 DEF KeysDistinct, KeysFree, KeysApart, KeyAt, Typed
<1>5. QED
  BY <1>2, <1>3, <1>4

LEMMA BeginIsolated ==
  ASSUME Isolated, NEW c \in Clients, Begin(c)
  PROVE  Isolated'
BY DEF Begin, Isolated, Typed, Progress, KeysDistinct, KeysFree, KeysApart, KeyAt

LEMMA InsertRowIsolated ==
  ASSUME Isolated, NEW c \in Clients, InsertRow(c)
  PROVE  Isolated'
<1> USE DEF Isolated
<1> DEFINE n == inserted[c] + 1
<1>1. /\ call' = call /\ committed' = committed /\ outcome' = outcome
      /\ step[c] = "insert" /\ inserted' = [inserted EXCEPT ![c] = n]
      /\ step' = [step EXCEPT ![c] = IF n = Len(call[c].rows) THEN "commit" ELSE step[c]]
  BY DEF InsertRow, Typed
<1>2. /\ n \in Nat /\ n <= Len(call[c].rows) /\ Len(call[c].rows) \in Nat
      /\ inserted[c] \in Nat
  BY <1>1, CallTyped DEF Typed, Progress
<1>3. /\ \A r \in committed[call[c].table] : r.key # KeyAt(c, n)
      /\ \A i \in 1..inserted[c] : KeyAt(c, i) # KeyAt(c, n)
  BY DEF InsertRow, NextRow, Keys, InTransaction, KeyAt
<1>4. \A d \in Clients \ {c} : call[d].table = call[c].table =>
        \A j \in 1..inserted[d] : KeyAt(d, j) # KeyAt(c, n)
  BY DEF InsertRow, Awaited, NextRow, Keys, InTransaction, KeyAt
<1>5. Typed'
  BY <1>1, <1>2 DEF Typed
<1>6. Progress'
  BY <1>1, <1>2 DEF Progress, Typed
<1>7. /\ inserted'[c] = n /\ \A i \in 1..n : i \in 1..inserted[c] \/ i = n
      /\ \A d \in Clients \ {c} : inserted'[d] = inserted[d]
      /\ \A d \in Clients, i \in Nat : KeyAt(d, i)' = KeyAt(d, i)
  BY <1>1, <1>2 DEF Typed, KeyAt
<1> HIDE DEF n
<1>8. KeysDistinct'
  BY <1>3, <1>7, <1>2 DEF KeysDistinct, Typed
<1>9. KeysFree'
  BY <1>1, <1>3, <1>7, <1>2 DEF KeysFree, Typed
<1>10. KeysApart'
  <2> SUFFICES ASSUME NEW d \in Clients, NEW e \in Clients, d # e,
                      call[d].table = call[e].table,
                      NEW i \in 1..inserted'[d], NEW j \in 1..inserted'[e]
               PROVE  KeyAt(d, i) # KeyAt(e, j)
    BY <1>1, <1>5 DEF KeysApart, KeyAt, Typed
  <2>1. CASE d = c
    BY <1>4, <1>7, <2>1 DEF KeysApart, Typed
  <2>2. CASE e = c
    BY <1>4, <1>7, <2>2 DEF KeysApart, Typed
  <2>3. CASE d # c /\ e # c
    BY <1>7, <2>3 DEF KeysApart, Typed
  <2>4. QED
    BY <2>1, <2>2, <2>3
<1>11. QED
  BY <1>5, <1>6, <1>8, <1>9, <1>10

LEMMA CommitIsolated ==
  ASSUME Isolated, NEW c \in Clients, Commit(c)
  PROVE  Isolated'
<1> USE DEF Isolated
<1>1. /\ call' = call /\ outcome' = outcome
      /\ step[c] = "commit" /\ step' = [step EXCEPT ![c] = "committed"]
      /\ inserted' = [inserted EXCEPT ![c] = 0]
      /\ committed' = [committed EXCEPT ![call[c].table] = @ \cup InTransaction(c)]
  BY DEF Commit
<1>2. InTransaction(c) \subseteq RowsOf(call[c]) /\ call[c] \in Calls
      /\ call[c].table \in Tables
  BY <1>1, CallTyped DEF InTransaction, Progress, RowsOf, Range
<1>3. Typed'
  BY <1>1, <1>2 DEF Typed
<1>4. Progress'
  BY <1>1 DEF Progress, Typed
<1>5. KeysDistinct' /\ KeysApart'
  BY <1>1 DEF KeysDistinct, KeysApart, KeyAt, Typed
<1>6. KeysFree'
  <2> SUFFICES ASSUME NEW d \in Clients, NEW i \in 1..inserted'[d],
                      NEW r \in committed'[call[d].table]
               PROVE  r.key # KeyAt(d, i)
    BY <1>1 DEF KeysFree, KeyAt
  <2>1. d # c /\ inserted'[d] = inserted[d]
    BY <1>1 DEF Typed
  <2>2. r \in committed[call[d].table]
          \/ (call[d].table = call[c].table /\ r \in InTransaction(c))
    BY <1>1, CallTyped DEF Typed
  <2>3. QED
    BY <2>1, <2>2 DEF KeysFree, KeysApart, InTransaction, KeyAt
<1>7. QED
  BY <1>3, <1>4, <1>5, <1>6

LEMMA ClearIsolated == Isolated /\ Clear => Isolated'
BY DEF Clear, Isolated, Typed, Progress, KeysDistinct, KeysFree, KeysApart, KeyAt

\* The call ends in an error: GiveUp of LogStore.
Fails(c) ==
  /\ step[c] # "idle"
  /\ \E how \in Outcomes \ {"none", "ok"} : Return(c, how)

\* What Next amounts to.
LEMMA NextCases ==
  ASSUME Next
  PROVE  \/ \E c \in Clients : \/ Call(c) \/ Begin(c) \/ InsertRow(c) \/ Commit(c)
                               \/ Acknowledge(c) \/ Fails(c)
         \/ Clear
BY DEF Next, ConnectFails, Conflict, ServerFails, AnswerLost, Broken, Cancel, Fails, Outcomes

LEMMA IsolatedStep == Isolated /\ [Next]_vars => Isolated'
<1> SUFFICES ASSUME Isolated, [Next]_vars PROVE Isolated'
  OBVIOUS
<1>1. CASE UNCHANGED vars
  BY <1>1 DEF vars, Isolated, Typed, Progress, KeysDistinct, KeysFree, KeysApart, KeyAt
<1>2. ASSUME NEW c \in Clients, Acknowledge(c) PROVE Isolated'
  BY <1>2, ReturnIsolated DEF Acknowledge, Outcomes
<1>3. ASSUME NEW c \in Clients, Fails(c) PROVE Isolated'
  BY <1>3, ReturnIsolated DEF Fails
<1>4. QED
  BY <1>1, <1>2, <1>3, NextCases, CallIsolated, BeginIsolated, InsertRowIsolated,
     CommitIsolated, ClearIsolated

LEMMA IsolatedAlways == Spec => []Isolated
BY IsolatedInit, IsolatedStep, PTL DEF Spec

-------------------------------------------------------------------------------
(* The refinement: the mapping of Store, by name. *)

Standing ==
  [c \in Clients |-> CASE step[c] = "idle" -> "free"
                       [] step[c] = "committed" -> "landed"
                       [] OTHER -> "asked"]
Verdict ==
  [c \in Clients |-> IF outcome[c] \in {"none", "ok"} THEN outcome[c] ELSE "error"]

LEMMA InitRefines == Init => Store!StoreInit
BY CallsAssumption DEF Init, Store!StoreInit

LEMMA CallRefines ==
  ASSUME Isolated, NEW c \in Clients, Call(c)
  PROVE  Store!Ask(c)
<1>1. PICK k \in Calls :
        /\ call' = [call EXCEPT ![c] = k]
        /\ IF k.rows = <<>>
             THEN outcome' = [outcome EXCEPT ![c] = "ok"] /\ step' = step
             ELSE /\ outcome' = [outcome EXCEPT ![c] = "none"]
                  /\ step' = [step EXCEPT ![c] = "begin"]
  BY DEF Call
<1>2. step[c] = "idle" /\ committed' = committed /\ Typed
  BY DEF Call, Isolated
<1>3. Standing[c] = "free"
  BY <1>2 DEF Standing
<1>4. CASE k.rows = <<>>
  <2>1. Verdict' = [Verdict EXCEPT ![c] = "ok"] /\ Standing' = Standing
    BY <1>1, <1>2, <1>4 DEF Typed, Verdict, Standing
  <2>2. QED
    BY <1>1, <1>2, <1>3, <1>4, <2>1 DEF Store!Ask, Verdict, Standing
<1>5. CASE k.rows # <<>>
  <2>1. Verdict' = [Verdict EXCEPT ![c] = "none"]
    BY <1>1, <1>2, <1>5 DEF Typed, Verdict
  <2>2. Standing' = [Standing EXCEPT ![c] = "asked"]
    BY <1>1, <1>2, <1>5 DEF Typed, Standing
  <2>3. QED
    BY <1>1, <1>2, <1>3, <1>5, <2>1, <2>2 DEF Store!Ask, Verdict, Standing
<1>6. QED
  BY <1>4, <1>5

\* Until the commit a transaction is nobody else's business.
LEMMA InsertingStutters ==
  ASSUME Isolated, NEW c \in Clients, Begin(c) \/ InsertRow(c)
  PROVE  UNCHANGED Store!storeVars
<1>1. /\ committed' = committed /\ call' = call /\ outcome' = outcome
      /\ step[c] \in {"begin", "insert"} /\ Typed
      /\ \E label \in {"insert", "commit"} : step' = [step EXCEPT ![c] = label]
  BY DEF Begin, InsertRow, Isolated, Typed
<1>2. Standing' = Standing
  BY <1>1 DEF Typed, Standing
<1>3. QED
  BY <1>1, <1>2 DEF Store!storeVars, Standing

LEMMA CommitRefines ==
  ASSUME Isolated, NEW c \in Clients, Commit(c)
  PROVE  Store!Land(c)
<1> DEFINE n == Len(call[c].rows)
           rows == call[c].rows
           new == Store!RowsOf(call[c])
<1>1. /\ call' = call /\ outcome' = outcome
      /\ step[c] = "commit" /\ step' = [step EXCEPT ![c] = "committed"]
      /\ committed' = [committed EXCEPT ![call[c].table] = @ \cup InTransaction(c)]
  BY DEF Commit
<1>2. n \in Nat /\ DOMAIN rows = 1..n /\ inserted[c] = n /\ Typed
  BY <1>1, CallTyped DEF Isolated, Progress
<1>3. new = InTransaction(c) /\ new = {rows[i] : i \in 1..n}
  BY <1>2 DEF InTransaction, Store!RowsOf
<1>4. \A i, j \in DOMAIN rows : rows[i].key = rows[j].key => i = j
  BY <1>2 DEF Isolated, KeysDistinct, KeyAt
<1>5. {r.key : r \in new} \cap {r.key : r \in committed[call[c].table]} = {}
  BY <1>2, <1>3 DEF Isolated, KeysFree, KeyAt
<1>6. Standing[c] = "asked" /\ Standing' = [Standing EXCEPT ![c] = "landed"]
  BY <1>1, <1>2 DEF Typed, Standing
<1>7. QED
  BY <1>1, <1>3, <1>4, <1>5, <1>6 DEF Store!Land, Standing

LEMMA AcknowledgeRefines ==
  ASSUME Isolated, NEW c \in Clients, Acknowledge(c)
  PROVE  Store!Confirm(c)
<1>1. /\ committed' = committed /\ call' = call /\ step[c] = "committed" /\ Typed
      /\ step' = [step EXCEPT ![c] = "idle"]
      /\ outcome' = [outcome EXCEPT ![c] = "ok"]
  BY DEF Acknowledge, Return, Isolated
<1>2. Standing[c] = "landed" /\ Standing' = [Standing EXCEPT ![c] = "free"]
  BY <1>1 DEF Typed, Standing
<1>3. Verdict' = [Verdict EXCEPT ![c] = "ok"]
  BY <1>1 DEF Typed, Verdict
<1>4. QED
  BY <1>1, <1>2, <1>3 DEF Store!Confirm, Standing, Verdict

LEMMA FailsRefines ==
  ASSUME Isolated, NEW c \in Clients, Fails(c)
  PROVE  Store!GiveUp(c)
<1>1. PICK how \in Outcomes \ {"none", "ok"} : Return(c, how)
  BY DEF Fails
<1>2. /\ committed' = committed /\ call' = call /\ step[c] # "idle" /\ Typed
      /\ step' = [step EXCEPT ![c] = "idle"]
      /\ outcome' = [outcome EXCEPT ![c] = how]
  BY <1>1 DEF Fails, Return, Isolated
<1>3. Standing[c] # "free" /\ Standing' = [Standing EXCEPT ![c] = "free"]
  BY <1>2 DEF Typed, Standing
<1>4. Verdict' = [Verdict EXCEPT ![c] = "error"]
  BY <1>1, <1>2 DEF Typed, Verdict
<1>5. QED
  BY <1>2, <1>3, <1>4 DEF Store!GiveUp, Standing, Verdict

LEMMA ClearRefines == Isolated /\ Clear => Store!Wipe
<1> SUFFICES ASSUME Isolated, Clear PROVE Store!Wipe
  OBVIOUS
<1>1. /\ \A c \in Clients : step[c] = "idle"
      /\ committed' = [t \in Tables |-> {}]
      /\ step' = step /\ call' = call /\ outcome' = outcome
  BY DEF Clear
<1>2. \A c \in Clients : Standing[c] = "free"
  BY <1>1 DEF Standing
<1>3. QED
  BY <1>1, <1>2 DEF Store!Wipe, Standing

LEMMA StepRefines ==
  Isolated /\ [Next]_vars => [Store!StoreNext]_(Store!storeVars)
<1> SUFFICES ASSUME Isolated, [Next]_vars
             PROVE  [Store!StoreNext]_(Store!storeVars)
  OBVIOUS
<1>1. CASE UNCHANGED vars
  BY <1>1 DEF vars, Store!storeVars
<1>2. CASE Clear
  BY <1>2, ClearRefines DEF Store!StoreNext
<1>3. ASSUME NEW c \in Clients,
             \/ Call(c) \/ Begin(c) \/ InsertRow(c) \/ Commit(c)
             \/ Acknowledge(c) \/ Fails(c)
      PROVE  [Store!StoreNext]_(Store!storeVars)
  <2>1. CASE Begin(c) \/ InsertRow(c)
    BY <2>1, InsertingStutters
  <2>2. CASE Call(c) \/ Commit(c) \/ Acknowledge(c) \/ Fails(c)
    <3>1. Store!Ask(c) \/ Store!Land(c) \/ Store!Confirm(c) \/ Store!GiveUp(c)
      BY <2>2, CallRefines, CommitRefines, AcknowledgeRefines, FailsRefines
    <3>2. QED
      BY <3>1 DEF Store!StoreNext
  <2>3. QED
    BY <1>3, <2>1, <2>2
<1>4. QED
  BY <1>1, <1>2, <1>3, NextCases

\* PostgresLogRepository implements LogStore (save_batch, save_trace_batch,
\* save_anomaly inside engine.begin()): tables change by whole calls, a key is
\* never in a table twice, and a call that returned normally has landed,
\* wherever the server fails and whoever is cancelled.
THEOREM ImplementsStoreAlways == Spec => ImplementsStore
<1>1. Init => Isolated /\ Store!StoreInit
  BY IsolatedInit, InitRefines
<1>2. Isolated /\ [Next]_vars => Isolated' /\ [Store!StoreNext]_(Store!storeVars)
  BY IsolatedStep, StepRefines
<1>3. QED
  BY <1>1, <1>2, PTL DEF Spec, ImplementsStore, Store!StoreSpec

-------------------------------------------------------------------------------
(* What the two repositories hold. *)

RowsIn(t) == UNION {RowsOf(k) : k \in {l \in Calls : l.table = t}}

Pending(c) == step[c] \in {"begin", "insert", "commit"}

\* The i-th element of table t in memory is a row of c's call, which is under way: its
\* rows begin after the first base[c].
Lies(base, c, t, i) ==
  /\ Pending(c) /\ call[c].table = t
  /\ i \in (base[c] + 1)..(base[c] + Len(call[c].rows))

Settled(base, t) == {i \in 1..Len(memory[t]) : \A c \in Clients : ~Lies(base, c, t, i)}

\* Memory has the rows of the calls under way, and those committed, each once.
SpansKept(base) ==
  \A c \in Clients : Pending(c) =>
    /\ base[c] + Len(call[c].rows) <= Len(memory[call[c].table])
    /\ \A j \in 1..Len(call[c].rows) : memory[call[c].table][base[c] + j] = call[c].rows[j]

SpansApart(base) ==
  \A c, d \in Clients : c # d => \A t \in Tables, i \in Nat : ~(Lies(base, c, t, i) /\ Lies(base, d, t, i))

SettledOnce(base) ==
  \A t \in Tables :
    /\ \A i \in Settled(base, t) : memory[t][i] \in committed[t]
    /\ \A i, j \in Settled(base, t) : memory[t][i] = memory[t][j] => i = j
    /\ \A r \in committed[t] : \E i \in Settled(base, t) : memory[t][i] = r

Accounted(base) ==
  base \in [Clients -> Nat] /\ SpansKept(base) /\ SpansApart(base) /\ SettledOnce(base)

MemoryTyped ==
  /\ memory = [t \in Tables |-> memory[t]]
  /\ \A t \in Tables : memory[t] \in Seq(RowsIn(t))
  /\ flawless \in BOOLEAN

AllAccounted == MemoryTyped /\ (flawless => \E base : Accounted(base))

LEMMA AccountedInit == Init => AllAccounted
<1> SUFFICES ASSUME Init PROVE AllAccounted
  OBVIOUS
<1>1. MemoryTyped
  <2>1. \A t \in Tables : memory[t] = <<>>
    BY DEF Init
  <2>2. ASSUME NEW t \in Tables PROVE memory[t] \in Seq(RowsIn(t))
    <3>1. \A R : <<>> \in Seq(R)
      OBVIOUS
    <3>2. QED
      BY <2>1, <3>1
  <2>3. QED
    BY <2>2 DEF Init, MemoryTyped
<1> DEFINE base == [c \in Clients |-> 0]
<1>2. base \in [Clients -> Nat]
  OBVIOUS
<1> HIDE DEF base
<1>3. \A c \in Clients : ~Pending(c)
  BY DEF Init, Pending
<1>4. \A t \in Tables : committed[t] = {} /\ Settled(base, t) = {}
  BY DEF Init, Settled
<1>5. Accounted(base)
  BY <1>2, <1>3, <1>4 DEF Accounted, SpansKept, SpansApart, SettledOnce, Lies
<1>6. QED
  BY <1>1, <1>5 DEF AllAccounted

\* A step that no table and no call under way notices.
LEMMA AccountedFrame ==
  ASSUME AllAccounted, UNCHANGED <<memory, committed, call>>, flawless' => flawless,
         flawless' \in BOOLEAN, \A c \in Clients : Pending(c)' <=> Pending(c)
  PROVE  AllAccounted'
<1>1. MemoryTyped'
  BY DEF AllAccounted, MemoryTyped
<1>2. ASSUME flawless' PROVE \E base : Accounted(base)'
  <2>1. PICK base : Accounted(base)
    BY <1>2 DEF AllAccounted
  <2>2. \A c \in Clients : \A t, i : Lies(base, c, t, i)' <=> Lies(base, c, t, i)
    BY DEF Lies
  <2>3. \A t : Settled(base, t)' = Settled(base, t)
    BY <2>2 DEF Settled
  <2>4. Accounted(base)'
    BY <2>1, <2>2, <2>3 DEF Accounted, SpansKept, SpansApart, SettledOnce
  <2>5. QED
    BY <2>4
<1>3. QED
  BY <1>1, <1>2 DEF AllAccounted

LEMMA FailsAccounted ==
  ASSUME AllAccounted, NEW c \in Clients, Fails(c)
  PROVE  AllAccounted'
<1>1. flawless' = FALSE /\ memory' = memory
  BY DEF Fails, Return
<1>2. QED
  BY <1>1 DEF AllAccounted, MemoryTyped

LEMMA QuietAccounted ==
  ASSUME Typed, AllAccounted, NEW c \in Clients, Begin(c) \/ InsertRow(c) \/ Acknowledge(c)
  PROVE  AllAccounted'
<1>1. UNCHANGED <<memory, committed, call>>
  BY DEF Begin, InsertRow, Acknowledge, Return
<1>2. (flawless' => flawless) /\ flawless' \in BOOLEAN
  BY DEF Begin, InsertRow, Acknowledge, Return, AllAccounted, MemoryTyped
<1>3. \/ step[c] \in {"begin", "insert"} /\ step'[c] \in {"insert", "commit"}
      \/ step[c] = "committed" /\ step'[c] = "idle"
  BY DEF Begin, InsertRow, Acknowledge, Return, Typed
<1>4. \A d \in Clients \ {c} : step'[d] = step[d]
  BY DEF Begin, InsertRow, Acknowledge, Return, Typed
<1>5. \A d \in Clients : Pending(d)' <=> Pending(d)
  BY <1>3, <1>4 DEF Pending
<1>6. QED
  BY <1>1, <1>2, <1>5, AccountedFrame

LEMMA ClearAccounted ==
  ASSUME AllAccounted, Clear
  PROVE  AllAccounted'
<1>1. /\ memory' = [t \in Tables |-> <<>>] /\ committed' = [t \in Tables |-> {}]
      /\ flawless' = flawless /\ \A c \in Clients : step'[c] = "idle"
  BY DEF Clear
<1>2. MemoryTyped'
  <2>1. \A t \in Tables : memory'[t] = <<>> /\ <<>> \in Seq(RowsIn(t))
    BY <1>1
  <2>2. QED
    BY <1>1, <2>1 DEF AllAccounted, MemoryTyped, RowsIn
<1> DEFINE base == [c \in Clients |-> 0]
<1>3. base \in [Clients -> Nat]
  OBVIOUS
<1> HIDE DEF base
<1>4. \A c \in Clients : ~Pending(c)'
  BY <1>1 DEF Pending
<1>5. \A t \in Tables : committed'[t] = {} /\ Settled(base, t)' = {}
  BY <1>1 DEF Settled
<1>6. Accounted(base)'
  BY <1>3, <1>4, <1>5 DEF Accounted, SpansKept, SpansApart, SettledOnce, Lies
<1>7. QED
  BY <1>2, <1>6 DEF AllAccounted

LEMMA RowsTyped ==
  ASSUME NEW k \in Calls
  PROVE  k.table \in Tables /\ k.rows \in Seq(RowsIn(k.table))
<1>1. k.table \in Tables /\ k.rows \in Seq(RowsOf(k))
  BY CallsAssumption
<1>2. RowsOf(k) \subseteq RowsIn(k.table)
  BY DEF RowsIn
<1>3. QED
  BY <1>1, <1>2, SeqMonotonic

\* What a call adds to memory.
LEMMA CallAppends ==
  ASSUME MemoryTyped, NEW c \in Clients, NEW k \in Calls,
         memory' = [memory EXCEPT ![k.table] = @ \o k.rows]
  PROVE  /\ \A t \in Tables :
              /\ Len(memory[t]) \in Nat /\ Len(memory'[t]) \in Nat
              /\ Len(memory[t]) <= Len(memory'[t])
              /\ \A i \in 1..Len(memory[t]) : memory'[t][i] = memory[t][i]
              /\ t # k.table => memory'[t] = memory[t]
         /\ Len(k.rows) \in Nat
         /\ Len(memory'[k.table]) = Len(memory[k.table]) + Len(k.rows)
         /\ \A j \in 1..Len(k.rows) : memory'[k.table][Len(memory[k.table]) + j] = k.rows[j]
         /\ memory' = [t \in Tables |-> memory'[t]]
         /\ \A t \in Tables : memory'[t] \in Seq(RowsIn(t))
<1>1. PICK T, R : T = k.table /\ R = RowsIn(T)
  OBVIOUS
<1>2. PICK s \in Seq(R), q \in Seq(R) : s = memory[T] /\ q = k.rows /\ T \in Tables
  BY <1>1, RowsTyped DEF MemoryTyped
<1>3. PICK u \in Seq(R) : /\ u = s \o q /\ Len(u) = Len(s) + Len(q)
                          /\ \A i \in 1..(Len(s) + Len(q)) :
                               u[i] = IF i <= Len(s) THEN s[i] ELSE q[i - Len(s)]
  <2>1. /\ s \o q \in Seq(R) /\ Len(s \o q) = Len(s) + Len(q)
        /\ \A i \in 1..(Len(s) + Len(q)) :
             (s \o q)[i] = IF i <= Len(s) THEN s[i] ELSE q[i - Len(s)]
    BY ConcatProperties
  <2>2. QED
    BY <2>1
<1>4. memory' = [t \in Tables |-> IF t = T THEN u ELSE memory[t]]
  BY <1>1, <1>2, <1>3 DEF MemoryTyped
<1>5. memory'[T] = u /\ \A t \in Tables : t # T => memory'[t] = memory[t]
  BY <1>2, <1>4
<1>6. PICK n \in Nat, m \in Nat : n = Len(s) /\ m = Len(q) /\ Len(u) = n + m
  BY <1>3
<1>7. /\ \A i \in 1..n : u[i] = s[i]
      /\ \A j \in 1..m : u[n + j] = q[j]
  <2>1. ASSUME NEW i \in 1..n PROVE u[i] = s[i]
    BY <1>3, <1>6
  <2>2. ASSUME NEW j \in 1..m PROVE u[n + j] = q[j]
    <3>1. n + j \in 1..(n + m) /\ ~(n + j <= n) /\ (n + j) - n = j
      OBVIOUS
    <3>2. QED
      BY <1>3, <1>6, <3>1
  <2>3. QED
    BY <2>1, <2>2
<1>8. ASSUME NEW t \in Tables
      PROVE  /\ Len(memory[t]) \in Nat /\ Len(memory'[t]) \in Nat
             /\ Len(memory[t]) <= Len(memory'[t])
             /\ \A i \in 1..Len(memory[t]) : memory'[t][i] = memory[t][i]
             /\ memory'[t] \in Seq(RowsIn(t))
  <2>1. CASE t = T
    <3>1. memory[t] = s /\ memory'[t] = u /\ RowsIn(t) = R
      BY <1>1, <1>2, <1>5, <2>1
    <3>2. n \in Nat /\ n + m \in Nat /\ n <= n + m
      OBVIOUS
    <3>3. Len(s) \in Nat /\ Len(u) \in Nat /\ Len(s) <= Len(u)
      BY <1>6, <3>2
    <3>4. \A i \in 1..Len(s) : u[i] = s[i]
      BY <1>6, <1>7
    <3>5. u \in Seq(R)
      BY <1>3
    <3>6. QED
      BY <3>1, <3>3, <3>4, <3>5, Zenon
  <2>2. CASE t # T
    <3>1. memory'[t] = memory[t] /\ memory[t] \in Seq(RowsIn(t))
      BY <1>5, <2>2 DEF MemoryTyped
    <3>2. PICK x \in Nat : x = Len(memory[t])
      BY <3>1
    <3>3. x <= x
      OBVIOUS
    <3>4. QED
      BY <3>1, <3>2, <3>3
  <2>3. QED
    BY <2>1, <2>2
<1>9. memory' = [t \in Tables |-> memory'[t]]
  BY <1>4
<1>10. QED
  BY <1>1, <1>2, <1>5, <1>6, <1>7, <1>8, <1>9

LEMMA CallAccounted ==
  ASSUME Typed, AllAccounted, NEW c \in Clients, Call(c)
  PROVE  AllAccounted'
<1>1. PICK k \in Calls :
        /\ call' = [call EXCEPT ![c] = k]
        /\ memory' = [memory EXCEPT ![k.table] = @ \o k.rows]
        /\ IF k.rows = <<>> THEN step' = step ELSE step' = [step EXCEPT ![c] = "begin"]
  BY DEF Call
<1>2. step[c] = "idle" /\ committed' = committed /\ flawless' = flawless
  BY DEF Call
<1>3. MemoryTyped
  BY DEF AllAccounted
<1>0. PICK T, n, m : T = k.table /\ n = Len(memory[k.table]) /\ m = Len(k.rows)
  OBVIOUS
<1>4. /\ \A t \in Tables :
           /\ Len(memory[t]) \in Nat /\ Len(memory'[t]) \in Nat
           /\ Len(memory[t]) <= Len(memory'[t])
           /\ \A i \in 1..Len(memory[t]) : memory'[t][i] = memory[t][i]
           /\ t # T => memory'[t] = memory[t]
      /\ m \in Nat /\ Len(memory'[T]) = n + m
      /\ \A j \in 1..m : memory'[T][n + j] = k.rows[j]
      /\ memory' = [t \in Tables |-> memory'[t]]
      /\ \A t \in Tables : memory'[t] \in Seq(RowsIn(t))
  <2>1. k \in Calls /\ memory' = [memory EXCEPT ![k.table] = @ \o k.rows]
    BY <1>1
  <2>2. /\ \A t \in Tables :
             /\ Len(memory[t]) \in Nat /\ Len(memory'[t]) \in Nat
             /\ Len(memory[t]) <= Len(memory'[t])
             /\ \A i \in 1..Len(memory[t]) : memory'[t][i] = memory[t][i]
             /\ t # k.table => memory'[t] = memory[t]
        /\ Len(k.rows) \in Nat
        /\ Len(memory'[k.table]) = Len(memory[k.table]) + Len(k.rows)
        /\ \A j \in 1..Len(k.rows) : memory'[k.table][Len(memory[k.table]) + j] = k.rows[j]
        /\ memory' = [t \in Tables |-> memory'[t]]
        /\ \A t \in Tables : memory'[t] \in Seq(RowsIn(t))
    BY <1>3, <2>1, CallAppends, Zenon
  <2>3. QED
    BY <1>0, <2>2, Zenon
<1>5. T \in Tables /\ n \in Nat
  BY <1>0, <1>4, RowsTyped
<1>6. MemoryTyped'
  BY <1>2, <1>3, <1>4 DEF MemoryTyped, RowsIn
<1>7. ASSUME flawless' PROVE \E base : Accounted(base)'
  <2>1. PICK base : Accounted(base)
    BY <1>2, <1>7 DEF AllAccounted
  <2>2. base \in [Clients -> Nat] /\ SpansKept(base) /\ SpansApart(base) /\ SettledOnce(base)
    BY <2>1 DEF Accounted
  <2>3. PICK new : new = [base EXCEPT ![c] = n]
    OBVIOUS
  <2>4. new \in [Clients -> Nat] /\ new[c] = n /\ \A d \in Clients \ {c} : new[d] = base[d]
    BY <1>5, <2>2, <2>3
  <2>5. /\ call'[c] = k /\ ~Pending(c)
        /\ \A d \in Clients \ {c} : call'[d] = call[d] /\ (Pending(d)' <=> Pending(d))
        /\ Pending(c)' <=> k.rows # <<>>
    BY <1>1, <1>2 DEF Typed, Pending
  <2>6. ASSUME NEW d \in Clients \ {c}, NEW t, NEW i
        PROVE  Lies(new, d, t, i)' <=> Lies(base, d, t, i)
    BY <2>4, <2>5 DEF Lies
  <2>7. ASSUME NEW t, NEW i
        PROVE  /\ ~Lies(base, c, t, i)
               /\ Lies(new, c, t, i)' <=> t = T /\ i \in (n + 1)..(n + m)
    <3>1. ~Lies(base, c, t, i)
      BY <2>5 DEF Lies
    <3>2. Lies(new, c, t, i)' <=> k.rows # <<>> /\ t = T /\ i \in (n + 1)..(n + m)
      BY <1>0, <2>4, <2>5 DEF Lies
    <3>3. k.rows = <<>> => (n + 1)..(n + m) = {}
      BY <1>0, <1>5
    <3>4. QED
      BY <3>1, <3>2, <3>3
  <2>8. SpansKept(new)'
    <3> SUFFICES ASSUME NEW d \in Clients, Pending(d)'
                 PROVE  /\ new[d] + Len(call'[d].rows) <= Len(memory'[call'[d].table])
                        /\ \A j \in 1..Len(call'[d].rows) :
                             memory'[call'[d].table][new[d] + j] = call'[d].rows[j]
      BY DEF SpansKept
    <3>1. CASE d = c
      <4>1. call'[d] = k /\ new[d] = n
        BY <2>4, <2>5, <3>1
      <4>2. n + m <= Len(memory'[T])
        BY <1>4, <1>5
      <4>3. QED
        BY <1>0, <1>4, <4>1, <4>2
    <3>2. CASE d # c
      <4>1. /\ call'[d] = call[d] /\ new[d] = base[d] /\ base[d] \in Nat
            /\ base[d] + Len(call[d].rows) <= Len(memory[call[d].table])
            /\ \A j \in 1..Len(call[d].rows) :
                 memory[call[d].table][base[d] + j] = call[d].rows[j]
        BY <2>2, <2>4, <2>5, <3>2 DEF SpansKept
      <4>2. call[d].table \in Tables /\ Len(call[d].rows) \in Nat
        BY CallTyped
      <4>3. PICK x \in Nat, y \in Nat, z \in Nat :
              /\ x = Len(call[d].rows) /\ y = Len(memory[call[d].table])
              /\ z = Len(memory'[call[d].table]) /\ y <= z
        BY <1>4, <4>2
      <4>4. ASSUME NEW j \in 1..x
            PROVE  memory'[call[d].table][base[d] + j] = call[d].rows[j]
        <5>1. base[d] + j \in 1..y
          BY <4>1, <4>3
        <5>2. QED
          BY <1>4, <4>1, <4>2, <4>3, <5>1
      <4>5. base[d] + x <= z
        <5>1. PICK w \in Nat : w = base[d] /\ w + x <= y
          BY <4>1, <4>3
        <5>2. y <= z
          BY <4>3
        <5>3. w + x <= z
          BY <5>1, <5>2
        <5>4. QED
          BY <5>1, <5>3
      <4>6. x = Len(call'[d].rows) /\ z = Len(memory'[call'[d].table])
        BY <4>1, <4>3
      <4>7. \A j \in 1..x : memory'[call'[d].table][new[d] + j] = call'[d].rows[j]
        BY <4>1, <4>4
      <4>8. new[d] + x <= z
        BY <4>1, <4>5
      <4>9. QED
        BY <4>6, <4>7, <4>8
    <3>3. QED
      BY <3>1, <3>2
  <2>9. ASSUME NEW d \in Clients \ {c}, NEW i, Lies(base, d, T, i) PROVE i \in 1..n
    <3>1. /\ base[d] \in Nat /\ call[d].table = T /\ Len(call[d].rows) \in Nat
          /\ base[d] + Len(call[d].rows) <= n
          /\ i \in (base[d] + 1)..(base[d] + Len(call[d].rows))
      BY <1>0, <2>2, <2>9, CallTyped DEF Lies, SpansKept
    <3>2. QED
      BY <1>5, <3>1
  <2>10. SpansApart(new)'
    <3> SUFFICES ASSUME NEW d \in Clients, NEW e \in Clients, d # e, NEW t \in Tables, NEW i \in Nat,
                        Lies(new, d, t, i)', Lies(new, e, t, i)'
                 PROVE  FALSE
      BY DEF SpansApart
    <3>1. CASE d # c /\ e # c
      BY <2>2, <2>6, <3>1 DEF SpansApart
    <3>2. CASE d = c
      <4>1. t = T /\ i \in (n + 1)..(n + m) /\ i \in 1..n
        BY <2>6, <2>7, <2>9, <3>2
      <4>2. QED
        BY <1>4, <1>5, <4>1
    <3>3. CASE e = c
      <4>1. t = T /\ i \in (n + 1)..(n + m) /\ i \in 1..n
        BY <2>6, <2>7, <2>9, <3>3
      <4>2. QED
        BY <1>4, <1>5, <4>1
    <3>4. QED
      BY <3>1, <3>2, <3>3
  <2>11. ASSUME NEW t \in Tables PROVE Settled(new, t)' = Settled(base, t)
    <3>1. \A i : (\A d \in Clients : ~Lies(new, d, t, i)')
                   <=> (\A d \in Clients : ~Lies(base, d, t, i)) /\ ~(t = T /\ i \in (n + 1)..(n + m))
      BY <2>6, <2>7
    <3>2. CASE t = T
      <4>0. n \in Nat /\ m \in Nat
        BY <1>4, <1>5
      <4>1. \A i \in 1..(n + m) : i \in 1..n <=> ~(i \in (n + 1)..(n + m))
        BY <4>0
      <4>2. 1..n \subseteq 1..(n + m)
        BY <4>0
      <4>3. Settled(new, t)' = {i \in 1..(n + m) : \A d \in Clients : ~Lies(new, d, t, i)'}
        BY <1>4, <3>2 DEF Settled
      <4>4. Settled(base, t) = {i \in 1..n : \A d \in Clients : ~Lies(base, d, t, i)}
        BY <1>0, <3>2 DEF Settled
      <4>5. QED
        BY <3>1, <3>2, <4>1, <4>2, <4>3, <4>4
    <3>3. CASE t # T
      <4>1. memory'[t] = memory[t]
        BY <1>4, <3>3
      <4>2. QED
        BY <3>1, <3>3, <4>1 DEF Settled
    <3>4. QED
      BY <3>2, <3>3
  <2>12. \A t \in Tables : \A i \in Settled(base, t) : memory'[t][i] = memory[t][i]
    BY <1>4 DEF Settled
  <2>13. SettledOnce(new)'
    BY <1>2, <2>2, <2>11, <2>12 DEF SettledOnce
  <2>14. QED
    BY <2>4, <2>8, <2>10, <2>13 DEF Accounted
<1>8. QED
  BY <1>6, <1>7 DEF AllAccounted

\* The rows of a call that commits settle.
LEMMA CommitAccounted ==
  ASSUME Isolated, AllAccounted, NEW c \in Clients, Commit(c)
  PROVE  AllAccounted'
<1>0. PICK T, m, list : T = call[c].table /\ m = Len(call[c].rows) /\ list = memory[T]
  OBVIOUS
<1>1. /\ UNCHANGED <<memory, call, flawless>> /\ step[c] = "commit"
      /\ step' = [step EXCEPT ![c] = "committed"]
      /\ committed' = [committed EXCEPT ![T] = @ \cup InTransaction(c)]
  BY <1>0 DEF Commit
<1>2. T \in Tables /\ m \in Nat /\ inserted[c] = m
  BY <1>0, <1>1, CallTyped DEF Isolated, Progress
<1>3. /\ committed'[T] = committed[T] \cup InTransaction(c)
      /\ \A t \in Tables : t # T => committed'[t] = committed[t]
      /\ \A d \in Clients \ {c} : step'[d] = step[d]
      /\ step'[c] = "committed"
  BY <1>1, <1>2 DEF Isolated, Typed
<1>4. InTransaction(c) = {call[c].rows[i] : i \in 1..m}
  BY <1>2 DEF InTransaction
<1>5. MemoryTyped'
  BY <1>1 DEF AllAccounted, MemoryTyped
<1>6. ASSUME flawless' PROVE \E base : Accounted(base)'
  <2>1. PICK base : Accounted(base)
    BY <1>1, <1>6 DEF AllAccounted
  <2>2. base \in [Clients -> Nat] /\ SpansKept(base) /\ SpansApart(base) /\ SettledOnce(base)
    BY <2>1 DEF Accounted
  <2>3. /\ Pending(c) /\ ~Pending(c)'
        /\ \A d \in Clients \ {c} : Pending(d)' <=> Pending(d)
    BY <1>1, <1>3 DEF Pending
  <2>4. /\ \A d \in Clients \ {c} : \A t, i : Lies(base, d, t, i)' <=> Lies(base, d, t, i)
        /\ \A t, i : ~Lies(base, c, t, i)'
    BY <1>1, <2>3 DEF Lies
  <2>0. PICK span : span = (base[c] + 1)..(base[c] + m)
    OBVIOUS
  <2>5. \A t, i : Lies(base, c, t, i) <=> t = T /\ i \in span
    BY <1>0, <2>0, <2>3 DEF Lies
  <2>6. /\ base[c] \in Nat /\ Len(list) \in Nat /\ base[c] + m <= Len(list)
        /\ \A j \in 1..m : list[base[c] + j] = call[c].rows[j]
    BY <1>0, <1>2, <2>2, <2>3 DEF SpansKept, AllAccounted, MemoryTyped
  <2>7. SpansKept(base)' /\ SpansApart(base)'
    BY <1>1, <2>2, <2>3, <2>4 DEF SpansKept, SpansApart
  <2>8. span \subseteq 1..Len(list)
    BY <1>2, <2>0, <2>6
  <2>9. \A t \in Tables : t # T => Settled(base, t)' = Settled(base, t)
    BY <1>1, <2>4, <2>5 DEF Settled
  <2>10. Settled(base, T)' = Settled(base, T) \cup span
    <3>1. ASSUME NEW i \in span, NEW d \in Clients \ {c} PROVE ~Lies(base, d, T, i)
      <4>1. i \in Nat
        BY <2>8
      <4>2. QED
        BY <1>2, <2>2, <2>5, <4>1 DEF SpansApart
    <3>2. \A i \in 1..Len(list) :
            (\A d \in Clients : ~Lies(base, d, T, i)') <=> \A d \in Clients \ {c} : ~Lies(base, d, T, i)
      <4> SUFFICES ASSUME NEW i
                   PROVE  (\A d \in Clients : ~Lies(base, d, T, i)')
                            <=> \A d \in Clients \ {c} : ~Lies(base, d, T, i)
        OBVIOUS
      <4>1. /\ \A d \in Clients \ {c} : Lies(base, d, T, i)' <=> Lies(base, d, T, i)
            /\ ~Lies(base, c, T, i)'
        BY <2>4
      <4>2. QED
        BY <4>1
    <3>3. Settled(base, T)' = {i \in 1..Len(list) : \A d \in Clients \ {c} : ~Lies(base, d, T, i)}
      BY <1>0, <1>1, <3>2 DEF Settled
    <3>4. Settled(base, T) = {i \in 1..Len(list) : /\ i \notin span
                                                  /\ \A d \in Clients \ {c} : ~Lies(base, d, T, i)}
      BY <1>0, <2>5 DEF Settled
    <3>5. QED
      BY <2>8, <3>1, <3>3, <3>4
  <2>11. ASSUME NEW i \in span
         PROVE  \E j \in 1..m : i = base[c] + j /\ list[i] = call[c].rows[j]
    <3>1. i - base[c] \in 1..m /\ base[c] + (i - base[c]) = i
      BY <1>2, <2>0, <2>6
    <3>2. QED
      BY <2>6, <3>1
  <2>12. /\ \A i, j \in 1..m : call[c].rows[i] = call[c].rows[j] => i = j
         /\ \A i \in 1..m : call[c].rows[i] \notin committed[T]
    BY <1>0, <1>2 DEF Isolated, KeysDistinct, KeysFree, KeyAt
  <2>13. /\ \A i \in Settled(base, T) : list[i] \in committed[T]
         /\ \A i, j \in Settled(base, T) : list[i] = list[j] => i = j
         /\ \A r \in committed[T] : \E i \in Settled(base, T) : list[i] = r
    BY <1>0, <1>2, <2>2 DEF SettledOnce
  <2>14. \A i \in Settled(base, T) \cup span : list[i] \in committed'[T]
    BY <1>3, <1>4, <2>11, <2>13
  <2>15. \A i, j \in Settled(base, T) \cup span : list[i] = list[j] => i = j
    <3> SUFFICES ASSUME NEW i \in Settled(base, T) \cup span, NEW j \in Settled(base, T) \cup span,
                        list[i] = list[j]
                 PROVE  i = j
      OBVIOUS
    <3>1. CASE i \in Settled(base, T) /\ j \in Settled(base, T)
      BY <2>13, <3>1
    <3>2. CASE i \in span /\ j \in span
      BY <2>11, <2>12, <3>2
    <3>3. CASE i \in span /\ j \in Settled(base, T)
      BY <2>11, <2>12, <2>13, <3>3
    <3>4. CASE j \in span /\ i \in Settled(base, T)
      BY <2>11, <2>12, <2>13, <3>4
    <3>5. QED
      BY <3>1, <3>2, <3>3, <3>4
  <2>16. \A r \in committed'[T] : \E i \in Settled(base, T) \cup span : list[i] = r
    <3> SUFFICES ASSUME NEW r \in committed'[T]
                 PROVE  \E i \in Settled(base, T) \cup span : list[i] = r
      OBVIOUS
    <3>1. CASE r \in committed[T]
      BY <2>13, <3>1
    <3>2. CASE r \notin committed[T]
      <4>1. PICK j \in 1..m : r = call[c].rows[j]
        BY <1>3, <1>4, <3>2
      <4>2. base[c] + j \in span
        BY <1>2, <2>0, <2>6, <4>1
      <4>3. list[base[c] + j] = r
        BY <2>6, <4>1
      <4>4. QED
        BY <4>2, <4>3
    <3>3. QED
      BY <3>1, <3>2
  <2>17. SettledOnce(base)'
    <3> SUFFICES ASSUME NEW t \in Tables
                 PROVE  /\ \A i \in Settled(base, t)' : memory[t][i] \in committed'[t]
                        /\ \A i, j \in Settled(base, t)' : memory[t][i] = memory[t][j] => i = j
                        /\ \A r \in committed'[t] : \E i \in Settled(base, t)' : memory[t][i] = r
      BY <1>1 DEF SettledOnce
    <3>1. CASE t = T
      BY <1>0, <2>10, <2>14, <2>15, <2>16, <3>1
    <3>2. CASE t # T
      BY <1>3, <2>2, <2>9, <3>2 DEF SettledOnce
    <3>3. QED
      BY <3>1, <3>2
  <2>18. QED
    BY <2>2, <2>7, <2>17 DEF Accounted
<1>7. QED
  BY <1>5, <1>6 DEF AllAccounted

LEMMA AccountedAlways == Spec => []AllAccounted
<1>1. Isolated /\ AllAccounted /\ [Next]_vars => AllAccounted'
  <2> SUFFICES ASSUME Isolated, AllAccounted, [Next]_vars PROVE AllAccounted'
    OBVIOUS
  <2>1. CASE UNCHANGED vars
    <3>1. /\ UNCHANGED <<memory, committed, call>> /\ flawless' = flawless
          /\ \A c \in Clients : Pending(c)' <=> Pending(c)
      BY <2>1 DEF vars, Pending
    <3>2. QED
      BY <3>1, AccountedFrame DEF AllAccounted, MemoryTyped
  <2>2. Typed
    BY DEF Isolated
  <2>3. QED
    BY <2>1, <2>2, NextCases, CallAccounted, QuietAccounted, CommitAccounted, FailsAccounted,
       ClearAccounted
<1>2. QED
  BY <1>1, AccountedInit, IsolatedAlways, PTL DEF Spec

-------------------------------------------------------------------------------
(* What they answer, with no call under way. *)

Alike(t) ==
  /\ memory[t] \in Seq(RowsIn(t))
  /\ IsInjective(memory[t])
  /\ Range(memory[t]) = committed[t]

\* What was saved is in both, once.
LEMMA SameRows ==
  ASSUME AllAccounted, flawless, \A c \in Clients : step[c] = "idle", NEW t \in Tables
  PROVE  Alike(t)
<1>1. PICK base : SettledOnce(base)
  BY DEF AllAccounted, Accounted
<1>2. PICK s, R : s = memory[t] /\ R = RowsIn(t) /\ s \in Seq(R)
  BY DEF AllAccounted, MemoryTyped
<1>3. DOMAIN s = 1..Len(s)
  BY <1>2
<1>4. \A c \in Clients : ~Pending(c)
  BY DEF Pending
<1>5. Settled(base, t) = DOMAIN s
  BY <1>2, <1>3, <1>4 DEF Settled, Lies
<1>6. /\ \A i \in DOMAIN s : s[i] \in committed[t]
      /\ \A i, j \in DOMAIN s : s[i] = s[j] => i = j
      /\ \A r \in committed[t] : \E i \in DOMAIN s : s[i] = r
  BY <1>1, <1>2, <1>5 DEF SettledOnce
<1>7. IsInjective(s) /\ Range(s) = committed[t]
  BY <1>6 DEF IsInjective, Range
<1>8. QED
  BY <1>2, <1>7 DEF Alike

LEMMA InjectiveSize ==
  ASSUME NEW D, NEW s \in Seq(D), IsInjective(s)
  PROVE  IsFiniteSet(Range(s)) /\ Cardinality(Range(s)) = Len(s)
<1>1. PICK n, R : n \in Nat /\ n = Len(s) /\ R = Range(s) /\ DOMAIN s = 1..n
  OBVIOUS
<1>2. s \in [1..n -> R] /\ \A r \in R : \E i \in 1..n : s[i] = r
  BY <1>1 DEF Range
<1>3. s \in Injection(1..n, R)
  BY <1>2 DEF Injection
<1>4. s \in Surjection(1..n, R)
  BY <1>2 DEF Surjection
<1>5. s \in Bijection(1..n, R)
  BY <1>3, <1>4 DEF Bijection
<1>6. Cardinality(R) = n
  BY <1>1, <1>5, FS_CountingElements DEF ExistsBijection
<1>7. IsFiniteSet(R)
  BY <1>1, <1>5, FS_NatBijection DEF ExistsBijection
<1>8. QED
  BY <1>1, <1>6, <1>7

LEMMA MinOfTwo ==
  ASSUME NEW a \in Int, NEW b \in Int
  PROVE  Min({a, b}) = IF a <= b THEN a ELSE b
<1>1. \E x \in {a, b} : \A y \in {a, b} : x <= y
  OBVIOUS
<1>2. Min({a, b}) \in {a, b} /\ \A y \in {a, b} : Min({a, b}) <= y
  BY <1>1 DEF Min
<1>3. QED
  BY <1>2

LEMMA MaxOfTwo ==
  ASSUME NEW a \in Int, NEW b \in Int
  PROVE  Max({a, b}) = IF a >= b THEN a ELSE b
<1>1. \E x \in {a, b} : \A y \in {a, b} : x >= y
  OBVIOUS
<1>2. Max({a, b}) \in {a, b} /\ \A y \in {a, b} : Max({a, b}) >= y
  BY <1>1 DEF Max
<1>3. QED
  BY <1>2

\* The first n of a list.
LEMMA FirstOf ==
  ASSUME NEW D, NEW s \in Seq(D), NEW n \in 0..Len(s)
  PROVE  /\ SubSeq(s, 1, n) \in Seq(D) /\ Len(SubSeq(s, 1, n)) = n
         /\ DOMAIN SubSeq(s, 1, n) = 1..n
         /\ \A i \in 1..n : SubSeq(s, 1, n)[i] = s[i]
         /\ Range(SubSeq(s, 1, n)) \subseteq Range(s)
         /\ IsInjective(s) => IsInjective(SubSeq(s, 1, n))
<1>1. PICK q : q = SubSeq(s, 1, n)
  OBVIOUS
<1>2. /\ q \in Seq(D) /\ Len(q) = n /\ DOMAIN q = 1..n /\ \A i \in 1..n : q[i] = s[i]
      /\ DOMAIN s = 1..Len(s) /\ Len(s) \in Nat
  BY <1>1
<1>3. \A i \in 1..n : i \in DOMAIN s
  BY <1>2
<1>4. Range(q) \subseteq Range(s)
  BY <1>2, <1>3 DEF Range
<1>5. IsInjective(s) => IsInjective(q)
  BY <1>2, <1>3 DEF IsInjective
<1>6. QED
  BY <1>1, <1>2, <1>4, <1>5

Asked(f) == {r \in committed["log_records"] : ~Skipped(r, f)}

\* The records that a query of memory finds.
LEMMA QueryFinds ==
  ASSUME Alike("log_records"), NEW f, f.limit \in Nat \ {0}
  PROVE  LET found == MemoryQuery(f)
             size == Cardinality(Asked(f))
         IN  /\ IsFiniteSet(Asked(f)) /\ size \in Nat /\ size <= Len(memory["log_records"])
             /\ IsInjective(found) /\ Range(found) \subseteq Asked(f)
             /\ Len(found) = IF f.limit <= size THEN f.limit ELSE size
             /\ Cardinality(Range(found)) = Len(found)
<1>1. PICK list, D : list = memory["log_records"] /\ D = RowsIn("log_records")
  OBVIOUS
<1>2. list \in Seq(D) /\ IsInjective(list) /\ Range(list) = committed["log_records"]
  BY <1>1 DEF Alike
<1>3. PICK T : T = Asked(f) /\ T = {r \in Range(list) : ~Skipped(r, f)} /\ T \subseteq Range(list)
  BY <1>2 DEF Asked
<1>4. PICK kept : kept = Filter(list, T)
  OBVIOUS
<1>5. kept \in Seq(D) /\ IsInjective(kept) /\ Range(kept) = T
  BY <1>2, <1>3, <1>4, FilterKeeps
<1>6. IsFiniteSet(T) /\ Cardinality(T) = Len(kept) /\ Len(kept) \in Nat
  BY <1>5, InjectiveSize
<1>7. IsFiniteSet(Range(list)) /\ Cardinality(Range(list)) = Len(list)
  BY <1>2, InjectiveSize
<1>8. Len(kept) <= Len(list)
  BY <1>3, <1>6, <1>7, FS_Subset
<1>9. PICK m : m = IF f.limit <= Len(kept) THEN f.limit ELSE Len(kept)
  OBVIOUS
<1>10. MemoryQuery(f) = SubSeq(kept, 1, m)
  <2>1. Max({1, f.limit}) = f.limit
    BY MaxOfTwo
  <2>2. Min({Len(kept), Max({1, f.limit})}) = m
    <3>1. PICK a \in Int, b \in Int : a = Len(kept) /\ b = f.limit /\ b = Max({1, f.limit})
      BY <1>6, <2>1
    <3>2. Min({a, b}) = IF a <= b THEN a ELSE b
      BY MinOfTwo
    <3>3. m = IF b <= a THEN b ELSE a
      BY <1>9, <3>1
    <3>4. m = Min({a, b})
      BY <3>2, <3>3
    <3>5. QED
      BY <3>1, <3>4, Zenon
  <2>3. MemoryQuery(f) = SubSeq(kept, 1, Min({Len(kept), Max({1, f.limit})}))
    BY <1>1, <1>3, <1>4, Zenon DEF MemoryQuery
  <2>4. QED
    BY <2>2, <2>3
<1>11. m \in 0..Len(kept)
  BY <1>6, <1>9
<1>12. PICK found : found = SubSeq(kept, 1, m)
  OBVIOUS
<1>13. /\ found \in Seq(D) /\ Len(found) = m /\ IsInjective(found) /\ Range(found) \subseteq T
  BY <1>5, <1>11, <1>12, FirstOf
<1>14. Cardinality(Range(found)) = Len(found)
  BY <1>13, InjectiveSize
<1>15. QED
  BY <1>1, <1>3, <1>6, <1>8, <1>9, <1>10, <1>12, <1>13, <1>14

LEMMA LogRowTyped ==
  ASSUME NEW r \in RowsIn("log_records")
  PROVE  /\ r.time \in Int \cup {NoTime}
         /\ r.severity \notin Nulls \cup {Unset} /\ r.source \notin Nulls \cup {Unset}
         /\ r.run # NoRun => RunOf(RunText(r.run)) = r.run /\ r.run # NoTime
<1>1. PICK k \in Calls : r \in RowsOf(k) /\ k.table = "log_records"
  BY DEF RowsIn
<1>2. QED
  BY <1>1, RowsAssumption

\* What the three operators of a clause say.
LEMMA ClauseHolds ==
  ASSUME NEW column, NEW value, NEW r
  PROVE  /\ (\A cl \in Clause(column, "=", value) : Holds(r, cl))
              <=> value = Unset \/ (r[column] \notin Nulls /\ r[column] = value)
         /\ (\A cl \in Clause(column, ">=", value) : Holds(r, cl))
              <=> value = Unset \/ (r[column] \notin Nulls /\ r[column] >= value)
         /\ (\A cl \in Clause(column, "<=", value) : Holds(r, cl))
              <=> value = Unset \/ (r[column] \notin Nulls /\ r[column] <= value)
<1> DEFINE cl(op) == [column |-> column, op |-> op, value |-> value]
<1>1. \A op : Clause(column, op, value) = IF value = Unset THEN {} ELSE {cl(op)}
  BY DEF Clause
<1>2. \A op : cl(op).column = column /\ cl(op).op = op /\ cl(op).value = value
  OBVIOUS
<1> HIDE DEF cl
<1>3. /\ Holds(r, cl("=")) <=> r[column] \notin Nulls /\ r[column] = value
      /\ Holds(r, cl(">=")) <=> r[column] \notin Nulls /\ r[column] >= value
      /\ Holds(r, cl("<=")) <=> r[column] \notin Nulls /\ r[column] <= value
  BY <1>2 DEF Holds
<1>4. QED
  BY <1>1, <1>3

\* The conditions of the SELECT are those of the loop.
LEMMA SameConditions ==
  ASSUME NEW f \in Filters, Canonical(f), NEW r \in RowsIn("log_records")
  PROVE  (\A cl \in Clauses(f) : Holds(r, cl)) <=> ~Skipped(r, f)
<1>1. /\ r.time \in Int \cup {NoTime} /\ r.severity \notin Nulls /\ r.source \notin Nulls
      /\ r.time \in Nulls <=> r.time = NoTime
      /\ r.run # NoRun => RunOf(RunText(r.run)) = r.run /\ r.run # NoTime
  BY LogRowTyped, RowsAssumption DEF Nulls
<1>2. f.after \in Int \cup {Unset} /\ f.before \in Int \cup {Unset}
  BY FiltersAssumption
<1>3. (\A cl \in Clause("severity", "=", f.severity) : Holds(r, cl))
        <=> f.severity = Unset \/ r.severity = f.severity
  BY <1>1, ClauseHolds
<1>4. (\A cl \in Clause("source", "=", f.source) : Holds(r, cl))
        <=> f.source = Unset \/ r.source = f.source
  BY <1>1, ClauseHolds
<1>5. (\A cl \in Clause("run", "=", RunAsked(f)) : Holds(r, cl))
        <=> f.run = Unset \/ RunText(r.run) = f.run
  <2>1. (\A cl \in Clause("run", "=", RunAsked(f)) : Holds(r, cl))
          <=> RunAsked(f) = Unset \/ (r.run \notin Nulls /\ r.run = RunAsked(f))
    BY ClauseHolds
  <2>2. CASE f.run = Unset
    BY <2>1, <2>2 DEF RunAsked
  <2>3. CASE f.run # Unset
    <3>1. /\ RunAsked(f) = RunOf(f.run) /\ RunOf(f.run) # Malformed
          /\ RunText(RunOf(f.run)) = f.run
      BY <2>3 DEF RunAsked, Canonical
    <3>2. RunOf(f.run) \notin Nulls \cup {Unset}
      BY FiltersAssumption
    <3>3. RunText(r.run) = f.run => r.run = RunOf(f.run)
      BY <1>1, <3>1, RowsAssumption
    <3>4. QED
      BY <2>1, <2>3, <3>1, <3>2, <3>3
  <2>4. QED
    BY <2>2, <2>3
<1>6. (\A cl \in Clause("time", ">=", f.after) : Holds(r, cl))
        <=> f.after = Unset \/ (r.time # NoTime /\ r.time >= f.after)
  BY <1>1, <1>2, ClauseHolds
<1>7. (\A cl \in Clause("time", "<=", f.before) : Holds(r, cl))
        <=> f.before = Unset \/ (r.time # NoTime /\ r.time <= f.before)
  BY <1>1, <1>2, ClauseHolds
<1>8. (\A cl \in Clauses(f) : Holds(r, cl)) <=>
        /\ f.severity = Unset \/ r.severity = f.severity
        /\ f.source = Unset \/ r.source = f.source
        /\ f.run = Unset \/ RunText(r.run) = f.run
        /\ f.after = Unset \/ (r.time # NoTime /\ r.time >= f.after)
        /\ f.before = Unset \/ (r.time # NoTime /\ r.time <= f.before)
  <2>1. (\A cl \in Clauses(f) : Holds(r, cl)) <=>
          /\ \A cl \in Clause("severity", "=", f.severity) : Holds(r, cl)
          /\ \A cl \in Clause("source", "=", f.source) : Holds(r, cl)
          /\ \A cl \in Clause("run", "=", RunAsked(f)) : Holds(r, cl)
          /\ \A cl \in Clause("time", ">=", f.after) : Holds(r, cl)
          /\ \A cl \in Clause("time", "<=", f.before) : Holds(r, cl)
    BY DEF Clauses
  <2>2. QED
    BY <1>3, <1>4, <1>5, <1>6, <1>7, <2>1
<1>9. f.after # Unset /\ r.time # NoTime => (r.time >= f.after <=> ~(r.time < f.after))
  BY <1>1, <1>2
<1>10. f.before # Unset /\ r.time # NoTime => (r.time <= f.before <=> ~(r.time > f.before))
  BY <1>1, <1>2
<1>11. QED
  BY <1>8, <1>9, <1>10 DEF Skipped

LEMMA AlikeTyped ==
  ASSUME NEW t \in Tables, Alike(t), NEW r \in committed[t]
  PROVE  r \in RowsIn(t)
<1>1. PICK s, D : s = memory[t] /\ D = RowsIn(t) /\ s \in Seq(D)
  BY DEF Alike
<1>2. \A i \in DOMAIN s : s[i] \in D
  BY <1>1
<1>3. QED
  BY <1>1, <1>2 DEF Alike, Range

LEMMA QueriesAgree ==
  ASSUME Alike("log_records")
  PROVE  QueriesAlike
<1> SUFFICES ASSUME NEW f \in Filters, Canonical(f)
             PROVE  /\ IsInjective(MemoryQuery(f))
                    /\ {ReadBack(r) : r \in Range(MemoryQuery(f))} \in PostgresAnswers(f)
  BY DEF QueriesAlike, QueryAlike
<1>1. f.limit \in Nat \ {0}
  BY FiltersAssumption
<1>2. \A r \in committed["log_records"] : r \in RowsIn("log_records")
  BY AlikeTyped DEF Tables
<1>3. Matching(f) = Asked(f)
  BY <1>2, SameConditions DEF Matching, Asked
<1>4. PICK found, S, n : found = MemoryQuery(f) /\ S = Asked(f) /\ n = Cardinality(S)
  OBVIOUS
<1>5. /\ n \in Nat /\ IsInjective(found) /\ Range(found) \subseteq S
      /\ Cardinality(Range(found)) = IF f.limit <= n THEN f.limit ELSE n
  BY <1>1, <1>4, QueryFinds
<1>6. Min({f.limit, n}) = IF f.limit <= n THEN f.limit ELSE n
  BY <1>1, <1>5, MinOfTwo
<1>7. Range(found) \in kSubset(Min({f.limit, n}), S)
  BY <1>5, <1>6 DEF kSubset
<1>8. {ReadBack(r) : r \in Range(found)} \in PostgresAnswers(f)
  <2>1. RunAsked(f) # Malformed
    BY FiltersAssumption DEF RunAsked, Canonical
  <2>2. QED
    BY <1>3, <1>4, <1>7, <2>1, Zenon DEF PostgresAnswers
<1>9. QED
  BY <1>4, <1>5, <1>8

LEMMA OnlyThose ==
  ASSUME NEW column \in {"severity", "source"}, NEW r \in RowsIn("log_records"),
         NEW v \in Range([x \in RowsIn("log_records") |-> x[column]])
  PROVE  ~Skipped(r, Only(column, v)) <=> r[column] = v
<1>1. PICK x \in RowsIn("log_records") : v = x[column]
  BY DEF Range
<1>2. PICK f : f = Only(column, v)
  OBVIOUS
<1>3. /\ f.severity = (IF column = "severity" THEN v ELSE Unset)
      /\ f.source = (IF column = "source" THEN v ELSE Unset)
      /\ f.run = Unset /\ f.after = Unset /\ f.before = Unset
  BY <1>2 DEF Only
<1>4. CASE column = "severity"
  <2>1. v # Unset
    BY <1>1, <1>4, LogRowTyped
  <2>2. f.severity = v /\ f.source = Unset
    BY <1>3, <1>4
  <2>3. Skipped(r, f) <=> r.severity # v
    BY <1>3, <2>1, <2>2 DEF Skipped
  <2>4. QED
    BY <1>2, <1>4, <2>3
<1>5. CASE column = "source"
  <2>1. v # Unset
    BY <1>1, <1>5, LogRowTyped
  <2>2. f.source = v /\ f.severity = Unset
    BY <1>3, <1>5
  <2>3. Skipped(r, f) <=> r.source # v
    BY <1>3, <2>1, <2>2 DEF Skipped
  <2>4. QED
    BY <1>2, <1>5, <2>3
<1>6. QED
  BY <1>4, <1>5

LEMMA CountsAgree ==
  ASSUME Alike("log_records")
  PROVE  CountsAlike
<1> SUFFICES ASSUME NEW column \in {"severity", "source"}
             PROVE  LET counts == PostgresCounts(column)
                    IN  /\ MemoryCounts(column) = counts
                        /\ \A v \in DOMAIN counts : counts[v] = Len(MemoryQuery(Only(column, v)))
  BY Zenon DEF CountsAlike
<1>1. PICK list, D : list = memory["log_records"] /\ D = RowsIn("log_records")
  OBVIOUS
<1>2. list \in Seq(D) /\ IsInjective(list) /\ Range(list) = committed["log_records"]
  BY <1>1 DEF Alike
<1> DEFINE Having(v) == {r \in Range(list) : r[column] = v}
           V == {r[column] : r \in Range(list)}
<1>3. ASSUME NEW v \in V PROVE Len(Filter(list, Having(v))) = Cardinality(Having(v))
  <2>1. PICK q, T : q = Filter(list, T) /\ T = Having(v) /\ T \subseteq Range(list)
    OBVIOUS
  <2>2. q \in Seq(D) /\ IsInjective(q) /\ Range(q) = T
    BY <1>2, <2>1, FilterKeeps
  <2>3. Cardinality(T) = Len(q)
    BY <2>2, InjectiveSize
  <2>4. QED
    BY <2>1, <2>3
<1>4. MemoryCounts(column) = [v \in V |-> Len(Filter(list, Having(v)))]
  BY <1>1, Zenon DEF MemoryCounts
<1>5. PostgresCounts(column) = [v \in V |-> Cardinality(Having(v))]
  BY <1>2, Zenon DEF PostgresCounts
<1>6. ASSUME NEW v \in V PROVE Cardinality(Having(v)) = Len(MemoryQuery(Only(column, v)))
  <2>1. PICK f : f = Only(column, v)
    OBVIOUS
  <2>2. \A r \in Range(list) : r \in D
    BY <1>1, <1>2, AlikeTyped DEF Tables
  <2>3. \A r \in Range(list) : ~Skipped(r, f) <=> r[column] = v
    <3>1. v \in Range([x \in D |-> x[column]])
      BY <2>2 DEF Range
    <3>2. QED
      BY <1>1, <2>1, <2>2, <3>1, OnlyThose
  <2>4. Asked(f) = Having(v)
    BY <1>2, <2>3 DEF Asked
  <2>5. PICK n \in Nat : n = Len(list)
    BY <1>2
  <2>6. f.limit = n + 1
    BY <1>1, <2>1, <2>5 DEF Only
  <2>7. f.limit \in Nat \ {0}
    BY <2>5, <2>6
  <2>8. PICK m : m = Cardinality(Asked(f))
    OBVIOUS
  <2>9. m \in Nat /\ m <= n /\ Len(MemoryQuery(f)) = IF f.limit <= m THEN f.limit ELSE m
    BY <1>1, <2>5, <2>7, <2>8, QueryFinds
  <2>10. Len(MemoryQuery(f)) = m
    BY <2>5, <2>6, <2>9
  <2>11. QED
    BY <2>1, <2>4, <2>8, <2>10
<1> HIDE DEF Having, V
<1>7. MemoryCounts(column) = PostgresCounts(column)
  BY <1>3, <1>4, <1>5
<1>8. ASSUME NEW v \in DOMAIN PostgresCounts(column)
      PROVE  PostgresCounts(column)[v] = Len(MemoryQuery(Only(column, v)))
  BY <1>5, <1>6, <1>8
<1>9. QED
  BY <1>7, <1>8, Zenon


-------------------------------------------------------------------------------
(* The same rows, newest first, whatever order they come in. *)

LEMMA PrecedesOrders ==
  ASSUME NEW D, NEW s \in Seq(D), \A i \in DOMAIN s : s[i].time \in Int
  PROVE  /\ \A i, j \in DOMAIN s : i # j => Precedes(s, i, j) \/ Precedes(s, j, i)
         /\ \A i \in DOMAIN s : ~Precedes(s, i, i)
         /\ \A i, j, k \in DOMAIN s : Precedes(s, i, j) /\ Precedes(s, j, k) => Precedes(s, i, k)
<1>1. DOMAIN s \subseteq Int
  OBVIOUS
<1>2. PICK time : time = [i \in DOMAIN s |-> s[i].time]
  OBVIOUS
<1>3. \A i \in DOMAIN s : time[i] \in Int /\ s[i].time = time[i]
  BY <1>2
<1>4. \A i, j \in DOMAIN s :
        Precedes(s, i, j) <=> time[i] > time[j] \/ (time[i] = time[j] /\ i < j)
  BY <1>3 DEF Precedes
<1>5. QED
  BY <1>1, <1>3, <1>4

LEMMA UpTo == \A n \in Nat : IsFiniteSet(1..n) /\ Cardinality(1..n) = n
BY FS_Interval

\* Each element has a place of its own.
LEMMA PlacesDiffer ==
  ASSUME NEW D, NEW s \in Seq(D), \A i \in DOMAIN s : s[i].time \in Int
  PROVE  /\ \A j \in DOMAIN s : Place(s, j) \in 1..Len(s)
         /\ \A i, j \in DOMAIN s : Precedes(s, i, j) => Place(s, i) < Place(s, j)
<1>1. PICK n \in Nat : n = Len(s) /\ DOMAIN s = 1..n
  OBVIOUS
<1> DEFINE Before(j) == {i \in DOMAIN s : Precedes(s, i, j)}
<1>2. ASSUME NEW j \in DOMAIN s
      PROVE  /\ IsFiniteSet(Before(j)) /\ Cardinality(Before(j)) \in Nat
             /\ Cardinality(Before(j)) < n
  <2>1. IsFiniteSet(1..n) /\ Cardinality(1..n) = n
    BY UpTo
  <2>2. PICK B : B = Before(j) /\ B \subseteq 1..n /\ j \notin B
    <3>1. ~Precedes(s, j, j)
      BY PrecedesOrders
    <3>2. Before(j) \subseteq 1..n /\ j \notin Before(j)
      BY <1>1, <3>1
    <3>3. QED
      BY <3>2
  <2>3. IsFiniteSet(B) /\ Cardinality(B) <= n /\ (n = Cardinality(B) => 1..n = B)
    BY <2>1, <2>2, FS_Subset
  <2>4. Cardinality(B) # n
    BY <1>1, <2>2, <2>3
  <2>5. Cardinality(B) \in Nat
    BY <2>3, FS_CardinalityType
  <2>6. QED
    BY <2>2, <2>3, <2>4, <2>5
<1>3. \A j \in DOMAIN s : Place(s, j) = Cardinality(Before(j)) + 1
  BY Zenon DEF Place
<1>4. ASSUME NEW i \in DOMAIN s, NEW j \in DOMAIN s, Precedes(s, i, j)
      PROVE  Cardinality(Before(i)) < Cardinality(Before(j))
  <2>1. Before(i) \subseteq Before(j) /\ i \in Before(j) /\ i \notin Before(i)
    BY <1>4, PrecedesOrders
  <2>2. PICK A, B : A = Before(i) /\ B = Before(j)
    OBVIOUS
  <2>3. IsFiniteSet(B) /\ Cardinality(A) \in Nat /\ Cardinality(B) \in Nat /\ A \subseteq B /\ A # B
    BY <1>2, <2>1, <2>2
  <2>4. Cardinality(A) <= Cardinality(B) /\ (Cardinality(B) = Cardinality(A) => B = A)
    BY <2>3, FS_Subset
  <2>5. QED
    BY <2>2, <2>3, <2>4
<1> HIDE DEF Before
<1>5. QED
  BY <1>1, <1>2, <1>3, <1>4

NewToOld(list, n) == \A i, j \in 1..n : i < j => list[i].time >= list[j].time

\* A list newest first: the same elements, and no older one before a newer one.
LEMMA NewestSorted ==
  ASSUME NEW D, NEW s \in Seq(D), IsInjective(s), \A i \in DOMAIN s : s[i].time \in Int
  PROVE  /\ NewestFirst(s) \in Seq(D) /\ Len(NewestFirst(s)) = Len(s)
         /\ IsInjective(NewestFirst(s)) /\ Range(NewestFirst(s)) = Range(s)
         /\ NewToOld(NewestFirst(s), Len(s))
<1>1. PICK n \in Nat : n = Len(s) /\ DOMAIN s = 1..n
  OBVIOUS
<1> DEFINE place == [j \in 1..n |-> Place(s, j)]
           at == [k \in DOMAIN s |-> CHOOSE j \in DOMAIN s : Place(s, j) = k]
           r == [k \in DOMAIN s |-> s[at[k]]]
<1>2. place \in [1..n -> 1..n]
  BY <1>1, PlacesDiffer
<1>3. \A i, j \in 1..n : Precedes(s, i, j) => place[i] < place[j]
  BY <1>1, PlacesDiffer
<1>4. \A j \in 1..n : place[j] = Place(s, j)
  OBVIOUS
<1>5. NewestFirst(s) = r
  <2>1. \A k \in DOMAIN s : at[k] = CHOOSE j \in DOMAIN s : Place(s, j) = k
    OBVIOUS
  <2>2. NewestFirst(s) = [k \in DOMAIN s |-> s[CHOOSE j \in DOMAIN s : Place(s, j) = k]]
    BY DEF NewestFirst
  <2> HIDE DEF at
  <2>3. QED
    BY <2>1, <2>2
<1> HIDE DEF place
<1>6. \A i, j \in 1..n : place[i] = place[j] => i = j
  <2> SUFFICES ASSUME NEW i \in 1..n, NEW j \in 1..n, place[i] = place[j], i # j PROVE FALSE
    OBVIOUS
  <2>1. place[i] < place[j] \/ place[j] < place[i]
    BY <1>1, <1>3, PrecedesOrders
  <2>2. place[i] \in Int /\ place[j] \in Int
    BY <1>2
  <2>3. QED
    BY <2>1, <2>2
<1>7. \A k \in 1..n : \E j \in 1..n : place[j] = k
  <2>1. place \in Injection(1..n, 1..n)
    BY <1>2, <1>6 DEF Injection, IsInjective
  <2>2. IsFiniteSet(1..n)
    BY UpTo
  <2>3. place \in Surjection(1..n, 1..n)
    BY <2>1, <2>2, FS_Injection
  <2>4. QED
    BY <2>3 DEF Surjection
<1>8. \A k \in 1..n : at[k] \in 1..n /\ place[at[k]] = k
  <2>1. \A k \in DOMAIN s : \E j \in DOMAIN s : Place(s, j) = k
    BY <1>1, <1>4, <1>7
  <2>2. \A k \in DOMAIN s : at[k] \in DOMAIN s /\ Place(s, at[k]) = k
    BY <2>1
  <2>3. QED
    BY <1>1, <1>4, <2>2
<1> HIDE DEF at
<1>9. \A j \in 1..n : \E k \in 1..n : at[k] = j
  <2> SUFFICES ASSUME NEW j \in 1..n PROVE \E k \in 1..n : at[k] = j
    OBVIOUS
  <2>1. place[j] \in 1..n
    BY <1>2
  <2>2. at[place[j]] = j
    BY <1>6, <1>8, <2>1
  <2>3. QED
    BY <2>1, <2>2
<1>10. /\ r = [k \in 1..n |-> r[k]]
       /\ \A k \in 1..n : r[k] = s[at[k]] /\ r[k] \in D
  BY <1>1, <1>8
<1> HIDE DEF r
<1>11. r \in [1..n -> D] /\ DOMAIN r = 1..n
  BY <1>10
<1>12. r \in Seq(D) /\ Len(r) = n
  BY <1>11, SeqDef
<1>13. IsInjective(r)
  <2> SUFFICES ASSUME NEW i \in 1..n, NEW j \in 1..n, r[i] = r[j] PROVE i = j
    BY <1>11 DEF IsInjective
  <2>1. PICK a, b : a = at[i] /\ b = at[j]
    OBVIOUS
  <2>2. a \in DOMAIN s /\ b \in DOMAIN s /\ place[a] = i /\ place[b] = j /\ s[a] = s[b]
    BY <1>1, <1>8, <1>10, <2>1
  <2>3. a = b
    BY <2>2 DEF IsInjective
  <2>4. QED
    BY <2>2, <2>3
<1>14. Range(r) = Range(s)
  <2>1. Range(r) = {r[k] : k \in 1..n} /\ Range(s) = {s[j] : j \in 1..n}
    BY <1>1, <1>11 DEF Range
  <2>2. \A x : (\E k \in 1..n : x = r[k]) <=> (\E j \in 1..n : x = s[j])
    <3>1. ASSUME NEW k \in 1..n PROVE \E j \in 1..n : r[k] = s[j]
      BY <1>8, <1>10
    <3>2. ASSUME NEW j \in 1..n PROVE \E k \in 1..n : r[k] = s[j]
      BY <1>9, <1>10
    <3>3. QED
      BY <3>1, <3>2
  <2>3. QED
    BY <2>1, <2>2
<1>15. NewToOld(r, n)
  <2> SUFFICES ASSUME NEW i \in 1..n, NEW j \in 1..n, i < j PROVE r[i].time >= r[j].time
    BY DEF NewToOld
  <2>1. PICK a, b : a = at[i] /\ b = at[j]
    OBVIOUS
  <2>2. a \in 1..n /\ b \in 1..n /\ place[a] = i /\ place[b] = j
    BY <1>8, <2>1
  <2>3. ~Precedes(s, b, a)
    BY <1>3, <2>2
  <2>4. ~(s[b].time > s[a].time)
    BY <2>3 DEF Precedes
  <2>5. PICK x \in Int, y \in Int : x = s[a].time /\ y = s[b].time
    BY <1>1, <2>2
  <2>6. x >= y
    BY <2>4, <2>5
  <2>7. QED
    BY <1>10, <2>1, <2>5, <2>6
<1>16. QED
  BY <1>1, <1>5, <1>12, <1>13, <1>14, <1>15

\* Of two such lists of the same elements neither is ever ahead.
LEMMA NeverAhead ==
  ASSUME NEW n \in Nat, NEW D, NEW a \in [1..n -> D], NEW b \in [1..n -> D],
         \A d \in D : d.time \in Int,
         \A i, j \in 1..n : a[i] = a[j] => i = j,
         \A i \in 1..n : \E j \in 1..n : b[j] = a[i],
         NewToOld(a, n), NewToOld(b, n),
         NEW k \in 1..n
  PROVE  a[k].time <= b[k].time
<1> DEFINE f == [i \in 1..n |-> a[i].time]
           g == [i \in 1..n |-> b[i].time]
<1>1. \A i \in 1..n : f[i] \in Int /\ g[i] \in Int /\ f[i] = a[i].time /\ g[i] = b[i].time
  OBVIOUS
<1> HIDE DEF f, g
<1>2. \A i, j \in 1..n : i < j => f[i] >= f[j] /\ g[i] >= g[j]
  BY <1>1 DEF NewToOld
<1>3. k \in Int /\ 1 <= k /\ \A i \in 1..k : i \in 1..n
  OBVIOUS
<1> SUFFICES ASSUME g[k] < f[k] PROVE FALSE
  <2>1. f[k] \in Int /\ g[k] \in Int /\ f[k] = a[k].time /\ g[k] = b[k].time
    BY <1>1
  <2>2. QED
    BY <2>1
<1>4. \A i \in 1..k : \E j \in 1..(k - 1) : b[j] = a[i]
  <2> SUFFICES ASSUME NEW i \in 1..k PROVE \E j \in 1..(k - 1) : b[j] = a[i]
    OBVIOUS
  <2>1. i \in 1..n
    BY <1>3
  <2>2. PICK j \in 1..n : b[j] = a[i]
    BY <2>1
  <2>3. PICK x \in Int, y \in Int, u \in Int, v \in Int :
          x = f[i] /\ y = f[k] /\ u = g[j] /\ v = g[k]
    BY <1>1, <2>1
  <2>4. y <= x
    <3>1. i < k => x >= y
      BY <1>2, <2>1, <2>3
    <3>2. i = k => x = y
      BY <2>3
    <3>3. i < k \/ i = k
      BY <1>3
    <3>4. QED
      BY <3>1, <3>2, <3>3
  <2>5. u = x
    <3>1. f[i] = a[i].time /\ g[j] = b[j].time
      BY <1>1, <2>1
    <3>2. QED
      BY <2>2, <2>3, <3>1
  <2>6. v < u
    <3>1. v < y
      BY <2>3
    <3>2. \A r, p, s \in Int : r < p /\ p <= s => r < s
      OBVIOUS
    <3>3. QED
      BY <2>4, <2>5, <3>1, <3>2
  <2>7. k < j => v >= u
    BY <1>2, <2>3
  <2>8. k = j => v = u
    BY <2>3
  <2>9. j < k
    BY <1>3, <2>6, <2>7, <2>8
  <2>10. QED
    BY <1>3, <2>2, <2>9
<1> DEFINE Twin(i) == CHOOSE j \in 1..(k - 1) : b[j] = a[i]
           q == [i \in 1..k |-> Twin(i)]
<1>5. \A i \in 1..k : q[i] \in 1..(k - 1) /\ b[q[i]] = a[i]
  <2>1. \A i \in 1..k : Twin(i) \in 1..(k - 1) /\ b[Twin(i)] = a[i]
    BY <1>4
  <2> HIDE DEF Twin
  <2>2. QED
    BY <2>1
<1> HIDE DEF Twin
<1>6. q = [i \in 1..k |-> q[i]] /\ DOMAIN q = 1..k
  OBVIOUS
<1> HIDE DEF q
<1>7. q \in [1..k -> 1..(k - 1)]
  BY <1>5, <1>6
<1>8. q \in Injection(1..k, 1..(k - 1))
  <2>1. ASSUME NEW i \in 1..k, NEW j \in 1..k, q[i] = q[j] PROVE i = j
    <3>1. a[i] = a[j] /\ i \in 1..n /\ j \in 1..n
      BY <1>3, <1>5, <2>1
    <3>2. QED
      BY <3>1
  <2>2. QED
    BY <1>6, <1>7, <2>1 DEF Injection, IsInjective
<1>9. IsFiniteSet(1..(k - 1)) /\ Cardinality(1..(k - 1)) = k - 1 /\ Cardinality(1..k) = k
  <2>1. PICK m \in Nat : m = k - 1
    BY <1>3
  <2>2. k \in Nat
    BY <1>3
  <2>3. QED
    BY <2>1, <2>2, UpTo
<1>10. Cardinality(1..k) <= Cardinality(1..(k - 1))
  BY <1>8, <1>9, FS_Injection
<1>11. QED
  BY <1>3, <1>9, <1>10

LEMMA SameTimes ==
  ASSUME NEW D, NEW s \in Seq(D), NEW t \in Seq(D), IsInjective(s), IsInjective(t),
         Range(s) = Range(t), \A d \in D : d.time \in Int
  PROVE  /\ Len(s) = Len(t)
         /\ \A k \in 1..Len(s) : NewestFirst(s)[k].time = NewestFirst(t)[k].time
<1>1. PICK n \in Nat : n = Len(s) /\ n = Len(t)
  BY InjectiveSize
<1>2. PICK a, b : a = NewestFirst(s) /\ b = NewestFirst(t)
  OBVIOUS
<1>3. \A i \in DOMAIN s : s[i].time \in Int
  OBVIOUS
<1>4. \A i \in DOMAIN t : t[i].time \in Int
  OBVIOUS
<1>5. /\ a \in Seq(D) /\ Len(a) = n /\ IsInjective(a) /\ Range(a) = Range(s)
      /\ NewToOld(a, n)
  BY <1>1, <1>2, <1>3, NewestSorted
<1>6. /\ b \in Seq(D) /\ Len(b) = n /\ IsInjective(b) /\ Range(b) = Range(s)
      /\ NewToOld(b, n)
  BY <1>1, <1>2, <1>4, NewestSorted
<1>7. a \in [1..n -> D] /\ b \in [1..n -> D] /\ DOMAIN a = 1..n /\ DOMAIN b = 1..n
  BY <1>5, <1>6
<1>8. /\ \A i, j \in 1..n : a[i] = a[j] => i = j
      /\ \A i, j \in 1..n : b[i] = b[j] => i = j
  BY <1>5, <1>6, <1>7 DEF IsInjective
<1>9. /\ \A i \in 1..n : \E j \in 1..n : b[j] = a[i]
      /\ \A i \in 1..n : \E j \in 1..n : a[j] = b[i]
  <2>1. Range(a) = {a[i] : i \in 1..n} /\ Range(b) = {b[i] : i \in 1..n}
    BY <1>7 DEF Range
  <2>2. {a[i] : i \in 1..n} = {b[i] : i \in 1..n}
    BY <1>5, <1>6, <2>1
  <2>3. ASSUME NEW i \in 1..n
        PROVE  (\E j \in 1..n : b[j] = a[i]) /\ (\E j \in 1..n : a[j] = b[i])
    BY <2>2
  <2>4. QED
    BY <2>3
<1>10. \A k \in 1..n : a[k].time <= b[k].time
  BY <1>5, <1>6, <1>7, <1>8, <1>9, NeverAhead
<1>11. \A k \in 1..n : b[k].time <= a[k].time
  BY <1>5, <1>6, <1>7, <1>8, <1>9, NeverAhead
<1>12. \A k \in 1..n : a[k].time \in Int /\ b[k].time \in Int
  BY <1>7
<1>13. \A k \in 1..n : a[k].time = b[k].time
  BY <1>10, <1>11, <1>12
<1>14. QED
  BY <1>1, <1>2, <1>13

LEMMA ListsAgree ==
  ASSUME Alike("anomaly_events")
  PROVE  ListsAlike
<1>1. PICK list, D : list = memory["anomaly_events"] /\ D = RowsIn("anomaly_events")
  OBVIOUS
<1>2. list \in Seq(D) /\ IsInjective(list) /\ Range(list) = committed["anomaly_events"]
  BY <1>1 DEF Alike
<1>3. \A d \in D : d.time \in Int
  BY <1>1, RowsAssumption DEF RowsIn
<1> SUFFICES ASSUME NEW rows \in PostgresAnomalies, NEW limit \in 1..(Len(list) + 1), NEW detector
             PROVE  TimesOf(ListAnomalies(rows, detector, limit))
                      = TimesOf(ListAnomalies(list, detector, limit))
  BY <1>1, Zenon DEF ListsAlike, MemoryAnomalies
<1>4. rows \in Seq(D) /\ IsInjective(rows) /\ Range(rows) = Range(list)
  <2>1. PICK S : S = committed["anomaly_events"] /\ S = Range(list)
    BY <1>2
  <2>2. PICK n \in Nat : n = Len(list) /\ n = Cardinality(S) /\ IsFiniteSet(S)
    BY <1>2, <2>1, InjectiveSize
  <2>3. rows \in [1..n -> S] /\ \A i, j \in 1..n : i # j => rows[i] # rows[j]
    BY <2>1, <2>2 DEF PostgresAnomalies, SetToSeqs
  <2>4. S \subseteq D
    BY <1>2, <2>1 DEF Range
  <2>5. rows \in Seq(D)
    BY <2>2, <2>3, <2>4, SeqDef
  <2>6. IsInjective(rows)
    BY <2>3 DEF IsInjective
  <2>7. rows \in Injection(1..n, S)
    BY <2>3, <2>6 DEF Injection
  <2>8. rows \in Surjection(1..n, S)
    BY <2>2, <2>7, UpTo, FS_Injection
  <2>9. Range(rows) = S
    BY <2>3, <2>8 DEF Range, Surjection
  <2>10. QED
    BY <2>1, <2>5, <2>6, <2>9
<1>5. PICK T : T = {x \in Range(list) : Fits(detector, x.detector)}
  OBVIOUS
<1>6. PICK s, t : s = Filter(list, T) /\ t = Filter(rows, T)
  OBVIOUS
<1>7. s \in Seq(D) /\ IsInjective(s) /\ Range(s) = Range(list) \cap T
  BY <1>2, <1>6, FilterKeeps
<1>8. t \in Seq(D) /\ IsInjective(t) /\ Range(t) = Range(list) \cap T
  BY <1>4, <1>6, FilterKeeps
<1>9. PICK n \in Nat : /\ n = Len(s) /\ n = Len(t)
                        /\ \A k \in 1..n : NewestFirst(s)[k].time = NewestFirst(t)[k].time
  <2>1. Range(s) = Range(t)
    BY <1>7, <1>8
  <2>2. /\ Len(s) = Len(t)
        /\ \A k \in 1..Len(s) : NewestFirst(s)[k].time = NewestFirst(t)[k].time
    BY <1>3, <1>7, <1>8, <2>1, SameTimes
  <2>3. Len(s) \in Nat
    BY <1>7
  <2>4. QED
    BY <2>2, <2>3
<1>10. PICK m : m = Min({limit, n}) /\ m \in 0..n
  BY <1>9, MinOfTwo
<1>11. /\ NewestThenCut(s, limit) = SubSeq(NewestFirst(s), 1, m)
       /\ NewestThenCut(t, limit) = SubSeq(NewestFirst(t), 1, m)
  BY <1>9, <1>10, Zenon DEF NewestThenCut
<1>12. PICK a, b : a = NewestFirst(s) /\ b = NewestFirst(t)
  OBVIOUS
<1>13. a \in Seq(D) /\ Len(a) = n
  <2>1. \A i \in DOMAIN s : s[i].time \in Int
    BY <1>3, <1>7
  <2>2. QED
    BY <1>7, <1>9, <1>12, <2>1, NewestSorted
<1>14. b \in Seq(D) /\ Len(b) = n
  <2>1. \A i \in DOMAIN t : t[i].time \in Int
    BY <1>3, <1>8
  <2>2. QED
    BY <1>8, <1>9, <1>12, <2>1, NewestSorted
<1>15. /\ DOMAIN SubSeq(a, 1, m) = 1..m /\ \A i \in 1..m : SubSeq(a, 1, m)[i] = a[i]
       /\ DOMAIN SubSeq(b, 1, m) = 1..m /\ \A i \in 1..m : SubSeq(b, 1, m)[i] = b[i]
  BY <1>10, <1>13, <1>14, FirstOf
<1>16. \A i \in 1..m : a[i].time = b[i].time
  BY <1>9, <1>10, <1>12
<1>17. TimesOf(SubSeq(a, 1, m)) = TimesOf(SubSeq(b, 1, m))
  BY <1>15, <1>16 DEF TimesOf
<1>18. /\ ListAnomalies(list, detector, limit) = SubSeq(a, 1, m)
       /\ ListAnomalies(rows, detector, limit) = SubSeq(b, 1, m)
  BY <1>4, <1>5, <1>6, <1>11, <1>12, Zenon DEF ListAnomalies
<1>19. QED
  BY <1>17, <1>18

\* The two repositories are interchangeable as far as Postgres has served every
\* call: with no call under way, a query, an aggregate and the API's listing of
\* anomalies get the same from InMemoryLogRepository as from
\* PostgresLogRepository, whose rows come back in any order.
THEOREM SameAnswersAlways == Spec => []SameAnswers
<1>1. AllAccounted => SameAnswers
  <2> SUFFICES ASSUME AllAccounted, flawless, \A c \in Clients : step[c] = "idle"
               PROVE  QueriesAlike /\ CountsAlike /\ ListsAlike
    BY DEF SameAnswers, Quiet
  <2>1. Alike("log_records") /\ Alike("anomaly_events")
    BY SameRows DEF Tables
  <2>2. QED
    BY <2>1, QueriesAgree, CountsAgree, ListsAgree
<1>2. QED
  BY <1>1, AccountedAlways, PTL

===============================================================================
