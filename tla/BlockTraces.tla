------------------------------ MODULE BlockTraces ------------------------------
(***************************************************************************)
(* What sessionizing promises, however traces come to be closed: records   *)
(* are attached in the order they are numbered, each to the open trace of  *)
(* its own block, and a trace is closed once, as it is, and never reopened *)
(* (a later record of the block opens a new one).  So every attached       *)
(* record is in exactly one trace, and the traces of a block, one after    *)
(* the other, are the records of that block in order.                      *)
(***************************************************************************)
EXTENDS Naturals, Sequences

CONSTANT Blocks

VARIABLES
  attached,  \* the number of the last record attached, 0 at the start
  current,   \* [Blocks -> the records of its open trace, <<>> if it has none]
  closed     \* the closed traces, in the order they were closed

traceVars == <<attached, current, closed>>

TracesInit ==
  /\ attached = 0
  /\ current = [b \in Blocks |-> <<>>]
  /\ closed = <<>>

\* c is cur, or cur with one of its traces closed.
MaybeClose(cur) ==
  \/ current' = cur /\ UNCHANGED closed
  \/ \E b \in Blocks :
       /\ cur[b] # <<>>
       /\ current' = [cur EXCEPT ![b] = <<>>]
       /\ closed' = Append(closed, [block |-> b, ids |-> cur[b]])

\* The next record joins its block, which may close that trace or another one.
Attach(b) ==
  /\ attached' \in Nat
  /\ attached' > attached
  /\ MaybeClose([current EXCEPT ![b] = Append(@, attached')])

Close ==
  /\ UNCHANGED attached
  /\ MaybeClose(current)

TracesNext == Close \/ \E b \in Blocks : Attach(b)

TracesSpec == TracesInit /\ [][TracesNext]_traceVars

===============================================================================
