-------------------------- MODULE MCBlockSessionizer --------------------------
(* BlockSessionizer for TLC: which records may arrive. *)
EXTENDS BlockSessionizer

CONSTANTS b1, b2, b3

Record(b, e, t) == [block |-> b, event |-> e, ts |-> t]

\* Three blocks, more than may be open; terminal events, a record without an event
\* and one without a timestamp, times far enough apart for a trace to age.
SomeInputs ==
  {Record(b1, "E5", 1), Record(b1, "E9", 1), Record(b1, NoEvent, 2),
   Record(b2, "E5", 3), Record(b2, "E9", NoTime), Record(b3, "E5", 1)}

===============================================================================
