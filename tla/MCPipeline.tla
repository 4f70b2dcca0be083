------------------------------- MODULE MCPipeline -------------------------------
(* One log for TLC: an outlier, a terminal event after which the janitor may     *)
(* close the block, a line that is refused, and a line that opens the block      *)
(* again or, by a transition that is not normal, takes its trace to the cap.     *)
EXTENDS Pipeline

CONSTANTS b1, b2

Line(b, matches, t, parsed, anomalous) ==
  [block |-> b, matches |-> matches, ts |-> t, parsed |-> parsed, valid |-> TRUE,
   anomalous |-> anomalous]

\* The second line's message matches the last template too, the more general one.
SomeTemplates == <<"E5", "E9", "E22">>

SomeLines ==
  <<Line(b1, {1}, 1, TRUE, TRUE), Line(b1, {2, 3}, 1, TRUE, FALSE),
    Line(b2, {1}, 2, FALSE, FALSE), Line(b1, {3}, 3, TRUE, FALSE)>>

Normal == {<<"E5", "E9">>}

===============================================================================
