------------------------------- MODULE Filtering -------------------------------
(***************************************************************************)
(* The loop that keeps some elements of a sequence: a list that is empty   *)
(* at first, and one append for each element that passes the test.  What   *)
(* SelectSeq does, in a form that the provers can open (Induction).        *)
(***************************************************************************)
EXTENDS Naturals, Sequences

\* The members of T in s, in their order.
Filter(s, T) ==
  LET kept[i \in 0..Len(s)] ==
        IF i = 0 THEN <<>>
        ELSE IF s[i] \in T THEN Append(kept[i - 1], s[i]) ELSE kept[i - 1]
  IN  kept[Len(s)]

===============================================================================
