--------------------------- MODULE MCValidationChain ---------------------------
(* ValidationChain for TLC: the chain in the order the documents recommend. *)
EXTENDS ValidationChain

CheapFirst == <<"schema", "size", "rate_limit">>

===============================================================================
