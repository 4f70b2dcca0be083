-------------------------------- MODULE LogStore --------------------------------
(***************************************************************************)
(* What a log repository promises to the tasks that write to it: the rows  *)
(* of one call land all together or not at all, no key lands twice in a    *)
(* table, and a call that returns normally has landed.  A call that fails  *)
(* promises nothing: its rows may have landed.                             *)
(***************************************************************************)
EXTENDS Naturals, Sequences

CONSTANTS Clients, Tables, Calls

VARIABLES
  tables,    \* [Tables -> the rows a reader sees]
  standing,  \* [Clients -> "free", "asked" or "landed"]
  wanted,    \* [Clients -> the call under way, or the last one]
  verdict    \* [Clients -> how its last call ended: "none", "ok" or "error"]

storeVars == <<tables, standing, wanted, verdict>>

RowsOf(k) == {k.rows[i] : i \in DOMAIN k.rows}

StoreInit ==
  /\ tables = [t \in Tables |-> {}]
  /\ standing = [c \in Clients |-> "free"]
  /\ wanted \in [Clients -> Calls]
  /\ verdict = [c \in Clients |-> "none"]

Ask(c) ==
  /\ standing[c] = "free"
  /\ \E k \in Calls :
       /\ wanted' = [wanted EXCEPT ![c] = k]
       /\ IF k.rows = <<>>
            THEN /\ verdict' = [verdict EXCEPT ![c] = "ok"]
                 /\ UNCHANGED standing
            ELSE /\ verdict' = [verdict EXCEPT ![c] = "none"]
                 /\ standing' = [standing EXCEPT ![c] = "asked"]
  /\ UNCHANGED tables

Land(c) ==
  LET t == wanted[c].table
      rows == wanted[c].rows
      new == RowsOf(wanted[c])
  IN  /\ standing[c] = "asked"
      /\ \A i, j \in DOMAIN rows : rows[i].key = rows[j].key => i = j
      /\ {r.key : r \in new} \cap {r.key : r \in tables[t]} = {}
      /\ tables' = [tables EXCEPT ![t] = @ \cup new]
      /\ standing' = [standing EXCEPT ![c] = "landed"]
      /\ UNCHANGED <<wanted, verdict>>

Confirm(c) ==
  /\ standing[c] = "landed"
  /\ standing' = [standing EXCEPT ![c] = "free"]
  /\ verdict' = [verdict EXCEPT ![c] = "ok"]
  /\ UNCHANGED <<tables, wanted>>

GiveUp(c) ==
  /\ standing[c] # "free"
  /\ standing' = [standing EXCEPT ![c] = "free"]
  /\ verdict' = [verdict EXCEPT ![c] = "error"]
  /\ UNCHANGED <<tables, wanted>>

Wipe ==
  /\ \A c \in Clients : standing[c] = "free"
  /\ tables' = [t \in Tables |-> {}]
  /\ UNCHANGED <<standing, wanted, verdict>>

StoreNext ==
  \/ \E c \in Clients : Ask(c) \/ Land(c) \/ Confirm(c) \/ GiveUp(c)
  \/ Wipe

StoreSpec == StoreInit /\ [][StoreNext]_storeVars

===============================================================================
