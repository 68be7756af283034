--------------------------- MODULE OrderedTables ---------------------------
(***************************************************************************)
(* What table_insert and table_delete promise, with no tree in sight: a    *)
(* table is a set of keys, a call changes it in one indivisible step, and  *)
(* the reply says whether the key was missing (insert) or present          *)
(* (delete).                                                               *)
(***************************************************************************)
CONSTANT Key

VARIABLES
  rows,     \* the keys each open table holds
  call,     \* the call that has not taken effect yet, NoCall if there is none
  reply     \* the answer to the last call that took effect

vars == <<rows, call, reply>>

NoCall == [op |-> "none"]
Request == [op : {"insert", "delete"}, table : DOMAIN rows, key : Key]

Init ==
  /\ \A t \in DOMAIN rows : rows[t] = {}
  /\ call = NoCall
  /\ reply = TRUE

Begin ==
  /\ call = NoCall
  /\ call' \in Request
  /\ UNCHANGED <<rows, reply>>

Insert ==
  /\ call.op = "insert"
  /\ rows' = [rows EXCEPT ![call.table] = @ \cup {call.key}]
  /\ reply' = (call.key \notin rows[call.table])
  /\ call' = NoCall

Delete ==
  /\ call.op = "delete"
  /\ rows' = [rows EXCEPT ![call.table] = @ \ {call.key}]
  /\ reply' = (call.key \in rows[call.table])
  /\ call' = NoCall

Next == Begin \/ Insert \/ Delete

Spec == Init /\ [][Next]_vars

=============================================================================
