------------------------------ MODULE Statements ------------------------------
(***************************************************************************)
(* What the executor promises of INSERT, SELECT, DELETE and EXPLAIN, with  *)
(* no plan, cursor or tree in sight: a table is a set of keys; a statement *)
(* takes effect in one step, on all of the table at once; and .stats       *)
(* counts at least the rows a SELECT or DELETE found, at most the table's. *)
(***************************************************************************)
EXTENDS FiniteSetsExt, Sequences, SequencesExt

CONSTANT Key

VARIABLES
  rows,      \* the keys each table holds
  request,   \* the statement that has not taken effect yet, NoRequest if none
  found,     \* the rows found by the one that just has, first to last
  stats      \* what .stats would print

vars == <<rows, request, found, stats>>

NoRequest == [kind |-> "none"]
Request ==
  [kind : {"insert"}, table : DOMAIN rows, key : Key]
    \cup [kind : {"select", "delete"}, table : DOMAIN rows, accepts : SUBSET Key]

Init ==
  /\ \A t \in DOMAIN rows : rows[t] = {}
  /\ request = NoRequest
  /\ found = <<>>
  /\ stats = 0

Begin ==
  /\ request = NoRequest /\ found = <<>>
  /\ request' \in Request
  /\ stats' = IF request'.kind = "insert" THEN stats ELSE 0
  /\ UNCHANGED <<rows, found>>

Insert ==
  /\ request.kind = "insert"
  /\ rows' = [rows EXCEPT ![request.table] = @ \cup {request.key}]
  /\ request' = NoRequest
  /\ UNCHANGED <<found, stats>>

Chosen == rows[request.table] \cap request.accepts

Find ==
  /\ found' = SetToSortSeq(Chosen, <)
  /\ stats' \in Cardinality(Chosen)..Cardinality(rows[request.table])
  /\ request' = NoRequest

Select ==
  /\ request.kind = "select"
  /\ Find
  /\ UNCHANGED rows

Delete ==
  /\ request.kind = "delete"
  /\ Find
  /\ rows' = [rows EXCEPT ![request.table] = @ \ Chosen]

\* The rows have been printed or removed; the next statement can come.
Finish ==
  /\ found # <<>>
  /\ found' = <<>>
  /\ UNCHANGED <<rows, request, stats>>

\* EXPLAIN reads no row and changes none.
Explain ==
  /\ request = NoRequest /\ found = <<>>
  /\ stats' = 0
  /\ UNCHANGED <<rows, request, found>>

TakeEffect == Insert \/ Select \/ Delete

Next == Begin \/ TakeEffect \/ Finish \/ Explain

Spec == Init /\ [][Next]_vars /\ WF_vars(TakeEffect) /\ WF_vars(Finish)

=============================================================================
