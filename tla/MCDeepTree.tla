----------------------------- MODULE MCDeepTree -----------------------------
(***************************************************************************)
(* A workload that reaches trees of three and four levels: a table is      *)
(* first filled in ascending or descending order, then the keys of Keys    *)
(* come and go in every order.                                             *)
(***************************************************************************)
EXTENDS BTreeProperties

CONSTANT Filled    \* the keys the table is filled with first are 1 .. Filled

ASSUME FilledAssumption == Filled \in Nat

Insertions(keys) == [i \in DOMAIN keys |-> Call("table_insert", CatalogRoot + 1, NoPage, keys[i])]

InOrder == [i \in 1..Filled |-> i]

MCInit ==
  /\ FreshTables
  /\ stack \in {Insertions(InOrder), Insertions(Reverse(InOrder))}

MCSpec == MCInit /\ [][Next]_vars

=============================================================================
