----------------------------- MODULE NodeSearch -----------------------------
(***************************************************************************)
(* The binary searches inside a node, probe by probe: leaf_node_find_cell  *)
(* stops at an exact hit, internal_node_find_child only ever narrows.      *)
(* Every descent, insert, delete and separator update starts with one.     *)
(***************************************************************************)
EXTENDS Node

CONSTANTS
  Nodes,      \* the key sequences a node may hold
  Wanted      \* the keys searched for

Ascending(keys) == \A i, j \in DOMAIN keys : i < j => keys[i] < keys[j]

\* Cells are kept in ascending key order, no key twice.
ASSUME NodesAssumption == \A keys \in Nodes : keys \in Seq(Nat) /\ Ascending(keys)
ASSUME WantedAssumption == Wanted \subseteq Nat

VARIABLES
  fn,           \* which of the two searches runs
  keys,         \* the node's keys; the code's keys[i] is keys[i + 1] here
  key,          \* the key searched for
  min_index,    \* the range still searched is min_index .. max_index - 1
  max_index,
  result        \* the index returned, -1 while the search runs

vars == <<fn, keys, key, min_index, max_index, result>>

Init ==
  /\ fn \in {"leaf_node_find_cell", "internal_node_find_child"}
  /\ keys \in Nodes
  /\ key \in Wanted
  /\ min_index = 0
  /\ max_index = Len(keys)
  /\ result = -1

Searching == result = -1 /\ min_index # max_index

\* Mutant of Index: rounds up, and so can probe one past the last key.
IndexAbove == (min_index + max_index + 1) \div 2

Index == (min_index + max_index) \div 2
Probe == keys[Index + 1]

\* Only the leaf's search tells an exact hit from a greater key.
Hit ==
  /\ Searching
  /\ fn = "leaf_node_find_cell" /\ key = Probe
  /\ result' = Index
  /\ UNCHANGED <<fn, keys, key, min_index, max_index>>

GoLeft ==
  /\ Searching
  /\ IF fn = "leaf_node_find_cell" THEN key < Probe ELSE Probe >= key
  /\ max_index' = Index
  /\ UNCHANGED <<fn, keys, key, min_index, result>>

GoRight ==
  /\ Searching
  /\ Probe < key
  /\ min_index' = Index + 1
  /\ UNCHANGED <<fn, keys, key, max_index, result>>

Converge ==
  /\ result = -1
  /\ min_index = max_index
  /\ result' = min_index
  /\ UNCHANGED <<fn, keys, key, min_index, max_index>>

Next == Hit \/ GoLeft \/ GoRight \/ Converge

Spec == Init /\ [][Next]_vars /\ WF_vars(Next)

-----------------------------------------------------------------------------
TypeOK ==
  /\ fn \in {"leaf_node_find_cell", "internal_node_find_child"}
  /\ keys \in Nodes /\ key \in Wanted
  /\ min_index \in 0..Len(keys) /\ max_index \in min_index..Len(keys)
  /\ result \in -1..Len(keys)

\* Both searches return the first index whose key is not below the wanted one,
\* the node's key count if there is none: "a key equal to a separator goes
\* left", "an exact hit gives the cell's own index", and only keys that exist
\* are read.  Module BTree takes LowerBound for them on the strength of this.
FindsLowerBound ==
  /\ result # -1 => result + 1 = LowerBound(keys, key)
  /\ Searching => Index + 1 \in DOMAIN keys

\* Every probe that does not end the search at least halves what is left of
\* it, so no search of a node hangs and a full node takes logarithmically many.
RangeHalves ==
  [][result' = -1 => 2 * (max_index' - min_index') <= max_index - min_index]_vars

=============================================================================
