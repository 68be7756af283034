----------------------------- MODULE LeafSplit -----------------------------
(***************************************************************************)
(* The loop of leaf_node_split_and_insert that divides a full leaf's cells *)
(* and a new one between the leaf, in place, and its new sibling, walking  *)
(* from the highest position down.  Cells are numbered from 0, as in the   *)
(* code.                                                                   *)
(***************************************************************************)
EXTENDS Integers

CONSTANT MaxCells    \* a bound on leaf_node_max_cells

ASSUME MaxCellsAssumption == MaxCells \in Nat /\ MaxCells >= 3

VARIABLES
  capacity,   \* leaf_node_max_cells: how many cells the full leaf holds
  cell_num,   \* where the new cell belongs
  old_node,   \* the leaf's cells; cell number c starts out in slot c
  new_node,   \* the sibling's cells
  i           \* the positions below i are still to be placed

split_vars == <<capacity, cell_num, old_node, new_node, i>>

NewCell == -1      \* the cell being inserted
Unwritten == -2    \* what a slot of the fresh sibling holds

total_cells == capacity + 1
right_split_count == total_cells \div 2
left_split_count == total_cells - right_split_count

SplitInit ==
  /\ capacity \in 3..MaxCells
  /\ cell_num \in 0..capacity
  /\ old_node = [slot \in 0..(capacity - 1) |-> slot]
  /\ new_node = [slot \in 0..(capacity - 1) |-> Unwritten]
  /\ i = total_cells

\* Mutant of Source: the cells below the insertion point are moved up too.
SourceBelow(p) == IF p > 0 THEN p - 1 ELSE p

\* What lands at position `p`: the new cell, or the old one that was there or
\* one place lower.
Source(p) == IF p > cell_num THEN p - 1 ELSE p
CellFor(p) == IF p = cell_num THEN NewCell ELSE old_node[Source(p)]

PlaceRight ==
  /\ i > 0 /\ i - 1 >= left_split_count
  /\ new_node' = [new_node EXCEPT ![i - 1 - left_split_count] = CellFor(i - 1)]
  /\ i' = i - 1
  /\ UNCHANGED <<capacity, cell_num, old_node>>

PlaceLeft ==
  /\ i > 0 /\ i - 1 < left_split_count
  /\ i - 1 >= cell_num
  /\ old_node' = [old_node EXCEPT ![i - 1] = CellFor(i - 1)]
  /\ i' = i - 1
  /\ UNCHANGED <<capacity, cell_num, new_node>>

\* Cells below the insertion point that stay in the left half are where they
\* belong.
LeaveInPlace ==
  /\ i > 0 /\ i - 1 < left_split_count
  /\ i - 1 < cell_num
  /\ i' = i - 1
  /\ UNCHANGED <<capacity, cell_num, old_node, new_node>>

SplitNext == PlaceRight \/ PlaceLeft \/ LeaveInPlace

SplitSpec == SplitInit /\ [][SplitNext]_split_vars

-----------------------------------------------------------------------------
Cell == -2..(MaxCells - 1)

SplitTypeOK ==
  /\ capacity \in 3..MaxCells
  /\ cell_num \in 0..capacity
  /\ old_node \in [0..(capacity - 1) -> Cell]
  /\ new_node \in [0..(capacity - 1) -> Cell]
  /\ i \in 0..total_cells

\* The cell that belongs at position `p` of the leaf with the new cell in it.
Belonging(p) == IF p = cell_num THEN NewCell ELSE Source(p)

Placed(p) == IF p >= left_split_count THEN new_node[p - left_split_count] ELSE old_node[p]

\* "The old-node cells a position reads from ... haven't been overwritten yet":
\* when the loop ends, the two halves hold the old cells and the new one in
\* order, whatever the capacity's parity and wherever the new cell belongs.
\* Module BTree's SplitLeaf divides the cells in one step on the strength of
\* this.
EveryCellPlaced == i = 0 => \A p \in 0..capacity : Placed(p) = Belonging(p)

=============================================================================
