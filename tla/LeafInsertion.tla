---------------------------- MODULE LeafInsertion ----------------------------
(***************************************************************************)
(* One row on its way into a leaf (table_insert, leaf_node_insert): the    *)
(* search of module NodeSearch finds where its key belongs, a key that is  *)
(* there already is refused, a leaf with room shifts its cells and a full  *)
(* one is divided by the loop of module LeafSplit, cell by cell.  Searches *)
(* of internal nodes end with the search.                                  *)
(***************************************************************************)
EXTENDS NodeSearch, LeafSplit

VARIABLE phase    \* "find", "split", or how the insert ended

all_vars == <<vars, split_vars, phase>>

\* A leaf of any capacity that holds these keys; where the new cell belongs is
\* not known yet.
InsertInit ==
  /\ Init /\ SplitInit
  /\ cell_num = 0
  /\ Len(keys) <= capacity
  /\ phase = "find"

FindStep == phase = "find" /\ Next /\ UNCHANGED <<split_vars, phase>>

Found == phase = "find" /\ fn = "leaf_node_find_cell" /\ result # -1

\* The cell the search gives may be one past the last.
KeyTaken == result < Len(keys) /\ keys[result + 1] = key

RefuseDuplicate ==
  /\ Found /\ KeyTaken
  /\ phase' = "refused"
  /\ UNCHANGED <<vars, split_vars>>

\* Trailing cells are shifted right to make room for the new one.
Shifted ==
  [slot \in DOMAIN old_node |->
     IF slot < result THEN old_node[slot]
     ELSE IF slot = result THEN NewCell ELSE old_node[slot - 1]]

ShiftCells ==
  /\ Found /\ ~KeyTaken /\ Len(keys) < capacity
  /\ old_node' = Shifted
  /\ phase' = "inserted"
  /\ UNCHANGED <<vars, capacity, cell_num, new_node, i>>

BeginSplit ==
  /\ Found /\ ~KeyTaken /\ Len(keys) = capacity
  /\ cell_num' = result
  /\ phase' = "split"
  /\ UNCHANGED <<vars, capacity, old_node, new_node, i>>

SplitStep == phase = "split" /\ SplitNext /\ UNCHANGED <<vars, phase>>

InsertNext ==
  \/ FindStep \/ RefuseDuplicate \/ ShiftCells
  \/ BeginSplit \/ SplitStep

InsertSpec == InsertInit /\ [][InsertNext]_all_vars

-----------------------------------------------------------------------------
KeyOf(cell) ==
  IF cell = NewCell THEN key
  ELSE IF cell + 1 \in DOMAIN keys THEN keys[cell + 1] ELSE Unwritten

Divided == phase = "split" /\ i = 0

\* The cells of the leaf, and of its sibling if there is one now, in order.
Outcome ==
  [p \in 1..(Len(keys) + 1) |-> KeyOf(IF Divided THEN Placed(p - 1) ELSE old_node[p - 1])]

\* Whichever way a row goes in, the keys of the leaf and the new one are all
\* there, each once, and ascend: searches, which trust that, go on finding them.
\* Both halves of a divided leaf have its minimum fill.
KeysStayAscending ==
  /\ phase = "inserted" \/ Divided =>
       Ascending(Outcome) /\ ToSet(Outcome) = ToSet(keys) \cup {key}
  /\ Divided => 2 * right_split_count >= capacity /\ left_split_count >= right_split_count

=============================================================================
