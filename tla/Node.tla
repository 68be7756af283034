-------------------------------- MODULE Node --------------------------------
(***************************************************************************)
(* One page of a mini-sql database, seen as a b+tree node, and the pure    *)
(* operations btree.c performs inside a node.                              *)
(*                                                                         *)
(* A page is a record.  A leaf carries its cells' keys and the page number *)
(* of its right sibling; an internal node carries its separator keys and   *)
(* one more child than keys (btree.c keeps the last child in the header);  *)
(* a free page carries the number of the next free page.  Rows are left    *)
(* out: a cell's row moves wherever its key moves, so the key stands for   *)
(* the cell.  The code numbers cells from 0, these sequences from 1.       *)
(***************************************************************************)
EXTENDS Integers, Sequences, SequencesExt, FiniteSetsExt

CONSTANT LeafMaxCells   \* leaf_node_max_cells(schema), the same for every table

\* TABLE_MIN_ROWS_PER_LEAF: no CREATE TABLE passes whose leaf holds fewer rows.
ASSUME LeafMaxCellsAssumption == LeafMaxCells \in Nat /\ LeafMaxCells >= 3

NoPage == 0             \* page 0 is the file header, so 0 means "no page"

Leaf(isRoot, parent, keys, next) ==
  [type |-> "leaf", is_root |-> isRoot, parent |-> parent,
   keys |-> keys, children |-> <<>>, next |-> next]

Internal(isRoot, parent, keys, children) ==
  [type |-> "internal", is_root |-> isRoot, parent |-> parent,
   keys |-> keys, children |-> children, next |-> NoPage]

FreePage(next) ==
  [type |-> "free", is_root |-> FALSE, parent |-> NoPage,
   keys |-> <<>>, children |-> <<>>, next |-> next]

EmptyRoot == Leaf(TRUE, NoPage, <<>>, NoPage)

-----------------------------------------------------------------------------
\* Mutant of LowerBound: an equal key is passed over, so a separator sends the
\* key it records to the right.
FirstAbove(keys, key) ==
  Min({i \in DOMAIN keys : keys[i] > key} \cup {Len(keys) + 1})

\* Where `key` is or belongs: the first position holding a key >= `key`, one
\* past the end if there is none.  Both binary searches of btree.c compute it
\* (module NodeSearch proves that they do).
LowerBound(keys, key) ==
  Min({i \in DOMAIN keys : keys[i] >= key} \cup {Len(keys) + 1})

\* The minimum fill of every node but a root.
LeafMinCells == (LeafMaxCells + 1) \div 2
InternalMinKeys(maxKeys) == (maxKeys + 1) \div 2 - 1

\* How a full leaf's cells and a new one are divided between the two halves:
\* the left one takes the odd cell.
LeftSplitCount == (LeafMaxCells + 1) - (LeafMaxCells + 1) \div 2

\* Mutant of JoinLeaves: the chain still goes through the page that is freed.
JoinKeepingNext(left, right) == [left EXCEPT !.keys = @ \o right.keys]

\* leaf_node_merge: the left leaf takes the right one's cells and its place in
\* the chain.
JoinLeaves(left, right) == [left EXCEPT !.keys = @ \o right.keys, !.next = right.next]

\* A separator and the child on its right leave a node whose child
\* `index` has been merged into child `index - 1`: the merged child keeps the
\* separator after the pair, or becomes the rightmost child.
WithoutChild(node, index) ==
  [node EXCEPT !.keys = RemoveAt(@, index - 1), !.children = RemoveAt(@, index)]

=============================================================================
