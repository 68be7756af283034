-------------------------------- MODULE BTree --------------------------------
(***************************************************************************)
(* The b+trees of one open database: table_insert and table_delete         *)
(* (table.c), the splits, merges and repairs under them (btree.c), and the *)
(* page allocation they share (pager_allocate_page, pager_free_page).      *)
(*                                                                         *)
(* mini-sql runs one statement at a time, but one statement is many C      *)
(* calls, and a split or a merge leaves the tree half done for the calls   *)
(* that follow.  So `stack` holds the calls still to be made, the next one *)
(* first, and each action carries out one of them.                         *)
(***************************************************************************)
EXTENDS Node

CONSTANTS
  Keys,      \* the primary keys statements use
  Builds,    \* the internal-node key caps of the builds that may open the file
  Tables     \* how many CREATE TABLEs ran before these statements

ASSUME KeysAssumption == Keys \subseteq Nat
\* btree.c refuses to compile with a cap below 3.
ASSUME BuildsAssumption == Builds # {} /\ \A cap \in Builds : cap \in Nat /\ cap >= 3
\* The catalog keeps one row per table and is still a single leaf.
ASSUME TablesAssumption == Tables \in 1..LeafMaxCells

VARIABLES
  pages,      \* pages 1 .. num_pages - 1 of the file, as Node records
  free_head,  \* the first page of the free list, 0 if it is empty
  roots,      \* the root pages of the open tables, the catalog's included
  max_keys,   \* internal_node_max_keys() of the build that has the file open
  stack,      \* the calls still to be made, the next one first
  reply       \* what the last table_insert or table_delete returned

vars == <<pages, free_head, roots, max_keys, stack, reply>>

CatalogRoot == 1
UserRoots == roots \ {CatalogRoot}

\* The database right after its CREATE TABLEs: the catalog, with one row for
\* each, and the tables' empty root leaves, none of them split.
FreshTables ==
  /\ pages = <<[EmptyRoot EXCEPT !.keys = [id \in 1..Tables |-> id]]>>
               \o [t \in 1..Tables |-> EmptyRoot]
  /\ free_head = NoPage
  /\ roots = 1..(Tables + 1)
  /\ max_keys \in Builds
  /\ reply = TRUE

Init == FreshTables /\ stack = <<>>

-----------------------------------------------------------------------------
\* Pending calls.  `page` is the node the call works on, `child` the node a
\* split has just made or an insert has to place, `key` the statement's key or
\* the split node's old maximum.
Call(fn, page, child, key) == [fn |-> fn, page |-> page, child |-> child, key |-> key]

Idle == stack = <<>>
Pending(fn) == ~Idle /\ Head(stack).fn = fn
Top == Head(stack)
Return == stack' = Tail(stack)
Continue(calls) == stack' = calls \o Tail(stack)

\* pager_allocate_page takes the head of the free list, or else the page past
\* the end of the file.
\* Mutant: the last page of the file instead of the one past it.
LastPage == IF free_head # NoPage THEN free_head ELSE Len(pages)

NextPage == IF free_head # NoPage THEN free_head ELSE Len(pages) + 1

\* Mutant: the page taken stays on the free list.
KeepHead == UNCHANGED free_head

TakePage == free_head' = IF free_head # NoPage THEN pages[free_head].next ELSE NoPage
Put(ps, page, node) == IF page \in DOMAIN ps THEN [ps EXCEPT ![page] = node] ELSE Append(ps, node)

\* The page under `page` that a descent for `key` reaches.
LeafFor(ps, page, key) ==
  LET leaf[p \in DOMAIN ps] ==
        IF ps[p].type = "internal"
        THEN leaf[ps[p].children[LowerBound(ps[p].keys, key)]]
        ELSE p
  IN  leaf[page]

\* The last key of the rightmost leaf under `page`.
MaxKey(ps, page) ==
  LET rightmost[p \in DOMAIN ps] ==
        IF ps[p].type = "internal" THEN rightmost[Last(ps[p].children)] ELSE p
  IN  Last(ps[rightmost[page]].keys)

\* Mutant of Reparent: the moved children keep naming the page they came from.
LeaveParents(ps, children, page) == ps

\* Every page of `children` names `page` as its parent.
Reparent(ps, children, page) ==
  [p \in DOMAIN ps |-> IF p \in ToSet(children) THEN [ps[p] EXCEPT !.parent = page] ELSE ps[p]]

ChildIndex(ps, parent, page) ==
  CHOOSE i \in DOMAIN ps[parent].children : ps[parent].children[i] = page

-----------------------------------------------------------------------------
\* A statement calls table_insert or table_delete on a table a user made.
CallInsert(root, key) ==
  /\ Idle
  /\ stack' = <<Call("table_insert", root, NoPage, key)>>
  /\ UNCHANGED <<pages, free_head, roots, max_keys, reply>>

CallDelete(root, key) ==
  /\ Idle
  /\ stack' = <<Call("table_delete", root, NoPage, key)>>
  /\ UNCHANGED <<pages, free_head, roots, max_keys, reply>>

-----------------------------------------------------------------------------
\* table_insert

Target == LeafFor(pages, Top.page, Top.key)
Holds(leaf, key) == key \in ToSet(pages[leaf].keys)

RefuseDuplicate ==
  /\ Pending("table_insert")
  /\ Holds(Target, Top.key)
  /\ reply' = FALSE
  /\ Return
  /\ UNCHANGED <<pages, free_head, roots, max_keys>>

InsertIntoLeaf ==
  /\ Pending("table_insert")
  /\ ~Holds(Target, Top.key)
  /\ Len(pages[Target].keys) < LeafMaxCells
  /\ pages' = [pages EXCEPT ![Target].keys = InsertAt(@, LowerBound(@, Top.key), Top.key)]
  /\ reply' = TRUE
  /\ Return
  /\ UNCHANGED <<free_head, roots, max_keys>>

\* The new leaf takes the upper half and is spliced into the leaf chain; the
\* maximum the parent still records is read before the cells move.
SplitLeaf ==
  /\ Pending("table_insert")
  /\ ~Holds(Target, Top.key)
  /\ Len(pages[Target].keys) >= LeafMaxCells
  /\ LET old == Target
         new == NextPage
         node == pages[old]
         cells == InsertAt(node.keys, LowerBound(node.keys, Top.key), Top.key)
         lower == SubSeq(cells, 1, LeftSplitCount)
         upper == SubSeq(cells, LeftSplitCount + 1, LeafMaxCells + 1)
     IN  /\ pages' = Put([pages EXCEPT ![old].keys = lower, ![old].next = new],
                         new, Leaf(FALSE, node.parent, upper, node.next))
         /\ Continue(<<Call("attach_sibling", old, new, Last(node.keys))>>)
  /\ TakePage
  /\ reply' = TRUE
  /\ UNCHANGED <<roots, max_keys>>

-----------------------------------------------------------------------------
\* Both splits end alike: a root that split gets a new root above its halves,
\* any other node has its separator lowered and its sibling handed to its parent.

\* create_new_root: the root stays on its page, so its contents move out.
CreateNewRoot ==
  /\ Pending("attach_sibling")
  /\ pages[Top.page].is_root
  /\ LET root == Top.page
         right == Top.child
         left == NextPage
         copy == [pages[root] EXCEPT !.is_root = FALSE, !.parent = root]
         ps == Reparent(Put(pages, left, copy), copy.children, left)
     IN  pages' = [ps EXCEPT ![root] = Internal(TRUE, NoPage, <<MaxKey(ps, left)>>, <<left, right>>),
                             ![right].parent = root]
  /\ TakePage
  /\ Return
  /\ UNCHANGED <<roots, max_keys, reply>>

\* update_internal_node_key finds the old node by the maximum it used to have.
AttachToParent ==
  /\ Pending("attach_sibling")
  /\ ~pages[Top.page].is_root
  /\ LET parent == pages[Top.page].parent
         index == LowerBound(pages[parent].keys, Top.key)
     IN  /\ pages' = IF index \in DOMAIN pages[parent].keys
                     THEN [pages EXCEPT ![parent].keys[index] = MaxKey(pages, Top.page)]
                     ELSE pages
         /\ Continue(<<Call("internal_node_insert", parent, Top.child, 0)>>)
  /\ UNCHANGED <<free_head, roots, max_keys, reply>>

\* internal_node_insert into a node with room.  A child that sorts after the
\* rightmost one takes its place, and that one becomes an ordinary cell.
InsertChild ==
  /\ Pending("internal_node_insert")
  /\ Len(pages[Top.page].keys) < max_keys
  /\ LET node == pages[Top.page]
         max == MaxKey(pages, Top.child)
         right_max == MaxKey(pages, Last(node.children))
         index == LowerBound(node.keys, max)
         grown == IF max > right_max
                  THEN [node EXCEPT !.keys = Append(@, right_max),
                                    !.children = Append(@, Top.child)]
                  ELSE [node EXCEPT !.keys = InsertAt(@, index, max),
                                    !.children = InsertAt(@, index, Top.child)]
     IN  pages' = [pages EXCEPT ![Top.page] = grown, ![Top.child].parent = Top.page]
  /\ Return
  /\ UNCHANGED <<free_head, roots, max_keys, reply>>

\* internal_node_split_and_insert: the keys above the middle one and the
\* children right of it move to a new sibling, the middle key goes nowhere (it
\* is the old node's new maximum), and the child goes to the half it belongs in.
SplitInternal ==
  /\ Pending("internal_node_insert")
  /\ Len(pages[Top.page].keys) >= max_keys
  /\ LET old == Top.page
         new == NextPage
         node == pages[old]
         n == Len(node.keys)
         split == n \div 2
         moved == SubSeq(node.children, split + 2, n + 1)
         kept == [node EXCEPT !.keys = SubSeq(@, 1, split),
                              !.children = SubSeq(@, 1, split + 1)]
         sibling == Internal(FALSE, node.parent, SubSeq(node.keys, split + 2, n), moved)
         ps == Reparent(Put([pages EXCEPT ![old] = kept], new, sibling), moved, new)
         destination == IF MaxKey(pages, Top.child) < MaxKey(ps, old) THEN old ELSE new
     IN  /\ pages' = ps
         /\ Continue(<<Call("internal_node_insert", destination, Top.child, 0),
                       Call("attach_sibling", old, new, MaxKey(pages, old))>>)
  /\ TakePage
  /\ UNCHANGED <<roots, max_keys, reply>>

-----------------------------------------------------------------------------
\* table_delete

RefuseMissing ==
  /\ Pending("table_delete")
  /\ ~Holds(Target, Top.key)
  /\ reply' = FALSE
  /\ Return
  /\ UNCHANGED <<pages, free_head, roots, max_keys>>

\* Mutant of LowerSeparator: the climb ends at the parent.
LowerParentSeparator(ps, page, max) ==
  LET parent == ps[page].parent
      index == ChildIndex(ps, parent, page)
  IN  IF index \in DOMAIN ps[parent].keys THEN [ps EXCEPT ![parent].keys[index] = max] ELSE ps

\* lower_ancestor_separator: the separator that records the maximum of the
\* subtree at `page` sits in the nearest ancestor where the climb from `page`
\* arrives by a child other than the rightmost; the root's maximum has none.
LowerSeparator(ps, page, max) ==
  LET climb[p \in {q \in DOMAIN ps : ps[q].type # "free"}] ==
        IF ps[p].is_root THEN ps
        ELSE LET parent == ps[p].parent
                 index == ChildIndex(ps, parent, p)
             IN  IF index \in DOMAIN ps[parent].keys
                 THEN [ps EXCEPT ![parent].keys[index] = max]
                 ELSE climb[parent]
  IN  climb[page]

\* leaf_node_delete.  A root leaf may shrink to nothing; any other leaf passes
\* a lost maximum on to its separator and is repaired if it runs short.
DeleteFromLeaf ==
  /\ Pending("table_delete")
  /\ Holds(Target, Top.key)
  /\ LET leaf == Target
         keys == RemoveAt(pages[leaf].keys, LowerBound(pages[leaf].keys, Top.key))
         ps == [pages EXCEPT ![leaf].keys = keys]
         short == ~pages[leaf].is_root /\ Len(keys) < LeafMinCells
     IN  /\ pages' = IF ~pages[leaf].is_root /\ Top.key = Last(pages[leaf].keys)
                     THEN LowerSeparator(ps, leaf, Last(keys))
                     ELSE ps
         /\ Continue(IF short THEN <<Call("leaf_node_rebalance", leaf, NoPage, 0)>> ELSE <<>>)
  /\ reply' = TRUE
  /\ UNCHANGED <<free_head, roots, max_keys>>

-----------------------------------------------------------------------------
\* Repairs.  The node on top of the stack is one short of its minimum; it
\* borrows from its left sibling, else from its right one, else merges.

Parent == pages[Top.page].parent
Siblings == pages[Parent].children
Position == ChildIndex(pages, Parent, Top.page)

\* Whether the sibling at `index` exists and can give up one of its keys.
CanSpare(index, minimum) ==
  index \in DOMAIN Siblings /\ Len(pages[Siblings[index]].keys) > minimum

SpareLeft(minimum) == CanSpare(Position - 1, minimum)
SpareRight(minimum) == ~SpareLeft(minimum) /\ CanSpare(Position + 1, minimum)

\* Mutant of SpareNone: a first child is left waiting for a sibling on its left.
SpareNoneLeft(minimum) ==
  Position > 1 /\ ~CanSpare(Position - 1, minimum) /\ ~CanSpare(Position + 1, minimum)

SpareNone(minimum) == ~CanSpare(Position - 1, minimum) /\ ~CanSpare(Position + 1, minimum)

\* A merge joins the node to the sibling on its left, or, for a first child,
\* to the one on its right.  This is the position of the left one of the pair.
MergeAt == IF Position > 1 THEN Position - 1 ELSE Position

LeafBorrowLeft ==
  /\ Pending("leaf_node_rebalance")
  /\ SpareLeft(LeafMinCells)
  /\ LET left == Siblings[Position - 1]
         rest == Front(pages[left].keys)
     IN  pages' = [pages EXCEPT ![Top.page].keys = <<Last(pages[left].keys)>> \o @,
                                ![left].keys = rest,
                                ![Parent].keys[Position - 1] = Last(rest)]
  /\ Return
  /\ UNCHANGED <<free_head, roots, max_keys, reply>>

LeafBorrowRight ==
  /\ Pending("leaf_node_rebalance")
  /\ SpareRight(LeafMinCells)
  /\ LET right == Siblings[Position + 1]
         borrowed == Head(pages[right].keys)
     IN  pages' = [pages EXCEPT ![Top.page].keys = Append(@, borrowed),
                                ![right].keys = Tail(@),
                                ![Parent].keys[Position] = borrowed]
  /\ Return
  /\ UNCHANGED <<free_head, roots, max_keys, reply>>

\* leaf_node_merge, then internal_node_remove_child: the right leaf's cells and
\* its place in the chain pass to the left one, and its page is freed.
LeafMerge ==
  /\ Pending("leaf_node_rebalance")
  /\ SpareNone(LeafMinCells)
  /\ LET left == Siblings[MergeAt]
         right == Siblings[MergeAt + 1]
     IN  /\ pages' = [pages EXCEPT ![left] = JoinLeaves(@, pages[right]),
                                   ![right] = FreePage(free_head),
                                   ![Parent] = WithoutChild(@, MergeAt + 1)]
         /\ free_head' = right
  /\ Continue(<<Call("after_child_removed", Parent, NoPage, 0)>>)
  /\ UNCHANGED <<roots, max_keys, reply>>

-----------------------------------------------------------------------------
\* after_child_removed

KeyCount == Len(pages[Top.page].keys)

\* Mutant of EnoughKeys: no node is ever found short.
AnyKeys == TRUE

\* A root needs one key, any other node the minimum.
EnoughKeys ==
  KeyCount >= IF pages[Top.page].is_root THEN 1 ELSE InternalMinKeys(max_keys)

\* A root left with a single child takes over that child's contents.
CollapseRoot ==
  /\ Pending("after_child_removed")
  /\ pages[Top.page].is_root
  /\ ~EnoughKeys
  /\ LET root == Top.page
         child == Last(pages[root].children)
         copy == [pages[child] EXCEPT !.is_root = TRUE, !.parent = NoPage]
         ps == Reparent([pages EXCEPT ![root] = copy], copy.children, root)
     IN  /\ pages' = [ps EXCEPT ![child] = FreePage(free_head)]
         /\ free_head' = child
  /\ Return
  /\ UNCHANGED <<roots, max_keys, reply>>

\* The removal left the node with keys enough: the repair ends here.
KeepNode ==
  /\ Pending("after_child_removed")
  /\ EnoughKeys
  /\ Return
  /\ UNCHANGED <<pages, free_head, roots, max_keys, reply>>

RepairNode ==
  /\ Pending("after_child_removed")
  /\ ~pages[Top.page].is_root
  /\ ~EnoughKeys
  /\ Continue(<<Call("internal_node_rebalance", Top.page, NoPage, 0)>>)
  /\ UNCHANGED <<pages, free_head, roots, max_keys, reply>>

\* internal_node_rebalance: a child rotates through the parent's separator.
InternalBorrowLeft ==
  /\ Pending("internal_node_rebalance")
  /\ SpareLeft(InternalMinKeys(max_keys))
  /\ LET left == Siblings[Position - 1]
         moved == Last(pages[left].children)
         separator == pages[Parent].keys[Position - 1]
     IN  pages' = [pages EXCEPT ![Top.page].keys = <<separator>> \o @,
                                ![Top.page].children = <<moved>> \o @,
                                ![Parent].keys[Position - 1] = Last(pages[left].keys),
                                ![left].keys = Front(@),
                                ![left].children = Front(@),
                                ![moved].parent = Top.page]
  /\ Return
  /\ UNCHANGED <<free_head, roots, max_keys, reply>>

InternalBorrowRight ==
  /\ Pending("internal_node_rebalance")
  /\ SpareRight(InternalMinKeys(max_keys))
  /\ LET right == Siblings[Position + 1]
         moved == Head(pages[right].children)
         separator == pages[Parent].keys[Position]
     IN  pages' = [pages EXCEPT ![Top.page].keys = Append(@, separator),
                                ![Top.page].children = Append(@, moved),
                                ![Parent].keys[Position] = Head(pages[right].keys),
                                ![right].keys = Tail(@),
                                ![right].children = Tail(@),
                                ![moved].parent = Top.page]
  /\ Return
  /\ UNCHANGED <<free_head, roots, max_keys, reply>>

\* internal_node_merge pulls the separator down between the pair's keys.
InternalMerge ==
  /\ Pending("internal_node_rebalance")
  /\ SpareNone(InternalMinKeys(max_keys))
  /\ LET left == Siblings[MergeAt]
         right == Siblings[MergeAt + 1]
         separator == pages[Parent].keys[MergeAt]
         ps == Reparent(pages, pages[right].children, left)
     IN  /\ pages' = [ps EXCEPT ![left].keys = Append(@, separator) \o pages[right].keys,
                                ![left].children = @ \o pages[right].children,
                                ![right] = FreePage(free_head),
                                ![Parent] = WithoutChild(@, MergeAt + 1)]
         /\ free_head' = right
  /\ Continue(<<Call("after_child_removed", Parent, NoPage, 0)>>)
  /\ UNCHANGED <<roots, max_keys, reply>>

-----------------------------------------------------------------------------
InsertStep ==
  \/ RefuseDuplicate \/ InsertIntoLeaf \/ SplitLeaf \/ CreateNewRoot
  \/ AttachToParent \/ InsertChild \/ SplitInternal

DeleteStep ==
  \/ RefuseMissing \/ DeleteFromLeaf \/ LeafBorrowLeft \/ LeafBorrowRight \/ LeafMerge
  \/ CollapseRoot \/ KeepNode \/ RepairNode
  \/ InternalBorrowLeft \/ InternalBorrowRight \/ InternalMerge

Step == InsertStep \/ DeleteStep

Next ==
  \/ \E root \in UserRoots, key \in Keys : CallInsert(root, key) \/ CallDelete(root, key)
  \/ Step

\* A statement once begun runs to its end: nothing else runs in the process.
Spec == Init /\ [][Next]_vars /\ WF_vars(Step)

=============================================================================
