-------------------------- MODULE BTreeProperties --------------------------
(***************************************************************************)
(* What makes the trees of module BTree correct.                           *)
(***************************************************************************)
EXTENDS BTree

\* The pages under `page`, itself included.
PagesUnder(page) ==
  LET grow[S \in SUBSET DOMAIN pages] ==
        LET more == S \cup UNION {ToSet(pages[p].children) : p \in S}
        IN  IF more = S THEN S ELSE grow[more]
  IN  grow[{page}]

\* The leaves under `page`, and the keys they hold.
LeavesUnder(page) == {p \in PagesUnder(page) : pages[p].type = "leaf"}
KeysUnder(page) == UNION {ToSet(pages[l].keys) : l \in LeavesUnder(page)}

\* The leaves a scan of the table at `root` visits: from the one a search for
\* key 0 reaches, along next_leaf.  It ends where the next one is no page of the
\* file, or where it would loop.
ScannedLeaves(root) ==
  LET scan[seen \in Seq(DOMAIN pages)] ==
        LET next == pages[Last(seen)].next
        IN  IF next \notin DOMAIN pages \/ next \in ToSet(seen) THEN seen
            ELSE scan[Append(seen, next)]
  IN  scan[<<LeafFor(pages, root, 0)>>]

KeysIn(leaves) == FlattenSeq([i \in DOMAIN leaves |-> pages[leaves[i]].keys])

\* The pages on the free list, first to last; it ends where the next one is no
\* page of the file, or where it would loop.
FreeList ==
  LET list[seen \in Seq(DOMAIN pages)] ==
        LET next == IF seen = <<>> THEN free_head ELSE pages[Last(seen)].next
        IN  IF next \notin DOMAIN pages \/ next \in ToSet(seen) THEN seen
            ELSE list[Append(seen, next)]
  IN  list[<<>>]

Ascending(keys) == \A i \in 1..Len(keys) - 1 : keys[i] < keys[i + 1]

\* Nodes a split has made that no parent has been told of yet.
Unattached == {f.child : f \in {stack[i] : i \in DOMAIN stack}} \ {NoPage}

Inserting == \E i \in DOMAIN stack : stack[i].fn \in {"attach_sibling", "internal_node_insert"}

-----------------------------------------------------------------------------
\* "Throughout, every separator stays equal to the largest key in the subtree
\* to its left" (btree.c, Deletion; executor.c relies on it).  It holds between
\* statements and at every call of a deletion's repairs; an insert's cascade of
\* splits breaks it only until its last call.
SeparatorsExact ==
  ~Inserting =>
    \A p \in DOMAIN pages : pages[p].type = "internal" =>
      \A i \in DOMAIN pages[p].keys :
        pages[p].keys[i] = Max(KeysUnder(pages[p].children[i]))

\* The leaves under an earlier child come before those under a later one.
InChildOrder(chain, p) ==
  LET under == [i \in DOMAIN pages[p].children |-> PagesUnder(pages[p].children[i])]
  IN  \A i, j \in DOMAIN under : i < j =>
        \A a, b \in DOMAIN chain : chain[a] \in under[i] /\ chain[b] \in under[j] => a < b

\* The keys a scan meets ascend, within each leaf and from leaf to leaf.
KeysAscend(chain) ==
  /\ \A a \in DOMAIN chain : Ascending(pages[chain[a]].keys)
  /\ \A a, b \in DOMAIN chain : a < b =>
       \A k \in ToSet(pages[chain[a]].keys), m \in ToSet(pages[chain[b]].keys) : k < m

\* A scan along next_leaf comes to an end, meets exactly the leaves of its own
\* tree, left to right, and the keys in order with none twice, at every call of
\* a split, a merge or a collapse (leaf_node_split_and_insert's splice,
\* leaf_node_merge, collapse_root).  Only a leaf that is still to be attached may
\* be in the chain and not in the tree.
ChainIsTree ==
  \A root \in roots :
    LET chain == ScannedLeaves(root)
        under == PagesUnder(root)
    IN  /\ IsInjective(chain) /\ pages[Last(chain)].next = NoPage
        /\ \A a \in DOMAIN chain : pages[chain[a]].type = "leaf"
        /\ LeavesUnder(root) \subseteq ToSet(chain)
        /\ ToSet(chain) \subseteq under \/ Inserting
        /\ \A p \in under : InChildOrder(chain, p)
        /\ KeysAscend(chain)

\* Every page belongs to exactly one owner, in every state: one tree, one
\* subtree a split has not attached yet, or the free list.  So no page is
\* handed out twice and none leaks, whichever table freed it.
EveryPageOwnedOnce ==
  LET owned == [r \in roots \cup Unattached |-> PagesUnder(r)]
      free == ToSet(FreeList)
  IN  /\ \A r, s \in DOMAIN owned : r # s => owned[r] \cap owned[s] = {}
      /\ \A r \in DOMAIN owned : owned[r] \cap free = {}
      /\ (UNION {owned[r] : r \in DOMAIN owned}) \cup free = DOMAIN pages
      /\ free = {p \in DOMAIN pages : pages[p].type = "free"}

\* Between statements every node but a root has its minimum fill, all leaves of
\* a tree are equally deep, a root that is internal has a key, and every node
\* names its parent (btree.c: "so the tree stays balanced").
Balanced ==
  Idle =>
    \A root \in roots :
      LET depth[p \in {q \in DOMAIN pages : pages[q].type # "free"}] ==
            IF pages[p].is_root THEN 0 ELSE 1 + depth[pages[p].parent]
          under == PagesUnder(root)
      IN  /\ pages[root].is_root /\ \A p \in under \ {root} : ~pages[p].is_root
          /\ \A p \in under : \A c \in ToSet(pages[p].children) : pages[c].parent = p
          /\ Cardinality({depth[p] : p \in {q \in under : pages[q].type = "leaf"}}) = 1
          /\ \A p \in under \ {root} :
               Len(pages[p].keys) >= IF pages[p].type = "leaf" THEN LeafMinCells
                                     ELSE InternalMinKeys(max_keys)
          /\ pages[root].type = "internal" => pages[root].keys # <<>>

\* None of the consistency checks that end the process can fire: the free
\* list's head is a free page (pager_allocate_page), a descent ends at a leaf
\* (table_find), a node that needs repair is a child of its own parent
\* (child_index_in_parent) and has a sibling (internal_node_child).
NoFatalExit ==
  /\ free_head # NoPage => pages[free_head].type = "free"
  /\ Pending("table_insert") \/ Pending("table_delete") => pages[Target].type = "leaf"
  /\ Pending("leaf_node_rebalance") \/ Pending("internal_node_rebalance") =>
       Top.page \in ToSet(Siblings) /\ Len(Siblings) >= 2

\* Whether the statement at work, judged by the node its outermost pending
\* call is for, is in the tree at `root`.
AtWorkIn(root) == ~Idle /\ Last(stack).page \in PagesUnder(root)

\* A statement on one table leaves the pages of every other table as they
\* are, though all tables share the free list and the end of the file; and its
\* cascade of calls, led by parent fields, never strays into another tree.
OtherTablesUntouched ==
  [][~Idle => \A root \in roots : ~AtWorkIn(root) =>
       /\ \A p \in PagesUnder(root) : pages'[p] = pages[p]
       /\ ~AtWorkIn(root)']_vars

-----------------------------------------------------------------------------
\* The trees implement plain sets of keys: a table's rows are what its leaf
\* chain holds, and a call is outstanding until the leaf it aims at changes.
Rows ==
  [root \in UserRoots |-> UNION {ToSet(pages[l].keys) : l \in ToSet(ScannedLeaves(root))}]

Outstanding ==
  IF Pending("table_insert") THEN [op |-> "insert", table |-> Top.page, key |-> Top.key]
  ELSE IF Pending("table_delete") THEN [op |-> "delete", table |-> Top.page, key |-> Top.key]
  ELSE [op |-> "none"]

Abstract == INSTANCE OrderedTables WITH
  Key <- Keys, rows <- Rows, call <- Outstanding

\* The rows a scan would return change once per call, by the call's own key
\* alone, in one step, and the reply tells the truth: splits, merges, borrows
\* and collapses never lose, duplicate or resurrect a row.
ImplementsTables == Abstract!Spec

\* A call comes to its end: the cascades of splits up to a new root, and of
\* repairs up to a collapsed one, are finite, and none waits for another.
CallsReturn == ~Idle ~> Idle

=============================================================================
