---------------------------- MODULE InsertionProofs ----------------------------
(***************************************************************************)
(* The order of the keys in the trees of module BTree, for every leaf      *)
(* capacity, every set of keys, every cap, and as many tables as a leaf of *)
(* the catalog lists: what it is, and that an insert, its splits and a new *)
(* root keep it.                                                           *)
(*                                                                         *)
(* Every page has an interval of keys, those after lo[p] up to hi[p], and  *)
(* the tree it belongs to, also while no parent lists it.  A child has the *)
(* interval between the separators around it; leaves hold the keys of      *)
(* theirs and name the leaf of the next one.  What is not so yet, the      *)
(* pending calls will mend.                                                *)
(***************************************************************************)
EXTENDS BTreeProofs

-----------------------------------------------------------------------------
\* The first position with a key no smaller.
LEMMA LowerBoundIs ==
  ASSUME NEW keys \in Seq(Nat), NEW key \in Int
  PROVE  /\ LowerBound(keys, key) \in 1..Len(keys) + 1
         /\ \A j \in 1..Len(keys) : j < LowerBound(keys, key) => keys[j] < key
         /\ LowerBound(keys, key) <= Len(keys) => keys[LowerBound(keys, key)] >= key
<1> DEFINE T == {i \in DOMAIN keys : keys[i] >= key} \cup {Len(keys) + 1}
<1>1. T \in SUBSET Nat /\ T # {} /\ DOMAIN keys = 1..Len(keys) /\ Len(keys) \in Nat
  OBVIOUS
<1>2. \A i \in 1..Len(keys) : keys[i] \in Int /\ (i \notin T => keys[i] < key)
  BY <1>1
<1>3. \A i \in T : i \in 1..Len(keys) + 1 /\ (i <= Len(keys) => keys[i] >= key)
  BY <1>1
<1> HIDE DEF T
<1>4. \E m \in T : \A k \in T : m <= k
  BY <1>1, LeastOf
<1>5. PICK m : m = LowerBound(keys, key)
  OBVIOUS
<1>6. m \in T /\ \A k \in T : m <= k
  BY <1>4, <1>5 DEF LowerBound, Min, T
<1> QED
  BY <1>1, <1>2, <1>3, <1>5, <1>6

LEMMA LowerBoundAt ==
  ASSUME NEW keys \in Seq(Nat), NEW key \in Int, NEW i \in 1..Len(keys) + 1,
         \A j \in 1..Len(keys) : j < i => keys[j] < key,
         i <= Len(keys) => keys[i] >= key
  PROVE  LowerBound(keys, key) = i
<1>1. PICK m : m = LowerBound(keys, key)
  OBVIOUS
<1>2. /\ m \in 1..Len(keys) + 1 /\ \A j \in 1..Len(keys) : j < m => keys[j] < key
      /\ m <= Len(keys) => keys[m] >= key
  BY <1>1, LowerBoundIs
<1>3. Len(keys) \in Nat /\ \A j \in 1..Len(keys) : keys[j] \in Int
  OBVIOUS
<1> QED
  BY <1>1, <1>2, <1>3

-----------------------------------------------------------------------------
\* The order of the trees.

IsLeaf(ps, p) == p \in DOMAIN ps /\ ps[p].type = "leaf"

NodeOrdered(node, a, b, top) ==
  /\ -1 <= a /\ a < b /\ b <= top
  /\ node.type = "leaf" => LeafOrdered(node.keys, a, b, top)
  /\ node.type = "internal" => Rising(node.keys, a, b)

\* `l` and `h` are within `a` and `b`, and just these if need be.
Within(a, b, l, h, exact) == a <= l /\ h <= b /\ (exact => l = a /\ h = b)

\* The child at position i has its place between the fences.
Fitted(ps, lo, hi, tree, gaps, p, i) ==
  LET c == ps[p].children[i]
  IN  /\ tree[c] = tree[p]
      /\ Within(Fence(ps[p].keys, lo[p], hi[p], i - 1), Fence(ps[p].keys, lo[p], hi[p], i),
                lo[c], hi[c], c \notin gaps)

RootFits(lo, hi, tree, top, gaps, p) == tree[p] = p /\ lo[p] = -1 /\ (p \notin gaps => hi[p] = top)

\* A leaf names the one whose interval begins where its own ends.
Linked(ps, lo, hi, tree, top, l) ==
  IF hi[l] = top THEN ps[l].next = NoPage
  ELSE IsLeaf(ps, ps[l].next) /\ tree[ps[l].next] = tree[l] /\ lo[ps[l].next] = hi[l]

Apart(lo, hi, tree, l, m) == l # m /\ tree[l] = tree[m] => hi[l] <= lo[m] \/ hi[m] <= lo[l]

Bounds(lo, hi, tree, top) == lo \in [Nat -> Int] /\ hi \in [Nat -> Int] /\ tree \in [Nat -> Nat] /\ top \in Int

Order(ps, lo, hi, tree, top, gaps) ==
  /\ Bounds(lo, hi, tree, top)
  /\ \A p \in DOMAIN ps : Alive(ps, p) => NodeOrdered(ps[p], lo[p], hi[p], top)
  /\ \A p \in DOMAIN ps : \A i \in DOMAIN ps[p].children : Fitted(ps, lo, hi, tree, gaps, p, i)
  /\ \A p \in DOMAIN ps : ps[p].is_root => RootFits(lo, hi, tree, top, gaps, p)
  /\ \A l \in DOMAIN ps : IsLeaf(ps, l) => Linked(ps, lo, hi, tree, top, l)
  /\ \A l, m \in DOMAIN ps : IsLeaf(ps, l) /\ IsLeaf(ps, m) => Apart(lo, hi, tree, l, m)

-----------------------------------------------------------------------------
\* What the pending calls are to mend.

\* `g` is the child of `p` between the fences `a` and `b`.
Slot(ps, lo, hi, p, i, g, a, b) ==
  /\ i \in DOMAIN ps[p].children /\ ps[p].children[i] = g
  /\ a = Fence(ps[p].keys, lo[p], hi[p], i - 1) /\ b = Fence(ps[p].keys, lo[p], hi[p], i)

\* The halves of a split node share what the node had, the new one above the old.
Halves(ps, lo, hi, tree, top, gaps, old, new, key) ==
  /\ tree[new] = tree[old] /\ hi[old] = lo[new]
  /\ key \in Int /\ lo[old] < key /\ key <= hi[new]
  /\ old \in gaps /\ new \notin gaps
  /\ ps[old].is_root => hi[new] = top
  /\ ~ps[old].is_root => \E i : Slot(ps, lo, hi, ps[old].parent, i, old, lo[old], hi[new])

\* `x` is to go before `g` or after it, into the same slot of `p`; after only if
\* the slot is the last.
Before(ps, lo, hi, p, x, g) == \E i : Slot(ps, lo, hi, p, i, g, lo[x], hi[g]) /\ hi[x] = lo[g]
After(ps, lo, hi, p, x, g) ==
  Slot(ps, lo, hi, p, Len(ps[p].children), g, lo[g], hi[x]) /\ hi[g] = lo[x]

Beside(ps, lo, hi, tree, gaps, p, x, g) ==
  /\ tree[x] = tree[p] /\ g \in gaps /\ x \notin gaps /\ -1 < lo[x]
  /\ Before(ps, lo, hi, p, x, g) \/ After(ps, lo, hi, p, x, g)

OneMends(c, ps, lo, hi, tree, top, gaps) ==
  \/ c.fn \in {"table_insert", "table_delete"} /\ gaps = {} /\ c.key <= top
  \/ c.fn \in {"leaf_node_rebalance", "after_child_removed", "internal_node_rebalance"} /\ gaps = {}
  \/ /\ c.fn = "attach_sibling" /\ gaps = {c.page}
     /\ Halves(ps, lo, hi, tree, top, gaps, c.page, c.child, c.key)
  \/ /\ c.fn = "internal_node_insert"
     /\ \E g : gaps = {g} /\ Beside(ps, lo, hi, tree, gaps, c.page, c.child, g)

TwoMend(c, d, ps, lo, hi, tree, top, gaps) ==
  /\ Halves(ps, lo, hi, tree, top, gaps, d.page, d.child, d.key)
  /\ \E g : gaps = {g, d.page} /\ Beside(ps, lo, hi, tree, gaps, c.page, c.child, g)

Mended(st, ps, lo, hi, tree, top, gaps) ==
  \/ st = <<>> /\ gaps = {}
  \/ \E c : st = <<c>> /\ OneMends(c, ps, lo, hi, tree, top, gaps)
  \/ \E c, d : st = <<c, d>> /\ TwoMend(c, d, ps, lo, hi, tree, top, gaps)

Ordered(lo, hi, tree, top, gaps) ==
  Order(pages, lo, hi, tree, top, gaps) /\ Mended(stack, pages, lo, hi, tree, top, gaps)

OrderInv == TreeInv /\ \E lo, hi, tree, top, gaps : Ordered(lo, hi, tree, top, gaps)

\* The keys of a tree.
Has(ps, tree, r, k) == \E l \in DOMAIN ps : ps[l].type = "leaf" /\ tree[l] = r /\ k \in ToSet(ps[l].keys)

-----------------------------------------------------------------------------
\* What the order says of one page, and of a child.

LEMMA IntervalIs ==
  ASSUME NEW ps, NEW lo, NEW hi, NEW tree, NEW top, NEW gaps, Order(ps, lo, hi, tree, top, gaps),
         ps \in Seq(Record), NEW p, Alive(ps, p)
  PROVE  /\ p \in DOMAIN ps /\ p \in Nat /\ lo[p] \in Int /\ hi[p] \in Int /\ top \in Int /\ tree[p] \in Nat
         /\ -1 <= lo[p] /\ lo[p] < hi[p] /\ hi[p] <= top
         /\ NodeOrdered(ps[p], lo[p], hi[p], top)
<1>1. p \in DOMAIN ps /\ p \in Nat
  BY DEF Alive
<1>2. Bounds(lo, hi, tree, top)
  BY DEF Order
<1>3. NodeOrdered(ps[p], lo[p], hi[p], top)
  BY <1>1 DEF Order
<1> QED
  BY <1>1, <1>2, <1>3 DEF Bounds, NodeOrdered

\* A page of a table: its record, its keys and children, counted.
LEMMA InnerIs ==
  ASSUME NEW ps, NEW level, Descends(ps, level), NEW p, Inner(ps, p)
  PROVE  /\ p \in DOMAIN ps /\ Alive(ps, p) /\ ps[p] \in Record /\ ps[p].type = "internal"
         /\ ps[p].keys \in Seq(Nat) /\ Len(ps[p].keys) \in Nat
         /\ ps[p].children \in Seq(Nat) /\ DOMAIN ps[p].children = 1..Len(ps[p].keys) + 1
         /\ Len(ps[p].children) = Len(ps[p].keys) + 1 /\ IsInjective(ps[p].children)
<1>1. p \in DOMAIN ps /\ ps[p].type = "internal" /\ ps \in Seq(Record) /\ ChildrenCounted(ps[p])
  BY DEF Inner, Descends
<1>2. /\ ps[p] \in Record /\ ps[p].keys \in Seq(Nat) /\ Len(ps[p].keys) \in Nat
      /\ ps[p].children \in Seq(Nat) /\ DOMAIN ps[p].children = 1..Len(ps[p].children)
  BY <1>1, PageIs
<1> QED
  BY <1>1, <1>2 DEF ChildrenCounted, Alive

LEMMA ChildFits ==
  ASSUME NEW ps, NEW level, Descends(ps, level),
         NEW lo, NEW hi, NEW tree, NEW top, NEW gaps, Order(ps, lo, hi, tree, top, gaps),
         NEW p, Inner(ps, p), NEW i \in 1..Len(ps[p].keys) + 1, NEW c, c = ps[p].children[i],
         NEW a, NEW b, a = Fence(ps[p].keys, lo[p], hi[p], i - 1), b = Fence(ps[p].keys, lo[p], hi[p], i)
  PROVE  /\ Alive(ps, c) /\ c \in Kids(ps, p) /\ tree[c] = tree[p]
         /\ a \in Int /\ b \in Int /\ lo[c] \in Int /\ hi[c] \in Int /\ lo[p] \in Int /\ hi[p] \in Int
         /\ lo[p] <= a /\ a <= lo[c] /\ lo[c] < hi[c] /\ hi[c] <= b /\ b <= hi[p]
         /\ c \notin gaps => lo[c] = a /\ hi[c] = b
<1>1. /\ p \in DOMAIN ps /\ Alive(ps, p) /\ ps[p].keys \in Seq(Nat) /\ Len(ps[p].keys) \in Nat
      /\ DOMAIN ps[p].children = 1..Len(ps[p].keys) + 1 /\ ps[p].type = "internal"
  BY InnerIs
<1>2. Alive(ps, c) /\ c \in Kids(ps, p) /\ ps \in Seq(Record)
  BY ChildIsBelow DEF Descends
<1>3. lo[p] \in Int /\ hi[p] \in Int /\ lo[p] < hi[p] /\ NodeOrdered(ps[p], lo[p], hi[p], top)
  BY <1>1, <1>2, IntervalIs
<1>4. lo[c] \in Int /\ hi[c] \in Int /\ lo[c] < hi[c]
  BY <1>2, IntervalIs
<1>5. Fitted(ps, lo, hi, tree, gaps, p, i)
  BY <1>1 DEF Order
<1>6. tree[c] = tree[p] /\ Within(a, b, lo[c], hi[c], c \notin gaps)
  BY <1>5 DEF Fitted
<1>7. PICK n, keys, l, h : n = Len(ps[p].keys) /\ keys = ps[p].keys /\ l = lo[p] /\ h = hi[p]
  OBVIOUS
<1>e. n \in Nat /\ i \in 1..n + 1
  BY <1>1, <1>7
<1>8. /\ \A j \in 0..n + 1 : Fence(keys, l, h, j) \in Int
      /\ Fence(keys, l, h, 0) = l /\ Fence(keys, l, h, n + 1) = h
  <2>1. keys \in Seq(Nat) /\ l \in Int /\ h \in Int /\ n = Len(keys)
    BY <1>1, <1>3, <1>7
  <2>2. Fences(keys, l, h, n)
    BY <2>1, FenceIs
  <2> QED
    BY <2>2 DEF Fences
<1>9. Rising(ps[p].keys, lo[p], hi[p])
  BY <1>1, <1>3 DEF NodeOrdered
<1>10. /\ 0 \in 0..n + 1 /\ n + 1 \in 0..n + 1 /\ i - 1 \in 0..n + 1 /\ i \in 0..n + 1
       /\ i - 1 = 0 \/ 0 < i - 1
       /\ i = n + 1 \/ i < n + 1
  BY <1>e
<1>11. a \in Int /\ b \in Int /\ (i - 1 = 0 => a = lo[p]) /\ (i = n + 1 => b = hi[p])
  BY <1>7, <1>8, <1>10
<1>12. (0 < i - 1 => lo[p] < a) /\ (i < n + 1 => b < hi[p])
  BY <1>7, <1>8, <1>9, <1>10 DEF Rising
<1>13. lo[p] <= a /\ b <= hi[p]
  BY <1>3, <1>10, <1>11, <1>12
<1> QED
  BY <1>2, <1>3, <1>4, <1>6, <1>11, <1>13 DEF Within

-----------------------------------------------------------------------------
\* A step that writes the pages of F, or changes their intervals, leaves the
\* order of the others alone if their children and neighbours stay in place.

Carries(m, n) ==
  /\ n.type = m.type /\ n.is_root = m.is_root
  /\ n.keys = m.keys /\ n.children = m.children /\ n.next = m.next

OutsideSame(ps, qs, lo, hi, tree, lo2, hi2, tree2, F) ==
  \A p \in DOMAIN qs \ F :
    /\ p \in DOMAIN ps /\ Carries(ps[p], qs[p])
    /\ lo2[p] = lo[p] /\ hi2[p] = hi[p] /\ tree2[p] = tree[p]

KidStays(lo, hi, tree, gaps, lo2, hi2, tree2, gaps2, c) ==
  /\ tree2[c] = tree[c] /\ lo[c] <= lo2[c] /\ hi2[c] <= hi[c]
  /\ c \notin gaps2 => c \notin gaps /\ lo2[c] = lo[c] /\ hi2[c] = hi[c]

KidsStay(ps, qs, lo, hi, tree, gaps, lo2, hi2, tree2, gaps2, F) ==
  \A p \in DOMAIN qs \ F : \A c \in Kids(ps, p) :
    KidStays(lo, hi, tree, gaps, lo2, hi2, tree2, gaps2, c)

RootsStay(qs, gaps, gaps2, F) == \A p \in DOMAIN qs \ F : qs[p].is_root /\ p \notin gaps2 => p \notin gaps

LinksStay(ps, qs, lo, hi, tree, top, lo2, tree2, F) ==
  \A l \in DOMAIN qs \ F : IsLeaf(ps, l) /\ hi[l] # top =>
    IsLeaf(qs, ps[l].next) /\ tree2[ps[l].next] = tree[ps[l].next] /\ lo2[ps[l].next] = lo[ps[l].next]

Settled(ps, lo, hi, tree, top, gaps, p) ==
  /\ Alive(ps, p) => NodeOrdered(ps[p], lo[p], hi[p], top)
  /\ \A i \in DOMAIN ps[p].children : Fitted(ps, lo, hi, tree, gaps, p, i)
  /\ ps[p].is_root => RootFits(lo, hi, tree, top, gaps, p)
  /\ IsLeaf(ps, p) => Linked(ps, lo, hi, tree, top, p)

InsideSettled(ps, lo, hi, tree, top, gaps, F) == \A p \in F \cap DOMAIN ps : Settled(ps, lo, hi, tree, top, gaps, p)

LeavesApart(ps, lo, hi, tree, F) ==
  \A l \in F \cap DOMAIN ps, m \in DOMAIN ps : IsLeaf(ps, l) /\ IsLeaf(ps, m) => Apart(lo, hi, tree, l, m)

LEMMA OrderUpdated ==
  ASSUME NEW ps, NEW level, Descends(ps, level),
         NEW lo, NEW hi, NEW tree, NEW top, NEW gaps, Order(ps, lo, hi, tree, top, gaps),
         NEW qs, NEW lo2, NEW hi2, NEW tree2, NEW gaps2, Bounds(lo2, hi2, tree2, top), NEW F,
         OutsideSame(ps, qs, lo, hi, tree, lo2, hi2, tree2, F),
         KidsStay(ps, qs, lo, hi, tree, gaps, lo2, hi2, tree2, gaps2, F),
         RootsStay(qs, gaps, gaps2, F), LinksStay(ps, qs, lo, hi, tree, top, lo2, tree2, F),
         InsideSettled(qs, lo2, hi2, tree2, top, gaps2, F), LeavesApart(qs, lo2, hi2, tree2, F)
  PROVE  Order(qs, lo2, hi2, tree2, top, gaps2)
<1>1. ASSUME NEW p \in DOMAIN qs, p \notin F
      PROVE  /\ p \in DOMAIN ps /\ Carries(ps[p], qs[p])
             /\ lo2[p] = lo[p] /\ hi2[p] = hi[p] /\ tree2[p] = tree[p]
             /\ Alive(ps, p) <=> Alive(qs, p)
             /\ IsLeaf(ps, p) <=> IsLeaf(qs, p)
  BY <1>1 DEF OutsideSame, Carries, Alive, IsLeaf
<1>2. ASSUME NEW p \in DOMAIN qs, Alive(qs, p) PROVE NodeOrdered(qs[p], lo2[p], hi2[p], top)
  <2>1. CASE p \in F
    BY <1>2, <2>1 DEF InsideSettled, Settled
  <2>2. CASE p \notin F
    <3>1. NodeOrdered(ps[p], lo[p], hi[p], top)
      BY <1>1, <1>2, <2>2 DEF Order
    <3> QED
      BY <1>1, <2>2, <3>1 DEF NodeOrdered, Carries
  <2> QED
    BY <2>1, <2>2
<1>3. ASSUME NEW p \in DOMAIN qs, NEW i \in DOMAIN qs[p].children PROVE Fitted(qs, lo2, hi2, tree2, gaps2, p, i)
  <2>1. CASE p \in F
    BY <1>3, <2>1 DEF InsideSettled, Settled
  <2>2. CASE p \notin F
    <3>1. PICK c : c = ps[p].children[i]
      OBVIOUS
    <3>2. PICK a, b : a = Fence(ps[p].keys, lo[p], hi[p], i - 1) /\ b = Fence(ps[p].keys, lo[p], hi[p], i)
      OBVIOUS
    <3>3. /\ p \in DOMAIN ps /\ i \in DOMAIN ps[p].children /\ qs[p].children = ps[p].children
          /\ qs[p].keys = ps[p].keys
          /\ lo2[p] = lo[p] /\ hi2[p] = hi[p] /\ tree2[p] = tree[p]
      BY <1>1, <1>3, <2>2 DEF Carries
    <3>4. Inner(ps, p) /\ i \in 1..Len(ps[p].keys) + 1
      <4>1. ps[p].children # <<>>
        BY <3>3
      <4>2. ps[p].type = "internal"
        BY <3>3, <4>1 DEF Descends, ChildrenCounted
      <4>3. Inner(ps, p)
        BY <3>3, <4>2 DEF Inner
      <4> QED
        BY <3>3, <4>3, InnerIs
    <3>5. /\ c \in Kids(ps, p) /\ tree[c] = tree[p]
          /\ a \in Int /\ b \in Int /\ lo[c] \in Int /\ hi[c] \in Int
          /\ a <= lo[c] /\ hi[c] <= b /\ (c \notin gaps => lo[c] = a /\ hi[c] = b) /\ Alive(ps, c)
      BY <3>1, <3>2, <3>4, ChildFits
    <3>6. KidStays(lo, hi, tree, gaps, lo2, hi2, tree2, gaps2, c)
      BY <2>2, <3>5 DEF KidsStay
    <3>7. lo2[c] \in Int /\ hi2[c] \in Int
      <4>1. c \in Nat
        BY <3>5 DEF Descends, Alive
      <4> QED
        BY <4>1 DEF Bounds
    <3>8. tree2[c] = tree2[p] /\ Within(a, b, lo2[c], hi2[c], c \notin gaps2)
      BY <3>3, <3>5, <3>6, <3>7 DEF KidStays, Within
    <3> QED
      BY <3>1, <3>2, <3>3, <3>8 DEF Fitted
  <2> QED
    BY <2>1, <2>2
<1>4. ASSUME NEW p \in DOMAIN qs, qs[p].is_root PROVE RootFits(lo2, hi2, tree2, top, gaps2, p)
  <2>1. CASE p \in F
    BY <1>4, <2>1 DEF InsideSettled, Settled
  <2>2. CASE p \notin F
    <3>1. p \in DOMAIN ps /\ ps[p].is_root
      BY <1>1, <1>4, <2>2 DEF Carries
    <3>2. RootFits(lo, hi, tree, top, gaps, p)
      BY <3>1 DEF Order
    <3> QED
      BY <1>1, <1>4, <2>2, <3>2 DEF RootFits, RootsStay
  <2> QED
    BY <2>1, <2>2
<1>5. ASSUME NEW l \in DOMAIN qs, IsLeaf(qs, l) PROVE Linked(qs, lo2, hi2, tree2, top, l)
  <2>1. CASE l \in F
    BY <1>5, <2>1 DEF InsideSettled, Settled
  <2>2. CASE l \notin F
    <3>1. IsLeaf(ps, l) /\ Linked(ps, lo, hi, tree, top, l)
      BY <1>1, <1>5, <2>2 DEF Order
    <3>2. qs[l].next = ps[l].next /\ hi2[l] = hi[l] /\ tree2[l] = tree[l]
      BY <1>1, <2>2 DEF Carries
    <3>3. CASE hi[l] = top
      BY <3>1, <3>2, <3>3 DEF Linked
    <3>4. CASE hi[l] # top
      <4>1. IsLeaf(qs, ps[l].next) /\ tree2[ps[l].next] = tree[ps[l].next] /\ lo2[ps[l].next] = lo[ps[l].next]
        BY <2>2, <3>1, <3>4 DEF LinksStay
      <4> QED
        BY <3>1, <3>2, <3>4, <4>1 DEF Linked
    <3> QED
      BY <3>3, <3>4
  <2> QED
    BY <2>1, <2>2
<1>6. ASSUME NEW l \in DOMAIN qs, NEW m \in DOMAIN qs, IsLeaf(qs, l), IsLeaf(qs, m)
      PROVE  Apart(lo2, hi2, tree2, l, m)
  <2>1. CASE l \in F
    BY <1>6, <2>1 DEF LeavesApart
  <2>2. CASE m \in F
    <3>1. Apart(lo2, hi2, tree2, m, l)
      BY <1>6, <2>2 DEF LeavesApart
    <3> QED
      BY <3>1 DEF Apart
  <2>3. CASE l \notin F /\ m \notin F
    <3>1. Apart(lo, hi, tree, l, m)
      BY <1>1, <1>6, <2>3 DEF Order
    <3> QED
      BY <1>1, <2>3, <3>1 DEF Apart
  <2> QED
    BY <2>1, <2>2, <2>3
<1> QED
  BY <1>2, <1>3, <1>4, <1>5, <1>6 DEF Order

-----------------------------------------------------------------------------
\* Where the rightmost path and a descent lead: they do not leave a set of pages
\* that holds the next page with each.

LEMMA RightmostLeaf ==
  ASSUME NEW ps, NEW level, Descends(ps, level), NEW Q, NEW page \in Q, Alive(ps, page),
         \A p \in Q : Inner(ps, p) => ps[p].children[Len(ps[p].keys) + 1] \in Q
  PROVE  \E e \in Q : IsLeaf(ps, e) /\ MaxKey(ps, page) = Last(ps[e].keys)
<1> DEFINE D == DOMAIN ps
           stop == {p \in D : ps[p].type # "internal"}
           value == [p \in D |-> p]
           next == [p \in D |-> Last(ps[p].children)]
           R == {p \in D : Alive(ps, p) /\ p \in Q}
<1>1. PICK top \in Nat : level \in [D -> 0..top]
  BY DEF Descends
<1>2. ASSUME NEW p \in D \ stop
      PROVE  /\ Inner(ps, p) /\ Alive(ps, next[p]) /\ next[p] \in D /\ level[next[p]] < level[p]
             /\ next[p] = ps[p].children[Len(ps[p].keys) + 1]
  <2>1. Inner(ps, p)
    BY DEF Inner
  <2>2. PICK i : i = Len(ps[p].keys) + 1
    OBVIOUS
  <2>3. PICK c : c = ps[p].children[i]
    OBVIOUS
  <2>4. i \in 1..Len(ps[p].keys) + 1 /\ Len(ps[p].children) = i /\ Len(ps[p].keys) \in Nat
    BY <2>1, <2>2, InnerIs
  <2>5. Alive(ps, c) /\ level[c] \in Nat /\ level[p] = level[c] + 1
    BY <2>1, <2>3, <2>4, ChildIsBelow
  <2>6. next[p] = c
    BY <2>3, <2>4 DEF Last
  <2> QED
    BY <2>1, <2>2, <2>3, <2>5, <2>6 DEF Alive
<1>3. \E f : Follows(f, D, stop, value, next)
  <2>1. \A p \in D \ stop : next[p] \in D /\ level[next[p]] < level[p]
    BY <1>2
  <2> HIDE DEF D, stop, value, next, R
  <2> QED
    BY <1>1, <2>1, PathExists
<1> DEFINE body(f) == [p \in DOMAIN ps |->
                         IF ps[p].type = "internal" THEN f[Last(ps[p].children)] ELSE p]
           rightmost == CHOOSE f : f = body(f)
<1>4. ASSUME NEW f PROVE Follows(f, D, stop, value, next) <=> f = body(f)
  <2>1. [p \in D |-> IF p \in stop THEN value[p] ELSE f[next[p]]] = body(f)
    OBVIOUS
  <2> QED
    BY <2>1 DEF Follows
<1> HIDE DEF body
<1>5. Follows(rightmost, D, stop, value, next)
  BY <1>3, <1>4
<1>6. MaxKey(ps, page) = Last(ps[rightmost[page]].keys)
  BY DEF MaxKey, body
<1> HIDE DEF rightmost
<1>7. \A p \in R : \E q \in R \cap stop : rightmost[p] = value[q]
  <2>1. \A p \in R \ stop : next[p] \in R /\ level[next[p]] < level[p]
    BY <1>2
  <2>2. R \in SUBSET D
    OBVIOUS
  <2> HIDE DEF D, stop, value, next, R
  <2> QED
    BY <1>1, <1>5, <2>1, <2>2, PathEnds
<1>8. PICK q \in R \cap stop : rightmost[page] = q
  BY <1>7 DEF Alive
<1>9. IsLeaf(ps, q)
  <2>1. ps[q] \in Record /\ ps[q].type # "free" /\ ps[q].type # "internal"
    BY <1>8 DEF Alive, Descends
  <2> QED
    BY <1>8, <2>1 DEF Record, IsLeaf
<1> QED
  BY <1>6, <1>8, <1>9

LEMMA DescentStays ==
  ASSUME NEW ps, NEW level, Descends(ps, level), NEW Q, NEW page \in Q, Alive(ps, page), NEW key,
         \A p \in Q : Inner(ps, p) => ps[p].children[LowerBound(ps[p].keys, key)] \in Q
  PROVE  LeafFor(ps, page, key) \in Q /\ IsLeaf(ps, LeafFor(ps, page, key))
<1> DEFINE D == DOMAIN ps
           stop == {p \in D : ps[p].type # "internal"}
           value == [p \in D |-> p]
           next == [p \in D |-> ps[p].children[LowerBound(ps[p].keys, key)]]
           R == {p \in D : Alive(ps, p) /\ p \in Q}
<1>1. PICK top \in Nat : level \in [D -> 0..top]
  BY DEF Descends
<1>2. ASSUME NEW p \in D \ stop
      PROVE  /\ Inner(ps, p) /\ Alive(ps, next[p]) /\ next[p] \in D /\ level[next[p]] < level[p]
             /\ next[p] = ps[p].children[LowerBound(ps[p].keys, key)]
  <2>1. Inner(ps, p)
    BY DEF Inner
  <2>2. PICK i : i = LowerBound(ps[p].keys, key)
    OBVIOUS
  <2>3. PICK c : c = ps[p].children[i]
    OBVIOUS
  <2>4. i \in 1..Len(ps[p].keys) + 1
    BY <2>1, <2>2, InnerIs, LowerBoundInRange
  <2>5. Alive(ps, c) /\ level[c] \in Nat /\ level[p] = level[c] + 1
    BY <2>1, <2>3, <2>4, ChildIsBelow
  <2> QED
    BY <2>1, <2>2, <2>3, <2>5 DEF Alive
<1>3. \E f : Follows(f, D, stop, value, next)
  <2>1. \A p \in D \ stop : next[p] \in D /\ level[next[p]] < level[p]
    BY <1>2
  <2> HIDE DEF D, stop, value, next, R
  <2> QED
    BY <1>1, <2>1, PathExists
<1> DEFINE body(f) == [p \in DOMAIN ps |->
                         IF ps[p].type = "internal"
                         THEN f[ps[p].children[LowerBound(ps[p].keys, key)]]
                         ELSE p]
           leaf == CHOOSE f : f = body(f)
<1>4. ASSUME NEW f PROVE Follows(f, D, stop, value, next) <=> f = body(f)
  <2>1. [p \in D |-> IF p \in stop THEN value[p] ELSE f[next[p]]] = body(f)
    OBVIOUS
  <2> QED
    BY <2>1 DEF Follows
<1> HIDE DEF body
<1>5. Follows(leaf, D, stop, value, next)
  BY <1>3, <1>4
<1>6. LeafFor(ps, page, key) = leaf[page]
  BY DEF LeafFor, body
<1> HIDE DEF leaf
<1>7. \A p \in R : \E q \in R \cap stop : leaf[p] = value[q]
  <2>1. \A p \in R \ stop : next[p] \in R /\ level[next[p]] < level[p]
    BY <1>2
  <2>2. R \in SUBSET D
    OBVIOUS
  <2> HIDE DEF D, stop, value, next, R
  <2> QED
    BY <1>1, <1>5, <2>1, <2>2, PathEnds
<1>8. PICK q \in R \cap stop : leaf[page] = q
  BY <1>7 DEF Alive
<1>9. IsLeaf(ps, q)
  <2>1. ps[q] \in Record /\ ps[q].type # "free" /\ ps[q].type # "internal"
    BY <1>8 DEF Alive, Descends
  <2> QED
    BY <1>8, <2>1 DEF Record, IsLeaf
<1> QED
  BY <1>6, <1>8, <1>9

\* The largest key of a page is in its interval.
LEMMA MaxKeyIn ==
  ASSUME NEW ps, NEW level, Descends(ps, level), LeavesHoldKeys(ps),
         NEW lo, NEW hi, NEW tree, NEW top, NEW gaps, Order(ps, lo, hi, tree, top, gaps),
         NEW page, Alive(ps, page), ps[page].is_root => Inner(ps, page)
  PROVE  MaxKey(ps, page) \in Nat /\ lo[page] < MaxKey(ps, page) /\ MaxKey(ps, page) <= hi[page]
<1> DEFINE Q == {p \in DOMAIN ps : Alive(ps, p) /\ (ps[p].is_root => Inner(ps, p)) /\ lo[page] <= lo[p] /\ hi[p] <= hi[page]}
<1>0. ps \in Seq(Record) /\ page \in DOMAIN ps
  BY DEF Descends, Alive
<1>1. lo[page] \in Int /\ hi[page] \in Int
  BY <1>0, IntervalIs
<1>2. page \in Q
  BY <1>0, <1>1
<1>3. ASSUME NEW p \in Q, Inner(ps, p) PROVE ps[p].children[Len(ps[p].keys) + 1] \in Q
  <2>1. PICK i : i = Len(ps[p].keys) + 1
    OBVIOUS
  <2>2. PICK c, a, b : /\ c = ps[p].children[i]
                       /\ a = Fence(ps[p].keys, lo[p], hi[p], i - 1) /\ b = Fence(ps[p].keys, lo[p], hi[p], i)
    OBVIOUS
  <2>3. i \in 1..Len(ps[p].keys) + 1
    BY <1>3, <2>1, InnerIs
  <2>4. /\ Alive(ps, c) /\ lo[c] \in Int /\ hi[c] \in Int /\ lo[p] \in Int /\ hi[p] \in Int
        /\ a \in Int /\ b \in Int /\ lo[p] <= a /\ a <= lo[c] /\ hi[c] <= b /\ b <= hi[p]
    BY <1>3, <2>2, <2>3, ChildFits
  <2>5. ~ps[c].is_root
    BY <1>3, <2>2, <2>3, ChildIsBelow
  <2>6. lo[page] <= lo[p] /\ hi[p] <= hi[page]
    BY <1>3
  <2>7. lo[page] <= lo[c] /\ hi[c] <= hi[page]
    BY <1>1, <2>4, <2>6
  <2> QED
    BY <2>1, <2>2, <2>4, <2>5, <2>7 DEF Alive
<1>4. PICK e \in Q : IsLeaf(ps, e) /\ MaxKey(ps, page) = Last(ps[e].keys)
  <2>1. \A p \in Q : Inner(ps, p) => ps[p].children[Len(ps[p].keys) + 1] \in Q
    BY <1>3
  <2>2. PICK R : R = Q
    OBVIOUS
  <2>3. page \in R /\ \A p \in R : Inner(ps, p) => ps[p].children[Len(ps[p].keys) + 1] \in R
    BY <1>2, <2>1, <2>2
  <2>4. \E e \in R : IsLeaf(ps, e) /\ MaxKey(ps, page) = Last(ps[e].keys)
    <3> HIDE DEF Q
    <3> QED
      BY <2>3, RightmostLeaf
  <2> QED
    BY <2>2, <2>4
<1>5. e \in DOMAIN ps /\ Alive(ps, e) /\ ps[e].type = "leaf" /\ lo[page] <= lo[e] /\ hi[e] <= hi[page]
  BY <1>4 DEF IsLeaf
<1>e. ~ps[e].is_root
  BY <1>4, <1>5 DEF Inner
<1>6. /\ lo[e] \in Int /\ hi[e] \in Int /\ LeafOrdered(ps[e].keys, lo[e], hi[e], top)
  BY <1>0, <1>5, IntervalIs DEF NodeOrdered
<1>7. ps[e].keys \in Seq(Nat) /\ Len(ps[e].keys) \in Nat /\ Len(ps[e].keys) # 0
  BY <1>0, <1>5, <1>e, PageIs DEF LeavesHoldKeys
<1>8. PICK n, k : n = Len(ps[e].keys) /\ k = ps[e].keys[n]
  OBVIOUS
<1>9. MaxKey(ps, page) = k /\ k \in Nat
  BY <1>4, <1>7, <1>8 DEF Last
<1>10. lo[e] < k /\ k <= hi[e]
  BY <1>6, <1>7, <1>8 DEF LeafOrdered
<1> QED
  BY <1>1, <1>5, <1>6, <1>9, <1>10

\* The largest key of a page is the end of its interval, if no gap below hides it.
LEMMA MaxKeyAt ==
  ASSUME NEW ps, NEW level, Descends(ps, level), LeavesHoldKeys(ps),
         NEW lo, NEW hi, NEW tree, NEW top, NEW gaps, Order(ps, lo, hi, tree, top, gaps),
         NEW page, Alive(ps, page), hi[page] # top,
         \A p, c : Inner(ps, p) /\ level[p] <= level[page] /\ hi[p] = hi[page]
                    /\ c = ps[p].children[Len(ps[p].keys) + 1] =>
           c \notin gaps \/ hi[c] = hi[p]
  PROVE  MaxKey(ps, page) = hi[page]
<1> DEFINE Q == {p \in DOMAIN ps : Alive(ps, p) /\ level[p] <= level[page] /\ hi[p] = hi[page]}
<1>0. /\ ps \in Seq(Record) /\ page \in DOMAIN ps
      /\ level[page] \in Nat
  BY LevelTells DEF Descends, Alive
<1>1. page \in Q
  BY <1>0
<1>2. ASSUME NEW p \in Q, Inner(ps, p) PROVE ps[p].children[Len(ps[p].keys) + 1] \in Q
  <2>1. PICK i : i = Len(ps[p].keys) + 1
    OBVIOUS
  <2>2. PICK c, a, b : /\ c = ps[p].children[i]
                       /\ a = Fence(ps[p].keys, lo[p], hi[p], i - 1) /\ b = Fence(ps[p].keys, lo[p], hi[p], i)
    OBVIOUS
  <2>3. i \in 1..Len(ps[p].keys) + 1 /\ Len(ps[p].keys) \in Nat
    BY <1>2, <2>1, InnerIs
  <2>4. c \notin gaps \/ hi[c] = hi[p]
    BY <1>2, <2>1, <2>2
  <2>a. Alive(ps, c) /\ (c \notin gaps => hi[c] = b)
    BY <1>2, <2>2, <2>3, ChildFits
  <2>6. b = hi[p]
    BY <2>1, <2>2, <2>3 DEF Fence
  <2>5. Alive(ps, c) /\ hi[c] = b
    BY <2>4, <2>6, <2>a
  <2>7. level[c] \in Nat /\ level[p] = level[c] + 1 /\ level[p] <= level[page]
    BY <1>2, <2>2, <2>3, ChildIsBelow
  <2>8. level[c] <= level[page]
    BY <1>0, <2>7
  <2> QED
    BY <1>2, <2>1, <2>2, <2>5, <2>6, <2>8 DEF Alive
<1>3. PICK e \in Q : IsLeaf(ps, e) /\ MaxKey(ps, page) = Last(ps[e].keys)
  <2>1. PICK R : R = Q
    OBVIOUS
  <2>2. page \in R /\ \A p \in R : Inner(ps, p) => ps[p].children[Len(ps[p].keys) + 1] \in R
    BY <1>1, <1>2, <2>1
  <2>3. \E e \in R : IsLeaf(ps, e) /\ MaxKey(ps, page) = Last(ps[e].keys)
    <3> HIDE DEF Q
    <3> QED
      BY <2>2, RightmostLeaf
  <2> QED
    BY <2>1, <2>3
<1>4. e \in DOMAIN ps /\ Alive(ps, e) /\ ps[e].type = "leaf" /\ hi[e] = hi[page]
  BY <1>3 DEF IsLeaf
<1>5. LeafOrdered(ps[e].keys, lo[e], hi[e], top)
  BY <1>0, <1>4, IntervalIs DEF NodeOrdered
<1> QED
  BY <1>3, <1>4, <1>5 DEF LeafOrdered, Last

LEMMA MaxKeyIs ==
  ASSUME NEW ps, NEW level, Descends(ps, level), LeavesHoldKeys(ps),
         NEW lo, NEW hi, NEW tree, NEW top, NEW gaps, Order(ps, lo, hi, tree, top, gaps),
         NEW page, Alive(ps, page), hi[page] # top,
         \A p : Inner(ps, p) /\ level[p] <= level[page] =>
           ps[p].children[Len(ps[p].keys) + 1] \notin gaps
  PROVE  MaxKey(ps, page) = hi[page]
BY MaxKeyAt

\* A leaf of a tree is known by either end of its interval.
LEMMA LeafByEnd ==
  ASSUME NEW ps \in Seq(Record),
         NEW lo, NEW hi, NEW tree, NEW top, NEW gaps, Order(ps, lo, hi, tree, top, gaps),
         NEW l, NEW m, IsLeaf(ps, l), IsLeaf(ps, m), tree[l] = tree[m], lo[l] = lo[m] \/ hi[l] = hi[m]
  PROVE  l = m
<1>1. Alive(ps, l) /\ Alive(ps, m)
  BY DEF IsLeaf, Alive
<1>2. /\ lo[l] \in Int /\ hi[l] \in Int /\ lo[l] < hi[l]
      /\ lo[m] \in Int /\ hi[m] \in Int /\ lo[m] < hi[m]
  BY <1>1, IntervalIs
<1>3. Apart(lo, hi, tree, l, m)
  BY DEF Order, IsLeaf
<1> QED
  BY <1>2, <1>3 DEF Apart

\* A descent for a key, from a page whose interval holds it, meets only such pages.
LEMMA DescentFinds ==
  ASSUME NEW ps, NEW level, Descends(ps, level),
         NEW lo, NEW hi, NEW tree, NEW top, Order(ps, lo, hi, tree, top, {}),
         NEW page, Alive(ps, page), NEW key \in Nat, lo[page] < key, key <= hi[page],
         NEW leaf, leaf = LeafFor(ps, page, key)
  PROVE  IsLeaf(ps, leaf) /\ tree[leaf] = tree[page] /\ lo[leaf] < key /\ key <= hi[leaf]
<1> DEFINE Q == {p \in DOMAIN ps : Alive(ps, p) /\ tree[p] = tree[page] /\ lo[p] < key /\ key <= hi[p]}
<1>1. page \in Q
  BY DEF Alive
<1>2. ASSUME NEW p \in Q, Inner(ps, p) PROVE ps[p].children[LowerBound(ps[p].keys, key)] \in Q
  <2>1. PICK i : i = LowerBound(ps[p].keys, key)
    OBVIOUS
  <2>2. PICK c, a, b : /\ c = ps[p].children[i]
                       /\ a = Fence(ps[p].keys, lo[p], hi[p], i - 1) /\ b = Fence(ps[p].keys, lo[p], hi[p], i)
    OBVIOUS
  <2>3. ps[p].keys \in Seq(Nat) /\ Len(ps[p].keys) \in Nat
    BY <1>2, InnerIs
  <2>4. /\ i \in 1..Len(ps[p].keys) + 1
        /\ \A j \in 1..Len(ps[p].keys) : j < i => ps[p].keys[j] < key
        /\ i <= Len(ps[p].keys) => ps[p].keys[i] >= key
    <3>1. PICK ks : ks = ps[p].keys
      OBVIOUS
    <3>2. ks \in Seq(Nat) /\ key \in Int
      BY <2>3, <3>1
    <3>3. /\ LowerBound(ks, key) \in 1..Len(ks) + 1
          /\ \A j \in 1..Len(ks) : j < LowerBound(ks, key) => ks[j] < key
          /\ LowerBound(ks, key) <= Len(ks) => ks[LowerBound(ks, key)] >= key
      BY <3>2, LowerBoundIs
    <3> QED
      BY <2>1, <3>1, <3>3
  <2>5. Alive(ps, c) /\ tree[c] = tree[p] /\ lo[c] = a /\ hi[c] = b /\ a \in Int /\ b \in Int
    BY <1>2, <2>2, <2>4, ChildFits
  <2>6. a < key
    <3>1. CASE i = 1
      BY <1>2, <2>2, <3>1 DEF Fence
    <3>2. CASE i # 1
      <4>1. i - 1 \in 1..Len(ps[p].keys) /\ i - 1 # 0 /\ i - 1 < i /\ i - 1 <= Len(ps[p].keys)
        BY <2>3, <2>4, <3>2
      <4>2. a = ps[p].keys[i - 1]
        BY <2>2, <4>1 DEF Fence
      <4> QED
        BY <2>4, <4>1, <4>2
    <3> QED
      BY <3>1, <3>2
  <2>7. key <= b
    <3>1. CASE i <= Len(ps[p].keys)
      <4>1. b = ps[p].keys[i] /\ ps[p].keys[i] \in Nat
        BY <2>2, <2>3, <2>4, <3>1 DEF Fence
      <4> QED
        BY <2>4, <3>1, <4>1
    <3>2. CASE ~(i <= Len(ps[p].keys))
      BY <1>2, <2>2, <2>3, <2>4, <3>2 DEF Fence
    <3> QED
      BY <3>1, <3>2
  <2> QED
    BY <1>2, <2>1, <2>2, <2>5, <2>6, <2>7 DEF Alive
<1>3. leaf \in Q /\ IsLeaf(ps, leaf)
  <2>1. PICK R : R = Q
    OBVIOUS
  <2>2. page \in R /\ \A p \in R : Inner(ps, p) => ps[p].children[LowerBound(ps[p].keys, key)] \in R
    BY <1>1, <1>2, <2>1
  <2>3. leaf \in R /\ IsLeaf(ps, leaf)
    <3> HIDE DEF Q
    <3> QED
      BY <2>2, DescentStays
  <2> QED
    BY <2>1, <2>3
<1> QED
  BY <1>3

-----------------------------------------------------------------------------
\* The pending call, and what it is to mend.

LEMMA MendIs ==
  ASSUME NEW level, NEW loose, NEW short, Sound(level, loose, short), ~Idle,
         NEW lo, NEW hi, NEW tree, NEW top, NEW gaps, Ordered(lo, hi, tree, top, gaps)
  PROVE  \/ /\ stack = <<Top>> /\ OneCall(Top, pages, max_keys, roots, level, loose, short)
            /\ OneMends(Top, pages, lo, hi, tree, top, gaps)
            /\ Return <=> stack' = <<>>
            /\ \A c : Continue(<<c>>) <=> stack' = <<c>>
            /\ \A c, d : Continue(<<c, d>>) <=> stack' = <<c, d>>
            /\ Continue(<<>>) <=> stack' = <<>>
         \/ \E d : /\ stack = <<Top, d>> /\ TwoCalls(Top, d, pages, max_keys, level, loose, short)
                   /\ TwoMend(Top, d, pages, lo, hi, tree, top, gaps)
                   /\ Return <=> stack' = <<d>>
<1>1. Mended(stack, pages, lo, hi, tree, top, gaps) /\ stack # <<>>
  BY DEF Ordered, Idle
<1>2. CASE \E c : stack = <<c>> /\ OneMends(c, pages, lo, hi, tree, top, gaps)
  <2>1. PICK c : stack = <<c>> /\ OneMends(c, pages, lo, hi, tree, top, gaps)
    BY <1>2
  <2>2. Top = c
    BY <2>1, Calls DEF Top
  <2>3. \A d : stack # <<Top, d>>
    BY <2>1
  <2> QED
    BY <2>1, <2>2, <2>3, TopIs
<1>3. CASE \E c, d : stack = <<c, d>> /\ TwoMend(c, d, pages, lo, hi, tree, top, gaps)
  <2>1. PICK c, d : stack = <<c, d>> /\ TwoMend(c, d, pages, lo, hi, tree, top, gaps)
    BY <1>3
  <2>2. Top = c
    BY <2>1, Calls DEF Top
  <2>3. stack # <<Top>> /\ \A e : stack = <<Top, e>> => e = d
    BY <2>1
  <2> QED
    BY <2>1, <2>2, <2>3, TopIs
<1> QED
  BY <1>1, <1>2, <1>3 DEF Mended

LEMMA StatementMends ==
  ASSUME NEW level, NEW loose, NEW short, Sound(level, loose, short),
         NEW lo, NEW hi, NEW tree, NEW top, NEW gaps, Ordered(lo, hi, tree, top, gaps),
         Pending("table_insert") \/ Pending("table_delete")
  PROVE  gaps = {} /\ Top.key <= top
<1>1. ~Idle /\ Top.fn \in {"table_insert", "table_delete"}
  BY DEF Pending, Top
<1> QED
  BY <1>1, MendIs DEF OneMends, TwoCalls, PlaceCall

LEMMA RepairMends ==
  ASSUME NEW level, NEW loose, NEW short, Sound(level, loose, short),
         NEW lo, NEW hi, NEW tree, NEW top, NEW gaps, Ordered(lo, hi, tree, top, gaps),
         NEW fn \in {"leaf_node_rebalance", "after_child_removed", "internal_node_rebalance"}, Pending(fn)
  PROVE  gaps = {}
<1>1. ~Idle /\ Top.fn = fn
  BY DEF Pending, Top
<1> QED
  BY <1>1, MendIs DEF OneMends, TwoCalls, PlaceCall

LEMMA AttachMends ==
  ASSUME NEW level, NEW loose, NEW short, Sound(level, loose, short),
         NEW lo, NEW hi, NEW tree, NEW top, NEW gaps, Ordered(lo, hi, tree, top, gaps),
         Pending("attach_sibling")
  PROVE  gaps = {Top.page} /\ Halves(pages, lo, hi, tree, top, gaps, Top.page, Top.child, Top.key)
<1>1. ~Idle /\ Top.fn = "attach_sibling"
  BY DEF Pending, Top
<1> QED
  BY <1>1, MendIs DEF OneMends, TwoCalls, PlaceCall

LEMMA PlaceMends ==
  ASSUME NEW level, NEW loose, NEW short, Sound(level, loose, short),
         NEW lo, NEW hi, NEW tree, NEW top, NEW gaps, Ordered(lo, hi, tree, top, gaps),
         Pending("internal_node_insert")
  PROVE  \E g : /\ Beside(pages, lo, hi, tree, gaps, Top.page, Top.child, g)
                /\ \/ gaps = {g} /\ (Return => stack' = <<>>)
                   \/ \E d : /\ gaps = {g, d.page} /\ (Return => stack' = <<d>>)
                             /\ TwoCalls(Top, d, pages, max_keys, level, loose, short)
                             /\ Halves(pages, lo, hi, tree, top, gaps, d.page, d.child, d.key)
<1>1. ~Idle /\ Top.fn = "internal_node_insert"
  BY DEF Pending, Top
<1>2. CASE OneMends(Top, pages, lo, hi, tree, top, gaps) /\ (Return => stack' = <<>>)
  BY <1>1, <1>2 DEF OneMends
<1>3. CASE \E d : /\ TwoCalls(Top, d, pages, max_keys, level, loose, short)
                  /\ TwoMend(Top, d, pages, lo, hi, tree, top, gaps) /\ (Return => stack' = <<d>>)
  BY <1>3 DEF TwoMend
<1> QED
  BY <1>1, <1>2, <1>3, MendIs

\* Where a statement's descent leads: to the leaf whose interval holds the key.
LEMMA TargetIs ==
  ASSUME NEW level, NEW loose, NEW short, Sound(level, loose, short),
         NEW lo, NEW hi, NEW tree, NEW top, NEW gaps, Ordered(lo, hi, tree, top, gaps),
         Pending("table_insert") \/ Pending("table_delete"), NEW leaf, leaf = Target
  PROVE  /\ gaps = {} /\ IsLeaf(pages, leaf) /\ Alive(pages, leaf) /\ tree[leaf] = Top.page
         /\ Top.key \in Nat /\ lo[leaf] < Top.key /\ Top.key <= hi[leaf]
         /\ NodeOrdered(pages[leaf], lo[leaf], hi[leaf], top) /\ LeafOrdered(pages[leaf].keys, lo[leaf], hi[leaf], top)
         /\ lo[leaf] \in Int /\ hi[leaf] \in Int /\ -1 <= lo[leaf] /\ hi[leaf] <= top /\ top \in Int
         /\ leaf \in DOMAIN pages /\ leaf \in Nat /\ pages[leaf] \in Record /\ pages[leaf].type = "leaf"
         /\ pages[leaf].keys \in Seq(Nat) /\ pages[leaf].children = <<>>
<1>1. Order(pages, lo, hi, tree, top, gaps) /\ Tree(pages, free_head, max_keys, roots, level, loose, short)
  BY DEF Ordered, Sound
<1>2. pages \in Seq(Record) /\ Descends(pages, level)
  BY <1>1, TreeTyped
<1>3. StatementCall(Top, roots) /\ Top.key \in Nat /\ Alive(pages, Top.page)
  BY StatementOnTop
<1>4. gaps = {} /\ Top.key <= top
  BY StatementMends
<1>5. Top.page \in DOMAIN pages /\ pages[Top.page].is_root
  BY <1>1, <1>3 DEF Tree, StatementCall
<1>6. RootFits(lo, hi, tree, top, gaps, Top.page)
  BY <1>1, <1>5 DEF Order
<1>7. PICK page, key : page = Top.page /\ key = Top.key
  OBVIOUS
<1>8. tree[page] = page /\ lo[page] < key /\ key <= hi[page]
  BY <1>3, <1>4, <1>6, <1>7 DEF RootFits
<1>9. IsLeaf(pages, leaf) /\ tree[leaf] = tree[page] /\ lo[leaf] < key /\ key <= hi[leaf]
  <2>1. leaf = LeafFor(pages, page, key) /\ Alive(pages, page) /\ key \in Nat
    BY <1>3, <1>7 DEF Target
  <2>2. Order(pages, lo, hi, tree, top, {})
    BY <1>1, <1>4
  <2> QED
    BY <1>2, <1>8, <2>1, <2>2, DescentFinds
<1>10. Alive(pages, leaf) /\ leaf \in DOMAIN pages
  BY <1>9 DEF IsLeaf, Alive
<1>11. pages[leaf] \in Record /\ pages[leaf].type = "leaf" /\ pages[leaf].keys \in Seq(Nat)
  BY <1>2, <1>9, <1>10, PageIs DEF IsLeaf
<1>12. pages[leaf].children = <<>>
  BY <1>2, <1>10, <1>11 DEF Descends, ChildrenCounted
<1>13. /\ lo[leaf] \in Int /\ hi[leaf] \in Int /\ -1 <= lo[leaf] /\ hi[leaf] <= top /\ top \in Int
       /\ leaf \in Nat /\ NodeOrdered(pages[leaf], lo[leaf], hi[leaf], top)
  BY <1>1, <1>2, <1>10, IntervalIs
<1> QED
  BY <1>3, <1>4, <1>7, <1>8, <1>9, <1>10, <1>11, <1>12, <1>13 DEF NodeOrdered

-----------------------------------------------------------------------------
\* What a step does to the order, and to the keys of the tables.

RowsKept(tree, tree2) == \A r, k : Has(pages', tree2, r, k) <=> Has(pages, tree, r, k)
RowGained(tree, tree2, t, key) ==
  \A r, k : Has(pages', tree2, r, k) <=> Has(pages, tree, r, k) \/ (r = t /\ k = key)
RowLost(tree, tree2, t, key) ==
  \A r, k : Has(pages', tree2, r, k) <=> Has(pages, tree, r, k) /\ ~(r = t /\ k = key)

OrderKept(tree) ==
  \E lo2, hi2, tree2, top2, gaps2 : Ordered(lo2, hi2, tree2, top2, gaps2)' /\ RowsKept(tree, tree2)
KeyAdded(tree) ==
  \E lo2, hi2, tree2, top2, gaps2 :
    Ordered(lo2, hi2, tree2, top2, gaps2)' /\ RowGained(tree, tree2, Top.page, Top.key)
KeyRemovedFrom(tree) ==
  \E lo2, hi2, tree2, top2, gaps2 :
    Ordered(lo2, hi2, tree2, top2, gaps2)' /\ RowLost(tree, tree2, Top.page, Top.key)

HasIn(ps, tree, F, r, k) ==
  \E l \in F \cap DOMAIN ps : ps[l].type = "leaf" /\ tree[l] = r /\ k \in ToSet(ps[l].keys)

\* Outside F the leaves are what they were.
LeavesKept(ps, qs, tree, tree2, F) ==
  \A p : p \notin F /\ (IsLeaf(ps, p) \/ IsLeaf(qs, p)) =>
    IsLeaf(ps, p) /\ IsLeaf(qs, p) /\ qs[p].keys = ps[p].keys /\ tree2[p] = tree[p]

LEMMA RowsOutside ==
  ASSUME NEW ps, NEW qs, NEW tree, NEW tree2, NEW F, LeavesKept(ps, qs, tree, tree2, F)
  PROVE  \A r, k : \E out \in BOOLEAN :
           /\ Has(ps, tree, r, k) <=> HasIn(ps, tree, F, r, k) \/ out
           /\ Has(qs, tree2, r, k) <=> HasIn(qs, tree2, F, r, k) \/ out
           /\ out <=> HasIn(ps, tree, DOMAIN ps \ F, r, k)
<1> SUFFICES ASSUME NEW r, NEW k, NEW out \in BOOLEAN, out <=> HasIn(ps, tree, DOMAIN ps \ F, r, k)
             PROVE  /\ Has(ps, tree, r, k) <=> HasIn(ps, tree, F, r, k) \/ out
                    /\ Has(qs, tree2, r, k) <=> HasIn(qs, tree2, F, r, k) \/ out
  OBVIOUS
<1>1. Has(ps, tree, r, k) <=> HasIn(ps, tree, F, r, k) \/ HasIn(ps, tree, DOMAIN ps \ F, r, k)
  BY DEF Has, HasIn
<1>2. Has(qs, tree2, r, k) => HasIn(qs, tree2, F, r, k) \/ HasIn(ps, tree, DOMAIN ps \ F, r, k)
  BY DEF Has, HasIn, LeavesKept, IsLeaf
<1>3. HasIn(qs, tree2, F, r, k) \/ HasIn(ps, tree, DOMAIN ps \ F, r, k) => Has(qs, tree2, r, k)
  BY DEF Has, HasIn, LeavesKept, IsLeaf
<1> QED
  BY <1>1, <1>2, <1>3

\* The intervals stay, and pages of F are written that are no more leaves than before.
LEMMA OrderRewritten ==
  ASSUME NEW ps, NEW level, Descends(ps, level),
         NEW lo, NEW hi, NEW tree, NEW top, NEW gaps, Order(ps, lo, hi, tree, top, gaps),
         NEW qs, NEW F,
         \A p \in DOMAIN qs \ F : p \in DOMAIN ps /\ Carries(ps[p], qs[p]),
         \A p : IsLeaf(ps, p) <=> IsLeaf(qs, p),
         InsideSettled(qs, lo, hi, tree, top, gaps, F)
  PROVE  Order(qs, lo, hi, tree, top, gaps)
<1>1. Bounds(lo, hi, tree, top)
  BY DEF Order
<1>2. OutsideSame(ps, qs, lo, hi, tree, lo, hi, tree, F)
  BY DEF OutsideSame
<1>3. KidsStay(ps, qs, lo, hi, tree, gaps, lo, hi, tree, gaps, F)
  <2>1. ASSUME NEW p \in DOMAIN qs \ F, NEW c \in Kids(ps, p) PROVE KidStays(lo, hi, tree, gaps, lo, hi, tree, gaps, c)
    <3>1. p \in DOMAIN ps
      OBVIOUS
    <3>2. c \in DOMAIN ps /\ c \in Nat
      BY <3>1 DEF Descends, Alive
    <3>3. lo[c] \in Int /\ hi[c] \in Int
      BY <1>1, <3>2 DEF Bounds
    <3> QED
      BY <3>3 DEF KidStays
  <2> QED
    BY <2>1 DEF KidsStay
<1>4. RootsStay(qs, gaps, gaps, F)
  BY DEF RootsStay
<1>5. LinksStay(ps, qs, lo, hi, tree, top, lo, tree, F)
  BY DEF LinksStay, Order, Linked, IsLeaf
<1>6. LeavesApart(qs, lo, hi, tree, F)
  BY DEF LeavesApart, Order, IsLeaf
<1> QED
  BY <1>1, <1>2, <1>3, <1>4, <1>5, <1>6, OrderUpdated

\* Steps that change no page and no interval.
LEMMA StillOrdered ==
  ASSUME NEW lo, NEW hi, NEW tree, NEW top, NEW gaps, Ordered(lo, hi, tree, top, gaps),
         pages' = pages, Mended(stack', pages, lo, hi, tree, top, gaps)
  PROVE  OrderKept(tree)
<1>1. Ordered(lo, hi, tree, top, gaps)'
  BY DEF Ordered
<1>2. RowsKept(tree, tree)
  BY DEF RowsKept
<1> QED
  BY <1>1, <1>2 DEF OrderKept

LEMMA RefuseKeepsOrder ==
  ASSUME NEW level, NEW loose, NEW short, Sound(level, loose, short),
         NEW lo, NEW hi, NEW tree, NEW top, NEW gaps, Ordered(lo, hi, tree, top, gaps),
         RefuseDuplicate \/ RefuseMissing
  PROVE  OrderKept(tree)
<1>1. Pending("table_insert") \/ Pending("table_delete")
  BY DEF RefuseDuplicate, RefuseMissing
<1>2. Return /\ pages' = pages
  BY DEF RefuseDuplicate, RefuseMissing
<1>3. stack' = <<>> /\ gaps = {}
  BY <1>1, <1>2, StatementOnTop, StatementMends
<1> QED
  BY <1>2, <1>3, StillOrdered DEF Mended

LEMMA AfterRemovalKeepsOrder ==
  ASSUME NEW level, NEW loose, NEW short, Sound(level, loose, short),
         NEW lo, NEW hi, NEW tree, NEW top, NEW gaps, Ordered(lo, hi, tree, top, gaps),
         KeepNode \/ RepairNode
  PROVE  OrderKept(tree)
<1>1. Pending("after_child_removed") /\ pages' = pages
  BY DEF KeepNode, RepairNode
<1>2. gaps = {}
  BY <1>1, RepairMends
<1>3. stack' = <<>> \/ stack' = <<Call("internal_node_rebalance", Top.page, NoPage, 0)>>
  BY <1>1, RepairOnTop DEF KeepNode, RepairNode
<1>4. Mended(stack', pages, lo, hi, tree, top, gaps)
  BY <1>2, <1>3 DEF Mended, OneMends, Call
<1> QED
  BY <1>1, <1>4, StillOrdered

\* A key above the bound raises the bound, and the last interval of each tree with it.
LEMMA TopRaised ==
  ASSUME NEW ps, NEW level, Descends(ps, level),
         NEW lo, NEW hi, NEW tree, NEW top, Order(ps, lo, hi, tree, top, {}),
         NEW top2 \in Int, top <= top2, NEW hi2, hi2 = [p \in Nat |-> IF hi[p] = top THEN top2 ELSE hi[p]]
  PROVE  Order(ps, lo, hi2, tree, top2, {})
<1>0. ps \in Seq(Record) /\ Bounds(lo, hi, tree, top) /\ top \in Int
  BY DEF Descends, Order, Bounds
<1>1. Bounds(lo, hi2, tree, top2)
  BY <1>0 DEF Bounds
<1>2. ASSUME NEW p, Alive(ps, p)
      PROVE  /\ p \in DOMAIN ps /\ lo[p] \in Int /\ hi[p] \in Int /\ hi2[p] \in Int /\ -1 <= lo[p]
             /\ NodeOrdered(ps[p], lo[p], hi[p], top)
             /\ hi2[p] = IF hi[p] = top THEN top2 ELSE hi[p]
             /\ lo[p] < hi[p] /\ hi[p] <= top /\ hi[p] <= hi2[p] /\ hi2[p] <= top2
             /\ (hi2[p] = top2 <=> hi[p] = top)
  <2>1. /\ p \in DOMAIN ps /\ p \in Nat /\ lo[p] \in Int /\ hi[p] \in Int /\ -1 <= lo[p] /\ lo[p] < hi[p] /\ hi[p] <= top
        /\ NodeOrdered(ps[p], lo[p], hi[p], top)
    BY <1>0, <1>2, IntervalIs
  <2>2. hi2[p] = IF hi[p] = top THEN top2 ELSE hi[p]
    BY <2>1
  <2> QED
    BY <1>0, <2>1, <2>2
<1>3. ASSUME NEW p \in DOMAIN ps, Alive(ps, p) PROVE NodeOrdered(ps[p], lo[p], hi2[p], top2)
  <2>1. -1 <= lo[p] /\ lo[p] < hi2[p] /\ hi2[p] <= top2
    BY <1>2, <1>3
  <2>2. ps[p].keys \in Seq(Nat) /\ Len(ps[p].keys) \in Nat
    BY <1>0, PageIs
  <2>3. ASSUME ps[p].type = "leaf" PROVE LeafOrdered(ps[p].keys, lo[p], hi2[p], top2)
    <3>1. LeafOrdered(ps[p].keys, lo[p], hi[p], top)
      BY <1>2, <1>3, <2>3 DEF NodeOrdered
    <3>2. \A i \in 1..Len(ps[p].keys) : ps[p].keys[i] \in Nat
      BY <2>2
    <3>3. hi2[p] # top2 => hi2[p] = hi[p] /\ hi[p] # top
      BY <1>2, <1>3
    <3>4. \A i \in 1..Len(ps[p].keys) : lo[p] < ps[p].keys[i] /\ ps[p].keys[i] <= hi2[p]
      <4>1. hi[p] <= hi2[p] /\ hi[p] \in Int /\ hi2[p] \in Int
        BY <1>2, <1>3
      <4>2. PICK h, h2 : h = hi[p] /\ h2 = hi2[p]
        OBVIOUS
      <4>3. \A i \in 1..Len(ps[p].keys) : lo[p] < ps[p].keys[i] /\ ps[p].keys[i] <= h
        BY <3>1, <4>2 DEF LeafOrdered
      <4> QED
        BY <3>2, <4>1, <4>2, <4>3
    <3> QED
      BY <3>1, <3>3, <3>4 DEF LeafOrdered
  <2>4. ASSUME ps[p].type = "internal" PROVE Rising(ps[p].keys, lo[p], hi2[p])
    <3>1. Rising(ps[p].keys, lo[p], hi[p])
      BY <1>2, <1>3, <2>4 DEF NodeOrdered
    <3>2. PICK n : n = Len(ps[p].keys)
      OBVIOUS
    <3>3. PICK ks, l, h, h2 : ks = ps[p].keys /\ l = lo[p] /\ h = hi[p] /\ h2 = hi2[p]
      OBVIOUS
    <3>4. ks \in Seq(Nat) /\ n = Len(ks) /\ n \in Nat /\ l \in Int /\ h \in Int /\ h2 \in Int /\ h <= h2
      BY <1>2, <1>3, <2>2, <3>2, <3>3
    <3>5. Fences(ks, l, h, n)
      BY <3>4, FenceIs
    <3>6. /\ \A i \in 0..n : Fence(ks, l, h2, i) = Fence(ks, l, h, i)
          /\ Fence(ks, l, h2, n + 1) = h2 /\ Fence(ks, l, h, n + 1) = h
      BY <3>4 DEF Fence
    <3>7. \A i, j \in 0..n + 1 : i < j => Fence(ks, l, h, i) < Fence(ks, l, h, j)
      BY <3>1, <3>3, <3>4 DEF Rising
    <3>8. \A i, j \in 0..n + 1 : i < j => Fence(ks, l, h2, i) < Fence(ks, l, h2, j)
      <4> SUFFICES ASSUME NEW i \in 0..n + 1, NEW j \in 0..n + 1, i < j
                   PROVE  Fence(ks, l, h2, i) < Fence(ks, l, h2, j)
        OBVIOUS
      <4>1. Fence(ks, l, h, i) < Fence(ks, l, h, j) /\ Fence(ks, l, h, i) \in Int /\ Fence(ks, l, h, j) \in Int
        BY <3>5, <3>7 DEF Fences
      <4>2. Fence(ks, l, h2, i) = Fence(ks, l, h, i)
        BY <3>4, <3>6
      <4>3. j = n + 1 \/ j \in 0..n
        BY <3>4
      <4> QED
        BY <3>4, <3>6, <4>1, <4>2, <4>3
    <3> QED
      BY <3>3, <3>4, <3>8 DEF Rising
  <2> QED
    BY <2>1, <2>3, <2>4 DEF NodeOrdered
<1>4. ASSUME NEW p \in DOMAIN ps, NEW i \in DOMAIN ps[p].children PROVE Fitted(ps, lo, hi2, tree, {}, p, i)
  <2>1. PICK c, n : c = ps[p].children[i] /\ n = Len(ps[p].keys)
    OBVIOUS
  <2>2. PICK a, b : a = Fence(ps[p].keys, lo[p], hi[p], i - 1) /\ b = Fence(ps[p].keys, lo[p], hi[p], i)
    OBVIOUS
  <2>3. Inner(ps, p) /\ Alive(ps, p) /\ i \in 1..n + 1 /\ n \in Nat
    <3>1. ps[p].children # <<>>
      OBVIOUS
    <3>2. Inner(ps, p)
      BY <3>1 DEF Descends, ChildrenCounted, Inner
    <3> QED
      BY <2>1, <3>2, InnerIs
  <2>4. /\ Alive(ps, c) /\ tree[c] = tree[p] /\ lo[c] = a /\ hi[c] = b /\ a \in Int /\ b \in Int
    BY <2>1, <2>2, <2>3, ChildFits
  <2>5. Fence(ps[p].keys, lo[p], hi2[p], i - 1) = a
    BY <2>1, <2>2, <2>3 DEF Fence
  <2>6. Fence(ps[p].keys, lo[p], hi2[p], i) = hi2[c]
    <3>1. CASE i = n + 1
      <4>1. b = hi[p] /\ Fence(ps[p].keys, lo[p], hi2[p], i) = hi2[p]
        BY <2>1, <2>2, <2>3, <3>1 DEF Fence
      <4> QED
        BY <1>2, <2>3, <2>4, <4>1
    <3>2. CASE i # n + 1
      <4>1. Fence(ps[p].keys, lo[p], hi2[p], i) = b
        BY <2>1, <2>2, <2>3, <3>2 DEF Fence
      <4>2. b < hi[p]
        <5>1. Rising(ps[p].keys, lo[p], hi[p])
          BY <1>2, <2>3 DEF NodeOrdered, Inner
        <5>2. i \in 0..n + 1 /\ n + 1 \in 0..n + 1 /\ i < n + 1
          BY <2>3, <3>2
        <5>3. Fence(ps[p].keys, lo[p], hi[p], n + 1) = hi[p]
          BY <2>1, <2>3 DEF Fence
        <5> QED
          BY <2>1, <2>2, <5>1, <5>2, <5>3 DEF Rising
      <4>3. hi[p] <= top /\ hi[p] \in Int
        BY <1>2, <2>3
      <4>4. hi[c] # top
        BY <1>0, <2>4, <4>2, <4>3
      <4>5. hi2[c] = hi[c]
        BY <1>2, <2>4, <4>4
      <4> QED
        BY <2>4, <4>1, <4>5
    <3> QED
      BY <3>1, <3>2
  <2>7. hi2[c] \in Int
    BY <1>2, <2>4
  <2> QED
    BY <2>1, <2>4, <2>5, <2>6, <2>7 DEF Fitted, Within
<1>5. ASSUME NEW p \in DOMAIN ps, ps[p].is_root PROVE RootFits(lo, hi2, tree, top2, {}, p)
  <2>1. RootFits(lo, hi, tree, top, {}, p)
    BY <1>5 DEF Order
  <2>2. p \in Nat
    BY <1>0
  <2> QED
    BY <2>1, <2>2 DEF RootFits
<1>6. ASSUME NEW l \in DOMAIN ps, IsLeaf(ps, l) PROVE Linked(ps, lo, hi2, tree, top2, l)
  <2>1. Alive(ps, l) /\ Linked(ps, lo, hi, tree, top, l)
    BY <1>6 DEF Order, IsLeaf, Alive
  <2> QED
    BY <1>2, <2>1 DEF Linked
<1>7. ASSUME NEW l \in DOMAIN ps, NEW m \in DOMAIN ps, IsLeaf(ps, l), IsLeaf(ps, m) PROVE Apart(lo, hi2, tree, l, m)
  <2>1. Alive(ps, l) /\ Alive(ps, m) /\ Apart(lo, hi, tree, l, m)
    BY <1>7 DEF Order, IsLeaf, Alive
  <2>2. ASSUME NEW p, NEW q, Alive(ps, p), Alive(ps, q), hi[p] <= lo[q] PROVE hi2[p] = hi[p]
    <3>1. hi[p] # top
      <4>1. hi[p] \in Int /\ lo[q] \in Int /\ hi[q] \in Int /\ lo[q] < hi[q] /\ hi[q] <= top
        BY <1>2, <2>2
      <4> QED
        BY <1>0, <2>2, <4>1
    <3> QED
      BY <1>2, <2>2, <3>1
  <2>3. (hi[l] <= lo[m] => hi2[l] = hi[l]) /\ (hi[m] <= lo[l] => hi2[m] = hi[m])
    BY <2>1, <2>2
  <2> QED
    BY <2>1, <2>3 DEF Apart
<1> QED
  BY <1>1, <1>3, <1>4, <1>5, <1>6, <1>7 DEF Order

LEMMA CallKeepsOrder ==
  ASSUME NEW level, NEW loose, NEW short, Sound(level, loose, short),
         NEW lo, NEW hi, NEW tree, NEW top, NEW gaps, Ordered(lo, hi, tree, top, gaps),
         NEW root \in UserRoots, NEW key \in Keys, CallInsert(root, key) \/ CallDelete(root, key)
  PROVE  OrderKept(tree)
<1>1. /\ Idle /\ pages' = pages
      /\ \E fn \in {"table_insert", "table_delete"} : stack' = <<Call(fn, root, NoPage, key)>>
  BY DEF CallInsert, CallDelete
<1>2. Descends(pages, level)
  BY TreeTyped DEF Sound
<1>3. Order(pages, lo, hi, tree, top, {}) /\ gaps = {}
  <2>1. \A c, d : stack # <<c>> /\ stack # <<c, d>>
    BY <1>1 DEF Idle
  <2> QED
    BY <2>1 DEF Ordered, Mended
<1>4. top \in Int /\ key \in Int
  BY <1>3, KeysAssumption DEF Order, Bounds
<1>5. PICK top2 \in Int : top <= top2 /\ key <= top2
  BY <1>4
<1>6. PICK hi2 : hi2 = [p \in Nat |-> IF hi[p] = top THEN top2 ELSE hi[p]]
  OBVIOUS
<1>7. Order(pages, lo, hi2, tree, top2, {})
  BY <1>2, <1>3, <1>5, <1>6, TopRaised
<1>8. Mended(stack', pages, lo, hi2, tree, top2, {})
  BY <1>1, <1>5 DEF Mended, OneMends, Call
<1>9. Ordered(lo, hi2, tree, top2, {})'
  BY <1>1, <1>7, <1>8 DEF Ordered
<1>10. RowsKept(tree, tree)
  BY <1>1 DEF RowsKept
<1> QED
  BY <1>9, <1>10 DEF OrderKept

-----------------------------------------------------------------------------
\* A leaf takes the key of an insert.

LEMMA LeafGains ==
  ASSUME NEW keys \in Seq(Nat), NEW a \in Int, NEW b \in Int, NEW top \in Int, LeafOrdered(keys, a, b, top),
         NEW key \in Nat, a < key, key <= b, key \notin ToSet(keys),
         NEW ks, ks = InsertAt(keys, LowerBound(keys, key), key)
  PROVE  /\ ks \in Seq(Nat) /\ Len(ks) = Len(keys) + 1 /\ LeafOrdered(ks, a, b, top)
         /\ ToSet(ks) = ToSet(keys) \cup {key}
<1>1. PICK n, i : n = Len(keys) /\ i = LowerBound(keys, key)
  OBVIOUS
<1>2. /\ n \in Nat /\ i \in 1..n + 1
      /\ \A j \in 1..n : keys[j] \in Nat /\ keys[j] # key
      /\ \A j \in 1..n : j < i => keys[j] < key
      /\ i <= n => keys[i] >= key
  <2>1. /\ LowerBound(keys, key) \in 1..Len(keys) + 1
        /\ \A j \in 1..Len(keys) : j < LowerBound(keys, key) => keys[j] < key
        /\ LowerBound(keys, key) <= Len(keys) => keys[LowerBound(keys, key)] >= key
    <3>1. key \in Int
      OBVIOUS
    <3> QED
      BY <3>1, LowerBoundIs
  <2>2. \A j \in 1..n : keys[j] \in Nat /\ keys[j] # key
    <3>1. \A j \in 1..Len(keys) : keys[j] \in Nat /\ keys[j] # key
      BY NotAmong
    <3> QED
      BY <1>1, <3>1
  <2> QED
    BY <1>1, <2>1, <2>2
<1>e. ks = InsertAt(keys, i, key) /\ i \in 1..Len(keys) + 1
  BY <1>1, <1>2
<1>3. Inserted(Nat, ks, keys, i, key) /\ Enlarged(Nat, ks, keys, key)
  BY <1>e, InsertAtIs, InsertAtGrows
<1>4. ks \in Seq(Nat) /\ Len(ks) = n + 1 /\ ToSet(ks) = ToSet(keys) \cup {key}
  BY <1>1, <1>3 DEF Inserted, Enlarged
<1>f. /\ i \in Int /\ n \in Int
      /\ \A j \in 1..n + 1 : j < i => j \in 1..n /\ ks[j] = keys[j]
      /\ ks[i] = key
      /\ \A j \in 1..n + 1 : j > i => j - 1 \in 1..n /\ j - 1 >= i /\ ks[j] = keys[j - 1]
  <2>1. \A j \in 1..n + 1 : ks[j] = IF j < i THEN keys[j] ELSE IF j = i THEN key ELSE keys[j - 1]
    BY <1>1, <1>3 DEF Inserted
  <2> QED
    BY <1>2, <2>1
<1>5. /\ \A j \in 1..n : a < keys[j] /\ keys[j] <= b
      /\ \A j, k \in 1..n : j < k => keys[j] < keys[k]
      /\ b # top => n # 0 /\ keys[n] = b
  BY <1>1 DEF LeafOrdered
<1>6. \A j \in 1..n : j >= i => key < keys[j]
  BY <1>2, <1>5
<1>7. \A j \in 1..n + 1 : a < ks[j] /\ ks[j] <= b
  <2> SUFFICES ASSUME NEW j \in 1..n + 1 PROVE a < ks[j] /\ ks[j] <= b
    OBVIOUS
  <2>1. j < i \/ j = i \/ j > i
    BY <1>2
  <2> QED
    BY <1>5, <1>f, <2>1
<1>8. \A j, k \in 1..n + 1 : j < k => ks[j] < ks[k]
  <2> SUFFICES ASSUME NEW j \in 1..n + 1, NEW k \in 1..n + 1, j < k PROVE ks[j] < ks[k]
    OBVIOUS
  <2>1. CASE k < i
    <3>1. j < i
      BY <1>f, <2>1
    <3> QED
      BY <1>5, <1>f, <2>1, <3>1
  <2>2. CASE k = i
    BY <1>2, <1>f, <2>2
  <2>3. CASE k > i
    <3>1. k - 1 \in 1..n /\ ks[k] = keys[k - 1] /\ k - 1 >= i
      BY <1>f, <2>3
    <3>2. CASE j < i
      <4>1. j \in 1..n /\ ks[j] = keys[j]
        BY <1>f, <3>2
      <4>2. j < k - 1
        BY <1>f, <3>1, <3>2
      <4> QED
        BY <1>5, <3>1, <4>1, <4>2
    <3>3. CASE j = i
      BY <1>6, <1>f, <3>1, <3>3
    <3>4. CASE j > i
      <4>1. j - 1 \in 1..n /\ ks[j] = keys[j - 1]
        BY <1>f, <3>4
      <4>2. j - 1 < k - 1
        OBVIOUS
      <4> QED
        BY <1>5, <3>1, <4>1, <4>2
    <3> QED
      BY <1>f, <3>2, <3>3, <3>4
  <2> QED
    BY <1>f, <2>1, <2>2, <2>3
<1>9. ASSUME b # top PROVE ks[n + 1] = b
  <2>1. n \in 1..n /\ keys[n] = b
    BY <1>2, <1>5, <1>9
  <2>2. i < n + 1
    BY <1>2, <2>1
  <2>3. n + 1 \in 1..n + 1 /\ n + 1 - 1 = n
    BY <1>2
  <2> QED
    BY <1>f, <2>1, <2>2, <2>3
<1>10. LeafOrdered(ks, a, b, top)
  BY <1>2, <1>4, <1>7, <1>8, <1>9 DEF LeafOrdered
<1> QED
  BY <1>1, <1>4, <1>10

LEMMA InsertIntoLeafKeepsOrder ==
  ASSUME NEW level, NEW loose, NEW short, Sound(level, loose, short),
         NEW lo, NEW hi, NEW tree, NEW top, NEW gaps, Ordered(lo, hi, tree, top, gaps),
         InsertIntoLeaf
  PROVE  KeyAdded(tree)
<1>a. PICK leaf, key : leaf = Target /\ key = Top.key
  OBVIOUS
<1>b. PICK ks : ks = InsertAt(pages[leaf].keys, LowerBound(pages[leaf].keys, key), key)
  OBVIOUS
<1>1. /\ Pending("table_insert") /\ key \notin ToSet(pages[leaf].keys)
      /\ pages' = SetKeys(pages, leaf, ks) /\ Return
  BY <1>a, <1>b DEF InsertIntoLeaf, SetKeys, Holds
<1>2. /\ gaps = {} /\ IsLeaf(pages, leaf) /\ tree[leaf] = Top.page
      /\ key \in Nat /\ lo[leaf] < key /\ key <= hi[leaf]
      /\ NodeOrdered(pages[leaf], lo[leaf], hi[leaf], top) /\ LeafOrdered(pages[leaf].keys, lo[leaf], hi[leaf], top)
      /\ lo[leaf] \in Int /\ hi[leaf] \in Int /\ top \in Int
      /\ leaf \in DOMAIN pages /\ pages[leaf].type = "leaf"
      /\ pages[leaf].keys \in Seq(Nat) /\ pages[leaf].children = <<>>
  BY <1>1, <1>a, TargetIs
<1>3. Order(pages, lo, hi, tree, top, gaps) /\ pages \in Seq(Record) /\ Descends(pages, level) /\ stack' = <<>>
  BY <1>1, StatementOnTop, TreeTyped DEF Ordered, Sound
<1>4. ks \in Seq(Nat) /\ LeafOrdered(ks, lo[leaf], hi[leaf], top) /\ ToSet(ks) = ToSet(pages[leaf].keys) \cup {key}
  <2>1. PICK keys, a, b : keys = pages[leaf].keys /\ a = lo[leaf] /\ b = hi[leaf]
    OBVIOUS
  <2>2. ks \in Seq(Nat) /\ LeafOrdered(ks, a, b, top) /\ ToSet(ks) = ToSet(keys) \cup {key}
    BY <1>1, <1>2, <1>b, <2>1, LeafGains
  <2> QED
    BY <2>1, <2>2
<1>5. /\ Rekeyed(pages, pages', {leaf}) /\ pages'[leaf].keys = ks
      /\ \A p \in DOMAIN pages \ {leaf} : pages'[p] = pages[p]
  BY <1>1, <1>2, <1>3, <1>4, WithKeys
<1>6. DOMAIN pages' = DOMAIN pages /\ Alike(pages[leaf], pages'[leaf])
  BY <1>2, <1>5 DEF Rekeyed
<1>7. /\ \A p \in DOMAIN pages' \ {leaf} : p \in DOMAIN pages /\ Carries(pages[p], pages'[p])
      /\ \A p : IsLeaf(pages, p) <=> IsLeaf(pages', p)
  BY <1>5, <1>6 DEF Carries, Alike, IsLeaf
<1>8. InsideSettled(pages', lo, hi, tree, top, gaps, {leaf})
  <2>1. NodeOrdered(pages'[leaf], lo[leaf], hi[leaf], top)
    BY <1>2, <1>4, <1>5, <1>6 DEF NodeOrdered, Alike
  <2>2. pages'[leaf].children = <<>> /\ (pages'[leaf].is_root => RootFits(lo, hi, tree, top, gaps, leaf))
    BY <1>2, <1>3, <1>6 DEF Alike, Order
  <2>3. Linked(pages', lo, hi, tree, top, leaf)
    <3>1. Linked(pages, lo, hi, tree, top, leaf) /\ pages'[leaf].next = pages[leaf].next
      BY <1>2, <1>3, <1>6 DEF Alike, Order
    <3> QED
      BY <1>7, <3>1 DEF Linked
  <2> QED
    BY <2>1, <2>2, <2>3 DEF InsideSettled, Settled
<1>9. Order(pages', lo, hi, tree, top, gaps)
  BY <1>3, <1>7, <1>8, OrderRewritten
<1>10. Ordered(lo, hi, tree, top, gaps)'
  BY <1>2, <1>3, <1>9 DEF Ordered, Mended
<1>11. RowGained(tree, tree, Top.page, Top.key)
  <2>1. LeavesKept(pages, pages', tree, tree, {leaf})
    BY <1>5, <1>7 DEF LeavesKept, IsLeaf
  <2>2. \A r, k : HasIn(pages', tree, {leaf}, r, k) <=> HasIn(pages, tree, {leaf}, r, k) \/ (r = Top.page /\ k = Top.key)
    BY <1>a, <1>2, <1>4, <1>5, <1>6 DEF HasIn, Alike
  <2> QED
    BY <2>1, <2>2, RowsOutside DEF RowGained
<1> QED
  BY <1>10, <1>11 DEF KeyAdded

-----------------------------------------------------------------------------
\* A leaf is cut in two.
\* A page with a parent has its interval between two fences of it, if it is no gap.
LEMMA SlotOf ==
  ASSUME NEW ps, NEW level, NEW loose, Shape(ps, level, loose),
         NEW lo, NEW hi, NEW tree, NEW top, NEW gaps, Order(ps, lo, hi, tree, top, gaps),
         NEW p, Alive(ps, p), ~ps[p].is_root, p \notin loose, p \notin gaps, NEW parent, parent = ps[p].parent
  PROVE  /\ Inner(ps, parent) /\ parent \in DOMAIN ps /\ parent # p
         /\ \E i : Slot(ps, lo, hi, parent, i, p, lo[p], hi[p])
<1>1. PICK i : i = ChildIndex(ps, parent, p)
  OBVIOUS
<1>2. /\ Inner(ps, parent) /\ level[parent] = level[p] + 1 /\ level[p] \in Nat /\ i \in 1..Len(ps[parent].children)
      /\ ps[parent].children[i] = p /\ Len(ps[parent].children) = Len(ps[parent].keys) + 1 /\ Descends(ps, level)
  <2>1. /\ Inner(ps, ps[p].parent) /\ level[ps[p].parent] = level[p] + 1 /\ level[p] \in Nat
        /\ ChildIndex(ps, ps[p].parent, p) \in 1..Len(ps[ps[p].parent].children)
        /\ ps[ps[p].parent].children[ChildIndex(ps, ps[p].parent, p)] = p
        /\ Len(ps[ps[p].parent].children) = Len(ps[ps[p].parent].keys) + 1
    BY ParentIs
  <2> QED
    BY <1>1, <2>1 DEF Shape
<1>3. PICK a, b : /\ a = Fence(ps[parent].keys, lo[parent], hi[parent], i - 1)
                  /\ b = Fence(ps[parent].keys, lo[parent], hi[parent], i)
  OBVIOUS
<1>4. i \in 1..Len(ps[parent].keys) + 1 /\ p = ps[parent].children[i] /\ Inner(ps, parent) /\ Descends(ps, level)
  BY <1>2
<1>5. lo[p] = a /\ hi[p] = b
  <2>1. PICK q, c : q = parent /\ c = p
    OBVIOUS
  <2>2. /\ i \in 1..Len(ps[q].keys) + 1 /\ c = ps[q].children[i] /\ Inner(ps, q) /\ Descends(ps, level)
        /\ a = Fence(ps[q].keys, lo[q], hi[q], i - 1) /\ b = Fence(ps[q].keys, lo[q], hi[q], i)
    BY <1>3, <1>4, <2>1
  <2>3. c \notin gaps => lo[c] = a /\ hi[c] = b
    BY <2>2, ChildFits
  <2> QED
    BY <2>1, <2>3
<1>6. i \in DOMAIN ps[parent].children
  BY <1>2, <1>4, InnerIs
<1>7. Slot(ps, lo, hi, parent, i, p, lo[p], hi[p])
  BY <1>2, <1>3, <1>5, <1>6 DEF Slot
<1> QED
  BY <1>2, <1>7 DEF Inner

\* The interval of `old` is divided at `m`: the new page has what is above.
DividedAt(lo, hi, tree, lo2, hi2, tree2, old, new, m) ==
  /\ lo2 = [lo EXCEPT ![new] = m]
  /\ hi2 = [hi EXCEPT ![new] = hi[old], ![old] = m]
  /\ tree2 = [tree EXCEPT ![new] = tree[old]]

Division(lo, hi, tree, lo2, hi2, tree2, old, new, m) ==
  /\ lo2[old] = lo[old] /\ hi2[old] = m /\ tree2[old] = tree[old]
  /\ lo2[new] = m /\ hi2[new] = hi[old] /\ tree2[new] = tree[old]
  /\ \A p \in Nat \ {old, new} : lo2[p] = lo[p] /\ hi2[p] = hi[p] /\ tree2[p] = tree[p]

DivisionKeeps(ps, qs, lo, hi, tree, top, gaps, lo2, hi2, tree2, gaps2, old, new, m) ==
  /\ Bounds(lo2, hi2, tree2, top)
  /\ Division(lo, hi, tree, lo2, hi2, tree2, old, new, m)
  /\ OutsideSame(ps, qs, lo, hi, tree, lo2, hi2, tree2, {old, new})
  /\ KidsStay(ps, qs, lo, hi, tree, gaps, lo2, hi2, tree2, gaps2, {old, new})
  /\ RootsStay(qs, gaps, gaps2, {old, new})

LEMMA DivisionStays ==
  ASSUME NEW ps, NEW level, Descends(ps, level),
         NEW lo, NEW hi, NEW tree, NEW top, NEW gaps, Order(ps, lo, hi, tree, top, gaps),
         NEW old, NEW new \in Nat, Alive(ps, old), ~Alive(ps, new), NEW m \in Int, m <= hi[old],
         NEW lo2, NEW hi2, NEW tree2, DividedAt(lo, hi, tree, lo2, hi2, tree2, old, new, m),
         NEW gaps2, gaps2 = gaps \cup {old}, NEW qs, qs \in Seq(Record),
         \A p \in DOMAIN qs \ {old, new} : p \in DOMAIN ps /\ Carries(ps[p], qs[p])
  PROVE  DivisionKeeps(ps, qs, lo, hi, tree, top, gaps, lo2, hi2, tree2, gaps2, old, new, m)
<1>1. Bounds(lo, hi, tree, top) /\ old \in Nat /\ old # new /\ lo[old] \in Int /\ hi[old] \in Int /\ tree[old] \in Nat
  <2>1. Bounds(lo, hi, tree, top) /\ old # new /\ ps \in Seq(Record)
    BY DEF Order, Descends
  <2> QED
    BY <2>1, IntervalIs
<1>2. Bounds(lo2, hi2, tree2, top)
  BY <1>1 DEF Bounds, DividedAt
<1>3. Division(lo, hi, tree, lo2, hi2, tree2, old, new, m)
  BY <1>1 DEF Bounds, DividedAt, Division
<1>4. OutsideSame(ps, qs, lo, hi, tree, lo2, hi2, tree2, {old, new})
  <2>1. \A p \in DOMAIN qs : p \in Nat
    OBVIOUS
  <2> QED
    BY <1>3, <2>1 DEF OutsideSame, Division
<1>5. KidsStay(ps, qs, lo, hi, tree, gaps, lo2, hi2, tree2, gaps2, {old, new})
  <2>1. ASSUME NEW p \in DOMAIN qs \ {old, new}, NEW c \in Kids(ps, p)
        PROVE  KidStays(lo, hi, tree, gaps, lo2, hi2, tree2, gaps2, c)
    <3>1. Alive(ps, c) /\ c \in Nat
      BY DEF Descends, Alive
    <3>2. lo[c] \in Int /\ hi[c] \in Int /\ c # new
      BY <1>1, <3>1 DEF Bounds
    <3>3. CASE c = old
      BY <1>3, <3>2, <3>3 DEF Division, KidStays
    <3>4. CASE c # old
      BY <1>3, <3>1, <3>2, <3>4 DEF Division, KidStays
    <3> QED
      BY <3>3, <3>4
  <2> QED
    BY <2>1 DEF KidsStay
<1>6. RootsStay(qs, gaps, gaps2, {old, new})
  BY DEF RootsStay
<1> QED
  BY <1>2, <1>3, <1>4, <1>5, <1>6 DEF DivisionKeeps

LEMMA SplitLeafKeepsOrder ==
  ASSUME NEW level, NEW loose, NEW short, Sound(level, loose, short),
         NEW lo, NEW hi, NEW tree, NEW top, NEW gaps, Ordered(lo, hi, tree, top, gaps),
         SplitLeaf
  PROVE  KeyAdded(tree)
<1>1. PICK old, new, node, cells, lower, upper, left, right, c :
        LeafSplits(old, new, node, cells, lower, upper, left, right, c)
  BY SplitLeafIs
<1>2. /\ old = Target /\ node = pages[old] /\ Pending("table_insert") /\ Top.key \notin ToSet(node.keys)
      /\ cells = InsertAt(node.keys, LowerBound(node.keys, Top.key), Top.key)
      /\ stack' = <<c>> /\ new \in Nat /\ ~Alive(pages, new) /\ old # new /\ Len(cells) = LeafMaxCells + 1
      /\ pages' \in Seq(Record) /\ DOMAIN pages' = DOMAIN pages \cup {new} /\ pages'[new] = right
      /\ pages'[old] = left /\ \A p \in DOMAIN pages \ {old, new} : pages'[p] = pages[p]
      /\ c = Call("attach_sibling", old, new, Last(node.keys)) /\ Len(node.keys) = LeafMaxCells
  BY <1>1 DEF LeafSplits, Holds
<1>3. /\ left.keys = lower /\ left.type = "leaf" /\ left.is_root = node.is_root
      /\ left.children = node.children /\ left.parent = node.parent /\ left.next = new
      /\ right.keys = upper /\ right.type = "leaf" /\ ~right.is_root /\ right.children = <<>> /\ right.next = node.next
  BY <1>1 DEF LeafSplits
<1>4. lower = SubSeq(cells, 1, LeftSplitCount) /\ upper = SubSeq(cells, LeftSplitCount + 1, LeafMaxCells + 1)
  BY <1>1 DEF LeafSplits
<1>5. PICK a, b, key : a = lo[old] /\ b = hi[old] /\ key = Top.key
  OBVIOUS
<1>6. /\ gaps = {} /\ IsLeaf(pages, old) /\ Alive(pages, old) /\ tree[old] = Top.page
      /\ key \in Nat /\ a < key /\ key <= b /\ LeafOrdered(node.keys, a, b, top)
      /\ a \in Int /\ b \in Int /\ -1 <= a /\ b <= top /\ top \in Int
      /\ old \in DOMAIN pages /\ old \in Nat /\ node.keys \in Seq(Nat) /\ node.children = <<>>
  BY <1>2, <1>5, TargetIs
<1>7. /\ Order(pages, lo, hi, tree, top, gaps) /\ pages \in Seq(Record) /\ Descends(pages, level)
      /\ Shape(pages, level, {})
  BY <1>2, StatementOnTop, TreeTyped DEF Ordered, Sound
<1>8. /\ cells \in Seq(Nat) /\ LeafOrdered(cells, a, b, top) /\ ToSet(cells) = ToSet(node.keys) \cup {key}
  <2>1. PICK keys : keys = node.keys
    OBVIOUS
  <2>2. cells \in Seq(Nat) /\ LeafOrdered(cells, a, b, top) /\ ToSet(cells) = ToSet(keys) \cup {key}
    <3>1. /\ keys \in Seq(Nat) /\ a \in Int /\ b \in Int /\ top \in Int /\ LeafOrdered(keys, a, b, top)
          /\ key \in Nat /\ a < key /\ key <= b /\ key \notin ToSet(keys)
          /\ cells = InsertAt(keys, LowerBound(keys, key), key)
      BY <1>2, <1>5, <1>6, <2>1
    <3> QED
      BY <3>1, LeafGains
  <2> QED
    BY <2>1, <2>2
<1>9. PICK m : m = cells[LeftSplitCount]
  OBVIOUS
<1>10. /\ m \in Nat /\ m \in Int /\ a < m /\ m < b /\ LeafOrdered(lower, a, m, top) /\ LeafOrdered(upper, m, b, top)
       /\ ToSet(cells) = ToSet(lower) \cup ToSet(upper)
  <2>1. PICK n, h : n = LeafMaxCells + 1 /\ h = LeftSplitCount
    OBVIOUS
  <2>2. n = Len(cells) /\ h \in 1..n - 1
    BY <1>2, <2>1, HalvesAre, LeafMinima
  <2>3. lower = SubSeq(cells, 1, h) /\ upper = SubSeq(cells, h + 1, n) /\ m = cells[h]
    BY <1>4, <1>9, <2>1
  <2>4. LeafCut(cells, n, a, b, top, h, m, lower, upper)
    <3>1. cells \in Seq(Nat) /\ a \in Int /\ b \in Int /\ top \in Int /\ LeafOrdered(cells, a, b, top)
      BY <1>6, <1>8
    <3> QED
      BY <2>2, <2>3, <3>1, LeafHalved
  <2> QED
    BY <2>4 DEF LeafCut
<1>11. PICK lo2, hi2, tree2, gaps2 :
         DividedAt(lo, hi, tree, lo2, hi2, tree2, old, new, m) /\ gaps2 = gaps \cup {old}
  BY DEF DividedAt
<1>12. /\ \A p \in DOMAIN pages' \ {old, new} : p \in DOMAIN pages /\ pages'[p] = pages[p] /\ Carries(pages[p], pages'[p])
       /\ \A p \in DOMAIN pages \ {old, new} : p \in DOMAIN pages'
  BY <1>2 DEF Carries
<1>13. DivisionKeeps(pages, pages', lo, hi, tree, top, gaps, lo2, hi2, tree2, gaps2, old, new, m)
  <2>1. m <= hi[old] /\ m \in Int
    BY <1>5, <1>6, <1>10
  <2>2. /\ new \in Nat /\ Alive(pages, old) /\ ~Alive(pages, new) /\ pages' \in Seq(Record)
        /\ \A p \in DOMAIN pages' \ {old, new} : p \in DOMAIN pages /\ Carries(pages[p], pages'[p])
    BY <1>2, <1>6, <1>12
  <2>3. PICK qs : qs = pages'
    OBVIOUS
  <2> QED
    BY <1>7, <1>11, <2>1, <2>2, <2>3, DivisionStays
<1>14. /\ lo2[old] = a /\ hi2[old] = m /\ tree2[old] = tree[old]
       /\ lo2[new] = m /\ hi2[new] = b /\ tree2[new] = tree[old]
       /\ \A p \in DOMAIN pages \ {old, new} : lo2[p] = lo[p] /\ hi2[p] = hi[p] /\ tree2[p] = tree[p]
  BY <1>5, <1>7, <1>13 DEF Division, DivisionKeeps
<1>15. /\ old \in DOMAIN pages' /\ new \in DOMAIN pages' /\ IsLeaf(pages', old) /\ IsLeaf(pages', new)
       /\ \A p \in DOMAIN pages' \ {old, new} : IsLeaf(pages', p) <=> IsLeaf(pages, p)
       /\ \A p : IsLeaf(pages, p) => IsLeaf(pages', p) /\ p # new /\ p \in DOMAIN pages
  BY <1>2, <1>3, <1>6, <1>12 DEF IsLeaf, Alive
<1>16. ASSUME NEW l, IsLeaf(pages, l), hi[l] # top
       PROVE  /\ IsLeaf(pages', pages[l].next) /\ IsLeaf(pages, pages[l].next)
              /\ tree2[pages[l].next] = tree[l] /\ lo2[pages[l].next] = hi[l] /\ lo[pages[l].next] = hi[l]
              /\ tree[pages[l].next] = tree[l]
  <2>1. PICK x : x = pages[l].next
    OBVIOUS
  <2>2. IsLeaf(pages, x) /\ tree[x] = tree[l] /\ lo[x] = hi[l]
    BY <1>7, <1>16, <2>1 DEF Order, Linked, IsLeaf
  <2>3. IsLeaf(pages', x) /\ x # new /\ x \in DOMAIN pages
    BY <1>15, <2>2
  <2>4. tree2[x] = tree[x] /\ lo2[x] = lo[x]
    BY <1>5, <1>14, <2>3
  <2> QED
    BY <2>1, <2>2, <2>3, <2>4
<1>17. LinksStay(pages, pages', lo, hi, tree, top, lo2, tree2, {old, new})
  BY <1>16 DEF LinksStay
<1>18. Order(pages', lo2, hi2, tree2, top, gaps2)
  <2>1. Settled(pages', lo2, hi2, tree2, top, gaps2, old)
    <3>1. NodeOrdered(left, a, m, top)
      BY <1>3, <1>6, <1>10 DEF NodeOrdered
    <3>2. node.is_root => RootFits(lo, hi, tree, top, gaps, old)
      BY <1>2, <1>6, <1>7 DEF Order
    <3>3. left.is_root => RootFits(lo2, hi2, tree2, top, gaps2, old)
      BY <1>3, <1>5, <1>11, <1>14, <3>2 DEF RootFits
    <3>4. Linked(pages', lo2, hi2, tree2, top, old)
      <4>1. hi2[old] # top
        BY <1>6, <1>10, <1>14
      <4> QED
        BY <1>2, <1>3, <1>14, <1>15, <4>1 DEF Linked
    <3> QED
      BY <1>2, <1>3, <1>6, <1>14, <3>1, <3>3, <3>4 DEF Settled
  <2>2. Settled(pages', lo2, hi2, tree2, top, gaps2, new)
    <3>1. NodeOrdered(right, m, b, top)
      BY <1>3, <1>6, <1>10 DEF NodeOrdered
    <3>2. Linked(pages', lo2, hi2, tree2, top, new)
      <4>1. CASE b = top
        <5>1. node.next = NoPage
          BY <1>2, <1>5, <1>6, <1>7, <4>1 DEF Order, Linked
        <5> QED
          BY <1>2, <1>3, <1>14, <4>1, <5>1 DEF Linked
      <4>2. CASE b # top
        <5>1. IsLeaf(pages', node.next) /\ tree2[node.next] = tree[old] /\ lo2[node.next] = b
          BY <1>2, <1>5, <1>6, <1>16, <4>2
        <5> QED
          BY <1>2, <1>3, <1>14, <4>2, <5>1 DEF Linked
      <4> QED
        BY <4>1, <4>2
    <3> QED
      BY <1>2, <1>3, <1>14, <3>1, <3>2 DEF Settled
  <2>3. InsideSettled(pages', lo2, hi2, tree2, top, gaps2, {old, new})
    BY <2>1, <2>2 DEF InsideSettled
  <2>4. LeavesApart(pages', lo2, hi2, tree2, {old, new})
    <3>1. Apart(lo2, hi2, tree2, old, new) /\ Apart(lo2, hi2, tree2, new, old)
      BY <1>10, <1>14 DEF Apart
    <3>2. ASSUME NEW q \in DOMAIN pages', IsLeaf(pages', q), q # old, q # new
          PROVE  Apart(lo2, hi2, tree2, old, q) /\ Apart(lo2, hi2, tree2, new, q)
      <4>1. IsLeaf(pages, q) /\ q \in DOMAIN pages /\ Alive(pages, q)
        BY <1>15, <3>2 DEF IsLeaf, Alive
      <4>2. Apart(lo, hi, tree, old, q)
        BY <1>6, <1>7, <4>1 DEF Order
      <4>3. lo[q] \in Int /\ hi[q] \in Int
        BY <1>7, <4>1, IntervalIs
      <4>4. lo2[q] = lo[q] /\ hi2[q] = hi[q] /\ tree2[q] = tree[q]
        BY <1>14, <3>2, <4>1
      <4> QED
        BY <1>5, <1>6, <1>10, <1>14, <3>2, <4>2, <4>3, <4>4 DEF Apart
    <3> QED
      BY <3>1, <3>2 DEF LeavesApart, Apart
  <2> QED
    BY <1>7, <1>13, <1>17, <2>3, <2>4, OrderUpdated DEF DivisionKeeps
<1>19. Ordered(lo2, hi2, tree2, top, gaps2)'
  <2>1. PICK k : k = Last(node.keys)
    OBVIOUS
  <2>2. k \in Int /\ a < k /\ k <= b
    <3>1. Len(node.keys) \in 1..Len(node.keys)
      BY <1>2, LeafMinima
    <3> QED
      BY <1>6, <2>1, <3>1 DEF LeafOrdered, Last
  <2>3. pages'[old].is_root => hi2[new] = top
    BY <1>2, <1>3, <1>5, <1>6, <1>7, <1>14 DEF Order, RootFits
  <2>4. ASSUME ~pages'[old].is_root
        PROVE  \E i : Slot(pages', lo2, hi2, pages'[old].parent, i, old, lo2[old], hi2[new])
    <3>1. PICK parent : parent = pages[old].parent
      OBVIOUS
    <3>2. ~pages[old].is_root /\ pages'[old].parent = parent
      BY <1>2, <1>3, <2>4, <3>1
    <3>3. /\ Inner(pages, parent) /\ parent \in DOMAIN pages /\ parent # old
          /\ \E i : Slot(pages, lo, hi, parent, i, old, lo[old], hi[old])
      BY <1>6, <1>7, <3>1, <3>2, SlotOf
    <3>4. parent # new
      BY <1>2, <3>3 DEF Inner, Alive
    <3>5. pages'[parent] = pages[parent] /\ lo2[parent] = lo[parent] /\ hi2[parent] = hi[parent]
      BY <1>2, <1>14, <3>3, <3>4
    <3> QED
      BY <1>5, <1>14, <3>2, <3>3, <3>5 DEF Slot
  <2>5. Halves(pages', lo2, hi2, tree2, top, gaps2, old, new, k)
    BY <1>2, <1>6, <1>11, <1>14, <2>2, <2>3, <2>4 DEF Halves
  <2>6. OneMends(c, pages', lo2, hi2, tree2, top, gaps2)
    <3>1. c.fn = "attach_sibling" /\ c.page = old /\ c.child = new /\ c.key = k
      BY <1>2, <2>1 DEF Call
    <3>2. gaps2 = {old}
      BY <1>6, <1>11
    <3> QED
      BY <2>5, <3>1, <3>2 DEF OneMends
  <2> QED
    BY <1>2, <1>18, <2>6 DEF Ordered, Mended
<1>20. RowGained(tree, tree2, Top.page, Top.key)
  <2>1. LeavesKept(pages, pages', tree, tree2, {old, new})
    BY <1>2, <1>12, <1>14, <1>15 DEF LeavesKept, IsLeaf
  <2>2. \A r, k : HasIn(pages', tree2, {old, new}, r, k) <=> HasIn(pages, tree, {old, new}, r, k) \/ (r = Top.page /\ k = Top.key)
    <3> SUFFICES ASSUME NEW r, NEW k
                 PROVE  HasIn(pages', tree2, {old, new}, r, k) <=> HasIn(pages, tree, {old, new}, r, k) \/ (r = Top.page /\ k = Top.key)
      OBVIOUS
    <3>1. HasIn(pages', tree2, {old, new}, r, k) <=> r = tree[old] /\ (k \in ToSet(lower) \/ k \in ToSet(upper))
      BY <1>2, <1>3, <1>14, <1>15 DEF HasIn
    <3>2. HasIn(pages, tree, {old, new}, r, k) <=> r = tree[old] /\ k \in ToSet(node.keys)
      BY <1>2, <1>6, <1>15 DEF HasIn, IsLeaf
    <3> QED
      BY <1>5, <1>6, <1>8, <1>10, <3>1, <3>2
  <2> QED
    BY <2>1, <2>2, RowsOutside DEF RowGained
<1> QED
  BY <1>19, <1>20 DEF KeyAdded

-----------------------------------------------------------------------------
\* The separator of a new root is the end of the old root's interval.

LEMMA CopyMaxIs ==
  ASSUME NEW ps, NEW level, Descends(ps, level), LeavesHoldKeys(ps),
         NEW root, NEW left, NEW qs, Alive(ps, root), ps[root].is_root,
         ps[root].type = "leaf" => Len(ps[root].keys) # 0, ~Alive(ps, left), Copied(ps, qs, root, left),
         NEW lo, NEW hi, NEW tree, NEW top, Order(ps, lo, hi, tree, top, {root}), hi[root] # top
  PROVE  MaxKey(qs, left) = hi[root]
<1>a. PICK level2 : level2 = LevelWith(ps, level, root, left)
  OBVIOUS
<1>1. Descends(qs, level2) /\ LeavesHoldKeys(qs) /\ Alive(qs, left)
  BY <1>a, CopyDescends
<1>2. /\ qs \in Seq(Record) /\ DOMAIN qs = DOMAIN ps \cup {left}
      /\ qs[left].type = ps[root].type /\ qs[left].keys = ps[root].keys /\ qs[left].children = ps[root].children
      /\ \A p \in DOMAIN ps : p # left =>
           qs[p].type = ps[p].type /\ qs[p].keys = ps[p].keys /\ qs[p].children = ps[p].children
  BY DEF Copied
<1> DEFINE Q == {left} \cup {p \in DOMAIN ps : Alive(ps, p) /\ p # left /\ hi[p] = hi[root]}
<1>3. ASSUME NEW q, Inner(ps, q), hi[q] = hi[root] PROVE ps[q].children[Len(ps[q].keys) + 1] \in Q
  <2>1. PICK i : i = Len(ps[q].keys) + 1
    OBVIOUS
  <2>2. PICK c, a, b : /\ c = ps[q].children[i]
                       /\ a = Fence(ps[q].keys, lo[q], hi[q], i - 1) /\ b = Fence(ps[q].keys, lo[q], hi[q], i)
    OBVIOUS
  <2>3. i \in 1..Len(ps[q].keys) + 1 /\ Len(ps[q].keys) \in Nat
    BY <1>3, <2>1, InnerIs
  <2>4. Alive(ps, c) /\ ~ps[c].is_root
    BY <1>3, <2>2, <2>3, ChildIsBelow
  <2>5. c \notin {root}
    BY <2>4
  <2>6. hi[c] = b
    BY <1>3, <2>2, <2>3, <2>5, ChildFits
  <2>7. b = hi[q]
    BY <2>1, <2>2, <2>3 DEF Fence
  <2> QED
    BY <1>3, <2>1, <2>2, <2>4, <2>6, <2>7 DEF Alive
<1>4. ASSUME NEW p \in Q, Inner(qs, p) PROVE qs[p].children[Len(qs[p].keys) + 1] \in Q
  <2>1. PICK q : q = IF p = left THEN root ELSE p
    OBVIOUS
  <2>2. Inner(ps, q) /\ hi[q] = hi[root] /\ qs[p].keys = ps[q].keys /\ qs[p].children = ps[q].children
    BY <1>2, <1>4, <2>1 DEF Inner, Alive
  <2>3. ps[q].children[Len(ps[q].keys) + 1] \in Q
    BY <1>3, <2>2
  <2> HIDE DEF Q
  <2> QED
    BY <2>2, <2>3
<1>5. PICK e \in Q : IsLeaf(qs, e) /\ MaxKey(qs, left) = Last(qs[e].keys)
  <2>1. PICK R : R = Q
    OBVIOUS
  <2>2. left \in R /\ \A p \in R : Inner(qs, p) => qs[p].children[Len(qs[p].keys) + 1] \in R
    BY <1>4, <2>1
  <2>3. \E e \in R : IsLeaf(qs, e) /\ MaxKey(qs, left) = Last(qs[e].keys)
    <3> HIDE DEF Q
    <3> QED
      BY <1>1, <2>2, RightmostLeaf
  <2> QED
    BY <2>1, <2>3
<1>6. PICK q : q = IF e = left THEN root ELSE e
  OBVIOUS
<1>7. Alive(ps, q) /\ ps[q].type = "leaf" /\ hi[q] = hi[root] /\ qs[e].keys = ps[q].keys
  BY <1>2, <1>5, <1>6 DEF IsLeaf, Alive
<1>8. LeafOrdered(ps[q].keys, lo[q], hi[q], top)
  BY <1>7, IntervalIs DEF NodeOrdered, Descends
<1> QED
  BY <1>5, <1>7, <1>8 DEF LeafOrdered, Last

\* The root's old contents go one level down, with their interval.
RaisedOver(lo, hi, tree, top, lo2, hi2, tree2, root, left) ==
  /\ lo2 = [lo EXCEPT ![left] = lo[root]]
  /\ hi2 = [hi EXCEPT ![left] = hi[root], ![root] = top]
  /\ tree2 = [tree EXCEPT ![left] = root]

LEMMA CreateNewRootKeepsOrder ==
  ASSUME NEW level, NEW loose, NEW short, Sound(level, loose, short),
         NEW lo, NEW hi, NEW tree, NEW top, NEW gaps, Ordered(lo, hi, tree, top, gaps),
         CreateNewRoot
  PROVE  OrderKept(tree)
<1>1. PICK root, right, left, ps, k : RootGrows(level, root, right, left, ps, k)
  BY CreateNewRootIs
<1>2. /\ root = Top.page /\ right = Top.child /\ Pending("attach_sibling") /\ pages[root].is_root
      /\ stack' = <<>> /\ Alive(pages, root) /\ Alive(pages, right) /\ right # root
      /\ root \in DOMAIN pages /\ right \in DOMAIN pages /\ (pages[root].type = "leaf" => Len(pages[root].keys) # 0)
      /\ left \in Nat /\ ~Alive(pages, left) /\ left # root /\ left # right
      /\ Copied(pages, ps, root, left) /\ k = MaxKey(ps, left) /\ k \in Nat
      /\ pages' \in Seq(Record) /\ DOMAIN pages' = DOMAIN pages \cup {left}
      /\ pages'[root] = Internal(TRUE, NoPage, <<k>>, <<left, right>>)
      /\ Raised(pages, pages', root, left, right) /\ pages'[left].next = pages[root].next
  BY <1>1 DEF RootGrows
<1>3. /\ Order(pages, lo, hi, tree, top, gaps) /\ pages \in Seq(Record) /\ Descends(pages, level)
      /\ LeavesHoldKeys(pages)
  BY TreeTyped, HoldKeys DEF Ordered, Sound, Tree
<1>4. gaps = {root} /\ Halves(pages, lo, hi, tree, top, gaps, root, right, Top.key)
  BY <1>2, AttachMends
<1>5. PICK m : m = hi[root]
  OBVIOUS
<1>6. /\ root \in Nat /\ lo[root] = -1 /\ tree[root] = root /\ m \in Int /\ -1 < m /\ top \in Int
      /\ right \in Nat /\ lo[right] = m /\ hi[right] = top /\ m < top /\ tree[right] = root
      /\ NodeOrdered(pages[root], lo[root], m, top)
  <2>1. RootFits(lo, hi, tree, top, gaps, root)
    BY <1>2, <1>3 DEF Order
  <2>2. /\ lo[right] \in Int /\ hi[right] \in Int /\ lo[right] < hi[right] /\ top \in Int /\ right \in Nat
        /\ lo[root] \in Int /\ hi[root] \in Int /\ lo[root] < hi[root] /\ root \in Nat
        /\ NodeOrdered(pages[root], lo[root], hi[root], top)
    BY <1>2, <1>3, IntervalIs
  <2> QED
    BY <1>2, <1>4, <1>5, <2>1, <2>2 DEF RootFits, Halves
<1>7. k = m
  <2>1. hi[root] # top /\ Order(pages, lo, hi, tree, top, {root})
    BY <1>3, <1>4, <1>5, <1>6
  <2>2. MaxKey(ps, left) = hi[root]
    BY <1>2, <1>3, <2>1, CopyMaxIs
  <2> QED
    BY <1>2, <1>5, <2>2
<1>8. PICK lo2, hi2, tree2 : RaisedOver(lo, hi, tree, top, lo2, hi2, tree2, root, left)
  BY DEF RaisedOver
<1>9. /\ Bounds(lo2, hi2, tree2, top)
      /\ lo2[root] = -1 /\ hi2[root] = top /\ tree2[root] = root
      /\ lo2[left] = -1 /\ hi2[left] = m /\ tree2[left] = root
      /\ \A p \in Nat \ {root, left} : lo2[p] = lo[p] /\ hi2[p] = hi[p] /\ tree2[p] = tree[p]
  <2>1. Bounds(lo, hi, tree, top)
    BY <1>3 DEF Order
  <2> QED
    BY <1>2, <1>5, <1>6, <1>8, <2>1 DEF Bounds, RaisedOver
<1>10. /\ \A p \in DOMAIN pages' \ {root, left} : p \in DOMAIN pages /\ p \in Nat /\ Carries(pages[p], pages'[p])
       /\ pages'[left].type = pages[root].type /\ ~pages'[left].is_root
       /\ pages'[left].keys = pages[root].keys /\ pages'[left].children = pages[root].children
       /\ root \in DOMAIN pages' /\ left \in DOMAIN pages'
  <2>1. ASSUME NEW p \in DOMAIN pages' \ {root, left}
        PROVE  p \in DOMAIN pages /\ p \in Nat /\ Carries(pages[p], pages'[p])
    <3>1. p \in DOMAIN pages \ {root, left} /\ p \in Nat
      BY <1>2, <1>3
    <3>2. \E parent : Reparented(pages[p], pages'[p], parent)
      BY <1>2, <3>1 DEF Raised
    <3> QED
      BY <3>1, <3>2 DEF Reparented, Carries
  <2>2. /\ pages'[left].type = pages[root].type /\ ~pages'[left].is_root
        /\ pages'[left].keys = pages[root].keys /\ pages'[left].children = pages[root].children
        /\ root \in DOMAIN pages' /\ left \in DOMAIN pages'
    BY <1>2 DEF Raised
  <2> QED
    BY <2>1, <2>2
<1>11. /\ pages'[root].type = "internal" /\ pages'[root].is_root = TRUE
       /\ pages'[root].keys = <<k>> /\ pages'[root].children = <<left, right>>
  BY <1>2 DEF Internal
<1>12. /\ \A p \in DOMAIN pages' \ {root, left} : IsLeaf(pages', p) <=> IsLeaf(pages, p)
       /\ \A p : IsLeaf(pages', p) /\ p # left => IsLeaf(pages, p) /\ p # root /\ p \in DOMAIN pages /\ p \in Nat
       /\ \A p : IsLeaf(pages, p) => p \in DOMAIN pages /\ p \in Nat /\ p # left /\ p \in DOMAIN pages'
  <2>1. \A p \in DOMAIN pages' \ {root, left} : (IsLeaf(pages', p) <=> IsLeaf(pages, p)) /\ p \in DOMAIN pages /\ p \in Nat
    BY <1>10 DEF IsLeaf, Carries
  <2>2. ~IsLeaf(pages', root) /\ ~IsLeaf(pages, left)
    BY <1>2, <1>11 DEF IsLeaf, Alive
  <2>3. \A p : IsLeaf(pages, p) => p \in DOMAIN pages /\ p \in Nat /\ p \in DOMAIN pages'
    BY <1>2, <1>3 DEF IsLeaf
  <2>4. \A p : IsLeaf(pages', p) => p \in DOMAIN pages'
    BY DEF IsLeaf
  <2> QED
    BY <2>1, <2>2, <2>3, <2>4
<1>13. ASSUME NEW l, IsLeaf(pages, l), hi[l] # top
       PROVE  /\ IsLeaf(pages', pages[l].next)
              /\ tree2[pages[l].next] = tree[l] /\ lo2[pages[l].next] = hi[l]
              /\ tree[pages[l].next] = tree[l] /\ lo[pages[l].next] = hi[l]
  <2>1. PICK x : x = pages[l].next
    OBVIOUS
  <2>2. IsLeaf(pages, x) /\ tree[x] = tree[l] /\ lo[x] = hi[l]
    BY <1>3, <1>13, <2>1 DEF Order, Linked, IsLeaf
  <2>3. x # root
    <3>1. Alive(pages, l)
      BY <1>13 DEF IsLeaf, Alive
    <3>2. -1 <= lo[l] /\ lo[l] < hi[l] /\ lo[l] \in Int /\ hi[l] \in Int
      BY <1>3, <3>1, IntervalIs
    <3> QED
      BY <1>6, <2>2, <3>2
  <2>4. x \in DOMAIN pages /\ x \in Nat /\ x # left /\ x \in DOMAIN pages' \ {root, left}
    BY <1>12, <2>2, <2>3
  <2> QED
    BY <1>9, <1>12, <2>1, <2>2, <2>3, <2>4
<1>14. ASSUME NEW p, NEW c \in Kids(pages, p), p \in DOMAIN pages
       PROVE  /\ c \in Nat /\ c \notin {root, left} /\ c \notin gaps /\ lo[c] \in Int /\ hi[c] \in Int
              /\ lo2[c] = lo[c] /\ hi2[c] = hi[c] /\ tree2[c] = tree[c]
  <2>1. Alive(pages, c) /\ ~pages[c].is_root
    BY <1>3, <1>14 DEF Descends
  <2>2. c \in Nat /\ lo[c] \in Int /\ hi[c] \in Int
    BY <1>3, <2>1, IntervalIs
  <2> QED
    BY <1>2, <1>4, <1>9, <2>1, <2>2
<1>15. Order(pages', lo2, hi2, tree2, top, {})
  <2>1. OutsideSame(pages, pages', lo, hi, tree, lo2, hi2, tree2, {root, left})
    BY <1>9, <1>10 DEF OutsideSame
  <2>2. KidsStay(pages, pages', lo, hi, tree, gaps, lo2, hi2, tree2, {}, {root, left})
    <3>1. ASSUME NEW p \in DOMAIN pages' \ {root, left}, NEW c \in Kids(pages, p)
          PROVE  KidStays(lo, hi, tree, gaps, lo2, hi2, tree2, {}, c)
      <4>1. p \in DOMAIN pages
        BY <1>10
      <4> QED
        BY <1>14, <4>1 DEF KidStays
    <3> QED
      BY <3>1 DEF KidsStay
  <2>3. RootsStay(pages', gaps, {}, {root, left})
    BY <1>4 DEF RootsStay
  <2>4. LinksStay(pages, pages', lo, hi, tree, top, lo2, tree2, {root, left})
    BY <1>13 DEF LinksStay
  <2>5. Settled(pages', lo2, hi2, tree2, top, {}, root)
    <3>1. Len(<<k>>) = 1 /\ <<k>>[1] = k /\ <<left, right>>[1] = left /\ <<left, right>>[2] = right
          /\ DOMAIN <<left, right>> = {1, 2}
      OBVIOUS
    <3>2. Fence(<<k>>, -1, top, 0) = -1 /\ Fence(<<k>>, -1, top, 1) = m /\ Fence(<<k>>, -1, top, 2) = top
      BY <1>7, <3>1 DEF Fence
    <3>3. Rising(<<k>>, -1, top)
      <4>1. \A i \in 0..1 + 1 : i = 0 \/ i = 1 \/ i = 2
        OBVIOUS
      <4> QED
        BY <1>6, <3>1, <3>2, <4>1 DEF Rising
    <3>4. NodeOrdered(pages'[root], -1, top, top)
      <4>1. -1 <= -1 /\ -1 < top /\ top <= top
        BY <1>6
      <4> QED
        BY <1>11, <3>3, <4>1 DEF NodeOrdered
    <3>5. lo2[right] = m /\ hi2[right] = top /\ tree2[right] = root
      BY <1>2, <1>6, <1>9
    <3>6. Fitted(pages', lo2, hi2, tree2, {}, root, 1)
      <4>1. Within(-1, m, lo2[left], hi2[left], left \notin {})
        BY <1>6, <1>9 DEF Within
      <4> QED
        BY <1>9, <1>11, <3>1, <3>2, <4>1 DEF Fitted
    <3>7. Fitted(pages', lo2, hi2, tree2, {}, root, 2)
      <4>1. Within(m, top, lo2[right], hi2[right], right \notin {})
        BY <1>6, <3>5 DEF Within
      <4> QED
        BY <1>9, <1>11, <3>1, <3>2, <3>5, <4>1 DEF Fitted
    <3>8. RootFits(lo2, hi2, tree2, top, {}, root)
      BY <1>9 DEF RootFits
    <3>9. \A i \in DOMAIN pages'[root].children : Fitted(pages', lo2, hi2, tree2, {}, root, i)
      BY <1>11, <3>1, <3>6, <3>7
    <3> QED
      BY <1>9, <1>11, <3>4, <3>8, <3>9 DEF Settled, IsLeaf
  <2>6. Settled(pages', lo2, hi2, tree2, top, {}, left)
    <3>1. NodeOrdered(pages'[left], lo2[left], hi2[left], top)
      BY <1>6, <1>9, <1>10 DEF NodeOrdered
    <3>2. ASSUME NEW i \in DOMAIN pages'[left].children PROVE Fitted(pages', lo2, hi2, tree2, {}, left, i)
      <4>1. PICK c : c = pages[root].children[i]
        OBVIOUS
      <4>2. i \in DOMAIN pages[root].children /\ c \in Kids(pages, root)
        BY <1>10, <4>1 DEF Kids, ToSet
      <4>3. Fitted(pages, lo, hi, tree, gaps, root, i)
        BY <1>2, <1>3, <4>2 DEF Order
      <4>4. /\ c \notin gaps /\ lo2[c] = lo[c] /\ hi2[c] = hi[c] /\ tree2[c] = tree[c]
        BY <1>2, <1>14, <4>2
      <4> QED
        BY <1>5, <1>6, <1>9, <1>10, <4>1, <4>3, <4>4 DEF Fitted, Within
    <3>3. IsLeaf(pages', left) => Linked(pages', lo2, hi2, tree2, top, left)
      <4> SUFFICES ASSUME IsLeaf(pages', left) PROVE Linked(pages', lo2, hi2, tree2, top, left)
        OBVIOUS
      <4>1. IsLeaf(pages, root) /\ hi[root] # top
        BY <1>2, <1>5, <1>6, <1>10 DEF IsLeaf
      <4>2. PICK x : x = pages[root].next
        OBVIOUS
      <4>3. IsLeaf(pages', x) /\ tree2[x] = root /\ lo2[x] = m
        BY <1>5, <1>6, <1>13, <4>1, <4>2
      <4>4. pages'[left].next = x /\ hi2[left] # top
        BY <1>2, <1>6, <1>9, <4>2
      <4> QED
        BY <1>9, <4>3, <4>4 DEF Linked
    <3> QED
      BY <1>10, <3>1, <3>2, <3>3 DEF Settled
  <2>7. InsideSettled(pages', lo2, hi2, tree2, top, {}, {root, left})
    BY <2>5, <2>6 DEF InsideSettled
  <2>8. LeavesApart(pages', lo2, hi2, tree2, {root, left})
    <3>1. ~IsLeaf(pages', root)
      BY <1>11 DEF IsLeaf
    <3>2. ASSUME NEW q, IsLeaf(pages', q), IsLeaf(pages', left), q # left PROVE Apart(lo2, hi2, tree2, left, q)
      <4>1. IsLeaf(pages, q) /\ q # root /\ q \in DOMAIN pages /\ q \in Nat
        BY <1>12, <3>2
      <4>2. IsLeaf(pages, root)
        BY <1>2, <1>10, <3>2 DEF IsLeaf
      <4>3. Apart(lo, hi, tree, root, q)
        BY <1>2, <1>3, <4>1, <4>2 DEF Order
      <4>4. lo2[q] = lo[q] /\ hi2[q] = hi[q] /\ tree2[q] = tree[q]
        BY <1>9, <3>2, <4>1
      <4> QED
        BY <1>5, <1>6, <1>9, <4>1, <4>3, <4>4 DEF Apart
    <3> QED
      BY <3>1, <3>2 DEF LeavesApart, Apart
  <2> QED
    BY <1>3, <1>9, <2>1, <2>2, <2>3, <2>4, <2>7, <2>8, OrderUpdated
<1>16. Ordered(lo2, hi2, tree2, top, {})'
  BY <1>2, <1>15 DEF Ordered, Mended
<1>17. RowsKept(tree, tree2)
  <2>1. LeavesKept(pages, pages', tree, tree2, {root, left})
    BY <1>9, <1>10, <1>12 DEF LeavesKept, IsLeaf, Carries
  <2>2. \A r, k2 : HasIn(pages', tree2, {root, left}, r, k2) <=> HasIn(pages, tree, {root, left}, r, k2)
    <3> SUFFICES ASSUME NEW r, NEW k2
                 PROVE  HasIn(pages', tree2, {root, left}, r, k2) <=> HasIn(pages, tree, {root, left}, r, k2)
      OBVIOUS
    <3>1. HasIn(pages', tree2, {root, left}, r, k2) <=>
            pages[root].type = "leaf" /\ r = root /\ k2 \in ToSet(pages[root].keys)
      BY <1>9, <1>10, <1>11 DEF HasIn
    <3>2. HasIn(pages, tree, {root, left}, r, k2) <=>
            pages[root].type = "leaf" /\ r = root /\ k2 \in ToSet(pages[root].keys)
      BY <1>2, <1>6 DEF HasIn, Alive
    <3> QED
      BY <3>1, <3>2
  <2> QED
    BY <2>1, <2>2, RowsOutside DEF RowsKept
<1> QED
  BY <1>16, <1>17 DEF OrderKept

-----------------------------------------------------------------------------
\* One separator of a node is changed.
\* The page whose separator is changed, and the others.
KeyWritten(ps, qs, page, i, k) ==
  /\ qs \in Seq(Record) /\ DOMAIN qs = DOMAIN ps
  /\ \A p \in DOMAIN ps : Alike(ps[p], qs[p])
  /\ qs[page].keys = [ps[page].keys EXCEPT ![i] = k]
  /\ \A p \in DOMAIN ps \ {page} : qs[p] = ps[p]

LEMMA KeyWrittenIs ==
  ASSUME NEW ps \in Seq(Record), NEW page \in DOMAIN ps, NEW i \in 1..Len(ps[page].keys), NEW k \in Nat,
         NEW qs, qs = SetKey(ps, page, i, k)
  PROVE  KeyWritten(ps, qs, page, i, k)
<1>1. PICK ks : ks = [ps[page].keys EXCEPT ![i] = k]
  OBVIOUS
<1>2. ps[page].keys \in Seq(Nat)
  BY PageIs
<1>3. ks \in Seq(Nat)
  BY <1>1, <1>2, ExceptSeq
<1>4. SetKey(ps, page, i, k) = SetKeys(ps, page, ks)
  BY <1>1 DEF SetKeys, SetKey
<1>5. /\ Rekeyed(ps, qs, {page}) /\ qs[page].keys = ks
      /\ \A p \in DOMAIN ps \ {page} : qs[p] = ps[p]
  <2>1. qs = SetKeys(ps, page, ks)
    BY <1>4
  <2>2. /\ Rekeyed(ps, SetKeys(ps, page, ks), {page}) /\ SetKeys(ps, page, ks)[page].keys = ks
        /\ \A p \in DOMAIN ps \ {page} : SetKeys(ps, page, ks)[p] = ps[p]
    BY <1>3, WithKeys
  <2> QED
    BY <2>1, <2>2
<1> QED
  BY <1>1, <1>5 DEF Rekeyed, KeyWritten

\* The search for a key of a child's interval finds the child's place.
LEMMA SlotFound ==
  ASSUME NEW keys \in Seq(Nat), NEW n, n = Len(keys), NEW a \in Int, NEW b \in Int, Rising(keys, a, b),
         NEW i \in 1..n + 1, NEW key \in Int, Fence(keys, a, b, i - 1) < key, key <= Fence(keys, a, b, i)
  PROVE  LowerBound(keys, key) = i
<1>1. Fences(keys, a, b, n)
  BY FenceIs
<1>2. /\ n \in Nat /\ \A j \in 0..n + 1 : Fence(keys, a, b, j) \in Int
      /\ \A j \in 1..n : Fence(keys, a, b, j) = keys[j] /\ keys[j] \in Nat
  BY <1>1 DEF Fences
<1>3. \A j, l \in 0..n + 1 : j < l => Fence(keys, a, b, j) < Fence(keys, a, b, l)
  BY DEF Rising
<1>4. \A j \in 1..n : j < i => keys[j] < key
  <2> SUFFICES ASSUME NEW j \in 1..n, j < i PROVE keys[j] < key
    OBVIOUS
  <2>1. j \in 0..n + 1 /\ i - 1 \in 0..n + 1 /\ (j = i - 1 \/ j < i - 1)
    BY <1>2
  <2>2. PICK f, g : f = Fence(keys, a, b, j) /\ g = Fence(keys, a, b, i - 1)
    OBVIOUS
  <2>3. f \in Int /\ g \in Int /\ (f = g \/ f < g)
    BY <1>2, <1>3, <2>1, <2>2
  <2> QED
    BY <1>2, <2>2, <2>3
<1>5. i <= n => keys[i] >= key
  BY <1>2
<1> QED
  BY <1>4, <1>5, LowerBoundAt

LEMMA AttachToParentKeepsOrder ==
  ASSUME NEW level, NEW loose, NEW short, Sound(level, loose, short),
         NEW lo, NEW hi, NEW tree, NEW top, NEW gaps, Ordered(lo, hi, tree, top, gaps),
         AttachToParent
  PROVE  OrderKept(tree)
<1>a. PICK page, child, parent, key, max :
        /\ page = Top.page /\ child = Top.child /\ parent = pages[page].parent
        /\ key = Top.key /\ max = MaxKey(pages, page)
  OBVIOUS
<1>b. PICK c, keys, n, l, h :
        /\ c = Call("internal_node_insert", parent, child, 0) /\ keys = pages[parent].keys /\ n = Len(keys)
        /\ l = lo[parent] /\ h = hi[parent]
  OBVIOUS
<1>2. /\ Pending("attach_sibling") /\ ~pages[page].is_root
      /\ pages' = IF LowerBound(keys, key) \in DOMAIN keys
                  THEN SetKey(pages, parent, LowerBound(keys, key), max) ELSE pages
      /\ Continue(<<c>>)
  BY <1>a, <1>b DEF AttachToParent, SetKey
<1>3. /\ AttachCall(Top, pages, max_keys, level) /\ loose = {child} /\ stack' = <<c>>
  BY <1>a, <1>2, AttachOnTop
<1>4. /\ Alive(pages, page) /\ Alive(pages, child) /\ child # page /\ level[child] = level[page]
  BY <1>a, <1>3 DEF AttachCall
<1>5. /\ pages \in Seq(Record) /\ Shape(pages, level, loose) /\ Descends(pages, level)
      /\ LeavesHoldKeys(pages) /\ Order(pages, lo, hi, tree, top, gaps)
  BY TreeTyped, HoldKeys DEF Ordered, Sound, Tree
<1>6. gaps = {page} /\ Halves(pages, lo, hi, tree, top, gaps, page, child, key)
  BY <1>2, <1>a, AttachMends
<1>7. /\ Inner(pages, parent) /\ level[parent] = level[page] + 1 /\ level[page] \in Nat
      /\ page \in Kids(pages, parent) /\ parent \in DOMAIN pages
  <2>1. page \notin loose
    BY <1>3, <1>4
  <2> QED
    BY <1>a, <1>2, <1>4, <1>5, <2>1, ParentIs DEF Inner
<1>8. /\ keys \in Seq(Nat) /\ n \in Nat /\ DOMAIN pages[parent].children = 1..n + 1
      /\ Len(pages[parent].children) = n + 1 /\ IsInjective(pages[parent].children)
      /\ Alive(pages, parent) /\ pages[parent].type = "internal"
  BY <1>5, <1>7, <1>b, InnerIs
<1>9. /\ l \in Int /\ h \in Int /\ top \in Int /\ -1 <= l /\ l < h /\ h <= top
      /\ NodeOrdered(pages[parent], l, h, top) /\ Rising(keys, l, h)
  <2>1. /\ lo[parent] \in Int /\ hi[parent] \in Int /\ top \in Int /\ -1 <= lo[parent] /\ lo[parent] < hi[parent]
        /\ hi[parent] <= top /\ NodeOrdered(pages[parent], lo[parent], hi[parent], top)
    BY <1>5, <1>8, IntervalIs
  <2> QED
    BY <1>b, <1>8, <2>1 DEF NodeOrdered
<1>10. PICK i : Slot(pages, lo, hi, parent, i, page, lo[page], hi[child])
  BY <1>2, <1>6, <1>a DEF Halves
<1>11. /\ i \in 1..n + 1 /\ pages[parent].children[i] = page
       /\ lo[page] = Fence(keys, l, h, i - 1) /\ hi[child] = Fence(keys, l, h, i)
       /\ hi[page] = lo[child] /\ lo[page] < key /\ key <= hi[child] /\ tree[child] = tree[page]
  BY <1>6, <1>8, <1>10, <1>b DEF Slot, Halves
<1>12. /\ lo[page] \in Int /\ hi[page] \in Int /\ lo[page] < hi[page] /\ -1 <= lo[page]
       /\ lo[child] \in Int /\ hi[child] \in Int /\ lo[child] < hi[child] /\ hi[child] <= top
  BY <1>4, <1>5, IntervalIs
<1>13. LowerBound(keys, key) = i
  <2>1. key \in Int
    BY <1>6 DEF Halves
  <2>2. Fence(keys, l, h, i - 1) < key /\ key <= Fence(keys, l, h, i)
    BY <1>11
  <2>3. keys \in Seq(Nat) /\ n = Len(keys) /\ l \in Int /\ h \in Int /\ Rising(keys, l, h) /\ i \in 1..n + 1
    BY <1>b, <1>8, <1>9, <1>11
  <2> QED
    BY <2>1, <2>2, <2>3, SlotFound
<1>14. max = hi[page] /\ max \in Nat
  <2>1. hi[page] # top
    BY <1>9, <1>11, <1>12
  <2>2. \A p : Inner(pages, p) /\ level[p] <= level[page] =>
          pages[p].children[Len(pages[p].keys) + 1] \notin gaps
    <3> SUFFICES ASSUME NEW p, Inner(pages, p), level[p] <= level[page]
                 PROVE  pages[p].children[Len(pages[p].keys) + 1] # page
      BY <1>6
    <3>1. PICK j : j = Len(pages[p].keys) + 1
      OBVIOUS
    <3>2. j \in 1..Len(pages[p].keys) + 1
      BY <1>5, <3>1, InnerIs
    <3>3. PICK d : d = pages[p].children[j]
      OBVIOUS
    <3>4. level[d] \in Nat /\ level[p] = level[d] + 1
      BY <1>5, <3>2, <3>3, ChildIsBelow
    <3>5. d # page
      BY <1>7, <3>4
    <3> QED
      BY <3>1, <3>3, <3>5
  <2>3. MaxKey(pages, page) = hi[page]
    BY <1>4, <1>5, <2>1, <2>2, MaxKeyIs
  <2> QED
    BY <1>a, <1>12, <2>3
<1>15. child \notin Kids(pages, parent) /\ \A p \in DOMAIN pages : page \in Kids(pages, p) => p = parent
  BY <1>3, <1>5, <1>7, <1>a DEF Shape
<1>16. tree[page] = tree[parent]
  <2>1. Fitted(pages, lo, hi, tree, gaps, parent, i)
    BY <1>5, <1>7, <1>8, <1>11 DEF Order
  <2> QED
    BY <1>11, <2>1 DEF Fitted
<1>u. -1 < lo[child]
  BY <1>11, <1>12
<1>17. CASE i = n + 1
  <2>1. pages' = pages
    <3>1. i \notin DOMAIN keys
      BY <1>8, <1>17, <1>b
    <3> QED
      BY <1>2, <1>13, <3>1
  <2>2. After(pages, lo, hi, parent, child, page)
    BY <1>8, <1>10, <1>11, <1>17 DEF After
  <2>3. Mended(stack', pages, lo, hi, tree, top, gaps)
    <3>1. Beside(pages, lo, hi, tree, gaps, parent, child, page)
      BY <1>4, <1>6, <1>11, <1>16, <1>u, <2>2 DEF Beside
    <3>2. c.fn = "internal_node_insert" /\ c.page = parent /\ c.child = child
      BY <1>b DEF Call
    <3>3. OneMends(c, pages, lo, hi, tree, top, gaps)
      BY <1>6, <3>1, <3>2 DEF OneMends
    <3> QED
      BY <1>3, <3>3 DEF Mended
  <2> QED
    BY <2>1, <2>3, StillOrdered
<1>18. CASE i \in 1..n
  <2>1. PICK ks, g, kids : ks = [keys EXCEPT ![i] = max] /\ g = pages[parent].children[i + 1] /\ kids = pages[parent].children
    OBVIOUS
  <2>2. KeyWritten(pages, pages', parent, i, max)
    <3>1. pages' = SetKey(pages, parent, i, max)
      <4>1. i \in DOMAIN keys
        BY <1>8, <1>18, <1>b
      <4> QED
        BY <1>2, <1>13, <4>1
    <3>2. i \in 1..Len(pages[parent].keys)
      BY <1>18, <1>b
    <3> QED
      BY <1>5, <1>7, <1>14, <3>1, <3>2, KeyWrittenIs
  <2>3. /\ pages' \in Seq(Record) /\ DOMAIN pages' = DOMAIN pages /\ Alike(pages[parent], pages'[parent])
        /\ \A p \in DOMAIN pages : Alike(pages[p], pages'[p])
        /\ pages'[parent].keys = ks /\ \A p \in DOMAIN pages \ {parent} : pages'[p] = pages[p]
    BY <1>7, <1>b, <2>1, <2>2 DEF KeyWritten
  <2>4. KeySet(keys, ks, n, i, max, l, h)
    BY <1>8, <1>9, <1>14, <1>18, <1>b, <2>1, KeySetIs
  <2>5. i - 1 \in 0..n + 1 /\ i \in 0..n + 1 /\ i + 1 \in 0..n + 1 /\ i + 1 \in 1..n + 1 /\ i < i + 1 /\ i - 1 # i /\ i + 1 # i
        /\ (i + 1) - 1 = i
    BY <1>8, <1>18
  <2>6. /\ Fence(ks, l, h, i - 1) = lo[page] /\ Fence(ks, l, h, i) = max
        /\ \A j \in 0..n + 1 : j # i => Fence(ks, l, h, j) = Fence(keys, l, h, j)
        /\ ks \in Seq(Nat) /\ Len(ks) = n
    BY <1>11, <2>4, <2>5 DEF KeySet
  <2>7. Fence(keys, l, h, i) < Fence(keys, l, h, i + 1) /\ Fence(keys, l, h, i + 1) \in Int
    <3>1. Fences(keys, l, h, n)
      BY <1>8, <1>9, <1>b, FenceIs
    <3> QED
      BY <1>9, <1>b, <2>5, <3>1 DEF Rising, Fences
  <2>8. Rising(ks, l, h)
    <3>1. Fence(keys, l, h, i - 1) < max /\ max < Fence(keys, l, h, i + 1)
      BY <1>11, <1>12, <1>14, <2>7
    <3> QED
      BY <2>4, <3>1 DEF KeySet
  <2>9. /\ Alive(pages, g) /\ g \in Kids(pages, parent) /\ tree[g] = tree[parent]
        /\ g # page /\ g # child /\ g \notin gaps /\ lo[g] \in Int /\ hi[g] \in Int
        /\ lo[g] = hi[child] /\ hi[g] = Fence(keys, l, h, i + 1)
    <3>1. PICK f2, f3 : f2 = Fence(keys, l, h, (i + 1) - 1) /\ f3 = Fence(keys, l, h, i + 1)
      OBVIOUS
    <3>2. /\ Alive(pages, g) /\ g \in Kids(pages, parent) /\ tree[g] = tree[parent] /\ lo[g] \in Int /\ hi[g] \in Int
          /\ g \notin gaps => lo[g] = f2 /\ hi[g] = f3
      <4>1. PICK k : k = i + 1
        OBVIOUS
      <4>2. /\ Inner(pages, parent) /\ k \in 1..Len(pages[parent].keys) + 1 /\ g = pages[parent].children[k]
            /\ f2 = Fence(pages[parent].keys, lo[parent], hi[parent], k - 1)
            /\ f3 = Fence(pages[parent].keys, lo[parent], hi[parent], k)
        BY <1>7, <1>b, <2>1, <2>5, <3>1, <4>1
      <4> QED
        BY <1>5, <4>2, ChildFits
    <3>3. g # page
      BY <1>8, <1>11, <2>1, <2>5 DEF IsInjective
    <3>4. g \notin gaps
      BY <1>6, <3>3
    <3>5. f2 = hi[child]
      BY <1>11, <2>5, <3>1
    <3> QED
      BY <1>15, <3>1, <3>2, <3>3, <3>4, <3>5
  <2>10. Order(pages', lo, hi, tree, top, {g})
    <3>1. Bounds(lo, hi, tree, top)
      BY <1>5 DEF Order
    <3>2. /\ \A p \in DOMAIN pages' \ {parent} : p \in DOMAIN pages /\ Carries(pages[p], pages'[p])
          /\ \A p : IsLeaf(pages', p) <=> IsLeaf(pages, p)
      BY <2>3 DEF Carries, IsLeaf, Alike
    <3>3. OutsideSame(pages, pages', lo, hi, tree, lo, hi, tree, {parent})
      BY <3>2 DEF OutsideSame
    <3>4. KidsStay(pages, pages', lo, hi, tree, gaps, lo, hi, tree, {g}, {parent})
      <4>1. ASSUME NEW p \in DOMAIN pages' \ {parent}, NEW d \in Kids(pages, p)
            PROVE  KidStays(lo, hi, tree, gaps, lo, hi, tree, {g}, d)
        <5>1. p \in DOMAIN pages /\ d # page
          BY <1>15, <2>3
        <5>2. Alive(pages, d)
          BY <1>5, <5>1 DEF Descends
        <5>3. lo[d] \in Int /\ hi[d] \in Int
          BY <1>5, <5>2, IntervalIs
        <5> QED
          BY <1>6, <5>1, <5>3 DEF KidStays
      <4> QED
        BY <4>1 DEF KidsStay
    <3>5. RootsStay(pages', gaps, {g}, {parent})
      BY <1>2, <1>6, <2>3 DEF RootsStay, Alike
    <3>6. LinksStay(pages, pages', lo, hi, tree, top, lo, tree, {parent})
      BY <1>5, <3>2 DEF LinksStay, Order, Linked, IsLeaf
    <3>7. Settled(pages', lo, hi, tree, top, {g}, parent)
      <4>1. NodeOrdered(pages'[parent], lo[parent], hi[parent], top)
        BY <1>8, <1>9, <1>b, <2>3, <2>8 DEF NodeOrdered, Alike
      <4>2. ASSUME NEW j \in DOMAIN pages'[parent].children PROVE Fitted(pages', lo, hi, tree, {g}, parent, j)
        <5>1. PICK d, f2, f3 : d = pages[parent].children[j] /\ f2 = Fence(keys, l, h, j - 1) /\ f3 = Fence(keys, l, h, j)
          OBVIOUS
        <5>2. j \in 1..n + 1 /\ pages'[parent].children[j] = d /\ pages'[parent].keys = ks /\ j \in 0..n + 1 /\ j - 1 \in 0..n + 1
          BY <1>8, <2>3, <4>2, <5>1 DEF Alike
        <5>3. /\ tree[d] = tree[parent] /\ lo[d] \in Int /\ hi[d] \in Int
              /\ d \notin gaps => lo[d] = f2 /\ hi[d] = f3
          <6>1. /\ Inner(pages, parent) /\ j \in 1..Len(pages[parent].keys) + 1 /\ d = pages[parent].children[j]
                /\ f2 = Fence(pages[parent].keys, lo[parent], hi[parent], j - 1)
                /\ f3 = Fence(pages[parent].keys, lo[parent], hi[parent], j)
            BY <1>7, <1>b, <5>1, <5>2
          <6> QED
            BY <1>5, <6>1, ChildFits
        <5>4. PICK e2, e3 : e2 = Fence(ks, l, h, j - 1) /\ e3 = Fence(ks, l, h, j)
          OBVIOUS
        <5>5. Within(e2, e3, lo[d], hi[d], d \notin {g})
          <6>1. CASE j = i
            BY <1>11, <1>12, <1>14, <2>6, <5>1, <5>4, <6>1 DEF Within
          <6>2. CASE j = i + 1
            <7>1. d = g /\ e2 = max /\ e3 = Fence(keys, l, h, i + 1)
              BY <2>1, <2>5, <2>6, <5>1, <5>4, <6>2
            <7> QED
              BY <1>11, <1>12, <1>14, <2>9, <7>1 DEF Within
          <6>3. CASE j # i /\ j # i + 1
            <7>1. j - 1 # i
              BY <5>2, <6>3, <2>5
            <7>2. e2 = f2 /\ e3 = f3
              BY <2>6, <5>1, <5>2, <5>4, <6>3, <7>1
            <7>3. d # page
              BY <1>8, <1>11, <5>1, <5>2, <6>3 DEF IsInjective
            <7>4. lo[d] = f2 /\ hi[d] = f3
              BY <1>6, <5>3, <7>3
            <7> QED
              BY <5>3, <7>2, <7>4 DEF Within
          <6> QED
            BY <6>1, <6>2, <6>3
        <5> QED
          BY <1>b, <5>2, <5>3, <5>4, <5>5 DEF Fitted
      <4>3. pages'[parent].is_root => RootFits(lo, hi, tree, top, {g}, parent)
        <5> SUFFICES ASSUME pages'[parent].is_root PROVE RootFits(lo, hi, tree, top, {g}, parent)
          OBVIOUS
        <5>1. RootFits(lo, hi, tree, top, gaps, parent)
          BY <1>5, <1>7, <2>3 DEF Order, Alike
        <5>2. parent \notin gaps
          BY <1>6, <1>7
        <5> QED
          BY <5>1, <5>2 DEF RootFits
      <4> QED
        BY <1>8, <2>3, <4>1, <4>2, <4>3 DEF Settled, IsLeaf, Alike
    <3>8. InsideSettled(pages', lo, hi, tree, top, {g}, {parent})
      BY <3>7 DEF InsideSettled
    <3>9. LeavesApart(pages', lo, hi, tree, {parent})
      BY <1>8, <2>3 DEF LeavesApart, IsLeaf, Alike
    <3> QED
      BY <1>5, <3>1, <3>3, <3>4, <3>5, <3>6, <3>8, <3>9, OrderUpdated
  <2>11. Mended(stack', pages', lo, hi, tree, top, {g})
    <3>1. Slot(pages', lo, hi, parent, i + 1, g, lo[child], hi[g])
      <4>1. /\ i + 1 \in DOMAIN pages'[parent].children /\ pages'[parent].children[i + 1] = g
            /\ pages'[parent].keys = ks
        BY <1>8, <2>1, <2>3, <2>5 DEF Alike
      <4>2. lo[child] = Fence(ks, l, h, (i + 1) - 1) /\ hi[g] = Fence(ks, l, h, i + 1)
        BY <1>11, <1>14, <2>5, <2>6, <2>9
      <4> QED
        BY <1>b, <4>1, <4>2 DEF Slot
    <3>2. Beside(pages', lo, hi, tree, {g}, parent, child, g)
      BY <1>11, <1>16, <1>u, <2>9, <3>1 DEF Beside, Before
    <3>3. c.fn = "internal_node_insert" /\ c.page = parent /\ c.child = child
      BY <1>b DEF Call
    <3>4. OneMends(c, pages', lo, hi, tree, top, {g})
      BY <3>2, <3>3 DEF OneMends
    <3> QED
      BY <1>3, <3>4 DEF Mended
  <2>12. Ordered(lo, hi, tree, top, {g})'
    BY <2>10, <2>11 DEF Ordered
  <2>13. RowsKept(tree, tree)
    <3>1. \A p \in DOMAIN pages : pages[p].type = "leaf" => pages'[p] = pages[p]
      BY <1>8, <2>3
    <3>2. DOMAIN pages' = DOMAIN pages /\ \A p \in DOMAIN pages : pages'[p].type = pages[p].type
      BY <2>3 DEF Alike
    <3> QED
      BY <3>1, <3>2 DEF RowsKept, Has
  <2> QED
    BY <2>12, <2>13 DEF OrderKept
<1> QED
  BY <1>8, <1>11, <1>17, <1>18

-----------------------------------------------------------------------------
\* A child is placed in its node: the slot it shared is divided by a separator.
\* The child at the place `i` of n + 1 becomes the two children `x` and `y`.
KidsSplit(kids, cs, n, i, x, y) ==
  /\ cs \in Seq(Nat) /\ Len(cs) = n + 2
  /\ \A j \in 1..n + 2 : cs[j] = IF j < i THEN kids[j] ELSE IF j = i THEN x
                                 ELSE IF j = i + 1 THEN y ELSE kids[j - 1]

\* Where a child goes, and what divides the two that share its slot.
PlacedBeside(ps, lo, hi, page, child, g, ks, cs, n, i, x, y, m) ==
  /\ i \in 1..n + 1 /\ ps[page].children[i] = g /\ {x, y} = {child, g} /\ x # y
  /\ lo[x] = Fence(ps[page].keys, lo[page], hi[page], i - 1)
  /\ hi[x] = m /\ lo[y] = m
  /\ hi[y] = Fence(ps[page].keys, lo[page], hi[page], i)
  /\ Inserted(Nat, ks, ps[page].keys, i, m) /\ KidsSplit(ps[page].children, cs, n, i, x, y)
  /\ m \in Nat

LEMMA SlotSearched ==
  ASSUME NEW ps, NEW level, Descends(ps, level),
         NEW lo, NEW hi, NEW tree, NEW top, NEW gaps, Order(ps, lo, hi, tree, top, gaps),
         NEW p, Inner(ps, p), NEW i, NEW g, NEW a, NEW b, Slot(ps, lo, hi, p, i, g, a, b),
         NEW key \in Int, a < key, key <= b
  PROVE  LowerBound(ps[p].keys, key) = i
<1>1. PICK keys, n, l, h : keys = ps[p].keys /\ n = Len(keys) /\ l = lo[p] /\ h = hi[p]
  OBVIOUS
<1>2. Alive(ps, p) /\ ps[p].type = "internal" /\ keys \in Seq(Nat) /\ DOMAIN ps[p].children = 1..n + 1
  BY <1>1, InnerIs
<1>3. l \in Int /\ h \in Int /\ Rising(keys, l, h)
  BY <1>1, <1>2, IntervalIs DEF NodeOrdered, Descends
<1>4. i \in 1..n + 1 /\ Fence(keys, l, h, i - 1) < key /\ key <= Fence(keys, l, h, i)
  BY <1>1, <1>2 DEF Slot
<1>5. LowerBound(keys, key) = i
  BY <1>1, <1>2, <1>3, <1>4, SlotFound
<1> QED
  BY <1>1, <1>5

\* internal_node_insert's keys and children.
GrownWith(keys, kids, child, max, right_max, ks, cs) ==
  /\ ks = IF max > right_max THEN Append(keys, right_max) ELSE InsertAt(keys, LowerBound(keys, max), max)
  /\ cs = IF max > right_max THEN Append(kids, child) ELSE InsertAt(kids, LowerBound(keys, max), child)

LEMMA ChildPlacedBeside ==
  ASSUME NEW ps, NEW level, Descends(ps, level), LeavesHoldKeys(ps),
         NEW lo, NEW hi, NEW tree, NEW top, NEW gaps, Order(ps, lo, hi, tree, top, gaps),
         NEW page, NEW child, NEW g, Inner(ps, page), Alive(ps, child), ~ps[child].is_root, child # g,
         level[page] = level[child] + 1,
         \A p \in gaps : p \in DOMAIN ps /\ level[p] >= level[child],
         Beside(ps, lo, hi, tree, gaps, page, child, g),
         NEW n, n = Len(ps[page].keys), NEW max, NEW right_max, NEW ks, NEW cs,
         max = MaxKey(ps, child), right_max = MaxKey(ps, Last(ps[page].children)),
         max \in Nat, right_max \in Nat,
         GrownWith(ps[page].keys, ps[page].children, child, max, right_max, ks, cs)
  PROVE  \E i, x, y, m : PlacedBeside(ps, lo, hi, page, child, g, ks, cs, n, i, x, y, m)
<1>a. PICK keys, kids, l, h, last :
        /\ keys = ps[page].keys /\ kids = ps[page].children /\ l = lo[page] /\ h = hi[page]
        /\ last = Last(ps[page].children)
  OBVIOUS
<1>1. /\ ps \in Seq(Record) /\ page \in DOMAIN ps /\ Alive(ps, page) /\ ps[page].type = "internal"
      /\ keys \in Seq(Nat) /\ n \in Nat /\ n = Len(keys) /\ kids \in Seq(Nat) /\ DOMAIN kids = 1..n + 1
      /\ Len(kids) = n + 1 /\ IsInjective(kids)
  BY <1>a, InnerIs DEF Descends
<1>2. /\ l \in Int /\ h \in Int /\ top \in Int /\ l < h /\ h <= top /\ Rising(keys, l, h)
  <2>1. /\ lo[page] \in Int /\ hi[page] \in Int /\ top \in Int /\ lo[page] < hi[page] /\ hi[page] <= top
        /\ NodeOrdered(ps[page], lo[page], hi[page], top)
    BY <1>1, IntervalIs
  <2> QED
    BY <1>1, <1>a, <2>1 DEF NodeOrdered
<1>3. /\ child \in Nat /\ lo[child] \in Int /\ hi[child] \in Int /\ lo[child] < hi[child] /\ hi[child] <= top
      /\ level[child] \in Nat
  BY <1>1, IntervalIs, LevelTells
<1>4. \A p, k : Inner(ps, p) /\ level[p] <= level[child] /\ k = Len(ps[p].keys) + 1 => ps[p].children[k] \notin gaps
  <2> SUFFICES ASSUME NEW p, NEW k, Inner(ps, p), level[p] <= level[child], k = Len(ps[p].keys) + 1
               PROVE  ps[p].children[k] \notin gaps
    OBVIOUS
  <2>1. k \in 1..Len(ps[p].keys) + 1
    BY InnerIs
  <2>2. PICK d : d = ps[p].children[k]
    OBVIOUS
  <2>3. level[d] \in Nat /\ level[p] = level[d] + 1
    <3>1. /\ ps[p].children[k] \in Kids(ps, p) /\ Alive(ps, ps[p].children[k])
          /\ level[ps[p].children[k]] \in Nat /\ level[p] = level[ps[p].children[k]] + 1
      BY <2>1, ChildIsBelow
    <3> QED
      BY <2>2, <3>1
  <2>e. PICK u, v, w : u = level[d] /\ v = level[p] /\ w = level[child]
    OBVIOUS
  <2>f. u \in Nat /\ v = u + 1 /\ w \in Nat /\ v <= w
    BY <1>3, <2>3, <2>e
  <2>4. ~(level[d] >= level[child])
    BY <2>e, <2>f
  <2> QED
    BY <2>2, <2>4
<1>5. \A p : Alive(ps, p) /\ level[p] = level[child] /\ hi[p] # top => MaxKey(ps, p) = hi[p]
  <2> SUFFICES ASSUME NEW p, Alive(ps, p), level[p] = level[child], hi[p] # top
               PROVE  MaxKey(ps, p) = hi[p]
    OBVIOUS
  <2>1. \A q : Inner(ps, q) /\ level[q] <= level[p] => ps[q].children[Len(ps[q].keys) + 1] \notin gaps
    BY <1>4
  <2> QED
    BY <2>1, MaxKeyIs
<1>6. \A j \in 1..n + 1 : /\ Alive(ps, kids[j]) /\ ~ps[kids[j]].is_root /\ level[kids[j]] = level[child]
                          /\ lo[kids[j]] \in Int /\ hi[kids[j]] \in Int /\ lo[kids[j]] < hi[kids[j]]
                          /\ Fence(keys, l, h, j - 1) \in Int /\ Fence(keys, l, h, j) \in Int
                          /\ Fence(keys, l, h, j - 1) <= lo[kids[j]] /\ hi[kids[j]] <= Fence(keys, l, h, j)
                          /\ Fence(keys, l, h, j) <= h
                          /\ kids[j] \in Nat
  <2> SUFFICES ASSUME NEW j \in 1..n + 1, NEW d, d = kids[j], NEW f2, NEW f3,
                      f2 = Fence(keys, l, h, j - 1), f3 = Fence(keys, l, h, j)
               PROVE  /\ Alive(ps, d) /\ ~ps[d].is_root /\ level[d] = level[child]
                      /\ lo[d] \in Int /\ hi[d] \in Int /\ lo[d] < hi[d] /\ f2 \in Int /\ f3 \in Int
                      /\ f2 <= lo[d] /\ hi[d] <= f3 /\ f3 <= h /\ d \in Nat
    OBVIOUS
  <2>1. /\ j \in 1..Len(ps[page].keys) + 1 /\ d = ps[page].children[j]
        /\ f2 = Fence(ps[page].keys, lo[page], hi[page], j - 1)
        /\ f3 = Fence(ps[page].keys, lo[page], hi[page], j)
    BY <1>1, <1>a
  <2>2. /\ Alive(ps, d) /\ lo[d] \in Int /\ hi[d] \in Int /\ lo[d] < hi[d] /\ f2 \in Int /\ f3 \in Int
        /\ f2 <= lo[d] /\ hi[d] <= f3 /\ f3 <= hi[page]
    BY <2>1, ChildFits
  <2>3. ~ps[d].is_root /\ level[d] \in Nat /\ level[page] = level[d] + 1
    BY <2>1, ChildIsBelow
  <2>4. level[d] = level[child]
    BY <1>3, <2>3
  <2>5. d \in Nat
    BY <1>1, <2>2, IntervalIs
  <2>6. f3 <= h
    BY <1>a, <2>2
  <2> QED
    BY <2>2, <2>3, <2>4, <2>5, <2>6
<1>7. last = kids[n + 1] /\ n + 1 \in 1..n + 1 /\ Alive(ps, last) /\ ~ps[last].is_root
  <2>1. last = kids[n + 1] /\ n + 1 \in 1..n + 1
    BY <1>1, <1>a DEF Last
  <2> QED
    BY <1>6, <2>1
<1>8. right_max > lo[last] /\ lo[last] \in Int
  <2>1. lo[last] < MaxKey(ps, last)
    BY <1>7, MaxKeyIn
  <2> QED
    BY <1>6, <1>7, <1>a, <2>1
<1>9. CASE Before(ps, lo, hi, page, child, g)
  <2>1. PICK i : Slot(ps, lo, hi, page, i, g, lo[child], hi[g]) /\ hi[child] = lo[g]
    BY <1>9 DEF Before
  <2>2. /\ i \in 1..n + 1 /\ kids[i] = g /\ lo[child] = Fence(keys, l, h, i - 1) /\ hi[g] = Fence(keys, l, h, i)
    BY <1>1, <1>a, <2>1 DEF Slot
  <2>3. /\ Alive(ps, g) /\ lo[g] \in Int /\ hi[g] \in Int /\ lo[g] < hi[g] /\ hi[g] <= h
        /\ level[g] = level[child] /\ g \in Nat
    BY <1>6, <2>2
  <2>4. max = hi[child]
    <3>1. hi[child] # top
      BY <1>2, <1>3, <2>1, <2>3
    <3> QED
      BY <1>5, <3>1
  <2>5. LowerBound(keys, max) = i
    <3>1. lo[child] < max /\ max <= hi[g] /\ max \in Int
      BY <1>3, <2>1, <2>3, <2>4
    <3>2. LowerBound(ps[page].keys, max) = i
      BY <2>1, <3>1, SlotSearched
    <3> QED
      BY <1>a, <3>2
  <2>6. ~(max > right_max)
    <3>1. lo[g] <= lo[last]
      <4>1. CASE i = n + 1
        BY <1>7, <2>2, <2>3, <4>1
      <4>2. CASE i # n + 1
        <5>1. PICK f : f = [j \in 0..n + 1 |-> Fence(keys, l, h, j)]
          OBVIOUS
        <5>2. i \in 0..n + 1 /\ n \in 0..n + 1 /\ (i = n \/ i < n) /\ (n + 1) - 1 = n
          BY <1>1, <2>2, <4>2
        <5>3. f[i] = f[n] \/ f[i] < f[n]
          BY <1>1, <1>2, <5>1, <5>2 DEF Rising
        <5>4. f[i] = hi[g] /\ f[n] \in Int /\ f[n] <= lo[last]
          BY <1>6, <1>7, <2>2, <5>1, <5>2
        <5> QED
          BY <1>8, <2>3, <5>3, <5>4
      <4> QED
        BY <4>1, <4>2
    <3> QED
      BY <1>8, <2>1, <2>3, <2>4, <3>1
  <2>7. ks = InsertAt(keys, i, max) /\ cs = InsertAt(kids, i, child)
    BY <1>a, <2>5, <2>6 DEF GrownWith
  <2>8. Inserted(Nat, ks, keys, i, max)
    BY <1>1, <2>2, <2>7, InsertAtIs
  <2>9. KidsSplit(kids, cs, n, i, child, g)
    <3>1. Inserted(Nat, cs, kids, i, child)
      <4>1. i \in 1..Len(kids) + 1
        BY <1>1, <2>2
      <4> QED
        BY <1>1, <1>3, <2>7, <4>1, InsertAtIs
    <3>2. cs \in Seq(Nat) /\ Len(cs) = n + 2
      BY <1>1, <3>1 DEF Inserted
    <3>3. \A j \in 1..n + 2 : cs[j] = IF j < i THEN kids[j] ELSE IF j = i THEN child ELSE kids[j - 1]
      <4>1. 1..Len(kids) + 1 = 1..n + 2
        BY <1>1
      <4> QED
        BY <3>1, <4>1 DEF Inserted
    <3>4. \A j \in 1..n + 2 : /\ j = i + 1 => ~(j < i) /\ j # i /\ j - 1 = i
      BY <2>2
    <3> QED
      BY <2>2, <3>2, <3>3, <3>4 DEF KidsSplit
  <2>10. PlacedBeside(ps, lo, hi, page, child, g, ks, cs, n, i, child, g, max)
    BY <1>a, <2>1, <2>2, <2>4, <2>8, <2>9 DEF PlacedBeside
  <2> QED
    BY <2>10
<1>10. CASE After(ps, lo, hi, page, child, g)
  <2>a. PICK i : i = n + 1
    OBVIOUS
  <2>2. /\ i \in 1..n + 1 /\ kids[i] = g /\ lo[g] = Fence(keys, l, h, i - 1) /\ hi[child] = Fence(keys, l, h, i)
        /\ hi[g] = lo[child]
    BY <1>1, <1>7, <1>10, <1>a, <2>a DEF Slot, After
  <2>3. /\ Alive(ps, g) /\ lo[g] \in Int /\ hi[g] \in Int /\ lo[g] < hi[g] /\ level[g] = level[child] /\ g \in Nat
    BY <1>6, <2>2
  <2>4. right_max = hi[g]
    <3>1. hi[g] # top
      BY <1>2, <1>3, <2>2, <2>3
    <3>2. MaxKey(ps, g) = hi[g]
      BY <1>5, <2>3, <3>1
    <3> QED
      BY <1>7, <1>a, <2>2, <2>a, <3>2
  <2>5. max > right_max
    <3>1. lo[child] < MaxKey(ps, child)
      BY MaxKeyIn
    <3> QED
      BY <1>3, <2>2, <2>4, <3>1
  <2>6. ks = Append(keys, right_max) /\ cs = Append(kids, child)
    BY <1>a, <2>5 DEF GrownWith
  <2>7. Appended(Nat, ks, keys, right_max) /\ Appended(Nat, cs, kids, child)
    BY <1>1, <1>3, <2>6, AppendedIs
  <2>8. Inserted(Nat, ks, keys, i, right_max)
    <3>1. \A j \in 1..n + 1 : (j <= n <=> j < i) /\ (~(j <= n) => j = i)
      BY <1>1, <2>a
    <3> QED
      BY <1>1, <2>7, <3>1 DEF Appended, Inserted
  <2>9. KidsSplit(kids, cs, n, i, g, child)
    <3>1. cs \in Seq(Nat) /\ Len(cs) = n + 2 /\ \A j \in 1..n + 2 : cs[j] = IF j <= n + 1 THEN kids[j] ELSE child
      <4>1. Len(kids) + 1 = n + 2
        BY <1>1
      <4> QED
        BY <1>1, <2>7, <4>1 DEF Appended
    <3>2. \A j \in 1..n + 2 : /\ j < i => j <= n + 1
                              /\ j = i => j <= n + 1 /\ ~(j < i)
                              /\ j = i + 1 => ~(j <= n + 1) /\ ~(j < i) /\ j # i
                              /\ j < i \/ j = i \/ j = i + 1
      <4>1. n \in Nat
        BY <1>1
      <4> QED
        BY <2>a, <4>1
    <3>3. ASSUME NEW j \in 1..n + 2
          PROVE  cs[j] = IF j < i THEN kids[j] ELSE IF j = i THEN g ELSE IF j = i + 1 THEN child ELSE kids[j - 1]
      <4>1. cs[j] = IF j <= n + 1 THEN kids[j] ELSE child
        BY <3>1
      <4> QED
        BY <2>2, <3>2, <4>1
    <3> QED
      BY <3>1, <3>3 DEF KidsSplit
  <2>10. PlacedBeside(ps, lo, hi, page, child, g, ks, cs, n, i, g, child, right_max)
    BY <1>a, <2>2, <2>4, <2>8, <2>9 DEF PlacedBeside
  <2> QED
    BY <2>10
<1> QED
  BY <1>9, <1>10 DEF Beside

\* A child goes into the slot of a gap, and the gap is mended.
FillsGap(ps, qs, lo, hi, tree, gaps, page, child, g, ks, cs, n) ==
  /\ Inner(ps, page) /\ Alive(ps, child) /\ n = Len(ps[page].keys)
  /\ tree[child] = tree[page] /\ g \in gaps /\ child \notin gaps /\ ~ps[g].is_root /\ page # g
  /\ child \notin Kids(ps, page) /\ \A p \in DOMAIN ps : g \in Kids(ps, p) => p = page
  /\ DOMAIN qs = DOMAIN ps /\ Refilled(ps[page], qs[page], ks, cs)
  /\ \A p \in DOMAIN ps \ {page} : Carries(ps[p], qs[p])

LEMMA GapFilled ==
  ASSUME NEW ps, NEW level, Descends(ps, level),
         NEW lo, NEW hi, NEW tree, NEW top, NEW gaps, Order(ps, lo, hi, tree, top, gaps),
         NEW page, NEW child, NEW g, NEW ks, NEW cs, NEW n, NEW i, NEW x, NEW y, NEW m,
         NEW qs, FillsGap(ps, qs, lo, hi, tree, gaps, page, child, g, ks, cs, n),
         PlacedBeside(ps, lo, hi, page, child, g, ks, cs, n, i, x, y, m),
         NEW gaps2, gaps2 = gaps \ {g},
         \A d \in gaps : d # g => d \notin Kids(ps, page)
  PROVE  Order(qs, lo, hi, tree, top, gaps2)
<1>a. PICK keys, kids, l, h : keys = ps[page].keys /\ kids = ps[page].children /\ l = lo[page] /\ h = hi[page]
  OBVIOUS
<1>1. /\ Inner(ps, page) /\ Alive(ps, child) /\ n = Len(keys)
      /\ tree[child] = tree[page] /\ g \in gaps /\ child \notin gaps /\ ~ps[g].is_root /\ page # g
      /\ child \notin Kids(ps, page) /\ \A p \in DOMAIN ps : g \in Kids(ps, p) => p = page
      /\ DOMAIN qs = DOMAIN ps /\ Refilled(ps[page], qs[page], ks, cs)
      /\ \A p \in DOMAIN ps \ {page} : Carries(ps[p], qs[p])
  BY <1>a DEF FillsGap
<1>2. /\ i \in 1..n + 1 /\ kids[i] = g /\ {x, y} = {child, g} /\ x # y
      /\ lo[x] = Fence(keys, l, h, i - 1) /\ hi[x] = m /\ lo[y] = m /\ hi[y] = Fence(keys, l, h, i)
      /\ Inserted(Nat, ks, keys, i, m) /\ KidsSplit(kids, cs, n, i, x, y) /\ m \in Nat
  BY <1>a DEF PlacedBeside
<1>3. /\ page \in DOMAIN ps /\ Alive(ps, page) /\ ps[page].type = "internal"
      /\ keys \in Seq(Nat) /\ n \in Nat /\ kids \in Seq(Nat) /\ DOMAIN kids = 1..n + 1
      /\ Len(kids) = n + 1 /\ IsInjective(kids) /\ ps \in Seq(Record)
  BY <1>1, <1>a, InnerIs DEF Descends
<1>4. /\ l \in Int /\ h \in Int /\ top \in Int /\ l < h /\ -1 <= l /\ h <= top /\ Rising(keys, l, h)
  <2>1. /\ lo[page] \in Int /\ hi[page] \in Int /\ top \in Int /\ lo[page] < hi[page] /\ hi[page] <= top /\ -1 <= lo[page]
        /\ NodeOrdered(ps[page], lo[page], hi[page], top)
    BY <1>3, IntervalIs
  <2> QED
    BY <1>3, <1>a, <2>1 DEF NodeOrdered
<1>5. /\ g \in Kids(ps, page) /\ Alive(ps, g) /\ tree[g] = tree[page]
  <2>1. i \in 1..Len(ps[page].keys) + 1 /\ g = ps[page].children[i]
    BY <1>1, <1>2, <1>a
  <2>2. \E b, c : b = Fence(ps[page].keys, lo[page], hi[page], i - 1) /\ c = Fence(ps[page].keys, lo[page], hi[page], i)
    OBVIOUS
  <2> QED
    BY <1>1, <2>1, <2>2, ChildFits
<1>6. /\ lo[x] \in Int /\ hi[x] \in Int /\ lo[x] < hi[x] /\ lo[y] \in Int /\ hi[y] \in Int /\ lo[y] < hi[y]
      /\ tree[x] = tree[page] /\ tree[y] = tree[page]
  <2>1. (x = child \/ x = g) /\ (y = child \/ y = g)
    BY <1>2
  <2>2. /\ lo[g] \in Int /\ hi[g] \in Int /\ lo[g] < hi[g]
        /\ lo[child] \in Int /\ hi[child] \in Int /\ lo[child] < hi[child]
    BY <1>1, <1>3, <1>5, IntervalIs
  <2> QED
    BY <1>1, <1>5, <2>1, <2>2
<1>7. FencesSplit(keys, ks, n, i, m, l, h)
  <2>1. Fence(keys, l, h, i - 1) < m /\ m < Fence(keys, l, h, i)
    BY <1>2, <1>6
  <2> QED
    BY <1>1, <1>2, <1>3, <1>4, <2>1, FencesSplitIs
<1>8. /\ ks \in Seq(Nat) /\ Len(ks) = n + 1 /\ Rising(ks, l, h)
      /\ \A j \in 0..n + 2 : Fence(ks, l, h, j) = IF j < i THEN Fence(keys, l, h, j)
                                                 ELSE IF j = i THEN m ELSE Fence(keys, l, h, j - 1)
  BY <1>7 DEF FencesSplit
<1>9. /\ cs \in Seq(Nat) /\ Len(cs) = n + 2
      /\ \A j \in 1..n + 2 : cs[j] = IF j < i THEN kids[j] ELSE IF j = i THEN x
                                     ELSE IF j = i + 1 THEN y ELSE kids[j - 1]
  BY <1>2 DEF KidsSplit
<1>10. /\ qs[page].keys = ks /\ qs[page].children = cs /\ qs[page].type = "internal"
       /\ qs[page].is_root = ps[page].is_root
  BY <1>1, <1>3 DEF Refilled
<1>11. \A p : IsLeaf(qs, p) <=> IsLeaf(ps, p)
  BY <1>1, <1>3, <1>10 DEF IsLeaf, Carries
<1>12. OutsideSame(ps, qs, lo, hi, tree, lo, hi, tree, {page})
  BY <1>1 DEF OutsideSame
<1>13. KidsStay(ps, qs, lo, hi, tree, gaps, lo, hi, tree, gaps2, {page})
  <2>1. ASSUME NEW p \in DOMAIN qs \ {page}, NEW d \in Kids(ps, p)
        PROVE  KidStays(lo, hi, tree, gaps, lo, hi, tree, gaps2, d)
    <3>1. p \in DOMAIN ps /\ d # g
      BY <1>1, <2>1
    <3>2. Alive(ps, d)
      BY <3>1 DEF Descends
    <3>3. lo[d] \in Int /\ hi[d] \in Int
      BY <1>3, <3>2, IntervalIs
    <3> QED
      BY <3>1, <3>3 DEF KidStays
  <2> QED
    BY <2>1 DEF KidsStay
<1>14. RootsStay(qs, gaps, gaps2, {page})
  <2>1. \A p \in DOMAIN qs \ {page} : qs[p].is_root => p # g
    BY <1>1 DEF Carries
  <2> QED
    BY <2>1 DEF RootsStay
<1>15. LinksStay(ps, qs, lo, hi, tree, top, lo, tree, {page})
  BY <1>11 DEF LinksStay, Order, Linked, IsLeaf
<1>16. ASSUME NEW j \in 1..n + 2 PROVE Fitted(qs, lo, hi, tree, gaps2, page, j)
  <2>a. PICK f2, f3, j1, c : f2 = Fence(ks, l, h, j - 1) /\ f3 = Fence(ks, l, h, j) /\ j1 = j - 1 /\ c = cs[j]
    OBVIOUS
  <2>1. j \in 0..n + 2 /\ j1 \in 0..n + 2 /\ j - 1 = j1 /\ i \in Nat /\ n \in Nat
    BY <1>2, <1>3, <2>a
  <2>2. /\ f2 = IF j1 < i THEN Fence(keys, l, h, j1) ELSE IF j1 = i THEN m ELSE Fence(keys, l, h, j1 - 1)
        /\ f3 = IF j < i THEN Fence(keys, l, h, j) ELSE IF j = i THEN m ELSE Fence(keys, l, h, j1)
        /\ c = IF j < i THEN kids[j] ELSE IF j = i THEN x ELSE IF j = i + 1 THEN y ELSE kids[j1]
    BY <1>8, <1>9, <2>1, <2>a
  <2>3. ASSUME NEW k \in 1..n + 1, k # i
        PROVE  /\ tree[kids[k]] = tree[page] /\ kids[k] \notin gaps
               /\ lo[kids[k]] = Fence(keys, l, h, k - 1) /\ hi[kids[k]] = Fence(keys, l, h, k)
               /\ lo[kids[k]] \in Int /\ hi[kids[k]] \in Int
    <3>1. PICK d, e2, e3 : d = kids[k] /\ e2 = Fence(keys, l, h, k - 1) /\ e3 = Fence(keys, l, h, k)
      OBVIOUS
    <3>2. /\ k \in 1..Len(ps[page].keys) + 1 /\ d = ps[page].children[k]
          /\ e2 = Fence(ps[page].keys, lo[page], hi[page], k - 1)
          /\ e3 = Fence(ps[page].keys, lo[page], hi[page], k)
      BY <1>1, <1>a, <3>1
    <3>3. /\ tree[d] = tree[page] /\ d \in Kids(ps, page) /\ lo[d] \in Int /\ hi[d] \in Int
          /\ d \notin gaps => lo[d] = e2 /\ hi[d] = e3
      BY <1>1, <3>2, ChildFits
    <3>4. d # g
      BY <1>2, <1>3, <2>3, <3>1 DEF IsInjective
    <3>5. d \notin gaps
      BY <3>3, <3>4
    <3> QED
      BY <3>1, <3>3, <3>5
  <2>4. tree[c] = tree[page] /\ lo[c] = f2 /\ hi[c] = f3 /\ f2 \in Int /\ f3 \in Int
    <3>1. CASE j < i
      <4>1. j \in 1..n + 1 /\ j # i /\ j1 < i
        BY <1>2, <2>1, <2>a, <3>1
      <4>2. c = kids[j] /\ f2 = Fence(keys, l, h, j - 1) /\ f3 = Fence(keys, l, h, j)
        BY <2>1, <2>2, <3>1, <4>1
      <4> QED
        BY <2>3, <4>1, <4>2
    <3>2. CASE j = i
      <4>1. j1 < i /\ ~(j < i)
        BY <2>1, <2>a, <3>2
      <4>2. c = x /\ f2 = Fence(keys, l, h, i - 1) /\ f3 = m
        BY <2>1, <2>2, <2>a, <3>2, <4>1
      <4> QED
        BY <1>2, <1>6, <4>2
    <3>3. CASE j = i + 1
      <4>1. j1 = i /\ ~(j < i) /\ j # i /\ ~(j1 < i)
        BY <2>1, <2>a, <3>3
      <4>2. c = y /\ f2 = m /\ f3 = Fence(keys, l, h, i)
        BY <2>2, <3>3, <4>1
      <4> QED
        BY <1>2, <1>6, <4>2
    <3>4. CASE j > i + 1
      <4>1. /\ ~(j < i) /\ j # i /\ j # i + 1 /\ ~(j1 < i) /\ j1 # i /\ j1 \in 1..n + 1
        BY <1>2, <2>1, <2>a, <3>4
      <4>2. c = kids[j1] /\ f2 = Fence(keys, l, h, j1 - 1) /\ f3 = Fence(keys, l, h, j1)
        BY <2>2, <4>1
      <4> QED
        BY <2>3, <4>1, <4>2
    <3> QED
      BY <2>1, <3>1, <3>2, <3>3, <3>4
  <2>5. c = qs[page].children[j] /\ f2 = Fence(qs[page].keys, lo[page], hi[page], j - 1) /\ f3 = Fence(qs[page].keys, lo[page], hi[page], j)
    BY <1>10, <1>a, <2>a
  <2> QED
    BY <2>4, <2>5 DEF Fitted, Within
<1>17. Settled(qs, lo, hi, tree, top, gaps2, page)
  <2>1. NodeOrdered(qs[page], lo[page], hi[page], top)
    <3>1. -1 <= lo[page] /\ lo[page] < hi[page] /\ hi[page] <= top
      BY <1>4, <1>a
    <3>2. Rising(qs[page].keys, lo[page], hi[page]) /\ qs[page].type # "leaf"
      BY <1>8, <1>10, <1>a
    <3> QED
      BY <3>1, <3>2 DEF NodeOrdered
  <2>2. \A j \in DOMAIN qs[page].children : Fitted(qs, lo, hi, tree, gaps2, page, j)
    <3>1. cs \in Seq(Nat) /\ Len(cs) = n + 2
      BY <1>9
    <3>2. DOMAIN cs = 1..n + 2
      BY <3>1
    <3> QED
      BY <1>10, <1>16, <3>2
  <2>3. ASSUME qs[page].is_root PROVE RootFits(lo, hi, tree, top, gaps2, page)
    <3>1. RootFits(lo, hi, tree, top, gaps, page)
      BY <1>3, <1>10, <2>3 DEF Order
    <3> QED
      BY <1>1, <3>1 DEF RootFits
  <2> QED
    BY <1>10, <2>1, <2>2, <2>3 DEF Settled, IsLeaf
<1>18. InsideSettled(qs, lo, hi, tree, top, gaps2, {page})
  BY <1>17 DEF InsideSettled
<1>19. LeavesApart(qs, lo, hi, tree, {page})
  BY <1>10 DEF LeavesApart, IsLeaf
<1>20. Bounds(lo, hi, tree, top)
  BY DEF Order
<1> QED
  BY <1>12, <1>13, <1>14, <1>15, <1>18, <1>19, <1>20, OrderUpdated

LEMMA InsertChildKeepsOrder ==
  ASSUME NEW level, NEW loose, NEW short, Sound(level, loose, short),
         NEW lo, NEW hi, NEW tree, NEW top, NEW gaps, Ordered(lo, hi, tree, top, gaps),
         InsertChild
  PROVE  OrderKept(tree)
<1>a. PICK page, child, node, max, right_max, ks, cs :
        ChildGoes(level, page, child, node, max, right_max, ks, cs)
  BY InsertChildIs
<1>b. PICK n : n = Len(pages[page].keys)
  OBVIOUS
<1>1. /\ page = Top.page /\ child = Top.child /\ Pending("internal_node_insert") /\ Return
      /\ pages' = Placed(pages, page, WithChildren(pages[page], ks, cs), child)
      /\ Inner(pages, page) /\ Alive(pages, child) /\ level[page] = level[child] + 1
      /\ max = MaxKey(pages, child) /\ right_max = MaxKey(pages, Last(pages[page].children))
      /\ max \in Nat /\ right_max \in Nat
      /\ GrownWith(pages[page].keys, pages[page].children, child, max, right_max, ks, cs)
      /\ ks \in Seq(Nat) /\ cs \in Seq(Nat)
  BY <1>a DEF ChildGoes, GrownWith, Enlarged
<1>2. /\ pages \in Seq(Record) /\ Shape(pages, level, loose) /\ Descends(pages, level)
      /\ LeavesHoldKeys(pages) /\ Order(pages, lo, hi, tree, top, gaps)
  BY TreeTyped, HoldKeys DEF Ordered, Sound, Tree
<1>3. child \in loose
  BY <1>1, PlaceOnTop
<1>4. ~pages[child].is_root /\ \A p \in DOMAIN pages : child \notin Kids(pages, p)
  BY <1>2, <1>3 DEF Shape
<1>5. PICK g : /\ Beside(pages, lo, hi, tree, gaps, page, child, g)
               /\ \/ gaps = {g} /\ stack' = <<>>
                  \/ \E d : /\ gaps = {g, d.page} /\ stack' = <<d>>
                            /\ TwoCalls(Top, d, pages, max_keys, level, loose, short)
                            /\ Halves(pages, lo, hi, tree, top, gaps, d.page, d.child, d.key)
  BY <1>1, PlaceMends
<1>6. tree[child] = tree[page] /\ g \in gaps /\ child \notin gaps /\ g # child
  BY <1>5 DEF Beside
<1>7. /\ page \in DOMAIN pages /\ Alive(pages, page) /\ pages[page] \in Record /\ pages[page].type = "internal"
      /\ DOMAIN pages[page].children = 1..Len(pages[page].keys) + 1
  BY <1>1, <1>2, InnerIs
<1>8. /\ g \in Kids(pages, page) /\ Alive(pages, g) /\ ~pages[g].is_root
      /\ level[g] \in Nat /\ level[page] = level[g] + 1
  <2>1. PICK i \in DOMAIN pages[page].children : pages[page].children[i] = g
    BY <1>5 DEF Beside, Before, After, Slot
  <2>2. i \in 1..Len(pages[page].keys) + 1 /\ Inner(pages, page) /\ Descends(pages, level)
    BY <1>1, <1>2, <1>7, <2>1
  <2>3. /\ pages[page].children[i] \in Kids(pages, page) /\ Alive(pages, pages[page].children[i])
        /\ ~pages[pages[page].children[i]].is_root
        /\ level[pages[page].children[i]] \in Nat /\ level[page] = level[pages[page].children[i]] + 1
    BY <2>2, ChildIsBelow
  <2> QED
    BY <2>1, <2>3
<1>9. \A p \in DOMAIN pages : g \in Kids(pages, p) => p = page
  BY <1>2, <1>7, <1>8 DEF Shape
<1>10. level[child] \in Nat /\ page # child /\ page # g /\ child \in DOMAIN pages
  BY <1>1, <1>2, <1>8, LevelTells DEF Alive
<1>11. ASSUME NEW d, gaps = {g, d.page}, TwoCalls(Top, d, pages, max_keys, level, loose, short)
       PROVE  /\ d.page \in DOMAIN pages /\ level[d.page] = level[page] /\ Alive(pages, d.page) /\ d.page \notin loose
              /\ d.fn = "attach_sibling" /\ Alive(pages, d.child) /\ d.page # d.child
  <2>1. AttachCall(d, pages, max_keys, level) /\ page \in {d.page, d.child} /\ loose = {child, d.child}
    BY <1>1, <1>11 DEF TwoCalls
  <2>2. d.page # child
    BY <1>6, <1>11
  <2> QED
    BY <2>1, <2>2 DEF AttachCall, Alive
<1>12. \A p \in gaps : /\ p \in DOMAIN pages /\ level[p] >= level[child] /\ (p # g => p \notin Kids(pages, page))
  <2>1. ASSUME NEW p \in gaps, p # g PROVE p \in DOMAIN pages /\ level[p] = level[page]
    BY <1>5, <1>11, <2>1
  <2>2. PICK u, v : u = level[child] /\ v = level[page]
    OBVIOUS
  <2>3. u \in Nat /\ v = u + 1 /\ v >= u /\ u >= u /\ level[g] = u /\ u # v
    <3>1. PICK w : w = level[g]
      OBVIOUS
    <3>2. u \in Nat /\ v = u + 1 /\ w \in Nat /\ v = w + 1
      BY <1>1, <1>8, <1>10, <2>2, <3>1
    <3> QED
      BY <3>1, <3>2
  <2>4. ASSUME NEW p \in Kids(pages, page) PROVE level[p] = u
    <3>1. PICK j \in 1..Len(pages[page].keys) + 1 : pages[page].children[j] = p
      BY <1>7, <2>4 DEF Kids, ToSet
    <3>2. level[p] \in Nat /\ level[page] = level[p] + 1
      <4>1. /\ level[pages[page].children[j]] \in Nat /\ level[page] = level[pages[page].children[j]] + 1
        <5>1. Descends(pages, level) /\ Inner(pages, page)
          BY <1>1, <1>2
        <5> QED
          BY ONLY <5>1, j \in 1..Len(pages[page].keys) + 1, ChildIsBelow
      <4> QED
        BY <3>1, <4>1
    <3>3. PICK w : w = level[p]
      OBVIOUS
    <3>4. u \in Nat /\ v = u + 1 /\ w \in Nat /\ v = w + 1
      BY <2>2, <2>3, <3>2, <3>3
    <3> QED
      BY <3>3, <3>4
  <2> SUFFICES ASSUME NEW p \in gaps
               PROVE  p \in DOMAIN pages /\ level[p] >= level[child] /\ (p # g => p \notin Kids(pages, page))
    OBVIOUS
  <2>5. CASE p = g
    BY <1>8, <2>2, <2>3, <2>5 DEF Alive
  <2>6. CASE p # g
    <3>1. p \in DOMAIN pages /\ level[p] = v
      BY <2>1, <2>2, <2>6
    <3>2. p \notin Kids(pages, page)
      BY <2>3, <2>4, <3>1
    <3>3. level[p] >= level[child]
      BY <2>2, <2>3, <3>1
    <3> QED
      BY <3>1, <3>2, <3>3
  <2> QED
    BY <2>5, <2>6
<1>13. PICK i, x, y, m : PlacedBeside(pages, lo, hi, page, child, g, ks, cs, n, i, x, y, m)
  <2>1. \A p \in gaps : p \in DOMAIN pages /\ level[p] >= level[child]
    BY <1>12
  <2> QED
    BY <1>1, <1>2, <1>4, <1>5, <1>6, <1>b, <2>1, ChildPlacedBeside
<1>14. /\ DOMAIN pages' = DOMAIN pages /\ Refilled(pages[page], pages'[page], ks, cs)
       /\ pages'[child] = [pages[child] EXCEPT !.parent = page]
       /\ \A p \in DOMAIN pages \ {page, child} : pages'[p] = pages[p]
  <2>1. PICK new : new = WithChildren(pages[page], ks, cs)
    OBVIOUS
  <2>2. Refilled(pages[page], new, ks, cs) /\ pages' = Placed(pages, page, new, child)
    BY <1>1, <1>7, <2>1, WithChildrenIs
  <2>3. PlacedAs(pages, pages', page, new, child)
    BY <1>2, <1>7, <1>10, <2>2, PlacedIs DEF Refilled
  <2> QED
    BY <2>2, <2>3 DEF PlacedAs
<1>15. \A p \in DOMAIN pages \ {page} : Carries(pages[p], pages'[p])
  <2>1. pages[child] \in Record
    BY <1>2, <1>10, PageIs
  <2>2. Carries(pages[child], pages'[child])
    BY <1>14, <2>1 DEF Record, Carries
  <2> QED
    BY <1>14, <2>2 DEF Carries
<1>16. PICK gaps2 : gaps2 = gaps \ {g}
  OBVIOUS
<1>17. Order(pages', lo, hi, tree, top, gaps2)
  <2>1. FillsGap(pages, pages', lo, hi, tree, gaps, page, child, g, ks, cs, n)
    BY <1>1, <1>4, <1>6, <1>7, <1>8, <1>9, <1>10, <1>14, <1>15, <1>b DEF FillsGap
  <2>2. \A d \in gaps : d # g => d \notin Kids(pages, page)
    BY <1>12
  <2> QED
    BY <1>2, <1>13, <1>16, <2>1, <2>2, GapFilled
<1>18. Mended(stack', pages', lo, hi, tree, top, gaps2)
  <2>1. CASE gaps = {g} /\ stack' = <<>>
    BY <1>16, <2>1 DEF Mended
  <2>2. ASSUME NEW d, gaps = {g, d.page}, stack' = <<d>>,
               TwoCalls(Top, d, pages, max_keys, level, loose, short),
               Halves(pages, lo, hi, tree, top, gaps, d.page, d.child, d.key)
        PROVE  Mended(stack', pages', lo, hi, tree, top, gaps2)
    <3>1. PICK old, new, key : old = d.page /\ new = d.child /\ key = d.key
      OBVIOUS
    <3>2. /\ old \in DOMAIN pages /\ level[old] = level[page] /\ Alive(pages, old) /\ old \notin loose
          /\ d.fn = "attach_sibling"
      BY <1>11, <2>2, <3>1
    <3>3. old # g /\ old # child
      <4>1. PICK u, v, w : u = level[old] /\ v = level[g] /\ w = level[child]
        OBVIOUS
      <4>a. PICK t : t = level[page]
        OBVIOUS
      <4>b. u = t /\ t = v + 1 /\ v \in Nat /\ t = w + 1 /\ w \in Nat
        BY <1>1, <1>8, <1>10, <3>2, <4>1, <4>a
      <4>2. u = v + 1 /\ v \in Nat /\ u = w + 1 /\ w \in Nat
        BY <4>b
      <4>3. u # v /\ u # w
        BY <4>2
      <4> QED
        BY <4>1, <4>3
    <3>4. gaps2 = {old}
      BY <1>16, <2>2, <3>1, <3>3
    <3>5. /\ tree[new] = tree[old] /\ hi[old] = lo[new] /\ key \in Int /\ lo[old] < key /\ key <= hi[new]
          /\ old \in gaps /\ new \notin gaps
          /\ pages[old].is_root => hi[new] = top
          /\ ~pages[old].is_root => \E j : Slot(pages, lo, hi, pages[old].parent, j, old, lo[old], hi[new])
      BY <2>2, <3>1 DEF Halves
    <3>6. pages'[old].parent = pages[old].parent /\ pages'[old].is_root = pages[old].is_root
      BY <1>14, <3>2, <3>3 DEF Refilled
    <3>7. ASSUME ~pages[old].is_root
          PROVE  \E j : Slot(pages', lo, hi, pages'[old].parent, j, old, lo[old], hi[new])
      <4>1. PICK q : q = pages[old].parent
        OBVIOUS
      <4>2. q # page /\ q \in DOMAIN pages
        <5>1. Inner(pages, pages[old].parent) /\ level[pages[old].parent] = level[old] + 1 /\ level[old] \in Nat
          BY <1>2, <3>2, <3>7, ParentIs
        <5>2. PICK u, v : u = level[old] /\ v = level[q]
          OBVIOUS
        <5>3. v = u + 1 /\ u \in Nat /\ level[page] = u
          BY <3>2, <4>1, <5>1, <5>2
        <5> QED
          BY <4>1, <5>1, <5>2, <5>3 DEF Inner
      <4>3. Carries(pages[q], pages'[q])
        BY <1>15, <4>2
      <4>4. PICK j : Slot(pages, lo, hi, q, j, old, lo[old], hi[new])
        BY <3>5, <3>7, <4>1
      <4>5. Slot(pages', lo, hi, q, j, old, lo[old], hi[new])
        BY <4>3, <4>4 DEF Slot, Carries
      <4> QED
        BY <3>6, <4>1, <4>5
    <3>8. Halves(pages', lo, hi, tree, top, gaps2, old, new, key)
      <4>1. old \in gaps2 /\ new \notin gaps2
        BY <1>16, <3>4, <3>5
      <4> QED
        BY <3>5, <3>6, <3>7, <4>1 DEF Halves
    <3>9. OneMends(d, pages', lo, hi, tree, top, gaps2)
      BY <3>1, <3>2, <3>4, <3>8 DEF OneMends
    <3> QED
      BY <2>2, <3>9 DEF Mended
  <2> QED
    BY <1>5, <2>1, <2>2
<1>19. Ordered(lo, hi, tree, top, gaps2)'
  BY <1>17, <1>18 DEF Ordered
<1>20. RowsKept(tree, tree)
  <2>1. \A p \in DOMAIN pages : pages'[p].type = pages[p].type /\ (pages[p].type = "leaf" => pages'[p].keys = pages[p].keys)
    BY <1>7, <1>14, <1>15 DEF Carries, Refilled
  <2> QED
    BY <1>14, <2>1 DEF RowsKept, Has
<1> QED
  BY <1>19, <1>20 DEF OrderKept

-----------------------------------------------------------------------------
\* A node is divided at its key h + 1: `old` keeps what is below, `new` has the rest.
NodeDivides(ps, qs, old, new, n, h) ==
  /\ Inner(ps, old) /\ n = Len(ps[old].keys) /\ h \in 0..n - 1
  /\ new \in Nat /\ ~Alive(ps, new) /\ qs \in Seq(Record) /\ DOMAIN qs = DOMAIN ps \cup {new}
  /\ \A p \in DOMAIN qs \ {old, new} : p \in DOMAIN ps /\ Carries(ps[p], qs[p])
  /\ qs[old].keys = SubSeq(ps[old].keys, 1, h) /\ qs[new].keys = SubSeq(ps[old].keys, h + 2, n)
  /\ qs[old].children = SubSeq(ps[old].children, 1, h + 1)
  /\ qs[new].children = SubSeq(ps[old].children, h + 2, n + 1)
  /\ qs[old].type = "internal" /\ qs[new].type = "internal"
  /\ qs[old].is_root = ps[old].is_root /\ ~qs[new].is_root

\* Where the children and the fences of the divided node are now.
Parted(ps, qs, old, new, n, h, s, a, b, keys, kids) ==
  /\ old \in DOMAIN ps /\ Alive(ps, old) /\ ps[old].type = "internal" /\ ps \in Seq(Record)
  /\ keys \in Seq(Nat) /\ n \in Nat /\ h \in 0..n - 1 /\ n = Len(keys)
  /\ kids \in Seq(Nat) /\ Len(kids) = n + 1 /\ DOMAIN kids = 1..n + 1 /\ IsInjective(kids)
  /\ a \in Int /\ b \in Int /\ -1 <= a /\ Rising(keys, a, b)
  /\ s \in Nat /\ s \in Int /\ a < s /\ s < b /\ s = Fence(keys, a, b, h + 1)
  /\ Rising(qs[old].keys, a, s) /\ Rising(qs[new].keys, s, b)
  /\ \A j \in 0..h + 1 : Fence(qs[old].keys, a, s, j) = Fence(keys, a, b, j)
  /\ \A j \in 0..n - h : Fence(qs[new].keys, s, b, j) = Fence(keys, a, b, j + h + 1)
  /\ DOMAIN qs[old].children = 1..h + 1 /\ \A j \in 1..h + 1 : qs[old].children[j] = kids[j]
  /\ DOMAIN qs[new].children = 1..n - h /\ \A j \in 1..n - h : qs[new].children[j] = kids[j + h + 1]
  /\ Len(qs[old].children) = h + 1 /\ Len(qs[new].children) = n - h

LEMMA PartedIs ==
  ASSUME NEW ps, NEW level, Descends(ps, level),
         NEW lo, NEW hi, NEW tree, NEW top, NEW gaps, Order(ps, lo, hi, tree, top, gaps),
         NEW qs, NEW old, NEW new, NEW n, NEW h, NodeDivides(ps, qs, old, new, n, h),
         NEW s, s = ps[old].keys[h + 1]
  PROVE  Parted(ps, qs, old, new, n, h, s, lo[old], hi[old], ps[old].keys, ps[old].children)
<1>a. PICK keys, kids, a, b, lower, upper, first, moved :
        /\ keys = ps[old].keys /\ kids = ps[old].children /\ a = lo[old] /\ b = hi[old]
        /\ lower = SubSeq(keys, 1, h) /\ upper = SubSeq(keys, h + 2, n)
        /\ first = SubSeq(kids, 1, h + 1) /\ moved = SubSeq(kids, h + 2, n + 1)
  OBVIOUS
<1>1. /\ Inner(ps, old) /\ n = Len(keys) /\ h \in 0..n - 1
      /\ new \in Nat /\ ~Alive(ps, new) /\ qs \in Seq(Record) /\ DOMAIN qs = DOMAIN ps \cup {new}
      /\ \A p \in DOMAIN qs \ {old, new} : p \in DOMAIN ps /\ Carries(ps[p], qs[p])
      /\ qs[old].keys = lower /\ qs[new].keys = upper /\ qs[old].children = first /\ qs[new].children = moved
      /\ qs[old].type = "internal" /\ qs[new].type = "internal"
      /\ qs[old].is_root = ps[old].is_root /\ ~qs[new].is_root
  BY <1>a DEF NodeDivides
<1>2. /\ old \in DOMAIN ps /\ Alive(ps, old) /\ ps[old].type = "internal" /\ ps \in Seq(Record)
      /\ keys \in Seq(Nat) /\ n \in Nat /\ kids \in Seq(Nat) /\ Len(kids) = n + 1 /\ DOMAIN kids = 1..n + 1 /\ IsInjective(kids)
  BY <1>1, <1>a, InnerIs DEF Descends
<1>3. /\ a \in Int /\ b \in Int /\ top \in Int /\ -1 <= a /\ a < b /\ b <= top /\ Rising(keys, a, b)
      /\ tree[old] \in Nat /\ old \in Nat
  <2>1. /\ lo[old] \in Int /\ hi[old] \in Int /\ top \in Int /\ lo[old] < hi[old] /\ hi[old] <= top /\ -1 <= lo[old]
        /\ NodeOrdered(ps[old], lo[old], hi[old], top) /\ tree[old] \in Nat /\ old \in Nat
    BY <1>2, IntervalIs
  <2> QED
    BY <1>2, <1>a, <2>1 DEF NodeOrdered
<1>4. FencesCut(keys, lower, upper, n, h, s, a, b)
  BY <1>1, <1>2, <1>3, <1>a, FencesCutIs
<1>b. /\ Rising(lower, a, s) /\ Rising(upper, s, b) /\ s \in Nat /\ a < s /\ s < b /\ s = Fence(keys, a, b, h + 1)
      /\ \A j \in 0..h + 1 : Fence(lower, a, s, j) = Fence(keys, a, b, j)
      /\ \A j \in 0..n - h : Fence(upper, s, b, j) = Fence(keys, a, b, j + h + 1)
  BY <1>4 DEF FencesCut
<1>c. s \in Int
  BY <1>b
<1>5. /\ Rising(lower, a, s) /\ Rising(upper, s, b) /\ s \in Nat /\ s \in Int /\ a < s /\ s < b /\ s = Fence(keys, a, b, h + 1)
      /\ \A j \in 0..h + 1 : Fence(lower, a, s, j) = Fence(keys, a, b, j)
      /\ \A j \in 0..n - h : Fence(upper, s, b, j) = Fence(keys, a, b, j + h + 1)
  BY <1>b, <1>c
<1>6. /\ Len(first) = h + 1 /\ Len(moved) = n - h
      /\ DOMAIN first = 1..h + 1 /\ \A j \in 1..h + 1 : first[j] = kids[j]
      /\ DOMAIN moved = 1..n - h /\ \A j \in 1..n - h : moved[j] = kids[j + h + 1]
  <2>1. 1 \in 1..Len(kids) + 1 /\ h + 1 \in (1 - 1)..Len(kids)
    BY <1>1, <1>2
  <2>2. h + 2 \in 1..Len(kids) + 1 /\ n + 1 \in ((h + 2) - 1)..Len(kids)
    BY <1>1, <1>2
  <2>3. Stretch(Nat, first, kids, 1, h + 1) /\ Stretch(Nat, moved, kids, h + 2, n + 1)
    BY <1>2, <1>a, <2>1, <2>2, SubSeqDistinct
  <2>4. (h + 1) - 1 + 1 = h + 1 /\ \A j \in 1..h + 1 : 1 + j - 1 = j
    BY <1>1, <1>2
  <2>5. (n + 1) - (h + 2) + 1 = n - h /\ \A j \in 1..n - h : (h + 2) + j - 1 = j + h + 1
    BY <1>1, <1>2
  <2>6. first \in Seq(Nat) /\ Len(first) = h + 1 /\ moved \in Seq(Nat) /\ Len(moved) = n - h
    BY <2>3, <2>4, <2>5 DEF Stretch
  <2>7. DOMAIN first = 1..h + 1 /\ DOMAIN moved = 1..n - h
    BY <2>6
  <2> QED
    BY <2>3, <2>4, <2>5, <2>6, <2>7 DEF Stretch
<1>7. Parted(ps, qs, old, new, n, h, s, a, b, keys, kids)
  BY <1>1, <1>2, <1>3, <1>5, <1>6 DEF Parted
<1> QED
  BY <1>7, <1>a

LEMMA NodeDivided ==
  ASSUME NEW ps, NEW level, Descends(ps, level),
         NEW lo, NEW hi, NEW tree, NEW top, NEW gaps, Order(ps, lo, hi, tree, top, gaps),
         NEW qs, NEW old, NEW new, NEW n, NEW h, NodeDivides(ps, qs, old, new, n, h),
         NEW s, s = ps[old].keys[h + 1],
         NEW lo2, NEW hi2, NEW tree2, DividedAt(lo, hi, tree, lo2, hi2, tree2, old, new, s),
         NEW gaps2, gaps2 = gaps \cup {old}
  PROVE  Order(qs, lo2, hi2, tree2, top, gaps2)
<1>a. PICK keys, kids, a, b : keys = ps[old].keys /\ kids = ps[old].children /\ a = lo[old] /\ b = hi[old]
  OBVIOUS
<1>1. /\ Inner(ps, old) /\ new \in Nat /\ ~Alive(ps, new) /\ qs \in Seq(Record) /\ DOMAIN qs = DOMAIN ps \cup {new}
      /\ \A p \in DOMAIN qs \ {old, new} : p \in DOMAIN ps /\ Carries(ps[p], qs[p])
      /\ qs[old].type = "internal" /\ qs[new].type = "internal" /\ n = Len(keys)
      /\ qs[old].is_root = ps[old].is_root /\ ~qs[new].is_root
  BY <1>a DEF NodeDivides
<1>b. Parted(ps, qs, old, new, n, h, s, a, b, keys, kids)
  BY <1>a, PartedIs
<1>2. /\ old \in DOMAIN ps /\ Alive(ps, old) /\ ps[old].type = "internal" /\ ps \in Seq(Record)
      /\ n \in Nat /\ h \in 0..n - 1
  BY <1>b DEF Parted
<1>3. a \in Int /\ b \in Int /\ top \in Int /\ -1 <= a /\ a < b /\ b <= top
  BY <1>2, <1>a, IntervalIs
<1>5. /\ Rising(qs[old].keys, a, s) /\ Rising(qs[new].keys, s, b) /\ s \in Nat /\ s \in Int /\ a < s /\ s < b
      /\ \A j \in 0..h + 1 : Fence(qs[old].keys, a, s, j) = Fence(keys, a, b, j)
      /\ \A j \in 0..n - h : Fence(qs[new].keys, s, b, j) = Fence(keys, a, b, j + h + 1)
  BY <1>b DEF Parted
<1>6. /\ DOMAIN qs[old].children = 1..h + 1 /\ \A j \in 1..h + 1 : qs[old].children[j] = kids[j]
      /\ DOMAIN qs[new].children = 1..n - h /\ \A j \in 1..n - h : qs[new].children[j] = kids[j + h + 1]
  BY <1>b DEF Parted
<1>7. DivisionKeeps(ps, qs, lo, hi, tree, top, gaps, lo2, hi2, tree2, gaps2, old, new, s)
  <2>1. s <= hi[old]
    BY <1>3, <1>5, <1>a
  <2> QED
    BY <1>1, <1>2, <1>5, <2>1, DivisionStays
<1>8. /\ lo2[old] = a /\ hi2[old] = s /\ tree2[old] = tree[old]
      /\ lo2[new] = s /\ hi2[new] = b /\ tree2[new] = tree[old]
      /\ \A p \in DOMAIN ps \ {old, new} : lo2[p] = lo[p] /\ hi2[p] = hi[p] /\ tree2[p] = tree[p]
  <2>1. \A p \in DOMAIN ps : p \in Nat
    BY <1>2
  <2>2. Division(lo, hi, tree, lo2, hi2, tree2, old, new, s)
    BY <1>7 DEF DivisionKeeps
  <2> QED
    BY <1>a, <2>1, <2>2 DEF Division
<1>9. \A p : IsLeaf(qs, p) <=> IsLeaf(ps, p)
  BY <1>1, <1>2 DEF IsLeaf, Carries, Alive
<1>10. LinksStay(ps, qs, lo, hi, tree, top, lo2, tree2, {old, new})
  <2>1. ASSUME NEW x, IsLeaf(ps, x) PROVE lo2[x] = lo[x] /\ tree2[x] = tree[x]
    BY <1>1, <1>2, <1>8, <2>1 DEF IsLeaf, Alive
  <2> QED
    BY <1>9, <2>1 DEF LinksStay, Order, Linked, IsLeaf
<1>11. ASSUME NEW k \in 1..n + 1
       PROVE  \E c, f2, f3 : /\ c = kids[k] /\ f2 = Fence(keys, a, b, k - 1) /\ f3 = Fence(keys, a, b, k)
                             /\ tree2[c] = tree[old] /\ Within(f2, f3, lo2[c], hi2[c], c \notin gaps2)
  <2>1. PICK c, f2, f3 : c = kids[k] /\ f2 = Fence(keys, a, b, k - 1) /\ f3 = Fence(keys, a, b, k)
    OBVIOUS
  <2>2. k \in 1..Len(ps[old].keys) + 1 /\ c = ps[old].children[k] /\ Inner(ps, old)
        /\ f2 = Fence(ps[old].keys, lo[old], hi[old], k - 1) /\ f3 = Fence(ps[old].keys, lo[old], hi[old], k)
    BY <1>1, <1>a, <2>1
  <2>3. /\ Alive(ps, c) /\ tree[c] = tree[old] /\ f2 <= lo[c] /\ hi[c] <= f3
        /\ c \notin gaps => lo[c] = f2 /\ hi[c] = f3
    BY <2>2, ChildFits
  <2>4. c # old
    <3>1. level[ps[old].children[k]] \in Nat /\ level[old] = level[ps[old].children[k]] + 1
      BY <2>2, ChildIsBelow
    <3>2. PICK v : v = level[c]
      OBVIOUS
    <3>3. v \in Nat /\ level[old] = v + 1
      BY <2>2, <3>1, <3>2
    <3> QED
      BY <3>2, <3>3
  <2>5. c # new /\ c \in DOMAIN ps
    BY <1>1, <2>3 DEF Alive
  <2>6. lo2[c] = lo[c] /\ hi2[c] = hi[c] /\ tree2[c] = tree[c]
    BY <1>8, <2>4, <2>5
  <2>7. Within(f2, f3, lo2[c], hi2[c], c \notin gaps2)
    BY <2>3, <2>6 DEF Within
  <2> QED
    BY <2>1, <2>3, <2>6, <2>7
<1>12. Settled(qs, lo2, hi2, tree2, top, gaps2, old)
  <2>1. NodeOrdered(qs[old], lo2[old], hi2[old], top)
    <3>1. -1 <= a /\ a < s /\ s <= top
      BY <1>3, <1>5
    <3> QED
      BY <1>1, <1>5, <1>8, <3>1 DEF NodeOrdered
  <2>2. ASSUME NEW j \in 1..h + 1 PROVE Fitted(qs, lo2, hi2, tree2, gaps2, old, j)
    <3>1. j \in 1..n + 1 /\ j - 1 \in 0..h + 1 /\ j \in 0..h + 1
      BY <1>1, <1>2
    <3>2. PICK c, f2, f3 : /\ c = kids[j] /\ f2 = Fence(keys, a, b, j - 1) /\ f3 = Fence(keys, a, b, j)
                           /\ tree2[c] = tree[old] /\ Within(f2, f3, lo2[c], hi2[c], c \notin gaps2)
      BY <1>11, <3>1
    <3>3. qs[old].children[j] = c /\ Fence(qs[old].keys, lo2[old], hi2[old], j - 1) = f2
          /\ Fence(qs[old].keys, lo2[old], hi2[old], j) = f3
      BY <1>1, <1>5, <1>6, <1>8, <3>1, <3>2
    <3> QED
      BY <1>8, <3>2, <3>3 DEF Fitted
  <2>3. ASSUME qs[old].is_root PROVE RootFits(lo2, hi2, tree2, top, gaps2, old)
    <3>1. RootFits(lo, hi, tree, top, gaps, old)
      BY <1>1, <1>2, <2>3 DEF Order
    <3> QED
      BY <1>8, <1>a, <3>1 DEF RootFits
  <2>4. \A j \in DOMAIN qs[old].children : Fitted(qs, lo2, hi2, tree2, gaps2, old, j)
    BY <1>1, <1>6, <2>2
  <2> QED
    BY <1>1, <2>1, <2>3, <2>4 DEF Settled, IsLeaf
<1>13. Settled(qs, lo2, hi2, tree2, top, gaps2, new)
  <2>1. NodeOrdered(qs[new], lo2[new], hi2[new], top)
    <3>1. -1 <= s /\ s < b /\ b <= top
      BY <1>3, <1>5
    <3> QED
      BY <1>1, <1>5, <1>8, <3>1 DEF NodeOrdered
  <2>2. ASSUME NEW j \in 1..n - h PROVE Fitted(qs, lo2, hi2, tree2, gaps2, new, j)
    <3>1. PICK k : k = j + h + 1
      OBVIOUS
    <3>a. h \in Nat /\ n \in Nat /\ j \in Nat /\ 1 <= j /\ j <= n - h /\ h <= n
      BY <1>1, <1>2
    <3>c. k \in Nat /\ k = j + h + 1
      BY <3>1, <3>a
    <3>b. k \in 1..n + 1 /\ k - 1 = (j - 1) + h + 1
      BY <3>a, <3>c
    <3>2. k \in 1..n + 1 /\ j - 1 \in 0..n - h /\ j \in 0..n - h /\ k - 1 = (j - 1) + h + 1
      BY <1>2, <3>a, <3>b
    <3>3. PICK c, f2, f3 : /\ c = kids[k] /\ f2 = Fence(keys, a, b, k - 1) /\ f3 = Fence(keys, a, b, k)
                           /\ tree2[c] = tree[old] /\ Within(f2, f3, lo2[c], hi2[c], c \notin gaps2)
      BY <1>11, <3>2
    <3>4. qs[new].children[j] = c /\ Fence(qs[new].keys, s, b, j - 1) = f2 /\ Fence(qs[new].keys, s, b, j) = f3
      BY <1>1, <1>5, <1>6, <3>1, <3>2, <3>3
    <3> QED
      BY <1>1, <1>8, <3>3, <3>4 DEF Fitted
  <2>4. \A j \in DOMAIN qs[new].children : Fitted(qs, lo2, hi2, tree2, gaps2, new, j)
    BY <1>1, <1>6, <2>2
  <2> QED
    BY <1>1, <2>1, <2>4 DEF Settled, IsLeaf
<1>14. InsideSettled(qs, lo2, hi2, tree2, top, gaps2, {old, new})
  BY <1>12, <1>13 DEF InsideSettled
<1>15. LeavesApart(qs, lo2, hi2, tree2, {old, new})
  BY <1>1 DEF LeavesApart, IsLeaf
<1> QED
  BY <1>7, <1>10, <1>14, <1>15, OrderUpdated DEF DivisionKeeps

\* The child that waits for its slot goes to the half that has the gap; the gap is
\* the last child of `old` only if it ends where `old` ends now.
BesideKept(qs, lo2, hi2, tree2, gaps2, old, new, h, s, destination, child, g) ==
  /\ Beside(qs, lo2, hi2, tree2, gaps2, destination, child, g)
  /\ destination \in {old, new} /\ g \in Kids(qs, destination)
  /\ destination = old /\ qs[old].children[h + 1] = g => hi2[g] = s

LEMMA BesideDivided ==
  ASSUME NEW ps, NEW level, Descends(ps, level),
         NEW lo, NEW hi, NEW tree, NEW top, NEW gaps, Order(ps, lo, hi, tree, top, gaps),
         NEW qs, NEW old, NEW new, NEW n, NEW h, NodeDivides(ps, qs, old, new, n, h),
         NEW s, s = ps[old].keys[h + 1],
         NEW lo2, NEW hi2, NEW tree2, DividedAt(lo, hi, tree, lo2, hi2, tree2, old, new, s),
         NEW gaps2, gaps2 = gaps \cup {old},
         NEW child, NEW g, Alive(ps, child), child # old, Beside(ps, lo, hi, tree, gaps, old, child, g),
         NEW k \in Nat, lo[child] < k, k <= hi[child],
         NEW destination, destination = IF k < s THEN old ELSE new
  PROVE  BesideKept(qs, lo2, hi2, tree2, gaps2, old, new, h, s, destination, child, g)
<1>a. PICK keys, kids, a, b : keys = ps[old].keys /\ kids = ps[old].children /\ a = lo[old] /\ b = hi[old]
  OBVIOUS
<1>b. Parted(ps, qs, old, new, n, h, s, a, b, keys, kids)
  BY <1>a, PartedIs
<1>1. /\ Inner(ps, old) /\ new \in Nat /\ ~Alive(ps, new) /\ n = Len(keys)
  BY <1>a DEF NodeDivides
<1>2. /\ old \in DOMAIN ps /\ Alive(ps, old) /\ ps \in Seq(Record) /\ keys \in Seq(Nat)
      /\ n \in Nat /\ h \in Nat /\ h <= n - 1 /\ Len(kids) = n + 1 /\ DOMAIN kids = 1..n + 1 /\ IsInjective(kids)
      /\ a \in Int /\ b \in Int /\ Rising(keys, a, b)
  BY <1>b DEF Parted
<1>3. /\ s \in Nat /\ s \in Int /\ a < s /\ s < b /\ s = Fence(keys, a, b, h + 1)
      /\ \A j \in 0..h + 1 : Fence(qs[old].keys, a, s, j) = Fence(keys, a, b, j)
      /\ \A j \in 0..n - h : Fence(qs[new].keys, s, b, j) = Fence(keys, a, b, j + h + 1)
  BY <1>b DEF Parted
<1>4. /\ DOMAIN qs[old].children = 1..h + 1 /\ \A j \in 1..h + 1 : qs[old].children[j] = kids[j]
      /\ DOMAIN qs[new].children = 1..n - h /\ \A j \in 1..n - h : qs[new].children[j] = kids[j + h + 1]
      /\ Len(qs[new].children) = n - h
  BY <1>b DEF Parted
<1>5. /\ tree[child] = tree[old] /\ g \in gaps /\ child \notin gaps /\ -1 < lo[child]
      /\ Before(ps, lo, hi, old, child, g) \/ After(ps, lo, hi, old, child, g)
  BY DEF Beside
<1>6. PICK i, u, v : /\ i \in 1..n + 1 /\ kids[i] = g /\ u = Fence(keys, a, b, i - 1) /\ v = Fence(keys, a, b, i)
                     /\ \/ u = lo[child] /\ hi[child] = lo[g] /\ v = hi[g]
                        \/ i = n + 1 /\ u = lo[g] /\ hi[g] = lo[child] /\ v = hi[child]
  <2>1. CASE Before(ps, lo, hi, old, child, g)
    <3>1. PICK i : Slot(ps, lo, hi, old, i, g, lo[child], hi[g]) /\ hi[child] = lo[g]
      BY <2>1 DEF Before
    <3> QED
      BY <1>2, <1>a, <3>1 DEF Slot
  <2>2. CASE After(ps, lo, hi, old, child, g)
    <3>1. Slot(ps, lo, hi, old, n + 1, g, lo[g], hi[child]) /\ hi[g] = lo[child]
      BY <1>2, <1>a, <2>2 DEF After
    <3> QED
      BY <1>2, <1>a, <3>1 DEF Slot
  <2> QED
    BY <1>5, <2>1, <2>2
<1>7. Alive(ps, g) /\ g # old /\ g # new /\ g \in DOMAIN ps /\ child # new /\ child \in DOMAIN ps
  <2>1. i \in 1..Len(ps[old].keys) + 1 /\ g = ps[old].children[i] /\ Inner(ps, old) /\ Descends(ps, level)
    BY <1>1, <1>6, <1>a
  <2>2. Alive(ps, ps[old].children[i]) /\ level[ps[old].children[i]] \in Nat /\ level[old] = level[ps[old].children[i]] + 1
    BY <2>1, ChildIsBelow
  <2>3. PICK w : w = level[g]
    OBVIOUS
  <2>4. w \in Nat /\ level[old] = w + 1
    BY <2>1, <2>2, <2>3
  <2> QED
    BY <1>1, <2>1, <2>2, <2>3, <2>4 DEF Alive
<1>8. /\ lo[child] \in Int /\ hi[child] \in Int /\ lo[child] < hi[child]
      /\ lo[g] \in Int /\ hi[g] \in Int /\ lo[g] < hi[g]
  BY <1>2, <1>7, IntervalIs
<1>9. /\ lo2[old] = a /\ hi2[old] = s /\ lo2[new] = s /\ hi2[new] = b
      /\ lo2[child] = lo[child] /\ hi2[child] = hi[child] /\ lo2[g] = lo[g] /\ hi2[g] = hi[g]
      /\ tree2[child] = tree[child] /\ tree2[old] = tree[old] /\ tree2[new] = tree[old]
  <2>1. Bounds(lo, hi, tree, top) /\ old \in Nat /\ child \in Nat /\ g \in Nat /\ old # new
    BY <1>1, <1>2, <1>7 DEF Order
  <2> QED
    BY <1>1, <1>7, <1>a, <2>1 DEF Bounds, DividedAt
<1>10. g \in gaps2 /\ child \notin gaps2
  BY <1>5
<1>11. PICK f : /\ \A j \in 0..n + 1 : f[j] = Fence(keys, a, b, j) /\ f[j] \in Int
                /\ \A j, l \in 0..n + 1 : j < l => f[j] < f[l]
  <2>1. PICK f : f = [j \in 0..n + 1 |-> Fence(keys, a, b, j)]
    OBVIOUS
  <2>2. Fences(keys, a, b, n)
    BY <1>1, <1>2, FenceIs
  <2>3. \A j \in 0..n + 1 : f[j] = Fence(keys, a, b, j) /\ f[j] \in Int
    BY <2>1, <2>2 DEF Fences
  <2>4. \A j, l \in 0..n + 1 : j < l => f[j] < f[l]
    BY <1>1, <1>2, <2>3 DEF Rising
  <2> QED
    BY <2>3, <2>4
<1>12. /\ i \in 0..n + 1 /\ i - 1 \in 0..n + 1 /\ h + 1 \in 0..n + 1 /\ h + 1 < n + 1
  BY <1>2, <1>6
<1>13. u = f[i - 1] /\ v = f[i] /\ s = f[h + 1] /\ u \in Int /\ v \in Int
  BY <1>3, <1>6, <1>11, <1>12
<1>14. CASE i <= h + 1
  <2>1. v <= s /\ i # n + 1
    <3>1. i = h + 1 \/ i < h + 1
      BY <1>2, <1>6, <1>14
    <3>2. v = s \/ v < s
      BY <1>11, <1>12, <1>13, <3>1
    <3>3. v <= s
      BY <1>3, <1>13, <3>2
    <3> QED
      BY <1>2, <1>6, <1>12, <1>14, <3>3
  <2>2. u = lo[child] /\ hi[child] = lo[g] /\ v = hi[g]
    BY <1>6, <2>1
  <2>3. k < s
    BY <1>3, <1>8, <1>13, <2>1, <2>2
  <2>4. destination = old
    BY <2>3
  <2>5. i \in 1..h + 1 /\ i - 1 \in 0..h + 1 /\ i \in 0..h + 1
    BY <1>2, <1>6, <1>14
  <2>6. Slot(qs, lo2, hi2, old, i, g, u, v)
    BY <1>3, <1>4, <1>6, <1>9, <2>5 DEF Slot
  <2>7. Before(qs, lo2, hi2, old, child, g)
    BY <1>9, <2>2, <2>6 DEF Before
  <2>8. Beside(qs, lo2, hi2, tree2, gaps2, old, child, g)
    BY <1>5, <1>9, <1>10, <2>7 DEF Beside
  <2>9. g \in Kids(qs, old)
    BY <1>4, <1>6, <2>5 DEF Kids, ToSet
  <2>10. ASSUME qs[old].children[h + 1] = g PROVE hi2[g] = s
    <3>1. h + 1 \in 1..h + 1 /\ h + 1 \in 1..n + 1
      BY <1>2
    <3>2. kids[h + 1] = kids[i]
      BY <1>4, <1>6, <2>10, <3>1
    <3>3. i = h + 1
      BY <1>2, <1>6, <3>1, <3>2 DEF IsInjective
    <3> QED
      BY <1>9, <1>13, <2>2, <3>3
  <2> QED
    BY <2>4, <2>8, <2>9, <2>10 DEF BesideKept
<1>15. CASE i > h + 1
  <2>1. s <= u
    <3>1. i - 1 = h + 1 \/ h + 1 < i - 1
      BY <1>2, <1>6, <1>15
    <3>2. s = u \/ s < u
      BY <1>11, <1>12, <1>13, <3>1
    <3> QED
      BY <1>3, <1>13, <3>2
  <2>2. s <= lo[child]
    BY <1>3, <1>6, <1>8, <1>13, <2>1
  <2>3. ~(k < s) /\ destination = new
    BY <1>3, <1>8, <2>2
  <2>4. PICK j : j = i - (h + 1)
    OBVIOUS
  <2>5. j \in 1..n - h /\ j \in 0..n - h /\ j - 1 \in 0..n - h /\ j + h + 1 = i /\ (j - 1) + h + 1 = i - 1
        /\ (i = n + 1 => j = n - h)
    <3>1. i \in Nat /\ i <= n + 1 /\ n \in Nat /\ h \in Nat
      BY <1>2, <1>6
    <3>2. j \in Nat /\ j = i - h - 1
      BY <1>15, <2>4, <3>1
    <3>3. 1 <= j /\ j <= n - h /\ j + h + 1 = i
      BY <1>15, <3>1, <3>2
    <3> QED
      BY <3>1, <3>2, <3>3
  <2>6. Slot(qs, lo2, hi2, new, j, g, u, v)
    <3>1. j \in DOMAIN qs[new].children /\ qs[new].children[j] = g
      BY <1>4, <1>6, <2>5
    <3>2. u = Fence(qs[new].keys, s, b, j - 1) /\ v = Fence(qs[new].keys, s, b, j)
      BY <1>3, <1>6, <2>5
    <3> QED
      BY <1>9, <3>1, <3>2 DEF Slot
  <2>7. Before(qs, lo2, hi2, new, child, g) \/ After(qs, lo2, hi2, new, child, g)
    <3>1. CASE u = lo[child] /\ hi[child] = lo[g] /\ v = hi[g]
      BY <1>9, <2>6, <3>1 DEF Before
    <3>2. CASE i = n + 1 /\ u = lo[g] /\ hi[g] = lo[child] /\ v = hi[child]
      BY <1>4, <1>9, <2>5, <2>6, <3>2 DEF After
    <3> QED
      BY <1>6, <3>1, <3>2
  <2>8. Beside(qs, lo2, hi2, tree2, gaps2, new, child, g)
    BY <1>5, <1>9, <1>10, <2>7 DEF Beside
  <2>9. g \in Kids(qs, new)
    BY <1>4, <1>6, <2>5 DEF Kids, ToSet
  <2>10. new # old
    BY <1>1, <1>2
  <2> QED
    BY <2>3, <2>8, <2>9, <2>10 DEF BesideKept
<1> QED
  BY <1>2, <1>6, <1>14, <1>15

LEMMA SplitInternalKeepsOrder ==
  ASSUME NEW level, NEW loose, NEW short, Sound(level, loose, short),
         NEW lo, NEW hi, NEW tree, NEW top, NEW gaps, Ordered(lo, hi, tree, top, gaps),
         SplitInternal
  PROVE  OrderKept(tree)
<1>a. PICK old, child, new, node, n, lower, upper, first, moved, destination, c, d :
        NodeSplits(level, loose, old, child, new, node, n, lower, upper, first, moved, destination, c, d)
  BY SplitInternalIs
<1>1. /\ old = Top.page /\ child = Top.child /\ node = pages[old] /\ n = Len(node.keys)
      /\ lower = SubSeq(node.keys, 1, n \div 2) /\ upper = SubSeq(node.keys, n \div 2 + 2, n)
      /\ first = SubSeq(node.children, 1, n \div 2 + 1) /\ moved = SubSeq(node.children, n \div 2 + 2, n + 1)
      /\ destination = IF MaxKey(pages, child) < MaxKey(pages', old) THEN old ELSE new
      /\ c = Call("internal_node_insert", destination, child, 0)
      /\ d = Call("attach_sibling", old, new, MaxKey(pages, old))
      /\ Pending("internal_node_insert") /\ stack' = <<c, d>>
      /\ Inner(pages, old) /\ old \in DOMAIN pages /\ n \in Nat /\ n >= 3
      /\ Alive(pages, child) /\ level[old] = level[child] + 1 /\ loose = {child}
  BY <1>a DEF NodeSplits
<1>2. /\ new \in Nat /\ ~Alive(pages, new) /\ old # new /\ child # new
      /\ pages' \in Seq(Record) /\ DOMAIN pages' = DOMAIN pages \cup {new}
      /\ \A p \in DOMAIN pages \ {old, new} : Carries(pages[p], pages'[p])
      /\ pages'[new].keys = upper /\ pages'[new].children = moved /\ pages'[new].type = "internal"
      /\ ~pages'[new].is_root
      /\ pages'[old].keys = lower /\ pages'[old].children = first /\ pages'[old].type = "internal"
      /\ pages'[old].is_root = node.is_root /\ pages'[old].parent = node.parent
  BY <1>a DEF NodeSplits, Reparented, Carries
<1>3. /\ pages \in Seq(Record) /\ Shape(pages, level, loose) /\ Descends(pages, level)
      /\ LeavesHoldKeys(pages) /\ Order(pages, lo, hi, tree, top, gaps)
  BY TreeTyped, HoldKeys DEF Ordered, Sound, Tree
<1>4. PICK h, s : h = n \div 2 /\ s = node.keys[h + 1]
  OBVIOUS
<1>5. h \in 0..n - 1 /\ h \in Nat
  <2>1. h \in 1..n - 2
    BY <1>1, <1>4, HalfOf
  <2> QED
    BY <1>1, <2>1
<1>6. NodeDivides(pages, pages', old, new, n, h)
  BY <1>1, <1>2, <1>4, <1>5 DEF NodeDivides
<1>7. PICK lo2, hi2, tree2, gaps2 : DividedAt(lo, hi, tree, lo2, hi2, tree2, old, new, s) /\ gaps2 = gaps \cup {old}
  BY DEF DividedAt
<1>8. Order(pages', lo2, hi2, tree2, top, gaps2)
  <2>1. PICK qs : qs = pages'
    OBVIOUS
  <2>2. s = pages[old].keys[h + 1] /\ NodeDivides(pages, qs, old, new, n, h)
    BY <1>1, <1>4, <1>6, <2>1
  <2>3. Order(qs, lo2, hi2, tree2, top, gaps2)
    BY <1>3, <1>7, <2>2, NodeDivided
  <2> QED
    BY <2>1, <2>3
<1>9. PICK g : gaps = {g} /\ Beside(pages, lo, hi, tree, gaps, old, child, g)
  <2>1. ASSUME NEW e, TwoCalls(Top, e, pages, max_keys, level, loose, short) PROVE FALSE
    <3>1. Top.child # e.child /\ loose = {Top.child, e.child}
      BY <2>1 DEF TwoCalls
    <3> QED
      BY <1>1, <3>1
  <2> QED
    BY <1>1, <2>1, PlaceMends
<1>10. /\ level[child] \in Nat /\ child # old /\ child \in DOMAIN pages /\ ~pages[child].is_root
  <2>1. level[child] \in Nat /\ child \in DOMAIN pages
    BY <1>1, <1>3, LevelTells DEF Alive
  <2>2. ~pages[child].is_root
    BY <1>1, <1>3 DEF Shape
  <2> QED
    BY <1>1, <2>1, <2>2
<1>11. PICK a, b : a = lo[old] /\ b = hi[old]
  OBVIOUS
<1>12. /\ Alive(pages, old) /\ ~IsLeaf(pages, old) /\ ~IsLeaf(pages, new) /\ old \in Nat
       /\ a \in Int /\ b \in Int /\ top \in Int /\ a < s /\ s < b /\ b <= top /\ s \in Nat
  <2>1. Alive(pages, old) /\ pages[old].type = "internal"
    BY <1>1 DEF Inner, Alive
  <2>2. PICK qs : qs = pages'
    OBVIOUS
  <2>3. Parted(pages, qs, old, new, n, h, s, lo[old], hi[old], pages[old].keys, pages[old].children)
    <3>1. s = pages[old].keys[h + 1] /\ NodeDivides(pages, qs, old, new, n, h)
      BY <1>1, <1>4, <1>6, <2>2
    <3> QED
      BY <1>3, <3>1, PartedIs
  <2>4. a \in Int /\ b \in Int /\ s \in Nat /\ a < s /\ s < b
    BY <1>11, <2>3 DEF Parted
  <2>5. b <= top /\ top \in Int /\ old \in Nat
    BY <1>3, <1>11, <2>1, IntervalIs
  <2> QED
    BY <1>2, <2>1, <2>4, <2>5 DEF IsLeaf, Alive
<1>13. /\ lo2[old] = a /\ hi2[old] = s /\ tree2[old] = tree[old]
       /\ lo2[new] = s /\ hi2[new] = b /\ tree2[new] = tree[old]
       /\ \A p \in DOMAIN pages \ {old, new} : lo2[p] = lo[p] /\ hi2[p] = hi[p] /\ tree2[p] = tree[p]
  <2>1. Bounds(lo, hi, tree, top) /\ \A p \in DOMAIN pages : p \in Nat
    BY <1>3 DEF Order
  <2> QED
    BY <1>2, <1>7, <1>11, <1>12, <2>1 DEF Bounds, DividedAt
<1>14. PICK k : k = MaxKey(pages, child)
  OBVIOUS
<1>15. k \in Nat /\ lo[child] < k /\ k <= hi[child]
  <2>1. MaxKey(pages, child) \in Nat /\ lo[child] < MaxKey(pages, child) /\ MaxKey(pages, child) <= hi[child]
    BY <1>1, <1>3, <1>10, MaxKeyIn
  <2> QED
    BY <1>14, <2>1
<1>16. PICK half : half = IF k < s THEN old ELSE new
  OBVIOUS
<1>17. BesideKept(pages', lo2, hi2, tree2, gaps2, old, new, h, s, half, child, g)
  <2>1. PICK qs : qs = pages'
    OBVIOUS
  <2>2. s = pages[old].keys[h + 1] /\ NodeDivides(pages, qs, old, new, n, h) /\ Alive(pages, child) /\ child # old
    BY <1>1, <1>4, <1>6, <1>10, <2>1
  <2>3. BesideKept(qs, lo2, hi2, tree2, gaps2, old, new, h, s, half, child, g)
    BY <1>3, <1>7, <1>9, <1>15, <1>16, <2>2, BesideDivided
  <2> QED
    BY <2>1, <2>3
<1>18. PICK level2, loose2, short2 : Sound(level2, loose2, short2)'
  <2>a. TreeInv
    BY DEF TreeInv
  <2>1. TreeInv'
    BY <2>a, SplitInternalKeepsTree
  <2> QED
    BY <2>1 DEF TreeInv
<1>19. /\ Shape(pages', level2, loose2) /\ Descends(pages', level2) /\ LeavesHoldKeys(pages')
  <2>1. Tree(pages', free_head', max_keys', roots', level2, loose2, short2)
    BY <1>18 DEF Sound
  <2>2. Shape(pages', level2, loose2) /\ Descends(pages', level2) /\ Filled(pages', max_keys', short2)
    BY <2>1 DEF Tree, Shape
  <2>3. PICK qs, m : qs = pages' /\ m = max_keys'
    OBVIOUS
  <2>4. LeavesHoldKeys(qs)
    BY <1>2, <2>2, <2>3, HoldKeys
  <2> QED
    BY <2>2, <2>3, <2>4
<1>20. MaxKey(pages', old) = s
  <2>1. PICK qs : qs = pages'
    OBVIOUS
  <2>2. /\ Descends(qs, level2) /\ LeavesHoldKeys(qs) /\ Order(qs, lo2, hi2, tree2, top, gaps2)
        /\ Shape(qs, level2, loose2)
    BY <1>8, <1>19, <2>1
  <2>3. Alive(qs, old) /\ hi2[old] # top /\ Inner(qs, old) /\ Len(qs[old].keys) = h
    <3>1. Alive(qs, old) /\ Inner(qs, old)
      BY <1>1, <1>2, <2>1 DEF Alive, Inner
    <3>2. hi2[old] # top
      BY <1>12, <1>13
    <3>3. Len(qs[old].keys) = h
      <4>1. Parted(pages, qs, old, new, n, h, s, lo[old], hi[old], pages[old].keys, pages[old].children)
        <5>1. s = pages[old].keys[h + 1] /\ NodeDivides(pages, qs, old, new, n, h)
          BY <1>1, <1>4, <1>6, <2>1
        <5> QED
          BY <1>3, <5>1, PartedIs
      <4>2. Len(qs[old].children) = h + 1
        BY <4>1 DEF Parted
      <4>3. Len(qs[old].children) = Len(qs[old].keys) + 1 /\ Len(qs[old].keys) \in Nat
        BY <2>2, <3>1, InnerIs
      <4> QED
        BY <1>5, <4>2, <4>3
    <3> QED
      BY <3>1, <3>2, <3>3
  <2>4. ASSUME NEW p, NEW e, Inner(qs, p), level2[p] <= level2[old], hi2[p] = hi2[old],
               e = qs[p].children[Len(qs[p].keys) + 1]
        PROVE  e \notin gaps2 \/ hi2[e] = hi2[p]
    <3>1. PICK j : j = Len(qs[p].keys) + 1
      OBVIOUS
    <3>2. j \in 1..Len(qs[p].keys) + 1 /\ e = qs[p].children[j]
      BY <2>2, <2>4, <3>1, InnerIs
    <3>3. level2[e] \in Nat /\ level2[p] = level2[e] + 1 /\ e \in Kids(qs, p) /\ p \in DOMAIN qs
      BY <2>2, <2>4, <3>2, ChildIsBelow DEF Inner
    <3>4. e # old
      BY <2>4, <3>3
    <3>5. ASSUME e = g PROVE hi2[e] = hi2[p]
      <4>1. half \in {old, new} /\ g \in Kids(qs, half) /\ (half = old /\ qs[old].children[h + 1] = g => hi2[g] = s)
        BY <1>17, <2>1 DEF BesideKept
      <4>2. half \in DOMAIN qs
        BY <1>1, <1>2, <2>1, <4>1
      <4>3. p = half
        BY <2>2, <3>3, <3>5, <4>1, <4>2 DEF Shape
      <4>4. hi2[new] # hi2[old]
        BY <1>12, <1>13
      <4>5. p = old
        BY <2>4, <4>1, <4>3, <4>4
      <4> QED
        BY <1>13, <2>3, <2>4, <3>5, <4>1, <4>3, <4>5
    <3> QED
      BY <1>7, <1>9, <3>4, <3>5
  <2>5. MaxKey(qs, old) = hi2[old]
    BY <2>2, <2>3, <2>4, MaxKeyAt
  <2> QED
    BY <1>13, <2>1, <2>5
<1>21. destination = half
  BY <1>1, <1>14, <1>16, <1>20
<1>22. g \in DOMAIN pages /\ g # old /\ g # new
  <2>1. PICK i \in DOMAIN pages[old].children : pages[old].children[i] = g
    BY <1>9 DEF Beside, Before, After, Slot
  <2>2. i \in 1..Len(pages[old].keys) + 1 /\ Inner(pages, old) /\ Descends(pages, level)
    BY <1>1, <1>3, <2>1, InnerIs
  <2>3. /\ Alive(pages, pages[old].children[i]) /\ level[pages[old].children[i]] \in Nat
        /\ level[old] = level[pages[old].children[i]] + 1
    BY <2>2, ChildIsBelow
  <2>4. PICK w : w = level[g]
    OBVIOUS
  <2>5. w \in Nat /\ level[old] = w + 1 /\ Alive(pages, g)
    BY <2>1, <2>3, <2>4
  <2> QED
    BY <1>2, <2>4, <2>5 DEF Alive
<1>23. Halves(pages', lo2, hi2, tree2, top, gaps2, old, new, MaxKey(pages, old))
  <2>1. PICK key : key = MaxKey(pages, old)
    OBVIOUS
  <2>2. key \in Nat /\ a < key /\ key <= b
    <3>1. MaxKey(pages, old) \in Nat /\ lo[old] < MaxKey(pages, old) /\ MaxKey(pages, old) <= hi[old]
      BY <1>1, <1>3, <1>12, MaxKeyIn
    <3> QED
      BY <1>11, <2>1, <3>1
  <2>3. old \in gaps2 /\ new \notin gaps2 /\ old \notin gaps /\ old \notin loose
    BY <1>1, <1>2, <1>7, <1>9, <1>10, <1>22
  <2>4. ASSUME pages'[old].is_root PROVE hi2[new] = top
    <3>1. RootFits(lo, hi, tree, top, gaps, old)
      BY <1>1, <1>2, <1>3, <2>4 DEF Order
    <3> QED
      BY <1>11, <1>13, <2>3, <3>1 DEF RootFits
  <2>5. ASSUME ~pages'[old].is_root
        PROVE  \E i : Slot(pages', lo2, hi2, pages'[old].parent, i, old, lo2[old], hi2[new])
    <3>1. PICK parent : parent = pages[old].parent
      OBVIOUS
    <3>2. ~pages[old].is_root /\ pages'[old].parent = parent
      BY <1>1, <1>2, <2>5, <3>1
    <3>3. /\ Inner(pages, parent) /\ parent \in DOMAIN pages /\ parent # old
          /\ \E i : Slot(pages, lo, hi, parent, i, old, lo[old], hi[old])
      BY <1>3, <1>12, <2>3, <3>1, <3>2, SlotOf
    <3>4. parent # new
      BY <1>2, <3>3 DEF Inner, Alive
    <3>5. Carries(pages[parent], pages'[parent]) /\ lo2[parent] = lo[parent] /\ hi2[parent] = hi[parent]
      BY <1>2, <1>13, <3>3, <3>4
    <3>6. PICK i : Slot(pages, lo, hi, parent, i, old, a, b)
      BY <1>11, <3>3
    <3>7. Slot(pages', lo2, hi2, parent, i, old, a, b)
      BY <3>5, <3>6 DEF Slot, Carries
    <3> QED
      BY <1>13, <3>2, <3>7
  <2>6. key \in Int
    BY <2>2
  <2> QED
    BY <1>12, <1>13, <2>1, <2>2, <2>3, <2>4, <2>5, <2>6 DEF Halves
<1>24. Mended(stack', pages', lo2, hi2, tree2, top, gaps2)
  <2>1. c.page = half /\ c.child = child /\ d.page = old /\ d.child = new /\ d.key = MaxKey(pages, old)
    BY <1>1, <1>21 DEF Call
  <2>2. Beside(pages', lo2, hi2, tree2, gaps2, half, child, g) /\ gaps2 = {g, old}
    BY <1>7, <1>9, <1>17 DEF BesideKept
  <2>3. TwoMend(c, d, pages', lo2, hi2, tree2, top, gaps2)
    BY <1>23, <2>1, <2>2 DEF TwoMend
  <2> QED
    BY <1>1, <2>3 DEF Mended
<1>25. Ordered(lo2, hi2, tree2, top, gaps2)'
  BY <1>8, <1>24 DEF Ordered
<1>26. RowsKept(tree, tree2)
  <2>1. \A p : IsLeaf(pages', p) <=> IsLeaf(pages, p)
    BY <1>1, <1>2, <1>12 DEF IsLeaf, Carries
  <2>2. LeavesKept(pages, pages', tree, tree2, {})
    <3>1. ASSUME NEW p, IsLeaf(pages, p) PROVE pages'[p].keys = pages[p].keys /\ tree2[p] = tree[p]
      BY <1>2, <1>12, <1>13, <3>1 DEF IsLeaf, Carries
    <3> QED
      BY <2>1, <3>1 DEF LeavesKept
  <2>3. \A r, k1 : ~HasIn(pages', tree2, {}, r, k1) /\ ~HasIn(pages, tree, {}, r, k1)
    BY DEF HasIn
  <2> QED
    BY <2>2, <2>3, RowsOutside DEF RowsKept
<1> QED
  BY <1>25, <1>26 DEF OrderKept

=============================================================================
