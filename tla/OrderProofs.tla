------------------------------ MODULE OrderProofs ------------------------------
(***************************************************************************)
(* A delete keeps the order of the keys as well: its borrows, its merges,  *)
(* a root that collapses, and the separators it lowers.  So the keys stay  *)
(* in order, the separators exact and the chain of leaves whole, and the   *)
(* trees implement sets of keys.                                           *)
(***************************************************************************)
EXTENDS InsertionProofs

-----------------------------------------------------------------------------
\* Two siblings with a separator between them.

Pair(ps, lo, hi, tree, top, parent, i, x, y, n, keys, kids) ==
  /\ ps \in Seq(Record) /\ parent \in DOMAIN ps /\ x \in DOMAIN ps /\ y \in DOMAIN ps
  /\ parent \in Nat /\ x \in Nat /\ y \in Nat /\ parent # x /\ parent # y /\ x # y
  /\ Alive(ps, parent) /\ Alive(ps, x) /\ Alive(ps, y) /\ ps[parent].type = "internal"
  /\ ps[x].type = ps[y].type /\ ~ps[x].is_root /\ ~ps[y].is_root
  /\ keys = ps[parent].keys /\ keys \in Seq(Nat) /\ n = Len(keys) /\ n \in Nat /\ i \in 1..n
  /\ kids = ps[parent].children /\ kids \in Seq(Nat) /\ DOMAIN kids = 1..n + 1 /\ Len(kids) = n + 1
  /\ IsInjective(kids) /\ kids[i] = x /\ kids[i + 1] = y /\ x \in Kids(ps, parent) /\ y \in Kids(ps, parent)
  /\ tree[x] = tree[parent] /\ tree[y] = tree[parent]
  /\ lo[x] \in Int /\ hi[x] \in Int /\ lo[y] \in Int /\ hi[y] \in Int
  /\ lo[parent] \in Int /\ hi[parent] \in Int /\ top \in Int
  /\ -1 <= lo[x] /\ lo[x] < hi[x] /\ lo[y] < hi[y] /\ hi[y] <= top
  /\ Rising(keys, lo[parent], hi[parent])
  /\ lo[x] = Fence(keys, lo[parent], hi[parent], i - 1) /\ hi[y] = Fence(keys, lo[parent], hi[parent], i + 1)
  /\ hi[x] = Fence(keys, lo[parent], hi[parent], i) /\ lo[y] = hi[x] /\ hi[x] = keys[i]

LEMMA PairFits ==
  ASSUME NEW ps, NEW level, Descends(ps, level),
         NEW lo, NEW hi, NEW tree, NEW top, Order(ps, lo, hi, tree, top, {}),
         NEW parent, Inner(ps, parent), NEW i \in 1..Len(ps[parent].keys), NEW x, NEW y,
         x = ps[parent].children[i], y = ps[parent].children[i + 1]
  PROVE  Pair(ps, lo, hi, tree, top, parent, i, x, y, Len(ps[parent].keys), ps[parent].keys, ps[parent].children)
<1>1. PICK n, keys, kids : n = Len(ps[parent].keys) /\ keys = ps[parent].keys /\ kids = ps[parent].children
  OBVIOUS
<1>2. PICK j, g : j = i + 1 /\ g = i - 1
  OBVIOUS
<1>3. /\ parent \in DOMAIN ps /\ Alive(ps, parent) /\ ps[parent].type = "internal"
      /\ keys \in Seq(Nat) /\ n \in Nat /\ kids \in Seq(Nat) /\ DOMAIN kids = 1..n + 1 /\ Len(kids) = n + 1
      /\ IsInjective(kids) /\ ps \in Seq(Record)
  <2>1. /\ parent \in DOMAIN ps /\ Alive(ps, parent) /\ ps[parent].type = "internal"
        /\ ps[parent].keys \in Seq(Nat) /\ Len(ps[parent].keys) \in Nat
        /\ ps[parent].children \in Seq(Nat) /\ DOMAIN ps[parent].children = 1..Len(ps[parent].keys) + 1
        /\ Len(ps[parent].children) = Len(ps[parent].keys) + 1 /\ IsInjective(ps[parent].children)
    BY InnerIs
  <2> QED
    BY <1>1, <2>1 DEF Descends
<1>4. i \in 1..n + 1 /\ j \in 1..n + 1 /\ i # j /\ i \in Nat /\ 1 <= i /\ i <= n /\ j - 1 = i /\ i - 1 = g
  <2>1. n \in Nat /\ i \in 1..n /\ j = i + 1 /\ g = i - 1
    BY <1>1, <1>2, <1>3
  <2> QED
    BY ONLY <2>1
<1>5. PICK f : f = [l \in 0..n + 1 |-> Fence(keys, lo[parent], hi[parent], l)]
  OBVIOUS
<1>6. /\ f[g] = Fence(ps[parent].keys, lo[parent], hi[parent], i - 1)
      /\ f[i] = Fence(ps[parent].keys, lo[parent], hi[parent], i)
      /\ f[i] = Fence(ps[parent].keys, lo[parent], hi[parent], j - 1)
      /\ f[j] = Fence(ps[parent].keys, lo[parent], hi[parent], j)
  <2>1. g \in 0..n + 1 /\ i \in 0..n + 1 /\ j \in 0..n + 1
    BY <1>2, <1>4, <1>3
  <2> QED
    BY <1>1, <1>4, <1>5, <2>1
<1>7. /\ Alive(ps, x) /\ x \in Kids(ps, parent) /\ tree[x] = tree[parent] /\ lo[x] = f[g] /\ hi[x] = f[i]
  <2>1. i \in 1..n + 1
    BY <1>4
  <2>2. PICK q : q = i
    OBVIOUS
  <2>3. q \in 1..Len(ps[parent].keys) + 1 /\ x = ps[parent].children[q] /\ Inner(ps, parent) /\ Descends(ps, level)
    BY <1>1, <2>1, <2>2
  <2>4. /\ f[g] = Fence(ps[parent].keys, lo[parent], hi[parent], q - 1)
        /\ f[q] = Fence(ps[parent].keys, lo[parent], hi[parent], q)
    BY <1>6, <2>2
  <2>5. Alive(ps, x) /\ x \in Kids(ps, parent) /\ tree[x] = tree[parent] /\ lo[x] = f[g] /\ hi[x] = f[q]
    BY <2>3, <2>4, ChildFits
  <2> QED
    BY <2>2, <2>5
<1>8. /\ Alive(ps, y) /\ y \in Kids(ps, parent) /\ tree[y] = tree[parent] /\ lo[y] = f[i] /\ hi[y] = f[j]
  <2>1. j \in 1..Len(ps[parent].keys) + 1 /\ y = ps[parent].children[j] /\ Inner(ps, parent) /\ Descends(ps, level)
    BY <1>1, <1>2, <1>4
  <2> QED
    BY <1>6, <2>1, ChildFits
<1>9. /\ ~ps[x].is_root /\ level[x] \in Nat /\ level[parent] = level[x] + 1
      /\ ~ps[y].is_root /\ level[y] \in Nat /\ level[parent] = level[y] + 1
  BY <1>7, <1>8, <1>3, LevelTells DEF Descends
<1>10. parent # x /\ parent # y /\ level[x] = level[y]
  <2>1. PICK u, v, w : u = level[parent] /\ v = level[x] /\ w = level[y]
    OBVIOUS
  <2>2. u # v /\ u # w /\ v = w
    BY <1>9, <2>1
  <2> QED
    BY <2>1, <2>2
<1>11. ps[x].type = ps[y].type
  <2>1. /\ ps[x].type = "leaf" <=> ps[y].type = "leaf"
        /\ Inner(ps, x) <=> Inner(ps, y)
    BY <1>7, <1>8, <1>10, LevelTells
  <2>2. /\ x \in DOMAIN ps /\ y \in DOMAIN ps /\ ps[x].type # "free" /\ ps[y].type # "free"
    BY <1>7, <1>8 DEF Alive
  <2> QED
    BY <1>3, <2>1, <2>2, PageIs DEF Inner
<1>12. /\ lo[x] \in Int /\ hi[x] \in Int /\ lo[y] \in Int /\ hi[y] \in Int /\ top \in Int
       /\ lo[parent] \in Int /\ hi[parent] \in Int /\ parent \in Nat /\ x \in Nat /\ y \in Nat
       /\ -1 <= lo[x] /\ lo[x] < hi[x] /\ lo[y] < hi[y] /\ hi[y] <= top
       /\ x \in DOMAIN ps /\ y \in DOMAIN ps
  BY <1>3, <1>7, <1>8, IntervalIs
<1>13. Rising(keys, lo[parent], hi[parent])
  <2>1. NodeOrdered(ps[parent], lo[parent], hi[parent], top)
    BY <1>3 DEF Order
  <2> QED
    BY <1>1, <1>3, <2>1 DEF NodeOrdered
<1>14. x # y
  BY <1>1, <1>2, <1>3, <1>4 DEF IsInjective
<1>15. f[i] = keys[i]
  <2>1. i # 0 /\ i <= Len(keys)
    BY <1>1, <1>4
  <2> QED
    BY <1>1, <1>6, <2>1 DEF Fence
<1>16. Pair(ps, lo, hi, tree, top, parent, i, x, y, n, keys, kids)
  <2>1. /\ lo[x] = Fence(keys, lo[parent], hi[parent], i - 1) /\ hi[y] = Fence(keys, lo[parent], hi[parent], i + 1)
        /\ hi[x] = Fence(keys, lo[parent], hi[parent], i) /\ lo[y] = hi[x] /\ hi[x] = keys[i]
    BY <1>1, <1>2, <1>6, <1>7, <1>8, <1>15
  <2>2. kids[i] = x /\ kids[i + 1] = y /\ i \in 1..n /\ n = Len(keys)
    BY <1>1
  <2>3. kids = ps[parent].children /\ keys = ps[parent].keys
    BY <1>1
  <2> QED
    BY <1>3, <1>7, <1>8, <1>9, <1>10, <1>11, <1>12, <1>13, <1>14, <2>1, <2>2, <2>3 DEF Pair
<1> QED
  BY <1>1, <1>16

\* Sibling leaves follow each other in the chain, with no leaf between.
PairOfLeaves(ps, lo, hi, tree, top, x, y) ==
  /\ ps[x].next = y /\ hi[x] # top
  /\ \A l : IsLeaf(ps, l) /\ l # x /\ hi[l] # top => ps[l].next # y
  /\ \A m : IsLeaf(ps, m) /\ m # x /\ m # y /\ tree[m] = tree[x] => hi[m] <= lo[x] \/ hi[y] <= lo[m]

LEMMA LeavesFollow ==
  ASSUME NEW ps, NEW lo, NEW hi, NEW tree, NEW top, Order(ps, lo, hi, tree, top, {}),
         NEW parent, NEW i, NEW x, NEW y, NEW n, NEW keys, NEW kids,
         Pair(ps, lo, hi, tree, top, parent, i, x, y, n, keys, kids), IsLeaf(ps, x)
  PROVE  PairOfLeaves(ps, lo, hi, tree, top, x, y)
<1>1. /\ ps \in Seq(Record) /\ x \in DOMAIN ps /\ y \in DOMAIN ps /\ x # y /\ IsLeaf(ps, y) /\ tree[x] = tree[y]
      /\ lo[x] \in Int /\ hi[x] \in Int /\ lo[y] \in Int /\ hi[y] \in Int /\ top \in Int
      /\ lo[x] < hi[x] /\ lo[y] < hi[y] /\ hi[y] <= top /\ lo[y] = hi[x]
  BY DEF Pair, IsLeaf
<1>2. hi[x] # top
  BY <1>1
<1>3. ps[x].next = y
  <2>1. PICK m : m = ps[x].next
    OBVIOUS
  <2>2. IsLeaf(ps, m) /\ tree[m] = tree[y] /\ lo[m] = lo[y]
    BY <1>1, <1>2, <2>1 DEF Order, Linked
  <2> QED
    BY <1>1, <2>1, <2>2, LeafByEnd
<1>4. ASSUME NEW l, IsLeaf(ps, l), l # x, hi[l] # top PROVE ps[l].next # y
  <2>1. SUFFICES ASSUME ps[l].next = y PROVE FALSE
    OBVIOUS
  <2>2. tree[y] = tree[l] /\ lo[y] = hi[l]
    BY <1>4, <2>1 DEF Order, Linked, IsLeaf
  <2>3. l = x
    BY <1>1, <1>4, <2>2, LeafByEnd
  <2> QED
    BY <1>4, <2>3
<1>5. ASSUME NEW m, IsLeaf(ps, m), m # x, m # y, tree[m] = tree[x] PROVE hi[m] <= lo[x] \/ hi[y] <= lo[m]
  <2>1. Apart(lo, hi, tree, x, m) /\ Apart(lo, hi, tree, y, m)
    BY <1>1, <1>5 DEF Order, IsLeaf
  <2>2. Alive(ps, m)
    BY <1>5 DEF IsLeaf, Alive
  <2>3. lo[m] \in Int /\ hi[m] \in Int /\ lo[m] < hi[m]
    BY <1>1, <2>2, IntervalIs
  <2> QED
    BY <1>1, <1>5, <2>1, <2>3 DEF Apart
<1> QED
  BY <1>2, <1>3, <1>4, <1>5 DEF PairOfLeaves

\* The separator of x and y is now k, and their intervals meet there.
BoundarySet(ps, qs, lo, hi, lo2, hi2, parent, i, x, y, k) ==
  /\ qs \in Seq(Record) /\ DOMAIN qs = DOMAIN ps
  /\ \A p \in DOMAIN ps \ {x, y, parent} : Carries(ps[p], qs[p])
  /\ \A p \in {x, y} : qs[p].type = ps[p].type /\ qs[p].is_root = ps[p].is_root /\ qs[p].next = ps[p].next
  /\ qs[parent].type = ps[parent].type /\ qs[parent].is_root = ps[parent].is_root
  /\ qs[parent].children = ps[parent].children /\ qs[parent].keys = [ps[parent].keys EXCEPT ![i] = k]
  /\ k \in Nat /\ lo[x] < k /\ k < hi[y]
  /\ lo2 = [lo EXCEPT ![y] = k] /\ hi2 = [hi EXCEPT ![x] = k]

\* What x and y have now is in order.
BothFit(qs, lo2, hi2, tree, top, x, y) ==
  \A p \in {x, y} : /\ NodeOrdered(qs[p], lo2[p], hi2[p], top)
                    /\ \A j \in DOMAIN qs[p].children : Fitted(qs, lo2, hi2, tree, {}, p, j)

\* The intervals before and after.
MeetAt(lo, hi, lo2, hi2, x, y, k) ==
  /\ \A p \in Nat : lo2[p] = (IF p = y THEN k ELSE lo[p]) /\ hi2[p] = (IF p = x THEN k ELSE hi[p])
  /\ k \in Nat /\ k \in Int /\ lo[x] < k /\ k < hi[y]

LEMMA ParentSettles ==
  ASSUME NEW ps, NEW lo, NEW hi, NEW tree, NEW top, Order(ps, lo, hi, tree, top, {}),
         NEW parent, NEW i, NEW x, NEW y, NEW n, NEW keys, NEW kids,
         Pair(ps, lo, hi, tree, top, parent, i, x, y, n, keys, kids),
         NEW qs, NEW lo2, NEW hi2, NEW k, BoundarySet(ps, qs, lo, hi, lo2, hi2, parent, i, x, y, k),
         MeetAt(lo, hi, lo2, hi2, x, y, k)
  PROVE  Settled(qs, lo2, hi2, tree, top, {}, parent)
<1>1. PICK ks, a, b : ks = qs[parent].keys /\ a = lo[parent] /\ b = hi[parent]
  OBVIOUS
<1>2. /\ parent \in DOMAIN ps /\ parent \in Nat /\ parent # x /\ parent # y /\ x # y
      /\ ps[parent].type = "internal" /\ Alive(ps, parent)
      /\ keys \in Seq(Nat) /\ n = Len(keys) /\ n \in Nat /\ i \in 1..n
      /\ kids \in Seq(Nat) /\ DOMAIN kids = 1..n + 1 /\ IsInjective(kids) /\ kids[i] = x /\ kids[i + 1] = y
      /\ kids = ps[parent].children /\ keys = ps[parent].keys
      /\ a \in Int /\ b \in Int /\ Rising(keys, a, b) /\ ps \in Seq(Record)
  BY <1>1 DEF Pair
<1>3. ks = [keys EXCEPT ![i] = k] /\ k \in Nat /\ qs[parent].children = kids /\ qs[parent].type = "internal"
      /\ qs[parent].is_root = ps[parent].is_root
  BY <1>1, <1>2 DEF BoundarySet
<1>4. KeySet(keys, ks, n, i, k, a, b)
  BY <1>2, <1>3, KeySetIs
<1>5. /\ lo2[parent] = a /\ hi2[parent] = b
      /\ lo2[x] = lo[x] /\ hi2[x] = k /\ lo2[y] = k /\ hi2[y] = hi[y]
      /\ lo[x] < k /\ k < hi[y]
  <2>1. x \in Nat /\ y \in Nat
    BY DEF Pair
  <2> QED
    BY <1>1, <1>2, <2>1 DEF MeetAt
<1>6. /\ lo[x] = Fence(keys, a, b, i - 1) /\ hi[y] = Fence(keys, a, b, i + 1) /\ tree[x] = tree[parent] /\ tree[y] = tree[parent]
      /\ lo[x] \in Int /\ hi[y] \in Int
  BY <1>1 DEF Pair
<1>7. NodeOrdered(qs[parent], lo2[parent], hi2[parent], top)
  <2>1. NodeOrdered(ps[parent], a, b, top)
    BY <1>1, <1>2 DEF Order
  <2>2. Rising(ks, a, b)
    BY <1>4, <1>5, <1>6 DEF KeySet
  <2> QED
    BY <1>1, <1>3, <1>5, <2>1, <2>2 DEF NodeOrdered
<1>8. ASSUME NEW j \in DOMAIN qs[parent].children PROVE Fitted(qs, lo2, hi2, tree, {}, parent, j)
  <2>1. PICK c : c = kids[j]
    OBVIOUS
  <2>2. PICK u, v : u = Fence(ks, a, b, j - 1) /\ v = Fence(ks, a, b, j)
    OBVIOUS
  <2>3. j \in 1..n + 1 /\ c \in Nat
    <3>1. j \in DOMAIN kids
      BY <1>3, <1>8
    <3>2. kids \in Seq(Nat)
      BY <1>2
    <3>3. \A l \in DOMAIN kids : kids[l] \in Nat
      BY ONLY <3>2
    <3> QED
      BY <1>2, <2>1, <3>1, <3>3
  <2>4. j - 1 \in 0..n + 1 /\ j \in 0..n + 1
    <3>1. n \in Nat /\ j \in 1..n + 1
      BY <1>2, <2>3
    <3> QED
      BY ONLY <3>1
  <2>5. /\ u = IF j - 1 = i THEN k ELSE Fence(keys, a, b, j - 1)
        /\ v = IF j = i THEN k ELSE Fence(keys, a, b, j)
    BY <1>4, <2>2, <2>4 DEF KeySet
  <2>6. Fitted(ps, lo, hi, tree, {}, parent, j)
    BY <1>2, <1>3, <2>3 DEF Order
  <2>7. /\ tree[c] = tree[parent]
        /\ lo[c] = Fence(keys, a, b, j - 1) /\ hi[c] = Fence(keys, a, b, j)
    BY <1>1, <1>2, <2>1, <2>6 DEF Fitted, Within
  <2>8. u \in Int /\ v \in Int /\ lo2[c] = u /\ hi2[c] = v
    <3>a. /\ lo[c] \in Int /\ hi[c] \in Int
          /\ lo2[c] = (IF c = y THEN k ELSE lo[c]) /\ hi2[c] = (IF c = x THEN k ELSE hi[c])
      BY <2>3 DEF MeetAt, Order, Bounds
    <3>b. (c = x => j = i) /\ (c = y => j = i + 1) /\ i \in 1..n + 1 /\ i + 1 \in 1..n + 1 /\ i # i + 1
      <4>0. n \in Nat /\ i \in 1..n
        BY <1>2
      <4>1. i \in 1..n + 1 /\ i + 1 \in 1..n + 1 /\ i # i + 1
        BY ONLY <4>0
      <4> QED
        BY <1>2, <2>1, <2>3, <4>1 DEF IsInjective
    <3>1. CASE j = i
      <4>1. c = x /\ j - 1 # i
        BY <1>2, <2>1, <3>1
      <4> QED
        BY <1>2, <1>3, <2>5, <2>7, <3>1, <3>a, <4>1
    <3>2. CASE j = i + 1
      <4>0. n \in Nat /\ i \in 1..n
        BY <1>2
      <4>2. j - 1 = i /\ j # i
        BY ONLY <4>0, <3>2
      <4>1. c = y /\ j - 1 = i /\ j # i
        BY <1>2, <2>1, <3>2, <4>2
      <4> QED
        BY <1>2, <1>3, <2>5, <2>7, <3>2, <3>a, <4>1
    <3>3. CASE j # i /\ j # i + 1
      <4>1. c # x /\ c # y /\ j - 1 # i
        BY <1>2, <2>3, <3>3, <3>b
      <4> QED
        BY <2>5, <2>7, <3>3, <3>a, <4>1
    <3> QED
      BY <3>1, <3>2, <3>3
  <2>9. tree[c] = tree[parent] /\ Within(u, v, lo2[c], hi2[c], c \notin {})
    BY <2>7, <2>8 DEF Within
  <2> QED
    BY <1>1, <1>3, <1>5, <2>1, <2>2, <2>9 DEF Fitted
<1>9. ASSUME qs[parent].is_root PROVE RootFits(lo2, hi2, tree, top, {}, parent)
  <2>1. RootFits(lo, hi, tree, top, {}, parent)
    BY <1>2, <1>3, <1>9 DEF Order
  <2> QED
    BY <1>1, <1>5, <2>1 DEF RootFits
<1>10. ~IsLeaf(qs, parent)
  BY <1>3 DEF IsLeaf
<1> QED
  BY <1>7, <1>8, <1>9, <1>10 DEF Settled

LEMMA BoundaryMoved ==
  ASSUME NEW ps, NEW level, Shape(ps, level, {}),
         NEW lo, NEW hi, NEW tree, NEW top, Order(ps, lo, hi, tree, top, {}),
         NEW parent, NEW i, NEW x, NEW y, NEW n, NEW keys, NEW kids,
         Pair(ps, lo, hi, tree, top, parent, i, x, y, n, keys, kids),
         NEW qs, NEW lo2, NEW hi2, NEW k, BoundarySet(ps, qs, lo, hi, lo2, hi2, parent, i, x, y, k),
         BothFit(qs, lo2, hi2, tree, top, x, y)
  PROVE  Order(qs, lo2, hi2, tree, top, {})
<1> DEFINE F == {x, y, parent}
<1>1. /\ ps \in Seq(Record) /\ x \in DOMAIN ps /\ y \in DOMAIN ps /\ parent \in DOMAIN ps
      /\ x \in Nat /\ y \in Nat /\ parent \in Nat /\ x # y /\ parent # x /\ parent # y
      /\ Alive(ps, x) /\ Alive(ps, y) /\ ~ps[x].is_root /\ ~ps[y].is_root /\ ps[x].type = ps[y].type
      /\ tree[x] = tree[parent] /\ tree[y] = tree[parent] /\ ps[parent].type = "internal"
      /\ lo[x] \in Int /\ hi[x] \in Int /\ lo[y] \in Int /\ hi[y] \in Int /\ top \in Int
      /\ lo[x] < hi[x] /\ lo[y] < hi[y] /\ hi[y] <= top /\ lo[y] = hi[x]
      /\ x \in Kids(ps, parent) /\ y \in Kids(ps, parent)
  BY DEF Pair
<1>2. /\ Bounds(lo, hi, tree, top) /\ Descends(ps, level)
      /\ DOMAIN qs = DOMAIN ps /\ qs \in Seq(Record)
      /\ \A p \in DOMAIN ps \ F : Carries(ps[p], qs[p])
      /\ \A p \in {x, y} : qs[p].type = ps[p].type /\ qs[p].is_root = ps[p].is_root /\ qs[p].next = ps[p].next
      /\ qs[parent].type = ps[parent].type
  BY DEF Order, BoundarySet, Shape
<1>3. MeetAt(lo, hi, lo2, hi2, x, y, k) /\ Bounds(lo2, hi2, tree, top)
  <2>1. lo \in [Nat -> Int] /\ hi \in [Nat -> Int] /\ tree \in [Nat -> Nat]
    BY <1>2 DEF Bounds
  <2>2. /\ lo2 = [lo EXCEPT ![y] = k] /\ hi2 = [hi EXCEPT ![x] = k] /\ k \in Nat /\ k \in Int
        /\ lo[x] < k /\ k < hi[y]
    BY DEF BoundarySet
  <2>3. \A p \in Nat : lo2[p] = (IF p = y THEN k ELSE lo[p]) /\ hi2[p] = (IF p = x THEN k ELSE hi[p])
    BY <2>1, <2>2
  <2>4. lo2 \in [Nat -> Int] /\ hi2 \in [Nat -> Int]
    BY <2>1, <2>2
  <2> QED
    BY <1>1, <2>1, <2>2, <2>3, <2>4 DEF MeetAt, Bounds
<1>4. /\ \A p \in Nat : lo2[p] = (IF p = y THEN k ELSE lo[p]) /\ hi2[p] = (IF p = x THEN k ELSE hi[p])
      /\ k \in Int /\ lo[x] < k /\ k < hi[y]
  BY <1>3 DEF MeetAt
<1>5. \A p \in DOMAIN ps : p \in Nat /\ lo[p] \in Int /\ hi[p] \in Int
  <2>1. \A p \in DOMAIN ps : p \in Nat
    BY <1>1
  <2> QED
    BY <1>2, <2>1 DEF Bounds
<1>6. OutsideSame(ps, qs, lo, hi, tree, lo2, hi2, tree, F)
  BY <1>2, <1>4, <1>5 DEF OutsideSame
<1>7. KidsStay(ps, qs, lo, hi, tree, {}, lo2, hi2, tree, {}, F)
  <2>1. ASSUME NEW p \in DOMAIN qs \ F, NEW c \in Kids(ps, p) PROVE KidStays(lo, hi, tree, {}, lo2, hi2, tree, {}, c)
    <3>1. p \in DOMAIN ps /\ p # parent
      BY <1>2
    <3>2. ps[c].parent = p /\ ps[x].parent = parent /\ ps[y].parent = parent /\ c \in DOMAIN ps
      BY <1>1, <3>1 DEF Shape, Descends, Alive
    <3>3. c # x /\ c # y /\ c \in Nat /\ lo[c] \in Int /\ hi[c] \in Int
      BY <1>5, <3>1, <3>2
    <3>4. lo2[c] = lo[c] /\ hi2[c] = hi[c]
      BY <1>4, <3>3
    <3> QED
      BY <3>3, <3>4 DEF KidStays
  <2> QED
    BY <2>1 DEF KidsStay
<1>8. RootsStay(qs, {}, {}, F)
  BY DEF RootsStay
<1>9. \A p : IsLeaf(qs, p) <=> IsLeaf(ps, p)
  BY <1>1, <1>2 DEF IsLeaf, Carries
<1>10. IsLeaf(ps, x) => PairOfLeaves(ps, lo, hi, tree, top, x, y)
  BY LeavesFollow
<1>11. IsLeaf(ps, x) <=> IsLeaf(ps, y)
  BY <1>1 DEF IsLeaf
<1>12. ASSUME NEW l, IsLeaf(ps, l), hi[l] # top, l # x
       PROVE  /\ IsLeaf(ps, ps[l].next) /\ tree[ps[l].next] = tree[l] /\ lo[ps[l].next] = hi[l]
              /\ IsLeaf(qs, ps[l].next) /\ lo2[ps[l].next] = lo[ps[l].next]
  <2>1. IsLeaf(ps, ps[l].next) /\ tree[ps[l].next] = tree[l] /\ lo[ps[l].next] = hi[l]
    BY <1>12 DEF Order, Linked, IsLeaf
  <2>2. ps[l].next # y
    <3>1. SUFFICES ASSUME ps[l].next = y PROVE FALSE
      OBVIOUS
    <3>2. IsLeaf(ps, x)
      BY <1>11, <2>1, <3>1
    <3> QED
      BY <1>10, <1>12, <3>1, <3>2 DEF PairOfLeaves
  <2>3. ps[l].next \in DOMAIN ps
    BY <2>1 DEF IsLeaf
  <2> QED
    BY <1>4, <1>5, <1>9, <2>1, <2>2, <2>3
<1>13. LinksStay(ps, qs, lo, hi, tree, top, lo2, tree, F)
  BY <1>12 DEF LinksStay
<1>14. InsideSettled(qs, lo2, hi2, tree, top, {}, F)
  <2>1. Settled(qs, lo2, hi2, tree, top, {}, parent)
    BY <1>3, ParentSettles
  <2>2. /\ lo2[x] = lo[x] /\ hi2[x] = k /\ lo2[y] = k /\ hi2[y] = hi[y]
    BY <1>1, <1>4
  <2>3. ASSUME IsLeaf(qs, x) PROVE Linked(qs, lo2, hi2, tree, top, x)
    <3>1. ps[x].next = y
      BY <1>9, <1>10, <2>3 DEF PairOfLeaves
    <3>2. hi2[x] # top
      BY <1>1, <1>4, <2>2
    <3>3. IsLeaf(qs, y) /\ qs[x].next = y
      BY <1>2, <1>9, <1>11, <2>3, <3>1
    <3> QED
      BY <1>1, <2>2, <3>2, <3>3 DEF Linked
  <2>4. ASSUME IsLeaf(qs, y) PROVE Linked(qs, lo2, hi2, tree, top, y)
    <3>1. IsLeaf(ps, y) /\ Linked(ps, lo, hi, tree, top, y)
      BY <1>1, <1>9, <2>4 DEF Order
    <3>2. qs[y].next = ps[y].next
      BY <1>2
    <3>3. CASE hi[y] = top
      BY <2>2, <3>1, <3>2, <3>3 DEF Linked
    <3>4. CASE hi[y] # top
      <4>1. /\ tree[ps[y].next] = tree[y] /\ lo[ps[y].next] = hi[y]
            /\ IsLeaf(qs, ps[y].next) /\ lo2[ps[y].next] = lo[ps[y].next]
        BY <1>1, <1>12, <3>1, <3>4
      <4> QED
        BY <2>2, <3>2, <3>4, <4>1 DEF Linked
    <3> QED
      BY <3>3, <3>4
  <2>5. /\ Settled(qs, lo2, hi2, tree, top, {}, x) /\ Settled(qs, lo2, hi2, tree, top, {}, y)
    BY <1>1, <1>2, <2>3, <2>4 DEF Settled, BothFit
  <2> QED
    BY <2>1, <2>5 DEF InsideSettled
<1>15. LeavesApart(qs, lo2, hi2, tree, F)
  <2>1. ASSUME NEW l \in F \cap DOMAIN qs, NEW m \in DOMAIN qs, IsLeaf(qs, l), IsLeaf(qs, m), l # m, tree[l] = tree[m]
        PROVE  hi2[l] <= lo2[m] \/ hi2[m] <= lo2[l]
    <3>1. l # parent /\ m # parent /\ IsLeaf(ps, l) /\ IsLeaf(ps, m) /\ m \in Nat /\ m \in DOMAIN ps
      BY <1>1, <1>2, <1>5, <1>9, <2>1 DEF IsLeaf
    <3>2. PairOfLeaves(ps, lo, hi, tree, top, x, y)
      BY <1>10, <1>11, <3>1
    <3>3. /\ lo2[x] = lo[x] /\ hi2[x] = k /\ lo2[y] = k /\ hi2[y] = hi[y]
      BY <1>1, <1>4
    <3>4. CASE m \in {x, y}
      BY <1>4, <2>1, <3>1, <3>3, <3>4
    <3>5. CASE m \notin {x, y}
      <4>1. hi[m] <= lo[x] \/ hi[y] <= lo[m]
        BY <1>1, <2>1, <3>1, <3>2, <3>5 DEF PairOfLeaves
      <4>2. lo2[m] = lo[m] /\ hi2[m] = hi[m] /\ lo[m] \in Int /\ hi[m] \in Int
        BY <1>4, <1>5, <3>1, <3>5
      <4>3. l = x \/ l = y
        BY <3>1
      <4> QED
        BY <1>1, <1>4, <3>3, <4>1, <4>2, <4>3
    <3> QED
      BY <3>4, <3>5
  <2> QED
    BY <2>1 DEF LeavesApart, Apart
<1> HIDE DEF F
<1> QED
  BY <1>2, <1>3, <1>6, <1>7, <1>8, <1>13, <1>14, <1>15, OrderUpdated

-----------------------------------------------------------------------------
\* A leaf takes a cell from its sibling: the cells of both are cut anew.
\* The cells of two leaves written, and a separator of a third page.
BorrowWrites(ps, qs, p, mine, q, rest, r, i, k) ==
  /\ qs \in Seq(Record) /\ DOMAIN qs = DOMAIN ps
  /\ \A o \in DOMAIN ps : Alike(ps[o], qs[o])
  /\ qs[p].keys = mine /\ qs[q].keys = rest /\ qs[r].keys = [ps[r].keys EXCEPT ![i] = k]
  /\ \A o \in DOMAIN ps \ {p, q, r} : qs[o] = ps[o]

LEMMA BorrowWritesIs ==
  ASSUME NEW ps \in Seq(Record), NEW p \in DOMAIN ps, NEW q \in DOMAIN ps, NEW r \in DOMAIN ps,
         p # q, p # r, q # r, NEW mine \in Seq(Nat), NEW rest \in Seq(Nat),
         NEW i \in 1..Len(ps[r].keys), NEW k \in Nat,
         NEW qs, qs = SetKey(SetKeys(SetKeys(ps, p, mine), q, rest), r, i, k)
  PROVE  BorrowWrites(ps, qs, p, mine, q, rest, r, i, k)
<1>1. PICK p1, p2 : p1 = SetKeys(ps, p, mine) /\ p2 = SetKeys(p1, q, rest)
  OBVIOUS
<1>2. Rekeyed(ps, p1, {p}) /\ p1[p].keys = mine /\ \A o \in DOMAIN ps \ {p} : p1[o] = ps[o]
  BY <1>1, WithKeys
<1>3. p1 \in Seq(Record) /\ DOMAIN p1 = DOMAIN ps /\ \A o \in DOMAIN ps : Alike(ps[o], p1[o])
  BY <1>2 DEF Rekeyed
<1>4. Rekeyed(p1, p2, {q}) /\ p2[q].keys = rest /\ \A o \in DOMAIN p1 \ {q} : p2[o] = p1[o]
  <2>1. q \in DOMAIN p1
    BY <1>3
  <2>2. p1 \in Seq(Record) /\ rest \in Seq(Nat)
    BY <1>3
  <2>3. /\ Rekeyed(p1, SetKeys(p1, q, rest), {q}) /\ SetKeys(p1, q, rest)[q].keys = rest
        /\ \A o \in DOMAIN p1 \ {q} : SetKeys(p1, q, rest)[o] = p1[o]
    BY ONLY <2>1, <2>2, WithKeys
  <2> QED
    BY ONLY <1>1, <2>3
<1>5. p2 \in Seq(Record) /\ DOMAIN p2 = DOMAIN ps /\ \A o \in DOMAIN ps : Alike(p1[o], p2[o])
  BY <1>3, <1>4 DEF Rekeyed
<1>6. p2[r] = ps[r] /\ p2[p] = p1[p] /\ \A o \in DOMAIN ps \ {p, q} : p2[o] = ps[o]
  BY <1>2, <1>3, <1>4
<1>7. KeyWritten(p2, qs, r, i, k)
  <2>1. r \in DOMAIN p2 /\ i \in 1..Len(p2[r].keys) /\ qs = SetKey(p2, r, i, k)
    BY <1>1, <1>5, <1>6
  <2> QED
    BY <1>5, <2>1, KeyWrittenIs
<1>8. /\ qs \in Seq(Record) /\ DOMAIN qs = DOMAIN ps /\ \A o \in DOMAIN ps : Alike(p2[o], qs[o])
      /\ qs[r].keys = [ps[r].keys EXCEPT ![i] = k] /\ \A o \in DOMAIN ps \ {r} : qs[o] = p2[o]
  BY <1>5, <1>6, <1>7 DEF KeyWritten
<1>9. \A o \in DOMAIN ps : Alike(ps[o], qs[o])
  BY <1>3, <1>5, <1>8 DEF Alike
<1>10. qs[p].keys = mine /\ qs[q].keys = rest
  BY <1>2, <1>4, <1>6, <1>8
<1>11. \A o \in DOMAIN ps \ {p, q, r} : qs[o] = ps[o]
  BY <1>6, <1>8
<1> QED
  BY <1>8, <1>9, <1>10, <1>11 DEF BorrowWrites

\* What the two leaves hold now.
LeavesCut(ps, qs, lo, hi, lo2, hi2, top, x, y, k) ==
  /\ NodeOrdered(qs[x], lo[x], k, top) /\ NodeOrdered(qs[y], k, hi[y], top)
  /\ k \in Nat /\ lo[x] < k /\ k < hi[y]
  /\ lo2 = [lo EXCEPT ![y] = k] /\ hi2 = [hi EXCEPT ![x] = k]
  /\ ToSet(qs[x].keys) \cup ToSet(qs[y].keys) = ToSet(ps[x].keys) \cup ToSet(ps[y].keys)

LEMMA LeavesCutIs ==
  ASSUME NEW ps, NEW level, Shape(ps, level, {}),
         NEW lo, NEW hi, NEW tree, NEW top, Order(ps, lo, hi, tree, top, {}),
         NEW parent, NEW i, NEW x, NEW y, NEW n, NEW keys, NEW kids,
         Pair(ps, lo, hi, tree, top, parent, i, x, y, n, keys, kids), IsLeaf(ps, x),
         NEW lower \in Seq(Nat), NEW upper \in Seq(Nat), EndToEnd(Nat, ps[x].keys \o ps[y].keys, lower, upper),
         Len(lower) # 0, Len(upper) # 0, NEW k, k = lower[Len(lower)],
         NEW qs, BorrowWrites(ps, qs, x, lower, y, upper, parent, i, k),
         NEW lo2, NEW hi2, lo2 = [lo EXCEPT ![y] = k], hi2 = [hi EXCEPT ![x] = k]
  PROVE  LeavesCut(ps, qs, lo, hi, lo2, hi2, top, x, y, k)
<1>1. PICK a, m, b, s, t, u, h : /\ a = lo[x] /\ m = hi[x] /\ b = hi[y] /\ s = ps[x].keys /\ t = ps[y].keys
                                 /\ u = s \o t /\ h = Len(lower)
  OBVIOUS
<1>2. /\ ps \in Seq(Record) /\ x \in DOMAIN ps /\ y \in DOMAIN ps /\ x # y /\ IsLeaf(ps, y)
      /\ a \in Int /\ m \in Int /\ b \in Int /\ top \in Int /\ a < m /\ m < b /\ lo[y] = m /\ Alive(ps, x) /\ Alive(ps, y)
      /\ -1 <= a /\ b <= top
  BY <1>1 DEF Pair, IsLeaf
<1>3. s \in Seq(Nat) /\ t \in Seq(Nat)
  BY <1>1, <1>2, PageIs
<1>4. LeafOrdered(s, a, m, top) /\ LeafOrdered(t, m, b, top)
  BY <1>1, <1>2 DEF Order, NodeOrdered, IsLeaf
<1>5. /\ EndToEnd(Nat, u, s, t) /\ LeafOrdered(u, a, b, top)
      /\ ToSet(u) = ToSet(s) \cup ToSet(t)
  <2>1. /\ s \in Seq(Nat) /\ t \in Seq(Nat) /\ a \in Int /\ m \in Int /\ b \in Int /\ a < m /\ m < b
        /\ LeafOrdered(s, a, m, top) /\ LeafOrdered(t, m, b, top) /\ u = s \o t
    BY <1>1, <1>2, <1>3, <1>4
  <2> QED
    BY ONLY <2>1, LeafJoined
<1>6. u \in Seq(Nat) /\ EndToEnd(Nat, u, lower, upper)
  BY <1>1, <1>5 DEF EndToEnd
<1>7. LeafCut(u, Len(u), a, b, top, h, k, lower, upper)
  BY <1>1, <1>2, <1>5, <1>6, LeafParted
<1>8. /\ k \in Nat /\ a < k /\ k < b /\ LeafOrdered(lower, a, k, top) /\ LeafOrdered(upper, k, b, top)
      /\ ToSet(u) = ToSet(lower) \cup ToSet(upper)
  BY <1>7 DEF LeafCut
<1>9. qs[x].keys = lower /\ qs[y].keys = upper /\ qs[x].type = "leaf" /\ qs[y].type = "leaf"
  BY <1>2 DEF BorrowWrites, Alike, IsLeaf
<1>10. NodeOrdered(qs[x], a, k, top) /\ NodeOrdered(qs[y], k, b, top)
  BY <1>2, <1>8, <1>9 DEF NodeOrdered
<1> QED
  BY <1>1, <1>5, <1>8, <1>9, <1>10 DEF LeavesCut

LEMMA LeafBorrowKeepsOrder ==
  ASSUME NEW level, NEW loose, NEW short, Sound(level, loose, short),
         NEW lo, NEW hi, NEW tree, NEW top, NEW gaps, Ordered(lo, hi, tree, top, gaps),
         Pending("leaf_node_rebalance"), NEW parent, parent = Parent, NEW i \in 1..Len(pages[parent].keys),
         NEW x, NEW y, x = pages[parent].children[i], y = pages[parent].children[i + 1], Top.page \in {x, y},
         NEW lower \in Seq(Nat), NEW upper \in Seq(Nat), EndToEnd(Nat, pages[x].keys \o pages[y].keys, lower, upper),
         Len(lower) # 0, Len(upper) # 0, NEW k, k = lower[Len(lower)],
         BorrowWrites(pages, pages', x, lower, y, upper, parent, i, k), Return
  PROVE  OrderKept(tree)
<1>1. /\ RepairCall(Top, pages, max_keys) /\ Top.fn = "leaf_node_rebalance" /\ loose = {} /\ stack' = <<>>
      /\ gaps = {} /\ Inner(pages, parent)
  BY RepairOnTop, RepairMends, SiblingsAre
<1>2. /\ pages \in Seq(Record) /\ Shape(pages, level, {}) /\ Descends(pages, level)
      /\ Order(pages, lo, hi, tree, top, {})
  BY <1>1, TreeTyped DEF Ordered, Sound, Tree, Shape
<1>3. PICK n, keys, kids : n = Len(pages[parent].keys) /\ keys = pages[parent].keys /\ kids = pages[parent].children
  OBVIOUS
<1>4. Pair(pages, lo, hi, tree, top, parent, i, x, y, n, keys, kids)
  BY <1>1, <1>2, <1>3, PairFits
<1>5. /\ x \in DOMAIN pages /\ y \in DOMAIN pages /\ parent \in DOMAIN pages /\ x # y /\ x \in Nat /\ y \in Nat
      /\ parent # x /\ parent # y /\ pages[x].type = pages[y].type /\ pages[parent].type = "internal" /\ tree[x] = tree[y]
      /\ lo[x] \in Int /\ hi[y] \in Int
  BY <1>4 DEF Pair
<1>6. IsLeaf(pages, x) /\ IsLeaf(pages, y)
  BY <1>1, <1>5 DEF RepairCall, IsLeaf
<1>7. PICK qs, lo2, hi2 : qs = pages' /\ lo2 = [lo EXCEPT ![y] = k] /\ hi2 = [hi EXCEPT ![x] = k]
  OBVIOUS
<1>8. BorrowWrites(pages, qs, x, lower, y, upper, parent, i, k)
  BY <1>7
<1>9. LeavesCut(pages, qs, lo, hi, lo2, hi2, top, x, y, k)
  BY <1>2, <1>4, <1>6, <1>7, <1>8, LeavesCutIs
<1>10. /\ NodeOrdered(qs[x], lo[x], k, top) /\ NodeOrdered(qs[y], k, hi[y], top)
       /\ k \in Nat /\ lo[x] < k /\ k < hi[y]
       /\ ToSet(qs[x].keys) \cup ToSet(qs[y].keys) = ToSet(pages[x].keys) \cup ToSet(pages[y].keys)
  BY <1>9 DEF LeavesCut
<1>11. /\ qs \in Seq(Record) /\ DOMAIN qs = DOMAIN pages
       /\ \A o \in DOMAIN pages : Alike(pages[o], qs[o])
       /\ qs[parent].keys = [keys EXCEPT ![i] = k]
       /\ \A o \in DOMAIN pages \ {x, y, parent} : qs[o] = pages[o]
  BY <1>3, <1>8 DEF BorrowWrites
<1>12. BoundarySet(pages, qs, lo, hi, lo2, hi2, parent, i, x, y, k)
  <2>1. \A p \in DOMAIN pages \ {x, y, parent} : Carries(pages[p], qs[p])
    BY <1>11 DEF Carries
  <2>2. \A p \in {x, y} : qs[p].type = pages[p].type /\ qs[p].is_root = pages[p].is_root /\ qs[p].next = pages[p].next
    BY <1>5, <1>11 DEF Alike
  <2>3. /\ qs[parent].type = pages[parent].type /\ qs[parent].is_root = pages[parent].is_root
        /\ qs[parent].children = pages[parent].children
    BY <1>5, <1>11 DEF Alike
  <2> QED
    BY <1>3, <1>7, <1>10, <1>11, <2>1, <2>2, <2>3 DEF BoundarySet
<1>13. BothFit(qs, lo2, hi2, tree, top, x, y)
  <2>1. pages[x].children = <<>> /\ pages[y].children = <<>>
    BY <1>2, <1>6 DEF Descends, ChildrenCounted, IsLeaf
  <2>2. qs[x].children = <<>> /\ qs[y].children = <<>>
    BY <1>5, <1>11, <2>1 DEF Alike
  <2>3. DOMAIN qs[x].children = {} /\ DOMAIN qs[y].children = {}
    BY <2>2
  <2>4. lo2[x] = lo[x] /\ hi2[x] = k /\ lo2[y] = k /\ hi2[y] = hi[y]
    <3>1. lo \in [Nat -> Int] /\ hi \in [Nat -> Int]
      BY <1>2 DEF Order, Bounds
    <3> QED
      BY <1>5, <1>7, <3>1
  <2> QED
    BY <1>10, <2>3, <2>4 DEF BothFit
<1>14. Order(qs, lo2, hi2, tree, top, {})
  BY <1>2, <1>4, <1>12, <1>13, BoundaryMoved
<1>15. Ordered(lo2, hi2, tree, top, {})'
  BY <1>1, <1>7, <1>14 DEF Ordered, Mended
<1>16. LeavesKept(pages, qs, tree, tree, {x, y})
  <2>1. ASSUME NEW p, p \notin {x, y}, IsLeaf(pages, p) \/ IsLeaf(qs, p)
        PROVE  IsLeaf(pages, p) /\ IsLeaf(qs, p) /\ qs[p].keys = pages[p].keys
    <3>1. p \in DOMAIN pages /\ qs[p].type = pages[p].type /\ p # parent
      BY <1>5, <1>11, <2>1 DEF IsLeaf, Alike
    <3>2. qs[p] = pages[p]
      BY <1>11, <2>1, <3>1
    <3> QED
      BY <1>11, <2>1, <3>1, <3>2 DEF IsLeaf
  <2> QED
    BY <2>1 DEF LeavesKept
<1>17. \A r, key : HasIn(qs, tree, {x, y}, r, key) <=> HasIn(pages, tree, {x, y}, r, key)
  <2>1. qs[x].type = "leaf" /\ qs[y].type = "leaf" /\ pages[x].type = "leaf" /\ pages[y].type = "leaf"
    BY <1>5, <1>6, <1>11 DEF Alike, IsLeaf
  <2>2. \A r, key : HasIn(qs, tree, {x, y}, r, key) <=> tree[x] = r /\ key \in ToSet(qs[x].keys) \cup ToSet(qs[y].keys)
    <3>1. x \in DOMAIN qs /\ y \in DOMAIN qs /\ tree[x] = tree[y]
      BY <1>5, <1>11
    <3> QED
      BY <2>1, <3>1 DEF HasIn
  <2>3. \A r, key : HasIn(pages, tree, {x, y}, r, key) <=> tree[x] = r /\ key \in ToSet(pages[x].keys) \cup ToSet(pages[y].keys)
    BY <1>5, <2>1 DEF HasIn
  <2> QED
    BY <1>10, <2>2, <2>3
<1>18. RowsKept(tree, tree)
  <2>1. \A r, key : Has(qs, tree, r, key) <=> Has(pages, tree, r, key)
    BY <1>16, <1>17, RowsOutside
  <2> QED
    BY <1>7, <2>1 DEF RowsKept
<1> QED
  BY <1>15, <1>18 DEF OrderKept

LEMMA LeafBorrowLeftKeepsOrder ==
  ASSUME NEW level, NEW loose, NEW short, Sound(level, loose, short),
         NEW lo, NEW hi, NEW tree, NEW top, NEW gaps, Ordered(lo, hi, tree, top, gaps),
         LeafBorrowLeft
  PROVE  OrderKept(tree)
<1>a. PICK page, parent, j : page = Top.page /\ parent = Parent /\ j = Position - 1
  OBVIOUS
<1>b. PICK other : other = Siblings[j]
  OBVIOUS
<1>c. PICK s, t, rest, mine : /\ s = pages[other].keys /\ t = pages[page].keys
                              /\ rest = Front(s) /\ mine = <<Last(s)>> \o t
  OBVIOUS
<1>2. /\ Pending("leaf_node_rebalance") /\ SpareLeft(LeafMinCells)
      /\ pages' = SetKey(SetKeys(SetKeys(pages, page, mine), other, rest), parent, j, Last(rest))
      /\ Return
  BY <1>a, <1>b, <1>c DEF LeafBorrowLeft, SetKey, SetKeys
<1>3. /\ Position \in 1..Len(Siblings) /\ DOMAIN Siblings = 1..Len(Siblings) /\ Siblings[Position] = page
      /\ Len(Siblings) = Len(pages[parent].keys) + 1 /\ Len(Siblings) \in Nat
      /\ Alive(pages, page) /\ Inner(pages, parent) /\ parent # page
  BY <1>2, <1>a, SiblingsAre
<1>4. j \in 1..Len(Siblings) /\ Len(s) > LeafMinCells /\ j + 1 = Position
  BY <1>2, <1>3, <1>a, <1>b, <1>c DEF SpareLeft, CanSpare
<1>5. Alive(pages, other) /\ other # page /\ other # parent
  BY <1>2, <1>3, <1>4, <1>a, <1>b, SiblingIs
<1>6. /\ s \in Seq(Nat) /\ t \in Seq(Nat) /\ Len(s) \in Nat /\ Len(t) \in Nat /\ pages \in Seq(Record)
      /\ page \in DOMAIN pages /\ other \in DOMAIN pages /\ parent \in DOMAIN pages
      /\ pages[parent].keys \in Seq(Nat) /\ Len(pages[parent].keys) \in Nat
  BY <1>3, <1>5, <1>c, PageIs, TreeTyped DEF Sound, Alive, Inner
<1>7. Len(s) >= 2
  BY <1>4, <1>6, LeafMinima
<1>8. /\ rest \in Seq(Nat) /\ Len(rest) = Len(s) - 1 /\ Len(rest) # 0
      /\ mine \in Seq(Nat) /\ Len(mine) = Len(t) + 1 /\ Len(mine) # 0
      /\ EndToEnd(Nat, s \o t, rest, mine)
  <2>1. s \in Seq(Nat) /\ t \in Seq(Nat) /\ Len(s) >= 2 /\ rest = Front(s) /\ mine = <<Last(s)>> \o t
    BY <1>6, <1>7, <1>c
  <2> QED
    BY ONLY <2>1, CellMovesRight
<1>9. PICK k : k = Last(rest)
  OBVIOUS
<1>10. k \in Nat /\ k = rest[Len(rest)]
  BY <1>8, <1>9, Ends
<1>11. j \in 1..Len(pages[parent].keys)
  <2>1. PICK n, z : n = Len(pages[parent].keys) /\ z = Len(Siblings)
    OBVIOUS
  <2>2. n \in Nat /\ z = n + 1 /\ Position \in 1..z /\ j = Position - 1 /\ j \in 1..z
    BY <1>3, <1>4, <1>6, <1>a, <2>1
  <2>3. j \in 1..n
    BY ONLY <2>2
  <2> QED
    BY <2>1, <2>3
<1>12. BorrowWrites(pages, pages', page, mine, other, rest, parent, j, k)
  <2>1. PICK qs : qs = pages'
    OBVIOUS
  <2>2. qs = SetKey(SetKeys(SetKeys(pages, page, mine), other, rest), parent, j, k)
    BY <1>2, <1>9, <2>1
  <2>3. BorrowWrites(pages, qs, page, mine, other, rest, parent, j, k)
    BY <1>3, <1>5, <1>6, <1>8, <1>10, <1>11, <2>2, BorrowWritesIs
  <2> QED
    BY <2>1, <2>3
<1>13. BorrowWrites(pages, pages', other, rest, page, mine, parent, j, k)
  BY <1>12 DEF BorrowWrites
<1>14. other = pages[parent].children[j] /\ page = pages[parent].children[j + 1]
  BY <1>3, <1>4, <1>a, <1>b DEF Siblings
<1>15. /\ Pending("leaf_node_rebalance") /\ parent = Parent /\ j \in 1..Len(pages[parent].keys)
       /\ other = pages[parent].children[j] /\ page = pages[parent].children[j + 1] /\ Top.page \in {other, page}
       /\ Len(rest) # 0 /\ Len(mine) # 0 /\ k = rest[Len(rest)]
  BY <1>2, <1>8, <1>10, <1>11, <1>14, <1>a
<1>16. rest \in Seq(Nat) /\ mine \in Seq(Nat) /\ EndToEnd(Nat, pages[other].keys \o pages[page].keys, rest, mine)
  BY <1>8, <1>c
<1> QED
  BY <1>2, <1>13, <1>15, <1>16, LeafBorrowKeepsOrder

LEMMA LeafBorrowRightKeepsOrder ==
  ASSUME NEW level, NEW loose, NEW short, Sound(level, loose, short),
         NEW lo, NEW hi, NEW tree, NEW top, NEW gaps, Ordered(lo, hi, tree, top, gaps),
         LeafBorrowRight
  PROVE  OrderKept(tree)
<1>a. PICK page, parent, i, j : page = Top.page /\ parent = Parent /\ i = Position /\ j = Position + 1
  OBVIOUS
<1>b. PICK other : other = Siblings[j]
  OBVIOUS
<1>c. PICK s, t, rest, mine, k : /\ s = pages[page].keys /\ t = pages[other].keys /\ k = Head(t)
                                 /\ rest = Tail(t) /\ mine = Append(s, k)
  OBVIOUS
<1>2. /\ Pending("leaf_node_rebalance") /\ SpareRight(LeafMinCells)
      /\ pages' = SetKey(SetKeys(SetKeys(pages, page, mine), other, rest), parent, i, k)
      /\ Return
  BY <1>a, <1>b, <1>c DEF LeafBorrowRight, SetKey, SetKeys
<1>3. /\ i \in 1..Len(Siblings) /\ DOMAIN Siblings = 1..Len(Siblings) /\ Siblings[i] = page
      /\ Len(Siblings) = Len(pages[parent].keys) + 1 /\ Len(Siblings) \in Nat
      /\ Alive(pages, page) /\ Inner(pages, parent) /\ parent # page
  BY <1>2, <1>a, SiblingsAre
<1>4. j \in 1..Len(Siblings) /\ Len(t) > LeafMinCells /\ j = i + 1
  BY <1>2, <1>3, <1>a, <1>b, <1>c DEF SpareRight, CanSpare
<1>5. Alive(pages, other) /\ other # page /\ other # parent
  BY <1>2, <1>3, <1>4, <1>a, <1>b, SiblingIs
<1>6. /\ s \in Seq(Nat) /\ t \in Seq(Nat) /\ Len(s) \in Nat /\ Len(t) \in Nat /\ pages \in Seq(Record)
      /\ page \in DOMAIN pages /\ other \in DOMAIN pages /\ parent \in DOMAIN pages
      /\ pages[parent].keys \in Seq(Nat) /\ Len(pages[parent].keys) \in Nat
  BY <1>3, <1>5, <1>c, PageIs, TreeTyped DEF Sound, Alive, Inner
<1>7. Len(t) >= 2
  BY <1>4, <1>6, LeafMinima
<1>8. /\ mine \in Seq(Nat) /\ Len(mine) = Len(s) + 1 /\ Len(mine) # 0 /\ mine[Len(s) + 1] = k
      /\ rest \in Seq(Nat) /\ Len(rest) = Len(t) - 1 /\ Len(rest) # 0
      /\ EndToEnd(Nat, s \o t, mine, rest)
  <2>1. s \in Seq(Nat) /\ t \in Seq(Nat) /\ Len(t) >= 2 /\ mine = Append(s, Head(t)) /\ rest = Tail(t)
    BY <1>6, <1>7, <1>c
  <2>2. mine[Len(s) + 1] = Head(t)
    BY ONLY <2>1, CellMovesLeft
  <2>3. /\ mine \in Seq(Nat) /\ Len(mine) = Len(s) + 1 /\ Len(mine) # 0
        /\ rest \in Seq(Nat) /\ Len(rest) = Len(t) - 1 /\ Len(rest) # 0
        /\ EndToEnd(Nat, s \o t, mine, rest)
    BY ONLY <2>1, CellMovesLeft
  <2> QED
    BY <1>c, <2>2, <2>3
<1>10. k \in Nat /\ k = mine[Len(mine)]
  BY <1>6, <1>7, <1>8, <1>c, Ends
<1>11. i \in 1..Len(pages[parent].keys)
  <2>1. PICK n, z : n = Len(pages[parent].keys) /\ z = Len(Siblings)
    OBVIOUS
  <2>2. n \in Nat /\ z = n + 1 /\ i \in 1..z /\ j = i + 1 /\ j \in 1..z
    BY <1>3, <1>4, <1>6, <2>1
  <2>3. i \in 1..n
    BY ONLY <2>2
  <2> QED
    BY <2>1, <2>3
<1>12. BorrowWrites(pages, pages', page, mine, other, rest, parent, i, k)
  <2>1. PICK qs : qs = pages'
    OBVIOUS
  <2>2. qs = SetKey(SetKeys(SetKeys(pages, page, mine), other, rest), parent, i, k)
    BY <1>2, <2>1
  <2>3. BorrowWrites(pages, qs, page, mine, other, rest, parent, i, k)
    BY <1>3, <1>5, <1>6, <1>8, <1>10, <1>11, <2>2, BorrowWritesIs
  <2> QED
    BY <2>1, <2>3
<1>14. page = pages[parent].children[i] /\ other = pages[parent].children[i + 1]
  BY <1>3, <1>4, <1>a, <1>b DEF Siblings
<1>15. /\ Pending("leaf_node_rebalance") /\ parent = Parent /\ i \in 1..Len(pages[parent].keys)
       /\ page = pages[parent].children[i] /\ other = pages[parent].children[i + 1] /\ Top.page \in {page, other}
       /\ Len(rest) # 0 /\ Len(mine) # 0 /\ k = mine[Len(mine)]
  BY <1>2, <1>8, <1>10, <1>11, <1>14, <1>a
<1>16. rest \in Seq(Nat) /\ mine \in Seq(Nat) /\ EndToEnd(Nat, pages[page].keys \o pages[other].keys, mine, rest)
  BY <1>8, <1>c
<1> QED
  BY <1>2, <1>12, <1>15, <1>16, LeafBorrowKeepsOrder

-----------------------------------------------------------------------------
\* A separator pulled down between two inner nodes' keys, and their children with them.
\* The children of a node are between its fences.
LEMMA InnerFenced ==
  ASSUME NEW ps, NEW level, Descends(ps, level),
         NEW lo, NEW hi, NEW tree, NEW top, Order(ps, lo, hi, tree, top, {}), NEW p, Inner(ps, p)
  PROVE  Fenced(lo, hi, tree, tree[p], ps[p].keys, ps[p].children, lo[p], hi[p])
<1>1. PICK n, u, v, a, b : n = Len(ps[p].keys) /\ u = ps[p].keys /\ v = ps[p].children /\ a = lo[p] /\ b = hi[p]
  OBVIOUS
<1>2. /\ p \in DOMAIN ps /\ Alive(ps, p) /\ ps[p].type = "internal" /\ u \in Seq(Nat) /\ n \in Nat
      /\ v \in Seq(Nat) /\ DOMAIN v = 1..n + 1 /\ Len(v) = n + 1
  BY <1>1, InnerIs
<1>3. Rising(u, a, b)
  <2>1. NodeOrdered(ps[p], lo[p], hi[p], top)
    BY <1>2 DEF Order
  <2> QED
    BY <1>1, <1>2, <2>1 DEF NodeOrdered
<1>4. ASSUME NEW j \in 1..n + 1
      PROVE  tree[v[j]] = tree[p] /\ lo[v[j]] = Fence(u, a, b, j - 1) /\ hi[v[j]] = Fence(u, a, b, j)
  <2>1. PICK c : c = v[j]
    OBVIOUS
  <2>2. Fitted(ps, lo, hi, tree, {}, p, j)
    BY <1>1, <1>2, <1>4 DEF Order
  <2> QED
    BY <1>1, <2>2 DEF Fitted, Within
<1> QED
  BY <1>1, <1>2, <1>3, <1>4 DEF Fenced

\* Two inner siblings whose keys and children have been cut anew, at k.
CutAt(lo, hi, tree, x, y, lower, cs, k, upper, ds) ==
  /\ Fenced(lo, hi, tree, tree[x], lower, cs, lo[x], k)
  /\ Fenced(lo, hi, tree, tree[x], upper, ds, k, hi[y])
  /\ k \in Nat /\ lo[x] < k /\ k < hi[y]

LEMMA InnersCut ==
  ASSUME NEW ps, NEW level, Descends(ps, level),
         NEW lo, NEW hi, NEW tree, NEW top, Order(ps, lo, hi, tree, top, {}),
         NEW parent, NEW i, NEW x, NEW y, NEW n, NEW keys, NEW kids,
         Pair(ps, lo, hi, tree, top, parent, i, x, y, n, keys, kids), Inner(ps, x),
         NEW u, NEW v, Around(u, ps[x].keys, keys[i], ps[y].keys), EndToEnd(Nat, v, ps[x].children, ps[y].children),
         NEW lower, NEW k, NEW upper, Around(u, lower, k, upper),
         NEW cs \in Seq(Nat), NEW ds \in Seq(Nat), EndToEnd(Nat, v, cs, ds), Len(cs) = Len(lower) + 1
  PROVE  CutAt(lo, hi, tree, x, y, lower, cs, k, upper, ds)
<1>1. PICK a, m, b, r : a = lo[x] /\ m = hi[x] /\ b = hi[y] /\ r = tree[x]
  OBVIOUS
<1>2. /\ a \in Int /\ b \in Int /\ m = keys[i] /\ lo[y] = m /\ tree[y] = r /\ Inner(ps, y)
  BY <1>1 DEF Pair, Inner
<1>3. Fenced(lo, hi, tree, r, ps[x].keys, ps[x].children, a, m)
  BY <1>1, InnerFenced
<1>4. Fenced(lo, hi, tree, r, ps[y].keys, ps[y].children, m, b)
  <2>1. Fenced(lo, hi, tree, tree[y], ps[y].keys, ps[y].children, lo[y], hi[y])
    BY <1>2, InnerFenced
  <2> QED
    BY <1>1, <1>2, <2>1
<1>5. Fenced(lo, hi, tree, r, u, v, a, b)
  <2>1. Around(u, ps[x].keys, m, ps[y].keys)
    BY <1>2
  <2>2. PICK s, es, t, fs : s = ps[x].keys /\ es = ps[x].children /\ t = ps[y].keys /\ fs = ps[y].children
    OBVIOUS
  <2>3. /\ Fenced(lo, hi, tree, r, s, es, a, m) /\ Fenced(lo, hi, tree, r, t, fs, m, b)
        /\ Around(u, s, m, t) /\ EndToEnd(Nat, v, es, fs)
    BY <1>3, <1>4, <2>1, <2>2
  <2> QED
    BY <1>2, <2>3, FencedJoin
<1>6. Fenced(lo, hi, tree, r, lower, cs, a, k) /\ Fenced(lo, hi, tree, r, upper, ds, k, b)
  BY <1>2, <1>5, FencedPart
<1>7. k \in Nat /\ k \in Int
  BY DEF Around
<1>8. a < k /\ k < b
  <2>1. lower \in Seq(Nat) /\ upper \in Seq(Nat) /\ Rising(lower, a, k) /\ Rising(upper, k, b)
    BY <1>6 DEF Fenced
  <2> QED
    BY <1>2, <1>7, <2>1, RisingSpan
<1> QED
  BY <1>1, <1>6, <1>7, <1>8 DEF CutAt

LEMMA InnersFit ==
  ASSUME NEW ps, NEW lo, NEW hi, NEW tree, NEW top, Order(ps, lo, hi, tree, top, {}),
         NEW parent, NEW i, NEW x, NEW y, NEW n, NEW keys, NEW kids,
         Pair(ps, lo, hi, tree, top, parent, i, x, y, n, keys, kids), Inner(ps, x),
         NEW qs, NEW lo2, NEW hi2, NEW k, BoundarySet(ps, qs, lo, hi, lo2, hi2, parent, i, x, y, k),
         CutAt(lo, hi, tree, x, y, qs[x].keys, qs[x].children, k, qs[y].keys, qs[y].children),
         \A c \in Kids(qs, x) \cup Kids(qs, y) : c \in Nat /\ c # x /\ c # y
  PROVE  BothFit(qs, lo2, hi2, tree, top, x, y)
<1>1. /\ x \in Nat /\ y \in Nat /\ x # y /\ tree[y] = tree[x] /\ Inner(ps, y) /\ top \in Int
      /\ lo[x] \in Int /\ hi[y] \in Int /\ -1 <= lo[x] /\ hi[y] <= top
  BY DEF Pair, Inner
<1>2. /\ k \in Nat /\ k \in Int /\ lo[x] < k /\ k < hi[y] /\ lo2 = [lo EXCEPT ![y] = k] /\ hi2 = [hi EXCEPT ![x] = k]
      /\ qs[x].type = "internal" /\ qs[y].type = "internal"
  BY <1>1 DEF BoundarySet, Inner
<1>3. lo \in [Nat -> Int] /\ hi \in [Nat -> Int]
  BY DEF Order, Bounds
<1>4. /\ lo2[x] = lo[x] /\ hi2[x] = k /\ lo2[y] = k /\ hi2[y] = hi[y]
      /\ \A c \in Kids(qs, x) \cup Kids(qs, y) : lo2[c] = lo[c] /\ hi2[c] = hi[c] /\ lo[c] \in Int /\ hi[c] \in Int
  BY <1>1, <1>2, <1>3
<1>5. ASSUME NEW p \in {x, y}, NEW a \in Int, NEW b \in Int, a = lo2[p], b = hi2[p], -1 <= a, a < b, b <= top,
             Fenced(lo, hi, tree, tree[x], qs[p].keys, qs[p].children, a, b)
      PROVE  /\ NodeOrdered(qs[p], lo2[p], hi2[p], top)
             /\ \A j \in DOMAIN qs[p].children : Fitted(qs, lo2, hi2, tree, {}, p, j)
  <2>1. NodeOrdered(qs[p], a, b, top)
    BY <1>2, <1>5 DEF NodeOrdered, Fenced
  <2>2. ASSUME NEW j \in DOMAIN qs[p].children PROVE Fitted(qs, lo2, hi2, tree, {}, p, j)
    <3>1. PICK c : c = qs[p].children[j]
      OBVIOUS
    <3>2. c \in Kids(qs, p)
      BY <3>1 DEF Kids, ToSet
    <3>3. lo2[c] = lo[c] /\ hi2[c] = hi[c] /\ lo[c] \in Int /\ hi[c] \in Int
      BY <1>4, <3>2
    <3>4. j \in 1..Len(qs[p].keys) + 1
      BY <1>5, <2>2 DEF Fenced
    <3>5. tree[c] = tree[x] /\ lo[c] = Fence(qs[p].keys, a, b, j - 1) /\ hi[c] = Fence(qs[p].keys, a, b, j)
      BY <1>5, <3>1, <3>4 DEF Fenced
    <3>6. tree[c] = tree[p]
      BY <1>1, <3>5
    <3>7. Within(Fence(qs[p].keys, a, b, j - 1), Fence(qs[p].keys, a, b, j), lo2[c], hi2[c], c \notin {})
      BY <3>3, <3>5 DEF Within
    <3> QED
      BY <1>5, <3>1, <3>6, <3>7 DEF Fitted
  <2> QED
    BY <1>5, <2>1, <2>2
<1>6. /\ Fenced(lo, hi, tree, tree[x], qs[x].keys, qs[x].children, lo2[x], hi2[x])
      /\ Fenced(lo, hi, tree, tree[x], qs[y].keys, qs[y].children, lo2[y], hi2[y])
  BY <1>4 DEF CutAt
<1>7. /\ NodeOrdered(qs[x], lo2[x], hi2[x], top) /\ \A j \in DOMAIN qs[x].children : Fitted(qs, lo2, hi2, tree, {}, x, j)
  <2>1. lo2[x] \in Int /\ hi2[x] \in Int /\ -1 <= lo2[x] /\ lo2[x] < hi2[x] /\ hi2[x] <= top
    BY <1>1, <1>2, <1>4
  <2> QED
    BY <1>5, <1>6, <2>1
<1>8. /\ NodeOrdered(qs[y], lo2[y], hi2[y], top) /\ \A j \in DOMAIN qs[y].children : Fitted(qs, lo2, hi2, tree, {}, y, j)
  <2>1. lo2[y] \in Int /\ hi2[y] \in Int /\ -1 <= lo2[y] /\ lo2[y] < hi2[y] /\ hi2[y] <= top
    BY <1>1, <1>2, <1>4
  <2> QED
    BY <1>5, <1>6, <2>1
<1> QED
  BY <1>7, <1>8 DEF BothFit

\* The node and its sibling share the same keys and children, otherwise divided.
SharedAnew(page, other, i, separator, up, x, y, u, v) ==
  /\ x = Siblings[i] /\ y = Siblings[i + 1] /\ {x, y} = {page, other}
  /\ Around(u, pages[x].keys, separator, pages[y].keys) /\ Around(u, pages'[x].keys, up, pages'[y].keys)
  /\ EndToEnd(Nat, v, pages[x].children, pages[y].children)
  /\ EndToEnd(Nat, v, pages'[x].children, pages'[y].children)

LEMMA ChildLentKeepsOrder ==
  ASSUME NEW level, NEW loose, NEW short, Sound(level, loose, short),
         NEW lo, NEW hi, NEW tree, NEW top, NEW gaps, Ordered(lo, hi, tree, top, gaps),
         NEW page, NEW other, NEW at, NEW i, NEW separator, NEW up, NEW moved, NEW mine, NEW first, NEW rest,
         NEW second, NEW taker, NEW above, NEW giver, NEW son,
         ChildLent(page, other, at, i, separator, up, moved, mine, first, rest, second, taker, above, giver, son),
         NEW x, NEW y, NEW u, NEW v, SharedAnew(page, other, i, separator, up, x, y, u, v)
  PROVE  OrderKept(tree)
<1>0. /\ x = Siblings[i] /\ y = Siblings[i + 1] /\ {x, y} = {page, other}
      /\ Around(u, pages[x].keys, separator, pages[y].keys) /\ Around(u, pages'[x].keys, up, pages'[y].keys)
      /\ EndToEnd(Nat, v, pages[x].children, pages[y].children)
      /\ EndToEnd(Nat, v, pages'[x].children, pages'[y].children)
  BY DEF SharedAnew
<1>1. PICK parent, qs, n, keys, kids :
        /\ parent = Parent /\ qs = pages'
        /\ n = Len(pages[parent].keys) /\ keys = pages[parent].keys /\ kids = pages[parent].children
  OBVIOUS
<1>2. /\ Pending("internal_node_rebalance") /\ page = Top.page
      /\ at \in 1..Len(Siblings) /\ other = Siblings[at] /\ other # page /\ moved \in Kids(pages, other)
      /\ i \in 1..Len(pages[parent].keys) /\ separator = pages[parent].keys[i] /\ up \in Nat
      /\ Taken(pages[page], taker, moved) /\ Relieved(pages[other], giver, moved)
      /\ Alike(pages[parent], above) /\ above = WithKeyAt(pages[parent], i, up) /\ Reparented(pages[moved], son, page)
      /\ FourStored(pages, qs, page, taker, parent, above, other, giver, moved, son) /\ Return
  BY <1>1 DEF ChildLent
<1>3. /\ RepairCall(Top, pages, max_keys) /\ Top.fn = "internal_node_rebalance" /\ loose = {} /\ stack' = <<>>
      /\ gaps = {} /\ Inner(pages, parent)
  BY <1>1, <1>2, RepairOnTop, RepairMends, SiblingsAre
<1>4. /\ pages \in Seq(Record) /\ Shape(pages, level, {}) /\ Descends(pages, level)
      /\ Order(pages, lo, hi, tree, top, {})
  BY <1>3, TreeTyped DEF Ordered, Sound, Tree, Shape
<1>5. x = kids[i] /\ y = kids[i + 1]
  BY <1>0, <1>1 DEF Siblings
<1>6. Pair(pages, lo, hi, tree, top, parent, i, x, y, n, keys, kids)
  BY <1>1, <1>2, <1>3, <1>4, <1>5, PairFits
<1>7. /\ page \in DOMAIN pages /\ other \in DOMAIN pages /\ parent \in DOMAIN pages /\ moved \in DOMAIN pages
      /\ moved # page /\ moved # other /\ moved # parent /\ other # parent /\ page # parent
      /\ Inner(pages, page) /\ Inner(pages, other)
  BY <1>1, <1>2, LenderIs
<1>8. /\ qs \in Seq(Record) /\ DOMAIN qs = DOMAIN pages
      /\ qs[page] = taker /\ qs[parent] = above /\ qs[other] = giver /\ qs[moved] = son
      /\ \A p \in DOMAIN pages \ {page, parent, other, moved} : qs[p] = pages[p]
  BY <1>2 DEF FourStored
<1>9. \A p \in DOMAIN pages \ {x, y, parent} : Carries(pages[p], qs[p])
  BY <1>0, <1>2, <1>8 DEF Carries, Reparented
<1>10. \A p \in {x, y} : qs[p].type = pages[p].type /\ qs[p].is_root = pages[p].is_root /\ qs[p].next = pages[p].next
  BY <1>0, <1>2, <1>8 DEF Taken, Relieved
<1>11. /\ qs[parent].type = pages[parent].type /\ qs[parent].is_root = pages[parent].is_root
       /\ qs[parent].children = pages[parent].children /\ qs[parent].keys = [pages[parent].keys EXCEPT ![i] = up]
  <2>1. pages[parent] \in Record
    BY <1>4, <1>7
  <2> QED
    BY <1>2, <1>8, <2>1 DEF Alike, WithKeyAt, Record
<1>12. Inner(pages, x) /\ x \in DOMAIN pages /\ y \in DOMAIN pages
  BY <1>0, <1>7
<1>13. CutAt(lo, hi, tree, x, y, qs[x].keys, qs[x].children, up, qs[y].keys, qs[y].children)
  <2>1. x \in DOMAIN qs /\ y \in DOMAIN qs
    BY <1>8, <1>12
  <2>2. qs[x].children \in Seq(Nat) /\ qs[y].children \in Seq(Nat)
    BY <1>8, <2>1, PageIs
  <2>3. Len(qs[x].children) = Len(qs[x].keys) + 1
    <3>1. qs[x].type = "internal" /\ ChildrenCounted(qs[x])
      BY <1>0, <1>2, <1>7, <1>8, <1>10, <1>12 DEF Taken, Relieved, Inner
    <3> QED
      BY <3>1 DEF ChildrenCounted
  <2>4. PICK lower, cs, upper, ds : /\ lower = qs[x].keys /\ cs = qs[x].children
                                    /\ upper = qs[y].keys /\ ds = qs[y].children
    OBVIOUS
  <2>5. /\ Around(u, pages[x].keys, keys[i], pages[y].keys) /\ Around(u, lower, up, upper)
        /\ EndToEnd(Nat, v, cs, ds) /\ cs \in Seq(Nat) /\ ds \in Seq(Nat) /\ Len(cs) = Len(lower) + 1
    BY <1>0, <1>1, <1>2, <2>2, <2>3, <2>4
  <2>6. CutAt(lo, hi, tree, x, y, lower, cs, up, upper, ds)
    <3>1. /\ Descends(pages, level) /\ Order(pages, lo, hi, tree, top, {})
          /\ Pair(pages, lo, hi, tree, top, parent, i, x, y, n, keys, kids) /\ Inner(pages, x)
          /\ Around(u, pages[x].keys, keys[i], pages[y].keys) /\ EndToEnd(Nat, v, pages[x].children, pages[y].children)
      BY <1>0, <1>4, <1>6, <1>12, <2>5
    <3> QED
      BY ONLY <2>5, <3>1, InnersCut
  <2> QED
    BY <2>4, <2>6
<1>14. PICK lo2, hi2 : lo2 = [lo EXCEPT ![y] = up] /\ hi2 = [hi EXCEPT ![x] = up]
  OBVIOUS
<1>15. BoundarySet(pages, qs, lo, hi, lo2, hi2, parent, i, x, y, up)
  <2>1. up \in Nat /\ lo[x] < up /\ up < hi[y]
    BY <1>13 DEF CutAt
  <2> QED
    BY <1>8, <1>9, <1>10, <1>11, <1>14, <2>1 DEF BoundarySet
<1>16. \A c \in Kids(qs, x) \cup Kids(qs, y) : c \in Nat /\ c # x /\ c # y
  <2>1. Kids(qs, page) = Kids(pages, page) \cup {moved} /\ Kids(qs, other) \subseteq Kids(pages, other)
    BY <1>2, <1>8 DEF Kids, Taken, Relieved
  <2>2. \A c \in Kids(pages, x) \cup Kids(pages, y) : c \in DOMAIN pages /\ pages[c].parent \in {x, y}
    BY <1>4, <1>12 DEF Shape, Descends, Alive
  <2>3. Kids(qs, x) \cup Kids(qs, y) \subseteq Kids(pages, x) \cup Kids(pages, y)
    BY <1>0, <1>2, <2>1
  <2>4. pages[x].parent = parent /\ pages[y].parent = parent /\ parent \notin {x, y}
    BY <1>4, <1>6 DEF Shape, Pair
  <2>5. \A c \in DOMAIN pages : c \in Nat
    BY <1>4
  <2> QED
    BY <2>2, <2>3, <2>4, <2>5
<1>17. BothFit(qs, lo2, hi2, tree, top, x, y)
  BY <1>4, <1>6, <1>12, <1>13, <1>15, <1>16, InnersFit
<1>18. Order(qs, lo2, hi2, tree, top, {})
  BY <1>4, <1>6, <1>15, <1>17, BoundaryMoved
<1>19. Ordered(lo2, hi2, tree, top, {})'
  BY <1>1, <1>3, <1>18 DEF Ordered, Mended
<1>20. LeavesKept(pages, qs, tree, tree, {})
  <2>1. ASSUME NEW p, IsLeaf(pages, p) \/ IsLeaf(qs, p)
        PROVE  IsLeaf(pages, p) /\ IsLeaf(qs, p) /\ qs[p].keys = pages[p].keys
    <3>1. p \in DOMAIN pages
      BY <1>8, <2>1 DEF IsLeaf
    <3>2. pages[x].type = "internal" /\ pages[y].type = "internal" /\ pages[parent].type = "internal"
      BY <1>0, <1>3, <1>7 DEF Inner
    <3>3. p \notin {x, y, parent}
      BY <1>10, <1>11, <2>1, <3>2 DEF IsLeaf
    <3> QED
      BY <1>8, <1>9, <2>1, <3>1, <3>3 DEF Carries, IsLeaf
  <2> QED
    BY <2>1 DEF LeavesKept
<1>21. RowsKept(tree, tree)
  <2>1. \A r, k1 : ~HasIn(qs, tree, {}, r, k1) /\ ~HasIn(pages, tree, {}, r, k1)
    BY DEF HasIn
  <2>2. \A r, k1 : Has(qs, tree, r, k1) <=> Has(pages, tree, r, k1)
    BY <1>20, <2>1, RowsOutside
  <2> QED
    BY <1>1, <2>2 DEF RowsKept
<1> QED
  BY <1>19, <1>21 DEF OrderKept

LEMMA InternalBorrowLeftKeepsOrder ==
  ASSUME NEW level, NEW loose, NEW short, Sound(level, loose, short),
         NEW lo, NEW hi, NEW tree, NEW top, NEW gaps, Ordered(lo, hi, tree, top, gaps),
         InternalBorrowLeft
  PROVE  OrderKept(tree)
<1>1. PICK page, other, i, separator, up, moved, mine, first, rest, second, taker, above, giver, son :
        LentFromLeft(page, other, i, separator, up, moved, mine, first, rest, second, taker, above, giver, son)
  BY InternalBorrowLeftIs
<1>2. PICK x, y, s, t, cs, ds, u, v :
        /\ x = other /\ y = page /\ s = pages[x].keys /\ t = pages[y].keys
        /\ cs = pages[x].children /\ ds = pages[y].children /\ u = Append(s, separator) \o t /\ v = cs \o ds
  OBVIOUS
<1>3. /\ ChildLent(page, other, i, i, separator, up, moved, mine, first, rest, second, taker, above, giver, son)
      /\ x = Siblings[i] /\ y = Siblings[i + 1] /\ up = Last(s) /\ moved = Last(cs)
      /\ mine = <<separator>> \o t /\ first = <<moved>> \o ds /\ rest = Front(s) /\ second = Front(cs)
  BY <1>1, <1>2 DEF LentFromLeft, ChildLent
<1>4. /\ Pending("internal_node_rebalance") /\ i \in 1..Len(Siblings) /\ other # page /\ moved \in Kids(pages, other)
      /\ page = Top.page /\ other = Siblings[i] /\ Len(s) # 0
      /\ i \in 1..Len(pages[Parent].keys) /\ separator = pages[Parent].keys[i]
      /\ taker = WithChildren(pages[page], mine, first) /\ giver = WithChildren(pages[other], rest, second)
      /\ FourStored(pages, pages', page, taker, Parent, above, other, giver, moved, son)
  BY <1>2, <1>3 DEF ChildLent
<1>5. PICK parent : parent = Parent
  OBVIOUS
<1>6. /\ Inner(pages, parent) /\ Inner(pages, x) /\ Inner(pages, y) /\ Descends(pages, level)
  BY <1>2, <1>4, <1>5, SiblingsAre, LenderIs, TreeTyped DEF Sound
<1>7. /\ s \in Seq(Nat) /\ t \in Seq(Nat) /\ cs \in Seq(Nat) /\ ds \in Seq(Nat) /\ Len(s) \in Nat
      /\ Len(cs) = Len(s) + 1 /\ pages[parent].keys \in Seq(Nat) /\ pages[x] \in Record /\ pages[y] \in Record
  BY <1>2, <1>6, InnerIs
<1>8. separator \in Nat /\ Len(cs) >= 2
  <2>1. separator \in Nat
    <3>1. PICK ks : ks = pages[parent].keys
      OBVIOUS
    <3>2. ks \in Seq(Nat) /\ i \in 1..Len(ks) /\ separator = ks[i]
      BY <1>4, <1>5, <1>7, <3>1
    <3> QED
      BY ONLY <3>2
  <2>2. Len(cs) >= 2
    BY <1>4, <1>7
  <2> QED
    BY <2>1, <2>2
<1>9. Around(u, s, separator, t) /\ Around(u, rest, up, mine)
  BY <1>2, <1>3, <1>4, <1>7, <1>8, KeyMovesRight
<1>10. second \in Seq(Nat) /\ first \in Seq(Nat) /\ EndToEnd(Nat, v, second, first)
  <2>1. second = Front(cs) /\ first = <<Last(cs)>> \o ds /\ cs \in Seq(Nat) /\ ds \in Seq(Nat) /\ Len(cs) >= 2
    BY <1>3, <1>7, <1>8
  <2>2. second \in Seq(Nat) /\ first \in Seq(Nat) /\ EndToEnd(Nat, cs \o ds, second, first)
    BY ONLY <2>1, CellMovesRight
  <2> QED
    BY <1>2, <2>2
<1>11. EndToEnd(Nat, v, cs, ds)
  BY <1>2, <1>7, ConcatIs
<1>12. rest \in Seq(Nat) /\ mine \in Seq(Nat)
  BY <1>9 DEF Around
<1>13. /\ pages'[x].keys = rest /\ pages'[x].children = second
       /\ pages'[y].keys = mine /\ pages'[y].children = first
  <2>1. Refilled(pages[y], taker, mine, first) /\ Refilled(pages[x], giver, rest, second)
    BY <1>2, <1>4, <1>7, <1>10, <1>12, WithChildrenIs
  <2> QED
    BY <1>2, <1>4, <2>1 DEF Refilled, FourStored
<1>14. SharedAnew(page, other, i, separator, up, x, y, u, v)
  BY <1>2, <1>3, <1>9, <1>10, <1>11, <1>13 DEF SharedAnew
<1> QED
  BY <1>3, <1>14, ChildLentKeepsOrder

LEMMA InternalBorrowRightKeepsOrder ==
  ASSUME NEW level, NEW loose, NEW short, Sound(level, loose, short),
         NEW lo, NEW hi, NEW tree, NEW top, NEW gaps, Ordered(lo, hi, tree, top, gaps),
         InternalBorrowRight
  PROVE  OrderKept(tree)
<1>1. PICK page, other, i, separator, up, moved, mine, first, rest, second, taker, above, giver, son :
        LentFromRight(page, other, i, separator, up, moved, mine, first, rest, second, taker, above, giver, son)
  BY InternalBorrowRightIs
<1>2. PICK x, y, s, t, cs, ds, u, v :
        /\ x = page /\ y = other /\ s = pages[x].keys /\ t = pages[y].keys
        /\ cs = pages[x].children /\ ds = pages[y].children /\ u = Append(s, separator) \o t /\ v = cs \o ds
  OBVIOUS
<1>3. /\ ChildLent(page, other, i + 1, i, separator, up, moved, mine, first, rest, second, taker, above, giver, son)
      /\ x = Siblings[i] /\ y = Siblings[i + 1] /\ up = Head(t) /\ moved = Head(ds)
      /\ mine = Append(s, separator) /\ first = Append(cs, moved) /\ rest = Tail(t) /\ second = Tail(ds)
  BY <1>1, <1>2 DEF LentFromRight, ChildLent
<1>4. /\ Pending("internal_node_rebalance") /\ i + 1 \in 1..Len(Siblings) /\ other # page /\ moved \in Kids(pages, other)
      /\ page = Top.page /\ other = Siblings[i + 1] /\ Len(t) # 0
      /\ i \in 1..Len(pages[Parent].keys) /\ separator = pages[Parent].keys[i]
      /\ taker = WithChildren(pages[page], mine, first) /\ giver = WithChildren(pages[other], rest, second)
      /\ FourStored(pages, pages', page, taker, Parent, above, other, giver, moved, son)
  BY <1>2, <1>3 DEF ChildLent
<1>5. PICK parent, at : parent = Parent /\ at = i + 1
  OBVIOUS
<1>6. /\ Inner(pages, parent) /\ Inner(pages, x) /\ Inner(pages, y) /\ Descends(pages, level)
  <2>1. at \in 1..Len(Siblings) /\ other = Siblings[at]
    BY <1>4, <1>5
  <2> QED
    BY <1>2, <1>4, <1>5, <2>1, SiblingsAre, LenderIs, TreeTyped DEF Sound
<1>7. /\ s \in Seq(Nat) /\ t \in Seq(Nat) /\ cs \in Seq(Nat) /\ ds \in Seq(Nat) /\ Len(t) \in Nat
      /\ Len(ds) = Len(t) + 1 /\ pages[parent].keys \in Seq(Nat) /\ pages[x] \in Record /\ pages[y] \in Record
  BY <1>2, <1>6, InnerIs
<1>8. separator \in Nat /\ Len(ds) >= 2
  <2>1. separator \in Nat
    <3>1. PICK ks : ks = pages[parent].keys
      OBVIOUS
    <3>2. ks \in Seq(Nat) /\ i \in 1..Len(ks) /\ separator = ks[i]
      BY <1>4, <1>5, <1>7, <3>1
    <3> QED
      BY ONLY <3>2
  <2>2. Len(ds) >= 2
    BY <1>4, <1>7
  <2> QED
    BY <2>1, <2>2
<1>9. Around(u, s, separator, t) /\ Around(u, mine, up, rest)
  BY <1>2, <1>3, <1>4, <1>7, <1>8, KeyMovesLeft
<1>10. first \in Seq(Nat) /\ second \in Seq(Nat) /\ EndToEnd(Nat, v, first, second)
  <2>1. first = Append(cs, Head(ds)) /\ second = Tail(ds) /\ cs \in Seq(Nat) /\ ds \in Seq(Nat) /\ Len(ds) >= 2
    BY <1>3, <1>7, <1>8
  <2>2. first \in Seq(Nat) /\ second \in Seq(Nat) /\ EndToEnd(Nat, cs \o ds, first, second)
    BY ONLY <2>1, CellMovesLeft
  <2> QED
    BY <1>2, <2>2
<1>11. EndToEnd(Nat, v, cs, ds)
  BY <1>2, <1>7, ConcatIs
<1>12. rest \in Seq(Nat) /\ mine \in Seq(Nat)
  BY <1>9 DEF Around
<1>13. /\ pages'[x].keys = mine /\ pages'[x].children = first
       /\ pages'[y].keys = rest /\ pages'[y].children = second
  <2>1. Refilled(pages[x], taker, mine, first) /\ Refilled(pages[y], giver, rest, second)
    BY <1>2, <1>4, <1>7, <1>10, <1>12, WithChildrenIs
  <2> QED
    BY <1>2, <1>4, <2>1 DEF Refilled, FourStored
<1>14. SharedAnew(page, other, i, separator, up, x, y, u, v)
  BY <1>2, <1>3, <1>9, <1>10, <1>11, <1>13 DEF SharedAnew
<1> QED
  BY <1>3, <1>14, ChildLentKeepsOrder

-----------------------------------------------------------------------------
\* A separator is dropped: what was on its two sides is one slot.
\* The pages after the right sibling's contents have gone to the left one.
PairMerged(ps, qs, hi, hi2, parent, i, x, y) ==
  /\ qs \in Seq(Record) /\ DOMAIN qs = DOMAIN ps
  /\ \A p \in DOMAIN ps \ {x, y, parent} : Carries(ps[p], qs[p])
  /\ qs[x].type = ps[x].type /\ qs[x].is_root = ps[x].is_root
  /\ ps[x].type = "leaf" => qs[x].next = ps[y].next
  /\ qs[y].type = "free" /\ qs[y].children = <<>> /\ ~qs[y].is_root
  /\ qs[parent].type = ps[parent].type /\ qs[parent].is_root = ps[parent].is_root
  /\ Removed(Nat, qs[parent].keys, ps[parent].keys, i)
  /\ Removed(Nat, qs[parent].children, ps[parent].children, i + 1)
  /\ hi2 = [hi EXCEPT ![x] = hi[y]]

LEMMA ParentJoins ==
  ASSUME NEW ps, NEW lo, NEW hi, NEW tree, NEW top, Order(ps, lo, hi, tree, top, {}),
         NEW parent, NEW i, NEW x, NEW y, NEW n, NEW keys, NEW kids,
         Pair(ps, lo, hi, tree, top, parent, i, x, y, n, keys, kids),
         NEW qs, NEW hi2, PairMerged(ps, qs, hi, hi2, parent, i, x, y)
  PROVE  Settled(qs, lo, hi2, tree, top, {}, parent)
<1>1. PICK ks, cs, a, b : ks = qs[parent].keys /\ cs = qs[parent].children /\ a = lo[parent] /\ b = hi[parent]
  OBVIOUS
<1>2. /\ parent \in DOMAIN ps /\ parent \in Nat /\ parent # x /\ parent # y /\ x # y /\ x \in Nat /\ y \in Nat
      /\ ps[parent].type = "internal" /\ Alive(ps, parent)
      /\ keys \in Seq(Nat) /\ n = Len(keys) /\ n \in Nat /\ i \in 1..n
      /\ kids \in Seq(Nat) /\ DOMAIN kids = 1..n + 1 /\ Len(kids) = n + 1
      /\ IsInjective(kids) /\ kids[i] = x /\ kids[i + 1] = y
      /\ kids = ps[parent].children /\ keys = ps[parent].keys
      /\ a \in Int /\ b \in Int /\ Rising(keys, a, b) /\ ps \in Seq(Record)
  BY <1>1 DEF Pair
<1>3. /\ Removed(Nat, ks, keys, i) /\ Removed(Nat, cs, kids, i + 1)
      /\ qs[parent].type = "internal" /\ qs[parent].is_root = ps[parent].is_root
      /\ hi2 = [hi EXCEPT ![x] = hi[y]]
  BY <1>1, <1>2 DEF PairMerged
<1>4. FencesDropped(keys, ks, n, i, a, b)
  BY <1>2, <1>3, FencesDroppedIs
<1>5. lo \in [Nat -> Int] /\ hi \in [Nat -> Int]
  BY DEF Order, Bounds
<1>6. /\ hi2[parent] = b /\ hi2[x] = hi[y] /\ \A p \in Nat : p # x => hi2[p] = hi[p]
      /\ hi2 \in [Nat -> Int]
  BY <1>1, <1>2, <1>3, <1>5
<1>7. NodeOrdered(qs[parent], lo[parent], hi2[parent], top)
  <2>1. NodeOrdered(ps[parent], a, b, top)
    BY <1>1, <1>2 DEF Order
  <2>2. Rising(ks, a, b)
    BY <1>4 DEF FencesDropped
  <2> QED
    BY <1>1, <1>3, <1>6, <2>1, <2>2 DEF NodeOrdered
<1>8. DOMAIN cs = 1..n /\ \A j \in 1..n : cs[j] = IF j < i + 1 THEN kids[j] ELSE kids[j + 1]
  <2>1. /\ cs \in Seq(Nat) /\ Len(cs) = (n + 1) - 1
        /\ \A j \in 1..(n + 1) - 1 : cs[j] = IF j < i + 1 THEN kids[j] ELSE kids[j + 1]
    BY <1>2, <1>3 DEF Removed
  <2>2. (n + 1) - 1 = n
    BY <1>2
  <2> QED
    BY <2>1, <2>2
<1>9. ASSUME NEW j \in DOMAIN qs[parent].children PROVE Fitted(qs, lo, hi2, tree, {}, parent, j)
  <2>1. PICK c, l, g, h : /\ c = cs[j] /\ l = (IF j < i + 1 THEN j ELSE j + 1)
                          /\ g = j - 1 /\ h = l - 1
    OBVIOUS
  <2>2. /\ j \in 1..n /\ l \in 1..n + 1 /\ c = kids[l] /\ l # i + 1 /\ (l = i <=> j = i)
        /\ g \in 0..n /\ j \in 0..n /\ i \in 1..n + 1 /\ i + 1 \in 1..n + 1
    <3>1. j \in 1..n
      BY <1>1, <1>8, <1>9
    <3>2. n \in Nat /\ i \in 1..n
      BY <1>2
    <3>3. /\ l \in 1..n + 1 /\ l # i + 1 /\ (l = i <=> j = i)
          /\ g \in 0..n /\ j \in 0..n /\ i \in 1..n + 1 /\ i + 1 \in 1..n + 1
      BY <2>1, <3>1, <3>2
    <3> QED
      BY <1>8, <2>1, <3>1, <3>3
  <2>3. PICK u, v : u = Fence(ks, a, b, g) /\ v = Fence(ks, a, b, j)
    OBVIOUS
  <2>4. Fitted(ps, lo, hi, tree, {}, parent, l)
    BY <1>2, <2>2 DEF Order
  <2>5. /\ tree[c] = tree[parent] /\ lo[c] = Fence(keys, a, b, h) /\ hi[c] = Fence(keys, a, b, l)
    BY <1>1, <1>2, <2>1, <2>2, <2>4 DEF Fitted, Within
  <2>6. /\ u = IF g < i THEN Fence(keys, a, b, g) ELSE Fence(keys, a, b, g + 1)
        /\ v = IF j < i THEN Fence(keys, a, b, j) ELSE Fence(keys, a, b, j + 1)
    BY <1>4, <2>2, <2>3 DEF FencesDropped
  <2>7. c \in Nat
    <3>1. kids \in Seq(Nat) /\ l \in DOMAIN kids /\ c = kids[l]
      BY <1>2, <2>2
    <3> QED
      BY ONLY <3>1
  <2>8. c # x \/ j = i
    BY <1>2, <2>2 DEF IsInjective
  <2>9. /\ n \in Nat /\ i \in 1..n /\ j \in 1..n /\ g = j - 1 /\ h = l - 1
        /\ l = (IF j < i + 1 THEN j ELSE j + 1)
    BY <1>2, <2>1, <2>2
  <2>10. /\ j < i => g < i /\ h = g /\ l = j
         /\ j = i => g < i /\ h = g /\ ~(j < i) /\ j + 1 = i + 1
         /\ j > i => ~(g < i) /\ h = g + 1 /\ l = j + 1 /\ ~(j < i) /\ j # i
         /\ j < i \/ j = i \/ j > i
    BY ONLY <2>9
  <2>11. lo[c] = u /\ hi2[c] = v
    <3>1. CASE j < i
      <4>1. j # i
        BY <2>9, <3>1
      <4>2. c # x
        BY <2>8, <4>1
      <4> QED
        BY <1>6, <2>5, <2>6, <2>7, <2>10, <3>1, <4>2
    <3>2. CASE j = i
      <4>1. c = x /\ hi[y] = Fence(keys, a, b, i + 1)
        BY <1>1, <1>2, <2>2, <3>2 DEF Pair
      <4> QED
        BY <1>6, <2>5, <2>6, <2>10, <3>2, <4>1
    <3>3. CASE j > i
      <4>1. c # x
        BY <2>8, <2>10, <3>3
      <4> QED
        BY <1>6, <2>5, <2>6, <2>7, <2>10, <3>3, <4>1
    <3> QED
      BY <2>10, <3>1, <3>2, <3>3
  <2>12. u \in Int /\ v \in Int
    BY <1>5, <1>6, <2>7, <2>11
  <2>13. Within(u, v, lo[c], hi2[c], c \notin {})
    BY <2>11, <2>12 DEF Within
  <2> QED
    BY <1>1, <1>6, <2>1, <2>3, <2>5, <2>13 DEF Fitted
<1>10. ASSUME qs[parent].is_root PROVE RootFits(lo, hi2, tree, top, {}, parent)
  <2>1. RootFits(lo, hi, tree, top, {}, parent)
    BY <1>2, <1>3, <1>10 DEF Order
  <2> QED
    BY <1>1, <1>6, <2>1 DEF RootFits
<1>11. ~IsLeaf(qs, parent)
  BY <1>3 DEF IsLeaf
<1> QED
  BY <1>7, <1>9, <1>10, <1>11 DEF Settled

\* What the left sibling has now is in order.
JoinedFits(qs, lo, hi2, tree, top, x) ==
  /\ NodeOrdered(qs[x], lo[x], hi2[x], top)
  /\ \A j \in DOMAIN qs[x].children : Fitted(qs, lo, hi2, tree, {}, x, j)

LEMMA PairJoined ==
  ASSUME NEW ps, NEW level, Shape(ps, level, {}),
         NEW lo, NEW hi, NEW tree, NEW top, Order(ps, lo, hi, tree, top, {}),
         NEW parent, NEW i, NEW x, NEW y, NEW n, NEW keys, NEW kids,
         Pair(ps, lo, hi, tree, top, parent, i, x, y, n, keys, kids),
         NEW qs, NEW hi2, PairMerged(ps, qs, hi, hi2, parent, i, x, y),
         JoinedFits(qs, lo, hi2, tree, top, x)
  PROVE  Order(qs, lo, hi2, tree, top, {})
<1> DEFINE F == {x, y, parent}
<1>1. /\ ps \in Seq(Record) /\ x \in DOMAIN ps /\ y \in DOMAIN ps /\ parent \in DOMAIN ps
      /\ x \in Nat /\ y \in Nat /\ parent \in Nat /\ x # y /\ parent # x /\ parent # y
      /\ Alive(ps, x) /\ Alive(ps, y) /\ ~ps[x].is_root /\ ~ps[y].is_root /\ ps[x].type = ps[y].type
      /\ tree[x] = tree[parent] /\ tree[y] = tree[parent] /\ ps[parent].type = "internal"
      /\ lo[x] \in Int /\ hi[x] \in Int /\ lo[y] \in Int /\ hi[y] \in Int /\ top \in Int
      /\ lo[x] < hi[x] /\ lo[y] < hi[y] /\ hi[y] <= top /\ lo[y] = hi[x]
      /\ x \in Kids(ps, parent) /\ y \in Kids(ps, parent)
  BY DEF Pair
<1>2. /\ Bounds(lo, hi, tree, top) /\ Descends(ps, level)
      /\ DOMAIN qs = DOMAIN ps /\ qs \in Seq(Record)
      /\ \A p \in DOMAIN ps \ F : Carries(ps[p], qs[p])
      /\ qs[x].type = ps[x].type /\ qs[x].is_root = ps[x].is_root
      /\ ps[x].type = "leaf" => qs[x].next = ps[y].next
      /\ qs[y].type = "free" /\ qs[y].children = <<>> /\ ~qs[y].is_root
      /\ qs[parent].type = ps[parent].type /\ hi2 = [hi EXCEPT ![x] = hi[y]]
  BY DEF Order, PairMerged, Shape
<1>3. lo \in [Nat -> Int] /\ hi \in [Nat -> Int] /\ tree \in [Nat -> Nat]
  BY <1>2 DEF Bounds
<1>4. /\ \A p \in Nat : hi2[p] = IF p = x THEN hi[y] ELSE hi[p]
      /\ hi2 \in [Nat -> Int] /\ Bounds(lo, hi2, tree, top)
  <2>1. hi2 \in [Nat -> Int] /\ \A p \in Nat : hi2[p] = IF p = x THEN hi[y] ELSE hi[p]
    BY <1>1, <1>2, <1>3
  <2> QED
    BY <1>1, <1>3, <2>1 DEF Bounds
<1>5. \A p \in DOMAIN ps : p \in Nat /\ lo[p] \in Int /\ hi[p] \in Int
  <2>1. \A p \in DOMAIN ps : p \in Nat
    BY <1>1
  <2> QED
    BY <1>3, <2>1
<1>6. OutsideSame(ps, qs, lo, hi, tree, lo, hi2, tree, F)
  BY <1>2, <1>4, <1>5 DEF OutsideSame
<1>7. KidsStay(ps, qs, lo, hi, tree, {}, lo, hi2, tree, {}, F)
  <2>1. ASSUME NEW p \in DOMAIN qs \ F, NEW c \in Kids(ps, p) PROVE KidStays(lo, hi, tree, {}, lo, hi2, tree, {}, c)
    <3>1. p \in DOMAIN ps /\ p # parent
      BY <1>2
    <3>2. ps[c].parent = p /\ ps[x].parent = parent /\ c \in DOMAIN ps
      BY <1>1, <3>1 DEF Shape, Descends, Alive
    <3>3. c # x /\ c \in Nat /\ lo[c] \in Int /\ hi[c] \in Int
      BY <1>5, <3>1, <3>2
    <3>4. hi2[c] = hi[c]
      BY <1>4, <3>3
    <3> QED
      BY <3>3, <3>4 DEF KidStays
  <2> QED
    BY <2>1 DEF KidsStay
<1>8. RootsStay(qs, {}, {}, F)
  BY DEF RootsStay
<1>9. \A p : IsLeaf(qs, p) <=> IsLeaf(ps, p) /\ p # y
  BY <1>1, <1>2 DEF IsLeaf, Carries
<1>10. IsLeaf(ps, x) => PairOfLeaves(ps, lo, hi, tree, top, x, y)
  BY LeavesFollow
<1>11. IsLeaf(ps, x) <=> IsLeaf(ps, y)
  BY <1>1 DEF IsLeaf
<1>12. ASSUME NEW l, IsLeaf(ps, l), hi[l] # top, l # x
       PROVE  /\ tree[ps[l].next] = tree[l] /\ lo[ps[l].next] = hi[l]
              /\ IsLeaf(qs, ps[l].next)
  <2>1. IsLeaf(ps, ps[l].next) /\ tree[ps[l].next] = tree[l] /\ lo[ps[l].next] = hi[l]
    BY <1>12 DEF Order, Linked, IsLeaf
  <2>2. ps[l].next # y
    <3>1. SUFFICES ASSUME ps[l].next = y PROVE FALSE
      OBVIOUS
    <3>2. IsLeaf(ps, x)
      BY <1>11, <2>1, <3>1
    <3> QED
      BY <1>10, <1>12, <3>1, <3>2 DEF PairOfLeaves
  <2> QED
    BY <1>9, <2>1, <2>2
<1>13. LinksStay(ps, qs, lo, hi, tree, top, lo, tree, F)
  BY <1>12 DEF LinksStay
<1>14. InsideSettled(qs, lo, hi2, tree, top, {}, F)
  <2>1. Settled(qs, lo, hi2, tree, top, {}, parent)
    BY ParentJoins
  <2>2. hi2[x] = hi[y]
    BY <1>1, <1>4
  <2>3. ASSUME IsLeaf(qs, x) PROVE Linked(qs, lo, hi2, tree, top, x)
    <3>1. IsLeaf(ps, x) /\ IsLeaf(ps, y) /\ qs[x].next = ps[y].next
      BY <1>2, <1>9, <1>11, <2>3 DEF IsLeaf
    <3>2. Linked(ps, lo, hi, tree, top, y)
      BY <1>1, <3>1 DEF Order
    <3>3. CASE hi[y] = top
      BY <2>2, <3>1, <3>2, <3>3 DEF Linked
    <3>4. CASE hi[y] # top
      <4>1. tree[ps[y].next] = tree[y] /\ lo[ps[y].next] = hi[y] /\ IsLeaf(qs, ps[y].next)
        BY <1>1, <1>12, <3>1, <3>4
      <4> QED
        BY <1>1, <2>2, <3>1, <3>4, <4>1 DEF Linked
    <3> QED
      BY <3>3, <3>4
  <2>4. Settled(qs, lo, hi2, tree, top, {}, x)
    BY <1>1, <1>2, <2>3 DEF Settled, JoinedFits
  <2>5. Settled(qs, lo, hi2, tree, top, {}, y)
    <3>1. DOMAIN qs[y].children = {}
      BY <1>2
    <3> QED
      BY <1>2, <3>1 DEF Settled, Alive, IsLeaf
  <2> QED
    BY <2>1, <2>4, <2>5 DEF InsideSettled
<1>15. LeavesApart(qs, lo, hi2, tree, F)
  <2>1. ASSUME NEW l \in F \cap DOMAIN qs, NEW m \in DOMAIN qs, IsLeaf(qs, l), IsLeaf(qs, m), l # m, tree[l] = tree[m]
        PROVE  hi2[l] <= lo[m] \/ hi2[m] <= lo[l]
    <3>1. l = x /\ m # x /\ m # y /\ IsLeaf(ps, x) /\ IsLeaf(ps, m) /\ m \in Nat /\ m \in DOMAIN ps
      BY <1>1, <1>2, <1>5, <1>9, <2>1 DEF IsLeaf
    <3>2. PairOfLeaves(ps, lo, hi, tree, top, x, y)
      BY <1>10, <3>1
    <3>3. hi[m] <= lo[x] \/ hi[y] <= lo[m]
      BY <2>1, <3>1, <3>2 DEF PairOfLeaves
    <3> QED
      BY <1>1, <1>4, <3>1, <3>3
  <2> QED
    BY <2>1 DEF LeavesApart, Apart
<1> HIDE DEF F
<1> QED
  BY <1>2, <1>4, <1>6, <1>7, <1>8, <1>13, <1>14, <1>15, OrderUpdated

-----------------------------------------------------------------------------
\* Two siblings become one.

\* What a merge has before it, and what it does to the two and their parent.
MergeReady(level, lo, hi, hi2, tree, top, parent, i, x, y, n, keys, kids, qs, c) ==
  /\ pages \in Seq(Record) /\ Shape(pages, level, {}) /\ Descends(pages, level)
  /\ Order(pages, lo, hi, tree, top, {}) /\ Pair(pages, lo, hi, tree, top, parent, i, x, y, n, keys, kids)
  /\ PairMerged(pages, qs, hi, hi2, parent, i, x, y)
  /\ qs = pages' /\ stack' = <<c>> /\ c.fn = "after_child_removed"

LEMMA MergeReadyIs ==
  ASSUME NEW level, NEW loose, NEW short, Sound(level, loose, short),
         NEW lo, NEW hi, NEW tree, NEW top, NEW gaps, Ordered(lo, hi, tree, top, gaps),
         NEW parent, NEW x, NEW y, NEW i, NEW ps, NEW joined, Merging(parent, x, y, i, ps, joined),
         pages[x].type = "leaf" => joined.next = pages[y].next,
         NEW n, NEW keys, NEW kids,
         n = Len(pages[parent].keys), keys = pages[parent].keys, kids = pages[parent].children,
         NEW qs, qs = pages', NEW hi2, hi2 = [hi EXCEPT ![x] = hi[y]],
         NEW c, c = Call("after_child_removed", parent, NoPage, 0)
  PROVE  MergeReady(level, lo, hi, hi2, tree, top, parent, i, x, y, n, keys, kids, qs, c)
<1>1. PICK rest : rest = WithoutChild(pages[parent], i + 1)
  OBVIOUS
<1>2. Merges(parent, x, y, i, ps, joined, rest, c)
  BY <1>1, MergeIs
<1>3. /\ Pending("leaf_node_rebalance") \/ Pending("internal_node_rebalance")
      /\ HandedOver(pages, ps, Kids(pages, y), x)
      /\ joined.type = pages[x].type /\ joined.is_root = pages[x].is_root
  BY DEF Merging
<1>4. loose = {} /\ gaps = {}
  <2>1. PICK fn \in {"leaf_node_rebalance", "internal_node_rebalance"} : Pending(fn)
    BY <1>3
  <2> QED
    BY <2>1, RepairOnTop, RepairMends
<1>5. /\ pages \in Seq(Record) /\ Shape(pages, level, {}) /\ Descends(pages, level)
      /\ Order(pages, lo, hi, tree, top, {})
  BY <1>4, TreeTyped DEF Ordered, Sound, Tree, Shape
<1>6. /\ stack' = <<c>> /\ Inner(pages, parent) /\ i \in 1..Len(pages[parent].keys)
      /\ x = pages[parent].children[i] /\ y = pages[parent].children[i + 1]
      /\ x \in DOMAIN pages /\ y \in DOMAIN pages /\ parent \in DOMAIN pages /\ x # y /\ x # parent /\ y # parent
      /\ Relieved(pages[parent], rest, y) /\ qs \in Seq(Record) /\ DOMAIN qs = DOMAIN pages
      /\ qs[x] = joined /\ qs[y] = FreePage(free_head) /\ qs[parent] = rest
      /\ \A p \in DOMAIN pages \ {parent, x, y} : qs[p] = ps[p]
  BY <1>2 DEF Merges
<1>7. Pair(pages, lo, hi, tree, top, parent, i, x, y, n, keys, kids)
  BY <1>5, <1>6, PairFits
<1>8. \A p \in DOMAIN pages \ {x, y, parent} : Carries(pages[p], qs[p])
  BY <1>3, <1>6 DEF HandedOver, Reparented, Carries
<1>9. qs[y].type = "free" /\ qs[y].children = <<>> /\ ~qs[y].is_root
  BY <1>6 DEF FreePage
<1>10. PICK node, j, ks, cs : node = pages[parent] /\ j = i + 1 /\ ks = RemoveAt(keys, i) /\ cs = RemoveAt(kids, j)
  OBVIOUS
<1>11. /\ node \in Record /\ keys \in Seq(Nat) /\ kids \in Seq(Nat) /\ n = Len(keys) /\ n \in Nat
       /\ Len(kids) = n + 1 /\ i \in 1..n
  BY <1>5, <1>6, <1>7, <1>10 DEF Pair
<1>12. j \in 1..Len(kids) /\ j - 1 = i
  <2>1. n \in Nat /\ i \in 1..n /\ j = i + 1 /\ Len(kids) = n + 1
    BY <1>10, <1>11
  <2> QED
    BY ONLY <2>1
<1>13. Removed(Nat, ks, keys, i) /\ Removed(Nat, cs, kids, j)
  BY <1>10, <1>11, <1>12, RemoveAtIs
<1>14. qs[parent].keys = ks /\ qs[parent].children = cs
  <2>1. rest = WithChildren(node, ks, cs)
    BY <1>1, <1>10, <1>12 DEF WithoutChild, WithChildren
  <2>2. ks \in Seq(Nat) /\ cs \in Seq(Nat)
    BY <1>13 DEF Removed
  <2>3. Refilled(node, rest, ks, cs)
    BY <1>11, <2>1, <2>2, WithChildrenIs
  <2> QED
    BY <1>6, <2>3 DEF Refilled
<1>15. PairMerged(pages, qs, hi, hi2, parent, i, x, y)
  <2>1. qs[parent].type = pages[parent].type /\ qs[parent].is_root = pages[parent].is_root
    BY <1>6 DEF Relieved
  <2> QED
    BY <1>3, <1>6, <1>8, <1>9, <1>10, <1>13, <1>14, <2>1 DEF PairMerged
<1>16. c.fn = "after_child_removed"
  BY DEF Call
<1> QED
  BY <1>5, <1>6, <1>7, <1>15, <1>16 DEF MergeReady

LEMMA MergedOrder ==
  ASSUME NEW level, NEW lo, NEW hi, NEW hi2, NEW tree, NEW top,
         NEW parent, NEW i, NEW x, NEW y, NEW n, NEW keys, NEW kids, NEW qs, NEW c,
         MergeReady(level, lo, hi, hi2, tree, top, parent, i, x, y, n, keys, kids, qs, c),
         JoinedFits(qs, lo, hi2, tree, top, x)
  PROVE  Ordered(lo, hi2, tree, top, {})'
<1>1. /\ Shape(pages, level, {}) /\ Order(pages, lo, hi, tree, top, {})
      /\ Pair(pages, lo, hi, tree, top, parent, i, x, y, n, keys, kids)
      /\ PairMerged(pages, qs, hi, hi2, parent, i, x, y)
      /\ qs = pages' /\ stack' = <<c>> /\ c.fn = "after_child_removed"
  BY DEF MergeReady
<1>2. Order(qs, lo, hi2, tree, top, {})
  BY <1>1, PairJoined
<1>3. OneMends(c, qs, lo, hi2, tree, top, {})
  BY <1>1 DEF OneMends
<1>4. Mended(stack', qs, lo, hi2, tree, top, {})
  BY <1>1, <1>3 DEF Mended
<1> QED
  BY <1>1, <1>2, <1>4 DEF Ordered

LEMMA LeafMergeKeepsOrder ==
  ASSUME NEW level, NEW loose, NEW short, Sound(level, loose, short),
         NEW lo, NEW hi, NEW tree, NEW top, NEW gaps, Ordered(lo, hi, tree, top, gaps),
         LeafMerge
  PROVE  OrderKept(tree)
<1>1. PICK parent, x, y, i, joined : LeavesMerge(parent, x, y, i, joined)
  BY LeafMergeIs
<1>2. /\ Merging(parent, x, y, i, pages, joined) /\ joined.type = "leaf" /\ pages[y].type = "leaf"
      /\ joined.keys = pages[x].keys \o pages[y].keys /\ joined.next = pages[y].next
  BY <1>1 DEF LeavesMerge
<1>3. PICK n, keys, kids, qs, hi2, c, rest :
        /\ n = Len(pages[parent].keys) /\ keys = pages[parent].keys /\ kids = pages[parent].children
        /\ qs = pages' /\ hi2 = [hi EXCEPT ![x] = hi[y]] /\ c = Call("after_child_removed", parent, NoPage, 0)
        /\ rest = WithoutChild(pages[parent], i + 1)
  OBVIOUS
<1>4. MergeReady(level, lo, hi, hi2, tree, top, parent, i, x, y, n, keys, kids, qs, c)
  BY <1>2, <1>3, MergeReadyIs
<1>5. /\ pages \in Seq(Record) /\ Descends(pages, level) /\ Order(pages, lo, hi, tree, top, {})
      /\ Pair(pages, lo, hi, tree, top, parent, i, x, y, n, keys, kids)
      /\ PairMerged(pages, qs, hi, hi2, parent, i, x, y)
  BY <1>4 DEF MergeReady
<1>6. /\ x \in DOMAIN pages /\ y \in DOMAIN pages /\ x # y /\ x \in Nat /\ y \in Nat /\ top \in Int
      /\ parent # x /\ parent # y /\ pages[x].type = pages[y].type /\ pages[parent].type = "internal"
      /\ tree[x] = tree[y] /\ Alive(pages, x) /\ Alive(pages, y)
      /\ lo[x] \in Int /\ hi[x] \in Int /\ hi[y] \in Int /\ lo[y] = hi[x]
      /\ -1 <= lo[x] /\ lo[x] < hi[x] /\ lo[y] < hi[y] /\ hi[y] <= top
  BY <1>5 DEF Pair
<1>7. IsLeaf(pages, x) /\ IsLeaf(pages, y)
  BY <1>2, <1>6 DEF IsLeaf
<1>8. qs[x] = joined /\ DOMAIN qs = DOMAIN pages
  <2>1. Merges(parent, x, y, i, pages, joined, rest, c)
    BY <1>2, <1>3, MergeIs
  <2> QED
    BY <1>3, <2>1 DEF Merges
<1>9. PICK s, t, u, a, m, b : /\ s = pages[x].keys /\ t = pages[y].keys /\ u = s \o t
                              /\ a = lo[x] /\ m = hi[x] /\ b = hi[y]
  OBVIOUS
<1>10. LeafOrdered(s, a, m, top) /\ LeafOrdered(t, m, b, top) /\ s \in Seq(Nat) /\ t \in Seq(Nat)
  <2>1. NodeOrdered(pages[x], lo[x], hi[x], top) /\ NodeOrdered(pages[y], lo[y], hi[y], top)
    BY <1>5, <1>6 DEF Order
  <2>2. s \in Seq(Nat) /\ t \in Seq(Nat)
    BY <1>5, <1>6, <1>9, PageIs
  <2> QED
    BY <1>6, <1>7, <1>9, <2>1, <2>2 DEF NodeOrdered, IsLeaf
<1>11. LeafOrdered(u, a, b, top) /\ ToSet(u) = ToSet(s) \cup ToSet(t)
  <2>1. /\ s \in Seq(Nat) /\ t \in Seq(Nat) /\ a \in Int /\ m \in Int /\ b \in Int /\ a < m /\ m < b
        /\ LeafOrdered(s, a, m, top) /\ LeafOrdered(t, m, b, top) /\ u = s \o t
    BY <1>6, <1>9, <1>10
  <2> QED
    BY ONLY <2>1, LeafJoined
<1>12. hi2[x] = b
  <2>1. hi \in [Nat -> Int]
    BY <1>5 DEF Order, Bounds
  <2> QED
    BY <1>3, <1>6, <1>9, <2>1
<1>13. JoinedFits(qs, lo, hi2, tree, top, x)
  <2>1. a < b
    BY <1>6, <1>9
  <2>2. NodeOrdered(qs[x], a, b, top)
    BY <1>2, <1>6, <1>8, <1>9, <1>11, <2>1 DEF NodeOrdered
  <2>3. ChildrenCounted(joined)
    BY <1>2 DEF Merging
  <2>4. DOMAIN qs[x].children = {}
    BY <1>2, <1>8, <2>3 DEF ChildrenCounted
  <2> QED
    BY <1>9, <1>12, <2>2, <2>4 DEF JoinedFits
<1>14. Ordered(lo, hi2, tree, top, {})'
  BY <1>4, <1>13, MergedOrder
<1>15. LeavesKept(pages, qs, tree, tree, {x, y})
  <2>1. \A p \in DOMAIN pages \ {x, y, parent} : Carries(pages[p], qs[p])
    BY <1>5 DEF PairMerged
  <2>2. qs[parent].type = "internal"
    BY <1>5, <1>6 DEF PairMerged
  <2> QED
    BY <1>6, <1>8, <2>1, <2>2 DEF LeavesKept, IsLeaf, Carries
<1>16. \A r, key : HasIn(qs, tree, {x, y}, r, key) <=> HasIn(pages, tree, {x, y}, r, key)
  <2>1. qs[x].type = "leaf" /\ qs[y].type # "leaf" /\ pages[x].type = "leaf" /\ pages[y].type = "leaf"
    BY <1>2, <1>5, <1>7, <1>8 DEF PairMerged, IsLeaf
  <2>2. \A r, key : HasIn(qs, tree, {x, y}, r, key) <=> tree[x] = r /\ key \in ToSet(u)
    BY <1>2, <1>6, <1>8, <1>9, <2>1 DEF HasIn
  <2>3. \A r, key : HasIn(pages, tree, {x, y}, r, key) <=> tree[x] = r /\ key \in ToSet(s) \cup ToSet(t)
    BY <1>6, <1>9, <2>1 DEF HasIn
  <2> QED
    BY <1>11, <2>2, <2>3
<1>17. RowsKept(tree, tree)
  <2>1. \A r, key : Has(qs, tree, r, key) <=> Has(pages, tree, r, key)
    BY <1>15, <1>16, RowsOutside
  <2> QED
    BY <1>3, <2>1 DEF RowsKept
<1> QED
  BY <1>14, <1>17 DEF OrderKept

LEMMA InternalMergeKeepsOrder ==
  ASSUME NEW level, NEW loose, NEW short, Sound(level, loose, short),
         NEW lo, NEW hi, NEW tree, NEW top, NEW gaps, Ordered(lo, hi, tree, top, gaps),
         InternalMerge
  PROVE  OrderKept(tree)
<1>1. PICK parent, x, y, i, ps, joined : InnersMerge(parent, x, y, i, ps, joined)
  BY InternalMergeIs
<1>2. /\ Merging(parent, x, y, i, ps, joined) /\ joined.type = "internal" /\ pages[y].type = "internal"
      /\ joined.keys = Append(pages[x].keys, pages[parent].keys[i]) \o pages[y].keys
      /\ joined.children = pages[x].children \o pages[y].children
  BY <1>1 DEF InnersMerge
<1>3. PICK n, keys, kids, qs, hi2, c, rest :
        /\ n = Len(pages[parent].keys) /\ keys = pages[parent].keys /\ kids = pages[parent].children
        /\ qs = pages' /\ hi2 = [hi EXCEPT ![x] = hi[y]] /\ c = Call("after_child_removed", parent, NoPage, 0)
        /\ rest = WithoutChild(pages[parent], i + 1)
  OBVIOUS
<1>a. pages[x].type # "leaf"
  BY <1>2 DEF Merging
<1>4. MergeReady(level, lo, hi, hi2, tree, top, parent, i, x, y, n, keys, kids, qs, c)
  BY <1>2, <1>3, <1>a, MergeReadyIs
<1>5. /\ pages \in Seq(Record) /\ Descends(pages, level) /\ Shape(pages, level, {}) /\ Order(pages, lo, hi, tree, top, {})
      /\ Pair(pages, lo, hi, tree, top, parent, i, x, y, n, keys, kids)
      /\ PairMerged(pages, qs, hi, hi2, parent, i, x, y)
  BY <1>4 DEF MergeReady
<1>6. /\ x \in DOMAIN pages /\ y \in DOMAIN pages /\ x # y /\ x \in Nat /\ y \in Nat /\ top \in Int
      /\ parent # x /\ parent # y /\ pages[x].type = pages[y].type /\ pages[parent].type = "internal"
      /\ tree[x] = tree[y] /\ Alive(pages, x) /\ Alive(pages, y)
      /\ lo[x] \in Int /\ hi[x] \in Int /\ hi[y] \in Int /\ lo[y] = hi[x] /\ hi[x] = keys[i]
      /\ -1 <= lo[x] /\ lo[x] < hi[x] /\ lo[y] < hi[y] /\ hi[y] <= top
      /\ x \in Kids(pages, parent) /\ y \in Kids(pages, parent)
      /\ keys \in Seq(Nat) /\ i \in 1..Len(keys)
  BY <1>5 DEF Pair
<1>7. Inner(pages, x) /\ Inner(pages, y)
  BY <1>2, <1>6 DEF Inner
<1>8. qs[x] = joined /\ DOMAIN qs = DOMAIN pages
  <2>1. Merges(parent, x, y, i, ps, joined, rest, c)
    BY <1>2, <1>3, MergeIs
  <2> QED
    BY <1>3, <2>1 DEF Merges
<1>9. PICK s, t, u, a, m, b, cs, ds, v, r :
        /\ s = pages[x].keys /\ t = pages[y].keys /\ u = joined.keys /\ a = lo[x] /\ m = hi[x] /\ b = hi[y]
        /\ cs = pages[x].children /\ ds = pages[y].children /\ v = joined.children /\ r = tree[x]
  OBVIOUS
<1>10. Fenced(lo, hi, tree, r, s, cs, a, m) /\ Fenced(lo, hi, tree, r, t, ds, m, b)
  <2>1. /\ Fenced(lo, hi, tree, tree[x], pages[x].keys, pages[x].children, lo[x], hi[x])
        /\ Fenced(lo, hi, tree, tree[y], pages[y].keys, pages[y].children, lo[y], hi[y])
    BY <1>5, <1>7, InnerFenced
  <2> QED
    BY <1>6, <1>9, <2>1
<1>11. Fenced(lo, hi, tree, r, u, v, a, b)
  <2>1. s \in Seq(Nat) /\ t \in Seq(Nat) /\ cs \in Seq(Nat) /\ ds \in Seq(Nat)
    BY <1>10 DEF Fenced
  <2>2. m \in Nat
    <3>1. keys \in Seq(Nat) /\ i \in 1..Len(keys) /\ m = keys[i]
      BY <1>6, <1>9
    <3> QED
      BY ONLY <3>1
  <2>3. u = Append(s, m) \o t /\ v = cs \o ds
    BY <1>2, <1>3, <1>6, <1>9
  <2>4. Around(u, s, m, t)
    BY <2>1, <2>2, <2>3, AroundIs
  <2>5. EndToEnd(Nat, v, cs, ds)
    BY <2>1, <2>3, ConcatIs
  <2>6. a \in Int /\ b \in Int
    BY <1>6, <1>9
  <2> QED
    BY <1>10, <2>4, <2>5, <2>6, FencedJoin
<1>12. hi2[x] = b /\ (\A p \in Nat : p # x => hi2[p] = hi[p]) /\ lo \in [Nat -> Int] /\ hi \in [Nat -> Int]
  <2>1. lo \in [Nat -> Int] /\ hi \in [Nat -> Int]
    BY <1>5 DEF Order, Bounds
  <2> QED
    BY <1>3, <1>6, <1>9, <2>1
<1>13. JoinedFits(qs, lo, hi2, tree, top, x)
  <2>1. a < b /\ a \in Int /\ b \in Int /\ -1 <= a /\ b <= top
    BY <1>6, <1>9
  <2>2. NodeOrdered(qs[x], a, b, top)
    BY <1>2, <1>8, <1>9, <1>11, <2>1 DEF NodeOrdered, Fenced
  <2>3. ASSUME NEW j \in DOMAIN qs[x].children PROVE Fitted(qs, lo, hi2, tree, {}, x, j)
    <3>1. PICK d : d = v[j]
      OBVIOUS
    <3>2. j \in 1..Len(u) + 1 /\ j \in DOMAIN v
      BY <1>8, <1>9, <1>11, <2>3 DEF Fenced
    <3>3. tree[d] = r /\ lo[d] = Fence(u, a, b, j - 1) /\ hi[d] = Fence(u, a, b, j)
      BY <1>11, <3>1, <3>2 DEF Fenced
    <3>4. d \in Kids(pages, x) \cup Kids(pages, y)
      <4>1. ToSet(joined.children) = Kids(pages, x) \cup Kids(pages, y)
        BY <1>2 DEF Merging
      <4>2. d \in ToSet(v)
        BY <3>1, <3>2 DEF ToSet
      <4> QED
        BY <1>9, <4>1, <4>2
    <3>5. d # x /\ d \in Nat
      <4>1. \A e \in Kids(pages, x) \cup Kids(pages, y) : e \in DOMAIN pages /\ pages[e].parent \in {x, y}
        BY <1>5, <1>6 DEF Shape, Descends, Alive
      <4>2. pages[x].parent = parent /\ parent \in DOMAIN pages
        BY <1>5, <1>6 DEF Shape, Pair
      <4>3. \A p \in DOMAIN pages : p \in Nat
        BY <1>5
      <4> QED
        BY <1>6, <3>4, <4>1, <4>2, <4>3
    <3>6. hi2[d] = hi[d] /\ lo[d] \in Int /\ hi[d] \in Int
      BY <1>12, <3>5
    <3>7. Within(Fence(u, a, b, j - 1), Fence(u, a, b, j), lo[d], hi2[d], d \notin {})
      BY <3>3, <3>6 DEF Within
    <3> QED
      BY <1>8, <1>9, <1>12, <3>1, <3>3, <3>7 DEF Fitted
  <2> QED
    BY <1>9, <1>12, <2>2, <2>3 DEF JoinedFits
<1>14. Ordered(lo, hi2, tree, top, {})'
  BY <1>4, <1>13, MergedOrder
<1>15. LeavesKept(pages, qs, tree, tree, {})
  <2>1. \A p \in DOMAIN pages \ {x, y, parent} : Carries(pages[p], qs[p])
    BY <1>5 DEF PairMerged
  <2>2. qs[parent].type = "internal" /\ qs[y].type = "free" /\ qs[x].type = "internal"
    BY <1>2, <1>5, <1>6, <1>8 DEF PairMerged
  <2>3. pages[x].type = "internal" /\ pages[y].type = "internal"
    BY <1>7 DEF Inner
  <2> QED
    BY <1>6, <1>8, <2>1, <2>2, <2>3 DEF LeavesKept, IsLeaf, Carries
<1>16. RowsKept(tree, tree)
  <2>1. \A q, key : ~HasIn(qs, tree, {}, q, key) /\ ~HasIn(pages, tree, {}, q, key)
    BY DEF HasIn
  <2>2. \A q, key : Has(qs, tree, q, key) <=> Has(pages, tree, q, key)
    BY <1>15, <2>1, RowsOutside
  <2> QED
    BY <1>3, <2>2 DEF RowsKept
<1> QED
  BY <1>14, <1>16 DEF OrderKept

-----------------------------------------------------------------------------
\* An empty root becomes its only child.

LEMMA CollapseRootKeepsOrder ==
  ASSUME NEW level, NEW loose, NEW short, Sound(level, loose, short),
         NEW lo, NEW hi, NEW tree, NEW top, NEW gaps, Ordered(lo, hi, tree, top, gaps),
         CollapseRoot
  PROVE  OrderKept(tree)
<1>1. PICK root, child : RootFalls(root, child)
  BY CollapseRootIs
<1>2. PICK qs : qs = pages'
  OBVIOUS
<1>3. /\ Pending("after_child_removed") /\ pages[root].is_root
      /\ Inner(pages, root) /\ root \in DOMAIN pages /\ Len(pages[root].keys) = 0
      /\ DOMAIN pages[root].children = {1} /\ pages[root].children[1] = child
      /\ Alive(pages, child) /\ child \in DOMAIN pages /\ ~pages[child].is_root /\ child # root
      /\ Lowered(pages, qs, free_head, root, child) /\ qs[root].next = pages[child].next
      /\ stack' = <<>>
  BY <1>1, <1>2 DEF RootFalls
<1>4. loose = {} /\ gaps = {}
  BY <1>3, RepairOnTop, RepairMends
<1>5. /\ pages \in Seq(Record) /\ Descends(pages, level) /\ Order(pages, lo, hi, tree, top, {})
  BY <1>4, TreeTyped DEF Ordered, Sound, Tree, Shape
<1>6. /\ qs \in Seq(Record) /\ DOMAIN qs = DOMAIN pages
      /\ qs[child].type = "free" /\ qs[child].children = <<>> /\ ~qs[child].is_root
      /\ qs[root].type = pages[child].type /\ qs[root].is_root
      /\ qs[root].keys = pages[child].keys /\ qs[root].children = pages[child].children
      /\ \A p \in DOMAIN pages \ {root, child} : Carries(pages[p], qs[p])
  BY <1>3 DEF Lowered, Reparented, Carries, FreePage
<1>7. /\ root \in Nat /\ lo[root] \in Int /\ hi[root] \in Int /\ lo[child] \in Int /\ hi[child] \in Int /\ top \in Int
      /\ Alive(pages, root) /\ NodeOrdered(pages[child], lo[child], hi[child], top)
  <2>1. Alive(pages, root)
    BY <1>3 DEF Alive, Inner
  <2> QED
    BY <1>3, <1>5, <2>1, IntervalIs
<1>8. lo[child] = lo[root] /\ hi[child] = hi[root] /\ tree[child] = tree[root]
  <2>1. Fitted(pages, lo, hi, tree, {}, root, 1)
    BY <1>3, <1>5 DEF Order
  <2>2. PICK ks, a, b : ks = pages[root].keys /\ a = lo[root] /\ b = hi[root]
    OBVIOUS
  <2>3. Fence(ks, a, b, 0) = a /\ Fence(ks, a, b, 1) = b
    BY <1>3, <2>2 DEF Fence
  <2> QED
    BY <1>3, <2>1, <2>2, <2>3 DEF Fitted, Within
<1>9. RootFits(lo, hi, tree, top, {}, root) /\ lo[root] = -1 /\ hi[root] = top
  BY <1>3, <1>5 DEF Order, RootFits
<1>10. \A p : IsLeaf(qs, p) <=> IF p = root THEN IsLeaf(pages, child) ELSE IsLeaf(pages, p) /\ p # child
  BY <1>3, <1>6 DEF IsLeaf, Carries
<1>11. ~IsLeaf(pages, root)
  BY <1>3 DEF IsLeaf, Inner
<1>12. \A p \in DOMAIN pages : p \in Nat /\ lo[p] \in Int /\ hi[p] \in Int
  <2>1. \A p \in DOMAIN pages : p \in Nat
    BY <1>5
  <2> QED
    BY <1>5, <2>1 DEF Order, Bounds
<1>13. Order(qs, lo, hi, tree, top, {})
  <2> DEFINE F == {root, child}
  <2>1. OutsideSame(pages, qs, lo, hi, tree, lo, hi, tree, F)
    BY <1>6 DEF OutsideSame
  <2>2. KidsStay(pages, qs, lo, hi, tree, {}, lo, hi, tree, {}, F)
    <3>1. \A p \in DOMAIN pages : \A c \in Kids(pages, p) : c \in DOMAIN pages
      BY <1>5 DEF Descends, Alive
    <3> QED
      BY <1>6, <1>12, <3>1 DEF KidsStay, KidStays
  <2>3. RootsStay(qs, {}, {}, F)
    BY DEF RootsStay
  <2>4. LinksStay(pages, qs, lo, hi, tree, top, lo, tree, F)
    <3>1. ASSUME NEW l \in DOMAIN qs \ F, IsLeaf(pages, l), hi[l] # top PROVE IsLeaf(qs, pages[l].next)
      <4>1. IsLeaf(pages, pages[l].next) /\ lo[pages[l].next] = hi[l]
        BY <1>5, <3>1 DEF Order, Linked, IsLeaf
      <4>2. -1 <= lo[l] /\ lo[l] < hi[l] /\ lo[l] \in Int /\ hi[l] \in Int
        <5>1. Alive(pages, l)
          BY <3>1 DEF IsLeaf, Alive
        <5> QED
          BY <1>5, <5>1, IntervalIs
      <4>3. pages[l].next # child
        <5>1. lo[child] = -1
          BY <1>8, <1>9
        <5> QED
          BY <4>1, <4>2, <5>1
      <4> QED
        BY <1>10, <1>11, <4>1, <4>3
    <3> QED
      BY <3>1 DEF LinksStay
  <2>5. Settled(qs, lo, hi, tree, top, {}, root)
    <3>1. NodeOrdered(qs[root], lo[root], hi[root], top)
      BY <1>6, <1>7, <1>8 DEF NodeOrdered
    <3>2. ASSUME NEW j \in DOMAIN qs[root].children PROVE Fitted(qs, lo, hi, tree, {}, root, j)
      <4>1. Fitted(pages, lo, hi, tree, {}, child, j)
        BY <1>3, <1>5, <1>6, <3>2 DEF Order
      <4> QED
        BY <1>6, <1>8, <4>1 DEF Fitted
    <3>3. IsLeaf(qs, root) => Linked(qs, lo, hi, tree, top, root)
      <4> SUFFICES ASSUME IsLeaf(qs, root) PROVE Linked(qs, lo, hi, tree, top, root)
        OBVIOUS
      <4>1. Linked(pages, lo, hi, tree, top, child)
        BY <1>3, <1>5, <1>10 DEF Order
      <4> QED
        BY <1>3, <1>8, <1>9, <4>1 DEF Linked
    <3> QED
      BY <1>9, <3>1, <3>2, <3>3 DEF Settled
  <2>6. Settled(qs, lo, hi, tree, top, {}, child)
    <3>1. DOMAIN qs[child].children = {}
      BY <1>6
    <3> QED
      BY <1>6, <3>1 DEF Settled, Alive, IsLeaf
  <2>7. InsideSettled(qs, lo, hi, tree, top, {}, F)
    BY <2>5, <2>6 DEF InsideSettled
  <2>8. LeavesApart(qs, lo, hi, tree, F)
    <3>1. ASSUME NEW l \in F \cap DOMAIN qs, NEW m \in DOMAIN qs, IsLeaf(qs, l), IsLeaf(qs, m), l # m, tree[l] = tree[m]
          PROVE  hi[l] <= lo[m] \/ hi[m] <= lo[l]
      <4>1. l = root /\ m # root /\ m # child /\ IsLeaf(pages, child) /\ IsLeaf(pages, m) /\ m \in DOMAIN pages
        BY <1>3, <1>6, <1>10, <3>1
      <4>2. Apart(lo, hi, tree, child, m)
        BY <1>3, <1>5, <4>1 DEF Order
      <4> QED
        BY <1>8, <3>1, <4>1, <4>2 DEF Apart
    <3> QED
      BY <3>1 DEF LeavesApart, Apart
  <2>9. Bounds(lo, hi, tree, top)
    BY <1>5 DEF Order
  <2> HIDE DEF F
  <2> QED
    BY <1>5, <2>1, <2>2, <2>3, <2>4, <2>7, <2>8, <2>9, OrderUpdated
<1>14. Ordered(lo, hi, tree, top, {})'
  BY <1>2, <1>3, <1>13 DEF Ordered, Mended
<1>15. LeavesKept(pages, qs, tree, tree, {root, child})
  BY <1>3, <1>6 DEF LeavesKept, IsLeaf, Carries
<1>16. \A r, key : HasIn(qs, tree, {root, child}, r, key) <=> HasIn(pages, tree, {root, child}, r, key)
  <2>1. pages[root].type # "leaf" /\ qs[child].type # "leaf"
    BY <1>3, <1>6 DEF Inner
  <2> QED
    BY <1>3, <1>6, <1>8, <2>1 DEF HasIn
<1>17. RowsKept(tree, tree)
  <2>1. \A r, key : Has(qs, tree, r, key) <=> Has(pages, tree, r, key)
    BY <1>15, <1>16, RowsOutside
  <2> QED
    BY <1>2, <2>1 DEF RowsKept
<1> QED
  BY <1>14, <1>17 DEF OrderKept

-----------------------------------------------------------------------------
\* A leaf gives up the key of a delete; with its last one, it gives up the end of
\* its interval.
LEMMA LeafLoses ==
  ASSUME NEW keys \in Seq(Nat), NEW a \in Int, NEW b \in Int, NEW top \in Int, LeafOrdered(keys, a, b, top),
         NEW key \in Nat, key \in ToSet(keys),
         NEW ks, ks = RemoveAt(keys, LowerBound(keys, key))
  PROVE  LeafLost(keys, a, b, top, key, ks)
<1>1. PICK n, i : n = Len(keys) /\ i = LowerBound(keys, key)
  OBVIOUS
<1>2. /\ n \in Nat /\ n >= 1 /\ \A j \in 1..n : keys[j] \in Nat
      /\ \A j \in 1..n : a < keys[j] /\ keys[j] <= b
      /\ \A j, k \in 1..n : j < k => keys[j] < keys[k]
      /\ b # top => keys[n] = b
  <2>1. /\ n \in Nat /\ \A j \in 1..n : keys[j] \in Nat
    BY <1>1
  <2>2. DOMAIN keys = 1..n
    BY <1>1
  <2>3. n >= 1
    BY <2>1, <2>2 DEF ToSet
  <2> QED
    BY <1>1, <2>1, <2>3 DEF LeafOrdered
<1>3. i \in 1..n /\ keys[i] = key
  <2>1. PICK p \in 1..n : keys[p] = key
    BY <1>1 DEF ToSet
  <2>2. i = p
    <3>1. \A j \in 1..Len(keys) : j < p => keys[j] < key
      BY <1>1, <1>2, <2>1
    <3>2. key \in Int /\ p \in 1..Len(keys) + 1 /\ (p <= Len(keys) => keys[p] >= key)
      BY <1>1, <1>2, <2>1
    <3>3. LowerBound(keys, key) = p
      BY <3>1, <3>2, LowerBoundAt
    <3> QED
      BY <1>1, <3>3
  <2> QED
    BY <2>1, <2>2
<1>4. /\ ks \in Seq(Nat) /\ Len(ks) = n - 1
      /\ \A j \in 1..n - 1 : ks[j] = IF j < i THEN keys[j] ELSE keys[j + 1]
  <2>1. Removed(Nat, ks, keys, i)
    BY <1>1, <1>3, RemoveAtIs
  <2> QED
    BY <1>1, <2>1 DEF Removed
<1>5. PICK g : g = [j \in 1..n - 1 |-> IF j < i THEN j ELSE j + 1]
  OBVIOUS
<1>6. /\ \A j \in 1..n - 1 : g[j] \in 1..n /\ g[j] # i /\ ks[j] = keys[g[j]]
      /\ \A j, k \in 1..n - 1 : j < k => g[j] < g[k]
      /\ \A p \in 1..n : p # i => \E j \in 1..n - 1 : g[j] = p
  <2>1. \A j \in 1..n - 1 : g[j] \in 1..n /\ g[j] # i /\ ks[j] = keys[g[j]]
    <3> SUFFICES ASSUME NEW j \in 1..n - 1 PROVE g[j] \in 1..n /\ g[j] # i /\ ks[j] = keys[g[j]]
      OBVIOUS
    <3>1. CASE j < i
      <4>1. g[j] = j /\ ks[j] = keys[j]
        BY <1>4, <1>5, <3>1
      <4>2. j \in 1..n /\ j # i
        BY <1>2, <1>3, <3>1
      <4> QED
        BY <4>1, <4>2
    <3>2. CASE ~(j < i)
      <4>1. g[j] = j + 1 /\ ks[j] = keys[j + 1]
        BY <1>4, <1>5, <3>2
      <4>2. j + 1 \in 1..n /\ j + 1 # i
        BY <1>2, <1>3, <3>2
      <4> QED
        BY <4>1, <4>2
    <3> QED
      BY <3>1, <3>2
  <2>2. \A j, k \in 1..n - 1 : j < k => g[j] < g[k]
    BY <1>2, <1>3, <1>5
  <2>3. ASSUME NEW p \in 1..n, p # i PROVE \E j \in 1..n - 1 : g[j] = p
    <3>1. CASE p < i
      <4>1. p \in 1..n - 1 /\ g[p] = p
        BY <1>2, <1>3, <1>5, <2>3, <3>1
      <4> QED
        BY <4>1
    <3>2. CASE p > i
      <4>1. p - 1 \in 1..n - 1 /\ g[p - 1] = p
        BY <1>2, <1>3, <1>5, <2>3, <3>2
      <4> QED
        BY <4>1
    <3> QED
      BY <1>3, <2>3, <3>1, <3>2
  <2> QED
    BY <2>1, <2>2, <2>3
<1>7. ToSet(ks) = ToSet(keys) \ {key}
  <2>1. DOMAIN ks = 1..n - 1 /\ DOMAIN keys = 1..n
    BY <1>1, <1>4
  <2>2. \A p \in 1..n : p # i => keys[p] # key
    BY <1>2, <1>3
  <2>3. \A x \in ToSet(ks) : x \in ToSet(keys) /\ x # key
    BY <1>6, <2>1, <2>2 DEF ToSet
  <2>4. \A x \in ToSet(keys) : x # key => x \in ToSet(ks)
    BY <1>3, <1>6, <2>1 DEF ToSet
  <2> QED
    BY <2>3, <2>4
<1>8. /\ \A j \in 1..n - 1 : a < ks[j] /\ ks[j] <= b /\ ks[j] \in Nat
      /\ \A j, k \in 1..n - 1 : j < k => ks[j] < ks[k]
  BY <1>2, <1>6
<1>9. ASSUME b = top \/ key # Last(keys) PROVE LeafOrdered(ks, a, b, top)
  <2>1. ASSUME b # top PROVE n - 1 # 0 /\ ks[n - 1] = b
    <3>1. Last(keys) = keys[n]
      BY <1>1 DEF Last
    <3>2. i < n
      BY <1>2, <1>3, <1>9, <2>1, <3>1
    <3>3. n - 1 \in 1..n - 1 /\ ks[n - 1] = keys[n - 1 + 1] /\ n - 1 + 1 = n
      BY <1>2, <1>3, <1>4, <3>2
    <3> QED
      BY <1>2, <2>1, <3>3
  <2> QED
    BY <1>4, <1>8, <2>1 DEF LeafOrdered
<1>10. ASSUME key = Last(keys), b # top, Len(ks) # 0
       PROVE  /\ key = b /\ Last(ks) \in Nat /\ a < Last(ks) /\ Last(ks) < b
              /\ LeafOrdered(ks, a, Last(ks), top)
  <2>1. key = b
    BY <1>1, <1>2, <1>10 DEF Last
  <2>2. n - 1 \in 1..n - 1 /\ Last(ks) = ks[n - 1]
    BY <1>2, <1>4, <1>10 DEF Last
  <2>3. ks[n - 1] \in ToSet(ks)
    BY <1>4, <2>2 DEF ToSet
  <2>4. Last(ks) \in Nat /\ a < Last(ks) /\ Last(ks) < b
    <3>1. ks[n - 1] # key /\ ks[n - 1] \in Nat /\ a < ks[n - 1] /\ ks[n - 1] <= b
      BY <1>7, <1>8, <2>2, <2>3
    <3> QED
      BY <2>1, <2>2, <3>1
  <2>5. \A j \in 1..n - 1 : ks[j] <= ks[n - 1]
    <3>1. \A j \in 1..n - 1 : j < n - 1 \/ j = n - 1
      BY <1>2
    <3> QED
      BY <1>8, <2>2, <3>1
  <2> QED
    BY <1>4, <1>8, <1>10, <2>1, <2>2, <2>4, <2>5 DEF LeafOrdered
<1> QED
  BY <1>1, <1>4, <1>7, <1>9, <1>10 DEF LeafLost

\* The climb of lower_ancestor_separator goes from the right end of a page to the
\* right end of its parent, up to the one separator there is for it in the tree.

\* `m` is replaced by `max` among the separators of the tree `t`, and nothing else is.
TopLowered(ps, qs, rs, tree, t, m, max) ==
  /\ Rekeyed(qs, rs, {})
  /\ \A p \in DOMAIN ps : ~(Inner(ps, p) /\ tree[p] = t) => rs[p] = qs[p]
  /\ \A p : Inner(ps, p) /\ tree[p] = t =>
       \A i \in 1..Len(ps[p].keys) : rs[p].keys[i] = IF ps[p].keys[i] = m THEN max ELSE ps[p].keys[i]

\* A page and its place in its parent, where the climb looks for it.
Hangs(ps, qs, lo, hi, tree, p, parent, i) ==
  /\ Alive(ps, p) /\ ~qs[p].is_root /\ qs[p].parent = parent /\ ChildIndex(qs, parent, p) = i
  /\ Inner(ps, parent) /\ tree[parent] = tree[p] /\ qs[parent] = ps[parent]
  /\ ps[parent].keys \in Seq(Nat) /\ Len(ps[parent].keys) \in Nat
  /\ DOMAIN ps[parent].keys = 1..Len(ps[parent].keys)
  /\ i \in 1..Len(ps[parent].keys) + 1 /\ ps[parent].children[i] = p
  /\ lo[parent] \in Int /\ hi[parent] \in Int /\ lo[p] \in Int /\ hi[p] \in Int
  /\ lo[parent] <= lo[p] /\ lo[p] < hi[p] /\ hi[p] <= hi[parent]
  /\ lo[p] = Fence(ps[parent].keys, lo[parent], hi[parent], i - 1)
  /\ hi[p] = Fence(ps[parent].keys, lo[parent], hi[parent], i)

\* The page is the last child of its parent, or has a separator.
LEMMA HangsWhere ==
  ASSUME NEW ps, NEW qs, NEW lo, NEW hi, NEW tree, NEW p, NEW parent, NEW i,
         Hangs(ps, qs, lo, hi, tree, p, parent, i)
  PROVE  /\ Climbing(qs, p) <=> i = Len(ps[parent].keys) + 1
         /\ Climbing(qs, p) => hi[p] = hi[parent]
         /\ ~Climbing(qs, p) => i \in 1..Len(ps[parent].keys) /\ ps[parent].keys[i] = hi[p]
<1>1. PICK n : n = Len(ps[parent].keys)
  OBVIOUS
<1>2. /\ n \in Nat /\ i \in 1..n + 1 /\ DOMAIN ps[parent].keys = 1..n
      /\ hi[p] = Fence(ps[parent].keys, lo[parent], hi[parent], i)
  BY <1>1 DEF Hangs
<1>3. Climbing(qs, p) <=> i \notin 1..n
  BY <1>2 DEF Hangs, Climbing
<1>4. i = n + 1 \/ i \in 1..n
  BY <1>2
<1>5. ASSUME i = n + 1 PROVE Climbing(qs, p) /\ hi[p] = hi[parent]
  BY <1>1, <1>2, <1>3, <1>5 DEF Fence
<1>6. ASSUME i \in 1..n PROVE ~Climbing(qs, p) /\ i # n + 1 /\ ps[parent].keys[i] = hi[p]
  BY <1>1, <1>2, <1>3, <1>6 DEF Fence
<1> QED
  BY <1>1, <1>4, <1>5, <1>6

LEMMA HangsIs ==
  ASSUME NEW ps, NEW level, Shape(ps, level, {}),
         NEW lo, NEW hi, NEW tree, NEW top, Order(ps, lo, hi, tree, top, {}),
         NEW qs, NEW leaf, IsLeaf(ps, leaf), Rekeyed(ps, qs, {leaf}), \A p \in DOMAIN ps \ {leaf} : qs[p] = ps[p],
         NEW parent, Inner(ps, parent), NEW i \in 1..Len(ps[parent].keys) + 1, NEW p, p = ps[parent].children[i]
  PROVE  Hangs(ps, qs, lo, hi, tree, p, parent, i)
<1>1. /\ Descends(ps, level) /\ parent \in DOMAIN ps /\ parent # leaf
      /\ ps[parent].keys \in Seq(Nat) /\ Len(ps[parent].keys) \in Nat
      /\ DOMAIN ps[parent].keys = 1..Len(ps[parent].keys)
      /\ IsInjective(ps[parent].children) /\ DOMAIN ps[parent].children = 1..Len(ps[parent].keys) + 1
  BY InnerIs DEF Shape, Inner, IsLeaf
<1>2. PICK a, b : /\ a = Fence(ps[parent].keys, lo[parent], hi[parent], i - 1)
                  /\ b = Fence(ps[parent].keys, lo[parent], hi[parent], i)
  OBVIOUS
<1>3. /\ Alive(ps, p) /\ p \in Kids(ps, parent) /\ tree[p] = tree[parent]
      /\ a \in Int /\ b \in Int /\ lo[p] \in Int /\ hi[p] \in Int /\ lo[parent] \in Int /\ hi[parent] \in Int
      /\ lo[parent] <= a /\ a <= lo[p] /\ lo[p] < hi[p] /\ hi[p] <= b /\ b <= hi[parent]
      /\ p \notin {} => lo[p] = a /\ hi[p] = b
  BY <1>1, <1>2, ChildFits
<1>4. ps[p].parent = parent /\ ~ps[p].is_root /\ p \in DOMAIN ps
  BY <1>1, <1>3 DEF Shape, Descends, Alive
<1>5. qs[parent] = ps[parent] /\ qs[p].parent = parent /\ ~qs[p].is_root
  BY <1>1, <1>4 DEF Rekeyed, Alike
<1>6. ChildIndex(qs, parent, p) = i
  <2>1. \E j \in DOMAIN qs[parent].children : qs[parent].children[j] = p
    BY <1>1, <1>5
  <2>2. \A j \in DOMAIN qs[parent].children : qs[parent].children[j] = p => j = i
    BY <1>1, <1>5 DEF IsInjective
  <2> QED
    BY <2>1, <2>2 DEF ChildIndex
<1> QED
  BY <1>1, <1>2, <1>3, <1>4, <1>5, <1>6 DEF Hangs

LEMMA HangsUnder ==
  ASSUME NEW ps, NEW level, Shape(ps, level, {}),
         NEW lo, NEW hi, NEW tree, NEW top, Order(ps, lo, hi, tree, top, {}),
         NEW qs, NEW leaf, IsLeaf(ps, leaf), Rekeyed(ps, qs, {leaf}), \A p \in DOMAIN ps \ {leaf} : qs[p] = ps[p],
         NEW p, Alive(ps, p), ~ps[p].is_root
  PROVE  \E parent, i : Hangs(ps, qs, lo, hi, tree, p, parent, i)
<1>1. PICK parent : parent = ps[p].parent
  OBVIOUS
<1>2. Inner(ps, parent) /\ p \in Kids(ps, parent) /\ Descends(ps, level)
  <2>1. Inner(ps, ps[p].parent) /\ p \in Kids(ps, ps[p].parent)
    <3>1. p \notin {}
      OBVIOUS
    <3> QED
      BY <3>1, ParentIs
  <2> QED
    BY <1>1, <2>1 DEF Shape
<1>3. DOMAIN ps[parent].children = 1..Len(ps[parent].keys) + 1
  BY <1>2, InnerIs
<1>4. PICK i \in 1..Len(ps[parent].keys) + 1 : p = ps[parent].children[i]
  BY <1>2, <1>3 DEF Kids, ToSet
<1>5. Hangs(ps, qs, lo, hi, tree, p, parent, i)
  BY <1>2, <1>4, HangsIs
<1> QED
  BY <1>5

\* Whatever hangs at the end `m` of the leaf's interval is climbed through.
SeparatorFollows(ps, qs, rs, lo, hi, tree, top, leaf, t, m, max) ==
  /\ m # top => TopLowered(ps, qs, rs, tree, t, m, max)
  /\ m = top => rs = qs
  /\ \A c : Alive(ps, c) /\ tree[c] = t /\ hi[c] = m /\ ~ps[c].is_root => lo[c] <= lo[leaf]

LEMMA SeparatorLowered ==
  ASSUME NEW ps, NEW level, Shape(ps, level, {}),
         NEW lo, NEW hi, NEW tree, NEW top, Order(ps, lo, hi, tree, top, {}),
         NEW qs, NEW leaf, IsLeaf(ps, leaf), Rekeyed(ps, qs, {leaf}), \A p \in DOMAIN ps \ {leaf} : qs[p] = ps[p],
         Shape(qs, level, {}), NEW max \in Nat, NEW rs, rs = LowerSeparator(qs, leaf, max),
         NEW t, t = tree[leaf], NEW m, m = hi[leaf]
  PROVE  SeparatorFollows(ps, qs, rs, lo, hi, tree, top, leaf, t, m, max)
<1>1. PICK climb : Climbs(qs, max, climb)
  BY LowerSeparatorIs
<1>2. /\ Descends(ps, level) /\ ps \in Seq(Record) /\ DOMAIN qs = DOMAIN ps /\ qs \in Seq(Record)
      /\ \A p : Alive(ps, p) <=> Alive(qs, p)
      /\ \A p \in DOMAIN ps : Alike(ps[p], qs[p])
      /\ \A p : Inner(ps, p) => qs[p] = ps[p]
      /\ \A p : Inner(ps, p) => Alive(ps, p)
  BY DEF Shape, Descends, Rekeyed, Alike, Alive, Inner, IsLeaf
<1>3. Alive(ps, leaf) /\ leaf \in DOMAIN ps
  BY DEF IsLeaf, Alive
<1>4. \A p : Alive(ps, p) => lo[p] \in Int /\ hi[p] \in Int /\ lo[p] < hi[p] /\ hi[p] <= top /\ top \in Int
  BY <1>2, IntervalIs
<1>5. \A p : Alive(ps, p) /\ ~ps[p].is_root => \E parent, i : Hangs(ps, qs, lo, hi, tree, p, parent, i)
  BY HangsUnder
<1>6. \A p \in DOMAIN ps : ps[p].is_root => hi[p] = top
  BY DEF Order, RootFits
<1>7. \A p : Alive(ps, p) => climb[p] = IF ps[p].is_root THEN qs
                                        ELSE IF Climbing(qs, p) THEN climb[qs[p].parent]
                                        ELSE SetKey(qs, qs[p].parent, ChildIndex(qs, qs[p].parent, p), max)
  <2> SUFFICES ASSUME NEW p, Alive(ps, p)
               PROVE climb[p] = IF ps[p].is_root THEN qs
                                ELSE IF Climbing(qs, p) THEN climb[qs[p].parent]
                                ELSE SetKey(qs, qs[p].parent, ChildIndex(qs, qs[p].parent, p), max)
    OBVIOUS
  <2>1. Alive(qs, p) /\ (qs[p].is_root <=> ps[p].is_root)
    BY <1>2 DEF Alike, Alive
  <2> QED
    BY <1>1, <2>1 DEF Climbs
\* Up from the leaf: pages of its tree that end where it ends.
<1>8. \E q : /\ Alive(ps, q) /\ tree[q] = t /\ hi[q] = m /\ ~Climbing(qs, q) /\ rs = climb[q]
  <2>1. PICK Q : Q = {q \in DOMAIN ps : Alive(ps, q) /\ tree[q] = t /\ hi[q] = m}
    OBVIOUS
  <2>2. leaf \in Q
    BY <1>3, <2>1
  <2>3. ClimbStays(qs, Q)
    <3>1. ASSUME NEW p \in Q, Climbing(qs, p) PROVE qs[p].parent \in Q
      <4>1. Alive(ps, p) /\ tree[p] = t /\ hi[p] = m /\ ~ps[p].is_root
        BY <1>2, <2>1, <3>1 DEF Climbing, Alike
      <4>2. PICK parent, i : Hangs(ps, qs, lo, hi, tree, p, parent, i)
        BY <1>5, <4>1
      <4>3. hi[p] = hi[parent]
        BY <3>1, <4>2, HangsWhere
      <4> QED
        BY <1>2, <2>1, <4>1, <4>2, <4>3 DEF Hangs, Inner
    <3> QED
      BY <1>2, <2>1, <3>1 DEF ClimbStays
  <2>4. \E q \in Q : ~Climbing(qs, q) /\ climb[leaf] = climb[q]
    BY <1>1, <2>2, <2>3 DEF Climbs
  <2>5. rs = climb[leaf]
    BY <1>1 DEF Climbs
  <2> QED
    BY <2>1, <2>4, <2>5
\* Down to the leaf: a page that ends where it ends has it at the end.
<1>9. ASSUME NEW c, Alive(ps, c), tree[c] = t, hi[c] = m, ~ps[c].is_root
      PROVE  lo[c] <= lo[leaf] /\ climb[leaf] = climb[c]
  <2>1. PICK Q : Q = {q \in DOMAIN ps : /\ Alive(ps, q) /\ ~ps[q].is_root /\ tree[q] = t /\ hi[q] = m
                                        /\ lo[c] <= lo[q] /\ climb[q] = climb[c]}
    OBVIOUS
  <2>2. c \in Q
    BY <1>4, <1>9, <2>1 DEF Alive
  <2>3. ASSUME NEW p \in Q, Inner(ps, p) PROVE ps[p].children[Len(ps[p].keys) + 1] \in Q
    <3>1. PICK i, b : i = Len(ps[p].keys) + 1 /\ b = ps[p].children[i]
      OBVIOUS
    <3>2. i \in 1..Len(ps[p].keys) + 1
      BY <1>2, <2>3, <3>1, InnerIs
    <3>3. Hangs(ps, qs, lo, hi, tree, b, p, i)
      BY <2>3, <3>1, <3>2, HangsIs
    <3>4. Climbing(qs, b) /\ hi[b] = hi[p]
      BY <3>1, <3>3, HangsWhere
    <3>5. climb[b] = climb[p]
      BY <1>2, <1>7, <3>3, <3>4 DEF Hangs, Alike, Alive
    <3>6. /\ Alive(ps, b) /\ ~ps[b].is_root /\ tree[b] = t /\ hi[b] = m /\ climb[b] = climb[c]
          /\ lo[p] \in Int /\ lo[b] \in Int /\ lo[p] <= lo[b] /\ lo[c] <= lo[p] /\ b \in DOMAIN ps
      BY <1>2, <2>1, <3>3, <3>4, <3>5 DEF Hangs, Alike, Alive
    <3>7. lo[c] <= lo[b]
      BY <1>4, <1>9, <3>6
    <3> QED
      BY <2>1, <3>1, <3>6, <3>7
  <2>4. PICK e \in Q : IsLeaf(ps, e)
    BY <1>2, <1>9, <2>2, <2>3, RightmostLeaf
  <2>5. e = leaf
    <3>1. tree[e] = tree[leaf] /\ hi[e] = hi[leaf]
      BY <2>1, <2>4
    <3> QED
      BY <1>2, <2>4, <3>1, LeafByEnd
  <2> QED
    BY <2>1, <2>4, <2>5
<1>10. PICK q : Alive(ps, q) /\ tree[q] = t /\ hi[q] = m /\ ~Climbing(qs, q) /\ rs = climb[q]
  BY <1>8
<1>11. ASSUME m = top PROVE rs = qs
  <2>1. CASE ps[q].is_root
    BY <1>7, <1>10, <2>1
  <2>2. CASE ~ps[q].is_root
    <3>1. PICK parent, i : Hangs(ps, qs, lo, hi, tree, q, parent, i)
      BY <1>5, <1>10, <2>2
    <3>2. i \in 1..Len(ps[parent].keys) /\ Fence(ps[parent].keys, lo[parent], hi[parent], i) = m
      <4>1. i \in 1..Len(ps[parent].keys)
        BY <1>10, <3>1, HangsWhere
      <4> QED
        BY <1>10, <3>1, <4>1 DEF Hangs
    <3>3. PICK n : n = Len(ps[parent].keys) /\ n \in Nat
      BY <3>1 DEF Hangs
    <3>4. Fence(ps[parent].keys, lo[parent], hi[parent], n + 1) = hi[parent]
      BY <3>3 DEF Fence
    <3>5. Rising(ps[parent].keys, lo[parent], hi[parent])
      BY <1>2, <3>1 DEF Hangs, Inner, Order, NodeOrdered
    <3>6. m < hi[parent]
      <4>1. i \in 0..n + 1 /\ n + 1 \in 0..n + 1 /\ i < n + 1
        BY <3>2, <3>3
      <4> QED
        BY <3>2, <3>3, <3>4, <3>5, <4>1 DEF Rising
    <3>7. hi[parent] \in Int /\ hi[parent] <= top /\ top \in Int
      BY <1>2, <1>4, <3>1 DEF Hangs
    <3> QED
      BY <1>11, <3>6, <3>7
  <2> QED
    BY <2>1, <2>2
<1>12. ASSUME m # top PROVE TopLowered(ps, qs, rs, tree, t, m, max)
  <2>1. ~ps[q].is_root
    BY <1>6, <1>10, <1>12 DEF Alive
  <2>2. PICK parent, i : Hangs(ps, qs, lo, hi, tree, q, parent, i)
    BY <1>5, <1>10, <2>1
  <2>3. i \in 1..Len(ps[parent].keys) /\ ps[parent].keys[i] = m
    BY <1>10, <2>2, HangsWhere
  <2>4. rs = SetKey(qs, parent, i, max)
    BY <1>7, <1>10, <2>1, <2>2 DEF Hangs
  <2>5. parent \in DOMAIN qs /\ i \in 1..Len(qs[parent].keys) /\ Inner(ps, parent) /\ tree[parent] = t
    BY <1>2, <1>10, <2>2, <2>3 DEF Hangs, Inner
  <2>6. Rekeyed(qs, rs, {})
    BY <1>2, <2>4, <2>5, WithKey
  <2>7. /\ \A p \in DOMAIN qs \ {parent} : rs[p] = qs[p]
        /\ rs[parent].keys = [qs[parent].keys EXCEPT ![i] = max]
    <3>1. qs[parent] \in Record
      BY <1>2, <2>5, PageIs
    <3> QED
      BY <2>4, <2>5, <3>1 DEF SetKey, Record
  <2>8. ASSUME NEW p, Inner(ps, p), tree[p] = t, NEW j \in 1..Len(ps[p].keys)
        PROVE  rs[p].keys[j] = IF ps[p].keys[j] = m THEN max ELSE ps[p].keys[j]
    <3>1. CASE ps[p].keys[j] = m
      <4>1. PICK c : c = ps[p].children[j]
        OBVIOUS
      <4>2. j \in 1..Len(ps[p].keys) + 1 /\ j # Len(ps[p].keys) + 1
        BY <1>2, <2>8, InnerIs
      <4>3. Hangs(ps, qs, lo, hi, tree, c, p, j)
        BY <2>8, <4>1, <4>2, HangsIs
      <4>4. ~Climbing(qs, c) /\ hi[c] = m
        BY <3>1, <4>2, <4>3, HangsWhere
      <4>5. Alive(ps, c) /\ tree[c] = t /\ ~ps[c].is_root
        BY <1>2, <2>8, <4>3 DEF Hangs, Alike, Alive
      <4>6. climb[c] = climb[leaf] /\ climb[leaf] = rs
        BY <1>1, <1>9, <4>4, <4>5 DEF Climbs
      <4>7. rs = SetKey(qs, p, j, max)
        BY <1>7, <4>3, <4>4, <4>5, <4>6 DEF Hangs
      <4>8. p \in DOMAIN qs /\ qs[p] = ps[p] /\ qs[p] \in Record /\ j \in DOMAIN qs[p].keys
        <5>1. p \in DOMAIN qs /\ qs[p] = ps[p] /\ qs[p] \in Record
          BY <1>2, <2>8, PageIs DEF Inner
        <5>2. DOMAIN ps[p].keys = 1..Len(ps[p].keys)
          BY <4>3 DEF Hangs
        <5> QED
          BY <2>8, <5>1, <5>2
      <4>9. rs[p].keys = [qs[p].keys EXCEPT ![j] = max]
        BY <4>7, <4>8 DEF SetKey, Record
      <4> QED
        BY <3>1, <4>8, <4>9
    <3>2. CASE ps[p].keys[j] # m
      <4>1. p \in DOMAIN qs /\ qs[p] = ps[p]
        BY <1>2, <2>8 DEF Inner
      <4>2. CASE p = parent
        <5>1. j # i
          BY <2>3, <3>2, <4>2
        <5>2. j \in DOMAIN qs[parent].keys
          BY <1>2, <2>2, <2>8, <4>1, <4>2 DEF Hangs
        <5> QED
          BY <2>7, <3>2, <4>1, <4>2, <5>1, <5>2
      <4>3. CASE p # parent
        BY <2>7, <3>2, <4>1, <4>3
      <4> QED
        BY <4>2, <4>3
    <3> QED
      BY <3>1, <3>2
  <2>9. \A p \in DOMAIN ps : ~(Inner(ps, p) /\ tree[p] = t) => rs[p] = qs[p]
    BY <1>2, <2>5, <2>7
  <2> QED
    BY <2>6, <2>8, <2>9 DEF TopLowered
<1> QED
  BY <1>9, <1>11, <1>12 DEF SeparatorFollows

Sinks(lo, hi, tree, t, m, max, lo2, hi2) ==
  /\ lo2 = [p \in Nat |-> IF tree[p] = t /\ lo[p] = m THEN max ELSE lo[p]]
  /\ hi2 = [p \in Nat |-> IF tree[p] = t /\ hi[p] = m THEN max ELSE hi[p]]

LEMMA OrderLowered ==
  ASSUME NEW ps, NEW level, Shape(ps, level, {}),
         NEW lo, NEW hi, NEW tree, NEW top, Order(ps, lo, hi, tree, top, {}),
         NEW qs, NEW leaf, IsLeaf(ps, leaf), Rekeyed(ps, qs, {leaf}), \A p \in DOMAIN ps \ {leaf} : qs[p] = ps[p],
         NEW max \in Nat, NEW rs, NEW t, t = tree[leaf], NEW m, m = hi[leaf], m # top, lo[leaf] < max, max < m,
         LeafOrdered(qs[leaf].keys, lo[leaf], max, top), TopLowered(ps, qs, rs, tree, t, m, max),
         \A c : Alive(ps, c) /\ tree[c] = t /\ hi[c] = m /\ ~ps[c].is_root => lo[c] <= lo[leaf],
         NEW lo2, NEW hi2, Sinks(lo, hi, tree, t, m, max, lo2, hi2)
  PROVE  Order(rs, lo2, hi2, tree, top, {})
<1>1. /\ Descends(ps, level) /\ ps \in Seq(Record) /\ qs \in Seq(Record) /\ DOMAIN qs = DOMAIN ps
      /\ \A p \in DOMAIN ps : Alike(ps[p], qs[p])
      /\ rs \in Seq(Record) /\ DOMAIN rs = DOMAIN ps
      /\ \A p \in DOMAIN ps : Alike(qs[p], rs[p]) /\ Len(rs[p].keys) = Len(qs[p].keys)
  BY DEF Shape, Descends, Rekeyed, TopLowered
<1>2. /\ \A p \in DOMAIN ps : /\ rs[p].type = ps[p].type /\ rs[p].is_root = ps[p].is_root
                              /\ rs[p].children = ps[p].children /\ rs[p].next = ps[p].next
      /\ \A p : Alive(rs, p) <=> Alive(ps, p)
      /\ \A p : IsLeaf(rs, p) <=> IsLeaf(ps, p)
      /\ \A p : IsLeaf(ps, p) => Alive(ps, p)
      /\ \A p : Inner(ps, p) => Alive(ps, p)
  BY <1>1 DEF Alike, Alive, IsLeaf, Inner
<1>3. /\ lo \in [Nat -> Int] /\ hi \in [Nat -> Int] /\ tree \in [Nat -> Nat] /\ top \in Int
      /\ \A p : Alive(ps, p) => /\ p \in DOMAIN ps /\ p \in Nat /\ lo[p] \in Int /\ hi[p] \in Int
                                /\ -1 <= lo[p] /\ lo[p] < hi[p] /\ hi[p] <= top
                                /\ NodeOrdered(ps[p], lo[p], hi[p], top)
  <2>1. lo \in [Nat -> Int] /\ hi \in [Nat -> Int] /\ tree \in [Nat -> Nat] /\ top \in Int
    BY DEF Order, Bounds
  <2> QED
    BY <1>1, <2>1, IntervalIs
<1>4. m \in Int /\ m <= top /\ lo[leaf] \in Int /\ lo[leaf] < m /\ -1 <= lo[leaf] /\ Alive(ps, leaf)
  BY <1>2, <1>3
<1>5. \A p \in Nat : /\ lo2[p] = (IF tree[p] = t /\ lo[p] = m THEN max ELSE lo[p])
                     /\ hi2[p] = (IF tree[p] = t /\ hi[p] = m THEN max ELSE hi[p])
  BY DEF Sinks
<1>6. Bounds(lo2, hi2, tree, top)
  BY <1>3 DEF Bounds, Sinks
\* No interval ends between the two.
<1>7. \A p : Alive(ps, p) /\ tree[p] = t /\ hi[p] = m => lo[p] <= lo[leaf] /\ lo[p] < max
  <2> SUFFICES ASSUME NEW p, Alive(ps, p), tree[p] = t, hi[p] = m PROVE lo[p] <= lo[leaf] /\ lo[p] < max
    OBVIOUS
  <2>1. ~ps[p].is_root
    BY <1>3 DEF Order, RootFits
  <2>2. lo[p] <= lo[leaf] /\ lo[p] \in Int
    BY <1>3, <2>1
  <2> QED
    BY <1>4, <2>2
<1>8. \A p : Alive(ps, p) => /\ lo2[p] \in Int /\ hi2[p] \in Int /\ -1 <= lo2[p] /\ lo2[p] < hi2[p] /\ hi2[p] <= top
                             /\ lo2[p] <= lo[p] /\ (hi2[p] = top <=> hi[p] = top)
  <2> SUFFICES ASSUME NEW p, Alive(ps, p)
               PROVE  /\ lo2[p] \in Int /\ hi2[p] \in Int /\ -1 <= lo2[p] /\ lo2[p] < hi2[p] /\ hi2[p] <= top
                      /\ lo2[p] <= lo[p] /\ (hi2[p] = top <=> hi[p] = top)
    OBVIOUS
  <2>1. /\ lo[p] \in Int /\ hi[p] \in Int /\ -1 <= lo[p] /\ lo[p] < hi[p] /\ hi[p] <= top
        /\ lo2[p] = (IF tree[p] = t /\ lo[p] = m THEN max ELSE lo[p])
        /\ hi2[p] = (IF tree[p] = t /\ hi[p] = m THEN max ELSE hi[p])
        /\ (tree[p] = t /\ hi[p] = m => lo[p] < max)
    BY <1>3, <1>5, <1>7
  <2> QED
    BY <1>3, <1>4, <2>1
<1>9. \A p : Inner(ps, p) /\ tree[p] = t =>
        FencesLowered(ps[p].keys, lo[p], hi[p], m, max, rs[p].keys, lo2[p], hi2[p])
  <2> SUFFICES ASSUME NEW p, Inner(ps, p), tree[p] = t
               PROVE  FencesLowered(ps[p].keys, lo[p], hi[p], m, max, rs[p].keys, lo2[p], hi2[p])
    OBVIOUS
  <2>1. /\ p \in DOMAIN ps /\ p \in Nat /\ lo[p] \in Int /\ hi[p] \in Int /\ NodeOrdered(ps[p], lo[p], hi[p], top)
        /\ ps[p].type = "internal" /\ p # leaf /\ qs[p] = ps[p]
    BY <1>2, <1>3 DEF Inner, IsLeaf
  <2>2. PICK keys, n, a, b, ks : keys = ps[p].keys /\ n = Len(keys) /\ a = lo[p] /\ b = hi[p] /\ ks = rs[p].keys
    OBVIOUS
  <2>3. /\ keys \in Seq(Nat) /\ n \in Nat /\ a \in Int /\ b \in Int /\ Rising(keys, a, b)
        /\ ks \in Seq(Nat) /\ Len(ks) = n
    <3>1. keys \in Seq(Nat) /\ n \in Nat /\ ks \in Seq(Nat)
      BY <1>1, <2>1, <2>2, PageIs, LenProperties
    <3>2. Rising(keys, a, b)
      BY <2>1, <2>2 DEF NodeOrdered
    <3> QED
      BY <1>1, <2>1, <2>2, <3>1, <3>2
  <2>4. \A i \in 1..n : ks[i] = IF keys[i] = m THEN max ELSE keys[i]
    BY <2>2 DEF TopLowered
  <2>5. \A i, j \in 0..n + 1 : i < j /\ Fence(keys, a, b, j) = m => Fence(keys, a, b, i) < max
    <3> SUFFICES ASSUME NEW i \in 0..n + 1, NEW j \in 0..n + 1, i < j, Fence(keys, a, b, j) = m
                 PROVE  Fence(keys, a, b, i) < max
      OBVIOUS
    <3>1. PICK h, c : h = j - 1 /\ c = ps[p].children[j]
      OBVIOUS
    <3>2. j \in 1..Len(ps[p].keys) + 1 /\ h \in 0..n + 1 /\ (i = h \/ i < h)
      BY <2>2, <2>3, <3>1
    <3>3. Hangs(ps, qs, lo, hi, tree, c, p, j)
      BY <3>1, <3>2, HangsIs
    <3>4. Alive(ps, c) /\ tree[c] = t /\ hi[c] = m /\ lo[c] = Fence(keys, a, b, h) /\ lo[c] \in Int
      BY <2>2, <3>1, <3>3 DEF Hangs
    <3>5. Fence(keys, a, b, h) < max
      BY <1>7, <3>4
    <3>6. i < h => Fence(keys, a, b, i) < Fence(keys, a, b, h)
      BY <2>2, <2>3, <3>2 DEF Rising
    <3>7. Fence(keys, a, b, i) \in Int /\ Fence(keys, a, b, h) \in Int
      BY <2>2, <2>3, <3>2, FenceIs DEF Fences
    <3> QED
      BY <3>2, <3>5, <3>6, <3>7
  <2>6. PICK a2, b2 : a2 = (IF a = m THEN max ELSE a) /\ b2 = (IF b = m THEN max ELSE b)
    OBVIOUS
  <2>7. FencesLowered(keys, a, b, m, max, ks, a2, b2)
    <3>1. n = Len(keys) /\ m \in Int /\ max \in Int /\ max < m
      BY <1>4, <2>2
    <3> QED
      BY ONLY <3>1, <2>3, <2>4, <2>5, <2>6, RisingLowered
  <2>8. a2 = lo2[p] /\ b2 = hi2[p]
    BY <1>5, <2>1, <2>2, <2>6
  <2> QED
    BY <2>2, <2>7, <2>8
<1>10. \A p : Inner(ps, p) /\ tree[p] # t => rs[p] = ps[p] /\ lo2[p] = lo[p] /\ hi2[p] = hi[p]
  BY <1>2, <1>3, <1>5 DEF TopLowered, Inner, IsLeaf
<1>11. \A p : Alive(ps, p) => NodeOrdered(rs[p], lo2[p], hi2[p], top)
  <2> SUFFICES ASSUME NEW p, Alive(ps, p) PROVE NodeOrdered(rs[p], lo2[p], hi2[p], top)
    OBVIOUS
  <2>1. /\ p \in DOMAIN ps /\ p \in Nat /\ lo[p] \in Int /\ hi[p] \in Int /\ NodeOrdered(ps[p], lo[p], hi[p], top)
        /\ rs[p].type = ps[p].type
    BY <1>2, <1>3
  <2>2. -1 <= lo2[p] /\ lo2[p] < hi2[p] /\ hi2[p] <= top
    BY <1>8
  <2>3. ASSUME ps[p].type = "leaf" PROVE LeafOrdered(rs[p].keys, lo2[p], hi2[p], top)
    <3>1. IsLeaf(ps, p) /\ rs[p] = qs[p]
      BY <2>1, <2>3 DEF IsLeaf, TopLowered, Inner
    <3>2. CASE p = leaf
      <4>1. lo2[p] = lo[leaf] /\ hi2[p] = max
        BY <1>4, <1>5, <2>1, <3>2
      <4> QED
        BY <3>1, <3>2, <4>1
    <3>3. CASE p # leaf
      <4>1. ~(tree[p] = t /\ hi[p] = m)
        BY <1>1, <3>1, <3>3, LeafByEnd
      <4>2. hi2[p] = hi[p] /\ lo2[p] <= lo[p] /\ lo2[p] \in Int
        BY <1>5, <1>8, <2>1, <4>1
      <4>3. rs[p].keys = ps[p].keys /\ LeafOrdered(ps[p].keys, lo[p], hi[p], top)
        BY <2>1, <2>3, <3>1, <3>3 DEF NodeOrdered
      <4>4. \A i \in 1..Len(ps[p].keys) : ps[p].keys[i] \in Nat
        BY <1>1, <2>1, PageIs
      <4>5. \A i \in 1..Len(ps[p].keys) : lo[p] < ps[p].keys[i] => lo2[p] < ps[p].keys[i]
        BY <2>1, <4>2, <4>4
      <4> QED
        BY <4>2, <4>3, <4>5 DEF LeafOrdered
    <3> QED
      BY <3>2, <3>3
  <2>4. ASSUME ps[p].type = "internal" PROVE Rising(rs[p].keys, lo2[p], hi2[p])
    <3>1. Inner(ps, p) /\ Rising(ps[p].keys, lo[p], hi[p])
      BY <2>1, <2>4 DEF Inner, NodeOrdered
    <3> QED
      BY <1>9, <1>10, <3>1 DEF FencesLowered
  <2> QED
    BY <2>1, <2>2, <2>3, <2>4 DEF NodeOrdered
<1>12. \A p \in DOMAIN rs : \A i \in DOMAIN rs[p].children : Fitted(rs, lo2, hi2, tree, {}, p, i)
  <2> SUFFICES ASSUME NEW p \in DOMAIN rs, NEW i \in DOMAIN rs[p].children
               PROVE  Fitted(rs, lo2, hi2, tree, {}, p, i)
    OBVIOUS
  <2>1. PICK c, h : c = ps[p].children[i] /\ h = i - 1
    OBVIOUS
  <2>2. Inner(ps, p) /\ i \in DOMAIN ps[p].children /\ rs[p].children[i] = c /\ Alive(ps, p)
    <3>1. i \in DOMAIN ps[p].children /\ rs[p].children[i] = c /\ p \in DOMAIN ps
      BY <1>1, <1>2, <2>1
    <3>2. c \in Kids(ps, p)
      BY <2>1, <3>1 DEF Kids, ToSet
    <3> QED
      BY <1>1, <1>2, <3>1, <3>2, OnlyInnerHasKids
  <2>3. i \in 1..Len(ps[p].keys) + 1 /\ i \in 0..Len(ps[p].keys) + 1 /\ h \in 0..Len(ps[p].keys) + 1
    <3>1. DOMAIN ps[p].children = 1..Len(ps[p].keys) + 1 /\ Len(ps[p].keys) \in Nat
      BY <1>1, <2>2, InnerIs
    <3> QED
      BY <2>1, <2>2, <3>1
  <2>4. Hangs(ps, qs, lo, hi, tree, c, p, i)
    BY <2>1, <2>2, <2>3, HangsIs
  <2>5. /\ tree[c] = tree[p] /\ Alive(ps, c)
        /\ lo[c] = Fence(ps[p].keys, lo[p], hi[p], h) /\ hi[c] = Fence(ps[p].keys, lo[p], hi[p], i)
    BY <2>1, <2>4 DEF Hangs
  <2>6. c \in Nat /\ lo2[c] \in Int /\ hi2[c] \in Int
    BY <1>3, <1>8, <2>5
  <2>7. lo2[c] = Fence(rs[p].keys, lo2[p], hi2[p], h) /\ hi2[c] = Fence(rs[p].keys, lo2[p], hi2[p], i)
    <3>1. CASE tree[p] = t
      <4>1. /\ Fence(rs[p].keys, lo2[p], hi2[p], h) = (IF lo[c] = m THEN max ELSE lo[c])
            /\ Fence(rs[p].keys, lo2[p], hi2[p], i) = (IF hi[c] = m THEN max ELSE hi[c])
        BY <1>9, <2>2, <2>3, <2>5, <3>1 DEF FencesLowered
      <4> QED
        BY <1>5, <2>5, <2>6, <3>1, <4>1
    <3>2. CASE tree[p] # t
      BY <1>5, <1>10, <2>2, <2>5, <2>6, <3>2
    <3> QED
      BY <3>1, <3>2
  <2> QED
    BY <2>1, <2>2, <2>5, <2>6, <2>7 DEF Fitted, Within
<1>13. \A p \in DOMAIN rs : rs[p].is_root => RootFits(lo2, hi2, tree, top, {}, p)
  <2> SUFFICES ASSUME NEW p \in DOMAIN rs, rs[p].is_root PROVE RootFits(lo2, hi2, tree, top, {}, p)
    OBVIOUS
  <2>1. RootFits(lo, hi, tree, top, {}, p) /\ p \in Nat
    <3>1. p \in DOMAIN ps /\ ps[p].is_root
      BY <1>1, <1>2
    <3> QED
      BY <1>1, <3>1 DEF Order
  <2> QED
    BY <1>4, <1>5, <2>1 DEF RootFits
<1>14. \A l \in DOMAIN rs : IsLeaf(rs, l) => Linked(rs, lo2, hi2, tree, top, l)
  <2> SUFFICES ASSUME NEW l \in DOMAIN rs, IsLeaf(rs, l) PROVE Linked(rs, lo2, hi2, tree, top, l)
    OBVIOUS
  <2>1. IsLeaf(ps, l) /\ Alive(ps, l) /\ l \in DOMAIN ps /\ l \in Nat /\ rs[l].next = ps[l].next
        /\ Linked(ps, lo, hi, tree, top, l) /\ (hi2[l] = top <=> hi[l] = top)
    <3>1. IsLeaf(ps, l) /\ Alive(ps, l) /\ l \in DOMAIN ps /\ l \in Nat /\ rs[l].next = ps[l].next
      BY <1>1, <1>2, <1>3
    <3> QED
      BY <1>8, <3>1 DEF Order
  <2>2. CASE hi[l] = top
    BY <2>1, <2>2 DEF Linked
  <2>3. CASE hi[l] # top
    <3>1. PICK x : x = ps[l].next
      OBVIOUS
    <3>2. IsLeaf(ps, x) /\ tree[x] = tree[l] /\ lo[x] = hi[l] /\ x \in Nat
      BY <1>2, <1>3, <2>1, <2>3, <3>1 DEF Linked
    <3>3. lo2[x] = hi2[l] /\ IsLeaf(rs, x)
      BY <1>2, <1>5, <2>1, <3>2
    <3> QED
      BY <2>1, <2>3, <3>1, <3>2, <3>3 DEF Linked
  <2> QED
    BY <2>2, <2>3
<1>15. \A l, o \in DOMAIN rs : IsLeaf(rs, l) /\ IsLeaf(rs, o) => Apart(lo2, hi2, tree, l, o)
  <2>1. \A l, o : IsLeaf(ps, l) /\ IsLeaf(ps, o) /\ l # o /\ tree[l] = tree[o] /\ hi[l] <= lo[o] => hi2[l] <= lo2[o]
    <3> SUFFICES ASSUME NEW l, NEW o, IsLeaf(ps, l), IsLeaf(ps, o), l # o, tree[l] = tree[o], hi[l] <= lo[o]
                 PROVE  hi2[l] <= lo2[o]
      OBVIOUS
    <3>1. /\ lo[l] \in Int /\ hi[l] \in Int /\ lo[l] < hi[l] /\ lo[o] \in Int /\ hi[o] \in Int /\ lo[o] < hi[o]
          /\ lo2[o] = (IF tree[o] = t /\ lo[o] = m THEN max ELSE lo[o])
          /\ hi2[l] = (IF tree[l] = t /\ hi[l] = m THEN max ELSE hi[l])
      BY <1>2, <1>3, <1>5
    <3>2. CASE tree[o] = t /\ lo[o] = m
      <4>1. CASE hi[l] = m
        BY <3>1, <3>2, <4>1
      <4>2. CASE hi[l] # m
        <5>1. Apart(lo, hi, tree, l, leaf)
          BY DEF Order, IsLeaf
        <5>2. l # leaf /\ tree[l] = tree[leaf]
          BY <3>2, <4>2
        <5>3. hi[l] <= lo[leaf]
          BY <1>4, <3>1, <3>2, <4>2, <5>1, <5>2 DEF Apart
        <5> QED
          BY <1>4, <3>1, <3>2, <4>2, <5>3
      <4> QED
        BY <4>1, <4>2
    <3>3. CASE ~(tree[o] = t /\ lo[o] = m)
      BY <1>4, <3>1, <3>3
    <3> QED
      BY <3>2, <3>3
  <2> SUFFICES ASSUME NEW l \in DOMAIN rs, NEW o \in DOMAIN rs, IsLeaf(rs, l), IsLeaf(rs, o)
               PROVE  Apart(lo2, hi2, tree, l, o)
    OBVIOUS
  <2>2. IsLeaf(ps, l) /\ IsLeaf(ps, o) /\ l \in DOMAIN ps /\ o \in DOMAIN ps
    BY <1>1, <1>2
  <2>3. Apart(lo, hi, tree, l, o)
    BY <2>2 DEF Order
  <2> QED
    BY <2>1, <2>2, <2>3 DEF Apart
<1> QED
  BY <1>1, <1>2, <1>6, <1>11, <1>12, <1>13, <1>14, <1>15 DEF Order

\* The leaf keeps its end, or the separators follow it down.
LEMMA DeleteFromLeafKeepsOrder ==
  ASSUME NEW level, NEW loose, NEW short, Sound(level, loose, short),
         NEW lo, NEW hi, NEW tree, NEW top, NEW gaps, Ordered(lo, hi, tree, top, gaps),
         DeleteFromLeaf
  PROVE  KeyRemovedFrom(tree)
<1>a. PICK leaf, key : leaf = Target /\ key = Top.key
  OBVIOUS
<1>b. PICK index : index = LowerBound(pages[leaf].keys, key)
  OBVIOUS
<1>c. PICK ks : ks = RemoveAt(pages[leaf].keys, index)
  OBVIOUS
<1>d. PICK ps : ps = SetKeys(pages, leaf, ks)
  OBVIOUS
<1>e. PICK c : c = Call("leaf_node_rebalance", leaf, NoPage, 0)
  OBVIOUS
<1> DEFINE lacking == ~pages[leaf].is_root /\ Len(ks) < LeafMinCells
           ends == ~pages[leaf].is_root /\ key = Last(pages[leaf].keys)
<1>1. /\ Pending("table_delete") /\ Holds(leaf, key)
      /\ pages' = IF ends THEN LowerSeparator(ps, leaf, Last(ks)) ELSE ps
      /\ Continue(IF lacking THEN <<c>> ELSE <<>>)
  BY <1>a, <1>b, <1>c, <1>d, <1>e DEF DeleteFromLeaf, SetKeys
<1>2. /\ gaps = {} /\ IsLeaf(pages, leaf) /\ tree[leaf] = Top.page
      /\ key \in Nat /\ lo[leaf] < key /\ key <= hi[leaf]
      /\ LeafOrdered(pages[leaf].keys, lo[leaf], hi[leaf], top)
      /\ lo[leaf] \in Int /\ hi[leaf] \in Int /\ -1 <= lo[leaf] /\ hi[leaf] <= top /\ top \in Int
      /\ leaf \in DOMAIN pages /\ pages[leaf].type = "leaf"
      /\ pages[leaf].keys \in Seq(Nat) /\ pages[leaf].children = <<>>
  BY <1>1, <1>a, TargetIs
<1>3. stack' = IF lacking THEN <<c>> ELSE <<>>
  <2>1. CASE lacking
    BY <1>1, <2>1, StatementOnTop
  <2>2. CASE ~lacking
    BY <1>1, <2>2, StatementOnTop
  <2> QED
    BY <2>1, <2>2
<1>4. /\ Order(pages, lo, hi, tree, top, {}) /\ pages \in Seq(Record) /\ Descends(pages, level)
      /\ Len(ks) = Len(pages[leaf].keys) - 1 /\ ks \in Seq(Nat)
      /\ Rekeyed(pages, ps, {leaf}) /\ ps[leaf].keys = ks
      /\ Shape(pages, level, {}) /\ Shape(ps, level, {})
      /\ ~pages[leaf].is_root => Len(ks) # 0
  <2>1. KeyGone(leaf, ks, ps, level)
    BY <1>a, <1>b, <1>c, <1>d, <1>1, KeyRemoved
  <2>2. Order(pages, lo, hi, tree, top, {}) /\ Descends(pages, level)
    BY <1>2, TreeTyped DEF Ordered, Sound
  <2> QED
    BY <2>1, <2>2 DEF KeyGone
<1>5. \A p \in DOMAIN pages \ {leaf} : ps[p] = pages[p]
  <2>1. \A p \in DOMAIN pages \ {leaf} : SetKeys(pages, leaf, ks)[p] = pages[p]
    BY <1>2, <1>4, WithKeys
  <2> QED
    BY <1>d, <2>1
<1>6. LeafLost(pages[leaf].keys, lo[leaf], hi[leaf], top, key, ks)
  <2>1. PICK keys, a, b : keys = pages[leaf].keys /\ a = lo[leaf] /\ b = hi[leaf]
    OBVIOUS
  <2>2. key \in ToSet(keys) /\ ks = RemoveAt(keys, LowerBound(keys, key))
    BY <1>1, <1>b, <1>c, <2>1 DEF Holds
  <2>3. LeafLost(keys, a, b, top, key, ks)
    BY <1>2, <2>1, <2>2, LeafLoses
  <2> QED
    BY <2>1, <2>3
<1>7. DOMAIN ps = DOMAIN pages /\ ps \in Seq(Record) /\ \A p \in DOMAIN pages : Alike(pages[p], ps[p])
  BY <1>4 DEF Rekeyed
<1>8. \A st, qs, lo2, hi2 : (st = <<c>> \/ st = <<>>) => Mended(st, qs, lo2, hi2, tree, top, {})
  BY <1>e DEF Mended, OneMends, Call
\* Only the leaf's keys are others.
<1>9. ASSUME NEW qs, pages' = qs, DOMAIN qs = DOMAIN pages,
             \A p \in DOMAIN pages : qs[p].type = pages[p].type,
             \A p \in DOMAIN pages : pages[p].type = "leaf" => qs[p] = ps[p]
      PROVE  RowLost(tree, tree, Top.page, Top.key)
  <2>1. LeavesKept(pages, pages', tree, tree, {leaf})
    BY <1>5, <1>9 DEF LeavesKept, IsLeaf
  <2>2. pages'[leaf].keys = ks /\ pages'[leaf].type = "leaf" /\ leaf \in DOMAIN pages'
    BY <1>2, <1>4, <1>9
  <2>3. ToSet(ks) = ToSet(pages[leaf].keys) \ {key}
    BY <1>6 DEF LeafLost
  <2>4. \A r, k : HasIn(pages', tree, {leaf}, r, k)
                    <=> HasIn(pages, tree, {leaf}, r, k) /\ ~(r = Top.page /\ k = Top.key)
    BY <1>a, <1>2, <2>2, <2>3 DEF HasIn
  <2>5. ~HasIn(pages, tree, DOMAIN pages \ {leaf}, Top.page, Top.key)
    <3> SUFFICES ASSUME NEW l \in DOMAIN pages, l # leaf, IsLeaf(pages, l), tree[l] = tree[leaf], key \in ToSet(pages[l].keys)
                 PROVE  FALSE
      BY <1>a, <1>2 DEF HasIn, IsLeaf
    <3>1. /\ lo[l] \in Int /\ hi[l] \in Int /\ pages[l].keys \in Seq(Nat)
          /\ NodeOrdered(pages[l], lo[l], hi[l], top) /\ Apart(lo, hi, tree, l, leaf)
      <4>1. Alive(pages, l)
        BY DEF IsLeaf, Alive
      <4> QED
        BY <1>2, <1>4, <4>1, IntervalIs, PageIs DEF Order
    <3>2. PICK keys, a, b : keys = pages[l].keys /\ a = lo[l] /\ b = hi[l]
      OBVIOUS
    <3>3. PICK j \in 1..Len(keys) : keys[j] = key
      BY <3>1, <3>2 DEF ToSet
    <3>4. a < key /\ key <= b
      BY <3>1, <3>2, <3>3 DEF NodeOrdered, LeafOrdered, IsLeaf
    <3>5. b <= lo[leaf] \/ hi[leaf] <= a
      BY <3>1, <3>2 DEF Apart
    <3> QED
      BY <1>2, <3>1, <3>2, <3>4, <3>5
  <2> SUFFICES ASSUME NEW r, NEW k
               PROVE Has(pages', tree, r, k) <=> Has(pages, tree, r, k) /\ ~(r = Top.page /\ k = Top.key)
    BY DEF RowLost
  <2>6. PICK out \in BOOLEAN :
           /\ Has(pages, tree, r, k) <=> HasIn(pages, tree, {leaf}, r, k) \/ out
           /\ Has(pages', tree, r, k) <=> HasIn(pages', tree, {leaf}, r, k) \/ out
           /\ out <=> HasIn(pages, tree, DOMAIN pages \ {leaf}, r, k)
    BY <2>1, RowsOutside
  <2> QED
    BY <2>4, <2>5, <2>6
\* The leaf's interval ends where it did.
<1>10. ASSUME pages' = ps, LeafOrdered(ks, lo[leaf], hi[leaf], top) PROVE KeyRemovedFrom(tree)
  <2>1. /\ \A p \in DOMAIN pages' \ {leaf} : p \in DOMAIN pages /\ Carries(pages[p], pages'[p])
        /\ \A p : IsLeaf(pages, p) <=> IsLeaf(pages', p)
        /\ Alike(pages[leaf], pages'[leaf]) /\ pages'[leaf].keys = ks
    BY <1>2, <1>4, <1>5, <1>7, <1>10 DEF Carries, Alike, IsLeaf
  <2>2. InsideSettled(pages', lo, hi, tree, top, {}, {leaf})
    <3>1. NodeOrdered(pages[leaf], lo[leaf], hi[leaf], top)
      BY <1>2, <1>4 DEF Order, Alive
    <3>2. NodeOrdered(pages'[leaf], lo[leaf], hi[leaf], top)
      BY <1>2, <1>10, <2>1, <3>1 DEF NodeOrdered, Alike
    <3>3. pages'[leaf].children = <<>> /\ (pages'[leaf].is_root => RootFits(lo, hi, tree, top, {}, leaf))
      BY <1>2, <1>4, <2>1 DEF Alike, Order
    <3>4. Linked(pages', lo, hi, tree, top, leaf)
      <4>1. Linked(pages, lo, hi, tree, top, leaf) /\ pages'[leaf].next = pages[leaf].next
        BY <1>2, <1>4, <2>1 DEF Alike, Order
      <4> QED
        BY <2>1, <4>1 DEF Linked
    <3> QED
      BY <3>2, <3>3, <3>4 DEF InsideSettled, Settled
  <2>3. Order(pages', lo, hi, tree, top, {})
    BY <1>4, <2>1, <2>2, OrderRewritten
  <2>4. Ordered(lo, hi, tree, top, {})'
    BY <1>3, <1>8, <2>3 DEF Ordered
  <2>5. RowLost(tree, tree, Top.page, Top.key)
    BY <1>7, <1>9, <1>10 DEF Alike
  <2> QED
    BY <2>4, <2>5 DEF KeyRemovedFrom
<1>11. ASSUME ~ends \/ hi[leaf] = top PROVE KeyRemovedFrom(tree)
  <2>1. pages[leaf].is_root => hi[leaf] = top
    BY <1>2, <1>4 DEF Order, RootFits
  <2>2. LeafOrdered(ks, lo[leaf], hi[leaf], top)
    BY <1>6, <1>11, <2>1 DEF LeafLost
  <2>3. pages' = ps
    <3>1. CASE ends
      <4>1. Last(ks) \in Nat
        BY <1>4, <3>1, Ends
      <4>2. hi[leaf] = top
        BY <1>11, <3>1
      <4>3. PICK max, m, t, rs : max = Last(ks) /\ m = hi[leaf] /\ t = tree[leaf] /\ rs = LowerSeparator(ps, leaf, max)
        OBVIOUS
      <4>4. max \in Nat
        BY <4>1, <4>3
      <4>5. SeparatorFollows(pages, ps, rs, lo, hi, tree, top, leaf, t, m, max)
        BY ONLY <1>2, <1>4, <1>5, <4>3, <4>4, SeparatorLowered
      <4> QED
        BY <1>1, <3>1, <4>2, <4>3, <4>5 DEF SeparatorFollows
    <3>2. CASE ~ends
      BY <1>1, <3>2
    <3> QED
      BY <3>1, <3>2
  <2> QED
    BY <1>10, <2>2, <2>3
\* It ends sooner.
<1>12. ASSUME ends, hi[leaf] # top PROVE KeyRemovedFrom(tree)
  <2>1. PICK max, m, t, rs : max = Last(ks) /\ m = hi[leaf] /\ t = tree[leaf] /\ rs = LowerSeparator(ps, leaf, max)
    OBVIOUS
  <2>2. /\ max \in Nat /\ lo[leaf] < max /\ max < m /\ m # top
        /\ LeafOrdered(ps[leaf].keys, lo[leaf], max, top)
    BY <1>4, <1>6, <1>12, <2>1 DEF LeafLost
  <2>3. /\ m # top => TopLowered(pages, ps, rs, tree, t, m, max)
        /\ \A d : Alive(pages, d) /\ tree[d] = t /\ hi[d] = m /\ ~pages[d].is_root => lo[d] <= lo[leaf]
    <3>1. SeparatorFollows(pages, ps, rs, lo, hi, tree, top, leaf, t, m, max)
      BY ONLY <1>2, <1>4, <1>5, <2>1, <2>2, SeparatorLowered
    <3> QED
      BY <3>1 DEF SeparatorFollows
  <2>4. PICK lo2, hi2 : Sinks(lo, hi, tree, t, m, max, lo2, hi2)
    BY DEF Sinks
  <2>5. Order(rs, lo2, hi2, tree, top, {})
    <3>1. TopLowered(pages, ps, rs, tree, t, m, max)
      BY <2>2, <2>3
    <3> QED
      BY <1>2, <1>4, <1>5, <2>1, <2>2, <2>3, <2>4, <3>1, OrderLowered
  <2>6. pages' = rs
    BY <1>1, <1>12, <2>1
  <2>7. Ordered(lo2, hi2, tree, top, {})'
    BY <1>3, <1>8, <2>5, <2>6 DEF Ordered
  <2>8. RowLost(tree, tree, Top.page, Top.key)
    <3>1. Rekeyed(ps, rs, {}) /\ \A p \in DOMAIN pages : pages[p].type = "leaf" => rs[p] = ps[p]
      BY <2>2, <2>3 DEF TopLowered, Inner
    <3>2. DOMAIN rs = DOMAIN pages /\ \A p \in DOMAIN pages : rs[p].type = pages[p].type
      BY <1>7, <3>1 DEF Rekeyed, Alike
    <3> QED
      BY <1>9, <2>6, <3>1, <3>2
  <2> QED
    BY <2>7, <2>8 DEF KeyRemovedFrom
<1> QED
  BY <1>11, <1>12

-----------------------------------------------------------------------------
\* The trees are in order from the start and stay so.

LEMMA OrderInit ==
  ASSUME Init
  PROVE  OrderInv
<1>1. /\ pages \in Seq(Record) /\ DOMAIN pages = 1..Tables + 1 /\ Tables \in Nat
      /\ \A p \in DOMAIN pages :
           /\ pages[p].type = "leaf" /\ pages[p].is_root
           /\ pages[p].children = <<>> /\ pages[p].next = NoPage
           /\ pages[p].keys = IF p = CatalogRoot THEN [id \in 1..Tables |-> id] ELSE <<>>
  BY FreshPages DEF Init
<1>2. PICK lo, hi, tree, top, gaps :
        /\ lo = [p \in Nat |-> -1] /\ hi = [p \in Nat |-> Tables] /\ tree = [p \in Nat |-> p]
        /\ top = Tables /\ gaps = {}
  OBVIOUS
<1>3. Bounds(lo, hi, tree, top)
  <2>1. lo \in [Nat -> Int] /\ hi \in [Nat -> Int] /\ tree \in [Nat -> Nat] /\ top \in Int
    BY <1>1, <1>2
  <2> QED
    BY <2>1 DEF Bounds
<1>4. ASSUME NEW p \in DOMAIN pages
      PROVE  p \in Nat /\ lo[p] = -1 /\ hi[p] = Tables /\ top = Tables /\ tree[p] = p
  <2>1. p \in Nat
    BY <1>1
  <2> QED
    BY <1>2, <2>1
<1>5. ASSUME NEW p \in DOMAIN pages PROVE NodeOrdered(pages[p], lo[p], hi[p], top)
  <2>1. PICK keys : keys = pages[p].keys
    OBVIOUS
  <2>4. -1 <= -1 /\ -1 < Tables /\ Tables <= Tables /\ pages[p].type = "leaf"
    <3>1. Tables \in Nat /\ pages[p].type = "leaf"
      BY <1>1
    <3> QED
      BY ONLY <3>1
  <2>2. CASE p = CatalogRoot
    <3>1. keys = [id \in 1..Tables |-> id]
      BY <1>1, <2>1, <2>2
    <3>2. Len(keys) = Tables /\ \A i \in 1..Tables : keys[i] = i
      <4>1. keys \in [1..Tables -> Nat]
        BY <3>1
      <4>2. keys \in Seq(Nat) /\ DOMAIN keys = 1..Tables
        BY <1>1, <4>1, SeqDef
      <4> QED
        BY <1>1, <3>1, <4>2, LenProperties
    <3>3. LeafOrdered(keys, -1, Tables, Tables)
      BY <1>1, <3>2 DEF LeafOrdered
    <3> QED
      BY <1>4, <2>1, <2>4, <3>3 DEF NodeOrdered
  <2>3. CASE p # CatalogRoot
    <3>0. keys = <<>>
      BY <1>1, <2>1, <2>3
    <3>1. Len(keys) = 0
      BY <3>0
    <3>2. LeafOrdered(keys, -1, Tables, Tables)
      BY <3>1 DEF LeafOrdered
    <3> QED
      BY <1>4, <2>1, <2>4, <3>2 DEF NodeOrdered
  <2> QED
    BY <2>2, <2>3
<1>6. ASSUME NEW p \in DOMAIN pages PROVE RootFits(lo, hi, tree, top, gaps, p)
  BY <1>4 DEF RootFits
<1>7. ASSUME NEW p \in DOMAIN pages PROVE Linked(pages, lo, hi, tree, top, p)
  BY <1>1, <1>4 DEF Linked
<1>8. ASSUME NEW l \in DOMAIN pages, NEW m \in DOMAIN pages PROVE Apart(lo, hi, tree, l, m)
  BY <1>4 DEF Apart
<1>9. \A p \in DOMAIN pages : DOMAIN pages[p].children = {}
  <2>1. DOMAIN <<>> = {}
    OBVIOUS
  <2> QED
    BY <1>1, <2>1
<1>10. Order(pages, lo, hi, tree, top, gaps)
  BY <1>3, <1>5, <1>6, <1>7, <1>8, <1>9 DEF Order
<1>11. Mended(stack, pages, lo, hi, tree, top, gaps)
  BY <1>2 DEF Init, Mended
<1> QED
  BY <1>10, <1>11, TreeInit DEF OrderInv, Ordered

\* One step of the machine: what it does to the order, and which rows change.
CallsBegin == \E root \in UserRoots, key \in Keys : CallInsert(root, key) \/ CallDelete(root, key)
Adds == InsertIntoLeaf \/ SplitLeaf
Moves ==
  \/ CallsBegin \/ RefuseDuplicate \/ RefuseMissing
  \/ CreateNewRoot \/ AttachToParent \/ InsertChild \/ SplitInternal
  \/ LeafBorrowLeft \/ LeafBorrowRight \/ LeafMerge \/ CollapseRoot \/ KeepNode \/ RepairNode
  \/ InternalBorrowLeft \/ InternalBorrowRight \/ InternalMerge

LEMMA EveryStep ==
  ASSUME Next
  PROVE  Moves \/ Adds \/ DeleteFromLeaf
BY DEF Next, Step, InsertStep, DeleteStep, Moves, Adds, CallsBegin

LEMMA MovesKeepOrder ==
  ASSUME NEW level, NEW loose, NEW short, Sound(level, loose, short),
         NEW lo, NEW hi, NEW tree, NEW top, NEW gaps, Ordered(lo, hi, tree, top, gaps), Moves
  PROVE  OrderKept(tree)
<1>1. CASE CallsBegin
  <2>1. PICK root \in UserRoots, key \in Keys : CallInsert(root, key) \/ CallDelete(root, key)
    BY <1>1 DEF CallsBegin
  <2> QED
    BY <2>1, CallKeepsOrder
<1>2. CASE RefuseDuplicate \/ RefuseMissing
  BY <1>2, RefuseKeepsOrder
<1>3. CASE KeepNode \/ RepairNode
  BY <1>3, AfterRemovalKeepsOrder
<1>4. CASE CreateNewRoot \/ AttachToParent \/ InsertChild \/ SplitInternal
  BY <1>4, CreateNewRootKeepsOrder, AttachToParentKeepsOrder, InsertChildKeepsOrder, SplitInternalKeepsOrder
<1>5. CASE LeafBorrowLeft \/ LeafBorrowRight \/ InternalBorrowLeft \/ InternalBorrowRight
  BY <1>5, LeafBorrowLeftKeepsOrder, LeafBorrowRightKeepsOrder, InternalBorrowLeftKeepsOrder,
     InternalBorrowRightKeepsOrder
<1>6. CASE LeafMerge \/ InternalMerge \/ CollapseRoot
  BY <1>6, LeafMergeKeepsOrder, InternalMergeKeepsOrder, CollapseRootKeepsOrder
<1> QED
  BY <1>1, <1>2, <1>3, <1>4, <1>5, <1>6 DEF Moves

LEMMA AddsKeepOrder ==
  ASSUME NEW level, NEW loose, NEW short, Sound(level, loose, short),
         NEW lo, NEW hi, NEW tree, NEW top, NEW gaps, Ordered(lo, hi, tree, top, gaps), Adds
  PROVE  KeyAdded(tree)
BY InsertIntoLeafKeepsOrder, SplitLeafKeepsOrder DEF Adds

LEMMA OrderStep ==
  ASSUME OrderInv, [Next]_vars
  PROVE  OrderInv'
<1>1. TreeInv /\ TreeInv'
  BY TreeStep DEF OrderInv
<1>2. PICK level, loose, short : Sound(level, loose, short)
  BY <1>1 DEF TreeInv
<1>3. PICK lo, hi, tree, top, gaps : Ordered(lo, hi, tree, top, gaps)
  BY DEF OrderInv
<1>4. CASE Next
  <2>1. CASE Moves
    <3>1. OrderKept(tree)
      BY <1>2, <1>3, <2>1, MovesKeepOrder
    <3> QED
      BY <1>1, <3>1 DEF OrderKept, OrderInv
  <2>2. CASE Adds
    <3>1. KeyAdded(tree)
      BY <1>2, <1>3, <2>2, AddsKeepOrder
    <3> QED
      BY <1>1, <3>1 DEF KeyAdded, OrderInv
  <2>3. CASE DeleteFromLeaf
    <3>1. KeyRemovedFrom(tree)
      BY <1>2, <1>3, <2>3, DeleteFromLeafKeepsOrder
    <3> QED
      BY <1>1, <3>1 DEF KeyRemovedFrom, OrderInv
  <2> QED
    BY <1>4, <2>1, <2>2, <2>3, EveryStep
<1>5. CASE UNCHANGED vars
  <2>1. pages' = pages /\ stack' = stack
    BY <1>5 DEF vars
  <2>2. Ordered(lo, hi, tree, top, gaps)'
    BY <1>3, <2>1 DEF Ordered
  <2> QED
    BY <1>1, <2>2 DEF OrderInv
<1> QED
  BY <1>4, <1>5

\* In every state each page has its interval of keys: inner nodes divide theirs
\* among their children, leaves hold sorted keys of theirs and are chained in
\* the order of their intervals (leaf_node_split_and_insert, leaf_node_merge,
\* internal_node_insert, the borrows); only what the pending calls of an insert
\* are about to place is out of line.
THEOREM KeysStayOrdered == Spec => []OrderInv
<1>1. Init => OrderInv
  BY OrderInit
<1>2. OrderInv /\ [Next]_vars => OrderInv'
  BY OrderStep
<1> QED
  BY <1>1, <1>2, PTL DEF Spec

-----------------------------------------------------------------------------
\* What is under a page has its interval within the page's, and belongs to the
\* same tree.

LEMMA SoundAndOrdered ==
  ASSUME NEW level, NEW loose, NEW short, Sound(level, loose, short),
         NEW lo, NEW hi, NEW tree, NEW top, NEW gaps, Ordered(lo, hi, tree, top, gaps)
  PROVE  /\ Shape(pages, level, loose) /\ Descends(pages, level) /\ pages \in Seq(Record)
         /\ DOMAIN pages = 1..Len(pages) /\ Len(pages) \in Nat
         /\ roots = {p \in DOMAIN pages : pages[p].is_root}
         /\ Order(pages, lo, hi, tree, top, gaps) /\ Mended(stack, pages, lo, hi, tree, top, gaps)
         /\ \A r \in roots : /\ r \in DOMAIN pages /\ Alive(pages, r) /\ Topmost(r, loose)
                             /\ tree[r] = r /\ lo[r] = -1
<1>1. /\ Shape(pages, level, loose) /\ Descends(pages, level) /\ pages \in Seq(Record)
      /\ DOMAIN pages = 1..Len(pages) /\ Len(pages) \in Nat
      /\ roots = {p \in DOMAIN pages : pages[p].is_root}
  BY TreeTyped DEF Sound, Tree
<1>2. Order(pages, lo, hi, tree, top, gaps) /\ Mended(stack, pages, lo, hi, tree, top, gaps)
  BY DEF Ordered
<1>3. ASSUME NEW r \in roots
      PROVE  /\ r \in DOMAIN pages /\ Alive(pages, r) /\ Topmost(r, loose)
             /\ tree[r] = r /\ lo[r] = -1
  <2>1. r \in DOMAIN pages /\ pages[r].is_root
    BY <1>1, <1>3
  <2>2. Alive(pages, r)
    BY <1>1, <2>1 DEF Shape
  <2>3. RootFits(lo, hi, tree, top, gaps, r)
    BY <1>2, <2>1 DEF Order
  <2> QED
    BY <2>1, <2>2, <2>3 DEF Topmost, RootFits
<1> QED
  BY <1>1, <1>2, <1>3

\* A child's interval is within its parent's.
LEMMA KidWithin ==
  ASSUME NEW ps, NEW level, Descends(ps, level),
         NEW lo, NEW hi, NEW tree, NEW top, NEW gaps, Order(ps, lo, hi, tree, top, gaps),
         NEW p \in DOMAIN ps, NEW c \in Kids(ps, p)
  PROVE  /\ Alive(ps, c) /\ tree[c] = tree[p]
         /\ lo[p] <= lo[c] /\ hi[c] <= hi[p]
<1>1. Inner(ps, p)
  BY OnlyInnerHasKids
<1>2. PICK i \in DOMAIN ps[p].children : c = ps[p].children[i]
  BY DEF Kids, ToSet
<1>3. i \in 1..Len(ps[p].keys) + 1
  BY <1>1, <1>2, InnerIs
<1>4. PICK a, b : a = Fence(ps[p].keys, lo[p], hi[p], i - 1) /\ b = Fence(ps[p].keys, lo[p], hi[p], i)
  OBVIOUS
<1>5. /\ Alive(ps, c) /\ c \in Kids(ps, p) /\ tree[c] = tree[p]
      /\ a \in Int /\ b \in Int /\ lo[c] \in Int /\ hi[c] \in Int /\ lo[p] \in Int /\ hi[p] \in Int
      /\ lo[p] <= a /\ a <= lo[c] /\ lo[c] < hi[c] /\ hi[c] <= b /\ b <= hi[p]
  BY <1>1, <1>2, <1>3, <1>4, ChildFits
<1> QED
  BY <1>5

LEMMA NestedUnder ==
  ASSUME NEW level, Descends(pages, level), pages \in Seq(Record),
         NEW lo, NEW hi, NEW tree, NEW top, NEW gaps, Order(pages, lo, hi, tree, top, gaps),
         NEW c, Alive(pages, c)
  PROVE  /\ c \in PagesUnder(c)
         /\ \A p \in PagesUnder(c) :
              Alive(pages, p) /\ tree[p] = tree[c] /\ lo[c] <= lo[p] /\ hi[p] <= hi[c]
<1> DEFINE C == {p \in DOMAIN pages : Alive(pages, p) /\ tree[p] = tree[c] /\ lo[c] <= lo[p] /\ hi[p] <= hi[c]}
<1>1. \A p : Alive(pages, p) => p \in DOMAIN pages /\ lo[p] \in Int /\ hi[p] \in Int
  BY IntervalIs
<1>2. c \in C
  BY <1>1
<1>3. Closed(C)
  <2>1. ASSUME NEW p \in C, NEW d \in Kids(pages, p) PROVE d \in C
    <3>1. Alive(pages, d) /\ tree[d] = tree[p] /\ lo[p] <= lo[d] /\ hi[d] <= hi[p]
      BY <2>1, KidWithin
    <3>2. /\ lo[p] \in Int /\ lo[d] \in Int /\ lo[c] \in Int /\ hi[p] \in Int /\ hi[d] \in Int /\ hi[c] \in Int
          /\ lo[c] <= lo[p] /\ hi[p] <= hi[c] /\ tree[p] = tree[c] /\ d \in DOMAIN pages
      BY <1>1, <2>1, <3>1
    <3>3. lo[c] <= lo[d] /\ hi[d] <= hi[c]
      BY ONLY <3>1, <3>2
    <3> QED
      BY <3>1, <3>2, <3>3
  <2> QED
    BY <2>1 DEF Closed
<1>4. c \in DOMAIN pages
  BY DEF Alive
<1> HIDE DEF C
<1>5. c \in PagesUnder(c) /\ PagesUnder(c) \subseteq C
  BY <1>2, <1>3, <1>4, Under
<1> QED
  BY <1>5 DEF C

LEMMA TreeUnder ==
  ASSUME NEW level, NEW loose, NEW short, Sound(level, loose, short),
         NEW lo, NEW hi, NEW tree, NEW top, NEW gaps, Ordered(lo, hi, tree, top, gaps),
         NEW root \in roots
  PROVE  root \in PagesUnder(root) /\ \A p \in PagesUnder(root) : Alive(pages, p) /\ tree[p] = root
BY SoundAndOrdered, NestedUnder

\* When no insert is placing a page, nothing is out of line.
LEMMA NothingLoose ==
  ASSUME NEW level, NEW loose, NEW short, Sound(level, loose, short),
         NEW lo, NEW hi, NEW tree, NEW top, NEW gaps, Ordered(lo, hi, tree, top, gaps), ~Inserting
  PROVE  loose = {} /\ gaps = {}
<1>1. Mended(stack, pages, lo, hi, tree, top, gaps)
  BY DEF Ordered
<1>2. CASE stack = <<>>
  BY <1>1, <1>2 DEF Mended, Sound, Work
<1>3. ASSUME NEW c, stack = <<c>> PROVE loose = {} /\ gaps = {}
  <2>1. DOMAIN stack = {1} /\ stack[1] = c
    BY <1>3
  <2>2. c.fn \notin {"attach_sibling", "internal_node_insert"}
    BY <2>1 DEF Inserting
  <2>3. OneCall(c, pages, max_keys, roots, level, loose, short)
    BY <1>3 DEF Sound, Work
  <2>4. OneMends(c, pages, lo, hi, tree, top, gaps)
    BY <1>1, <1>3 DEF Mended
  <2> QED
    BY <2>2, <2>3, <2>4 DEF OneCall, OneMends, AttachCall, PlaceCall
<1>4. ASSUME NEW c, NEW d, stack = <<c, d>>, TwoCalls(c, d, pages, max_keys, level, loose, short) PROVE FALSE
  <2>1. 2 \in DOMAIN stack /\ stack[2] = d /\ d.fn = "attach_sibling"
    BY <1>4 DEF TwoCalls, AttachCall
  <2> QED
    BY <2>1 DEF Inserting
<1> QED
  BY <1>2, <1>3, <1>4 DEF Sound, Work

\* Then a tree's pages are those under its root.
LEMMA TreeIsUnder ==
  ASSUME NEW level, NEW loose, NEW short, Sound(level, loose, short),
         NEW lo, NEW hi, NEW tree, NEW top, NEW gaps, Ordered(lo, hi, tree, top, gaps), ~Inserting,
         NEW root \in roots, NEW p, Alive(pages, p), tree[p] = root
  PROVE  p \in PagesUnder(root)
<1>1. Shape(pages, level, loose) /\ roots = {r \in DOMAIN pages : pages[r].is_root}
  BY SoundAndOrdered
<1>2. loose = {}
  BY NothingLoose
<1>3. PICK r : Topmost(r, loose) /\ p \in PagesUnder(r)
  BY <1>1, AllUnder
<1>4. r \in roots
  BY <1>1, <1>2, <1>3 DEF Topmost
<1>5. tree[p] = r
  BY <1>3, <1>4, TreeUnder
<1> QED
  BY <1>3, <1>5

-----------------------------------------------------------------------------
\* A separator is the largest key under the child before it.
LEMMA SeparatorExact ==
  ASSUME NEW level, NEW loose, NEW short, Sound(level, loose, short),
         NEW lo, NEW hi, NEW tree, NEW top, Ordered(lo, hi, tree, top, {}),
         NEW p, Inner(pages, p), NEW i \in 1..Len(pages[p].keys)
  PROVE  pages[p].keys[i] = Max(KeysUnder(pages[p].children[i]))
<1>1. Descends(pages, level) /\ pages \in Seq(Record) /\ Order(pages, lo, hi, tree, top, {})
  BY SoundAndOrdered
<1>2. PICK c, keys : c = pages[p].children[i] /\ keys = pages[p].keys
  OBVIOUS
<1>3. PICK a, b : a = Fence(keys, lo[p], hi[p], i - 1) /\ b = Fence(keys, lo[p], hi[p], i)
  OBVIOUS
<1>4. keys \in Seq(Nat) /\ Len(keys) \in Nat /\ Alive(pages, p) /\ i \in 1..Len(keys) + 1
  BY <1>1, <1>2, InnerIs
<1>5. /\ lo[p] \in Int /\ hi[p] \in Int /\ top \in Int /\ hi[p] <= top
      /\ NodeOrdered(pages[p], lo[p], hi[p], top)
  BY <1>1, <1>4, IntervalIs
<1>6. b = keys[i] /\ keys[i] \in Nat /\ keys[i] < hi[p]
  <2>1. Fences(keys, lo[p], hi[p], Len(keys))
    BY <1>4, <1>5, FenceIs
  <2>2. Rising(keys, lo[p], hi[p])
    BY <1>2, <1>5 DEF NodeOrdered, Inner
  <2>3. PICK m : m = Len(keys) + 1
    OBVIOUS
  <2>4. i \in 0..Len(keys) + 1 /\ m \in 0..Len(keys) + 1 /\ i < m /\ i \in 1..Len(keys)
    BY <1>2, <1>4, <2>3
  <2>5. Fence(keys, lo[p], hi[p], i) < Fence(keys, lo[p], hi[p], m)
    BY <2>2, <2>4 DEF Rising
  <2> QED
    BY <1>3, <2>1, <2>3, <2>4, <2>5 DEF Fences
<1>7. Alive(pages, c) /\ hi[c] = keys[i]
  <2>1. /\ i \in 1..Len(pages[p].keys) + 1 /\ c = pages[p].children[i]
        /\ a = Fence(pages[p].keys, lo[p], hi[p], i - 1) /\ b = Fence(pages[p].keys, lo[p], hi[p], i)
    BY <1>2, <1>3, <1>4
  <2>2. Alive(pages, c) /\ (c \notin {} => hi[c] = b)
    BY <1>1, <2>1, ChildFits
  <2> QED
    BY <1>6, <2>2
<1>8. hi[c] # top /\ hi[c] \in Int
  BY ONLY <1>5, <1>6, <1>7
<1>9. /\ c \in PagesUnder(c)
      /\ \A q \in PagesUnder(c) :
              Alive(pages, q) /\ tree[q] = tree[c] /\ lo[c] <= lo[q] /\ hi[q] <= hi[c]
  BY <1>1, <1>7, NestedUnder
<1>10. ASSUME NEW k \in KeysUnder(c) PROVE k \in Nat /\ k <= hi[c]
  <2>1. PICK l \in PagesUnder(c) : pages[l].type = "leaf" /\ k \in ToSet(pages[l].keys)
    BY <1>10 DEF KeysUnder, LeavesUnder
  <2>2. PICK ks : ks = pages[l].keys
    OBVIOUS
  <2>3. /\ Alive(pages, l) /\ hi[l] <= hi[c] /\ hi[l] \in Int /\ hi[c] \in Int
        /\ LeafOrdered(ks, lo[l], hi[l], top)
    BY <1>1, <1>8, <1>9, <2>1, <2>2, IntervalIs DEF NodeOrdered
  <2>4. ks \in Seq(Nat) /\ DOMAIN ks = 1..Len(ks)
    BY <1>1, <2>2, <2>3, PageIs DEF Alive
  <2>5. PICK j \in 1..Len(ks) : k = ks[j]
    BY <2>1, <2>2, <2>4 DEF ToSet
  <2>6. k \in Nat /\ k <= hi[l]
    BY <2>3, <2>4, <2>5 DEF LeafOrdered
  <2> QED
    BY ONLY <2>3, <2>6
<1>11. hi[c] \in KeysUnder(c)
  \* The rightmost leaf's interval ends where the child's does.
  <2> DEFINE Q == {q \in PagesUnder(c) : hi[q] = hi[c]}
  <2>1. Closed(PagesUnder(c))
    BY <1>1, <1>7, Under DEF Alive
  <2>2. ASSUME NEW q \in Q, Inner(pages, q) PROVE pages[q].children[Len(pages[q].keys) + 1] \in Q
    <3>1. PICK d, n, ks : d = pages[q].children[n] /\ n = Len(pages[q].keys) + 1 /\ ks = pages[q].keys
      OBVIOUS
    <3>2. ks \in Seq(Nat) /\ Len(ks) \in Nat /\ Alive(pages, q) /\ n \in 1..Len(ks) + 1
      BY <1>1, <2>2, <3>1, InnerIs
    <3>3. PICK x, y : x = Fence(ks, lo[q], hi[q], n - 1) /\ y = Fence(ks, lo[q], hi[q], n)
      OBVIOUS
    <3>4. d \in Kids(pages, q) /\ hi[d] = y
      <4>1. /\ n \in 1..Len(pages[q].keys) + 1 /\ d = pages[q].children[n] /\ Inner(pages, q)
            /\ x = Fence(pages[q].keys, lo[q], hi[q], n - 1) /\ y = Fence(pages[q].keys, lo[q], hi[q], n)
        BY <2>2, <3>1, <3>2, <3>3
      <4>2. d \in Kids(pages, q) /\ (d \notin {} => hi[d] = y)
        BY <1>1, <4>1, ChildFits
      <4> QED
        BY <4>2
    <3>5. y = hi[q]
      <4>1. lo[q] \in Int /\ hi[q] \in Int
        BY <1>1, <3>2, IntervalIs
      <4>2. Fences(ks, lo[q], hi[q], Len(ks))
        BY <3>2, <4>1, FenceIs
      <4> QED
        BY <3>1, <3>3, <4>2 DEF Fences
    <3>6. d \in PagesUnder(c)
      BY <2>1, <2>2, <3>4 DEF Closed
    <3> QED
      BY <2>2, <3>1, <3>4, <3>5, <3>6
  <2>3. c \in Q
    BY <1>9
  <2>4. PICK R : R = Q
    OBVIOUS
  <2>5. c \in R /\ \A q \in R : Inner(pages, q) => pages[q].children[Len(pages[q].keys) + 1] \in R
    BY <2>2, <2>3, <2>4
  <2>6. PICK e \in R : IsLeaf(pages, e)
    BY <1>1, <1>7, <2>5, RightmostLeaf
  <2>7. e \in PagesUnder(c) /\ hi[e] = hi[c] /\ pages[e].type = "leaf" /\ Alive(pages, e)
    BY <1>9, <2>4, <2>6 DEF IsLeaf
  <2>8. PICK ks : ks = pages[e].keys
    OBVIOUS
  <2>9. LeafOrdered(ks, lo[e], hi[e], top)
    BY <1>1, <2>7, <2>8, IntervalIs DEF NodeOrdered
  <2>10. ks \in Seq(Nat) /\ DOMAIN ks = 1..Len(ks) /\ Len(ks) \in Nat
    BY <1>1, <2>7, <2>8, PageIs DEF Alive
  <2>11. Len(ks) # 0 /\ ks[Len(ks)] = hi[c]
    BY <1>8, <2>7, <2>9 DEF LeafOrdered
  <2>12. hi[c] \in ToSet(ks)
    BY <2>10, <2>11 DEF ToSet
  <2> QED
    BY <2>7, <2>8, <2>12 DEF KeysUnder, LeavesUnder
<1>12. KeysUnder(c) \in SUBSET Int /\ \A k \in KeysUnder(c) : k <= hi[c]
  BY <1>10
<1>13. Max(KeysUnder(c)) = hi[c]
  <2>1. PICK S : S = KeysUnder(c)
    OBVIOUS
  <2> QED
    BY <1>11, <1>12, <2>1, MaxIs
<1> QED
  BY <1>2, <1>7, <1>13

LEMMA OrderIsExact ==
  ASSUME OrderInv
  PROVE  SeparatorsExact
<1> SUFFICES ASSUME ~Inserting, NEW p \in DOMAIN pages, pages[p].type = "internal",
                    NEW i \in DOMAIN pages[p].keys
             PROVE  pages[p].keys[i] = Max(KeysUnder(pages[p].children[i]))
  BY DEF SeparatorsExact
<1>1. PICK level, loose, short : Sound(level, loose, short)
  BY DEF OrderInv, TreeInv
<1>2. PICK lo, hi, tree, top, gaps : Ordered(lo, hi, tree, top, gaps)
  BY DEF OrderInv
<1>3. gaps = {}
  BY <1>1, <1>2, NothingLoose
<1>4. Inner(pages, p)
  BY DEF Inner
<1>5. i \in 1..Len(pages[p].keys)
  <2>1. pages[p].keys \in Seq(Nat)
    BY <1>1, <1>2, <1>4, SoundAndOrdered, InnerIs
  <2> QED
    BY <2>1
<1> QED
  BY <1>1, <1>2, <1>3, <1>4, <1>5, SeparatorExact

\* Whatever inserts and deletes have run, every separator is the largest key in
\* the subtree to its left, between statements and at every call of a deletion's
\* repairs: splits (leaf_node_split_and_insert, internal_node_split_and_insert),
\* borrows, merges and the re-keying after a removal (lower_ancestor_separator) all keep
\* it so.  executor.c trusts a separator to be a key of the table.
THEOREM SeparatorsStayExact == Spec => []SeparatorsExact
<1>1. OrderInv => SeparatorsExact
  BY OrderIsExact
<1> QED
  BY <1>1, KeysStayOrdered, PTL

-----------------------------------------------------------------------------
\* The chain of a tree's leaves.

\* A page is the child of one parent only, at one place.
LEMMA SlotIsHere ==
  ASSUME NEW level, NEW loose, Shape(pages, level, loose), pages \in Seq(Record),
         NEW p, Inner(pages, p), NEW q \in DOMAIN pages, NEW i \in DOMAIN pages[q].children,
         pages[q].children[i] = pages[p].children[1]
  PROVE  q = p /\ i = 1
<1>1. Descends(pages, level)
  BY DEF Shape
<1>2. /\ p \in DOMAIN pages /\ DOMAIN pages[p].children = 1..Len(pages[p].keys) + 1
      /\ Len(pages[p].keys) \in Nat /\ IsInjective(pages[p].children)
  BY <1>1, InnerIs
<1>3. 1 \in DOMAIN pages[p].children
  BY <1>2
<1>4. PICK g : g = pages[p].children[1]
  OBVIOUS
<1>5. g \in Kids(pages, p) /\ g \in Kids(pages, q)
  BY <1>3, <1>4 DEF Kids, ToSet
<1>6. q = p
  BY <1>2, <1>5 DEF Shape
<1> QED
  BY <1>2, <1>3, <1>6 DEF IsInjective

\* A tree's first child, and so its first leaf, begins where the tree does, also
\* while a split's new half is still to be placed: that is never the first.
LEMMA FirstChildBegins ==
  ASSUME NEW level, NEW loose, NEW short, Sound(level, loose, short),
         NEW lo, NEW hi, NEW tree, NEW top, NEW gaps, Ordered(lo, hi, tree, top, gaps),
         NEW p, Inner(pages, p), lo[p] = -1, NEW c, c = pages[p].children[1]
  PROVE  lo[c] = -1
<1>1. /\ Shape(pages, level, loose) /\ Descends(pages, level) /\ pages \in Seq(Record)
      /\ Order(pages, lo, hi, tree, top, gaps) /\ Mended(stack, pages, lo, hi, tree, top, gaps)
  BY SoundAndOrdered
<1>2. PICK a, b : a = Fence(pages[p].keys, lo[p], hi[p], 0) /\ b = Fence(pages[p].keys, lo[p], hi[p], 1)
  OBVIOUS
<1>3. a = -1
  BY <1>2 DEF Fence
<1>4. Alive(pages, c) /\ c \in Kids(pages, p) /\ (c \notin gaps => lo[c] = a)
  <2>1. /\ 1 \in 1..Len(pages[p].keys) + 1
        /\ a = Fence(pages[p].keys, lo[p], hi[p], 1 - 1) /\ b = Fence(pages[p].keys, lo[p], hi[p], 1)
    <3>1. Len(pages[p].keys) \in Nat
      BY <1>1, InnerIs
    <3> QED
      BY <1>2, <3>1
  <2> QED
    BY <1>1, <2>1, ChildFits
<1>5. ~pages[c].is_root /\ pages[c].parent = p /\ p \in DOMAIN pages
  BY <1>1, <1>4 DEF Shape, Descends, Inner
<1>6. ASSUME NEW new, NEW key, Halves(pages, lo, hi, tree, top, gaps, c, new, key) PROVE lo[c] = -1
  <2>1. PICK i : Slot(pages, lo, hi, p, i, c, lo[c], hi[new])
    BY <1>5, <1>6 DEF Halves
  <2>2. i = 1
    <3>1. i \in DOMAIN pages[p].children /\ pages[p].children[i] = pages[p].children[1]
      BY <2>1 DEF Slot
    <3> QED
      BY <1>1, <1>5, <3>1, SlotIsHere
  <2> QED
    BY <1>2, <1>3, <2>1, <2>2 DEF Slot
<1>7. ASSUME NEW q \in DOMAIN pages, NEW x, Beside(pages, lo, hi, tree, gaps, q, x, c) PROVE lo[c] = -1
  <2>1. ASSUME NEW i, NEW y, NEW z, Slot(pages, lo, hi, q, i, c, y, z) PROVE y = -1
    <3>1. q = p /\ i = 1
      <4>1. i \in DOMAIN pages[q].children /\ pages[q].children[i] = pages[p].children[1]
        BY <2>1 DEF Slot
      <4> QED
        BY <1>1, <4>1, SlotIsHere
    <3> QED
      BY <1>2, <1>3, <2>1, <3>1 DEF Slot
  <2>2. CASE Before(pages, lo, hi, q, x, c)
    <3>1. lo[x] = -1
      BY <2>1, <2>2 DEF Before
    <3> QED
      BY <1>7, <3>1 DEF Beside
  <2>3. CASE After(pages, lo, hi, q, x, c)
    BY <2>1, <2>3 DEF After
  <2> QED
    BY <1>7, <2>2, <2>3 DEF Beside
<1>8. ASSUME NEW st, stack = <<st>> PROVE lo[c] = -1
  <2>1. OneCall(st, pages, max_keys, roots, level, loose, short)
    BY <1>8 DEF Sound, Work
  <2>2. OneMends(st, pages, lo, hi, tree, top, gaps)
    BY <1>1, <1>8 DEF Mended
  <2>3. CASE gaps = {}
    BY <1>3, <1>4, <2>3
  <2>4. CASE /\ st.fn = "attach_sibling" /\ gaps = {st.page}
             /\ Halves(pages, lo, hi, tree, top, gaps, st.page, st.child, st.key)
    <3>1. CASE c \in gaps
      <4>1. st.page = c
        BY <2>4, <3>1
      <4> QED
        BY <1>6, <2>4, <4>1
    <3>2. CASE c \notin gaps
      BY <1>3, <1>4, <3>2
    <3> QED
      BY <3>1, <3>2
  <2>5. ASSUME st.fn = "internal_node_insert",
               NEW g, gaps = {g}, Beside(pages, lo, hi, tree, gaps, st.page, st.child, g)
        PROVE  lo[c] = -1
    <3>1. st.page \in DOMAIN pages
      BY <2>1, <2>5 DEF OneCall, StatementCall, AttachCall, PlaceCall, RepairCall, Inner
    <3>2. CASE c \in gaps
      <4>1. g = c
        BY <2>5, <3>2
      <4> QED
        BY <1>7, <2>5, <3>1, <4>1
    <3>3. CASE c \notin gaps
      BY <1>3, <1>4, <3>3
    <3> QED
      BY <3>2, <3>3
  <2> QED
    BY <2>2, <2>3, <2>4, <2>5 DEF OneMends
<1>9. ASSUME NEW st, NEW d, stack = <<st, d>> PROVE lo[c] = -1
  <2>1. TwoCalls(st, d, pages, max_keys, level, loose, short)
    BY <1>9 DEF Sound, Work
  <2>2. TwoMend(st, d, pages, lo, hi, tree, top, gaps)
    BY <1>1, <1>9 DEF Mended
  <2>3. st.page \in DOMAIN pages
    BY <2>1 DEF TwoCalls, PlaceCall, Inner
  <2>4. PICK g : gaps = {g, d.page} /\ Beside(pages, lo, hi, tree, gaps, st.page, st.child, g)
    BY <2>2 DEF TwoMend
  <2>5. CASE c = g
    BY <1>7, <2>3, <2>4, <2>5
  <2>6. CASE c = d.page
    BY <1>6, <2>2, <2>6 DEF TwoMend
  <2>7. CASE c \notin gaps
    BY <1>3, <1>4, <2>7
  <2> QED
    BY <2>4, <2>5, <2>6, <2>7
<1>10. CASE stack = <<>>
  BY <1>1, <1>3, <1>4, <1>10 DEF Mended
<1> QED
  BY <1>1, <1>8, <1>9, <1>10 DEF Mended

LEMMA FirstLeaf ==
  ASSUME NEW level, NEW loose, NEW short, Sound(level, loose, short),
         NEW lo, NEW hi, NEW tree, NEW top, NEW gaps, Ordered(lo, hi, tree, top, gaps),
         NEW root \in roots, NEW l, l = LeafFor(pages, root, 0)
  PROVE  IsLeaf(pages, l) /\ tree[l] = root /\ lo[l] = -1
<1>1. /\ Descends(pages, level) /\ pages \in Seq(Record) /\ Order(pages, lo, hi, tree, top, gaps)
      /\ root \in DOMAIN pages /\ Alive(pages, root) /\ tree[root] = root /\ lo[root] = -1
  BY SoundAndOrdered
<1>2. PICK Q : Q = {p \in DOMAIN pages : tree[p] = root /\ lo[p] = -1}
  OBVIOUS
<1>3. root \in Q
  BY <1>1, <1>2
<1>4. ASSUME NEW p \in Q, Inner(pages, p)
      PROVE  pages[p].children[LowerBound(pages[p].keys, 0)] \in Q
  <2>1. PICK ks, m, c : ks = pages[p].keys /\ m = LowerBound(ks, 0) /\ c = pages[p].children[1]
    OBVIOUS
  <2>2. ks \in Seq(Nat) /\ Len(ks) \in Nat /\ p \in DOMAIN pages
    BY <1>1, <1>4, <2>1, InnerIs
  <2>3. m = 1
    <3>1. m \in 1..Len(ks) + 1 /\ \A j \in 1..Len(ks) : j < m => ks[j] < 0
      <4>1. PICK zero \in Int : zero = 0
        OBVIOUS
      <4>2. m = LowerBound(ks, zero)
        BY <2>1, <4>1
      <4>3. /\ LowerBound(ks, zero) \in 1..Len(ks) + 1
            /\ \A j \in 1..Len(ks) : j < LowerBound(ks, zero) => ks[j] < zero
        BY <2>2, LowerBoundIs
      <4> QED
        BY <4>1, <4>2, <4>3
    <3>2. \A j \in 1..Len(ks) : ks[j] \in Nat
      BY <2>2
    <3>3. m # 1 => 1 \in 1..Len(ks) /\ 1 < m
      BY <2>2, <3>1
    <3> QED
      BY <3>1, <3>2, <3>3
  <2>4. lo[c] = -1
    BY <1>2, <1>4, <2>1, FirstChildBegins
  <2>5. c \in Kids(pages, p)
    <3>1. 1 \in DOMAIN pages[p].children
      BY <1>1, <1>4, <2>1, <2>2, InnerIs
    <3> QED
      BY <2>1, <3>1 DEF Kids, ToSet
  <2>6. Alive(pages, c) /\ tree[c] = tree[p]
    BY <1>1, <2>2, <2>5, KidWithin
  <2> QED
    BY <1>2, <1>4, <2>1, <2>3, <2>4, <2>6 DEF Alive
<1>5. \A p \in Q : Inner(pages, p) => pages[p].children[LowerBound(pages[p].keys, 0)] \in Q
  BY <1>4
<1>6. LeafFor(pages, root, 0) \in Q /\ IsLeaf(pages, LeafFor(pages, root, 0))
  BY <1>1, <1>3, <1>5, DescentStays
<1> QED
  BY <1>2, <1>6

\* Leaves of a tree, each beginning where the one before it ends.
Chain(ps, lo, hi, tree, r, s) ==
  /\ s \in Seq(DOMAIN ps) /\ Len(s) # 0
  /\ \A a \in 1..Len(s) : IsLeaf(ps, s[a]) /\ tree[s[a]] = r
  /\ lo[s[1]] = -1
  /\ \A a \in 1..Len(s) - 1 : lo[s[a + 1]] = hi[s[a]]
  /\ \A a, b \in 1..Len(s) : a < b => hi[s[a]] <= lo[s[b]]

LEMMA ChainGoesOn ==
  ASSUME NEW ps \in Seq(Record),
         NEW lo, NEW hi, NEW tree, NEW top, NEW gaps, Order(ps, lo, hi, tree, top, gaps),
         NEW r, NEW s, Chain(ps, lo, hi, tree, r, s), hi[Last(s)] # top
  PROVE  Chain(ps, lo, hi, tree, r, Append(s, ps[Last(s)].next))
<1>1. PICK n, l, e : n = Len(s) /\ l = s[n] /\ e = ps[l].next
  OBVIOUS
<1>2. n \in Nat /\ n # 0 /\ n \in 1..n /\ s \in Seq(DOMAIN ps) /\ Last(s) = l
  BY <1>1 DEF Chain, Last
<1>3. IsLeaf(ps, l) /\ tree[l] = r
  BY <1>1, <1>2 DEF Chain
<1>4. IsLeaf(ps, e) /\ tree[e] = r /\ lo[e] = hi[l]
  BY <1>1, <1>2, <1>3 DEF Order, Linked, IsLeaf
<1>5. e \in DOMAIN ps
  BY <1>4 DEF IsLeaf
<1>6. PICK u : u = Append(s, e)
  OBVIOUS
<1>7. u \in Seq(DOMAIN ps) /\ Len(u) = n + 1 /\ u[n + 1] = e /\ \A a \in 1..n : u[a] = s[a]
  BY <1>1, <1>2, <1>5, <1>6, AppendProperties
<1>8. \A p : IsLeaf(ps, p) => lo[p] \in Int /\ hi[p] \in Int /\ lo[p] < hi[p]
  <2> TAKE p
  <2> HAVE IsLeaf(ps, p)
  <2>1. Alive(ps, p)
    BY DEF IsLeaf, Alive
  <2> QED
    BY <2>1, IntervalIs
<1>9. ASSUME NEW a \in 1..n + 1 PROVE IsLeaf(ps, u[a]) /\ tree[u[a]] = r
  <2>1. CASE a = n + 1
    BY <1>4, <1>7, <2>1
  <2>2. CASE a # n + 1
    <3>1. a \in 1..n
      BY <1>2, <2>2
    <3> QED
      BY <1>1, <1>7, <3>1 DEF Chain
  <2> QED
    BY <2>1, <2>2
<1>10. lo[u[1]] = -1
  <2>1. 1 \in 1..n
    BY <1>2
  <2> QED
    BY <1>7, <2>1 DEF Chain
<1>11. ASSUME NEW a \in 1..n PROVE lo[u[a + 1]] = hi[u[a]]
  <2>1. CASE a = n
    BY <1>1, <1>4, <1>7, <2>1
  <2>2. CASE a # n
    <3>1. a \in 1..n - 1 /\ a + 1 \in 1..n
      BY <1>2, <2>2
    <3> QED
      BY <1>1, <1>7, <3>1 DEF Chain
  <2> QED
    BY <2>1, <2>2
<1>12. ASSUME NEW a \in 1..n + 1, NEW b \in 1..n + 1, a < b PROVE hi[u[a]] <= lo[u[b]]
  <2>1. a \in 1..n /\ u[a] = s[a] /\ IsLeaf(ps, s[a])
    <3>1. a \in 1..n
      BY <1>2, <1>12
    <3> QED
      BY <1>1, <1>7, <3>1 DEF Chain
  <2>2. CASE b = n + 1
    <3>1. CASE a = n
      BY <1>1, <1>3, <1>4, <1>7, <1>8, <2>1, <2>2, <3>1
    <3>2. CASE a # n
      <4>1. a < n
        BY <1>2, <2>1, <3>2
      <4>2. hi[s[a]] <= lo[l]
        BY <1>1, <1>2, <2>1, <4>1 DEF Chain
      <4>3. hi[s[a]] \in Int /\ lo[l] \in Int /\ hi[l] \in Int /\ lo[l] < hi[l]
        BY <1>3, <1>8, <2>1
      <4>4. hi[s[a]] <= hi[l]
        BY ONLY <4>2, <4>3
      <4> QED
        BY <1>4, <1>7, <2>1, <2>2, <4>4
    <3> QED
      BY <3>1, <3>2
  <2>3. CASE b # n + 1
    <3>1. b \in 1..n
      BY <1>2, <2>3
    <3> QED
      BY <1>1, <1>7, <1>12, <2>1, <3>1 DEF Chain
  <2> QED
    BY <2>2, <2>3
<1>13. Chain(ps, lo, hi, tree, r, u)
  <2>1. Len(u) # 0 /\ (n + 1) - 1 = n
    BY <1>2, <1>7
  <2> QED
    BY <1>7, <1>9, <1>10, <1>11, <1>12, <2>1 DEF Chain
<1> QED
  BY <1>1, <1>2, <1>6, <1>13

\* A page further along is none of those before.
LEMMA ChainIsNew ==
  ASSUME NEW ps \in Seq(Record),
         NEW lo, NEW hi, NEW tree, NEW top, NEW gaps, Order(ps, lo, hi, tree, top, gaps),
         NEW r, NEW s, Chain(ps, lo, hi, tree, r, s)
  PROVE  /\ IsInjective(s)
         /\ \A a, b \in 1..Len(s) : hi[s[a]] <= lo[s[b]] => a < b
<1>1. Len(s) \in Nat /\ DOMAIN s = 1..Len(s)
  BY LenProperties DEF Chain
<1>2. \A a \in 1..Len(s) : lo[s[a]] \in Int /\ hi[s[a]] \in Int /\ lo[s[a]] < hi[s[a]]
  <2> TAKE a \in 1..Len(s)
  <2>1. Alive(ps, s[a])
    BY DEF Chain, IsLeaf, Alive
  <2> QED
    BY <2>1, IntervalIs
<1>3. ASSUME NEW a \in 1..Len(s), NEW b \in 1..Len(s), hi[s[a]] <= lo[s[b]] PROVE a < b
  <2>1. CASE a = b
    BY <1>2, <1>3, <2>1
  <2>2. CASE b < a
    <3>1. hi[s[b]] <= lo[s[a]]
      BY <2>2 DEF Chain
    <3> QED
      BY <1>2, <1>3, <3>1
  <2> QED
    BY <1>1, <2>1, <2>2
<1>4. ASSUME NEW a \in 1..Len(s), NEW b \in 1..Len(s), s[a] = s[b], a < b PROVE FALSE
  <2>1. hi[s[a]] <= lo[s[b]]
    BY <1>4 DEF Chain
  <2> QED
    BY <1>2, <1>4, <2>1
<1>5. IsInjective(s)
  <2>1. ASSUME NEW a \in 1..Len(s), NEW b \in 1..Len(s), s[a] = s[b] PROVE a = b
    BY <1>1, <1>4, <2>1
  <2> QED
    BY <1>1, <2>1 DEF IsInjective
<1> QED
  BY <1>3, <1>5

\* A chain that reaches the end of its tree has all its leaves.
LEMMA ChainIsWhole ==
  ASSUME NEW ps \in Seq(Record),
         NEW lo, NEW hi, NEW tree, NEW top, NEW gaps, Order(ps, lo, hi, tree, top, gaps),
         NEW r, NEW s, Chain(ps, lo, hi, tree, r, s), hi[Last(s)] = top
  PROVE  ToSet(s) = {l \in DOMAIN ps : IsLeaf(ps, l) /\ tree[l] = r}
<1>1. PICK n : n = Len(s)
  OBVIOUS
<1>2. n \in Nat /\ DOMAIN s = 1..n /\ n # 0 /\ Last(s) = s[n] /\ n \in 1..n
  BY <1>1, LenProperties DEF Chain, Last
<1>3. \A l : IsLeaf(ps, l) => lo[l] \in Int /\ hi[l] \in Int /\ lo[l] < hi[l] /\ -1 <= lo[l] /\ hi[l] <= top /\ top \in Int
  <2> TAKE l
  <2> HAVE IsLeaf(ps, l)
  <2>1. Alive(ps, l)
    BY DEF IsLeaf, Alive
  <2> QED
    BY <2>1, IntervalIs
<1>4. \A a \in 1..n : IsLeaf(ps, s[a]) /\ tree[s[a]] = r
  BY <1>1 DEF Chain
<1>5. ASSUME NEW l, IsLeaf(ps, l), tree[l] = r PROVE \E a \in 1..n : l = s[a]
  \* The last of those that begin no later than it.
  <2> DEFINE T == {a \in 1..n : lo[s[a]] <= lo[l]}
  <2>1. 1 \in T
    <3>1. 1 \in 1..n /\ lo[s[1]] = -1
      BY <1>2 DEF Chain
    <3> QED
      BY <1>3, <1>5, <3>1
  <2>2. PICK a \in T : \A k \in T : k <= a
    <3>1. T \in SUBSET Nat /\ T # {} /\ \A k \in T : k <= n
      BY <1>2, <2>1
    <3> HIDE DEF T
    <3> QED
      BY <1>2, <3>1, GreatestOf
  <2>3. /\ IsLeaf(ps, s[a]) /\ tree[s[a]] = tree[l] /\ lo[s[a]] <= lo[l] /\ a \in 1..n
        /\ lo[s[a]] \in Int /\ hi[s[a]] \in Int /\ lo[l] \in Int /\ hi[l] \in Int /\ lo[l] < hi[l]
    BY <1>3, <1>4, <1>5
  <2> SUFFICES ASSUME s[a] # l PROVE FALSE
    BY <2>3
  <2>4. hi[s[a]] <= lo[l] \/ hi[l] <= lo[s[a]]
    <3>1. Apart(lo, hi, tree, s[a], l)
      BY <1>5, <2>3 DEF Order, IsLeaf
    <3> QED
      BY <2>3, <3>1 DEF Apart
  <2>5. hi[s[a]] <= lo[l]
    BY ONLY <2>3, <2>4
  <2>6. CASE a = n
    BY <1>2, <1>3, <1>5, <2>5, <2>6
  <2>7. CASE a # n
    <3>1. a \in 1..n - 1 /\ a + 1 \in 1..n
      BY <1>2, <2>3, <2>7
    <3>2. lo[s[a + 1]] = hi[s[a]]
      BY <1>1, <3>1 DEF Chain
    <3>3. a + 1 \in T
      BY <2>5, <3>1, <3>2
    <3>4. a + 1 <= a /\ a \in Nat
      BY <2>2, <2>3, <3>3
    <3> QED
      BY ONLY <3>4
  <2> QED
    BY <2>6, <2>7
<1>6. \A a \in 1..n : s[a] \in DOMAIN ps
  BY <1>4 DEF IsLeaf
<1>7. PICK S : S = {l \in DOMAIN ps : IsLeaf(ps, l) /\ tree[l] = r}
  OBVIOUS
<1>8. \A l : l \in S <=> \E a \in 1..n : l = s[a]
  BY <1>4, <1>5, <1>6, <1>7
<1>9. ToSet(s) = {s[a] : a \in 1..n}
  BY <1>2 DEF ToSet
<1> QED
  BY <1>7, <1>8, <1>9

\* A scan follows the chain to its end.
LEMMA ScannedIs ==
  ASSUME NEW level, NEW loose, NEW short, Sound(level, loose, short),
         NEW lo, NEW hi, NEW tree, NEW top, NEW gaps, Ordered(lo, hi, tree, top, gaps),
         NEW root \in roots, NEW s, s = ScannedLeaves(root)
  PROVE  /\ Chain(pages, lo, hi, tree, root, s) /\ hi[Last(s)] = top /\ pages[Last(s)].next = NoPage
<1> DEFINE P == DOMAIN pages
           after == [seen \in Seq(P) |-> pages[Last(seen)].next]
           body(f) == [seen \in Seq(DOMAIN pages) |->
                         LET next1 == pages[Last(seen)].next
                         IN  IF next1 \notin DOMAIN pages \/ next1 \in ToSet(seen) THEN seen
                             ELSE f[Append(seen, next1)]]
           scan == CHOOSE f : f = body(f)
           Q == {seen \in Seq(P) : Chain(pages, lo, hi, tree, root, seen)}
<1>1. /\ pages \in Seq(Record) /\ P = 1..Len(pages) /\ Len(pages) \in Nat
      /\ Order(pages, lo, hi, tree, top, gaps)
  BY SoundAndOrdered
<1>2. IsFiniteSet(P)
  <2>1. IsFiniteSet(1..Len(pages))
    BY <1>1, FS_Interval
  <2> QED
    BY <1>1, <2>1
<1>3. PICK first : first = LeafFor(pages, root, 0)
  OBVIOUS
<1>4. ScannedLeaves(root) = scan[<<first>>]
  BY <1>3 DEF ScannedLeaves
<1>5. ASSUME NEW f PROVE Walked(f, P, after) <=> f = body(f)
  <2>1. body(f) = [seen \in Seq(P) |-> IF after[seen] \notin P \/ after[seen] \in ToSet(seen) THEN seen
                                      ELSE f[Append(seen, after[seen])]]
    OBVIOUS
  <2> QED
    BY <2>1 DEF Walked
<1> HIDE DEF body
<1>6. EndsWithin(scan, P, after)
  <2>1. \E f : Walked(f, P, after)
    <3> HIDE DEF P, after
    <3> QED
      BY <1>2, WalkIs
  <2>2. Walked(scan, P, after)
    BY <1>5, <2>1
  <2> HIDE DEF P, after, scan
  <2> QED
    BY <1>2, <2>2, WalkIs
<1> HIDE DEF scan
<1>7. <<first>> \in Q
  <2>1. IsLeaf(pages, first) /\ tree[first] = root /\ lo[first] = -1
    BY <1>3, FirstLeaf
  <2>2. PICK u : u = <<first>>
    OBVIOUS
  <2>3. u \in Seq(P) /\ Len(u) = 1 /\ u[1] = first
    BY <2>1, <2>2 DEF IsLeaf
  <2>4. Chain(pages, lo, hi, tree, root, u)
    BY <2>1, <2>3 DEF Chain
  <2> QED
    BY <2>2, <2>3, <2>4
\* At the end of the tree there is no next leaf, and before it there is one.
<1>8. ASSUME NEW seen \in Q
      PROVE  /\ Chain(pages, lo, hi, tree, root, seen) /\ after[seen] = pages[Last(seen)].next
             /\ hi[Last(seen)] = top => after[seen] = NoPage
             /\ hi[Last(seen)] # top =>
                  /\ after[seen] \in P /\ after[seen] \notin ToSet(seen)
                  /\ Chain(pages, lo, hi, tree, root, Append(seen, after[seen]))
                  /\ Append(seen, after[seen]) \in Seq(P)
  <2>1. Chain(pages, lo, hi, tree, root, seen) /\ after[seen] = pages[Last(seen)].next /\ seen \in Seq(P)
    OBVIOUS
  <2>2. PICK l, e : l = Last(seen) /\ e = after[seen]
    OBVIOUS
  <2>3. /\ Len(seen) \in Nat /\ DOMAIN seen = 1..Len(seen) /\ l = seen[Len(seen)]
        /\ Len(seen) \in 1..Len(seen)
    BY <2>1, <2>2, LenProperties DEF Chain, Last
  <2>4. IsLeaf(pages, l)
    BY <2>1, <2>3 DEF Chain
  <2>5. Linked(pages, lo, hi, tree, top, l) /\ e = pages[l].next
    BY <1>1, <2>1, <2>2, <2>4 DEF Order, IsLeaf
  <2>6. ASSUME hi[l] # top
        PROVE  /\ e \in P /\ e \notin ToSet(seen)
               /\ Chain(pages, lo, hi, tree, root, Append(seen, e)) /\ Append(seen, e) \in Seq(P)
    <3>1. e \in P
      BY <2>5, <2>6 DEF Linked, IsLeaf
    <3>2. PICK u : u = Append(seen, e)
      OBVIOUS
    <3>3. /\ u \in Seq(P) /\ Len(u) = Len(seen) + 1 /\ u[Len(seen) + 1] = e
          /\ \A a \in 1..Len(seen) : u[a] = seen[a]
      <4> HIDE DEF P
      <4> QED
        BY <2>1, <3>1, <3>2, AppendProperties
    <3>4. Chain(pages, lo, hi, tree, root, Append(seen, pages[Last(seen)].next))
      <4>1. hi[Last(seen)] # top
        BY <2>2, <2>6
      <4> HIDE DEF P, after, Q
      <4> QED
        BY <1>1, <2>1, <4>1, ChainGoesOn
    <3>5. Chain(pages, lo, hi, tree, root, u)
      BY <2>1, <2>2, <3>2, <3>4
    <3>6. IsInjective(u)
      <4> HIDE DEF P, after, Q
      <4> QED
        BY <1>1, <3>5, ChainIsNew
    <3>7. e \notin ToSet(seen)
      <4> SUFFICES ASSUME NEW a \in 1..Len(seen), seen[a] = e PROVE FALSE
        BY <2>3 DEF ToSet
      <4>1. DOMAIN u = 1..Len(seen) + 1
        BY <3>3, LenProperties
      <4>2. PICK n : n = Len(seen) + 1
        OBVIOUS
      <4>3. u[a] = u[n] /\ a \in DOMAIN u /\ n \in DOMAIN u /\ a # n
        BY <2>3, <3>3, <4>1, <4>2
      <4> QED
        BY <3>6, <4>3 DEF IsInjective
    <3> QED
      BY <3>1, <3>2, <3>3, <3>5, <3>7
  <2>7. hi[l] = top => e = NoPage
    BY <2>5 DEF Linked
  <2> HIDE DEF P, after, Q
  <2> QED
    BY <2>1, <2>2, <2>6, <2>7
<1>9. NoPage \notin P
  BY <1>1 DEF NoPage
<1>10. PICK q : q = scan[<<first>>]
  OBVIOUS
<1>11. q \in Q /\ (after[q] \notin P \/ after[q] \in ToSet(q))
  <2>1. Q \in SUBSET Seq(P)
    OBVIOUS
  <2>2. \A seen \in Q : after[seen] \in P /\ after[seen] \notin ToSet(seen) => Append(seen, after[seen]) \in Q
    <3> SUFFICES ASSUME NEW seen \in Q, after[seen] \in P PROVE Append(seen, after[seen]) \in Q
      OBVIOUS
    <3>1. hi[Last(seen)] # top
      BY <1>8, <1>9
    <3>2. PICK u : u = Append(seen, after[seen])
      OBVIOUS
    <3>3. u \in Seq(P) /\ Chain(pages, lo, hi, tree, root, u)
      BY <1>8, <3>1, <3>2
    <3> QED
      BY <3>2, <3>3
  <2> HIDE DEF P, Q, after
  <2> QED
    BY <1>6, <1>7, <1>10, <2>1, <2>2 DEF EndsWithin
<1>12. hi[Last(q)] = top
  BY <1>8, <1>11
<1> QED
  BY <1>4, <1>8, <1>10, <1>11, <1>12

\* What a scan of a table meets.
LEMMA ScanIs ==
  ASSUME NEW level, NEW loose, NEW short, Sound(level, loose, short),
         NEW lo, NEW hi, NEW tree, NEW top, NEW gaps, Ordered(lo, hi, tree, top, gaps),
         NEW root \in roots
  PROVE  ToSet(ScannedLeaves(root)) = {l \in DOMAIN pages : IsLeaf(pages, l) /\ tree[l] = root}
<1>1. PICK s : s = ScannedLeaves(root)
  OBVIOUS
<1>2. Chain(pages, lo, hi, tree, root, s) /\ hi[Last(s)] = top
  BY <1>1, ScannedIs
<1>3. pages \in Seq(Record) /\ Order(pages, lo, hi, tree, top, gaps)
  BY SoundAndOrdered
<1>4. ToSet(s) = {l \in DOMAIN pages : IsLeaf(pages, l) /\ tree[l] = root}
  BY <1>2, <1>3, ChainIsWhole
<1> QED
  BY <1>1, <1>4

LEMMA OrderIsChained ==
  ASSUME OrderInv
  PROVE  ChainIsTree
<1>1. PICK level, loose, short : Sound(level, loose, short)
  BY DEF OrderInv, TreeInv
<1>2. PICK lo, hi, tree, top, gaps : Ordered(lo, hi, tree, top, gaps)
  BY DEF OrderInv
<1>3. /\ pages \in Seq(Record) /\ Order(pages, lo, hi, tree, top, gaps) /\ Descends(pages, level)
      /\ DOMAIN pages = 1..Len(pages) /\ Len(pages) \in Nat
  BY <1>1, <1>2, SoundAndOrdered
<1>4. SUFFICES ASSUME NEW root \in roots, NEW chain, chain = ScannedLeaves(root),
                      NEW under, under = PagesUnder(root)
               PROVE  /\ IsInjective(chain) /\ pages[Last(chain)].next = NoPage
                      /\ \A a \in DOMAIN chain : pages[chain[a]].type = "leaf"
                      /\ LeavesUnder(root) \subseteq ToSet(chain)
                      /\ ToSet(chain) \subseteq under \/ Inserting
                      /\ \A p \in under : InChildOrder(chain, p)
                      /\ KeysAscend(chain)
  BY DEF ChainIsTree
<1>5. /\ Chain(pages, lo, hi, tree, root, chain) /\ pages[Last(chain)].next = NoPage
      /\ ToSet(chain) = {l \in DOMAIN pages : IsLeaf(pages, l) /\ tree[l] = root}
  BY <1>1, <1>2, <1>4, ScannedIs, ScanIs
<1>6. \A p \in under : Alive(pages, p) /\ tree[p] = root
  BY <1>1, <1>2, <1>4, TreeUnder
<1>7. IsInjective(chain) /\ \A a, b \in 1..Len(chain) : hi[chain[a]] <= lo[chain[b]] => a < b
  BY <1>3, <1>5, ChainIsNew
<1>8. DOMAIN chain = 1..Len(chain) /\ Len(chain) \in Nat
  BY <1>5, LenProperties DEF Chain
<1>9. ASSUME NEW a \in DOMAIN chain
      PROVE  /\ IsLeaf(pages, chain[a]) /\ pages[chain[a]].type = "leaf" /\ Alive(pages, chain[a])
             /\ LeafOrdered(pages[chain[a]].keys, lo[chain[a]], hi[chain[a]], top)
             /\ pages[chain[a]].keys \in Seq(Nat) /\ Len(pages[chain[a]].keys) \in Nat
             /\ lo[chain[a]] \in Int /\ hi[chain[a]] \in Int
  <2>1. PICK l : l = chain[a]
    OBVIOUS
  <2>2. IsLeaf(pages, l)
    BY <1>5, <1>8, <2>1 DEF Chain
  <2>3. l \in DOMAIN pages /\ pages[l].type = "leaf" /\ Alive(pages, l)
    BY <2>2 DEF IsLeaf, Alive
  <2>4. LeafOrdered(pages[l].keys, lo[l], hi[l], top) /\ lo[l] \in Int /\ hi[l] \in Int
    BY <1>3, <2>3, IntervalIs DEF NodeOrdered
  <2> QED
    BY <1>3, <2>1, <2>2, <2>3, <2>4, PageIs
<1>10. LeavesUnder(root) \subseteq ToSet(chain)
  BY <1>4, <1>5, <1>6 DEF LeavesUnder, IsLeaf, Alive
<1>11. ASSUME ~Inserting PROVE ToSet(chain) \subseteq under
  <2> SUFFICES ASSUME NEW l \in ToSet(chain) PROVE l \in under
    OBVIOUS
  <2>1. Alive(pages, l) /\ tree[l] = root
    BY <1>5 DEF IsLeaf, Alive
  <2> QED
    BY <1>1, <1>2, <1>4, <1>11, <2>1, TreeIsUnder
<1>12. ASSUME NEW p \in under PROVE InChildOrder(chain, p)
  <2>1. PICK kids : kids = pages[p].children
    OBVIOUS
  <2> SUFFICES ASSUME NEW i \in DOMAIN kids, NEW j \in DOMAIN kids, i < j,
                      NEW a \in DOMAIN chain, NEW b \in DOMAIN chain,
                      chain[a] \in PagesUnder(kids[i]), chain[b] \in PagesUnder(kids[j])
               PROVE  a < b
    BY <2>1 DEF InChildOrder
  <2>2. PICK c, d, ks : c = kids[i] /\ d = kids[j] /\ ks = pages[p].keys
    OBVIOUS
  <2>3. Alive(pages, p) /\ p \in DOMAIN pages /\ Kids(pages, p) # {}
    <3>1. kids[i] \in Kids(pages, p)
      BY <2>1 DEF Kids, ToSet
    <3> QED
      BY <1>6, <3>1 DEF Alive
  <2>4. Inner(pages, p)
    BY <1>3, <2>3, OnlyInnerHasKids
  <2>5. ks \in Seq(Nat) /\ Len(ks) \in Nat /\ DOMAIN kids = 1..Len(ks) + 1
    BY <1>3, <2>1, <2>2, <2>4, InnerIs
  <2>6. PICK x, y, z, w : /\ x = Fence(ks, lo[p], hi[p], i - 1) /\ y = Fence(ks, lo[p], hi[p], i)
                          /\ z = Fence(ks, lo[p], hi[p], j - 1) /\ w = Fence(ks, lo[p], hi[p], j)
    OBVIOUS
  <2>7. Alive(pages, c) /\ hi[c] <= y /\ hi[c] \in Int /\ y \in Int
    <3>1. /\ i \in 1..Len(pages[p].keys) + 1 /\ c = pages[p].children[i]
          /\ x = Fence(pages[p].keys, lo[p], hi[p], i - 1) /\ y = Fence(pages[p].keys, lo[p], hi[p], i)
      BY <2>1, <2>2, <2>5, <2>6
    <3> QED
      BY <1>3, <2>4, <3>1, ChildFits
  <2>8. Alive(pages, d) /\ z <= lo[d] /\ lo[d] \in Int /\ z \in Int
    <3>1. /\ j \in 1..Len(pages[p].keys) + 1 /\ d = pages[p].children[j]
          /\ z = Fence(pages[p].keys, lo[p], hi[p], j - 1) /\ w = Fence(pages[p].keys, lo[p], hi[p], j)
      BY <2>1, <2>2, <2>5, <2>6
    <3> QED
      BY <1>3, <2>4, <3>1, ChildFits
  <2>9. y <= z
    <3>1. Rising(ks, lo[p], hi[p])
      BY <1>3, <2>2, <2>3, <2>4, IntervalIs DEF NodeOrdered, Inner
    <3>2. PICK h : h = j - 1
      OBVIOUS
    <3>3. i \in 0..Len(ks) + 1 /\ h \in 0..Len(ks) + 1 /\ (i = h \/ i < h)
      BY <2>5, <3>2
    <3>4. i < h => y < z
      BY <2>6, <3>1, <3>2, <3>3 DEF Rising
    <3>5. i = h => y = z
      BY <2>6, <3>2
    <3> QED
      BY <2>7, <2>8, <3>3, <3>4, <3>5
  <2>10. hi[chain[a]] <= hi[c] /\ lo[d] <= lo[chain[b]]
    BY <1>3, <2>2, <2>7, <2>8, NestedUnder
  <2>11. hi[chain[a]] \in Int /\ lo[chain[b]] \in Int
    BY <1>9
  <2>12. hi[chain[a]] <= lo[chain[b]]
    BY ONLY <2>7, <2>8, <2>9, <2>10, <2>11
  <2> QED
    BY <1>7, <1>8, <2>12
<1>13. KeysAscend(chain)
  <2>1. ASSUME NEW a \in DOMAIN chain PROVE Ascending(pages[chain[a]].keys)
    <3>1. PICK ks, n : ks = pages[chain[a]].keys /\ n = Len(ks)
      OBVIOUS
    <3>2. n \in Nat /\ \A i, j \in 1..n : i < j => ks[i] < ks[j]
      BY <1>9, <3>1 DEF LeafOrdered
    <3>3. ASSUME NEW i \in 1..n - 1 PROVE ks[i] < ks[i + 1]
      <4>1. PICK j : j = i + 1
        OBVIOUS
      <4>2. i \in 1..n /\ j \in 1..n /\ i < j
        BY <3>2, <4>1
      <4> QED
        BY <3>2, <4>1, <4>2
    <3> QED
      BY <3>1, <3>3 DEF Ascending
  <2>2. ASSUME NEW a \in DOMAIN chain, NEW b \in DOMAIN chain, a < b,
               NEW k \in ToSet(pages[chain[a]].keys), NEW m \in ToSet(pages[chain[b]].keys)
        PROVE  k < m
    <3>1. hi[chain[a]] <= lo[chain[b]]
      BY <1>5, <1>8, <2>2 DEF Chain
    <3>2. k \in Int /\ k <= hi[chain[a]]
      <4>1. PICK ks : ks = pages[chain[a]].keys
        OBVIOUS
      <4>2. ks \in Seq(Nat) /\ DOMAIN ks = 1..Len(ks) /\ LeafOrdered(ks, lo[chain[a]], hi[chain[a]], top)
        BY <1>9, <4>1
      <4>3. PICK i \in 1..Len(ks) : k = ks[i]
        BY <4>1, <4>2 DEF ToSet
      <4>4. ks[i] \in Int
        BY <4>2
      <4> QED
        BY <4>2, <4>3, <4>4 DEF LeafOrdered
    <3>3. m \in Int /\ lo[chain[b]] < m
      <4>1. PICK ks : ks = pages[chain[b]].keys
        OBVIOUS
      <4>2. ks \in Seq(Nat) /\ DOMAIN ks = 1..Len(ks) /\ LeafOrdered(ks, lo[chain[b]], hi[chain[b]], top)
        BY <1>9, <4>1
      <4>3. PICK i \in 1..Len(ks) : m = ks[i]
        BY <4>1, <4>2 DEF ToSet
      <4>4. ks[i] \in Int
        BY <4>2
      <4> QED
        BY <4>2, <4>3, <4>4 DEF LeafOrdered
    <3>4. hi[chain[a]] \in Int /\ lo[chain[b]] \in Int
      BY <1>9
    <3> QED
      BY ONLY <3>1, <3>2, <3>3, <3>4
  <2> QED
    BY <2>1, <2>2 DEF KeysAscend
<1> QED
  BY <1>5, <1>7, <1>9, <1>10, <1>11, <1>12, <1>13

\* A scan along next_leaf always comes to an end, and meets just the leaves of
\* its own tree, left to right, and the keys in order with none twice, at every
\* call of a split (leaf_node_split_and_insert's splice), a merge
\* (leaf_node_merge) or a collapse (collapse_root), whatever else has run; only a
\* leaf an insert has still to attach is in the chain and not in the tree.
THEOREM ChainStaysTree == Spec => []ChainIsTree
<1>1. OrderInv => ChainIsTree
  BY OrderIsChained
<1> QED
  BY <1>1, KeysStayOrdered, PTL

-----------------------------------------------------------------------------
\* The trees implement sets of keys.

\* No statement is about the catalog.
UserCall == Pending("table_insert") \/ Pending("table_delete") => Top.page \in UserRoots
RowsInv == OrderInv /\ UserCall

Statements == {"table_insert", "table_delete"}

\* What is left of a call after a step is never a statement.
Lesser(c) == c.fn \notin Statements

LEMMA NoStatementLeft ==
  ASSUME NEW level, NEW loose, NEW short, Sound(level, loose, short), Step
  PROVE  stack' = <<>> \/ \E c, s : Lesser(c) /\ (stack' = <<c>> \/ stack' = <<c, s>>)
<1>1. ~Idle
  BY DEF Step, InsertStep, DeleteStep, Pending, RefuseDuplicate, InsertIntoLeaf, SplitLeaf, CreateNewRoot,
     AttachToParent, InsertChild, SplitInternal, RefuseMissing, DeleteFromLeaf, LeafBorrowLeft,
     LeafBorrowRight, LeafMerge, CollapseRoot, KeepNode, RepairNode, InternalBorrowLeft,
     InternalBorrowRight, InternalMerge
<1>2. \/ Return
      \/ Continue(<<>>)
      \/ \E c : Lesser(c) /\ Continue(<<c>>)
      \/ \E c, s : Lesser(c) /\ Continue(<<c, s>>) /\ Len(pages[Top.page].keys) >= max_keys
  <2>1. CASE \/ RefuseDuplicate \/ InsertIntoLeaf \/ CreateNewRoot \/ InsertChild \/ RefuseMissing
             \/ LeafBorrowLeft \/ LeafBorrowRight \/ CollapseRoot \/ KeepNode
             \/ InternalBorrowLeft \/ InternalBorrowRight
    BY <2>1 DEF RefuseDuplicate, InsertIntoLeaf, CreateNewRoot, InsertChild, RefuseMissing,
       LeafBorrowLeft, LeafBorrowRight, CollapseRoot, KeepNode, InternalBorrowLeft, InternalBorrowRight
  <2>2. CASE SplitLeaf
    <3>1. PICK c : Continue(<<c>>) /\ c = Call("attach_sibling", Target, NextPage, Last(pages[Target].keys))
      BY <2>2 DEF SplitLeaf
    <3> QED
      BY <3>1 DEF Lesser, Statements, Call
  <2>3. CASE AttachToParent
    <3>1. PICK c : Continue(<<c>>) /\ c = Call("internal_node_insert", pages[Top.page].parent, Top.child, 0)
      BY <2>3 DEF AttachToParent
    <3> QED
      BY <3>1 DEF Lesser, Statements, Call
  <2>4. CASE SplitInternal
    <3>1. PICK c, s, d : /\ Continue(<<c, s>>) /\ c = Call("internal_node_insert", d, Top.child, 0)
                         /\ Len(pages[Top.page].keys) >= max_keys
      BY <2>4 DEF SplitInternal
    <3> QED
      BY <3>1 DEF Lesser, Statements, Call
  <2>5. CASE DeleteFromLeaf
    <3>1. PICK c : /\ c = Call("leaf_node_rebalance", Target, NoPage, 0)
                   /\ Continue(<<c>>) \/ Continue(<<>>)
      BY <2>5 DEF DeleteFromLeaf
    <3> QED
      BY <3>1 DEF Lesser, Statements, Call
  <2>6. CASE LeafMerge \/ InternalMerge
    <3>1. PICK c : Continue(<<c>>) /\ c = Call("after_child_removed", Parent, NoPage, 0)
      BY <2>6 DEF LeafMerge, InternalMerge
    <3> QED
      BY <3>1 DEF Lesser, Statements, Call
  <2>7. CASE RepairNode
    <3>1. PICK c : Continue(<<c>>) /\ c = Call("internal_node_rebalance", Top.page, NoPage, 0)
      BY <2>7 DEF RepairNode
    <3> QED
      BY <3>1 DEF Lesser, Statements, Call
  <2> QED
    BY <2>1, <2>2, <2>3, <2>4, <2>5, <2>6, <2>7 DEF Step, InsertStep, DeleteStep
<1>3. CASE /\ Tail(stack) = <<>>
           /\ Return <=> stack' = <<>>
           /\ \A c : Continue(<<c>>) <=> stack' = <<c>>
           /\ \A c, d : Continue(<<c, d>>) <=> stack' = <<c, d>>
           /\ Continue(<<>>) <=> stack' = <<>>
  BY <1>2, <1>3
\* With two calls the first is for a node with room: it returns.
<1>4. ASSUME NEW d, TwoCalls(Top, d, pages, max_keys, level, loose, short), Return <=> stack' = <<d>>
      PROVE  stack' = <<d>> /\ Lesser(d)
  <2>1. /\ Top.fn = "internal_node_insert" /\ d.fn = "attach_sibling"
        /\ Len(pages[Top.page].keys) < max_keys
    BY <1>4 DEF TwoCalls, PlaceCall, AttachCall
  <2>2. Len(pages[Top.page].keys) \in Nat /\ max_keys \in Nat
    <3>1. Inner(pages, Top.page)
      BY <1>4 DEF TwoCalls, PlaceCall
    <3>2. max_keys \in Nat /\ Descends(pages, level)
      BY TreeTyped DEF Sound
    <3> QED
      BY <3>1, <3>2, InnerIs
  <2>3. InsertChild
    <3>1. \A fn : Pending(fn) => fn = "internal_node_insert"
      BY <2>1 DEF Pending, Top
    <3>2. ~SplitInternal
      <4>1. SplitInternal => Len(pages[Top.page].keys) >= max_keys
        BY DEF SplitInternal
      <4> QED
        BY ONLY <2>1, <2>2, <4>1
    <3> QED
      BY <3>1, <3>2 DEF Step, InsertStep, DeleteStep, RefuseDuplicate, InsertIntoLeaf, SplitLeaf,
         CreateNewRoot, AttachToParent, RefuseMissing, DeleteFromLeaf, LeafBorrowLeft, LeafBorrowRight,
         LeafMerge, CollapseRoot, KeepNode, RepairNode, InternalBorrowLeft, InternalBorrowRight, InternalMerge
  <2>4. Return
    BY <2>3 DEF InsertChild
  <2> QED
    BY <1>4, <2>1, <2>4 DEF Lesser, Statements
<1> QED
  BY <1>1, <1>3, <1>4, TopIs

\* The call outstanding after a step.
LEMMA OutstandingNext ==
  ASSUME NEW level, NEW loose, NEW short, Sound(level, loose, short), Next, UserCall
  PROVE  /\ roots' = roots /\ UserCall'
         /\ Step => Outstanding' = [op |-> "none"]
<1>1. roots' = roots
  BY DEF Next, Step, InsertStep, DeleteStep, CallInsert, CallDelete, RefuseDuplicate, InsertIntoLeaf,
     SplitLeaf, CreateNewRoot, AttachToParent, InsertChild, SplitInternal, RefuseMissing, DeleteFromLeaf,
     LeafBorrowLeft, LeafBorrowRight, LeafMerge, CollapseRoot, KeepNode, RepairNode,
     InternalBorrowLeft, InternalBorrowRight, InternalMerge
<1>2. CASE Step
  <2>1. ~(Pending("table_insert") \/ Pending("table_delete"))'
    <3>1. CASE stack' = <<>>
      BY <3>1 DEF Pending, Idle
    <3>2. ASSUME NEW c, Lesser(c), NEW s, stack' = <<c>> \/ stack' = <<c, s>>
          PROVE  ~(Pending("table_insert") \/ Pending("table_delete"))'
      <4>1. Head(stack') = c
        BY <3>2, Calls
      <4> QED
        BY <3>2, <4>1 DEF Pending, Lesser, Statements
    <3> QED
      BY <1>2, <3>1, <3>2, NoStatementLeft
  <2> QED
    BY <1>1, <2>1 DEF UserCall, Outstanding
<1>3. ASSUME NEW root \in UserRoots, NEW key \in Keys, CallInsert(root, key) \/ CallDelete(root, key)
      PROVE  UserCall' /\ ~Step
  <2>1. PICK c : c.page = root /\ stack' = <<c>>
    BY <1>3 DEF CallInsert, CallDelete, Call
  <2>2. Top' = c
    BY <2>1, Calls DEF Top
  <2>3. ~Step
    BY <1>3 DEF CallInsert, CallDelete, Step, InsertStep, DeleteStep, Pending, RefuseDuplicate,
     InsertIntoLeaf, SplitLeaf, CreateNewRoot, AttachToParent, InsertChild, SplitInternal, RefuseMissing,
     DeleteFromLeaf, LeafBorrowLeft, LeafBorrowRight, LeafMerge, CollapseRoot, KeepNode, RepairNode,
     InternalBorrowLeft, InternalBorrowRight, InternalMerge
  <2> QED
    BY <1>1, <2>1, <2>2, <2>3 DEF UserCall, UserRoots
<1> QED
  BY <1>1, <1>2, <1>3 DEF Next

\* A table's rows are the keys of its tree.
RowsHolds ==
  \A level, loose, short, lo, hi, tree, top, gaps :
    Sound(level, loose, short) /\ Ordered(lo, hi, tree, top, gaps) =>
      \A root \in UserRoots : \A k : k \in Rows[root] <=> Has(pages, tree, root, k)

LEMMA RowsAlways == RowsHolds
<1> SUFFICES ASSUME NEW level, NEW loose, NEW short, Sound(level, loose, short),
                    NEW lo, NEW hi, NEW tree, NEW top, NEW gaps, Ordered(lo, hi, tree, top, gaps),
                    NEW root \in UserRoots, NEW k
             PROVE  k \in Rows[root] <=> Has(pages, tree, root, k)
  BY DEF RowsHolds
<1>1. PICK scanned : scanned = ToSet(ScannedLeaves(root))
  OBVIOUS
<1>2. scanned = {l \in DOMAIN pages : IsLeaf(pages, l) /\ tree[l] = root}
  BY <1>1, ScanIs DEF UserRoots
<1>3. Rows[root] = UNION {ToSet(pages[l].keys) : l \in scanned}
  BY <1>1 DEF Rows
<1>4. k \in Rows[root] <=> \E l \in scanned : k \in ToSet(pages[l].keys)
  BY <1>3
<1> QED
  BY <1>2, <1>4 DEF Has, IsLeaf

LEMMA RowsNext == RowsHolds'
  BY RowsAlways, PTL

RowsFollow(f) ==
  \A root \in UserRoots : \A k : k \in Rows'[root] <=> k \in f[root]

\* Rows that hold the same keys are the same.
LEMMA RowsAreEqual ==
  ASSUME roots' = roots, NEW f, f = [root \in UserRoots |-> f[root]], RowsFollow(f)
  PROVE  Rows' = f
<1>1. PICK g : g = Rows'
  OBVIOUS
<1>2. PICK R : R = UserRoots /\ R = UserRoots'
  BY DEF UserRoots
<1>3. g = [root \in R |-> g[root]]
  BY <1>1, <1>2 DEF Rows
<1>4. \A root \in R : g[root] = f[root]
  BY <1>1, <1>2 DEF RowsFollow
<1> QED
  BY <1>1, <1>2, <1>3, <1>4

LEMMA RowsTyped == Rows = [root \in UserRoots |-> Rows[root]]
BY DEF Rows

\* What a step does to the keys of the trees, it does to the rows.
LEMMA RowsAfter ==
  ASSUME NEW level, NEW loose, NEW short, Sound(level, loose, short), TreeInv', roots' = roots,
         NEW lo, NEW hi, NEW tree, NEW top, NEW gaps, Ordered(lo, hi, tree, top, gaps)
  PROVE  /\ OrderKept(tree) => Rows' = Rows
         /\ KeyAdded(tree) => Rows' = [Rows EXCEPT ![Top.page] = @ \cup {Top.key}]
         /\ KeyRemovedFrom(tree) => Rows' = [Rows EXCEPT ![Top.page] = @ \ {Top.key}]
<1>1. PICK l, o, s : Sound(l, o, s)'
  BY DEF TreeInv
<1>2. UserRoots' = UserRoots
  BY DEF UserRoots
<1>3. \A root \in UserRoots : \A k : k \in Rows[root] <=> Has(pages, tree, root, k)
  BY RowsAlways DEF RowsHolds
<1>4. ASSUME NEW lo2, NEW hi2, NEW tree2, NEW top2, NEW gaps2, Ordered(lo2, hi2, tree2, top2, gaps2)'
      PROVE  \A root \in UserRoots : \A k : k \in Rows'[root] <=> Has(pages', tree2, root, k)
  BY <1>1, <1>2, <1>4, RowsNext DEF RowsHolds
<1>5. PICK rows : rows = Rows /\ rows = [root \in UserRoots |-> rows[root]]
  BY RowsTyped
<1>6. ASSUME OrderKept(tree) PROVE Rows' = rows
  <2>1. PICK lo2, hi2, tree2, top2, gaps2 :
          Ordered(lo2, hi2, tree2, top2, gaps2)' /\ RowsKept(tree, tree2)
    BY <1>6 DEF OrderKept
  <2>2. RowsFollow(rows)
    BY <1>3, <1>4, <1>5, <2>1 DEF RowsKept, RowsFollow
  <2> QED
    BY <1>5, <2>2, RowsAreEqual
<1>7. ASSUME KeyAdded(tree), NEW f, f = [rows EXCEPT ![Top.page] = @ \cup {Top.key}] PROVE Rows' = f
  <2>1. PICK lo2, hi2, tree2, top2, gaps2 :
          Ordered(lo2, hi2, tree2, top2, gaps2)' /\ RowGained(tree, tree2, Top.page, Top.key)
    BY <1>7 DEF KeyAdded
  <2>2. \A root \in UserRoots : f[root] = IF root = Top.page THEN rows[root] \cup {Top.key} ELSE rows[root]
    BY <1>5, <1>7
  <2>3. RowsFollow(f)
    <3> SUFFICES ASSUME NEW root \in UserRoots, NEW k PROVE k \in Rows'[root] <=> k \in f[root]
      BY DEF RowsFollow
    <3>1. k \in Rows'[root] <=> k \in rows[root] \/ (root = Top.page /\ k = Top.key)
      BY <1>3, <1>4, <1>5, <2>1 DEF RowGained
    <3>2. k \in f[root] <=> k \in rows[root] \/ (root = Top.page /\ k = Top.key)
      BY <2>2
    <3> QED
      BY <3>1, <3>2
  <2>4. f = [root \in UserRoots |-> f[root]]
    BY <1>5, <1>7
  <2> QED
    BY <2>3, <2>4, RowsAreEqual
<1>8. ASSUME KeyRemovedFrom(tree), NEW f, f = [rows EXCEPT ![Top.page] = @ \ {Top.key}] PROVE Rows' = f
  <2>1. PICK lo2, hi2, tree2, top2, gaps2 :
          Ordered(lo2, hi2, tree2, top2, gaps2)' /\ RowLost(tree, tree2, Top.page, Top.key)
    BY <1>8 DEF KeyRemovedFrom
  <2>2. \A root \in UserRoots : f[root] = IF root = Top.page THEN rows[root] \ {Top.key} ELSE rows[root]
    BY <1>5, <1>8
  <2>3. RowsFollow(f)
    <3> SUFFICES ASSUME NEW root \in UserRoots, NEW k PROVE k \in Rows'[root] <=> k \in f[root]
      BY DEF RowsFollow
    <3>1. k \in Rows'[root] <=> k \in rows[root] /\ ~(root = Top.page /\ k = Top.key)
      BY <1>3, <1>4, <1>5, <2>1 DEF RowLost
    <3>2. k \in f[root] <=> k \in rows[root] /\ ~(root = Top.page /\ k = Top.key)
      BY <2>2
    <3> QED
      BY <3>1, <3>2
  <2>4. f = [root \in UserRoots |-> f[root]]
    BY <1>5, <1>8
  <2> QED
    BY <2>3, <2>4, RowsAreEqual
<1> QED
  BY <1>5, <1>6, <1>7, <1>8

\* The leaf a statement aims at holds its key just if the table does.
LEMMA HoldsIs ==
  ASSUME NEW level, NEW loose, NEW short, Sound(level, loose, short),
         NEW lo, NEW hi, NEW tree, NEW top, NEW gaps, Ordered(lo, hi, tree, top, gaps),
         Pending("table_insert") \/ Pending("table_delete"), UserCall
  PROVE  Holds(Target, Top.key) <=> Top.key \in Rows[Top.page]
<1>1. PICK leaf, key : leaf = Target /\ key = Top.key
  OBVIOUS
<1>2. /\ gaps = {} /\ IsLeaf(pages, leaf) /\ tree[leaf] = Top.page
      /\ lo[leaf] \in Int /\ hi[leaf] \in Int /\ lo[leaf] < key /\ key <= hi[leaf]
  BY <1>1, TargetIs
<1>3. Order(pages, lo, hi, tree, top, gaps) /\ pages \in Seq(Record)
  BY SoundAndOrdered
<1>4. ASSUME NEW l, IsLeaf(pages, l), tree[l] = tree[leaf], key \in ToSet(pages[l].keys) PROVE l = leaf
  <2> SUFFICES ASSUME l # leaf PROVE FALSE
    OBVIOUS
  <2>1. PICK keys, a, b : keys = pages[l].keys /\ a = lo[l] /\ b = hi[l]
    OBVIOUS
  <2>2. Alive(pages, l) /\ l \in DOMAIN pages /\ leaf \in DOMAIN pages
    BY <1>2, <1>4 DEF IsLeaf, Alive
  <2>3. /\ a \in Int /\ b \in Int /\ keys \in Seq(Nat) /\ LeafOrdered(keys, a, b, top)
        /\ Apart(lo, hi, tree, l, leaf)
    BY <1>2, <1>3, <1>4, <2>1, <2>2, IntervalIs, PageIs DEF Order, NodeOrdered, IsLeaf
  <2>4. PICK j \in 1..Len(keys) : keys[j] = key
    BY <1>4, <2>1, <2>3 DEF ToSet
  <2>5. a < key /\ key <= b /\ key \in Int
    BY <2>3, <2>4 DEF LeafOrdered
  <2>6. b <= lo[leaf] \/ hi[leaf] <= a
    BY <1>4, <2>1, <2>3 DEF Apart
  <2> QED
    BY ONLY <1>2, <2>3, <2>5, <2>6
<1>5. Has(pages, tree, Top.page, key) <=> key \in ToSet(pages[leaf].keys)
  BY <1>2, <1>4 DEF Has, IsLeaf
<1>6. Top.page \in UserRoots
  BY DEF UserCall
<1>7. key \in Rows[Top.page] <=> Has(pages, tree, Top.page, key)
  BY <1>6, RowsAlways DEF RowsHolds
<1> QED
  BY <1>1, <1>5, <1>7 DEF Holds

\* The rows of the fresh tables are none.
LEMMA NoRowsYet ==
  ASSUME Init
  PROVE  Abstract!Init
<1>1. OrderInv /\ stack = <<>>
  BY OrderInit DEF Init
<1>2. PICK level, loose, short : Sound(level, loose, short)
  BY <1>1 DEF OrderInv, TreeInv
<1>3. PICK lo, hi, tree, top, gaps : Ordered(lo, hi, tree, top, gaps)
  BY <1>1 DEF OrderInv
<1>4. /\ DOMAIN pages = 1..Tables + 1
      /\ \A p \in DOMAIN pages :
           pages[p].is_root /\ pages[p].keys = IF p = CatalogRoot THEN [id \in 1..Tables |-> id] ELSE <<>>
  BY FreshPages DEF Init
<1>5. ASSUME NEW root \in UserRoots, NEW k PROVE k \notin Rows[root]
  <2> SUFFICES ASSUME NEW l \in DOMAIN pages, tree[l] = root, k \in ToSet(pages[l].keys) PROVE FALSE
    BY <1>2, <1>3, RowsAlways DEF RowsHolds, Has
  <2>1. tree[l] = l
    BY <1>3, <1>4 DEF Ordered, Order, RootFits
  <2>2. pages[l].keys = <<>>
    BY <1>4, <2>1 DEF UserRoots
  <2>3. ToSet(<<>>) = {}
    BY DEF ToSet
  <2> QED
    BY <2>2, <2>3
<1>6. \A root \in DOMAIN Rows : Rows[root] = {}
  BY <1>5 DEF Rows
<1>7. Outstanding = [op |-> "none"]
  BY <1>1 DEF Outstanding, Pending, Idle
<1>8. reply = TRUE
  BY DEF Init, FreshTables
<1> QED
  BY <1>6, <1>7, <1>8 DEF Abstract!Init, Abstract!NoCall

LEMMA CallIsBegin ==
  ASSUME CallsBegin, UserCall'
  PROVE  Outstanding = [op |-> "none"] /\ Outstanding' \in Abstract!Request /\ reply' = reply
<1>1. PICK root \in UserRoots, key \in Keys : CallInsert(root, key) \/ CallDelete(root, key)
  BY DEF CallsBegin
<1>2. Idle /\ reply' = reply
  BY <1>1 DEF CallInsert, CallDelete
<1>3. Outstanding = [op |-> "none"]
  BY <1>2 DEF Outstanding, Pending
<1>4. root \in DOMAIN Rows
  BY DEF Rows
<1>5. ASSUME NEW fn \in {"table_insert", "table_delete"}, NEW c, c = Call(fn, root, NoPage, key), stack' = <<c>>
      PROVE  /\ (Pending("table_insert")' <=> fn = "table_insert")
             /\ (Pending("table_delete")' <=> fn = "table_delete")
             /\ Top'.page = root /\ Top'.key = key
  <2>1. stack' # <<>> /\ Head(stack') = c
    BY <1>5, Calls
  <2> QED
    BY <1>5, <2>1 DEF Pending, Idle, Top, Call
<1>6. CASE CallInsert(root, key)
  <2>1. Pending("table_insert")' /\ Top'.page = root /\ Top'.key = key
    BY <1>5, <1>6 DEF CallInsert
  <2>2. Outstanding' = [op |-> "insert", table |-> root, key |-> key]
    BY <2>1 DEF Outstanding
  <2> QED
    BY <1>2, <1>3, <1>4, <2>2 DEF Abstract!Request
<1>7. CASE CallDelete(root, key)
  <2>1. ~Pending("table_insert")' /\ Pending("table_delete")' /\ Top'.page = root /\ Top'.key = key
    BY <1>5, <1>7 DEF CallDelete
  <2>2. Outstanding' = [op |-> "delete", table |-> root, key |-> key]
    BY <2>1 DEF Outstanding
  <2> QED
    BY <1>2, <1>3, <1>4, <2>2 DEF Abstract!Request
<1> QED
  BY <1>1, <1>6, <1>7

\* Each step is one of the abstract tables, or changes nothing they show.
LEMMA AbstractStep ==
  ASSUME RowsInv, [Next]_vars
  PROVE  RowsInv' /\ [Abstract!Next]_(Abstract!vars)
<1>1. OrderInv /\ OrderInv' /\ UserCall /\ TreeInv'
  BY OrderStep DEF RowsInv, OrderInv
<1>2. PICK level, loose, short : Sound(level, loose, short)
  BY <1>1 DEF OrderInv, TreeInv
<1>3. PICK lo, hi, tree, top, gaps : Ordered(lo, hi, tree, top, gaps)
  BY <1>1 DEF OrderInv
<1>4. CASE UNCHANGED vars
  <2>1. Rows' = Rows /\ Outstanding' = Outstanding /\ reply' = reply /\ UserCall'
    BY <1>1, <1>4 DEF vars, Rows, ScannedLeaves, LeafFor, UserRoots, Outstanding, Pending, Idle, Top, UserCall
  <2> QED
    BY <1>1, <2>1 DEF RowsInv, Abstract!vars
<1>5. CASE Next
  <2>1. /\ roots' = roots /\ UserCall'
        /\ Step => Outstanding' = [op |-> "none"]
    BY <1>1, <1>2, <1>5, OutstandingNext
  <2> SUFFICES [Abstract!Next]_(Abstract!vars)
    BY <1>1, <2>1 DEF RowsInv
  <2>2. /\ OrderKept(tree) => Rows' = Rows
        /\ KeyAdded(tree) => Rows' = [Rows EXCEPT ![Top.page] = @ \cup {Top.key}]
        /\ KeyRemovedFrom(tree) => Rows' = [Rows EXCEPT ![Top.page] = @ \ {Top.key}]
    BY <1>1, <1>2, <1>3, <2>1, RowsAfter
  <2>3. ASSUME Pending("table_insert") \/ Pending("table_delete")
        PROVE  Holds(Target, Top.key) <=> Top.key \in Rows[Top.page]
    BY <1>1, <1>2, <1>3, <2>3, HoldsIs
  <2>4. PICK t, k, R : t = Top.page /\ k = Top.key /\ R = Rows[Top.page]
    OBVIOUS
  <2>5. Rows = [root \in UserRoots |-> Rows[root]]
    BY RowsTyped
  <2>6. CASE CallsBegin
    <3>1. Rows' = Rows
      BY <1>2, <1>3, <2>2, <2>6, MovesKeepOrder DEF Moves
    <3>2. Outstanding = [op |-> "none"] /\ Outstanding' \in Abstract!Request /\ reply' = reply
      BY <2>1, <2>6, CallIsBegin
    <3> QED
      BY <3>1, <3>2 DEF Abstract!Next, Abstract!Begin, Abstract!NoCall
  <2>7. CASE RefuseDuplicate \/ InsertIntoLeaf \/ SplitLeaf
    <3>1. Pending("table_insert") /\ Step
      BY <2>7 DEF RefuseDuplicate, InsertIntoLeaf, SplitLeaf, Step, InsertStep
    <3>2. Outstanding = [op |-> "insert", table |-> t, key |-> k]
      BY <2>4, <3>1 DEF Outstanding
    <3>3. CASE RefuseDuplicate
      <4>1. k \in R /\ reply' = FALSE
        BY <2>3, <2>4, <3>1, <3>3 DEF RefuseDuplicate
      <4>2. Rows' = Rows
        BY <1>2, <1>3, <2>2, <3>3, MovesKeepOrder DEF Moves
      <4>3. Rows = [Rows EXCEPT ![t] = @ \cup {k}]
        BY <2>4, <2>5, <4>1
      <4> QED
        BY <2>1, <2>4, <3>1, <3>2, <4>1, <4>2, <4>3 DEF Abstract!Next, Abstract!Insert, Abstract!NoCall
    <3>4. CASE InsertIntoLeaf \/ SplitLeaf
      <4>1. k \notin R /\ reply' = TRUE
        BY <2>3, <2>4, <3>1, <3>4 DEF InsertIntoLeaf, SplitLeaf
      <4>2. Rows' = [Rows EXCEPT ![t] = @ \cup {k}]
        BY <1>2, <1>3, <2>2, <2>4, <3>4, AddsKeepOrder DEF Adds
      <4> QED
        BY <2>1, <2>4, <3>1, <3>2, <4>1, <4>2 DEF Abstract!Next, Abstract!Insert, Abstract!NoCall
    <3> QED
      BY <2>7, <3>3, <3>4
  <2>8. CASE RefuseMissing \/ DeleteFromLeaf
    <3>1. Pending("table_delete") /\ ~Pending("table_insert") /\ Step
      BY <2>8 DEF RefuseMissing, DeleteFromLeaf, Step, DeleteStep, Pending
    <3>2. Outstanding = [op |-> "delete", table |-> t, key |-> k]
      BY <2>4, <3>1 DEF Outstanding
    <3>3. CASE RefuseMissing
      <4>1. k \notin R /\ reply' = FALSE
        BY <2>3, <2>4, <3>1, <3>3 DEF RefuseMissing
      <4>2. Rows' = Rows
        BY <1>2, <1>3, <2>2, <3>3, MovesKeepOrder DEF Moves
      <4>3. Rows' = [Rows EXCEPT ![t] = @ \ {k}]
        BY <2>4, <2>5, <4>1, <4>2
      <4>4. reply' = (k \in Rows[t])
        <5>1. (k \in Rows[t]) = FALSE
          BY <2>4, <4>1
        <5> QED
          BY <4>1, <5>1
      <4> QED
        BY <2>1, <3>1, <3>2, <4>3, <4>4 DEF Abstract!Next, Abstract!Delete, Abstract!NoCall
    <3>4. CASE DeleteFromLeaf
      <4>1. k \in R /\ reply' = TRUE
        BY <2>3, <2>4, <3>1, <3>4 DEF DeleteFromLeaf
      <4>2. Rows' = [Rows EXCEPT ![t] = @ \ {k}]
        BY <1>2, <1>3, <2>2, <2>4, <3>4, DeleteFromLeafKeepsOrder
      <4> QED
        BY <2>1, <2>4, <3>1, <3>2, <4>1, <4>2 DEF Abstract!Next, Abstract!Delete, Abstract!NoCall
    <3> QED
      BY <2>8, <3>3, <3>4
  \* The calls under a statement are not seen.
  <2>9. CASE \/ CreateNewRoot \/ AttachToParent \/ InsertChild \/ SplitInternal
             \/ LeafBorrowLeft \/ LeafBorrowRight \/ LeafMerge \/ CollapseRoot \/ KeepNode \/ RepairNode
             \/ InternalBorrowLeft \/ InternalBorrowRight \/ InternalMerge
    <3>1. Step
      BY <2>9 DEF Step, InsertStep, DeleteStep
    <3>2. ~Pending("table_insert") /\ ~Pending("table_delete") /\ reply' = reply
      BY <2>9 DEF CreateNewRoot, AttachToParent, InsertChild, SplitInternal, LeafBorrowLeft, LeafBorrowRight,
         LeafMerge, CollapseRoot, KeepNode, RepairNode, InternalBorrowLeft, InternalBorrowRight, InternalMerge, Pending
    <3>3. Outstanding' = Outstanding
      BY <2>1, <3>1, <3>2 DEF Outstanding
    <3>4. Rows' = Rows
      BY <1>2, <1>3, <2>2, <2>9, MovesKeepOrder DEF Moves
    <3> QED
      BY <3>2, <3>3, <3>4 DEF Abstract!vars
  <2> QED
    BY <1>5, <2>6, <2>7, <2>8, <2>9, EveryStep DEF Moves, Adds
<1> QED
  BY <1>4, <1>5

\* The trees are an implementation of sets of keys: what a scan of a table would
\* return changes once per call of table_insert or table_delete, in one step, by
\* the call's own key, and the call returns what that key's presence says, whatever
\* splits, borrows, merges and collapses go with it and whichever tables they share
\* pages with.  No row is lost, duplicated or brought back.
THEOREM TreesAreSets == Spec => ImplementsTables
<1>1. Init => RowsInv /\ Abstract!Init
  <2> SUFFICES ASSUME Init PROVE RowsInv /\ Abstract!Init
    OBVIOUS
  <2>1. UserCall
    BY DEF Init, UserCall, Pending, Idle
  <2> QED
    BY <2>1, OrderInit, NoRowsYet DEF RowsInv
<1>2. RowsInv /\ [Next]_vars => RowsInv' /\ [Abstract!Next]_(Abstract!vars)
  BY AbstractStep
<1> QED
  BY <1>1, <1>2, PTL DEF Spec, ImplementsTables, Abstract!Spec

=============================================================================
