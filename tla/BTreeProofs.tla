----------------------------- MODULE BTreeProofs -----------------------------
(***************************************************************************)
(* Proofs about the trees of module BTree, for every leaf capacity, every  *)
(* set of keys, every cap of the internal nodes, and as many tables as a   *)
(* leaf of the catalog lists.                                              *)
(*                                                                         *)
(* First TreeInv, which every step keeps: what the pages are while the     *)
(* statement at work has the calls of its stack still to make. Then what   *)
(* it implies: that no fatal exit is reached, that every page has one      *)
(* owner, that trees are balanced, and that tables are left alone.         *)
(***************************************************************************)
EXTENDS BTreeProperties, Lemmas

-----------------------------------------------------------------------------
\* Why splits, borrows and merges always fit.

\* The halves of a full leaf and the new cell: both meet the leaf's minimum and
\* neither is full (leaf_node_split_and_insert; "these are exactly the sizes a
\* split leaves").
THEOREM LeafHalvesFit ==
  /\ LeftSplitCount \in LeafMinCells..(LeafMaxCells - 1)
  /\ LeafMaxCells + 1 - LeftSplitCount \in LeafMinCells..(LeafMaxCells - 1)
  BY LeafMaxCellsAssumption DEF LeftSplitCount, LeafMinCells

\* A leaf other than the root keeps a cell when one is deleted, and so still
\* has a largest key for its separator (leaf_node_delete); one short, it fits
\* into a sibling that has nothing to spare (leaf_node_merge).
THEOREM LeafMergeFits ==
  /\ LeafMinCells - 1 >= 1
  /\ \A spare \in 0..LeafMinCells : (LeafMinCells - 1) + spare <= LeafMaxCells
  BY LeafMaxCellsAssumption DEF LeafMinCells

\* internal_node_split_and_insert on a node filled to the build's own cap: both
\* halves meet the minimum and have room for the child that caused the split.
THEOREM InternalHalvesFit ==
  ASSUME NEW cap \in Nat, cap >= 3
  PROVE  /\ cap \div 2 \in InternalMinKeys(cap)..(cap - 1)
         /\ cap - cap \div 2 - 1 \in InternalMinKeys(cap)..(cap - 1)
         /\ InternalMinKeys(cap) >= 1
  BY DEF InternalMinKeys

\* A node of `n` keys that another build filled can be split without a second
\* split exactly if `n` is less than twice this build's cap (the comment above
\* internal_node_split_and_insert claims it of any `n`).
THEOREM MixedHalvesHaveRoom ==
  ASSUME NEW cap \in Nat, cap >= 3, NEW n \in Nat, n >= cap
  PROVE  n \div 2 < cap /\ n - n \div 2 - 1 < cap <=> n < 2 * cap
  OBVIOUS

\* An internal node one short of its minimum, the separator above it and a
\* sibling with nothing to spare fit in one node (internal_node_merge).
THEOREM InternalMergeFits ==
  ASSUME NEW cap \in Nat, cap >= 3
  PROVE  \A spare \in 0..InternalMinKeys(cap) :
           (InternalMinKeys(cap) - 1) + 1 + spare <= cap
  BY DEF InternalMinKeys

\* A search ends at a position of the node or one past its end, whatever the
\* keys and the key.
LEMMA LowerBoundInRange ==
  ASSUME NEW S, NEW keys \in Seq(S), NEW key
  PROVE  LowerBound(keys, key) \in 1..Len(keys) + 1
<1> DEFINE T == {i \in DOMAIN keys : keys[i] >= key} \cup {Len(keys) + 1}
<1>1. T \in SUBSET Nat /\ T # {} /\ T \subseteq 1..Len(keys) + 1
  OBVIOUS
<1> HIDE DEF T
<1>2. \E m \in T : \A k \in T : m <= k
  BY <1>1, LeastOf
<1>3. (CHOOSE m \in T : \A k \in T : m <= k) \in T
  BY <1>2
<1> QED
  BY <1>1, <1>3 DEF LowerBound, Min, T

-----------------------------------------------------------------------------
\* What a table of pages must be for descents and climbs to end.

Record ==
  [type : {"leaf", "internal", "free"}, is_root : BOOLEAN, parent : Nat,
   keys : Seq(Nat), children : Seq(Nat), next : Nat]

Kids(ps, p) == ToSet(ps[p].children)
Alive(ps, p) == p \in DOMAIN ps /\ ps[p].type # "free"
Inner(ps, p) == p \in DOMAIN ps /\ ps[p].type = "internal"

\* An internal node has one child more than keys, no child twice; no other page
\* has any.
ChildrenCounted(node) ==
  /\ IsInjective(node.children)
  /\ node.type = "internal" => Len(node.children) = Len(node.keys) + 1
  /\ node.type # "internal" => node.children = <<>>

\* The level of a page is its height above the leaves.
Descends(ps, level) ==
  /\ ps \in Seq(Record)
  /\ \E top \in Nat : level \in [DOMAIN ps -> 0..top]
  /\ \A p \in DOMAIN ps : ChildrenCounted(ps[p])
  /\ \A p \in DOMAIN ps : \A c \in Kids(ps, p) :
       Alive(ps, c) /\ ~ps[c].is_root /\ level[p] = level[c] + 1
  /\ \A p \in DOMAIN ps : ps[p].type = "leaf" => level[p] = 0

LEMMA PageIs ==
  ASSUME NEW ps \in Seq(Record), NEW p \in DOMAIN ps
  PROVE  /\ ps[p] \in Record /\ ps[p].type \in {"leaf", "internal", "free"}
         /\ ps[p].is_root \in BOOLEAN /\ ps[p].parent \in Nat /\ ps[p].next \in Nat
         /\ ps[p].keys \in Seq(Nat) /\ Len(ps[p].keys) \in Nat
         /\ ps[p].children \in Seq(Nat) /\ Len(ps[p].children) \in Nat
<1>1. ps[p] \in Record
  BY ElementOfSeq, LenProperties
<1> QED
  BY <1>1 DEF Record

\* The child found at any position is a page one level down.
LEMMA ChildIsBelow ==
  ASSUME NEW ps, NEW level, Descends(ps, level),
         NEW p, Inner(ps, p), NEW i \in 1..Len(ps[p].keys) + 1
  PROVE  /\ i \in 1..Len(ps[p].children) /\ i \in DOMAIN ps[p].children
         /\ ps[p].children[i] \in Kids(ps, p)
         /\ Alive(ps, ps[p].children[i]) /\ ~ps[ps[p].children[i]].is_root
         /\ level[ps[p].children[i]] \in Nat /\ level[p] = level[ps[p].children[i]] + 1
<1>1. p \in DOMAIN ps /\ ps[p] \in Record /\ ps[p].children \in Seq(Nat)
  BY PageIs DEF Inner, Descends
<1>2. Len(ps[p].children) = Len(ps[p].keys) + 1 /\ DOMAIN ps[p].children = 1..Len(ps[p].children)
  BY <1>1 DEF Descends, ChildrenCounted, Inner
<1>3. i \in DOMAIN ps[p].children
  BY <1>2
<1>4. ps[p].children[i] \in Kids(ps, p)
  BY <1>3 DEF Kids, ToSet
<1>5. Alive(ps, ps[p].children[i]) /\ ~ps[ps[p].children[i]].is_root /\ level[p] = level[ps[p].children[i]] + 1
  BY <1>1, <1>4 DEF Descends
<1>6. level[ps[p].children[i]] \in Nat
  BY <1>5 DEF Alive, Descends
<1> QED
  BY <1>2, <1>3, <1>4, <1>5, <1>6

\* A descent for a key ends at a leaf, whatever the keys.
LEMMA DescentEnds ==
  ASSUME NEW ps, NEW level, Descends(ps, level), NEW page, Alive(ps, page), NEW key
  PROVE  /\ Alive(ps, LeafFor(ps, page, key)) /\ ps[LeafFor(ps, page, key)].type = "leaf"
         /\ \A C : page \in C /\ (\A p \in DOMAIN ps \cap C : Kids(ps, p) \subseteq C) =>
                  LeafFor(ps, page, key) \in C
<1> DEFINE D == DOMAIN ps
           stop == {p \in D : ps[p].type # "internal"}
           value == [p \in D |-> p]
           next == [p \in D |-> ps[p].children[LowerBound(ps[p].keys, key)]]
<1>1. PICK top \in Nat : level \in [D -> 0..top]
  BY DEF Descends
<1>2. ASSUME NEW p \in D \ stop 
      PROVE  /\ Inner(ps, p) /\ next[p] \in D /\ Alive(ps, next[p]) /\ next[p] \in Kids(ps, p)
             /\ level[next[p]] < level[p]
  <2>1. Inner(ps, p) /\ ps[p].keys \in Seq(Nat) /\ next[p] = ps[p].children[LowerBound(ps[p].keys, key)]
    <3>1. p \in DOMAIN ps /\ ps[p].type = "internal" /\ ps \in Seq(Record)
      BY DEF Descends
    <3> QED
      BY <3>1, PageIs DEF Inner
  <2>2. LowerBound(ps[p].keys, key) \in 1..Len(ps[p].keys) + 1
    BY <2>1, LowerBoundInRange
  <2>3. Alive(ps, next[p]) /\ next[p] \in Kids(ps, p) /\ level[next[p]] \in Nat /\ level[p] = level[next[p]] + 1
    BY <2>1, <2>2, ChildIsBelow
  <2> QED
    BY <2>1, <2>3 DEF Alive
<1>3. \E f : Follows(f, D, stop, value, next)
  <2>1. \A p \in D \ stop : next[p] \in D /\ level[next[p]] < level[p]
    BY <1>2
  <2> HIDE DEF D, stop, value, next
  <2> QED
    BY <1>1, <2>1, PathExists
<1> DEFINE body(f) == [p \in DOMAIN ps |->
                         IF ps[p].type = "internal"
                         THEN f[ps[p].children[LowerBound(ps[p].keys, key)]]
                         ELSE p]
           leaf == CHOOSE f : f = body(f)
<1>4. ASSUME NEW f PROVE Follows(f, D, stop, value, next) <=> f = body(f)
  <2>1. [p \in D |-> IF p \in stop THEN value[p] ELSE f[next[p]]] = body(f)
    OBVIOUS
  <2> QED
    BY <2>1 DEF Follows
<1> HIDE DEF body
<1>5. Follows(leaf, D, stop, value, next)
  BY <1>3, <1>4
<1>6. LeafFor(ps, page, key) = leaf[page]
  BY DEF LeafFor, body
<1> HIDE DEF leaf
<1>7. ASSUME NEW C, page \in C, \A p \in D \cap C : Kids(ps, p) \subseteq C
      PROVE  \E q \in D \ {p \in D : ps[p].type = "internal"} : leaf[page] = q /\ Alive(ps, q) /\ q \in C
  <2> DEFINE Q == {p \in D : Alive(ps, p) /\ p \in C}
  <2>1. \A p \in Q \ stop : next[p] \in Q /\ level[next[p]] < level[p]
    <3> TAKE p \in Q \ stop
    <3>1. next[p] \in D /\ Alive(ps, next[p]) /\ next[p] \in Kids(ps, p) /\ level[next[p]] < level[p]
      BY <1>2
    <3>2. Kids(ps, p) \subseteq C
      BY <1>7
    <3> QED
      BY <3>1, <3>2
  <2>2. Q \in SUBSET D
    OBVIOUS
  <2>3. \A p \in Q : \E q \in Q \cap stop : leaf[p] = value[q]
    <3> HIDE DEF D, stop, value, next, Q
    <3> QED
      BY <1>1, <1>5, <2>1, <2>2, PathEnds
  <2>4. PICK q \in Q \cap stop : leaf[page] = value[q]
    BY <1>7, <2>3 DEF Alive
  <2> QED
    BY <2>4
<1>8. PICK q \in D \ {p \in D : ps[p].type = "internal"} : leaf[page] = q /\ Alive(ps, q)
  <2>1. page \in D /\ \A p \in D \cap D : Kids(ps, p) \subseteq D
    BY DEF Descends, Alive
  <2> QED
    BY <1>7, <2>1
<1>9. ps[q].type = "leaf"
  <2>1. ps[q] \in Record /\ ps[q].type # "free" /\ ps[q].type # "internal"
    BY <1>8 DEF Alive, Descends
  <2> QED
    BY <2>1 DEF Record
<1> QED
  BY <1>6, <1>7, <1>8, <1>9

\* Leaves other than roots hold keys.
LeavesHoldKeys(ps) ==
  \A p \in DOMAIN ps : ps[p].type = "leaf" /\ ~ps[p].is_root => Len(ps[p].keys) # 0

\* A subtree has a largest key.
LEMMA MaxKeyIsKey ==
  ASSUME NEW ps, NEW level, Descends(ps, level), LeavesHoldKeys(ps),
         NEW page, Alive(ps, page), ~ps[page].is_root
  PROVE  MaxKey(ps, page) \in Nat
<1> DEFINE D == DOMAIN ps
           stop == {p \in D : ps[p].type # "internal"}
           value == [p \in D |-> p]
           next == [p \in D |-> Last(ps[p].children)]
           Q == {p \in D : Alive(ps, p) /\ ~ps[p].is_root}
<1>1. PICK top \in Nat : level \in [D -> 0..top]
  BY DEF Descends
<1>2. ASSUME NEW p \in D \ stop PROVE Inner(ps, p) /\ next[p] \in Q /\ level[next[p]] < level[p]
  <2>1. Inner(ps, p) /\ ps[p].keys \in Seq(Nat) /\ ps[p].children \in Seq(Nat)
    <3>1. p \in DOMAIN ps /\ ps[p].type = "internal" /\ ps \in Seq(Record)
      BY DEF Descends
    <3> QED
      BY <3>1, PageIs DEF Inner
  <2>2. Len(ps[p].children) = Len(ps[p].keys) + 1 /\ Len(ps[p].keys) \in Nat
    BY <2>1 DEF Descends, ChildrenCounted, Inner
  <2>3. next[p] = ps[p].children[Len(ps[p].keys) + 1] /\ Len(ps[p].keys) + 1 \in 1..Len(ps[p].keys) + 1
    BY <2>2 DEF Last
  <2>4. Alive(ps, next[p]) /\ ~ps[next[p]].is_root /\ level[next[p]] \in Nat /\ level[p] = level[next[p]] + 1
    <3>1. PICK i : i = Len(ps[p].keys) + 1
      OBVIOUS
    <3>2. PICK c : c = ps[p].children[i]
      OBVIOUS
    <3>3. next[p] = c /\ i \in 1..Len(ps[p].keys) + 1
      BY <2>3, <3>1, <3>2
    <3>4. Alive(ps, c) /\ ~ps[c].is_root /\ level[c] \in Nat /\ level[p] = level[c] + 1
      BY <2>1, <3>2, <3>3, ChildIsBelow
    <3> QED
      BY <3>3, <3>4
  <2> QED
    BY <2>1, <2>4 DEF Alive
<1>3. \E f : Follows(f, D, stop, value, next)
  <2>1. \A p \in D \ stop : next[p] \in D /\ level[next[p]] < level[p]
    BY <1>2
  <2> HIDE DEF D, stop, value, next, Q
  <2> QED
    BY <1>1, <2>1, PathExists
<1> DEFINE body(f) == [p \in DOMAIN ps |->
                         IF ps[p].type = "internal" THEN f[Last(ps[p].children)] ELSE p]
           rightmost == CHOOSE f : f = body(f)
<1>4. ASSUME NEW f PROVE Follows(f, D, stop, value, next) <=> f = body(f)
  <2>1. [p \in D |-> IF p \in stop THEN value[p] ELSE f[next[p]]] = body(f)
    OBVIOUS
  <2> QED
    BY <2>1 DEF Follows
<1> HIDE DEF body
<1>5. Follows(rightmost, D, stop, value, next)
  BY <1>3, <1>4
<1>6. MaxKey(ps, page) = Last(ps[rightmost[page]].keys)
  BY DEF MaxKey, body
<1> HIDE DEF rightmost
<1>7. \A p \in Q : \E q \in Q \cap stop : rightmost[p] = value[q]
  <2>1. \A p \in Q \ stop : next[p] \in Q /\ level[next[p]] < level[p]
    BY <1>2
  <2>2. Q \in SUBSET D
    OBVIOUS
  <2> HIDE DEF D, stop, value, next, Q
  <2> QED
    BY <1>1, <1>5, <2>1, <2>2, PathEnds
<1>8. PICK q \in Q \cap stop : rightmost[page] = q
  BY <1>7 DEF Alive
<1>9. ps[q].keys \in Seq(Nat) /\ Len(ps[q].keys) # 0
  <2>1. ps[q] \in Record /\ ps[q].type # "free" /\ ps[q].type # "internal"
    BY <1>8 DEF Alive, Descends
  <2> QED
    BY <1>8, <2>1 DEF Record, LeavesHoldKeys
<1> QED
  BY <1>6, <1>8, <1>9, Ends

-----------------------------------------------------------------------------
\* How pages hang together.  Every page that is not a root hangs under the
\* parent it names, but for the loose ones: nodes a split has made and no parent
\* has been told of.

Shape(ps, level, loose) ==
  /\ Descends(ps, level)
  /\ \A p \in DOMAIN ps : \A c \in Kids(ps, p) : ps[c].parent = p /\ c \notin loose
  /\ \A p \in DOMAIN ps :
       Alive(ps, p) /\ ~ps[p].is_root /\ p \notin loose =>
         ps[p].parent \in DOMAIN ps /\ p \in Kids(ps, ps[p].parent)
  /\ \A c \in loose : Alive(ps, c) /\ ~ps[c].is_root
  /\ \A p \in DOMAIN ps : ps[p].is_root => Alive(ps, p)

LEMMA OnlyInnerHasKids ==
  ASSUME NEW ps, NEW level, Descends(ps, level), NEW p \in DOMAIN ps, Kids(ps, p) # {}
  PROVE  Inner(ps, p)
<1> SUFFICES ASSUME ps[p].type # "internal" PROVE FALSE
  BY DEF Inner
<1>1. ps[p].children = <<>>
  BY DEF Descends, ChildrenCounted
<1>2. Kids(ps, p) = {}
  BY <1>1 DEF Kids, ToSet
<1> QED
  BY <1>2

\* A page's parent is one level up and lists it at the position ChildIndex finds.
LEMMA ParentIs ==
  ASSUME NEW ps, NEW level, NEW loose, Shape(ps, level, loose),
         NEW p, Alive(ps, p), ~ps[p].is_root, p \notin loose
  PROVE  /\ Inner(ps, ps[p].parent) /\ p \in Kids(ps, ps[p].parent)
         /\ level[ps[p].parent] = level[p] + 1 /\ level[p] \in Nat
         /\ ChildIndex(ps, ps[p].parent, p) \in 1..Len(ps[ps[p].parent].children)
         /\ ps[ps[p].parent].children[ChildIndex(ps, ps[p].parent, p)] = p
         /\ Len(ps[ps[p].parent].children) = Len(ps[ps[p].parent].keys) + 1
<1> DEFINE parent == ps[p].parent
           index == ChildIndex(ps, parent, p)
<1>1. p \in DOMAIN ps /\ parent \in DOMAIN ps /\ p \in Kids(ps, parent) /\ Descends(ps, level)
  BY DEF Shape, Alive
<1>2. Inner(ps, parent)
  BY <1>1, OnlyInnerHasKids
<1>3. level[parent] = level[p] + 1 /\ level[p] \in Nat
  BY <1>1 DEF Descends
<1>4. /\ ps[parent].children \in Seq(Nat)
      /\ DOMAIN ps[parent].children = 1..Len(ps[parent].children)
      /\ Len(ps[parent].children) = Len(ps[parent].keys) + 1
  BY <1>1, <1>2, PageIs DEF Descends, ChildrenCounted, Inner
<1>5. \E i \in DOMAIN ps[parent].children : ps[parent].children[i] = p
  BY <1>1 DEF Kids, ToSet
<1>6. index \in DOMAIN ps[parent].children /\ ps[parent].children[index] = p
  BY <1>5 DEF ChildIndex
<1> QED
  BY <1>1, <1>2, <1>3, <1>4, <1>6

\* Only keys have changed, and nowhere but in `at` how many there are.
Alike(m, n) ==
  /\ n.type = m.type /\ n.is_root = m.is_root /\ n.parent = m.parent
  /\ n.children = m.children /\ n.next = m.next

Rekeyed(ps, qs, at) ==
  /\ qs \in Seq(Record) /\ DOMAIN qs = DOMAIN ps
  /\ \A p \in DOMAIN ps : Alike(ps[p], qs[p])
  /\ \A p \in DOMAIN ps \ at : Len(qs[p].keys) = Len(ps[p].keys)

SetKeys(ps, page, ks) == [ps EXCEPT ![page].keys = ks]

LEMMA WithKeys ==
  ASSUME NEW ps \in Seq(Record), NEW page \in DOMAIN ps, NEW ks \in Seq(Nat)
  PROVE  /\ Rekeyed(ps, SetKeys(ps, page, ks), {page}) /\ SetKeys(ps, page, ks)[page].keys = ks
         /\ \A p \in DOMAIN ps \ {page} : SetKeys(ps, page, ks)[p] = ps[p]
<1> DEFINE node == [ps[page] EXCEPT !.keys = ks]
           qs == SetKeys(ps, page, ks)
<1>1. ps[page] \in Record /\ page \in 1..Len(ps) /\ DOMAIN ps = 1..Len(ps)
  BY PageIs
<1>2. node \in Record /\ Alike(ps[page], node) /\ node.keys = ks
  BY <1>1 DEF Record, Alike
<1>3. qs = [ps EXCEPT ![page] = node]
  BY DEF SetKeys
<1> HIDE DEF node, qs
<1>4. qs \in Seq(Record) /\ DOMAIN qs = DOMAIN ps
  BY <1>1, <1>2, <1>3, ExceptSeq
<1>5. \A p \in DOMAIN ps : qs[p] = IF p = page THEN node ELSE ps[p]
  BY <1>3
<1>6. \A p \in DOMAIN ps : Alike(ps[p], qs[p])
  BY <1>2, <1>5 DEF Alike
<1> QED
  BY <1>2, <1>4, <1>5, <1>6 DEF Rekeyed, qs

LEMMA RekeyedTwice ==
  ASSUME NEW ps, NEW qs, NEW rs, NEW at, NEW bt, Rekeyed(ps, qs, at), Rekeyed(qs, rs, bt)
  PROVE  Rekeyed(ps, rs, at \cup bt)
  BY DEF Rekeyed, Alike

LEMMA RekeyedMore ==
  ASSUME NEW ps, NEW qs, NEW at, NEW bt, Rekeyed(ps, qs, at), at \subseteq bt
  PROVE  Rekeyed(ps, qs, bt)
  BY DEF Rekeyed

\* One key changed in place.
SetKey(ps, page, i, k) == [ps EXCEPT ![page].keys[i] = k]

LEMMA WithKey ==
  ASSUME NEW ps \in Seq(Record), NEW page \in DOMAIN ps, NEW i \in 1..Len(ps[page].keys), NEW k \in Nat
  PROVE  Rekeyed(ps, SetKey(ps, page, i, k), {})
<1> DEFINE ks == [ps[page].keys EXCEPT ![i] = k]
           qs == SetKeys(ps, page, ks)
<1>1. ps[page].keys \in Seq(Nat)
  BY PageIs
<1>2. ks \in Seq(Nat) /\ Len(ks) = Len(ps[page].keys)
  BY <1>1, ExceptSeq
<1>3. SetKey(ps, page, i, k) = qs
  BY DEF SetKeys, SetKey
<1> HIDE DEF ks
<1>4. Rekeyed(ps, qs, {page}) /\ qs[page].keys = ks
  BY <1>2, WithKeys
<1> HIDE DEF qs
<1>5. Rekeyed(ps, qs, {})
  BY <1>2, <1>4 DEF Rekeyed
<1> QED
  BY <1>3, <1>5

\* New keys, as many as before in every internal node, leave the shape alone.
LEMMA RekeyedShape ==
  ASSUME NEW ps, NEW qs, NEW at, NEW level, NEW loose, Shape(ps, level, loose), Rekeyed(ps, qs, at),
         \A p \in at : ~Inner(ps, p)
  PROVE  Shape(qs, level, loose)
<1>1. DOMAIN qs = DOMAIN ps /\ qs \in Seq(Record)
  BY DEF Rekeyed
<1>2. \A p \in DOMAIN ps : /\ Kids(qs, p) = Kids(ps, p)
                           /\ qs[p].is_root = ps[p].is_root /\ qs[p].parent = ps[p].parent
                           /\ qs[p].type = ps[p].type
  BY DEF Rekeyed, Alike, Kids
<1>3. \A p : Alive(qs, p) <=> Alive(ps, p)
  BY <1>1, <1>2 DEF Alive
<1>4. \A p \in DOMAIN ps : ChildrenCounted(qs[p])
  <2> SUFFICES ASSUME NEW p \in DOMAIN ps PROVE ChildrenCounted(qs[p])
    OBVIOUS
  <2>1. ChildrenCounted(ps[p]) /\ Alike(ps[p], qs[p])
    BY DEF Shape, Descends, Rekeyed
  <2>2. ps[p].type = "internal" => Len(qs[p].keys) = Len(ps[p].keys)
    BY DEF Rekeyed, Inner
  <2> QED
    BY <2>1, <2>2 DEF ChildrenCounted, Alike
<1>5. Descends(qs, level)
  BY <1>1, <1>2, <1>3, <1>4 DEF Shape, Descends, Alive
<1>6. \A p \in DOMAIN qs : \A c \in Kids(qs, p) : qs[c].parent = p /\ c \notin loose
  BY <1>1, <1>2 DEF Shape, Descends, Alive
<1>7. \A p \in DOMAIN qs :
        Alive(qs, p) /\ ~qs[p].is_root /\ p \notin loose =>
          qs[p].parent \in DOMAIN qs /\ p \in Kids(qs, qs[p].parent)
  BY <1>1, <1>2, <1>3 DEF Shape
<1>8. /\ \A c \in loose : Alive(qs, c) /\ ~qs[c].is_root
      /\ \A p \in DOMAIN qs : qs[p].is_root => Alive(qs, p)
  BY <1>1, <1>2, <1>3 DEF Shape, Alive
<1> QED
  BY <1>5, <1>6, <1>7, <1>8 DEF Shape

-----------------------------------------------------------------------------
\* A set of pages that holds a page if and only if it holds its parent, and
\* that a step leaves as they are.
KeepsTogether(ps, U) ==
  U \subseteq DOMAIN ps /\ \A p \in DOMAIN ps : \A c \in Kids(ps, p) : c \in U <=> p \in U

Same(ps, qs, U) == \A p \in U : p \in DOMAIN qs /\ qs[p] = ps[p]

\* lower_ancestor_separator climbs on from a page that is its parent's rightmost
\* child, and comes to an end without leaving a set of pages that holds the parents
\* of those.
Climbing(ps, p) == ~ps[p].is_root /\ ChildIndex(ps, ps[p].parent, p) \notin DOMAIN ps[ps[p].parent].keys

ClimbStays(ps, Q) == \A p \in Q : Alive(ps, p) /\ (Climbing(ps, p) => ps[p].parent \in Q)

Climbs(ps, max, climb) ==
  /\ \A page : LowerSeparator(ps, page, max) = climb[page]
  /\ \A p : Alive(ps, p) => climb[p] = IF ps[p].is_root THEN ps
                                       ELSE IF Climbing(ps, p) THEN climb[ps[p].parent]
                                       ELSE SetKey(ps, ps[p].parent, ChildIndex(ps, ps[p].parent, p), max)
  /\ \A Q : ClimbStays(ps, Q) => \A p \in Q : \E q \in Q : ~Climbing(ps, q) /\ climb[p] = climb[q]

LEMMA LowerSeparatorIs ==
  ASSUME NEW ps, NEW level, Shape(ps, level, {}), NEW max
  PROVE  \E climb : Climbs(ps, max, climb)
<1> DEFINE D == {q \in DOMAIN ps : ps[q].type # "free"}
           stop == {p \in D : ~Climbing(ps, p)}
           value == [p \in D |-> IF ps[p].is_root THEN ps
                                 ELSE SetKey(ps, ps[p].parent, ChildIndex(ps, ps[p].parent, p), max)]
           next == [p \in D |-> ps[p].parent]
<1>1. PICK top \in Nat : level \in [DOMAIN ps -> 0..top]
  BY DEF Shape, Descends
<1> DEFINE rank == [p \in D |-> top - level[p]]
<1>2. rank \in [D -> 0..top]
  BY <1>1
<1>3. ASSUME NEW p \in D \ stop PROVE next[p] \in D /\ rank[next[p]] < rank[p]
  <2>1. Alive(ps, p) /\ ~ps[p].is_root /\ next[p] = ps[p].parent
    BY DEF Alive, Climbing
  <2>2. Inner(ps, next[p]) /\ level[next[p]] = level[p] + 1 /\ level[p] \in Nat
    BY <2>1, ParentIs
  <2>3. next[p] \in D
    BY <2>2 DEF Inner
  <2> QED
    BY <1>1, <2>2, <2>3
<1>4. \E f : Follows(f, D, stop, value, next)
  <2> HIDE DEF D, stop, value, next, rank
  <2> QED
    BY <1>2, <1>3, PathExists
<1> DEFINE body(f) == [p \in {q \in DOMAIN ps : ps[q].type # "free"} |->
                         IF ps[p].is_root THEN ps
                         ELSE LET parent == ps[p].parent
                                  i == ChildIndex(ps, parent, p)
                              IN  IF i \in DOMAIN ps[parent].keys
                                  THEN [ps EXCEPT ![parent].keys[i] = max]
                                  ELSE f[parent]]
           climb == CHOOSE f : f = body(f)
<1>5. ASSUME NEW f PROVE Follows(f, D, stop, value, next) <=> f = body(f)
  <2>1. [p \in D |-> IF p \in stop THEN value[p] ELSE f[next[p]]] = body(f)
    BY DEF Climbing, SetKey
  <2> QED
    BY <2>1 DEF Follows
<1> HIDE DEF body
<1>6. Follows(climb, D, stop, value, next)
  BY <1>4, <1>5
<1>7. \A page : LowerSeparator(ps, page, max) = climb[page]
  BY DEF LowerSeparator, body
<1> HIDE DEF climb
<1>8. \A p : Alive(ps, p) => climb[p] = IF ps[p].is_root THEN ps
                                        ELSE IF Climbing(ps, p) THEN climb[ps[p].parent]
                                        ELSE SetKey(ps, ps[p].parent, ChildIndex(ps, ps[p].parent, p), max)
  <2> SUFFICES ASSUME NEW p \in D
               PROVE climb[p] = IF ps[p].is_root THEN ps
                                ELSE IF Climbing(ps, p) THEN climb[ps[p].parent]
                                ELSE SetKey(ps, ps[p].parent, ChildIndex(ps, ps[p].parent, p), max)
    BY DEF Alive
  <2>1. climb[p] = IF p \in stop THEN value[p] ELSE climb[next[p]]
    <3> HIDE DEF D, stop, value, next
    <3> QED
      BY <1>6 DEF Follows
  <2> QED
    BY <2>1 DEF Climbing
<1>9. ASSUME NEW Q, ClimbStays(ps, Q) PROVE \A p \in Q : \E q \in Q : ~Climbing(ps, q) /\ climb[p] = climb[q]
  <2>1. Q \in SUBSET D /\ \A p \in Q \ stop : next[p] \in Q /\ rank[next[p]] < rank[p]
    <3>1. Q \in SUBSET D
      BY <1>9 DEF ClimbStays, Alive
    <3> QED
      BY <1>3, <1>9, <3>1 DEF ClimbStays
  <2>2. \A p \in Q : \E q \in Q \cap stop : climb[p] = value[q]
    <3> HIDE DEF D, stop, value, next, rank
    <3> QED
      BY <1>2, <1>6, <2>1, PathEnds
  <2>3. \A q \in Q \cap stop : climb[q] = value[q]
    BY <1>8, <2>1 DEF Alive, Climbing
  <2> QED
    BY <2>2, <2>3
<1> QED
  BY <1>7, <1>8, <1>9 DEF Climbs

\* lower_ancestor_separator changes one key at most, one of the page's own tree.
LEMMA LowerSeparatorRekeys ==
  ASSUME NEW ps, NEW level, Shape(ps, level, {}),
         NEW page, Alive(ps, page), NEW max \in Nat
  PROVE  /\ Rekeyed(ps, LowerSeparator(ps, page, max), {})
         /\ \A U : page \notin U /\ KeepsTogether(ps, U) => Same(ps, LowerSeparator(ps, page, max), U)
<1>1. PICK climb : Climbs(ps, max, climb)
  BY LowerSeparatorIs
<1>2. \A p : Alive(ps, p) /\ ~ps[p].is_root => ps[p].parent \in DOMAIN ps /\ p \in Kids(ps, ps[p].parent)
  BY ParentIs DEF Inner
<1>3. ASSUME NEW U, page \notin U, KeepsTogether(ps, U)
      PROVE  \E q : /\ Alive(ps, q) /\ q \notin U /\ ~Climbing(ps, q)
                    /\ LowerSeparator(ps, page, max) = climb[q]
  <2>1. PICK Q : Q = {q \in DOMAIN ps : Alive(ps, q) /\ q \notin U}
    OBVIOUS
  <2>2. ClimbStays(ps, Q) /\ page \in Q
    <3> SUFFICES ASSUME NEW p \in Q, Climbing(ps, p) PROVE ps[p].parent \in Q
      BY <1>3, <2>1 DEF ClimbStays, Alive
    <3>1. Alive(ps, p) /\ ~ps[p].is_root /\ p \notin U
      BY <2>1 DEF Climbing
    <3>2. Inner(ps, ps[p].parent) /\ p \in Kids(ps, ps[p].parent)
      BY <3>1, ParentIs
    <3> QED
      BY <1>3, <2>1, <3>1, <3>2 DEF KeepsTogether, Inner, Alive
  <2> QED
    BY <1>1, <2>1, <2>2 DEF Climbs
<1>4. \E q : Alive(ps, q) /\ ~Climbing(ps, q) /\ LowerSeparator(ps, page, max) = climb[q]
  <2>1. KeepsTogether(ps, {})
    BY <1>2 DEF KeepsTogether
  <2> QED
    BY <1>3, <2>1
<1>5. PICK q : Alive(ps, q) /\ ~Climbing(ps, q) /\ LowerSeparator(ps, page, max) = climb[q]
  BY <1>4
<1>6. Rekeyed(ps, climb[q], {})
  <2>1. CASE ps[q].is_root
    <3>1. climb[q] = ps
      BY <1>1, <1>5, <2>1 DEF Climbs
    <3> QED
      BY <3>1 DEF Rekeyed, Alike, Shape, Descends
  <2>2. CASE ~ps[q].is_root
    <3>1. PICK i, parent : parent = ps[q].parent /\ i = ChildIndex(ps, parent, q)
      OBVIOUS
    <3>2. climb[q] = SetKey(ps, parent, i, max) /\ i \in DOMAIN ps[parent].keys
      BY <1>1, <1>5, <2>2, <3>1 DEF Climbs, Climbing
    <3>3. parent \in DOMAIN ps /\ ps \in Seq(Record)
      BY <1>2, <1>5, <2>2, <3>1 DEF Shape, Descends
    <3>4. i \in 1..Len(ps[parent].keys)
      BY <3>2, <3>3, PageIs, LenProperties
    <3> QED
      BY <3>2, <3>3, <3>4, WithKey
  <2> QED
    BY <2>1, <2>2
<1>7. ASSUME NEW U, page \notin U, KeepsTogether(ps, U)
      PROVE  Same(ps, LowerSeparator(ps, page, max), U)
  <2>1. PICK r : Alive(ps, r) /\ r \notin U /\ ~Climbing(ps, r) /\ LowerSeparator(ps, page, max) = climb[r]
    BY <1>3, <1>7
  <2>2. CASE ps[r].is_root
    <3>1. climb[r] = ps
      BY <1>1, <2>1, <2>2 DEF Climbs
    <3> QED
      BY <1>7, <2>1, <3>1 DEF Same, KeepsTogether
  <2>3. CASE ~ps[r].is_root
    <3>1. climb[r] = SetKey(ps, ps[r].parent, ChildIndex(ps, ps[r].parent, r), max)
      BY <1>1, <2>1, <2>3 DEF Climbs
    <3>2. ps[r].parent \notin U
      BY <1>2, <1>7, <2>1, <2>3 DEF KeepsTogether
    <3>3. Same(ps, climb[r], U)
      BY <1>7, <3>1, <3>2 DEF Same, KeepsTogether, SetKey
    <3> QED
      BY <2>1, <3>3
  <2> QED
    BY <2>2, <2>3
<1> QED
  BY <1>5, <1>6, <1>7

-----------------------------------------------------------------------------
\* The free list: the free pages in some order, each naming the one before it,
\* and the head the last of them.

Listed(ps, head, n, list) ==
  /\ list \in [1..n -> DOMAIN ps] /\ IsInjective(list)
  /\ \A p \in DOMAIN ps : ps[p].type = "free" <=> \E i \in 1..n : list[i] = p
  /\ \A i \in 1..n : ps[list[i]].next = IF i = 1 THEN NoPage ELSE list[i - 1]
  /\ head = IF n = 0 THEN NoPage ELSE list[n]

FreeChain(ps, head) == \E n \in Nat : \E list : Listed(ps, head, n, list)

LEMMA FreeHead ==
  ASSUME NEW ps, NEW head, FreeChain(ps, head), head # NoPage
  PROVE  head \in DOMAIN ps /\ ps[head].type = "free"
<1>n. PICK n \in Nat : \E list : Listed(ps, head, n, list)
  BY DEF FreeChain
<1>1. PICK list : Listed(ps, head, n, list)
  BY <1>n
<1>2. n \in 1..n /\ head = list[n] /\ head \in DOMAIN ps
  BY <1>1 DEF Listed
<1> QED
  BY <1>1, <1>2 DEF Listed

\* Steps that neither take nor free a page.
LEMMA FreeChainKept ==
  ASSUME NEW ps, NEW qs, NEW head, FreeChain(ps, head), DOMAIN qs = DOMAIN ps,
         \A p \in DOMAIN ps : /\ ps[p].type = "free" <=> qs[p].type = "free"
                              /\ ps[p].type = "free" => qs[p].next = ps[p].next
  PROVE  FreeChain(qs, head)
<1>n. PICK n \in Nat : \E list : Listed(ps, head, n, list)
  BY DEF FreeChain
<1>1. PICK list : Listed(ps, head, n, list)
  BY <1>n
<1>2. \A i \in 1..n : list[i] \in DOMAIN ps /\ ps[list[i]].type = "free"
  BY <1>1 DEF Listed
<1>3. ASSUME NEW p \in DOMAIN qs PROVE qs[p].type = "free" <=> \E i \in 1..n : list[i] = p
  <2>1. ps[p].type = "free" <=> \E i \in 1..n : list[i] = p
    BY <1>1 DEF Listed
  <2> QED
    BY <2>1
<1>4. ASSUME NEW i \in 1..n PROVE qs[list[i]].next = IF i = 1 THEN NoPage ELSE list[i - 1]
  <2>1. qs[list[i]].next = ps[list[i]].next
    BY <1>2
  <2>2. ps[list[i]].next = IF i = 1 THEN NoPage ELSE list[i - 1]
    BY <1>1 DEF Listed
  <2> QED
    BY <2>1, <2>2
<1>5. list \in [1..n -> DOMAIN qs] /\ IsInjective(list) /\ head = IF n = 0 THEN NoPage ELSE list[n]
  BY <1>1 DEF Listed
<1> QED
  BY <1>3, <1>4, <1>5 DEF FreeChain, Listed

\* pager_allocate_page: the head of the list, or a page past the end of the file.
LEMMA PageTaken ==
  ASSUME NEW ps, NEW qs, NEW head, NEW rest, NEW new, FreeChain(ps, head), NoPage \notin DOMAIN ps,
         IF head # NoPage THEN new = head /\ rest = ps[head].next ELSE new \notin DOMAIN ps /\ rest = NoPage,
         DOMAIN qs = DOMAIN ps \cup {new}, qs[new].type # "free",
         \A p \in DOMAIN ps \ {new} : /\ ps[p].type = "free" <=> qs[p].type = "free"
                                      /\ ps[p].type = "free" => qs[p].next = ps[p].next
  PROVE  FreeChain(qs, rest)
<1>n. PICK n \in Nat : \E list : Listed(ps, head, n, list)
  BY DEF FreeChain
<1>1. PICK list : Listed(ps, head, n, list)
  BY <1>n
<1>2. \A i \in 1..n : list[i] \in DOMAIN ps /\ ps[list[i]].type = "free"
  BY <1>1 DEF Listed
<1>3. CASE head = NoPage
  <2>1. n = 0
    BY <1>1, <1>3 DEF Listed
  <2>2. Listed(qs, rest, n, list)
    BY <1>1, <1>3, <2>1 DEF Listed
  <2> QED
    BY <2>2 DEF FreeChain
<1>4. CASE head # NoPage
  <2> DEFINE shorter == [i \in 1..(n - 1) |-> list[i]]
  <2>1. n \in 1..n /\ new = list[n] /\ n - 1 \in Nat /\ new \in DOMAIN ps
    BY <1>1, <1>4 DEF Listed
  <2>2. rest = IF n - 1 = 0 THEN NoPage ELSE shorter[n - 1]
    BY <1>1, <1>4, <2>1 DEF Listed
  <2>3. \A i \in 1..(n - 1) : i \in 1..n /\ list[i] # new /\ shorter[i] = list[i]
    BY <1>1, <2>1 DEF Listed, IsInjective
  <2>4. shorter \in [1..(n - 1) -> DOMAIN qs] /\ IsInjective(shorter)
    BY <1>1, <1>2, <2>3 DEF Listed, IsInjective
  <2>5. \A i \in 1..(n - 1) : qs[shorter[i]].next = IF i = 1 THEN NoPage ELSE shorter[i - 1]
    <3> SUFFICES ASSUME NEW i \in 1..(n - 1)
                 PROVE  qs[shorter[i]].next = IF i = 1 THEN NoPage ELSE shorter[i - 1]
      OBVIOUS
    <3>1. qs[list[i]].next = ps[list[i]].next
      BY <1>2, <2>3
    <3>2. ps[list[i]].next = IF i = 1 THEN NoPage ELSE list[i - 1]
      BY <1>1, <2>3 DEF Listed
    <3>3. i # 1 => i - 1 \in 1..(n - 1)
      OBVIOUS
    <3> QED
      BY <2>3, <3>1, <3>2, <3>3
  <2>6. \A p \in DOMAIN qs : qs[p].type = "free" <=> \E i \in 1..(n - 1) : shorter[i] = p
    <3> SUFFICES ASSUME NEW p \in DOMAIN qs
                 PROVE  qs[p].type = "free" <=> \E i \in 1..(n - 1) : shorter[i] = p
      OBVIOUS
    <3>1. CASE p = new
      BY <2>3, <3>1
    <3>2. CASE p # new
      <4>1. p \in DOMAIN ps /\ (qs[p].type = "free" <=> \E i \in 1..n : list[i] = p)
        BY <1>1, <3>2 DEF Listed
      <4>2. (\E i \in 1..n : list[i] = p) <=> \E i \in 1..(n - 1) : shorter[i] = p
        BY <2>1, <2>3, <3>2
      <4> QED
        BY <4>1, <4>2
    <3> QED
      BY <3>1, <3>2
  <2> HIDE DEF shorter
  <2>7. Listed(qs, rest, n - 1, shorter)
    BY <2>2, <2>4, <2>5, <2>6 DEF Listed
  <2> QED
    BY <2>1, <2>7 DEF FreeChain
<1> QED
  BY <1>3, <1>4

\* pager_free_page.
LEMMA PageFreed ==
  ASSUME NEW ps, NEW qs, NEW head, NEW gone, FreeChain(ps, head), gone \in DOMAIN ps,
         ps[gone].type # "free", DOMAIN qs = DOMAIN ps, qs[gone] = FreePage(head),
         \A p \in DOMAIN ps \ {gone} : /\ ps[p].type = "free" <=> qs[p].type = "free"
                                       /\ ps[p].type = "free" => qs[p].next = ps[p].next
  PROVE  FreeChain(qs, gone)
<1>n. PICK n \in Nat : \E list : Listed(ps, head, n, list)
  BY DEF FreeChain
<1>1. PICK list : Listed(ps, head, n, list)
  BY <1>n
<1>2. \A i \in 1..n : list[i] \in DOMAIN ps /\ ps[list[i]].type = "free" /\ list[i] # gone
  BY <1>1 DEF Listed
<1> DEFINE longer == [i \in 1..(n + 1) |-> IF i = n + 1 THEN gone ELSE list[i]]
<1>3. /\ longer[n + 1] = gone /\ n + 1 \in 1..(n + 1) /\ n + 1 \in Nat
      /\ \A i \in 1..(n + 1) : i # n + 1 => i \in 1..n
      /\ \A i \in 1..n : i \in 1..(n + 1) /\ longer[i] = list[i]
  OBVIOUS
<1>4. longer \in [1..(n + 1) -> DOMAIN qs]
  BY <1>2
<1>5. qs[gone].type = "free" /\ qs[gone].next = head
  BY DEF FreePage
<1> HIDE DEF longer
<1>6. IsInjective(longer)
  <2> SUFFICES ASSUME NEW i \in 1..(n + 1), NEW j \in 1..(n + 1), longer[i] = longer[j] PROVE i = j
    BY <1>4 DEF IsInjective
  <2>1. CASE i # n + 1 /\ j # n + 1
    <3>1. i \in 1..n /\ j \in 1..n /\ list[i] = list[j]
      BY <1>3, <2>1
    <3> QED
      BY <1>1, <3>1 DEF Listed, IsInjective
  <2> QED
    BY <1>2, <1>3, <2>1
<1>7. \A p \in DOMAIN qs : qs[p].type = "free" <=> \E i \in 1..(n + 1) : longer[i] = p
  <2> SUFFICES ASSUME NEW p \in DOMAIN qs
               PROVE  qs[p].type = "free" <=> \E i \in 1..(n + 1) : longer[i] = p
    OBVIOUS
  <2>1. CASE p = gone
    BY <1>3, <1>5, <2>1
  <2>2. CASE p # gone
    <3>1. qs[p].type = "free" <=> \E i \in 1..n : list[i] = p
      BY <1>1, <2>2 DEF Listed
    <3> QED
      BY <1>3, <2>2, <3>1
  <2> QED
    BY <2>1, <2>2
<1>8. \A i \in 1..(n + 1) : qs[longer[i]].next = IF i = 1 THEN NoPage ELSE longer[i - 1]
  <2> SUFFICES ASSUME NEW i \in 1..(n + 1)
               PROVE  qs[longer[i]].next = IF i = 1 THEN NoPage ELSE longer[i - 1]
    OBVIOUS
  <2>1. CASE i = n + 1
    <3>1. head = IF n = 0 THEN NoPage ELSE list[n]
      BY <1>1 DEF Listed
    <3>2. n # 0 => n \in 1..n /\ longer[n] = list[n]
      BY <1>3
    <3> QED
      BY <1>3, <1>5, <2>1, <3>1, <3>2
  <2>2. CASE i # n + 1
    <3>1. i \in 1..n /\ longer[i] = list[i]
      BY <1>3, <2>2
    <3>2. qs[list[i]].next = ps[list[i]].next
      BY <1>2, <3>1
    <3>3. ps[list[i]].next = IF i = 1 THEN NoPage ELSE list[i - 1]
      BY <1>1, <3>1 DEF Listed
    <3>4. i # 1 => i - 1 \in 1..n /\ longer[i - 1] = list[i - 1]
      BY <1>3, <3>1
    <3> QED
      BY <3>1, <3>2, <3>3, <3>4
  <2> QED
    BY <2>1, <2>2
<1>9. gone = IF n + 1 = 0 THEN NoPage ELSE longer[n + 1]
  BY <1>3
<1>10. Listed(qs, gone, n + 1, longer)
  BY <1>4, <1>6, <1>7, <1>8, <1>9 DEF Listed
<1> QED
  BY <1>3, <1>10 DEF FreeChain

-----------------------------------------------------------------------------
\* How full the pages are.  The pages of `short`, one at most, may be one key
\* short of their minimum.

Enough(node, m) ==
  Len(node.keys) >= IF node.type = "leaf" THEN LeafMinCells ELSE InternalMinKeys(m)

Fits(node, m, less) ==
  /\ node.type = "leaf" =>
       /\ Len(node.keys) <= LeafMaxCells
       /\ ~node.is_root => Len(node.keys) + less >= LeafMinCells
  /\ node.type = "internal" =>
       /\ Len(node.keys) <= m
       /\ Len(node.keys) + less >= IF node.is_root THEN 1 ELSE InternalMinKeys(m)

Filled(ps, m, short) ==
  \A p \in DOMAIN ps : Fits(ps[p], m, 1) /\ (p \notin short => Fits(ps[p], m, 0))

Tree(ps, head, m, rs, level, loose, short) ==
  /\ Shape(ps, level, loose)
  /\ FreeChain(ps, head)
  /\ Filled(ps, m, short)
  /\ rs = {p \in DOMAIN ps : ps[p].is_root}
  /\ m \in Nat /\ m >= 3

LEMMA LeafMinima ==
  /\ LeafMinCells \in Nat /\ LeafMinCells >= 2
  /\ LeafMaxCells \in Nat /\ 2 * LeafMinCells - 1 <= LeafMaxCells /\ LeafMinCells <= LeafMaxCells
  BY LeafMaxCellsAssumption DEF LeafMinCells

LEMMA InnerMinima ==
  ASSUME NEW m \in Nat, m >= 3
  PROVE  /\ InternalMinKeys(m) \in Nat /\ InternalMinKeys(m) >= 1
         /\ 2 * InternalMinKeys(m) <= m - 1
  BY DEF InternalMinKeys

LEMMA HoldKeys ==
  ASSUME NEW ps \in Seq(Record), NEW m, NEW short, Filled(ps, m, short)
  PROVE  LeavesHoldKeys(ps)
<1> SUFFICES ASSUME NEW p \in DOMAIN ps, ps[p].type = "leaf", ~ps[p].is_root PROVE Len(ps[p].keys) # 0
  BY DEF LeavesHoldKeys
<1>1. \E less \in {0, 1} : Len(ps[p].keys) + less >= LeafMinCells
  BY DEF Filled, Fits
<1>2. Len(ps[p].keys) \in Nat
  BY PageIs
<1>3. LeafMinCells \in Nat /\ LeafMinCells >= 2
  BY LeafMinima
<1> QED
  BY <1>1, <1>2, <1>3

-----------------------------------------------------------------------------
\* The calls still to be made, and what is loose or short meanwhile.

\* table_insert, table_delete
StatementCall(c, rs) ==
  c.fn \in {"table_insert", "table_delete"} /\ c.page \in rs /\ c.child = NoPage /\ c.key \in Nat

\* The two halves of a split node, level with each other.
AttachCall(c, ps, m, level) ==
  /\ c.fn = "attach_sibling"
  /\ Alive(ps, c.page) /\ Alive(ps, c.child) /\ c.child # c.page
  /\ level[c.child] = level[c.page] /\ Enough(ps[c.page], m)

\* A child for a node one level up.
PlaceCall(c, ps, level) ==
  /\ c.fn = "internal_node_insert"
  /\ Inner(ps, c.page) /\ Alive(ps, c.child) /\ level[c.page] = level[c.child] + 1

RepairCall(c, ps, m) ==
  /\ c.child = NoPage
  /\ \/ /\ c.fn = "leaf_node_rebalance"
        /\ Alive(ps, c.page) /\ ps[c.page].type = "leaf" /\ ~ps[c.page].is_root
        /\ Len(ps[c.page].keys) = LeafMinCells - 1
     \/ c.fn = "after_child_removed" /\ Inner(ps, c.page)
     \/ /\ c.fn = "internal_node_rebalance"
        /\ Inner(ps, c.page) /\ ~ps[c.page].is_root
        /\ Len(ps[c.page].keys) = InternalMinKeys(m) - 1

OneCall(c, ps, m, rs, level, loose, short) ==
  \/ StatementCall(c, rs) /\ loose = {} /\ short = {}
  \/ AttachCall(c, ps, m, level) /\ loose = {c.child} /\ short = {}
  \/ PlaceCall(c, ps, level) /\ loose = {c.child} /\ short = {}
  \/ RepairCall(c, ps, m) /\ loose = {} /\ short = {c.page}

\* A child for one half of a node that has split, the other half still loose.
TwoCalls(c, d, ps, m, level, loose, short) ==
  /\ PlaceCall(c, ps, level) /\ AttachCall(d, ps, m, level)
  /\ c.page \in {d.page, d.child} /\ c.child # d.child /\ Len(ps[c.page].keys) < m
  /\ loose = {c.child, d.child} /\ short = {}

Work(st, ps, m, rs, level, loose, short) ==
  \/ st = <<>> /\ loose = {} /\ short = {}
  \/ \E c : st = <<c>> /\ OneCall(c, ps, m, rs, level, loose, short)
  \/ \E c, d : st = <<c, d>> /\ TwoCalls(c, d, ps, m, level, loose, short)

Sound(level, loose, short) ==
  /\ Tree(pages, free_head, max_keys, roots, level, loose, short)
  /\ Work(stack, pages, max_keys, roots, level, loose, short)

TreeInv == \E level, loose, short : Sound(level, loose, short)

LEMMA TreeTyped ==
  ASSUME NEW level, NEW loose, NEW short, Tree(pages, free_head, max_keys, roots, level, loose, short)
  PROVE  /\ pages \in Seq(Record) /\ Len(pages) \in Nat /\ DOMAIN pages = 1..Len(pages)
         /\ Descends(pages, level) /\ Shape(pages, level, loose) /\ max_keys \in Nat /\ max_keys >= 3
  BY LenProperties DEF Tree, Shape, Descends

LEMMA Calls ==
  /\ Len(<<>>) = 0
  /\ \A c : /\ <<c>> # <<>> /\ Head(<<c>>) = c /\ Tail(<<c>>) = <<>>
            /\ <<c>> \o <<>> = <<c>>
  /\ \A c, d : /\ <<c, d>> # <<>> /\ Head(<<c, d>>) = c /\ Tail(<<c, d>>) = <<d>>
               /\ <<c, d>> \o <<>> = <<c, d>>
  /\ <<>> \o <<>> = <<>>
<1>1. ASSUME NEW c PROVE <<c>> \o <<>> = <<c>>
  <2>1. <<c>> \in Seq({c})
    OBVIOUS
  <2> QED
    BY <2>1, ConcatEmptySeq
<1>2. ASSUME NEW c, NEW d PROVE <<c, d>> \o <<>> = <<c, d>>
  <2>1. <<c, d>> \in Seq({c, d})
    OBVIOUS
  <2> QED
    BY <2>1, ConcatEmptySeq
<1>3. <<>> \o <<>> = <<>>
  <2>1. <<>> \in Seq({})
    OBVIOUS
  <2> QED
    BY <2>1, ConcatEmptySeq
<1> QED
  BY <1>1, <1>2, <1>3

\* The call on top, and what the stack becomes when it returns or goes on.
LEMMA TopIs ==
  ASSUME NEW level, NEW loose, NEW short, Sound(level, loose, short), ~Idle
  PROVE  \/ /\ stack = <<Top>> /\ OneCall(Top, pages, max_keys, roots, level, loose, short)
            /\ Tail(stack) = <<>>
            /\ Return <=> stack' = <<>>
            /\ \A c : Continue(<<c>>) <=> stack' = <<c>>
            /\ \A c, d : Continue(<<c, d>>) <=> stack' = <<c, d>>
            /\ Continue(<<>>) <=> stack' = <<>>
         \/ \E d : /\ stack = <<Top, d>> /\ TwoCalls(Top, d, pages, max_keys, level, loose, short)
                   /\ Return <=> stack' = <<d>>
<1>1. CASE \E c : stack = <<c>> /\ OneCall(c, pages, max_keys, roots, level, loose, short)
  BY <1>1, Calls DEF Top, Return, Continue
<1>2. CASE \E c, d : stack = <<c, d>> /\ TwoCalls(c, d, pages, max_keys, level, loose, short)
  BY <1>2, Calls DEF Top, Return, Continue
<1> QED
  BY <1>1, <1>2 DEF Sound, Work, Idle

\* What is on the stack when a step of some call is taken.
LEMMA StatementOnTop ==
  ASSUME NEW level, NEW loose, NEW short, Sound(level, loose, short),
         Pending("table_insert") \/ Pending("table_delete")
  PROVE  /\ StatementCall(Top, roots) /\ loose = {} /\ short = {}
         /\ Top.key \in Nat /\ Alive(pages, Top.page)
         /\ Alive(pages, Target) /\ pages[Target].type = "leaf"
         /\ Return <=> stack' = <<>>
         /\ \A c : Continue(<<c>>) <=> stack' = <<c>>
         /\ Continue(<<>>) <=> stack' = <<>>
<1>1. ~Idle /\ Top.fn \in {"table_insert", "table_delete"}
  BY DEF Pending, Top
<1>2. /\ OneCall(Top, pages, max_keys, roots, level, loose, short)
      /\ Return <=> stack' = <<>>
      /\ \A c : Continue(<<c>>) <=> stack' = <<c>>
      /\ Continue(<<>>) <=> stack' = <<>>
  BY <1>1, TopIs DEF TwoCalls, PlaceCall
<1>3. StatementCall(Top, roots) /\ loose = {} /\ short = {}
  BY <1>1, <1>2 DEF OneCall, AttachCall, PlaceCall, RepairCall
<1>4. Alive(pages, Top.page) /\ Descends(pages, level)
  BY <1>3 DEF StatementCall, Sound, Tree, Shape
<1>5. Alive(pages, Target) /\ pages[Target].type = "leaf"
  BY <1>4, DescentEnds DEF Target
<1> QED
  BY <1>2, <1>3, <1>4, <1>5 DEF StatementCall

LEMMA RepairOnTop ==
  ASSUME NEW level, NEW loose, NEW short, Sound(level, loose, short),
         NEW fn \in {"leaf_node_rebalance", "after_child_removed", "internal_node_rebalance"}, Pending(fn)
  PROVE  /\ RepairCall(Top, pages, max_keys) /\ Top.fn = fn /\ loose = {} /\ short = {Top.page}
         /\ Return <=> stack' = <<>>
         /\ \A c : Continue(<<c>>) <=> stack' = <<c>>
<1>1. ~Idle /\ Top.fn = fn
  BY DEF Pending, Top
<1>2. /\ OneCall(Top, pages, max_keys, roots, level, loose, short)
      /\ Return <=> stack' = <<>>
      /\ \A c : Continue(<<c>>) <=> stack' = <<c>>
  BY <1>1, TopIs DEF TwoCalls, PlaceCall
<1>3. RepairCall(Top, pages, max_keys) /\ loose = {} /\ short = {Top.page}
  BY <1>1, <1>2 DEF OneCall, AttachCall, PlaceCall, StatementCall
<1> QED
  BY <1>1, <1>2, <1>3

\* Steps that change no page.
LEMMA CallKeepsTree ==
  ASSUME TreeInv, NEW root \in UserRoots, NEW key \in Keys, CallInsert(root, key) \/ CallDelete(root, key)
  PROVE  TreeInv'
<1>1. PICK level, loose, short : Sound(level, loose, short)
  BY DEF TreeInv
<1>2. stack = <<>> /\ UNCHANGED <<pages, free_head, roots, max_keys>>
  BY DEF CallInsert, CallDelete, Idle
<1>3. loose = {} /\ short = {}
  BY <1>1, <1>2, Calls DEF Sound, Work
<1>4. PICK fn \in {"table_insert", "table_delete"} : stack' = <<Call(fn, root, NoPage, key)>>
  BY DEF CallInsert, CallDelete
<1>5. StatementCall(Call(fn, root, NoPage, key), roots)
  BY KeysAssumption DEF StatementCall, Call, UserRoots
<1>6. Work(stack, pages, max_keys, roots, level, loose, short)'
  BY <1>2, <1>3, <1>4, <1>5 DEF Work, OneCall
<1> QED
  BY <1>1, <1>2, <1>6 DEF TreeInv, Sound

LEMMA RefuseKeepsTree ==
  ASSUME TreeInv, RefuseDuplicate \/ RefuseMissing
  PROVE  TreeInv'
<1>1. PICK level, loose, short : Sound(level, loose, short)
  BY DEF TreeInv
<1>2. /\ Pending("table_insert") \/ Pending("table_delete")
      /\ Return /\ UNCHANGED <<pages, free_head, roots, max_keys>>
  BY DEF RefuseDuplicate, RefuseMissing
<1>3. loose = {} /\ short = {} /\ stack' = <<>>
  BY <1>1, <1>2, StatementOnTop
<1> QED
  BY <1>1, <1>2, <1>3 DEF TreeInv, Sound, Work

LEMMA KeepNodeKeepsTree ==
  ASSUME TreeInv, KeepNode
  PROVE  TreeInv'
<1>1. PICK level, loose, short : Sound(level, loose, short)
  BY DEF TreeInv
<1>2. /\ Pending("after_child_removed") /\ EnoughKeys
      /\ Return /\ UNCHANGED <<pages, free_head, roots, max_keys>>
  BY DEF KeepNode
<1>3. RepairCall(Top, pages, max_keys) /\ Top.fn = "after_child_removed" /\ loose = {} /\ short = {Top.page} /\ stack' = <<>>
  BY <1>1, <1>2, RepairOnTop
<1>4. Inner(pages, Top.page)
  BY <1>3 DEF RepairCall
<1>5. Fits(pages[Top.page], max_keys, 0)
  <2>1. Fits(pages[Top.page], max_keys, 1)
    BY <1>1, <1>4 DEF Inner, Sound, Tree, Filled
  <2>2. Len(pages[Top.page].keys) \in Nat
    BY <1>1, <1>4, PageIs, TreeTyped DEF Inner, Sound
  <2> QED
    BY <1>2, <1>4, <2>1, <2>2 DEF Inner, Fits, EnoughKeys, KeyCount
<1>6. Filled(pages, max_keys, {})
  BY <1>1, <1>3, <1>5 DEF Sound, Tree, Filled
<1>7. Sound(level, {}, {})'
  BY <1>1, <1>2, <1>3, <1>6 DEF Sound, Tree, Work
<1> QED
  BY <1>7 DEF TreeInv

LEMMA RepairNodeKeepsTree ==
  ASSUME TreeInv, RepairNode
  PROVE  TreeInv'
<1>1. PICK level, loose, short : Sound(level, loose, short)
  BY DEF TreeInv
<1> PICK c : c = Call("internal_node_rebalance", Top.page, NoPage, 0)
  OBVIOUS
<1>2. /\ Pending("after_child_removed") /\ ~EnoughKeys /\ ~pages[Top.page].is_root
      /\ Continue(<<c>>) /\ UNCHANGED <<pages, free_head, roots, max_keys>>
  BY DEF RepairNode
<1>3. /\ RepairCall(Top, pages, max_keys) /\ Top.fn = "after_child_removed"
      /\ loose = {} /\ short = {Top.page} /\ stack' = <<c>>
  BY <1>1, <1>2, RepairOnTop
<1>4. /\ Inner(pages, Top.page)
      /\ c.page = Top.page /\ c.fn = "internal_node_rebalance" /\ c.child = NoPage
  BY <1>3 DEF RepairCall, Call
<1>5. Len(pages[Top.page].keys) = InternalMinKeys(max_keys) - 1
  <2>1. Fits(pages[Top.page], max_keys, 1)
    BY <1>1, <1>4 DEF Inner, Sound, Tree, Filled
  <2>2. Len(pages[Top.page].keys) \in Nat
    BY <1>1, <1>4, PageIs, TreeTyped DEF Inner, Sound
  <2>3. InternalMinKeys(max_keys) \in Nat
    BY <1>1, InnerMinima, TreeTyped DEF Sound
  <2>4. Len(pages[Top.page].keys) + 1 >= InternalMinKeys(max_keys)
    BY <1>2, <1>4, <2>1 DEF Inner, Fits
  <2>5. Len(pages[Top.page].keys) < InternalMinKeys(max_keys)
    BY <1>2, <2>2, <2>3 DEF EnoughKeys, KeyCount
  <2> QED
    BY <2>2, <2>3, <2>4, <2>5
<1>6. OneCall(c, pages, max_keys, roots, level, loose, short)
  BY <1>2, <1>3, <1>4, <1>5 DEF OneCall, RepairCall
<1>7. Sound(level, loose, short)'
  BY <1>1, <1>2, <1>3, <1>6 DEF Sound, Work
<1> QED
  BY <1>7 DEF TreeInv

-----------------------------------------------------------------------------
\* Steps that change keys only.

LEMMA RekeyedTree ==
  ASSUME NEW ps, NEW qs, NEW at, NEW head, NEW m, NEW rs, NEW level, NEW loose, NEW short, NEW short2,
         Tree(ps, head, m, rs, level, loose, short), Rekeyed(ps, qs, at),
         \A p \in at : ~Inner(ps, p),
         \A p \in at \cap DOMAIN ps : Fits(qs[p], m, 1) /\ (p \notin short2 => Fits(qs[p], m, 0)),
         short \subseteq short2 \cup at
  PROVE  Tree(qs, head, m, rs, level, loose, short2)
<1>1. Shape(qs, level, loose)
  BY RekeyedShape DEF Tree
<1>2. DOMAIN qs = DOMAIN ps /\ \A p \in DOMAIN ps : Alike(ps[p], qs[p])
  BY DEF Rekeyed
<1>3. FreeChain(qs, head)
  BY <1>2, FreeChainKept DEF Tree, Alike
<1>4. rs = {p \in DOMAIN qs : qs[p].is_root}
  BY <1>2 DEF Tree, Alike
<1>5. ASSUME NEW p \in DOMAIN qs PROVE Fits(qs[p], m, 1) /\ (p \notin short2 => Fits(qs[p], m, 0))
  <2>1. CASE p \in at
    BY <1>2, <2>1
  <2>2. CASE p \notin at
    <3>1. Len(qs[p].keys) = Len(ps[p].keys) /\ Alike(ps[p], qs[p])
      BY <1>2, <2>2 DEF Rekeyed
    <3>2. Fits(ps[p], m, 1) /\ (p \notin short2 => Fits(ps[p], m, 0))
      BY <1>2, <2>2 DEF Tree, Filled
    <3> QED
      BY <3>1, <3>2 DEF Fits, Alike
  <2> QED
    BY <2>1, <2>2
<1> QED
  BY <1>1, <1>3, <1>4, <1>5 DEF Tree, Filled

LEMMA InsertIntoLeafKeepsTree ==
  ASSUME TreeInv, InsertIntoLeaf
  PROVE  TreeInv'
<1>1. PICK level, loose, short : Sound(level, loose, short)
  BY DEF TreeInv
<1>a. PICK leaf : leaf = Target
  OBVIOUS
<1>b. PICK ks : ks = InsertAt(pages[leaf].keys, LowerBound(pages[leaf].keys, Top.key), Top.key)
  OBVIOUS
<1>2. /\ Pending("table_insert") /\ Len(pages[leaf].keys) < LeafMaxCells
      /\ pages' = SetKeys(pages, leaf, ks)
      /\ Return /\ UNCHANGED <<free_head, roots, max_keys>>
  BY <1>a, <1>b DEF InsertIntoLeaf, SetKeys
<1>3. /\ loose = {} /\ short = {} /\ Top.key \in Nat
      /\ Alive(pages, leaf) /\ pages[leaf].type = "leaf" /\ stack' = <<>>
  BY <1>a, <1>1, <1>2, StatementOnTop
<1>4. pages \in Seq(Record) /\ leaf \in DOMAIN pages /\ pages[leaf].keys \in Seq(Nat) /\ Len(pages[leaf].keys) \in Nat
  BY <1>1, <1>3, TreeTyped, PageIs DEF Sound, Alive
<1>5. LowerBound(pages[leaf].keys, Top.key) \in 1..Len(pages[leaf].keys) + 1
  BY <1>4, LowerBoundInRange
<1>6. Enlarged(Nat, ks, pages[leaf].keys, Top.key)
  BY <1>b, <1>3, <1>4, <1>5, InsertAtGrows
<1>7. ks \in Seq(Nat) /\ Len(ks) = Len(pages[leaf].keys) + 1
  BY <1>6 DEF Enlarged
<1>8. Rekeyed(pages, pages', {leaf}) /\ pages'[leaf].keys = ks
  <2>1. Rekeyed(pages, SetKeys(pages, leaf, ks), {leaf}) /\ SetKeys(pages, leaf, ks)[leaf].keys = ks
    BY <1>4, <1>7, WithKeys
  <2> QED
    BY <1>2, <2>1
<1>9. Fits(pages'[leaf], max_keys, 0) /\ Fits(pages'[leaf], max_keys, 1)
  <2>1. Fits(pages[leaf], max_keys, 0) /\ Alike(pages[leaf], pages'[leaf])
    BY <1>1, <1>3, <1>4, <1>8 DEF Sound, Tree, Filled, Rekeyed
  <2> QED
    BY <1>2, <1>3, <1>4, <1>7, <1>8, <2>1, LeafMinima DEF Fits, Alike
<1>10. Tree(pages', free_head, max_keys, roots, level, {}, {})
  <2>1. Tree(pages, free_head, max_keys, roots, level, {}, {}) /\ \A p \in {leaf} : ~Inner(pages, p)
    BY <1>1, <1>3 DEF Sound, Inner
  <2>2. \A p \in {leaf} \cap DOMAIN pages : Fits(pages'[p], max_keys, 1) /\ (p \notin {} => Fits(pages'[p], max_keys, 0))
    BY <1>9
  <2>3. {} \subseteq {} \cup {leaf}
    OBVIOUS
  <2> QED
    BY <1>8, <2>1, <2>2, <2>3, RekeyedTree
<1>11. Sound(level, {}, {})'
  BY <1>2, <1>3, <1>10 DEF Sound, Work
<1> QED
  BY <1>11 DEF TreeInv

\* The leaf a delete aims at, less the key.
KeyGone(leaf, ks, ps, level) ==
  /\ pages \in Seq(Record) /\ leaf \in DOMAIN pages
  /\ pages[leaf].keys \in Seq(Nat) /\ Len(pages[leaf].keys) \in Nat
  /\ ks \in Seq(Nat) /\ Len(ks) = Len(pages[leaf].keys) - 1 /\ Len(ks) \in Nat
  /\ Rekeyed(pages, ps, {leaf}) /\ ps[leaf].keys = ks
  /\ Shape(pages, level, {}) /\ Shape(ps, level, {}) /\ Alive(ps, leaf)
  /\ ~pages[leaf].is_root => Len(ks) # 0

LEMMA KeyRemoved ==
  ASSUME NEW level, NEW loose, NEW short, Sound(level, loose, short), Pending("table_delete"),
         NEW leaf, leaf = Target, Holds(leaf, Top.key),
         NEW index, index = LowerBound(pages[leaf].keys, Top.key),
         NEW ks, ks = RemoveAt(pages[leaf].keys, index), NEW ps, ps = SetKeys(pages, leaf, ks)
  PROVE  KeyGone(leaf, ks, ps, level)
<1>3. loose = {} /\ Top.key \in Nat /\ Alive(pages, leaf) /\ pages[leaf].type = "leaf"
  BY StatementOnTop
<1>4. /\ pages \in Seq(Record) /\ leaf \in DOMAIN pages
      /\ pages[leaf].keys \in Seq(Nat) /\ Len(pages[leaf].keys) \in Nat
      /\ DOMAIN pages[leaf].keys = 1..Len(pages[leaf].keys)
  BY <1>3, TreeTyped, PageIs, LenProperties DEF Sound, Alive
<1>5. index \in 1..Len(pages[leaf].keys)
  <2> DEFINE T == {i \in DOMAIN pages[leaf].keys : pages[leaf].keys[i] >= Top.key} \cup {Len(pages[leaf].keys) + 1}
  <2>1. PICK i \in 1..Len(pages[leaf].keys) : pages[leaf].keys[i] = Top.key
    BY <1>4 DEF Holds, ToSet
  <2>2. T \in SUBSET Nat /\ i \in T
    BY <1>3, <1>4, <2>1
  <2> HIDE DEF T
  <2>3. \E j \in T : \A k \in T : j <= k
    BY <2>2, LeastOf
  <2>4. index = CHOOSE j \in T : \A k \in T : j <= k
    BY DEF LowerBound, Min, T
  <2>5. index \in T /\ index <= i
    BY <2>2, <2>3, <2>4
  <2> QED
    BY <1>4, <2>1, <2>5 DEF T
<1>6. Shrunk(Nat, ks, pages[leaf].keys, pages[leaf].keys[index])
  BY <1>4, <1>5, RemoveAtShrinks
<1>7. ks \in Seq(Nat) /\ Len(ks) = Len(pages[leaf].keys) - 1 /\ Len(ks) \in Nat
  BY <1>6, LenProperties DEF Shrunk
<1>8. Rekeyed(pages, ps, {leaf}) /\ ps[leaf].keys = ks
  BY <1>4, <1>7, WithKeys
<1>9. Shape(pages, level, {})
  BY <1>3 DEF Sound, Tree
<1>10. Shape(ps, level, {}) /\ Alive(ps, leaf)
  <2>1. \A p \in {leaf} : ~Inner(pages, p)
    BY <1>3 DEF Inner
  <2>2. Alike(pages[leaf], ps[leaf]) /\ leaf \in DOMAIN ps
    BY <1>4, <1>8 DEF Rekeyed
  <2> QED
    BY <1>3, <1>8, <1>9, <2>1, <2>2, RekeyedShape DEF Alike, Alive
<1>11. Fits(pages[leaf], max_keys, 0)
  BY <1>3, <1>4, StatementOnTop DEF Sound, Tree, Filled
<1>12. ~pages[leaf].is_root => Len(ks) # 0
  <2> SUFFICES ASSUME ~pages[leaf].is_root PROVE Len(ks) # 0
    OBVIOUS
  <2>1. Len(pages[leaf].keys) + 0 >= LeafMinCells
    BY <1>3, <1>11 DEF Fits
  <2>2. LeafMinCells \in Nat /\ LeafMinCells >= 2
    BY LeafMinima
  <2>3. Len(pages[leaf].keys) \in Nat /\ Len(ks) = Len(pages[leaf].keys) - 1
    BY <1>4, <1>7
  <2>4. Len(ks) + 1 >= LeafMinCells
    BY <2>1, <2>3
  <2>5. Len(ks) \in Nat
    BY <1>7
  <2> QED
    BY <2>2, <2>4, <2>5
<1> QED
  BY <1>4, <1>7, <1>8, <1>9, <1>10, <1>12 DEF KeyGone

LEMMA DeleteFromLeafKeepsTree ==
  ASSUME TreeInv, DeleteFromLeaf
  PROVE  TreeInv'
<1>1. PICK level, loose, short : Sound(level, loose, short)
  BY DEF TreeInv
<1>a. PICK leaf : leaf = Target
  OBVIOUS
<1>b. PICK index : index = LowerBound(pages[leaf].keys, Top.key)
  OBVIOUS
<1>c. PICK ks : ks = RemoveAt(pages[leaf].keys, index)
  OBVIOUS
<1>d. PICK ps : ps = SetKeys(pages, leaf, ks)
  OBVIOUS
<1>e. PICK c : c = Call("leaf_node_rebalance", leaf, NoPage, 0)
  OBVIOUS
<1> DEFINE lacking == ~pages[leaf].is_root /\ Len(ks) < LeafMinCells
<1>2. /\ Pending("table_delete") /\ Holds(leaf, Top.key)
      /\ pages' = IF ~pages[leaf].is_root /\ Top.key = Last(pages[leaf].keys)
                  THEN LowerSeparator(ps, leaf, Last(ks))
                  ELSE ps
      /\ Continue(IF lacking THEN <<c>> ELSE <<>>)
      /\ UNCHANGED <<free_head, roots, max_keys>>
  BY <1>a, <1>b, <1>c, <1>d, <1>e DEF DeleteFromLeaf, SetKeys
<1>3. /\ loose = {} /\ short = {} /\ Top.key \in Nat
      /\ Alive(pages, leaf) /\ pages[leaf].type = "leaf"
      /\ stack' = IF lacking THEN <<c>> ELSE <<>>
  <2>1. CASE lacking
    BY <1>a, <1>1, <1>2, <2>1, StatementOnTop
  <2>2. CASE ~lacking
    BY <1>a, <1>1, <1>2, <2>2, StatementOnTop
  <2> QED
    BY <2>1, <2>2
<1>4. /\ pages \in Seq(Record) /\ leaf \in DOMAIN pages
      /\ pages[leaf].keys \in Seq(Nat) /\ Len(pages[leaf].keys) \in Nat
      /\ ks \in Seq(Nat) /\ Len(ks) = Len(pages[leaf].keys) - 1 /\ Len(ks) \in Nat
      /\ Rekeyed(pages, ps, {leaf}) /\ ps[leaf].keys = ks
      /\ Shape(pages, level, {}) /\ Shape(ps, level, {}) /\ Alive(ps, leaf)
      /\ ~pages[leaf].is_root => Len(ks) # 0
  <2>1. KeyGone(leaf, ks, ps, level)
    BY <1>a, <1>b, <1>c, <1>d, <1>1, <1>2, KeyRemoved
  <2> QED
    BY <2>1 DEF KeyGone
<1>7. ks \in Seq(Nat) /\ Len(ks) = Len(pages[leaf].keys) - 1 /\ Len(ks) \in Nat
  BY <1>4
<1>8. Rekeyed(pages, ps, {leaf}) /\ ps[leaf].keys = ks
  BY <1>4
<1>10. Shape(ps, level, {}) /\ Alive(ps, leaf)
  BY <1>4
<1>11. Fits(pages[leaf], max_keys, 0)
  BY <1>1, <1>3, <1>4 DEF Sound, Tree, Filled
<1>12. ~pages[leaf].is_root => Len(ks) # 0
  BY <1>4
<1>13. Rekeyed(ps, pages', {})
  <2>1. CASE ~pages[leaf].is_root /\ Top.key = Last(pages[leaf].keys)
    <3>1. Last(ks) \in Nat
      BY <1>7, <1>12, <2>1, Ends
    <3> QED
      BY <1>2, <1>10, <2>1, <3>1, LowerSeparatorRekeys
  <2>2. CASE ~(~pages[leaf].is_root /\ Top.key = Last(pages[leaf].keys))
    <3>1. pages' = ps
      BY <1>2, <2>2
    <3> QED
      BY <1>8, <3>1 DEF Rekeyed, Alike
  <2> QED
    BY <2>1, <2>2
<1>14. Rekeyed(pages, pages', {leaf}) /\ Len(pages'[leaf].keys) = Len(ks)
  <2>1. Rekeyed(pages, pages', {leaf} \cup {}) /\ {leaf} \cup {} = {leaf}
    BY <1>8, <1>13, RekeyedTwice
  <2> QED
    BY <1>4, <1>8, <1>13, <2>1 DEF Rekeyed
<1>15. PICK short2 : short2 = IF lacking THEN {leaf} ELSE {}
  OBVIOUS
<1>16. /\ Alike(pages[leaf], pages'[leaf])
       /\ Fits(pages'[leaf], max_keys, 1) /\ (~lacking => Fits(pages'[leaf], max_keys, 0))
  <2>1. Alike(pages[leaf], pages'[leaf])
    BY <1>4, <1>14 DEF Rekeyed
  <2> QED
    BY <1>3, <1>4, <1>7, <1>11, <1>14, <2>1, LeafMinima DEF Fits, Alike
<1>17. Tree(pages', free_head, max_keys, roots, level, {}, short2)
  <2>1. Tree(pages, free_head, max_keys, roots, level, {}, {}) /\ \A p \in {leaf} : ~Inner(pages, p)
    BY <1>1, <1>3 DEF Sound, Inner
  <2>2. \A p \in {leaf} \cap DOMAIN pages :
          Fits(pages'[p], max_keys, 1) /\ (p \notin short2 => Fits(pages'[p], max_keys, 0))
    BY <1>15, <1>16
  <2>3. {} \subseteq short2 \cup {leaf}
    OBVIOUS
  <2> QED
    BY <1>14, <2>1, <2>2, <2>3, RekeyedTree
<1>18. Work(stack', pages', max_keys, roots, level, {}, short2)
  <2>1. CASE lacking
    <3>1. Len(ks) = LeafMinCells - 1
      BY <1>3, <1>4, <1>7, <1>11, <2>1, LeafMinima DEF Fits
    <3>2. RepairCall(c, pages', max_keys) /\ c.page = leaf
      BY <1>e, <1>3, <1>14, <1>16, <2>1, <3>1 DEF RepairCall, Call, Alive, Rekeyed, Alike
    <3> QED
      BY <1>3, <1>15, <2>1, <3>2 DEF Work, OneCall
  <2>2. CASE ~lacking
    BY <1>3, <1>15, <2>2 DEF Work
  <2> QED
    BY <2>1, <2>2
<1>19. Sound(level, {}, short2)'
  BY <1>2, <1>17, <1>18 DEF Sound
<1> QED
  BY <1>19 DEF TreeInv

-----------------------------------------------------------------------------
\* The node under repair, its parent and its siblings.

\* Leaves are the pages at level 0.
LEMMA LevelTells ==
  ASSUME NEW ps, NEW level, Descends(ps, level), NEW p, Alive(ps, p)
  PROVE  /\ level[p] \in Nat
         /\ ps[p].type = "leaf" <=> level[p] = 0
         /\ Inner(ps, p) <=> level[p] # 0
<1>1. p \in DOMAIN ps /\ level[p] \in Nat /\ ps[p].type \in {"leaf", "internal"}
  BY PageIs DEF Alive, Descends
<1>2. ASSUME Inner(ps, p) PROVE level[p] # 0
  <2>1. Len(ps[p].keys) \in Nat
    BY <1>1, PageIs DEF Descends
  <2>2. 1 \in 1..Len(ps[p].keys) + 1
    BY <2>1
  <2>3. level[ps[p].children[1]] \in Nat /\ level[p] = level[ps[p].children[1]] + 1
    BY <1>2, <2>2, ChildIsBelow
  <2> QED
    BY <1>1, <2>3
<1>3. ps[p].type = "leaf" => level[p] = 0
  BY <1>1 DEF Descends
<1> QED
  BY <1>1, <1>2, <1>3 DEF Inner

\* A node that needs repair has a sibling: its parent is not the node that runs
\* short, so it has a key.
LEMMA SiblingsAre ==
  ASSUME NEW level, NEW loose, NEW short, Sound(level, loose, short),
         Pending("leaf_node_rebalance") \/ Pending("internal_node_rebalance")
  PROVE  /\ Alive(pages, Top.page) /\ ~pages[Top.page].is_root
         /\ Inner(pages, Parent) /\ Parent # Top.page /\ Fits(pages[Parent], max_keys, 0)
         /\ Siblings \in Seq(Nat) /\ DOMAIN Siblings = 1..Len(Siblings) /\ Len(Siblings) \in Nat
         /\ Len(Siblings) = Len(pages[Parent].keys) + 1 /\ Len(Siblings) >= 2
         /\ Position \in 1..Len(Siblings) /\ Siblings[Position] = Top.page
         /\ Top.page \in ToSet(Siblings)
<1>1. PICK fn \in {"leaf_node_rebalance", "internal_node_rebalance"} : Pending(fn)
  OBVIOUS
<1>2. RepairCall(Top, pages, max_keys) /\ Top.fn = fn /\ loose = {} /\ short = {Top.page}
  BY <1>1, RepairOnTop
<1>3. Alive(pages, Top.page) /\ ~pages[Top.page].is_root
  BY <1>1, <1>2 DEF RepairCall, Inner, Alive
<1>4. Shape(pages, level, loose) /\ Filled(pages, max_keys, short) /\ max_keys \in Nat /\ max_keys >= 3 /\ pages \in Seq(Record)
  BY TreeTyped DEF Sound, Tree
<1>5. /\ Inner(pages, Parent) /\ Top.page \in Kids(pages, Parent)
      /\ level[Parent] = level[Top.page] + 1 /\ level[Top.page] \in Nat
      /\ Position \in 1..Len(Siblings) /\ Siblings[Position] = Top.page
      /\ Len(Siblings) = Len(pages[Parent].keys) + 1
  <2>a. PICK p : p = Top.page
    OBVIOUS
  <2>1. Alive(pages, p) /\ ~pages[p].is_root /\ p \notin loose
    BY <2>a, <1>2, <1>3
  <2>2. /\ Inner(pages, pages[p].parent) /\ p \in Kids(pages, pages[p].parent)
        /\ level[pages[p].parent] = level[p] + 1 /\ level[p] \in Nat
        /\ ChildIndex(pages, pages[p].parent, p) \in 1..Len(pages[pages[p].parent].children)
        /\ pages[pages[p].parent].children[ChildIndex(pages, pages[p].parent, p)] = p
        /\ Len(pages[pages[p].parent].children) = Len(pages[pages[p].parent].keys) + 1
    BY <1>4, <2>1, ParentIs
  <2> QED
    BY <2>a, <2>2 DEF Parent, Siblings, Position
<1>6. Parent # Top.page
  BY <1>5
<1>7. Fits(pages[Parent], max_keys, 0)
  BY <1>2, <1>4, <1>5, <1>6 DEF Filled, Inner
<1>8. /\ Siblings \in Seq(Nat) /\ DOMAIN Siblings = 1..Len(Siblings) /\ Len(Siblings) \in Nat
      /\ Len(pages[Parent].keys) \in Nat
  BY <1>4, <1>5, PageIs, LenProperties DEF Siblings, Inner
<1>9. Len(pages[Parent].keys) >= 1
  <2>1. InternalMinKeys(max_keys) \in Nat /\ InternalMinKeys(max_keys) >= 1
    BY <1>4, InnerMinima
  <2> QED
    BY <1>5, <1>7, <1>8, <2>1 DEF Fits, Inner
<1>10. Len(Siblings) >= 2
  BY <1>5, <1>8, <1>9
<1> QED
  BY <1>3, <1>5, <1>6, <1>7, <1>8, <1>10 DEF Kids, Siblings

\* Every sibling is a page at the node's own level under the same parent.
LEMMA SiblingIs ==
  ASSUME NEW level, NEW loose, NEW short, Sound(level, loose, short),
         Pending("leaf_node_rebalance") \/ Pending("internal_node_rebalance"),
         NEW i \in 1..Len(Siblings)
  PROVE  /\ Alive(pages, Siblings[i]) /\ ~pages[Siblings[i]].is_root
         /\ pages[Siblings[i]].parent = Parent /\ Siblings[i] # Parent
         /\ level[Siblings[i]] = level[Top.page] /\ level[Parent] = level[Siblings[i]] + 1
         /\ level[Siblings[i]] \in Nat
         /\ pages[Siblings[i]].type = pages[Top.page].type
         /\ Siblings[i] \in Kids(pages, Parent)
         /\ \A j \in 1..Len(Siblings) : i # j => Siblings[i] # Siblings[j]
<1>1. Shape(pages, level, loose) /\ Descends(pages, level)
  BY DEF Sound, Tree, Shape
<1>2. /\ Inner(pages, Parent) /\ DOMAIN Siblings = 1..Len(Siblings)
      /\ Top.page \in ToSet(Siblings) /\ Alive(pages, Top.page)
  BY SiblingsAre
<1>3. ASSUME NEW c \in Kids(pages, Parent)
      PROVE  /\ Alive(pages, c) /\ ~pages[c].is_root /\ pages[c].parent = Parent
             /\ level[c] \in Nat /\ level[Parent] = level[c] + 1
  <2>1. Alive(pages, c) /\ ~pages[c].is_root /\ level[Parent] = level[c] + 1 /\ pages[c].parent = Parent
    BY <1>1, <1>2 DEF Shape, Descends, Inner
  <2>2. level[c] \in Nat
    BY <1>1, <2>1, LevelTells
  <2> QED
    BY <2>1, <2>2
<1>4. Siblings[i] \in Kids(pages, Parent) /\ Top.page \in Kids(pages, Parent)
  BY <1>2 DEF Kids, Siblings, ToSet
<1>5. level[Siblings[i]] = level[Top.page]
  <2>1. level[Siblings[i]] \in Nat /\ level[Top.page] \in Nat /\ level[Parent] = level[Siblings[i]] + 1
        /\ level[Parent] = level[Top.page] + 1
    BY <1>3, <1>4
  <2> QED
    BY <2>1
<1>6. pages[Siblings[i]].type = pages[Top.page].type
  <2>1. Alive(pages, Siblings[i])
    BY <1>3, <1>4
  <2> QED
    BY <1>1, <1>2, <1>5, <2>1, LevelTells DEF Inner
<1>7. IsInjective(Siblings)
  BY <1>1, <1>2 DEF Inner, Descends, ChildrenCounted, Siblings
<1>8. \A j \in 1..Len(Siblings) : i # j => Siblings[i] # Siblings[j]
  BY <1>2, <1>7 DEF IsInjective
<1>9. Siblings[i] # Parent
  <2>1. level[Siblings[i]] \in Nat /\ level[Parent] = level[Siblings[i]] + 1
    BY <1>3, <1>4
  <2> QED
    BY <2>1
<1> QED
  BY <1>3, <1>4, <1>5, <1>6, <1>8, <1>9

\* The two nodes a merge joins.
LEMMA PairIs ==
  ASSUME NEW level, NEW loose, NEW short, Sound(level, loose, short),
         Pending("leaf_node_rebalance") \/ Pending("internal_node_rebalance"),
         NEW minimum, SpareNone(minimum)
  PROVE  /\ MergeAt \in 1..Len(Siblings) - 1
         /\ MergeAt \in 1..Len(Siblings) /\ MergeAt + 1 \in 1..Len(Siblings)
         /\ \/ Siblings[MergeAt] = Top.page /\ ~(Len(pages[Siblings[MergeAt + 1]].keys) > minimum)
            \/ Siblings[MergeAt + 1] = Top.page /\ ~(Len(pages[Siblings[MergeAt]].keys) > minimum)
<1>1. /\ Len(Siblings) \in Nat /\ Len(Siblings) >= 2 /\ DOMAIN Siblings = 1..Len(Siblings)
      /\ Position \in 1..Len(Siblings) /\ Siblings[Position] = Top.page
  BY SiblingsAre
<1>2. CASE Position > 1
  <2>1. MergeAt = Position - 1 /\ MergeAt + 1 = Position /\ MergeAt \in 1..Len(Siblings) - 1
    BY <1>1, <1>2 DEF MergeAt
  <2>2. Position - 1 \in DOMAIN Siblings
    BY <1>1, <1>2
  <2> QED
    BY <1>1, <2>1, <2>2 DEF SpareNone, CanSpare
<1>3. CASE ~(Position > 1)
  <2>1. MergeAt = Position /\ MergeAt \in 1..Len(Siblings) - 1
    BY <1>1, <1>3 DEF MergeAt
  <2>2. Position + 1 \in DOMAIN Siblings
    BY <1>1, <1>3
  <2> QED
    BY <1>1, <2>1, <2>2 DEF SpareNone, CanSpare
<1> QED
  BY <1>2, <1>3

-----------------------------------------------------------------------------
\* A leaf takes a cell from a sibling.

LEMMA LeafBorrowKeepsTree ==
  ASSUME NEW level, NEW loose, NEW short, Sound(level, loose, short), Pending("leaf_node_rebalance"),
         NEW j \in 1..Len(Siblings), NEW page, NEW other, NEW parent,
         page = Top.page, other = Siblings[j], parent = Parent,
         other # page, Len(pages[other].keys) > LeafMinCells,
         NEW mine \in Seq(Nat), Len(mine) = Len(pages[page].keys) + 1,
         NEW rest \in Seq(Nat), Len(rest) = Len(pages[other].keys) - 1,
         NEW i \in 1..Len(pages[parent].keys), NEW k \in Nat,
         pages' = SetKey(SetKeys(SetKeys(pages, page, mine), other, rest), parent, i, k),
         Return, UNCHANGED <<free_head, roots, max_keys>>
  PROVE  TreeInv'
<1>1. /\ RepairCall(Top, pages, max_keys) /\ Top.fn = "leaf_node_rebalance"
      /\ loose = {} /\ short = {page} /\ stack' = <<>>
  BY RepairOnTop
<1>2. /\ Alive(pages, page) /\ ~pages[page].is_root /\ pages[page].type = "leaf"
      /\ Len(pages[page].keys) = LeafMinCells - 1
  BY <1>1 DEF RepairCall
<1>3. /\ Alive(pages, other) /\ ~pages[other].is_root /\ pages[other].type = "leaf"
  BY <1>2, SiblingIs
<1>4. Inner(pages, parent) /\ parent # page
  BY SiblingsAre
<1>5. parent # other
  BY SiblingIs
<1>6. /\ pages \in Seq(Record) /\ page \in DOMAIN pages /\ other \in DOMAIN pages /\ parent \in DOMAIN pages
      /\ Len(pages[other].keys) \in Nat /\ Len(pages[page].keys) \in Nat
  BY <1>2, <1>3, <1>4, TreeTyped, PageIs DEF Sound, Alive, Inner
<1>a. PICK p1 : p1 = SetKeys(pages, page, mine)
  OBVIOUS
<1>b. PICK p2 : p2 = SetKeys(p1, other, rest)
  OBVIOUS
<1>7. Rekeyed(pages, p1, {page}) /\ p1[page].keys = mine
  BY <1>a, <1>6, WithKeys
<1>8. p1 \in Seq(Record) /\ DOMAIN p1 = DOMAIN pages
  BY <1>7 DEF Rekeyed
<1>9. Rekeyed(p1, p2, {other}) /\ p2[other].keys = rest
  <2>1. other \in DOMAIN p1
    BY <1>6, <1>8
  <2>2. Rekeyed(p1, SetKeys(p1, other, rest), {other}) /\ SetKeys(p1, other, rest)[other].keys = rest
    BY <1>8, <2>1, WithKeys
  <2> QED
    BY <1>b, <2>2
<1>10. p2 \in Seq(Record) /\ DOMAIN p2 = DOMAIN pages
  BY <1>8, <1>9 DEF Rekeyed
<1>11. Rekeyed(pages, p2, {page, other})
  <2>1. Rekeyed(pages, p2, {page} \cup {other}) /\ {page} \cup {other} = {page, other}
    BY <1>7, <1>9, RekeyedTwice
  <2> QED
    BY <2>1
<1>12. Len(p2[page].keys) = Len(mine) /\ Len(p2[other].keys) = Len(rest) /\ Len(p2[parent].keys) = Len(pages[parent].keys)
  BY <1>4, <1>5, <1>6, <1>7, <1>8, <1>9, <1>11 DEF Rekeyed
<1>13. Rekeyed(p2, pages', {})
  <2>1. Rekeyed(p2, SetKey(p2, parent, i, k), {})
    BY <1>6, <1>10, <1>12, WithKey
  <2> QED
    BY <1>a, <1>b, <2>1
<1>14. Rekeyed(pages, pages', {page, other})
  <2>1. Rekeyed(pages, pages', {page, other} \cup {}) /\ {page, other} \cup {} = {page, other}
    BY <1>11, <1>13, RekeyedTwice
  <2> QED
    BY <2>1
<1>15. Len(pages'[page].keys) = Len(mine) /\ Len(pages'[other].keys) = Len(rest)
  BY <1>6, <1>10, <1>12, <1>13 DEF Rekeyed
<1>16. /\ Alike(pages[page], pages'[page]) /\ Alike(pages[other], pages'[other])
  BY <1>6, <1>14 DEF Rekeyed
<1>17. /\ Fits(pages'[page], max_keys, 0) /\ Fits(pages'[page], max_keys, 1)
  <2>1. Len(pages'[page].keys) = Len(pages[page].keys) + 1 /\ pages'[page].type = "leaf"
    BY <1>2, <1>15, <1>16 DEF Alike
  <2>2. Len(pages'[page].keys) = LeafMinCells
    BY <1>2, <2>1, LeafMinima
  <2>3. /\ LeafMinCells <= LeafMaxCells /\ LeafMinCells + 0 >= LeafMinCells /\ LeafMinCells + 1 >= LeafMinCells
    BY LeafMinima
  <2> QED
    BY <2>1, <2>2, <2>3 DEF Fits
<1>18. Fits(pages'[other], max_keys, 0) /\ Fits(pages'[other], max_keys, 1)
  <2>1. Fits(pages[other], max_keys, 1)
    BY <1>6 DEF Sound, Tree, Filled
  <2>2. Len(pages[other].keys) <= LeafMaxCells
    BY <1>3, <2>1 DEF Fits
  <2>3. /\ Len(pages'[other].keys) = Len(pages[other].keys) - 1 /\ pages'[other].type = "leaf"
    BY <1>3, <1>15, <1>16 DEF Alike
  <2>4. Len(pages'[other].keys) >= LeafMinCells /\ Len(pages'[other].keys) <= LeafMaxCells /\ Len(pages'[other].keys) \in Nat
    <3>1. PICK n, k2 : n = Len(pages[other].keys) /\ k2 = Len(pages'[other].keys)
      OBVIOUS
    <3>2. n \in Nat /\ n > LeafMinCells /\ n <= LeafMaxCells /\ k2 = n - 1
      BY <1>6, <2>2, <2>3, <3>1
    <3>3. k2 >= LeafMinCells /\ k2 <= LeafMaxCells /\ k2 \in Nat
      BY <3>2, LeafMinima
    <3> QED
      BY <3>1, <3>3
  <2> QED
    BY <2>3, <2>4, LeafMinima DEF Fits
<1>19. Tree(pages', free_head, max_keys, roots, level, {}, {})
  <2>a. PICK at : at = {page, other}
    OBVIOUS
  <2>1. Tree(pages, free_head, max_keys, roots, level, {}, {page}) /\ \A p \in at : ~Inner(pages, p)
    BY <2>a, <1>1, <1>2, <1>3 DEF Sound, Inner
  <2>2. \A p \in at \cap DOMAIN pages :
          Fits(pages'[p], max_keys, 1) /\ (p \notin {} => Fits(pages'[p], max_keys, 0))
    BY <2>a, <1>17, <1>18
  <2>3. {page} \subseteq {} \cup at /\ Rekeyed(pages, pages', at)
    BY <2>a, <1>14
  <2> QED
    BY <2>1, <2>2, <2>3, RekeyedTree
<1>20. Sound(level, {}, {})'
  BY <1>1, <1>19 DEF Sound, Work
<1> QED
  BY <1>20 DEF TreeInv

LEMMA LeafBorrowLeftKeepsTree ==
  ASSUME TreeInv, LeafBorrowLeft
  PROVE  TreeInv'
<1>1. PICK level, loose, short : Sound(level, loose, short)
  BY DEF TreeInv
<1>a. PICK page, parent, j : page = Top.page /\ parent = Parent /\ j = Position - 1
  OBVIOUS
<1>b. PICK other : other = Siblings[j]
  OBVIOUS
<1>c. PICK rest : rest = Front(pages[other].keys)
  OBVIOUS
<1>d. PICK mine : mine = <<Last(pages[other].keys)>> \o pages[page].keys
  OBVIOUS
<1>2. /\ Pending("leaf_node_rebalance") /\ SpareLeft(LeafMinCells)
      /\ pages' = SetKey(SetKeys(SetKeys(pages, page, mine), other, rest), parent, j, Last(rest))
      /\ Return /\ UNCHANGED <<free_head, roots, max_keys>>
  BY <1>a, <1>b, <1>c, <1>d DEF LeafBorrowLeft, SetKey, SetKeys
<1>3. /\ Position \in 1..Len(Siblings) /\ DOMAIN Siblings = 1..Len(Siblings) /\ Siblings[Position] = page
      /\ Len(Siblings) = Len(pages[parent].keys) + 1 /\ Len(Siblings) \in Nat
      /\ Alive(pages, page)
  BY <1>1, <1>2, <1>a, SiblingsAre
<1>4. j \in 1..Len(Siblings) /\ Len(pages[other].keys) > LeafMinCells
  BY <1>2, <1>3, <1>a, <1>b DEF SpareLeft, CanSpare
<1>5. Alive(pages, other) /\ other # page
  BY <1>1, <1>2, <1>3, <1>4, <1>a, <1>b, SiblingIs
<1>6. /\ pages[other].keys \in Seq(Nat) /\ pages[page].keys \in Seq(Nat)
      /\ Len(pages[other].keys) \in Nat /\ Len(pages[page].keys) \in Nat
  BY <1>1, <1>3, <1>5, PageIs, TreeTyped DEF Sound, Alive
<1>7. Len(pages[other].keys) >= 2
  BY <1>4, <1>6, LeafMinima
<1>8. Last(pages[other].keys) \in Nat /\ Shrunk(Nat, rest, pages[other].keys, Last(pages[other].keys))
  BY <1>6, <1>7, <1>c, Ends, FrontShrinks
<1>9. rest \in Seq(Nat) /\ Len(rest) = Len(pages[other].keys) - 1
  BY <1>8 DEF Shrunk
<1>10. Last(rest) \in Nat
  BY <1>6, <1>7, <1>9, Ends
<1>11. Enlarged(Nat, mine, pages[page].keys, Last(pages[other].keys))
  BY <1>6, <1>8, <1>d, ConsGrows
<1>12. mine \in Seq(Nat) /\ Len(mine) = Len(pages[page].keys) + 1
  BY <1>11 DEF Enlarged
<1>13. j \in 1..Len(pages[parent].keys)
  <2>1. Len(pages[parent].keys) = Len(Siblings) - 1
    BY <1>1, <1>2, <1>3, <1>a, PageIs, TreeTyped, SiblingsAre DEF Sound, Inner
  <2> QED
    BY <1>3, <1>4, <1>a, <2>1
<1> QED
  BY <1>1, <1>2, <1>4, <1>5, <1>9, <1>10, <1>12, <1>13, <1>a, <1>b, LeafBorrowKeepsTree

LEMMA LeafBorrowRightKeepsTree ==
  ASSUME TreeInv, LeafBorrowRight
  PROVE  TreeInv'
<1>1. PICK level, loose, short : Sound(level, loose, short)
  BY DEF TreeInv
<1>a. PICK page, parent, i, j : page = Top.page /\ parent = Parent /\ i = Position /\ j = Position + 1
  OBVIOUS
<1>b. PICK other : other = Siblings[j]
  OBVIOUS
<1>c. PICK borrowed : borrowed = Head(pages[other].keys)
  OBVIOUS
<1>d. PICK mine : mine = Append(pages[page].keys, borrowed)
  OBVIOUS
<1>e. PICK rest : rest = Tail(pages[other].keys)
  OBVIOUS
<1>2. /\ Pending("leaf_node_rebalance") /\ SpareRight(LeafMinCells)
      /\ pages' = SetKey(SetKeys(SetKeys(pages, page, mine), other, rest), parent, i, borrowed)
      /\ Return /\ UNCHANGED <<free_head, roots, max_keys>>
  BY <1>a, <1>b, <1>c, <1>d, <1>e DEF LeafBorrowRight, SetKey, SetKeys
<1>3. /\ i \in 1..Len(Siblings) /\ DOMAIN Siblings = 1..Len(Siblings) /\ Siblings[i] = page
      /\ Len(Siblings) = Len(pages[parent].keys) + 1 /\ Len(Siblings) \in Nat
      /\ Alive(pages, page)
  BY <1>1, <1>2, <1>a, SiblingsAre
<1>4. j \in 1..Len(Siblings) /\ Len(pages[other].keys) > LeafMinCells /\ j = i + 1
  BY <1>2, <1>3, <1>a, <1>b DEF SpareRight, CanSpare
<1>5. Alive(pages, other) /\ other # page
  BY <1>1, <1>2, <1>3, <1>4, <1>a, <1>b, SiblingIs
<1>6. /\ pages[other].keys \in Seq(Nat) /\ pages[page].keys \in Seq(Nat)
      /\ Len(pages[other].keys) \in Nat /\ Len(pages[page].keys) \in Nat
      /\ pages \in Seq(Record) /\ page \in DOMAIN pages /\ other \in DOMAIN pages
  BY <1>1, <1>3, <1>5, PageIs, TreeTyped DEF Sound, Alive
<1>7. Len(pages[other].keys) >= 2
  BY <1>4, <1>6, LeafMinima
<1>8. borrowed \in Nat
  BY <1>6, <1>7, <1>c, Ends
<1>9. Enlarged(Nat, mine, pages[page].keys, borrowed)
  BY <1>6, <1>8, <1>d, AppendGrows
<1>10. mine \in Seq(Nat) /\ Len(mine) = Len(pages[page].keys) + 1
  BY <1>9 DEF Enlarged
<1>12. Shrunk(Nat, rest, pages[other].keys, Head(pages[other].keys))
  BY <1>6, <1>7, <1>e, TailShrinks
<1>13. rest \in Seq(Nat) /\ Len(rest) = Len(pages[other].keys) - 1
  BY <1>12 DEF Shrunk
<1>14. i \in 1..Len(pages[parent].keys)
  <2>1. Len(pages[parent].keys) = Len(Siblings) - 1
    BY <1>1, <1>2, <1>3, <1>a, PageIs, TreeTyped, SiblingsAre DEF Sound, Inner
  <2> QED
    BY <1>3, <1>4, <2>1
<1> QED
  BY <1>1, <1>2, <1>4, <1>5, <1>8, <1>10, <1>13, <1>14, <1>a, <1>b, LeafBorrowKeepsTree

-----------------------------------------------------------------------------
\* The calls of an insert's cascade of splits.

LEMMA AttachOnTop ==
  ASSUME NEW level, NEW loose, NEW short, Sound(level, loose, short), Pending("attach_sibling")
  PROVE  /\ AttachCall(Top, pages, max_keys, level) /\ loose = {Top.child} /\ short = {}
         /\ Return <=> stack' = <<>>
         /\ \A c : Continue(<<c>>) <=> stack' = <<c>>
<1>1. ~Idle /\ Top.fn = "attach_sibling"
  BY DEF Pending, Top
<1>2. /\ OneCall(Top, pages, max_keys, roots, level, loose, short)
      /\ Return <=> stack' = <<>>
      /\ \A c : Continue(<<c>>) <=> stack' = <<c>>
  BY <1>1, TopIs DEF TwoCalls, PlaceCall
<1>3. AttachCall(Top, pages, max_keys, level) /\ loose = {Top.child} /\ short = {}
  BY <1>1, <1>2 DEF OneCall, RepairCall, PlaceCall, StatementCall
<1> QED
  BY <1>1, <1>2, <1>3

LEMMA PlaceOnTop ==
  ASSUME NEW level, NEW loose, NEW short, Sound(level, loose, short), Pending("internal_node_insert")
  PROVE  /\ PlaceCall(Top, pages, level) /\ Top.child \in loose /\ short = {}
         /\ \/ /\ loose = {Top.child}
               /\ Return <=> stack' = <<>>
               /\ \A c, d : Continue(<<c, d>>) <=> stack' = <<c, d>>
            \/ \E d : /\ TwoCalls(Top, d, pages, max_keys, level, loose, short)
                      /\ Return <=> stack' = <<d>>
<1>1. ~Idle /\ Top.fn = "internal_node_insert"
  BY DEF Pending, Top
<1>2. CASE /\ OneCall(Top, pages, max_keys, roots, level, loose, short)
           /\ Return <=> stack' = <<>>
           /\ \A c, d : Continue(<<c, d>>) <=> stack' = <<c, d>>
  <2>1. PlaceCall(Top, pages, level) /\ loose = {Top.child} /\ short = {}
    BY <1>1, <1>2 DEF OneCall, RepairCall, AttachCall, StatementCall
  <2> QED
    BY <1>2, <2>1
<1>3. CASE \E d : /\ TwoCalls(Top, d, pages, max_keys, level, loose, short)
                  /\ Return <=> stack' = <<d>>
  BY <1>3 DEF TwoCalls
<1> QED
  BY <1>1, <1>2, <1>3, TopIs

\* The old half's separator in the parent is set to its new maximum.
LEMMA AttachToParentKeepsTree ==
  ASSUME TreeInv, AttachToParent
  PROVE  TreeInv'
<1>1. PICK level, loose, short : Sound(level, loose, short)
  BY DEF TreeInv
<1>a. PICK page, child, parent, index, max :
        /\ page = Top.page /\ child = Top.child /\ parent = pages[page].parent
        /\ index = LowerBound(pages[parent].keys, Top.key) /\ max = MaxKey(pages, page)
  OBVIOUS
<1>b. PICK c : c = Call("internal_node_insert", parent, child, 0)
  OBVIOUS
<1>2. /\ Pending("attach_sibling") /\ ~pages[page].is_root
      /\ pages' = IF index \in DOMAIN pages[parent].keys THEN SetKey(pages, parent, index, max) ELSE pages
      /\ Continue(<<c>>) /\ UNCHANGED <<free_head, roots, max_keys>>
  BY <1>a, <1>b DEF AttachToParent, SetKey
<1>3. /\ AttachCall(Top, pages, max_keys, level) /\ loose = {child} /\ short = {} /\ stack' = <<c>>
  BY <1>a, <1>1, <1>2, AttachOnTop
<1>4. /\ Alive(pages, page) /\ Alive(pages, child) /\ child # page /\ level[child] = level[page]
  BY <1>a, <1>3 DEF AttachCall
<1>5. /\ pages \in Seq(Record) /\ Shape(pages, level, loose) /\ Descends(pages, level)
  BY <1>1, TreeTyped DEF Sound
<1>6. Inner(pages, parent) /\ level[parent] = level[page] + 1
  <2>1. page \notin loose
    BY <1>3, <1>4
  <2> QED
    BY <1>a, <1>2, <1>4, <1>5, <2>1, ParentIs
<1>7. max \in Nat
  <2>1. LeavesHoldKeys(pages)
    BY <1>1, <1>5, HoldKeys DEF Sound, Tree
  <2> QED
    BY <1>a, <1>2, <1>4, <1>5, <2>1, MaxKeyIsKey
<1>8. Rekeyed(pages, pages', {})
  <2>1. CASE index \in DOMAIN pages[parent].keys
    <3>1. index \in 1..Len(pages[parent].keys) /\ parent \in DOMAIN pages
      BY <1>5, <1>6, <2>1, PageIs, LenProperties DEF Inner
    <3>2. Rekeyed(pages, SetKey(pages, parent, index, max), {})
      BY <1>5, <1>7, <3>1, WithKey
    <3> QED
      BY <1>2, <2>1, <3>2
  <2>2. CASE ~(index \in DOMAIN pages[parent].keys)
    BY <1>2, <1>5, <2>2 DEF Rekeyed, Alike
  <2> QED
    BY <2>1, <2>2
<1>9. Tree(pages', free_head, max_keys, roots, level, loose, short)
  <2>1. Tree(pages, free_head, max_keys, roots, level, loose, short)
    BY <1>1 DEF Sound
  <2> QED
    BY <1>8, <2>1, RekeyedTree
<1>10. OneCall(c, pages', max_keys, roots, level, loose, short)
  <2>1. /\ DOMAIN pages' = DOMAIN pages
        /\ \A p \in DOMAIN pages : Alike(pages[p], pages'[p])
    BY <1>8 DEF Rekeyed
  <2>2. Inner(pages', parent) /\ Alive(pages', child)
    BY <1>4, <1>6, <2>1 DEF Inner, Alive, Alike
  <2>3. c.fn = "internal_node_insert" /\ c.page = parent /\ c.child = child
    BY <1>b DEF Call
  <2>4. PlaceCall(c, pages', level)
    BY <1>4, <1>6, <2>2, <2>3 DEF PlaceCall
  <2> QED
    BY <1>3, <2>3, <2>4 DEF OneCall
<1>11. Sound(level, loose, short)'
  BY <1>2, <1>3, <1>9, <1>10 DEF Sound, Work
<1> QED
  BY <1>11 DEF TreeInv

-----------------------------------------------------------------------------
\* internal_node_insert into a node with room.

\* `node` takes the place of a page's record, and `child` names the page.
Placed(ps, page, node, child) == [ps EXCEPT ![page] = node, ![child].parent = page]

WithChildren(node, ks, cs) == [node EXCEPT !.keys = ks, !.children = cs]

Refilled(m, n, ks, cs) ==
  /\ n \in Record /\ n.keys = ks /\ n.children = cs
  /\ n.type = m.type /\ n.is_root = m.is_root /\ n.parent = m.parent /\ n.next = m.next

LEMMA WithChildrenIs ==
  ASSUME NEW node \in Record, NEW ks \in Seq(Nat), NEW cs \in Seq(Nat)
  PROVE  Refilled(node, WithChildren(node, ks, cs), ks, cs)
  BY DEF Record, WithChildren, Refilled

PlacedAs(ps, qs, page, node, child) ==
  /\ qs \in Seq(Record) /\ DOMAIN qs = DOMAIN ps
  /\ qs[page] = node /\ qs[child] = [ps[child] EXCEPT !.parent = page]
  /\ \A p \in DOMAIN ps \ {page, child} : qs[p] = ps[p]

LEMMA PlacedIs ==
  ASSUME NEW ps \in Seq(Record), NEW page \in DOMAIN ps, NEW child \in DOMAIN ps, child # page,
         NEW node \in Record
  PROVE  PlacedAs(ps, Placed(ps, page, node, child), page, node, child)
<1>a. PICK p1, son, p2 : /\ p1 = [ps EXCEPT ![page] = node]
                         /\ son = [ps[child] EXCEPT !.parent = page]
                         /\ p2 = [p1 EXCEPT ![child] = son]
  OBVIOUS
<1>1. ps[child] \in Record /\ DOMAIN ps = 1..Len(ps) /\ page \in Nat
  BY PageIs
<1>2. son \in Record
  BY <1>a, <1>1 DEF Record
<1>3. p1 \in Seq(Record) /\ DOMAIN p1 = DOMAIN ps /\ Len(p1) = Len(ps)
  BY <1>a, <1>1, ExceptSeq
<1>4. p2 \in Seq(Record) /\ DOMAIN p2 = DOMAIN ps
  BY <1>a, <1>1, <1>2, <1>3, ExceptSeq
<1>5. Placed(ps, page, node, child) = p2
  BY <1>a DEF Placed
<1> QED
  BY <1>a, <1>3, <1>4, <1>5 DEF PlacedAs

\* `child` goes under `page`, one level up, with one key more.
Places(ps, qs, m, level, page, child) ==
  /\ Inner(ps, page) /\ level[page] = level[child] + 1 /\ Len(ps[page].keys) < m
  /\ \E ks \in Seq(Nat) : \E cs :
       /\ Len(ks) = Len(ps[page].keys) + 1
       /\ Enlarged(Nat, cs, ps[page].children, child)
       /\ qs = Placed(ps, page, WithChildren(ps[page], ks, cs), child)

\* No page has lost a key, or changed its kind.
NoneLess(ps, qs) ==
  /\ DOMAIN qs = DOMAIN ps
  /\ \A p \in DOMAIN ps : /\ qs[p].type = ps[p].type /\ qs[p].is_root = ps[p].is_root
                          /\ Len(qs[p].keys) >= Len(ps[p].keys)

LEMMA ChildPlaced ==
  ASSUME NEW ps, NEW head, NEW m, NEW rs, NEW level, NEW loose,
         Tree(ps, head, m, rs, level, loose, {}),
         NEW page, NEW child \in loose, NEW qs, Places(ps, qs, m, level, page, child)
  PROVE  Tree(qs, head, m, rs, level, loose \ {child}, {}) /\ NoneLess(ps, qs)
<1>k. PICK ks \in Seq(Nat) :
        \E cs : /\ Len(ks) = Len(ps[page].keys) + 1
                /\ Enlarged(Nat, cs, ps[page].children, child)
                /\ qs = Placed(ps, page, WithChildren(ps[page], ks, cs), child)
  BY DEF Places
<1>p. PICK cs :
        /\ Len(ks) = Len(ps[page].keys) + 1
        /\ Enlarged(Nat, cs, ps[page].children, child)
        /\ qs = Placed(ps, page, WithChildren(ps[page], ks, cs), child)
  BY <1>k
<1>q. Inner(ps, page) /\ level[page] = level[child] + 1 /\ Len(ps[page].keys) < m
  BY DEF Places
<1>1. /\ Shape(ps, level, loose) /\ Descends(ps, level) /\ ps \in Seq(Record)
      /\ FreeChain(ps, head) /\ Filled(ps, m, {}) /\ m \in Nat
  BY DEF Tree, Shape, Descends
<1>2. /\ page \in DOMAIN ps /\ ps[page].type = "internal"
      /\ Alive(ps, child) /\ child \in DOMAIN ps /\ ~ps[child].is_root
  BY <1>1, <1>q DEF Inner, Shape, Alive
<1>3. child # page
  <2>1. level[child] \in Nat
    BY <1>1, <1>2, LevelTells
  <2> QED
    BY <2>1, <1>q
<1>4. ps[page] \in Record /\ ps[page].children \in Seq(Nat) /\ Len(ps[page].keys) \in Nat /\ page \in Nat
  BY <1>1, <1>2, PageIs
<1>5. cs \in Seq(Nat)
  BY <1>p DEF Enlarged
<1>a. PICK node : node = WithChildren(ps[page], ks, cs)
  OBVIOUS
<1>6. /\ node \in Record /\ node.keys = ks /\ node.children = cs /\ node.type = "internal"
      /\ node.is_root = ps[page].is_root /\ node.parent = ps[page].parent /\ node.next = ps[page].next
  <2>a. PICK old : old = ps[page]
    OBVIOUS
  <2>1. old \in Record /\ node = WithChildren(old, ks, cs)
    BY <2>a, <1>a, <1>4
  <2>2. /\ node \in Record /\ node.keys = ks /\ node.children = cs /\ node.type = old.type
        /\ node.is_root = old.is_root /\ node.parent = old.parent /\ node.next = old.next
    BY <2>1, <1>5, WithChildrenIs DEF Refilled
  <2> QED
    BY <2>a, <2>2, <1>2
<1>7. /\ qs \in Seq(Record) /\ DOMAIN qs = DOMAIN ps /\ qs[page] = node
      /\ qs[child] = [ps[child] EXCEPT !.parent = page]
      /\ \A p \in DOMAIN ps \ {page, child} : qs[p] = ps[p]
  BY <1>a, <1>p, <1>1, <1>2, <1>3, <1>6, PlacedIs DEF PlacedAs
<1>8. /\ qs[child].parent = page /\ qs[child].children = ps[child].children /\ qs[child].keys = ps[child].keys
      /\ qs[child].type = ps[child].type /\ qs[child].is_root = ps[child].is_root /\ qs[child].next = ps[child].next
  <2>1. ps[child] \in Record
    BY <1>1, <1>2, PageIs
  <2> QED
    BY <1>7, <2>1 DEF Record
<1>9. \A p \in DOMAIN ps :
        /\ qs[p].type = ps[p].type /\ qs[p].is_root = ps[p].is_root /\ qs[p].next = ps[p].next
        /\ qs[p].parent = IF p = child THEN page ELSE ps[p].parent
        /\ p # page => qs[p].keys = ps[p].keys /\ qs[p].children = ps[p].children
  BY <1>2, <1>3, <1>6, <1>7, <1>8
<1>10. child \notin Kids(ps, page)
  BY <1>1, <1>2 DEF Shape
<1>11. Kids(qs, page) = Kids(ps, page) \cup {child} /\ \A p \in DOMAIN ps : p # page => Kids(qs, p) = Kids(ps, p)
  BY <1>p, <1>6, <1>7, <1>9 DEF Kids, Enlarged
<1>12. ChildrenCounted(node)
  <2>1. IsInjective(ps[page].children) /\ Len(ps[page].children) = Len(ps[page].keys) + 1
    BY <1>1, <1>2 DEF Descends, ChildrenCounted
  <2>2. IsInjective(cs) /\ Len(cs) = Len(ps[page].children) + 1
    BY <1>p, <1>10, <2>1 DEF Enlarged, Kids
  <2> QED
    BY <1>p, <1>6, <2>1, <2>2 DEF ChildrenCounted
<1>13. \A p \in DOMAIN qs : ChildrenCounted(qs[p])
  <2>1. ASSUME NEW p \in DOMAIN ps, p # page PROVE ChildrenCounted(qs[p])
    <3>1. ChildrenCounted(ps[p])
      BY <1>1 DEF Descends
    <3> QED
      BY <1>9, <2>1, <3>1 DEF ChildrenCounted
  <2> QED
    BY <1>7, <1>12, <2>1
<1>14. \A p : Alive(qs, p) <=> Alive(ps, p)
  BY <1>7, <1>9 DEF Alive
<1>15. ASSUME NEW p \in DOMAIN qs, NEW c \in Kids(qs, p)
       PROVE  /\ Alive(qs, c) /\ ~qs[c].is_root /\ level[p] = level[c] + 1
              /\ qs[c].parent = p /\ c \notin loose \ {child}
  <2>1. CASE p = page /\ c = child
    BY <1>q, <1>2, <1>8, <1>14, <2>1
  <2>2. CASE ~(p = page /\ c = child)
    <3>1. c \in Kids(ps, p) /\ p \in DOMAIN ps
      BY <1>7, <1>11, <1>15, <2>2
    <3>2. /\ Alive(ps, c) /\ ~ps[c].is_root /\ level[p] = level[c] + 1
          /\ ps[c].parent = p /\ c \notin loose
      BY <1>1, <3>1 DEF Shape, Descends
    <3>3. c # child /\ c \in DOMAIN ps
      BY <3>2 DEF Alive
    <3> QED
      BY <1>9, <1>14, <3>2, <3>3
  <2> QED
    BY <2>1, <2>2
<1>16. Descends(qs, level)
  <2>1. (\E top \in Nat : level \in [DOMAIN qs -> 0..top]) /\ \A p \in DOMAIN qs : qs[p].type = "leaf" => level[p] = 0
    BY <1>1, <1>7, <1>9 DEF Descends
  <2> QED
    BY <1>7, <1>13, <1>15, <2>1 DEF Descends
<1>17. ASSUME NEW p \in DOMAIN qs, Alive(qs, p), ~qs[p].is_root, p \notin loose \ {child}
       PROVE  qs[p].parent \in DOMAIN qs /\ p \in Kids(qs, qs[p].parent)
  <2>1. CASE p = child
    BY <1>2, <1>7, <1>8, <1>11, <2>1
  <2>2. CASE p # child
    <3>1. ps[p].parent \in DOMAIN ps /\ p \in Kids(ps, ps[p].parent) /\ qs[p].parent = ps[p].parent
      BY <1>1, <1>7, <1>9, <1>14, <1>17, <2>2 DEF Shape
    <3> QED
      BY <1>7, <1>11, <3>1
  <2> QED
    BY <2>1, <2>2
<1>18. Shape(qs, level, loose \ {child})
  <2>1. /\ \A c \in loose \ {child} : Alive(qs, c) /\ ~qs[c].is_root
        /\ \A p \in DOMAIN qs : qs[p].is_root => Alive(qs, p)
    BY <1>1, <1>7, <1>9, <1>14 DEF Shape, Alive
  <2> QED
    BY <1>15, <1>16, <1>17, <2>1 DEF Shape
<1>19. FreeChain(qs, head)
  BY <1>1, <1>7, <1>9, FreeChainKept
<1>20. Filled(qs, m, {})
  <2>1. ASSUME NEW p \in DOMAIN qs PROVE Fits(qs[p], m, 1) /\ Fits(qs[p], m, 0)
    <3>1. Fits(ps[p], m, 1) /\ Fits(ps[p], m, 0)
      BY <1>1, <1>7 DEF Filled
    <3>2. CASE p # page
      BY <1>7, <1>9, <3>1, <3>2 DEF Fits
    <3>3. CASE p = page
      <4>1. /\ Len(qs[p].keys) = Len(ps[p].keys) + 1 /\ qs[p].type = "internal"
            /\ qs[p].is_root = ps[p].is_root
        BY <1>p, <1>6, <1>7, <3>3
      <4>2. Len(ps[p].keys) >= IF ps[p].is_root THEN 1 ELSE InternalMinKeys(m)
        BY <1>2, <1>4, <3>1, <3>3 DEF Fits
      <4>3. InternalMinKeys(m) \in Nat
        BY InnerMinima DEF Tree
      <4> QED
        BY <1>q, <1>1, <1>4, <3>3, <4>1, <4>2, <4>3 DEF Fits
    <3> QED
      BY <3>2, <3>3
  <2> QED
    BY <2>1 DEF Filled
<1>21. rs = {p \in DOMAIN qs : qs[p].is_root}
  BY <1>7, <1>9 DEF Tree
<1>22. \A p \in DOMAIN ps : Len(qs[p].keys) >= Len(ps[p].keys)
  <2>1. ASSUME NEW p \in DOMAIN ps PROVE Len(qs[p].keys) >= Len(ps[p].keys)
    <3>1. Len(ps[p].keys) \in Nat
      BY <1>1, PageIs
    <3>2. Len(qs[p].keys) = Len(ps[p].keys) \/ Len(qs[p].keys) = Len(ps[p].keys) + 1
      BY <1>p, <1>6, <1>7, <1>9
    <3> QED
      BY <3>1, <3>2
  <2> QED
    BY <2>1
<1> QED
  BY <1>7, <1>9, <1>18, <1>19, <1>20, <1>21, <1>22 DEF Tree, NoneLess

\* A child is placed: between two separators, or past the last.
ChildGoes(level, page, child, node, max, right_max, ks, cs) ==
  /\ page = Top.page /\ child = Top.child /\ node = pages[page]
  /\ Pending("internal_node_insert") /\ Len(node.keys) < max_keys
  /\ Return /\ UNCHANGED <<free_head, roots, max_keys>>
  /\ pages' = Placed(pages, page, WithChildren(node, ks, cs), child)
  /\ Inner(pages, page) /\ Alive(pages, child) /\ level[page] = level[child] + 1
  /\ max = MaxKey(pages, child) /\ right_max = MaxKey(pages, Last(node.children))
  /\ max \in Nat /\ right_max \in Nat
  /\ ks = IF max > right_max THEN Append(node.keys, right_max)
          ELSE InsertAt(node.keys, LowerBound(node.keys, max), max)
  /\ cs = IF max > right_max THEN Append(node.children, child)
          ELSE InsertAt(node.children, LowerBound(node.keys, max), child)
  /\ ks \in Seq(Nat) /\ Len(ks) = Len(node.keys) + 1 /\ Enlarged(Nat, cs, node.children, child)

LEMMA InsertChildIs ==
  ASSUME NEW level, NEW loose, NEW short, Sound(level, loose, short), InsertChild
  PROVE  \E page, child, node, max, right_max, ks, cs :
           ChildGoes(level, page, child, node, max, right_max, ks, cs)
<1>a. PICK page, child, node : page = Top.page /\ child = Top.child /\ node = pages[page]
  OBVIOUS
<1>b. PICK max, right_max, index :
        /\ max = MaxKey(pages, child) /\ right_max = MaxKey(pages, Last(node.children))
        /\ index = LowerBound(node.keys, max)
  OBVIOUS
<1>c. PICK ks, cs :
        /\ ks = IF max > right_max THEN Append(node.keys, right_max) ELSE InsertAt(node.keys, index, max)
        /\ cs = IF max > right_max THEN Append(node.children, child) ELSE InsertAt(node.children, index, child)
  OBVIOUS
<1>2. /\ Pending("internal_node_insert") /\ Len(node.keys) < max_keys
      /\ Return /\ UNCHANGED <<free_head, roots, max_keys>>
  BY <1>a DEF InsertChild
<1>3. pages' = Placed(pages, page, WithChildren(node, ks, cs), child)
  <2>1. pages' = [pages EXCEPT ![page] = IF max > right_max
                                         THEN [node EXCEPT !.keys = Append(@, right_max),
                                                           !.children = Append(@, child)]
                                         ELSE [node EXCEPT !.keys = InsertAt(@, index, max),
                                                           !.children = InsertAt(@, index, child)],
                               ![child].parent = page]
    BY <1>a, <1>b DEF InsertChild
  <2>2. CASE max > right_max
    BY <1>c, <2>1, <2>2 DEF Placed, WithChildren
  <2>3. CASE ~(max > right_max)
    BY <1>c, <2>1, <2>3 DEF Placed, WithChildren
  <2> QED
    BY <2>2, <2>3
<1>4. /\ PlaceCall(Top, pages, level) /\ child \in loose /\ short = {}
      /\ \/ loose = {child} /\ stack' = <<>>
         \/ \E d : TwoCalls(Top, d, pages, max_keys, level, loose, short) /\ stack' = <<d>>
  BY <1>a, <1>2, PlaceOnTop
<1>5. Inner(pages, page) /\ Alive(pages, child) /\ level[page] = level[child] + 1
  BY <1>a, <1>4 DEF PlaceCall
<1>6. /\ Shape(pages, level, loose) /\ Descends(pages, level) /\ pages \in Seq(Record)
      /\ Filled(pages, max_keys, short) /\ page \in DOMAIN pages
  BY <1>5, TreeTyped DEF Sound, Tree, Inner
<1>7. /\ node.keys \in Seq(Nat) /\ node.children \in Seq(Nat)
      /\ Len(node.keys) \in Nat /\ Len(node.children) = Len(node.keys) + 1
      /\ child \in Nat
  <2>1. node.keys \in Seq(Nat) /\ node.children \in Seq(Nat) /\ Len(node.keys) \in Nat
    BY <1>a, <1>6, PageIs
  <2>2. Len(node.children) = Len(node.keys) + 1
    BY <1>a, <1>5, <1>6 DEF Descends, ChildrenCounted, Inner
  <2>3. child \in Nat
    BY <1>5, TreeTyped DEF Alive, Sound
  <2> QED
    BY <2>1, <2>2, <2>3
<1>8. max \in Nat /\ right_max \in Nat
  <2>1. LeavesHoldKeys(pages)
    BY <1>6, HoldKeys
  <2>2. ~pages[child].is_root
    BY <1>4, <1>6 DEF Shape
  <2>3. max \in Nat
    BY <1>b, <1>5, <1>6, <2>1, <2>2, MaxKeyIsKey
  <2>4. PICK last : last = Last(node.children)
    OBVIOUS
  <2>5. last \in Kids(pages, page)
    <3>1. Len(node.children) # 0
      BY <1>7
    <3> QED
      BY <1>a, <1>7, <2>4, <3>1, Ends DEF Kids
  <2>6. Alive(pages, last) /\ ~pages[last].is_root
    BY <1>6, <2>5 DEF Descends
  <2>7. right_max \in Nat
    BY <1>b, <1>6, <2>1, <2>4, <2>6, MaxKeyIsKey
  <2> QED
    BY <2>3, <2>7
<1>9. index \in 1..Len(node.keys) + 1 /\ index \in 1..Len(node.children) + 1
  <2>1. index \in 1..Len(node.keys) + 1
    BY <1>b, <1>7, LowerBoundInRange
  <2> QED
    BY <1>7, <2>1
<1>10. ks \in Seq(Nat) /\ Len(ks) = Len(node.keys) + 1
  <2>1. Enlarged(Nat, Append(node.keys, right_max), node.keys, right_max)
    BY <1>7, <1>8, AppendGrows
  <2>2. Enlarged(Nat, InsertAt(node.keys, index, max), node.keys, max)
    BY <1>7, <1>8, <1>9, InsertAtGrows
  <2> QED
    BY <1>c, <2>1, <2>2 DEF Enlarged
<1>11. Enlarged(Nat, cs, node.children, child)
  <2>1. Enlarged(Nat, Append(node.children, child), node.children, child)
    BY <1>7, AppendGrows
  <2>2. Enlarged(Nat, InsertAt(node.children, index, child), node.children, child)
    BY <1>7, <1>9, InsertAtGrows
  <2> QED
    BY <1>c, <2>1, <2>2
<1>12. ChildGoes(level, page, child, node, max, right_max, ks, cs)
  BY <1>a, <1>b, <1>c, <1>2, <1>3, <1>5, <1>8, <1>10, <1>11 DEF ChildGoes
<1> QED
  BY <1>12

LEMMA InsertChildKeepsTree ==
  ASSUME TreeInv, InsertChild
  PROVE  TreeInv'
<1>1. PICK level, loose, short : Sound(level, loose, short)
  BY DEF TreeInv
<1>a. PICK page, child, node, max, right_max, ks, cs :
        ChildGoes(level, page, child, node, max, right_max, ks, cs)
  BY <1>1, InsertChildIs
<1>2. /\ page = Top.page /\ child = Top.child /\ node = pages[page]
      /\ Pending("internal_node_insert") /\ Len(node.keys) < max_keys
      /\ Return /\ UNCHANGED <<free_head, roots, max_keys>>
      /\ pages' = Placed(pages, page, WithChildren(node, ks, cs), child)
      /\ Inner(pages, page) /\ level[page] = level[child] + 1
      /\ ks \in Seq(Nat) /\ Len(ks) = Len(node.keys) + 1 /\ Enlarged(Nat, cs, node.children, child)
  BY <1>a DEF ChildGoes
<1>4. /\ child \in loose /\ short = {}
      /\ \/ loose = {child} /\ stack' = <<>>
         \/ \E d : TwoCalls(Top, d, pages, max_keys, level, loose, short) /\ stack' = <<d>>
  BY <1>1, <1>2, PlaceOnTop
<1>6. pages \in Seq(Record)
  BY <1>1, TreeTyped DEF Sound
<1>12. /\ Tree(pages', free_head, max_keys, roots, level, loose \ {child}, {})
       /\ DOMAIN pages' = DOMAIN pages
       /\ \A p \in DOMAIN pages : /\ pages'[p].type = pages[p].type /\ pages'[p].is_root = pages[p].is_root
                                  /\ Len(pages'[p].keys) >= Len(pages[p].keys)
  <2>1. Tree(pages, free_head, max_keys, roots, level, loose, {})
    BY <1>1, <1>4 DEF Sound
  <2>2. Places(pages, pages', max_keys, level, page, child)
    BY <1>2 DEF Places
  <2>3. Tree(pages', free_head, max_keys, roots, level, loose \ {child}, {}) /\ NoneLess(pages, pages')
    BY <1>4, <2>1, <2>2, ChildPlaced
  <2> QED
    BY <2>3 DEF NoneLess
<1>13. PICK left : left = loose \ {child}
  OBVIOUS
<1>14. Work(stack', pages', max_keys, roots, level, left, {})
  <2>1. CASE loose = {child} /\ stack' = <<>>
    BY <1>13, <2>1 DEF Work
  <2>2. CASE \E d : TwoCalls(Top, d, pages, max_keys, level, loose, short) /\ stack' = <<d>>
    <3>1. PICK d : TwoCalls(Top, d, pages, max_keys, level, loose, short) /\ stack' = <<d>>
      BY <2>2
    <3>2. AttachCall(d, pages, max_keys, level) /\ left = {d.child}
      BY <1>2, <1>13, <3>1 DEF TwoCalls
    <3>3. /\ d.page \in DOMAIN pages /\ Len(pages'[d.page].keys) >= Len(pages[d.page].keys)
          /\ pages'[d.page].type = pages[d.page].type
      BY <1>12, <3>2 DEF AttachCall, Alive
    <3>4. Enough(pages'[d.page], max_keys)
      <4>1. /\ Len(pages[d.page].keys) \in Nat /\ Len(pages'[d.page].keys) \in Nat
        <5>1. pages' \in Seq(Record)
          BY <1>12 DEF Tree, Shape, Descends
        <5> QED
          BY <1>6, <1>12, <3>3, <5>1, PageIs
      <4>2. LeafMinCells \in Nat /\ InternalMinKeys(max_keys) \in Nat
        BY <1>1, LeafMinima, InnerMinima, TreeTyped DEF Sound
      <4> QED
        BY <3>2, <3>3, <4>1, <4>2 DEF AttachCall, Enough
    <3>5. AttachCall(d, pages', max_keys, level)
      BY <1>12, <3>2, <3>4 DEF AttachCall, Alive
    <3> QED
      BY <3>1, <3>2, <3>5 DEF Work, OneCall
  <2> QED
    BY <1>4, <2>1, <2>2
<1>15. Sound(level, left, {})'
  BY <1>2, <1>12, <1>13, <1>14 DEF Sound
<1> QED
  BY <1>15 DEF TreeInv

-----------------------------------------------------------------------------
\* A page is taken for the upper half of a node that splits.

\* `qs` is `ps` with a new page, or with a new record for a page.
Stored(ps, qs, page, node) ==
  /\ qs \in Seq(Record) /\ DOMAIN qs = DOMAIN ps \cup {page}
  /\ qs[page] = node
  /\ \A p \in DOMAIN ps \ {page} : qs[p] = ps[p]

LEMMA PutIs ==
  ASSUME NEW ps \in Seq(Record), NEW page \in 1..Len(ps) + 1, NEW node \in Record
  PROVE  Stored(ps, Put(ps, page, node), page, node)
<1>1. Len(ps) \in Nat /\ DOMAIN ps = 1..Len(ps)
  OBVIOUS
<1>2. CASE page \in DOMAIN ps
  <2>1. Put(ps, page, node) = [ps EXCEPT ![page] = node]
    BY <1>2 DEF Put
  <2> QED
    BY <1>1, <1>2, <2>1, ExceptSeq DEF Stored
<1>3. CASE page \notin DOMAIN ps
  <2>0. page = Len(ps) + 1
    BY <1>1, <1>3
  <2>1. Put(ps, page, node) = Append(ps, node)
    BY <1>3 DEF Put
  <2>2. /\ Append(ps, node) \in Seq(Record) /\ Len(Append(ps, node)) = Len(ps) + 1
        /\ Append(ps, node)[Len(ps) + 1] = node
        /\ \A i \in 1..Len(ps) : Append(ps, node)[i] = ps[i]
    BY AppendProperties
  <2>3. DOMAIN Append(ps, node) = 1..(Len(ps) + 1)
    BY <2>2, LenProperties
  <2>4. 1..(Len(ps) + 1) = (1..Len(ps)) \cup {Len(ps) + 1}
    BY <1>1
  <2> QED
    BY <1>1, <2>0, <2>1, <2>2, <2>3, <2>4 DEF Stored
<1> QED
  BY <1>2, <1>3

Reparented(m, n, parent) ==
  /\ n.type = m.type /\ n.is_root = m.is_root /\ n.parent = parent
  /\ n.keys = m.keys /\ n.children = m.children /\ n.next = m.next

\* The pages of `kids` name `page` as their parent; nothing else has changed.
HandedOver(ps, qs, kids, page) ==
  /\ qs \in Seq(Record) /\ DOMAIN qs = DOMAIN ps
  /\ \A p \in DOMAIN ps : Reparented(ps[p], qs[p], IF p \in kids THEN page ELSE ps[p].parent)

LEMMA ReparentIs ==
  ASSUME NEW ps \in Seq(Record), NEW cs, NEW page \in Nat
  PROVE  HandedOver(ps, Reparent(ps, cs, page), ToSet(cs), page)
<1>a. PICK qs : qs = Reparent(ps, cs, page)
  OBVIOUS
<1>1. Len(ps) \in Nat /\ DOMAIN ps = 1..Len(ps)
  OBVIOUS
<1>2. qs = [p \in 1..Len(ps) |-> IF p \in ToSet(cs) THEN [ps[p] EXCEPT !.parent = page] ELSE ps[p]]
  BY <1>a, <1>1 DEF Reparent
<1>3. ASSUME NEW p \in 1..Len(ps)
      PROVE  /\ qs[p] \in Record
             /\ Reparented(ps[p], qs[p], IF p \in ToSet(cs) THEN page ELSE ps[p].parent)
  <2>1. ps[p] \in Record
    BY <1>1, PageIs
  <2>2. CASE p \in ToSet(cs)
    <3>1. qs[p] = [ps[p] EXCEPT !.parent = page]
      BY <1>2, <2>2
    <3> QED
      BY <2>1, <2>2, <3>1 DEF Record, Reparented
  <2>3. CASE p \notin ToSet(cs)
    <3>1. qs[p] = ps[p]
      BY <1>2, <2>3
    <3> QED
      BY <2>1, <2>3, <3>1 DEF Reparented
  <2> QED
    BY <2>2, <2>3
<1>4. qs \in Seq(Record) /\ DOMAIN qs = 1..Len(ps)
  <2>1. qs \in [1..Len(ps) -> Record]
    BY <1>2, <1>3
  <2> QED
    BY <1>1, <2>1, SeqDef
<1> QED
  BY <1>a, <1>1, <1>3, <1>4 DEF HandedOver

\* pager_allocate_page takes the page `new` and leaves `rest` at the head of the list.
Allocated(ps, head, new, rest) ==
  IF head # NoPage THEN new = head /\ rest = ps[head].next ELSE new = Len(ps) + 1 /\ rest = NoPage

LEMMA NewPage ==
  ASSUME NEW ps \in Seq(Record), NEW head, FreeChain(ps, head), NEW new, NEW rest,
         Allocated(ps, head, new, rest)
  PROVE  /\ new \in 1..Len(ps) + 1 /\ new \in Nat /\ ~Alive(ps, new)
         /\ NoPage \notin DOMAIN ps
         /\ IF head # NoPage THEN new = head /\ rest = ps[head].next ELSE new \notin DOMAIN ps /\ rest = NoPage
<1>1. Len(ps) \in Nat /\ DOMAIN ps = 1..Len(ps) /\ NoPage \notin 1..Len(ps)
  BY DEF NoPage
<1>2. CASE head # NoPage
  <2>1. head \in DOMAIN ps /\ ps[head].type = "free"
    BY <1>2, FreeHead
  <2> QED
    BY <1>1, <1>2, <2>1 DEF Allocated, Alive
<1>3. CASE head = NoPage
  BY <1>1, <1>3 DEF Allocated, Alive
<1> QED
  BY <1>2, <1>3

\* The page `new` takes over some of the children of `old`.
Split(ps, qs, old, new) ==
  /\ qs \in Seq(Record) /\ DOMAIN qs = DOMAIN ps \cup {new}
  /\ qs[new].type = ps[old].type /\ ~qs[new].is_root
  /\ qs[old].type = ps[old].type /\ qs[old].is_root = ps[old].is_root
  /\ ChildrenCounted(qs[old]) /\ ChildrenCounted(qs[new])
  /\ Kids(ps, old) = Kids(qs, old) \cup Kids(qs, new) /\ Kids(qs, old) \cap Kids(qs, new) = {}
  /\ \A p \in DOMAIN ps \ {old, new} :
       Reparented(ps[p], qs[p], IF p \in Kids(qs, new) THEN new ELSE ps[p].parent)
  /\ qs[old].parent = ps[old].parent

LevelWith(ps, level, old, new) ==
  [p \in DOMAIN ps \cup {new} |-> IF p = new THEN level[old] ELSE level[p]]

LEMMA NodeSplit ==
  ASSUME NEW ps, NEW head, NEW m, NEW rs, NEW level, NEW loose,
         Tree(ps, head, m, rs, level, loose, {}),
         NEW qs, NEW old, NEW new, NEW rest, Alive(ps, old), Allocated(ps, head, new, rest),
         Split(ps, qs, old, new), Fits(qs[old], m, 0), Fits(qs[old], m, 1),
         Fits(qs[new], m, 0), Fits(qs[new], m, 1)
  PROVE  Tree(qs, rest, m, rs, LevelWith(ps, level, old, new), loose \cup {new}, {})
<1>1. /\ Shape(ps, level, loose) /\ Descends(ps, level) /\ ps \in Seq(Record)
      /\ FreeChain(ps, head) /\ Filled(ps, m, {}) /\ m \in Nat /\ m >= 3
      /\ rs = {p \in DOMAIN ps : ps[p].is_root}
  BY DEF Tree, Shape, Descends
<1>2. /\ ~Alive(ps, new) /\ NoPage \notin DOMAIN ps
      /\ IF head # NoPage THEN new = head /\ rest = ps[head].next ELSE new \notin DOMAIN ps /\ rest = NoPage
  BY <1>1, NewPage
<1>3. old \in DOMAIN ps /\ old # new /\ ps[old].type # "free" /\ ps[old].type \in {"leaf", "internal", "free"}
  BY <1>1, <1>2, PageIs DEF Alive
<1>a. PICK level2 : level2 = LevelWith(ps, level, old, new)
  OBVIOUS
<1>4. level2[new] = level[old] /\ \A p \in DOMAIN ps : p # new => level2[p] = level[p]
  BY <1>a DEF LevelWith
<1>5. /\ qs \in Seq(Record) /\ DOMAIN qs = DOMAIN ps \cup {new}
      /\ qs[new].type = ps[old].type /\ ~qs[new].is_root
      /\ Kids(ps, old) = Kids(qs, old) \cup Kids(qs, new) /\ Kids(qs, old) \cap Kids(qs, new) = {}
      /\ ChildrenCounted(qs[old]) /\ ChildrenCounted(qs[new])
  BY DEF Split
<1>6. \A p \in DOMAIN ps : p # old /\ p # new =>
        /\ qs[p].keys = ps[p].keys /\ qs[p].children = ps[p].children /\ qs[p].next = ps[p].next
  BY DEF Split, Reparented
<1>7. \A p \in DOMAIN ps : p # new => qs[p].type = ps[p].type /\ qs[p].is_root = ps[p].is_root
  BY DEF Split, Reparented
<1>8. old \notin Kids(qs, new)
  <2>1. level[old] \in Nat
    BY <1>1, LevelTells
  <2>2. \A c \in Kids(ps, old) : level[old] = level[c] + 1
    BY <1>1, <1>3 DEF Descends
  <2> QED
    BY <1>5, <2>1, <2>2
<1>9. \A p \in DOMAIN ps : p # new =>
        qs[p].parent = IF p \in Kids(qs, new) THEN new ELSE ps[p].parent
  BY <1>8 DEF Split, Reparented
<1>10. \A p \in DOMAIN ps : p # old /\ p # new => Kids(qs, p) = Kids(ps, p)
  BY <1>6 DEF Kids
<1>11. \A p : Alive(ps, p) => /\ p # new /\ p \in DOMAIN ps /\ p \in DOMAIN qs /\ Alive(qs, p)
                              /\ qs[p].is_root = ps[p].is_root /\ level2[p] = level[p]
  BY <1>2, <1>4, <1>5, <1>7 DEF Alive
<1>12. \A p : Alive(qs, p) => p = new \/ Alive(ps, p)
  BY <1>5, <1>7 DEF Alive
<1>13. Alive(qs, new) /\ new \notin loose
  BY <1>1, <1>2, <1>3, <1>5 DEF Alive, Shape
<1>14. \A p \in DOMAIN qs : ChildrenCounted(qs[p])
  <2>1. ASSUME NEW p \in DOMAIN ps, p # old, p # new PROVE ChildrenCounted(qs[p])
    <3>1. ChildrenCounted(ps[p])
      BY <1>1 DEF Descends
    <3> QED
      BY <1>6, <1>7, <2>1, <3>1 DEF ChildrenCounted
  <2> QED
    BY <1>5, <2>1
<1>15. ASSUME NEW p \in DOMAIN qs, NEW c \in Kids(qs, p)
       PROVE  /\ Alive(qs, c) /\ ~qs[c].is_root /\ level2[p] = level2[c] + 1
              /\ qs[c].parent = p /\ c \notin loose \cup {new}
  <2>a. PICK q : q = IF p = new THEN old ELSE p
    OBVIOUS
  <2>1. q \in DOMAIN ps /\ c \in Kids(ps, q) /\ level2[p] = level[q]
    BY <2>a, <1>3, <1>4, <1>5, <1>10, <1>15
  <2>2. /\ Alive(ps, c) /\ ~ps[c].is_root /\ level[q] = level[c] + 1
        /\ ps[c].parent = q /\ c \notin loose
    BY <1>1, <2>1 DEF Shape, Descends
  <2>3. c # new /\ c \in DOMAIN ps /\ Alive(qs, c) /\ ~qs[c].is_root /\ level2[c] = level[c]
    BY <1>11, <2>2
  <2>4. qs[c].parent = p
    <3>1. CASE p = new
      BY <1>9, <1>15, <2>3, <3>1
    <3>2. CASE p # new
      <4>1. c \notin Kids(qs, new)
        <5>1. CASE p = old
          BY <1>5, <1>15, <5>1
        <5>2. CASE p # old
          <6>1. ps[c].parent # old
            BY <2>a, <2>2, <3>2, <5>2
          <6>2. \A d \in Kids(ps, old) : ps[d].parent = old
            BY <1>1, <1>3 DEF Shape
          <6> QED
            BY <1>5, <6>1, <6>2
        <5> QED
          BY <5>1, <5>2
      <4> QED
        BY <1>9, <2>a, <2>2, <2>3, <3>2, <4>1
    <3> QED
      BY <3>1, <3>2
  <2> QED
    BY <2>1, <2>2, <2>3, <2>4
<1>16. Descends(qs, level2)
  <2>1. PICK top \in Nat : level \in [DOMAIN ps -> 0..top]
    BY <1>1 DEF Descends
  <2>2. level2 \in [DOMAIN qs -> 0..top]
    BY <1>a, <1>3, <1>5, <2>1 DEF LevelWith
  <2>3. \A p \in DOMAIN qs : qs[p].type = "leaf" => level2[p] = 0
    BY <1>1, <1>3, <1>4, <1>5, <1>7 DEF Descends
  <2> QED
    BY <1>5, <1>14, <1>15, <2>2, <2>3 DEF Descends
<1>17. ASSUME NEW p \in DOMAIN qs, Alive(qs, p), ~qs[p].is_root, p \notin loose \cup {new}
       PROVE  qs[p].parent \in DOMAIN qs /\ p \in Kids(qs, qs[p].parent)
  <2>a. PICK r : r = ps[p].parent
    OBVIOUS
  <2>1. p # new /\ p \in DOMAIN ps /\ Alive(ps, p) /\ ~ps[p].is_root /\ p \notin loose
    BY <1>5, <1>7, <1>12, <1>17
  <2>2. r \in DOMAIN ps /\ p \in Kids(ps, r) /\ Inner(ps, r)
    BY <2>a, <1>1, <2>1, ParentIs DEF Inner
  <2>3. r # new
    BY <1>2, <2>2 DEF Inner, Alive
  <2>4. CASE p \in Kids(qs, new)
    BY <1>5, <1>9, <2>1, <2>4
  <2>5. CASE p \notin Kids(qs, new)
    <3>1. qs[p].parent = r
      BY <2>a, <1>9, <2>1, <2>5
    <3>2. p \in Kids(qs, r)
      BY <1>5, <1>10, <2>2, <2>3, <2>5
    <3> QED
      BY <1>5, <2>2, <3>1, <3>2
  <2> QED
    BY <2>4, <2>5
<1>18. Shape(qs, level2, loose \cup {new})
  <2>1. \A c \in loose \cup {new} : Alive(qs, c) /\ ~qs[c].is_root
    BY <1>1, <1>5, <1>11, <1>13 DEF Shape
  <2>2. \A p \in DOMAIN qs : qs[p].is_root => Alive(qs, p)
    BY <1>1, <1>5, <1>7, <1>11 DEF Shape
  <2> QED
    BY <1>15, <1>16, <1>17, <2>1, <2>2 DEF Shape
<1>19. FreeChain(qs, rest)
  <2>1. \A p \in DOMAIN ps \ {new} : /\ ps[p].type = "free" <=> qs[p].type = "free"
                                     /\ ps[p].type = "free" => qs[p].next = ps[p].next
    BY <1>3, <1>6, <1>7
  <2>2. qs[new].type # "free"
    BY <1>3, <1>5
  <2> QED
    BY <1>1, <1>2, <1>5, <2>1, <2>2, PageTaken
<1>20. Filled(qs, m, {})
  <2>1. ASSUME NEW p \in DOMAIN ps, p # old, p # new PROVE Fits(qs[p], m, 0) /\ Fits(qs[p], m, 1)
    <3>1. Fits(ps[p], m, 1) /\ Fits(ps[p], m, 0)
      BY <1>1 DEF Filled
    <3> QED
      BY <1>6, <1>7, <2>1, <3>1 DEF Fits
  <2> QED
    BY <1>5, <2>1 DEF Filled
<1>21. rs = {p \in DOMAIN qs : qs[p].is_root}
  <2>1. new \in DOMAIN ps => ~ps[new].is_root
    BY <1>1, <1>2 DEF Shape
  <2> QED
    BY <1>1, <1>5, <1>7, <2>1
<1> QED
  BY <1>a, <1>1, <1>18, <1>19, <1>20, <1>21 DEF Tree

LEMMA HalvesAre ==
  /\ LeftSplitCount \in 1..LeafMaxCells /\ LeftSplitCount >= LeafMinCells
  /\ (LeafMaxCells + 1) - LeftSplitCount = LeafMinCells
  /\ LeftSplitCount + 1 \in 1..LeafMaxCells + 1
  BY LeafMaxCellsAssumption DEF LeftSplitCount, LeafMinCells

\* What the split of a full leaf writes: `node` was at `old`, `cells` are its keys
\* and the new one, and `left` and `right` have the halves of them.
LeafSplits(old, new, node, cells, lower, upper, left, right, c) ==
  /\ old = Target /\ node = pages[old]
  /\ cells = InsertAt(node.keys, LowerBound(node.keys, Top.key), Top.key)
  /\ lower = SubSeq(cells, 1, LeftSplitCount) /\ upper = SubSeq(cells, LeftSplitCount + 1, LeafMaxCells + 1)
  /\ left = [node EXCEPT !.keys = lower, !.next = new] /\ right = Leaf(FALSE, node.parent, upper, node.next)
  /\ c = Call("attach_sibling", old, new, Last(node.keys))
  /\ Pending("table_insert") /\ Top.key \in Nat /\ ~Holds(old, Top.key)
  /\ stack' = <<c>> /\ UNCHANGED <<roots, max_keys>>
  /\ pages \in Seq(Record) /\ old \in DOMAIN pages /\ Alive(pages, old)
  /\ node \in Record /\ node.type = "leaf" /\ node.keys \in Seq(Nat) /\ Len(node.keys) = LeafMaxCells
  /\ Allocated(pages, free_head, new, free_head')
  /\ new \in Nat /\ ~Alive(pages, new) /\ old # new
  /\ cells \in Seq(Nat) /\ Len(cells) = LeafMaxCells + 1
  /\ lower \in Seq(Nat) /\ Len(lower) = LeftSplitCount /\ upper \in Seq(Nat) /\ Len(upper) = LeafMinCells
  /\ left \in Record /\ left.keys = lower /\ left.type = "leaf" /\ left.is_root = node.is_root
  /\ left.children = node.children /\ left.parent = node.parent /\ left.next = new
  /\ right \in Record /\ right.keys = upper /\ right.type = "leaf" /\ ~right.is_root
  /\ right.children = <<>> /\ right.next = node.next
  /\ pages' \in Seq(Record) /\ DOMAIN pages' = DOMAIN pages \cup {new} /\ pages'[new] = right
  /\ pages'[old] = left /\ \A p \in DOMAIN pages \ {old, new} : pages'[p] = pages[p]

LEMMA SplitLeafIs ==
  ASSUME NEW level, NEW loose, NEW short, Sound(level, loose, short), SplitLeaf
  PROVE  \E old, new, node, cells, lower, upper, left, right, c :
           LeafSplits(old, new, node, cells, lower, upper, left, right, c)
<1>a. PICK old, new, node : old = Target /\ new = NextPage /\ node = pages[old]
  OBVIOUS
<1>b. PICK cells : cells = InsertAt(node.keys, LowerBound(node.keys, Top.key), Top.key)
  OBVIOUS
<1>c. PICK lower, upper : /\ lower = SubSeq(cells, 1, LeftSplitCount)
                          /\ upper = SubSeq(cells, LeftSplitCount + 1, LeafMaxCells + 1)
  OBVIOUS
<1>d. PICK left, right, p1, c :
        /\ left = [node EXCEPT !.keys = lower, !.next = new]
        /\ right = Leaf(FALSE, node.parent, upper, node.next)
        /\ p1 = [pages EXCEPT ![old] = left]
        /\ c = Call("attach_sibling", old, new, Last(node.keys))
  OBVIOUS
<1>2. /\ Pending("table_insert") /\ ~Holds(old, Top.key) /\ Len(node.keys) >= LeafMaxCells
      /\ Continue(<<c>>) /\ TakePage /\ UNCHANGED <<roots, max_keys>>
  BY <1>a, <1>d DEF SplitLeaf
<1>3. /\ loose = {} /\ short = {} /\ Top.key \in Nat
      /\ Alive(pages, old) /\ node.type = "leaf" /\ stack' = <<c>>
  BY <1>a, <1>2, StatementOnTop
<1>4. /\ pages \in Seq(Record) /\ old \in DOMAIN pages /\ node \in Record /\ FreeChain(pages, free_head)
      /\ node.keys \in Seq(Nat) /\ Len(node.keys) \in Nat /\ node.parent \in Nat /\ node.next \in Nat
      /\ DOMAIN pages = 1..Len(pages) /\ Tree(pages, free_head, max_keys, roots, level, {}, {})
      /\ Descends(pages, level)
  BY <1>a, <1>3, TreeTyped, PageIs DEF Sound, Alive, Tree
<1>5. pages' = Put(p1, new, right)
  <2>1. pages' = Put([pages EXCEPT ![old].keys = lower, ![old].next = new], new, right)
    BY <1>a, <1>b, <1>c, <1>d DEF SplitLeaf
  <2>2. [pages EXCEPT ![old].keys = lower, ![old].next = new] = p1
    BY <1>a, <1>d, <1>4
  <2> QED
    BY <2>1, <2>2
<1>6. Allocated(pages, free_head, new, free_head')
  BY <1>a, <1>2 DEF TakePage, NextPage, Allocated
<1>7. new \in 1..Len(pages) + 1 /\ new \in Nat /\ ~Alive(pages, new)
  BY <1>4, <1>6, NewPage
<1>8. Len(cells) = LeafMaxCells + 1 /\ cells \in Seq(Nat) /\ Len(node.keys) = LeafMaxCells
  <2>1. LowerBound(node.keys, Top.key) \in 1..Len(node.keys) + 1
    BY <1>4, LowerBoundInRange
  <2>2. Enlarged(Nat, cells, node.keys, Top.key)
    BY <1>b, <1>3, <1>4, <2>1, InsertAtGrows
  <2>3. Fits(node, max_keys, 0)
    BY <1>a, <1>4 DEF Tree, Filled
  <2>4. Len(node.keys) = LeafMaxCells
    BY <1>2, <1>3, <1>4, <2>3, LeafMinima DEF Fits
  <2> QED
    BY <2>2, <2>4 DEF Enlarged
<1>9. lower \in Seq(Nat) /\ Len(lower) = LeftSplitCount /\ upper \in Seq(Nat) /\ Len(upper) = LeafMinCells
  <2>1. /\ LeftSplitCount \in Nat /\ LeafMaxCells \in Nat
        /\ 1 \in 1..(LeafMaxCells + 1) + 1 /\ LeftSplitCount \in (1 - 1)..LeafMaxCells + 1
        /\ LeftSplitCount + 1 \in 1..(LeafMaxCells + 1) + 1
        /\ LeafMaxCells + 1 \in ((LeftSplitCount + 1) - 1)..LeafMaxCells + 1
    BY HalvesAre, LeafMinima
  <2>2. Stretch(Nat, lower, cells, 1, LeftSplitCount)
    BY <1>c, <1>8, <2>1, SubSeqDistinct
  <2>3. PICK m, n : m = LeftSplitCount + 1 /\ n = LeafMaxCells + 1
    OBVIOUS
  <2>4. Stretch(Nat, upper, cells, m, n)
    BY <1>c, <1>8, <2>1, <2>3, SubSeqDistinct
  <2>5. /\ upper \in Seq(Nat) /\ Len(upper) = n - m + 1
        /\ lower \in Seq(Nat) /\ Len(lower) = LeftSplitCount - 1 + 1
    BY <2>2, <2>4 DEF Stretch
  <2>6. n - m + 1 = LeafMinCells /\ LeftSplitCount - 1 + 1 = LeftSplitCount
    BY <2>1, <2>3, HalvesAre
  <2> QED
    BY <2>5, <2>6
<1>10. /\ left \in Record /\ left.keys = lower /\ left.type = "leaf" /\ left.is_root = node.is_root
       /\ left.children = node.children /\ left.parent = node.parent /\ left.next = new
  BY <1>d, <1>3, <1>4, <1>7, <1>9 DEF Record
<1>11. /\ right \in Record /\ right.keys = upper /\ right.type = "leaf" /\ ~right.is_root
       /\ right.children = <<>> /\ right.next = node.next
  <2>1. <<>> \in Seq(Nat)
    OBVIOUS
  <2> QED
    BY <1>d, <1>4, <1>9, <2>1 DEF Record, Leaf
<1>12. p1 \in Seq(Record) /\ DOMAIN p1 = DOMAIN pages /\ Len(p1) = Len(pages)
  BY <1>d, <1>4, <1>10, ExceptSeq
<1>13. old # new
  BY <1>3, <1>7
<1>14. /\ pages' \in Seq(Record) /\ DOMAIN pages' = DOMAIN pages \cup {new} /\ pages'[new] = right
       /\ pages'[old] = left /\ \A p \in DOMAIN pages \ {old, new} : pages'[p] = pages[p]
  <2>1. new \in 1..Len(p1) + 1
    BY <1>7, <1>12
  <2>2. Stored(p1, pages', new, right)
    BY <1>5, <1>11, <1>12, <2>1, PutIs
  <2> QED
    BY <1>d, <1>4, <1>12, <1>13, <2>2 DEF Stored
<1>15. LeafSplits(old, new, node, cells, lower, upper, left, right, c)
  BY <1>a, <1>b, <1>c, <1>d, <1>2, <1>3, <1>4, <1>6, <1>7, <1>8, <1>9, <1>10, <1>11, <1>13, <1>14, Zenon
     DEF LeafSplits
<1> QED
  BY <1>15

LEMMA SplitLeafKeepsTree ==
  ASSUME TreeInv, SplitLeaf
  PROVE  TreeInv'
<1>1. PICK level, loose, short : Sound(level, loose, short)
  BY DEF TreeInv
<1>2. PICK old, new, node, cells, lower, upper, left, right, c :
        LeafSplits(old, new, node, cells, lower, upper, left, right, c)
  BY <1>1, SplitLeafIs
<1>3. /\ loose = {} /\ Alive(pages, old) /\ node.type = "leaf" /\ stack' = <<c>> /\ UNCHANGED <<roots, max_keys>>
      /\ Allocated(pages, free_head, new, free_head') /\ node = pages[old] /\ old # new /\ ~Alive(pages, new)
      /\ c = Call("attach_sibling", old, new, Last(node.keys))
  <2>1. Pending("table_insert")
    BY <1>2 DEF LeafSplits
  <2> QED
    BY <1>1, <1>2, <2>1, StatementOnTop DEF LeafSplits
<1>4. /\ old \in DOMAIN pages /\ Descends(pages, level)
      /\ Tree(pages, free_head, max_keys, roots, level, {}, {})
  <2>1. short = {}
    BY <1>1, <1>2, StatementOnTop DEF LeafSplits
  <2> QED
    BY <1>1, <1>2, <1>3, <2>1, TreeTyped DEF Sound, LeafSplits
<1>9. lower \in Seq(Nat) /\ Len(lower) = LeftSplitCount /\ upper \in Seq(Nat) /\ Len(upper) = LeafMinCells
  BY <1>2 DEF LeafSplits
<1>10. /\ left \in Record /\ left.keys = lower /\ left.type = "leaf" /\ left.is_root = node.is_root
       /\ left.children = node.children /\ left.parent = node.parent
  BY <1>2 DEF LeafSplits
<1>11. /\ right \in Record /\ right.keys = upper /\ right.type = "leaf" /\ ~right.is_root
       /\ right.children = <<>>
  BY <1>2 DEF LeafSplits
<1>14. /\ pages' \in Seq(Record) /\ DOMAIN pages' = DOMAIN pages \cup {new} /\ pages'[new] = right
       /\ pages'[old] = left /\ \A p \in DOMAIN pages \ {old, new} : pages'[p] = pages[p]
  BY <1>2 DEF LeafSplits
<1>15. Split(pages, pages', old, new)
  <2>1. node.children = <<>> /\ IsInjective(<<>>)
    BY <1>3, <1>4 DEF Descends, ChildrenCounted, IsInjective
  <2>2. ChildrenCounted(left) /\ ChildrenCounted(right)
    BY <1>10, <1>11, <2>1 DEF ChildrenCounted
  <2>3. Kids(pages, old) = {} /\ Kids(pages', old) = {} /\ Kids(pages', new) = {}
    BY <1>3, <1>10, <1>11, <1>14, <2>1 DEF Kids, ToSet
  <2> QED
    BY <1>3, <1>10, <1>11, <1>14, <2>2, <2>3 DEF Split, Reparented
<1>16. /\ Fits(left, max_keys, 0) /\ Fits(left, max_keys, 1)
       /\ Fits(right, max_keys, 0) /\ Fits(right, max_keys, 1)
  <2>1. /\ LeftSplitCount <= LeafMaxCells /\ LeftSplitCount + 0 >= LeafMinCells /\ LeftSplitCount + 1 >= LeafMinCells
        /\ LeafMinCells <= LeafMaxCells /\ LeafMinCells + 0 >= LeafMinCells /\ LeafMinCells + 1 >= LeafMinCells
    BY HalvesAre, LeafMinima
  <2> QED
    BY <1>9, <1>10, <1>11, <2>1 DEF Fits
<1>17. PICK level2 : level2 = LevelWith(pages, level, old, new)
  OBVIOUS
<1>18. Tree(pages', free_head', max_keys, roots, level2, {new}, {})
  <2>1. Tree(pages', free_head', max_keys, roots, level2, {} \cup {new}, {})
    BY <1>3, <1>4, <1>14, <1>15, <1>16, <1>17, NodeSplit
  <2> QED
    BY <2>1
<1>19. AttachCall(c, pages', max_keys, level2) /\ c.child = new
  <2>1. c.fn = "attach_sibling" /\ c.page = old /\ c.child = new
    BY <1>3 DEF Call
  <2>2. level2[old] = level2[new]
    BY <1>3, <1>4, <1>17 DEF LevelWith
  <2>3. Enough(pages'[old], max_keys)
    BY <1>9, <1>10, <1>14, HalvesAre DEF Enough
  <2>4. Alive(pages', old) /\ Alive(pages', new)
    BY <1>4, <1>10, <1>11, <1>14 DEF Alive
  <2> QED
    BY <1>3, <2>1, <2>2, <2>3, <2>4 DEF AttachCall
<1>20. Sound(level2, {new}, {})'
  BY <1>3, <1>18, <1>19 DEF Sound, Work, OneCall
<1> QED
  BY <1>20 DEF TreeInv

\* The middle key goes; the children are dealt out to the halves.
Dealt(node, lower, upper, first, second) ==
  /\ lower \in Seq(Nat) /\ Len(lower) = Len(node.keys) \div 2
  /\ upper \in Seq(Nat) /\ Len(upper) = Len(node.keys) - Len(node.keys) \div 2 - 1
  /\ first \in Seq(Nat) /\ Len(first) = Len(lower) + 1 /\ IsInjective(first)
  /\ second \in Seq(Nat) /\ Len(second) = Len(upper) + 1 /\ IsInjective(second)
  /\ ToSet(node.children) = ToSet(first) \cup ToSet(second)
  /\ ToSet(first) \cap ToSet(second) = {}

LEMMA HalfOf ==
  ASSUME NEW n \in Nat, n >= 3
  PROVE  n \div 2 \in 1..n - 2
  OBVIOUS

\* Positions 1 to a and b to z.
Abut(a, b, z) ==
  /\ \A i : i \in 1..z <=> i \in 1..a \/ i \in b..z
  /\ \A i \in 1..a, j \in b..z : i # j

Halved(n, h, a, b, z) ==
  /\ a \in Nat /\ b \in Nat /\ z \in Nat
  /\ 1 \in 1..n + 1 /\ h \in (1 - 1)..n /\ b \in 1..n + 1 /\ n \in (b - 1)..n
  /\ 1 \in 1..z + 1 /\ a \in (1 - 1)..z /\ b \in 1..z + 1 /\ z \in (b - 1)..z
  /\ h - 1 + 1 = h /\ n - b + 1 = n - h - 1 /\ a - 1 + 1 = h + 1 /\ z - b + 1 = (n - h - 1) + 1
  /\ Abut(a, b, z)

LEMMA HalfCounts ==
  ASSUME NEW n \in Nat, NEW h \in 1..n - 2
  PROVE  Halved(n, h, h + 1, h + 2, n + 1)
  BY DEF Halved, Abut

LEMMA DealtOut ==
  ASSUME NEW s \in Seq(Nat), IsInjective(s), NEW a, NEW b, NEW u, NEW v, NEW z, z = Len(s),
         Stretch(Nat, u, s, 1, a), Stretch(Nat, v, s, b, z), Abut(a, b, z)
  PROVE  ToSet(s) = ToSet(u) \cup ToSet(v) /\ ToSet(u) \cap ToSet(v) = {}
<1>1. DOMAIN s = 1..z
  OBVIOUS
<1>2. ToSet(u) = {s[i] : i \in 1..a} /\ ToSet(v) = {s[i] : i \in b..z}
  BY DEF Stretch
<1>3. ToSet(s) = {s[i] : i \in 1..z}
  BY <1>1 DEF ToSet
<1>a. PICK A, B, D : A = 1..a /\ B = b..z /\ D = 1..z
  OBVIOUS
<1>4. /\ ToSet(u) = {s[i] : i \in A} /\ ToSet(v) = {s[i] : i \in B} /\ ToSet(s) = {s[i] : i \in D}
      /\ D = A \cup B /\ \A i \in A, j \in B : i # j
  BY <1>2, <1>3, <1>a DEF Abut
<1>5. \A i \in D, j \in D : s[i] = s[j] => i = j
  BY <1>1, <1>a DEF IsInjective
<1> QED
  BY <1>4, <1>5

LEMMA HalvesDealt ==
  ASSUME NEW node, node.keys \in Seq(Nat), node.children \in Seq(Nat), IsInjective(node.children),
         Len(node.keys) >= 3, Len(node.children) = Len(node.keys) + 1,
         NEW n, NEW split, n = Len(node.keys), split = n \div 2
  PROVE  Dealt(node, SubSeq(node.keys, 1, split), SubSeq(node.keys, split + 2, n),
                     SubSeq(node.children, 1, split + 1), SubSeq(node.children, split + 2, n + 1))
<1>a. PICK keys, children, m, h, a, b, z :
        /\ keys = node.keys /\ children = node.children /\ m = Len(keys) /\ h = m \div 2
        /\ a = h + 1 /\ b = h + 2 /\ z = m + 1
  OBVIOUS
<1>b. PICK lower, upper, first, second :
        /\ lower = SubSeq(keys, 1, h) /\ upper = SubSeq(keys, b, m)
        /\ first = SubSeq(children, 1, a) /\ second = SubSeq(children, b, z)
  OBVIOUS
<1>1. /\ keys \in Seq(Nat) /\ children \in Seq(Nat) /\ Len(keys) = m /\ Len(children) = z
      /\ IsInjective(children) /\ m \in Nat /\ m >= 3
  BY <1>a
<1>2. h \in 1..m - 2
  BY <1>a, <1>1, HalfOf
<1>3. Halved(m, h, a, b, z)
  <2>1. Halved(m, h, h + 1, h + 2, m + 1)
    BY <1>1, <1>2, HalfCounts
  <2> QED
    BY <1>a, <2>1
<1>4. Stretch(Nat, lower, keys, 1, h) /\ Stretch(Nat, upper, keys, b, m)
  BY <1>b, <1>1, <1>3, SubSeqDistinct DEF Halved
<1>5. Stretch(Nat, first, children, 1, a) /\ Stretch(Nat, second, children, b, z)
  BY <1>b, <1>1, <1>3, SubSeqDistinct DEF Halved
<1>6. /\ lower \in Seq(Nat) /\ Len(lower) = h - 1 + 1 /\ upper \in Seq(Nat) /\ Len(upper) = m - b + 1
  BY <1>4 DEF Stretch
<1>7. /\ first \in Seq(Nat) /\ Len(first) = a - 1 + 1 /\ IsInjective(first)
      /\ second \in Seq(Nat) /\ Len(second) = z - b + 1 /\ IsInjective(second)
  BY <1>1, <1>5 DEF Stretch
<1>8. ToSet(children) = ToSet(first) \cup ToSet(second) /\ ToSet(first) \cap ToSet(second) = {}
  <2>1. Abut(a, b, z) /\ children \in Seq(Nat) /\ z = Len(children)
    BY <1>1, <1>3 DEF Halved
  <2> QED
    BY <1>1, <1>5, <2>1, DealtOut
<1>9. /\ Len(lower) = h /\ Len(upper) = m - h - 1 /\ Len(first) = h + 1 /\ Len(second) = (m - h - 1) + 1
  BY <1>3, <1>6, <1>7 DEF Halved
<1>10. Dealt(node, lower, upper, first, second)
  BY <1>a, <1>6, <1>7, <1>8, <1>9 DEF Dealt
<1>11. /\ lower = SubSeq(node.keys, 1, split) /\ upper = SubSeq(node.keys, split + 2, n)
       /\ first = SubSeq(node.children, 1, split + 1) /\ second = SubSeq(node.children, split + 2, n + 1)
  BY <1>a, <1>b
<1> QED
  BY <1>10, <1>11

LEMMA InnerHalves ==
  ASSUME NEW m \in Nat, m >= 3
  PROVE  /\ m \div 2 \in Nat /\ m \div 2 >= 1 /\ m \div 2 >= InternalMinKeys(m) /\ m \div 2 < m
         /\ m - m \div 2 - 1 = InternalMinKeys(m) /\ InternalMinKeys(m) < m
  BY DEF InternalMinKeys

\* What the split of a full node writes: `new` has the keys above the middle one
\* and the children right of it; the pending child goes to one of the two.
NodeSplits(level, loose, old, child, new, node, n, lower, upper, first, moved, destination, c, d) ==
  /\ old = Top.page /\ child = Top.child /\ node = pages[old] /\ n = Len(node.keys)
  /\ lower = SubSeq(node.keys, 1, n \div 2) /\ upper = SubSeq(node.keys, n \div 2 + 2, n)
  /\ first = SubSeq(node.children, 1, n \div 2 + 1) /\ moved = SubSeq(node.children, n \div 2 + 2, n + 1)
  /\ destination = IF MaxKey(pages, child) < MaxKey(pages', old) THEN old ELSE new
  /\ c = Call("internal_node_insert", destination, child, 0)
  /\ d = Call("attach_sibling", old, new, MaxKey(pages, old))
  /\ Pending("internal_node_insert") /\ stack' = <<c, d>> /\ UNCHANGED <<roots, max_keys>>
  /\ pages \in Seq(Record) /\ Inner(pages, old) /\ old \in DOMAIN pages /\ node.type = "internal"
  /\ node.keys \in Seq(Nat) /\ n = max_keys /\ n \in Nat /\ n >= 3
  /\ node.children \in Seq(Nat) /\ Len(node.children) = n + 1
  /\ Alive(pages, child) /\ level[old] = level[child] + 1 /\ loose = {child}
  /\ Dealt(node, lower, upper, first, moved)
  /\ Allocated(pages, free_head, new, free_head')
  /\ new \in Nat /\ ~Alive(pages, new) /\ old # new /\ child # new
  /\ pages' \in Seq(Record) /\ DOMAIN pages' = DOMAIN pages \cup {new}
  /\ \A p \in DOMAIN pages \ {old, new} :
       Reparented(pages[p], pages'[p], IF p \in ToSet(moved) THEN new ELSE pages[p].parent)
  /\ pages'[new].keys = upper /\ pages'[new].children = moved /\ pages'[new].type = "internal"
  /\ ~pages'[new].is_root
  /\ pages'[old].keys = lower /\ pages'[old].children = first /\ pages'[old].type = "internal"
  /\ pages'[old].is_root = node.is_root /\ pages'[old].parent = node.parent

LEMMA SplitInternalIs ==
  ASSUME NEW level, NEW loose, NEW short, Sound(level, loose, short), SplitInternal
  PROVE  \E old, child, new, node, n, lower, upper, first, moved, destination, c, d :
           NodeSplits(level, loose, old, child, new, node, n, lower, upper, first, moved, destination, c, d)
<1>a. PICK old, child, new, node, n, split :
        /\ old = Top.page /\ child = Top.child /\ new = NextPage /\ node = pages[old]
        /\ n = Len(node.keys) /\ split = n \div 2
  OBVIOUS
<1>b. PICK lower, upper, first, moved :
        /\ lower = SubSeq(node.keys, 1, split) /\ upper = SubSeq(node.keys, split + 2, n)
        /\ first = SubSeq(node.children, 1, split + 1) /\ moved = SubSeq(node.children, split + 2, n + 1)
  OBVIOUS
<1>c. PICK kept, sibling, p1, p2 :
        /\ kept = WithChildren(node, lower, first)
        /\ sibling = Internal(FALSE, node.parent, upper, moved)
        /\ p1 = [pages EXCEPT ![old] = kept]
        /\ p2 = Put(p1, new, sibling)
  OBVIOUS
<1>d. PICK destination, d :
        /\ destination = IF MaxKey(pages, child) < MaxKey(pages', old) THEN old ELSE new
        /\ d = Call("attach_sibling", old, new, MaxKey(pages, old))
        /\ pages' = Reparent(p2, moved, new)
        /\ Continue(<<Call("internal_node_insert", destination, child, 0), d>>)
  <2>1. pages' = Reparent(p2, moved, new)
    BY <1>a, <1>b, <1>c DEF SplitInternal, WithChildren
  <2>2. PICK to : /\ to = IF MaxKey(pages, child) < MaxKey(pages', old) THEN old ELSE new
                  /\ Continue(<<Call("internal_node_insert", to, child, 0),
                                Call("attach_sibling", old, new, MaxKey(pages, old))>>)
    BY <1>a DEF SplitInternal
  <2> QED
    BY <2>1, <2>2
<1>e. PICK c : c = Call("internal_node_insert", destination, child, 0)
  OBVIOUS
<1>2. /\ Pending("internal_node_insert") /\ n >= max_keys
      /\ Continue(<<c, d>>) /\ TakePage /\ UNCHANGED <<roots, max_keys>>
  BY <1>a, <1>d, <1>e DEF SplitInternal
<1>3. /\ PlaceCall(Top, pages, level) /\ child \in loose /\ short = {} /\ max_keys \in Nat /\ max_keys >= 3
      /\ Tree(pages, free_head, max_keys, roots, level, loose, {})
      /\ Shape(pages, level, loose) /\ Descends(pages, level) /\ pages \in Seq(Record)
      /\ FreeChain(pages, free_head) /\ Filled(pages, max_keys, {})
  BY <1>a, <1>2, PlaceOnTop, TreeTyped DEF Sound, Tree
<1>4. Inner(pages, old) /\ Alive(pages, child) /\ level[old] = level[child] + 1
  BY <1>a, <1>3 DEF PlaceCall
<1>5. /\ old \in DOMAIN pages /\ node \in Record /\ node.type = "internal" /\ Alive(pages, old)
      /\ node.keys \in Seq(Nat) /\ n \in Nat /\ node.children \in Seq(Nat) /\ node.parent \in Nat
      /\ DOMAIN pages = 1..Len(pages)
  BY <1>a, <1>3, <1>4, PageIs, LenProperties DEF Inner, Alive
<1>6. IsInjective(node.children) /\ Len(node.children) = n + 1
  BY <1>a, <1>3, <1>5 DEF Descends, ChildrenCounted
<1>7. n = max_keys
  <2>1. Fits(node, max_keys, 0)
    BY <1>a, <1>3, <1>5 DEF Filled
  <2> QED
    BY <1>a, <1>2, <1>3, <1>5, <2>1 DEF Fits
<1>8. loose = {child} /\ stack' = <<c, d>>
  <2>1. \A e : ~TwoCalls(Top, e, pages, max_keys, level, loose, short)
    BY <1>a, <1>3, <1>7 DEF TwoCalls
  <2> QED
    BY <1>a, <1>2, <2>1, PlaceOnTop
<1>9. Dealt(node, lower, upper, first, moved)
  BY <1>a, <1>b, <1>3, <1>5, <1>6, <1>7, HalvesDealt
<1>10. Allocated(pages, free_head, new, free_head')
  BY <1>a, <1>2 DEF TakePage, NextPage, Allocated
<1>11. new \in 1..Len(pages) + 1 /\ new \in Nat /\ ~Alive(pages, new) /\ old # new /\ child # new
  BY <1>3, <1>4, <1>5, <1>10, NewPage
<1>12. /\ kept \in Record /\ kept.keys = lower /\ kept.children = first /\ kept.type = "internal"
       /\ kept.is_root = node.is_root /\ kept.parent = node.parent
  <2>1. lower \in Seq(Nat) /\ first \in Seq(Nat)
    BY <1>9 DEF Dealt
  <2>2. kept = WithChildren(node, lower, first)
    BY <1>c
  <2>3. Refilled(node, kept, lower, first)
    BY <1>5, <2>1, <2>2, WithChildrenIs
  <2> QED
    BY <1>5, <2>3 DEF Refilled
<1>13. /\ sibling \in Record /\ sibling.keys = upper /\ sibling.children = moved
       /\ sibling.type = "internal" /\ ~sibling.is_root
  BY <1>c, <1>5, <1>9 DEF Dealt, Record, Internal, NoPage
<1>14. p1 \in Seq(Record) /\ DOMAIN p1 = DOMAIN pages /\ Len(p1) = Len(pages)
  BY <1>c, <1>5, <1>3, <1>12, ExceptSeq
<1>15. Stored(p1, p2, new, sibling)
  <2>1. new \in 1..Len(p1) + 1
    BY <1>11, <1>14
  <2> QED
    BY <1>c, <1>13, <1>14, <2>1, PutIs
<1>16. HandedOver(p2, pages', ToSet(moved), new)
  BY <1>d, <1>11, <1>15, ReparentIs DEF Stored
<1>17. /\ old \notin ToSet(moved) /\ new \notin ToSet(moved)
  <2>1. \A e \in ToSet(moved) : e \in Kids(pages, old)
    BY <1>a, <1>9 DEF Dealt, Kids
  <2>2. \A e \in Kids(pages, old) : Alive(pages, e) /\ level[old] = level[e] + 1
    BY <1>3, <1>5 DEF Descends
  <2>3. level[old] \in Nat
    BY <1>3, <1>5, LevelTells
  <2> QED
    BY <1>11, <2>1, <2>2, <2>3
<1>18. /\ p2 \in Seq(Record) /\ DOMAIN p2 = DOMAIN pages \cup {new} /\ p2[new] = sibling /\ p2[old] = kept
       /\ \A p \in DOMAIN pages \ {old, new} : p2[p] = pages[p]
  BY <1>c, <1>5, <1>11, <1>14, <1>15 DEF Stored
<1>19. /\ pages' \in Seq(Record) /\ DOMAIN pages' = DOMAIN pages \cup {new}
       /\ Reparented(sibling, pages'[new], sibling.parent) /\ Reparented(kept, pages'[old], kept.parent)
       /\ \A p \in DOMAIN pages \ {old, new} :
            Reparented(pages[p], pages'[p], IF p \in ToSet(moved) THEN new ELSE pages[p].parent)
  <2>1. new \in DOMAIN p2 /\ old \in DOMAIN p2
    BY <1>5, <1>18
  <2>2. pages' \in Seq(Record) /\ DOMAIN pages' = DOMAIN pages \cup {new}
    BY <1>16, <1>18 DEF HandedOver
  <2>3. Reparented(p2[new], pages'[new], p2[new].parent) /\ Reparented(p2[old], pages'[old], p2[old].parent)
    BY <1>16, <1>17, <2>1 DEF HandedOver
  <2>4. ASSUME NEW p \in DOMAIN pages \ {old, new}
        PROVE  Reparented(p2[p], pages'[p], IF p \in ToSet(moved) THEN new ELSE p2[p].parent)
    BY <1>16, <1>18 DEF HandedOver
  <2> QED
    BY <1>18, <2>2, <2>3, <2>4
<1>20. /\ pages'[new].keys = upper /\ pages'[new].children = moved /\ pages'[new].type = "internal"
       /\ ~pages'[new].is_root
       /\ pages'[old].keys = lower /\ pages'[old].children = first /\ pages'[old].type = "internal"
       /\ pages'[old].is_root = node.is_root /\ pages'[old].parent = node.parent
  BY <1>12, <1>13, <1>19 DEF Reparented
<1>21. NodeSplits(level, loose, old, child, new, node, n, lower, upper, first, moved, destination, c, d)
  <2>1. n \div 2 = split
    BY <1>a
  <2> QED
    BY <1>a, <1>b, <1>d, <1>e, <1>2, <1>3, <1>4, <1>5, <1>6, <1>7, <1>8, <1>9, <1>10, <1>11, <1>19, <1>20, <2>1 DEF NodeSplits
<1> QED
  BY <1>21

LEMMA SplitInternalKeepsTree ==
  ASSUME TreeInv, SplitInternal
  PROVE  TreeInv'
<1>1. PICK level, loose, short : Sound(level, loose, short)
  BY DEF TreeInv
<1>2. PICK old, child, new, node, n, lower, upper, first, moved, destination, c, d :
        NodeSplits(level, loose, old, child, new, node, n, lower, upper, first, moved, destination, c, d)
  BY <1>1, SplitInternalIs
<1>a. old = Top.page /\ child = Top.child /\ node = pages[old] /\ n = Len(node.keys)
  BY <1>2 DEF NodeSplits
<1>d. /\ destination \in {old, new} /\ d = Call("attach_sibling", old, new, MaxKey(pages, old))
      /\ c = Call("internal_node_insert", destination, child, 0)
      /\ UNCHANGED <<roots, max_keys>>
  BY <1>2 DEF NodeSplits
<1>3. /\ max_keys \in Nat /\ max_keys >= 3 /\ Tree(pages, free_head, max_keys, roots, level, loose, {})
  <2>1. short = {}
    BY <1>1, <1>2, PlaceOnTop DEF NodeSplits
  <2> QED
    BY <1>1, <2>1 DEF Sound, Tree
<1>4. Inner(pages, old) /\ Alive(pages, child) /\ level[old] = level[child] + 1
  BY <1>2 DEF NodeSplits
<1>5. old \in DOMAIN pages /\ node.type = "internal" /\ Alive(pages, old)
  BY <1>2 DEF NodeSplits, Alive
<1>7. n = max_keys
  BY <1>2 DEF NodeSplits
<1>8. loose = {child} /\ stack' = <<c, d>>
  BY <1>2 DEF NodeSplits
<1>9. Dealt(node, lower, upper, first, moved)
  BY <1>2 DEF NodeSplits
<1>10. Allocated(pages, free_head, new, free_head')
  BY <1>2 DEF NodeSplits
<1>11. new \in Nat /\ ~Alive(pages, new) /\ old # new /\ child # new
  BY <1>2 DEF NodeSplits
<1>19. /\ pages' \in Seq(Record) /\ DOMAIN pages' = DOMAIN pages \cup {new}
       /\ \A p \in DOMAIN pages \ {old, new} :
            Reparented(pages[p], pages'[p], IF p \in ToSet(moved) THEN new ELSE pages[p].parent)
  BY <1>2 DEF NodeSplits
<1>20. /\ pages'[new].keys = upper /\ pages'[new].children = moved /\ pages'[new].type = "internal"
       /\ ~pages'[new].is_root
       /\ pages'[old].keys = lower /\ pages'[old].children = first /\ pages'[old].type = "internal"
       /\ pages'[old].is_root = node.is_root /\ pages'[old].parent = node.parent
  BY <1>2 DEF NodeSplits
<1>21. Split(pages, pages', old, new)
  <2>1. Kids(pages', old) = ToSet(first) /\ Kids(pages', new) = ToSet(moved) /\ Kids(pages, old) = ToSet(node.children)
    BY <1>a, <1>20 DEF Kids
  <2>2. ChildrenCounted(pages'[old]) /\ ChildrenCounted(pages'[new])
    BY <1>9, <1>20 DEF Dealt, ChildrenCounted
  <2>3. Kids(pages, old) = Kids(pages', old) \cup Kids(pages', new) /\ Kids(pages', old) \cap Kids(pages', new) = {}
    BY <1>9, <2>1 DEF Dealt
  <2>4. node.type = pages[old].type /\ node.is_root = pages[old].is_root /\ node.parent = pages[old].parent
    BY <1>a
  <2> QED
    BY <1>5, <1>19, <1>20, <2>1, <2>2, <2>3, <2>4 DEF Split
<1>22. /\ Len(lower) = max_keys \div 2 /\ Len(upper) = InternalMinKeys(max_keys)
  BY <1>a, <1>3, <1>7, <1>9, InnerHalves DEF Dealt
<1>23. /\ Fits(pages'[old], max_keys, 0) /\ Fits(pages'[old], max_keys, 1)
       /\ Fits(pages'[new], max_keys, 0) /\ Fits(pages'[new], max_keys, 1)
  <2>a. PICK h, q : h = max_keys \div 2 /\ q = InternalMinKeys(max_keys)
    OBVIOUS
  <2>1. /\ h \in Nat /\ h >= 1 /\ h >= q /\ h < max_keys /\ q \in Nat /\ q >= 1 /\ q < max_keys
    BY <2>a, <1>3, InnerHalves, InnerMinima
  <2>2. /\ h + 0 >= 1 /\ h + 1 >= 1 /\ h + 0 >= q /\ h + 1 >= q /\ h <= max_keys
        /\ q + 0 >= 1 /\ q + 1 >= 1 /\ q + 0 >= q /\ q + 1 >= q /\ q <= max_keys
    BY <2>1, <1>3
  <2>3. Len(pages'[old].keys) = h /\ Len(pages'[new].keys) = q
    BY <2>a, <1>20, <1>22
  <2> QED
    BY <2>a, <2>2, <2>3, <1>20 DEF Fits
<1>24. PICK level2 : level2 = LevelWith(pages, level, old, new)
  OBVIOUS
<1>25. Tree(pages', free_head', max_keys, roots, level2, {child, new}, {})
  <2>1. Tree(pages', free_head', max_keys, roots, level2, loose \cup {new}, {})
    BY <1>3, <1>5, <1>10, <1>21, <1>23, <1>24, NodeSplit
  <2>2. loose \cup {new} = {child, new}
    BY <1>8
  <2> QED
    BY <2>1, <2>2
<1>26. level2[old] = level[old] /\ level2[new] = level[old] /\ level2[child] = level[child]
  BY <1>4, <1>5, <1>11, <1>24 DEF LevelWith, Alive
<1>27. Inner(pages', old) /\ Inner(pages', new) /\ Alive(pages', old) /\ Alive(pages', new) /\ Alive(pages', child)
  <2>1. Alive(pages', child)
    <3>1. child \in loose \cup {new}
      BY <1>8
    <3> QED
      BY <1>25, <1>8 DEF Tree, Shape
  <2> QED
    BY <1>5, <1>19, <1>20, <2>1 DEF Inner, Alive
<1>28. PlaceCall(c, pages', level2) /\ c.child = child /\ c.page \in {old, new}
  <2>1. c.fn = "internal_node_insert" /\ c.page = destination /\ c.child = child
    BY <1>d DEF Call
  <2> QED
    BY <1>d, <1>4, <1>26, <1>27, <2>1 DEF PlaceCall
<1>29. AttachCall(d, pages', max_keys, level2) /\ d.page = old /\ d.child = new
  <2>1. d.fn = "attach_sibling" /\ d.page = old /\ d.child = new
    BY <1>d DEF Call
  <2>2. Enough(pages'[old], max_keys)
    BY <1>3, <1>20, <1>22, InnerHalves DEF Enough
  <2> QED
    BY <1>11, <1>26, <1>27, <2>1, <2>2 DEF AttachCall
<1>30. Len(pages'[c.page].keys) < max_keys
  BY <1>3, <1>20, <1>22, <1>28, InnerHalves
<1>31. TwoCalls(c, d, pages', max_keys, level2, {child, new}, {})
  BY <1>11, <1>28, <1>29, <1>30 DEF TwoCalls
<1>32. Sound(level2, {child, new}, {})'
  BY <1>d, <1>8, <1>25, <1>31 DEF Sound, Work
<1> QED
  BY <1>32 DEF TreeInv

-----------------------------------------------------------------------------
\* create_new_root: the tree grows by a level, at the top.

Raised(ps, qs, root, left, right) ==
  /\ qs \in Seq(Record) /\ DOMAIN qs = DOMAIN ps \cup {left}
  /\ qs[root].type = "internal" /\ qs[root].is_root /\ Len(qs[root].keys) = 1
  /\ ChildrenCounted(qs[root]) /\ Kids(qs, root) = {left, right}
  /\ qs[left].type = ps[root].type /\ ~qs[left].is_root /\ qs[left].parent = root
  /\ qs[left].keys = ps[root].keys /\ qs[left].children = ps[root].children
  /\ \A p \in DOMAIN ps \ {root, left} :
       Reparented(ps[p], qs[p], IF p = right THEN root
                                ELSE IF p \in Kids(ps, root) THEN left ELSE ps[p].parent)

LevelAbove(ps, level, root, left) ==
  [p \in DOMAIN ps \cup {left} |->
     IF p = left THEN level[root] ELSE IF p = root THEN level[root] + 1 ELSE level[p]]

LEMMA RootRaised ==
  ASSUME NEW ps, NEW head, NEW m, NEW rs, NEW level, NEW right,
         Tree(ps, head, m, rs, level, {right}, {}),
         NEW qs, NEW root, NEW left, NEW rest, Alive(ps, root), ps[root].is_root, Enough(ps[root], m),
         right # root, level[right] = level[root],
         Allocated(ps, head, left, rest), Raised(ps, qs, root, left, right)
  PROVE  Tree(qs, rest, m, rs, LevelAbove(ps, level, root, left), {}, {})
<1>1. /\ Shape(ps, level, {right}) /\ Descends(ps, level) /\ ps \in Seq(Record)
      /\ FreeChain(ps, head) /\ Filled(ps, m, {}) /\ m \in Nat /\ m >= 3
      /\ rs = {p \in DOMAIN ps : ps[p].is_root}
  BY DEF Tree, Shape, Descends
<1>2. /\ ~Alive(ps, left) /\ NoPage \notin DOMAIN ps
      /\ IF head # NoPage THEN left = head /\ rest = ps[head].next ELSE left \notin DOMAIN ps /\ rest = NoPage
  BY <1>1, NewPage
<1>3. /\ root \in DOMAIN ps /\ root # left /\ ps[root].type # "free" /\ ps[root].type \in {"leaf", "internal", "free"}
      /\ level[root] \in Nat
      /\ Alive(ps, right) /\ ~ps[right].is_root /\ right \in DOMAIN ps /\ right # left
  BY <1>1, <1>2, PageIs, LevelTells DEF Alive, Shape
<1>a. PICK level2 : level2 = LevelAbove(ps, level, root, left)
  OBVIOUS
<1>4. /\ level2[left] = level[root] /\ level2[root] = level[root] + 1
      /\ \A p \in DOMAIN ps : p # left /\ p # root => level2[p] = level[p]
  BY <1>a, <1>3 DEF LevelAbove
<1>5. /\ qs \in Seq(Record) /\ DOMAIN qs = DOMAIN ps \cup {left}
      /\ qs[root].type = "internal" /\ qs[root].is_root /\ Len(qs[root].keys) = 1
      /\ ChildrenCounted(qs[root]) /\ Kids(qs, root) = {left, right}
      /\ qs[left].type = ps[root].type /\ ~qs[left].is_root /\ qs[left].parent = root
      /\ qs[left].keys = ps[root].keys /\ qs[left].children = ps[root].children
  BY DEF Raised
<1>6. \A p \in DOMAIN ps : p # root /\ p # left =>
        /\ qs[p].keys = ps[p].keys /\ qs[p].children = ps[p].children /\ qs[p].next = ps[p].next
        /\ qs[p].type = ps[p].type /\ qs[p].is_root = ps[p].is_root
        /\ qs[p].parent = IF p = right THEN root ELSE IF p \in Kids(ps, root) THEN left ELSE ps[p].parent
  BY DEF Raised, Reparented
<1>7. Kids(qs, left) = Kids(ps, root) /\ \A p \in DOMAIN ps : p # root /\ p # left => Kids(qs, p) = Kids(ps, p)
  BY <1>5, <1>6 DEF Kids
<1>8. ASSUME NEW p \in DOMAIN ps, NEW c \in Kids(ps, p)
      PROVE  /\ Alive(ps, c) /\ c \in DOMAIN ps /\ ~ps[c].is_root /\ level[p] = level[c] + 1
             /\ ps[c].parent = p /\ c # right /\ c # root /\ c # left
             /\ level2[c] = level[c] /\ Alive(qs, c) /\ ~qs[c].is_root
  <2>1. /\ Alive(ps, c) /\ c \in DOMAIN ps /\ ~ps[c].is_root /\ level[p] = level[c] + 1
        /\ ps[c].parent = p /\ c # right
    BY <1>1 DEF Shape, Descends, Alive
  <2>2. c # root /\ c # left
    BY <1>2, <2>1
  <2> QED
    BY <1>4, <1>5, <1>6, <2>1, <2>2 DEF Alive
<1>9. \A p \in DOMAIN qs : ChildrenCounted(qs[p])
  <2>1. ASSUME NEW p \in DOMAIN ps, p # root, p # left PROVE ChildrenCounted(qs[p])
    <3>1. ChildrenCounted(ps[p])
      BY <1>1 DEF Descends
    <3> QED
      BY <1>6, <2>1, <3>1 DEF ChildrenCounted
  <2>2. ChildrenCounted(qs[left])
    <3>1. ChildrenCounted(ps[root])
      BY <1>1, <1>3 DEF Descends
    <3> QED
      BY <1>5, <3>1 DEF ChildrenCounted
  <2> QED
    BY <1>5, <2>1, <2>2
<1>10. Alive(qs, left) /\ Alive(qs, right) /\ ~qs[right].is_root /\ qs[right].parent = root /\ level2[right] = level[root]
  BY <1>3, <1>4, <1>5, <1>6 DEF Alive
<1>11. ASSUME NEW p \in DOMAIN qs, NEW c \in Kids(qs, p)
       PROVE  Alive(qs, c) /\ ~qs[c].is_root /\ level2[p] = level2[c] + 1 /\ qs[c].parent = p
  <2>1. CASE p = root
    BY <1>4, <1>5, <1>10, <1>11, <2>1
  <2>2. CASE p = left
    <3>1. c \in Kids(ps, root)
      BY <1>7, <1>11, <2>2
    <3> QED
      BY <1>3, <1>4, <1>6, <1>8, <2>2, <3>1
  <2>3. CASE p # root /\ p # left
    <3>1. p \in DOMAIN ps /\ c \in Kids(ps, p)
      BY <1>5, <1>7, <1>11, <2>3
    <3>2. c \notin Kids(ps, root)
      BY <1>3, <1>8, <2>3, <3>1
    <3> QED
      BY <1>4, <1>6, <1>8, <2>3, <3>1, <3>2
  <2> QED
    BY <2>1, <2>2, <2>3
<1>12. Descends(qs, level2)
  <2>1. PICK top \in Nat : level \in [DOMAIN ps -> 0..top]
    BY <1>1 DEF Descends
  <2>2. level2 \in [DOMAIN qs -> 0..(top + 1)] /\ top + 1 \in Nat
    <3>1. \A p \in DOMAIN ps : level[p] \in 0..top /\ level[p] \in 0..(top + 1) /\ level[p] + 1 \in 0..(top + 1)
      BY <2>1
    <3> QED
      BY <1>a, <1>3, <1>5, <2>1, <3>1 DEF LevelAbove
  <2>3. ASSUME NEW p \in DOMAIN qs, qs[p].type = "leaf" PROVE level2[p] = 0
    <3>1. p # root
      BY <1>5, <2>3
    <3>2. CASE p = left
      BY <1>1, <1>3, <1>4, <1>5, <2>3, <3>2 DEF Descends
    <3>3. CASE p # left
      <4>1. p \in DOMAIN ps /\ ps[p].type = "leaf" /\ level2[p] = level[p]
        BY <1>4, <1>5, <1>6, <2>3, <3>1, <3>3
      <4> QED
        BY <1>1, <4>1 DEF Descends
    <3> QED
      BY <3>2, <3>3
  <2> QED
    BY <1>5, <1>9, <1>11, <2>2, <2>3 DEF Descends
<1>13. ASSUME NEW p \in DOMAIN qs, Alive(qs, p), ~qs[p].is_root
       PROVE  qs[p].parent \in DOMAIN qs /\ p \in Kids(qs, qs[p].parent)
  <2>1. CASE p = left \/ p = right
    BY <1>3, <1>5, <1>10, <2>1
  <2>2. CASE p # left /\ p # right
    <3>1. p # root /\ p \in DOMAIN ps /\ Alive(ps, p) /\ ~ps[p].is_root /\ p \notin {right}
      BY <1>5, <1>6, <1>13, <2>2 DEF Alive
    <3>a. PICK r : r = ps[p].parent
      OBVIOUS
    <3>2. r \in DOMAIN ps /\ p \in Kids(ps, r) /\ Inner(ps, r)
      BY <3>a, <1>1, <3>1, ParentIs DEF Inner
    <3>3. r # left
      BY <1>2, <3>2 DEF Inner, Alive
    <3>4. CASE p \in Kids(ps, root)
      BY <1>5, <1>6, <1>7, <2>2, <3>1, <3>4
    <3>5. CASE p \notin Kids(ps, root)
      <4>1. qs[p].parent = r /\ r # root
        BY <3>a, <1>6, <2>2, <3>1, <3>2, <3>5
      <4> QED
        BY <1>5, <1>7, <3>2, <3>3, <4>1
    <3> QED
      BY <3>4, <3>5
  <2> QED
    BY <2>1, <2>2
<1>14. Shape(qs, level2, {})
  <2>1. \A p \in DOMAIN qs : qs[p].is_root => Alive(qs, p)
    BY <1>1, <1>5, <1>6 DEF Shape, Alive
  <2> QED
    BY <1>11, <1>12, <1>13, <2>1 DEF Shape
<1>15. FreeChain(qs, rest)
  <2>1. \A p \in DOMAIN ps \ {left} : /\ ps[p].type = "free" <=> qs[p].type = "free"
                                      /\ ps[p].type = "free" => qs[p].next = ps[p].next
    BY <1>3, <1>5, <1>6
  <2>2. qs[left].type # "free"
    BY <1>3, <1>5
  <2> QED
    BY <1>1, <1>2, <1>5, <2>1, <2>2, PageTaken
<1>16. Filled(qs, m, {})
  <2>1. ASSUME NEW p \in DOMAIN ps, p # root, p # left PROVE Fits(qs[p], m, 0) /\ Fits(qs[p], m, 1)
    <3>1. Fits(ps[p], m, 1) /\ Fits(ps[p], m, 0)
      BY <1>1 DEF Filled
    <3> QED
      BY <1>6, <2>1, <3>1 DEF Fits
  <2>2. Fits(qs[root], m, 0) /\ Fits(qs[root], m, 1)
    BY <1>1, <1>5 DEF Fits
  <2>3. Fits(qs[left], m, 0) /\ Fits(qs[left], m, 1)
    <3>1. Fits(ps[root], m, 0) /\ Len(ps[root].keys) \in Nat
      BY <1>1, <1>3, PageIs DEF Filled
    <3>2. LeafMinCells \in Nat /\ InternalMinKeys(m) \in Nat
      BY <1>1, LeafMinima, InnerMinima
    <3>3. /\ ps[root].type = "leaf" => Len(ps[root].keys) >= LeafMinCells /\ Len(ps[root].keys) <= LeafMaxCells
          /\ ps[root].type = "internal" => Len(ps[root].keys) >= InternalMinKeys(m) /\ Len(ps[root].keys) <= m
      BY <3>1 DEF Fits, Enough
    <3>4. \A n, k \in Nat : n >= k => n + 0 >= k /\ n + 1 >= k
      OBVIOUS
    <3> QED
      BY <1>5, <3>1, <3>2, <3>3, <3>4 DEF Fits
  <2> QED
    BY <1>5, <2>1, <2>2, <2>3 DEF Filled
<1>17. rs = {p \in DOMAIN qs : qs[p].is_root}
  <2>1. left \in DOMAIN ps => ~ps[left].is_root
    BY <1>1, <1>2 DEF Shape
  <2> QED
    BY <1>1, <1>5, <1>6, <2>1
<1> QED
  BY <1>a, <1>1, <1>14, <1>15, <1>16, <1>17 DEF Tree

\* The separator of the new root is read while both the root and its copy hold
\* the root's old contents.
Copied(ps, qs, root, left) ==
  /\ qs \in Seq(Record) /\ DOMAIN qs = DOMAIN ps \cup {left}
  /\ qs[left].type = ps[root].type /\ ~qs[left].is_root
  /\ qs[left].keys = ps[root].keys /\ qs[left].children = ps[root].children
  /\ \A p \in DOMAIN ps \ {left} :
       /\ qs[p].type = ps[p].type /\ qs[p].is_root = ps[p].is_root
       /\ qs[p].keys = ps[p].keys /\ qs[p].children = ps[p].children

LEMMA CopyDescends ==
  ASSUME NEW ps, NEW level, Descends(ps, level), LeavesHoldKeys(ps), NEW root, NEW left, NEW qs,
         Alive(ps, root), ps[root].type = "leaf" => Len(ps[root].keys) # 0, ~Alive(ps, left),
         Copied(ps, qs, root, left)
  PROVE  Descends(qs, LevelWith(ps, level, root, left)) /\ LeavesHoldKeys(qs) /\ Alive(qs, left)
<1>a. PICK level2 : level2 = LevelWith(ps, level, root, left)
  OBVIOUS
<1>1. root \in DOMAIN ps /\ root # left
  BY DEF Alive
<1>2. level2[left] = level[root] /\ \A p \in DOMAIN ps : p # left => level2[p] = level[p]
  BY <1>a DEF LevelWith
<1>3. /\ qs \in Seq(Record) /\ DOMAIN qs = DOMAIN ps \cup {left}
      /\ qs[left].type = ps[root].type /\ ~qs[left].is_root
      /\ qs[left].keys = ps[root].keys /\ qs[left].children = ps[root].children
      /\ \A p \in DOMAIN ps : p # left =>
           /\ qs[p].type = ps[p].type /\ qs[p].is_root = ps[p].is_root
           /\ qs[p].keys = ps[p].keys /\ qs[p].children = ps[p].children
  BY DEF Copied
<1>4. ASSUME NEW p \in DOMAIN qs
      PROVE  \E q \in DOMAIN ps : /\ qs[p].type = ps[q].type /\ qs[p].keys = ps[q].keys
                                  /\ qs[p].children = ps[q].children /\ level2[p] = level[q]
  BY <1>1, <1>2, <1>3
<1>5. Descends(qs, level2)
  <2>1. PICK top \in Nat : level \in [DOMAIN ps -> 0..top]
    BY DEF Descends
  <2>2. level2 \in [DOMAIN qs -> 0..top]
    BY <1>a, <1>1, <1>3, <2>1 DEF LevelWith
  <2>3. ASSUME NEW p \in DOMAIN qs
        PROVE  /\ ChildrenCounted(qs[p])
               /\ qs[p].type = "leaf" => level2[p] = 0
               /\ \A c \in Kids(qs, p) : Alive(qs, c) /\ ~qs[c].is_root /\ level2[p] = level2[c] + 1
    <3>1. PICK q \in DOMAIN ps : /\ qs[p].type = ps[q].type /\ qs[p].keys = ps[q].keys
                                 /\ qs[p].children = ps[q].children /\ level2[p] = level[q]
      BY <1>4
    <3>2. ChildrenCounted(ps[q]) /\ (ps[q].type = "leaf" => level[q] = 0)
      BY DEF Descends
    <3>3. ASSUME NEW c \in Kids(ps, q)
          PROVE  Alive(qs, c) /\ ~qs[c].is_root /\ level[q] = level2[c] + 1
      <4>1. Alive(ps, c) /\ ~ps[c].is_root /\ level[q] = level[c] + 1
        BY DEF Descends
      <4>2. c \in DOMAIN ps /\ c # left
        BY <4>1 DEF Alive
      <4> QED
        BY <1>2, <1>3, <4>1, <4>2 DEF Alive
    <3>4. Kids(qs, p) = Kids(ps, q)
      BY <3>1 DEF Kids
    <3>5. ChildrenCounted(qs[p])
      BY <3>1, <3>2 DEF ChildrenCounted
    <3> QED
      BY <3>1, <3>2, <3>3, <3>4, <3>5
  <2> QED
    BY <1>3, <2>2, <2>3 DEF Descends
<1>6. LeavesHoldKeys(qs)
  <2> SUFFICES ASSUME NEW p \in DOMAIN qs, qs[p].type = "leaf", ~qs[p].is_root PROVE Len(qs[p].keys) # 0
    BY DEF LeavesHoldKeys
  <2>1. CASE p = left
    BY <1>3, <2>1
  <2>2. CASE p # left
    BY <1>3, <2>2 DEF LeavesHoldKeys
  <2> QED
    BY <2>1, <2>2
<1>7. Alive(qs, left)
  BY <1>3 DEF Alive
<1> QED
  BY <1>a, <1>5, <1>6, <1>7

LEMMA CopyHasMax ==
  ASSUME NEW ps, NEW level, Descends(ps, level), LeavesHoldKeys(ps), NEW root, NEW left, NEW qs,
         Alive(ps, root), ps[root].type = "leaf" => Len(ps[root].keys) # 0, ~Alive(ps, left),
         Copied(ps, qs, root, left)
  PROVE  MaxKey(qs, left) \in Nat
BY CopyDescends, MaxKeyIsKey DEF Copied

RootOver(node, a, b) ==
  /\ node \in Record /\ node.type = "internal" /\ node.is_root /\ Len(node.keys) = 1
  /\ ChildrenCounted(node) /\ ToSet(node.children) = {a, b}

LEMMA TwoChildren ==
  ASSUME NEW k \in Nat, NEW a \in Nat, NEW b \in Nat, a # b
  PROVE  RootOver(Internal(TRUE, NoPage, <<k>>, <<a, b>>), a, b)
<1>a. PICK node : node = Internal(TRUE, NoPage, <<k>>, <<a, b>>)
  OBVIOUS
<1>1. /\ <<k>> \in Seq(Nat) /\ Len(<<k>>) = 1 /\ <<a, b>> \in Seq(Nat) /\ Len(<<a, b>>) = 2
      /\ DOMAIN <<a, b>> = {1, 2} /\ <<a, b>>[1] = a /\ <<a, b>>[2] = b
  OBVIOUS
<1>2. IsInjective(<<a, b>>) /\ ToSet(<<a, b>>) = {a, b}
  BY <1>1 DEF IsInjective, ToSet
<1>3. /\ node.type = "internal" /\ node.is_root = TRUE /\ node.keys = <<k>> /\ node.children = <<a, b>>
      /\ node \in Record
  BY <1>a, <1>1 DEF Internal, Record, NoPage
<1>4. Len(node.keys) = 1 /\ Len(node.children) = 1 + 1
  BY <1>1, <1>3
<1>5. ChildrenCounted(node) /\ ToSet(node.children) = {a, b}
  BY <1>2, <1>3, <1>4 DEF ChildrenCounted
<1>6. RootOver(node, a, b)
  BY <1>3, <1>4, <1>5 DEF RootOver
<1> QED
  BY <1>a, <1>6

\* What create_new_root writes: the root's old contents go to `left`, and the new
\* separator `k` is the largest key below `left`, found in `ps`.
RootGrows(level, root, right, left, ps, k) ==
  /\ root = Top.page /\ right = Top.child /\ Pending("attach_sibling") /\ pages[root].is_root
  /\ stack' = <<>> /\ UNCHANGED <<roots, max_keys>>
  /\ Alive(pages, root) /\ Alive(pages, right) /\ right # root /\ level[right] = level[root]
  /\ Enough(pages[root], max_keys) /\ root \in DOMAIN pages /\ right \in DOMAIN pages
  /\ pages[root].type = "leaf" => Len(pages[root].keys) # 0
  /\ Allocated(pages, free_head, left, free_head')
  /\ left \in Nat /\ ~Alive(pages, left) /\ left # root /\ left # right
  /\ Copied(pages, ps, root, left) /\ k = MaxKey(ps, left) /\ k \in Nat
  /\ pages' \in Seq(Record) /\ DOMAIN pages' = DOMAIN pages \cup {left}
  /\ pages'[root] = Internal(TRUE, NoPage, <<k>>, <<left, right>>)
  /\ Raised(pages, pages', root, left, right) /\ pages'[left].next = pages[root].next

LEMMA CreateNewRootIs ==
  ASSUME NEW level, NEW loose, NEW short, Sound(level, loose, short), CreateNewRoot
  PROVE  \E root, right, left, ps, k : RootGrows(level, root, right, left, ps, k)
<1>a. PICK root, right, left, copy, kids :
        /\ root = Top.page /\ right = Top.child /\ left = NextPage
        /\ copy = [pages[root] EXCEPT !.is_root = FALSE, !.parent = root] /\ kids = pages[root].children
  OBVIOUS
<1>b. PICK p2, p3 : p2 = Put(pages, left, copy) /\ p3 = Reparent(p2, kids, left)
  OBVIOUS
<1>c. PICK top : top = Internal(TRUE, NoPage, <<MaxKey(p3, left)>>, <<left, right>>)
  OBVIOUS
<1>2. /\ Pending("attach_sibling") /\ pages[root].is_root
      /\ Return /\ TakePage /\ UNCHANGED <<roots, max_keys>>
  BY <1>a DEF CreateNewRoot
<1>3. /\ AttachCall(Top, pages, max_keys, level) /\ loose = {right} /\ short = {} /\ stack' = <<>>
  BY <1>a, <1>2, AttachOnTop
<1>4. /\ Alive(pages, root) /\ Alive(pages, right) /\ right # root /\ level[right] = level[root]
      /\ Enough(pages[root], max_keys)
  BY <1>a, <1>3 DEF AttachCall
<1>5. /\ Tree(pages, free_head, max_keys, roots, level, {right}, {})
      /\ pages \in Seq(Record) /\ Shape(pages, level, loose) /\ Descends(pages, level)
      /\ FreeChain(pages, free_head) /\ Filled(pages, max_keys, {})
      /\ DOMAIN pages = 1..Len(pages)
  BY <1>3, TreeTyped DEF Sound, Tree
<1>6. /\ root \in DOMAIN pages /\ right \in DOMAIN pages /\ root \in Nat /\ right \in Nat
      /\ pages[root] \in Record /\ Len(pages[root].keys) \in Nat
  BY <1>4, <1>5, PageIs DEF Alive
<1>7. Allocated(pages, free_head, left, free_head')
  BY <1>a, <1>2 DEF TakePage, NextPage, Allocated
<1>8. left \in 1..Len(pages) + 1 /\ left \in Nat /\ ~Alive(pages, left) /\ left # root /\ left # right
  BY <1>4, <1>5, <1>7, NewPage
<1>9. /\ copy \in Record /\ copy.type = pages[root].type /\ ~copy.is_root /\ copy.parent = root
      /\ copy.keys = pages[root].keys /\ copy.children = kids /\ copy.next = pages[root].next
  BY <1>a, <1>6 DEF Record
<1>10. pages' = Placed(p3, root, top, right)
  <2>1. pages' = [p3 EXCEPT ![root] = top, ![right].parent = root]
    BY <1>a, <1>b, <1>c, <1>9 DEF CreateNewRoot
  <2> QED
    BY <2>1 DEF Placed
<1>11. Stored(pages, p2, left, copy)
  BY <1>b, <1>5, <1>8, <1>9, PutIs
<1>12. HandedOver(p2, p3, ToSet(kids), left)
  BY <1>b, <1>8, <1>11, ReparentIs DEF Stored
<1>13. ToSet(kids) = Kids(pages, root) /\ root \notin ToSet(kids) /\ left \notin ToSet(kids) /\ right \notin ToSet(kids)
  <2>1. ToSet(kids) = Kids(pages, root)
    BY <1>a DEF Kids
  <2>2. \A c \in Kids(pages, root) : Alive(pages, c) /\ ~pages[c].is_root /\ c \notin loose
    BY <1>5, <1>6 DEF Shape, Descends
  <2> QED
    BY <1>2, <1>3, <1>8, <2>1, <2>2
<1>14. /\ p3 \in Seq(Record) /\ DOMAIN p3 = DOMAIN pages \cup {left}
       /\ Reparented(copy, p3[left], root)
       /\ \A p \in DOMAIN pages \ {left} :
            Reparented(pages[p], p3[p], IF p \in ToSet(kids) THEN left ELSE pages[p].parent)
  <2>1. /\ p2 \in Seq(Record) /\ DOMAIN p2 = DOMAIN pages \cup {left} /\ p2[left] = copy
        /\ \A p \in DOMAIN pages \ {left} : p2[p] = pages[p]
    BY <1>11 DEF Stored
  <2>2. p3 \in Seq(Record) /\ DOMAIN p3 = DOMAIN pages \cup {left}
    BY <1>12, <2>1 DEF HandedOver
  <2>3. left \in DOMAIN p2 /\ Reparented(p2[left], p3[left], p2[left].parent)
    BY <1>12, <1>13, <2>1 DEF HandedOver
  <2>4. ASSUME NEW p \in DOMAIN pages \ {left}
        PROVE  Reparented(p2[p], p3[p], IF p \in ToSet(kids) THEN left ELSE p2[p].parent)
    BY <1>12, <2>1 DEF HandedOver
  <2> QED
    BY <1>9, <2>1, <2>2, <2>3, <2>4
<1>15. MaxKey(p3, left) \in Nat /\ Copied(pages, p3, root, left) /\ (pages[root].type = "leaf" => Len(pages[root].keys) # 0)
  <2>1. Copied(pages, p3, root, left)
    <3>1. /\ p3[left].type = pages[root].type /\ ~p3[left].is_root
          /\ p3[left].keys = pages[root].keys /\ p3[left].children = pages[root].children
      BY <1>a, <1>9, <1>14 DEF Reparented
    <3>2. \A p \in DOMAIN pages \ {left} :
            /\ p3[p].type = pages[p].type /\ p3[p].is_root = pages[p].is_root
            /\ p3[p].keys = pages[p].keys /\ p3[p].children = pages[p].children
      BY <1>14 DEF Reparented
    <3> QED
      BY <1>14, <3>1, <3>2 DEF Copied
  <2>2. LeavesHoldKeys(pages)
    BY <1>5, HoldKeys
  <2>3. pages[root].type = "leaf" => Len(pages[root].keys) # 0
    BY <1>4, <1>6, LeafMinima DEF Enough
  <2> QED
    BY <1>4, <1>5, <1>8, <2>1, <2>2, <2>3, CopyHasMax
<1>16. /\ top \in Record /\ top.type = "internal" /\ top.is_root /\ Len(top.keys) = 1
       /\ ChildrenCounted(top) /\ ToSet(top.children) = {left, right}
  <2>1. MaxKey(p3, left) \in Nat
    BY <1>15
  <2> QED
    BY <1>c, <1>6, <1>8, <2>1, TwoChildren DEF RootOver
<1>17. /\ pages' \in Seq(Record) /\ DOMAIN pages' = DOMAIN pages \cup {left} /\ pages'[root] = top
       /\ pages'[right] = [p3[right] EXCEPT !.parent = root]
       /\ \A p \in DOMAIN p3 \ {root, right} : pages'[p] = p3[p]
  <2>1. root \in DOMAIN p3 /\ right \in DOMAIN p3 /\ right # root
    BY <1>4, <1>6, <1>14
  <2>2. PlacedAs(p3, pages', root, top, right)
    BY <1>10, <1>14, <1>16, <2>1, PlacedIs
  <2> QED
    BY <1>14, <2>2 DEF PlacedAs
<1>18. Raised(pages, pages', root, left, right) /\ pages'[left].next = pages[root].next
  <2>1. Kids(pages', root) = {left, right}
    BY <1>16, <1>17 DEF Kids
  <2>2. pages'[left] = p3[left] /\ Reparented(copy, pages'[left], root)
    BY <1>8, <1>14, <1>17
  <2>3. /\ pages'[left].type = pages[root].type /\ ~pages'[left].is_root /\ pages'[left].parent = root
        /\ pages'[left].keys = pages[root].keys /\ pages'[left].children = pages[root].children
        /\ pages'[left].next = pages[root].next
    BY <1>a, <1>9, <2>2 DEF Reparented
  <2>4. Reparented(pages[right], pages'[right], root)
    <3>1. p3[right] \in Record /\ Reparented(pages[right], p3[right], pages[right].parent)
      BY <1>6, <1>8, <1>13, <1>14, PageIs
    <3> QED
      BY <1>17, <3>1 DEF Record, Reparented
  <2>5. ASSUME NEW p \in DOMAIN pages \ {root, left}
        PROVE  Reparented(pages[p], pages'[p], IF p = right THEN root
                          ELSE IF p \in Kids(pages, root) THEN left ELSE pages[p].parent)
    <3>1. CASE p = right
      BY <2>4, <3>1
    <3>2. CASE p # right
      BY <1>13, <1>14, <1>17, <3>2
    <3> QED
      BY <3>1, <3>2
  <2> QED
    BY <1>16, <1>17, <2>1, <2>3, <2>5 DEF Raised
<1>19. RootGrows(level, root, right, left, p3, MaxKey(p3, left))
  BY <1>a, <1>c, <1>2, <1>3, <1>4, <1>6, <1>7, <1>8, <1>15, <1>17, <1>18, Zenon DEF RootGrows
<1> QED
  BY <1>19

LEMMA CreateNewRootKeepsTree ==
  ASSUME TreeInv, CreateNewRoot
  PROVE  TreeInv'
<1>1. PICK level, loose, short : Sound(level, loose, short)
  BY DEF TreeInv
<1>2. PICK root, right, left, ps, k : RootGrows(level, root, right, left, ps, k)
  BY <1>1, CreateNewRootIs
<1>3. /\ right = Top.child /\ Pending("attach_sibling") /\ pages[root].is_root
      /\ stack' = <<>> /\ UNCHANGED <<roots, max_keys>>
      /\ Alive(pages, root) /\ right # root /\ level[right] = level[root] /\ Enough(pages[root], max_keys)
      /\ Allocated(pages, free_head, left, free_head') /\ Raised(pages, pages', root, left, right)
  BY <1>2 DEF RootGrows
<1>4. Tree(pages, free_head, max_keys, roots, level, {right}, {})
  BY <1>1, <1>3, AttachOnTop DEF Sound
<1>5. PICK level2 : level2 = LevelAbove(pages, level, root, left)
  OBVIOUS
<1>6. Tree(pages', free_head', max_keys, roots, level2, {}, {})
  BY <1>3, <1>4, <1>5, RootRaised
<1>7. Sound(level2, {}, {})'
  BY <1>3, <1>6 DEF Sound, Work
<1> QED
  BY <1>7 DEF TreeInv

-----------------------------------------------------------------------------
\* Two siblings become one, and the page of the right one is freed.

Merged(ps, qs, head, parent, left, right) ==
  /\ qs \in Seq(Record) /\ DOMAIN qs = DOMAIN ps /\ qs[right] = FreePage(head)
  /\ qs[left].type = ps[left].type /\ qs[left].is_root = ps[left].is_root /\ qs[left].parent = ps[left].parent
  /\ ChildrenCounted(qs[left]) /\ Kids(qs, left) = Kids(ps, left) \cup Kids(ps, right)
  /\ qs[parent].type = "internal" /\ qs[parent].is_root = ps[parent].is_root
  /\ qs[parent].parent = ps[parent].parent
  /\ ChildrenCounted(qs[parent]) /\ Kids(qs, parent) = Kids(ps, parent) \ {right}
  /\ \A p \in DOMAIN ps \ {parent, left, right} :
       Reparented(ps[p], qs[p], IF p \in Kids(ps, right) THEN left ELSE ps[p].parent)

LEMMA NodeMerged ==
  ASSUME NEW ps, NEW head, NEW m, NEW rs, NEW level, NEW short,
         Tree(ps, head, m, rs, level, {}, short),
         NEW qs, NEW parent, NEW left \in Kids(ps, parent), NEW right \in Kids(ps, parent),
         left # right, short \subseteq {left, right}, Inner(ps, parent),
         Merged(ps, qs, head, parent, left, right),
         Fits(qs[left], m, 0), Fits(qs[left], m, 1), Fits(qs[parent], m, 1)
  PROVE  Tree(qs, right, m, rs, level, {}, {parent})
<1>1. /\ Shape(ps, level, {}) /\ Descends(ps, level) /\ ps \in Seq(Record)
      /\ FreeChain(ps, head) /\ Filled(ps, m, short) /\ m \in Nat /\ m >= 3
      /\ rs = {p \in DOMAIN ps : ps[p].is_root}
  BY DEF Tree, Shape, Descends
<1>2. parent \in DOMAIN ps /\ ps[parent].type = "internal"
  BY DEF Inner
<1>3. ASSUME NEW c \in Kids(ps, parent)
      PROVE  /\ Alive(ps, c) /\ c \in DOMAIN ps /\ ~ps[c].is_root /\ ps[c].parent = parent
             /\ level[c] \in Nat /\ level[parent] = level[c] + 1 /\ c # parent
  <2>1. Alive(ps, c) /\ ~ps[c].is_root /\ ps[c].parent = parent /\ level[parent] = level[c] + 1
    BY <1>1, <1>2 DEF Shape, Descends
  <2>2. level[c] \in Nat
    BY <1>1, <2>1, LevelTells
  <2> QED
    BY <2>1, <2>2 DEF Alive
<1>4. /\ Alive(ps, left) /\ left \in DOMAIN ps /\ ~ps[left].is_root /\ ps[left].parent = parent /\ left # parent
      /\ Alive(ps, right) /\ right \in DOMAIN ps /\ ~ps[right].is_root /\ ps[right].parent = parent /\ right # parent
      /\ level[left] = level[right] /\ level[right] \in Nat /\ level[parent] = level[right] + 1
  <2>1. level[left] \in Nat /\ level[right] \in Nat /\ level[parent] = level[left] + 1 /\ level[parent] = level[right] + 1
    BY <1>3
  <2> QED
    BY <1>3, <2>1
<1>5. \A c \in Kids(ps, right) : /\ ps[c].parent = right /\ Alive(ps, c) /\ level[right] = level[c] + 1
                                 /\ c # left /\ c # right /\ c # parent
  <2>1. ASSUME NEW c \in Kids(ps, right)
        PROVE  ps[c].parent = right /\ Alive(ps, c) /\ level[right] = level[c] + 1 /\ level[c] \in Nat
    <3>1. ps[c].parent = right /\ Alive(ps, c) /\ level[right] = level[c] + 1
      BY <1>1, <1>4 DEF Shape, Descends
    <3> QED
      BY <1>1, <3>1, LevelTells
  <2>2. ASSUME NEW c \in Kids(ps, right) PROVE c # left /\ c # right /\ c # parent
    BY <1>4, <2>1
  <2> QED
    BY <2>1, <2>2
<1>6. /\ qs \in Seq(Record) /\ DOMAIN qs = DOMAIN ps /\ qs[right] = FreePage(head)
      /\ ChildrenCounted(qs[left]) /\ Kids(qs, left) = Kids(ps, left) \cup Kids(ps, right)
      /\ ChildrenCounted(qs[parent]) /\ Kids(qs, parent) = Kids(ps, parent) \ {right}
  BY DEF Merged
<1>7. \A p \in DOMAIN ps : p # right =>
        /\ qs[p].type = ps[p].type /\ qs[p].is_root = ps[p].is_root
        /\ qs[p].parent = IF p \in Kids(ps, right) THEN left ELSE ps[p].parent
  BY <1>2, <1>4, <1>5 DEF Merged, Reparented
<1>8. \A p \in DOMAIN ps : p # right /\ p # left /\ p # parent =>
        /\ qs[p].keys = ps[p].keys /\ qs[p].children = ps[p].children /\ qs[p].next = ps[p].next
        /\ Kids(qs, p) = Kids(ps, p)
  BY DEF Merged, Reparented, Kids
<1>9. /\ qs[right].type = "free" /\ ~qs[right].is_root /\ qs[right].children = <<>> /\ Kids(qs, right) = {}
      /\ ChildrenCounted(qs[right])
  <2>1. qs[right].type = "free" /\ qs[right].is_root = FALSE /\ qs[right].children = <<>>
    BY <1>6 DEF FreePage
  <2>2. IsInjective(<<>>)
    BY DEF IsInjective
  <2> QED
    BY <2>1, <2>2 DEF Kids, ToSet, ChildrenCounted
<1>10. \A p : Alive(qs, p) <=> Alive(ps, p) /\ p # right
  BY <1>6, <1>7, <1>9 DEF Alive
<1>11. \A p \in DOMAIN qs : ChildrenCounted(qs[p])
  <2>1. ASSUME NEW p \in DOMAIN ps, p # right, p # left, p # parent PROVE ChildrenCounted(qs[p])
    <3>1. ChildrenCounted(ps[p])
      BY <1>1 DEF Descends
    <3> QED
      BY <1>7, <1>8, <2>1, <3>1 DEF ChildrenCounted
  <2> QED
    BY <1>6, <1>9, <2>1
<1>12. ASSUME NEW p \in DOMAIN qs, NEW c \in Kids(qs, p)
       PROVE  Alive(qs, c) /\ ~qs[c].is_root /\ level[p] = level[c] + 1 /\ qs[c].parent = p
  <2>1. p # right
    BY <1>9, <1>12
  <2>2. CASE c \in Kids(ps, right) /\ p = left
    <3>1. c \in DOMAIN ps /\ Alive(ps, c) /\ ~ps[c].is_root /\ c # right /\ level[right] = level[c] + 1
      BY <1>1, <1>4, <1>5, <2>2 DEF Descends, Alive
    <3> QED
      BY <1>4, <1>7, <1>10, <2>2, <3>1
  <2>3. CASE ~(c \in Kids(ps, right) /\ p = left)
    <3>1. p \in DOMAIN ps /\ c \in Kids(ps, p) /\ (p = parent => c # right)
      BY <1>6, <1>8, <1>12, <2>1, <2>3
    <3>2. Alive(ps, c) /\ c \in DOMAIN ps /\ ~ps[c].is_root /\ level[p] = level[c] + 1 /\ ps[c].parent = p
      BY <1>1, <3>1 DEF Shape, Descends, Alive
    <3>3. c # right
      BY <1>4, <3>1, <3>2
    <3>4. c \notin Kids(ps, right)
      BY <1>5, <2>1, <3>2
    <3> QED
      BY <1>7, <1>10, <3>2, <3>3, <3>4
  <2> QED
    BY <2>2, <2>3
<1>13. Descends(qs, level)
  <2>1. \A p \in DOMAIN qs : qs[p].type = "leaf" => level[p] = 0
    BY <1>1, <1>6, <1>7, <1>9 DEF Descends
  <2>2. \E top \in Nat : level \in [DOMAIN qs -> 0..top]
    BY <1>1, <1>6 DEF Descends
  <2> QED
    BY <1>6, <1>11, <1>12, <2>1, <2>2 DEF Descends
<1>14. ASSUME NEW p \in DOMAIN qs, Alive(qs, p), ~qs[p].is_root
       PROVE  qs[p].parent \in DOMAIN qs /\ p \in Kids(qs, qs[p].parent)
  <2>a. PICK r : r = ps[p].parent
    OBVIOUS
  <2>1. p \in DOMAIN ps /\ p # right /\ Alive(ps, p) /\ ~ps[p].is_root
    BY <1>6, <1>7, <1>10, <1>14
  <2>2. r \in DOMAIN ps /\ p \in Kids(ps, r)
    BY <2>a, <1>1, <2>1 DEF Shape
  <2>3. CASE p \in Kids(ps, right)
    BY <1>4, <1>6, <1>7, <2>1, <2>3
  <2>4. CASE p \notin Kids(ps, right)
    <3>1. qs[p].parent = r /\ r # right
      BY <2>a, <1>7, <2>1, <2>2, <2>4
    <3>2. p \in Kids(qs, r)
      BY <1>6, <1>8, <2>1, <2>2, <3>1
    <3> QED
      BY <1>6, <2>2, <3>1, <3>2
  <2> QED
    BY <2>3, <2>4
<1>15. Shape(qs, level, {})
  <2>1. \A p \in DOMAIN qs : qs[p].is_root => Alive(qs, p)
    BY <1>1, <1>6, <1>7, <1>9, <1>10 DEF Shape
  <2> QED
    BY <1>12, <1>13, <1>14, <2>1 DEF Shape
<1>16. FreeChain(qs, right)
  <2>1. \A p \in DOMAIN ps \ {right} : /\ ps[p].type = "free" <=> qs[p].type = "free"
                                       /\ ps[p].type = "free" => qs[p].next = ps[p].next
    BY <1>2, <1>4, <1>7, <1>8 DEF Alive
  <2>2. ps[right].type # "free"
    BY <1>4 DEF Alive
  <2> QED
    BY <1>1, <1>4, <1>6, <2>1, <2>2, PageFreed
<1>17. Filled(qs, m, {parent})
  <2>1. ASSUME NEW p \in DOMAIN ps, p # parent, p # left, p # right PROVE Fits(qs[p], m, 0) /\ Fits(qs[p], m, 1)
    <3>1. Fits(ps[p], m, 1) /\ Fits(ps[p], m, 0)
      BY <1>1, <2>1 DEF Filled
    <3> QED
      BY <1>7, <1>8, <2>1, <3>1 DEF Fits
  <2>2. Fits(qs[right], m, 0) /\ Fits(qs[right], m, 1)
    BY <1>9 DEF Fits
  <2> QED
    BY <1>6, <2>1, <2>2 DEF Filled
<1>18. rs = {p \in DOMAIN qs : qs[p].is_root}
  BY <1>1, <1>4, <1>6, <1>7, <1>9
<1> QED
  BY <1>1, <1>15, <1>16, <1>17, <1>18 DEF Tree

\* A node that has given up the child `gone` and a key.
Relieved(node, n, gone) ==
  /\ n \in Record /\ n.type = node.type /\ n.is_root = node.is_root /\ n.parent = node.parent
  /\ n.next = node.next
  /\ Len(n.keys) = Len(node.keys) - 1 /\ ChildrenCounted(n)
  /\ ToSet(n.children) = ToSet(node.children) \ {gone}

LEMMA ChildRemoved ==
  ASSUME NEW node \in Record, node.type = "internal", ChildrenCounted(node),
         NEW i \in 2..Len(node.keys) + 1
  PROVE  Relieved(node, WithoutChild(node, i), node.children[i])
<1>a. PICK ks, cs, j, n : /\ j = i - 1 /\ ks = RemoveAt(node.keys, j) /\ cs = RemoveAt(node.children, i)
                          /\ n = WithChildren(node, ks, cs)
  OBVIOUS
<1>1. /\ node.keys \in Seq(Nat) /\ node.children \in Seq(Nat) /\ Len(node.keys) \in Nat
      /\ Len(node.children) = Len(node.keys) + 1 /\ IsInjective(node.children)
  BY DEF Record, ChildrenCounted
<1>2. j \in 1..Len(node.keys) /\ i \in 1..Len(node.children)
  BY <1>a, <1>1
<1>3. Shrunk(Nat, ks, node.keys, node.keys[j]) /\ Shrunk(Nat, cs, node.children, node.children[i])
  BY <1>a, <1>1, <1>2, RemoveAtShrinks
<1>4. /\ ks \in Seq(Nat) /\ Len(ks) = Len(node.keys) - 1
      /\ cs \in Seq(Nat) /\ Len(cs) = Len(node.children) - 1 /\ IsInjective(cs)
      /\ ToSet(cs) = ToSet(node.children) \ {node.children[i]}
  BY <1>1, <1>3 DEF Shrunk
<1>5. n = WithoutChild(node, i)
  BY <1>a DEF WithoutChild, WithChildren
<1>6. Refilled(node, n, ks, cs)
  BY <1>a, <1>4, WithChildrenIs
<1>7. Len(cs) = Len(ks) + 1
  BY <1>1, <1>4
<1>8. Relieved(node, n, node.children[i])
  BY <1>4, <1>6, <1>7 DEF Relieved, Refilled, ChildrenCounted
<1> QED
  BY <1>5, <1>8

\* A merge: the right node's children are handed over, the left node takes what it had.
Merging(parent, left, right, at, ps, joined) ==
  /\ Pending("leaf_node_rebalance") \/ Pending("internal_node_rebalance")
  /\ \E minimum : SpareNone(minimum)
  /\ parent = Parent /\ at = MergeAt /\ left = Siblings[at] /\ right = Siblings[at + 1]
  /\ HandedOver(pages, ps, Kids(pages, right), left)
  /\ joined \in Record /\ joined.type = pages[left].type /\ joined.is_root = pages[left].is_root
  /\ joined.parent = pages[left].parent /\ ChildrenCounted(joined)
  /\ ToSet(joined.children) = Kids(pages, left) \cup Kids(pages, right)
  /\ Fits(joined, max_keys, 0) /\ Fits(joined, max_keys, 1)
  /\ pages' = [ps EXCEPT ![left] = joined, ![right] = FreePage(free_head),
                         ![parent] = WithoutChild(pages[parent], at + 1)]
  /\ free_head' = right /\ UNCHANGED <<roots, max_keys>>
  /\ Continue(<<Call("after_child_removed", parent, NoPage, 0)>>)

\* The pages it writes.
Merges(parent, left, right, at, ps, joined, rest, c) ==
  /\ c = Call("after_child_removed", parent, NoPage, 0) /\ stack' = <<c>>
  /\ Inner(pages, parent) /\ at \in 1..Len(pages[parent].keys) /\ Top.page \in {left, right}
  /\ left = pages[parent].children[at] /\ right = pages[parent].children[at + 1]
  /\ left \in DOMAIN pages /\ right \in DOMAIN pages /\ parent \in DOMAIN pages
  /\ left \in Kids(pages, parent) /\ right \in Kids(pages, parent)
  /\ left # right /\ left # parent /\ right # parent /\ Alive(pages, left) /\ Alive(pages, right)
  /\ rest = WithoutChild(pages[parent], at + 1) /\ Relieved(pages[parent], rest, right)
  /\ pages' \in Seq(Record) /\ DOMAIN pages' = DOMAIN pages
  /\ pages'[left] = joined /\ pages'[right] = FreePage(free_head) /\ pages'[parent] = rest
  /\ \A p \in DOMAIN pages \ {parent, left, right} : pages'[p] = ps[p]

LEMMA MergeIs ==
  ASSUME NEW level, NEW loose, NEW short, Sound(level, loose, short),
         NEW parent, NEW left, NEW right, NEW at, NEW ps, NEW joined, Merging(parent, left, right, at, ps, joined),
         NEW rest, rest = WithoutChild(pages[parent], at + 1),
         NEW c, c = Call("after_child_removed", parent, NoPage, 0)
  PROVE  Merges(parent, left, right, at, ps, joined, rest, c)
<1>0. /\ Pending("leaf_node_rebalance") \/ Pending("internal_node_rebalance")
      /\ parent = Parent /\ at = MergeAt /\ left = Siblings[at] /\ right = Siblings[at + 1]
      /\ HandedOver(pages, ps, Kids(pages, right), left) /\ joined \in Record
      /\ pages' = [ps EXCEPT ![left] = joined, ![right] = FreePage(free_head),
                             ![parent] = WithoutChild(pages[parent], at + 1)]
      /\ Continue(<<c>>)
  BY DEF Merging
<1>m. PICK minimum : SpareNone(minimum)
  BY DEF Merging
<1>b. rest = WithoutChild(pages[parent], at + 1)
  OBVIOUS
<1>1. loose = {} /\ short = {Top.page} /\ stack' = <<c>>
  <2>1. PICK fn \in {"leaf_node_rebalance", "internal_node_rebalance"} : Pending(fn)
    BY <1>0
  <2>2. loose = {} /\ short = {Top.page} /\ \A e : Continue(<<e>>) <=> stack' = <<e>>
    BY <2>1, RepairOnTop
  <2> QED
    BY <1>0, <2>2
<1>2. /\ pages \in Seq(Record) /\ Descends(pages, level) /\ DOMAIN pages = 1..Len(pages)
      /\ FreeChain(pages, free_head)
  BY <1>1, TreeTyped DEF Sound, Tree
<1>3. /\ Inner(pages, parent) /\ parent \in DOMAIN pages
      /\ Len(Siblings) = Len(pages[parent].keys) + 1 /\ Siblings = pages[parent].children
      /\ pages[parent] \in Record /\ Len(pages[parent].keys) \in Nat /\ ChildrenCounted(pages[parent])
      /\ pages[parent].type = "internal"
  BY <1>0, <1>2, SiblingsAre, PageIs DEF Inner, Siblings, Descends
<1>4. /\ at \in 1..Len(Siblings) - 1 /\ at \in 1..Len(Siblings) /\ at + 1 \in 1..Len(Siblings)
      /\ Top.page \in {left, right}
  BY <1>0, <1>m, PairIs
<1>5. /\ left \in Kids(pages, parent) /\ right \in Kids(pages, parent) /\ left # right
      /\ Alive(pages, left) /\ Alive(pages, right) /\ left # parent /\ right # parent
  BY <1>0, <1>4, SiblingIs
<1>6. left \in DOMAIN pages /\ right \in DOMAIN pages
  BY <1>5 DEF Alive
<1>7. Relieved(pages[parent], rest, right)
  <2>1. at + 1 \in 2..Len(pages[parent].keys) + 1
    BY <1>3, <1>4
  <2>2. PICK node, i : node = pages[parent] /\ i = at + 1
    OBVIOUS
  <2>3. /\ node \in Record /\ node.type = "internal" /\ ChildrenCounted(node)
        /\ i \in 2..Len(node.keys) + 1 /\ rest = WithoutChild(node, i) /\ node.children[i] = right
    BY <1>0, <1>b, <1>3, <2>1, <2>2
  <2>4. Relieved(node, rest, right)
    BY ONLY <2>3, ChildRemoved
  <2> QED
    BY <2>2, <2>4
<1>8. rest \in Record /\ FreePage(free_head) \in Record
  <2>1. free_head \in Nat
    BY <1>2, FreeHead DEF NoPage
  <2> QED
    BY <1>7, <2>1 DEF Relieved, FreePage, Record, NoPage
<1>9. /\ pages' \in Seq(Record) /\ DOMAIN pages' = DOMAIN pages
      /\ pages'[left] = joined /\ pages'[right] = FreePage(free_head) /\ pages'[parent] = rest
      /\ \A p \in DOMAIN pages \ {parent, left, right} : pages'[p] = ps[p]
  <2>0. PICK gone : gone = FreePage(free_head)
    OBVIOUS
  <2>a. PICK p1, p2, p3 : /\ p1 = [ps EXCEPT ![left] = joined] /\ p2 = [p1 EXCEPT ![right] = gone]
                          /\ p3 = [p2 EXCEPT ![parent] = rest]
    OBVIOUS
  <2>1. ps \in Seq(Record) /\ DOMAIN ps = DOMAIN pages /\ left \in DOMAIN ps
    BY <1>0, <1>6 DEF HandedOver
  <2>2. p1 \in Seq(Record) /\ DOMAIN p1 = DOMAIN pages
    BY <1>0, <2>1, <2>a, ExceptSeq
  <2>3. p2 \in Seq(Record) /\ DOMAIN p2 = DOMAIN pages
    BY <2>0, <2>2, <2>a, <1>6, <1>8, ExceptSeq
  <2>4. p3 \in Seq(Record) /\ DOMAIN p3 = DOMAIN pages
    BY <2>3, <2>a, <1>3, <1>8, ExceptSeq
  <2>5. pages' = p3
    BY <1>0, <2>0, <2>a, <1>b
  <2>6. /\ p3[left] = joined /\ p3[right] = gone /\ p3[parent] = rest
        /\ \A p \in DOMAIN pages \ {parent, left, right} : p3[p] = ps[p]
    BY <2>1, <2>2, <2>3, <2>a, <1>3, <1>5, <1>6
  <2> QED
    BY <2>0, <2>4, <2>5, <2>6
<1>10. at \in 1..Len(pages[parent].keys)
  BY <1>3, <1>4
<1> QED
  BY <1>0, <1>1, <1>3, <1>4, <1>5, <1>6, <1>7, <1>9, <1>10 DEF Merges

LEMMA MergeKeepsTree ==
  ASSUME NEW level, NEW loose, NEW short, Sound(level, loose, short),
         NEW parent, NEW left, NEW right, NEW at, NEW ps, NEW joined, Merging(parent, left, right, at, ps, joined)
  PROVE  TreeInv'
<1>a. PICK c, rest : /\ c = Call("after_child_removed", parent, NoPage, 0)
                     /\ rest = WithoutChild(pages[parent], at + 1)
  OBVIOUS
<1>b. Merges(parent, left, right, at, ps, joined, rest, c)
  BY <1>a, MergeIs
<1>0. /\ HandedOver(pages, ps, Kids(pages, right), left)
      /\ joined \in Record /\ joined.type = pages[left].type /\ joined.is_root = pages[left].is_root
      /\ joined.parent = pages[left].parent /\ ChildrenCounted(joined)
      /\ ToSet(joined.children) = Kids(pages, left) \cup Kids(pages, right)
      /\ Fits(joined, max_keys, 0) /\ Fits(joined, max_keys, 1)
      /\ free_head' = right /\ UNCHANGED <<roots, max_keys>>
  BY DEF Merging
<1>1. loose = {} /\ short = {Top.page} /\ stack' = <<c>>
  <2>1. PICK fn \in {"leaf_node_rebalance", "internal_node_rebalance"} : Pending(fn)
    BY DEF Merging
  <2> QED
    BY <1>b, <2>1, RepairOnTop DEF Merges
<1>2. /\ Tree(pages, free_head, max_keys, roots, level, {}, short)
      /\ pages \in Seq(Record) /\ Descends(pages, level) /\ FreeChain(pages, free_head)
      /\ max_keys \in Nat /\ max_keys >= 3
  BY <1>1, TreeTyped DEF Sound, Tree
<1>3. /\ Inner(pages, parent) /\ parent \in DOMAIN pages /\ pages[parent] \in Record
      /\ Len(pages[parent].keys) \in Nat /\ pages[parent].type = "internal"
      /\ Fits(pages[parent], max_keys, 0) /\ Top.page \in {left, right}
  <2>1. Inner(pages, parent) /\ parent = Parent /\ (Pending("leaf_node_rebalance") \/ Pending("internal_node_rebalance"))
        /\ parent \in DOMAIN pages /\ Top.page \in {left, right}
    BY <1>b DEF Merging, Merges
  <2> QED
    BY <1>2, <2>1, SiblingsAre, PageIs DEF Inner
<1>5. /\ left \in Kids(pages, parent) /\ right \in Kids(pages, parent) /\ left # right
      /\ Alive(pages, left) /\ Alive(pages, right) /\ left # parent /\ right # parent
      /\ left \in DOMAIN pages /\ right \in DOMAIN pages
  BY <1>b DEF Merges
<1>7. Relieved(pages[parent], rest, right)
  BY <1>b DEF Merges
<1>9. /\ pages' \in Seq(Record) /\ DOMAIN pages' = DOMAIN pages
      /\ pages'[left] = joined /\ pages'[right] = FreePage(free_head) /\ pages'[parent] = rest
      /\ \A p \in DOMAIN pages \ {parent, left, right} : pages'[p] = ps[p]
  BY <1>b DEF Merges
<1>10. Merged(pages, pages', free_head, parent, left, right)
  <2>1. Kids(pages', left) = Kids(pages, left) \cup Kids(pages, right) /\ ChildrenCounted(pages'[left])
    BY <1>0, <1>9 DEF Kids
  <2>2. Kids(pages', parent) = Kids(pages, parent) \ {right} /\ ChildrenCounted(pages'[parent])
    BY <1>7, <1>9 DEF Kids, Relieved
  <2>3. \A p \in DOMAIN pages \ {parent, left, right} :
          Reparented(pages[p], pages'[p], IF p \in Kids(pages, right) THEN left ELSE pages[p].parent)
    BY <1>0, <1>9 DEF HandedOver
  <2>4. /\ pages'[left].type = pages[left].type /\ pages'[left].is_root = pages[left].is_root
        /\ pages'[left].parent = pages[left].parent
    BY <1>0, <1>9
  <2>5. /\ pages'[parent].type = "internal" /\ pages'[parent].is_root = pages[parent].is_root
        /\ pages'[parent].parent = pages[parent].parent
    BY <1>3, <1>7, <1>9 DEF Relieved
  <2> QED
    BY <1>0, <1>9, <2>1, <2>2, <2>3, <2>4, <2>5 DEF Merged
<1>11. Fits(pages'[parent], max_keys, 1)
  <2>a. PICK n, k, low : /\ n = Len(pages[parent].keys) /\ k = Len(pages'[parent].keys)
                         /\ low = IF pages[parent].is_root THEN 1 ELSE InternalMinKeys(max_keys)
    OBVIOUS
  <2>1. /\ n <= max_keys /\ n + 0 >= low /\ k = n - 1 /\ n \in Nat
        /\ pages'[parent].type = "internal" /\ pages'[parent].is_root = pages[parent].is_root
    BY <2>a, <1>3, <1>7, <1>9 DEF Fits, Relieved
  <2>2. InternalMinKeys(max_keys) \in Nat
    BY <1>2, InnerMinima
  <2>3. low \in Nat
    BY <2>a, <2>2
  <2>4. k <= max_keys /\ k + 1 >= low
    BY <1>2, <2>1, <2>3
  <2> QED
    BY <2>a, <2>1, <2>4 DEF Fits
<1>12. Tree(pages', right, max_keys, roots, level, {}, {parent})
  <2>1. short \subseteq {left, right}
    BY <1>1, <1>3
  <2>2. Fits(pages'[left], max_keys, 0) /\ Fits(pages'[left], max_keys, 1)
    BY <1>0, <1>9
  <2> QED
    BY <1>0, <1>2, <1>3, <1>5, <1>10, <1>11, <2>1, <2>2, NodeMerged
<1>13. RepairCall(c, pages', max_keys) /\ c.page = parent
  <2>1. c.fn = "after_child_removed" /\ c.page = parent /\ c.child = NoPage
    BY <1>a DEF Call
  <2>2. Inner(pages', parent)
    BY <1>3, <1>7, <1>9 DEF Relieved, Inner
  <2> QED
    BY <2>1, <2>2 DEF RepairCall
<1>14. Sound(level, {}, {parent})'
  BY <1>0, <1>1, <1>12, <1>13 DEF Sound, Work, OneCall
<1> QED
  BY <1>14 DEF TreeInv

\* The two nodes of a merge hold one key less than twice the minimum.
LEMMA PairCounts ==
  ASSUME NEW level, NEW loose, NEW short, Sound(level, loose, short),
         Pending("leaf_node_rebalance") \/ Pending("internal_node_rebalance"),
         NEW minimum \in Nat, SpareNone(minimum), minimum >= 1,
         Len(pages[Top.page].keys) = minimum - 1,
         \A p \in DOMAIN pages : p # Top.page /\ pages[p].type = pages[Top.page].type /\ ~pages[p].is_root =>
           Len(pages[p].keys) >= minimum
  PROVE  Len(pages[Siblings[MergeAt]].keys) + Len(pages[Siblings[MergeAt + 1]].keys) = 2 * minimum - 1
<1>a. PICK at, left, right, page :
        at = MergeAt /\ left = Siblings[at] /\ right = Siblings[at + 1] /\ page = Top.page
  OBVIOUS
<1>1. /\ at \in 1..Len(Siblings) - 1 /\ at \in 1..Len(Siblings) /\ at + 1 \in 1..Len(Siblings)
      /\ \/ left = page /\ ~(Len(pages[right].keys) > minimum)
         \/ right = page /\ ~(Len(pages[left].keys) > minimum)
  BY <1>a, PairIs
<1>2. /\ Alive(pages, left) /\ ~pages[left].is_root /\ pages[left].type = pages[page].type
      /\ Alive(pages, right) /\ ~pages[right].is_root /\ pages[right].type = pages[page].type
      /\ left # right
  BY <1>a, <1>1, SiblingIs
<1>3. /\ left \in DOMAIN pages /\ right \in DOMAIN pages
      /\ Len(pages[left].keys) \in Nat /\ Len(pages[right].keys) \in Nat
  BY <1>2, PageIs, TreeTyped DEF Sound, Alive
<1>4. CASE left = page /\ ~(Len(pages[right].keys) > minimum)
  <2>1. Len(pages[right].keys) >= minimum /\ Len(pages[left].keys) = minimum - 1
    BY <1>a, <1>2, <1>3, <1>4
  <2>2. Len(pages[right].keys) = minimum
    BY <1>3, <1>4, <2>1
  <2> QED
    BY <1>a, <2>1, <2>2
<1>5. CASE right = page /\ ~(Len(pages[left].keys) > minimum)
  <2>1. Len(pages[left].keys) >= minimum /\ Len(pages[right].keys) = minimum - 1
    BY <1>a, <1>2, <1>3, <1>5
  <2>2. Len(pages[left].keys) = minimum
    BY <1>3, <1>5, <2>1
  <2> QED
    BY <1>a, <2>1, <2>2
<1> QED
  BY <1>1, <1>4, <1>5

LeavesMerge(parent, left, right, at, joined) ==
  /\ Merging(parent, left, right, at, pages, joined)
  /\ joined.type = "leaf" /\ pages[right].type = "leaf"
  /\ joined.keys = pages[left].keys \o pages[right].keys /\ joined.next = pages[right].next

LEMMA LeafMergeIs ==
  ASSUME NEW level, NEW loose, NEW short, Sound(level, loose, short), LeafMerge
  PROVE  \E parent, left, right, at, joined : LeavesMerge(parent, left, right, at, joined)
<1>1. Sound(level, loose, short)
  OBVIOUS
<1>a. PICK parent, left, right, at :
        parent = Parent /\ at = MergeAt /\ left = Siblings[at] /\ right = Siblings[at + 1]
  OBVIOUS
<1>b. PICK joined : joined = JoinLeaves(pages[left], pages[right])
  OBVIOUS
<1>2. /\ Pending("leaf_node_rebalance") /\ SpareNone(LeafMinCells)
      /\ pages' = [pages EXCEPT ![left] = joined, ![right] = FreePage(free_head),
                                ![parent] = WithoutChild(pages[parent], at + 1)]
      /\ free_head' = right /\ UNCHANGED <<roots, max_keys>>
      /\ Continue(<<Call("after_child_removed", parent, NoPage, 0)>>)
  BY <1>a, <1>b DEF LeafMerge
<1>3. RepairCall(Top, pages, max_keys) /\ Top.fn = "leaf_node_rebalance" /\ short = {Top.page}
  BY <1>1, <1>2, RepairOnTop
<1>4. pages[Top.page].type = "leaf" /\ Len(pages[Top.page].keys) = LeafMinCells - 1
  BY <1>3 DEF RepairCall
<1>5. /\ pages \in Seq(Record) /\ Descends(pages, level) /\ Filled(pages, max_keys, short) /\ max_keys \in Nat
  BY <1>1, TreeTyped DEF Sound, Tree
<1>6. at \in 1..Len(Siblings) /\ at + 1 \in 1..Len(Siblings)
  BY <1>a, <1>1, <1>2, PairIs
<1>7. /\ Alive(pages, left) /\ pages[left].type = "leaf" /\ ~pages[left].is_root
      /\ Alive(pages, right) /\ pages[right].type = "leaf" /\ ~pages[right].is_root
  BY <1>a, <1>1, <1>2, <1>4, <1>6, SiblingIs
<1>8. /\ left \in DOMAIN pages /\ right \in DOMAIN pages
      /\ pages[left] \in Record /\ pages[left].keys \in Seq(Nat) /\ Len(pages[left].keys) \in Nat
      /\ pages[right] \in Record /\ pages[right].keys \in Seq(Nat) /\ Len(pages[right].keys) \in Nat
      /\ pages[right].next \in Nat
  BY <1>5, <1>7, PageIs DEF Alive
<1>9. pages[left].children = <<>> /\ pages[right].children = <<>>
  BY <1>5, <1>7, <1>8 DEF Descends, ChildrenCounted
<1>c. PICK ks : ks = pages[left].keys \o pages[right].keys
  OBVIOUS
<1>10. ks \in Seq(Nat) /\ Len(ks) = Len(pages[left].keys) + Len(pages[right].keys)
  BY <1>8, <1>c, ConcatDistinct DEF Concatenated
<1>11. /\ joined \in Record /\ joined.type = "leaf" /\ joined.is_root = pages[left].is_root
       /\ joined.parent = pages[left].parent /\ joined.keys = ks /\ joined.children = <<>>
       /\ joined.next = pages[right].next
  <2>a. PICK node, next : node = pages[left] /\ next = pages[right].next
    OBVIOUS
  <2>1. joined = [node EXCEPT !.keys = ks, !.next = next]
    BY <2>a, <1>b, <1>c DEF JoinLeaves
  <2>2. node \in Record /\ next \in Nat
    BY <2>a, <1>8
  <2>3. /\ joined \in Record /\ joined.type = node.type /\ joined.is_root = node.is_root
        /\ joined.parent = node.parent /\ joined.keys = ks /\ joined.children = node.children
        /\ joined.next = next
    BY <2>1, <2>2, <1>10 DEF Record
  <2> QED
    BY <2>a, <2>3, <1>7, <1>9
<1>12. ChildrenCounted(joined) /\ ToSet(joined.children) = Kids(pages, left) \cup Kids(pages, right)
  <2>1. ToSet(<<>>) = {} /\ IsInjective(<<>>)
    BY DEF ToSet, IsInjective
  <2> QED
    BY <1>9, <1>11, <2>1 DEF ChildrenCounted, Kids
<1>13. HandedOver(pages, pages, Kids(pages, right), left)
  <2>1. Kids(pages, right) = {}
    BY <1>9 DEF Kids, ToSet
  <2> QED
    BY <1>5, <2>1 DEF HandedOver, Reparented
<1>14. Len(ks) = 2 * LeafMinCells - 1
  <2>1. ASSUME NEW p \in DOMAIN pages, p # Top.page, pages[p].type = pages[Top.page].type, ~pages[p].is_root
        PROVE  Len(pages[p].keys) >= LeafMinCells
    <3>1. Fits(pages[p], max_keys, 0) /\ Len(pages[p].keys) \in Nat
      BY <1>3, <1>5, <2>1, PageIs DEF Filled
    <3> QED
      BY <1>4, <2>1, <3>1 DEF Fits
  <2>2. LeafMinCells \in Nat /\ LeafMinCells >= 1
    BY LeafMinima
  <2> QED
    BY <1>a, <1>1, <1>2, <1>4, <1>10, <2>1, <2>2, PairCounts
<1>15. Fits(joined, max_keys, 0) /\ Fits(joined, max_keys, 1)
  <2>a. PICK n : n = Len(ks)
    OBVIOUS
  <2>1. n <= LeafMaxCells /\ n + 0 >= LeafMinCells /\ n + 1 >= LeafMinCells
    BY <2>a, <1>14, LeafMinima
  <2> QED
    BY <2>a, <2>1, <1>11 DEF Fits
<1>16. joined.type = pages[left].type
  BY <1>7, <1>11
<1>17. Merging(parent, left, right, at, pages, joined)
  BY <1>a, <1>2, <1>11, <1>12, <1>13, <1>15, <1>16 DEF Merging
<1>18. LeavesMerge(parent, left, right, at, joined)
  BY <1>7, <1>11, <1>c, <1>17 DEF LeavesMerge
<1> QED
  BY <1>18

LEMMA LeafMergeKeepsTree ==
  ASSUME TreeInv, LeafMerge
  PROVE  TreeInv'
<1>1. PICK level, loose, short : Sound(level, loose, short)
  BY DEF TreeInv
<1>2. PICK parent, left, right, at, joined : LeavesMerge(parent, left, right, at, joined)
  BY <1>1, LeafMergeIs
<1> QED
  BY <1>1, <1>2, MergeKeepsTree DEF LeavesMerge

InnersMerge(parent, left, right, at, ps, joined) ==
  /\ Merging(parent, left, right, at, ps, joined)
  /\ joined.type = "internal" /\ pages[right].type = "internal"
  /\ joined.keys = Append(pages[left].keys, pages[parent].keys[at]) \o pages[right].keys
  /\ joined.children = pages[left].children \o pages[right].children

LEMMA InternalMergeIs ==
  ASSUME NEW level, NEW loose, NEW short, Sound(level, loose, short), InternalMerge
  PROVE  \E parent, left, right, at, ps, joined : InnersMerge(parent, left, right, at, ps, joined)
<1>1. Sound(level, loose, short)
  OBVIOUS
<1>a. PICK parent, left, right, at :
        parent = Parent /\ at = MergeAt /\ left = Siblings[at] /\ right = Siblings[at + 1]
  OBVIOUS
<1>b. PICK separator, ps : separator = pages[parent].keys[at] /\ ps = Reparent(pages, pages[right].children, left)
  OBVIOUS
<1>c. PICK ks, cs, joined : /\ ks = Append(ps[left].keys, separator) \o pages[right].keys
                            /\ cs = ps[left].children \o pages[right].children
                            /\ joined = WithChildren(ps[left], ks, cs)
  OBVIOUS
<1>2. /\ Pending("internal_node_rebalance") /\ SpareNone(InternalMinKeys(max_keys))
      /\ pages' = [ps EXCEPT ![left] = joined, ![right] = FreePage(free_head),
                             ![parent] = WithoutChild(ps[parent], at + 1)]
      /\ free_head' = right /\ UNCHANGED <<roots, max_keys>>
      /\ Continue(<<Call("after_child_removed", parent, NoPage, 0)>>)
  BY <1>a, <1>b, <1>c DEF InternalMerge, WithChildren
<1>3. RepairCall(Top, pages, max_keys) /\ Top.fn = "internal_node_rebalance" /\ short = {Top.page}
  BY <1>1, <1>2, RepairOnTop
<1>4. pages[Top.page].type = "internal" /\ Len(pages[Top.page].keys) = InternalMinKeys(max_keys) - 1
  BY <1>3 DEF RepairCall, Inner
<1>5. /\ pages \in Seq(Record) /\ Descends(pages, level) /\ Shape(pages, level, loose)
      /\ Filled(pages, max_keys, short) /\ max_keys \in Nat /\ max_keys >= 3
  BY <1>1, TreeTyped DEF Sound, Tree
<1>6. at \in 1..Len(Siblings) - 1 /\ at \in 1..Len(Siblings) /\ at + 1 \in 1..Len(Siblings)
  BY <1>a, <1>1, <1>2, PairIs
<1>7. /\ Alive(pages, left) /\ pages[left].type = "internal" /\ ~pages[left].is_root /\ left \in Kids(pages, parent)
      /\ Alive(pages, right) /\ pages[right].type = "internal" /\ ~pages[right].is_root /\ right \in Kids(pages, parent)
      /\ left # right /\ pages[left].parent = parent /\ pages[right].parent = parent
      /\ level[left] = level[Top.page] /\ level[right] = level[Top.page] /\ level[left] \in Nat
      /\ level[parent] = level[left] + 1
  BY <1>a, <1>1, <1>2, <1>4, <1>6, SiblingIs
<1>8. /\ left \in DOMAIN pages /\ right \in DOMAIN pages /\ left \in Nat
      /\ pages[left] \in Record /\ pages[left].keys \in Seq(Nat) /\ Len(pages[left].keys) \in Nat
      /\ pages[left].children \in Seq(Nat)
      /\ pages[right] \in Record /\ pages[right].keys \in Seq(Nat) /\ Len(pages[right].keys) \in Nat
      /\ pages[right].children \in Seq(Nat)
  BY <1>5, <1>7, PageIs DEF Alive
<1>9. /\ Len(pages[left].children) = Len(pages[left].keys) + 1 /\ IsInjective(pages[left].children)
      /\ Len(pages[right].children) = Len(pages[right].keys) + 1 /\ IsInjective(pages[right].children)
  BY <1>5, <1>7, <1>8 DEF Descends, ChildrenCounted
<1>10. \A c \in Kids(pages, right) : level[right] = level[c] + 1 /\ pages[c].parent = right
  BY <1>5, <1>8 DEF Shape, Descends
<1>11. /\ left \notin Kids(pages, right) /\ parent \notin Kids(pages, right)
       /\ Kids(pages, left) \cap Kids(pages, right) = {}
  <2>1. \A c \in Kids(pages, left) : pages[c].parent = left
    BY <1>5, <1>8 DEF Shape
  <2> QED
    BY <1>7, <1>10, <2>1
<1>12. ps[left] = pages[left] /\ ps[parent] = pages[parent]
  <2>1. parent \in DOMAIN pages
    BY <1>a, <1>1, <1>2, SiblingsAre DEF Inner
  <2> QED
    BY <1>b, <1>8, <1>11, <2>1 DEF Reparent, Kids
<1>13. HandedOver(pages, ps, Kids(pages, right), left)
  BY <1>b, <1>5, <1>8, ReparentIs DEF Kids
<1>14. separator \in Nat
  <2>1. /\ Inner(pages, parent) /\ Len(Siblings) = Len(pages[parent].keys) + 1 /\ Len(Siblings) \in Nat
    BY <1>a, <1>1, <1>2, SiblingsAre
  <2>2. pages[parent].keys \in Seq(Nat) /\ Len(pages[parent].keys) \in Nat
    BY <1>5, <2>1, PageIs DEF Inner
  <2>3. at \in 1..Len(pages[parent].keys)
    BY <1>6, <2>1, <2>2
  <2> QED
    BY <1>b, <2>2, <2>3
<1>d. PICK first : first = Append(pages[left].keys, separator)
  OBVIOUS
<1>15. first \in Seq(Nat) /\ Len(first) = Len(pages[left].keys) + 1
  BY <1>d, <1>8, <1>14, AppendGrows DEF Enlarged
<1>16. ks \in Seq(Nat) /\ Len(ks) = Len(first) + Len(pages[right].keys)
  <2>1. ks = first \o pages[right].keys
    BY <1>c, <1>d, <1>12
  <2>2. Concatenated(Nat, first \o pages[right].keys, first, pages[right].keys)
    BY <1>8, <1>15, ConcatDistinct
  <2> QED
    BY <2>1, <2>2 DEF Concatenated
<1>17. /\ cs \in Seq(Nat) /\ Len(cs) = Len(pages[left].children) + Len(pages[right].children)
       /\ ToSet(cs) = Kids(pages, left) \cup Kids(pages, right) /\ IsInjective(cs)
  <2>1. cs = pages[left].children \o pages[right].children
    BY <1>c, <1>12
  <2>2. Concatenated(Nat, cs, pages[left].children, pages[right].children)
    BY <2>1, <1>8, ConcatDistinct
  <2> QED
    BY <1>9, <1>11, <2>2 DEF Concatenated, Kids
<1>18. Len(cs) = Len(ks) + 1
  <2>a. PICK a, b : a = Len(pages[left].keys) /\ b = Len(pages[right].keys)
    OBVIOUS
  <2>1. a \in Nat /\ b \in Nat /\ Len(cs) = (a + 1) + (b + 1)
    BY <2>a, <1>8, <1>9, <1>17
  <2>2. Len(ks) = (a + 1) + b
    BY <2>a, <1>15, <1>16
  <2> QED
    BY <2>1, <2>2
<1>19. Refilled(pages[left], joined, ks, cs)
  BY <1>c, <1>8, <1>12, <1>16, <1>17, WithChildrenIs
<1>20. /\ joined \in Record /\ joined.type = pages[left].type /\ joined.is_root = pages[left].is_root
       /\ joined.parent = pages[left].parent /\ joined.keys = ks /\ joined.children = cs
       /\ joined.type = "internal" /\ ~joined.is_root
  BY <1>7, <1>19 DEF Refilled
<1>21. ChildrenCounted(joined) /\ ToSet(joined.children) = Kids(pages, left) \cup Kids(pages, right)
  BY <1>17, <1>18, <1>20 DEF ChildrenCounted
<1>22. Len(ks) = 2 * InternalMinKeys(max_keys)
  <2>a. PICK low : low = InternalMinKeys(max_keys)
    OBVIOUS
  <2>1. low \in Nat /\ low >= 1
    BY <2>a, <1>5, InnerMinima
  <2>2. ASSUME NEW p \in DOMAIN pages, p # Top.page, pages[p].type = pages[Top.page].type, ~pages[p].is_root
        PROVE  Len(pages[p].keys) >= low
    <3>1. Fits(pages[p], max_keys, 0) /\ Len(pages[p].keys) \in Nat
      BY <1>3, <1>5, <2>2, PageIs DEF Filled
    <3> QED
      BY <2>a, <1>4, <2>1, <2>2, <3>1 DEF Fits
  <2>3. Len(pages[left].keys) + Len(pages[right].keys) = 2 * low - 1
    BY <2>a, <1>a, <1>1, <1>2, <1>4, <2>1, <2>2, PairCounts
  <2>b. PICK a, b : a = Len(pages[left].keys) /\ b = Len(pages[right].keys)
    OBVIOUS
  <2>4. a \in Nat /\ b \in Nat /\ a + b = 2 * low - 1
    BY <2>b, <1>8, <2>3
  <2>5. Len(ks) = (a + 1) + b
    BY <2>b, <1>15, <1>16
  <2>6. Len(ks) = 2 * low
    BY <2>1, <2>4, <2>5
  <2> QED
    BY <2>a, <2>6
<1>23. Fits(joined, max_keys, 0) /\ Fits(joined, max_keys, 1)
  <2>a. PICK n, low : n = Len(ks) /\ low = InternalMinKeys(max_keys)
    OBVIOUS
  <2>1. n <= max_keys /\ n + 0 >= low /\ n + 1 >= low
    BY <2>a, <1>5, <1>22, InnerMinima
  <2> QED
    BY <2>a, <2>1, <1>20 DEF Fits
<1>24. pages' = [ps EXCEPT ![left] = joined, ![right] = FreePage(free_head),
                           ![parent] = WithoutChild(pages[parent], at + 1)]
  BY <1>2, <1>12
<1>25. /\ Pending("internal_node_rebalance") /\ SpareNone(InternalMinKeys(max_keys))
       /\ free_head' = right /\ UNCHANGED <<roots, max_keys>>
       /\ Continue(<<Call("after_child_removed", parent, NoPage, 0)>>)
  BY <1>2
<1>26. /\ joined \in Record /\ joined.type = pages[left].type /\ joined.is_root = pages[left].is_root
       /\ joined.parent = pages[left].parent
  BY <1>20
<1>27. Merging(parent, left, right, at, ps, joined)
  BY <1>a, <1>25, <1>13, <1>26, <1>21, <1>23, <1>24 DEF Merging
<1>28. InnersMerge(parent, left, right, at, ps, joined)
  <2>1. ks = Append(pages[left].keys, pages[parent].keys[at]) \o pages[right].keys
    BY <1>b, <1>c, <1>12
  <2>2. cs = pages[left].children \o pages[right].children
    BY <1>c, <1>12
  <2> QED
    BY <1>7, <1>20, <1>27, <2>1, <2>2 DEF InnersMerge
<1> QED
  BY <1>28

LEMMA InternalMergeKeepsTree ==
  ASSUME TreeInv, InternalMerge
  PROVE  TreeInv'
<1>1. PICK level, loose, short : Sound(level, loose, short)
  BY DEF TreeInv
<1>2. PICK parent, left, right, at, ps, joined : InnersMerge(parent, left, right, at, ps, joined)
  BY <1>1, InternalMergeIs
<1> QED
  BY <1>1, <1>2, MergeKeepsTree DEF InnersMerge

-----------------------------------------------------------------------------
\* A child moves from one sibling to the other.

Shifted(ps, qs, from, to, moved) ==
  /\ qs \in Seq(Record) /\ DOMAIN qs = DOMAIN ps
  /\ \A p \in DOMAIN ps : /\ qs[p].type = ps[p].type /\ qs[p].is_root = ps[p].is_root /\ qs[p].next = ps[p].next
                          /\ qs[p].parent = IF p = moved THEN to ELSE ps[p].parent
  /\ \A p \in DOMAIN ps \ {from, to} :
       qs[p].children = ps[p].children /\ Len(qs[p].keys) = Len(ps[p].keys)
  /\ ChildrenCounted(qs[from]) /\ Kids(qs, from) = Kids(ps, from) \ {moved}
  /\ ChildrenCounted(qs[to]) /\ Kids(qs, to) = Kids(ps, to) \cup {moved}

LEMMA ChildShifted ==
  ASSUME NEW ps, NEW head, NEW m, NEW rs, NEW level, NEW from, NEW to, from # to,
         Tree(ps, head, m, rs, level, {}, {to}), Inner(ps, from), Inner(ps, to), level[from] = level[to],
         NEW moved \in Kids(ps, from), NEW qs, Shifted(ps, qs, from, to, moved),
         Fits(qs[from], m, 0), Fits(qs[from], m, 1), Fits(qs[to], m, 0), Fits(qs[to], m, 1)
  PROVE  Tree(qs, head, m, rs, level, {}, {})
<1>1. /\ Shape(ps, level, {}) /\ Descends(ps, level) /\ ps \in Seq(Record)
      /\ FreeChain(ps, head) /\ Filled(ps, m, {to}) /\ m \in Nat /\ m >= 3
      /\ rs = {p \in DOMAIN ps : ps[p].is_root}
  BY DEF Tree, Shape, Descends
<1>2. from \in DOMAIN ps /\ to \in DOMAIN ps
  BY DEF Inner
<1>3. Alive(ps, moved) /\ ~ps[moved].is_root /\ ps[moved].parent = from
  BY <1>1, <1>2 DEF Shape, Descends
<1>4. /\ qs \in Seq(Record) /\ DOMAIN qs = DOMAIN ps
      /\ ChildrenCounted(qs[from]) /\ Kids(qs, from) = Kids(ps, from) \ {moved}
      /\ ChildrenCounted(qs[to]) /\ Kids(qs, to) = Kids(ps, to) \cup {moved}
  BY DEF Shifted
<1>5. \A p \in DOMAIN ps : /\ qs[p].type = ps[p].type /\ qs[p].is_root = ps[p].is_root /\ qs[p].next = ps[p].next
                           /\ qs[p].parent = IF p = moved THEN to ELSE ps[p].parent
  BY DEF Shifted
<1>6. \A p \in DOMAIN ps : p # from /\ p # to =>
        qs[p].children = ps[p].children /\ Len(qs[p].keys) = Len(ps[p].keys) /\ Kids(qs, p) = Kids(ps, p)
  BY DEF Shifted, Kids
<1>7. \A p : Alive(qs, p) <=> Alive(ps, p)
  BY <1>4, <1>5 DEF Alive
<1>8. \A p \in DOMAIN qs : ChildrenCounted(qs[p])
  <2>1. ASSUME NEW p \in DOMAIN ps, p # from, p # to PROVE ChildrenCounted(qs[p])
    <3>1. ChildrenCounted(ps[p])
      BY <1>1 DEF Descends
    <3> QED
      BY <1>5, <1>6, <2>1, <3>1 DEF ChildrenCounted
  <2> QED
    BY <1>4, <2>1
<1>9. ASSUME NEW p \in DOMAIN qs, NEW c \in Kids(qs, p)
      PROVE  Alive(qs, c) /\ ~qs[c].is_root /\ level[p] = level[c] + 1 /\ qs[c].parent = p
  <2>1. CASE c = moved
    <3>1. p = to
      <4>1. ASSUME p # to PROVE FALSE
        <5>1. p # from /\ c \in Kids(ps, p)
          BY <1>4, <1>6, <1>9, <2>1, <4>1
        <5>2. ps[c].parent = p
          BY <1>1, <1>4, <5>1 DEF Shape
        <5> QED
          BY <1>3, <2>1, <5>1, <5>2
      <4> QED
        BY <4>1
    <3>2. moved \in DOMAIN ps /\ level[from] = level[moved] + 1
      BY <1>1, <1>2, <1>3 DEF Descends, Alive
    <3> QED
      BY <1>3, <1>5, <1>7, <2>1, <3>1, <3>2
  <2>2. CASE c # moved
    <3>1. p \in DOMAIN ps /\ c \in Kids(ps, p)
      BY <1>4, <1>6, <1>9, <2>2
    <3>2. Alive(ps, c) /\ c \in DOMAIN ps /\ ~ps[c].is_root /\ level[p] = level[c] + 1 /\ ps[c].parent = p
      BY <1>1, <3>1 DEF Shape, Descends, Alive
    <3> QED
      BY <1>5, <1>7, <2>2, <3>2
  <2> QED
    BY <2>1, <2>2
<1>10. Descends(qs, level)
  <2>1. \A p \in DOMAIN qs : qs[p].type = "leaf" => level[p] = 0
    BY <1>1, <1>4, <1>5 DEF Descends
  <2>2. \E top \in Nat : level \in [DOMAIN qs -> 0..top]
    BY <1>1, <1>4 DEF Descends
  <2> QED
    BY <1>4, <1>8, <1>9, <2>1, <2>2 DEF Descends
<1>11. ASSUME NEW p \in DOMAIN qs, Alive(qs, p), ~qs[p].is_root
       PROVE  qs[p].parent \in DOMAIN qs /\ p \in Kids(qs, qs[p].parent)
  <2>1. CASE p = moved
    BY <1>2, <1>4, <1>5, <2>1, <1>11
  <2>2. CASE p # moved
    <3>a. PICK r : r = ps[p].parent
      OBVIOUS
    <3>1. r \in DOMAIN ps /\ p \in Kids(ps, r) /\ qs[p].parent = r
      BY <3>a, <1>1, <1>4, <1>5, <1>7, <1>11, <2>2 DEF Shape
    <3>2. p \in Kids(qs, r)
      BY <1>4, <1>6, <2>2, <3>1
    <3> QED
      BY <1>4, <3>1, <3>2
  <2> QED
    BY <2>1, <2>2
<1>12. Shape(qs, level, {})
  <2>1. \A p \in DOMAIN qs : qs[p].is_root => Alive(qs, p)
    BY <1>1, <1>4, <1>5, <1>7 DEF Shape
  <2> QED
    BY <1>9, <1>10, <1>11, <2>1 DEF Shape
<1>13. FreeChain(qs, head)
  BY <1>1, <1>4, <1>5, FreeChainKept
<1>14. Filled(qs, m, {})
  <2>1. ASSUME NEW p \in DOMAIN ps, p # from, p # to PROVE Fits(qs[p], m, 0) /\ Fits(qs[p], m, 1)
    <3>1. Fits(ps[p], m, 1) /\ Fits(ps[p], m, 0)
      BY <1>1, <2>1 DEF Filled
    <3>2. /\ qs[p].type = ps[p].type /\ qs[p].is_root = ps[p].is_root
          /\ Len(qs[p].keys) = Len(ps[p].keys)
      BY <1>5, <1>6, <2>1
    <3> QED
      BY <3>1, <3>2 DEF Fits
  <2> QED
    BY <1>4, <2>1 DEF Filled
<1>15. rs = {p \in DOMAIN qs : qs[p].is_root}
  BY <1>1, <1>4, <1>5
<1> QED
  BY <1>1, <1>12, <1>13, <1>14, <1>15 DEF Tree

\* A node that has taken the child `child` and a key.
Taken(node, n, child) ==
  /\ n \in Record /\ n.type = node.type /\ n.is_root = node.is_root /\ n.parent = node.parent
  /\ n.next = node.next
  /\ Len(n.keys) = Len(node.keys) + 1 /\ ChildrenCounted(n)
  /\ ToSet(n.children) = ToSet(node.children) \cup {child}

LEMMA ChildTaken ==
  ASSUME NEW node \in Record, node.type = "internal", ChildrenCounted(node),
         NEW child, child \notin ToSet(node.children),
         NEW ks \in Seq(Nat), Len(ks) = Len(node.keys) + 1, NEW cs, Enlarged(Nat, cs, node.children, child)
  PROVE  Taken(node, WithChildren(node, ks, cs), child)
<1>a. PICK n : n = WithChildren(node, ks, cs)
  OBVIOUS
<1>1. Len(node.children) = Len(node.keys) + 1 /\ IsInjective(node.children) /\ Len(node.keys) \in Nat
  BY DEF Record, ChildrenCounted
<1>2. /\ cs \in Seq(Nat) /\ Len(cs) = Len(node.children) + 1 /\ IsInjective(cs)
      /\ ToSet(cs) = ToSet(node.children) \cup {child}
  BY <1>1 DEF Enlarged
<1>3. Refilled(node, n, ks, cs)
  BY <1>a, <1>2, WithChildrenIs
<1>4. Len(cs) = Len(ks) + 1
  BY <1>1, <1>2
<1>5. Taken(node, n, child)
  BY <1>2, <1>3, <1>4 DEF Taken, Refilled, ChildrenCounted
<1> QED
  BY <1>a, <1>5

LEMMA ChildGiven ==
  ASSUME NEW node \in Record, node.type = "internal", ChildrenCounted(node), NEW child,
         NEW ks \in Seq(Nat), Len(ks) = Len(node.keys) - 1, NEW cs, Shrunk(Nat, cs, node.children, child)
  PROVE  Relieved(node, WithChildren(node, ks, cs), child)
<1>a. PICK n : n = WithChildren(node, ks, cs)
  OBVIOUS
<1>1. Len(node.children) = Len(node.keys) + 1 /\ IsInjective(node.children) /\ Len(node.keys) \in Nat
  BY DEF Record, ChildrenCounted
<1>2. /\ cs \in Seq(Nat) /\ Len(cs) = Len(node.children) - 1 /\ IsInjective(cs)
      /\ ToSet(cs) = ToSet(node.children) \ {child}
  BY <1>1 DEF Shrunk
<1>3. Refilled(node, n, ks, cs)
  BY <1>a, <1>2, WithChildrenIs
<1>4. Len(cs) = Len(ks) + 1
  BY <1>1, <1>2
<1>5. Relieved(node, n, child)
  BY <1>2, <1>3, <1>4 DEF Relieved, Refilled, ChildrenCounted
<1> QED
  BY <1>a, <1>5

\* Four pages are written at once.
FourStored(ps, qs, a, x, b, y, c, z, d, w) ==
  /\ qs \in Seq(Record) /\ DOMAIN qs = DOMAIN ps
  /\ qs[a] = x /\ qs[b] = y /\ qs[c] = z /\ qs[d] = w
  /\ \A p \in DOMAIN ps \ {a, b, c, d} : qs[p] = ps[p]

LEMMA FourStoredIs ==
  ASSUME NEW ps \in Seq(Record), NEW a \in DOMAIN ps, NEW b \in DOMAIN ps, NEW c \in DOMAIN ps, NEW d \in DOMAIN ps,
         a # b, a # c, a # d, b # c, b # d, c # d,
         NEW x \in Record, NEW y \in Record, NEW z \in Record, NEW w \in Record
  PROVE  FourStored(ps, [ps EXCEPT ![a] = x, ![b] = y, ![c] = z, ![d] = w], a, x, b, y, c, z, d, w)
<1>a. PICK p1, p2, p3, p4 : /\ p1 = [ps EXCEPT ![a] = x] /\ p2 = [p1 EXCEPT ![b] = y]
                            /\ p3 = [p2 EXCEPT ![c] = z] /\ p4 = [p3 EXCEPT ![d] = w]
  OBVIOUS
<1>1. p1 \in Seq(Record) /\ DOMAIN p1 = DOMAIN ps
  BY <1>a, ExceptSeq
<1>2. p2 \in Seq(Record) /\ DOMAIN p2 = DOMAIN ps
  BY <1>a, <1>1, ExceptSeq
<1>3. p3 \in Seq(Record) /\ DOMAIN p3 = DOMAIN ps
  BY <1>a, <1>2, ExceptSeq
<1>4. p4 \in Seq(Record) /\ DOMAIN p4 = DOMAIN ps
  BY <1>a, <1>3, ExceptSeq
<1>5. /\ p4[a] = x /\ p4[b] = y /\ p4[c] = z /\ p4[d] = w
      /\ \A p \in DOMAIN ps \ {a, b, c, d} : p4[p] = ps[p]
  BY <1>a, <1>1, <1>2, <1>3
<1>6. [ps EXCEPT ![a] = x, ![b] = y, ![c] = z, ![d] = w] = p4
  BY <1>a
<1> QED
  BY <1>4, <1>5, <1>6 DEF FourStored

LEMMA ShiftedIs ==
  ASSUME NEW ps, NEW page \in DOMAIN ps, NEW parent, NEW other \in DOMAIN ps, NEW moved,
         moved # page, moved # other, moved # parent, other # parent, page # parent, page # other,
         NEW taker, NEW above, NEW giver, NEW son, NEW qs,
         Taken(ps[page], taker, moved), Relieved(ps[other], giver, moved),
         Alike(ps[parent], above), Len(above.keys) = Len(ps[parent].keys),
         Reparented(ps[moved], son, page),
         FourStored(ps, qs, page, taker, parent, above, other, giver, moved, son)
  PROVE  Shifted(ps, qs, other, page, moved)
<1>1. /\ qs \in Seq(Record) /\ DOMAIN qs = DOMAIN ps
      /\ qs[page] = taker /\ qs[parent] = above /\ qs[other] = giver /\ qs[moved] = son
      /\ \A p \in DOMAIN ps \ {page, parent, other, moved} : qs[p] = ps[p]
  BY DEF FourStored
<1>2. ASSUME NEW p \in DOMAIN ps
      PROVE  /\ qs[p].type = ps[p].type /\ qs[p].is_root = ps[p].is_root /\ qs[p].next = ps[p].next
             /\ qs[p].parent = IF p = moved THEN page ELSE ps[p].parent
             /\ p # other /\ p # page => qs[p].children = ps[p].children /\ Len(qs[p].keys) = Len(ps[p].keys)
  <2>1. CASE p = page
    BY <1>1, <2>1 DEF Taken
  <2>2. CASE p = other
    BY <1>1, <2>2 DEF Relieved
  <2>3. CASE p = parent
    BY <1>1, <2>3 DEF Alike
  <2>4. CASE p = moved
    BY <1>1, <2>4 DEF Reparented
  <2>5. CASE p # page /\ p # other /\ p # parent /\ p # moved
    <3>1. qs[p] = ps[p]
      BY <1>1, <2>5
    <3> QED
      BY <2>5, <3>1
  <2> QED
    BY <2>1, <2>2, <2>3, <2>4, <2>5
<1>3. /\ ChildrenCounted(qs[other]) /\ Kids(qs, other) = Kids(ps, other) \ {moved}
      /\ ChildrenCounted(qs[page]) /\ Kids(qs, page) = Kids(ps, page) \cup {moved}
  BY <1>1 DEF Taken, Relieved, Kids
<1> QED
  BY <1>1, <1>2, <1>3 DEF Shifted

\* The node under repair, its sibling and the child that moves.
LEMMA LenderIs ==
  ASSUME NEW level, NEW loose, NEW short, Sound(level, loose, short), Pending("internal_node_rebalance"),
         NEW j \in 1..Len(Siblings), NEW page, NEW other, NEW parent,
         page = Top.page, other = Siblings[j], parent = Parent, other # page, NEW moved \in Kids(pages, other)
  PROVE  /\ page \in DOMAIN pages /\ other \in DOMAIN pages /\ parent \in DOMAIN pages /\ moved \in DOMAIN pages
         /\ moved # page /\ moved # other /\ moved # parent /\ other # parent /\ page # parent
         /\ pages[page] \in Record /\ pages[page].type = "internal" /\ ChildrenCounted(pages[page])
         /\ pages[other] \in Record /\ pages[other].type = "internal" /\ ChildrenCounted(pages[other])
         /\ pages[parent] \in Record /\ pages[moved] \in Record
         /\ moved \notin Kids(pages, page) /\ level[other] = level[page]
         /\ Inner(pages, page) /\ Inner(pages, other) /\ page \in Nat /\ moved \in Nat
         /\ Len(pages[page].keys) = InternalMinKeys(max_keys) - 1 /\ loose = {} /\ short = {page}
         /\ ~pages[page].is_root /\ ~pages[other].is_root /\ (Return => stack' = <<>>)
<1>1. /\ RepairCall(Top, pages, max_keys) /\ Top.fn = "internal_node_rebalance"
      /\ loose = {} /\ short = {page} /\ (Return => stack' = <<>>)
  BY RepairOnTop
<1>2. /\ Inner(pages, page) /\ ~pages[page].is_root /\ page \in DOMAIN pages /\ pages[page].type = "internal"
      /\ Len(pages[page].keys) = InternalMinKeys(max_keys) - 1
  BY <1>1 DEF RepairCall, Inner
<1>3. /\ pages \in Seq(Record) /\ Descends(pages, level) /\ Shape(pages, level, loose) /\ DOMAIN pages = 1..Len(pages)
  BY TreeTyped DEF Sound
<1>4. /\ Alive(pages, other) /\ ~pages[other].is_root /\ pages[other].type = "internal" /\ other \in DOMAIN pages
      /\ other # parent /\ level[other] = level[page] /\ level[other] \in Nat /\ level[parent] = level[other] + 1
  BY <1>2, SiblingIs DEF Alive
<1>5. Inner(pages, parent) /\ parent # page /\ parent \in DOMAIN pages
  BY SiblingsAre DEF Inner
<1>6. Alive(pages, moved) /\ moved \in DOMAIN pages /\ pages[moved].parent = other /\ level[other] = level[moved] + 1
  BY <1>3, <1>4 DEF Shape, Descends, Alive
<1>7. moved # page /\ moved # other /\ moved # parent
  <2>a. PICK lm, lo, lp, lr : lm = level[moved] /\ lo = level[other] /\ lp = level[page] /\ lr = level[parent]
    OBVIOUS
  <2>1. lm \in Nat /\ lo \in Nat /\ lo = lp /\ lr = lo + 1 /\ lo = lm + 1
    BY <2>a, <1>3, <1>4, <1>6, LevelTells
  <2>2. lm # lo /\ lm # lp /\ lm # lr
    BY <2>1
  <2> QED
    BY <2>a, <2>2
<1>8. moved \notin Kids(pages, page)
  <2>1. \A c \in Kids(pages, page) : pages[c].parent = page
    BY <1>2, <1>3 DEF Shape
  <2> QED
    BY <1>6, <2>1
<1>9. /\ pages[page] \in Record /\ pages[other] \in Record /\ pages[parent] \in Record /\ pages[moved] \in Record
      /\ ChildrenCounted(pages[page]) /\ ChildrenCounted(pages[other]) /\ page \in Nat /\ moved \in Nat
  <2>1. \A p \in DOMAIN pages : pages[p] \in Record /\ ChildrenCounted(pages[p]) /\ p \in Nat
    BY <1>3, PageIs DEF Descends
  <2> QED
    BY <1>2, <1>4, <1>5, <1>6, <2>1
<1> QED
  BY <1>1, <1>2, <1>4, <1>5, <1>6, <1>7, <1>8, <1>9 DEF Inner

LEMMA InnerBorrowKeepsTree ==
  ASSUME NEW level, NEW loose, NEW short, Sound(level, loose, short), Pending("internal_node_rebalance"),
         NEW j \in 1..Len(Siblings), NEW page, NEW other, NEW parent,
         page = Top.page, other = Siblings[j], parent = Parent,
         other # page, Len(pages[other].keys) > InternalMinKeys(max_keys),
         NEW moved \in Kids(pages, other), NEW taker, NEW above, NEW giver, NEW son,
         Taken(pages[page], taker, moved), Relieved(pages[other], giver, moved),
         Alike(pages[parent], above), Len(above.keys) = Len(pages[parent].keys),
         Reparented(pages[moved], son, page),
         FourStored(pages, pages', page, taker, parent, above, other, giver, moved, son),
         Return, UNCHANGED <<free_head, roots, max_keys>>
  PROVE  TreeInv'
<1>1. /\ page \in DOMAIN pages /\ other \in DOMAIN pages
      /\ moved # page /\ moved # other /\ moved # parent /\ other # parent /\ page # parent
      /\ pages[page].type = "internal" /\ pages[other].type = "internal"
      /\ pages[other] \in Record /\ level[other] = level[page] /\ Inner(pages, page) /\ Inner(pages, other)
      /\ Len(pages[page].keys) = InternalMinKeys(max_keys) - 1 /\ loose = {} /\ short = {page}
      /\ ~pages[page].is_root /\ ~pages[other].is_root /\ stack' = <<>>
  BY LenderIs
<1>2. Shifted(pages, pages', other, page, moved)
  BY <1>1, ShiftedIs
<1>3. /\ Tree(pages, free_head, max_keys, roots, level, {}, {page}) /\ Filled(pages, max_keys, {page})
      /\ max_keys \in Nat /\ max_keys >= 3
  BY <1>1 DEF Sound, Tree
<1>4. /\ Len(pages'[page].keys) = Len(pages[page].keys) + 1 /\ pages'[page].type = "internal"
      /\ Len(pages'[other].keys) = Len(pages[other].keys) - 1 /\ pages'[other].type = "internal"
  BY <1>1 DEF FourStored, Taken, Relieved
<1>5. /\ Fits(pages'[page], max_keys, 0) /\ Fits(pages'[page], max_keys, 1)
      /\ Fits(pages'[other], max_keys, 0) /\ Fits(pages'[other], max_keys, 1)
  <2>a. PICK low, n, t, g : /\ low = InternalMinKeys(max_keys) /\ n = Len(pages[other].keys)
                            /\ t = Len(pages'[page].keys) /\ g = Len(pages'[other].keys)
    OBVIOUS
  <2>1. low \in Nat /\ low >= 1 /\ 2 * low <= max_keys - 1
    BY <2>a, <1>3, InnerMinima
  <2>2. t = (low - 1) + 1 /\ n \in Nat /\ g = n - 1 /\ n > low
    BY <2>a, <1>1, <1>4 DEF Record
  <2>3. n <= max_keys
    <3>1. Fits(pages[other], max_keys, 1)
      BY <1>1, <1>3 DEF Filled
    <3> QED
      BY <2>a, <1>1, <3>1 DEF Fits
  <2>4. /\ t <= max_keys /\ t + 0 >= low /\ t + 1 >= low /\ t + 0 >= 1 /\ t + 1 >= 1
        /\ g <= max_keys /\ g + 0 >= low /\ g + 1 >= low /\ g + 0 >= 1 /\ g + 1 >= 1
    BY <1>3, <2>1, <2>2, <2>3
  <2> QED
    BY <2>a, <2>4, <1>4 DEF Fits
<1>6. Tree(pages', free_head, max_keys, roots, level, {}, {})
  BY <1>1, <1>2, <1>3, <1>5, ChildShifted
<1>7. Sound(level, {}, {})'
  BY <1>1, <1>6 DEF Sound, Work
<1> QED
  BY <1>7 DEF TreeInv

Lends(page, other, parent, moved) ==
  /\ page \in DOMAIN pages /\ parent \in DOMAIN pages /\ other \in DOMAIN pages /\ moved \in DOMAIN pages
  /\ moved # page /\ moved # other /\ moved # parent /\ other # parent /\ page # parent
  /\ pages[page] \in Record /\ pages[page].type = "internal" /\ ChildrenCounted(pages[page])
  /\ pages[other] \in Record /\ pages[other].type = "internal" /\ ChildrenCounted(pages[other])
  /\ pages[parent] \in Record /\ pages[moved] \in Record
  /\ moved \notin Kids(pages, page) /\ page \in Nat /\ moved \in Nat

LEMMA LenderLends ==
  ASSUME NEW level, NEW loose, NEW short, Sound(level, loose, short), Pending("internal_node_rebalance"),
         NEW j \in 1..Len(Siblings), NEW page, NEW other, NEW parent,
         page = Top.page, other = Siblings[j], parent = Parent, other # page, NEW moved \in Kids(pages, other)
  PROVE  Lends(page, other, parent, moved)
  BY LenderIs DEF Lends

\* What a node that borrows from its sibling writes, clause by clause.
Lent(ps, a, ks, cs, b, i, k, c, ls, ds, d) ==
  [ps EXCEPT ![a].keys = ks, ![a].children = cs, ![b].keys[i] = k,
             ![c].keys = ls, ![c].children = ds, ![d].parent = a]

WithKeyAt(node, i, k) == [node EXCEPT !.keys[i] = k]
ChildOf(node, parent) == [node EXCEPT !.parent = parent]

LEMMA LentIs ==
  ASSUME NEW ps \in Seq(Record), NEW a \in DOMAIN ps, NEW b \in DOMAIN ps, NEW c \in DOMAIN ps, NEW d \in DOMAIN ps,
         a # b, a # c, a # d, b # c, b # d, c # d,
         NEW ks, NEW cs, NEW i, NEW k, NEW ls, NEW ds,
         WithChildren(ps[a], ks, cs) \in Record, WithKeyAt(ps[b], i, k) \in Record,
         WithChildren(ps[c], ls, ds) \in Record, ChildOf(ps[d], a) \in Record
  PROVE  FourStored(ps, Lent(ps, a, ks, cs, b, i, k, c, ls, ds, d),
                    a, WithChildren(ps[a], ks, cs), b, WithKeyAt(ps[b], i, k),
                    c, WithChildren(ps[c], ls, ds), d, ChildOf(ps[d], a))
<1>a. PICK x, y, z, w : /\ x = WithChildren(ps[a], ks, cs) /\ y = [ps[b] EXCEPT !.keys[i] = k]
                        /\ z = WithChildren(ps[c], ls, ds) /\ w = [ps[d] EXCEPT !.parent = a]
  OBVIOUS
<1>b. PICK p1, p2, p3 : /\ p1 = [ps EXCEPT ![a].keys = ks, ![a].children = cs]
                        /\ p2 = [p1 EXCEPT ![b].keys[i] = k]
                        /\ p3 = [p2 EXCEPT ![c].keys = ls, ![c].children = ds]
  OBVIOUS
<1>1. p1 = [ps EXCEPT ![a] = x]
  BY <1>a, <1>b DEF WithChildren
<1>2. p2 = [p1 EXCEPT ![b] = y]
  BY <1>a, <1>b, <1>1
<1>3. p3 = [p2 EXCEPT ![c] = z]
  BY <1>a, <1>b, <1>1, <1>2 DEF WithChildren
<1>4. Lent(ps, a, ks, cs, b, i, k, c, ls, ds, d) = [p3 EXCEPT ![d].parent = a]
  BY <1>b DEF Lent
<1>5. [p3 EXCEPT ![d].parent = a] = [p3 EXCEPT ![d] = w]
  BY <1>a, <1>1, <1>2, <1>3
<1>6. Lent(ps, a, ks, cs, b, i, k, c, ls, ds, d) = [ps EXCEPT ![a] = x, ![b] = y, ![c] = z, ![d] = w]
  BY <1>1, <1>2, <1>3, <1>4, <1>5
<1>7. FourStored(ps, [ps EXCEPT ![a] = x, ![b] = y, ![c] = z, ![d] = w], a, x, b, y, c, z, d, w)
  BY <1>a, FourStoredIs DEF WithKeyAt, ChildOf
<1> QED
  BY <1>a, <1>6, <1>7 DEF WithKeyAt, ChildOf

LEMMA KeyChanged ==
  ASSUME NEW node \in Record, NEW i \in 1..Len(node.keys), NEW k \in Nat
  PROVE  /\ Alike(node, WithKeyAt(node, i, k)) /\ WithKeyAt(node, i, k) \in Record
         /\ Len(WithKeyAt(node, i, k).keys) = Len(node.keys)
<1>a. PICK ks, n : ks = [node.keys EXCEPT ![i] = k] /\ n = WithKeyAt(node, i, k)
  OBVIOUS
<1>1. node.keys \in Seq(Nat)
  BY DEF Record
<1>2. ks \in Seq(Nat) /\ Len(ks) = Len(node.keys)
  BY <1>a, <1>1, ExceptSeq
<1>3. n = [node EXCEPT !.keys = ks]
  BY <1>a DEF WithKeyAt
<1>4. Alike(node, n) /\ n \in Record /\ n.keys = ks
  BY <1>2, <1>3 DEF Record, Alike
<1> QED
  BY <1>a, <1>2, <1>4

LEMMA Adopted ==
  ASSUME NEW node \in Record, NEW page \in Nat
  PROVE  Reparented(node, ChildOf(node, page), page) /\ ChildOf(node, page) \in Record
  BY DEF Record, Reparented, ChildOf

\* A node borrows a child of its sibling at `at`, by the key at `i` of their parent.
ChildLent(page, other, at, i, separator, up, moved, mine, first, rest, second, taker, above, giver, son) ==
  /\ Pending("internal_node_rebalance") /\ page = Top.page
  /\ at \in 1..Len(Siblings) /\ other = Siblings[at] /\ other # page
  /\ Len(pages[other].keys) > InternalMinKeys(max_keys) /\ Len(pages[other].keys) # 0
  /\ moved \in Kids(pages, other)
  /\ i \in 1..Len(pages[Parent].keys) /\ separator = pages[Parent].keys[i] /\ up \in Nat
  /\ Taken(pages[page], taker, moved) /\ taker = WithChildren(pages[page], mine, first)
  /\ Relieved(pages[other], giver, moved) /\ giver = WithChildren(pages[other], rest, second)
  /\ Alike(pages[Parent], above) /\ Len(above.keys) = Len(pages[Parent].keys)
  /\ above = WithKeyAt(pages[Parent], i, up) /\ Reparented(pages[moved], son, page)
  /\ FourStored(pages, pages', page, taker, Parent, above, other, giver, moved, son)
  /\ Return /\ UNCHANGED <<free_head, roots, max_keys>>

LentFromLeft(page, other, i, separator, up, moved, mine, first, rest, second, taker, above, giver, son) ==
  /\ ChildLent(page, other, i, i, separator, up, moved, mine, first, rest, second, taker, above, giver, son)
  /\ page = Siblings[i + 1] /\ up = Last(pages[other].keys) /\ moved = Last(pages[other].children)
  /\ mine = <<separator>> \o pages[page].keys /\ first = <<moved>> \o pages[page].children
  /\ rest = Front(pages[other].keys) /\ second = Front(pages[other].children)

LentFromRight(page, other, i, separator, up, moved, mine, first, rest, second, taker, above, giver, son) ==
  /\ ChildLent(page, other, i + 1, i, separator, up, moved, mine, first, rest, second, taker, above, giver, son)
  /\ page = Siblings[i] /\ up = Head(pages[other].keys) /\ moved = Head(pages[other].children)
  /\ mine = Append(pages[page].keys, separator) /\ first = Append(pages[page].children, moved)
  /\ rest = Tail(pages[other].keys) /\ second = Tail(pages[other].children)

LEMMA ChildLentKeepsTree ==
  ASSUME NEW level, NEW loose, NEW short, Sound(level, loose, short),
         NEW page, NEW other, NEW at, NEW i, NEW separator, NEW up, NEW moved, NEW mine, NEW first, NEW rest,
         NEW second, NEW taker, NEW above, NEW giver, NEW son,
         ChildLent(page, other, at, i, separator, up, moved, mine, first, rest, second, taker, above, giver, son)
  PROVE  TreeInv'
<1>1. PICK parent : parent = Parent
  OBVIOUS
<1>2. /\ Pending("internal_node_rebalance") /\ page = Top.page
      /\ at \in 1..Len(Siblings) /\ other = Siblings[at] /\ other # page
      /\ Len(pages[other].keys) > InternalMinKeys(max_keys) /\ moved \in Kids(pages, other)
      /\ Taken(pages[page], taker, moved) /\ Relieved(pages[other], giver, moved)
      /\ Alike(pages[parent], above) /\ Len(above.keys) = Len(pages[parent].keys)
      /\ Reparented(pages[moved], son, page)
      /\ FourStored(pages, pages', page, taker, parent, above, other, giver, moved, son)
      /\ Return /\ UNCHANGED <<free_head, roots, max_keys>>
  BY <1>1 DEF ChildLent
<1> QED
  BY <1>1, <1>2, InnerBorrowKeepsTree

LEMMA InternalBorrowLeftIs ==
  ASSUME NEW level, NEW loose, NEW short, Sound(level, loose, short), InternalBorrowLeft
  PROVE  \E page, other, i, separator, up, moved, mine, first, rest, second, taker, above, giver, son :
           LentFromLeft(page, other, i, separator, up, moved, mine, first, rest, second, taker, above, giver, son)
<1>1. Sound(level, loose, short)
  OBVIOUS
<1>a. PICK page, parent, j : page = Top.page /\ parent = Parent /\ j = Position - 1
  OBVIOUS
<1>b. PICK other : other = Siblings[j]
  OBVIOUS
<1>c. PICK moved, separator : moved = Last(pages[other].children) /\ separator = pages[parent].keys[j]
  OBVIOUS
<1>d. PICK mine, first, rest, second :
        /\ mine = <<separator>> \o pages[page].keys /\ first = <<moved>> \o pages[page].children
        /\ rest = Front(pages[other].keys) /\ second = Front(pages[other].children)
  OBVIOUS
<1>e. PICK taker, above, giver, son :
        /\ taker = WithChildren(pages[page], mine, first)
        /\ above = WithKeyAt(pages[parent], j, Last(pages[other].keys))
        /\ giver = WithChildren(pages[other], rest, second)
        /\ son = ChildOf(pages[moved], page)
  OBVIOUS
<1>2. /\ Pending("internal_node_rebalance") /\ SpareLeft(InternalMinKeys(max_keys))
      /\ Return /\ UNCHANGED <<free_head, roots, max_keys>>
  BY DEF InternalBorrowLeft
<1>3. /\ Position \in 1..Len(Siblings) /\ DOMAIN Siblings = 1..Len(Siblings) /\ Siblings[Position] = page
      /\ Len(Siblings) = Len(pages[parent].keys) + 1 /\ Len(Siblings) \in Nat /\ Inner(pages, parent)
  BY <1>1, <1>2, <1>a, SiblingsAre
<1>4. j \in 1..Len(Siblings) /\ Len(pages[other].keys) > InternalMinKeys(max_keys)
  BY <1>2, <1>3, <1>a, <1>b DEF SpareLeft, CanSpare
<1>5. other # page
  BY <1>1, <1>2, <1>3, <1>4, <1>a, <1>b, SiblingIs
<1>6. pages \in Seq(Record) /\ Descends(pages, level) /\ max_keys \in Nat /\ max_keys >= 3
  BY <1>1, TreeTyped DEF Sound
<1>7. other \in DOMAIN pages
  BY <1>1, <1>2, <1>4, <1>b, SiblingIs DEF Alive
<1>8. /\ pages[other].keys \in Seq(Nat) /\ pages[other].children \in Seq(Nat)
      /\ Len(pages[other].keys) \in Nat /\ Len(pages[other].children) \in Nat
      /\ pages[parent].keys \in Seq(Nat) /\ Len(pages[parent].keys) \in Nat
  BY <1>3, <1>6, <1>7, PageIs DEF Inner
<1>9. Len(pages[other].keys) # 0
  <2>1. InternalMinKeys(max_keys) \in Nat
    BY <1>6, InnerMinima
  <2> QED
    BY <1>4, <1>8, <2>1
<1>10. Len(pages[other].children) # 0
  <2>1. Inner(pages, other)
    <3>1. pages[other].type = pages[page].type
      BY <1>1, <1>2, <1>4, <1>a, <1>b, SiblingIs
    <3>2. RepairCall(Top, pages, max_keys) /\ Top.fn = "internal_node_rebalance"
      BY <1>1, <1>2, RepairOnTop
    <3>3. Inner(pages, page)
      BY <1>a, <3>2 DEF RepairCall
    <3> QED
      BY <1>7, <3>1, <3>3 DEF Inner
  <2>2. Len(pages[other].children) = Len(pages[other].keys) + 1
    BY <1>6, <2>1 DEF Descends, ChildrenCounted, Inner
  <2> QED
    BY <1>8, <2>2
<1>11. moved \in Kids(pages, other)
  BY <1>8, <1>10, <1>c, Ends DEF Kids
<1>12. /\ page \in DOMAIN pages /\ parent \in DOMAIN pages /\ moved \in DOMAIN pages
       /\ moved # page /\ moved # other /\ moved # parent /\ other # parent /\ page # parent
       /\ pages[page] \in Record /\ pages[page].type = "internal" /\ ChildrenCounted(pages[page])
       /\ pages[other] \in Record /\ pages[other].type = "internal" /\ ChildrenCounted(pages[other])
       /\ pages[parent] \in Record /\ pages[moved] \in Record
       /\ moved \notin Kids(pages, page) /\ page \in Nat /\ moved \in Nat
  BY <1>1, <1>2, <1>4, <1>5, <1>11, <1>a, <1>b, LenderLends DEF Lends
<1>13. j \in 1..Len(pages[parent].keys)
  BY <1>3, <1>4, <1>8, <1>a
<1>14. separator \in Nat /\ Last(pages[other].keys) \in Nat
  <2>1. separator \in Nat
    BY <1>8, <1>13, <1>c
  <2> QED
    BY <2>1, <1>8, <1>9, Ends
<1>15. pages[page].keys \in Seq(Nat) /\ pages[page].children \in Seq(Nat)
  BY <1>12 DEF Record
<1>16. Taken(pages[page], taker, moved)
  <2>1. Enlarged(Nat, mine, pages[page].keys, separator) /\ Enlarged(Nat, first, pages[page].children, moved)
    BY <1>12, <1>14, <1>15, <1>d, ConsGrows
  <2>2. mine \in Seq(Nat) /\ Len(mine) = Len(pages[page].keys) + 1
    BY <2>1 DEF Enlarged
  <2>3. moved \notin ToSet(pages[page].children)
    BY <1>12 DEF Kids
  <2> QED
    BY <1>12, <1>e, <2>1, <2>2, <2>3, ChildTaken
<1>17. Relieved(pages[other], giver, moved)
  <2>1. Shrunk(Nat, rest, pages[other].keys, Last(pages[other].keys)) /\ Shrunk(Nat, second, pages[other].children, moved)
    BY <1>8, <1>9, <1>10, <1>c, <1>d, FrontShrinks
  <2>2. rest \in Seq(Nat) /\ Len(rest) = Len(pages[other].keys) - 1
    BY <2>1 DEF Shrunk
  <2> QED
    BY <1>12, <1>e, <2>1, <2>2, ChildGiven
<1>18. Alike(pages[parent], above) /\ above \in Record /\ Len(above.keys) = Len(pages[parent].keys)
  BY <1>12, <1>13, <1>14, <1>e, KeyChanged
<1>19. Reparented(pages[moved], son, page) /\ son \in Record
  BY <1>12, <1>e, Adopted
<1>20. FourStored(pages, pages', page, taker, parent, above, other, giver, moved, son)
  <2>1. pages' = Lent(pages, page, mine, first, parent, j, Last(pages[other].keys), other, rest, second, moved)
    BY <1>a, <1>b, <1>c, <1>d DEF InternalBorrowLeft, Lent
  <2>2. taker \in Record /\ giver \in Record /\ page # other
    BY <1>5, <1>16, <1>17 DEF Taken, Relieved
  <2> QED
    BY <1>6, <1>7, <1>12, <1>18, <1>19, <1>e, <2>1, <2>2, LentIs
<1>f. PICK up : up = Last(pages[other].keys)
  OBVIOUS
<1>21. j + 1 = Position
  BY <1>3, <1>4, <1>a
<1>22. ChildLent(page, other, j, j, separator, up, moved, mine, first, rest, second, taker, above, giver, son)
  BY <1>2, <1>4, <1>5, <1>9, <1>11, <1>13, <1>14, <1>16, <1>17, <1>18, <1>19, <1>20, <1>a, <1>b, <1>c, <1>e, <1>f
     DEF ChildLent
<1>23. LentFromLeft(page, other, j, separator, up, moved, mine, first, rest, second, taker, above, giver, son)
  BY <1>3, <1>21, <1>22, <1>a, <1>c, <1>d, <1>f DEF LentFromLeft
<1> QED
  BY <1>23

LEMMA InternalBorrowLeftKeepsTree ==
  ASSUME TreeInv, InternalBorrowLeft
  PROVE  TreeInv'
<1>1. PICK level, loose, short : Sound(level, loose, short)
  BY DEF TreeInv
<1>2. PICK page, other, i, separator, up, moved, mine, first, rest, second, taker, above, giver, son :
        LentFromLeft(page, other, i, separator, up, moved, mine, first, rest, second, taker, above, giver, son)
  BY <1>1, InternalBorrowLeftIs
<1>3. ChildLent(page, other, i, i, separator, up, moved, mine, first, rest, second, taker, above, giver, son)
  BY <1>2 DEF LentFromLeft
<1> QED
  BY <1>1, <1>3, ChildLentKeepsTree

LEMMA InternalBorrowRightIs ==
  ASSUME NEW level, NEW loose, NEW short, Sound(level, loose, short), InternalBorrowRight
  PROVE  \E page, other, i, separator, up, moved, mine, first, rest, second, taker, above, giver, son :
           LentFromRight(page, other, i, separator, up, moved, mine, first, rest, second, taker, above, giver, son)
<1>1. Sound(level, loose, short)
  OBVIOUS
<1>a. PICK page, parent, i, j : page = Top.page /\ parent = Parent /\ i = Position /\ j = Position + 1
  OBVIOUS
<1>b. PICK other : other = Siblings[j]
  OBVIOUS
<1>c. PICK moved, separator : moved = Head(pages[other].children) /\ separator = pages[parent].keys[i]
  OBVIOUS
<1>d. PICK mine, first, rest, second :
        /\ mine = Append(pages[page].keys, separator) /\ first = Append(pages[page].children, moved)
        /\ rest = Tail(pages[other].keys) /\ second = Tail(pages[other].children)
  OBVIOUS
<1>e. PICK taker, above, giver, son :
        /\ taker = WithChildren(pages[page], mine, first)
        /\ above = WithKeyAt(pages[parent], i, Head(pages[other].keys))
        /\ giver = WithChildren(pages[other], rest, second)
        /\ son = ChildOf(pages[moved], page)
  OBVIOUS
<1>2. /\ Pending("internal_node_rebalance") /\ SpareRight(InternalMinKeys(max_keys))
      /\ Return /\ UNCHANGED <<free_head, roots, max_keys>>
  BY DEF InternalBorrowRight
<1>3. /\ Position \in 1..Len(Siblings) /\ DOMAIN Siblings = 1..Len(Siblings) /\ Siblings[Position] = page
      /\ Len(Siblings) = Len(pages[parent].keys) + 1 /\ Len(Siblings) \in Nat /\ Inner(pages, parent)
  BY <1>1, <1>2, <1>a, SiblingsAre
<1>4. j \in 1..Len(Siblings) /\ Len(pages[other].keys) > InternalMinKeys(max_keys)
  BY <1>2, <1>3, <1>a, <1>b DEF SpareRight, CanSpare
<1>5. other # page
  BY <1>1, <1>2, <1>3, <1>4, <1>a, <1>b, SiblingIs
<1>6. pages \in Seq(Record) /\ Descends(pages, level) /\ max_keys \in Nat /\ max_keys >= 3
  BY <1>1, TreeTyped DEF Sound
<1>7. other \in DOMAIN pages
  BY <1>1, <1>2, <1>4, <1>b, SiblingIs DEF Alive
<1>8. /\ pages[other].keys \in Seq(Nat) /\ pages[other].children \in Seq(Nat)
      /\ Len(pages[other].keys) \in Nat /\ Len(pages[other].children) \in Nat
      /\ pages[parent].keys \in Seq(Nat) /\ Len(pages[parent].keys) \in Nat
  BY <1>3, <1>6, <1>7, PageIs DEF Inner
<1>9. Len(pages[other].keys) # 0
  <2>1. InternalMinKeys(max_keys) \in Nat
    BY <1>6, InnerMinima
  <2> QED
    BY <1>4, <1>8, <2>1
<1>10. Len(pages[other].children) # 0
  <2>1. Inner(pages, other)
    <3>1. pages[other].type = pages[page].type
      BY <1>1, <1>2, <1>4, <1>a, <1>b, SiblingIs
    <3>2. RepairCall(Top, pages, max_keys) /\ Top.fn = "internal_node_rebalance"
      BY <1>1, <1>2, RepairOnTop
    <3>3. Inner(pages, page)
      BY <1>a, <3>2 DEF RepairCall
    <3> QED
      BY <1>7, <3>1, <3>3 DEF Inner
  <2>2. Len(pages[other].children) = Len(pages[other].keys) + 1
    BY <1>6, <2>1 DEF Descends, ChildrenCounted, Inner
  <2> QED
    BY <1>8, <2>2
<1>11. moved \in Kids(pages, other)
  BY <1>8, <1>10, <1>c, Ends DEF Kids
<1>12. /\ page \in DOMAIN pages /\ parent \in DOMAIN pages /\ moved \in DOMAIN pages
       /\ moved # page /\ moved # other /\ moved # parent /\ other # parent /\ page # parent
       /\ pages[page] \in Record /\ pages[page].type = "internal" /\ ChildrenCounted(pages[page])
       /\ pages[other] \in Record /\ pages[other].type = "internal" /\ ChildrenCounted(pages[other])
       /\ pages[parent] \in Record /\ pages[moved] \in Record
       /\ moved \notin Kids(pages, page) /\ page \in Nat /\ moved \in Nat
  BY <1>1, <1>2, <1>4, <1>5, <1>11, <1>a, <1>b, LenderLends DEF Lends
<1>13. i \in 1..Len(pages[parent].keys)
  BY <1>3, <1>4, <1>8, <1>a
<1>14. separator \in Nat /\ Head(pages[other].keys) \in Nat
  <2>1. separator \in Nat
    BY <1>8, <1>13, <1>c
  <2> QED
    BY <2>1, <1>8, <1>9, Ends
<1>15. pages[page].keys \in Seq(Nat) /\ pages[page].children \in Seq(Nat)
  BY <1>12 DEF Record
<1>16. Taken(pages[page], taker, moved)
  <2>1. Enlarged(Nat, mine, pages[page].keys, separator) /\ Enlarged(Nat, first, pages[page].children, moved)
    BY <1>12, <1>14, <1>15, <1>d, AppendGrows
  <2>2. mine \in Seq(Nat) /\ Len(mine) = Len(pages[page].keys) + 1
    BY <2>1 DEF Enlarged
  <2>3. moved \notin ToSet(pages[page].children)
    BY <1>12 DEF Kids
  <2> QED
    BY <1>12, <1>e, <2>1, <2>2, <2>3, ChildTaken
<1>17. Relieved(pages[other], giver, moved)
  <2>1. Shrunk(Nat, rest, pages[other].keys, Head(pages[other].keys)) /\ Shrunk(Nat, second, pages[other].children, moved)
    BY <1>8, <1>9, <1>10, <1>c, <1>d, TailShrinks
  <2>2. rest \in Seq(Nat) /\ Len(rest) = Len(pages[other].keys) - 1
    BY <2>1 DEF Shrunk
  <2> QED
    BY <1>12, <1>e, <2>1, <2>2, ChildGiven
<1>18. Alike(pages[parent], above) /\ above \in Record /\ Len(above.keys) = Len(pages[parent].keys)
  BY <1>12, <1>13, <1>14, <1>e, KeyChanged
<1>19. Reparented(pages[moved], son, page) /\ son \in Record
  BY <1>12, <1>e, Adopted
<1>20. FourStored(pages, pages', page, taker, parent, above, other, giver, moved, son)
  <2>1. pages' = Lent(pages, page, mine, first, parent, i, Head(pages[other].keys), other, rest, second, moved)
    BY <1>a, <1>b, <1>c, <1>d DEF InternalBorrowRight, Lent
  <2>2. taker \in Record /\ giver \in Record /\ page # other
    BY <1>5, <1>16, <1>17 DEF Taken, Relieved
  <2> QED
    BY <1>6, <1>7, <1>12, <1>18, <1>19, <1>e, <2>1, <2>2, LentIs
<1>f. PICK up : up = Head(pages[other].keys)
  OBVIOUS
<1>22. ChildLent(page, other, i + 1, i, separator, up, moved, mine, first, rest, second, taker, above, giver, son)
  BY <1>2, <1>4, <1>5, <1>9, <1>11, <1>13, <1>14, <1>16, <1>17, <1>18, <1>19, <1>20, <1>a, <1>b, <1>c, <1>e, <1>f
     DEF ChildLent
<1>23. LentFromRight(page, other, i, separator, up, moved, mine, first, rest, second, taker, above, giver, son)
  BY <1>3, <1>22, <1>a, <1>c, <1>d, <1>f DEF LentFromRight
<1> QED
  BY <1>23

LEMMA InternalBorrowRightKeepsTree ==
  ASSUME TreeInv, InternalBorrowRight
  PROVE  TreeInv'
<1>1. PICK level, loose, short : Sound(level, loose, short)
  BY DEF TreeInv
<1>2. PICK page, other, i, separator, up, moved, mine, first, rest, second, taker, above, giver, son :
        LentFromRight(page, other, i, separator, up, moved, mine, first, rest, second, taker, above, giver, son)
  BY <1>1, InternalBorrowRightIs
<1>3. ChildLent(page, other, i + 1, i, separator, up, moved, mine, first, rest, second, taker, above, giver, son)
  BY <1>2 DEF LentFromRight
<1> QED
  BY <1>1, <1>3, ChildLentKeepsTree

-----------------------------------------------------------------------------
\* A root left with one child takes over its contents: the tree loses a level.

Lowered(ps, qs, head, root, child) ==
  /\ qs \in Seq(Record) /\ DOMAIN qs = DOMAIN ps /\ qs[child] = FreePage(head)
  /\ qs[root].type = ps[child].type /\ qs[root].is_root
  /\ qs[root].keys = ps[child].keys /\ qs[root].children = ps[child].children
  /\ \A p \in DOMAIN ps \ {root, child} :
       Reparented(ps[p], qs[p], IF p \in Kids(ps, child) THEN root ELSE ps[p].parent)

LevelBelow(ps, level, root, child) ==
  [p \in DOMAIN ps |-> IF p = root THEN level[child] ELSE level[p]]

LEMMA RootLowered ==
  ASSUME NEW ps, NEW head, NEW m, NEW rs, NEW level, NEW root, NEW child,
         Tree(ps, head, m, rs, level, {}, {root}), Inner(ps, root), ps[root].is_root,
         Kids(ps, root) = {child}, NEW qs, Lowered(ps, qs, head, root, child)
  PROVE  Tree(qs, child, m, rs, LevelBelow(ps, level, root, child), {}, {})
<1>1. /\ Shape(ps, level, {}) /\ Descends(ps, level) /\ ps \in Seq(Record)
      /\ FreeChain(ps, head) /\ Filled(ps, m, {root}) /\ m \in Nat /\ m >= 3
      /\ rs = {p \in DOMAIN ps : ps[p].is_root}
  BY DEF Tree, Shape, Descends
<1>2. root \in DOMAIN ps /\ ps[root].type = "internal"
  BY DEF Inner
<1>3. /\ Alive(ps, child) /\ child \in DOMAIN ps /\ ~ps[child].is_root /\ ps[child].parent = root
      /\ child # root /\ level[child] \in Nat
  <2>1. Alive(ps, child) /\ ~ps[child].is_root /\ ps[child].parent = root
    BY <1>1, <1>2 DEF Shape, Descends
  <2> QED
    BY <1>1, <2>1, LevelTells DEF Alive
<1>a. PICK level2 : level2 = LevelBelow(ps, level, root, child)
  OBVIOUS
<1>4. level2[root] = level[child] /\ \A p \in DOMAIN ps : p # root => level2[p] = level[p]
  BY <1>a, <1>2 DEF LevelBelow
<1>5. /\ qs \in Seq(Record) /\ DOMAIN qs = DOMAIN ps /\ qs[child] = FreePage(head)
      /\ qs[root].type = ps[child].type /\ qs[root].is_root
      /\ qs[root].keys = ps[child].keys /\ qs[root].children = ps[child].children
  BY DEF Lowered
<1>6. \A p \in DOMAIN ps : p # root /\ p # child =>
        /\ qs[p].keys = ps[p].keys /\ qs[p].children = ps[p].children /\ qs[p].next = ps[p].next
        /\ qs[p].type = ps[p].type /\ qs[p].is_root = ps[p].is_root
        /\ qs[p].parent = IF p \in Kids(ps, child) THEN root ELSE ps[p].parent
  BY DEF Lowered, Reparented
<1>7. /\ qs[child].type = "free" /\ ~qs[child].is_root /\ Kids(qs, child) = {} /\ ChildrenCounted(qs[child])
  <2>1. qs[child].type = "free" /\ qs[child].is_root = FALSE /\ qs[child].children = <<>>
    BY <1>5 DEF FreePage
  <2>2. IsInjective(<<>>)
    BY DEF IsInjective
  <2> QED
    BY <2>1, <2>2 DEF Kids, ToSet, ChildrenCounted
<1>8. Kids(qs, root) = Kids(ps, child) /\ \A p \in DOMAIN ps : p # root /\ p # child => Kids(qs, p) = Kids(ps, p)
  BY <1>5, <1>6 DEF Kids
<1>9. \A c \in Kids(ps, child) : /\ ps[c].parent = child /\ Alive(ps, c) /\ ~ps[c].is_root
                                 /\ c \in DOMAIN ps /\ c # root /\ c # child /\ level[child] = level[c] + 1
  <2>1. ASSUME NEW c \in Kids(ps, child)
        PROVE  /\ ps[c].parent = child /\ Alive(ps, c) /\ ~ps[c].is_root
               /\ c \in DOMAIN ps /\ level[child] = level[c] + 1 /\ level[c] \in Nat
    <3>1. ps[c].parent = child /\ Alive(ps, c) /\ ~ps[c].is_root /\ level[child] = level[c] + 1
      BY <1>1, <1>3 DEF Shape, Descends
    <3> QED
      BY <1>1, <3>1, LevelTells DEF Alive
  <2>2. ASSUME NEW c \in Kids(ps, child) PROVE c # root /\ c # child
    BY <1>3, <2>1
  <2> QED
    BY <2>1, <2>2
<1>10. \A p : Alive(qs, p) <=> Alive(ps, p) /\ p # child
  BY <1>2, <1>3, <1>5, <1>6, <1>7 DEF Alive
<1>11. \A p \in DOMAIN qs : ChildrenCounted(qs[p])
  <2>1. ASSUME NEW p \in DOMAIN ps, p # root, p # child PROVE ChildrenCounted(qs[p])
    <3>1. ChildrenCounted(ps[p])
      BY <1>1 DEF Descends
    <3> QED
      BY <1>6, <2>1, <3>1 DEF ChildrenCounted
  <2>2. ChildrenCounted(qs[root])
    <3>1. ChildrenCounted(ps[child])
      BY <1>1, <1>3 DEF Descends
    <3> QED
      BY <1>5, <3>1 DEF ChildrenCounted
  <2> QED
    BY <1>5, <1>7, <2>1, <2>2
<1>12. ASSUME NEW p \in DOMAIN qs, NEW c \in Kids(qs, p)
       PROVE  Alive(qs, c) /\ ~qs[c].is_root /\ level2[p] = level2[c] + 1 /\ qs[c].parent = p
  <2>1. p # child
    BY <1>7, <1>12
  <2>2. CASE p = root
    <3>1. c \in Kids(ps, child)
      BY <1>8, <1>12, <2>2
    <3> QED
      BY <1>4, <1>6, <1>9, <1>10, <2>2, <3>1
  <2>3. CASE p # root
    <3>1. p \in DOMAIN ps /\ c \in Kids(ps, p)
      BY <1>5, <1>8, <1>12, <2>1, <2>3
    <3>2. Alive(ps, c) /\ c \in DOMAIN ps /\ ~ps[c].is_root /\ level[p] = level[c] + 1 /\ ps[c].parent = p
      BY <1>1, <3>1 DEF Shape, Descends, Alive
    <3>3. c # child /\ c # root /\ c \notin Kids(ps, child)
      BY <1>3, <1>9, <2>1, <2>3, <3>2
    <3> QED
      BY <1>4, <1>6, <1>10, <2>3, <3>1, <3>2, <3>3
  <2> QED
    BY <2>2, <2>3
<1>13. Descends(qs, level2)
  <2>1. PICK top \in Nat : level \in [DOMAIN ps -> 0..top]
    BY <1>1 DEF Descends
  <2>2. level2 \in [DOMAIN qs -> 0..top]
    BY <1>a, <1>3, <1>5, <2>1 DEF LevelBelow
  <2>3. ASSUME NEW p \in DOMAIN qs, qs[p].type = "leaf" PROVE level2[p] = 0
    <3>1. p # child
      BY <1>7, <2>3
    <3>2. CASE p = root
      BY <1>1, <1>3, <1>4, <1>5, <2>3, <3>2 DEF Descends
    <3>3. CASE p # root
      BY <1>1, <1>4, <1>5, <1>6, <2>3, <3>1, <3>3 DEF Descends
    <3> QED
      BY <3>2, <3>3
  <2> QED
    BY <1>5, <1>11, <1>12, <2>2, <2>3 DEF Descends
<1>14. ASSUME NEW p \in DOMAIN qs, Alive(qs, p), ~qs[p].is_root
       PROVE  qs[p].parent \in DOMAIN qs /\ p \in Kids(qs, qs[p].parent)
  <2>a. PICK r : r = ps[p].parent
    OBVIOUS
  <2>1. p \in DOMAIN ps /\ p # child /\ p # root /\ Alive(ps, p) /\ ~ps[p].is_root
    BY <1>5, <1>6, <1>10, <1>14
  <2>2. r \in DOMAIN ps /\ p \in Kids(ps, r)
    BY <2>a, <1>1, <2>1 DEF Shape
  <2>3. CASE p \in Kids(ps, child)
    BY <1>2, <1>5, <1>6, <1>8, <2>1, <2>3
  <2>4. CASE p \notin Kids(ps, child)
    <3>1. qs[p].parent = r /\ r # child /\ r # root
      BY <2>a, <1>6, <2>1, <2>2, <2>4
    <3> QED
      BY <1>5, <1>8, <2>2, <3>1
  <2> QED
    BY <2>3, <2>4
<1>15. Shape(qs, level2, {})
  <2>1. \A p \in DOMAIN qs : qs[p].is_root => Alive(qs, p)
    BY <1>1, <1>2, <1>5, <1>6, <1>7, <1>10 DEF Shape
  <2> QED
    BY <1>12, <1>13, <1>14, <2>1 DEF Shape
<1>16. FreeChain(qs, child)
  <2>1. ps[child].type # "free"
    BY <1>3 DEF Alive
  <2>2. \A p \in DOMAIN ps \ {child} : /\ ps[p].type = "free" <=> qs[p].type = "free"
                                       /\ ps[p].type = "free" => qs[p].next = ps[p].next
    BY <1>2, <1>5, <1>6, <2>1
  <2> QED
    BY <1>1, <1>3, <1>5, <2>1, <2>2, PageFreed
<1>17. Filled(qs, m, {})
  <2>1. ASSUME NEW p \in DOMAIN ps, p # root, p # child PROVE Fits(qs[p], m, 0) /\ Fits(qs[p], m, 1)
    <3>1. Fits(ps[p], m, 1) /\ Fits(ps[p], m, 0)
      BY <1>1, <2>1 DEF Filled
    <3> QED
      BY <1>6, <2>1, <3>1 DEF Fits
  <2>2. Fits(qs[child], m, 0) /\ Fits(qs[child], m, 1)
    BY <1>7 DEF Fits
  <2>3. Fits(qs[root], m, 0) /\ Fits(qs[root], m, 1)
    <3>a. PICK n, low : n = Len(ps[child].keys) /\ low = InternalMinKeys(m)
      OBVIOUS
    <3>1. Fits(ps[child], m, 0) /\ n \in Nat
      BY <3>a, <1>1, <1>3, PageIs DEF Filled
    <3>2. low \in Nat /\ low >= 1
      BY <3>a, <1>1, InnerMinima
    <3>3. /\ ps[child].type = "leaf" => n <= LeafMaxCells
          /\ ps[child].type = "internal" => n <= m /\ n + 0 >= low
      BY <3>a, <3>1, <1>3 DEF Fits
    <3>4. ps[child].type = "internal" => n + 0 >= 1 /\ n + 1 >= 1
      BY <3>1, <3>2, <3>3
    <3> QED
      BY <3>a, <3>3, <3>4, <1>5 DEF Fits
  <2> QED
    BY <1>5, <2>1, <2>2, <2>3 DEF Filled
<1>18. rs = {p \in DOMAIN qs : qs[p].is_root}
  BY <1>1, <1>2, <1>3, <1>5, <1>6, <1>7
<1> QED
  BY <1>a, <1>1, <1>15, <1>16, <1>17, <1>18 DEF Tree

\* An empty root takes what its only child has, and the child is freed.
RootFalls(root, child) ==
  /\ Pending("after_child_removed") /\ root = Top.page /\ pages[root].is_root
  /\ Inner(pages, root) /\ root \in DOMAIN pages /\ Len(pages[root].keys) = 0
  /\ DOMAIN pages[root].children = {1} /\ pages[root].children[1] = child /\ Kids(pages, root) = {child}
  /\ Alive(pages, child) /\ child \in DOMAIN pages /\ ~pages[child].is_root /\ child # root
  /\ Lowered(pages, pages', free_head, root, child) /\ pages'[root].next = pages[child].next
  /\ stack' = <<>> /\ free_head' = child /\ UNCHANGED <<roots, max_keys>>

LEMMA CollapseRootIs ==
  ASSUME NEW level, NEW loose, NEW short, Sound(level, loose, short), CollapseRoot
  PROVE  \E root, child : RootFalls(root, child)
<1>1. Sound(level, loose, short)
  OBVIOUS
<1>a. PICK root, child : root = Top.page /\ child = Last(pages[root].children)
  OBVIOUS
<1>b. PICK copy, p1, p2, kids : /\ copy = [pages[child] EXCEPT !.is_root = TRUE, !.parent = NoPage]
                                /\ p1 = [pages EXCEPT ![root] = copy] /\ kids = copy.children
                                /\ p2 = Reparent(p1, kids, root)
  OBVIOUS
<1>2. /\ Pending("after_child_removed") /\ pages[root].is_root /\ ~EnoughKeys
      /\ pages' = [p2 EXCEPT ![child] = FreePage(free_head)] /\ free_head' = child
      /\ Return /\ UNCHANGED <<roots, max_keys>>
  BY <1>a, <1>b DEF CollapseRoot
<1>3. /\ RepairCall(Top, pages, max_keys) /\ Top.fn = "after_child_removed"
      /\ loose = {} /\ short = {root} /\ stack' = <<>>
  BY <1>a, <1>1, <1>2, RepairOnTop
<1>4. Inner(pages, root) /\ root \in DOMAIN pages /\ pages[root].type = "internal"
  BY <1>a, <1>3 DEF RepairCall, Inner
<1>5. /\ Tree(pages, free_head, max_keys, roots, level, {}, {root})
      /\ pages \in Seq(Record) /\ Shape(pages, level, loose) /\ Descends(pages, level)
      /\ FreeChain(pages, free_head) /\ DOMAIN pages = 1..Len(pages)
  BY <1>1, <1>3, TreeTyped DEF Sound, Tree
<1>6. Len(pages[root].keys) = 0
  <2>1. Len(pages[root].keys) \in Nat
    BY <1>4, <1>5, PageIs
  <2> QED
    BY <1>a, <1>2, <2>1 DEF EnoughKeys, KeyCount
<1>7. Kids(pages, root) = {child} /\ DOMAIN pages[root].children = {1} /\ pages[root].children[1] = child
  <2>1. pages[root].children \in Seq(Nat) /\ Len(pages[root].children) = 1
    <3>1. pages[root].children \in Seq(Nat)
      BY <1>4, <1>5, PageIs
    <3>2. Len(pages[root].children) = Len(pages[root].keys) + 1
      BY <1>4, <1>5 DEF Descends, ChildrenCounted
    <3> QED
      BY <1>6, <3>1, <3>2
  <2>2. DOMAIN pages[root].children = {1} /\ child = pages[root].children[1]
    BY <1>a, <2>1 DEF Last
  <2> QED
    BY <2>2 DEF Kids, ToSet
<1>8. /\ Alive(pages, child) /\ child \in DOMAIN pages /\ ~pages[child].is_root /\ child # root
      /\ pages[child] \in Record /\ root \in Nat
  <2>1. Alive(pages, child) /\ ~pages[child].is_root
    BY <1>4, <1>5, <1>7 DEF Descends
  <2>2. child # root
    BY <1>2, <2>1
  <2> QED
    BY <1>4, <1>5, <2>1, <2>2, PageIs DEF Alive
<1>9. /\ copy \in Record /\ copy.type = pages[child].type /\ copy.is_root = TRUE
      /\ copy.keys = pages[child].keys /\ copy.children = pages[child].children /\ copy.next = pages[child].next
  BY <1>b, <1>8 DEF Record, NoPage
<1>10. /\ p1 \in Seq(Record) /\ DOMAIN p1 = DOMAIN pages /\ p1[root] = copy
       /\ \A p \in DOMAIN pages \ {root} : p1[p] = pages[p]
  <2>1. p1 \in Seq(Record) /\ DOMAIN p1 = DOMAIN pages
    BY <1>b, <1>4, <1>5, <1>9, ExceptSeq
  <2> QED
    BY <1>b, <1>4, <2>1
<1>11. HandedOver(p1, p2, ToSet(kids), root)
  BY <1>b, <1>8, <1>10, ReparentIs
<1>12. ToSet(kids) = Kids(pages, child) /\ root \notin ToSet(kids)
  <2>1. ToSet(kids) = Kids(pages, child)
    BY <1>b, <1>9 DEF Kids
  <2>2. \A c \in Kids(pages, child) : ~pages[c].is_root
    BY <1>5, <1>8 DEF Descends
  <2> QED
    BY <1>2, <2>1, <2>2
<1>13. FreePage(free_head) \in Record
  <2>1. free_head \in Nat
    BY <1>5, FreeHead DEF NoPage
  <2> QED
    BY <2>1 DEF FreePage, Record, NoPage
<1>14. /\ p2 \in Seq(Record) /\ DOMAIN p2 = DOMAIN pages
       /\ \A p \in DOMAIN p1 : Reparented(p1[p], p2[p], IF p \in ToSet(kids) THEN root ELSE p1[p].parent)
  BY <1>10, <1>11 DEF HandedOver
<1>15. /\ pages' \in Seq(Record) /\ DOMAIN pages' = DOMAIN pages
       /\ pages'[child] = FreePage(free_head) /\ \A p \in DOMAIN pages \ {child} : pages'[p] = p2[p]
  <2>a. PICK gone : gone = FreePage(free_head)
    OBVIOUS
  <2>1. gone \in Record /\ pages' = [p2 EXCEPT ![child] = gone] /\ child \in DOMAIN p2
    BY <2>a, <1>2, <1>8, <1>13, <1>14
  <2>2. pages' \in Seq(Record) /\ DOMAIN pages' = DOMAIN pages
    BY <1>14, <2>1, ExceptSeq
  <2> QED
    BY <2>a, <2>1, <2>2, <1>14
<1>16. Lowered(pages, pages', free_head, root, child)
  <2>1. Reparented(copy, pages'[root], copy.parent)
    BY <1>4, <1>8, <1>10, <1>12, <1>14, <1>15
  <2>2. /\ pages'[root].type = pages[child].type /\ pages'[root].is_root
        /\ pages'[root].keys = pages[child].keys /\ pages'[root].children = pages[child].children
    BY <1>9, <2>1 DEF Reparented
  <2>3. ASSUME NEW p \in DOMAIN pages \ {root, child}
        PROVE  Reparented(pages[p], pages'[p], IF p \in Kids(pages, child) THEN root ELSE pages[p].parent)
    <3>1. p1[p] = pages[p] /\ pages'[p] = p2[p] /\ p \in DOMAIN p1
      BY <1>10, <1>15
    <3> QED
      BY <1>12, <1>14, <3>1
  <2> QED
    BY <1>15, <2>2, <2>3 DEF Lowered
<1>17. pages'[root].next = pages[child].next
  BY <1>4, <1>8, <1>9, <1>10, <1>12, <1>14, <1>15 DEF Reparented
<1>18. RootFalls(root, child)
  BY <1>a, <1>2, <1>3, <1>4, <1>6, <1>7, <1>8, <1>16, <1>17 DEF RootFalls
<1> QED
  BY <1>18

LEMMA CollapseRootKeepsTree ==
  ASSUME TreeInv, CollapseRoot
  PROVE  TreeInv'
<1>1. PICK level, loose, short : Sound(level, loose, short)
  BY DEF TreeInv
<1>2. PICK root, child : RootFalls(root, child)
  BY <1>1, CollapseRootIs
<1>3. /\ Pending("after_child_removed") /\ pages[root].is_root /\ root = Top.page /\ Inner(pages, root)
      /\ Kids(pages, root) = {child} /\ Lowered(pages, pages', free_head, root, child)
      /\ stack' = <<>> /\ free_head' = child /\ UNCHANGED <<roots, max_keys>>
  BY <1>2 DEF RootFalls
<1>4. Tree(pages, free_head, max_keys, roots, level, {}, {root})
  BY <1>1, <1>3, RepairOnTop DEF Sound
<1>5. PICK level2 : level2 = LevelBelow(pages, level, root, child)
  OBVIOUS
<1>6. Tree(pages', child, max_keys, roots, level2, {}, {})
  BY <1>3, <1>4, <1>5, RootLowered
<1>7. Sound(level2, {}, {})'
  BY <1>3, <1>6 DEF Sound, Work
<1> QED
  BY <1>7 DEF TreeInv

-----------------------------------------------------------------------------
\* The trees are sound from the start and stay so.

\* After the CREATE TABLEs every page is a root leaf.
LEMMA FreshPages ==
  ASSUME FreshTables
  PROVE  /\ pages \in Seq(Record) /\ DOMAIN pages = 1..Tables + 1 /\ Tables \in Nat
         /\ \A p \in DOMAIN pages :
              /\ pages[p].type = "leaf" /\ pages[p].is_root
              /\ pages[p].children = <<>> /\ pages[p].next = NoPage
              /\ Len(pages[p].keys) <= LeafMaxCells
              /\ pages[p].keys = IF p = CatalogRoot THEN [id \in 1..Tables |-> id] ELSE <<>>
<1>1. Tables \in Nat /\ Tables <= LeafMaxCells /\ LeafMaxCells \in Nat
  BY TablesAssumption, LeafMaxCellsAssumption
<1>2. PICK ids : ids = [id \in 1..Tables |-> id]
  OBVIOUS
<1>3. ids \in Seq(Nat) /\ Len(ids) = Tables
  <2>1. ids \in [1..Tables -> Nat]
    BY <1>1, <1>2
  <2>2. ids \in Seq(Nat)
    BY <1>1, <2>1, SeqDef
  <2>3. DOMAIN ids = 1..Tables
    BY <1>2
  <2> QED
    BY <1>1, <2>2, <2>3, LenProperties
<1>4. PICK catalog, tables : /\ catalog = [EmptyRoot EXCEPT !.keys = ids]
                             /\ tables = [t \in 1..Tables |-> EmptyRoot]
  OBVIOUS
<1>5. /\ catalog \in Record /\ catalog.type = "leaf" /\ catalog.is_root = TRUE
      /\ catalog.children = <<>> /\ catalog.keys = ids /\ catalog.next = NoPage
  <2>1. catalog = [type |-> "leaf", is_root |-> TRUE, parent |-> 0, keys |-> ids, children |-> <<>>, next |-> 0]
    BY <1>4 DEF EmptyRoot, Leaf, NoPage
  <2>2. <<>> \in Seq(Nat) /\ 0 \in Nat
    OBVIOUS
  <2> QED
    BY <1>3, <2>1, <2>2 DEF Record, NoPage
<1>6. /\ EmptyRoot \in Record /\ EmptyRoot.type = "leaf" /\ EmptyRoot.is_root = TRUE
      /\ EmptyRoot.children = <<>> /\ EmptyRoot.keys = <<>> /\ EmptyRoot.next = NoPage
  BY DEF EmptyRoot, Leaf, Record, NoPage
<1>7. tables \in Seq(Record) /\ Len(tables) = Tables
  <2>1. tables \in [1..Tables -> Record] /\ DOMAIN tables = 1..Tables
    BY <1>4, <1>6
  <2>2. tables \in Seq(Record)
    BY <1>1, <2>1, SeqDef
  <2> QED
    BY <1>1, <2>1, <2>2, LenProperties
<1>8. pages = <<catalog>> \o tables
  BY <1>2, <1>4 DEF FreshTables
<1>9. <<catalog>> \in Seq(Record) /\ Len(<<catalog>>) = 1 /\ <<catalog>>[1] = catalog
  BY <1>5
<1>10. /\ pages \in Seq(Record) /\ Len(pages) = 1 + Tables
       /\ \A p \in 1..1 + Tables : pages[p] = IF p <= 1 THEN <<catalog>>[p] ELSE tables[p - 1]
  BY <1>7, <1>8, <1>9, ConcatProperties
<1>11. DOMAIN pages = 1..Tables + 1
  <2>1. DOMAIN pages = 1..Len(pages)
    BY <1>10, LenProperties
  <2> QED
    BY <1>1, <1>10, <2>1
<1>12. ASSUME NEW p \in DOMAIN pages PROVE pages[p] = IF p = CatalogRoot THEN catalog ELSE EmptyRoot
  <2>1. p \in 1..1 + Tables
    BY <1>1, <1>11
  <2>2. CASE p = 1
    BY <1>9, <1>10, <2>1, <2>2 DEF CatalogRoot
  <2>3. CASE p # 1
    <3>1. pages[p] = tables[p - 1] /\ p - 1 \in 1..Tables
      BY <1>1, <1>10, <2>1, <2>3
    <3> QED
      BY <1>4, <2>3, <3>1 DEF CatalogRoot
  <2> QED
    BY <2>2, <2>3
<1>13. ASSUME NEW p \in DOMAIN pages
       PROVE  /\ pages[p].type = "leaf" /\ pages[p].is_root
              /\ pages[p].children = <<>> /\ pages[p].next = NoPage
              /\ Len(pages[p].keys) <= LeafMaxCells
              /\ pages[p].keys = IF p = CatalogRoot THEN [id \in 1..Tables |-> id] ELSE <<>>
  <2>1. CASE p = CatalogRoot
    <3>1. pages[p] = catalog
      BY <1>12, <2>1
    <3> QED
      BY <1>1, <1>2, <1>3, <1>5, <2>1, <3>1
  <2>2. CASE p # CatalogRoot
    <3>1. pages[p] = EmptyRoot
      BY <1>12, <2>2
    <3>2. Len(pages[p].keys) = 0
      BY <1>6, <3>1
    <3> QED
      BY <1>1, <1>6, <2>2, <3>1, <3>2
  <2> QED
    BY <2>1, <2>2
<1> QED
  BY <1>1, <1>10, <1>11, <1>13

LEMMA TreeInit ==
  ASSUME Init
  PROVE  TreeInv
<1>1. /\ pages \in Seq(Record) /\ DOMAIN pages = 1..Tables + 1 /\ Tables \in Nat
      /\ \A p \in DOMAIN pages :
           /\ pages[p].type = "leaf" /\ pages[p].is_root
           /\ pages[p].children = <<>> /\ Len(pages[p].keys) <= LeafMaxCells
  BY FreshPages DEF Init
<1>2. free_head = NoPage /\ roots = 1..Tables + 1 /\ max_keys \in Nat /\ max_keys >= 3 /\ stack = <<>>
  BY BuildsAssumption DEF Init, FreshTables
<1>3. PICK level : level = [p \in DOMAIN pages |-> 0]
  OBVIOUS
<1>4. ASSUME NEW p \in DOMAIN pages PROVE Kids(pages, p) = {}
  BY <1>1 DEF Kids, ToSet
<1>5. Descends(pages, level)
  <2>1. level \in [DOMAIN pages -> 0..0]
    BY <1>3
  <2>2. ASSUME NEW p \in DOMAIN pages PROVE ChildrenCounted(pages[p])
    BY <1>1 DEF ChildrenCounted, IsInjective
  <2> QED
    BY <1>1, <1>3, <1>4, <2>1, <2>2 DEF Descends
<1>6. Shape(pages, level, {})
  BY <1>1, <1>4, <1>5 DEF Shape, Alive
<1>7. FreeChain(pages, free_head)
  <2>1. Listed(pages, free_head, 0, [i \in 1..0 |-> 1])
    BY <1>1, <1>2 DEF Listed, IsInjective
  <2> QED
    BY <2>1 DEF FreeChain
<1>8. Filled(pages, max_keys, {})
  BY <1>1 DEF Filled, Fits
<1>9. roots = {p \in DOMAIN pages : pages[p].is_root}
  BY <1>1, <1>2
<1>10. Sound(level, {}, {})
  BY <1>2, <1>6, <1>7, <1>8, <1>9 DEF Sound, Tree, Work
<1> QED
  BY <1>10 DEF TreeInv

LEMMA TreeStep ==
  ASSUME TreeInv, [Next]_vars
  PROVE  TreeInv'
<1>1. CASE \E root \in UserRoots, key \in Keys : CallInsert(root, key) \/ CallDelete(root, key)
  BY <1>1, CallKeepsTree
<1>2. CASE InsertStep
  BY <1>2, RefuseKeepsTree, InsertIntoLeafKeepsTree, SplitLeafKeepsTree, CreateNewRootKeepsTree,
     AttachToParentKeepsTree, InsertChildKeepsTree, SplitInternalKeepsTree
     DEF InsertStep
<1>3. CASE DeleteStep
  BY <1>3, RefuseKeepsTree, DeleteFromLeafKeepsTree, LeafBorrowLeftKeepsTree, LeafBorrowRightKeepsTree,
     LeafMergeKeepsTree, CollapseRootKeepsTree, KeepNodeKeepsTree, RepairNodeKeepsTree,
     InternalBorrowLeftKeepsTree, InternalBorrowRightKeepsTree, InternalMergeKeepsTree
     DEF DeleteStep
<1>4. CASE UNCHANGED vars
  <2>1. UNCHANGED <<pages, free_head, roots, max_keys, stack>>
    BY <1>4 DEF vars
  <2>2. PICK level, loose, short : Sound(level, loose, short)
    BY DEF TreeInv
  <2>3. Sound(level, loose, short)'
    BY <2>1, <2>2 DEF Sound
  <2> QED
    BY <2>3 DEF TreeInv
<1> QED
  BY <1>1, <1>2, <1>3, <1>4 DEF Next, Step

\* Every page is a well-formed node in every state: typed, linked up and down,
\* in exactly one place, and neither over- nor underfull.
THEOREM TreesStaySound == Spec => []TreeInv
<1>1. Init => TreeInv
  BY TreeInit
<1>2. TreeInv /\ [Next]_vars => TreeInv'
  BY TreeStep
<1> QED
  BY <1>1, <1>2, PTL DEF Spec

LEMMA SoundIsSafe ==
  ASSUME TreeInv
  PROVE  NoFatalExit
<1>1. PICK level, loose, short : Sound(level, loose, short)
  BY DEF TreeInv
<1>2. free_head # NoPage => pages[free_head].type = "free"
  BY <1>1, FreeHead DEF Sound, Tree
<1>3. Pending("table_insert") \/ Pending("table_delete") => pages[Target].type = "leaf"
  BY <1>1, StatementOnTop
<1>4. Pending("leaf_node_rebalance") \/ Pending("internal_node_rebalance") =>
        Top.page \in ToSet(Siblings) /\ Len(Siblings) >= 2
  BY <1>1, SiblingsAre
<1> QED
  BY <1>2, <1>3, <1>4 DEF NoFatalExit

\* None of the checks that end the process on a corrupt tree can fire, whatever
\* statements run: the free list's head is free (pager_allocate_page), every
\* descent ends at a leaf (table_find), and a node in need of repair is a child
\* of the parent it names (child_index_in_parent) and has a sibling to turn to.
THEOREM TreesNeverFatal == Spec => []NoFatalExit
<1>1. TreeInv => NoFatalExit
  BY SoundIsSafe
<1> QED
  BY <1>1, TreesStaySound, PTL

-----------------------------------------------------------------------------
\* What is under a page: the least set that holds it and, with a page, the
\* page's children.

Closed(C) == C \subseteq DOMAIN pages /\ \A p \in C : Kids(pages, p) \subseteq C

LEMMA Under ==
  ASSUME NEW level, Descends(pages, level), NEW page \in DOMAIN pages
  PROVE  /\ Closed(PagesUnder(page)) /\ page \in PagesUnder(page)
         /\ \A C : Closed(C) /\ page \in C => PagesUnder(page) \subseteq C
<1> DEFINE P == DOMAIN pages
           D == SUBSET P
           more(S) == S \cup UNION {ToSet(pages[p].children) : p \in S}
           stop == {S \in D : more(S) = S}
           value == [S \in D |-> S]
           next == [S \in D |-> more(S)]
           rank == [S \in D |-> Cardinality(P \ S)]
<1>1. IsFiniteSet(P) /\ Cardinality(P) \in Nat
  <2>1. P = 1..Len(pages) /\ Len(pages) \in Nat
    BY LenProperties DEF Descends
  <2>2. IsFiniteSet(1..Len(pages))
    BY <2>1, FS_Interval
  <2> QED
    BY <2>1, <2>2, FS_CardinalityType
<1>2. ASSUME NEW S \in D
      PROVE  IsFiniteSet(P \ S) /\ Cardinality(P \ S) \in Nat /\ Cardinality(P \ S) <= Cardinality(P)
  <2>1. P \ S \in SUBSET P
    OBVIOUS
  <2> HIDE DEF P
  <2>2. IsFiniteSet(P \ S) /\ Cardinality(P \ S) <= Cardinality(P)
    BY <1>1, <2>1, FS_Subset
  <2> QED
    BY <2>2, FS_CardinalityType
<1>3. rank \in [D -> 0..Cardinality(P)]
  BY <1>1, <1>2
<1>4. ASSUME NEW S \in D PROVE next[S] = more(S) /\ next[S] \in D /\ S \subseteq next[S]
  <2>1. \A p \in S : ToSet(pages[p].children) \subseteq P
    BY DEF Descends, Kids, Alive
  <2> QED
    BY <2>1
<1>5. ASSUME NEW S \in D \ stop PROVE next[S] \in D /\ rank[next[S]] < rank[S]
  <2>1. PICK T : T = next[S]
    OBVIOUS
  <2>2. T \in D /\ S \subseteq T /\ T # S
    BY <1>4, <2>1
  <2>3. P \ T \in SUBSET (P \ S) /\ P \ T # P \ S
    BY <2>2
  <2>4. Cardinality(P \ T) <= Cardinality(P \ S) /\ Cardinality(P \ T) # Cardinality(P \ S)
    <3> HIDE DEF P, next
    <3> QED
      BY <1>2, <2>3, FS_Subset
  <2>5. Cardinality(P \ T) < Cardinality(P \ S)
    BY <1>2, <2>2, <2>4
  <2> QED
    BY <2>1, <2>2, <2>5
<1> DEFINE body(f) == [S \in SUBSET DOMAIN pages |->
                         LET more1 == S \cup UNION {ToSet(pages[p].children) : p \in S}
                         IN  IF more1 = S THEN S ELSE f[more1]]
           grow == CHOOSE f : f = body(f)
<1>6. ASSUME NEW f PROVE Follows(f, D, stop, value, next) <=> f = body(f)
  <2>1. [S \in D |-> IF S \in stop THEN value[S] ELSE f[next[S]]] = body(f)
    OBVIOUS
  <2> QED
    BY <2>1 DEF Follows
<1>7. PagesUnder(page) = grow[{page}]
  BY DEF PagesUnder
<1> HIDE DEF body
<1>8. Follows(grow, D, stop, value, next)
  <2>1. \E f : Follows(f, D, stop, value, next)
    <3> HIDE DEF D, stop, value, next, rank
    <3> QED
      BY <1>1, <1>3, <1>5, PathExists
  <2> QED
    BY <1>6, <2>1
<1> HIDE DEF grow
<1>9. ASSUME NEW C, Closed(C), page \in C
      PROVE  \E S \in D : S \in stop /\ page \in S /\ S \subseteq C /\ grow[{page}] = S
  <2> DEFINE Q == {S \in D : page \in S /\ S \subseteq C}
  <2>1. Q \in SUBSET D /\ {page} \in Q
    BY <1>9
  <2>2. ASSUME NEW S \in Q \ stop PROVE next[S] \in Q /\ rank[next[S]] < rank[S]
    <3>1. \A p \in S : ToSet(pages[p].children) \subseteq C
      BY <1>9 DEF Closed, Kids
    <3>2. next[S] \subseteq C /\ page \in next[S]
      BY <1>4, <3>1
    <3> QED
      BY <1>5, <3>2
  <2>3. \A S \in Q : \E T \in Q \cap stop : grow[S] = value[T]
    <3> HIDE DEF D, stop, value, next, rank, Q
    <3> QED
      BY <1>1, <1>3, <1>8, <2>1, <2>2, PathEnds
  <2> QED
    BY <2>1, <2>3
<1>10. Closed(P) /\ page \in P
  BY DEF Descends, Closed, Alive
<1>11. Closed(PagesUnder(page)) /\ page \in PagesUnder(page)
  <2>1. PICK S \in D : S \in stop /\ page \in S /\ PagesUnder(page) = S
    BY <1>7, <1>9, <1>10
  <2>2. \A p \in S : ToSet(pages[p].children) \subseteq S
    BY <2>1
  <2> QED
    BY <2>1, <2>2 DEF Closed, Kids
<1>12. ASSUME NEW C, Closed(C), page \in C PROVE PagesUnder(page) \subseteq C
  BY <1>7, <1>9, <1>12
<1> QED
  BY <1>11, <1>12

\* A page at the top of a tree, or of a subtree that no parent knows of.
Topmost(r, loose) == r \in DOMAIN pages /\ (pages[r].is_root \/ r \in loose)

LEMMA TopmostIs ==
  ASSUME NEW level, NEW loose, Shape(pages, level, loose), NEW r, Topmost(r, loose)
  PROVE  Alive(pages, r) /\ r \in DOMAIN pages /\ \A p \in DOMAIN pages : r \notin Kids(pages, p)
  BY DEF Shape, Descends, Topmost

\* Under a top page, a page goes with its parent.
LEMMA UnderByParent ==
  ASSUME NEW level, NEW loose, Shape(pages, level, loose), NEW r, Topmost(r, loose),
         NEW p \in DOMAIN pages, NEW c \in Kids(pages, p)
  PROVE  c \in PagesUnder(r) <=> p \in PagesUnder(r)
<1> DEFINE C == {q \in PagesUnder(r) : q = r \/ pages[q].parent \in PagesUnder(r)}
<1>1. /\ Closed(PagesUnder(r)) /\ r \in PagesUnder(r)
      /\ \A S : Closed(S) /\ r \in S => PagesUnder(r) \subseteq S
  BY TopmostIs, Under DEF Shape
<1>2. Closed(C) /\ r \in C
  <2>1. ASSUME NEW q \in C, NEW d \in Kids(pages, q) PROVE d \in C
    <3>1. d \in PagesUnder(r) /\ pages[d].parent = q /\ q \in PagesUnder(r)
      BY <1>1 DEF Closed, Shape
    <3> QED
      BY <3>1
  <2> QED
    BY <1>1, <2>1 DEF Closed
<1>3. c # r /\ pages[c].parent = p
  BY TopmostIs DEF Shape
<1>4. ASSUME c \in PagesUnder(r) PROVE p \in PagesUnder(r)
  <2>1. c \in C
    <3> HIDE DEF C
    <3> QED
      BY <1>1, <1>2, <1>4
  <2> QED
    BY <1>3, <2>1
<1>5. ASSUME p \in PagesUnder(r) PROVE c \in PagesUnder(r)
  BY <1>1, <1>5 DEF Closed
<1> QED
  BY <1>4, <1>5

LEMMA UnderAlive ==
  ASSUME NEW level, Descends(pages, level), NEW r, Alive(pages, r), NEW p \in PagesUnder(r)
  PROVE  Alive(pages, p)
<1> DEFINE C == {q \in DOMAIN pages : Alive(pages, q)}
<1>1. Closed(C) /\ r \in C
  BY DEF Closed, Alive, Descends
<1>2. r \in DOMAIN pages
  BY DEF Alive
<1> HIDE DEF C
<1>3. PagesUnder(r) \subseteq C
  BY <1>1, <1>2, Under
<1> QED
  BY <1>3 DEF C

\* Two trees share no page: the first, less what it shared, would be closed too.
LEMMA TreesApart ==
  ASSUME NEW level, NEW loose, Shape(pages, level, loose),
         NEW r, Topmost(r, loose), NEW s, Topmost(s, loose), r # s
  PROVE  PagesUnder(r) \cap PagesUnder(s) = {}
<1>1. /\ Closed(PagesUnder(r)) /\ r \in PagesUnder(r)
      /\ \A S : Closed(S) /\ r \in S => PagesUnder(r) \subseteq S
      /\ Closed(PagesUnder(s))
      /\ \A S : Closed(S) /\ s \in S => PagesUnder(s) \subseteq S
      /\ s \in PagesUnder(s)
  BY TopmostIs, Under DEF Shape
<1>2. r \notin PagesUnder(s)
  <2> DEFINE C == PagesUnder(s) \ {r}
  <2>1. Closed(C) /\ s \in C
    BY <1>1, TopmostIs DEF Closed
  <2>2. PagesUnder(s) \subseteq C
    <3> HIDE DEF C
    <3> QED
      BY <1>1, <2>1
  <2> QED
    BY <2>2
<1> DEFINE R == PagesUnder(r) \ PagesUnder(s)
<1>3. Closed(R) /\ r \in R
  <2>1. ASSUME NEW p \in R, NEW c \in Kids(pages, p) PROVE c \in R
    <3>1. p \in DOMAIN pages /\ c \in PagesUnder(r)
      BY <1>1 DEF Closed
    <3>2. c \in PagesUnder(s) <=> p \in PagesUnder(s)
      BY <3>1, UnderByParent
    <3> QED
      BY <3>1, <3>2
  <2> QED
    BY <1>1, <1>2, <2>1 DEF Closed
<1>4. PagesUnder(r) \subseteq R
  <2> HIDE DEF R
  <2> QED
    BY <1>1, <1>3
<1> QED
  BY <1>4

\* Every page in use is under some top page: of those that are not, none is
\* highest.
LEMMA AllUnder ==
  ASSUME NEW level, NEW loose, Shape(pages, level, loose), NEW p, Alive(pages, p)
  PROVE  \E r : Topmost(r, loose) /\ p \in PagesUnder(r)
<1> DEFINE Lost == {q \in DOMAIN pages : Alive(pages, q) /\ \A r : Topmost(r, loose) => q \notin PagesUnder(r)}
           Levels == {level[q] : q \in Lost}
<1> SUFFICES ASSUME Lost # {} PROVE FALSE
  BY DEF Alive
<1>1. PICK top \in Nat : level \in [DOMAIN pages -> 0..top]
  BY DEF Shape, Descends
<1>2. PICK q \in Lost : \A x \in Lost : level[x] <= level[q]
  <2>1. Levels \in SUBSET Nat /\ Levels # {} /\ \A k \in Levels : k <= top
    BY <1>1
  <2>2. \E m \in Levels : \A k \in Levels : k <= m
    <3> HIDE DEF Levels
    <3> QED
      BY <1>1, <2>1, GreatestOf
  <2> QED
    BY <2>2
<1>3. ~Topmost(q, loose)
  <2> SUFFICES ASSUME Topmost(q, loose) PROVE FALSE
    OBVIOUS
  <2>1. q \in PagesUnder(q)
    BY Under DEF Shape
  <2> QED
    BY <1>2, <2>1
<1>4. PICK parent : parent \in DOMAIN pages /\ q \in Kids(pages, parent)
  BY <1>2, <1>3 DEF Shape, Topmost
<1>5. Alive(pages, parent) /\ level[parent] = level[q] + 1 /\ level[q] \in Nat
  <2>1. Inner(pages, parent)
    BY <1>4, OnlyInnerHasKids DEF Shape
  <2>2. level[parent] = level[q] + 1
    BY <1>4 DEF Shape, Descends
  <2>3. level[q] \in Nat
    BY <1>1
  <2> QED
    BY <2>1, <2>2, <2>3 DEF Inner, Alive
<1>6. parent \notin Lost
  BY <1>2, <1>5
<1>7. PICK r : Topmost(r, loose) /\ parent \in PagesUnder(r)
  BY <1>4, <1>5, <1>6
<1>8. q \in PagesUnder(r)
  BY <1>4, <1>7, UnderByParent
<1> QED
  BY <1>7, <1>8

\* Following the free list from its head meets the free pages, last listed first.
LEMMA FreeListIs ==
  ASSUME FreeChain(pages, free_head), pages \in Seq(Record)
  PROVE  ToSet(FreeList) = {p \in DOMAIN pages : pages[p].type = "free"}
<1>n. PICK n \in Nat : \E chain : Listed(pages, free_head, n, chain)
  BY DEF FreeChain
<1>1. PICK chain : Listed(pages, free_head, n, chain)
  BY <1>n
<1> DEFINE P == DOMAIN pages
           D == Seq(P)
           after == [seen \in D |-> IF seen = <<>> THEN free_head ELSE pages[Last(seen)].next]
<1>2. P = 1..Len(pages) /\ Len(pages) \in Nat /\ IsFiniteSet(P)
  <2>1. P = 1..Len(pages) /\ Len(pages) \in Nat
    BY LenProperties
  <2>2. IsFiniteSet(1..Len(pages))
    BY <2>1, FS_Interval
  <2> QED
    BY <2>1, <2>2
<1> DEFINE body(f) == [seen \in Seq(DOMAIN pages) |->
                         LET next1 == IF seen = <<>> THEN free_head ELSE pages[Last(seen)].next
                         IN  IF next1 \notin DOMAIN pages \/ next1 \in ToSet(seen) THEN seen
                             ELSE f[Append(seen, next1)]]
           list == CHOOSE f : f = body(f)
<1>3. ASSUME NEW f PROVE Walked(f, P, after) <=> f = body(f)
  <2>1. body(f) = [seen \in Seq(P) |-> IF after[seen] \notin P \/ after[seen] \in ToSet(seen) THEN seen
                                      ELSE f[Append(seen, after[seen])]]
    OBVIOUS
  <2> QED
    BY <2>1 DEF Walked
<1>7. FreeList = list[<<>>]
  BY DEF FreeList
<1> HIDE DEF body
<1>8. EndsWithin(list, P, after)
  <2>1. \E f : Walked(f, P, after)
    <3> HIDE DEF P, after
    <3> QED
      BY <1>2, WalkIs
  <2>2. Walked(list, P, after)
    BY <1>3, <2>1
  <2> HIDE DEF P, after, list
  <2> QED
    BY <1>2, <2>2, WalkIs
<1> HIDE DEF list
\* The sequences met on the way.
<1> DEFINE Q == {seen \in D : \E k \in 0..n : Len(seen) = k /\ \A i \in 1..k : seen[i] = chain[n + 1 - i]}
<1>9. ASSUME NEW seen \in Q
      PROVE  \/ Len(seen) = n /\ \A i \in 1..n : seen[i] = chain[n + 1 - i]
             \/ after[seen] = chain[n - Len(seen)] /\ Append(seen, after[seen]) \in Q
  <2>1. PICK k \in 0..n : Len(seen) = k /\ \A i \in 1..k : seen[i] = chain[n + 1 - i]
    OBVIOUS
  <2> SUFFICES ASSUME k # n PROVE after[seen] = chain[n - k] /\ Append(seen, after[seen]) \in Q
    BY <2>1
  <2>2. seen \in Seq(P) /\ DOMAIN seen = 1..k
    BY <2>1, LenProperties
  <2>3. n - k \in 1..n /\ chain[n - k] \in P
    BY <1>1, <2>1 DEF Listed
  <2>4. after[seen] = chain[n - k]
    <3>1. CASE k = 0
      <4>1. seen = <<>>
        BY <2>1, <2>2, <3>1, EmptySeq
      <4> QED
        BY <1>1, <2>3, <3>1, <4>1 DEF Listed
    <3>2. CASE k # 0
      <4>1. seen # <<>> /\ Last(seen) = chain[n + 1 - k]
        BY <2>1, <3>2 DEF Last
      <4>2. n + 1 - k \in 1..n /\ n + 1 - k # 1 /\ (n + 1 - k) - 1 = n - k
        BY <2>1, <3>2
      <4> HIDE DEF P
      <4>3. pages[chain[n + 1 - k]].next = chain[n - k]
        BY <1>1, <4>2 DEF Listed
      <4> QED
        BY <4>1, <4>3
    <3> QED
      BY <3>1, <3>2
  <2>6. Append(seen, chain[n - k]) \in Q
    <3>1. PICK x, longer : x = chain[n - k] /\ longer = Append(seen, x)
      OBVIOUS
    <3>2. /\ longer \in Seq(P) /\ Len(longer) = k + 1 /\ longer[k + 1] = x
          /\ \A i \in 1..k : longer[i] = seen[i]
      <4> HIDE DEF P
      <4> QED
        BY <2>1, <2>2, <2>3, <3>1, AppendProperties
    <3>3. \A i \in 1..k + 1 : longer[i] = chain[n + 1 - i]
      <4> TAKE i \in 1..k + 1
      <4>1. CASE i = k + 1
        <5>1. n + 1 - i = n - k
          BY <4>1
        <5> QED
          BY <3>1, <3>2, <4>1, <5>1
      <4>2. CASE i # k + 1
        <5>1. i \in 1..k
          BY <4>2
        <5> QED
          BY <2>1, <3>2, <5>1
      <4> QED
        BY <4>1, <4>2
    <3>4. k + 1 \in 0..n
      BY <2>3
    <3> QED
      BY <3>1, <3>2, <3>3, <3>4
  <2> QED
    BY <2>1, <2>3, <2>4, <2>6
<1>10. PICK seen \in Q : Len(seen) = n /\ (\A i \in 1..n : seen[i] = chain[n + 1 - i]) /\ FreeList = seen
  <2>1. Q \in SUBSET Seq(P) /\ <<>> \in Q
    OBVIOUS
  <2>2. \A s \in Q : after[s] \in P /\ after[s] \notin ToSet(s) => Append(s, after[s]) \in Q
    <3> SUFFICES ASSUME NEW s \in Q, after[s] \in P, Append(s, after[s]) \notin Q PROVE FALSE
      OBVIOUS
    <3>1. Len(s) = n /\ \A i \in 1..n : s[i] = chain[n + 1 - i]
      BY <1>9
    \* Past the last free page the list is at its end.
    <3>2. after[s] = NoPage
      <4>1. CASE n = 0
        <5>1. s = <<>>
          BY <3>1, <4>1, EmptySeq
        <5> QED
          BY <1>1, <4>1, <5>1 DEF Listed
      <4>2. CASE n # 0
        <5>1. s # <<>> /\ Last(s) = chain[1] /\ 1 \in 1..n
          BY <3>1, <4>2 DEF Last
        <5>2. pages[chain[1]].next = NoPage
          BY <1>1, <5>1 DEF Listed
        <5> QED
          BY <5>1, <5>2
      <4> QED
        BY <4>1, <4>2
    <3> QED
      BY <1>2, <3>2 DEF NoPage
  <2>3. list[<<>>] \in Q /\ (after[list[<<>>]] \notin P \/ after[list[<<>>]] \in ToSet(list[<<>>]))
    <3> HIDE DEF P, Q, after
    <3> QED
      BY <1>8, <2>1, <2>2 DEF EndsWithin
  <2>4. PICK q \in Q : FreeList = q /\ (after[q] \notin P \/ after[q] \in ToSet(q))
    <3> HIDE DEF P, Q, after
    <3> QED
      BY <1>7, <2>3
  <2>5. PICK k \in 0..n : Len(q) = k /\ \A i \in 1..k : q[i] = chain[n + 1 - i]
    OBVIOUS
  <2>6. ASSUME k # n PROVE FALSE
    <3>1. after[q] = chain[n - k]
      BY <1>9, <2>5, <2>6
    <3>2. n - k \in 1..n /\ chain[n - k] \in P
      BY <1>1, <2>5, <2>6 DEF Listed
    <3>3. q \in Seq(P) /\ DOMAIN q = 1..k
      BY <2>5, LenProperties
    <3> SUFFICES ASSUME NEW i \in 1..k, q[i] = chain[n - k] PROVE FALSE
      BY <2>4, <3>1, <3>2, <3>3 DEF ToSet
    <3>4. PICK a, b : a = n + 1 - i /\ b = n - k
      OBVIOUS
    <3>5. chain[a] = chain[b] /\ a \in 1..n /\ b \in 1..n /\ a # b
      BY <2>5, <3>2, <3>4
    <3>6. DOMAIN chain = 1..n /\ IsInjective(chain)
      BY <1>1 DEF Listed
    <3> QED
      BY <3>5, <3>6 DEF IsInjective
  <2> QED
    BY <2>4, <2>5, <2>6
<1>11. ToSet(seen) = {chain[i] : i \in 1..n}
  <2>1. DOMAIN seen = 1..n
    <3>1. seen \in Seq(P)
      OBVIOUS
    <3> QED
      BY <1>10, <3>1, LenProperties
  <2>2. ASSUME NEW i \in 1..n PROVE seen[i] \in {chain[j] : j \in 1..n}
    <3>1. n + 1 - i \in 1..n
      OBVIOUS
    <3> QED
      BY <1>10, <3>1
  <2>3. ASSUME NEW j \in 1..n PROVE \E i \in 1..n : seen[i] = chain[j]
    <3>1. n + 1 - j \in 1..n /\ n + 1 - (n + 1 - j) = j
      OBVIOUS
    <3>2. seen[n + 1 - j] = chain[n + 1 - (n + 1 - j)]
      BY <1>10, <3>1
    <3> QED
      BY <3>1, <3>2
  <2> HIDE DEF Q
  <2> QED
    BY <2>1, <2>2, <2>3 DEF ToSet
<1> HIDE DEF P, D, after, Q
<1>12. {chain[i] : i \in 1..n} = {p \in DOMAIN pages : pages[p].type = "free"}
  BY <1>1 DEF Listed
<1> QED
  BY <1>10, <1>11, <1>12

\* The pages no parent has been told of are those the stack names.
LEMMA UnattachedIs ==
  ASSUME NEW level, NEW loose, NEW short, Sound(level, loose, short)
  PROVE  Unattached = loose
<1>1. \A p : Alive(pages, p) => p # NoPage
  <2>1. DOMAIN pages = 1..Len(pages) /\ Len(pages) \in Nat
    BY TreeTyped DEF Sound
  <2> QED
    BY <2>1 DEF Alive, NoPage
<1>2. CASE stack = <<>> /\ loose = {}
  BY <1>2 DEF Unattached
<1>3. CASE \E c : stack = <<c>> /\ OneCall(c, pages, max_keys, roots, level, loose, short)
  <2>1. PICK c : stack = <<c>> /\ OneCall(c, pages, max_keys, roots, level, loose, short)
    BY <1>3
  <2>2. Unattached = {c.child} \ {NoPage}
    <3>1. DOMAIN stack = {1} /\ stack[1] = c
      BY <2>1
    <3> QED
      BY <3>1 DEF Unattached
  <2> QED
    BY <1>1, <2>1, <2>2 DEF OneCall, StatementCall, AttachCall, PlaceCall, RepairCall
<1>4. CASE \E c, d : stack = <<c, d>> /\ TwoCalls(c, d, pages, max_keys, level, loose, short)
  <2>1. PICK c, d : stack = <<c, d>> /\ TwoCalls(c, d, pages, max_keys, level, loose, short)
    BY <1>4
  <2>2. Unattached = {c.child, d.child} \ {NoPage}
    <3>1. DOMAIN stack = {1, 2} /\ stack[1] = c /\ stack[2] = d
      BY <2>1
    <3> QED
      BY <3>1 DEF Unattached
  <2> QED
    BY <1>1, <2>1, <2>2 DEF TwoCalls, AttachCall, PlaceCall
<1> QED
  BY <1>2, <1>3, <1>4 DEF Sound, Work

LEMMA SoundIsOwned ==
  ASSUME TreeInv
  PROVE  EveryPageOwnedOnce
<1>1. PICK level, loose, short : Sound(level, loose, short)
  BY DEF TreeInv
<1>2. /\ Shape(pages, level, loose) /\ Descends(pages, level) /\ pages \in Seq(Record)
      /\ FreeChain(pages, free_head) /\ roots = {p \in DOMAIN pages : pages[p].is_root}
  BY <1>1, TreeTyped DEF Sound, Tree
<1>3. \A r : r \in roots \cup Unattached <=> Topmost(r, loose)
  BY <1>1, <1>2, UnattachedIs DEF Topmost, Shape, Alive
<1>4. ToSet(FreeList) = {p \in DOMAIN pages : pages[p].type = "free"}
  BY <1>2, FreeListIs
<1>5. \A r, s \in roots \cup Unattached : r # s => PagesUnder(r) \cap PagesUnder(s) = {}
  BY <1>2, <1>3, TreesApart
<1>6. \A r \in roots \cup Unattached :
        PagesUnder(r) \subseteq DOMAIN pages /\ \A p \in PagesUnder(r) : pages[p].type # "free"
  <2> TAKE r \in roots \cup Unattached
  <2>1. Alive(pages, r) /\ r \in DOMAIN pages
    BY <1>2, <1>3, TopmostIs
  <2>2. \A p \in PagesUnder(r) : Alive(pages, p)
    BY <1>2, <2>1, UnderAlive
  <2> QED
    BY <2>2 DEF Alive
<1>7. \A p \in DOMAIN pages : p \in ToSet(FreeList) \/ \E r \in roots \cup Unattached : p \in PagesUnder(r)
  <2> TAKE p \in DOMAIN pages
  <2>1. CASE Alive(pages, p)
    BY <1>2, <1>3, <2>1, AllUnder
  <2>2. CASE ~Alive(pages, p)
    BY <1>4, <2>2 DEF Alive
  <2> QED
    BY <2>1, <2>2
<1> DEFINE owned == [r \in roots \cup Unattached |-> PagesUnder(r)]
           free == ToSet(FreeList)
<1>8. /\ DOMAIN owned = roots \cup Unattached /\ \A r \in roots \cup Unattached : owned[r] = PagesUnder(r)
      /\ free = {p \in DOMAIN pages : pages[p].type = "free"}
  BY <1>4
<1> HIDE DEF owned, free
<1>9. /\ \A r, s \in DOMAIN owned : r # s => owned[r] \cap owned[s] = {}
      /\ \A r \in DOMAIN owned : owned[r] \cap free = {}
  BY <1>4, <1>5, <1>6, <1>8
<1>10. (UNION {owned[r] : r \in DOMAIN owned}) \cup free = DOMAIN pages
  <2>1. ASSUME NEW r \in DOMAIN owned PROVE owned[r] \subseteq DOMAIN pages
    BY <1>6, <1>8
  <2>2. ASSUME NEW p \in DOMAIN pages, p \notin free PROVE \E r \in DOMAIN owned : p \in owned[r]
    BY <1>7, <1>8, <2>2 DEF free
  <2>3. free \subseteq DOMAIN pages
    BY <1>4, <1>8
  <2> QED
    BY <2>1, <2>2, <2>3
<1> QED
  BY <1>8, <1>9, <1>10 DEF EveryPageOwnedOnce, owned, free

\* Every page belongs to exactly one owner whatever statements have run, and at
\* every call of the statement at work: no page is handed out twice
\* (pager_allocate_page) and none is lost (pager_free_page), whichever table
\* took it, split it or freed it.
THEOREM PagesStayOwned == Spec => []EveryPageOwnedOnce
<1>1. TreeInv => EveryPageOwnedOnce
  BY SoundIsOwned
<1> QED
  BY <1>1, TreesStaySound, PTL

-----------------------------------------------------------------------------
\* Between statements the trees are balanced.

\* What Balanced says of one tree.
DepthFrom(d) ==
  d = [p \in {q \in DOMAIN pages : pages[q].type # "free"} |->
         IF pages[p].is_root THEN 0 ELSE 1 + d[pages[p].parent]]

\* The climb to the root counts the levels: one function does so, and any that
\* does gives a page the levels its root is above it.
LEMMA DepthExists ==
  ASSUME NEW level, Shape(pages, level, {})
  PROVE  \E d : DepthFrom(d)
<1> DEFINE D == {q \in DOMAIN pages : pages[q].type # "free"}
           stop == {q \in D : pages[q].is_root}
           value == [q \in D |-> q]
           next == [q \in D |-> pages[q].parent]
<1>1. PICK top \in Nat : level \in [DOMAIN pages -> 0..top]
  BY DEF Shape, Descends
<1> DEFINE rank == [q \in D |-> top - level[q]]
<1>2. rank \in [D -> 0..top]
  BY <1>1
<1>3. ASSUME NEW q \in D \ stop
      PROVE  next[q] = pages[q].parent /\ next[q] \in D /\ level[next[q]] = level[q] + 1
  <2>1. pages[q].parent \in DOMAIN pages /\ q \in Kids(pages, pages[q].parent)
    BY DEF Shape, Alive
  <2>2. Inner(pages, pages[q].parent) /\ level[pages[q].parent] = level[q] + 1
    BY <2>1, OnlyInnerHasKids DEF Shape, Descends
  <2> QED
    BY <2>1, <2>2 DEF Inner
<1>4. \A q \in D : level[q] \in Nat
  BY <1>1
<1>5. \A q \in D \ stop : next[q] \in D /\ rank[next[q]] < rank[q]
  BY <1>3, <1>4
<1>6. PICK r : Follows(r, D, stop, value, next)
  <2> HIDE DEF D, stop, value, next, rank
  <2> QED
    BY <1>1, <1>2, <1>5, PathExists
<1>7. \A q \in D : \E s \in D \cap stop : r[q] = value[s]
  <2>1. \A q \in D \ stop : next[q] \in D /\ rank[next[q]] < rank[q]
    BY <1>5
  <2>2. D \in SUBSET D
    OBVIOUS
  <2> HIDE DEF D, stop, value, next, rank
  <2> QED
    BY <1>1, <1>2, <1>6, <2>1, <2>2, PathEnds
<1> DEFINE d == [q \in D |-> level[r[q]] - level[q]]
<1>8. ASSUME NEW q \in D PROVE d[q] = IF pages[q].is_root THEN 0 ELSE 1 + d[pages[q].parent]
  <2>1. r[q] = IF q \in stop THEN q ELSE r[next[q]]
    BY <1>6 DEF Follows
  <2>2. CASE q \in stop
    BY <1>4, <2>1, <2>2
  <2>3. CASE q \notin stop
    <3>1. r[q] = r[pages[q].parent] /\ pages[q].parent \in D /\ level[pages[q].parent] = level[q] + 1
      BY <1>3, <2>1, <2>3
    <3>2. r[q] \in D
      BY <1>7
    <3> QED
      BY <1>4, <2>3, <3>1, <3>2
  <2> QED
    BY <2>2, <2>3
<1>9. DepthFrom(d)
  <2>1. d = [q \in D |-> IF pages[q].is_root THEN 0 ELSE 1 + d[pages[q].parent]]
    BY <1>8
  <2> QED
    BY <2>1 DEF DepthFrom
<1> QED
  BY <1>9

LEMMA DepthIs ==
  ASSUME NEW level, Shape(pages, level, {}), NEW root \in DOMAIN pages, pages[root].is_root,
         NEW d, DepthFrom(d), NEW p \in PagesUnder(root)
  PROVE  d[p] = level[root] - level[p]
<1> DEFINE C == {q \in DOMAIN pages : Alive(pages, q) /\ d[q] = level[root] - level[q]}
<1>1. \A q \in DOMAIN pages : level[q] \in Nat
  BY DEF Shape, Descends
<1>2. \A q \in DOMAIN pages : Alive(pages, q) =>
        d[q] = IF pages[q].is_root THEN 0 ELSE 1 + d[pages[q].parent]
  BY DEF DepthFrom, Alive
<1>3. root \in C
  <2>1. Alive(pages, root)
    BY DEF Shape
  <2> QED
    BY <1>1, <1>2, <2>1
<1>4. ASSUME NEW q \in C, NEW c \in Kids(pages, q) PROVE c \in C
  <2>1. Alive(pages, c) /\ ~pages[c].is_root /\ level[q] = level[c] + 1 /\ pages[c].parent = q /\ c \in DOMAIN pages
    BY DEF Shape, Descends, Alive
  <2>2. d[c] = 1 + d[q] /\ d[q] = level[root] - level[q]
    BY <1>2, <2>1
  <2> QED
    BY <1>1, <2>1, <2>2
<1>5. Closed(C)
  BY <1>4 DEF Closed
<1> HIDE DEF C
<1>6. PagesUnder(root) \subseteq C
  BY <1>3, <1>5, Under DEF Shape
<1> QED
  BY <1>6 DEF C

\* A subtree has a leaf: its lowest page.
LEMMA LeafUnder ==
  ASSUME NEW level, Descends(pages, level), NEW r, Alive(pages, r)
  PROVE  \E p \in PagesUnder(r) : pages[p].type = "leaf"
<1> DEFINE Levels == {level[p] : p \in PagesUnder(r)}
<1>1. Closed(PagesUnder(r)) /\ r \in PagesUnder(r) /\ PagesUnder(r) \subseteq DOMAIN pages
  BY Under DEF Alive, Closed
<1>2. \A p \in DOMAIN pages : level[p] \in Nat
  BY DEF Descends
<1>3. PICK p \in PagesUnder(r) : \A q \in PagesUnder(r) : level[p] <= level[q]
  <2>1. Levels \in SUBSET Nat /\ Levels # {}
    BY <1>1, <1>2
  <2>2. \E m \in Levels : \A k \in Levels : m <= k
    <3> HIDE DEF Levels
    <3> QED
      BY <2>1, LeastOf
  <2> QED
    BY <2>2
<1>4. Alive(pages, p)
  BY UnderAlive
<1>5. pages[p].type # "internal"
  <2> SUFFICES ASSUME pages[p].type = "internal" PROVE FALSE
    OBVIOUS
  <2>1. Inner(pages, p) /\ Len(pages[p].keys) \in Nat
    BY <1>4, PageIs DEF Inner, Alive, Descends
  <2>2. 1 \in 1..Len(pages[p].keys) + 1
    BY <2>1
  <2>3. PICK c \in Kids(pages, p) : TRUE
    BY <2>1, <2>2, ChildIsBelow
  <2>4. level[p] = level[c] + 1 /\ c \in PagesUnder(r)
    BY <1>1 DEF Descends, Closed
  <2> QED
    BY <1>1, <1>2, <1>3, <2>4
<1>6. pages[p].type \in {"leaf", "internal", "free"}
  BY <1>1, PageIs DEF Descends
<1> QED
  BY <1>4, <1>5, <1>6 DEF Alive

LEMMA SoundIsBalanced ==
  ASSUME TreeInv
  PROVE  Balanced
<1> SUFFICES ASSUME Idle, NEW root \in roots
    PROVE  LET depth[p \in {q \in DOMAIN pages : pages[q].type # "free"}] ==
                 IF pages[p].is_root THEN 0 ELSE 1 + depth[pages[p].parent]
               under == PagesUnder(root)
           IN  /\ pages[root].is_root /\ \A p \in under \ {root} : ~pages[p].is_root
               /\ \A p \in under : \A c \in ToSet(pages[p].children) : pages[c].parent = p
               /\ Cardinality({depth[p] : p \in {q \in under : pages[q].type = "leaf"}}) = 1
               /\ \A p \in under \ {root} :
                    Len(pages[p].keys) >= IF pages[p].type = "leaf" THEN LeafMinCells
                                          ELSE InternalMinKeys(max_keys)
               /\ pages[root].type = "internal" => pages[root].keys # <<>>
  BY DEF Balanced
<1>1. PICK level, loose, short : Sound(level, loose, short)
  BY DEF TreeInv
<1>2. loose = {} /\ short = {}
  BY <1>1, Calls DEF Sound, Work, Idle
<1>3. /\ Shape(pages, level, {}) /\ Descends(pages, level) /\ pages \in Seq(Record)
      /\ roots = {p \in DOMAIN pages : pages[p].is_root}
      /\ \A p \in DOMAIN pages : Fits(pages[p], max_keys, 0)
  BY <1>1, <1>2, TreeTyped DEF Sound, Tree, Filled
<1>4. root \in DOMAIN pages /\ pages[root].is_root /\ Alive(pages, root)
  BY <1>3 DEF Shape
<1>5. /\ Closed(PagesUnder(root)) /\ root \in PagesUnder(root)
      /\ \A C : Closed(C) /\ root \in C => PagesUnder(root) \subseteq C
  BY <1>3, <1>4, Under
<1>6. \A p \in PagesUnder(root) : p \in DOMAIN pages /\ Alive(pages, p)
  BY <1>3, <1>4, <1>5, UnderAlive DEF Closed
<1>7. \A p \in PagesUnder(root) \ {root} : ~pages[p].is_root
  <2> DEFINE C == {p \in PagesUnder(root) : p = root \/ ~pages[p].is_root}
  <2>1. Closed(C) /\ root \in C
    BY <1>3, <1>5 DEF Closed, Descends
  <2>2. PagesUnder(root) \subseteq C
    <3> HIDE DEF C
    <3> QED
      BY <1>5, <2>1
  <2> QED
    BY <2>2
<1>8. \A p \in PagesUnder(root) : \A c \in ToSet(pages[p].children) : pages[c].parent = p
  BY <1>3, <1>6 DEF Shape, Kids
<1>9. \A p \in PagesUnder(root) \ {root} :
        Len(pages[p].keys) >= IF pages[p].type = "leaf" THEN LeafMinCells ELSE InternalMinKeys(max_keys)
  <2> TAKE p \in PagesUnder(root) \ {root}
  <2>1. /\ Fits(pages[p], max_keys, 0) /\ ~pages[p].is_root /\ Len(pages[p].keys) \in Nat
        /\ pages[p].type = "leaf" \/ pages[p].type = "internal"
    BY <1>3, <1>6, <1>7, PageIs DEF Alive
  <2> QED
    BY <2>1 DEF Fits
<1>10. pages[root].type = "internal" => pages[root].keys # <<>>
  <2>1. Fits(pages[root], max_keys, 0)
    BY <1>3, <1>4
  <2> QED
    BY <1>4, <2>1 DEF Fits
<1> DEFINE depth == CHOOSE d : DepthFrom(d)
<1>11. DepthFrom(depth)
  BY <1>3, DepthExists
<1>12. {depth[p] : p \in {q \in PagesUnder(root) : pages[q].type = "leaf"}} = {level[root]}
  <2>1. ASSUME NEW p \in PagesUnder(root), pages[p].type = "leaf" PROVE depth[p] = level[root]
    <3>1. level[p] = 0 /\ level[root] \in Nat
      BY <1>3, <1>4, <1>6, <2>1 DEF Descends
    <3>2. depth[p] = level[root] - level[p]
      <4> HIDE DEF depth
      <4> QED
        BY <1>3, <1>4, <1>11, DepthIs
    <3> QED
      BY <3>1, <3>2
  <2>2. \E p \in PagesUnder(root) : pages[p].type = "leaf"
    BY <1>3, <1>4, LeafUnder
  <2> HIDE DEF depth
  <2> QED
    BY <2>1, <2>2
<1>13. Cardinality({depth[p] : p \in {q \in PagesUnder(root) : pages[q].type = "leaf"}}) = 1
  <2> HIDE DEF depth
  <2> QED
    BY <1>12, FS_Singleton
<1> QED
  BY <1>4, <1>7, <1>8, <1>9, <1>10, <1>13 DEF DepthFrom

\* Between statements, and so after any sequence of inserts and deletes, every
\* leaf of a tree is as deep as the others, every node but a root is at its
\* minimum fill or above, and every node names its parent: splits, borrows,
\* merges and collapses together keep what btree.c's header comments promise.
THEOREM TreesStayBalanced == Spec => []Balanced
<1>1. TreeInv => Balanced
  BY SoundIsBalanced
<1> QED
  BY <1>1, TreesStaySound, PTL

-----------------------------------------------------------------------------
\* A statement on one table leaves the pages of the others alone.

\* The pages U of a tree that no statement is at work in.
Elsewhere(U, loose) ==
  /\ KeepsTogether(pages, U) /\ \A p \in U : Alive(pages, p)
  /\ U \cap loose = {} /\ Top.page \notin U /\ Last(stack).page \notin U

\* The step neither changes a page of U nor goes on to work on one.
LeavesAlone(U) ==
  Same(pages, pages', U) /\ (stack' = <<>> \/ Last(stack').page \notin U)

LEMMA LastCall ==
  /\ \A c : Last(<<c>>) = c
  /\ \A c, d : Last(<<c, d>>) = d
  BY DEF Last

LEMMA OtherTree ==
  ASSUME NEW level, NEW loose, NEW short, Sound(level, loose, short), ~Idle,
         NEW root \in roots, ~AtWorkIn(root), NEW U, U = PagesUnder(root)
  PROVE  Elsewhere(U, loose)
<1>1. Shape(pages, level, loose) /\ Descends(pages, level) /\ roots = {p \in DOMAIN pages : pages[p].is_root}
  BY TreeTyped DEF Sound, Tree
<1>2. Topmost(root, loose) /\ Alive(pages, root)
  BY <1>1, TopmostIs DEF Topmost
<1>3. KeepsTogether(pages, U) /\ \A p \in U : Alive(pages, p)
  <2>1. \A p \in DOMAIN pages : \A c \in Kids(pages, p) : c \in U <=> p \in U
    BY <1>1, <1>2, UnderByParent
  <2>2. U \subseteq DOMAIN pages
    BY <1>1, <1>2, Under DEF Closed, Topmost
  <2>3. \A p \in U : Alive(pages, p)
    BY <1>1, <1>2, UnderAlive
  <2> QED
    BY <2>1, <2>2, <2>3 DEF KeepsTogether
<1>4. U \cap loose = {}
  <2> SUFFICES ASSUME NEW c \in U, c \in loose PROVE FALSE
    OBVIOUS
  <2>1. Topmost(c, loose) /\ c \in PagesUnder(c) /\ c # root
    <3>1. Alive(pages, c) /\ ~pages[c].is_root /\ c \in DOMAIN pages
      BY <1>1 DEF Shape, Alive
    <3>2. c \in PagesUnder(c)
      BY <1>1, <3>1, Under
    <3> QED
      BY <1>1, <3>1, <3>2 DEF Topmost
  <2>2. PagesUnder(root) \cap PagesUnder(c) = {}
    BY <1>1, <1>2, <2>1, TreesApart
  <2> QED
    BY <2>1, <2>2
<1>5. Last(stack).page \notin U
  BY DEF AtWorkIn
<1>6. Top.page \notin U
  <2>1. CASE stack = <<Top>>
    BY <1>5, <2>1, LastCall
  <2>2. CASE \E d : stack = <<Top, d>> /\ TwoCalls(Top, d, pages, max_keys, level, loose, short)
    BY <1>4, <1>5, <2>2, LastCall DEF TwoCalls
  <2> QED
    BY <2>1, <2>2, TopIs
<1> QED
  BY <1>3, <1>4, <1>5, <1>6 DEF Elsewhere

\* Calls and pages that are not among U.
LEMMA CallOutside ==
  ASSUME NEW U, NEW c, c.page \notin U
  PROVE  stack' = <<c>> => stack' = <<>> \/ Last(stack').page \notin U
  BY LastCall

LEMMA TargetOutside ==
  ASSUME NEW level, NEW loose, NEW short, Sound(level, loose, short), NEW U, Elsewhere(U, loose),
         Pending("table_insert") \/ Pending("table_delete")
  PROVE  Target \notin U
<1> DEFINE C == {p \in DOMAIN pages : p \notin U}
<1>1. Descends(pages, level) /\ Alive(pages, Top.page)
  BY StatementOnTop DEF Sound, Tree, Shape
<1>2. Top.page \in C /\ \A p \in DOMAIN pages \cap C : Kids(pages, p) \subseteq C
  BY <1>1 DEF Elsewhere, KeepsTogether, Alive, Descends
<1> HIDE DEF C
<1>3. Target \in C
  BY <1>1, <1>2, DescentEnds DEF Target
<1> QED
  BY <1>3 DEF C

LEMMA FamilyOutside ==
  ASSUME NEW level, NEW loose, NEW short, Sound(level, loose, short), NEW U, Elsewhere(U, loose),
         Pending("leaf_node_rebalance") \/ Pending("internal_node_rebalance")
  PROVE  Parent \notin U /\ \A i \in 1..Len(Siblings) : Siblings[i] \notin U
<1>1. Inner(pages, Parent) /\ Parent \in DOMAIN pages /\ Top.page \in Kids(pages, Parent)
  BY SiblingsAre DEF Inner, Kids, Siblings
<1>2. Parent \notin U
  BY <1>1 DEF Elsewhere, KeepsTogether
<1>3. ASSUME NEW i \in 1..Len(Siblings) PROVE Siblings[i] \notin U
  <2>1. Siblings[i] \in Kids(pages, Parent)
    BY SiblingIs
  <2> QED
    BY <1>1, <1>2, <2>1 DEF Elsewhere, KeepsTogether
<1> QED
  BY <1>2, <1>3

LEMMA NewPageOutside ==
  ASSUME NEW level, NEW loose, NEW short, Sound(level, loose, short), NEW U, Elsewhere(U, loose)
  PROVE  NextPage \notin U
<1>1. FreeChain(pages, free_head) /\ DOMAIN pages = 1..Len(pages) /\ Len(pages) \in Nat
  BY TreeTyped DEF Sound, Tree
<1>2. ~Alive(pages, NextPage)
  <2>1. CASE free_head # NoPage
    BY <1>1, <2>1, FreeHead DEF NextPage, Alive
  <2>2. CASE free_head = NoPage
    BY <1>1, <2>2 DEF NextPage, Alive
  <2> QED
    BY <2>1, <2>2
<1> QED
  BY <1>2 DEF Elsewhere

LEMMA StoredOutside ==
  ASSUME NEW S, NEW ps \in Seq(S), NEW old \in DOMAIN ps, NEW node, NEW new, NEW other,
         NEW U, U \subseteq DOMAIN ps, old \notin U, new \notin U
  PROVE  /\ Same(ps, Put([ps EXCEPT ![old] = node], new, other), U)
         /\ Same(ps, Put(ps, new, other), U)
<1> DEFINE T == S \cup {node, other}
           qs == [ps EXCEPT ![old] = node]
<1>1. ps \in Seq(T) /\ DOMAIN ps = 1..Len(ps) /\ Len(ps) \in Nat
  <2>1. DOMAIN ps = 1..Len(ps) /\ Len(ps) \in Nat /\ ps \in [1..Len(ps) -> S]
    BY LenProperties
  <2>2. ps \in [1..Len(ps) -> T]
    BY <2>1
  <2> HIDE DEF T
  <2> QED
    BY <2>1, <2>2, SeqDef
<1>2. qs \in Seq(T) /\ DOMAIN qs = DOMAIN ps /\ \A p \in U : qs[p] = ps[p]
  <2>1. qs \in Seq(T) /\ Len(qs) = Len(ps)
    <3>1. node \in T /\ old \in 1..Len(ps)
      BY <1>1
    <3> HIDE DEF T
    <3> QED
      BY <1>1, <3>1, ExceptSeq
  <2> QED
    BY <1>1
<1>3. ASSUME NEW rs \in Seq(T), DOMAIN rs = DOMAIN ps, \A p \in U : rs[p] = ps[p]
      PROVE  Same(ps, Put(rs, new, other), U)
  <2>1. CASE new \in DOMAIN rs
    <3>1. Put(rs, new, other) = [rs EXCEPT ![new] = other]
      BY <2>1 DEF Put
    <3> QED
      BY <1>3, <3>1 DEF Same
  <2>2. CASE new \notin DOMAIN rs
    <3>1. Put(rs, new, other) = Append(rs, other)
      BY <2>2 DEF Put
    <3>2. other \in T
      OBVIOUS
    <3> HIDE DEF T
    <3>3. /\ Append(rs, other) \in Seq(T) /\ Len(Append(rs, other)) = Len(rs) + 1
          /\ \A i \in 1..Len(rs) : Append(rs, other)[i] = rs[i]
          /\ Len(rs) \in Nat /\ DOMAIN rs = 1..Len(rs)
      BY <1>3, <3>2, AppendProperties, LenProperties
    <3>4. DOMAIN Append(rs, other) = 1..Len(rs) + 1
      BY <3>3, LenProperties
    <3> QED
      BY <1>3, <3>1, <3>3, <3>4 DEF Same
  <2> QED
    BY <2>1, <2>2
<1> HIDE DEF T, qs
<1>4. Same(ps, Put(qs, new, other), U) /\ Same(ps, Put(ps, new, other), U)
  BY <1>1, <1>2, <1>3
<1> QED
  BY <1>4 DEF qs

LEMMA ReparentedOutside ==
  ASSUME NEW ps, NEW qs, NEW U, Same(ps, qs, U), NEW cs, U \cap ToSet(cs) = {}, NEW page
  PROVE  Same(ps, Reparent(qs, cs, page), U)
  BY DEF Same, Reparent

-----------------------------------------------------------------------------
\* Each step in turn.

LEMMA RefuseLeavesAlone ==
  ASSUME NEW level, NEW loose, NEW short, Sound(level, loose, short), NEW U, Elsewhere(U, loose),
         RefuseDuplicate \/ RefuseMissing
  PROVE  LeavesAlone(U)
<1>1. /\ Pending("table_insert") \/ Pending("table_delete")
      /\ Return /\ UNCHANGED pages
  BY DEF RefuseDuplicate, RefuseMissing
<1>2. stack' = <<>>
  BY <1>1, StatementOnTop
<1> QED
  BY <1>1, <1>2 DEF LeavesAlone, Same, Elsewhere, Alive

LEMMA AfterRemovalLeavesAlone ==
  ASSUME NEW level, NEW loose, NEW short, Sound(level, loose, short), NEW U, Elsewhere(U, loose),
         KeepNode \/ RepairNode
  PROVE  LeavesAlone(U)
<1> PICK c : c = Call("internal_node_rebalance", Top.page, NoPage, 0)
  OBVIOUS
<1>1. Pending("after_child_removed") /\ (Return \/ Continue(<<c>>)) /\ UNCHANGED pages
  BY DEF KeepNode, RepairNode
<1>2. stack' = <<>> \/ stack' = <<c>>
  BY <1>1, RepairOnTop
<1>3. c.page \notin U
  BY DEF Call, Elsewhere
<1> QED
  BY <1>1, <1>2, <1>3, CallOutside DEF LeavesAlone, Same, Elsewhere, Alive

LEMMA InsertIntoLeafLeavesAlone ==
  ASSUME NEW level, NEW loose, NEW short, Sound(level, loose, short), NEW U, Elsewhere(U, loose),
         InsertIntoLeaf
  PROVE  LeavesAlone(U)
<1>1. Pending("table_insert") /\ Return
  BY DEF InsertIntoLeaf
<1>2. stack' = <<>> /\ Target \notin U
  BY <1>1, StatementOnTop, TargetOutside
<1>3. PICK leaf, keys : leaf = Target /\ pages' = [pages EXCEPT ![leaf].keys = keys]
  BY DEF InsertIntoLeaf
<1> QED
  BY <1>2, <1>3 DEF LeavesAlone, Same, Elsewhere, Alive

LEMMA DeleteFromLeafLeavesAlone ==
  ASSUME NEW level, NEW loose, NEW short, Sound(level, loose, short), NEW U, Elsewhere(U, loose),
         DeleteFromLeaf
  PROVE  LeavesAlone(U)
<1>a. PICK leaf : leaf = Target
  OBVIOUS
<1>b. PICK index : index = LowerBound(pages[leaf].keys, Top.key)
  OBVIOUS
<1>c. PICK ks : ks = RemoveAt(pages[leaf].keys, index)
  OBVIOUS
<1>d. PICK ps : ps = SetKeys(pages, leaf, ks)
  OBVIOUS
<1>e. PICK c : c = Call("leaf_node_rebalance", leaf, NoPage, 0)
  OBVIOUS
<1> DEFINE lacking == ~pages[leaf].is_root /\ Len(ks) < LeafMinCells
<1>2. /\ Pending("table_delete") /\ Holds(leaf, Top.key)
      /\ pages' = IF ~pages[leaf].is_root /\ Top.key = Last(pages[leaf].keys)
                  THEN LowerSeparator(ps, leaf, Last(ks))
                  ELSE ps
      /\ Continue(IF lacking THEN <<c>> ELSE <<>>)
      /\ UNCHANGED <<free_head, roots, max_keys>>
  BY <1>a, <1>b, <1>c, <1>d, <1>e DEF DeleteFromLeaf, SetKeys
<1>3. stack' = <<c>> \/ stack' = <<>>
  <2>1. CASE lacking
    BY <1>2, <2>1, StatementOnTop
  <2>2. CASE ~lacking
    BY <1>2, <2>2, StatementOnTop
  <2> QED
    BY <2>1, <2>2
<1>4. /\ pages \in Seq(Record) /\ leaf \in DOMAIN pages /\ ks \in Seq(Nat)
      /\ Rekeyed(pages, ps, {leaf}) /\ Shape(ps, level, {}) /\ Alive(ps, leaf)
      /\ ~pages[leaf].is_root => Len(ks) # 0
  <2>1. KeyGone(leaf, ks, ps, level)
    BY <1>a, <1>b, <1>c, <1>d, <1>2, KeyRemoved
  <2> QED
    BY <2>1 DEF KeyGone
<1>5. leaf \notin U
  BY <1>a, <1>2, TargetOutside
<1>6. Same(pages, ps, U)
  BY <1>d, <1>5 DEF SetKeys, Same, Elsewhere, KeepsTogether
<1>7. KeepsTogether(ps, U)
  <2>1. \A p \in DOMAIN ps : Kids(ps, p) = Kids(pages, p)
    BY <1>4 DEF Rekeyed, Alike, Kids
  <2> QED
    BY <1>4, <2>1 DEF KeepsTogether, Elsewhere, Rekeyed
<1>8. Same(ps, pages', U)
  <2>1. CASE ~pages[leaf].is_root /\ Top.key = Last(pages[leaf].keys)
    <3>1. PICK max \in Nat : max = Last(ks)
      BY <1>4, <2>1, Ends
    <3>2. Same(ps, LowerSeparator(ps, leaf, max), U)
      BY <1>4, <1>5, <1>7, LowerSeparatorRekeys
    <3> QED
      BY <1>2, <2>1, <3>1, <3>2
  <2>2. CASE ~(~pages[leaf].is_root /\ Top.key = Last(pages[leaf].keys))
    <3>1. pages' = ps
      BY <1>2, <2>2
    <3> QED
      BY <1>7, <3>1 DEF Same, KeepsTogether
  <2> QED
    BY <2>1, <2>2
<1>9. Same(pages, pages', U)
  BY <1>6, <1>8 DEF Same
<1>10. c.page \notin U
  BY <1>e, <1>5 DEF Call
<1> QED
  BY <1>3, <1>9, <1>10, CallOutside DEF LeavesAlone

LEMMA SplitLeafLeavesAlone ==
  ASSUME NEW level, NEW loose, NEW short, Sound(level, loose, short), NEW U, Elsewhere(U, loose),
         SplitLeaf
  PROVE  LeavesAlone(U)
<1>a. PICK old, new : old = Target /\ new = NextPage
  OBVIOUS
<1>b. PICK node : node = pages[old]
  OBVIOUS
<1>c. PICK cells : cells = InsertAt(node.keys, LowerBound(node.keys, Top.key), Top.key)
  OBVIOUS
<1>d. PICK lower, right, c :
        /\ lower = SubSeq(cells, 1, LeftSplitCount)
        /\ right = Leaf(FALSE, node.parent, SubSeq(cells, LeftSplitCount + 1, LeafMaxCells + 1), node.next)
        /\ c = Call("attach_sibling", old, new, Last(node.keys))
  OBVIOUS
<1>1. /\ pages' = Put([pages EXCEPT ![old].keys = lower, ![old].next = new], new, right)
      /\ Continue(<<c>>) /\ c.page = old
  <2>1. pages' = Put([pages EXCEPT ![old].keys = lower, ![old].next = new], new, right)
    BY <1>a, <1>b, <1>c, <1>d DEF SplitLeaf
  <2>2. Continue(<<c>>)
    BY <1>a, <1>b, <1>d DEF SplitLeaf
  <2> QED
    BY <1>d, <2>1, <2>2 DEF Call
<1>2. Pending("table_insert")
  BY DEF SplitLeaf
<1>3. stack' = <<c>> /\ old \notin U /\ old \in DOMAIN pages
  BY <1>a, <1>1, <1>2, StatementOnTop, TargetOutside DEF Alive
<1>4. new \notin U
  BY <1>a, NewPageOutside
<1>5. pages \in Seq(Record) /\ U \subseteq DOMAIN pages
  BY TreeTyped DEF Sound, Elsewhere, KeepsTogether
<1>6. PICK left : left = [pages[old] EXCEPT !.keys = lower, !.next = new]
  OBVIOUS
<1>7. [pages EXCEPT ![old].keys = lower, ![old].next = new] = [pages EXCEPT ![old] = left]
  BY <1>3, <1>5, <1>6
<1>8. Same(pages, Put([pages EXCEPT ![old] = left], new, right), U)
  BY <1>3, <1>4, <1>5, StoredOutside
<1>9. Same(pages, pages', U)
  BY <1>1, <1>7, <1>8
<1> QED
  BY <1>1, <1>3, <1>9, CallOutside DEF LeavesAlone

LEMMA CreateNewRootLeavesAlone ==
  ASSUME NEW level, NEW loose, NEW short, Sound(level, loose, short), NEW U, Elsewhere(U, loose),
         CreateNewRoot
  PROVE  LeavesAlone(U)
<1>a. PICK root, right, left : root = Top.page /\ right = Top.child /\ left = NextPage
  OBVIOUS
<1>b. PICK copy : copy = [pages[root] EXCEPT !.is_root = FALSE, !.parent = root]
  OBVIOUS
<1>c. PICK kids, ps : kids = copy.children /\ ps = Reparent(Put(pages, left, copy), kids, left)
  OBVIOUS
<1>d. PICK top : top = Internal(TRUE, NoPage, <<MaxKey(ps, left)>>, <<left, right>>)
  OBVIOUS
<1>1. /\ Pending("attach_sibling") /\ Return
      /\ pages' = [ps EXCEPT ![root] = top, ![right].parent = root]
  BY <1>a, <1>b, <1>c, <1>d DEF CreateNewRoot
<1>2. stack' = <<>> /\ right \in loose /\ Alive(pages, root)
  BY <1>a, <1>1, AttachOnTop DEF AttachCall
<1>3. root \notin U /\ right \notin U /\ left \notin U /\ U \subseteq DOMAIN pages /\ root \in DOMAIN pages
  BY <1>a, <1>2, NewPageOutside DEF Elsewhere, KeepsTogether, Alive
<1>4. ToSet(kids) = Kids(pages, root)
  <2>1. pages[root] \in Record
    BY <1>3, TreeTyped, PageIs DEF Sound
  <2>2. kids = pages[root].children
    BY <1>b, <1>c, <2>1 DEF Record
  <2> QED
    BY <2>2 DEF Kids
<1>5. U \cap ToSet(kids) = {}
  BY <1>3, <1>4 DEF Elsewhere, KeepsTogether
<1>6. Same(pages, Put(pages, left, copy), U)
  <2>1. pages \in Seq(Record)
    BY TreeTyped DEF Sound
  <2> QED
    BY <1>3, <2>1, StoredOutside
<1>7. Same(pages, ps, U)
  BY <1>5, <1>6, <1>c, ReparentedOutside
<1>8. Same(pages, pages', U)
  BY <1>1, <1>3, <1>7 DEF Same
<1> QED
  BY <1>2, <1>8 DEF LeavesAlone

LEMMA AttachToParentLeavesAlone ==
  ASSUME NEW level, NEW loose, NEW short, Sound(level, loose, short), NEW U, Elsewhere(U, loose),
         AttachToParent
  PROVE  LeavesAlone(U)
<1>a. PICK page, parent, index :
        page = Top.page /\ parent = pages[page].parent /\ index = LowerBound(pages[parent].keys, Top.key)
  OBVIOUS
<1>1. PICK max, c :
        /\ pages' = IF index \in DOMAIN pages[parent].keys
                    THEN [pages EXCEPT ![parent].keys[index] = max] ELSE pages
        /\ Continue(<<c>>) /\ c.page = parent
        /\ Pending("attach_sibling") /\ ~pages[page].is_root
  BY <1>a DEF AttachToParent, Call
<1>2. stack' = <<c>> /\ Alive(pages, page) /\ page \notin loose
  BY <1>a, <1>1, AttachOnTop DEF AttachCall
<1>3. parent \in DOMAIN pages /\ page \in Kids(pages, parent)
  BY <1>a, <1>1, <1>2, ParentIs DEF Sound, Tree, Inner
<1>4. parent \notin U /\ U \subseteq DOMAIN pages
  BY <1>a, <1>3 DEF Elsewhere, KeepsTogether
<1>5. Same(pages, pages', U)
  BY <1>1, <1>4 DEF Same
<1> QED
  BY <1>1, <1>2, <1>4, <1>5, CallOutside DEF LeavesAlone

LEMMA InsertChildLeavesAlone ==
  ASSUME NEW level, NEW loose, NEW short, Sound(level, loose, short), NEW U, Elsewhere(U, loose),
         InsertChild
  PROVE  LeavesAlone(U)
<1>a. PICK page, child : page = Top.page /\ child = Top.child
  OBVIOUS
<1>1. PICK grown : /\ pages' = [pages EXCEPT ![page] = grown, ![child].parent = page]
                   /\ Pending("internal_node_insert") /\ Return
  BY <1>a DEF InsertChild
<1>2. page \notin U /\ child \notin U /\ U \subseteq DOMAIN pages
  BY <1>a, <1>1, PlaceOnTop DEF Elsewhere, KeepsTogether
<1>3. Same(pages, pages', U)
  BY <1>1, <1>2 DEF Same
<1>4. stack' = <<>> \/ \E d : TwoCalls(Top, d, pages, max_keys, level, loose, short) /\ stack = <<Top, d>> /\ stack' = <<d>>
  <2>1. ~Idle
    BY <1>1 DEF Pending
  <2> QED
    BY <1>1, <2>1, TopIs
<1>5. stack' = <<>> \/ Last(stack').page \notin U
  BY <1>4, LastCall DEF Elsewhere
<1> QED
  BY <1>3, <1>5 DEF LeavesAlone

LEMMA SplitInternalLeavesAlone ==
  ASSUME NEW level, NEW loose, NEW short, Sound(level, loose, short), NEW U, Elsewhere(U, loose),
         SplitInternal
  PROVE  LeavesAlone(U)
<1>a. PICK old, new, node, n, split :
        /\ old = Top.page /\ new = NextPage /\ node = pages[old]
        /\ n = Len(node.keys) /\ split = n \div 2
  OBVIOUS
<1>b. PICK moved : moved = SubSeq(node.children, split + 2, n + 1)
  OBVIOUS
<1>c. PICK kept, sibling :
        /\ kept = [node EXCEPT !.keys = SubSeq(@, 1, split), !.children = SubSeq(@, 1, split + 1)]
        /\ sibling = Internal(FALSE, node.parent, SubSeq(node.keys, split + 2, n), moved)
  OBVIOUS
<1>1. /\ pages' = Reparent(Put([pages EXCEPT ![old] = kept], new, sibling), moved, new)
      /\ Pending("internal_node_insert") /\ n >= max_keys
  BY <1>a, <1>b, <1>c DEF SplitInternal
<1>2. PICK c, d : Continue(<<c, d>>) /\ d.page = old
  <2>1. PICK ps : ps = pages'
    OBVIOUS
  <2>2. PICK to : to = IF MaxKey(pages, Top.child) < MaxKey(ps, old) THEN old ELSE new
    OBVIOUS
  <2>3. PICK c, d : /\ c = Call("internal_node_insert", to, Top.child, 0)
                    /\ d = Call("attach_sibling", old, new, MaxKey(pages, old))
    OBVIOUS
  <2>4. Continue(<<c, d>>)
    BY <1>a, <2>1, <2>2, <2>3 DEF SplitInternal
  <2>5. d.page = old
    BY <2>3 DEF Call
  <2> QED
    BY <2>4, <2>5
<1>3. PlaceCall(Top, pages, level) /\ max_keys \in Nat /\ pages \in Seq(Record) /\ Descends(pages, level)
  BY <1>1, PlaceOnTop, TreeTyped DEF Sound
<1>4. /\ old \in DOMAIN pages /\ node.type = "internal" /\ n \in Nat /\ node.children \in Seq(Nat)
      /\ Len(node.children) = n + 1
  BY <1>a, <1>3, PageIs DEF PlaceCall, Inner, Descends, ChildrenCounted
<1>5. stack' = <<c, d>>
  <2>1. \A e : ~TwoCalls(Top, e, pages, max_keys, level, loose, short)
    BY <1>a, <1>1, <1>3, <1>4 DEF TwoCalls
  <2> QED
    BY <1>1, <1>2, <2>1, PlaceOnTop
<1>6. old \notin U /\ new \notin U /\ U \subseteq DOMAIN pages
  BY <1>a, NewPageOutside DEF Elsewhere, KeepsTogether
<1>7. ToSet(moved) \subseteq Kids(pages, old)
  <2>1. split \in 0..n
    <3>1. \A k \in Nat : k \div 2 \in 0..k
      OBVIOUS
    <3> QED
      BY <1>a, <1>4, <3>1
  <2>2. PICK lo, hi : lo = split + 2 /\ hi = n + 1
    OBVIOUS
  <2>3. lo \in 1..Len(node.children) + 1 /\ hi \in (lo - 1)..Len(node.children)
    BY <1>4, <2>1, <2>2
  <2>4. Stretch(Nat, moved, node.children, lo, hi)
    BY <1>b, <1>4, <2>2, <2>3, SubSeqDistinct
  <2>5. lo..hi \subseteq DOMAIN node.children /\ ToSet(moved) = {node.children[i] : i \in lo..hi}
    BY <1>4, <2>3, <2>4, LenProperties DEF Stretch
  <2>6. ToSet(moved) \subseteq {node.children[i] : i \in DOMAIN node.children}
    BY <2>5
  <2> QED
    BY <1>a, <2>6 DEF Kids, ToSet
<1>8. U \cap ToSet(moved) = {}
  BY <1>4, <1>6, <1>7 DEF Elsewhere, KeepsTogether
<1>9. Same(pages, Put([pages EXCEPT ![old] = kept], new, sibling), U)
  BY <1>3, <1>4, <1>6, StoredOutside
<1>10. Same(pages, pages', U)
  BY <1>1, <1>8, <1>9, ReparentedOutside
<1> QED
  BY <1>2, <1>5, <1>6, <1>10, LastCall DEF LeavesAlone

\* The pages of the node under repair: its parent, its siblings and theirs.
Family(p) ==
  \/ p = Parent
  \/ \E i \in 1..Len(Siblings) : p = Siblings[i] \/ p \in Kids(pages, Siblings[i])

\* Only pages of F have changed.
Changes(F) == \A p \in DOMAIN pages \ F : p \in DOMAIN pages' /\ pages'[p] = pages[p]

LEMMA RepairLeavesAlone ==
  ASSUME NEW level, NEW loose, NEW short, Sound(level, loose, short), NEW U, Elsewhere(U, loose),
         Pending("leaf_node_rebalance") \/ Pending("internal_node_rebalance"),
         NEW F, \A p \in F : Family(p), Changes(F),
         Return \/ Continue(<<Call("after_child_removed", Parent, NoPage, 0)>>)
  PROVE  LeavesAlone(U)
<1>1. Parent \notin U /\ \A i \in 1..Len(Siblings) : Siblings[i] \notin U
  BY FamilyOutside
<1>2. \A i \in 1..Len(Siblings) : Siblings[i] \in DOMAIN pages
  BY SiblingIs DEF Alive
<1>3. U \subseteq DOMAIN pages /\ U \cap F = {}
  BY <1>1, <1>2 DEF Family, Elsewhere, KeepsTogether
<1>4. Same(pages, pages', U)
  BY <1>3 DEF Changes, Same
<1>5. PICK c : c = Call("after_child_removed", Parent, NoPage, 0)
  OBVIOUS
<1>6. stack' = <<>> \/ stack' = <<c>>
  BY <1>5, RepairOnTop
<1>7. c.page \notin U
  BY <1>1, <1>5 DEF Call
<1> QED
  BY <1>4, <1>6, <1>7, CallOutside DEF LeavesAlone

LEMMA LeafBorrowLeavesAlone ==
  ASSUME NEW level, NEW loose, NEW short, Sound(level, loose, short), NEW U, Elsewhere(U, loose),
         LeafBorrowLeft \/ LeafBorrowRight
  PROVE  LeavesAlone(U)
<1>1. Pending("leaf_node_rebalance") /\ Return
  BY DEF LeafBorrowLeft, LeafBorrowRight
<1>2. /\ DOMAIN Siblings = 1..Len(Siblings) /\ Position \in 1..Len(Siblings)
      /\ Siblings[Position] = Top.page
  BY <1>1, SiblingsAre
<1>3. PICK j \in 1..Len(Siblings) : Changes({Top.page, Siblings[j], Parent})
  <2>1. CASE LeafBorrowLeft
    <3>1. Changes({Top.page, Siblings[Position - 1], Parent})
      BY <2>1 DEF LeafBorrowLeft, Changes
    <3> QED
      BY <1>2, <2>1, <3>1 DEF LeafBorrowLeft, SpareLeft, CanSpare
  <2>2. CASE LeafBorrowRight
    <3>1. Changes({Top.page, Siblings[Position + 1], Parent})
      BY <2>2 DEF LeafBorrowRight, Changes
    <3> QED
      BY <1>2, <2>2, <3>1 DEF LeafBorrowRight, SpareRight, CanSpare
  <2> QED
    BY <2>1, <2>2
<1>4. PICK F : F = {Top.page, Siblings[j], Parent}
  OBVIOUS
<1>5. (\A p \in F : Family(p)) /\ Changes(F)
  BY <1>2, <1>3, <1>4 DEF Family
<1> QED
  BY <1>1, <1>5, RepairLeavesAlone

LEMMA MergeLeavesAlone ==
  ASSUME NEW level, NEW loose, NEW short, Sound(level, loose, short), NEW U, Elsewhere(U, loose),
         LeafMerge \/ InternalMerge
  PROVE  LeavesAlone(U)
<1>a. PICK left, right : left = Siblings[MergeAt] /\ right = Siblings[MergeAt + 1]
  OBVIOUS
<1>1. /\ Pending("leaf_node_rebalance") \/ Pending("internal_node_rebalance")
      /\ Continue(<<Call("after_child_removed", Parent, NoPage, 0)>>)
  BY DEF LeafMerge, InternalMerge
<1>2. MergeAt \in 1..Len(Siblings) /\ MergeAt + 1 \in 1..Len(Siblings)
  <2>1. PICK minimum : SpareNone(minimum)
    BY DEF LeafMerge, InternalMerge
  <2> QED
    BY <1>1, <2>1, PairIs
<1>3. PICK F : F = {left, right, Parent} \cup Kids(pages, right)
  OBVIOUS
<1>4. \A p \in F : Family(p)
  BY <1>a, <1>2, <1>3 DEF Family
<1>5. Changes(F)
  <2>1. CASE LeafMerge
    BY <1>a, <1>3, <2>1 DEF LeafMerge, Changes
  <2>2. CASE InternalMerge
    <3>1. PICK ps : /\ ps = Reparent(pages, pages[right].children, left)
                    /\ DOMAIN pages' = DOMAIN ps
                    /\ \A p \in DOMAIN ps \ {left, right, Parent} : pages'[p] = ps[p]
      BY <1>a, <2>2 DEF InternalMerge
    <3>2. DOMAIN ps = DOMAIN pages /\ \A p \in DOMAIN pages \ Kids(pages, right) : ps[p] = pages[p]
      BY <3>1 DEF Reparent, Kids
    <3> QED
      BY <1>3, <3>1, <3>2 DEF Changes
  <2> QED
    BY <2>1, <2>2
<1> QED
  BY <1>1, <1>4, <1>5, RepairLeavesAlone

LEMMA InternalBorrowLeavesAlone ==
  ASSUME NEW level, NEW loose, NEW short, Sound(level, loose, short), NEW U, Elsewhere(U, loose),
         InternalBorrowLeft \/ InternalBorrowRight
  PROVE  LeavesAlone(U)
<1>1. Pending("internal_node_rebalance") /\ Return
  BY DEF InternalBorrowLeft, InternalBorrowRight
<1>2. /\ DOMAIN Siblings = 1..Len(Siblings) /\ Position \in 1..Len(Siblings)
      /\ Siblings[Position] = Top.page
  BY <1>1, SiblingsAre
<1>3. PICK j \in 1..Len(Siblings) : \E moved :
        /\ moved \in {Last(pages[Siblings[j]].children), Head(pages[Siblings[j]].children)}
        /\ Changes({Top.page, Siblings[j], Parent, moved})
  <2>1. CASE InternalBorrowLeft
    <3>1. Changes({Top.page, Siblings[Position - 1], Parent, Last(pages[Siblings[Position - 1]].children)})
      BY <2>1 DEF InternalBorrowLeft, Changes
    <3>2. Position - 1 \in 1..Len(Siblings)
      BY <1>2, <2>1 DEF InternalBorrowLeft, SpareLeft, CanSpare
    <3> QED
      BY <3>1, <3>2
  <2>2. CASE InternalBorrowRight
    <3>1. Changes({Top.page, Siblings[Position + 1], Parent, Head(pages[Siblings[Position + 1]].children)})
      BY <2>2 DEF InternalBorrowRight, Changes
    <3>2. Position + 1 \in 1..Len(Siblings)
      BY <1>2, <2>2 DEF InternalBorrowRight, SpareRight, CanSpare
    <3> QED
      BY <3>1, <3>2
  <2> QED
    BY <2>1, <2>2
<1>4. PICK other, moved : /\ other = Siblings[j] /\ moved \in {Last(pages[other].children), Head(pages[other].children)}
                          /\ Changes({Top.page, other, Parent, moved})
  BY <1>3
<1>5. moved \in Kids(pages, other)
  <2>1. Alive(pages, other) /\ pages[other].type = pages[Top.page].type
    BY <1>1, <1>4, SiblingIs
  <2>2. Inner(pages, other)
    <3>1. RepairCall(Top, pages, max_keys) /\ Top.fn = "internal_node_rebalance"
      BY <1>1, RepairOnTop
    <3>2. Inner(pages, Top.page)
      BY <3>1 DEF RepairCall
    <3> QED
      BY <2>1, <3>2 DEF Inner, Alive
  <2>3. /\ pages[other].children \in Seq(Nat) /\ Len(pages[other].keys) \in Nat
        /\ Len(pages[other].children) = Len(pages[other].keys) + 1
    <3>1. pages \in Seq(Record) /\ Descends(pages, level)
      BY TreeTyped DEF Sound
    <3> QED
      BY <2>2, <3>1, PageIs DEF Inner, Descends, ChildrenCounted
  <2>4. Len(pages[other].children) # 0
    BY <2>3
  <2> QED
    BY <1>4, <2>3, <2>4, Ends DEF Kids
<1>6. PICK F : F = {Top.page, other, Parent, moved}
  OBVIOUS
<1>7. (\A p \in F : Family(p)) /\ Changes(F)
  BY <1>2, <1>4, <1>5, <1>6 DEF Family
<1> QED
  BY <1>1, <1>7, RepairLeavesAlone

LEMMA CollapseRootLeavesAlone ==
  ASSUME NEW level, NEW loose, NEW short, Sound(level, loose, short), NEW U, Elsewhere(U, loose),
         CollapseRoot
  PROVE  LeavesAlone(U)
<1>a. PICK root, child : root = Top.page /\ child = Last(pages[root].children)
  OBVIOUS
<1>b. PICK copy, kids : copy = [pages[child] EXCEPT !.is_root = TRUE, !.parent = NoPage] /\ kids = copy.children
  OBVIOUS
<1>1. /\ Pending("after_child_removed") /\ Return
      /\ pages' = [Reparent([pages EXCEPT ![root] = copy], kids, root) EXCEPT ![child] = FreePage(free_head)]
  BY <1>a, <1>b DEF CollapseRoot
<1>2. stack' = <<>> /\ Inner(pages, root)
  <2>1. RepairCall(Top, pages, max_keys) /\ Top.fn = "after_child_removed" /\ stack' = <<>>
    BY <1>1, RepairOnTop
  <2> QED
    BY <1>a, <2>1 DEF RepairCall
<1>3. pages \in Seq(Record) /\ Descends(pages, level) /\ root \in DOMAIN pages
  BY <1>2, TreeTyped DEF Sound, Inner
<1>4. child \in Kids(pages, root) /\ child \in DOMAIN pages
  <2>1. /\ pages[root].children \in Seq(Nat) /\ Len(pages[root].keys) \in Nat
        /\ Len(pages[root].children) = Len(pages[root].keys) + 1
    BY <1>2, <1>3, PageIs DEF Inner, Descends, ChildrenCounted
  <2>2. Len(pages[root].children) # 0
    BY <2>1
  <2>3. child \in Kids(pages, root)
    BY <1>a, <2>1, <2>2, Ends DEF Kids
  <2> QED
    BY <1>3, <2>3 DEF Descends, Alive
<1>5. ToSet(kids) = Kids(pages, child)
  <2>1. pages[child] \in Record
    BY <1>3, <1>4, PageIs
  <2>2. kids = pages[child].children
    BY <1>b, <2>1 DEF Record
  <2> QED
    BY <2>2 DEF Kids
<1>6. root \notin U /\ child \notin U /\ U \cap ToSet(kids) = {} /\ U \subseteq DOMAIN pages
  BY <1>a, <1>3, <1>4, <1>5 DEF Elsewhere, KeepsTogether
<1>7. Same(pages, [pages EXCEPT ![root] = copy], U)
  BY <1>6 DEF Same
<1>8. Same(pages, Reparent([pages EXCEPT ![root] = copy], kids, root), U)
  BY <1>6, <1>7, ReparentedOutside
<1>9. Same(pages, pages', U)
  BY <1>1, <1>6, <1>8 DEF Same
<1> QED
  BY <1>2, <1>9 DEF LeavesAlone

LEMMA StepLeavesAlone ==
  ASSUME NEW level, NEW loose, NEW short, Sound(level, loose, short), NEW U, Elsewhere(U, loose), Step
  PROVE  LeavesAlone(U)
<1>1. CASE InsertStep
  BY <1>1, RefuseLeavesAlone, InsertIntoLeafLeavesAlone, SplitLeafLeavesAlone, CreateNewRootLeavesAlone,
     AttachToParentLeavesAlone, InsertChildLeavesAlone, SplitInternalLeavesAlone DEF InsertStep
<1>2. CASE DeleteStep
  BY <1>2, RefuseLeavesAlone, DeleteFromLeafLeavesAlone, LeafBorrowLeavesAlone, MergeLeavesAlone,
     CollapseRootLeavesAlone, AfterRemovalLeavesAlone, InternalBorrowLeavesAlone DEF DeleteStep
<1> QED
  BY <1>1, <1>2 DEF Step

\* What is under a page, said of any state: the primed pages are those of the
\* state after a step.
UnderHolds ==
  \A level : Descends(pages, level) => \A page \in DOMAIN pages :
    /\ Closed(PagesUnder(page)) /\ page \in PagesUnder(page)
    /\ \A C : Closed(C) /\ page \in C => PagesUnder(page) \subseteq C

LEMMA UnderAlways == UnderHolds
  BY Under DEF UnderHolds

LEMMA UnderNext == UnderHolds'
  BY UnderAlways, PTL

\* After a step that leaves the pages under a root alone, there are no others
\* under it.
LEMMA UnderSame ==
  ASSUME NEW level, NEW loose, NEW short, Sound(level, loose, short), TreeInv',
         NEW root \in DOMAIN pages, NEW U, U = PagesUnder(root), KeepsTogether(pages, U),
         Same(pages, pages', U)
  PROVE  PagesUnder(root)' \subseteq U
<1>1. PICK after : Descends(pages', after)
  <2>1. PICK l, o, s : Sound(l, o, s)'
    BY DEF TreeInv
  <2> QED
    BY <2>1 DEF Sound, Tree, Shape
<1>2. root \in U /\ U \subseteq DOMAIN pages
  <2>1. Descends(pages, level)
    BY DEF Sound, Tree, Shape
  <2> QED
    BY <2>1, Under DEF KeepsTogether
<1>3. U \subseteq DOMAIN pages' /\ \A p \in U : Kids(pages', p) \subseteq U
  <2>1. \A p \in U : p \in DOMAIN pages' /\ pages'[p] = pages[p]
    BY <1>2 DEF Same
  <2>2. \A p \in U : Kids(pages', p) = Kids(pages, p)
    BY <2>1 DEF Kids
  <2>3. \A p \in U : Kids(pages, p) \subseteq U
    BY <1>2 DEF KeepsTogether
  <2> QED
    BY <2>1, <2>2, <2>3
<1>4. Closed(U)'
  BY <1>3 DEF Closed
<1>5. \A C : Closed(C)' /\ root \in C => PagesUnder(root)' \subseteq C
  BY <1>1, <1>2, <1>3, UnderNext DEF UnderHolds
<1> QED
  BY <1>2, <1>4, <1>5

LEMMA StepLeavesOthers ==
  ASSUME TreeInv, [Next]_vars, ~Idle, NEW root \in roots, ~AtWorkIn(root)
  PROVE  /\ \A p \in PagesUnder(root) : pages'[p] = pages[p]
         /\ ~AtWorkIn(root)'
<1>1. PICK level, loose, short : Sound(level, loose, short)
  BY DEF TreeInv
<1>2. PICK U : U = PagesUnder(root)
  OBVIOUS
<1>3. TreeInv'
  BY TreeStep
<1>4. Elsewhere(U, loose) /\ KeepsTogether(pages, U)
  BY <1>1, <1>2, OtherTree DEF Elsewhere
<1>5. U \subseteq DOMAIN pages /\ root \in DOMAIN pages
  BY <1>1, <1>4 DEF KeepsTogether, Sound, Tree
<1>6. CASE Step
  <2>1. LeavesAlone(U)
    BY <1>1, <1>4, <1>6, StepLeavesAlone
  <2>2. PagesUnder(root)' \subseteq U
    BY <1>1, <1>2, <1>3, <1>4, <1>5, <2>1, UnderSame DEF LeavesAlone
  <2>3. stack' = <<>> \/ Last(stack').page \notin PagesUnder(root)'
    BY <2>1, <2>2 DEF LeavesAlone
  <2>4. ~AtWorkIn(root)'
    BY <2>3 DEF AtWorkIn, Idle
  <2> QED
    BY <1>2, <1>5, <2>1, <2>4 DEF LeavesAlone, Same
<1>7. CASE UNCHANGED vars
  <2>1. pages' = pages /\ stack' = stack
    BY <1>7 DEF vars
  <2>2. AtWorkIn(root)' <=> AtWorkIn(root)
    BY <2>1 DEF AtWorkIn, PagesUnder, Idle
  <2> QED
    BY <2>1, <2>2
<1>8. ~\E r \in UserRoots, key \in Keys : CallInsert(r, key) \/ CallDelete(r, key)
  BY DEF CallInsert, CallDelete
<1> QED
  BY <1>6, <1>7, <1>8 DEF Next

\* While a statement runs on one table, no step of it, however far its splits,
\* borrowings and merges cascade, writes a page of another table's tree or goes
\* on to a node of it: the parent fields and child pointers it follows
\* (internal_node_insert, internal_node_rebalance) stay in their own tree, and
\* the pages it takes (pager_allocate_page) were in none.
THEOREM OthersStayUntouched == Spec => OtherTablesUntouched
<1>1. TreeInv /\ [Next]_vars =>
        [~Idle => \A root \in roots : ~AtWorkIn(root) =>
           /\ \A p \in PagesUnder(root) : pages'[p] = pages[p]
           /\ ~AtWorkIn(root)']_vars
  <2> SUFFICES ASSUME TreeInv, [Next]_vars, ~Idle, NEW root \in roots, ~AtWorkIn(root)
               PROVE  (\A p \in PagesUnder(root) : pages'[p] = pages[p]) /\ ~AtWorkIn(root)'
    OBVIOUS
  <2> QED
    BY StepLeavesOthers
<1> QED
  BY <1>1, TreesStaySound, PTL DEF Spec, OtherTablesUntouched

=============================================================================
