-------------------------------- MODULE Lemmas --------------------------------
(***************************************************************************)
(* Induction over the natural numbers, stated about sets: to show of every *)
(* number that it has a property is to show that the set of those that do  *)
(* is Nat.  What it gives: a function that follows a path to its end.      *)
(* What cutting, joining and changing a sequence do to its elements; and,  *)
(* of a sequence of keys that rise from `a` to `b`, to its order.          *)
(***************************************************************************)
EXTENDS Integers, SequencesExt, FiniteSetTheorems, SequenceTheorems, WellFoundedInduction, TLAPS

\* A nonempty set of natural numbers has a least element: its initial segments
\* up to any of its elements have a smallest one.
LEMMA LeastOf ==
  ASSUME NEW T \in SUBSET Nat, T # {}
  PROVE  \E m \in T : \A k \in T : m <= k
<1>1. PICK top \in T : TRUE
  OBVIOUS
<1> DEFINE S == 0..top
           R == StrictSubsetOrdering(S)
           Below == {0..k : k \in {j \in T : j <= top}}
<1>2. IsFiniteSet(S)
  BY FS_Interval, <1>1
<1>3. IsWellFoundedOn(R, FiniteSubsetsOf(S))
  BY FS_StrictSubsetOrderingWellFounded
<1>4. Below \in SUBSET FiniteSubsetsOf(S) /\ Below # {}
  <2>1. ASSUME NEW k \in T, k <= top PROVE 0..k \in FiniteSubsetsOf(S)
    BY FS_Interval, <2>1, <1>1 DEF FiniteSubsetsOf
  <2> QED
    BY <2>1, <1>1
<1>5. PICK low \in Below : \A y \in Below : <<y, low>> \notin R
  <2> HIDE DEF R, Below
  <2> QED
    BY <1>3, <1>4, WFMin
<1>6. PICK m \in T : m <= top /\ low = 0..m
  OBVIOUS
<1>7. ASSUME NEW k \in T, k < m PROVE FALSE
  <2>1. 0..k \in Below
    BY <1>6, <1>7
  <2>2. 0..k \subseteq low /\ 0..k # low /\ m \in low /\ m \notin 0..k
    BY <1>6, <1>7
  <2>3. <<0..k, low>> \in R
    BY <2>1, <2>2, <1>4, <1>6, <1>7 DEF StrictSubsetOrdering
  <2> QED
    BY <2>1, <2>3, <1>5
<1> QED
  BY <1>7

LEMMA InductionOver ==
  ASSUME NEW S \in SUBSET Nat, 0 \in S, \A n \in S : n + 1 \in S
  PROVE  S = Nat
<1> SUFFICES ASSUME Nat \ S # {} PROVE FALSE
  OBVIOUS
<1>1. PICK m \in Nat \ S : \A k \in Nat \ S : m <= k
  BY LeastOf
<1>2. m # 0 /\ m - 1 \in S
  BY <1>1
<1> QED
  BY <1>1, <1>2

\* A nonempty set of natural numbers with a bound has a greatest element: the
\* least of its bounds.
LEMMA GreatestOf ==
  ASSUME NEW T \in SUBSET Nat, T # {}, NEW bound \in Nat, \A k \in T : k <= bound
  PROVE  \E m \in T : \A k \in T : k <= m
<1> DEFINE Bounds == {b \in Nat : \A k \in T : k <= b}
<1>1. PICK m \in Bounds : \A b \in Bounds : m <= b
  <2>1. Bounds \in SUBSET Nat /\ bound \in Bounds
    OBVIOUS
  <2> HIDE DEF Bounds
  <2> QED
    BY <2>1, LeastOf
<1>2. m \in T
  <2> SUFFICES ASSUME m \notin T PROVE FALSE
    OBVIOUS
  <2>1. m \in Nat /\ \A k \in T : k \in Nat /\ k <= m /\ k # m
    BY <1>1
  <2>2. m - 1 \in Nat /\ \A k \in T : k <= m - 1
    <3>1. PICK k \in T : TRUE
      OBVIOUS
    <3>2. m # 0
      BY <2>1, <3>1
    <3> QED
      BY <2>1, <3>2
  <2>3. m - 1 \in Bounds
    BY <2>2
  <2> HIDE DEF Bounds
  <2>4. m <= m - 1
    BY <1>1, <2>3
  <2> QED
    BY <2>1, <2>4
<1> QED
  BY <1>1, <1>2

-----------------------------------------------------------------------------
\* The function that follows the path from `p` until it comes to an element of
\* `stop`, and takes the value there: f[p] of a path that ends.
Follows(f, D, stop, value, next) ==
  f = [p \in D |-> IF p \in stop THEN value[p] ELSE f[next[p]]]

\* There is one if every step lowers the rank.
LEMMA PathExists ==
  ASSUME NEW D, NEW stop, NEW value, NEW next, NEW top \in Nat, NEW rank \in [D -> 0..top],
         \A p \in D \ stop : next[p] \in D /\ rank[next[p]] < rank[p]
  PROVE  \E f : Follows(f, D, stop, value, next)
<1> DEFINE Within(n) == {p \in D : rank[p] < n}
           Good == {n \in Nat : \E f : Follows(f, Within(n), stop, value, next)}
<1>1. 0 \in Good
  <2>1. Within(0) = {}
    OBVIOUS
  <2>2. Follows([p \in {} |-> 0], {}, stop, value, next)
    BY DEF Follows
  <2> QED
    BY <2>1, <2>2
<1>2. ASSUME NEW n \in Good PROVE n + 1 \in Good
  <2>1. PICK f : Follows(f, Within(n), stop, value, next)
    OBVIOUS
  <2> DEFINE g == [p \in Within(n + 1) |-> IF p \in stop THEN value[p] ELSE f[next[p]]]
  <2>2. ASSUME NEW p \in Within(n) PROVE g[p] = f[p]
    <3>1. p \in Within(n + 1)
      OBVIOUS
    <3> QED
      BY <2>1, <2>2, <3>1 DEF Follows
  <2>3. ASSUME NEW p \in Within(n + 1), p \notin stop PROVE g[next[p]] = f[next[p]]
    <3>1. next[p] \in Within(n)
      BY <2>3
    <3> HIDE DEF g, Within
    <3> QED
      BY <2>2, <3>1
  <2>4. Follows(g, Within(n + 1), stop, value, next)
    BY <2>3 DEF Follows
  <2> QED
    BY <2>4
<1>3. Good = Nat
  <2> HIDE DEF Good
  <2>1. Good \in SUBSET Nat
    BY DEF Good
  <2> QED
    BY <1>1, <1>2, <2>1, InductionOver
<1>4. Within(top + 1) = D /\ top + 1 \in Nat
  OBVIOUS
<1> QED
  BY <1>3, <1>4

\* It takes the value of an element of `stop`, and never leaves a set Q that no
\* step leaves.
LEMMA PathEnds ==
  ASSUME NEW D, NEW stop, NEW value, NEW next, NEW top \in Nat, NEW rank \in [D -> 0..top],
         NEW Q \in SUBSET D,
         \A p \in Q \ stop : next[p] \in Q /\ rank[next[p]] < rank[p],
         NEW f, Follows(f, D, stop, value, next)
  PROVE  \A p \in Q : \E q \in Q \cap stop : f[p] = value[q]
<1> DEFINE Good == {n \in Nat : \A p \in Q : rank[p] < n => \E q \in Q \cap stop : f[p] = value[q]}
<1>1. 0 \in Good
  OBVIOUS
<1>2. ASSUME NEW n \in Good PROVE n + 1 \in Good
  <2> SUFFICES ASSUME NEW p \in Q, rank[p] < n + 1 PROVE \E q \in Q \cap stop : f[p] = value[q]
    OBVIOUS
  <2>1. f[p] = IF p \in stop THEN value[p] ELSE f[next[p]]
    BY DEF Follows
  <2>2. CASE p \in stop
    BY <2>1, <2>2
  <2>3. CASE p \notin stop
    <3>1. next[p] \in Q /\ rank[next[p]] < n
      BY <2>3
    <3>2. \E q \in Q \cap stop : f[next[p]] = value[q]
      BY <3>1
    <3> QED
      BY <2>1, <2>3, <3>2
  <2> QED
    BY <2>2, <2>3
<1>3. Good = Nat
  <2> HIDE DEF Good
  <2>1. Good \in SUBSET Nat
    BY DEF Good
  <2> QED
    BY <1>1, <1>2, <2>1, InductionOver
<1>4. top + 1 \in Good /\ \A p \in Q : rank[p] < top + 1
  <2> HIDE DEF Good
  <2> QED
    BY <1>3
<1> QED
  BY <1>4

\* What a loop of `top` turns makes of `first`, turn by turn.
Turns(step, top, S) == \A k \in 1..top : \A x \in S : step[k][x] \in S
LoopOf(f, top, S, first, step) ==
  f \in [0..top -> S] /\ f[0] = first /\ \A k \in 1..top : f[k] = step[k][f[k - 1]]

LEMMA LoopExists ==
  ASSUME NEW top \in Nat, NEW S, NEW first \in S, NEW step, Turns(step, top, S)
  PROVE  \E f : LoopOf(f, top, S, first, step)
<1> DEFINE Upto(n, f) == f \in [0..n -> S] /\ f[0] = first /\ \A k \in 1..n : f[k] = step[k][f[k - 1]]
           Good == {n \in Nat : n <= top => \E f : Upto(n, f)}
<1>1. 0 \in Good
  <2>1. Upto(0, [k \in 0..0 |-> first])
    OBVIOUS
  <2> QED
    BY <2>1
<1>2. ASSUME NEW n \in Good PROVE n + 1 \in Good
  <2> SUFFICES ASSUME n + 1 <= top PROVE \E f : Upto(n + 1, f)
    <3> HIDE DEF Upto
    <3> QED
      OBVIOUS
  <2>1. n \in Nat /\ n <= top
    OBVIOUS
  <2>2. PICK f : Upto(n, f)
    BY <2>1
  <2> DEFINE g == [k \in 0..(n + 1) |-> IF k <= n THEN f[k] ELSE step[n + 1][f[n]]]
  <2>3. f[n] \in S /\ n + 1 \in 1..top
    BY <2>1, <2>2
  <2>4. step[n + 1][f[n]] \in S
    BY <2>3 DEF Turns
  <2>5. g \in [0..(n + 1) -> S] /\ g[0] = first
    BY <2>1, <2>2, <2>4
  <2>6. ASSUME NEW k \in 1..(n + 1) PROVE g[k] = step[k][g[k - 1]]
    <3>1. CASE k = n + 1
      <4>1. g[k - 1] = f[n] /\ g[k] = step[n + 1][f[n]]
        BY <2>1, <3>1
      <4> QED
        BY <3>1, <4>1
    <3>2. CASE k \in 1..n
      BY <2>1, <2>2, <3>2
    <3> QED
      BY <2>1, <3>1, <3>2
  <2> QED
    BY <2>5, <2>6
<1>3. Good = Nat
  <2> HIDE DEF Good
  <2>1. Good \in SUBSET Nat
    BY DEF Good
  <2> QED
    BY <1>1, <1>2, <2>1, InductionOver
<1>4. top \in Good
  <2> HIDE DEF Good
  <2> QED
    BY <1>3
<1> QED
  BY <1>4 DEF LoopOf

LEMMA SumLoop ==
  ASSUME NEW top \in Nat, NEW s, \A k \in 1..top : s[k] \in Nat
  PROVE  \E f \in [0..top -> Nat] : f[0] = 0 /\ \A k \in 1..top : f[k] = f[k - 1] + s[k]
<1>1. PICK step : step = [k \in 1..top |-> [sum \in Nat |-> sum + s[k]]]
  OBVIOUS
<1>2. Turns(step, top, Nat)
  <2>1. ASSUME NEW k \in 1..top, NEW x \in Nat PROVE step[k][x] \in Nat
    <3>1. step[k] = [sum \in Nat |-> sum + s[k]] /\ s[k] \in Nat
      BY <1>1
    <3>2. step[k][x] = x + s[k]
      BY <3>1
    <3> QED
      BY <3>1, <3>2
  <2> QED
    BY <2>1 DEF Turns
<1>3. PICK f : LoopOf(f, top, Nat, 0, step)
  <2>1. PICK N : N = Nat
    OBVIOUS
  <2>2. 0 \in N /\ Turns(step, top, N)
    BY <1>2, <2>1
  <2> QED
    BY <2>1, <2>2, LoopExists
<1>4. f \in [0..top -> Nat] /\ f[0] = 0
  BY <1>3 DEF LoopOf
<1>5. ASSUME NEW k \in 1..top PROVE f[k] = f[k - 1] + s[k]
  <2>1. f[k - 1] \in Nat
    <3>1. k - 1 \in 0..top
      OBVIOUS
    <3> QED
      BY <1>4, <3>1
  <2> QED
    BY <1>1, <1>3, <2>1 DEF LoopOf
<1> QED
  BY <1>4, <1>5

-----------------------------------------------------------------------------
\* Sequences of distinct elements

\* `u` is `s` followed by `t`; the elements m to n of `s`; `s` with `e` in it as
\* well; `s` without its element `e`.
Concatenated(S, u, s, t) ==
  /\ u \in Seq(S) /\ Len(u) = Len(s) + Len(t)
  /\ ToSet(u) = ToSet(s) \cup ToSet(t)
  /\ IsInjective(s) /\ IsInjective(t) /\ ToSet(s) \cap ToSet(t) = {} => IsInjective(u)

Stretch(S, u, s, m, n) ==
  /\ u \in Seq(S) /\ Len(u) = n - m + 1
  /\ \A i \in 1..n - m + 1 : u[i] = s[m + i - 1]
  /\ ToSet(u) = {s[i] : i \in m..n}
  /\ IsInjective(s) => IsInjective(u)

Enlarged(S, u, s, e) ==
  /\ u \in Seq(S) /\ Len(u) = Len(s) + 1
  /\ ToSet(u) = ToSet(s) \cup {e}
  /\ IsInjective(s) /\ e \notin ToSet(s) => IsInjective(u)

Shrunk(S, u, s, e) ==
  /\ u \in Seq(S) /\ Len(u) = Len(s) - 1
  /\ IsInjective(s) => IsInjective(u) /\ ToSet(u) = ToSet(s) \ {e}

LEMMA ConcatDistinct ==
  ASSUME NEW S, NEW s \in Seq(S), NEW t \in Seq(S)
  PROVE  Concatenated(S, s \o t, s, t)
<1> DEFINE u == s \o t
           m == Len(s)
           n == Len(t)
<1>1. /\ m \in Nat /\ DOMAIN s = 1..m /\ n \in Nat /\ DOMAIN t = 1..n
      /\ u \in Seq(S) /\ DOMAIN u = 1..(m + n) /\ Len(u) = m + n
  BY ConcatProperties, LenProperties
<1>2. \A i \in 1..(m + n) : u[i] = IF i <= m THEN s[i] ELSE t[i - m]
  BY ConcatProperties
<1> HIDE DEF u, m, n
<1>0. (\A i \in 1..m : s[i] \in ToSet(s)) /\ (\A i \in 1..n : t[i] \in ToSet(t))
  BY <1>1 DEF ToSet
<1>3. ASSUME NEW i \in 1..(m + n)
      PROVE  \/ i \in 1..m /\ u[i] = s[i] /\ u[i] \in ToSet(s)
             \/ i \notin 1..m /\ i - m \in 1..n /\ u[i] = t[i - m] /\ u[i] \in ToSet(t)
  <2>1. CASE i <= m
    <3>1. i \in 1..m /\ u[i] = s[i]
      BY <1>1, <1>2, <2>1
    <3> QED
      BY <3>1, <1>0
  <2>2. CASE ~(i <= m)
    <3>1. i \notin 1..m /\ i - m \in 1..n /\ u[i] = t[i - m]
      BY <1>1, <1>2, <2>2
    <3> QED
      BY <3>1, <1>0
  <2> QED
    BY <2>1, <2>2
<1>4. \A i \in 1..m : i \in 1..(m + n) /\ u[i] = s[i]
  BY <1>1, <1>2
<1>5. \A i \in 1..n : m + i \in 1..(m + n) /\ u[m + i] = t[i]
  BY <1>1, <1>2
<1>6. ToSet(u) = ToSet(s) \cup ToSet(t)
  <2>1. ToSet(u) \subseteq ToSet(s) \cup ToSet(t)
    <3>1. \A x \in ToSet(u) : \E i \in 1..(m + n) : x = u[i]
      BY <1>1 DEF ToSet
    <3> QED
      BY <3>1, <1>3
  <2>2. ASSUME NEW i \in 1..(m + n) PROVE u[i] \in ToSet(u)
    BY <1>1, <2>2 DEF ToSet
  <2>3. ToSet(s) \subseteq ToSet(u)
    <3>1. \A x \in ToSet(s) : \E i \in 1..m : x = s[i]
      BY <1>1 DEF ToSet
    <3> QED
      BY <3>1, <2>2, <1>4
  <2>4. ToSet(t) \subseteq ToSet(u)
    <3>1. \A x \in ToSet(t) : \E i \in 1..n : x = t[i]
      BY <1>1 DEF ToSet
    <3> QED
      BY <3>1, <2>2, <1>5
  <2> QED
    BY <2>1, <2>3, <2>4
<1>7. ASSUME IsInjective(s), IsInjective(t), ToSet(s) \cap ToSet(t) = {} PROVE IsInjective(u)
  <2> SUFFICES ASSUME NEW i \in 1..(m + n), NEW j \in 1..(m + n), u[i] = u[j] PROVE i = j
    BY <1>1 DEF IsInjective
  <2>1. /\ \A a, b \in 1..m : s[a] = s[b] => a = b
        /\ \A a, b \in 1..n : t[a] = t[b] => a = b
    BY <1>1, <1>7 DEF IsInjective
  <2>2. CASE i \in 1..m /\ j \in 1..m
    BY <1>3, <2>1, <2>2
  <2>3. CASE i \notin 1..m /\ j \notin 1..m
    <3>1. i - m = j - m
      BY <1>3, <2>1, <2>3
    <3> QED
      BY <3>1, <1>1
  <2>4. CASE ~(i \in 1..m <=> j \in 1..m)
    <3>1. u[i] \in ToSet(s) \cap ToSet(t)
      BY <1>3, <2>4
    <3> QED
      BY <3>1, <1>7
  <2> QED
    BY <2>2, <2>3, <2>4
<1> QED
  BY <1>1, <1>6, <1>7 DEF u, m, n, Concatenated

\* A stretch of a sequence.
LEMMA SubSeqDistinct ==
  ASSUME NEW S, NEW s \in Seq(S), NEW m \in 1..Len(s) + 1, NEW n \in (m - 1)..Len(s)
  PROVE  Stretch(S, SubSeq(s, m, n), s, m, n)
<1> DEFINE u == SubSeq(s, m, n)
           k == n - m + 1
<1>1. Len(s) \in Nat /\ m \in Int /\ n \in Int /\ k \in Nat /\ DOMAIN s = 1..Len(s)
  OBVIOUS
<1>2. \A i \in m..n : s[i] \in S
  BY <1>1, ElementOfSeq
<1>3. u \in Seq(S) /\ Len(u) = k /\ \A i \in 1..k : u[i] = s[m + i - 1]
  BY <1>1, <1>2, SubSeqProperties
<1>4. DOMAIN u = 1..k
  BY <1>3
<1> HIDE DEF u
<1>5. \A i \in 1..k : m + i - 1 \in m..n
  BY <1>1
<1>6. \A i \in m..n : i - m + 1 \in 1..k /\ u[i - m + 1] = s[i]
  <2> SUFFICES ASSUME NEW i \in m..n PROVE i - m + 1 \in 1..k /\ u[i - m + 1] = s[i]
    OBVIOUS
  <2>1. i - m + 1 \in 1..k
    BY <1>1
  <2>2. m + (i - m + 1) - 1 = i
    BY <1>1
  <2> HIDE DEF k
  <2> QED
    BY <1>3, <2>1, <2>2
<1>7. ToSet(u) = {s[i] : i \in m..n}
  <2>1. ASSUME NEW x \in ToSet(u) PROVE x \in {s[i] : i \in m..n}
    BY <1>3, <1>4, <1>5, <2>1 DEF ToSet
  <2>2. ASSUME NEW i \in m..n PROVE s[i] \in ToSet(u)
    BY <1>4, <1>6, <2>2 DEF ToSet
  <2> QED
    BY <2>1, <2>2
<1>8. ASSUME IsInjective(s) PROVE IsInjective(u)
  <2> SUFFICES ASSUME NEW i \in 1..k, NEW j \in 1..k, u[i] = u[j] PROVE i = j
    BY <1>4 DEF IsInjective
  <2>1. m + i - 1 \in DOMAIN s /\ m + j - 1 \in DOMAIN s /\ s[m + i - 1] = s[m + j - 1]
    BY <1>1, <1>3
  <2>2. m + i - 1 = m + j - 1
    BY <1>8, <2>1 DEF IsInjective
  <2> QED
    BY <1>1, <2>2
<1> QED
  BY <1>3, <1>7, <1>8 DEF u, Stretch

LEMMA SingleDistinct ==
  ASSUME NEW S, NEW e \in S
  PROVE  /\ <<e>> \in Seq(S) /\ Len(<<e>>) = 1 /\ ToSet(<<e>>) = {e} /\ IsInjective(<<e>>)
<1>1. <<e>> \in Seq(S) /\ Len(<<e>>) = 1 /\ <<e>>[1] = e /\ DOMAIN <<e>> = {1}
  OBVIOUS
<1> QED
  BY <1>1 DEF ToSet, IsInjective

LEMMA AppendGrows ==
  ASSUME NEW S, NEW s \in Seq(S), NEW e \in S
  PROVE  Enlarged(S, Append(s, e), s, e)
<1>1. Append(s, e) = s \o <<e>>
  BY AppendIsConcat
<1>2. /\ <<e>> \in Seq(S) /\ Len(<<e>>) = 1 /\ ToSet(<<e>>) = {e} /\ IsInjective(<<e>>)
  BY SingleDistinct
<1>3. Concatenated(S, s \o <<e>>, s, <<e>>)
  BY <1>2, ConcatDistinct
<1> QED
  BY <1>1, <1>2, <1>3 DEF Concatenated, Enlarged

LEMMA ConsGrows ==
  ASSUME NEW S, NEW s \in Seq(S), NEW e \in S
  PROVE  Enlarged(S, <<e>> \o s, s, e)
<1>1. /\ <<e>> \in Seq(S) /\ Len(<<e>>) = 1 /\ ToSet(<<e>>) = {e} /\ IsInjective(<<e>>)
  BY SingleDistinct
<1>2. Concatenated(S, <<e>> \o s, <<e>>, s)
  BY <1>1, ConcatDistinct
<1>3. Len(s) \in Nat
  OBVIOUS
<1> QED
  BY <1>1, <1>2, <1>3 DEF Concatenated, Enlarged

LEMMA InsertAtGrows ==
  ASSUME NEW S, NEW s \in Seq(S), NEW i \in 1..Len(s) + 1, NEW e \in S
  PROVE  Enlarged(S, InsertAt(s, i, e), s, e)
<1> DEFINE a == SubSeq(s, 1, i - 1)
           b == SubSeq(s, i, Len(s))
           c == a \o <<e>>
<1>1. Len(s) \in Nat /\ i \in Nat /\ DOMAIN s = 1..Len(s)
  OBVIOUS
<1>2. Stretch(S, a, s, 1, i - 1)
  <2>1. 1 \in 1..Len(s) + 1 /\ i - 1 \in (1 - 1)..Len(s)
    BY <1>1
  <2> QED
    BY <2>1, SubSeqDistinct
<1>3. Stretch(S, b, s, i, Len(s))
  <2>1. Len(s) \in (i - 1)..Len(s)
    BY <1>1
  <2> QED
    BY <2>1, SubSeqDistinct
<1>4. /\ <<e>> \in Seq(S) /\ Len(<<e>>) = 1 /\ ToSet(<<e>>) = {e} /\ IsInjective(<<e>>)
  BY SingleDistinct
<1>5. InsertAt(s, i, e) = c \o b
  BY DEF InsertAt
<1> HIDE DEF a, b
<1>6. ToSet(s) = ToSet(a) \cup ToSet(b)
  <2>1. 1..Len(s) = 1..(i - 1) \cup i..Len(s)
    BY <1>1
  <2> QED
    BY <2>1, <1>1, <1>2, <1>3 DEF ToSet, Stretch
<1>7. IsInjective(s) => ToSet(a) \cap ToSet(b) = {}
  <2> SUFFICES ASSUME IsInjective(s), NEW j \in 1..(i - 1), NEW k \in i..Len(s), s[j] = s[k] PROVE FALSE
    BY <1>2, <1>3 DEF Stretch
  <2>1. j \in DOMAIN s /\ k \in DOMAIN s /\ j # k
    BY <1>1
  <2> QED
    BY <2>1 DEF IsInjective
<1>8. Concatenated(S, c, a, <<e>>)
  BY <1>2, <1>4, ConcatDistinct DEF Stretch
<1> HIDE DEF c
<1>9. Concatenated(S, c \o b, c, b)
  BY <1>3, <1>8, ConcatDistinct DEF Stretch, Concatenated
<1>10. Len(a) = i - 1 /\ Len(b) = Len(s) - i + 1 /\ Len(c) = Len(a) + 1 /\ Len(c \o b) = Len(c) + Len(b)
  BY <1>1, <1>2, <1>3, <1>4, <1>8, <1>9 DEF Stretch, Concatenated
<1>11. Len(c \o b) = Len(s) + 1
  BY <1>1, <1>10
<1>12. ToSet(c) = ToSet(a) \cup {e} /\ ToSet(c \o b) = ToSet(s) \cup {e}
  BY <1>4, <1>6, <1>8, <1>9 DEF Concatenated
<1>13. ASSUME IsInjective(s), e \notin ToSet(s) PROVE IsInjective(c \o b)
  <2>1. IsInjective(a) /\ IsInjective(b)
    BY <1>2, <1>3, <1>13 DEF Stretch
  <2>2. IsInjective(c)
    BY <1>4, <1>6, <1>8, <1>13, <2>1 DEF Concatenated
  <2>3. ToSet(c) \cap ToSet(b) = {}
    BY <1>6, <1>7, <1>12, <1>13
  <2> QED
    BY <1>9, <2>1, <2>2, <2>3 DEF Concatenated
<1>14. c \o b \in Seq(S)
  BY <1>9 DEF Concatenated
<1> QED
  BY <1>5, <1>11, <1>12, <1>13, <1>14 DEF Enlarged

LEMMA RemoveAtShrinks ==
  ASSUME NEW S, NEW s \in Seq(S), NEW i \in 1..Len(s)
  PROVE  Shrunk(S, RemoveAt(s, i), s, s[i])
<1> DEFINE a == SubSeq(s, 1, i - 1)
           b == SubSeq(s, i + 1, Len(s))
<1>1. Len(s) \in Nat /\ i \in Nat /\ DOMAIN s = 1..Len(s)
  OBVIOUS
<1>2. Stretch(S, a, s, 1, i - 1)
  <2>1. 1 \in 1..Len(s) + 1 /\ i - 1 \in (1 - 1)..Len(s)
    BY <1>1
  <2> QED
    BY <2>1, SubSeqDistinct
<1>3. Stretch(S, b, s, i + 1, Len(s))
  <2>1. i + 1 \in 1..Len(s) + 1 /\ Len(s) \in ((i + 1) - 1)..Len(s)
    BY <1>1
  <2> QED
    BY <2>1, SubSeqDistinct
<1>4. RemoveAt(s, i) = a \o b
  BY DEF RemoveAt
<1> HIDE DEF a, b
<1>5. Concatenated(S, a \o b, a, b)
  BY <1>2, <1>3, ConcatDistinct DEF Stretch
<1>6. Len(a) = i - 1 /\ Len(b) = Len(s) - (i + 1) + 1 /\ Len(a \o b) = Len(a) + Len(b)
  BY <1>1, <1>2, <1>3, <1>5 DEF Stretch, Concatenated
<1>7. Len(a \o b) = Len(s) - 1
  BY <1>1, <1>6
<1>8. ToSet(a) = {s[j] : j \in 1..(i - 1)} /\ ToSet(b) = {s[j] : j \in (i + 1)..Len(s)}
  BY <1>2, <1>3 DEF Stretch
<1>9. ASSUME IsInjective(s)
      PROVE  ToSet(a) \cap ToSet(b) = {} /\ ToSet(a) \cup ToSet(b) = ToSet(s) \ {s[i]}
  <2>1. \A j, k \in 1..Len(s) : s[j] = s[k] => j = k
    BY <1>1, <1>9 DEF IsInjective
  <2>2. ToSet(a) \cap ToSet(b) = {}
    BY <1>1, <1>8, <2>1
  <2>3. 1..Len(s) = 1..(i - 1) \cup {i} \cup (i + 1)..Len(s)
    BY <1>1
  <2>4. ToSet(s) = {s[j] : j \in 1..Len(s)}
    BY <1>1 DEF ToSet
  <2>5. ToSet(a) \cup ToSet(b) \cup {s[i]} = ToSet(s)
    BY <1>8, <2>3, <2>4
  <2>6. s[i] \notin ToSet(a) \cup ToSet(b)
    BY <1>1, <1>8, <2>1
  <2> QED
    BY <2>2, <2>5, <2>6
<1>10. IsInjective(s) => IsInjective(a \o b) /\ ToSet(a \o b) = ToSet(s) \ {s[i]}
  BY <1>2, <1>3, <1>5, <1>9 DEF Stretch, Concatenated
<1>11. a \o b \in Seq(S)
  BY <1>5 DEF Concatenated
<1> QED
  BY <1>4, <1>7, <1>10, <1>11 DEF Shrunk

\* The two ends of a sequence.
LEMMA Ends ==
  ASSUME NEW S, NEW s \in Seq(S), Len(s) # 0
  PROVE  /\ Len(s) \in 1..Len(s)
         /\ Last(s) = s[Len(s)] /\ Last(s) \in S /\ Last(s) \in ToSet(s)
         /\ Head(s) = s[1] /\ Head(s) \in S /\ Head(s) \in ToSet(s)
<1>1. /\ Len(s) \in Nat \ {0} /\ DOMAIN s = 1..Len(s) /\ Last(s) = s[Len(s)]
      /\ Len(s) \in 1..Len(s) /\ 1 \in 1..Len(s) /\ Head(s) = s[1]
  BY DEF Last
<1> QED
  BY <1>1, ElementOfSeq DEF ToSet

LEMMA FrontShrinks ==
  ASSUME NEW S, NEW s \in Seq(S), Len(s) # 0
  PROVE  /\ Shrunk(S, Front(s), s, Last(s))
         /\ \A i \in 1..Len(s) - 1 : Front(s)[i] = s[i]
<1>1. Len(s) \in Nat \ {0} /\ DOMAIN s = 1..Len(s) /\ Last(s) = s[Len(s)] /\ Len(s) \in 1..Len(s)
  BY Ends
<1>2. Front(s) = SubSeq(s, 1, Len(s) - 1)
  BY DEF Front
<1>3. 1 \in 1..Len(s) + 1 /\ Len(s) - 1 \in (1 - 1)..Len(s)
  BY <1>1
<1>4. Stretch(S, Front(s), s, 1, Len(s) - 1)
  BY <1>2, <1>3, SubSeqDistinct
<1>5. (Len(s) - 1) - 1 + 1 = Len(s) - 1 /\ \A i \in 1..Len(s) - 1 : 1 + i - 1 = i
  BY <1>1
<1>6. ASSUME IsInjective(s) PROVE {s[i] : i \in 1..(Len(s) - 1)} = ToSet(s) \ {s[Len(s)]}
  <2>1. \A j, k \in 1..Len(s) : s[j] = s[k] => j = k
    BY <1>1, <1>6 DEF IsInjective
  <2>2. 1..Len(s) = 1..(Len(s) - 1) \cup {Len(s)} /\ Len(s) \notin 1..(Len(s) - 1)
    BY <1>1
  <2>3. ToSet(s) = {s[j] : j \in 1..Len(s)}
    BY <1>1 DEF ToSet
  <2> QED
    BY <1>1, <2>1, <2>2, <2>3
<1> QED
  BY <1>1, <1>4, <1>5, <1>6 DEF Stretch, Shrunk

LEMMA TailShrinks ==
  ASSUME NEW S, NEW s \in Seq(S), Len(s) # 0
  PROVE  /\ Shrunk(S, Tail(s), s, Head(s))
         /\ \A i \in 1..Len(s) - 1 : Tail(s)[i] = s[i + 1]
<1>1. Len(s) \in Nat \ {0} /\ DOMAIN s = 1..Len(s) /\ s # <<>> /\ 1 \in 1..Len(s) /\ Head(s) = s[1]
  OBVIOUS
<1>2. Tail(s) = SubSeq(s, 2, Len(s))
  BY <1>1, TailIsSubSeq
<1>3. 2 \in 1..Len(s) + 1 /\ Len(s) \in (2 - 1)..Len(s)
  BY <1>1
<1>4. Stretch(S, Tail(s), s, 2, Len(s))
  BY <1>2, <1>3, SubSeqDistinct
<1>5. Len(s) - 2 + 1 = Len(s) - 1 /\ \A i \in 1..Len(s) - 1 : 2 + i - 1 = i + 1
  BY <1>1
<1>6. ASSUME IsInjective(s) PROVE {s[i] : i \in 2..Len(s)} = ToSet(s) \ {s[1]}
  <2>1. \A j, k \in 1..Len(s) : s[j] = s[k] => j = k
    BY <1>1, <1>6 DEF IsInjective
  <2>2. 1..Len(s) = 2..Len(s) \cup {1} /\ 1 \notin 2..Len(s)
    BY <1>1
  <2>3. ToSet(s) = {s[j] : j \in 1..Len(s)}
    BY <1>1 DEF ToSet
  <2> QED
    BY <1>1, <2>1, <2>2, <2>3
<1> QED
  BY <1>1, <1>4, <1>5, <1>6 DEF Stretch, Shrunk

-----------------------------------------------------------------------------
\* Lists that grow until they meet themselves.

\* A list that grows by the next element of P until that is none, or one it has
\* already.
Walked(f, P, after) ==
  f = [s \in Seq(P) |-> IF after[s] \notin P \/ after[s] \in ToSet(s) THEN s ELSE f[Append(s, after[s])]]

\* The walk never leaves a set of lists that no step leaves, and ends there.
EndsWithin(f, P, after) ==
  \A Q \in SUBSET Seq(P) :
    (\A s \in Q : after[s] \in P /\ after[s] \notin ToSet(s) => Append(s, after[s]) \in Q) =>
      \A s \in Q : f[s] \in Q /\ (after[f[s]] \notin P \/ after[f[s]] \in ToSet(f[s]))

LEMMA WalkIs ==
  ASSUME NEW P, IsFiniteSet(P), NEW after
  PROVE  (\E f : Walked(f, P, after)) /\ \A f : Walked(f, P, after) => EndsWithin(f, P, after)
<1> DEFINE D == Seq(P)
           stop == {s \in D : after[s] \notin P \/ after[s] \in ToSet(s)}
           value == [s \in D |-> s]
           next == [s \in D |-> Append(s, after[s])]
           rank == [s \in D |-> Cardinality(P \ ToSet(s))]
<1>1. Cardinality(P) \in Nat
  BY FS_CardinalityType
<1>2. ASSUME NEW s \in D
      PROVE  /\ IsFiniteSet(P \ ToSet(s)) /\ Cardinality(P \ ToSet(s)) \in Nat
             /\ Cardinality(P \ ToSet(s)) <= Cardinality(P)
  <2>1. P \ ToSet(s) \in SUBSET P
    OBVIOUS
  <2>2. IsFiniteSet(P \ ToSet(s)) /\ Cardinality(P \ ToSet(s)) <= Cardinality(P)
    BY <2>1, FS_Subset
  <2> QED
    BY <2>2, FS_CardinalityType
<1>3. rank \in [D -> 0..Cardinality(P)]
  <2> HIDE DEF D
  <2>1. ASSUME NEW s \in D PROVE Cardinality(P \ ToSet(s)) \in 0..Cardinality(P)
    <3>1. PICK k, bound : k = Cardinality(P \ ToSet(s)) /\ bound = Cardinality(P)
      OBVIOUS
    <3>2. k \in Nat /\ bound \in Nat /\ k <= bound
      BY <1>1, <1>2, <3>1
    <3> QED
      BY <3>1, <3>2
  <2> QED
    BY <2>1
<1>4. ASSUME NEW s \in D \ stop
      PROVE  /\ next[s] = Append(s, after[s]) /\ next[s] \in D
             /\ rank[next[s]] < rank[s]
  <2>1. PICK x : x = after[s]
    OBVIOUS
  <2>2. x \in P /\ x \notin ToSet(s) /\ next[s] = Append(s, x)
    BY <2>1
  <2>3. Append(s, x) \in D /\ ToSet(Append(s, x)) = ToSet(s) \cup {x}
    BY <2>2, AppendGrows DEF Enlarged
  <2>4. P \ ToSet(Append(s, x)) = (P \ ToSet(s)) \ {x} /\ x \in P \ ToSet(s)
    BY <2>2, <2>3
  <2>5. Cardinality(P \ ToSet(Append(s, x))) = Cardinality(P \ ToSet(s)) - 1
    BY <1>2, <2>4, FS_RemoveElement
  <2>6. rank[s] = Cardinality(P \ ToSet(s)) /\ rank[s] \in Nat
    BY <1>2
  <2>7. rank[Append(s, x)] = Cardinality(P \ ToSet(Append(s, x)))
    BY <2>3
  <2> HIDE DEF D, rank, next
  <2> QED
    BY <2>1, <2>2, <2>3, <2>5, <2>6, <2>7
<1>5. ASSUME NEW f PROVE Follows(f, D, stop, value, next) <=> Walked(f, P, after)
  <2>1. [s \in D |-> IF s \in stop THEN value[s] ELSE f[next[s]]]
          = [s \in Seq(P) |-> IF after[s] \notin P \/ after[s] \in ToSet(s) THEN s ELSE f[Append(s, after[s])]]
    OBVIOUS
  <2> QED
    BY <2>1 DEF Follows, Walked
<1>6. \E f : Walked(f, P, after)
  <2>1. \E f : Follows(f, D, stop, value, next)
    <3> HIDE DEF D, stop, value, next, rank
    <3> QED
      BY <1>1, <1>3, <1>4, PathExists
  <2> QED
    BY <1>5, <2>1
<1>7. ASSUME NEW f, Walked(f, P, after) PROVE EndsWithin(f, P, after)
  <2> SUFFICES ASSUME NEW Q \in SUBSET D,
                      \A s \in Q : after[s] \in P /\ after[s] \notin ToSet(s) => Append(s, after[s]) \in Q
               PROVE  \A s \in Q : f[s] \in Q /\ (after[f[s]] \notin P \/ after[f[s]] \in ToSet(f[s]))
    BY DEF EndsWithin
  <2>1. Follows(f, D, stop, value, next)
    BY <1>5, <1>7
  <2>2. \A s \in Q \ stop : next[s] \in Q /\ rank[next[s]] < rank[s]
    BY <1>4
  <2>3. \A s \in Q : \E q \in Q \cap stop : f[s] = value[q]
    <3> HIDE DEF D, stop, value, next, rank
    <3> QED
      BY <1>1, <1>3, <2>1, <2>2, PathEnds
  <2> QED
    BY <2>3
<1> QED
  BY <1>6, <1>7

-----------------------------------------------------------------------------
\* Elements of sequences that have been changed.
Inserted(S, u, s, i, e) ==
  /\ u \in Seq(S) /\ Len(u) = Len(s) + 1
  /\ \A j \in 1..Len(s) + 1 : u[j] = IF j < i THEN s[j] ELSE IF j = i THEN e ELSE s[j - 1]

Removed(S, u, s, i) ==
  /\ u \in Seq(S) /\ Len(u) = Len(s) - 1
  /\ \A j \in 1..Len(s) - 1 : u[j] = IF j < i THEN s[j] ELSE s[j + 1]

EndToEnd(S, u, s, t) ==
  /\ u \in Seq(S) /\ Len(u) = Len(s) + Len(t)
  /\ \A j \in 1..Len(s) + Len(t) : u[j] = IF j <= Len(s) THEN s[j] ELSE t[j - Len(s)]

Consed(S, u, s, e) ==
  /\ u \in Seq(S) /\ Len(u) = Len(s) + 1
  /\ \A j \in 1..Len(s) + 1 : u[j] = IF j = 1 THEN e ELSE s[j - 1]

Appended(S, u, s, e) ==
  /\ u \in Seq(S) /\ Len(u) = Len(s) + 1
  /\ \A j \in 1..Len(s) + 1 : u[j] = IF j <= Len(s) THEN s[j] ELSE e

LEMMA InsertAtIs ==
  ASSUME NEW S, NEW s \in Seq(S), NEW i \in 1..Len(s) + 1, NEW e \in S
  PROVE  Inserted(S, InsertAt(s, i, e), s, i, e)
<1> DEFINE a == SubSeq(s, 1, i - 1)
           b == SubSeq(s, i, Len(s))
           c == a \o <<e>>
<1>1. Len(s) \in Nat /\ i \in Nat /\ DOMAIN s = 1..Len(s)
  OBVIOUS
<1>2. Stretch(S, a, s, 1, i - 1)
  <2>1. 1 \in 1..Len(s) + 1 /\ i - 1 \in (1 - 1)..Len(s)
    BY <1>1
  <2> QED
    BY <2>1, SubSeqDistinct
<1>3. Stretch(S, b, s, i, Len(s))
  <2>1. Len(s) \in (i - 1)..Len(s)
    BY <1>1
  <2> QED
    BY <2>1, SubSeqDistinct
<1>4. <<e>> \in Seq(S) /\ Len(<<e>>) = 1 /\ <<e>>[1] = e
  OBVIOUS
<1>5. InsertAt(s, i, e) = c \o b
  BY DEF InsertAt
<1>6. /\ a \in Seq(S) /\ Len(a) = i - 1 /\ \A j \in 1..i - 1 : a[j] = s[j]
      /\ b \in Seq(S) /\ Len(b) = Len(s) - i + 1 /\ \A j \in 1..Len(s) - i + 1 : b[j] = s[i + j - 1]
  <2>1. (i - 1) - 1 + 1 = i - 1 /\ \A j \in 1..i - 1 : 1 + j - 1 = j
    BY <1>1
  <2> HIDE DEF a, b
  <2> QED
    BY <1>2, <1>3, <2>1 DEF Stretch
<1> HIDE DEF a, b
<1>7. /\ c \in Seq(S) /\ Len(c) = i
      /\ \A j \in 1..i : c[j] = IF j < i THEN s[j] ELSE e
  <2>1. c \in Seq(S) /\ Len(c) = i
    BY <1>1, <1>4, <1>6, ConcatProperties
  <2>2. ASSUME NEW j \in 1..i PROVE c[j] = IF j < i THEN s[j] ELSE e
    <3>1. c[j] = IF j <= Len(a) THEN a[j] ELSE <<e>>[j - Len(a)]
      BY <1>1, <1>4, <1>6, ConcatProperties
    <3> QED
      BY <1>1, <1>4, <1>6, <3>1
  <2> QED
    BY <2>1, <2>2
<1> HIDE DEF c
<1>8. c \o b \in Seq(S) /\ Len(c \o b) = Len(s) + 1
  <2>1. c \in Seq(S) /\ b \in Seq(S)
    BY <1>6, <1>7
  <2>2. c \o b \in Seq(S) /\ Len(c \o b) = Len(c) + Len(b)
    BY <2>1, ConcatProperties
  <2>3. i + (Len(s) - i + 1) = Len(s) + 1
    BY <1>1
  <2> QED
    BY <1>6, <1>7, <2>2, <2>3
<1>9. ASSUME NEW j \in 1..Len(s) + 1
      PROVE  (c \o b)[j] = IF j < i THEN s[j] ELSE IF j = i THEN e ELSE s[j - 1]
  <2>1. (c \o b)[j] = IF j <= i THEN c[j] ELSE b[j - i]
    BY <1>1, <1>6, <1>7, ConcatProperties
  <2>2. CASE j <= i
    BY <1>1, <1>7, <2>1, <2>2
  <2>3. CASE ~(j <= i)
    <3>1. j - i \in 1..Len(s) - i + 1 /\ i + (j - i) - 1 = j - 1
      BY <1>1, <2>3
    <3>2. b[j - i] = s[j - 1]
      BY <1>6, <3>1
    <3> QED
      BY <1>1, <2>1, <2>3, <3>2
  <2> QED
    BY <2>2, <2>3
<1> HIDE DEF c
<1>10. PICK u : u = c \o b
  OBVIOUS
<1>11. Inserted(S, u, s, i, e)
  BY <1>8, <1>9, <1>10 DEF Inserted
<1> QED
  BY <1>5, <1>10, <1>11

LEMMA RemoveAtIs ==
  ASSUME NEW S, NEW s \in Seq(S), NEW i \in 1..Len(s)
  PROVE  Removed(S, RemoveAt(s, i), s, i)
<1> DEFINE a == SubSeq(s, 1, i - 1)
           b == SubSeq(s, i + 1, Len(s))
<1>1. Len(s) \in Nat /\ i \in Nat /\ DOMAIN s = 1..Len(s)
  OBVIOUS
<1>2. Stretch(S, a, s, 1, i - 1)
  <2>1. 1 \in 1..Len(s) + 1 /\ i - 1 \in (1 - 1)..Len(s)
    BY <1>1
  <2> QED
    BY <2>1, SubSeqDistinct
<1>3. Stretch(S, b, s, i + 1, Len(s))
  <2>1. i + 1 \in 1..Len(s) + 1 /\ Len(s) \in ((i + 1) - 1)..Len(s)
    BY <1>1
  <2> QED
    BY <2>1, SubSeqDistinct
<1>4. RemoveAt(s, i) = a \o b
  BY DEF RemoveAt
<1>5. /\ a \in Seq(S) /\ Len(a) = i - 1 /\ \A j \in 1..i - 1 : a[j] = s[j]
      /\ b \in Seq(S) /\ Len(b) = Len(s) - i /\ \A j \in 1..Len(s) - i : b[j] = s[i + j]
  <2>1. /\ (i - 1) - 1 + 1 = i - 1 /\ \A j \in 1..i - 1 : 1 + j - 1 = j
        /\ Len(s) - (i + 1) + 1 = Len(s) - i /\ \A j \in 1..Len(s) - i : (i + 1) + j - 1 = i + j
    BY <1>1
  <2> HIDE DEF a, b
  <2> QED
    BY <1>2, <1>3, <2>1 DEF Stretch
<1> HIDE DEF a, b
<1>6. a \o b \in Seq(S) /\ Len(a \o b) = Len(s) - 1
  <2>1. a \o b \in Seq(S) /\ Len(a \o b) = Len(a) + Len(b)
    BY <1>5, ConcatProperties
  <2>2. (i - 1) + (Len(s) - i) = Len(s) - 1
    BY <1>1
  <2> QED
    BY <1>5, <2>1, <2>2
<1>7. ASSUME NEW j \in 1..Len(s) - 1 PROVE (a \o b)[j] = IF j < i THEN s[j] ELSE s[j + 1]
  <2>1. (a \o b)[j] = IF j <= i - 1 THEN a[j] ELSE b[j - (i - 1)]
    BY <1>1, <1>5, ConcatProperties
  <2>2. CASE j < i
    BY <1>1, <1>5, <2>1, <2>2
  <2>3. CASE ~(j < i)
    <3>1. j - (i - 1) \in 1..Len(s) - i /\ i + (j - (i - 1)) = j + 1 /\ ~(j <= i - 1)
      BY <1>1, <2>3
    <3>2. b[j - (i - 1)] = s[j + 1]
      BY <1>5, <3>1
    <3> QED
      BY <2>1, <2>3, <3>1, <3>2
  <2> QED
    BY <2>2, <2>3
<1>8. PICK u : u = a \o b
  OBVIOUS
<1>9. Removed(S, u, s, i)
  BY <1>6, <1>7, <1>8 DEF Removed
<1> QED
  BY <1>4, <1>8, <1>9

LEMMA ConcatIs ==
  ASSUME NEW S, NEW s \in Seq(S), NEW t \in Seq(S)
  PROVE  EndToEnd(S, s \o t, s, t)
BY ConcatProperties DEF EndToEnd

LEMMA ConsIs ==
  ASSUME NEW S, NEW s \in Seq(S), NEW e \in S
  PROVE  Consed(S, <<e>> \o s, s, e)
<1>1. <<e>> \in Seq(S) /\ Len(<<e>>) = 1 /\ <<e>>[1] = e /\ Len(s) \in Nat
  OBVIOUS
<1>2. PICK d : d = <<e>>
  OBVIOUS
<1>3. EndToEnd(S, d \o s, d, s)
  BY <1>1, <1>2, ConcatIs
<1>4. Consed(S, d \o s, s, e)
  BY <1>1, <1>2, <1>3 DEF EndToEnd, Consed
<1> QED
  BY <1>2, <1>4

LEMMA AppendedIs ==
  ASSUME NEW S, NEW s \in Seq(S), NEW e \in S
  PROVE  Appended(S, Append(s, e), s, e)
BY AppendProperties DEF Appended

-----------------------------------------------------------------------------
\* Keys that rise between two bounds.
\* The keys that divide an inner page's interval among its children: child i has
\* what lies between fence i - 1 and fence i.
Fence(keys, a, b, i) == IF i = 0 THEN a ELSE IF i <= Len(keys) THEN keys[i] ELSE b

Rising(keys, a, b) ==
  \A i, j \in 0..Len(keys) + 1 : i < j => Fence(keys, a, b, i) < Fence(keys, a, b, j)

\* A leaf's last key is the end of its interval, except at the end of its tree.
LeafOrdered(keys, a, b, top) ==
  /\ \A i \in 1..Len(keys) : a < keys[i] /\ keys[i] <= b
  /\ \A i, j \in 1..Len(keys) : i < j => keys[i] < keys[j]
  /\ b # top => Len(keys) # 0 /\ keys[Len(keys)] = b

Fences(keys, a, b, n) ==
  /\ n \in Nat
  /\ \A i \in 0..n + 1 : Fence(keys, a, b, i) \in Int
  /\ Fence(keys, a, b, 0) = a /\ Fence(keys, a, b, n + 1) = b
  /\ \A i \in 1..n : Fence(keys, a, b, i) = keys[i] /\ keys[i] \in Nat

LEMMA FenceIs ==
  ASSUME NEW keys \in Seq(Nat), NEW a \in Int, NEW b \in Int
  PROVE  Fences(keys, a, b, Len(keys))
<1>0. PICK n : n = Len(keys)
  OBVIOUS
<1>1. n \in Nat /\ \A i \in 1..n : keys[i] \in Nat /\ keys[i] \in Int
  BY <1>0
<1>2. Fences(keys, a, b, n)
  BY <1>0, <1>1 DEF Fence, Fences
<1> QED
  BY <1>0, <1>2

\* A leaf's keys, and one that is not among them.
LEMMA NotAmong ==
  ASSUME NEW keys \in Seq(Nat), NEW key, key \notin ToSet(keys)
  PROVE  \A j \in 1..Len(keys) : keys[j] \in Nat /\ keys[j] # key
BY DEF ToSet

\* The keys of a leaf are cut in two.
LeafCut(keys, n, a, b, top, h, m, lower, upper) ==
  /\ m \in Nat /\ a < m /\ m < b /\ lower \in Seq(Nat) /\ upper \in Seq(Nat)
  /\ LeafOrdered(lower, a, m, top) /\ LeafOrdered(upper, m, b, top)
  /\ ToSet(keys) = ToSet(lower) \cup ToSet(upper)

LEMMA LeafHalved ==
  ASSUME NEW keys \in Seq(Nat), NEW a \in Int, NEW b \in Int, NEW top \in Int, LeafOrdered(keys, a, b, top),
         NEW n, n = Len(keys), NEW h \in 1..n - 1,
         NEW lower, lower = SubSeq(keys, 1, h), NEW upper, upper = SubSeq(keys, h + 1, n), NEW m, m = keys[h]
  PROVE  LeafCut(keys, n, a, b, top, h, m, lower, upper)
<1>1. n \in Nat /\ h \in Nat /\ h >= 1 /\ h < n /\ \A i \in 1..n : keys[i] \in Nat
  OBVIOUS
<1>2. Stretch(Nat, lower, keys, 1, h) /\ Stretch(Nat, upper, keys, h + 1, n)
  <2>1. /\ 1 \in 1..n + 1 /\ h \in (1 - 1)..n
        /\ h + 1 \in 1..n + 1 /\ n \in ((h + 1) - 1)..n
    BY <1>1
  <2>2. PICK g : g = h + 1
    OBVIOUS
  <2>3. Stretch(Nat, lower, keys, 1, h)
    BY <2>1, SubSeqDistinct
  <2>4. Stretch(Nat, upper, keys, g, n)
    BY <2>1, <2>2, SubSeqDistinct
  <2> QED
    BY <2>2, <2>3, <2>4
<1>3. /\ lower \in Seq(Nat) /\ Len(lower) = h /\ \A i \in 1..h : lower[i] = keys[i]
  <2>1. h - 1 + 1 = h /\ \A i \in 1..h : 1 + i - 1 = i
    BY <1>1
  <2> QED
    BY <1>2, <2>1 DEF Stretch
<1>4. /\ upper \in Seq(Nat) /\ Len(upper) = n - h /\ \A i \in 1..n - h : upper[i] = keys[h + i]
  <2>1. n - (h + 1) + 1 = n - h /\ \A i \in 1..n - h : (h + 1) + i - 1 = h + i
    BY <1>1
  <2> QED
    BY <1>2, <2>1 DEF Stretch
<1>5. ToSet(keys) = ToSet(lower) \cup ToSet(upper)
  <2>1. ToSet(lower) = {keys[i] : i \in 1..h} /\ ToSet(upper) = {keys[i] : i \in h + 1..n}
    BY <1>2 DEF Stretch
  <2>2. DOMAIN keys = 1..n
    OBVIOUS
  <2>3. ToSet(keys) = {keys[i] : i \in 1..n}
    BY <2>2 DEF ToSet
  <2>4. \A i : i \in 1..n <=> i \in 1..h \/ i \in h + 1..n
    BY <1>1
  <2> QED
    BY <2>1, <2>3, <2>4
<1>6. /\ \A i \in 1..n : a < keys[i] /\ keys[i] <= b
      /\ \A i, j \in 1..n : i < j => keys[i] < keys[j]
      /\ b # top => keys[n] = b
  BY DEF LeafOrdered
<1>7. m \in Nat /\ a < m /\ m < keys[n] /\ keys[n] <= b /\ m < b /\ n \in 1..n /\ h \in 1..n
  BY <1>1, <1>6
<1>8. LeafOrdered(lower, a, m, top)
  <2>1. \A i \in 1..h : i \in 1..n /\ (i = h \/ i < h)
    BY <1>1
  <2>2. \A i \in 1..h : a < lower[i] /\ lower[i] <= m
    <3> SUFFICES ASSUME NEW i \in 1..h PROVE a < lower[i] /\ lower[i] <= m
      OBVIOUS
    <3>1. lower[i] = keys[i] /\ a < keys[i] /\ keys[i] \in Nat
      BY <1>1, <1>3, <1>6, <2>1
    <3>2. i = h \/ keys[i] < keys[h]
      BY <1>6, <1>7, <2>1
    <3> QED
      BY <1>7, <3>1, <3>2
  <2>3. \A i, j \in 1..h : i < j => lower[i] < lower[j]
    BY <1>3, <1>6, <2>1
  <2>4. h # 0 /\ lower[h] = m
    BY <1>1, <1>3
  <2> QED
    BY <1>3, <2>2, <2>3, <2>4 DEF LeafOrdered
<1>9. LeafOrdered(upper, m, b, top)
  <2>1. \A i \in 1..n - h : h + i \in 1..n /\ h < h + i
    BY <1>1
  <2>2. \A i \in 1..n - h : m < upper[i] /\ upper[i] <= b
    BY <1>4, <1>6, <1>7, <2>1
  <2>3. \A i, j \in 1..n - h : i < j => upper[i] < upper[j]
    <3>1. \A i, j \in 1..n - h : i < j => h + i < h + j
      BY <1>1
    <3> QED
      BY <1>4, <1>6, <2>1, <3>1
  <2>4. n - h # 0 /\ n - h \in 1..n - h /\ h + (n - h) = n
    BY <1>1
  <2> QED
    BY <1>4, <1>6, <2>2, <2>3, <2>4 DEF LeafOrdered
<1> QED
  BY <1>3, <1>4, <1>5, <1>7, <1>8, <1>9 DEF LeafCut

\* One separator is changed.
KeySet(keys, ks, n, i, k, a, b) ==
  /\ ks \in Seq(Nat) /\ Len(ks) = n
  /\ \A j \in 0..n + 1 : Fence(ks, a, b, j) = IF j = i THEN k ELSE Fence(keys, a, b, j)
  /\ Fence(keys, a, b, i - 1) < k /\ k < Fence(keys, a, b, i + 1) => Rising(ks, a, b)

LEMMA KeySetIs ==
  ASSUME NEW keys \in Seq(Nat), NEW n, n = Len(keys), NEW i \in 1..n, NEW k \in Nat,
         NEW a \in Int, NEW b \in Int, Rising(keys, a, b), NEW ks, ks = [keys EXCEPT ![i] = k]
  PROVE  KeySet(keys, ks, n, i, k, a, b)
<1>1. /\ n \in Nat /\ i \in Nat /\ 1 <= i /\ i <= n /\ ks \in Seq(Nat) /\ Len(ks) = n
      /\ \A j \in 1..n : ks[j] = IF j = i THEN k ELSE keys[j]
  OBVIOUS
<1>2. \A j \in 0..n + 1 : Fence(ks, a, b, j) = IF j = i THEN k ELSE Fence(keys, a, b, j)
  <2> SUFFICES ASSUME NEW j \in 0..n + 1
               PROVE  Fence(ks, a, b, j) = IF j = i THEN k ELSE Fence(keys, a, b, j)
    OBVIOUS
  <2>1. /\ j = 0 => j # i
        /\ ~(j <= n) => j # i
        /\ j # 0 /\ j <= n => j \in 1..n
    BY <1>1
  <2>2. Len(keys) = n /\ Len(ks) = n
    BY <1>1
  <2>3. Fence(ks, a, b, j) = IF j = 0 THEN a ELSE IF j <= n THEN ks[j] ELSE b
    BY <2>2 DEF Fence
  <2>4. Fence(keys, a, b, j) = IF j = 0 THEN a ELSE IF j <= n THEN keys[j] ELSE b
    BY <2>2 DEF Fence
  <2> QED
    BY <1>1, <2>1, <2>3, <2>4
<1>3. Fences(keys, a, b, n)
  BY FenceIs
<1>a. PICK f : f = [j \in 0..n + 1 |-> Fence(keys, a, b, j)]
  OBVIOUS
<1>4. \A j \in 0..n + 1 : f[j] = Fence(keys, a, b, j) /\ f[j] \in Int
  BY <1>3, <1>a DEF Fences
<1>5. \A j, l \in 0..n + 1 : j < l => f[j] < f[l]
  BY <1>4 DEF Rising
<1>6. ASSUME Fence(keys, a, b, i - 1) < k, k < Fence(keys, a, b, i + 1) PROVE Rising(ks, a, b)
  <2>1. ASSUME NEW j \in 0..n + 1, NEW l \in 0..n + 1, j < l PROVE Fence(ks, a, b, j) < Fence(ks, a, b, l)
    <3>0. PICK q, r : q = i - 1 /\ r = i + 1
      OBVIOUS
    <3>1. q \in 0..n + 1 /\ r \in 0..n + 1 /\ f[q] < k /\ k < f[r]
      <4>1. i - 1 \in 0..n + 1 /\ i + 1 \in 0..n + 1
        BY <1>1
      <4>2. Fence(keys, a, b, q) < k /\ k < Fence(keys, a, b, r)
        BY <1>6, <3>0
      <4> QED
        BY <1>4, <3>0, <4>1, <4>2
    <3>a. /\ Fence(ks, a, b, j) = IF j = i THEN k ELSE f[j]
          /\ Fence(ks, a, b, l) = IF l = i THEN k ELSE f[l]
      BY <1>2, <1>4
    <3>2. CASE j = i
      <4>1. l = r \/ r < l
        BY <1>1, <2>1, <3>0, <3>2
      <4>2. k < f[l]
        <5>1. f[r] = f[l] \/ f[r] < f[l]
          BY <1>5, <3>1, <4>1
        <5>2. f[r] \in Int /\ f[l] \in Int
          BY <1>4, <3>1
        <5> QED
          BY <3>1, <5>1, <5>2
      <4> QED
        BY <2>1, <3>2, <3>a, <4>2
    <3>3. CASE l = i
      <4>1. j = q \/ j < q
        BY <1>1, <2>1, <3>0, <3>3
      <4>2. f[j] < k
        <5>1. f[j] = f[q] \/ f[j] < f[q]
          BY <1>5, <3>1, <4>1
        <5>2. f[j] \in Int /\ f[q] \in Int
          BY <1>4, <3>1
        <5> QED
          BY <3>1, <5>1, <5>2
      <4> QED
        BY <2>1, <3>3, <3>a, <4>2
    <3>4. CASE j # i /\ l # i
      BY <1>5, <2>1, <3>4, <3>a
    <3> QED
      BY <3>2, <3>3, <3>4
  <2> QED
    BY <1>1, <2>1 DEF Rising
<1> QED
  BY <1>1, <1>2, <1>6 DEF KeySet

\* A separator is put between two others.
FencesSplit(keys, ks, n, i, m, a, b) ==
  /\ n \in Nat /\ ks \in Seq(Nat) /\ Len(ks) = n + 1 /\ Rising(ks, a, b)
  /\ \A j \in 0..n + 2 : Fence(ks, a, b, j) = IF j < i THEN Fence(keys, a, b, j)
                                             ELSE IF j = i THEN m ELSE Fence(keys, a, b, j - 1)

LEMMA FencesSplitIs ==
  ASSUME NEW keys \in Seq(Nat), NEW n, n = Len(keys), NEW i \in 1..n + 1, NEW m \in Nat,
         NEW a \in Int, NEW b \in Int, Rising(keys, a, b), NEW ks, Inserted(Nat, ks, keys, i, m),
         Fence(keys, a, b, i - 1) < m, m < Fence(keys, a, b, i)
  PROVE  FencesSplit(keys, ks, n, i, m, a, b)
<1>1. n \in Nat /\ i \in Nat /\ 1 <= i /\ i <= n + 1
  OBVIOUS
<1>2. /\ ks \in Seq(Nat) /\ Len(ks) = n + 1
      /\ \A j \in 1..n + 1 : ks[j] = IF j < i THEN keys[j] ELSE IF j = i THEN m ELSE keys[j - 1]
  BY DEF Inserted
<1>a. PICK f, e : /\ f = [j \in 0..n + 1 |-> Fence(keys, a, b, j)]
                  /\ e = [j \in 0..n + 2 |-> Fence(ks, a, b, j)]
  OBVIOUS
<1>3. \A j \in 0..n + 1 : f[j] = Fence(keys, a, b, j) /\ f[j] \in Int
  <2>1. Fences(keys, a, b, n)
    BY FenceIs
  <2> QED
    BY <1>a, <2>1 DEF Fences
<1>4. \A j, l \in 0..n + 1 : j < l => f[j] < f[l]
  BY <1>3 DEF Rising
<1>b. PICK q : q = i - 1
  OBVIOUS
<1>5. q \in 0..n + 1 /\ i \in 0..n + 1 /\ f[q] < m /\ m < f[i]
  BY <1>1, <1>3, <1>b
<1>6. \A j \in 0..n + 2 : e[j] = IF j < i THEN f[j] ELSE IF j = i THEN m ELSE f[j - 1]
  <2> SUFFICES ASSUME NEW j \in 0..n + 2
               PROVE  e[j] = IF j < i THEN f[j] ELSE IF j = i THEN m ELSE f[j - 1]
    OBVIOUS
  <2>1. e[j] = IF j = 0 THEN a ELSE IF j <= n + 1 THEN ks[j] ELSE b
    BY <1>2, <1>a DEF Fence
  <2>2. \A l \in 0..n + 1 : f[l] = IF l = 0 THEN a ELSE IF l <= n THEN keys[l] ELSE b
    BY <1>3 DEF Fence
  <2>3. CASE j < i
    <3>1. j \in 0..n + 1 /\ j <= n /\ (j = 0 \/ j \in 1..n + 1)
      BY <1>1, <2>3
    <3> QED
      BY <1>2, <2>1, <2>2, <2>3, <3>1
  <2>4. CASE j = i
    <3>1. j \in 1..n + 1 /\ j # 0 /\ j <= n + 1 /\ ~(j < i)
      BY <1>1, <2>4
    <3> QED
      BY <1>2, <2>1, <2>4, <3>1
  <2>5. CASE j > i
    <3>1. /\ ~(j < i) /\ j # i /\ j # 0 /\ j - 1 \in 0..n + 1 /\ j - 1 # 0
          /\ (j <= n + 1 <=> j - 1 <= n) /\ (j <= n + 1 => j \in 1..n + 1)
      BY <1>1, <2>5
    <3> QED
      BY <1>2, <2>1, <2>2, <3>1
  <2> QED
    BY <1>1, <2>3, <2>4, <2>5
<1>7. \A j, l \in 0..n + 2 : j < l => e[j] < e[l]
  <2> SUFFICES ASSUME NEW j \in 0..n + 2, NEW l \in 0..n + 2, j < l PROVE e[j] < e[l]
    OBVIOUS
  <2>1. PICK j1, l1 : j1 = j - 1 /\ l1 = l - 1
    OBVIOUS
  <2>2. /\ j < i => j \in 0..n + 1 /\ (j = q \/ j < q)
        /\ l < i => l \in 0..n + 1
        /\ j > i => j1 \in 0..n + 1 /\ j1 < l1
        /\ l > i => l1 \in 0..n + 1 /\ (l1 = i \/ i < l1)
        /\ j < i /\ l > i => j < l1
    BY <1>1, <1>b, <2>1
  <2>3. j < i => f[j] < m /\ f[j] \in Int
    <3> SUFFICES ASSUME j < i PROVE f[j] < m /\ f[j] \in Int
      OBVIOUS
    <3>1. f[j] = f[q] \/ f[j] < f[q]
      BY <1>4, <1>5, <2>2
    <3>2. f[j] \in Int /\ f[q] \in Int
      BY <1>3, <1>5, <2>2
    <3> QED
      BY <1>5, <3>1, <3>2
  <2>4. l > i => m < f[l1] /\ f[l1] \in Int
    <3> SUFFICES ASSUME l > i PROVE m < f[l1] /\ f[l1] \in Int
      OBVIOUS
    <3>1. f[i] = f[l1] \/ f[i] < f[l1]
      BY <1>4, <1>5, <2>2
    <3>2. f[l1] \in Int /\ f[i] \in Int
      BY <1>3, <1>5, <2>2
    <3> QED
      BY <1>5, <3>1, <3>2
  <2>5. /\ e[j] = IF j < i THEN f[j] ELSE IF j = i THEN m ELSE f[j1]
        /\ e[l] = IF l < i THEN f[l] ELSE IF l = i THEN m ELSE f[l1]
    BY <1>6, <2>1
  <2>6. CASE l < i
    <3>1. j < i
      BY <1>1, <2>6
    <3> QED
      BY <1>4, <2>2, <2>5, <2>6, <3>1
  <2>7. CASE l = i
    <3>1. j < i
      BY <2>7
    <3> QED
      BY <2>3, <2>5, <2>7, <3>1
  <2>8. CASE l > i
    <3>1. ~(l < i) /\ l # i
      BY <1>1, <2>8
    <3>2. CASE j < i
      BY <1>4, <2>2, <2>5, <2>8, <3>1, <3>2
    <3>3. CASE j = i
      BY <1>1, <2>4, <2>5, <2>8, <3>1, <3>3
    <3>4. CASE j > i
      <4>1. ~(j < i) /\ j # i
        BY <1>1, <3>4
      <4> QED
        BY <1>4, <2>2, <2>5, <2>8, <3>1, <3>4, <4>1
    <3> QED
      BY <1>1, <3>2, <3>3, <3>4
  <2> QED
    BY <1>1, <2>6, <2>7, <2>8
<1>8. \A j \in 0..n + 2 : e[j] = Fence(ks, a, b, j)
  BY <1>a
<1>9. Rising(ks, a, b)
  <2>1. 0..Len(ks) + 1 = 0..n + 2
    BY <1>1, <1>2
  <2> QED
    BY <1>7, <1>8, <2>1 DEF Rising
<1>10. \A j \in 0..n + 2 : Fence(ks, a, b, j) = IF j < i THEN Fence(keys, a, b, j)
                                                ELSE IF j = i THEN m ELSE Fence(keys, a, b, j - 1)
  <2> SUFFICES ASSUME NEW j \in 0..n + 2
               PROVE  Fence(ks, a, b, j) = IF j < i THEN Fence(keys, a, b, j)
                                           ELSE IF j = i THEN m ELSE Fence(keys, a, b, j - 1)
    OBVIOUS
  <2>1. (j < i => j \in 0..n + 1) /\ (j > i => j - 1 \in 0..n + 1)
    BY <1>1
  <2>2. /\ j < i => f[j] = Fence(keys, a, b, j)
        /\ j > i => f[j - 1] = Fence(keys, a, b, j - 1)
    BY <1>3, <2>1
  <2> QED
    BY <1>1, <1>6, <1>8, <2>2
<1> QED
  BY <1>1, <1>2, <1>9, <1>10 DEF FencesSplit

\* The separators are divided at the key h + 1.
FencesCut(keys, lower, upper, n, h, s, a, b) ==
  /\ lower \in Seq(Nat) /\ Len(lower) = h /\ Rising(lower, a, s)
  /\ upper \in Seq(Nat) /\ Len(upper) = n - h - 1 /\ Rising(upper, s, b)
  /\ \A j \in 0..h + 1 : Fence(lower, a, s, j) = Fence(keys, a, b, j)
  /\ \A j \in 0..n - h : Fence(upper, s, b, j) = Fence(keys, a, b, j + h + 1)
  /\ s \in Nat /\ s = Fence(keys, a, b, h + 1) /\ a < s /\ s < b

LEMMA FencesCutIs ==
  ASSUME NEW keys \in Seq(Nat), NEW n, n = Len(keys), NEW h \in 0..n - 1,
         NEW a \in Int, NEW b \in Int, Rising(keys, a, b), NEW lower, NEW upper, NEW s,
         lower = SubSeq(keys, 1, h), upper = SubSeq(keys, h + 2, n), s = keys[h + 1]
  PROVE  FencesCut(keys, lower, upper, n, h, s, a, b)
<1>1. n \in Nat /\ h \in Nat /\ h + 1 <= n
  OBVIOUS
<1>2. Stretch(Nat, lower, keys, 1, h) /\ Stretch(Nat, upper, keys, h + 2, n)
  <2>1. 1 \in 1..Len(keys) + 1 /\ h \in (1 - 1)..Len(keys)
    BY <1>1
  <2>2. h + 2 \in 1..Len(keys) + 1 /\ n \in ((h + 2) - 1)..Len(keys)
    BY <1>1
  <2> QED
    BY <2>1, <2>2, SubSeqDistinct
<1>3. /\ lower \in Seq(Nat) /\ Len(lower) = h /\ \A j \in 1..h : lower[j] = keys[j]
  <2>1. h - 1 + 1 = h /\ \A j \in 1..h : 1 + j - 1 = j
    BY <1>1
  <2> QED
    BY <1>2, <2>1 DEF Stretch
<1>4. /\ upper \in Seq(Nat) /\ Len(upper) = n - h - 1 /\ \A j \in 1..n - h - 1 : upper[j] = keys[j + h + 1]
  <2>1. n - (h + 2) + 1 = n - h - 1 /\ \A j \in 1..n - h - 1 : (h + 2) + j - 1 = j + h + 1
    BY <1>1
  <2> QED
    BY <1>2, <2>1 DEF Stretch
<1>a. PICK f, d, e : /\ f = [j \in 0..n + 1 |-> Fence(keys, a, b, j)]
                     /\ d = [j \in 0..h + 1 |-> Fence(lower, a, s, j)]
                     /\ e = [j \in 0..n - h |-> Fence(upper, s, b, j)]
  OBVIOUS
<1>5. \A j \in 0..n + 1 : f[j] = Fence(keys, a, b, j) /\ f[j] \in Int
  <2>1. Fences(keys, a, b, n)
    BY FenceIs
  <2> QED
    BY <1>a, <2>1 DEF Fences
<1>6. \A j, l \in 0..n + 1 : j < l => f[j] < f[l]
  BY <1>5 DEF Rising
<1>7. \A j \in 0..n + 1 : f[j] = IF j = 0 THEN a ELSE IF j <= n THEN keys[j] ELSE b
  BY <1>5 DEF Fence
<1>8. s = f[h + 1] /\ s \in Nat /\ a < s /\ s < b /\ f[0] = a /\ f[n + 1] = b
  <2>1. h + 1 \in 1..n /\ h + 1 \in 0..n + 1 /\ 0 \in 0..n + 1 /\ n + 1 \in 0..n + 1
    BY <1>1
  <2>a. n + 1 # 0 /\ ~(n + 1 <= n) /\ h + 1 # 0 /\ h + 1 <= n
    BY <1>1
  <2>b. f[n + 1] = b
    BY <1>7, <2>1, <2>a
  <2>c. f[h + 1] = s
    BY <1>7, <2>1, <2>a
  <2>2. f[0] = a /\ f[n + 1] = b /\ f[h + 1] = s
    BY <1>7, <2>1, <2>b, <2>c
  <2>3. s \in Nat
    BY <2>1
  <2>4. f[0] < f[h + 1] /\ f[h + 1] < f[n + 1]
    BY <1>1, <1>6, <2>1
  <2> QED
    BY <2>2, <2>3, <2>4
<1>9. \A j \in 0..h + 1 : d[j] = f[j]
  <2> SUFFICES ASSUME NEW j \in 0..h + 1 PROVE d[j] = f[j]
    OBVIOUS
  <2>1. d[j] = IF j = 0 THEN a ELSE IF j <= h THEN lower[j] ELSE s
    BY <1>3, <1>a DEF Fence
  <2>2. j \in 0..n + 1 /\ (j = h + 1 \/ j <= h) /\ j <= n /\ (j # 0 /\ j <= h => j \in 1..h)
    BY <1>1
  <2>3. f[j] = IF j = 0 THEN a ELSE keys[j]
    BY <1>7, <2>2
  <2>4. j = h + 1 => ~(j <= h) /\ j # 0
    BY <1>1
  <2> QED
    BY <1>3, <1>8, <2>1, <2>2, <2>3, <2>4
<1>10. \A j \in 0..n - h : e[j] = f[j + h + 1]
  <2> SUFFICES ASSUME NEW j \in 0..n - h PROVE e[j] = f[j + h + 1]
    OBVIOUS
  <2>1. e[j] = IF j = 0 THEN s ELSE IF j <= n - h - 1 THEN upper[j] ELSE b
    BY <1>4, <1>a DEF Fence
  <2>2. /\ j + h + 1 \in 0..n + 1 /\ j + h + 1 # 0 /\ (j + h + 1 <= n <=> j <= n - h - 1)
        /\ j # 0 /\ j <= n - h - 1 => j \in 1..n - h - 1
        /\ j = 0 => j + h + 1 = h + 1
    BY <1>1
  <2>3. f[j + h + 1] = IF j <= n - h - 1 THEN keys[j + h + 1] ELSE b
    BY <1>7, <2>2
  <2> QED
    BY <1>4, <1>8, <2>1, <2>2, <2>3
<1>11. \A j, l \in 0..h + 1 : j < l => d[j] < d[l]
  <2>1. \A j \in 0..h + 1 : j \in 0..n + 1
    BY <1>1
  <2> QED
    BY <1>6, <1>9, <2>1
<1>12. \A j, l \in 0..n - h : j < l => e[j] < e[l]
  <2> SUFFICES ASSUME NEW j \in 0..n - h, NEW l \in 0..n - h, j < l PROVE e[j] < e[l]
    OBVIOUS
  <2>1. j + h + 1 \in 0..n + 1 /\ l + h + 1 \in 0..n + 1 /\ j + h + 1 < l + h + 1
    BY <1>1
  <2> QED
    BY <1>6, <1>10, <2>1
<1>13. Rising(lower, a, s)
  BY <1>3, <1>11, <1>a DEF Rising
<1>14. Rising(upper, s, b)
  <2>1. Len(upper) + 1 = n - h
    <3>1. Len(upper) = n - h - 1
      BY ONLY <1>4
    <3>2. n \in Nat /\ h \in Nat
      BY ONLY <1>1
    <3> QED
      BY ONLY <3>1, <3>2
  <2> QED
    BY <1>12, <1>a, <2>1 DEF Rising
<1>15. \A j \in 0..h + 1 : Fence(lower, a, s, j) = Fence(keys, a, b, j)
  <2>1. \A j \in 0..h + 1 : j \in 0..n + 1
    BY <1>1
  <2> QED
    BY <1>5, <1>9, <1>a, <2>1
<1>16. \A j \in 0..n - h : Fence(upper, s, b, j) = Fence(keys, a, b, j + h + 1)
  <2>1. \A j \in 0..n - h : j + h + 1 \in 0..n + 1
    BY <1>1
  <2> QED
    BY <1>5, <1>10, <1>a, <2>1
<1>17. s = Fence(keys, a, b, h + 1)
  <2>1. h + 1 \in 0..n + 1
    BY <1>1
  <2> QED
    BY <1>5, <1>8, <2>1
<1> QED
  BY <1>3, <1>4, <1>8, <1>13, <1>14, <1>15, <1>16, <1>17 DEF FencesCut

\* The keys of two neighbouring leaves, one after the other.
LEMMA LeafJoined ==
  ASSUME NEW s \in Seq(Nat), NEW t \in Seq(Nat), NEW a \in Int, NEW m \in Int, NEW b \in Int, NEW top,
         a < m, m < b, LeafOrdered(s, a, m, top), LeafOrdered(t, m, b, top), NEW u, u = s \o t
  PROVE  /\ EndToEnd(Nat, u, s, t) /\ LeafOrdered(u, a, b, top)
         /\ ToSet(u) = ToSet(s) \cup ToSet(t)
<1>1. PICK x, y : x = Len(s) /\ y = Len(t)
  OBVIOUS
<1>2. x \in Nat /\ y \in Nat
  BY <1>1
<1>3. EndToEnd(Nat, u, s, t)
  BY ConcatIs
<1>4. Len(u) = x + y /\ \A j \in 1..x + y : u[j] = IF j <= x THEN s[j] ELSE t[j - x]
  BY <1>1, <1>3 DEF EndToEnd
<1>5. /\ \A j \in 1..x : s[j] \in Nat
      /\ \A j \in 1..x : a < s[j] /\ s[j] <= m
      /\ \A j, l \in 1..x : j < l => s[j] < s[l]
      /\ \A j \in 1..y : t[j] \in Nat
      /\ \A j \in 1..y : m < t[j] /\ t[j] <= b
      /\ \A j, l \in 1..y : j < l => t[j] < t[l]
      /\ b # top => y # 0 /\ t[y] = b
  <2>1. \A j \in 1..x : s[j] \in Nat
    BY <1>1
  <2>2. \A j \in 1..y : t[j] \in Nat
    BY <1>1
  <2>3. (\A j \in 1..x : a < s[j] /\ s[j] <= m) /\ (\A j, l \in 1..x : j < l => s[j] < s[l])
    BY <1>1 DEF LeafOrdered
  <2>4. /\ \A j \in 1..y : m < t[j] /\ t[j] <= b
        /\ \A j, l \in 1..y : j < l => t[j] < t[l]
        /\ b # top => y # 0 /\ t[y] = b
    BY <1>1 DEF LeafOrdered
  <2> QED
    BY <2>1, <2>2, <2>3, <2>4
<1>6. ASSUME NEW j \in 1..x + y 
      PROVE  (j \in 1..x /\ u[j] = s[j]) \/ (j - x \in 1..y /\ u[j] = t[j - x] /\ ~(j <= x))
  <2>1. j \in 1..x \/ (j - x \in 1..y /\ ~(j <= x))
    BY ONLY <1>2, <1>6
  <2>2. j \in 1..x => j <= x
    BY ONLY <1>2
  <2>3. u[j] = IF j <= x THEN s[j] ELSE t[j - x]
    BY <1>4, <1>6
  <2> QED
    BY <2>1, <2>2, <2>3
<1>7. ASSUME NEW j \in 1..x + y PROVE a < u[j] /\ u[j] <= b
  <2>1. CASE j \in 1..x /\ u[j] = s[j]
    <3>1. s[j] \in Nat /\ a < s[j] /\ s[j] <= m
      BY <1>5, <2>1
    <3> QED
      BY <2>1, <3>1
  <2>2. CASE j - x \in 1..y /\ u[j] = t[j - x]
    <3>1. PICK l : l = j - x
      OBVIOUS
    <3>2. t[l] \in Nat /\ m < t[l] /\ t[l] <= b
      BY <1>5, <2>2, <3>1
    <3> QED
      BY <2>2, <3>1, <3>2
  <2> QED
    BY <1>6, <1>7, <2>1, <2>2
<1>8. ASSUME NEW j \in 1..x + y, NEW l \in 1..x + y, j < l PROVE u[j] < u[l]
  <2>1. CASE l \in 1..x
    <3>1. j \in 1..x
      BY <1>2, <1>8, <2>1
    <3>2. u[j] = s[j] /\ u[l] = s[l]
      <4>1. l <= x /\ j <= x
        BY ONLY <1>2, <2>1, <3>1
      <4> QED
        BY ONLY <1>4, <4>1, j \in 1..x + y, l \in 1..x + y
    <3> QED
      BY <1>5, <1>8, <2>1, <3>1, <3>2
  <2>2. CASE l \notin 1..x
    <3>1. l - x \in 1..y /\ u[l] = t[l - x]
      BY <1>6, <2>2
    <3>2. CASE j \in 1..x
      <4>1. u[j] = s[j]
        <5>1. j <= x
          BY ONLY <1>2, <3>2
        <5> QED
          BY <1>4, <1>8, <5>1
      <4>2. PICK q : q = l - x
        OBVIOUS
      <4>3. s[j] \in Nat /\ s[j] <= m /\ t[q] \in Nat /\ m < t[q] /\ u[l] = t[q]
        BY <1>5, <3>1, <3>2, <4>2
      <4>4. m \in Int
        OBVIOUS
      <4>5. s[j] < t[q]
        BY ONLY <4>3, <4>4
      <4> QED
        BY <4>1, <4>3, <4>5
    <3>3. CASE j \notin 1..x
      <4>1. j - x \in 1..y /\ u[j] = t[j - x]
        BY <1>6, <3>3
      <4>2. j - x < l - x
        BY <1>2, <1>8
      <4> QED
        BY <1>5, <3>1, <4>1, <4>2
    <3> QED
      BY <3>2, <3>3
  <2> QED
    BY <2>1, <2>2
<1>9. ASSUME b # top PROVE x + y # 0 /\ u[x + y] = b
  <2>1. x + y \in 1..x + y /\ ~(x + y <= x) /\ (x + y) - x = y
    BY <1>2, <1>5, <1>9
  <2> QED
    BY <1>4, <1>5, <1>9, <2>1
<1>10. LeafOrdered(u, a, b, top)
  BY <1>4, <1>7, <1>8, <1>9 DEF LeafOrdered
<1>11. ToSet(u) = ToSet(s) \cup ToSet(t)
  BY ConcatDistinct DEF Concatenated
<1> QED
  BY <1>3, <1>10, <1>11

\* The same cells, otherwise divided.
LEMMA LeafParted ==
  ASSUME NEW keys \in Seq(Nat), NEW a \in Int, NEW b \in Int, NEW top \in Int, LeafOrdered(keys, a, b, top),
         NEW lower \in Seq(Nat), NEW upper \in Seq(Nat), EndToEnd(Nat, keys, lower, upper),
         NEW h, h = Len(lower), h # 0, Len(upper) # 0, NEW m, m = lower[h]
  PROVE  LeafCut(keys, Len(keys), a, b, top, h, m, lower, upper)
<1>1. PICK n, g : n = Len(keys) /\ g = h + 1
  OBVIOUS
<1>2. /\ h \in Nat /\ Len(upper) \in Nat /\ n = h + Len(upper) /\ DOMAIN keys = 1..n /\ n \in Nat
      /\ DOMAIN lower = 1..h /\ DOMAIN upper = 1..Len(upper)
      /\ \A j \in 1..n : keys[j] = IF j <= h THEN lower[j] ELSE upper[j - h]
  <2>1. /\ Len(keys) = Len(lower) + Len(upper)
        /\ \A j \in 1..Len(lower) + Len(upper) :
             keys[j] = IF j <= Len(lower) THEN lower[j] ELSE upper[j - Len(lower)]
    BY DEF EndToEnd
  <2>2. /\ Len(lower) \in Nat /\ Len(upper) \in Nat /\ Len(keys) \in Nat
        /\ DOMAIN keys = 1..Len(keys) /\ DOMAIN lower = 1..Len(lower) /\ DOMAIN upper = 1..Len(upper)
    OBVIOUS
  <2>3. h \in Nat /\ n = h + Len(upper) /\ n \in Nat /\ n = Len(keys)
    BY ONLY <1>1, <2>1, <2>2, h = Len(lower)
  <2> QED
    BY ONLY <2>1, <2>2, <2>3, h = Len(lower)
<1>3. h \in 1..n - 1 /\ n \in 1..n
  BY <1>2
<1>4. lower = SubSeq(keys, 1, h)
  <2>1. 1 \in 1..n + 1 /\ h \in (1 - 1)..n /\ h - 1 + 1 = h /\ \A j \in 1..h : 1 + j - 1 = j /\ j \in 1..n /\ j <= h
    BY <1>2, <1>3
  <2>2. Stretch(Nat, SubSeq(keys, 1, h), keys, 1, h)
    BY <1>1, <2>1, SubSeqDistinct
  <2>3. PICK u : u = SubSeq(keys, 1, h)
    OBVIOUS
  <2>4. u \in Seq(Nat) /\ Len(u) = h /\ \A j \in 1..h : u[j] = keys[j]
    BY <2>1, <2>2, <2>3 DEF Stretch
  <2>5. Len(u) = Len(lower) /\ \A j \in 1..Len(lower) : u[j] = lower[j]
    BY <1>2, <2>1, <2>4
  <2> QED
    BY <2>3, <2>4, <2>5, SeqEqual
<1>5. upper = SubSeq(keys, g, n)
  <2>1. /\ g \in 1..n + 1 /\ n \in (g - 1)..n /\ n - g + 1 = Len(upper)
        /\ \A j \in 1..Len(upper) : g + j - 1 = h + j /\ h + j \in 1..n /\ ~(h + j <= h) /\ (h + j) - h = j
    BY <1>1, <1>2, <1>3
  <2>2. Stretch(Nat, SubSeq(keys, g, n), keys, g, n)
    BY <1>1, <2>1, SubSeqDistinct
  <2>3. PICK u : u = SubSeq(keys, g, n)
    OBVIOUS
  <2>4. u \in Seq(Nat) /\ Len(u) = Len(upper) /\ \A j \in 1..Len(upper) : u[j] = keys[h + j]
    BY <2>1, <2>2, <2>3 DEF Stretch
  <2>5. \A j \in 1..Len(upper) : u[j] = upper[j]
    BY <1>2, <2>1, <2>4
  <2> QED
    BY <2>3, <2>4, <2>5, SeqEqual
<1>6. m = keys[h]
  BY <1>2, <1>3
<1> QED
  BY <1>1, <1>3, <1>4, <1>5, <1>6, LeafHalved

LEMMA CellMovesRight ==
  ASSUME NEW s \in Seq(Nat), NEW t \in Seq(Nat), Len(s) >= 2,
         NEW lower, lower = Front(s), NEW upper, upper = <<Last(s)>> \o t
  PROVE  /\ lower \in Seq(Nat) /\ Len(lower) = Len(s) - 1 /\ Len(lower) # 0
         /\ upper \in Seq(Nat) /\ Len(upper) = Len(t) + 1 /\ Len(upper) # 0
         /\ EndToEnd(Nat, s \o t, lower, upper)
<1>1. PICK x, y, e, u : x = Len(s) /\ y = Len(t) /\ e = Last(s) /\ u = s \o t
  OBVIOUS
<1>2. x \in Nat /\ y \in Nat /\ x >= 2 /\ x \in 1..x
  BY <1>1
<1>3. e \in Nat /\ e = s[x] /\ x # 0
  BY <1>1, <1>2, Ends
<1>4. lower \in Seq(Nat) /\ Len(lower) = x - 1 /\ \A j \in 1..x - 1 : lower[j] = s[j]
  BY <1>1, <1>3, FrontShrinks DEF Shrunk
<1>5. upper \in Seq(Nat) /\ Len(upper) = y + 1 /\ \A j \in 1..y + 1 : upper[j] = IF j = 1 THEN e ELSE t[j - 1]
  BY <1>1, <1>3, ConsIs DEF Consed
<1>6. u \in Seq(Nat) /\ Len(u) = x + y /\ \A j \in 1..x + y : u[j] = IF j <= x THEN s[j] ELSE t[j - x]
  BY <1>1, ConcatIs DEF EndToEnd
<1>7. (x - 1) + (y + 1) = x + y /\ x - 1 # 0 /\ y + 1 # 0
  BY <1>2
<1>8. ASSUME NEW j \in 1..x + y PROVE u[j] = IF j <= x - 1 THEN lower[j] ELSE upper[j - (x - 1)]
  <2>1. CASE j <= x - 1
    <3>1. j \in 1..x - 1 /\ j <= x
      BY <1>2, <2>1
    <3> QED
      BY <1>4, <1>6, <2>1, <3>1
  <2>2. CASE j = x
    <3>1. j - (x - 1) = 1 /\ 1 \in 1..y + 1 /\ ~(j <= x - 1) /\ j <= x
      BY <1>2, <2>2
    <3> QED
      BY <1>3, <1>5, <1>6, <2>2, <3>1
  <2>3. CASE ~(j <= x)
    <3>1. PICK l : l = j - (x - 1)
      OBVIOUS
    <3>2. l \in 1..y + 1 /\ ~(l = 1) /\ ~(j <= x - 1) /\ l - 1 = j - x
      BY <1>2, <1>8, <2>3, <3>1
    <3>3. upper[l] = t[j - x] /\ u[j] = t[j - x]
      BY <1>5, <1>6, <1>8, <2>3, <3>2
    <3> QED
      BY <3>1, <3>2, <3>3
  <2>4. (j <= x - 1) \/ (j = x) \/ ~(j <= x)
    BY ONLY <1>2, <1>8
  <2> QED
    BY <2>1, <2>2, <2>3, <2>4
<1>9. EndToEnd(Nat, u, lower, upper)
  <2>1. Len(u) = Len(lower) + Len(upper) /\ Len(lower) = x - 1
    BY <1>4, <1>5, <1>6, <1>7
  <2>2. PICK w : w = x - 1
    OBVIOUS
  <2>3. \A j \in 1..x + y : u[j] = IF j <= w THEN lower[j] ELSE upper[j - w]
    BY <1>8, <2>2
  <2> QED
    BY <1>6, <2>1, <2>2, <2>3 DEF EndToEnd
<1> QED
  BY <1>1, <1>4, <1>5, <1>7, <1>9

LEMMA CellMovesLeft ==
  ASSUME NEW s \in Seq(Nat), NEW t \in Seq(Nat), Len(t) >= 2,
         NEW lower, lower = Append(s, Head(t)), NEW upper, upper = Tail(t)
  PROVE  /\ lower \in Seq(Nat) /\ Len(lower) = Len(s) + 1 /\ Len(lower) # 0 /\ lower[Len(s) + 1] = Head(t)
         /\ upper \in Seq(Nat) /\ Len(upper) = Len(t) - 1 /\ Len(upper) # 0
         /\ EndToEnd(Nat, s \o t, lower, upper)
<1>1. PICK x, y, e, u : x = Len(s) /\ y = Len(t) /\ e = Head(t) /\ u = s \o t
  OBVIOUS
<1>2. x \in Nat /\ y \in Nat /\ y >= 2 /\ y # 0
  BY <1>1
<1>3. e \in Nat /\ e = t[1]
  BY <1>1, <1>2, Ends
<1>4. lower \in Seq(Nat) /\ Len(lower) = x + 1 /\ \A j \in 1..x + 1 : lower[j] = IF j <= x THEN s[j] ELSE e
  BY <1>1, <1>3, AppendedIs DEF Appended
<1>5. upper \in Seq(Nat) /\ Len(upper) = y - 1 /\ \A j \in 1..y - 1 : upper[j] = t[j + 1]
  BY <1>1, <1>2, TailShrinks DEF Shrunk
<1>6. u \in Seq(Nat) /\ Len(u) = x + y /\ \A j \in 1..x + y : u[j] = IF j <= x THEN s[j] ELSE t[j - x]
  BY <1>1, ConcatIs DEF EndToEnd
<1>7. (x + 1) + (y - 1) = x + y /\ x + 1 # 0 /\ y - 1 # 0 /\ x + 1 \in 1..x + 1 /\ ~(x + 1 <= x)
  BY <1>2
<1>8. ASSUME NEW j \in 1..x + y PROVE u[j] = IF j <= x + 1 THEN lower[j] ELSE upper[j - (x + 1)]
  <2>1. CASE j <= x
    <3>1. j \in 1..x + 1 /\ j <= x + 1
      BY <1>2, <2>1
    <3> QED
      BY <1>4, <1>6, <2>1, <3>1
  <2>2. CASE j = x + 1
    <3>1. j - x = 1 /\ j \in 1..x + 1 /\ j <= x + 1 /\ ~(j <= x)
      BY <1>2, <2>2
    <3> QED
      BY <1>3, <1>4, <1>6, <3>1
  <2>3. CASE ~(j <= x + 1)
    <3>1. PICK l : l = j - (x + 1)
      OBVIOUS
    <3>2. l \in 1..y - 1 /\ ~(j <= x) /\ l + 1 = j - x
      BY <1>2, <1>8, <2>3, <3>1
    <3>3. upper[l] = t[j - x] /\ u[j] = t[j - x]
      BY <1>5, <1>6, <1>8, <3>2
    <3> QED
      BY <2>3, <3>1, <3>3
  <2>4. (j <= x) \/ (j = x + 1) \/ ~(j <= x + 1)
    BY ONLY <1>2, <1>8
  <2> QED
    BY <2>1, <2>2, <2>3, <2>4
<1>9. EndToEnd(Nat, u, lower, upper)
  <2>1. Len(u) = Len(lower) + Len(upper) /\ Len(lower) = x + 1
    BY <1>4, <1>5, <1>6, <1>7
  <2>2. PICK w : w = x + 1
    OBVIOUS
  <2>3. \A j \in 1..x + y : u[j] = IF j <= w THEN lower[j] ELSE upper[j - w]
    BY <1>8, <2>2
  <2> QED
    BY <1>6, <2>1, <2>2, <2>3 DEF EndToEnd
<1>10. lower[x + 1] = e
  BY <1>4, <1>7
<1> QED
  BY <1>1, <1>4, <1>5, <1>7, <1>9, <1>10

\* The separators of two nodes around the one between them.
Around(u, lower, s, upper) ==
  /\ lower \in Seq(Nat) /\ upper \in Seq(Nat) /\ s \in Nat
  /\ u \in Seq(Nat) /\ Len(u) = Len(lower) + 1 + Len(upper)
  /\ \A j \in 1..Len(lower) : u[j] = lower[j]
  /\ u[Len(lower) + 1] = s
  /\ \A j \in 1..Len(upper) : u[Len(lower) + 1 + j] = upper[j]

FencesAround(u, lower, s, upper, a, b, h, g) ==
  /\ \A j \in 0..h + 1 : Fence(lower, a, s, j) = Fence(u, a, b, j)
  /\ \A j \in 0..g + 1 : Fence(upper, s, b, j) = Fence(u, a, b, j + h + 1)

LEMMA FencesAroundAre ==
  ASSUME NEW u, NEW lower, NEW s, NEW upper, Around(u, lower, s, upper), NEW a \in Int, NEW b \in Int
  PROVE  FencesAround(u, lower, s, upper, a, b, Len(lower), Len(upper))
<1>1. PICK h, g, n : h = Len(lower) /\ g = Len(upper) /\ n = Len(u)
  OBVIOUS
<1>2. h \in Nat /\ g \in Nat /\ n = h + 1 + g
  BY <1>1 DEF Around
<1>3. /\ \A j \in 1..h : u[j] = lower[j]
      /\ u[h + 1] = s
      /\ \A j \in 1..g : u[h + 1 + j] = upper[j]
  BY <1>1 DEF Around
<1>4. ASSUME NEW j \in 0..h + 1 PROVE Fence(lower, a, s, j) = Fence(u, a, b, j)
  <2>1. Fence(lower, a, s, j) = (IF j = 0 THEN a ELSE IF j <= h THEN lower[j] ELSE s)
    BY <1>1 DEF Fence
  <2>2. Fence(u, a, b, j) = (IF j = 0 THEN a ELSE IF j <= n THEN u[j] ELSE b)
    BY <1>1 DEF Fence
  <2>3. j <= n /\ (j = 0 \/ (j \in 1..h /\ j <= h /\ j # 0) \/ (j = h + 1 /\ ~(j <= h) /\ j # 0))
    BY ONLY <1>2, <1>4
  <2> QED
    BY <1>3, <2>1, <2>2, <2>3
<1>5. ASSUME NEW j \in 0..g + 1 PROVE Fence(upper, s, b, j) = Fence(u, a, b, j + h + 1)
  <2>1. PICK l : l = j + h + 1
    OBVIOUS
  <2>2. Fence(upper, s, b, j) = (IF j = 0 THEN s ELSE IF j <= g THEN upper[j] ELSE b)
    BY <1>1 DEF Fence
  <2>3. Fence(u, a, b, l) = (IF l = 0 THEN a ELSE IF l <= n THEN u[l] ELSE b)
    BY <1>1 DEF Fence
  <2>4. /\ l # 0 /\ l = h + 1 + j
        /\ \/ j = 0 /\ l = h + 1 /\ l <= n
           \/ j \in 1..g /\ j <= g /\ j # 0 /\ l <= n
           \/ j # 0 /\ ~(j <= g) /\ ~(l <= n)
    BY ONLY <1>2, <1>5, <2>1
  <2>5. Fence(upper, s, b, j) = Fence(u, a, b, l)
    BY <1>3, <2>2, <2>3, <2>4
  <2> QED
    BY <2>1, <2>5
<1> QED
  BY <1>1, <1>4, <1>5 DEF FencesAround

LEMMA AroundRises ==
  ASSUME NEW u, NEW lower, NEW s, NEW upper, Around(u, lower, s, upper), NEW a \in Int, NEW b \in Int
  PROVE  Rising(u, a, b) <=> Rising(lower, a, s) /\ Rising(upper, s, b)
<1>1. PICK h, g, n : h = Len(lower) /\ g = Len(upper) /\ n = Len(u)
  OBVIOUS
<1>2. h \in Nat /\ g \in Nat /\ n = h + 1 + g /\ u \in Seq(Nat)
  BY <1>1 DEF Around
<1>3. PICK f, d, e : /\ f = [j \in 0..n + 1 |-> Fence(u, a, b, j)]
                     /\ d = [j \in 0..h + 1 |-> Fence(lower, a, s, j)]
                     /\ e = [j \in 0..g + 1 |-> Fence(upper, s, b, j)]
  OBVIOUS
<1>4. FencesAround(u, lower, s, upper, a, b, h, g)
  BY <1>1, FencesAroundAre
<1>5. \A j \in 0..h + 1 : j \in 0..n + 1 /\ d[j] = f[j]
  <2>1. \A j \in 0..h + 1 : j \in 0..n + 1
    BY ONLY <1>2
  <2> QED
    BY <1>3, <1>4, <2>1 DEF FencesAround
<1>6. \A j \in 0..g + 1 : j + h + 1 \in 0..n + 1 /\ e[j] = f[j + h + 1]
  <2>1. \A j \in 0..g + 1 : j + h + 1 \in 0..n + 1
    BY ONLY <1>2
  <2> QED
    BY <1>3, <1>4, <2>1 DEF FencesAround
<1>7. Rising(u, a, b) <=> \A j, l \in 0..n + 1 : j < l => f[j] < f[l]
  BY <1>1, <1>3 DEF Rising
<1>8. Rising(lower, a, s) <=> \A j, l \in 0..h + 1 : j < l => d[j] < d[l]
  BY <1>1, <1>3 DEF Rising
<1>9. Rising(upper, s, b) <=> \A j, l \in 0..g + 1 : j < l => e[j] < e[l]
  BY <1>1, <1>3 DEF Rising
<1>10. \A j \in 0..n + 1 : f[j] \in Int
  <2>1. Fences(u, a, b, n)
    BY <1>1, <1>2, FenceIs
  <2> QED
    BY <1>3, <2>1 DEF Fences
<1>11. ASSUME \A j, l \in 0..n + 1 : j < l => f[j] < f[l]
       PROVE  (\A j, l \in 0..h + 1 : j < l => d[j] < d[l]) /\ (\A j, l \in 0..g + 1 : j < l => e[j] < e[l])
  <2>1. \A j, l \in 0..h + 1 : j < l => d[j] < d[l]
    BY <1>5, <1>11
  <2>2. ASSUME NEW j \in 0..g + 1, NEW l \in 0..g + 1, j < l PROVE e[j] < e[l]
    <3>1. j + h + 1 < l + h + 1
      BY ONLY <1>2, <2>2
    <3> QED
      BY <1>6, <1>11, <2>2, <3>1
  <2> QED
    BY <2>1, <2>2
<1>12. ASSUME \A j, l \in 0..h + 1 : j < l => d[j] < d[l], \A j, l \in 0..g + 1 : j < l => e[j] < e[l],
              NEW j \in 0..n + 1, NEW l \in 0..n + 1, j < l
       PROVE  f[j] < f[l]
  <2>1. PICK i, k, c : i = j - (h + 1) /\ k = l - (h + 1) /\ c = h + 1
    OBVIOUS
  <2>2. \/ j \in 0..c /\ l \in 0..c
        \/ i \in 0..g + 1 /\ k \in 0..g + 1 /\ i < k
        \/ j \in 0..c /\ j < c /\ c \in 0..c /\ k \in 0..g + 1 /\ 0 < k /\ 0 \in 0..g + 1
    BY ONLY <1>2, <1>12, <2>1
  <2>3. j = i + h + 1 /\ l = k + h + 1 /\ c = 0 + h + 1 /\ 0..c = 0..h + 1
    BY ONLY <1>2, <1>12, <2>1
  <2>4. CASE j \in 0..c /\ l \in 0..c
    BY <1>5, <1>12, <2>3, <2>4
  <2>5. CASE i \in 0..g + 1 /\ k \in 0..g + 1 /\ i < k
    <3>1. e[i] < e[k] /\ e[i] = f[j] /\ e[k] = f[l]
      BY <1>6, <1>12, <2>3, <2>5
    <3> QED
      BY <3>1
  <2>6. CASE j \in 0..c /\ j < c /\ c \in 0..c /\ k \in 0..g + 1 /\ 0 < k /\ 0 \in 0..g + 1
    <3>1. d[j] < d[c] /\ d[j] = f[j] /\ d[c] = f[c] /\ c \in 0..n + 1
      BY <1>5, <1>12, <2>3, <2>6
    <3>2. e[0] < e[k] /\ e[0] = f[c] /\ e[k] = f[l]
      BY <1>6, <1>12, <2>3, <2>6
    <3>3. f[j] \in Int /\ f[c] \in Int /\ f[l] \in Int /\ f[j] < f[c] /\ f[c] < f[l]
      BY <1>10, <1>12, <3>1, <3>2
    <3> QED
      BY ONLY <3>3
  <2> QED
    BY <2>2, <2>4, <2>5, <2>6
<1> QED
  BY <1>7, <1>8, <1>9, <1>11, <1>12

\* Children between the fences of keys.
Fenced(lo, hi, tree, r, u, v, a, b) ==
  /\ u \in Seq(Nat) /\ v \in Seq(Nat) /\ Len(v) = Len(u) + 1 /\ DOMAIN v = 1..Len(u) + 1
  /\ Rising(u, a, b)
  /\ \A j \in 1..Len(u) + 1 :
       /\ tree[v[j]] = r
       /\ lo[v[j]] = Fence(u, a, b, j - 1) /\ hi[v[j]] = Fence(u, a, b, j)

LEMMA FencedJoin ==
  ASSUME NEW lo, NEW hi, NEW tree, NEW r, NEW a \in Int, NEW b \in Int, NEW m,
         NEW s, NEW cs, Fenced(lo, hi, tree, r, s, cs, a, m),
         NEW t, NEW ds, Fenced(lo, hi, tree, r, t, ds, m, b),
         NEW u, Around(u, s, m, t), NEW v, EndToEnd(Nat, v, cs, ds)
  PROVE  Fenced(lo, hi, tree, r, u, v, a, b)
<1>1. PICK h, g, n : h = Len(s) /\ g = Len(t) /\ n = Len(u)
  OBVIOUS
<1>2. h \in Nat /\ g \in Nat /\ n = h + 1 + g /\ u \in Seq(Nat)
  BY <1>1 DEF Around
<1>3. FencesAround(u, s, m, t, a, b, h, g)
  BY <1>1, FencesAroundAre
<1>4. /\ v \in Seq(Nat) /\ Len(v) = (h + 1) + (g + 1)
      /\ \A j \in 1..(h + 1) + (g + 1) : v[j] = IF j <= h + 1 THEN cs[j] ELSE ds[j - (h + 1)]
  BY <1>1 DEF EndToEnd, Fenced
<1>5. Len(v) = n + 1 /\ DOMAIN v = 1..n + 1
  BY <1>2, <1>4
<1>6. Rising(u, a, b)
  <2>1. Rising(s, a, m) /\ Rising(t, m, b)
    BY DEF Fenced
  <2> QED
    BY <2>1, AroundRises
<1>7. ASSUME NEW j \in 1..n + 1
      PROVE  tree[v[j]] = r /\ lo[v[j]] = Fence(u, a, b, j - 1) /\ hi[v[j]] = Fence(u, a, b, j)
  <2>0. v[j] = IF j <= h + 1 THEN cs[j] ELSE ds[j - (h + 1)]
    <3>1. n + 1 = (h + 1) + (g + 1)
      BY ONLY <1>2
    <3> QED
      BY <1>4, <1>7, <3>1
  <2>1. CASE j <= h + 1
    <3>1. j \in 1..h + 1 /\ j \in 0..h + 1 /\ j - 1 \in 0..h + 1
      BY ONLY <1>2, <1>7, <2>1
    <3>2. tree[cs[j]] = r /\ lo[cs[j]] = Fence(s, a, m, j - 1) /\ hi[cs[j]] = Fence(s, a, m, j)
      BY <1>1, <3>1 DEF Fenced
    <3>3. Fence(s, a, m, j - 1) = Fence(u, a, b, j - 1) /\ Fence(s, a, m, j) = Fence(u, a, b, j)
      BY <1>3, <3>1 DEF FencesAround
    <3> QED
      BY <2>0, <2>1, <3>2, <3>3
  <2>2. CASE ~(j <= h + 1)
    <3>1. PICK l : l = j - (h + 1)
      OBVIOUS
    <3>2. l \in 1..g + 1 /\ l \in 0..g + 1 /\ l - 1 \in 0..g + 1 /\ (l - 1) + h + 1 = j - 1 /\ l + h + 1 = j
      BY ONLY <1>2, <1>7, <2>2, <3>1
    <3>3. tree[ds[l]] = r /\ lo[ds[l]] = Fence(t, m, b, l - 1) /\ hi[ds[l]] = Fence(t, m, b, l)
      BY <1>1, <3>2 DEF Fenced
    <3>4. Fence(t, m, b, l - 1) = Fence(u, a, b, (l - 1) + h + 1) /\ Fence(t, m, b, l) = Fence(u, a, b, l + h + 1)
      BY <1>3, <3>2 DEF FencesAround
    <3> QED
      BY <2>0, <2>2, <3>1, <3>2, <3>3, <3>4
  <2> QED
    BY <2>1, <2>2
<1> QED
  BY <1>1, <1>2, <1>4, <1>5, <1>6, <1>7 DEF Fenced

LEMMA FencedPart ==
  ASSUME NEW lo, NEW hi, NEW tree, NEW r, NEW a \in Int, NEW b \in Int, NEW k,
         NEW u, NEW v, Fenced(lo, hi, tree, r, u, v, a, b),
         NEW lower, NEW upper, Around(u, lower, k, upper),
         NEW cs \in Seq(Nat), NEW ds \in Seq(Nat), EndToEnd(Nat, v, cs, ds), Len(cs) = Len(lower) + 1
  PROVE  Fenced(lo, hi, tree, r, lower, cs, a, k) /\ Fenced(lo, hi, tree, r, upper, ds, k, b)
<1>1. PICK h, g, n : h = Len(lower) /\ g = Len(upper) /\ n = Len(u)
  OBVIOUS
<1>2. h \in Nat /\ g \in Nat /\ n = h + 1 + g /\ lower \in Seq(Nat) /\ upper \in Seq(Nat) /\ n \in Nat
  BY <1>1 DEF Around
<1>3. FencesAround(u, lower, k, upper, a, b, h, g)
  BY <1>1, FencesAroundAre
<1>4. Len(ds) \in Nat /\ n + 1 = (h + 1) + Len(ds)
  <2>1. Len(v) = n + 1
    BY <1>1 DEF Fenced
  <2>2. Len(v) = Len(cs) + Len(ds)
    BY DEF EndToEnd
  <2>3. Len(cs) = h + 1 /\ Len(ds) \in Nat
    BY <1>1
  <2> QED
    BY <2>1, <2>2, <2>3
<1>5. Len(ds) = g + 1
  BY ONLY <1>2, <1>4
<1>6. DOMAIN cs = 1..h + 1 /\ DOMAIN ds = 1..g + 1
  BY <1>1, <1>5
<1>7. Rising(lower, a, k) /\ Rising(upper, k, b)
  <2>1. Rising(u, a, b)
    BY DEF Fenced
  <2> QED
    BY <2>1, AroundRises
<1>8. \A j \in 1..n + 1 : v[j] = IF j <= h + 1 THEN cs[j] ELSE ds[j - (h + 1)]
  BY <1>1, <1>4 DEF EndToEnd
<1>9. \A j \in 1..n + 1 : tree[v[j]] = r /\ lo[v[j]] = Fence(u, a, b, j - 1) /\ hi[v[j]] = Fence(u, a, b, j)
  BY <1>1 DEF Fenced
<1>10. ASSUME NEW j \in 1..h + 1
       PROVE  tree[cs[j]] = r /\ lo[cs[j]] = Fence(lower, a, k, j - 1) /\ hi[cs[j]] = Fence(lower, a, k, j)
  <2>1. j \in 1..n + 1 /\ j <= h + 1 /\ j \in 0..h + 1 /\ j - 1 \in 0..h + 1
    BY ONLY <1>2, <1>10
  <2>2. Fence(lower, a, k, j - 1) = Fence(u, a, b, j - 1) /\ Fence(lower, a, k, j) = Fence(u, a, b, j)
    BY <1>3, <2>1 DEF FencesAround
  <2> QED
    BY <1>8, <1>9, <2>1, <2>2
<1>11. ASSUME NEW l \in 1..g + 1
       PROVE  tree[ds[l]] = r /\ lo[ds[l]] = Fence(upper, k, b, l - 1) /\ hi[ds[l]] = Fence(upper, k, b, l)
  <2>1. PICK j : j = l + h + 1
    OBVIOUS
  <2>2. /\ j \in 1..n + 1 /\ ~(j <= h + 1) /\ j - (h + 1) = l /\ l \in 0..g + 1 /\ l - 1 \in 0..g + 1
        /\ (l - 1) + h + 1 = j - 1
    BY ONLY <1>2, <1>11, <2>1
  <2>3. Fence(upper, k, b, l - 1) = Fence(u, a, b, (l - 1) + h + 1) /\ Fence(upper, k, b, l) = Fence(u, a, b, l + h + 1)
    BY <1>3, <2>2 DEF FencesAround
  <2> QED
    BY <1>8, <1>9, <2>1, <2>2, <2>3
<1>12. Fenced(lo, hi, tree, r, lower, cs, a, k)
  BY <1>1, <1>2, <1>6, <1>7, <1>10 DEF Fenced
<1>13. Fenced(lo, hi, tree, r, upper, ds, k, b)
  BY <1>1, <1>2, <1>5, <1>6, <1>7, <1>11 DEF Fenced
<1> QED
  BY <1>12, <1>13

LEMMA KeyMovesRight ==
  ASSUME NEW s \in Seq(Nat), NEW m \in Nat, NEW t \in Seq(Nat), Len(s) # 0,
         NEW u, u = Append(s, m) \o t,
         NEW lower, lower = Front(s), NEW k, k = Last(s), NEW upper, upper = <<m>> \o t
  PROVE  Around(u, s, m, t) /\ Around(u, lower, k, upper)
<1>1. PICK x, y, w : x = Len(s) /\ y = Len(t) /\ w = Append(s, m)
  OBVIOUS
<1>2. x \in Nat /\ y \in Nat /\ x # 0
  BY <1>1
<1>3. k \in Nat /\ k = s[x]
  BY <1>1, <1>2, Ends
<1>4. w \in Seq(Nat) /\ Len(w) = x + 1 /\ \A j \in 1..x + 1 : w[j] = IF j <= x THEN s[j] ELSE m
  BY <1>1, AppendedIs DEF Appended
<1>5. u \in Seq(Nat) /\ Len(u) = (x + 1) + y /\ \A j \in 1..(x + 1) + y : u[j] = IF j <= x + 1 THEN w[j] ELSE t[j - (x + 1)]
  BY <1>1, <1>4, ConcatIs DEF EndToEnd
<1>6. lower \in Seq(Nat) /\ Len(lower) = x - 1 /\ \A j \in 1..x - 1 : lower[j] = s[j]
  BY <1>1, <1>2, FrontShrinks DEF Shrunk
<1>7. upper \in Seq(Nat) /\ Len(upper) = y + 1 /\ \A j \in 1..y + 1 : upper[j] = IF j = 1 THEN m ELSE t[j - 1]
  BY <1>1, ConsIs DEF Consed
<1>8. \A j \in 1..x : u[j] = s[j]
  <2>1. \A j \in 1..x : j \in 1..(x + 1) + y /\ j <= x + 1 /\ j <= x /\ j \in 1..x + 1
    BY ONLY <1>2
  <2> QED
    BY <1>4, <1>5, <2>1
<1>9. u[x + 1] = m
  <2>1. x + 1 \in 1..(x + 1) + y /\ x + 1 <= x + 1 /\ ~(x + 1 <= x) /\ x + 1 \in 1..x + 1
    BY ONLY <1>2
  <2> QED
    BY <1>4, <1>5, <2>1
<1>10. \A j \in 1..y : u[x + 1 + j] = t[j]
  <2>1. \A j \in 1..y : x + 1 + j \in 1..(x + 1) + y /\ ~(x + 1 + j <= x + 1) /\ (x + 1 + j) - (x + 1) = j
    BY ONLY <1>2
  <2> QED
    BY <1>5, <2>1
<1>11. Around(u, s, m, t)
  BY <1>1, <1>2, <1>5, <1>8, <1>9, <1>10 DEF Around
<1>12. /\ (x - 1) + 1 + (y + 1) = (x + 1) + y /\ (x - 1) + 1 = x /\ x \in 1..x
       /\ \A j \in 1..x - 1 : j \in 1..x
  BY ONLY <1>2
<1>13. ASSUME NEW j \in 1..y + 1 PROVE u[x + j] = upper[j]
  <2>1. CASE j = 1
    BY <1>7, <1>9, <1>13, <2>1
  <2>2. CASE j # 1
    <3>1. PICK l : l = j - 1
      OBVIOUS
    <3>2. l \in 1..y /\ x + 1 + l = x + j
      BY ONLY <1>2, <1>13, <2>2, <3>1
    <3> QED
      BY <1>7, <1>10, <1>13, <2>2, <3>1, <3>2
  <2> QED
    BY <2>1, <2>2
<1>14. Around(u, lower, k, upper)
  <2>1. Len(lower) + 1 = x /\ Len(u) = Len(lower) + 1 + Len(upper)
    BY <1>5, <1>6, <1>7, <1>12
  <2>2. \A j \in 1..Len(lower) : u[j] = lower[j]
    BY <1>6, <1>8, <1>12
  <2>3. u[Len(lower) + 1] = k
    BY <1>3, <1>8, <1>12, <2>1
  <2>4. \A j \in 1..Len(upper) : u[Len(lower) + 1 + j] = upper[j]
    BY <1>7, <1>13, <2>1
  <2> QED
    BY <1>3, <1>5, <1>6, <1>7, <2>1, <2>2, <2>3, <2>4 DEF Around
<1> QED
  BY <1>11, <1>14

LEMMA KeyMovesLeft ==
  ASSUME NEW s \in Seq(Nat), NEW m \in Nat, NEW t \in Seq(Nat), Len(t) # 0,
         NEW u, u = Append(s, m) \o t,
         NEW lower, lower = Append(s, m), NEW k, k = Head(t), NEW upper, upper = Tail(t)
  PROVE  Around(u, s, m, t) /\ Around(u, lower, k, upper)
<1>1. PICK x, y : x = Len(s) /\ y = Len(t)
  OBVIOUS
<1>2. x \in Nat /\ y \in Nat /\ y # 0
  BY <1>1
<1>3. k \in Nat /\ k = t[1]
  BY <1>1, <1>2, Ends
<1>4. lower \in Seq(Nat) /\ Len(lower) = x + 1 /\ \A j \in 1..x + 1 : lower[j] = IF j <= x THEN s[j] ELSE m
  BY <1>1, AppendedIs DEF Appended
<1>5. u \in Seq(Nat) /\ Len(u) = (x + 1) + y /\ \A j \in 1..(x + 1) + y : u[j] = IF j <= x + 1 THEN lower[j] ELSE t[j - (x + 1)]
  BY <1>1, <1>4, ConcatIs DEF EndToEnd
<1>7. upper \in Seq(Nat) /\ Len(upper) = y - 1 /\ \A j \in 1..y - 1 : upper[j] = t[j + 1]
  BY <1>1, <1>2, TailShrinks DEF Shrunk
<1>8. \A j \in 1..x + 1 : u[j] = lower[j]
  <2>1. \A j \in 1..x + 1 : j \in 1..(x + 1) + y /\ j <= x + 1
    BY ONLY <1>2
  <2> QED
    BY <1>5, <2>1
<1>9. (\A j \in 1..x : u[j] = s[j]) /\ u[x + 1] = m
  <2>1. (\A j \in 1..x : j \in 1..x + 1 /\ j <= x) /\ x + 1 \in 1..x + 1 /\ ~(x + 1 <= x)
    BY ONLY <1>2
  <2> QED
    BY <1>4, <1>8, <2>1
<1>10. \A j \in 1..y : u[x + 1 + j] = t[j]
  <2>1. \A j \in 1..y : x + 1 + j \in 1..(x + 1) + y /\ ~(x + 1 + j <= x + 1) /\ (x + 1 + j) - (x + 1) = j
    BY ONLY <1>2
  <2> QED
    BY <1>5, <2>1
<1>11. Around(u, s, m, t)
  BY <1>1, <1>2, <1>5, <1>9, <1>10 DEF Around
<1>12. (x + 1) + 1 + (y - 1) = (x + 1) + y /\ 1 \in 1..y /\ (x + 1) + 1 = x + 1 + 1
  BY ONLY <1>2
<1>13. u[(x + 1) + 1] = k
  BY <1>3, <1>10, <1>12
<1>14. ASSUME NEW j \in 1..y - 1 PROVE u[(x + 1) + 1 + j] = upper[j]
  <2>1. PICK l : l = j + 1
    OBVIOUS
  <2>2. l \in 1..y /\ x + 1 + l = (x + 1) + 1 + j
    BY ONLY <1>2, <1>14, <2>1
  <2> QED
    BY <1>7, <1>10, <1>14, <2>1, <2>2
<1>15. Around(u, lower, k, upper)
  <2>1. Len(lower) = x + 1 /\ Len(u) = Len(lower) + 1 + Len(upper)
    BY <1>4, <1>5, <1>7, <1>12
  <2>2. \A j \in 1..Len(lower) : u[j] = lower[j]
    BY <1>4, <1>8
  <2>3. u[Len(lower) + 1] = k
    BY <1>13, <2>1
  <2>4. \A j \in 1..Len(upper) : u[Len(lower) + 1 + j] = upper[j]
    BY <1>7, <1>14, <2>1
  <2> QED
    BY <1>3, <1>4, <1>5, <1>7, <2>1, <2>2, <2>3, <2>4 DEF Around
<1> QED
  BY <1>11, <1>15

LEMMA RisingSpan ==
  ASSUME NEW keys \in Seq(Nat), NEW a \in Int, NEW b \in Int, Rising(keys, a, b)
  PROVE  a < b
<1>1. PICK n : n = Len(keys)
  OBVIOUS
<1>2. Fences(keys, a, b, n)
  BY <1>1, FenceIs
<1>3. n \in Nat /\ Fence(keys, a, b, 0) = a /\ Fence(keys, a, b, n + 1) = b
  BY <1>2 DEF Fences
<1>4. 0 \in 0..n + 1 /\ n + 1 \in 0..n + 1 /\ 0 < n + 1
  BY ONLY <1>3
<1>5. Fence(keys, a, b, 0) < Fence(keys, a, b, n + 1)
  BY <1>1, <1>4 DEF Rising
<1> QED
  BY <1>3, <1>5

\* A separator is dropped.
FencesDropped(keys, ks, n, i, a, b) ==
  /\ n \in Nat /\ ks \in Seq(Nat) /\ Len(ks) = n - 1 /\ Rising(ks, a, b)
  /\ \A j \in 0..n : Fence(ks, a, b, j) = IF j < i THEN Fence(keys, a, b, j) ELSE Fence(keys, a, b, j + 1)

LEMMA FencesDroppedIs ==
  ASSUME NEW keys \in Seq(Nat), NEW n, n = Len(keys), NEW i \in 1..n,
         NEW a \in Int, NEW b \in Int, Rising(keys, a, b), NEW ks, Removed(Nat, ks, keys, i)
  PROVE  FencesDropped(keys, ks, n, i, a, b)
<1>1. n \in Nat /\ i \in Nat /\ 1 <= i /\ i <= n
  OBVIOUS
<1>2. /\ ks \in Seq(Nat) /\ Len(ks) = n - 1
      /\ \A j \in 1..n - 1 : ks[j] = IF j < i THEN keys[j] ELSE keys[j + 1]
  BY DEF Removed
<1>a. PICK f, e : /\ f = [j \in 0..n + 1 |-> Fence(keys, a, b, j)]
                  /\ e = [j \in 0..n |-> Fence(ks, a, b, j)]
  OBVIOUS
<1>3. \A j \in 0..n + 1 : f[j] = Fence(keys, a, b, j) /\ f[j] \in Int
  <2>1. Fences(keys, a, b, n)
    BY FenceIs
  <2> QED
    BY <1>a, <2>1 DEF Fences
<1>4. \A j, l \in 0..n + 1 : j < l => f[j] < f[l]
  BY <1>3 DEF Rising
<1>5. \A j \in 0..n : e[j] = IF j < i THEN f[j] ELSE f[j + 1]
  <2> SUFFICES ASSUME NEW j \in 0..n PROVE e[j] = IF j < i THEN f[j] ELSE f[j + 1]
    OBVIOUS
  <2>0. n - 1 \in Nat
    BY <1>1
  <2>1. e[j] = IF j = 0 THEN a ELSE IF j <= n - 1 THEN ks[j] ELSE b
    BY <1>2, <1>a DEF Fence
  <2>2. \A l \in 0..n + 1 : f[l] = IF l = 0 THEN a ELSE IF l <= n THEN keys[l] ELSE b
    BY <1>3 DEF Fence
  <2>3. CASE j < i
    <3>1. j \in 0..n + 1 /\ j <= n - 1 /\ j <= n /\ (j = 0 \/ j \in 1..n - 1)
      BY <1>1, <2>3
    <3> QED
      BY <1>2, <2>1, <2>2, <2>3, <3>1
  <2>4. CASE ~(j < i)
    <3>1. /\ j # 0 /\ j + 1 \in 0..n + 1 /\ j + 1 # 0
          /\ (j <= n - 1 <=> j + 1 <= n) /\ (j <= n - 1 => j \in 1..n - 1)
      BY <1>1, <2>4
    <3> QED
      BY <1>2, <2>1, <2>2, <2>4, <3>1
  <2> QED
    BY <2>3, <2>4
<1>6. \A j, l \in 0..n : j < l => e[j] < e[l]
  <2> SUFFICES ASSUME NEW j \in 0..n, NEW l \in 0..n, j < l PROVE e[j] < e[l]
    OBVIOUS
  <2>1. PICK j1, l1 : j1 = (IF j < i THEN j ELSE j + 1) /\ l1 = (IF l < i THEN l ELSE l + 1)
    OBVIOUS
  <2>2. j1 \in 0..n + 1 /\ l1 \in 0..n + 1 /\ j1 < l1
    BY <1>1, <2>1
  <2>3. e[j] = f[j1] /\ e[l] = f[l1]
    BY <1>5, <2>1
  <2> QED
    BY <1>4, <2>2, <2>3
<1>7. \A j \in 0..n : e[j] = Fence(ks, a, b, j)
  BY <1>a
<1>8. Rising(ks, a, b)
  <2>1. 0..Len(ks) + 1 = 0..n
    BY <1>1, <1>2
  <2> QED
    BY <1>6, <1>7, <2>1 DEF Rising
<1>9. \A j \in 0..n : Fence(ks, a, b, j) = IF j < i THEN Fence(keys, a, b, j) ELSE Fence(keys, a, b, j + 1)
  <2> SUFFICES ASSUME NEW j \in 0..n
               PROVE  Fence(ks, a, b, j) = IF j < i THEN Fence(keys, a, b, j) ELSE Fence(keys, a, b, j + 1)
    OBVIOUS
  <2>1. j \in 0..n + 1 /\ j + 1 \in 0..n + 1
    BY <1>1
  <2>2. f[j] = Fence(keys, a, b, j) /\ f[j + 1] = Fence(keys, a, b, j + 1)
    BY <1>3, <2>1
  <2> QED
    BY <1>5, <1>7, <2>2
<1> QED
  BY <1>1, <1>2, <1>8, <1>9 DEF FencesDropped

LEMMA AroundIs ==
  ASSUME NEW s \in Seq(Nat), NEW m \in Nat, NEW t \in Seq(Nat), NEW u, u = Append(s, m) \o t
  PROVE  Around(u, s, m, t)
<1>1. PICK x, y, lower : x = Len(s) /\ y = Len(t) /\ lower = Append(s, m)
  OBVIOUS
<1>2. x \in Nat /\ y \in Nat
  BY <1>1
<1>4. lower \in Seq(Nat) /\ Len(lower) = x + 1 /\ \A j \in 1..x + 1 : lower[j] = IF j <= x THEN s[j] ELSE m
  BY <1>1, AppendedIs DEF Appended
<1>5. u \in Seq(Nat) /\ Len(u) = (x + 1) + y /\ \A j \in 1..(x + 1) + y : u[j] = IF j <= x + 1 THEN lower[j] ELSE t[j - (x + 1)]
  BY <1>1, <1>4, ConcatIs DEF EndToEnd
<1>8. \A j \in 1..x + 1 : u[j] = lower[j]
  <2>1. \A j \in 1..x + 1 : j \in 1..(x + 1) + y /\ j <= x + 1
    BY ONLY <1>2
  <2> QED
    BY <1>5, <2>1
<1>9. (\A j \in 1..x : u[j] = s[j]) /\ u[x + 1] = m
  <2>1. (\A j \in 1..x : j \in 1..x + 1 /\ j <= x) /\ x + 1 \in 1..x + 1 /\ ~(x + 1 <= x)
    BY ONLY <1>2
  <2> QED
    BY <1>4, <1>8, <2>1
<1>10. \A j \in 1..y : u[x + 1 + j] = t[j]
  <2>1. \A j \in 1..y : x + 1 + j \in 1..(x + 1) + y /\ ~(x + 1 + j <= x + 1) /\ (x + 1 + j) - (x + 1) = j
    BY ONLY <1>2
  <2> QED
    BY <1>5, <2>1
<1> QED
  BY <1>1, <1>2, <1>5, <1>9, <1>10 DEF Around

\* A leaf gives up a key; with its last one, the end of its interval.
LeafLost(keys, a, b, top, key, ks) ==
  /\ ks \in Seq(Nat) /\ Len(ks) = Len(keys) - 1 /\ ToSet(ks) = ToSet(keys) \ {key}
  /\ b = top \/ key # Last(keys) => LeafOrdered(ks, a, b, top)
  /\ key = Last(keys) /\ b # top /\ Len(ks) # 0 =>
       /\ key = b /\ Last(ks) \in Nat /\ a < Last(ks) /\ Last(ks) < b
       /\ LeafOrdered(ks, a, Last(ks), top)

\* With the separator, the ends that are equal to it go down: no other end lies
\* between the two.
FencesLowered(keys, a, b, m, max, ks, a2, b2) ==
  /\ Rising(ks, a2, b2)
  /\ \A i \in 0..Len(keys) + 1 :
       Fence(ks, a2, b2, i) = IF Fence(keys, a, b, i) = m THEN max ELSE Fence(keys, a, b, i)

LEMMA RisingLowered ==
  ASSUME NEW keys \in Seq(Nat), NEW n, n = Len(keys), NEW a \in Int, NEW b \in Int, Rising(keys, a, b),
         NEW ks \in Seq(Nat), Len(ks) = n, NEW m \in Int, NEW max \in Int, max < m,
         \A i \in 1..n : ks[i] = IF keys[i] = m THEN max ELSE keys[i],
         \A i, j \in 0..n + 1 : i < j /\ Fence(keys, a, b, j) = m => Fence(keys, a, b, i) < max,
         NEW a2, a2 = (IF a = m THEN max ELSE a), NEW b2, b2 = (IF b = m THEN max ELSE b)
  PROVE  FencesLowered(keys, a, b, m, max, ks, a2, b2)
<1>1. Fences(keys, a, b, n)
  BY FenceIs
<1>2. PICK f : f = [i \in 0..n + 1 |-> Fence(keys, a, b, i)]
  OBVIOUS
<1>3. /\ n \in Nat /\ \A i \in 0..n + 1 : Fence(keys, a, b, i) = f[i] /\ f[i] \in Int
      /\ f[0] = a /\ f[n + 1] = b /\ \A i \in 1..n : f[i] = keys[i]
  BY <1>1, <1>2 DEF Fences
<1>4. \A i \in 0..n + 1 : Fence(ks, a2, b2, i) = IF f[i] = m THEN max ELSE f[i]
  <2> SUFFICES ASSUME NEW i \in 0..n + 1 PROVE Fence(ks, a2, b2, i) = IF f[i] = m THEN max ELSE f[i]
    OBVIOUS
  <2>1. i = 0 \/ i \in 1..n \/ i = n + 1
    BY <1>3
  <2>2. CASE i = 0
    BY <1>3, <2>2 DEF Fence
  <2>3. CASE i \in 1..n
    <3>1. Fence(ks, a2, b2, i) = ks[i]
      BY <2>3 DEF Fence
    <3> QED
      BY <1>3, <2>3, <3>1
  <2>4. CASE i = n + 1
    <3>1. Fence(ks, a2, b2, i) = b2
      BY <1>3, <2>4 DEF Fence
    <3> QED
      BY <1>3, <2>4, <3>1
  <2> QED
    BY <2>1, <2>2, <2>3, <2>4
<1>5. \A i, j \in 0..n + 1 : i < j => f[i] < f[j] /\ (f[j] = m => f[i] < max)
  BY <1>3 DEF Rising
<1>6. \A i, j \in 0..n + 1 : i < j => Fence(ks, a2, b2, i) < Fence(ks, a2, b2, j)
  <2> SUFFICES ASSUME NEW i \in 0..n + 1, NEW j \in 0..n + 1, i < j
               PROVE  Fence(ks, a2, b2, i) < Fence(ks, a2, b2, j)
    OBVIOUS
  <2>1. /\ f[i] \in Int /\ f[j] \in Int /\ f[i] < f[j] /\ (f[j] = m => f[i] < max)
        /\ Fence(ks, a2, b2, i) = (IF f[i] = m THEN max ELSE f[i])
        /\ Fence(ks, a2, b2, j) = (IF f[j] = m THEN max ELSE f[j])
    BY <1>3, <1>4, <1>5
  <2> QED
    BY <2>1
<1>7. Rising(ks, a2, b2)
  BY <1>6 DEF Rising
<1> QED
  BY <1>3, <1>4, <1>7 DEF FencesLowered

LEMMA MaxIs ==
  ASSUME NEW S \in SUBSET Int, NEW x \in S, \A y \in S : y <= x
  PROVE  Max(S) = x
<1>1. \A y \in S : x >= y
  OBVIOUS
<1>2. \E z \in S : \A y \in S : z >= y
  BY <1>1
<1>3. PICK m : m = Max(S)
  OBVIOUS
<1>4. m \in S /\ \A y \in S : m >= y
  BY <1>2, <1>3 DEF Max
<1>5. m >= x /\ x >= m /\ m \in Int /\ x \in Int
  BY <1>1, <1>4
<1> QED
  BY <1>3, <1>5

=============================================================================
