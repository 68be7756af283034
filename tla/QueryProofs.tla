----------------------------- MODULE QueryProofs ------------------------------
(***************************************************************************)
(* Proofs about modules Parser and Planner: for every line, however long,  *)
(* and every limit on nesting, how deep the parser's calls and the trees   *)
(* it builds can get; and for every WHERE, however it nests, every 64-bit  *)
(* constant and every range of keys, what the chosen plan reads.           *)
(***************************************************************************)
EXTENDS ParserProperties, Planner, Lemmas

-----------------------------------------------------------------------------
\* What the stack looks like

Calling == {"first", "rest", "primary", "operand", "inner"}
InComparison == {"left", "left-", "op", "right", "right-"}

PlacesOf(proc) ==
  IF proc \in Chains THEN {"enter", "first", "rest"}
  ELSE IF proc = "not" THEN {"enter", "primary", "operand"}
  ELSE {"enter", "inner"} \cup InComparison

Procs == {"or", "and", "not", "primary"}

Frame ==
  {f \in [proc : Procs, depth : 0..MaxDepth, at : {"enter"} \cup Calling \cup InComparison, node : Nat] :
     /\ f.at \in PlacesOf(f.proc)
     /\ f.at \in {"operand", "inner"} => f.depth < MaxDepth}

\* What a frame that waits for a call has called.
CalleeProc(f) ==
  IF f.at \in {"first", "rest"} THEN Operand(f.proc)
  ELSE IF f.at = "primary" THEN "primary"
  ELSE IF f.at = "operand" THEN "not" ELSE "or"
CalleeDepth(f) == IF f.at \in {"operand", "inner"} THEN f.depth + 1 ELSE f.depth

\* A level of nesting has one frame of each procedure at most, in this order.
Rank(proc) == IF proc = "or" THEN 1 ELSE IF proc = "and" THEN 2 ELSE IF proc = "not" THEN 3 ELSE 4
Deep(f) == 4 * f.depth + Rank(f.proc)

Called(f, g) == f.at \in Calling /\ g.proc = CalleeProc(f) /\ g.depth = CalleeDepth(f)

\* Every frame but the innermost has called the next one, and one that waits is
\* the innermost just when its call has returned.
StackInv ==
  /\ frames \in Seq(Frame)
  /\ \A j \in 1..(Len(frames) - 1) : Called(frames[j], frames[j + 1])
  /\ frames # <<>> =>
       /\ frames[1].proc = "or" /\ frames[1].depth = 0
       /\ (returned # Running) <=> Top.at \in Calling
  /\ \A j \in 1..Len(frames) : j <= Deep(frames[j])

LEMMA ReplaceLast ==
  ASSUME NEW S, NEW s \in Seq(S), s # <<>>, NEW x \in S
  PROVE  LET t == [s EXCEPT ![Len(s)] = x]
         IN  /\ t \in Seq(S) /\ Len(t) = Len(s)
             /\ \A j \in 1..(Len(s) - 1) : t[j] = s[j]
             /\ t[Len(s)] = x
<1>1. Len(s) \in Nat \ {0} /\ Len(s) \in 1..Len(s)
  BY EmptySeq
<1> QED
  BY <1>1, ExceptSeq

LEMMA DropLast ==
  ASSUME NEW S, NEW s \in Seq(S), s # <<>>
  PROVE  /\ Front(s) \in Seq(S) /\ Len(Front(s)) = Len(s) - 1
         /\ \A j \in 1..(Len(s) - 1) : Front(s)[j] = s[j]
<1> DEFINE k == Len(s) - 1
<1>1. k \in Nat /\ 1 \in Int /\ k \in Int
  BY EmptySeq
<1>2. \A j \in 1..k : s[j] \in S
  BY <1>1, ElementOfSeq
<1>3. Front(s) = SubSeq(s, 1, k)
  BY DEF Front
<1> HIDE DEF k
<1>4. /\ SubSeq(s, 1, k) \in Seq(S)
      /\ Len(SubSeq(s, 1, k)) = IF 1 <= k THEN k - 1 + 1 ELSE 0
      /\ \A j \in 1..(k - 1 + 1) : SubSeq(s, 1, k)[j] = s[1 + j - 1]
  BY <1>1, <1>2, SubSeqProperties
<1>5. k - 1 + 1 = k /\ \A j \in 1..k : 1 + j - 1 = j
  BY <1>1
<1> QED
  BY <1>1, <1>3, <1>4, <1>5 DEF k

LEMMA CallGoesDeeper ==
  ASSUME NEW f \in Frame, NEW g \in Frame, Called(f, g)
  PROVE  Deep(f) \in Nat /\ Deep(g) \in Nat /\ Deep(f) + 1 <= Deep(g)
<1>1. /\ f.depth \in Nat /\ g.depth \in Nat /\ f.proc \in Procs /\ f.at \in PlacesOf(f.proc)
      /\ g.proc \in Procs
  BY MaxDepthAssumption DEF Frame
<1>2. Rank(f.proc) \in 1..4 /\ Rank(g.proc) \in 1..4
  BY DEF Rank
<1>3. CASE f.at \in {"operand", "inner"}
  <2>1. g.depth = f.depth + 1
    BY <1>3 DEF Called, CalleeDepth
  <2>2. f.at = "operand" => f.proc = "not" /\ g.proc = "not"
    BY <1>1 DEF Called, CalleeProc, PlacesOf, Procs, Chains, InComparison
  <2>3. Rank(f.proc) <= Rank(g.proc) + 3
    BY <1>2
  <2> QED
    BY <1>1, <1>2, <2>1, <2>3 DEF Deep
<1>4. CASE f.at \in {"first", "rest", "primary"}
  <2>1. g.depth = f.depth
    BY <1>4 DEF Called, CalleeDepth
  <2>2. Rank(g.proc) = Rank(f.proc) + 1
    BY <1>1, <1>4 DEF Called, CalleeProc, PlacesOf, Procs, Chains, InComparison, Rank, Operand
  <2> QED
    BY <1>1, <1>2, <2>1, <2>2 DEF Deep
<1> QED
  BY <1>3, <1>4 DEF Called, Calling

\* The call of `callee`, the innermost frame going on as `top`.
LEMMA CallKeepsStack ==
  ASSUME StackInv, frames # <<>>, returned' = Running,
         NEW top \in Frame, top.proc = Top.proc, top.depth = Top.depth,
         NEW callee \in Frame, Called(top, callee), callee.at = "enter",
         CallFrom(top, callee)
  PROVE  /\ StackInv'
         /\ Len(frames') = Len(frames) + 1 /\ Top' = callee
         /\ \A j \in 1..(Len(frames) - 1) : frames'[j] = frames[j]
         /\ frames'[Len(frames)] = top /\ frames'[Len(frames) + 1] = callee
<1> DEFINE n == Len(frames)
           under == [frames EXCEPT ![n] = top]
<1>1. n \in Nat \ {0} /\ frames \in Seq(Frame)
  BY EmptySeq DEF StackInv
<1>2. /\ under \in Seq(Frame) /\ Len(under) = n
      /\ \A j \in 1..(n - 1) : under[j] = frames[j]
      /\ under[n] = top
  BY <1>1, ReplaceLast
<1>3. /\ frames' = Append(under, callee)
      /\ frames' \in Seq(Frame) /\ Len(frames') = n + 1
      /\ \A j \in 1..n : frames'[j] = under[j]
      /\ frames'[n + 1] = callee
  <2>1. frames' = Append(under, callee)
    BY DEF CallFrom
  <2> HIDE DEF under
  <2> QED
    BY <1>1, <1>2, <2>1, AppendProperties
<1>4. /\ \A j \in 1..(n - 1) : frames'[j] = frames[j]
      /\ frames'[n] = top
  <2> HIDE DEF under
  <2> QED
    BY <1>1, <1>2, <1>3
<1> HIDE DEF under, n
<1>5. Top' = callee /\ Top = frames[n]
  BY <1>3 DEF Top, n
<1>6. /\ \A j \in 1..(n - 1) : Called(frames[j], frames[j + 1])
      /\ \A j \in 1..n : j <= Deep(frames[j])
      /\ frames[1].proc = "or" /\ frames[1].depth = 0
  BY DEF StackInv, n
<1>7. \A f : Called(f, frames[n]) <=> Called(f, top)
  BY <1>5 DEF Called
<1>8. Deep(frames[n]) = Deep(top)
  BY <1>5 DEF Deep
<1>9. ASSUME NEW j \in 1..(Len(frames') - 1) PROVE Called(frames'[j], frames'[j + 1])
  <2>1. CASE j = n
    BY <1>1, <1>3, <1>4, <2>1
  <2>2. CASE j # n /\ j + 1 = n
    <3>1. j \in 1..(n - 1) /\ frames'[j] = frames[j] /\ frames'[j + 1] = top
      BY <1>1, <1>3, <1>4, <2>2
    <3>2. Called(frames[j], frames[n])
      BY <1>6, <2>2, <3>1
    <3> QED
      BY <3>1, <3>2, <1>7
  <2>3. CASE j # n /\ j + 1 # n
    <3>1. j \in 1..(n - 1) /\ j + 1 \in 1..(n - 1)
      BY <1>1, <1>3, <2>3
    <3> QED
      BY <1>4, <1>6, <3>1
  <2> QED
    BY <2>1, <2>2, <2>3
<1>10. frames'[1].proc = "or" /\ frames'[1].depth = 0
  <2>1. CASE n = 1
    BY <1>4, <1>5, <1>6, <2>1
  <2>2. CASE n # 1
    BY <1>1, <1>4, <1>6, <2>2
  <2> QED
    BY <2>1, <2>2
<1>11. ASSUME NEW j \in 1..Len(frames') PROVE j <= Deep(frames'[j])
  <2>1. CASE j \in 1..(n - 1)
    BY <1>1, <1>4, <1>6, <2>1
  <2>2. CASE j = n
    BY <1>1, <1>4, <1>6, <1>8, <2>2
  <2>3. CASE j = n + 1
    <3>1. n <= Deep(top)
      BY <1>1, <1>6, <1>8
    <3> QED
      BY <1>1, <1>3, <2>3, <3>1, CallGoesDeeper
  <2> QED
    BY <1>1, <1>3, <2>1, <2>2, <2>3
<1>12. (returned' # Running) <=> Top'.at \in Calling
  BY <1>5 DEF Calling
<1> QED
  BY <1>3, <1>4, <1>5, <1>9, <1>10, <1>11, <1>12 DEF StackInv, n

\* The innermost call returns.
LEMMA ReturnKeepsStack ==
  ASSUME StackInv, frames # <<>>, NEW value, value # Running, Return(value)
  PROVE  /\ StackInv'
         /\ Len(frames') = Len(frames) - 1
         /\ \A j \in 1..Len(frames') : frames'[j] = frames[j]
         /\ frames' # <<>> => Called(Top', Top)
<1> DEFINE n == Len(frames)
<1>1. n \in Nat \ {0} /\ frames \in Seq(Frame)
  BY EmptySeq DEF StackInv
<1>2. frames' \in Seq(Frame) /\ Len(frames') = n - 1 /\ \A j \in 1..(n - 1) : frames'[j] = frames[j]
  BY <1>1, DropLast DEF Return
<1>3. /\ \A j \in 1..(n - 1) : Called(frames[j], frames[j + 1])
      /\ \A j \in 1..n : j <= Deep(frames[j])
      /\ frames[1].proc = "or" /\ frames[1].depth = 0
  BY DEF StackInv
<1>4. Top = frames[n]
  BY DEF Top
<1> HIDE DEF n
<1>5. frames' # <<>> => n - 1 \in 1..(n - 1) /\ Top' = frames[n - 1]
  <2> SUFFICES ASSUME frames' # <<>> PROVE n - 1 \in 1..(n - 1) /\ Top' = frames[n - 1]
    OBVIOUS
  <2>1. n - 1 \in 1..(n - 1)
    BY <1>1, <1>2, EmptySeq
  <2> QED
    BY <1>2, <2>1 DEF Top
<1>6. frames' # <<>> => Called(Top', Top)
  <2> SUFFICES ASSUME frames' # <<>> PROVE Called(Top', Top)
    OBVIOUS
  <2>1. Called(frames[n - 1], frames[(n - 1) + 1]) /\ (n - 1) + 1 = n
    BY <1>1, <1>3, <1>5
  <2> QED
    BY <1>4, <1>5, <2>1
<1>7. ASSUME NEW j \in 1..(Len(frames') - 1) PROVE Called(frames'[j], frames'[j + 1])
  <2>1. j \in 1..(n - 1) /\ j + 1 \in 1..(n - 1)
    BY <1>1, <1>2
  <2> QED
    BY <1>2, <1>3, <2>1
<1>8. frames' # <<>> => frames'[1] = frames[1]
  BY <1>1, <1>2, <1>5
<1>9. \A j \in 1..Len(frames') : j <= Deep(frames'[j])
  BY <1>1, <1>2, <1>3
<1>10. frames' # <<>> => returned' # Running /\ Top'.at \in Calling
  BY <1>6 DEF Return, Called
<1> QED
  BY <1>2, <1>3, <1>6, <1>7, <1>8, <1>9, <1>10 DEF StackInv, n

\* The innermost call works on, as `top`.
LEMMA WorkKeepsStack ==
  ASSUME StackInv, frames # <<>>, returned' = Running,
         NEW top \in Frame, top.proc = Top.proc, top.depth = Top.depth, top.at \notin Calling,
         frames' = [frames EXCEPT ![Len(frames)] = top]
  PROVE  /\ StackInv'
         /\ Len(frames') = Len(frames) /\ Top' = top
         /\ \A j \in 1..(Len(frames) - 1) : frames'[j] = frames[j]
<1> DEFINE n == Len(frames)
<1>1. n \in Nat \ {0} /\ frames \in Seq(Frame)
  BY EmptySeq DEF StackInv
<1>2. /\ frames' \in Seq(Frame) /\ Len(frames') = n
      /\ \A j \in 1..(n - 1) : frames'[j] = frames[j]
      /\ frames'[n] = top
  BY <1>1, ReplaceLast
<1>3. Top' = top /\ Top = frames[n]
  BY <1>2 DEF Top
<1>4. /\ \A j \in 1..(n - 1) : Called(frames[j], frames[j + 1])
      /\ \A j \in 1..n : j <= Deep(frames[j])
      /\ frames[1].proc = "or" /\ frames[1].depth = 0
  BY DEF StackInv
<1> HIDE DEF n
<1>5. \A f : Called(f, frames[n]) <=> Called(f, top)
  BY <1>3 DEF Called
<1>6. Deep(frames[n]) = Deep(top)
  BY <1>3 DEF Deep
<1>7. ASSUME NEW j \in 1..(n - 1) PROVE Called(frames'[j], frames'[j + 1])
  <2>1. CASE j + 1 = n
    <3>1. Called(frames[j], frames[n])
      BY <1>4, <2>1
    <3> QED
      BY <1>2, <1>5, <2>1, <3>1
  <2>2. CASE j + 1 # n
    <3>1. j + 1 \in 1..(n - 1)
      BY <1>1, <2>2
    <3> QED
      BY <1>2, <1>4, <3>1
  <2> QED
    BY <2>1, <2>2
<1>8. frames'[1].proc = "or" /\ frames'[1].depth = 0
  <2>1. CASE n = 1
    BY <1>2, <1>3, <1>4, <2>1
  <2>2. CASE n # 1
    BY <1>1, <1>2, <1>4, <2>2
  <2> QED
    BY <2>1, <2>2
<1>9. ASSUME NEW j \in 1..n PROVE j <= Deep(frames'[j])
  <2>1. CASE j = n
    BY <1>2, <1>4, <1>6, <2>1
  <2>2. CASE j # n
    <3>1. j \in 1..(n - 1)
      BY <1>1, <2>2
    <3> QED
      BY <1>1, <1>2, <1>4, <3>1
  <2> QED
    BY <2>1, <2>2
<1> QED
  BY <1>2, <1>3, <1>7, <1>8, <1>9 DEF StackInv, n

LEMMA StackIsBounded == StackInv => Len(frames) <= 4 * MaxDepth + 4
<1> SUFFICES ASSUME StackInv, frames # <<>> PROVE Len(frames) <= 4 * MaxDepth + 4
  BY MaxDepthAssumption, EmptySeq DEF StackInv
<1> DEFINE f == frames[Len(frames)]
<1>1. Len(frames) \in Nat /\ Len(frames) \in 1..Len(frames)
  BY EmptySeq DEF StackInv
<1>2. f \in Frame /\ Len(frames) <= Deep(f)
  BY <1>1, ElementOfSeq DEF StackInv
<1>3. f.depth \in 0..MaxDepth /\ MaxDepth \in Nat /\ Rank(f.proc) \in 1..4
  BY <1>2, MaxDepthAssumption DEF Frame, Rank
<1> HIDE DEF f
<1> QED
  BY <1>1, <1>2, <1>3 DEF Deep

-----------------------------------------------------------------------------
\* What the trees look like

Node ==
  [kind : {"OR", "AND", "NOT", "COMPARISON"}, text : Seq(Tokens),
   left : Nat, right : Nat, children : Seq(Nat), array : Nat, capacity : Nat]

\* The highest tree a call may return: a chain is one higher than its operands,
\* and with every level of nesting there is room for two chains less.
Highest(proc, depth) ==
  2 * (MaxDepth - depth) + (IF proc = "or" THEN 3 ELSE IF proc = "and" THEN 2 ELSE 1)
Tallest == 2 * MaxDepth + 3

\* Every node has a level, higher than its children's; a chain under way is given
\* the highest at once, so that its children fit below whatever they are.
Levelled(level) ==
  /\ nodes \in [DOMAIN level -> Node] /\ level \in [DOMAIN level -> 1..Tallest]
  /\ \A id \in DOMAIN level : \A i \in 1..Len(nodes[id].children) :
       LET child == nodes[id].children[i] IN child \in DOMAIN level /\ level[child] < level[id]

FrameLevelled(f, level) ==
  /\ f.at = "rest" => f.node \in DOMAIN level /\ level[f.node] = Highest(f.proc, f.depth)
  /\ f.at \in InComparison => f.node \in DOMAIN level /\ level[f.node] = 1

NoHigher(value, proc, depth, level) ==
  value # NULL => value \in DOMAIN level /\ level[value] <= Highest(proc, depth)

FramesLevelled(level) == \A j \in 1..Len(frames) : FrameLevelled(frames[j], level)

ReturnedLevelled(level) ==
  returned # Running =>
    IF frames = <<>> THEN NoHigher(returned, "or", 0, level)
    ELSE NoHigher(returned, CalleeProc(Top), CalleeDepth(Top), level)

HeapInv(level) == (\E S : frees \in Seq(S)) /\ DOMAIN level \subseteq 1..Len(frees)
AstInv(level) == "where" \in DOMAIN ast /\ (ast.where # NULL => ast.where \in DOMAIN level)

TreesInv(level) ==
  /\ Levelled(level) /\ FramesLevelled(level) /\ ReturnedLevelled(level)
  /\ HeapInv(level) /\ current \in Tokens

DepthInv == StackInv /\ \E level : TreesInv(level) /\ AstInv(level)

\* `wider` gives the nodes of `level` the level they had, and may have more.
Widens(level, wider) ==
  DOMAIN level \subseteq DOMAIN wider /\ \A id \in DOMAIN level : wider[id] = level[id]

LEMMA StillLevelled ==
  ASSUME NEW level, NEW wider, Widens(level, wider)
  PROVE  /\ \A f : FrameLevelled(f, level) => FrameLevelled(f, wider)
         /\ \A value, proc, depth : NoHigher(value, proc, depth, level) => NoHigher(value, proc, depth, wider)
  BY DEF Widens, FrameLevelled, NoHigher

\* The three things a step does with the stack, the trees growing meanwhile.
LEMMA CallKeepsLevels ==
  ASSUME StackInv, frames # <<>>, returned' = Running,
         NEW top \in Frame, top.proc = Top.proc, top.depth = Top.depth,
         NEW callee \in Frame, Called(top, callee), callee.at = "enter",
         CallFrom(top, callee),
         NEW level, NEW wider, Widens(level, wider), FramesLevelled(level), FrameLevelled(top, wider)
  PROVE  StackInv' /\ FramesLevelled(wider)' /\ ReturnedLevelled(wider)'
<1>1. /\ StackInv' /\ Len(frames') = Len(frames) + 1
      /\ \A j \in 1..(Len(frames) - 1) : frames'[j] = frames[j]
      /\ frames'[Len(frames)] = top /\ frames'[Len(frames) + 1] = callee
  BY CallKeepsStack
<1>2. FrameLevelled(callee, wider)
  BY DEF FrameLevelled, InComparison
<1>3. Len(frames) \in Nat
  BY EmptySeq DEF StackInv
<1>4. ASSUME NEW j \in 1..Len(frames') PROVE FrameLevelled(frames'[j], wider)
  <2>1. CASE j \in 1..(Len(frames) - 1)
    <3>1. FrameLevelled(frames[j], level)
      BY <1>3, <2>1 DEF FramesLevelled
    <3> QED
      BY <1>1, <2>1, <3>1, StillLevelled
  <2>2. CASE j = Len(frames) \/ j = Len(frames) + 1
    BY <1>1, <1>2, <2>2
  <2> QED
    BY <1>1, <1>3, <2>1, <2>2
<1> QED
  BY <1>1, <1>4 DEF FramesLevelled, ReturnedLevelled

LEMMA ReturnKeepsLevels ==
  ASSUME StackInv, frames # <<>>, NEW value, value # Running, Return(value),
         NEW level, NEW wider, Widens(level, wider), FramesLevelled(level),
         NoHigher(value, Top.proc, Top.depth, wider)
  PROVE  StackInv' /\ FramesLevelled(wider)' /\ ReturnedLevelled(wider)'
<1>1. /\ StackInv' /\ Len(frames') = Len(frames) - 1
      /\ \A j \in 1..Len(frames') : frames'[j] = frames[j]
      /\ frames' # <<>> => Called(Top', Top)
  BY ReturnKeepsStack
<1>2. Len(frames) \in Nat
  BY EmptySeq DEF StackInv
<1>3. ASSUME NEW j \in 1..Len(frames') PROVE FrameLevelled(frames'[j], wider)
  <2>1. FrameLevelled(frames[j], level)
    BY <1>1, <1>2 DEF FramesLevelled
  <2> QED
    BY <1>1, <2>1, StillLevelled
<1>4. returned' = value
  BY DEF Return
<1>5. CASE frames' # <<>>
  <2>1. Top.proc = CalleeProc(Top') /\ Top.depth = CalleeDepth(Top')
    BY <1>1, <1>5 DEF Called
  <2>2. NoHigher(returned', CalleeProc(Top'), CalleeDepth(Top'), wider)
    BY <1>4, <2>1
  <2> QED
    BY <1>1, <1>3, <1>5, <2>2 DEF FramesLevelled, ReturnedLevelled
<1>6. CASE frames' = <<>>
  <2>1. Len(frames) = 1
    BY <1>1, <1>2, <1>6
  <2>2. Top.proc = "or" /\ Top.depth = 0
    <3>1. Top = frames[1]
      BY <2>1 DEF Top
    <3> QED
      BY <3>1 DEF StackInv
  <2> QED
    BY <1>1, <1>3, <1>4, <1>6, <2>2 DEF FramesLevelled, ReturnedLevelled
<1> QED
  BY <1>5, <1>6

LEMMA WorkKeepsLevels ==
  ASSUME StackInv, frames # <<>>, returned' = Running,
         NEW top \in Frame, top.proc = Top.proc, top.depth = Top.depth, top.at \notin Calling,
         frames' = [frames EXCEPT ![Len(frames)] = top],
         NEW level, NEW wider, Widens(level, wider), FramesLevelled(level), FrameLevelled(top, wider)
  PROVE  StackInv' /\ FramesLevelled(wider)' /\ ReturnedLevelled(wider)'
<1>1. /\ StackInv' /\ Len(frames') = Len(frames) /\ Top' = top
      /\ \A j \in 1..(Len(frames) - 1) : frames'[j] = frames[j]
  BY WorkKeepsStack
<1>2. Len(frames) \in Nat /\ frames'[Len(frames)] = top
  BY <1>1, EmptySeq DEF StackInv, Top
<1>3. ASSUME NEW j \in 1..Len(frames') PROVE FrameLevelled(frames'[j], wider)
  <2>1. CASE j \in 1..(Len(frames) - 1)
    <3>1. FrameLevelled(frames[j], level)
      BY <1>2, <2>1 DEF FramesLevelled
    <3> QED
      BY <1>1, <2>1, <3>1, StillLevelled
  <2>2. CASE j = Len(frames)
    BY <1>2, <2>2
  <2>3. j \in 1..Len(frames)
    BY <1>1, Zenon
  <2>4. j \in 1..(Len(frames) - 1) \/ j = Len(frames)
    BY <1>2, <2>3
  <2> QED
    BY <2>1, <2>2, <2>4
<1> QED
  BY <1>1, <1>3 DEF FramesLevelled, ReturnedLevelled

\* The three things a step does with the heap.
LEMMA PlusSpace ==
  ASSUME NEW level, HeapInv(level), NEW n \in Nat, Allocate(n)
  PROVE  (\E S : frees' \in Seq(S)) /\ Len(frees') = Len(frees) + n
<1>1. PICK S : frees \in Seq(S)
  BY DEF HeapInv
<1> DEFINE fresh == [i \in 1..n |-> 0]
<1>2. fresh \in Seq({0}) /\ Len(fresh) = n
  OBVIOUS
<1>3. fresh \in Seq(S \cup {0}) /\ frees \in Seq(S \cup {0})
  BY <1>1, <1>2, SeqMonotonic
<1> HIDE DEF fresh
<1>4. frees \o fresh \in Seq(S \cup {0}) /\ Len(frees \o fresh) = Len(frees) + Len(fresh)
  BY <1>3, ConcatProperties
<1> QED
  BY <1>2, <1>4 DEF Allocate, fresh

LEMMA FreeingKeepsSpace ==
  ASSUME NEW S, frees \in Seq(S), NEW blocks, FreeAll(blocks)
  PROVE  (\E T : frees' \in Seq(T)) /\ Len(frees') = Len(frees)
<1> DEFINE T == {frees'[b] : b \in DOMAIN frees}
           n == Len(frees)
<1>1. n \in Nat /\ DOMAIN frees = 1..n
  OBVIOUS
<1>2. DOMAIN frees' = 1..n /\ \A b \in 1..n : frees'[b] \in T
  BY <1>1 DEF FreeAll
<1>3. frees' = [b \in 1..n |-> frees'[b]]
  BY <1>1 DEF FreeAll
<1> HIDE DEF T, n
<1>4. frees' \in [1..n -> T]
  BY <1>2, <1>3
<1>5. frees' \in Seq(T)
  BY <1>1, <1>4, SeqDef
<1>6. Len(frees') = n
  BY <1>1, <1>2, <1>5, LenProperties
<1> QED
  BY <1>5, <1>6 DEF n

LEMMA NewNode ==
  ASSUME NEW level, Levelled(level), HeapInv(level), NEW node \in Node,
         NEW n \in Nat \ {0}, Allocate(n), Put(Fresh, node), NEW height \in 1..Tallest,
         \A i \in 1..Len(node.children) :
           node.children[i] \in DOMAIN level /\ level[node.children[i]] < height
  PROVE  \E wider : /\ Widens(level, wider) /\ Levelled(wider)' /\ HeapInv(wider)'
                    /\ Fresh \in DOMAIN wider /\ wider[Fresh] = height
<1> PICK new : new = Fresh
  OBVIOUS
<1> DEFINE wider == [id \in DOMAIN level \cup {new} |-> IF id = new THEN height ELSE level[id]]
<1>1. /\ new \in Nat /\ new \notin DOMAIN level /\ new = Len(frees) + 1
      /\ DOMAIN nodes = DOMAIN level /\ Len(frees) \in Nat
  BY DEF HeapInv, Fresh, Levelled
<1>2. nodes' = [id \in DOMAIN level \cup {new} |-> IF id = new THEN node ELSE nodes[id]]
  BY <1>1 DEF Put
<1>3. (\E S : frees' \in Seq(S)) /\ Len(frees') = Len(frees) + n
  BY PlusSpace
<1>4. Widens(level, wider) /\ new \in DOMAIN wider /\ wider[new] = height
  BY <1>1 DEF Widens
<1>5. nodes' \in [DOMAIN wider -> Node] /\ wider \in [DOMAIN wider -> 1..Tallest]
  BY <1>2 DEF Levelled
<1>6. ASSUME NEW id \in DOMAIN wider, NEW i \in 1..Len(nodes'[id].children)
      PROVE  LET child == nodes'[id].children[i]
             IN  child \in DOMAIN wider /\ wider[child] < wider[id]
  <2>1. CASE id = new
    BY <1>1, <1>2, <1>4, <1>6, <2>1
  <2>2. CASE id # new
    <3>1. id \in DOMAIN level /\ nodes'[id] = nodes[id] /\ wider[id] = level[id]
      BY <1>2, <2>2
    <3>2. nodes[id].children[i] \in DOMAIN level /\ level[nodes[id].children[i]] < level[id]
      BY <1>6, <3>1 DEF Levelled
    <3> QED
      BY <1>1, <3>1, <3>2
  <2> QED
    BY <2>1, <2>2
<1>7. HeapInv(wider)'
  BY <1>1, <1>3 DEF HeapInv
<1> HIDE DEF wider
<1> QED
  BY <1>4, <1>5, <1>6, <1>7 DEF Levelled

LEMMA ChangedNode ==
  ASSUME NEW level, Levelled(level), NEW node \in Node, NEW id \in DOMAIN level, Put(id, node),
         \A i \in 1..Len(node.children) :
           node.children[i] \in DOMAIN level /\ level[node.children[i]] < level[id]
  PROVE  Levelled(level)'
<1>1. nodes' = [n \in DOMAIN level |-> IF n = id THEN node ELSE nodes[n]]
  BY DEF Put, Levelled
<1>2. nodes' \in [DOMAIN level -> Node]
  BY <1>1 DEF Levelled
<1>3. ASSUME NEW n \in DOMAIN level, NEW i \in 1..Len(nodes'[n].children)
      PROVE  LET child == nodes'[n].children[i]
             IN  child \in DOMAIN level /\ level[child] < level[n]
  <2>1. CASE n = id
    BY <1>1, <1>3, <2>1
  <2>2. CASE n # id
    BY <1>1, <1>3, <2>2 DEF Levelled
  <2> QED
    BY <2>1, <2>2
<1> QED
  BY <1>2, <1>3 DEF Levelled

LEMMA HeapGrows ==
  ASSUME NEW level, HeapInv(level), \E S : frees' \in Seq(S), Len(frees') >= Len(frees)
  PROVE  HeapInv(level)'
BY DEF HeapInv

LEMMA SameHeap ==
  ASSUME NEW level, Levelled(level), HeapInv(level), UNCHANGED heap
  PROVE  Levelled(level)' /\ HeapInv(level)'
BY DEF Levelled, HeapInv, heap

LEMMA SameNodes ==
  ASSUME NEW level, Levelled(level), UNCHANGED nodes
  PROVE  Levelled(level)'
BY DEF Levelled

LEMMA NextToken == current \in Tokens /\ (advance \/ Stay) => current' \in Tokens
BY TokensAssumption, Zenon DEF advance, Stay

LEMMA TopFrame ==
  ASSUME StackInv, frames # <<>>
  PROVE  /\ Top \in Frame
         /\ \A level : FramesLevelled(level) => FrameLevelled(Top, level)
<1>1. Len(frames) \in 1..Len(frames)
  BY EmptySeq DEF StackInv
<1> QED
  BY <1>1, ElementOfSeq DEF StackInv, Top, FramesLevelled

-----------------------------------------------------------------------------
\* The steps of a WHERE

StepKept(level) == StackInv' /\ \E wider : Widens(level, wider) /\ TreesInv(wider)'

\* A step that leaves the trees alone.
LEMMA CallWithinHeap ==
  ASSUME StackInv, frames # <<>>, returned' = Running,
         NEW top \in Frame, top.proc = Top.proc, top.depth = Top.depth,
         NEW callee \in Frame, Called(top, callee), callee.at = "enter",
         CallFrom(top, callee),
         NEW level, TreesInv(level), FrameLevelled(top, level),
         advance \/ Stay, UNCHANGED heap
  PROVE  StepKept(level)
<1>1. Widens(level, level)
  BY DEF Widens
<1>2. StackInv' /\ FramesLevelled(level)' /\ ReturnedLevelled(level)'
  BY <1>1, CallKeepsLevels DEF TreesInv
<1> QED
  BY <1>1, <1>2, SameHeap, NextToken DEF TreesInv, StepKept

LEMMA ReturnWithinHeap ==
  ASSUME StackInv, frames # <<>>, NEW value, value # Running, Return(value),
         NEW level, TreesInv(level), NoHigher(value, Top.proc, Top.depth, level),
         advance \/ Stay, UNCHANGED nodes,
         UNCHANGED frees \/ \E blocks : FreeAll(blocks)
  PROVE  StepKept(level)
<1>1. Widens(level, level)
  BY DEF Widens
<1>2. StackInv' /\ FramesLevelled(level)' /\ ReturnedLevelled(level)'
  BY <1>1, ReturnKeepsLevels DEF TreesInv
<1>3. HeapInv(level)'
  BY FreeingKeepsSpace DEF TreesInv, HeapInv
<1> QED
  BY <1>1, <1>2, <1>3, SameNodes, NextToken DEF TreesInv, StepKept

LEMMA Entered ==
  ASSUME NEW proc \in Procs, NEW depth \in 0..MaxDepth
  PROVE  /\ Enter(proc, depth) \in Frame
         /\ Enter(proc, depth).proc = proc /\ Enter(proc, depth).depth = depth
         /\ Enter(proc, depth).at = "enter"
BY DEF Enter, Frame, PlacesOf, NULL

LEMMA MovedTo ==
  ASSUME NEW f \in Frame, NEW place \in PlacesOf(f.proc),
         place \in {"operand", "inner"} => f.depth < MaxDepth
  PROVE  LET g == [f EXCEPT !.at = place]
         IN  g \in Frame /\ g.proc = f.proc /\ g.depth = f.depth /\ g.at = place /\ g.node = f.node
<1>1. place \in {"enter"} \cup Calling \cup InComparison
  BY DEF PlacesOf, Calling, InComparison
<1> QED
  BY <1>1 DEF Frame

LEMMA Bounds ==
  ASSUME NEW depth \in 0..MaxDepth
  PROVE  /\ \A proc : Highest(proc, depth) \in 1..Tallest
         /\ Highest("or", depth) = Highest("and", depth) + 1
         /\ Highest("and", depth) = Highest("not", depth) + 1
         /\ Highest("primary", depth) = Highest("not", depth)
         /\ depth < MaxDepth => /\ depth + 1 \in 0..MaxDepth
                               /\ Highest("not", depth + 1) < Highest("not", depth)
                               /\ Highest("or", depth + 1) = Highest("primary", depth)
BY MaxDepthAssumption DEF Highest, Tallest

LEMMA WithChildren ==
  ASSUME NEW node \in Node, NEW cs \in Seq(Nat)
  PROVE  [node EXCEPT !.children = cs] \in Node /\ [node EXCEPT !.children = cs].children = cs
BY DEF Node

LEMMA WithRoom ==
  ASSUME NEW node \in Node, NEW capacity \in Nat, NEW array \in Nat
  PROVE  /\ [node EXCEPT !.capacity = capacity, !.array = array] \in Node
         /\ [node EXCEPT !.capacity = capacity, !.array = array].children = node.children
BY DEF Node

LEMMA FirstChild ==
  ASSUME NEW kind \in {"OR", "AND", "NOT", "COMPARISON"}, NEW child \in Nat, NEW array \in Nat
  PROVE  /\ new_expr(kind) \in Node /\ new_expr(kind).children = <<>>
         /\ add_child(new_expr(kind), child, array) \in Node
         /\ add_child(new_expr(kind), child, array).children = <<child>>
<1>1. new_expr(kind) \in Node /\ new_expr(kind).children = <<>> /\ new_expr(kind).capacity = 0
  BY DEF new_expr, Node, NULL
<1> DEFINE grown == [new_expr(kind) EXCEPT !.capacity = 2, !.array = array]
<1>2. Grown(new_expr(kind), array) = grown
  BY <1>1 DEF Grown, new_expr, NULL
<1>3. 2 \in Nat /\ grown \in Node /\ grown.children = <<>>
  BY <1>1, WithRoom
<1> HIDE DEF grown
<1>4. Append(<<>>, child) = <<child>> /\ <<child>> \in Seq(Nat)
  OBVIOUS
<1>5. /\ [grown EXCEPT !.children = <<child>>] \in Node
      /\ [grown EXCEPT !.children = <<child>>].children = <<child>>
  BY <1>3, <1>4, WithChildren, Zenon
<1>6. add_child(new_expr(kind), child, array) = [grown EXCEPT !.children = <<child>>]
  BY <1>2, <1>3, <1>4, Zenon DEF add_child
<1> QED
  BY <1>1, <1>5, <1>6, Zenon

LEMMA NextChild ==
  ASSUME NEW node \in Node, NEW child \in Nat
  PROVE  /\ add_child(node, child, NULL) \in Node
         /\ add_child(node, child, NULL).children = Append(node.children, child)
<1> DEFINE capacity == IF node.capacity = 0 THEN 2 ELSE 2 * node.capacity
           array == IF node.array = NULL THEN NULL ELSE node.array
           roomy == [node EXCEPT !.capacity = capacity, !.array = array]
           grown == Grown(node, NULL)
           cs == Append(node.children, child)
<1>1. capacity \in Nat /\ array \in Nat
  <2>1. node.capacity \in Nat /\ 2 * node.capacity \in Nat /\ node.array \in Nat
    BY DEF Node
  <2> QED
    BY <2>1 DEF NULL
<1>2. grown = node \/ grown = roomy
  BY Zenon DEF Grown
<1> HIDE DEF capacity, array
<1>3. roomy \in Node /\ roomy.children = node.children
  BY <1>1, WithRoom, Zenon
<1> HIDE DEF roomy
<1>4. grown \in Node /\ grown.children = node.children
  BY <1>2, <1>3, Zenon
<1>5. add_child(node, child, NULL) = [grown EXCEPT !.children = cs]
  BY <1>4, Zenon DEF add_child
<1> HIDE DEF grown
<1>6. cs \in Seq(Nat)
  BY DEF Node
<1> HIDE DEF cs
<1>7. [grown EXCEPT !.children = cs] \in Node /\ [grown EXCEPT !.children = cs].children = cs
  BY <1>4, <1>6, WithChildren, Zenon
<1> QED
  BY <1>5, <1>7, Zenon DEF cs

\* What the guard of a step says of the call it belongs to.
LEMMA AtTop ==
  ASSUME StackInv, NEW level, TreesInv(level), NEW proc, NEW place, In(proc, place) \/ Back(proc, place)
  PROVE  /\ frames # <<>> /\ Top \in Frame /\ FrameLevelled(Top, level)
         /\ Top.proc = proc /\ Top.at = place /\ proc \in Procs /\ Top.depth \in 0..MaxDepth
         /\ place \in {"operand", "inner"} => Top.depth < MaxDepth
<1>1. frames # <<>> /\ Top.proc = proc /\ Top.at = place
  BY DEF In, Back
<1> QED
  BY <1>1, TopFrame DEF Frame, TreesInv

\* What has just been returned to a frame that waits for it.
LEMMA Awaited ==
  ASSUME StackInv, NEW level, TreesInv(level), NEW proc, NEW place, Back(proc, place)
  PROVE  NoHigher(returned, CalleeProc(Top), CalleeDepth(Top), level) /\ returned # Running
BY DEF TreesInv, ReturnedLevelled, Back

LEMMA CallFirstKeeps ==
  ASSUME StackInv, NEW level, TreesInv(level), NEW proc \in Chains, CallFirst(proc)
  PROVE  StepKept(level)
<1> DEFINE top == [Top EXCEPT !.at = "first"]
           callee == Enter(Operand(proc), Top.depth)
<1>1. In(proc, "enter") /\ CallFrom(top, callee) /\ Stay /\ UNCHANGED <<returned, heap>>
  BY DEF CallFirst
<1>2. /\ frames # <<>> /\ Top \in Frame /\ Top.proc = proc /\ Top.depth \in 0..MaxDepth
      /\ returned' = Running
  BY <1>1, AtTop DEF In
<1>3. top \in Frame /\ top.proc = proc /\ top.depth = Top.depth /\ top.at = "first"
  <2>1. "first" \in PlacesOf(Top.proc) /\ NULL \in Nat
    BY <1>2 DEF PlacesOf, Chains, NULL
  <2> QED
    BY <1>2, <2>1, MovedTo
<1>4. callee \in Frame /\ callee.proc = Operand(proc) /\ callee.depth = Top.depth /\ callee.at = "enter"
  BY <1>2, Entered DEF Operand, Procs
<1> HIDE DEF top, callee
<1>5. Called(top, callee)
  BY <1>3, <1>4 DEF Called, Calling, CalleeProc, CalleeDepth
<1>6. FrameLevelled(top, level)
  BY <1>3 DEF FrameLevelled, InComparison
<1> QED
  BY <1>1, <1>2, <1>3, <1>4, <1>5, <1>6, CallWithinHeap

LEMMA ReturnFirstKeeps ==
  ASSUME StackInv, NEW level, TreesInv(level), NEW proc \in Chains, ReturnFirst(proc)
  PROVE  StepKept(level)
<1>1. Back(proc, "first") /\ Return(returned) /\ Stay /\ UNCHANGED <<nodes, frees>>
  BY DEF ReturnFirst, heap
<1>2. /\ frames # <<>> /\ Top.proc = proc /\ Top.at = "first" /\ Top.depth \in 0..MaxDepth
      /\ returned # Running /\ NoHigher(returned, Operand(proc), Top.depth, level)
  <2>1. CalleeProc(Top) = Operand(proc) /\ CalleeDepth(Top) = Top.depth
    BY <1>1, AtTop DEF CalleeProc, CalleeDepth
  <2> QED
    BY <1>1, <2>1, AtTop, Awaited
<1>3. Highest(Operand(proc), Top.depth) <= Highest(proc, Top.depth)
  BY <1>2, Bounds DEF Chains, Operand
<1>4. NoHigher(returned, Top.proc, Top.depth, level)
  <2>1. ASSUME returned # NULL PROVE level[returned] \in Nat /\ returned \in DOMAIN level
    BY <1>2, <2>1 DEF NoHigher, TreesInv, Levelled
  <2>2. Highest(Operand(proc), Top.depth) \in Nat /\ Highest(proc, Top.depth) \in Nat
    BY <1>2, Bounds
  <2> QED
    BY <1>2, <1>3, <2>1, <2>2 DEF NoHigher
<1> QED
  BY <1>1, <1>2, <1>4, ReturnWithinHeap

LEMMA BeginChainKeeps ==
  ASSUME StackInv, NEW level, TreesInv(level), NEW proc \in Chains, BeginChain(proc)
  PROVE  StepKept(level)
<1> DEFINE top == [Top EXCEPT !.at = "rest", !.node = Fresh]
           callee == Enter(Operand(proc), Top.depth)
           node == add_child(new_expr(Joiner(proc)), returned, Fresh + 1)
           height == Highest(proc, Top.depth)
<1>1. /\ Back(proc, "first") /\ returned # NULL /\ Put(Fresh, node) /\ Allocate(2)
      /\ advance /\ CallFrom(top, callee) /\ returned' = Running
  BY DEF BeginChain
<1>2. /\ frames # <<>> /\ Top \in Frame /\ Top.proc = proc /\ Top.at = "first"
      /\ Top.depth \in 0..MaxDepth
      /\ NoHigher(returned, Operand(proc), Top.depth, level)
  <2>1. CalleeProc(Top) = Operand(proc) /\ CalleeDepth(Top) = Top.depth
    BY <1>1, AtTop DEF CalleeProc, CalleeDepth
  <2> QED
    BY <1>1, <2>1, AtTop, Awaited
<1>3. Fresh \in Nat /\ Fresh + 1 \in Nat
  BY DEF TreesInv, HeapInv, Fresh
<1>4. top \in Frame /\ top.proc = proc /\ top.depth = Top.depth /\ top.at = "rest" /\ top.node = Fresh
  <2>1. "rest" \in PlacesOf(Top.proc)
    BY <1>2 DEF PlacesOf, Chains
  <2> QED
    BY <1>2, <1>3, <2>1 DEF Frame, Calling, InComparison, PlacesOf
<1>5. callee \in Frame /\ callee.proc = Operand(proc) /\ callee.depth = Top.depth /\ callee.at = "enter"
  BY <1>2, Entered DEF Operand, Procs
<1>6. returned \in DOMAIN level /\ level[returned] < height /\ height \in 1..Tallest
  <2>1. returned \in DOMAIN level /\ level[returned] <= Highest(Operand(proc), Top.depth)
    BY <1>1, <1>2 DEF NoHigher
  <2>2. level[returned] \in Nat
    BY <2>1 DEF TreesInv, Levelled
  <2>3. height = Highest(Operand(proc), Top.depth) + 1 /\ height \in 1..Tallest
    BY <1>2, Bounds DEF Chains, Operand
  <2>4. Highest(Operand(proc), Top.depth) \in Nat
    BY <1>2, Bounds
  <2> HIDE DEF height
  <2> QED
    BY <2>1, <2>2, <2>3, <2>4
<1>7. node \in Node /\ node.children = <<returned>>
  <2>1. returned \in Nat
    BY <1>6 DEF TreesInv, HeapInv
  <2>2. Joiner(proc) \in {"OR", "AND", "NOT", "COMPARISON"}
    BY DEF Joiner
  <2> QED
    BY <1>3, <2>1, <2>2, FirstChild, Zenon
<1> HIDE DEF top, callee, node, height
<1>8. PICK wider : /\ Widens(level, wider) /\ Levelled(wider)' /\ HeapInv(wider)'
                   /\ Fresh \in DOMAIN wider /\ wider[Fresh] = height
  <2>1. \A i \in 1..Len(node.children) :
          node.children[i] \in DOMAIN level /\ level[node.children[i]] < height
    BY <1>6, <1>7
  <2> QED
    BY <1>1, <1>6, <1>7, <2>1, NewNode DEF TreesInv
<1>9. FrameLevelled(top, wider)
  BY <1>4, <1>8 DEF FrameLevelled, InComparison, height
<1>10. Called(top, callee)
  BY <1>4, <1>5 DEF Called, Calling, CalleeProc, CalleeDepth
<1>11. StackInv' /\ FramesLevelled(wider)' /\ ReturnedLevelled(wider)'
  BY <1>1, <1>2, <1>4, <1>5, <1>8, <1>9, <1>10, CallKeepsLevels DEF TreesInv
<1> QED
  BY <1>1, <1>8, <1>11, NextToken DEF TreesInv, StepKept

\* One more operand of the chain under way.
LEMMA ExtendedFits ==
  ASSUME StackInv, NEW level, TreesInv(level), NEW proc \in Chains, Back(proc, "rest"),
         returned # NULL, Put(Top.node, Extended)
  PROVE  /\ Levelled(level)'
         /\ Top.node \in DOMAIN level /\ level[Top.node] = Highest(proc, Top.depth)
<1> DEFINE id == Top.node
           child == returned
           cs == nodes[id].children
<1>1. Top.proc = proc /\ Top.at = "rest" /\ Top.depth \in 0..MaxDepth /\ FrameLevelled(Top, level)
  BY AtTop
<1>2. id \in DOMAIN level /\ level[id] = Highest(proc, Top.depth)
  BY <1>1 DEF FrameLevelled
<1>3. child \in DOMAIN level /\ level[child] <= Highest(Operand(proc), Top.depth)
  <2>1. CalleeProc(Top) = Operand(proc) /\ CalleeDepth(Top) = Top.depth
    BY <1>1 DEF CalleeProc, CalleeDepth
  <2> QED
    BY <2>1, Awaited DEF NoHigher
<1>4. level[child] < level[id]
  <2>1. level[child] \in Nat
    BY <1>3 DEF TreesInv, Levelled
  <2>2. /\ Highest(proc, Top.depth) = Highest(Operand(proc), Top.depth) + 1
        /\ Highest(proc, Top.depth) \in Nat /\ Highest(Operand(proc), Top.depth) \in Nat
    BY <1>1, Bounds DEF Chains, Operand
  <2> QED
    BY <1>2, <1>3, <2>1, <2>2
<1>5. /\ nodes[id] \in Node /\ child \in Nat /\ cs \in Seq(Nat)
      /\ \A i \in 1..Len(cs) : cs[i] \in DOMAIN level /\ level[cs[i]] < level[id]
  <2> HIDE DEF id, child
  <2>1. nodes[id] \in Node
    BY <1>2 DEF TreesInv, Levelled
  <2>2. child \in Nat
    BY <1>3 DEF TreesInv, HeapInv
  <2>3. \A i \in 1..Len(cs) : cs[i] \in DOMAIN level /\ level[cs[i]] < level[id]
    BY <1>2 DEF TreesInv, Levelled
  <2> QED
    BY <2>1, <2>2, <2>3 DEF Node
<1>6. Extended \in Node /\ Extended.children = Append(cs, child)
  BY <1>5, NextChild DEF Extended
<1> HIDE DEF id, child, cs
<1>7. ASSUME NEW i \in 1..Len(Append(cs, child))
      PROVE  Append(cs, child)[i] \in DOMAIN level /\ level[Append(cs, child)[i]] < level[id]
  <2>1. /\ Len(Append(cs, child)) = Len(cs) + 1 /\ Len(cs) \in Nat
        /\ \A j \in 1..Len(cs) : Append(cs, child)[j] = cs[j]
        /\ Append(cs, child)[Len(cs) + 1] = child
    BY <1>5, AppendProperties
  <2>2. CASE i = Len(cs) + 1
    BY <1>3, <1>4, <2>1, <2>2
  <2>3. CASE i # Len(cs) + 1
    <3>1. i \in 1..Len(cs)
      BY <2>1, <2>3
    <3> QED
      BY <1>5, <2>1, <3>1
  <2> QED
    BY <2>2, <2>3
<1>8. Levelled(level)'
  BY <1>2, <1>6, <1>7, ChangedNode DEF TreesInv, id
<1> QED
  BY <1>2, <1>8 DEF id

LEMMA ExtendChainKeeps ==
  ASSUME StackInv, NEW level, TreesInv(level), NEW proc \in Chains, ExtendChain(proc)
  PROVE  StepKept(level)
<1> DEFINE callee == Enter(Operand(proc), Top.depth)
<1>1. /\ Back(proc, "rest") /\ returned # NULL /\ Put(Top.node, Extended)
      /\ advance /\ CallFrom(Top, callee) /\ returned' = Running /\ UNCHANGED frees
  BY DEF ExtendChain
<1>2. /\ frames # <<>> /\ Top \in Frame /\ Top.proc = proc /\ Top.at = "rest"
      /\ Top.depth \in 0..MaxDepth /\ FrameLevelled(Top, level)
  BY <1>1, AtTop
<1>3. callee \in Frame /\ callee.proc = Operand(proc) /\ callee.depth = Top.depth /\ callee.at = "enter"
  BY <1>2, Entered DEF Operand, Procs
<1> HIDE DEF callee
<1>4. Called(Top, callee)
  BY <1>2, <1>3 DEF Called, Calling, CalleeProc, CalleeDepth
<1>5. Widens(level, level)
  BY DEF Widens
<1>6. StackInv' /\ FramesLevelled(level)' /\ ReturnedLevelled(level)'
  BY <1>1, <1>2, <1>3, <1>4, <1>5, CallKeepsLevels DEF TreesInv
<1>7. Levelled(level)' /\ HeapInv(level)'
  BY <1>1, ExtendedFits DEF TreesInv, HeapInv
<1> QED
  BY <1>1, <1>5, <1>6, <1>7, NextToken DEF TreesInv, StepKept

LEMMA EndChainKeeps ==
  ASSUME StackInv, NEW level, TreesInv(level), NEW proc \in Chains, EndChain(proc)
  PROVE  StepKept(level)
<1>1. /\ Back(proc, "rest") /\ returned # NULL /\ Put(Top.node, Extended)
      /\ Return(Top.node) /\ Stay /\ UNCHANGED frees
  BY DEF EndChain
<1>2. frames # <<>> /\ Top.proc = proc /\ Top.depth \in 0..MaxDepth
  BY <1>1, AtTop
<1>3. Levelled(level)' /\ Top.node \in DOMAIN level /\ level[Top.node] = Highest(proc, Top.depth)
  BY <1>1, ExtendedFits
<1>4. Top.node # Running
  BY <1>3 DEF TreesInv, HeapInv, Running
<1>5. NoHigher(Top.node, Top.proc, Top.depth, level)
  BY <1>2, <1>3, Bounds DEF NoHigher
<1>6. Widens(level, level)
  BY DEF Widens
<1>7. StackInv' /\ FramesLevelled(level)' /\ ReturnedLevelled(level)'
  BY <1>1, <1>2, <1>4, <1>5, <1>6, ReturnKeepsLevels DEF TreesInv
<1> QED
  BY <1>1, <1>3, <1>6, <1>7, NextToken DEF TreesInv, HeapInv, StepKept

LEMMA ReturnNullKeeps ==
  ASSUME StackInv, frames # <<>>, NEW level, TreesInv(level), Return(NULL), Stay, UNCHANGED nodes,
         UNCHANGED frees \/ \E blocks : FreeAll(blocks)
  PROVE  StepKept(level)
BY ReturnWithinHeap DEF NoHigher, NULL, Running

LEMMA BreakChainKeeps ==
  ASSUME StackInv, NEW level, TreesInv(level), NEW proc \in Chains, BreakChain(proc)
  PROVE  StepKept(level)
BY ReturnNullKeeps DEF BreakChain, Back

LEMMA CallPrimaryKeeps ==
  ASSUME StackInv, NEW level, TreesInv(level), CallPrimary
  PROVE  StepKept(level)
<1> DEFINE top == [Top EXCEPT !.at = "primary"]
           callee == Enter("primary", Top.depth)
<1>1. In("not", "enter") /\ CallFrom(top, callee) /\ Stay /\ UNCHANGED <<returned, heap>>
  BY DEF CallPrimary
<1>2. /\ frames # <<>> /\ Top \in Frame /\ Top.proc = "not" /\ Top.depth \in 0..MaxDepth
      /\ returned' = Running
  BY <1>1, AtTop DEF In
<1>3. top \in Frame /\ top.proc = "not" /\ top.depth = Top.depth /\ top.at = "primary"
  <2>1. "primary" \in PlacesOf(Top.proc)
    BY <1>2 DEF PlacesOf, Chains
  <2> QED
    BY <1>2, <2>1, MovedTo
<1>4. callee \in Frame /\ callee.proc = "primary" /\ callee.depth = Top.depth /\ callee.at = "enter"
  BY <1>2, Entered DEF Procs
<1> HIDE DEF top, callee
<1>5. Called(top, callee)
  BY <1>3, <1>4 DEF Called, Calling, CalleeProc, CalleeDepth
<1>6. FrameLevelled(top, level)
  BY <1>3 DEF FrameLevelled, InComparison
<1> QED
  BY <1>1, <1>2, <1>3, <1>4, <1>5, <1>6, CallWithinHeap

LEMMA CallNotKeeps ==
  ASSUME StackInv, NEW level, TreesInv(level), CallNot
  PROVE  StepKept(level)
<1> DEFINE top == [Top EXCEPT !.at = "operand"]
           callee == Enter("not", Top.depth + 1)
<1>1. /\ In("not", "enter") /\ CallFrom(top, callee) /\ advance /\ UNCHANGED <<returned, heap>>
      /\ ~(Top.depth >= MaxDepth)
  BY DEF CallNot, TooDeep
<1>2. /\ frames # <<>> /\ Top \in Frame /\ Top.proc = "not" /\ Top.depth \in 0..MaxDepth
      /\ returned' = Running
  BY <1>1, AtTop DEF In
<1>3. Top.depth < MaxDepth /\ Top.depth + 1 \in 0..MaxDepth
  BY <1>1, <1>2, MaxDepthAssumption
<1>4. top \in Frame /\ top.proc = "not" /\ top.depth = Top.depth /\ top.at = "operand"
  <2>1. "operand" \in PlacesOf(Top.proc)
    BY <1>2 DEF PlacesOf, Chains
  <2> QED
    BY <1>2, <1>3, <2>1, MovedTo
<1>5. callee \in Frame /\ callee.proc = "not" /\ callee.depth = Top.depth + 1 /\ callee.at = "enter"
  BY <1>3, Entered DEF Procs
<1> HIDE DEF top, callee
<1>6. Called(top, callee)
  BY <1>4, <1>5 DEF Called, Calling, CalleeProc, CalleeDepth
<1>7. FrameLevelled(top, level)
  BY <1>4 DEF FrameLevelled, InComparison
<1> QED
  BY <1>1, <1>2, <1>4, <1>5, <1>6, <1>7, CallWithinHeap

LEMMA OpenParenthesisKeeps ==
  ASSUME StackInv, NEW level, TreesInv(level), OpenParenthesis
  PROVE  StepKept(level)
<1> DEFINE top == [Top EXCEPT !.at = "inner"]
           callee == Enter("or", Top.depth + 1)
<1>1. /\ In("primary", "enter") /\ CallFrom(top, callee) /\ advance /\ UNCHANGED <<returned, heap>>
      /\ ~(Top.depth >= MaxDepth)
  BY DEF OpenParenthesis, TooDeep
<1>2. /\ frames # <<>> /\ Top \in Frame /\ Top.proc = "primary" /\ Top.depth \in 0..MaxDepth
      /\ returned' = Running
  BY <1>1, AtTop DEF In
<1>3. Top.depth < MaxDepth /\ Top.depth + 1 \in 0..MaxDepth
  BY <1>1, <1>2, MaxDepthAssumption
<1>4. top \in Frame /\ top.proc = "primary" /\ top.depth = Top.depth /\ top.at = "inner"
  <2>1. "inner" \in PlacesOf(Top.proc)
    BY <1>2 DEF PlacesOf, Chains
  <2> QED
    BY <1>2, <1>3, <2>1, MovedTo
<1>5. callee \in Frame /\ callee.proc = "or" /\ callee.depth = Top.depth + 1 /\ callee.at = "enter"
  BY <1>3, Entered DEF Procs
<1> HIDE DEF top, callee
<1>6. Called(top, callee)
  BY <1>4, <1>5 DEF Called, Calling, CalleeProc, CalleeDepth
<1>7. FrameLevelled(top, level)
  BY <1>4 DEF FrameLevelled, InComparison
<1> QED
  BY <1>1, <1>2, <1>4, <1>5, <1>6, <1>7, CallWithinHeap

\* A tree handed on as it is: no higher than the call that hands it on may return.
LEMMA HandedOn ==
  ASSUME StackInv, NEW level, TreesInv(level),
         Back("not", "primary") \/ Back("primary", "inner")
  PROVE  NoHigher(returned, Top.proc, Top.depth, level)
<1>1. CASE Back("not", "primary")
  <2>1. Top.proc = "not" /\ Top.depth \in 0..MaxDepth /\ Top.at = "primary"
    BY <1>1, AtTop
  <2>2. Highest(CalleeProc(Top), CalleeDepth(Top)) = Highest(Top.proc, Top.depth)
    BY <2>1, Bounds DEF CalleeProc, CalleeDepth
  <2> QED
    BY <1>1, <2>2, Awaited DEF NoHigher
<1>2. CASE Back("primary", "inner")
  <2>1. Top.proc = "primary" /\ Top.depth \in 0..MaxDepth /\ Top.depth < MaxDepth /\ Top.at = "inner"
    BY <1>2, AtTop
  <2>2. Highest(CalleeProc(Top), CalleeDepth(Top)) = Highest(Top.proc, Top.depth)
    BY <2>1, Bounds DEF CalleeProc, CalleeDepth
  <2> QED
    BY <1>2, <2>2, Awaited DEF NoHigher
<1> QED
  BY <1>1, <1>2

LEMMA PassOnKeeps ==
  ASSUME StackInv, NEW level, TreesInv(level), PassOn
  PROVE  StepKept(level)
<1>1. Return(returned) /\ Stay /\ UNCHANGED nodes /\ UNCHANGED frees /\ frames # <<>> /\ returned # Running
  BY DEF PassOn, heap, Back
<1>2. NoHigher(returned, Top.proc, Top.depth, level)
  BY HandedOn DEF PassOn, NoHigher
<1> QED
  BY <1>1, <1>2, ReturnWithinHeap

LEMMA CloseParenthesisKeeps ==
  ASSUME StackInv, NEW level, TreesInv(level), CloseParenthesis
  PROVE  StepKept(level)
<1>1. /\ Return(returned) /\ advance /\ UNCHANGED nodes /\ UNCHANGED frees
      /\ frames # <<>> /\ returned # Running
  BY DEF CloseParenthesis, heap, Back
<1>2. NoHigher(returned, Top.proc, Top.depth, level)
  BY HandedOn DEF CloseParenthesis
<1> QED
  BY <1>1, <1>2, ReturnWithinHeap

LEMMA RefusalsKeep ==
  ASSUME StackInv, NEW level, TreesInv(level),
         RefuseNot \/ RefuseParenthesis \/ PassOnFailure \/ MissParenthesis \/ FailComparison
  PROVE  StepKept(level)
<1>1. CASE RefuseNot
  BY <1>1, ReturnNullKeeps DEF RefuseNot, RefuseNesting, In, heap
<1>2. CASE RefuseParenthesis
  BY <1>2, ReturnNullKeeps DEF RefuseParenthesis, RefuseNesting, In, heap
<1>3. CASE PassOnFailure
  BY <1>3, ReturnNullKeeps DEF PassOnFailure, Back, heap
<1>4. CASE MissParenthesis
  BY <1>4, ReturnNullKeeps DEF MissParenthesis, Fail, Back
<1>5. CASE FailComparison
  BY <1>5, ReturnNullKeeps DEF FailComparison, Fail, In
<1> QED
  BY <1>1, <1>2, <1>3, <1>4, <1>5

LEMMA NegateKeeps ==
  ASSUME StackInv, NEW level, TreesInv(level), Negate
  PROVE  StepKept(level)
<1> DEFINE node == add_child(new_expr("NOT"), returned, Fresh + 1)
           height == Highest("not", Top.depth)
<1>1. /\ Back("not", "operand") /\ returned # NULL /\ Put(Fresh, node) /\ Allocate(2)
      /\ Return(Fresh) /\ Stay
  BY DEF Negate
<1>2. /\ frames # <<>> /\ Top.proc = "not" /\ Top.depth \in 0..MaxDepth /\ Top.depth < MaxDepth
      /\ NoHigher(returned, "not", Top.depth + 1, level)
  <2>1. CalleeProc(Top) = "not" /\ CalleeDepth(Top) = Top.depth + 1
    BY <1>1, AtTop DEF CalleeProc, CalleeDepth
  <2> QED
    BY <1>1, <2>1, AtTop, Awaited
<1>3. Fresh \in Nat /\ Fresh + 1 \in Nat
  BY DEF TreesInv, HeapInv, Fresh
<1>4. returned \in DOMAIN level /\ level[returned] < height /\ height \in 1..Tallest
  <2>1. returned \in DOMAIN level /\ level[returned] <= Highest("not", Top.depth + 1)
    BY <1>1, <1>2 DEF NoHigher
  <2>2. level[returned] \in Nat
    BY <2>1 DEF TreesInv, Levelled
  <2>3. /\ Highest("not", Top.depth + 1) < height /\ height \in 1..Tallest
        /\ Highest("not", Top.depth + 1) \in 1..Tallest
    BY <1>2, Bounds
  <2> HIDE DEF height
  <2> QED
    BY <2>1, <2>2, <2>3
<1>5. node \in Node /\ node.children = <<returned>>
  <2>1. returned \in Nat
    BY <1>4 DEF TreesInv, HeapInv
  <2> QED
    BY <1>3, <2>1, FirstChild
<1> HIDE DEF node, height
<1>6. PICK wider : /\ Widens(level, wider) /\ Levelled(wider)' /\ HeapInv(wider)'
                   /\ Fresh \in DOMAIN wider /\ wider[Fresh] = height
  <2>1. \A i \in 1..Len(node.children) :
          node.children[i] \in DOMAIN level /\ level[node.children[i]] < height
    BY <1>4, <1>5
  <2> QED
    BY <1>1, <1>4, <1>5, <2>1, NewNode DEF TreesInv
<1>7. NoHigher(Fresh, Top.proc, Top.depth, wider) /\ Fresh # Running
  BY <1>2, <1>3, <1>4, <1>6 DEF NoHigher, height, Running
<1>8. StackInv' /\ FramesLevelled(wider)' /\ ReturnedLevelled(wider)'
  BY <1>1, <1>2, <1>6, <1>7, ReturnKeepsLevels DEF TreesInv
<1> QED
  BY <1>1, <1>6, <1>8, NextToken DEF TreesInv, StepKept

LEMMA BeginComparisonKeeps ==
  ASSUME StackInv, NEW level, TreesInv(level), BeginComparison
  PROVE  StepKept(level)
<1> DEFINE node == new_expr("COMPARISON")
           top == [Top EXCEPT !.at = "left", !.node = Fresh]
<1>1. /\ In("primary", "enter") /\ Put(Fresh, node) /\ Allocate(1) /\ Stay
      /\ frames' = [frames EXCEPT ![Len(frames)] = top] /\ UNCHANGED returned
  BY DEF BeginComparison, Top
<1>2. /\ frames # <<>> /\ Top \in Frame /\ Top.proc = "primary" /\ Top.depth \in 0..MaxDepth
      /\ returned' = Running
  BY <1>1, AtTop DEF In
<1>3. Fresh \in Nat
  BY DEF TreesInv, HeapInv, Fresh
<1>4. /\ top \in Frame /\ top.proc = "primary" /\ top.depth = Top.depth
      /\ top.at = "left" /\ top.node = Fresh
  BY <1>2, <1>3 DEF Frame, PlacesOf, InComparison, Chains
<1>5. node \in Node /\ node.children = <<>>
  BY DEF new_expr, Node, NULL
<1> HIDE DEF node, top
<1>6. PICK wider : /\ Widens(level, wider) /\ Levelled(wider)' /\ HeapInv(wider)'
                   /\ Fresh \in DOMAIN wider /\ wider[Fresh] = 1
  <2>1. 1 \in 1..Tallest
    BY MaxDepthAssumption DEF Tallest
  <2>2. 1 \in Nat \ {0} /\ \A i \in 1..Len(node.children) : FALSE
    BY <1>5
  <2> QED
    BY <1>1, <1>5, <2>1, <2>2, NewNode DEF TreesInv
<1>7. FrameLevelled(top, wider) /\ top.at \notin Calling
  BY <1>4, <1>6 DEF FrameLevelled, Calling
<1>8. StackInv' /\ FramesLevelled(wider)' /\ ReturnedLevelled(wider)'
  BY <1>1, <1>2, <1>4, <1>6, <1>7, WorkKeepsLevels DEF TreesInv
<1> QED
  BY <1>1, <1>6, <1>8, NextToken DEF TreesInv, StepKept

LEMMA TakenFits ==
  ASSUME NEW level, Levelled(level), current \in Tokens, Top.node \in DOMAIN level,
         NEW node \in Node, node.children = nodes[Top.node].children, Take(node)
  PROVE  Levelled(level)'
<1> DEFINE text == Append(node.text, current)
           longer == [node EXCEPT !.text = text]
<1>1. Put(Top.node, longer)
  BY DEF Take
<1>2. text \in Seq(Tokens)
  BY DEF Node
<1> HIDE DEF text
<1>3. longer \in Node /\ longer.children = node.children
  BY <1>2 DEF Node
<1> HIDE DEF longer
<1>4. \A i \in 1..Len(node.children) :
        node.children[i] \in DOMAIN level /\ level[node.children[i]] < level[Top.node]
  BY DEF Levelled
<1> QED
  BY <1>1, <1>3, <1>4, ChangedNode

\* The innermost call goes on in a comparison.
LEMMA GoToKeeps ==
  ASSUME StackInv, NEW level, TreesInv(level), NEW place, In("primary", place), place \in InComparison,
         NEW next \in InComparison, GoTo(next), UNCHANGED returned, advance,
         Levelled(level)', HeapInv(level)'
  PROVE  StepKept(level)
<1> DEFINE top == [Top EXCEPT !.at = next]
<1>1. /\ frames # <<>> /\ Top \in Frame /\ Top.proc = "primary" /\ Top.at = place
      /\ FrameLevelled(Top, level) /\ returned' = Running
  BY AtTop DEF In
<1>2. frames' = [frames EXCEPT ![Len(frames)] = top]
  BY DEF GoTo, Top
<1>3. top \in Frame /\ top.proc = "primary" /\ top.depth = Top.depth /\ top.at = next /\ top.node = Top.node
  <2>1. next \in PlacesOf(Top.proc) /\ next \notin {"operand", "inner"}
    BY <1>1 DEF PlacesOf, Chains, InComparison
  <2> QED
    BY <1>1, <2>1, MovedTo
<1> HIDE DEF top
<1>4. FrameLevelled(top, level) /\ top.at \notin Calling
  BY <1>1, <1>3 DEF FrameLevelled, InComparison, Calling
<1>5. Widens(level, level)
  BY DEF Widens
<1>6. StackInv' /\ FramesLevelled(level)' /\ ReturnedLevelled(level)'
  BY <1>1, <1>2, <1>3, <1>4, <1>5, WorkKeepsLevels DEF TreesInv
<1> QED
  BY <1>5, <1>6, NextToken DEF TreesInv, StepKept

LEMMA ComparedNode ==
  ASSUME StackInv, NEW level, TreesInv(level), NEW place \in InComparison, In("primary", place)
  PROVE  /\ Top.node \in DOMAIN level /\ nodes[Top.node] \in Node
         /\ level[Top.node] = 1
BY AtTop DEF FrameLevelled, TreesInv, Levelled

LEMMA TakeMinusKeeps ==
  ASSUME StackInv, NEW level, TreesInv(level), NEW side \in Sides, TakeMinus(side)
  PROVE  StepKept(level)
<1>1. /\ In("primary", side) /\ Take(nodes[Top.node]) /\ GoTo(AfterMinus(side))
      /\ UNCHANGED returned /\ UNCHANGED frees
  BY DEF TakeMinus
<1>2. side \in InComparison /\ AfterMinus(side) \in InComparison
  BY DEF Sides, InComparison, AfterMinus
<1>3. Levelled(level)'
  BY <1>1, <1>2, ComparedNode, TakenFits DEF TreesInv
<1>4. HeapInv(level)' /\ advance
  BY <1>1 DEF TreesInv, HeapInv, Take
<1> QED
  BY <1>1, <1>2, <1>3, <1>4, GoToKeeps

LEMMA TakeOperatorKeeps ==
  ASSUME StackInv, NEW level, TreesInv(level), TakeOperator
  PROVE  StepKept(level)
<1>1. /\ In("primary", "op") /\ Take(nodes[Top.node]) /\ GoTo("right")
      /\ UNCHANGED returned /\ UNCHANGED frees
  BY DEF TakeOperator
<1>2. "op" \in InComparison /\ "right" \in InComparison
  BY DEF InComparison
<1>3. Levelled(level)'
  BY <1>1, <1>2, ComparedNode, TakenFits DEF TreesInv
<1>4. HeapInv(level)' /\ advance
  BY <1>1 DEF TreesInv, HeapInv, Take
<1> QED
  BY <1>1, <1>2, <1>3, <1>4, GoToKeeps

LEMMA TakeOperandKeeps ==
  ASSUME StackInv, NEW level, TreesInv(level), NEW side \in Sides, TakeOperand(side)
  PROVE  StepKept(level)
<1> DEFINE node == [nodes[Top.node] EXCEPT ![side] = Fresh]
<1>1. PICK place \in InComparison : In("primary", place)
  BY DEF TakeOperand, Sides, InComparison, AfterMinus
<1>2. Take(node) /\ Allocate(1)
  BY DEF TakeOperand
<1>3. /\ Top.node \in DOMAIN level /\ nodes[Top.node] \in Node /\ level[Top.node] = 1
      /\ frames # <<>> /\ Top.proc = "primary" /\ Top.depth \in 0..MaxDepth
  BY <1>1, AtTop, ComparedNode DEF TreesInv, Levelled
<1>4. node \in Node /\ node.children = nodes[Top.node].children
  <2>1. Fresh \in Nat
    BY DEF TreesInv, HeapInv, Fresh
  <2>2. ASSUME NEW old \in Node, NEW block \in Nat
        PROVE  [old EXCEPT ![side] = block] \in Node /\ [old EXCEPT ![side] = block].children = old.children
    BY <2>2 DEF Node, Sides
  <2> QED
    BY <1>3, <2>1, <2>2
<1> HIDE DEF node
<1>5. Levelled(level)'
  BY <1>2, <1>3, <1>4, TakenFits DEF TreesInv
<1>6. HeapInv(level)'
  <2>1. (\E S : frees' \in Seq(S)) /\ Len(frees') = Len(frees) + 1 /\ Len(frees) \in Nat
    BY <1>2, PlusSpace DEF TreesInv, HeapInv
  <2> QED
    BY <2>1 DEF TreesInv, HeapInv
<1>7. CASE side = "left"
  <2>1. GoTo("op") /\ UNCHANGED returned
    BY <1>7 DEF TakeOperand
  <2> QED
    BY <1>1, <1>2, <1>5, <1>6, <2>1, GoToKeeps DEF InComparison, Take
<1>8. CASE side = "right"
  <2>1. Return(Top.node)
    BY <1>8 DEF TakeOperand
  <2>2. Widens(level, level) /\ Top.node # Running
    BY <1>3 DEF Widens, TreesInv, HeapInv, Running
  <2>3. NoHigher(Top.node, Top.proc, Top.depth, level)
    BY <1>3, Bounds DEF NoHigher
  <2>4. StackInv' /\ FramesLevelled(level)' /\ ReturnedLevelled(level)'
    BY <1>3, <2>1, <2>2, <2>3, ReturnKeepsLevels DEF TreesInv
  <2> QED
    BY <1>2, <1>5, <1>6, <2>2, <2>4, NextToken DEF Take, TreesInv, StepKept
<1> QED
  BY <1>7, <1>8 DEF Sides

LEMMA WhereStepKeeps ==
  ASSUME StackInv, NEW level, TreesInv(level), Next
  PROVE  StepKept(level)
<1>1. ASSUME NEW proc \in Chains,
             \/ CallFirst(proc) \/ ReturnFirst(proc) \/ BeginChain(proc)
             \/ ExtendChain(proc) \/ EndChain(proc) \/ BreakChain(proc)
      PROVE  StepKept(level)
  BY <1>1, CallFirstKeeps, ReturnFirstKeeps, BeginChainKeeps, ExtendChainKeeps, EndChainKeeps, BreakChainKeeps
<1>2. CASE CallPrimary \/ RefuseNot \/ CallNot \/ PassOn \/ Negate
  BY <1>2, CallPrimaryKeeps, RefusalsKeep, CallNotKeeps, PassOnKeeps, NegateKeeps
<1>3. CASE RefuseParenthesis \/ OpenParenthesis \/ PassOnFailure \/ CloseParenthesis \/ MissParenthesis
  BY <1>3, RefusalsKeep, OpenParenthesisKeeps, CloseParenthesisKeeps
<1>4. CASE BeginComparison \/ TakeOperator \/ FailComparison
  BY <1>4, BeginComparisonKeeps, TakeOperatorKeeps, RefusalsKeep
<1>5. ASSUME NEW side \in Sides, TakeOperand(side) \/ TakeMinus(side) PROVE StepKept(level)
  BY <1>5, TakeOperandKeeps, TakeMinusKeeps
<1> QED
  BY <1>1, <1>2, <1>3, <1>4, <1>5 DEF Next

-----------------------------------------------------------------------------
\* The steps of parse_statement

LEMMA DepthInitInv == ParserInit => DepthInv
<1> SUFFICES ASSUME ParserInit PROVE DepthInv
  OBVIOUS
<1>1. frames = <<>> /\ returned = Running /\ nodes = <<>> /\ frees = <<>> /\ current \in Tokens
      /\ ast = EmptyAst
  BY DEF ParserInit
<1>2. StackInv
  BY <1>1, EmptySeq DEF StackInv
<1> DEFINE level == [id \in {} |-> 1]
<1>3. Levelled(level)
  BY <1>1 DEF Levelled
<1>4. FramesLevelled(level) /\ ReturnedLevelled(level)
  BY <1>1 DEF FramesLevelled, ReturnedLevelled
<1>5. HeapInv(level)
  <2>1. frees \in Seq({})
    BY <1>1, EmptySeq
  <2> QED
    BY <2>1 DEF HeapInv
<1>6. AstInv(level)
  BY <1>1 DEF AstInv, EmptyAst, NULL
<1> HIDE DEF level
<1> QED
  BY <1>1, <1>2, <1>3, <1>4, <1>5, <1>6 DEF DepthInv, TreesInv

\* Everything a row may keep.
Keeps ==
  {"nothing", "insert", "select", "create", "delete", "explain", "table_name", "name list", "name",
   "value list", "value", "column list", "column name", "column"}

LEMMA RowsKeepWhatIsKnown == \A row \in Rows \cup Omissions : row.keep \in Keeps
<1>1. \A keep \in Keeps : \A from, token, to : Row(from, token, keep, to).keep \in Keeps
  BY DEF Row
<1>8. \A keep \in Keeps : \A from, to : Left(from, keep, to).keep \in Keeps
  BY DEF Left
<1>2. /\ "nothing" \in Keeps /\ "table_name" \in Keeps /\ "name list" \in Keeps /\ "name" \in Keeps
      /\ "value list" \in Keeps /\ "value" \in Keeps /\ "column list" \in Keeps
      /\ "column name" \in Keeps /\ "column" \in Keeps
      /\ "insert" \in Keeps /\ "select" \in Keeps /\ "create" \in Keeps
      /\ "delete" \in Keeps /\ "explain" \in Keeps
  BY DEF Keeps
<1>3. \A row \in StatementRows : row.keep \in Keeps
  BY <1>1, <1>2, Zenon DEF StatementRows
<1>4. \A row \in InsertRows : row.keep \in Keeps
  BY <1>1, <1>2, Zenon DEF InsertRows
<1>5. \A row \in SelectRows \cup DeleteRows : row.keep \in Keeps
  BY <1>1, <1>2, Zenon DEF SelectRows, DeleteRows
<1>6. \A row \in CreateRows : row.keep \in Keeps
  BY <1>1, <1>2, Zenon DEF CreateRows
<1>7. \A row \in Omissions : row.keep \in Keeps
  BY <1>2, <1>8, Zenon DEF Omissions
<1> QED
  BY <1>3, <1>4, <1>5, <1>6, <1>7 DEF Rows

LEMMA KeepingKeepsWhere ==
  ASSUME NEW keep \in Keeps, "where" \in DOMAIN ast
  PROVE  "where" \in DOMAIN Kept(keep) /\ Kept(keep).where = ast.where
<1>1. CASE keep = "nothing"
  BY <1>1 DEF Kept
<1>2. CASE keep \in {"insert", "select", "create", "delete"}
  BY <1>2 DEF Kept
<1>3. CASE keep = "explain"
  BY <1>3 DEF Kept
<1>4. CASE keep = "table_name"
  BY <1>4 DEF Kept
<1>5. CASE keep = "name list"
  BY <1>5 DEF Kept
<1>6. CASE keep = "name"
  BY <1>6 DEF Kept
<1>7. CASE keep = "value list"
  BY <1>7 DEF Kept
<1>8. CASE keep = "value"
  BY <1>8 DEF Kept
<1>9. CASE keep = "column list"
  BY <1>9 DEF Kept
<1>10. CASE keep = "column name"
  BY <1>10 DEF Kept
<1>11. CASE keep = "column"
  BY <1>11 DEF Kept
<1> QED
  BY <1>1, <1>2, <1>3, <1>4, <1>5, <1>6, <1>7, <1>8, <1>9, <1>10, <1>11 DEF Keeps

\* A step outside the WHERE.
LEMMA OutsideWhere ==
  ASSUME StackInv, NEW level, TreesInv(level), UNCHANGED <<frames, returned, nodes>>, current' \in Tokens,
         \E S : frees' \in Seq(S), Len(frees') >= Len(frees), AstInv(level)'
  PROVE  DepthInv'
<1>1. StackInv' /\ FramesLevelled(level)' /\ ReturnedLevelled(level)'
  BY DEF StackInv, FramesLevelled, ReturnedLevelled, TreesInv, Top
<1>2. Levelled(level)' /\ HeapInv(level)'
  BY SameNodes, HeapGrows DEF TreesInv
<1> QED
  BY <1>1, <1>2 DEF DepthInv, TreesInv

LEMMA KeepsAtRows ==
  ASSUME StackInv, NEW level, TreesInv(level), AstInv(level), NEW keep \in Keeps, Keep(keep),
         UNCHANGED <<frames, returned, nodes>>, current' \in Tokens
  PROVE  DepthInv'
<1>1. AstInv(level)'
  BY KeepingKeepsWhere DEF Keep, AstInv
<1>2. (\E S : frees' \in Seq(S)) /\ Len(frees') >= Len(frees)
  <2>1. CASE keep \in InBlock
    <3>1. Allocate(1) /\ Len(frees) \in Nat
      BY <2>1 DEF Keep, TreesInv, HeapInv
    <3> QED
      BY <3>1, PlusSpace DEF TreesInv
  <2>2. CASE keep \notin InBlock
    BY <2>2 DEF Keep, TreesInv, HeapInv
  <2> QED
    BY <2>1, <2>2
<1> QED
  BY <1>1, <1>2, OutsideWhere

LEMMA FreesOutsideWhere ==
  ASSUME StackInv, NEW level, TreesInv(level), AstInv(level)', NEW blocks, FreeAll(blocks),
         UNCHANGED <<frames, returned, nodes>>, current' \in Tokens
  PROVE  DepthInv'
<1>1. (\E S : frees' \in Seq(S)) /\ Len(frees') >= Len(frees)
  BY FreeingKeepsSpace DEF TreesInv, HeapInv
<1> QED
  BY <1>1, OutsideWhere

LEMMA LeavesHeap ==
  ASSUME StackInv, NEW level, TreesInv(level), AstInv(level)',
         UNCHANGED <<frames, returned, nodes, frees>>, current' \in Tokens
  PROVE  DepthInv'
<1>1. (\E S : frees' \in Seq(S)) /\ Len(frees') >= Len(frees)
  BY DEF TreesInv, HeapInv
<1> QED
  BY <1>1, OutsideWhere

LEMMA CallWhereKeeps ==
  ASSUME StackInv, NEW level, TreesInv(level), AstInv(level), CallWhere
  PROVE  DepthInv'
<1> DEFINE callee == Enter("or", 0)
<1>1. frames' = <<callee>> /\ returned' = Running /\ UNCHANGED <<nodes, frees, ast>> /\ advance
  BY DEF CallWhere, Reading, heap
<1>2. callee \in Frame /\ callee.proc = "or" /\ callee.depth = 0 /\ callee.at = "enter"
  BY MaxDepthAssumption, Entered DEF Procs
<1> HIDE DEF callee
<1>3. frames' \in Seq(Frame) /\ Len(frames') = 1 /\ frames'[1] = callee /\ Top' = callee
  BY <1>1, <1>2 DEF Top
<1>4. StackInv'
  <2>1. \A j \in 1..(Len(frames') - 1) : FALSE
    BY <1>3
  <2>2. \A j \in 1..Len(frames') : j <= Deep(frames'[j])
    <3>1. Deep(callee) = 1
      BY <1>2 DEF Deep, Rank
    <3> QED
      BY <1>3, <3>1
  <2> QED
    BY <1>1, <1>2, <1>3, <2>1, <2>2 DEF StackInv, Calling
<1>5. FramesLevelled(level)' /\ ReturnedLevelled(level)'
  BY <1>1, <1>2, <1>3 DEF FramesLevelled, ReturnedLevelled, FrameLevelled, InComparison
<1>6. Levelled(level)' /\ HeapInv(level)' /\ AstInv(level)' /\ current' \in Tokens
  BY <1>1, SameNodes, NextToken DEF TreesInv, HeapInv, AstInv
<1> QED
  BY <1>4, <1>5, <1>6 DEF DepthInv, TreesInv

LEMMA TakeWhereKeeps ==
  ASSUME StackInv, NEW level, TreesInv(level), AstInv(level), TakeWhere
  PROVE  DepthInv'
<1>1. /\ frames = <<>> /\ returned # Running /\ ast' = [ast EXCEPT !.where = returned]
      /\ returned' = Running /\ Stay /\ UNCHANGED <<frames, nodes, frees>>
  BY DEF TakeWhere, heap
<1>2. AstInv(level)'
  BY <1>1 DEF AstInv, TreesInv, ReturnedLevelled, NoHigher
<1>3. StackInv' /\ FramesLevelled(level)' /\ ReturnedLevelled(level)'
  BY <1>1, EmptySeq DEF StackInv, FramesLevelled, ReturnedLevelled
<1>4. Levelled(level)' /\ HeapInv(level)' /\ current' \in Tokens
  BY <1>1, SameNodes, NextToken DEF TreesInv, HeapInv
<1> QED
  BY <1>2, <1>3, <1>4 DEF DepthInv, TreesInv

LEMMA DepthStepInv == DepthInv /\ [ParserNext]_parser_vars => DepthInv'
<1> SUFFICES ASSUME DepthInv, [ParserNext]_parser_vars PROVE DepthInv'
  OBVIOUS
<1>1. PICK level : StackInv /\ TreesInv(level) /\ AstInv(level)
  BY DEF DepthInv
<1>2. ASSUME NEW row \in Rows, Consume(row) PROVE DepthInv'
  <2>1. /\ Keep(row.keep) /\ row.keep \in Keeps /\ UNCHANGED <<frames, returned, nodes>>
        /\ current' \in Tokens
    BY <1>1, <1>2, RowsKeepWhatIsKnown, NextToken DEF Consume, TreesInv
  <2> QED
    BY <1>1, <2>1, KeepsAtRows
<1>3. ASSUME NEW row \in Omissions, Omit(row) PROVE DepthInv'
  <2>1. /\ Keep(row.keep) /\ row.keep \in Keeps /\ UNCHANGED <<frames, returned, nodes>>
        /\ current' \in Tokens
    BY <1>1, <1>3, RowsKeepWhatIsKnown, NextToken DEF Omit, TreesInv
  <2> QED
    BY <1>1, <2>1, KeepsAtRows
<1>4. CASE OmitStatement \/ EndWithSemicolon \/ CheckEnd
  <2>1. UNCHANGED <<frames, returned, nodes, frees, ast>> /\ current' \in Tokens
    BY <1>1, <1>4, NextToken DEF OmitStatement, EndWithSemicolon, CheckEnd, heap, TreesInv
  <2> QED
    BY <1>1, <2>1, LeavesHeap DEF AstInv
<1>5. CASE Refuse
  <2>1. /\ UNCHANGED <<frames, returned, nodes, ast>> /\ current' \in Tokens
        /\ \E blocks : FreeAll(blocks)
    BY <1>1, <1>5, NextToken DEF Refuse, TreesInv
  <2> QED
    BY <1>1, <2>1, FreesOutsideWhere DEF AstInv
<1>6. CASE CallWhere \/ TakeWhere
  BY <1>1, <1>6, CallWhereKeeps, TakeWhereKeeps
<1>7. CASE WhereStep
  <2>1. PICK wider : StackInv' /\ Widens(level, wider) /\ TreesInv(wider)'
    BY <1>1, <1>7, WhereStepKeeps DEF WhereStep, StepKept
  <2>2. AstInv(wider)'
    BY <1>1, <1>7, <2>1 DEF WhereStep, AstInv, Widens
  <2> QED
    BY <2>1, <2>2 DEF DepthInv
<1>8. CASE ast_free
  <2>1. /\ UNCHANGED <<frames, returned, nodes>> /\ current' \in Tokens /\ ast' = EmptyAst
        /\ \E blocks : FreeAll(blocks)
    BY <1>1, <1>8, NextToken DEF ast_free, TreesInv
  <2>2. AstInv(level)'
    BY <2>1 DEF AstInv, EmptyAst, NULL
  <2> QED
    BY <1>1, <2>1, <2>2, FreesOutsideWhere
<1>9. CASE UNCHANGED parser_vars
  <2>1. UNCHANGED <<frames, returned, nodes, frees, ast>> /\ current' \in Tokens
    BY <1>1, <1>9 DEF parser_vars, vars, TreesInv
  <2> QED
    BY <1>1, <2>1, LeavesHeap DEF AstInv
<1> QED
  BY <1>2, <1>3, <1>4, <1>5, <1>6, <1>7, <1>8, <1>9 DEF ParserNext

-----------------------------------------------------------------------------
\* The height of a tree

ChildrenOf(id) == ToSet(nodes[id].children)
HeightAbove(h, id) == 1 + Max({h[c] : c \in ChildrenOf(id)} \cup {0})
HeightOn(h, ids) == h = [id \in ids |-> HeightAbove(h, id)]

LEMMA ChildrenBelow ==
  ASSUME NEW level, Levelled(level), NEW id \in DOMAIN level, NEW c \in ChildrenOf(id)
  PROVE  c \in DOMAIN level /\ level[c] \in Nat /\ level[id] \in Nat /\ level[c] < level[id]
<1>1. nodes[id].children \in Seq(Nat)
  BY DEF Levelled, Node
<1>2. PICK i \in 1..Len(nodes[id].children) : c = nodes[id].children[i]
  BY <1>1 DEF ChildrenOf, ToSet
<1>3. c \in DOMAIN level /\ level[c] < level[id]
  BY <1>2 DEF Levelled
<1> QED
  BY <1>3 DEF Levelled

\* Heights are well defined: from the nodes of the lowest levels up.
LEMMA HeightsExist ==
  ASSUME NEW level, Levelled(level)
  PROVE  \E h : HeightOn(h, DOMAIN nodes)
<1> DEFINE Within(n) == {id \in DOMAIN level : level[id] <= n}
           Good == {n \in Nat : \E h : HeightOn(h, Within(n))}
<1>1. 0 \in Good
  <2>1. Within(0) = {}
    BY DEF Levelled
  <2>2. HeightOn([id \in {} |-> 0], {})
    BY DEF HeightOn
  <2> QED
    BY <2>1, <2>2
<1>2. ASSUME NEW n \in Good PROVE n + 1 \in Good
  <2>1. PICK h : HeightOn(h, Within(n))
    OBVIOUS
  <2> DEFINE taller == [id \in Within(n + 1) |-> HeightAbove(h, id)]
  <2>2. ASSUME NEW id \in Within(n) PROVE taller[id] = h[id]
    <3>1. id \in Within(n + 1)
      BY DEF Levelled
    <3>2. h[id] = HeightAbove(h, id)
      BY <2>1, <2>2 DEF HeightOn
    <3> QED
      BY <3>1, <3>2
  <2>3. ASSUME NEW id \in Within(n + 1) PROVE HeightAbove(taller, id) = HeightAbove(h, id)
    <3>1. ASSUME NEW c \in ChildrenOf(id) PROVE c \in Within(n)
      BY <2>3, ChildrenBelow
    <3>2. {taller[c] : c \in ChildrenOf(id)} = {h[c] : c \in ChildrenOf(id)}
      <4> HIDE DEF taller, Within
      <4> QED
        BY <2>2, <3>1
    <3> QED
      BY <3>2 DEF HeightAbove
  <2>4. HeightOn(taller, Within(n + 1))
    BY <2>3 DEF HeightOn
  <2> QED
    BY <2>4
<1>3. Good = Nat
  <2> HIDE DEF Good
  <2>1. Good \in SUBSET Nat
    BY DEF Good
  <2> QED
    BY <1>1, <1>2, <2>1, InductionOver
<1>4. Tallest \in Nat
  BY MaxDepthAssumption DEF Tallest
<1>5. Within(Tallest) = DOMAIN nodes
  <2>1. DOMAIN nodes = DOMAIN level /\ \A id \in DOMAIN level : level[id] \in 1..Tallest
    BY DEF Levelled
  <2> QED
    BY <1>4, <2>1
<1> QED
  BY <1>3, <1>4, <1>5

LEMMA MaxUpTo ==
  ASSUME NEW T \in SUBSET Nat, T # {}, NEW bound \in Nat, \A k \in T : k <= bound
  PROVE  Max(T) \in Nat /\ Max(T) <= bound
<1>1. \E m \in T : \A k \in T : m >= k
  BY GreatestOf
<1>2. Max(T) \in T
  BY <1>1 DEF Max
<1> QED
  BY <1>2

\* A node is no higher than its level.
LEMMA HeightWithinLevel ==
  ASSUME NEW level, Levelled(level), NEW h, HeightOn(h, DOMAIN nodes)
  PROVE  \A id \in DOMAIN nodes : h[id] \in Nat /\ h[id] <= level[id]
<1> DEFINE Good == {n \in Nat : \A id \in DOMAIN level : level[id] <= n => h[id] \in Nat /\ h[id] <= level[id]}
<1>1. DOMAIN nodes = DOMAIN level /\ \A id \in DOMAIN level : level[id] \in 1..Tallest
  BY DEF Levelled
<1>2. 0 \in Good
  BY <1>1
<1>3. ASSUME NEW n \in Good PROVE n + 1 \in Good
  <2>1. ASSUME NEW id \in DOMAIN level, level[id] <= n + 1 PROVE h[id] \in Nat /\ h[id] <= level[id]
    <3> DEFINE heights == {h[c] : c \in ChildrenOf(id)} \cup {0}
    <3>1. h[id] = 1 + Max(heights)
      BY <1>1, <2>1 DEF HeightOn, HeightAbove
    <3>2. level[id] - 1 \in Nat
      BY <1>1, <2>1
    <3>3. ASSUME NEW c \in ChildrenOf(id) PROVE h[c] \in Nat /\ h[c] <= level[id] - 1
      <4>1. c \in DOMAIN level /\ level[c] \in Nat /\ level[id] \in Nat /\ level[c] < level[id]
        BY <2>1, <3>3, ChildrenBelow
      <4>2. h[c] \in Nat /\ h[c] <= level[c]
        BY <1>3, <2>1, <4>1
      <4> QED
        BY <4>1, <4>2
    <3>4. heights \in SUBSET Nat /\ heights # {} /\ \A k \in heights : k <= level[id] - 1
      BY <3>2, <3>3
    <3> HIDE DEF heights
    <3>5. Max(heights) \in Nat /\ Max(heights) <= level[id] - 1
      BY <3>2, <3>4, MaxUpTo
    <3> QED
      BY <1>1, <2>1, <3>1, <3>5
  <2> QED
    BY <2>1
<1>4. Good = Nat
  <2> HIDE DEF Good
  <2>1. Good \in SUBSET Nat
    BY DEF Good
  <2> QED
    BY <1>2, <1>3, <2>1, InductionOver
<1>5. Tallest \in Nat
  BY MaxDepthAssumption DEF Tallest
<1> QED
  BY <1>1, <1>4, <1>5

LEMMA HeightIsBounded ==
  ASSUME NEW level, Levelled(level), AstInv(level)
  PROVE  Height(ast.where) <= Tallest
<1> DEFINE height == CHOOSE h : HeightOn(h, DOMAIN nodes)
<1>1. HeightOn(height, DOMAIN nodes)
  BY HeightsExist
<1>2. Height(ast.where) = IF ast.where = NULL THEN 0 ELSE height[ast.where]
  BY DEF Height, HeightOn, HeightAbove, ChildrenOf
<1> HIDE DEF height
<1>3. Tallest \in Nat
  BY MaxDepthAssumption DEF Tallest
<1>4. CASE ast.where = NULL
  BY <1>2, <1>3, <1>4
<1>5. CASE ast.where # NULL
  <2>1. ast.where \in DOMAIN nodes /\ level[ast.where] \in 1..Tallest
    BY <1>5 DEF AstInv, Levelled
  <2>2. height[ast.where] \in Nat /\ height[ast.where] <= level[ast.where]
    BY <1>1, <2>1, HeightWithinLevel
  <2> QED
    BY <1>2, <1>3, <1>5, <2>1, <2>2
<1> QED
  BY <1>4, <1>5

LEMMA DepthInvariance == ParserSpec => []DepthInv
BY DepthInitInv, DepthStepInv, PTL DEF ParserSpec

\* For every limit on nesting and every line: the calls of the parser are at most
\* four to a level of nesting, and the tree of a finished WHERE is no higher than
\* two chains to a level and a comparison.
THEOREM ParserDepthBounded == ParserSpec => []DepthBounded
<1>1. DepthInv => DepthBounded
  <2> SUFFICES ASSUME DepthInv PROVE DepthBounded
    OBVIOUS
  <2>1. PICK level : TreesInv(level) /\ AstInv(level)
    BY DEF DepthInv
  <2>2. Height(ast.where) <= 2 * MaxDepth + 3
    BY <2>1, HeightIsBounded DEF TreesInv, Tallest
  <2>3. Len(frames) <= 4 * MaxDepth + 4
    BY StackIsBounded DEF DepthInv
  <2> QED
    BY <2>2, <2>3 DEF DepthBounded
<1> QED
  BY <1>1, DepthInvariance, PTL

-----------------------------------------------------------------------------
\* The planner: what it makes of a WHERE.

\* Narrowing by a comparison keeps every key whose row satisfies it, and keeps
\* the bounds within three of the keys' range.
LEMMA NarrowKeepsMatches ==
  ASSUME NEW c \in Comparison, NEW row \in TableRows, Satisfies(row, c),
         NEW lo \in 0..(KeyMax + 3), NEW hi \in -3..KeyMax,
         lo <= row.key, row.key <= hi
  PROVE  NarrowLow(c, lo) <= row.key /\ row.key <= NarrowHigh(c, hi)
<1>1. CASE ~OnKey(c)
  BY <1>1 DEF NarrowLow, NarrowHigh
<1>2. CASE OnKey(c)
  <2>1. PICK v \in Int : /\ KeyValue(c) = clamp_constant(v)
                         /\ Compare(KeyOp(c), row.key, v)
    <3>1. CASE IsKey(c.left)
      BY <1>2, <3>1, WidthAssumption DEF OnKey, IsKey, IsConstant, Comparison, BoundOperand, Column, Constant, Constants,
                        CompareOp, KeyValue, KeyOp, Satisfies, Value
    <3>2. CASE ~IsKey(c.left)
      BY <1>2, <3>2, WidthAssumption
        DEF OnKey, IsKey, IsConstant, Comparison, BoundOperand, Column, Constant, Constants,
            CompareOp, KeyValue, KeyOp, flip, Satisfies, Value, Compare, TableRows
    <3> QED
      BY <3>1, <3>2
  <2>2. KeyValue(c) \in -2..(KeyMax + 2) /\ KeyMax \in Nat /\ IntMax \in Nat /\ IntMax >= KeyMax + 3
    BY <2>1, WidthAssumption DEF clamp_constant
  <2>3. Wrap(KeyValue(c) + 1) = KeyValue(c) + 1 /\ Wrap(KeyValue(c) - 1) = KeyValue(c) - 1
    BY <2>2 DEF Wrap
  <2>4. row.key \in 0..KeyMax
    BY DEF TableRows
  <2>5. KeyOp(c) \in CompareOp
    BY DEF KeyOp, flip, Comparison, CompareOp
  <2> QED
    BY <1>2, <2>1, <2>2, <2>3, <2>4, <2>5
      DEF NarrowLow, NarrowHigh, Raised, Lowered, Compare, clamp_constant, CompareOp
<1> QED
  BY <1>1, <1>2

LEMMA NarrowKeepsType ==
  ASSUME NEW c \in Comparison, NEW lo \in 0..(KeyMax + 3), NEW hi \in -3..KeyMax
  PROVE  NarrowLow(c, lo) \in 0..(KeyMax + 3) /\ NarrowHigh(c, hi) \in -3..KeyMax
<1>1. CASE ~OnKey(c)
  BY <1>1 DEF NarrowLow, NarrowHigh
<1>2. CASE OnKey(c)
  <2>1. KeyValue(c) \in -2..(KeyMax + 2) /\ KeyMax \in Nat /\ IntMax \in Nat /\ IntMax >= KeyMax + 3
    <3>1. c.right.integer \in Int /\ c.left.integer \in Int
      BY WidthAssumption DEF Comparison, BoundOperand, Column, Constant, Constants
    <3> QED
      BY <3>1, WidthAssumption DEF KeyValue, clamp_constant
  <2>2. Wrap(KeyValue(c) + 1) = KeyValue(c) + 1 /\ Wrap(KeyValue(c) - 1) = KeyValue(c) - 1
    BY <2>1 DEF Wrap
  <2> QED
    BY <1>2, <2>1, <2>2 DEF NarrowLow, NarrowHigh, Raised, Lowered
<1> QED
  BY <1>1, <1>2

\* Among the rows the WHERE accepts none is outside the range, and the nodes
\* still to be looked at are conjuncts: each holds for all of them.
Narrowed ==
  /\ \A row \in TableRows, holding \in SUBSET DOMAIN where :
       Agrees(holding, row) /\ (where # <<>> => 1 \in holding) =>
         /\ low <= row.key /\ row.key <= high
         /\ \A i \in DOMAIN todo : todo[i] \in holding
  /\ plan # NoPlan => todo = <<>> /\ plan = PlanFor(low, high)

PlannerInv == PlannerTypeOK /\ Narrowed

LEMMA PlannerInitInv == PlannerInit => PlannerInv
<1> SUFFICES ASSUME PlannerInit PROVE PlannerInv
  OBVIOUS
<1>1. KeyMax \in Nat
  BY WidthAssumption
<1>2. PlannerTypeOK
  <2>1. IsWhere(where)
    BY WheresAssumption DEF PlannerInit
  <2>2. todo \in Seq(DOMAIN where)
    <3>1. where \in Seq(WhereNode)
      BY <2>1 DEF IsWhere
    <3>2. where # <<>> => 1 \in DOMAIN where
      BY <3>1
    <3>3. CASE where = <<>>
      BY <3>3 DEF PlannerInit
    <3>4. CASE where # <<>>
      <4>1. todo = <<1>> /\ 1 \in DOMAIN where
        BY <3>2, <3>4 DEF PlannerInit
      <4> QED
        BY <4>1
    <3> QED
      BY <3>3, <3>4
  <2> QED
    BY <1>1, <2>1, <2>2 DEF PlannerInit, PlannerTypeOK
<1>3. Narrowed
  <2>1. ASSUME NEW row \in TableRows, NEW holding \in SUBSET DOMAIN where,
               where # <<>> => 1 \in holding
        PROVE  /\ low <= row.key /\ row.key <= high
               /\ \A i \in DOMAIN todo : todo[i] \in holding
    BY <1>1, <2>1 DEF PlannerInit, TableRows
  <2> QED
    BY <2>1 DEF PlannerInit, Narrowed
<1> QED
  BY <1>2, <1>3 DEF PlannerInv

\* The node narrow is called on next, and what is left to do after it.
LEMMA NextNode ==
  ASSUME PlannerTypeOK, todo # <<>>
  PROVE  /\ Head(todo) \in DOMAIN where /\ NodeToDo \in WhereNode
         /\ Tail(todo) \in Seq(DOMAIN where)
         /\ 1 \in DOMAIN todo /\ Head(todo) = todo[1]
         /\ \A i \in DOMAIN Tail(todo) : i + 1 \in DOMAIN todo /\ Tail(todo)[i] = todo[i + 1]
<1>1. todo \in Seq(DOMAIN where) /\ Head(todo) \in DOMAIN where
  BY DEF PlannerTypeOK
<1>2. NodeToDo \in WhereNode
  BY <1>1 DEF PlannerTypeOK, IsWhere, NodeToDo
<1> QED
  BY <1>1, <1>2

LEMMA PlannerStepInv == PlannerInv /\ [PlannerNext]_planner_vars => PlannerInv'
<1> SUFFICES ASSUME PlannerInv, [PlannerNext]_planner_vars PROVE PlannerInv'
  OBVIOUS
<1> USE DEF PlannerInv
<1>1. CASE NarrowByComparison
  <2>1. todo # <<>> /\ NodeToDo.kind = "comparison" /\ where' = where /\ plan' = plan
    BY <1>1 DEF NarrowByComparison
  <2>2. NodeToDo.comparison \in Comparison
    BY <2>1, NextNode DEF WhereNode
  <2>3. plan = NoPlan
    BY <2>1 DEF Narrowed
  <2>4. PlannerTypeOK'
    BY <1>1, <2>1, <2>2, NextNode, NarrowKeepsType DEF NarrowByComparison, PlannerTypeOK
  <2>5. ASSUME NEW row \in TableRows, NEW holding \in SUBSET DOMAIN where,
               Agrees(holding, row), where # <<>> => 1 \in holding
        PROVE  /\ low' <= row.key /\ row.key <= high'
               /\ \A i \in DOMAIN todo' : todo'[i] \in holding
    <3>1. low <= row.key /\ row.key <= high /\ \A i \in DOMAIN todo : todo[i] \in holding
      BY <2>5 DEF Narrowed
    <3>2. Head(todo) \in holding
      BY <2>1, <3>1, NextNode
    <3>3. Satisfies(row, NodeToDo.comparison)
      BY <2>1, <2>5, <3>2, NextNode DEF Agrees, NodeToDo
    <3>4. low' <= row.key /\ row.key <= high'
      BY <1>1, <2>2, <3>1, <3>3, NarrowKeepsMatches DEF NarrowByComparison, PlannerTypeOK
    <3>5. \A i \in DOMAIN todo' : todo'[i] \in holding
      BY <1>1, <2>1, <3>1, NextNode DEF NarrowByComparison
    <3> QED
      BY <3>4, <3>5
  <2> QED
    BY <2>1, <2>3, <2>4, <2>5 DEF Narrowed, Agrees
<1>2. CASE EnterAnd
  <2>1. todo # <<>> /\ NodeToDo.kind = "and" /\ UNCHANGED <<where, low, high, plan>>
    BY <1>2 DEF EnterAnd, Conjoins
  <2>2. plan = NoPlan
    BY <2>1 DEF Narrowed
  <2>3. NodeToDo.children \in Seq(DOMAIN where)
    <3>1. /\ Head(todo) \in DOMAIN where /\ where \in Seq(WhereNode)
          /\ NodeToDo.children \in Seq((Head(todo) + 1)..Len(where))
      BY <2>1, NextNode DEF PlannerTypeOK, IsWhere, NodeToDo
    <3>2. (Head(todo) + 1)..Len(where) \subseteq DOMAIN where
      BY <3>1
    <3> QED
      BY <3>1, <3>2
  <2>4. todo' \in Seq(DOMAIN where)
    BY <1>2, <2>1, <2>3, NextNode DEF EnterAnd
  <2>5. PlannerTypeOK'
    BY <2>1, <2>4 DEF PlannerTypeOK
  <2>6. ASSUME NEW row \in TableRows, NEW holding \in SUBSET DOMAIN where,
               Agrees(holding, row), where # <<>> => 1 \in holding
        PROVE  /\ low <= row.key /\ row.key <= high
               /\ \A i \in DOMAIN todo' : todo'[i] \in holding
    <3>1. low <= row.key /\ row.key <= high /\ \A i \in DOMAIN todo : todo[i] \in holding
      BY <2>6 DEF Narrowed
    <3>2. Head(todo) \in holding
      BY <2>1, <3>1, NextNode
    <3>3. \A i \in DOMAIN NodeToDo.children : NodeToDo.children[i] \in holding
      BY <2>1, <2>6, <3>2, NextNode DEF Agrees, NodeToDo
    <3>4. todo' = NodeToDo.children \o Tail(todo)
      BY <1>2 DEF EnterAnd
    <3>5. \A i \in DOMAIN Tail(todo) : Tail(todo)[i] \in holding
      BY <2>1, <3>1, NextNode
    <3>6. \A i \in DOMAIN todo' : todo'[i] \in holding
      <4>1. /\ NodeToDo.children \in Seq(DOMAIN where) /\ Tail(todo) \in Seq(DOMAIN where)
        BY <2>1, <2>3, NextNode
      <4>2. ASSUME NEW i \in DOMAIN todo'
            PROVE  \/ i \in DOMAIN NodeToDo.children /\ todo'[i] = NodeToDo.children[i]
                   \/ /\ i - Len(NodeToDo.children) \in DOMAIN Tail(todo)
                      /\ todo'[i] = Tail(todo)[i - Len(NodeToDo.children)]
        BY <3>4, <4>1
      <4> QED
        BY <3>3, <3>5, <4>2
    <3> QED
      BY <3>1, <3>6
  <2> QED
    BY <2>1, <2>2, <2>5, <2>6 DEF Narrowed, Agrees
<1>3. CASE PassOver
  <2>1. todo # <<>> /\ todo' = Tail(todo) /\ UNCHANGED <<where, low, high, plan>>
    BY <1>3 DEF PassOver
  <2>2. PlannerTypeOK'
    BY <2>1, NextNode DEF PlannerTypeOK
  <2>3. plan = NoPlan
    BY <2>1 DEF Narrowed
  <2>4. \A holding : (\A i \in DOMAIN todo : todo[i] \in holding)
                     => \A i \in DOMAIN todo' : todo'[i] \in holding
    BY <2>1, NextNode
  <2>5. \A row, holding : Agrees(holding, row)' <=> Agrees(holding, row)
    BY <2>1 DEF Agrees
  <2>6. Narrowed'
    BY <2>1, <2>3, <2>4, <2>5 DEF Narrowed
  <2> QED
    BY <2>2, <2>6
<1>4. CASE ChoosePlan
  <2>1. todo = <<>> /\ plan' = PlanFor(low, high) /\ UNCHANGED <<where, todo, low, high>>
    BY <1>4 DEF ChoosePlan
  <2>2. plan'.low \in 0..KeyMax /\ plan'.high \in 0..KeyMax
    BY <2>1, WidthAssumption DEF PlannerTypeOK, PlanFor
  <2>3. PlannerTypeOK'
    BY <2>1, <2>2 DEF PlannerTypeOK
  <2> QED
    BY <2>1, <2>3 DEF Narrowed, Agrees
<1>5. CASE UNCHANGED planner_vars
  BY <1>5 DEF planner_vars, PlannerTypeOK, Narrowed, Agrees
<1> QED
  BY <1>1, <1>2, <1>3, <1>4, <1>5 DEF PlannerNext

LEMMA Inductive == PlannerSpec => []PlannerInv
<1>1. PlannerInit => PlannerInv
  BY PlannerInitInv
<1>2. PlannerInv /\ [PlannerNext]_planner_vars => PlannerInv'
  BY PlannerStepInv
<1> QED
  BY <1>1, <1>2, PTL DEF PlannerSpec

\* The bounds never leave the 64 bits, and a stored bound is a key.
THEOREM PlannerTypeCorrect == PlannerSpec => []PlannerTypeOK
<1>1. PlannerInv => PlannerTypeOK
  BY DEF PlannerInv
<1> QED
  BY <1>1, Inductive, PTL

\* Whatever the WHERE, its plan has every matching row read.
THEOREM PlanSound == PlannerSpec => []PlanCoversMatches
<1>1. PlannerInv => PlanCoversMatches
  <2> SUFFICES ASSUME PlannerInv, NEW row \in TableRows, Accepts(row)
               PROVE  /\ low <= row.key /\ row.key <= high
                      /\ plan # NoPlan => Covers(plan, row.key)
    BY DEF PlanCoversMatches
  <2>1. low <= row.key /\ row.key <= high
    BY DEF PlannerInv, Narrowed, Accepts
  <2>2. plan # NoPlan => plan = PlanFor(low, high)
    BY DEF PlannerInv, Narrowed
  <2>3. PlanFor(low, high).kind # "EMPTY"
    BY <2>1, WidthAssumption DEF PlanFor, PlannerInv, PlannerTypeOK, TableRows
  <2>4. Covers(PlanFor(low, high), row.key)
    BY <2>1, <2>3, WidthAssumption DEF PlanFor, Covers, PlannerInv, PlannerTypeOK, TableRows
  <2> QED
    BY <2>1, <2>2, <2>4
<1> QED
  BY <1>1, Inductive, PTL

-----------------------------------------------------------------------------
\* Narrowing by a comparison of the key with a constant, other than !=, loses
\* nothing: a key still in the range satisfies it, and was in the range before.
LEMMA NarrowIsExact ==
  ASSUME NEW c \in Comparison, NEW row \in TableRows, OnKey(c), c.op # "!=",
         NEW lo \in 0..(KeyMax + 3), NEW hi \in -3..KeyMax,
         NarrowLow(c, lo) <= row.key, row.key <= NarrowHigh(c, hi)
  PROVE  Satisfies(row, c) /\ lo <= row.key /\ row.key <= hi
<1>1. PICK v \in Int : /\ KeyValue(c) = clamp_constant(v)
                       /\ Satisfies(row, c) <=> Compare(KeyOp(c), row.key, v)
  <2>1. CASE IsKey(c.left)
    BY <2>1, WidthAssumption
      DEF OnKey, IsKey, IsConstant, Comparison, BoundOperand, Column, Constant, Constants,
          CompareOp, KeyValue, KeyOp, Satisfies, Value
  <2>2. CASE ~IsKey(c.left)
    BY <2>2, WidthAssumption
      DEF OnKey, IsKey, IsConstant, Comparison, BoundOperand, Column, Constant, Constants,
          CompareOp, KeyValue, KeyOp, flip, Satisfies, Value, Compare, TableRows
  <2> QED
    BY <2>1, <2>2
<1>2. KeyValue(c) \in -2..(KeyMax + 2) /\ KeyMax \in Nat /\ IntMax \in Nat /\ IntMax >= KeyMax + 3
  BY <1>1, WidthAssumption DEF clamp_constant
<1>3. Wrap(KeyValue(c) + 1) = KeyValue(c) + 1 /\ Wrap(KeyValue(c) - 1) = KeyValue(c) - 1
  BY <1>2 DEF Wrap
<1>4. row.key \in 0..KeyMax
  BY DEF TableRows
<1>5. KeyOp(c) \in CompareOp \ {"!="}
  BY DEF KeyOp, flip, Comparison, CompareOp
<1> QED
  BY <1>1, <1>2, <1>3, <1>4, <1>5
    DEF NarrowLow, NarrowHigh, Raised, Lowered, Compare, clamp_constant, CompareOp

\* In a conjunction of such comparisons the nodes looked at so far say no more
\* than the range does: a row in the range, for which those still to be looked
\* at hold, is accepted.
Exact ==
  IsConjunction =>
    \A row \in TableRows, holding \in SUBSET DOMAIN where :
      /\ Agrees(holding, row)
      /\ low <= row.key /\ row.key <= high
      /\ \A i \in DOMAIN todo : todo[i] \in holding
      => (where # <<>> => 1 \in holding)

LEMMA StepExact == PlannerInv /\ Exact /\ [PlannerNext]_planner_vars => Exact'
<1> SUFFICES ASSUME PlannerInv, Exact, [PlannerNext]_planner_vars, IsConjunction',
                    NEW row \in TableRows, NEW holding \in SUBSET DOMAIN where',
                    Agrees(holding, row)', low' <= row.key, row.key <= high',
                    \A i \in DOMAIN todo' : todo'[i] \in holding, where' # <<>>
             PROVE  1 \in holding
  BY DEF Exact
<1>1. where' = where
  BY DEF PlannerNext, planner_vars, NarrowByComparison, EnterAnd, PassOver, ChoosePlan
<1>2. IsConjunction /\ Agrees(holding, row) /\ where # <<>> /\ holding \in SUBSET DOMAIN where
  BY <1>1 DEF IsConjunction, Agrees
<1>3. SUFFICES /\ low <= row.key /\ row.key <= high
               /\ \A i \in DOMAIN todo : todo[i] \in holding
  BY <1>2 DEF Exact
<1>4. CASE NarrowByComparison
  <2>1. todo # <<>> /\ NodeToDo.kind = "comparison" /\ todo' = Tail(todo)
    BY <1>4 DEF NarrowByComparison
  <2>2. /\ Head(todo) \in DOMAIN where /\ NodeToDo \in WhereNode /\ NodeToDo = where[Head(todo)]
    BY <2>1, NextNode DEF PlannerInv, NodeToDo
  <2>3. NodeToDo.comparison \in Comparison /\ OnKey(NodeToDo.comparison) /\ NodeToDo.comparison.op # "!="
    BY <1>2, <2>1, <2>2 DEF WhereNode, IsConjunction
  <2>4. Satisfies(row, NodeToDo.comparison) /\ low <= row.key /\ row.key <= high
    BY <1>4, <2>3, NarrowIsExact DEF NarrowByComparison, PlannerInv, PlannerTypeOK
  <2>5. Head(todo) \in holding
    BY <1>2, <2>1, <2>2, <2>4 DEF Agrees
  <2>6. ASSUME NEW i \in DOMAIN todo PROVE todo[i] \in holding
    <3>1. todo \in Seq(DOMAIN where)
      BY DEF PlannerInv, PlannerTypeOK
    <3>2. i = 1 \/ (i - 1 \in DOMAIN Tail(todo) /\ Tail(todo)[i - 1] = todo[i])
      BY <2>1, <3>1
    <3> QED
      BY <2>1, <2>5, <3>1, <3>2
  <2> QED
    BY <2>4, <2>6
<1>5. CASE EnterAnd
  <2>1. todo # <<>> /\ NodeToDo.kind = "and" /\ low' = low /\ high' = high
        /\ todo' = NodeToDo.children \o Tail(todo)
    BY <1>5 DEF EnterAnd, Conjoins
  <2>2. /\ Head(todo) \in DOMAIN where /\ NodeToDo = where[Head(todo)]
        /\ Tail(todo) \in Seq(DOMAIN where) /\ todo \in Seq(DOMAIN where)
    BY <2>1, NextNode DEF PlannerInv, NodeToDo, PlannerTypeOK
  <2>3. NodeToDo.children \in Seq((Head(todo) + 1)..Len(where))
    BY <2>1, <2>2 DEF PlannerInv, PlannerTypeOK, IsWhere
  <2>4. ASSUME NEW i \in DOMAIN NodeToDo.children PROVE NodeToDo.children[i] \in holding
    <3>1. i \in DOMAIN todo' /\ todo'[i] = NodeToDo.children[i]
      BY <2>1, <2>2, <2>3
    <3> QED
      BY <3>1
  <2>5. Head(todo) \in holding
    BY <1>2, <2>1, <2>2, <2>4 DEF Agrees
  <2>6. ASSUME NEW i \in DOMAIN todo PROVE todo[i] \in holding
    <3>1. CASE i = 1
      BY <2>1, <2>2, <2>5, <3>1
    <3>2. CASE i # 1
      <4> DEFINE j == Len(NodeToDo.children) + i - 1
      <4>1. i - 1 \in DOMAIN Tail(todo) /\ Tail(todo)[i - 1] = todo[i]
        BY <2>1, <2>2, <3>2
      <4>2. /\ NodeToDo.children \in Seq(Nat) /\ Tail(todo) \in Seq(DOMAIN where)
            /\ Len(NodeToDo.children) \in Nat
        BY <2>2, <2>3
      <4>3. \A s, t : s \in Seq(Nat) /\ t \in Seq(DOMAIN where) =>
              \A k \in DOMAIN t : /\ Len(s) + k \in DOMAIN (s \o t)
                                  /\ (s \o t)[Len(s) + k] = t[k]
        OBVIOUS
      <4>4. j = Len(NodeToDo.children) + (i - 1)
        BY <4>2, <2>2
      <4>5. j \in DOMAIN todo' /\ todo'[j] = todo[i]
        BY <2>1, <4>1, <4>2, <4>3, <4>4
      <4> QED
        BY <4>5
    <3> QED
      BY <3>1, <3>2
  <2> QED
    BY <2>1, <2>6
<1>6. CASE PassOver
  <2>1. todo # <<>> /\ NodeToDo.kind # "comparison" /\ NodeToDo.kind # "and"
    BY <1>6 DEF PassOver, Conjoins
  <2> QED
    BY <1>2, <2>1, NextNode DEF PlannerInv, NodeToDo, IsConjunction
<1>7. CASE ChoosePlan
  BY <1>7 DEF ChoosePlan
<1>8. CASE UNCHANGED planner_vars
  BY <1>8 DEF planner_vars
<1> QED
  BY <1>4, <1>5, <1>6, <1>7, <1>8 DEF PlannerNext

\* For every row some set of nodes agrees with a conjunction: the largest of
\* those whose comparisons are satisfied and whose ANDs come with their
\* children.
LEMMA SomeAgree ==
  ASSUME IsConjunction, NEW row \in TableRows
  PROVE  \E holding \in SUBSET DOMAIN where : Agrees(holding, row)
<1> DEFINE Closed(H) ==
             \A n \in H : /\ where[n].kind = "comparison" => Satisfies(row, where[n].comparison)
                          /\ where[n].kind = "and" =>
                               \A i \in DOMAIN where[n].children : where[n].children[i] \in H
           largest == UNION {H \in SUBSET DOMAIN where : Closed(H)}
<1>1. Closed(largest) /\ largest \in SUBSET DOMAIN where
  OBVIOUS
<1>2. ASSUME NEW H \in SUBSET DOMAIN where, Closed(H) PROVE H \subseteq largest
  BY <1>2
<1>3. ASSUME NEW n \in DOMAIN where,
             \/ where[n].kind = "comparison" /\ Satisfies(row, where[n].comparison)
             \/ where[n].kind = "and"
                /\ \A i \in DOMAIN where[n].children : where[n].children[i] \in largest
      PROVE  n \in largest
  <2>1. where[n].kind \in {"comparison", "and"}
    BY <1>3
  <2> HIDE DEF largest
  <2>2. Closed(largest \cup {n})
    BY <1>1, <1>3
  <2>3. largest \cup {n} \in SUBSET DOMAIN where
    BY <1>1
  <2> HIDE DEF Closed
  <2>4. largest \cup {n} \subseteq largest
    BY <1>2, <2>2, <2>3
  <2> QED
    BY <2>4
<1> HIDE DEF largest
<1>4. Agrees(largest, row)
  <2> SUFFICES ASSUME NEW n \in DOMAIN where
               PROVE  /\ where[n].kind = "comparison" =>
                           (n \in largest <=> Satisfies(row, where[n].comparison))
                      /\ where[n].kind = "and" =>
                           (n \in largest <=>
                              \A i \in DOMAIN where[n].children : where[n].children[i] \in largest)
                      /\ where[n].kind \in {"comparison", "and"}
    BY DEF Agrees
  <2> QED
    BY <1>1, <1>3 DEF IsConjunction
<1> QED
  BY <1>1, <1>4

\* A plan's range, from what it was chosen for.
LEMMA PlanIsRange ==
  ASSUME NEW lo \in 0..(KeyMax + 3), NEW hi \in -3..KeyMax
  PROVE  /\ \A k \in 0..KeyMax : Covers(PlanFor(lo, hi), k) <=> (lo <= k /\ k <= hi)
         /\ PlanFor(lo, hi).kind = "EMPTY" <=> lo > hi
         /\ PlanFor(lo, hi).kind = "POINT" <=> lo = hi
<1>1. KeyMax \in Nat
  BY WidthAssumption
<1> QED
  BY <1>1 DEF PlanFor, Covers

\* A conjunction of comparisons of the key is planned exactly, however its ANDs
\* nest: no row of the range is read in vain.
THEOREM PlanExact == PlannerSpec => []ConjunctionsAreExact
<1>1. PlannerInit => Exact
  BY DEF PlannerInit, Exact
<1>2. PlannerInv /\ Exact => ConjunctionsAreExact
  <2> SUFFICES ASSUME PlannerInv, Exact, plan # NoPlan, IsConjunction
               PROVE  LET accepted == {row.key : row \in {r \in TableRows : Accepts(r)}}
                      IN  /\ accepted = {k \in 0..KeyMax : Covers(plan, k)}
                          /\ plan.kind = "EMPTY" <=> (accepted = {})
                          /\ plan.kind = "POINT" <=> (\E k \in accepted : accepted = {k})
    BY DEF ConjunctionsAreExact
  <2> DEFINE accepted == {row.key : row \in {r \in TableRows : Accepts(r)}}
  <2>1. /\ todo = <<>> /\ plan = PlanFor(low, high)
        /\ low \in 0..(KeyMax + 3) /\ high \in -3..KeyMax /\ KeyMax \in Nat
    BY WidthAssumption DEF PlannerInv, PlannerTypeOK, Narrowed
  <2>2. ASSUME NEW row \in TableRows
        PROVE  Accepts(row) <=> low <= row.key /\ row.key <= high
    <3>1. Accepts(row) => low <= row.key /\ row.key <= high
      BY DEF PlannerInv, Narrowed, Accepts
    <3>2. PICK holding \in SUBSET DOMAIN where : Agrees(holding, row)
      BY SomeAgree
    <3>3. low <= row.key /\ row.key <= high => (where # <<>> => 1 \in holding)
      BY <2>1, <3>2 DEF Exact
    <3> QED
      BY <3>1, <3>2, <3>3 DEF Accepts
  <2>3. accepted = {k \in 0..KeyMax : low <= k /\ k <= high}
    <3>1. ASSUME NEW k \in 0..KeyMax PROVE \E row \in TableRows : row.key = k
      <4>1. PICK v \in Others : TRUE
        BY OthersAssumption
      <4>2. [key |-> k, other |-> v] \in TableRows
        BY DEF TableRows
      <4> QED
        BY <4>2
    <3>2. \A row \in TableRows : row.key \in 0..KeyMax
      BY DEF TableRows
    <3> QED
      BY <2>2, <3>1, <3>2
  <2> HIDE DEF accepted
  <2>4. accepted = {k \in 0..KeyMax : Covers(plan, k)}
    BY <2>1, <2>3, PlanIsRange
  <2>5. (low > high) <=> (accepted = {})
    <3>1. low <= high => low \in accepted
      BY <2>1, <2>3
    <3> QED
      BY <2>1, <2>3, <3>1
  <2>6. (low = high) <=> (\E k \in accepted : accepted = {k})
    <3>1. low = high => accepted = {low} /\ low \in accepted
      BY <2>1, <2>3
    <3>2. low < high => low \in accepted /\ high \in accepted
      BY <2>1, <2>3
    <3> QED
      BY <2>1, <2>5, <3>1, <3>2
  <2>7. plan.kind = "EMPTY" <=> (accepted = {})
    BY <2>1, <2>5, PlanIsRange
  <2>8. plan.kind = "POINT" <=> (\E k \in accepted : accepted = {k})
    BY <2>1, <2>6, PlanIsRange
  <2> QED
    BY <2>4, <2>7, <2>8 DEF accepted
<1> QED
  BY <1>1, <1>2, StepExact, Inductive, PTL DEF PlannerSpec

=============================================================================
