------------------------------ MODULE LoopProofs ------------------------------
(***************************************************************************)
(* What the loops that stand by themselves compute: the searches inside a  *)
(* node and the split of a leaf (modules NodeSearch, LeafSplit and         *)
(* LeafInsertion), for nodes of any size and any keys and leaves of any    *)
(* capacity; and the value of an integer literal (module Literals), for    *)
(* every width of the integers and every number of digits.                 *)
(***************************************************************************)
EXTENDS LeafInsertion, Literals, TLAPS


-----------------------------------------------------------------------------
\* The searches

\* Everything left of the range is below the wanted key, nothing from its end
\* on is; a leaf's search that hits has found the key itself.
Narrowed ==
  /\ \A j \in 1..min_index : keys[j] < key
  /\ \A j \in (max_index + 1)..Len(keys) : keys[j] >= key
  /\ result # -1 =>
       \/ result = min_index /\ min_index = max_index
       \/ result + 1 \in 1..Len(keys) /\ keys[result + 1] = key

SearchInv == TypeOK /\ Narrowed

\* The position before which every key is below `key`, and from which none is,
\* is the lower bound.
LEMMA LowerBoundIs ==
  ASSUME NEW ks \in Seq(Nat), NEW k \in Nat, NEW position \in 1..(Len(ks) + 1),
         \A j \in 1..(position - 1) : ks[j] < k,
         position <= Len(ks) => ks[position] >= k
  PROVE  LowerBound(ks, k) = position
<1> DEFINE S == {j \in DOMAIN ks : ks[j] >= k} \cup {Len(ks) + 1}
<1>1. position \in S
  OBVIOUS
<1>2. \A j \in S : position <= j /\ j \in Nat
  OBVIOUS
<1>3. \A x \in S : (\A y \in S : x <= y) => x = position
  BY <1>1, <1>2
<1> HIDE DEF S
<1>4. (CHOOSE x \in S : \A y \in S : x <= y) = position
  BY <1>1, <1>2, <1>3
<1> QED
  BY <1>4 DEF LowerBound, Min, S

LEMMA SearchInit == Init => SearchInv
  BY NodesAssumption DEF Init, SearchInv, TypeOK, Narrowed

\* The probe lies inside the range while there is one.
LEMMA ProbeInRange ==
  TypeOK /\ Searching =>
    /\ Index \in min_index..(max_index - 1)
    /\ Index + 1 \in 1..Len(keys) /\ Probe \in Nat
<1> SUFFICES ASSUME TypeOK, Searching
             PROVE  /\ Index \in min_index..(max_index - 1)
                    /\ Index + 1 \in 1..Len(keys) /\ Probe \in Nat
  OBVIOUS
<1>1. keys \in Seq(Nat) /\ Len(keys) \in Nat
  BY NodesAssumption DEF TypeOK
<1>2. Index \in min_index..(max_index - 1)
  BY <1>1 DEF TypeOK, Searching, Index
<1>3. Index + 1 \in 1..Len(keys)
  BY <1>1, <1>2 DEF TypeOK
<1> QED
  BY <1>1, <1>2, <1>3 DEF Probe

LEMMA SearchStep == SearchInv /\ [Next]_vars => SearchInv'
<1> SUFFICES ASSUME SearchInv, [Next]_vars PROVE SearchInv'
  OBVIOUS
<1>1. /\ keys \in Seq(Nat) /\ Len(keys) \in Nat /\ key \in Nat
      /\ \A a, b \in 1..Len(keys) : a < b => keys[a] < keys[b]
  BY NodesAssumption, WantedAssumption DEF SearchInv, TypeOK, Ascending
<1>2. CASE Hit
  BY <1>1, <1>2, ProbeInRange DEF SearchInv, TypeOK, Narrowed, Hit, Probe
<1>3. CASE GoLeft
  <2>1. Probe >= key /\ Searching /\ max_index' = Index
    BY <1>1, <1>3, ProbeInRange, WantedAssumption DEF SearchInv, GoLeft, TypeOK
  <2>2. TypeOK'
    BY <1>1, <1>3, <2>1, ProbeInRange DEF SearchInv, TypeOK, GoLeft
  <2>3. ASSUME NEW j \in (Index + 1)..Len(keys) PROVE keys[j] >= key
    <3>1. /\ Index + 1 \in 1..Len(keys) /\ Probe = keys[Index + 1]
          /\ j \in 1..Len(keys) /\ keys[j] \in Nat /\ Probe \in Nat
      BY <1>1, <2>1, ProbeInRange DEF SearchInv, Probe
    <3>2. Index + 1 < j => Probe < keys[j]
      BY <1>1, <3>1
    <3>3. Index + 1 = j \/ Index + 1 < j
      BY <3>1
    <3> QED
      BY <1>1, <2>1, <3>1, <3>2, <3>3
  <2> QED
    BY <1>3, <2>1, <2>2, <2>3 DEF SearchInv, Narrowed, GoLeft, Searching
<1>4. CASE GoRight
  <2>1. Probe < key /\ Searching /\ min_index' = Index + 1
    BY <1>4 DEF GoRight
  <2>2. TypeOK'
    BY <1>1, <1>4, <2>1, ProbeInRange DEF SearchInv, TypeOK, GoRight
  <2>3. ASSUME NEW j \in 1..(Index + 1) PROVE keys[j] < key
    <3>1. /\ Index + 1 \in 1..Len(keys) /\ Probe = keys[Index + 1]
          /\ j \in 1..Len(keys) /\ keys[j] \in Nat /\ Probe \in Nat
      BY <1>1, <2>1, ProbeInRange DEF SearchInv, Probe
    <3>2. j < Index + 1 => keys[j] < Probe
      BY <1>1, <3>1
    <3>3. j = Index + 1 \/ j < Index + 1
      BY <3>1
    <3> QED
      BY <1>1, <2>1, <3>1, <3>2, <3>3
  <2> QED
    BY <1>4, <2>1, <2>2, <2>3 DEF SearchInv, Narrowed, GoRight, Searching
<1>5. CASE Converge
  BY <1>1, <1>5 DEF SearchInv, TypeOK, Narrowed, Converge
<1>6. CASE UNCHANGED vars
  BY <1>6 DEF SearchInv, TypeOK, Narrowed, vars
<1> QED
  BY <1>2, <1>3, <1>4, <1>5, <1>6 DEF Next

LEMMA SearchInvariance == Spec => []SearchInv
  BY SearchInit, SearchStep, PTL DEF Spec

\* The bounds of the range never leave the node.
THEOREM SearchTypeCorrect == Spec => []TypeOK
<1>1. SearchInv => TypeOK
  BY DEF SearchInv
<1> QED
  BY <1>1, SearchInvariance, PTL

\* Whatever a search returns is the lower bound, in a node of any size.
THEOREM SearchCorrect == Spec => []FindsLowerBound
<1>1. SearchInv => FindsLowerBound
  <2> SUFFICES ASSUME SearchInv PROVE FindsLowerBound
    OBVIOUS
  <2>1. /\ keys \in Seq(Nat) /\ Len(keys) \in Nat /\ key \in Nat
        /\ \A a, b \in 1..Len(keys) : a < b => keys[a] < keys[b]
    BY NodesAssumption, WantedAssumption DEF SearchInv, TypeOK, Ascending
  <2>2. ASSUME result # -1 PROVE result + 1 = LowerBound(keys, key)
    <3>1. result \in 0..Len(keys) /\ result + 1 - 1 = result
      BY <2>1, <2>2 DEF SearchInv, TypeOK
    <3>2. CASE result = min_index /\ min_index = max_index
      <4>1. \A j \in 1..result : keys[j] < key
        BY <3>2 DEF SearchInv, Narrowed
      <4>2. result + 1 <= Len(keys) => keys[result + 1] >= key
        BY <2>1, <3>1, <3>2 DEF SearchInv, Narrowed
      <4> QED
        BY <2>1, <3>1, <4>1, <4>2, LowerBoundIs
    <3>3. CASE result + 1 \in 1..Len(keys) /\ keys[result + 1] = key
      <4>1. \A j \in 1..result : keys[j] < key
        BY <2>1, <3>1, <3>3
      <4> QED
        BY <2>1, <3>1, <3>3, <4>1, LowerBoundIs
    <3> QED
      BY <2>2, <3>2, <3>3 DEF SearchInv, Narrowed
  <2>3. Searching => Index + 1 \in DOMAIN keys
    BY <2>1, ProbeInRange DEF SearchInv
  <2> QED
    BY <2>2, <2>3 DEF FindsLowerBound
<1> QED
  BY <1>1, SearchInvariance, PTL

\* No search of a node hangs, and its probes are logarithmic in the node's size.
THEOREM SearchHalves == Spec => RangeHalves
<1> DEFINE Halves == result' = -1 => 2 * (max_index' - min_index') <= max_index - min_index
<1>1. TypeOK /\ [Next]_vars => [Halves]_vars
  <2> SUFFICES ASSUME TypeOK, Next PROVE Halves
    OBVIOUS
  <2>1. min_index \in Nat /\ max_index \in Nat
    BY NodesAssumption DEF TypeOK
  <2>2. CASE Hit
    BY <2>1, <2>2, ProbeInRange DEF Hit
  <2>3. CASE GoLeft
    BY <2>1, <2>3 DEF GoLeft, Index, Searching
  <2>4. CASE GoRight
    BY <2>1, <2>4 DEF GoRight, Index, Searching
  <2>5. CASE Converge
    BY <2>1, <2>5 DEF Converge
  <2> QED
    BY <2>2, <2>3, <2>4, <2>5 DEF Next
<1> QED
  BY <1>1, SearchTypeCorrect, PTL DEF RangeHalves, Spec

-----------------------------------------------------------------------------
\* The split loop

\* The positions from i on hold what belongs there; the slots of the leaf
\* below i, and a slot i that is only read by positions above it, are as they
\* were.
Progress ==
  /\ \A p \in i..capacity : Placed(p) = Belonging(p)
  /\ \A slot \in 0..(capacity - 1) : slot < i => old_node[slot] = slot

SplitInv == SplitTypeOK /\ Progress

LEMMA SplitInitInv == SplitInit => SplitInv
  BY MaxCellsAssumption
  DEF SplitInit, SplitInv, SplitTypeOK, Progress, Placed, Belonging, Cell, Unwritten, total_cells

LEMMA SplitStepInv == SplitInv /\ [SplitNext]_split_vars => SplitInv'
<1> SUFFICES ASSUME SplitInv, [SplitNext]_split_vars PROVE SplitInv'
  OBVIOUS
<1> DEFINE q == i - 1
<1>1. /\ capacity \in 3..MaxCells /\ cell_num \in 0..capacity /\ i \in 0..(capacity + 1)
      /\ left_split_count \in 2..(capacity - 1)
      /\ capacity - left_split_count \in 0..(capacity - 1)
  BY MaxCellsAssumption
  DEF SplitInv, SplitTypeOK, total_cells, left_split_count, right_split_count
<1>2. i > 0 => CellFor(q) = Belonging(q) /\ CellFor(q) \in Cell
  BY <1>1, MaxCellsAssumption
  DEF SplitInv, SplitTypeOK, Progress, CellFor, Source, Belonging, Cell, NewCell
<1>3. CASE PlaceRight
  <2>1. UNCHANGED <<capacity, cell_num, old_node, left_split_count>> /\ i' = q /\ i > 0
    BY <1>3 DEF PlaceRight, left_split_count, right_split_count, total_cells
  <2>2. q - left_split_count \in 0..(capacity - 1)
    BY <1>1, <1>3 DEF PlaceRight
  <2>3. new_node' = [new_node EXCEPT ![q - left_split_count] = CellFor(q)]
    BY <1>3 DEF PlaceRight
  <2>4. SplitTypeOK'
    BY <1>1, <1>2, <2>1, <2>2, <2>3 DEF SplitInv, SplitTypeOK, total_cells
  <2>5. ASSUME NEW p \in q..capacity PROVE Placed(p)' = Belonging(p)
    <3>1. CASE p = q
      BY <1>1, <1>2, <1>3, <2>1, <2>2, <2>3, <3>1 DEF SplitInv, SplitTypeOK, Placed, PlaceRight
    <3>2. CASE p # q
      BY <1>1, <2>1, <2>2, <2>3, <3>2 DEF SplitInv, SplitTypeOK, Placed, Progress
    <3> QED
      BY <3>1, <3>2
  <2> QED
    BY <1>1, <2>1, <2>4, <2>5 DEF SplitInv, Progress, Belonging, Source
<1>4. CASE PlaceLeft
  <2>1. UNCHANGED <<capacity, cell_num, new_node, left_split_count>> /\ i' = q /\ i > 0
    BY <1>4 DEF PlaceLeft, left_split_count, right_split_count, total_cells
  <2>2. q \in 0..(capacity - 1) /\ q < left_split_count
    BY <1>1, <1>4 DEF PlaceLeft
  <2>3. old_node' = [old_node EXCEPT ![q] = CellFor(q)]
    BY <1>4 DEF PlaceLeft
  <2>4. SplitTypeOK'
    BY <1>1, <1>2, <2>1, <2>2, <2>3 DEF SplitInv, SplitTypeOK, total_cells
  <2>5. ASSUME NEW p \in q..capacity PROVE Placed(p)' = Belonging(p)
    <3>1. CASE p = q
      BY <1>1, <1>2, <2>1, <2>2, <2>3, <3>1 DEF SplitInv, SplitTypeOK, Placed
    <3>2. CASE p # q
      BY <1>1, <2>1, <2>2, <2>3, <3>2 DEF SplitInv, SplitTypeOK, Placed, Progress
    <3> QED
      BY <3>1, <3>2
  <2>6. \A slot \in 0..(capacity - 1) : slot < q => old_node'[slot] = slot
    BY <1>1, <2>2, <2>3 DEF SplitInv, SplitTypeOK, Progress
  <2> QED
    BY <1>1, <2>1, <2>4, <2>5, <2>6 DEF SplitInv, Progress, Belonging, Source
<1>5. CASE LeaveInPlace
  <2>1. UNCHANGED <<capacity, cell_num, old_node, new_node, left_split_count>> /\ i' = q /\ i > 0
    BY <1>5 DEF LeaveInPlace, left_split_count, right_split_count, total_cells
  <2>2. SplitTypeOK'
    BY <1>1, <2>1 DEF SplitInv, SplitTypeOK, total_cells
  <2>3. ASSUME NEW p \in q..capacity PROVE Placed(p)' = Belonging(p)
    <3>1. CASE p = q
      BY <1>1, <1>5, <2>1, <3>1 DEF SplitInv, Progress, Placed, Belonging, Source, LeaveInPlace
    <3>2. CASE p # q
      BY <1>1, <2>1, <3>2 DEF SplitInv, Placed, Progress
    <3> QED
      BY <3>1, <3>2
  <2> QED
    BY <1>1, <2>1, <2>2, <2>3 DEF SplitInv, Progress, Belonging, Source
<1>6. CASE UNCHANGED split_vars
  BY <1>6 DEF split_vars, SplitInv, SplitTypeOK, Progress, Placed, Belonging, Source,
              left_split_count, right_split_count, total_cells
<1> QED
  BY <1>3, <1>4, <1>5, <1>6 DEF SplitNext

LEMMA SplitInvariance == SplitSpec => []SplitInv
  BY SplitInitInv, SplitStepInv, PTL DEF SplitSpec

\* Every slot written lies inside its node.
THEOREM SplitTypeCorrect == SplitSpec => []SplitTypeOK
<1>1. SplitInv => SplitTypeOK
  BY DEF SplitInv
<1> QED
  BY <1>1, SplitInvariance, PTL

\* Dividing a full leaf in place loses and duplicates no cell, at any capacity.
THEOREM SplitCorrect == SplitSpec => []EveryCellPlaced
<1>1. SplitInv => EveryCellPlaced
  BY DEF SplitInv, Progress, EveryCellPlaced
<1> QED
  BY <1>1, SplitInvariance, PTL

-----------------------------------------------------------------------------
\* A whole insertion

\* Where the search ended: the keys before the new cell's place are below the
\* new key, the others are above it if the key is not taken.
Located ==
  /\ result \in 0..Len(keys)
  /\ \A j \in 1..result : keys[j] < key
  /\ \A j \in (result + 1)..Len(keys) : keys[j] > key

LEMMA NotTaken ==
  ASSUME SearchInv, Found, ~KeyTaken
  PROVE  Located
<1>1. /\ keys \in Seq(Nat) /\ Len(keys) \in Nat /\ key \in Nat
      /\ \A a, b \in 1..Len(keys) : a < b => keys[a] < keys[b]
  BY NodesAssumption, WantedAssumption DEF SearchInv, TypeOK, Ascending
<1>2. result \in 0..Len(keys)
  BY <1>1 DEF SearchInv, TypeOK, Found
<1>3. result = min_index /\ min_index = max_index
  BY <1>1, <1>2 DEF SearchInv, Narrowed, Found, KeyTaken
<1>4. /\ \A j \in 1..result : keys[j] < key
      /\ \A j \in (result + 1)..Len(keys) : keys[j] >= key
  BY <1>3 DEF SearchInv, Narrowed
<1>5. result < Len(keys) => keys[result + 1] > key
  BY <1>1, <1>2, <1>4 DEF KeyTaken
<1>6. ASSUME NEW j \in (result + 1)..Len(keys) PROVE keys[j] > key
  <2>1. j = result + 1 \/ (result + 1 \in 1..Len(keys) /\ keys[result + 1] < keys[j])
    BY <1>1, <1>2
  <2> QED
    BY <1>1, <1>2, <1>5, <2>1
<1> QED
  BY <1>2, <1>4, <1>6 DEF Located

\* The search's own invariant holds throughout, the split loop's until the
\* cells are shifted instead; once the search has ended the new key has its
\* place.
InsertInv ==
  /\ SearchInv
  /\ capacity \in 3..MaxCells /\ Len(keys) <= capacity
  /\ phase \in {"find", "refused", "inserted", "split"}
  /\ phase = "find" =>
       /\ cell_num = 0 /\ i = total_cells
       /\ old_node = [slot \in 0..(capacity - 1) |-> slot]
       /\ new_node = [slot \in 0..(capacity - 1) |-> Unwritten]
  /\ phase = "split" => SplitInv /\ Located /\ cell_num = result /\ Len(keys) = capacity
  /\ phase = "inserted" =>
       /\ Located /\ Len(keys) < capacity
       /\ old_node = [slot \in 0..(capacity - 1) |->
                        IF slot < result THEN slot ELSE IF slot = result THEN NewCell ELSE slot - 1]

LEMMA InsertInitInv == InsertInit => InsertInv
<1> SUFFICES ASSUME InsertInit PROVE InsertInv
  OBVIOUS
<1>1. SearchInv
  BY SearchInit DEF InsertInit
<1> QED
  BY <1>1 DEF InsertInit, SplitInit, InsertInv

LEMMA InsertStepInv == InsertInv /\ [InsertNext]_all_vars => InsertInv'
<1> SUFFICES ASSUME InsertInv, [InsertNext]_all_vars PROVE InsertInv'
  OBVIOUS
<1>0. Len(keys) \in Nat
  BY NodesAssumption DEF InsertInv, SearchInv, TypeOK
<1>1. CASE FindStep
  <2>1. SearchInv'
    BY <1>1, SearchStep DEF FindStep, InsertInv
  <2>2. UNCHANGED <<keys, capacity, cell_num, old_node, new_node, i, phase>> /\ phase = "find"
    BY <1>1 DEF FindStep, split_vars, Next, Hit, GoLeft, GoRight, Converge
  <2> QED
    BY <2>1, <2>2 DEF InsertInv, total_cells
<1>2. CASE RefuseDuplicate
  <2>1. SearchInv' /\ UNCHANGED <<keys, capacity>> /\ phase' = "refused"
    BY <1>2, SearchStep DEF RefuseDuplicate, InsertInv, vars, split_vars
  <2> QED
    BY <2>1 DEF InsertInv
<1>3. CASE ShiftCells
  <2>1. SearchInv' /\ UNCHANGED <<keys, key, result, capacity>> /\ phase' = "inserted"
    BY <1>3, SearchStep DEF ShiftCells, InsertInv, vars
  <2>2. phase = "find" /\ Located /\ Len(keys) < capacity
    BY <1>3, NotTaken DEF ShiftCells, Found, InsertInv
  <2>3. Located'
    BY <2>1, <2>2 DEF Located
  <2>4. old_node' = [slot \in 0..(capacity - 1) |->
                       IF slot < result THEN slot ELSE IF slot = result THEN NewCell ELSE slot - 1]
    BY <1>0, <1>3, <2>2, MaxCellsAssumption DEF ShiftCells, Shifted, InsertInv, Located
  <2> QED
    BY <2>1, <2>2, <2>3, <2>4 DEF InsertInv
<1>4. CASE BeginSplit
  <2>1. /\ SearchInv' /\ UNCHANGED <<keys, key, result, capacity, old_node, new_node, i>>
        /\ phase' = "split" /\ cell_num' = result
    BY <1>4, SearchStep DEF BeginSplit, InsertInv, vars
  <2>2. phase = "find" /\ Located /\ Len(keys) = capacity
    BY <1>4, NotTaken DEF BeginSplit, Found, InsertInv
  <2>3. Located'
    BY <2>1, <2>2 DEF Located
  <2>4. SplitInv'
    BY <1>0, <2>1, <2>2, MaxCellsAssumption
    DEF InsertInv, Located, SplitInv, SplitTypeOK, Progress, Placed, Cell, Unwritten, total_cells,
        left_split_count, right_split_count
  <2> QED
    BY <2>1, <2>2, <2>3, <2>4 DEF InsertInv
<1>5. CASE SplitStep
  <2>1. phase = "split" /\ phase' = phase /\ SplitInv' /\ SearchInv'
    BY <1>5, SplitStepInv, SearchStep DEF SplitStep, InsertInv
  <2>2. UNCHANGED <<keys, key, result, capacity, cell_num>>
    BY <1>5 DEF SplitStep, vars, SplitNext, PlaceLeft, PlaceRight, LeaveInPlace
  <2>3. Located'
    BY <2>1, <2>2 DEF Located, InsertInv
  <2> QED
    BY <2>1, <2>2, <2>3 DEF InsertInv
<1>6. CASE UNCHANGED all_vars
  BY <1>6, SearchStep, SplitStepInv DEF all_vars, vars, split_vars, InsertInv, Located, total_cells
<1> QED
  BY <1>1, <1>2, <1>3, <1>4, <1>5, <1>6 DEF InsertNext

\* What the leaf holds in the end, position by position.
LEMMA OutcomeIs ==
  ASSUME InsertInv, phase = "inserted" \/ Divided, NEW p \in 1..(Len(keys) + 1)
  PROVE  /\ p <= result => Outcome[p] = keys[p]
         /\ p = result + 1 => Outcome[p] = key
         /\ p > result + 1 => Outcome[p] = keys[p - 1]
<1> DEFINE cell == IF p - 1 = result THEN NewCell ELSE IF p - 1 > result THEN p - 2 ELSE p - 1
<1>1. keys \in Seq(Nat) /\ Len(keys) \in Nat /\ result \in 0..Len(keys) /\ capacity \in Nat
  BY NodesAssumption, MaxCellsAssumption DEF InsertInv, SearchInv, TypeOK, Located, Divided
<1>2. Outcome[p] = KeyOf(cell)
  <2>1. CASE Divided
    <3>1. p - 1 \in i..capacity
      BY <1>1, <2>1 DEF InsertInv, Divided
    <3>2. Placed(p - 1) = Belonging(p - 1)
      BY <2>1, <3>1 DEF InsertInv, Divided, SplitInv, Progress
    <3>3. Belonging(p - 1) = cell
      BY <1>1, <2>1 DEF InsertInv, Divided, Belonging, Source
    <3> QED
      BY <2>1, <3>2, <3>3 DEF Outcome
  <2>2. CASE phase = "inserted"
    <3>1. ~Divided /\ p - 1 \in 0..(capacity - 1)
      BY <1>1, <2>2 DEF InsertInv, Divided
    <3>2. old_node[p - 1] = cell
      BY <1>1, <2>2, <3>1 DEF InsertInv
    <3> QED
      BY <3>1, <3>2 DEF Outcome
  <2> QED
    BY <2>1, <2>2
<1>3. cell = NewCell \/ (cell + 1 \in DOMAIN keys /\ cell # NewCell)
  BY <1>1 DEF NewCell
<1> QED
  BY <1>1, <1>2, <1>3 DEF KeyOf, NewCell

\* Search, shift and split together put a row where it belongs, whatever the
\* leaf holds and however full it is.
THEOREM InsertionCorrect == InsertSpec => []KeysStayAscending
<1>1. InsertInv => KeysStayAscending
  <2> SUFFICES ASSUME InsertInv, phase = "inserted" \/ Divided
               PROVE  /\ Ascending(Outcome) /\ ToSet(Outcome) = ToSet(keys) \cup {key}
                      /\ Divided => 2 * right_split_count >= capacity
                                    /\ left_split_count >= right_split_count
    BY DEF KeysStayAscending
  <2>1. /\ keys \in Seq(Nat) /\ Len(keys) \in Nat /\ key \in Nat
        /\ \A a, b \in 1..Len(keys) : a < b => keys[a] < keys[b]
        /\ capacity \in Nat
    BY NodesAssumption, WantedAssumption, MaxCellsAssumption
    DEF InsertInv, SearchInv, TypeOK, Ascending
  <2>2. Located
    BY DEF InsertInv, Divided
  <2>3. DOMAIN Outcome = 1..(Len(keys) + 1)
    BY DEF Outcome
  <2>4. ASSUME NEW a \in 1..(Len(keys) + 1), NEW b \in 1..(Len(keys) + 1), a < b
        PROVE  Outcome[a] < Outcome[b]
    <3> DEFINE Below(p) == p <= result /\ Outcome[p] = keys[p] /\ p \in 1..Len(keys) /\ keys[p] < key
               At(p) == p = result + 1 /\ Outcome[p] = key
               Above(p) == p > result + 1 /\ Outcome[p] = keys[p - 1] /\ p - 1 \in 1..Len(keys)
                           /\ keys[p - 1] > key
    <3>1. ASSUME NEW p \in 1..(Len(keys) + 1) PROVE Below(p) \/ At(p) \/ Above(p)
      BY <2>1, <2>2, OutcomeIs DEF Located
    <3>2. \A p \in 1..Len(keys) : keys[p] \in Nat
      BY <2>1
    <3>3. result \in Nat /\ a \in Nat /\ b \in Nat
      BY <2>1, <2>2 DEF Located
    <3> HIDE DEF Outcome
    <3>4. CASE Below(a) /\ Below(b)
      BY <2>1, <2>4, <3>4
    <3>5. CASE Above(a) /\ Above(b)
      <4>1. a - 1 < b - 1
        BY <2>4, <3>3
      <4> QED
        BY <2>1, <3>5, <4>1
    <3>6. CASE Below(a) /\ ~Below(b)
      <4>1. At(b) \/ Above(b)
        BY <3>1, <3>6
      <4>2. CASE At(b)
        BY <2>1, <3>2, <3>6, <4>2
      <4>3. CASE Above(b)
        <5>1. keys[a] < key /\ key < keys[b - 1] /\ keys[a] \in Nat /\ keys[b - 1] \in Nat
          BY <2>1, <3>2, <3>6, <4>3
        <5> QED
          BY <2>1, <3>6, <4>3, <5>1
      <4> QED
        BY <4>1, <4>2, <4>3
    <3>7. CASE At(a) /\ Above(b)
      BY <2>1, <3>2, <3>7
    <3> QED
      BY <2>4, <3>1, <3>3, <3>4, <3>5, <3>6, <3>7
  <2>5. ToSet(Outcome) = ToSet(keys) \cup {key}
    <3>1. ASSUME NEW p \in 1..(Len(keys) + 1) PROVE Outcome[p] \in ToSet(keys) \cup {key}
      <4>1. /\ p <= result => Outcome[p] = keys[p]
            /\ p = result + 1 => Outcome[p] = key
            /\ p > result + 1 => Outcome[p] = keys[p - 1]
        BY OutcomeIs
      <4>2. DOMAIN keys = 1..Len(keys)
        BY <2>1
      <4>3. p \in Nat /\ result \in 0..Len(keys) /\ Len(keys) \in Nat
        BY <2>1, <2>2 DEF Located
      <4>4. CASE p <= result
        <5>1. p \in 1..Len(keys)
          BY <4>3, <4>4
        <5> QED
          BY <4>1, <4>2, <4>4, <5>1 DEF ToSet
      <4>5. CASE p > result + 1
        <5>1. p - 1 \in 1..Len(keys)
          BY <4>3, <4>5
        <5> QED
          BY <4>1, <4>2, <4>5, <5>1 DEF ToSet
      <4> QED
        BY <4>1, <4>3, <4>4, <4>5
    <3>2. ASSUME NEW q \in 1..Len(keys) PROVE \E p \in 1..(Len(keys) + 1) : Outcome[p] = keys[q]
      <4>1. CASE q <= result
        <5>1. Outcome[q] = keys[q] /\ q \in 1..(Len(keys) + 1)
          BY <2>1, <4>1, OutcomeIs
        <5> QED
          BY <5>1
      <4>2. CASE q > result
        <5>1. /\ q + 1 \in 1..(Len(keys) + 1) /\ q + 1 > result + 1 /\ (q + 1) - 1 = q
          BY <2>1, <2>2, <4>2 DEF Located
        <5>2. Outcome[q + 1] = keys[q]
          BY <5>1, OutcomeIs
        <5> QED
          BY <5>1, <5>2
      <4> QED
        BY <2>2, <4>1, <4>2 DEF Located
    <3>3. \E p \in 1..(Len(keys) + 1) : Outcome[p] = key
      <4>1. result + 1 \in 1..(Len(keys) + 1)
        BY <2>1, <2>2 DEF Located
      <4> QED
        BY <4>1, OutcomeIs
    <3>4. ToSet(Outcome) = {Outcome[p] : p \in 1..(Len(keys) + 1)}
          /\ ToSet(keys) = {keys[p] : p \in 1..Len(keys)}
      BY <2>1, <2>3 DEF ToSet
    <3> HIDE DEF Outcome
    <3> QED
      BY <3>1, <3>2, <3>3, <3>4
  <2>6. 2 * right_split_count >= capacity /\ left_split_count >= right_split_count
    BY <2>1 DEF right_split_count, left_split_count, total_cells
  <2> QED
    BY <2>3, <2>4, <2>5, <2>6 DEF Ascending
<1> QED
  BY <1>1, InsertInitInv, InsertStepInv, PTL DEF InsertSpec

-----------------------------------------------------------------------------
\* Integer literals.  Two facts about one digit are arithmetic; the invariant
\* adds that a flag once set stays right, since a number only grows by further
\* digits.


\* The test before each step refuses exactly the digits that would not fit.
LEMMA OverflowsExact ==
  ASSUME NEW v \in 0..IntMax, NEW digit \in Digits
  PROVE  Overflows(v, digit) <=> v * 10 + digit > IntMax
BY IntMaxAssumption, DigitsAssumption DEF Overflows

\* What holds of every literal under way, besides its types.
NumberInv == NumberTypeOK /\ NumberExact /\ LiteralExact

LEMMA NumberStarts == NumberInit => NumberInv
<1> SUFFICES ASSUME NumberInit PROVE NumberInv
  OBVIOUS
<1>1. value \in 0..IntMax /\ exact \in Nat /\ length \in 0..MaxDigits /\ ~(exact > IntMax)
  BY IntMaxAssumption, MaxDigitsAssumption DEF NumberInit
<1>2. NoLiteral \in [done : BOOLEAN, integer : -IntMax..IntMax, out_of_range : BOOLEAN]
  BY IntMaxAssumption DEF NoLiteral
<1>3. ~literal.done
  BY DEF NumberInit, NoLiteral
<1> QED BY <1>1, <1>2, <1>3 DEF NumberInit, NumberInv, NumberTypeOK, NumberExact, LiteralExact

LEMMA NumberStep == NumberInv /\ [NumberNext]_number_vars => NumberInv'
<1> SUFFICES ASSUME NumberInv, [NumberNext]_number_vars PROVE NumberInv'
  OBVIOUS
<1> USE IntMaxAssumption, DigitsAssumption, MaxDigitsAssumption DEF NumberInv, NumberTypeOK, NumberExact, LiteralExact
<1>1. ASSUME NEW digit \in Digits, ReadDigit(digit) PROVE NumberInv'
  <2>1. value' \in 0..IntMax /\ out_of_range' \in BOOLEAN /\ exact' \in Nat
    <3>1. CASE ~out_of_range /\ ~Overflows(value, digit)
      <4>1. value * 10 + digit <= IntMax
        BY <3>1, OverflowsExact
      <4> QED BY <1>1, <3>1, <4>1 DEF ReadDigit
    <3>2. CASE ~(~out_of_range /\ ~Overflows(value, digit))
      <4>1. out_of_range' = TRUE /\ value' = value
        BY <1>1, <3>2 DEF ReadDigit
      <4>2. exact' \in Nat
        BY <1>1 DEF ReadDigit
      <4> QED BY <4>1, <4>2
    <3> QED BY <3>1, <3>2
  <2>2. NumberTypeOK'
    BY <1>1, <2>1 DEF ReadDigit
  <2>3. NumberExact'
    <3>1. CASE ~out_of_range
      <4>1. value = exact
        BY <3>1
      <4>2. Overflows(value, digit) <=> exact' > IntMax
        BY <4>1, <1>1, OverflowsExact DEF ReadDigit
      <4> QED BY <1>1, <3>1, <4>1, <4>2 DEF ReadDigit
    <3>2. CASE out_of_range
      <4>1. exact' > IntMax
        BY <1>1, <3>2 DEF ReadDigit
      <4> QED BY <1>1, <3>2, <4>1 DEF ReadDigit
    <3> QED BY <3>1, <3>2
  <2>4. LiteralExact'
    BY <1>1 DEF ReadDigit
  <2> QED BY <2>2, <2>3, <2>4
<1>2. ASSUME parse_literal PROVE NumberInv'
  <2>1. /\ literal' = [done |-> TRUE, integer |-> Signed(value), out_of_range |-> out_of_range]
        /\ UNCHANGED <<negative, length, value, out_of_range, exact>>
    BY <1>2 DEF parse_literal
  <2>2. Signed(value) \in -IntMax..IntMax
    BY DEF Signed
  <2>3. NumberTypeOK' /\ NumberExact'
    BY <2>1, <2>2
  <2>4. LiteralExact'
    BY <2>1 DEF Signed
  <2> QED BY <2>3, <2>4
<1>3. ASSUME UNCHANGED number_vars PROVE NumberInv'
  BY <1>3 DEF number_vars
<1>4. ASSUME NEW sign \in BOOLEAN, read_number(sign) PROVE NumberInv'
  <2>1. NoLiteral \in [done : BOOLEAN, integer : -IntMax..IntMax, out_of_range : BOOLEAN]
    BY DEF NoLiteral
  <2>2. ~NoLiteral.done
    BY DEF NoLiteral
  <2>3. /\ negative' \in BOOLEAN /\ length' = 0 /\ value' = 0 /\ out_of_range' = FALSE
        /\ exact' = 0 /\ literal' = NoLiteral
    BY <1>4 DEF read_number
  <2>4. NumberTypeOK'
    <3>1. length' \in 0..MaxDigits /\ value' \in 0..IntMax /\ exact' \in Nat
      BY <2>3
    <3>2. literal' \in [done : BOOLEAN, integer : -IntMax..IntMax, out_of_range : BOOLEAN]
      BY <2>1, <2>3
    <3>3. out_of_range' \in BOOLEAN
      BY <2>3
    <3> QED BY <2>3, <3>1, <3>2, <3>3 DEF NumberTypeOK
  <2>5. NumberExact'
    <3>1. ~(exact' > IntMax) /\ value' = exact'
      BY <2>3
    <3> QED BY <2>3, <3>1
  <2>6. LiteralExact'
    BY <2>2, <2>3
  <2> QED BY <2>4, <2>5, <2>6
<1> QED BY <1>1, <1>2, <1>3, <1>4 DEF NumberNext

\* The accumulator and the literal stay within the integers.
THEOREM NumberTypeCorrect == NumberSpec => []NumberTypeOK
<1>1. NumberInv => NumberTypeOK
  BY DEF NumberInv
<1> QED BY NumberStarts, NumberStep, <1>1, PTL DEF NumberSpec

\* Numbers are flagged exactly when they do not fit, and are exact otherwise.
THEOREM NumbersExact == NumberSpec => []NumberExact
<1>1. NumberInv => NumberExact
  BY DEF NumberInv
<1> QED BY NumberStarts, NumberStep, <1>1, PTL DEF NumberSpec

\* A literal is flagged exactly when its digits do not fit, and is otherwise worth
\* what is written, its sign included.
THEOREM LiteralsExact == NumberSpec => []LiteralExact
<1>1. NumberInv => LiteralExact
  BY DEF NumberInv
<1> QED BY NumberStarts, NumberStep, <1>1, PTL DEF NumberSpec

=============================================================================
