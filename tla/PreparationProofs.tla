--------------------------- MODULE PreparationProofs ---------------------------
(***************************************************************************)
(* Proofs about module StatementPreparation, for every table and every     *)
(* line: what bind_insert writes and reads of its array and what it makes  *)
(* of an INSERT; for what fault table_definition_from_ast refuses a CREATE *)
(* TABLE, what an accepted one's rows are like, and that its canonical     *)
(* text parses back.                                                       *)
(***************************************************************************)
EXTENDS StatementPreparation, Lemmas

-----------------------------------------------------------------------------
\* What bind_insert has found out by the time it stands at `insert_at`

num_columns == Len(Schema)
Named(k) == Insert!Names(k)

\* The list's first k names: k different columns, each in its slot.
Taken(k) ==
  /\ k \in Nat
  /\ DOMAIN targets = 1..k
  /\ \A m \in 1..k : Named(m) # {} /\ targets[m] = Insert!First(Named(m))
  /\ listed = {targets[m] : m \in 1..k}
  /\ Cardinality(listed) = k

AllTaken ==
  IF insert.named THEN Taken(Len(insert.names))
  ELSE DOMAIN targets = 1..num_columns /\ \A m \in 1..num_columns : targets[m] = m

Reading ==
  IF insert.named THEN n \in 1..(Len(insert.names) + 1) /\ Taken(n - 1)
  ELSE n = 1 /\ listed = {} /\ targets = <<>>

AllListed == insert.named => Insert!Unlisted = {}
RightUpTo(k) == \A m \in 1..k : Insert!Fault(insert.values[m], targets[m]) = "none"

Known ==
  /\ insert_at \in {"names", "count", "missing", "values", "row", "accepted"} => insert \in Inserts
  /\ insert_at = "names" => Reading
  /\ insert_at \in {"count", "missing", "values", "row", "accepted"} => AllTaken
  /\ insert_at \in {"missing", "values", "row", "accepted"} => ~Insert!CountFault
  /\ insert_at \in {"values", "row", "accepted"} => AllListed
  /\ insert_at = "values" => n \in 1..(Len(insert.values) + 1) /\ RightUpTo(n - 1)
  /\ insert_at \in {"row", "accepted"} => RightUpTo(Len(insert.values))
  /\ insert_at = "refused" => Insert!InsertJudged

Places == {"idle", "names", "count", "missing", "values", "row", "accepted", "refused"}

InsertInv ==
  /\ insert_at \in Places
  /\ insert_at = "idle" => n = 1 /\ listed = {} /\ targets = <<>>
  /\ listed \subseteq 1..num_columns
  /\ DOMAIN targets \subseteq 1..num_columns /\ \A m \in DOMAIN targets : targets[m] \in 1..num_columns
  /\ Known

LinesInv == line \in Lines \cup {NoLine}

-----------------------------------------------------------------------------
\* Columns and names

LEMMA SchemaFacts ==
  /\ num_columns \in Nat
  /\ \A c \in 1..num_columns : Schema[c].type \in {"INT", "TEXT"} /\ Schema[c].size \in Nat
  /\ \A c, d \in 1..num_columns : Schema[c].name = Schema[d].name => c = d
  /\ Insert!num_columns = num_columns
<1> DEFINE Column == [name : STRING, type : {"INT", "TEXT"}, size : Nat, offset : Nat]
<1>1. DOMAIN Schema = 1..num_columns /\ num_columns \in Nat
  BY SchemaAssumption DEF num_columns
<1>2. \A c \in 1..num_columns : Schema[c] \in Column
  <2>1. Schema \in Seq(Column)
    BY SchemaAssumption
  <2> HIDE DEF Column
  <2> QED
    BY <2>1 DEF num_columns
<1>3. \A c \in 1..num_columns : Schema[c].type \in {"INT", "TEXT"} /\ Schema[c].size \in Nat
  BY <1>2
<1>4. \A c, d \in 1..num_columns : Schema[c].name = Schema[d].name => c = d
  BY <1>1, SchemaAssumption
<1>5. Insert!num_columns = num_columns
  BY DEF num_columns, Insert!num_columns
<1> QED
  BY <1>1, <1>3, <1>4, <1>5

LEMMA IntervalSize ==
  ASSUME NEW size \in Nat
  PROVE  IsFiniteSet(1..size) /\ Cardinality(1..size) = size
<1>1. IsFiniteSet(1..size) /\ Cardinality(1..size) = IF 1 > size THEN 0 ELSE size - 1 + 1
  BY FS_Interval
<1> QED
  BY <1>1

LEMMA FirstIsLeast ==
  ASSUME NEW S \in SUBSET (1..num_columns), S # {}
  PROVE  Insert!First(S) \in S
<1>1. S \in SUBSET Nat
  BY SchemaFacts
<1>2. \E m \in S : \A k \in S : m <= k
  BY <1>1, LeastOf
<1> QED
  BY <1>2 DEF Insert!First

\* No two columns have the same name, so a name stands for one at most.
LEMMA OneColumn ==
  ASSUME NEW k, Named(k) # {}
  PROVE  Insert!First(Named(k)) \in 1..num_columns /\ Named(k) = {Insert!First(Named(k))}
<1>1. Named(k) \in SUBSET (1..num_columns)
  BY SchemaFacts DEF Named, Insert!Names
<1>2. Insert!First(Named(k)) \in Named(k)
  BY <1>1, FirstIsLeast
<1>3. \A c, d \in Named(k) : c = d
  BY SchemaFacts DEF Named, Insert!Names
<1> QED
  BY <1>1, <1>2, <1>3

-----------------------------------------------------------------------------
\* What an accepted or refused INSERT is

LEMMA TakenNoFault ==
  ASSUME insert \in Inserts, AllTaken
  PROVE  /\ ~Insert!NameFault
         /\ DOMAIN targets = 1..Insert!num_targets
         /\ \A m \in 1..Insert!num_targets : targets[m] = Insert!Meant(m) /\ targets[m] \in 1..num_columns
         /\ Insert!MissingFault <=> insert.named /\ Insert!Unlisted # {}
<1>1. CASE ~insert.named
  BY <1>1, SchemaFacts DEF AllTaken, Insert!NameFault, Insert!MissingFault, Insert!num_targets, Insert!Meant
<1>2. CASE insert.named
  <2> DEFINE last == Len(insert.names)
  <2>1. DOMAIN insert.names = 1..last /\ last \in Nat /\ Insert!num_targets = last
    BY <1>2 DEF Inserts, Insert!num_targets
  <2>2. Taken(last)
    BY <1>2 DEF AllTaken
  <2>3. \A m \in 1..last : targets[m] \in 1..num_columns /\ Named(m) = {targets[m]}
    BY <2>2, OneColumn DEF Taken
  <2>4. \A m \in 1..last : targets[m] = Insert!Meant(m)
    BY <2>2, <1>2 DEF Taken, Insert!Meant, Named
  <2>5. \A m, k \in 1..last : m < k => Named(m) # Named(k)
    <3> SUFFICES ASSUME NEW m \in 1..last, NEW k \in 1..last, m < k, Named(m) = Named(k) PROVE FALSE
      OBVIOUS
    <3> DEFINE Others == (1..last) \ {k}
    <3>1. targets[m] = targets[k]
      BY <2>3
    <3>2. listed = {targets[j] : j \in Others}
      <4>1. listed = {targets[j] : j \in 1..last}
        BY <2>2 DEF Taken
      <4>2. \A j \in 1..last : \E o \in Others : targets[o] = targets[j]
        BY <3>1
      <4> QED
        BY <4>1, <4>2
    <3>3. IsFiniteSet(Others) /\ Cardinality(Others) = last - 1
      <4> HIDE DEF last
      <4>1. last \in Nat /\ k \in 1..last
        BY <2>1
      <4>2. IsFiniteSet(1..last) /\ Cardinality(1..last) = last
        BY <4>1, IntervalSize
      <4>4. IsFiniteSet((1..last) \ {k}) /\ Cardinality((1..last) \ {k}) = Cardinality(1..last) - 1
        BY <4>1, <4>2, FS_RemoveElement
      <4> QED
        BY <4>2, <4>4
    <3>4. Cardinality({targets[j] : j \in Others}) <= Cardinality(Others)
      <4> DEFINE h == [j \in Others |-> targets[j]]
      <4>1. Others # {}
        BY <3>3
      <4>2. h \in Surjection(Others, {targets[j] : j \in Others})
        BY DEF Surjection
      <4> HIDE DEF h, Others
      <4> QED
        BY <3>3, <4>2, FS_Surjection
    <3>5. Cardinality(listed) = last
      BY <2>2 DEF Taken
    <3> HIDE DEF Others
    <3>6. last <= last - 1
      BY <3>2, <3>3, <3>4, <3>5
    <3> QED
      BY <3>6, <2>1
  <2>6. ~Insert!NameFault
    <3>1. \A m \in 1..last : Named(m) # {}
      BY <2>2 DEF Taken
    <3>2. \A m \in 1..last : \A k \in 1..(m - 1) : k \in 1..last /\ k < m
      BY <2>1
    <3> QED
      BY <3>1, <3>2, <2>1, <2>5 DEF Insert!NameFault, Named
  <2>7. Insert!MissingFault <=> Insert!Unlisted # {}
    <3>1. listed = {targets[j] : j \in 1..last}
      BY <2>2 DEF Taken
    <3>2. \A c \in 1..num_columns : c \notin listed <=> \A m \in 1..last : c \notin Named(m)
      BY <3>1, <2>3
    <3> QED
      BY <3>2, <2>1, <1>2, SchemaFacts DEF Insert!MissingFault, Insert!Unlisted, Named
  <2> QED
    BY <1>2, <2>1, <2>2, <2>3, <2>4, <2>6, <2>7 DEF Taken
<1> QED
  BY <1>1, <1>2

\* bind_value refuses exactly the values that would not come back as they are.
LEMMA FaultExact ==
  ASSUME NEW value \in Value, NEW c \in 1..num_columns
  PROVE  /\ Insert!Fault(value, c) = "none" <=> Insert!Fits(value, c)
         /\ Insert!Fault(value, c) \notin {"no such column", "listed twice", "count", "no value"}
<1>1. value.type \in {"INTEGER", "STRING"} /\ value.integer \in Int /\ value.out_of_range \in BOOLEAN
  BY DEF Value
<1>2. Schema[c].type \in {"INT", "TEXT"} /\ Schema[c].size \in Nat /\ Len(value.text) \in Nat
  BY SchemaFacts DEF Value
<1>3. Insert!Int32Max \in Nat /\ Insert!Int32Min = -Insert!Int32Max - 1
  BY IntAssumption DEF Insert!Int32Min
<1> DEFINE v == value.integer
           high == Insert!Int32Max
           low == Insert!Int32Min
<1>4. v \in low..high <=> ~(v < low \/ v > high)
  <2> HIDE DEF v, high, low
  <2>1. v \in Int /\ high \in Int /\ low \in Int
    BY <1>1, <1>3 DEF v, high, low
  <2> QED
    BY <2>1
<1> QED
  BY <1>1, <1>2, <1>4 DEF Insert!Fault, Insert!Fits

-----------------------------------------------------------------------------
\* Every step of bind_insert

InsertRest == <<insert, listed, targets, insert_error, record>>

LEMMA ListsColumn ==
  ASSUME InsertInv, Insert!ListColumn
  PROVE  InsertInv'
<1> DEFINE k == n - 1
           c == Insert!First(Named(n))
<1>1. insert_at = "names" /\ insert.named /\ n <= Len(insert.names) /\ Named(n) # {} /\ c \notin listed
  BY DEF Insert!ListColumn, Insert!AlreadyListed, Insert!Found, Insert!Names, Named,
         Insert!schema_find_column_by_name
<1>2. /\ listed' = listed \cup {c}
      /\ targets' = [t \in DOMAIN targets \cup {n} |-> IF t = n THEN c ELSE targets[t]]
      /\ n' = n + 1
      /\ insert' = insert /\ insert_at' = insert_at
  BY DEF Insert!ListColumn, Insert!Found, Insert!Names, Named, Insert!schema_find_column_by_name
<1>3. insert \in Inserts /\ n \in 1..(Len(insert.names) + 1) /\ Taken(k) /\ Len(insert.names) \in Nat
  BY <1>1 DEF InsertInv, Known, Reading, Inserts
<1>4. c \in 1..num_columns
  BY <1>1, OneColumn
<1>5. \A j : Named(j)' = Named(j)
  BY <1>2, SchemaFacts DEF Named, Insert!Names
<1>6. Cardinality(listed') = n
  <2>1. IsFiniteSet(listed)
    <3>1. listed \in SUBSET (1..num_columns) /\ IsFiniteSet(1..num_columns)
      BY SchemaFacts, IntervalSize DEF InsertInv
    <3> QED
      BY <3>1, FS_Subset
  <2>2. Cardinality(listed \cup {c}) = Cardinality(listed) + 1
    BY <2>1, <1>1, FS_AddElement
  <2> QED
    BY <2>2, <1>2, <1>3 DEF Taken
<1>7. n <= num_columns
  <2>1. listed' \in SUBSET (1..num_columns)
    BY <1>2, <1>4 DEF InsertInv
  <2>2. IsFiniteSet(1..num_columns) /\ Cardinality(1..num_columns) = num_columns
    BY IntervalSize, SchemaFacts
  <2>3. Cardinality(listed') <= Cardinality(1..num_columns)
    BY <2>1, <2>2, FS_Subset
  <2> QED
    BY <2>2, <2>3, <1>6
<1> DEFINE now == n
<1>8. now \in Nat \ {0} /\ n' - 1 = now
  BY <1>2, <1>3
<1>9. Taken(n - 1)'
  <2>1. DOMAIN targets' = 1..now
    BY <1>2, <1>3 DEF Taken
  <2>2. \A m \in 1..now : Named(m)' # {} /\ targets'[m] = Insert!First(Named(m)')
    BY <1>1, <1>2, <1>3, <1>5 DEF Taken
  <2>3. listed' = {targets'[m] : m \in 1..now}
    BY <1>2, <1>3, <2>1 DEF Taken
  <2> HIDE DEF now
  <2>4. Cardinality(listed') = now
    BY <1>6 DEF now
  <2> QED
    BY <1>8, <2>1, <2>2, <2>3, <2>4 DEF Taken, Insert!First
<1>10. Reading'
  BY <1>1, <1>2, <1>3, <1>9 DEF Reading
<1>11. listed' \subseteq 1..num_columns /\ DOMAIN targets' \subseteq 1..num_columns
       /\ \A m \in DOMAIN targets' : targets'[m] \in 1..num_columns
  <2>1. \A m \in DOMAIN targets : targets[m] \in 1..num_columns
    BY DEF InsertInv
  <2>2. n \in 1..num_columns
    BY <1>3, <1>7, SchemaFacts
  <2>3. listed' \subseteq 1..num_columns
    BY <1>2, <1>4 DEF InsertInv
  <2>4. DOMAIN targets' \subseteq 1..num_columns
    BY <1>2, <2>2 DEF InsertInv
  <2>5. \A m \in DOMAIN targets' : targets'[m] \in 1..num_columns
    BY <1>2, <1>4, <2>1
  <2> QED
    BY <2>3, <2>4, <2>5
<1> QED
  BY <1>1, <1>2, <1>3, <1>10, <1>11 DEF InsertInv, Known, Places

\* What depends on the statement and the array alone.
LEMMA SameFacts ==
  ASSUME insert' = insert, targets' = targets, listed' = listed
  PROVE  /\ AllTaken' <=> AllTaken
         /\ Insert!CountFault' <=> Insert!CountFault
         /\ AllListed' <=> AllListed
         /\ \A k : RightUpTo(k)' <=> RightUpTo(k)
         /\ Insert!NameFault' <=> Insert!NameFault
         /\ Insert!MissingFault' <=> Insert!MissingFault
         /\ Insert!Acceptable' <=> Insert!Acceptable
<1>1. AllTaken' <=> AllTaken
  BY DEF AllTaken, Taken, Named, Insert!Names, Insert!First
<1>2. Insert!CountFault' <=> Insert!CountFault
  BY DEF Insert!CountFault, Insert!num_targets
<1>3. AllListed' <=> AllListed
  BY DEF AllListed, Insert!Unlisted
<1>4. \A k : RightUpTo(k)' <=> RightUpTo(k)
  BY DEF RightUpTo, Insert!Fault
<1>5. Insert!NameFault' <=> Insert!NameFault
  BY DEF Insert!NameFault, Insert!Names
<1>6. Insert!MissingFault' <=> Insert!MissingFault
  BY DEF Insert!MissingFault, Insert!Names
<1>7. Insert!Acceptable' <=> Insert!Acceptable
  <2>1. \A k : Insert!Meant(k)' = Insert!Meant(k)
    BY DEF Insert!Meant, Insert!Names, Insert!First
  <2>2. \A v, c : Insert!Fits(v, c)' <=> Insert!Fits(v, c)
    BY DEF Insert!Fits
  <2> QED
    BY <1>2, <1>5, <1>6, <2>1, <2>2 DEF Insert!Acceptable
<1> QED
  BY <1>1, <1>2, <1>3, <1>4, <1>5, <1>6, <1>7

Keeps == insert' = insert /\ targets' = targets /\ listed' = listed

\* An INSERT refused over its names.
LEMMA RefusesName ==
  ASSUME InsertInv, Insert!UnknownColumn \/ Insert!RepeatedColumn
  PROVE  InsertInv'
<1>1. insert_at = "names" /\ insert.named /\ n <= Len(insert.names) /\ Keeps
      /\ insert_at' = "refused" /\ insert_error' \in {"no such column", "listed twice"}
  BY DEF Insert!UnknownColumn, Insert!RepeatedColumn, Insert!Refuse, Keeps
<1>2. insert \in Inserts /\ n \in 1..(Len(insert.names) + 1) /\ Taken(n - 1)
  BY <1>1 DEF InsertInv, Known, Reading
<1>3. n \in DOMAIN insert.names /\ n \in Nat
  <2>1. DOMAIN insert.names = 1..Len(insert.names) /\ Len(insert.names) \in Nat
    BY <1>2 DEF Inserts
  <2>2. n \in 1..(Len(insert.names) + 1) /\ n <= Len(insert.names)
    BY <1>1, <1>2
  <2>3. n \in 1..Len(insert.names) /\ n \in Nat
    BY <2>1, <2>2
  <2> QED
    BY <2>1, <2>3
<1>4. Insert!NameFault
  <2>1. CASE Named(n) = {}
    BY <1>1, <1>3, <2>1 DEF Insert!NameFault, Named
  <2>2. CASE Named(n) # {}
    <3>1. Insert!First(Named(n)) \in listed
      BY <1>1, <2>2 DEF Insert!UnknownColumn, Insert!RepeatedColumn, Insert!AlreadyListed, Insert!Found,
         Insert!Names, Named, Insert!schema_find_column_by_name
    <3>2. PICK m \in 1..(n - 1) : targets[m] = Insert!First(Named(n))
      BY <1>2, <3>1 DEF Taken
    <3>3. Named(m) # {} /\ targets[m] = Insert!First(Named(m))
      BY <1>2 DEF Taken
    <3>4. Named(m) = Named(n)
      BY <2>2, <3>2, <3>3, OneColumn
    <3> QED
      BY <1>1, <1>3, <3>4 DEF Insert!NameFault, Named
  <2> QED
    BY <2>1, <2>2
<1>5. Insert!InsertJudged'
  BY <1>1, <1>4, SameFacts DEF Keeps, Insert!InsertJudged, Insert!Acceptable
<1> QED
  BY <1>1, <1>5 DEF InsertInv, Known, Places, Keeps

LEMMA ReadsNames ==
  ASSUME InsertInv, Insert!EndNames \/ Insert!NoNames
  PROVE  InsertInv'
<1>1. insert_at = "names" /\ insert' = insert /\ listed' = listed /\ insert_at' = "count"
  BY DEF Insert!EndNames, Insert!NoNames, Insert!GoTo
<1>2. insert \in Inserts /\ Reading
  BY <1>1 DEF InsertInv, Known
<1>3. CASE Insert!EndNames
  <2>1. insert.named /\ n > Len(insert.names) /\ targets' = targets
    BY <1>3 DEF Insert!EndNames, Insert!GoTo
  <2>2. Len(insert.names) \in Nat
    BY <1>2 DEF Inserts
  <2>3. AllTaken
    <3>1. n - 1 = Len(insert.names)
      BY <1>2, <2>1, <2>2 DEF Reading
    <3> QED
      BY <1>2, <2>1, <3>1 DEF Reading, AllTaken
  <2> QED
    BY <1>1, <1>2, <2>1, <2>3, SameFacts DEF InsertInv, Known, Places
<1>4. CASE Insert!NoNames
  <2>1. ~insert.named /\ targets' = [t \in 1..num_columns |-> t]
    BY <1>4, SchemaFacts DEF Insert!NoNames
  <2>2. AllTaken'
    BY <1>1, <2>1 DEF AllTaken
  <2> QED
    BY <1>1, <1>2, <2>1, <2>2 DEF InsertInv, Known, Places
<1> QED
  BY <1>3, <1>4

LEMMA Counts ==
  ASSUME InsertInv, Insert!WrongCount \/ Insert!RightCount
  PROVE  InsertInv'
<1>1. insert_at = "count" /\ Keeps
  BY DEF Insert!WrongCount, Insert!RightCount, Insert!Refuse, Insert!GoTo, Keeps
<1>2. insert \in Inserts /\ AllTaken
  BY <1>1 DEF InsertInv, Known
<1>3. CASE Insert!WrongCount
  <2>1. Insert!CountFault /\ insert_at' = "refused" /\ insert_error' = "count"
    BY <1>3 DEF Insert!WrongCount, Insert!CountFault, Insert!Refuse
  <2>2. ~Insert!NameFault
    BY <1>2, TakenNoFault
  <2>3. Insert!InsertJudged'
    BY <1>1, <2>1, <2>2, SameFacts DEF Keeps, Insert!InsertJudged, Insert!Acceptable
  <2> QED
    BY <1>1, <2>1, <2>3 DEF InsertInv, Known, Places, Keeps
<1>4. CASE Insert!RightCount
  <2>1. ~Insert!CountFault /\ insert_at' = "missing"
    BY <1>4 DEF Insert!RightCount, Insert!CountFault, Insert!GoTo
  <2> QED
    BY <1>1, <1>2, <2>1, SameFacts DEF InsertInv, Known, Places, Keeps
<1> QED
  BY <1>3, <1>4

LEMMA LooksForMissing ==
  ASSUME InsertInv, Insert!MissingColumn \/ Insert!NoneMissing
  PROVE  InsertInv'
<1>1. insert_at = "missing" /\ Keeps
  BY DEF Insert!MissingColumn, Insert!NoneMissing, Insert!Refuse, Insert!GoTo, Keeps
<1>2. insert \in Inserts /\ AllTaken /\ ~Insert!CountFault
  BY <1>1 DEF InsertInv, Known
<1>3. ~Insert!NameFault /\ (Insert!MissingFault <=> insert.named /\ Insert!Unlisted # {})
  BY <1>2, TakenNoFault
<1>4. CASE Insert!MissingColumn
  <2>1. Insert!MissingFault /\ insert_at' = "refused" /\ insert_error' = "no value"
    BY <1>3, <1>4 DEF Insert!MissingColumn, Insert!Refuse
  <2>2. Insert!InsertJudged'
    BY <1>1, <1>2, <1>3, <2>1, SameFacts DEF Keeps, Insert!InsertJudged, Insert!Acceptable
  <2> QED
    BY <1>1, <2>1, <2>2 DEF InsertInv, Known, Places, Keeps
<1>5. CASE Insert!NoneMissing
  <2>1. AllListed /\ insert_at' = "values" /\ n' = 1
    BY <1>5 DEF Insert!NoneMissing, Insert!GoTo, AllListed
  <2>2. 1 \in 1..(Len(insert.values) + 1) /\ RightUpTo(1 - 1)
    BY <1>2 DEF RightUpTo, Inserts
  <2>3. n' \in 1..(Len(insert'.values) + 1) /\ RightUpTo(n - 1)'
    <3>1. RightUpTo(n - 1)'
      BY <2>1 DEF RightUpTo
    <3> QED
      BY <1>1, <2>1, <2>2, <3>1 DEF Keeps
  <2> QED
    BY <1>1, <1>2, <2>1, <2>3, SameFacts DEF InsertInv, Known, Places, Keeps
<1> QED
  BY <1>4, <1>5

\* What the targets and the values are once the values have been counted.
LEMMA ValuesAndTargets ==
  ASSUME insert \in Inserts, AllTaken, ~Insert!CountFault, NEW m \in 1..Len(insert.values)
  PROVE  /\ m \in DOMAIN insert.values /\ insert.values[m] \in Value
         /\ m \in DOMAIN targets /\ targets[m] = Insert!Meant(m) /\ targets[m] \in 1..num_columns
<1>1. DOMAIN insert.values = 1..Len(insert.values) /\ insert.values[m] \in Value
  BY DEF Inserts
<1>2. m \in 1..Insert!num_targets
  BY DEF Insert!CountFault
<1> QED
  BY <1>1, <1>2, TakenNoFault

LEMMA ChecksValue ==
  ASSUME InsertInv, Insert!WrongValue \/ Insert!RightValue
  PROVE  InsertInv'
<1>1. insert_at = "values" /\ n <= Len(insert.values) /\ Keeps
  BY DEF Insert!WrongValue, Insert!RightValue, Insert!Refuse, Keeps
<1>2. /\ insert \in Inserts /\ AllTaken /\ ~Insert!CountFault /\ AllListed
      /\ n \in 1..(Len(insert.values) + 1) /\ RightUpTo(n - 1)
  BY <1>1 DEF InsertInv, Known
<1>3. Len(insert.values) \in Nat
  BY <1>2 DEF Inserts
<1>4. n \in 1..Len(insert.values) /\ n \in Nat
  BY <1>1, <1>2, <1>3
<1>5. ~Insert!NameFault /\ ~Insert!MissingFault
  BY <1>2, TakenNoFault DEF AllListed
<1>6. CASE Insert!WrongValue
  <2> DEFINE why == Insert!Fault(insert.values[n], targets[n])
  <2>1. why # "none" /\ insert_at' = "refused" /\ insert_error' = why
    BY <1>6 DEF Insert!WrongValue, Insert!Refuse
  <2>2. insert.values[n] \in Value /\ targets[n] \in 1..num_columns /\ targets[n] = Insert!Meant(n)
        /\ n \in DOMAIN insert.values
    BY <1>2, <1>4, ValuesAndTargets
  <2>3. ~Insert!Fits(insert.values[n], Insert!Meant(n))
        /\ why \notin {"no such column", "listed twice", "count", "no value"}
    BY <2>1, <2>2, FaultExact
  <2>4. ~Insert!Acceptable
    BY <2>2, <2>3 DEF Insert!Acceptable
  <2> HIDE DEF why
  <2>5. Insert!InsertJudged'
    BY <1>1, <1>2, <1>5, <2>1, <2>3, <2>4, SameFacts DEF Keeps, Insert!InsertJudged
  <2> QED
    BY <1>1, <2>1, <2>5 DEF InsertInv, Known, Places, Keeps
<1>7. CASE Insert!RightValue
  <2> DEFINE now == n
  <2>1. Insert!Fault(insert.values[now], targets[now]) = "none" /\ n' = n + 1 /\ insert_at' = insert_at
    BY <1>7 DEF Insert!RightValue
  <2>2. now \in 1..Len(insert.values) /\ now \in Nat /\ n' = now + 1 /\ n' - 1 = now
    BY <1>4, <2>1
  <2>3. RightUpTo(now)
    <3>1. \A m \in 1..now : m = now \/ m \in 1..(now - 1)
      BY <2>2
    <3> QED
      BY <1>2, <2>1, <3>1 DEF RightUpTo
  <2> HIDE DEF now
  <2>4. RightUpTo(n - 1)'
    BY <1>1, <2>2, <2>3 DEF RightUpTo, Keeps, Insert!Fault
  <2>5. n' \in 1..(Len(insert'.values) + 1)
    <3>1. n' \in 1..(Len(insert.values) + 1)
      BY <1>3, <2>2
    <3> QED
      BY <3>1, <1>1 DEF Keeps
  <2> QED
    BY <1>1, <1>2, <2>1, <2>4, <2>5, SameFacts DEF InsertInv, Known, Places, Keeps
<1> QED
  BY <1>6, <1>7

LEMMA BuildsRow ==
  ASSUME InsertInv, Insert!EndValues \/ Insert!SetColumn \/ Insert!Accept
  PROVE  InsertInv'
<1>1. insert_at \in {"values", "row"} /\ Keeps /\ insert_at' \in {"row", "accepted"}
  BY DEF Insert!EndValues, Insert!SetColumn, Insert!Accept, Insert!GoTo, Keeps
<1>2. insert \in Inserts /\ AllTaken /\ ~Insert!CountFault /\ AllListed
  BY <1>1 DEF InsertInv, Known
<1>3. RightUpTo(Len(insert.values))
  <2>1. CASE insert_at = "row"
    BY <2>1 DEF InsertInv, Known
  <2>2. CASE insert_at = "values"
    <3>1. n > Len(insert.values)
      BY <2>2 DEF Insert!EndValues, Insert!SetColumn, Insert!Accept
    <3>2. n \in 1..(Len(insert.values) + 1) /\ RightUpTo(n - 1)
      BY <2>2 DEF InsertInv, Known
    <3>3. Len(insert.values) \in Nat
      BY <1>2 DEF Inserts
    <3>4. n - 1 = Len(insert.values)
      BY <3>1, <3>2, <3>3
    <3> QED
      BY <3>2, <3>4
  <2> QED
    BY <1>1, <2>1, <2>2
<1>4. RightUpTo(Len(insert.values))'
  BY <1>1, <1>3 DEF RightUpTo, Keeps, Insert!Fault
<1> QED
  BY <1>1, <1>2, <1>4, SameFacts DEF InsertInv, Known, Places, Keeps

LEMMA InsertStepKeeps ==
  ASSUME InsertInv, Insert!Next
  PROVE  InsertInv'
BY ListsColumn, RefusesName, ReadsNames, Counts, LooksForMissing, ChecksValue, BuildsRow
   DEF Insert!Next

-----------------------------------------------------------------------------
\* bind_insert within the preparation of lines

LEMMA InsertInitially == PrepareInit => InsertInv /\ LinesInv
BY SchemaFacts DEF PrepareInit, Init, Insert!Init, InsertInv, LinesInv, Known, Places

LEMMA InsertStarts ==
  ASSUME InsertInv, LinesInv, Inserting, Insert!Start(line.insert)
  PROVE  InsertInv'
<1>1. line \in Lines /\ line.kind = "insert"
  BY DEF LinesInv, Inserting, Binding, NoLine
<1>2. line.insert \in Inserts
  BY <1>1, LinesAssumption
<1>3. /\ insert' = line.insert /\ insert_at' = "names"
      /\ n' = 1 /\ listed' = {} /\ targets' = <<>>
  BY DEF Insert!Start, InsertInv
<1>4. Reading'
  <2>1. Len(insert'.names) \in Nat
    BY <1>2, <1>3 DEF Inserts
  <2>2. Cardinality(listed') = 0
    BY <1>3, FS_EmptySet
  <2>3. Taken(n - 1)'
    BY <1>3, <2>2 DEF Taken
  <2> QED
    BY <1>3, <2>1, <2>3 DEF Reading
<1> QED
  BY <1>2, <1>3, <1>4 DEF InsertInv, Known, Places

LEMMA InsertUnchanged ==
  ASSUME InsertInv, UNCHANGED insert_vars
  PROVE  InsertInv'
<1>1. Keeps /\ insert_at' = insert_at /\ n' = n /\ insert_error' = insert_error
  BY DEF insert_vars, Keeps
<1>2. Reading' <=> Reading
  <2>1. Taken(n - 1)' <=> Taken(n - 1)
    BY <1>1 DEF Keeps, Taken, Named, Insert!Names, Insert!First
  <2> QED
    BY <1>1, <2>1 DEF Keeps, Reading
<1>3. RightUpTo(n - 1)' <=> RightUpTo(n - 1)
  BY <1>1 DEF RightUpTo, Keeps, Insert!Fault
<1>4. RightUpTo(Len(insert.values))' <=> RightUpTo(Len(insert.values))
  BY <1>1 DEF RightUpTo, Keeps, Insert!Fault
<1>5. Insert!InsertJudged' <=> Insert!InsertJudged
  BY <1>1, SameFacts DEF Keeps, Insert!InsertJudged
<1> QED
  BY <1>1, <1>2, <1>3, <1>4, <1>5, SameFacts DEF InsertInv, Known, Keeps

LEMMA LinesKept == LinesInv /\ [PrepareNext]_all_vars => LinesInv'
<1> SUFFICES ASSUME LinesInv, [PrepareNext]_all_vars PROVE line' = line \/ line' \in Lines \cup {NoLine}
  BY DEF LinesInv
<1>1. CASE PrepareStep
  <2>1. CASE ExpressionStep
    BY <2>1 DEF ExpressionStep, NewNode, BindChild, AddChild, ChildFailed, LeaveNode, WrongTypes,
       OutOfRange, KeepComparison, BindOperand, UnknownOperand, GiveUp
  <2>2. CASE at = "prompt" /\ \E l \in Lines : Begin(l)
    BY <2>2 DEF Begin
  <2>3. CASE NoSuchTable \/ BindColumns \/ UnknownColumn \/ BindWhere \/ WhereFailed \/ KeepWhere
             \/ NameTaken \/ Execute \/ ExecuteCreate \/ statement_free
    BY <2>3 DEF NoSuchTable, BindColumns, UnknownColumn, BindWhere, WhereFailed, KeepWhere,
       NameTaken, Execute, ExecuteCreate, statement_free, Refuse
  <2> QED
    BY <1>1, <2>1, <2>2, <2>3 DEF PrepareStep, Next
<1>2. CASE InsertStep \/ DefinitionStep \/ ReopenStep
  BY <1>2 DEF InsertStep, DefinitionStep, ReopenStep, vars
<1>3. CASE BindInsertValues
  BY <1>3 DEF BindInsertValues, BindInsert, Refuse
<1>4. CASE BindDefinition
  BY <1>4 DEF BindDefinition, BindCreate, Refuse
<1>5. CASE NextPrompt
  BY <1>5 DEF NextPrompt, Prompt
<1>6. CASE UNCHANGED all_vars
  BY <1>6 DEF all_vars, vars
<1> QED
  BY <1>1, <1>2, <1>3, <1>4, <1>5, <1>6 DEF PrepareNext

LEMMA InsertKept == InsertInv /\ LinesInv /\ [PrepareNext]_all_vars => InsertInv'
<1> SUFFICES ASSUME InsertInv, LinesInv, [PrepareNext]_all_vars PROVE InsertInv'
  OBVIOUS
<1>1. CASE InsertStep
  BY <1>1, InsertStarts, InsertStepKeeps DEF InsertStep
<1>2. CASE NextPrompt
  BY <1>2, SchemaFacts DEF NextPrompt, Insert!Reset, InsertInv, Known, Places
<1>3. CASE UNCHANGED insert_vars
  BY <1>3, InsertUnchanged
<1> QED
  BY <1>1, <1>2, <1>3 DEF PrepareNext, PrepareStep, BindInsertValues, DefinitionStep, BindDefinition,
     ReopenStep, all_vars

LEMMA InsertAlways == PrepareSpec => [](InsertInv /\ LinesInv)
BY InsertInitially, LinesKept, InsertKept, PTL DEF PrepareSpec

\* The array of targets has a slot for each column of the table, and the loop
\* over a statement's names, however many there are, writes no slot past the
\* last; and the loops over its values read no slot that was not written.
THEOREM TargetsStayInBounds == PrepareSpec => []TargetsInBounds
<1>1. InsertInv => TargetsInBounds
  <2> SUFFICES ASSUME InsertInv PROVE Insert!TargetsInBounds
    BY DEF TargetsInBounds
  <2>1. ASSUME insert_at \in {"values", "row"} PROVE 1..Len(insert.values) \subseteq DOMAIN targets
    BY <2>1, ValuesAndTargets DEF InsertInv, Known
  <2> QED
    BY <2>1, SchemaFacts DEF InsertInv, Insert!TargetsInBounds
<1> QED
  BY <1>1, InsertAlways, PTL

\* bind_insert accepts exactly the INSERTs that give every column one value that
\* fits, and reports of any other the most basic thing wrong with it.
THEOREM InsertsAreJudged == PrepareSpec => []InsertJudged
<1>1. InsertInv => InsertJudged
  <2> SUFFICES ASSUME InsertInv PROVE Insert!InsertJudged
    BY DEF InsertJudged
  <2>1. ASSUME insert_at = "accepted" PROVE Insert!Acceptable
    <3>1. insert \in Inserts /\ AllTaken /\ ~Insert!CountFault /\ AllListed
          /\ RightUpTo(Len(insert.values))
      BY <2>1 DEF InsertInv, Known
    <3>2. ~Insert!NameFault /\ ~Insert!MissingFault
      BY <3>1, TakenNoFault DEF AllListed
    <3>3. ASSUME NEW m \in DOMAIN insert.values PROVE Insert!Fits(insert.values[m], Insert!Meant(m))
      <4>1. m \in 1..Len(insert.values)
        BY <3>1 DEF Inserts
      <4>2. insert.values[m] \in Value /\ targets[m] = Insert!Meant(m) /\ targets[m] \in 1..num_columns
        BY <3>1, <4>1, ValuesAndTargets
      <4>3. Insert!Fault(insert.values[m], targets[m]) = "none"
        BY <3>1, <4>1 DEF RightUpTo
      <4> QED
        BY <4>2, <4>3, FaultExact
    <3> QED
      BY <3>1, <3>2, <3>3 DEF Insert!Acceptable
  <2>2. ASSUME insert_at = "refused" PROVE Insert!InsertJudged
    BY <2>2 DEF InsertInv, Known
  <2> QED
    BY <2>1, <2>2 DEF Insert!InsertJudged
<1> QED
  BY <1>1, InsertAlways, PTL

-----------------------------------------------------------------------------
\* What there is to say of the definition `a` that the parser makes of a CREATE
\* TABLE

Cols(a) == 1..Len(a.columns)
MaxRow == Definition!leaf_node_max_row_size

SizeOf(a, c) == IF a.columns[c].type = "INT" THEN 4 ELSE a.columns[c].width
Wide(a, c) ==
  a.columns[c].type = "TEXT" /\ (a.columns[c].width_out_of_range \/ a.columns[c].width > MaxRow)
Sizes(a) == [c \in Cols(a) |-> SizeOf(a, c)]
Kept(a) == [c \in Cols(a) |-> IF Wide(a, c) THEN 0 ELSE SizeOf(a, c)]

\* The canonical text, column by column, and closed.
Texts(a) ==
  LET text[k \in 0..Len(a.columns)] ==
        IF k = 0 THEN Definition!Opened(a.name)
        ELSE Definition!WithColumn(text[k - 1], a.columns[k], k = 1)
  IN  text
Whole(a) == Definition!Closed(Texts(a)[Len(a.columns)])

\* The schema of the first k columns.
Offsets(a) == Definition!Sums(Sizes(a))
LaidOut(a, k) ==
  [columns |-> [c \in 1..k |-> [column_id |-> c, name |-> a.columns[c].name,
                                type |-> a.columns[c].type, size |-> SizeOf(a, c),
                                offset |-> Offsets(a)[c - 1]]],
   row_size |-> Offsets(a)[k]]

KeysOf(a) == {c \in DOMAIN a.columns : a.columns[c].primary_key}
LastKey(a) == CHOOSE c \in KeysOf(a) : \A d \in KeysOf(a) : d <= c

DefinitionOf(a) ==
  [name |-> a.name, schema |-> LaidOut(a, Len(a.columns)), key_column_id |-> LastKey(a),
   sql |-> Whole(a)]

\* The six rules of table_definition_from_ast.
NameFits(a) == a.name.bytes <= NameMax
NoTwins(a) == \A c, d \in Cols(a) : d < c => a.columns[c].name.word # a.columns[d].name.word
NoneNarrow(a) ==
  \A c \in Cols(a) : a.columns[c].type = "TEXT" /\ ~a.columns[c].width_out_of_range =>
                       a.columns[c].width >= 1
OneKey(a) ==
  /\ KeysOf(a) # {} /\ ~(Cardinality(KeysOf(a)) > 1)
  /\ a.columns[LastKey(a)].type = "INT"
RowFits(a) == (\A c \in Cols(a) : ~Wide(a, c)) /\ Offsets(a)[Len(a.columns)] <= MaxRow
TextFits(a) == Whole(a).length <= SqlMax

Passed(a) == NameFits(a) /\ NoTwins(a) /\ NoneNarrow(a) /\ OneKey(a) /\ RowFits(a) /\ TextFits(a)

-----------------------------------------------------------------------------
\* What table_definition_from_ast has found out by the time it stands at
\* `definition_at`

FromBuild == {"build", "done", "loaded"}
FromText == {"text", "columns", "length"} \cup FromBuild
FromSum == {"sum"} \cup FromText
FromKeys == {"keys"} \cup FromSum
FromNarrow == {"narrow"} \cup FromKeys
FromTwice == {"twice"} \cup FromNarrow
FromName == {"name"} \cup FromTwice

Checked ==
  /\ definition_at \in FromTwice => NameFits(ast)
  /\ definition_at \in FromNarrow => NoTwins(ast)
  /\ definition_at \in FromKeys => NoneNarrow(ast)
  /\ definition_at \in FromSum => OneKey(ast)
  /\ definition_at \in FromText => RowFits(ast)
  /\ definition_at \in FromBuild => TextFits(ast)

\* What the loop at work has done by its i-th turn.
Looping ==
  /\ definition_at \in {"idle", "name", "twice", "narrow", "keys"} => i = 1 /\ row_size = 0 /\ ~too_wide
  /\ definition_at = "sum" =>
       /\ i \in 1..(Len(ast.columns) + 1) /\ row_size = Definition!Sums(Kept(ast))[i - 1]
       /\ too_wide <=> \E c \in 1..(i - 1) : Wide(ast, c)
  /\ definition_at = "text" => i = 1
  /\ definition_at = "columns" => i \in 1..(Len(ast.columns) + 1) /\ sql = Texts(ast)[i - 1]
  /\ definition_at \in {"length", "build", "done", "loaded"} => sql = Whole(ast)
  /\ definition_at = "build" => i \in 1..(Len(ast.columns) + 1) /\ schema = LaidOut(ast, i - 1)
  /\ definition_at \in {"done", "loaded"} => schema = LaidOut(ast, Len(ast.columns))
  /\ definition_at \notin {"build", "done", "loaded", "refused"} => schema = Definition!NoSchema

DefinitionInv ==
  /\ definition_at \in FromName \cup {"idle", "refused"}
  /\ definition_at \in FromName => ast \in Creates
  /\ Checked
  /\ Looping
  /\ definition_at = "refused" =>
       created = Definition!NoDefinition /\ definition_error = Definition!FirstFault(ast)
  /\ created # Definition!NoDefinition =>
       definition_at # "idle" /\ ast \in Creates /\ Passed(ast) /\ created = DefinitionOf(ast)
  /\ definition_at = "loaded" => created # Definition!NoDefinition

-----------------------------------------------------------------------------
\* Loops that add up

LEMMA SumsAre ==
  ASSUME NEW s \in Seq(Nat)
  PROVE  /\ Len(s) \in Nat
         /\ Definition!Sums(s) \in [0..Len(s) -> Nat]
         /\ Definition!Sums(s)[0] = 0
         /\ \A k \in 1..Len(s) : Definition!Sums(s)[k] = Definition!Sums(s)[k - 1] + s[k]
<1> DEFINE Is(f) == f = [k \in 0..Len(s) |-> IF k = 0 THEN 0 ELSE f[k - 1] + s[k]]
<1>0. PICK top : top = Len(s)
  OBVIOUS
<1>1. top \in Nat /\ \A k \in 1..top : s[k] \in Nat
  BY <1>0
<1>2. PICK f \in [0..top -> Nat] : f[0] = 0 /\ \A k \in 1..top : f[k] = f[k - 1] + s[k]
  BY <1>1, SumLoop
<1>5. Is(f)
  <2>1. \A k \in 0..top : f[k] = IF k = 0 THEN 0 ELSE f[k - 1] + s[k]
    BY <1>1, <1>2
  <2>2. f = [k \in 0..top |-> f[k]]
    BY <1>2
  <2> QED
    BY <1>0, <2>1, <2>2
<1>6. Is(Definition!Sums(s))
  <2>1. Definition!Sums(s) = CHOOSE g : Is(g)
    BY DEF Definition!Sums
  <2> HIDE DEF Is
  <2> QED
    BY <1>5, <2>1
<1> DEFINE g == Definition!Sums(s)
<1> HIDE DEF g
<1>7. g = [k \in 0..top |-> IF k = 0 THEN 0 ELSE g[k - 1] + s[k]]
  BY <1>0, <1>6 DEF g
<1>8. g[0] = 0 /\ \A k \in 1..top : g[k] = g[k - 1] + s[k]
  BY <1>1, <1>7
<1> DEFINE Good == {m \in Nat : m <= top => g[m] \in Nat}
<1>9. Good = Nat
  <2>1. 0 \in Good
    BY <1>8
  <2>2. ASSUME NEW m \in Good PROVE m + 1 \in Good
    <3> SUFFICES ASSUME m + 1 <= top PROVE g[m + 1] \in Nat
      OBVIOUS
    <3>1. g[m] \in Nat /\ m + 1 \in 1..top /\ (m + 1) - 1 = m
      BY <1>1
    <3>2. g[m + 1] = g[m] + s[m + 1] /\ s[m + 1] \in Nat
      BY <1>1, <1>8, <3>1
    <3> QED
      BY <3>1, <3>2
  <2> HIDE DEF Good
  <2>3. Good \in SUBSET Nat
    BY DEF Good
  <2> QED
    BY <2>1, <2>2, <2>3, InductionOver
<1>10. \A k \in 0..top : g[k] \in Nat
  <2>1. \A k \in 0..top : k \in Good /\ k <= top
    <3> HIDE DEF Good
    <3> QED
      BY <1>1, <1>9
  <2> QED
    BY <2>1
<1>11. g \in [0..top -> Nat]
  BY <1>7, <1>10
<1> QED
  BY <1>0, <1>1, <1>8, <1>11 DEF g

\* They only grow.
LEMMA SumsGrow ==
  ASSUME NEW s \in Seq(Nat)
  PROVE  /\ \A j, k \in 0..Len(s) : j <= k => Definition!Sums(s)[j] <= Definition!Sums(s)[k]
         /\ \A k \in 1..Len(s) : s[k] <= Definition!Sums(s)[Len(s)]
<1> DEFINE g == Definition!Sums(s)
           top == Len(s)
<1> HIDE DEF g, top
<1>1. top \in Nat /\ g \in [0..top -> Nat] /\ \A k \in 1..top : g[k] = g[k - 1] + s[k]
  BY SumsAre DEF g, top
<1>2. \A k \in 1..top : s[k] \in Nat
  BY DEF top
<1>3. ASSUME NEW j \in 0..top PROVE \A k \in 0..top : j <= k => g[j] <= g[k]
  <2> DEFINE Good == {m \in Nat : j <= m /\ m <= top => g[j] <= g[m]}
  <2>1. 0 \in Good
    BY <1>1
  <2>2. ASSUME NEW m \in Good PROVE m + 1 \in Good
    <3> SUFFICES ASSUME j <= m + 1, m + 1 <= top PROVE g[j] <= g[m + 1]
      OBVIOUS
    <3>1. CASE j = m + 1
      BY <1>1, <3>1
    <3>2. CASE j <= m
      <4>1. g[j] <= g[m] /\ m \in 0..top /\ m + 1 \in 1..top
        BY <1>1, <3>2
      <4>2. g[m + 1] = g[m] + s[m + 1] /\ s[m + 1] \in Nat /\ g[m] \in Nat /\ g[j] \in Nat
        BY <1>1, <1>2, <4>1
      <4> QED
        BY <4>1, <4>2
    <3> QED
      BY <3>1, <3>2
  <2>3. Good = Nat
    <3>1. Good \in SUBSET Nat
      OBVIOUS
    <3> HIDE DEF Good
    <3> QED
      BY <2>1, <2>2, <3>1, InductionOver
  <2>4. \A k \in 0..top : k \in Good
    <3> HIDE DEF Good
    <3> QED
      BY <1>1, <2>3
  <2> QED
    BY <1>1, <2>4
<1>4. ASSUME NEW k \in 1..top PROVE s[k] <= g[top]
  <2>1. g[k] <= g[top] /\ g[k] = g[k - 1] + s[k] /\ g[k - 1] \in Nat /\ g[top] \in Nat /\ s[k] \in Nat
    BY <1>1, <1>2, <1>3
  <2> QED
    BY <2>1
<1> QED
  BY <1>3, <1>4 DEF g, top

-----------------------------------------------------------------------------
\* The canonical text

Kinds == {"CREATE TABLE", "name", "open", "comma", "INT", "TEXT", "PRIMARY KEY", "close"}
Token == [kind : Kinds] \cup [kind : Kinds, name : NewName] \cup [kind : Kinds, width : Nat]
Text == [tokens : Seq(Token), length : Nat, capacity : Nat \ {0}]

\* Doubling comes to an end, with enough.
LEMMA GrownEnough ==
  ASSUME NEW capacity \in Nat \ {0}, NEW needed \in Nat
  PROVE  Definition!Grown(capacity, needed) \in Nat \ {0} /\ Definition!Grown(capacity, needed) >= needed
<1>1. PICK D : D = Nat \ {0}
  OBVIOUS
<1>2. PICK stop : stop = {c \in D : c >= needed}
  OBVIOUS
<1>3. PICK same : same = [c \in D |-> c]
  OBVIOUS
<1>4. PICK twice : twice = [c \in D |-> 2 * c]
  OBVIOUS
<1>5. PICK rank : rank = [c \in D |-> IF c >= needed THEN 0 ELSE needed - c]
  OBVIOUS
<1>6. rank \in [D -> 0..needed]
  BY <1>1, <1>5
<1>7. \A c \in D \ stop : twice[c] \in D /\ rank[twice[c]] < rank[c]
  BY <1>1, <1>2, <1>4, <1>5
<1> DEFINE Is(f) == f = [c \in Nat \ {0} |-> IF c >= needed THEN c ELSE f[2 * c]]
<1>8. \A f : Follows(f, D, stop, same, twice) <=> Is(f)
  <2> SUFFICES ASSUME NEW f PROVE Follows(f, D, stop, same, twice) <=> Is(f)
    OBVIOUS
  <2>1. \A c \in D : (IF c \in stop THEN same[c] ELSE f[twice[c]]) = (IF c >= needed THEN c ELSE f[2 * c])
    BY <1>2, <1>3, <1>4
  <2>2. [c \in D |-> IF c \in stop THEN same[c] ELSE f[twice[c]]]
          = [c \in D |-> IF c >= needed THEN c ELSE f[2 * c]]
    BY <2>1
  <2> QED
    BY <1>1, <2>2 DEF Follows
<1>9. \E f : Follows(f, D, stop, same, twice)
  BY <1>6, <1>7, PathExists
<1>10. PICK f : Is(f) /\ Definition!Grown(capacity, needed) = f[capacity]
  <2>1. \E f : Is(f)
    BY <1>8, <1>9
  <2>2. Definition!Grown(capacity, needed) = (CHOOSE f : Is(f))[capacity]
    BY DEF Definition!Grown
  <2> HIDE DEF Is
  <2> QED
    BY <2>1, <2>2
<1>11. Follows(f, D, stop, same, twice)
  BY <1>8, <1>10
<1>12. \A c \in D : \E d \in D \cap stop : f[c] = same[d]
  BY <1>6, <1>7, <1>11, PathEnds
<1>13. PICK d \in D \cap stop : f[capacity] = same[d]
  BY <1>1, <1>12
<1>14. d \in Nat \ {0} /\ d >= needed /\ same[d] = d
  BY <1>1, <1>2, <1>3
<1> QED
  BY <1>10, <1>13, <1>14

LEMMA AppendIs ==
  ASSUME NEW text \in Text, NEW tokens \in Seq(Token), NEW bytes \in Nat,
         NEW r, r = Definition!append(text, tokens, bytes)
  PROVE  /\ r \in Text /\ r.length = text.length + bytes
         /\ Len(text.tokens) \in Nat /\ Len(tokens) \in Nat
         /\ Len(r.tokens) = Len(text.tokens) + Len(tokens)
         /\ \A j \in 1..Len(text.tokens) : r.tokens[j] = text.tokens[j]
         /\ \A j \in 1..Len(tokens) : r.tokens[Len(text.tokens) + j] = tokens[j]
<1>1. text.tokens \in Seq(Token) /\ text.length \in Nat /\ text.capacity \in Nat \ {0}
  BY DEF Text
<1>2. PICK needed : needed = text.length + bytes + 1
  OBVIOUS
<1>3. PICK capacity : capacity = Definition!Grown(text.capacity, needed)
  OBVIOUS
<1>4. capacity \in Nat \ {0} /\ capacity >= needed
  <2>1. needed \in Nat
    BY <1>1, <1>2
  <2> QED
    BY <2>1, <1>1, <1>3, GrownEnough
<1>5. r = [tokens |-> text.tokens \o tokens, length |-> text.length + bytes, capacity |-> capacity]
  BY <1>1, <1>2, <1>3, <1>4 DEF Definition!append
<1>6. /\ text.tokens \o tokens \in Seq(Token)
      /\ Len(text.tokens) \in Nat /\ Len(tokens) \in Nat
      /\ Len(text.tokens \o tokens) = Len(text.tokens) + Len(tokens)
      /\ \A j \in 1..Len(text.tokens) : (text.tokens \o tokens)[j] = text.tokens[j]
      /\ \A j \in 1..Len(tokens) : (text.tokens \o tokens)[Len(text.tokens) + j] = tokens[j]
  BY <1>1
<1>7. text.length + bytes \in Nat
  BY <1>1
<1> QED
  BY <1>4, <1>5, <1>6, <1>7 DEF Text

LEMMA SameCardinality == \A S : Definition!Cardinality(S) = Cardinality(S)
BY Zenon DEF Definition!Cardinality, Cardinality

LEMMA DigitsType == \A width : Definition!Digits(width) \in Nat
<1> SUFFICES ASSUME NEW width PROVE Definition!Digits(width) \in Nat
  OBVIOUS
<1>1. PICK S : S = {d \in 1..9 : 10^d <= width}
  OBVIOUS
<1>2. S \in SUBSET (1..9) /\ IsFiniteSet(1..9)
  BY <1>1, IntervalSize
<1>3. Cardinality(S) \in Nat
  BY <1>2, FS_Subset, FS_CardinalityType
<1>4. Definition!Digits(width) = 1 + Cardinality(S)
  <2>1. Definition!Digits(width) = 1 + Definition!Cardinality({d \in 1..9 : 10^d <= width})
    BY Zenon DEF Definition!Digits
  <2>2. Definition!Cardinality(S) = Cardinality(S)
    BY SameCardinality
  <2> QED
    BY <1>1, <2>1, <2>2, Zenon
<1> QED
  BY <1>3, <1>4

-----------------------------------------------------------------------------
\* What a column's text consists of

NameToken(column) == [kind |-> "name", name |-> column.name]
TypeToken(column) ==
  IF column.type = "INT" THEN Definition!Sign("INT") ELSE [kind |-> "TEXT", width |-> column.width]
KeyToken == Definition!Sign("PRIMARY KEY")
Span(column) == IF column.primary_key THEN 4 ELSE 3
ColumnBytes(column) ==
  column.name.bytes + (IF column.primary_key THEN 12 ELSE 0)
  + (IF column.type = "INT" THEN 4 ELSE 7 + Definition!Digits(column.width))

LEMMA CreateFacts ==
  ASSUME NEW a \in Creates
  PROVE  /\ a.name \in NewName /\ Len(a.columns) \in Nat /\ DOMAIN a.columns = Cols(a)
         /\ a = [name |-> a.name, columns |-> a.columns]
         /\ \A c \in Cols(a) : a.columns[c] \in NewColumn
<1>1. a.name \in NewName /\ a.columns \in Seq(NewColumn) /\ a = [name |-> a.name, columns |-> a.columns]
  BY DEF Creates
<1>2. \A c \in 1..Len(a.columns) : a.columns[c] \in NewColumn
  BY <1>1
<1> QED
  BY <1>1, <1>2 DEF Cols

LEMMA ColumnFacts ==
  ASSUME NEW column \in NewColumn
  PROVE  /\ column.name \in NewName /\ column.name.bytes \in Nat /\ column.name.word \in STRING
         /\ column.type \in {"INT", "TEXT"} /\ column.width \in Nat
         /\ column.width_out_of_range \in BOOLEAN /\ column.primary_key \in BOOLEAN
         /\ column.type = "INT" => column.width = 0 /\ ~column.width_out_of_range
         /\ column = [name |-> column.name, type |-> column.type, width |-> column.width,
                      width_out_of_range |-> column.width_out_of_range,
                      primary_key |-> column.primary_key]
         /\ NameToken(column) \in Token /\ TypeToken(column) \in Token
         /\ ColumnBytes(column) \in Nat
<1>1. /\ column.name \in NewName
      /\ column.type \in {"INT", "TEXT"} /\ column.width \in Nat
      /\ column.width_out_of_range \in BOOLEAN /\ column.primary_key \in BOOLEAN
      /\ column.type = "INT" => column.width = 0 /\ ~column.width_out_of_range
  BY DEF NewColumn
<1>2. column = [name |-> column.name, type |-> column.type, width |-> column.width,
                width_out_of_range |-> column.width_out_of_range, primary_key |-> column.primary_key]
  BY DEF NewColumn
<1>3. column.name.bytes \in Nat /\ column.name.word \in STRING
  BY <1>1 DEF NewName
<1>4. NameToken(column) \in Token
  BY <1>1 DEF NameToken, Token, Kinds
<1>5. TypeToken(column) \in Token
  BY <1>1 DEF TypeToken, Token, Kinds, Definition!Sign
<1>6. ColumnBytes(column) \in Nat
  <2>1. Definition!Digits(column.width) \in Nat
    BY DigitsType
  <2> QED
    BY <1>1, <1>3, <2>1 DEF ColumnBytes
<1> QED
  BY <1>1, <1>2, <1>3, <1>4, <1>5, <1>6

\* The text `r` is `text` with its c-th column behind it.
Extended(r, text, column, c) ==
  LET p == Len(text.tokens) + (IF c = 1 THEN 0 ELSE 1)
  IN  /\ r \in Text /\ Len(text.tokens) \in Nat
      /\ r.length = text.length + ColumnBytes(column) + (IF c = 1 THEN 0 ELSE 2)
      /\ Len(r.tokens) = p + Span(column) - 1
      /\ \A j \in 1..Len(text.tokens) : r.tokens[j] = text.tokens[j]
      /\ c # 1 => r.tokens[p] = Definition!Sign("comma")
      /\ r.tokens[p + 1] = NameToken(column)
      /\ r.tokens[p + 2] = TypeToken(column)
      /\ column.primary_key => r.tokens[p + 3] = KeyToken

LEMMA ColumnWritten ==
  ASSUME NEW text \in Text, NEW column \in NewColumn, NEW c \in Nat \ {0},
         NEW r, r = Definition!WithColumn(text, column, c = 1)
  PROVE  Extended(r, text, column, c)
<1>1. /\ column.name.bytes \in Nat /\ column.type \in {"INT", "TEXT"} /\ column.width \in Nat
      /\ column.primary_key \in BOOLEAN /\ NameToken(column) \in Token /\ TypeToken(column) \in Token
  BY ColumnFacts
<1>2. PICK name : name = Definition!WithName(text, column, c = 1)
  OBVIOUS
<1>3. PICK type : type = Definition!WithType(name, column)
  OBVIOUS
<1>4. r = Definition!WithKey(type, column)
  BY <1>2, <1>3 DEF Definition!WithColumn
<1>5. PICK m : m = Len(text.tokens)
  OBVIOUS
<1>6. PICK s : s = IF c = 1 THEN 0 ELSE 1
  OBVIOUS
<1>0. m \in Nat /\ s \in {0, 1}
  BY <1>5, <1>6 DEF Text
<1>7. /\ name \in Text /\ m \in Nat
      /\ name.length = text.length + column.name.bytes + (IF c = 1 THEN 1 ELSE 3)
      /\ Len(name.tokens) = m + s + 1
      /\ \A j \in 1..m : name.tokens[j] = text.tokens[j]
      /\ c # 1 => name.tokens[m + s] = Definition!Sign("comma")
      /\ name.tokens[m + s + 1] = NameToken(column)
  <2>1. PICK tokens : tokens = (IF c = 1 THEN <<>> ELSE <<Definition!Sign("comma")>>) \o <<NameToken(column)>>
    OBVIOUS
  <2>2. PICK bytes : bytes = column.name.bytes + (IF c = 1 THEN 1 ELSE 3)
    OBVIOUS
  <2>3. name = Definition!append(text, tokens, bytes)
    BY <1>2, <2>1, <2>2 DEF Definition!WithName, NameToken
  <2>4. Definition!Sign("comma") \in Token
    BY DEF Definition!Sign, Token, Kinds
  <2>5. /\ tokens \in Seq(Token) /\ Len(tokens) = s + 1
        /\ c # 1 => tokens[s] = Definition!Sign("comma")
        /\ tokens[s + 1] = NameToken(column)
    BY <1>1, <1>6, <2>1, <2>4
  <2>6. bytes \in Nat /\ tokens \in Seq(Token)
    BY <1>1, <2>2, <2>5
  <2>7. /\ name \in Text /\ name.length = text.length + bytes
        /\ Len(text.tokens) \in Nat /\ Len(tokens) \in Nat
        /\ Len(name.tokens) = Len(text.tokens) + Len(tokens)
        /\ \A j \in 1..Len(text.tokens) : name.tokens[j] = text.tokens[j]
        /\ \A j \in 1..Len(tokens) : name.tokens[Len(text.tokens) + j] = tokens[j]
    BY <2>3, <2>6, AppendIs
  <2>8. text.length \in Nat
    BY DEF Text
  <2>9. s \in {0, 1} /\ (c # 1 => s \in 1..Len(tokens)) /\ s + 1 \in 1..Len(tokens)
    BY <1>6, <2>5
  <2>10. name.tokens[m + (s + 1)] = NameToken(column) /\ (c # 1 => name.tokens[m + s] = Definition!Sign("comma"))
    <3>1. name.tokens[m + (s + 1)] = tokens[s + 1] /\ (c # 1 => name.tokens[m + s] = tokens[s])
      BY <1>5, <2>7, <2>9
    <3> QED
      BY <2>5, <3>1
  <2>11. m + (s + 1) = m + s + 1
    BY <1>0
  <2>12. name.length = text.length + column.name.bytes + (IF c = 1 THEN 1 ELSE 3)
    BY <1>1, <2>2, <2>7, <2>8
  <2> QED
    BY <1>5, <2>5, <2>7, <2>10, <2>11, <2>12
<1>8. /\ type \in Text
      /\ type.length = name.length + (IF column.type = "INT" THEN 3 ELSE 6 + Definition!Digits(column.width))
      /\ Len(type.tokens) = m + s + 2
      /\ \A j \in 1..(m + s + 1) : type.tokens[j] = name.tokens[j]
      /\ type.tokens[m + s + 2] = TypeToken(column)
  <2>1. PICK tokens : tokens = <<TypeToken(column)>>
    OBVIOUS
  <2>2. PICK bytes : bytes = IF column.type = "INT" THEN 3 ELSE 6 + Definition!Digits(column.width)
    OBVIOUS
  <2>3. type = Definition!append(name, tokens, bytes)
    BY <1>3, <2>1, <2>2 DEF Definition!WithType, TypeToken
  <2>4. tokens \in Seq(Token) /\ Len(tokens) = 1 /\ tokens[1] = TypeToken(column)
    BY <1>1, <2>1
  <2>5. bytes \in Nat /\ name \in Text /\ tokens \in Seq(Token)
    BY <1>7, <2>2, <2>4, DigitsType
  <2>6. /\ type \in Text /\ type.length = name.length + bytes
        /\ Len(name.tokens) \in Nat /\ Len(tokens) \in Nat
        /\ Len(type.tokens) = Len(name.tokens) + Len(tokens)
        /\ \A j \in 1..Len(name.tokens) : type.tokens[j] = name.tokens[j]
        /\ \A j \in 1..Len(tokens) : type.tokens[Len(name.tokens) + j] = tokens[j]
    BY <2>3, <2>5, AppendIs
  <2>7. PICK x : x = m + s + 1
    OBVIOUS
  <2>8. Len(name.tokens) = x /\ x + 1 = m + s + 2 /\ 1 \in 1..Len(tokens)
    BY <1>0, <1>7, <2>4, <2>7
  <2>9. Len(type.tokens) = x + 1 /\ \A j \in 1..x : type.tokens[j] = name.tokens[j]
    BY <2>4, <2>6, <2>8
  <2>10. type.tokens[x + 1] = TypeToken(column)
    BY <2>4, <2>6, <2>8
  <2>11. type.length = name.length + (IF column.type = "INT" THEN 3 ELSE 6 + Definition!Digits(column.width))
    BY <2>2, <2>6
  <2> QED
    BY <2>6, <2>7, <2>8, <2>9, <2>10, <2>11
<1>9. CASE ~column.primary_key
  <2>1. r = type
    BY <1>4, <1>9 DEF Definition!WithKey
  <2>2. Len(r.tokens) = m + s + Span(column) - 1
    BY <1>6, <1>7, <1>8, <1>9, <2>1 DEF Span
  <2>3. r.length = text.length + ColumnBytes(column) + (IF c = 1 THEN 0 ELSE 2)
    <3>1. text.length \in Nat /\ Definition!Digits(column.width) \in Nat
      BY DigitsType DEF Text
    <3>2. ColumnBytes(column) = column.name.bytes + (type.length - name.length) + 1
      <4>1. (IF column.primary_key THEN 12 ELSE 0) = 0
        BY <1>9
      <4>2. ColumnBytes(column) = column.name.bytes + 0
              + (IF column.type = "INT" THEN 4 ELSE 7 + Definition!Digits(column.width))
        BY <4>1 DEF ColumnBytes
      <4>3. name.length \in Nat
        BY <1>7 DEF Text
      <4>4. PICK digits : digits = Definition!Digits(column.width)
        OBVIOUS
      <4>5. digits \in Nat /\ column.name.bytes \in Nat
        BY <1>1, <3>1, <4>4
      <4>6. type.length = name.length + (IF column.type = "INT" THEN 3 ELSE 6 + digits)
        BY <1>8, <4>4
      <4>7. ColumnBytes(column) = column.name.bytes + 0 + (IF column.type = "INT" THEN 4 ELSE 7 + digits)
        BY <4>2, <4>4
      <4> QED
        BY <4>3, <4>5, <4>6, <4>7
    <3>3. name.length = text.length + column.name.bytes + (IF c = 1 THEN 1 ELSE 3) /\ r.length = type.length
      BY <1>7, <2>1
    <3>4. name.length \in Nat /\ type.length \in Nat
      BY <1>7, <1>8 DEF Text
    <3> QED
      BY <1>1, <3>1, <3>2, <3>3, <3>4
  <2>4. \A j \in 1..m : j \in 1..(m + s + 1)
    BY <1>6, <1>7
  <2>5. m + s \in 1..(m + s + 1) \/ c = 1
    BY <1>6, <1>7
  <2>6. m + s + 1 \in 1..(m + s + 1)
    BY <1>6, <1>7
  <2>7. \A j \in 1..m : r.tokens[j] = text.tokens[j]
    BY <1>7, <1>8, <2>1, <2>4
  <2>8. c # 1 => r.tokens[m + s] = Definition!Sign("comma")
    BY <1>7, <1>8, <2>1, <2>5
  <2>9. r.tokens[m + s + 1] = NameToken(column) /\ r.tokens[m + s + 2] = TypeToken(column)
    BY <1>7, <1>8, <2>1, <2>6
  <2> QED
    BY <1>5, <1>6, <1>7, <1>8, <1>9, <2>1, <2>2, <2>3, <2>7, <2>8, <2>9 DEF Extended
<1>10. CASE column.primary_key
  <2>1. PICK tokens : tokens = <<KeyToken>>
    OBVIOUS
  <2>0. PICK bytes : bytes = 12
    OBVIOUS
  <2>0a. bytes \in Nat
    BY <2>0
  <2>2. r = Definition!append(type, tokens, bytes)
    <3>1. r = Definition!append(type, <<Definition!Sign("PRIMARY KEY")>>, 12)
      BY <1>4, <1>10 DEF Definition!WithKey
    <3> QED
      BY <2>0, <2>1, <3>1 DEF KeyToken
  <2>3. tokens \in Seq(Token) /\ Len(tokens) = 1 /\ tokens[1] = KeyToken
    <3>1. KeyToken \in Token
      BY DEF KeyToken, Definition!Sign, Token, Kinds
    <3> QED
      BY <2>1, <3>1
  <2>4. /\ r \in Text /\ r.length = type.length + bytes
        /\ Len(type.tokens) \in Nat /\ Len(tokens) \in Nat
        /\ Len(r.tokens) = Len(type.tokens) + Len(tokens)
        /\ \A j \in 1..Len(type.tokens) : r.tokens[j] = type.tokens[j]
        /\ \A j \in 1..Len(tokens) : r.tokens[Len(type.tokens) + j] = tokens[j]
    <3>1. type \in Text /\ tokens \in Seq(Token)
      BY <1>8, <2>3
    <3> QED
      BY <2>2, <2>0a, <3>1, AppendIs
  <2>5. s \in {0, 1} /\ m + s + 2 + 1 = m + s + 3 /\ m + s + 3 = m + s + 4 - 1
    BY <1>6, <1>7
  <2>6. Len(r.tokens) = m + s + Span(column) - 1 /\ r.tokens[m + s + 3] = KeyToken
    BY <1>8, <1>10, <2>3, <2>4, <2>5 DEF Span
  <2>7. r.length = text.length + ColumnBytes(column) + (IF c = 1 THEN 0 ELSE 2)
    <3>1. text.length \in Nat /\ Definition!Digits(column.width) \in Nat
      BY DigitsType DEF Text
    <3>2. ColumnBytes(column) = column.name.bytes + (type.length - name.length) + 13
      <4>1. (IF column.primary_key THEN 12 ELSE 0) = 12
        BY <1>10
      <4>2. ColumnBytes(column) = column.name.bytes + 12
              + (IF column.type = "INT" THEN 4 ELSE 7 + Definition!Digits(column.width))
        BY <4>1 DEF ColumnBytes
      <4>3. name.length \in Nat
        BY <1>7 DEF Text
      <4>4. PICK digits : digits = Definition!Digits(column.width)
        OBVIOUS
      <4>5. digits \in Nat /\ column.name.bytes \in Nat
        BY <1>1, <3>1, <4>4
      <4>6. type.length = name.length + (IF column.type = "INT" THEN 3 ELSE 6 + digits)
        BY <1>8, <4>4
      <4>7. ColumnBytes(column) = column.name.bytes + 12 + (IF column.type = "INT" THEN 4 ELSE 7 + digits)
        BY <4>2, <4>4
      <4> QED
        BY <4>3, <4>5, <4>6, <4>7
    <3>3. name.length = text.length + column.name.bytes + (IF c = 1 THEN 1 ELSE 3) /\ r.length = type.length + 12
      BY <1>7, <2>0, <2>4
    <3>4. name.length \in Nat /\ type.length \in Nat
      BY <1>7, <1>8 DEF Text
    <3> QED
      BY <1>1, <3>1, <3>2, <3>3, <3>4
  <2>8. \A j \in 1..(m + s + 1) : r.tokens[j] = name.tokens[j]
    <3>1. \A j \in 1..(m + s + 1) : j \in 1..(m + s + 2)
      BY <1>6, <1>7
    <3> QED
      BY <1>8, <2>4, <3>1
  <2>9. \A j \in 1..m : j \in 1..(m + s + 1)
    BY <1>6, <1>7
  <2>10. m + s \in 1..(m + s + 1) \/ c = 1
    BY <1>6, <1>7
  <2>11. m + s + 1 \in 1..(m + s + 1) /\ m + s + 2 \in 1..(m + s + 2)
    BY <1>6, <1>7
  <2>12. \A j \in 1..m : r.tokens[j] = text.tokens[j]
    BY <1>7, <2>8, <2>9
  <2>13. c # 1 => r.tokens[m + s] = Definition!Sign("comma")
    BY <1>7, <2>8, <2>10
  <2>14. r.tokens[m + s + 1] = NameToken(column)
    BY <1>7, <2>8, <2>11
  <2>15. r.tokens[m + s + 2] = TypeToken(column)
    BY <1>8, <2>4, <2>11
  <2> QED
    BY <1>5, <1>6, <1>7, <1>10, <2>4, <2>6, <2>7, <2>12, <2>13, <2>14, <2>15 DEF Extended
<1> QED
  BY <1>1, <1>9, <1>10

LEMMA OpenedText ==
  ASSUME NEW name \in NewName, NEW r, r = Definition!Opened(name)
  PROVE  /\ r \in Text /\ r.length = 15 + name.bytes /\ Len(r.tokens) = 3
         /\ r.tokens[2] = [kind |-> "name", name |-> name]
         /\ r.tokens[1] = Definition!Sign("CREATE TABLE") /\ r.tokens[3] = Definition!Sign("open")
<1>1. PICK none : none = Definition!NoText
  OBVIOUS
<1>2. PICK tokens : tokens = <<Definition!Sign("CREATE TABLE"), [kind |-> "name", name |-> name],
                               Definition!Sign("open")>>
  OBVIOUS
<1>3. PICK bytes : bytes = 15 + name.bytes
  OBVIOUS
<1>4. r = Definition!append(none, tokens, bytes)
  BY <1>1, <1>2, <1>3 DEF Definition!Opened
<1>5. none \in Text /\ none.length = 0 /\ Len(none.tokens) = 0
  BY <1>1, LimitsAssumption DEF Definition!NoText, Text
<1>6. Definition!Sign("CREATE TABLE") \in Token /\ Definition!Sign("open") \in Token
  BY DEF Definition!Sign, Token, Kinds
<1>7. [kind |-> "name", name |-> name] \in Token
  BY DEF Token, Kinds
<1>8. tokens \in Seq(Token) /\ Len(tokens) = 3
  <2>1. PICK x, y, z : x = Definition!Sign("CREATE TABLE") /\ z = Definition!Sign("open")
                       /\ y = [kind |-> "name", name |-> name]
    OBVIOUS
  <2>2. x \in Token /\ y \in Token /\ z \in Token
    BY <1>6, <1>7, <2>1
  <2>3. tokens = <<x, y, z>>
    BY <1>2, <2>1
  <2> QED
    BY <2>2, <2>3
<1>9. /\ tokens[1] = Definition!Sign("CREATE TABLE") /\ tokens[2] = [kind |-> "name", name |-> name]
      /\ tokens[3] = Definition!Sign("open")
  BY <1>2
<1>10. bytes \in Nat
  BY <1>3 DEF NewName
<1>11. /\ r \in Text /\ r.length = none.length + bytes
       /\ Len(r.tokens) = Len(none.tokens) + Len(tokens)
       /\ \A j \in 1..Len(tokens) : r.tokens[Len(none.tokens) + j] = tokens[j]
  <2>1. tokens \in Seq(Token)
    BY <1>8
  <2>2. none \in Text
    BY <1>5
  <2> QED
    BY <1>4, <1>10, <2>1, <2>2, AppendIs
<1>12. \A j \in 1..3 : r.tokens[0 + j] = tokens[j]
  BY <1>5, <1>8, <1>11
<1>13. r.tokens[1] = tokens[1] /\ r.tokens[2] = tokens[2] /\ r.tokens[3] = tokens[3]
  BY <1>12
<1>14. r.length = 15 + name.bytes /\ Len(r.tokens) = 3
  <2>1. Len(r.tokens) = Len(none.tokens) + Len(tokens) /\ r.length = none.length + bytes
    BY <1>11
  <2>2. r.length = bytes
    BY <1>5, <1>10, <2>1
  <2> QED
    BY <1>3, <1>5, <1>8, <2>1, <2>2
<1> QED
  BY <1>9, <1>11, <1>13, <1>14

LEMMA ClosedText ==
  ASSUME NEW text \in Text, NEW r, r = Definition!Closed(text)
  PROVE  /\ r \in Text /\ r.length = text.length + 1 /\ Len(text.tokens) \in Nat
         /\ Len(r.tokens) = Len(text.tokens) + 1
         /\ \A j \in 1..Len(text.tokens) : r.tokens[j] = text.tokens[j]
         /\ r.tokens[Len(text.tokens) + 1] = Definition!Sign("close")
<1>1. PICK tokens : tokens = <<Definition!Sign("close")>>
  OBVIOUS
<1>2. PICK bytes : bytes = 1
  OBVIOUS
<1>3. r = Definition!append(text, tokens, bytes)
  BY <1>1, <1>2 DEF Definition!Closed
<1>4. Definition!Sign("close") \in Token
  BY DEF Definition!Sign, Token, Kinds
<1>5. tokens \in Seq(Token) /\ Len(tokens) = 1 /\ tokens[1] = Definition!Sign("close")
  BY <1>1, <1>4
<1>6. bytes \in Nat
  BY <1>2
<1>7. /\ r \in Text /\ r.length = text.length + bytes /\ Len(text.tokens) \in Nat
      /\ Len(r.tokens) = Len(text.tokens) + Len(tokens)
      /\ \A j \in 1..Len(text.tokens) : r.tokens[j] = text.tokens[j]
      /\ \A j \in 1..Len(tokens) : r.tokens[Len(text.tokens) + j] = tokens[j]
  <2>1. tokens \in Seq(Token)
    BY <1>5
  <2> QED
    BY <1>3, <1>6, <2>1, AppendIs
<1> QED
  BY <1>2, <1>5, <1>7

LEMMA TextsAre ==
  ASSUME NEW a \in Creates, NEW t, t = Texts(a)
  PROVE  /\ t \in [0..Len(a.columns) -> Text] /\ t[0] = Definition!Opened(a.name)
         /\ \A c \in Cols(a) : t[c] = Definition!WithColumn(t[c - 1], a.columns[c], c = 1)
<1>1. PICK top : top = Len(a.columns)
  OBVIOUS
<1>2. top \in Nat /\ a.name \in NewName /\ Cols(a) = 1..top /\ \A c \in 1..top : a.columns[c] \in NewColumn
  BY <1>1, CreateFacts DEF Cols
<1>3. PICK S : S = Text
  OBVIOUS
<1>4. PICK first : first = Definition!Opened(a.name)
  OBVIOUS
<1>5. PICK step : step = [c \in 1..top |-> [text \in S |-> Definition!WithColumn(text, a.columns[c], c = 1)]]
  OBVIOUS
<1>6. first \in S
  BY <1>2, <1>3, <1>4, OpenedText
<1>7. ASSUME NEW c \in 1..top, NEW x \in S
      PROVE  step[c][x] = Definition!WithColumn(x, a.columns[c], c = 1) /\ step[c][x] \in S
  <2>1. step[c][x] = Definition!WithColumn(x, a.columns[c], c = 1)
    BY <1>5
  <2>2. x \in Text /\ a.columns[c] \in NewColumn /\ c \in Nat \ {0}
    BY <1>2, <1>3
  <2>3. Extended(step[c][x], x, a.columns[c], c)
    BY <2>1, <2>2, ColumnWritten
  <2> QED
    BY <1>3, <2>1, <2>3 DEF Extended
<1>8. Turns(step, top, S)
  BY <1>7 DEF Turns
<1>9. PICK f : LoopOf(f, top, S, first, step)
  BY <1>2, <1>6, <1>8, LoopExists
<1>10. f \in [0..top -> S] /\ f[0] = first /\ \A k \in 1..top : f[k] = step[k][f[k - 1]]
  BY <1>9 DEF LoopOf
<1> DEFINE Is(g) == g = [k \in 0..Len(a.columns) |->
                           IF k = 0 THEN Definition!Opened(a.name)
                           ELSE Definition!WithColumn(g[k - 1], a.columns[k], k = 1)]
<1>11. Is(f)
  <2>1. ASSUME NEW k \in 0..top
        PROVE  f[k] = IF k = 0 THEN Definition!Opened(a.name)
                      ELSE Definition!WithColumn(f[k - 1], a.columns[k], k = 1)
    <3>1. CASE k = 0
      BY <1>4, <1>10, <3>1
    <3>2. CASE k # 0
      <4>1. k \in 1..top /\ k - 1 \in 0..top
        BY <1>2, <3>2
      <4>2. f[k - 1] \in S /\ f[k] = step[k][f[k - 1]]
        BY <1>10, <4>1
      <4> QED
        BY <1>7, <3>2, <4>1, <4>2
    <3> QED
      BY <3>1, <3>2
  <2>2. f = [k \in 0..top |-> f[k]]
    BY <1>10
  <2> QED
    BY <1>1, <2>1, <2>2
<1>12. Is(t)
  <2>1. t = CHOOSE g : Is(g)
    BY DEF Texts
  <2> HIDE DEF Is
  <2> QED
    BY <1>11, <2>1
<1>13. /\ DOMAIN t = 0..top /\ t = [k \in 0..top |-> t[k]]
       /\ t[0] = first
       /\ \A c \in 1..top : t[c] = Definition!WithColumn(t[c - 1], a.columns[c], c = 1)
  BY <1>1, <1>2, <1>4, <1>12
<1> DEFINE Good == {m \in Nat : m <= top => t[m] \in S}
<1>14. Good = Nat
  <2>1. 0 \in Good
    BY <1>6, <1>13
  <2>2. ASSUME NEW m \in Good PROVE m + 1 \in Good
    <3> SUFFICES ASSUME m + 1 <= top PROVE t[m + 1] \in S
      OBVIOUS
    <3>1. t[m] \in S /\ m + 1 \in 1..top /\ (m + 1) - 1 = m
      BY <1>2
    <3>2. t[m + 1] = Definition!WithColumn(t[m], a.columns[m + 1], m + 1 = 1)
      BY <1>13, <3>1
    <3>3. step[m + 1][t[m]] = Definition!WithColumn(t[m], a.columns[m + 1], m + 1 = 1)
          /\ step[m + 1][t[m]] \in S
      BY <1>7, <3>1
    <3> QED
      BY <3>2, <3>3
  <2>3. Good \in SUBSET Nat
    OBVIOUS
  <2> HIDE DEF Good
  <2> QED
    BY <2>1, <2>2, <2>3, InductionOver
<1>15. \A k \in 0..top : t[k] \in S
  <2>1. \A k \in 0..top : k \in Good /\ k <= top
    <3> HIDE DEF Good
    <3> QED
      BY <1>2, <1>14
  <2> QED
    BY <2>1
<1>16. t \in [0..top -> S]
  BY <1>13, <1>15
<1> QED
  BY <1>1, <1>2, <1>3, <1>4, <1>13, <1>16

LEMMA SumsOf ==
  ASSUME NEW top \in Nat, NEW s \in [1..top -> Nat], NEW g, g = Definition!Sums(s)
  PROVE  /\ g \in [0..top -> Nat] /\ g[0] = 0 /\ \A k \in 1..top : g[k] = g[k - 1] + s[k]
         /\ \A j, k \in 0..top : j <= k => g[j] <= g[k]
         /\ \A k \in 1..top : s[k] <= g[top]
<1>1. s \in Seq(Nat) /\ Len(s) = top
  OBVIOUS
<1> QED
  BY <1>1, SumsAre, SumsGrow

-----------------------------------------------------------------------------
\* Where everything stands in a canonical text

\* The place of the sign before column c: the one after the last column's place
\* is that of the closing sign.
Spans(a) == [c \in Cols(a) |-> Span(a.columns[c])]
SignAt(a, c) == 3 + Definition!Sums(Spans(a))[c - 1]

LEMMA SignsGrow ==
  ASSUME NEW a \in Creates, NEW top, top = Len(a.columns)
  PROVE  /\ top \in Nat /\ SignAt(a, 1) = 3
         /\ \A c \in 1..(top + 1) : SignAt(a, c) \in Nat /\ SignAt(a, c) >= 3
         /\ \A c \in 1..top : /\ Span(a.columns[c]) \in {3, 4}
                              /\ SignAt(a, c + 1) = SignAt(a, c) + Span(a.columns[c])
         /\ \A c, d \in 1..(top + 1) : c < d => SignAt(a, c) + 3 <= SignAt(a, d)
<1>1. top \in Nat /\ Cols(a) = 1..top
  BY CreateFacts DEF Cols
<1>2. PICK s : s = Spans(a)
  OBVIOUS
<1>3. \A c \in 1..top : Span(a.columns[c]) \in {3, 4} /\ s[c] = Span(a.columns[c])
  BY <1>1, <1>2 DEF Spans, Span
<1>4. s \in [1..top -> Nat]
  <2>1. \A c \in 1..top : s[c] \in Nat
    BY <1>3
  <2>2. s = [c \in 1..top |-> s[c]]
    BY <1>1, <1>2 DEF Spans
  <2> QED
    BY <2>1, <2>2
<1>5. PICK g : g = Definition!Sums(s)
  OBVIOUS
<1>6. /\ g \in [0..top -> Nat] /\ g[0] = 0 /\ \A k \in 1..top : g[k] = g[k - 1] + s[k]
      /\ \A j, k \in 0..top : j <= k => g[j] <= g[k]
  BY <1>1, <1>4, <1>5, SumsOf
<1>7. \A c : SignAt(a, c) = 3 + g[c - 1]
  BY <1>2, <1>5 DEF SignAt
<1>8. SignAt(a, 1) = 3
  BY <1>6, <1>7
<1>9. \A c \in 1..(top + 1) : c - 1 \in 0..top /\ g[c - 1] \in Nat
  BY <1>1, <1>6
<1>10. \A c \in 1..(top + 1) : SignAt(a, c) \in Nat /\ SignAt(a, c) >= 3
  BY <1>7, <1>9
<1>11. ASSUME NEW c \in 1..top PROVE SignAt(a, c + 1) = SignAt(a, c) + Span(a.columns[c])
  <2>1. c + 1 - 1 = c /\ c \in 1..(top + 1)
    BY <1>1
  <2>2. g[c] = g[c - 1] + s[c] /\ g[c - 1] \in Nat /\ s[c] \in {3, 4}
    BY <1>3, <1>6, <1>9, <2>1
  <2>3. SignAt(a, c + 1) = 3 + g[c] /\ SignAt(a, c) = 3 + g[c - 1]
    BY <1>7, <2>1
  <2> QED
    BY <1>3, <2>2, <2>3
<1>12. ASSUME NEW c \in 1..(top + 1), NEW d \in 1..(top + 1), c < d PROVE SignAt(a, c) + 3 <= SignAt(a, d)
  <2>1. c \in 1..top /\ c \in 0..top /\ d - 1 \in 0..top /\ c <= d - 1
    BY <1>1, <1>12
  <2>2. g[c] <= g[d - 1]
    BY <1>6, <2>1
  <2>3. g[c] = g[c - 1] + s[c]
    BY <1>6, <2>1
  <2>4. s[c] \in {3, 4}
    BY <1>3, <2>1
  <2>5. g[c - 1] \in Nat /\ g[d - 1] \in Nat
    BY <1>9
  <2> QED
    BY <1>7, <2>2, <2>3, <2>4, <2>5
<1> QED
  BY <1>1, <1>3, <1>8, <1>10, <1>11, <1>12

\* Column c stands at its place in the text `t`.
ColumnAt(t, a, c) ==
  LET p == SignAt(a, c)
      column == a.columns[c]
  IN  /\ t[p] = Definition!Sign(IF c = 1 THEN "open" ELSE "comma")
      /\ t[p + 1] = NameToken(column) /\ t[p + 2] = TypeToken(column)
      /\ column.primary_key => t[p + 3] = KeyToken

SignKinds == {"open", "comma", "close"}
After(a, k) == IF k = 0 THEN 3 ELSE SignAt(a, k + 1) - 1

\* The first k columns stand at theirs, and no sign anywhere else.
Laid(t, a, k) ==
  /\ t \in Seq(Token) /\ Len(t) = After(a, k)
  /\ t[2] = [kind |-> "name", name |-> a.name]
  /\ t[3] = Definition!Sign("open")
  /\ \A c \in 1..k : ColumnAt(t, a, c)
  /\ \A j \in 1..Len(t) : t[j].kind \in SignKinds => j = 3 \/ \E c \in 1..k : j = SignAt(a, c)

\* A text with the same beginning has it there too.
LEMMA LaidStays ==
  ASSUME NEW a \in Creates, NEW k \in 0..Len(a.columns), NEW t, Laid(t, a, k),
         NEW u, \A j \in 1..Len(t) : u[j] = t[j]
  PROVE  /\ Len(t) \in Nat /\ u[2] = t[2] /\ u[3] = t[3]
         /\ \A c \in 1..k : ColumnAt(u, a, c)
         /\ \A j \in 1..Len(t) : u[j].kind \in SignKinds => j = 3 \/ \E c \in 1..k : j = SignAt(a, c)
<1>1. PICK top : top = Len(a.columns)
  OBVIOUS
<1>2. /\ top \in Nat /\ SignAt(a, 1) = 3
      /\ \A c \in 1..(top + 1) : SignAt(a, c) \in Nat /\ SignAt(a, c) >= 3
      /\ \A c \in 1..top : /\ Span(a.columns[c]) \in {3, 4}
                           /\ SignAt(a, c + 1) = SignAt(a, c) + Span(a.columns[c])
      /\ \A c, d \in 1..(top + 1) : c < d => SignAt(a, c) + 3 <= SignAt(a, d)
  BY <1>1, SignsGrow
<1>3. k \in Nat /\ k <= top
  BY <1>1, <1>2
<1>4. Len(t) \in Nat /\ Len(t) >= 3 /\ Len(t) = After(a, k)
  <2>1. Len(t) = After(a, k)
    BY DEF Laid
  <2>2. CASE k = 0
    BY <2>1, <2>2 DEF After
  <2>3. CASE k # 0
    <3>1. k + 1 \in 1..(top + 1) /\ 1 \in 1..(top + 1) /\ 1 < k + 1
      BY <1>3, <1>2, <2>3
    <3>2. SignAt(a, 1) + 3 <= SignAt(a, k + 1) /\ SignAt(a, k + 1) \in Nat
      BY <1>2, <3>1
    <3> QED
      BY <1>2, <2>1, <2>3, <3>2 DEF After
  <2> QED
    BY <2>2, <2>3
<1>5. u[2] = t[2] /\ u[3] = t[3]
  <2>1. 2 \in 1..Len(t) /\ 3 \in 1..Len(t)
    BY <1>4
  <2> QED
    BY <2>1
<1>6. ASSUME NEW c \in 1..k PROVE ColumnAt(u, a, c)
  <2>1. PICK p : p = SignAt(a, c)
    OBVIOUS
  <2>2. c \in 1..top /\ c \in 1..(top + 1) /\ c + 1 \in 1..(top + 1) /\ k + 1 \in 1..(top + 1) /\ k # 0
        /\ (c + 1 = k + 1 \/ c + 1 < k + 1)
    BY <1>2, <1>3
  <2>3. p \in Nat /\ p >= 3 /\ SignAt(a, c + 1) = p + Span(a.columns[c]) /\ Span(a.columns[c]) \in {3, 4}
    BY <1>2, <2>1, <2>2
  <2>4. SignAt(a, c + 1) <= SignAt(a, k + 1) /\ SignAt(a, k + 1) \in Nat
    <3>1. SignAt(a, c + 1) \in Nat /\ SignAt(a, k + 1) \in Nat
      BY <1>2, <2>2
    <3>2. CASE c + 1 = k + 1
      BY <3>1, <3>2
    <3>3. CASE c + 1 < k + 1
      <4>1. SignAt(a, c + 1) + 3 <= SignAt(a, k + 1)
        BY <1>2, <2>2, <3>3
      <4> QED
        BY <3>1, <4>1
    <3> QED
      BY <2>2, <3>2, <3>3
  <2>5. p + Span(a.columns[c]) - 1 <= Len(t)
    BY <1>4, <2>2, <2>3, <2>4 DEF After
  <2>6. p \in 1..Len(t) /\ p + 1 \in 1..Len(t) /\ p + 2 \in 1..Len(t)
    BY <1>4, <2>3, <2>5
  <2>7. a.columns[c].primary_key => p + 3 \in 1..Len(t)
    BY <1>4, <2>3, <2>5 DEF Span
  <2>8. ColumnAt(t, a, c)
    BY DEF Laid
  <2> QED
    BY <2>1, <2>6, <2>7, <2>8 DEF ColumnAt
<1>7. \A j \in 1..Len(t) : u[j].kind \in SignKinds => j = 3 \/ \E c \in 1..k : j = SignAt(a, c)
  BY DEF Laid
<1> QED
  BY <1>4, <1>5, <1>6, <1>7

LEMMA LaidGrows ==
  ASSUME NEW a \in Creates, NEW c \in Cols(a), NEW text \in Text, Laid(text.tokens, a, c - 1),
         NEW r, Extended(r, text, a.columns[c], c)
  PROVE  Laid(r.tokens, a, c)
<1>1. PICK top : top = Len(a.columns)
  OBVIOUS
<1>2. /\ top \in Nat /\ SignAt(a, 1) = 3
      /\ \A d \in 1..(top + 1) : SignAt(a, d) \in Nat /\ SignAt(a, d) >= 3
      /\ \A d \in 1..top : /\ Span(a.columns[d]) \in {3, 4}
                           /\ SignAt(a, d + 1) = SignAt(a, d) + Span(a.columns[d])
  BY <1>1, SignsGrow
<1>3. c \in 1..top /\ c \in Nat /\ c - 1 \in 0..Len(a.columns) /\ c \in 1..(top + 1)
  BY <1>1, <1>2 DEF Cols
<1>4. PICK t : t = text.tokens
  OBVIOUS
<1>5. PICK u : u = r.tokens
  OBVIOUS
<1>6. PICK column : column = a.columns[c]
  OBVIOUS
<1>7. PICK p : p = SignAt(a, c)
  OBVIOUS
<1>8. PICK m : m = Len(t)
  OBVIOUS
<1>9. Laid(t, a, c - 1)
  BY <1>4
<1>10. m + (IF c = 1 THEN 0 ELSE 1) = p /\ p \in Nat /\ p >= 3 /\ m \in Nat
  <2>1. m = After(a, c - 1)
    BY <1>8, <1>9 DEF Laid
  <2>2. CASE c = 1
    BY <1>2, <1>7, <2>1, <2>2 DEF After
  <2>3. CASE c # 1
    <3>1. c - 1 # 0 /\ c - 1 + 1 = c
      BY <1>3, <2>3
    <3>2. m = SignAt(a, c - 1 + 1) - 1
      BY <2>1, <3>1 DEF After
    <3>3. m = p - 1 /\ p \in Nat /\ p >= 3
      BY <1>2, <1>3, <1>7, <3>1, <3>2
    <3> QED
      BY <2>3, <3>3
  <2> QED
    BY <2>2, <2>3
<1>11. /\ u \in Seq(Token) /\ Len(u) = p + Span(column) - 1
       /\ \A j \in 1..m : u[j] = t[j]
       /\ c # 1 => u[p] = Definition!Sign("comma")
       /\ u[p + 1] = NameToken(column) /\ u[p + 2] = TypeToken(column)
       /\ column.primary_key => u[p + 3] = KeyToken
  BY <1>4, <1>5, <1>6, <1>8, <1>10 DEF Extended, Text
<1>12. /\ u[2] = t[2] /\ u[3] = t[3]
       /\ \A d \in 1..(c - 1) : ColumnAt(u, a, d)
       /\ \A j \in 1..m : u[j].kind \in SignKinds => j = 3 \/ \E d \in 1..(c - 1) : j = SignAt(a, d)
  <2>1. \A j \in 1..Len(t) : u[j] = t[j]
    BY <1>8, <1>11
  <2>2. PICK k : k = c - 1
    OBVIOUS
  <2>3. k \in 0..Len(a.columns) /\ Laid(t, a, k)
    BY <1>3, <1>9, <2>2
  <2>4. /\ u[2] = t[2] /\ u[3] = t[3]
        /\ \A d \in 1..k : ColumnAt(u, a, d)
        /\ \A j \in 1..Len(t) : u[j].kind \in SignKinds => j = 3 \/ \E d \in 1..k : j = SignAt(a, d)
    BY <2>1, <2>3, LaidStays
  <2> QED
    BY <1>8, <2>2, <2>4
<1>13. t[2] = [kind |-> "name", name |-> a.name] /\ t[3] = Definition!Sign("open")
  BY <1>9 DEF Laid
<1>14. ColumnAt(u, a, c)
  <2>1. u[p] = Definition!Sign(IF c = 1 THEN "open" ELSE "comma")
    <3>1. CASE c = 1
      BY <1>2, <1>7, <1>12, <1>13, <3>1
    <3>2. CASE c # 1
      BY <1>11, <3>2
    <3> QED
      BY <3>1, <3>2
  <2> QED
    BY <1>6, <1>7, <1>11, <2>1 DEF ColumnAt
<1>15. \A d \in 1..c : ColumnAt(u, a, d)
  <2>1. \A d \in 1..c : d = c \/ d \in 1..(c - 1)
    BY <1>3
  <2> QED
    BY <1>12, <1>14, <2>1
<1>16. Len(u) = After(a, c)
  <2>1. SignAt(a, c + 1) = p + Span(column)
    BY <1>2, <1>3, <1>6, <1>7
  <2>2. c # 0
    BY <1>3
  <2>3. After(a, c) = SignAt(a, c + 1) - 1
    BY <2>2 DEF After
  <2>4. Len(u) = p + Span(column) - 1
    BY <1>11
  <2>5. p \in Nat /\ Span(column) \in {3, 4}
    BY <1>10 DEF Span
  <2>6. Len(u) = SignAt(a, c + 1) - 1
    BY <2>1, <2>4, <2>5
  <2> QED
    BY <2>3, <2>6
<1>17. ASSUME NEW j \in 1..Len(u), u[j].kind \in SignKinds
       PROVE  j = 3 \/ \E d \in 1..c : j = SignAt(a, d)
  <2>1. CASE j \in 1..m
    <3>1. \A d \in 1..(c - 1) : d \in 1..c
      BY <1>3
    <3> QED
      BY <1>12, <1>17, <2>1, <3>1
  <2>2. CASE j = p
    <3>1. c \in 1..c
      BY <1>3
    <3> QED
      BY <1>7, <2>2, <3>1
  <2>3. CASE j \notin 1..m /\ j # p
    <3>1. Span(column) \in {3, 4} /\ (Span(column) = 4 => column.primary_key)
      BY DEF Span
    <3>2. j = p + 1 \/ j = p + 2 \/ (j = p + 3 /\ column.primary_key)
      <4>1. j \in Nat /\ j > m /\ j < p + Span(column)
        BY <1>10, <1>11, <2>3, <3>1
      <4>2. j > p /\ j < p + Span(column)
        BY <1>10, <2>3, <4>1
      <4> QED
        BY <1>10, <3>1, <4>1, <4>2
    <3>3. NameToken(column).kind \notin SignKinds /\ KeyToken.kind \notin SignKinds
      BY DEF NameToken, KeyToken, Definition!Sign, SignKinds
    <3>4. TypeToken(column).kind \notin SignKinds
      BY DEF TypeToken, Definition!Sign, SignKinds
    <3> QED
      BY <1>11, <1>17, <3>2, <3>3, <3>4
  <2> QED
    BY <2>1, <2>2, <2>3
<1> QED
  BY <1>5, <1>11, <1>12, <1>13, <1>15, <1>16, <1>17 DEF Laid

Bytes(a) == [c \in Cols(a) |-> ColumnBytes(a.columns[c])]
BytesAfter(a, k) ==
  15 + a.name.bytes + (IF k = 0 THEN 0 ELSE 2 * (k - 1)) + Definition!Sums(Bytes(a))[k]

LEMMA BytesAre ==
  ASSUME NEW a \in Creates, NEW top, top = Len(a.columns), NEW g, g = Definition!Sums(Bytes(a))
  PROVE  /\ top \in Nat /\ g \in [0..top -> Nat] /\ g[0] = 0
         /\ \A c \in 1..top : g[c] = g[c - 1] + ColumnBytes(a.columns[c])
<1>1. top \in Nat /\ Cols(a) = 1..top /\ \A c \in 1..top : a.columns[c] \in NewColumn
  BY CreateFacts DEF Cols
<1>2. PICK s : s = Bytes(a)
  OBVIOUS
<1>3. \A c \in 1..top : ColumnBytes(a.columns[c]) \in Nat
  BY <1>1, ColumnFacts
<1>4. s \in [1..top -> Nat] /\ \A c \in 1..top : s[c] = ColumnBytes(a.columns[c])
  <2>1. s = [c \in 1..top |-> ColumnBytes(a.columns[c])]
    BY <1>1, <1>2 DEF Bytes
  <2> QED
    BY <1>3, <2>1
<1>5. g \in [0..top -> Nat] /\ g[0] = 0 /\ \A k \in 1..top : g[k] = g[k - 1] + s[k]
  BY <1>1, <1>2, <1>4, SumsOf
<1> QED
  BY <1>1, <1>4, <1>5

LEMMA TextsLaid ==
  ASSUME NEW a \in Creates, NEW k \in 0..Len(a.columns)
  PROVE  /\ Texts(a)[k] \in Text /\ Laid(Texts(a)[k].tokens, a, k)
         /\ Texts(a)[k].length = BytesAfter(a, k)
<1>1. PICK top : top = Len(a.columns)
  OBVIOUS
<1>2. PICK t : t = Texts(a)
  OBVIOUS
<1>3. PICK g : g = Definition!Sums(Bytes(a))
  OBVIOUS
<1>4. /\ top \in Nat /\ g \in [0..top -> Nat] /\ g[0] = 0
      /\ \A c \in 1..top : g[c] = g[c - 1] + ColumnBytes(a.columns[c])
  BY <1>1, <1>3, BytesAre
<1>5. /\ t \in [0..top -> Text] /\ t[0] = Definition!Opened(a.name)
      /\ \A c \in 1..top : t[c] = Definition!WithColumn(t[c - 1], a.columns[c], c = 1)
  BY <1>1, <1>2, TextsAre DEF Cols
<1>6. /\ Cols(a) = 1..top /\ a.name \in NewName /\ a.name.bytes \in Nat
      /\ \A c \in 1..top : a.columns[c] \in NewColumn /\ ColumnBytes(a.columns[c]) \in Nat
  BY <1>1, CreateFacts, ColumnFacts DEF Cols, NewName
<1> DEFINE Right(m) == Laid(t[m].tokens, a, m) /\ t[m].length = BytesAfter(a, m)
           Good == {m \in Nat : m <= top => Right(m)}
<1>7. Right(0)
  <2>1. PICK r : r = t[0]
    OBVIOUS
  <2>2. /\ r \in Text /\ r.length = 15 + a.name.bytes /\ Len(r.tokens) = 3
        /\ r.tokens[2] = [kind |-> "name", name |-> a.name]
        /\ r.tokens[1] = Definition!Sign("CREATE TABLE") /\ r.tokens[3] = Definition!Sign("open")
    <3>1. PICK name : name = a.name
      OBVIOUS
    <3>2. name \in NewName /\ r = Definition!Opened(name)
      BY <1>5, <1>6, <2>1, <3>1
    <3>3. /\ r \in Text /\ r.length = 15 + name.bytes /\ Len(r.tokens) = 3
          /\ r.tokens[2] = [kind |-> "name", name |-> name]
          /\ r.tokens[1] = Definition!Sign("CREATE TABLE") /\ r.tokens[3] = Definition!Sign("open")
      BY <3>2, OpenedText
    <3> QED
      BY <3>1, <3>3
  <2>3. BytesAfter(a, 0) = 15 + a.name.bytes
    <3>1. BytesAfter(a, 0) = 15 + a.name.bytes + 0 + g[0]
      BY <1>3 DEF BytesAfter
    <3> QED
      BY <1>4, <1>6, <3>1
  <2>4. \A j \in 1..3 : r.tokens[j].kind \in SignKinds => j = 3
    <3>1. r.tokens[1].kind \notin SignKinds /\ r.tokens[2].kind \notin SignKinds
      <4>1. r.tokens[1].kind = "CREATE TABLE"
        <5>1. r.tokens[1] = Definition!Sign("CREATE TABLE")
          BY <2>2
        <5>2. Definition!Sign("CREATE TABLE").kind = "CREATE TABLE"
          BY DEF Definition!Sign
        <5> QED
          BY <5>1, <5>2
      <4>2. r.tokens[2].kind = "name"
        <5>1. r.tokens[2] = [kind |-> "name", name |-> a.name]
          BY <2>2
        <5> QED
          BY <5>1
      <4> QED
        BY <4>1, <4>2 DEF SignKinds
    <3>2. \A j \in 1..3 : j = 1 \/ j = 2 \/ j = 3
      OBVIOUS
    <3> QED
      BY <3>1, <3>2
  <2>5. Laid(r.tokens, a, 0)
    <3>1. r.tokens \in Seq(Token)
      BY <2>2 DEF Text
    <3>2. Len(r.tokens) = After(a, 0) /\ Len(r.tokens) = 3
      BY <2>2 DEF After
    <3>3. \A c \in 1..0 : ColumnAt(r.tokens, a, c)
      OBVIOUS
    <3>4. r.tokens[2] = [kind |-> "name", name |-> a.name] /\ r.tokens[3] = Definition!Sign("open")
      BY <2>2
    <3>5. \A j \in 1..Len(r.tokens) : r.tokens[j].kind \in SignKinds => j = 3
      BY <2>4, <3>2
    <3> QED
      BY <3>1, <3>2, <3>3, <3>4, <3>5 DEF Laid
  <2> QED
    BY <2>1, <2>2, <2>3, <2>5
<1>8. ASSUME NEW m \in Good PROVE m + 1 \in Good
  <2> SUFFICES ASSUME m + 1 <= top PROVE Right(m + 1)
    <3> HIDE DEF Right
    <3> QED
      OBVIOUS
  <2>1. m \in Nat /\ m <= top
    BY <1>4
  <2>2. PICK c : c = m + 1
    OBVIOUS
  <2>3. c \in 1..top /\ c - 1 = m /\ m \in 0..top
    BY <1>4, <2>1, <2>2
  <2>4. Right(m)
    <3> HIDE DEF Right
    <3> QED
      BY <2>1
  <2>5. PICK text : text = t[m]
    OBVIOUS
  <2>6. PICK r : r = t[c]
    OBVIOUS
  <2>7. text \in Text /\ Laid(text.tokens, a, c - 1) /\ text.length = BytesAfter(a, m)
    BY <1>5, <2>3, <2>4, <2>5
  <2>8. r = Definition!WithColumn(text, a.columns[c], c = 1)
    BY <1>5, <2>3, <2>5, <2>6
  <2>9. Extended(r, text, a.columns[c], c)
    BY <1>6, <2>3, <2>7, <2>8, ColumnWritten
  <2>10. Laid(r.tokens, a, c)
    BY <1>6, <2>3, <2>7, <2>9, LaidGrows
  <2>11. r.length = BytesAfter(a, c)
    <3>1. r.length = text.length + ColumnBytes(a.columns[c]) + (IF c = 1 THEN 0 ELSE 2)
      BY <2>9 DEF Extended
    <3>2. PICK b : b = ColumnBytes(a.columns[c])
      OBVIOUS
    <3>3. b \in Nat /\ g[c] = g[m] + b /\ g[m] \in Nat
      BY <1>4, <1>6, <2>3, <3>2
    <3>4. text.length = 15 + a.name.bytes + (IF m = 0 THEN 0 ELSE 2 * (m - 1)) + g[m]
      BY <1>3, <2>7 DEF BytesAfter
    <3>5. BytesAfter(a, c) = 15 + a.name.bytes + (IF c = 0 THEN 0 ELSE 2 * (c - 1)) + g[c]
      BY <1>3 DEF BytesAfter
    <3>6. CASE m = 0
      BY <1>6, <2>2, <3>1, <3>2, <3>3, <3>4, <3>5, <3>6
    <3>7. CASE m # 0
      <4>1. PICK x : x = a.name.bytes
        OBVIOUS
      <4>2. x \in Nat
        BY <1>6, <4>1
      <4>3. text.length = 15 + x + 2 * (m - 1) + g[m]
        BY <3>4, <3>7, <4>1
      <4>4. BytesAfter(a, c) = 15 + x + 2 * (c - 1) + g[c] /\ c # 1
        BY <2>1, <2>2, <3>5, <3>7, <4>1
      <4>5. r.length = text.length + b + 2
        BY <3>1, <3>2, <4>4
      <4> QED
        BY <2>1, <2>2, <3>3, <4>2, <4>3, <4>4, <4>5
    <3> QED
      BY <3>6, <3>7
  <2> QED
    BY <2>2, <2>6, <2>10, <2>11
<1>9. Good = Nat
  <2>1. 0 \in Good
    <3> HIDE DEF Right
    <3> QED
      BY <1>7
  <2>2. Good \in SUBSET Nat
    OBVIOUS
  <2> HIDE DEF Good
  <2> QED
    BY <1>8, <2>1, <2>2, InductionOver
<1>10. Right(k)
  <2>1. k \in Good /\ k <= top /\ k \in Nat
    <3> HIDE DEF Good
    <3> QED
      BY <1>1, <1>4, <1>9
  <2> HIDE DEF Right
  <2> QED
    BY <2>1
<1>11. t[k] \in Text
  BY <1>1, <1>5
<1> QED
  BY <1>2, <1>10, <1>11

\* The text as a whole: the columns and the closing sign at their places.
WholeAt(t, a, top) ==
  /\ t \in Seq(Token) /\ Len(t) = SignAt(a, top + 1)
  /\ t[2] = [kind |-> "name", name |-> a.name]
  /\ \A c \in 1..top : ColumnAt(t, a, c)
  /\ t[SignAt(a, top + 1)] = Definition!Sign("close")
  /\ \A j \in 1..Len(t) : t[j].kind \in SignKinds => \E c \in 1..(top + 1) : j = SignAt(a, c)

LEMMA WholeLaid ==
  ASSUME NEW a \in Creates, NEW top, top = Len(a.columns), top # 0
  PROVE  /\ Whole(a) \in Text /\ Whole(a).length = Definition!TextBytes(a)
         /\ WholeAt(Whole(a).tokens, a, top)
<1>0. PICK t : t = Whole(a).tokens
  OBVIOUS
<1>1. /\ top \in Nat /\ SignAt(a, 1) = 3
      /\ \A c \in 1..(top + 1) : SignAt(a, c) \in Nat /\ SignAt(a, c) >= 3
  BY SignsGrow
<1>2. PICK text : text = Texts(a)[top]
  OBVIOUS
<1>3. text \in Text /\ Laid(text.tokens, a, top) /\ text.length = BytesAfter(a, top)
  <2>1. top \in 0..Len(a.columns)
    BY <1>1
  <2> QED
    BY <1>2, <2>1, TextsLaid
<1>4. PICK r : r = Whole(a)
  OBVIOUS
<1>5. PICK m : m = Len(text.tokens)
  OBVIOUS
<1>6. /\ r \in Text /\ r.length = text.length + 1 /\ m \in Nat
      /\ Len(r.tokens) = m + 1
      /\ \A j \in 1..m : r.tokens[j] = text.tokens[j]
      /\ r.tokens[m + 1] = Definition!Sign("close")
  <2>1. r = Definition!Closed(text)
    BY <1>2, <1>4 DEF Whole
  <2> QED
    BY <1>3, <1>5, <2>1, ClosedText
<1>7. m + 1 = SignAt(a, top + 1)
  <2>1. m = After(a, top)
    BY <1>3, <1>5 DEF Laid
  <2>2. SignAt(a, top + 1) \in Nat
    BY <1>1
  <2> QED
    BY <2>1, <2>2 DEF After
<1>8. /\ t[2] = text.tokens[2] /\ \A c \in 1..top : ColumnAt(t, a, c)
      /\ \A j \in 1..m : t[j].kind \in SignKinds => j = 3 \/ \E c \in 1..top : j = SignAt(a, c)
  <2>1. top \in 0..Len(a.columns)
    BY <1>1
  <2>2. PICK s : s = text.tokens
    OBVIOUS
  <2>3. Laid(s, a, top) /\ \A j \in 1..Len(s) : t[j] = s[j]
    BY <1>0, <1>3, <1>4, <1>5, <1>6, <2>2
  <2>4. /\ t[2] = s[2] /\ \A c \in 1..top : ColumnAt(t, a, c)
        /\ \A j \in 1..Len(s) : t[j].kind \in SignKinds => j = 3 \/ \E c \in 1..top : j = SignAt(a, c)
    BY <2>1, <2>3, LaidStays
  <2> QED
    BY <1>5, <2>2, <2>4
<1>9. ASSUME NEW j \in 1..Len(t), t[j].kind \in SignKinds PROVE \E c \in 1..(top + 1) : j = SignAt(a, c)
  <2>1. Len(t) = m + 1
    BY <1>0, <1>4, <1>6
  <2>2. CASE j = m + 1
    <3>1. top + 1 \in 1..(top + 1)
      BY <1>1
    <3> QED
      BY <1>7, <2>2, <3>1
  <2>3. CASE j # m + 1
    <3>1. j \in 1..m
      BY <1>6, <2>1, <2>3
    <3>2. j = 3 \/ \E c \in 1..top : j = SignAt(a, c)
      BY <1>8, <1>9, <3>1
    <3>3. 1 \in 1..(top + 1) /\ \A c \in 1..top : c \in 1..(top + 1)
      BY <1>1
    <3> QED
      BY <1>1, <3>2, <3>3
  <2> QED
    BY <2>2, <2>3
<1>10. text.tokens[2] = [kind |-> "name", name |-> a.name]
  BY <1>3 DEF Laid
<1>11. r.length = Definition!TextBytes(a)
  <2>1. PICK g : g = Definition!Sums(Bytes(a))
    OBVIOUS
  <2>2. g \in [0..top -> Nat]
    BY <2>1, BytesAre
  <2>3. Bytes(a) = [c \in DOMAIN a.columns |->
                      a.columns[c].name.bytes + (IF a.columns[c].primary_key THEN 12 ELSE 0)
                      + (IF a.columns[c].type = "INT" THEN 4 ELSE 7 + Definition!Digits(a.columns[c].width))]
    <3>1. DOMAIN a.columns = Cols(a)
      BY CreateFacts
    <3> QED
      BY <3>1 DEF Bytes, ColumnBytes
  <2>4. Len(Bytes(a)) = top
    BY <1>1 DEF Bytes, Cols
  <2>5. Definition!TextBytes(a) = 16 + a.name.bytes + 2 * (Len(a.columns) - 1) + Definition!Sum(Bytes(a))
    BY <2>3 DEF Definition!TextBytes
  <2>6. Definition!Sum(Bytes(a)) = g[top]
    BY <2>1, <2>4 DEF Definition!Sum
  <2>7. text.length = 15 + a.name.bytes + 2 * (top - 1) + g[top]
    <3>1. text.length = 15 + a.name.bytes + (IF top = 0 THEN 0 ELSE 2 * (top - 1)) + g[top]
      BY <1>3, <2>1 DEF BytesAfter
    <3> QED
      BY <3>1
  <2>8. a.name.bytes \in Nat /\ g[top] \in Nat
    BY <1>1, <2>2, CreateFacts DEF NewName
  <2>9. PICK x : x = a.name.bytes
    OBVIOUS
  <2>10. PICK y : y = g[top]
    OBVIOUS
  <2>11. Definition!TextBytes(a) = 16 + x + 2 * (top - 1) + y /\ x \in Nat /\ y \in Nat
    BY <2>5, <2>6, <2>8, <2>9, <2>10
  <2>12. r.length = text.length + 1 /\ text.length = 15 + x + 2 * (top - 1) + y
    BY <1>6, <2>7, <2>9, <2>10
  <2>13. top \in Nat
    BY <1>1
  <2>14. PICK z : z = 2 * (top - 1)
    OBVIOUS
  <2>15. z \in Int
    BY <2>13, <2>14
  <2>16. Definition!TextBytes(a) = 16 + x + z + y /\ r.length = 15 + x + z + y + 1
    BY <2>11, <2>12, <2>14
  <2>17. x \in Nat /\ y \in Nat
    BY <2>11
  <2> QED
    BY <2>15, <2>16, <2>17
<1>12. r.tokens \in Seq(Token) /\ r.tokens = t
  BY <1>0, <1>4, <1>6 DEF Text
<1>13. Len(t) = SignAt(a, top + 1) /\ t[SignAt(a, top + 1)] = Definition!Sign("close")
  BY <1>6, <1>7, <1>12
<1>14. WholeAt(t, a, top)
  BY <1>8, <1>9, <1>10, <1>12, <1>13 DEF WholeAt
<1> QED
  BY <1>0, <1>4, <1>6, <1>11, <1>14

-----------------------------------------------------------------------------
\* A canonical text parses back into its definition

\* The values of a function, counted.
IsImage(T, f, top) == DOMAIN f = 1..top /\ T = {f[c] : c \in 1..top}
Different(f, top) == \A c, d \in 1..top : f[c] = f[d] => c = d

LEMMA ImageSize ==
  ASSUME NEW top \in Nat, NEW f, NEW T, IsImage(T, f, top)
  PROVE  /\ IsFiniteSet(T) /\ Cardinality(T) \in Nat /\ Cardinality(T) <= top
         /\ Cardinality(T) = top <=> Different(f, top)
<1>1. PICK g : g = [c \in 1..top |-> f[c]]
  OBVIOUS
<1>2. PICK S : S = 1..top
  OBVIOUS
<1>3. IsFiniteSet(S) /\ Cardinality(S) = top
  BY <1>2, IntervalSize
<1>4. g \in Surjection(S, T)
  BY <1>1, <1>2 DEF Surjection, IsImage
<1>5. /\ IsFiniteSet(T) /\ Cardinality(T) <= Cardinality(S)
      /\ Cardinality(T) = Cardinality(S) <=> g \in Injection(S, T)
  BY <1>3, <1>4, FS_Surjection
<1>6. g \in Injection(S, T) <=> Different(f, top)
  <2>1. g \in [S -> T]
    BY <1>4 DEF Surjection
  <2>2. \A c \in 1..top : g[c] = f[c]
    BY <1>1
  <2> QED
    BY <1>2, <2>1, <2>2 DEF Injection, IsInjective, Different
<1>7. Cardinality(T) \in Nat
  BY <1>5, FS_CardinalityType
<1> QED
  BY <1>3, <1>5, <1>6, <1>7

\* The n-th of the numbers that a growing function takes.
Nth(S, c) == CHOOSE s \in S : Cardinality({r \in S : r < s}) = c - 1
Growing(P, top) == P \in [1..top -> Nat] /\ \A c, d \in 1..top : c < d => P[c] < P[d]

LEMMA NthOf ==
  ASSUME NEW top \in Nat, NEW P, Growing(P, top), NEW S, IsImage(S, P, top)
  PROVE  /\ Cardinality(S) = top
         /\ \A c \in 1..top : P[c] = Nth(S, c)
<1>0. P \in [1..top -> Nat] /\ (\A c, d \in 1..top : c < d => P[c] < P[d]) /\ S = {P[c] : c \in 1..top}
  BY DEF Growing, IsImage
<1>1. \A c, d \in 1..top : P[c] = P[d] => c = d
  <2> SUFFICES ASSUME NEW c \in 1..top, NEW d \in 1..top, P[c] = P[d], c # d PROVE FALSE
    OBVIOUS
  <2>1. (c < d \/ d < c) /\ P[c] \in Nat /\ P[d] \in Nat
    BY <1>0
  <2>2. P[c] < P[d] \/ P[d] < P[c]
    BY <1>0, <2>1
  <2> QED
    BY <2>1, <2>2
<1>2. Cardinality(S) = top
  BY <1>1, ImageSize DEF Different
<1>3. ASSUME NEW c \in 1..top PROVE Cardinality({r \in S : r < P[c]}) = c - 1
  <2>1. PICK k : k = c - 1
    OBVIOUS
  <2>2. k \in Nat /\ k < top
    BY <2>1
  <2>3. PICK f : f = [d \in 1..k |-> P[d]]
    OBVIOUS
  <2>4. PICK T : T = {f[d] : d \in 1..k}
    OBVIOUS
  <2>5. \A d \in 1..k : d \in 1..top /\ f[d] = P[d]
    BY <2>2, <2>3
  <2>6. \A d, e \in 1..k : f[d] = f[e] => d = e
    BY <1>1, <2>5
  <2>7. Cardinality(T) = k
    <3>1. IsImage(T, f, k)
      BY <2>3, <2>4 DEF IsImage
    <3>2. Different(f, k)
      BY <2>6 DEF Different
    <3> QED
      BY <2>2, <3>1, <3>2, ImageSize
  <2>8. {r \in S : r < P[c]} = T
    <3>1. ASSUME NEW d \in 1..top PROVE P[d] < P[c] <=> d \in 1..k
      <4>1. d \in 1..k <=> d < c
        BY <2>1
      <4>2. P[d] \in Nat /\ P[c] \in Nat
        BY <1>0
      <4>3. CASE d < c
        BY <1>0, <4>1, <4>3
      <4>4. CASE d = c
        BY <4>1, <4>2, <4>4
      <4>5. CASE c < d
        <5>1. P[c] < P[d]
          BY <1>0, <4>5
        <5> QED
          BY <4>1, <4>2, <4>5, <5>1
      <4> QED
        BY <4>3, <4>4, <4>5
    <3>2. T = {P[d] : d \in 1..k}
      BY <2>4, <2>5
    <3> QED
      BY <1>0, <2>5, <3>1, <3>2
  <2> QED
    BY <2>1, <2>7, <2>8
<1>4. ASSUME NEW c \in 1..top PROVE P[c] = Nth(S, c)
  <2> DEFINE Is(s) == Cardinality({r \in S : r < s}) = c - 1
  <2>1. P[c] \in S /\ Is(P[c])
    BY <1>0, <1>3
  <2>2. ASSUME NEW s \in S, Is(s) PROVE s = P[c]
    <3>1. PICK d \in 1..top : s = P[d]
      BY <1>0
    <3>2. Cardinality({r \in S : r < s}) = d - 1
      BY <1>3, <3>1
    <3>3. d - 1 = c - 1
      BY <2>2, <3>2
    <3>4. d = c
      BY <3>3
    <3> QED
      BY <3>1, <3>4
  <2> HIDE DEF Is
  <2>3. P[c] = CHOOSE s \in S : Is(s)
    BY <2>1, <2>2
  <2> QED
    BY <2>3 DEF Is, Nth
<1> QED
  BY <1>2, <1>4

LEMMA ParsedBack ==
  ASSUME NEW a \in Creates, Len(a.columns) # 0, NEW t, t = Whole(a).tokens,
         \A c \in Cols(a) : ~a.columns[c].width_out_of_range
  PROVE  Definition!Parses(t) /\ Definition!Parsed(t) = a
<1>1. PICK top : top = Len(a.columns)
  OBVIOUS
<1>2. /\ top \in Nat /\ SignAt(a, 1) = 3
      /\ \A c \in 1..(top + 1) : SignAt(a, c) \in Nat /\ SignAt(a, c) >= 3
      /\ \A c \in 1..top : /\ Span(a.columns[c]) \in {3, 4}
                           /\ SignAt(a, c + 1) = SignAt(a, c) + Span(a.columns[c])
      /\ \A c, d \in 1..(top + 1) : c < d => SignAt(a, c) + 3 <= SignAt(a, d)
  BY <1>1, SignsGrow
<1>3. /\ t \in Seq(Token) /\ Len(t) = SignAt(a, top + 1)
      /\ t[2] = [kind |-> "name", name |-> a.name]
      /\ \A c \in 1..top : ColumnAt(t, a, c)
      /\ t[SignAt(a, top + 1)] = Definition!Sign("close")
      /\ \A j \in 1..Len(t) : t[j].kind \in SignKinds => \E c \in 1..(top + 1) : j = SignAt(a, c)
  <2>1. top # 0
    BY <1>1
  <2>2. WholeAt(Whole(a).tokens, a, top)
    BY <1>1, <2>1, WholeLaid
  <2> QED
    BY <2>2 DEF WholeAt
<1>4. PICK last : last = top + 1
  OBVIOUS
<1>5. last \in Nat /\ last \in 1..last /\ last \in 1..(top + 1) /\ Len(t) \in Nat /\ DOMAIN t = 1..Len(t)
  BY <1>2, <1>3, <1>4
<1>6. PICK P : P = [c \in 1..last |-> SignAt(a, c)]
  OBVIOUS
<1>7. /\ P \in [1..last -> Nat] /\ \A c \in 1..last : P[c] = SignAt(a, c)
      /\ \A c, d \in 1..last : c < d => P[c] < P[d]
  <2>1. \A c \in 1..last : P[c] = SignAt(a, c) /\ P[c] \in Nat
    BY <1>2, <1>4, <1>6
  <2>2. ASSUME NEW c \in 1..last, NEW d \in 1..last, c < d PROVE P[c] < P[d]
    <3>1. P[c] + 3 <= P[d]
      BY <1>2, <1>4, <2>1, <2>2
    <3> QED
      BY <2>1, <3>1
  <2> QED
    BY <1>6, <2>1, <2>2
<1>8. PICK S : S = Definition!Signs(t, SignKinds)
  OBVIOUS
<1>9. S = {P[c] : c \in 1..last}
  <2>1. S = {j \in 1..Len(t) : t[j].kind \in SignKinds}
    BY <1>5, <1>8 DEF Definition!Signs
  <2>2. ASSUME NEW c \in 1..last PROVE P[c] \in S
    <3>1. P[c] = SignAt(a, c) /\ P[c] \in Nat /\ P[c] >= 3 /\ P[last] \in Nat
      BY <1>2, <1>4, <1>5, <1>7
    <3>2. P[c] <= P[last]
      <4>1. CASE c = last
        BY <3>1, <4>1
      <4>2. CASE c # last
        <5>1. c < last
          BY <1>5, <4>2
        <5>2. P[c] < P[last]
          BY <1>5, <1>7, <5>1
        <5> QED
          BY <3>1, <5>2
      <4> QED
        BY <4>1, <4>2
    <3>3. Len(t) = P[last]
      BY <1>3, <1>4, <1>5, <1>7
    <3>4. P[c] \in 1..Len(t)
      BY <3>1, <3>2, <3>3
    <3>5. t[P[c]].kind \in SignKinds
      <4>1. CASE c = last
        <5>1. t[P[c]] = Definition!Sign("close")
          BY <1>3, <1>4, <3>1, <4>1
        <5> QED
          BY <5>1 DEF Definition!Sign, SignKinds
      <4>2. CASE c # last
        <5>1. c \in 1..top
          BY <1>2, <1>4, <4>2
        <5>2. ColumnAt(t, a, c)
          BY <1>3, <5>1
        <5>3. t[P[c]] = Definition!Sign(IF c = 1 THEN "open" ELSE "comma")
          BY <3>1, <5>2 DEF ColumnAt
        <5> QED
          BY <5>3 DEF Definition!Sign, SignKinds
      <4> QED
        BY <4>1, <4>2
    <3> QED
      BY <2>1, <3>4, <3>5
  <2>3. ASSUME NEW j \in S PROVE \E c \in 1..last : j = P[c]
    <3>1. j \in 1..Len(t) /\ t[j].kind \in SignKinds
      BY <2>1
    <3>2. PICK c \in 1..(top + 1) : j = SignAt(a, c)
      BY <1>3, <3>1
    <3> QED
      BY <1>4, <1>7, <3>2
  <2> QED
    BY <2>2, <2>3
<1>10. /\ Cardinality(S) = last
       /\ \A c \in 1..last : P[c] = Nth(S, c)
  <2>1. Growing(P, last)
    BY <1>7 DEF Growing
  <2>2. IsImage(S, P, last)
    BY <1>6, <1>9 DEF IsImage
  <2>3. last \in Nat
    BY <1>5
  <2> QED
    BY <2>1, <2>2, <2>3, NthOf
<1> DEFINE nth(c) == CHOOSE s \in S : Definition!Cardinality({r \in S : r < s}) = c - 1
<1>11. ASSUME NEW c \in 1..last PROVE nth(c) = SignAt(a, c)
  <2>1. \A s \in S : Definition!Cardinality({r \in S : r < s}) = Cardinality({r \in S : r < s})
    BY SameCardinality
  <2>2. nth(c) = Nth(S, c)
    BY <2>1 DEF Nth
  <2> QED
    BY <1>7, <1>10, <2>2
<1>12. Definition!Parses(t)
  <2>1. Definition!Last(t) = t[Len(t)]
    BY DEF Definition!Last
  <2>2. Definition!Last(t).kind = "close"
    BY <1>3, <2>1 DEF Definition!Sign
  <2>3. ASSUME NEW j \in 1..Len(t) PROVE t[j].kind # "cut"
    <3>1. t[j] \in Token
      BY <1>3
    <3>2. t[j].kind \in Kinds
      BY <3>1 DEF Token
    <3> QED
      BY <3>2 DEF Kinds
  <2> QED
    BY <1>5, <2>2, <2>3 DEF Definition!Parses, Definition!Signs
<1>13. ASSUME NEW c \in 1..top
       PROVE  Definition!ColumnBetween(t, SignAt(a, c), SignAt(a, c + 1)) = a.columns[c]
  <2>1. PICK p : p = SignAt(a, c)
    OBVIOUS
  <2>2. PICK column : column = a.columns[c]
    OBVIOUS
  <2>3. column \in NewColumn /\ ~column.width_out_of_range
    BY <1>1, <2>2, CreateFacts DEF Cols
  <2>4. /\ column.type \in {"INT", "TEXT"} /\ column.primary_key \in BOOLEAN
        /\ column.type = "INT" => column.width = 0
        /\ column = [name |-> column.name, type |-> column.type, width |-> column.width,
                     width_out_of_range |-> column.width_out_of_range,
                     primary_key |-> column.primary_key]
        /\ column.width_out_of_range \in BOOLEAN
    BY <2>3, ColumnFacts
  <2>5. /\ t[p + 1] = NameToken(column) /\ t[p + 2] = TypeToken(column)
        /\ column.primary_key => t[p + 3] = KeyToken
    BY <1>3, <2>1, <2>2 DEF ColumnAt
  <2>6. p \in Nat /\ SignAt(a, c + 1) = p + Span(column)
    BY <1>2, <2>1, <2>2
  <2>7. t[p + 1].name = column.name
    BY <2>5 DEF NameToken
  <2>8. t[p + 2].kind = column.type
        /\ (IF t[p + 2].kind = "TEXT" THEN t[p + 2].width ELSE 0) = column.width
    <3>1. CASE column.type = "INT"
      BY <2>4, <2>5, <3>1 DEF TypeToken, Definition!Sign
    <3>2. CASE column.type = "TEXT"
      BY <2>5, <3>2 DEF TypeToken
    <3> QED
      BY <2>4, <3>1, <3>2
  <2>9. (t[SignAt(a, c + 1) - 1].kind = "PRIMARY KEY") = column.primary_key
    <3>1. CASE column.primary_key
      <4>1. SignAt(a, c + 1) - 1 = p + 3
        BY <2>6, <3>1 DEF Span
      <4>2. KeyToken.kind = "PRIMARY KEY"
        BY DEF KeyToken, Definition!Sign
      <4>3. t[SignAt(a, c + 1) - 1].kind = "PRIMARY KEY"
        BY <2>5, <3>1, <4>1, <4>2
      <4> QED
        BY <2>4, <3>1, <4>3
    <3>2. CASE ~column.primary_key
      <4>1. SignAt(a, c + 1) - 1 = p + 2
        BY <2>6, <3>2 DEF Span
      <4>2. t[SignAt(a, c + 1) - 1].kind = column.type
        BY <2>8, <4>1
      <4>3. t[SignAt(a, c + 1) - 1].kind # "PRIMARY KEY"
        BY <2>4, <4>2
      <4> QED
        BY <2>4, <3>2, <4>3
    <3> QED
      BY <2>4, <3>1, <3>2
  <2>10. column.width_out_of_range = FALSE
    BY <2>3, <2>4
  <2>11. Definition!ColumnBetween(t, p, SignAt(a, c + 1)) =
           [name |-> t[p + 1].name, type |-> t[p + 2].kind,
            width |-> IF t[p + 2].kind = "TEXT" THEN t[p + 2].width ELSE 0,
            width_out_of_range |-> FALSE, primary_key |-> t[SignAt(a, c + 1) - 1].kind = "PRIMARY KEY"]
    BY DEF Definition!ColumnBetween
  <2>12. Definition!ColumnBetween(t, p, SignAt(a, c + 1)) =
           [name |-> column.name, type |-> column.type, width |-> column.width,
            width_out_of_range |-> column.width_out_of_range, primary_key |-> column.primary_key]
    BY <2>7, <2>8, <2>9, <2>10, <2>11
  <2> QED
    BY <2>1, <2>2, <2>4, <2>12
<1>14. Definition!Parsed(t) =
         [name |-> t[2].name,
          columns |-> [c \in 1..(Definition!Cardinality(S) - 1) |->
                         Definition!ColumnBetween(t, nth(c), nth(c + 1))]]
  BY <1>8 DEF Definition!Parsed, SignKinds
<1> HIDE DEF nth
<1>15. Definition!Cardinality(S) - 1 = top
  <2>1. Definition!Cardinality(S) = last
    BY <1>10, SameCardinality
  <2> QED
    BY <1>2, <1>4, <2>1
<1>16. \A c \in 1..top : Definition!ColumnBetween(t, nth(c), nth(c + 1)) = a.columns[c]
  <2> SUFFICES ASSUME NEW c \in 1..top
               PROVE  Definition!ColumnBetween(t, nth(c), nth(c + 1)) = a.columns[c]
    OBVIOUS
  <2>1. c \in 1..last /\ c + 1 \in 1..last
    BY <1>2, <1>4
  <2>2. nth(c) = SignAt(a, c) /\ nth(c + 1) = SignAt(a, c + 1)
    BY <1>11, <2>1
  <2> QED
    BY <1>13, <2>2
<1>17. a.columns = [c \in 1..top |-> a.columns[c]] /\ a = [name |-> a.name, columns |-> a.columns]
  <2>1. a.columns \in Seq(NewColumn)
    BY DEF Creates
  <2>2. a.columns = [c \in 1..Len(a.columns) |-> a.columns[c]]
    BY <2>1
  <2>3. a = [name |-> a.name, columns |-> a.columns]
    BY CreateFacts
  <2> QED
    BY <1>1, <2>2, <2>3
<1>18. [c \in 1..(Definition!Cardinality(S) - 1) |-> Definition!ColumnBetween(t, nth(c), nth(c + 1))]
         = a.columns
  BY <1>15, <1>16, <1>17
<1>19. t[2].name = a.name
  BY <1>3
<1> QED
  BY <1>12, <1>14, <1>17, <1>18, <1>19

-----------------------------------------------------------------------------
\* The rules as FirstFault states them, of the definition as a whole

LEMMA DivAtLeast ==
  ASSUME NEW x \in Nat, NEW b \in Nat \ {0}, NEW c \in Nat
  PROVE  x \div b >= c <=> x >= b * c
<1>1. PICK q : q = x \div b
  OBVIOUS
<1>2. PICK r : r = x % b
  OBVIOUS
<1>3. q \in Nat /\ r \in 0..(b - 1) /\ x = b * q + r
  BY <1>1, <1>2
<1>4. CASE q >= c
  <2>1. b * q >= b * c
    BY <1>3, <1>4
  <2> QED
    BY <1>1, <1>3, <1>4, <2>1
<1>5. CASE q < c
  <2>1. q + 1 <= c
    BY <1>3, <1>5
  <2>2. b * (q + 1) <= b * c
    BY <1>3, <2>1
  <2>3. b * (q + 1) = b * q + b
    BY <1>3
  <2>4. x < b * (q + 1)
    BY <1>3, <2>3
  <2>5. ~(q >= c) /\ ~(x >= b * c)
    <3>1. b * (q + 1) \in Nat /\ b * c \in Nat
      BY <1>3
    <3> QED
      BY <1>3, <1>5, <2>2, <2>4, <3>1
  <2> QED
    BY <1>1, <2>5
<1> QED
  BY <1>3, <1>4, <1>5

\* The widest row that a leaf holds MinRows of.
LEMMA MaxRowExact ==
  /\ MaxRow \in Int /\ MaxRow < Word
  /\ \A r \in Nat : r <= MaxRow <=> CellSpace \div Definition!AlignUp(4 + r) >= MinRows
<1>1. CellSpace \in Nat /\ MinRows \in Nat \ {0} /\ Word \in Nat /\ CellSpace < Word
  BY LimitsAssumption
<1>2. PICK m : m = CellSpace \div MinRows
  OBVIOUS
<1>3. m \in Nat /\ m <= CellSpace
  <2>1. m \in Nat
    BY <1>1, <1>2
  <2>2. CellSpace \div MinRows >= m <=> CellSpace >= MinRows * m
    BY <1>1, <2>1, DivAtLeast
  <2>3. CellSpace >= MinRows * m
    BY <1>2, <2>1, <2>2
  <2>4. MinRows * m >= m
    BY <1>1, <2>1
  <2> QED
    BY <1>1, <2>1, <2>3, <2>4
<1>4. MaxRow = m - (m % 4) - 4
  BY <1>2 DEF MaxRow, Definition!leaf_node_max_row_size, Definition!AlignDown, Definition!KeySize
<1>5. MaxRow \in Int /\ MaxRow < Word
  BY <1>1, <1>3, <1>4
<1>6. ASSUME NEW r \in Nat PROVE r <= MaxRow <=> CellSpace \div Definition!AlignUp(4 + r) >= MinRows
  <2>1. PICK z : z = Definition!AlignUp(4 + r)
    OBVIOUS
  <2>2. z = (r + 7) - ((r + 7) % 4)
    <3>1. z = (4 + r + 3) - ((4 + r + 3) % 4)
      BY <2>1 DEF Definition!AlignUp, Definition!AlignDown
    <3>2. 4 + r + 3 = r + 7
      OBVIOUS
    <3> QED
      BY <3>1, <3>2
  <2>3. z \in Nat \ {0}
    BY <2>2
  <2>4. CellSpace \div z >= MinRows <=> CellSpace >= z * MinRows
    BY <1>1, <2>3, DivAtLeast
  <2>5. CellSpace \div MinRows >= z <=> CellSpace >= MinRows * z
    BY <1>1, <2>3, DivAtLeast
  <2>6. z * MinRows = MinRows * z
    BY <1>1, <2>3
  <2>7. CellSpace \div z >= MinRows <=> m >= z
    BY <1>2, <2>4, <2>5, <2>6
  <2>8. m >= z <=> r <= m - (m % 4) - 4
    BY <1>3, <2>2
  <2> QED
    BY <1>4, <2>1, <2>7, <2>8
<1> QED
  BY <1>5, <1>6

LEMMA SizesAre ==
  ASSUME NEW a \in Creates, NEW top, top = Len(a.columns), NEW g, g = Offsets(a),
         NEW h, h = Definition!Sums(Kept(a))
  PROVE  /\ top \in Nat /\ Cols(a) = 1..top
         /\ \A c \in 1..top : SizeOf(a, c) \in Nat /\ Sizes(a)[c] = SizeOf(a, c)
                              /\ Kept(a)[c] = IF Wide(a, c) THEN 0 ELSE SizeOf(a, c)
         /\ g \in [0..top -> Nat] /\ g[0] = 0 /\ \A c \in 1..top : g[c] = g[c - 1] + SizeOf(a, c)
         /\ \A j, k \in 0..top : j <= k => g[j] <= g[k]
         /\ \A c \in 1..top : SizeOf(a, c) <= g[top]
         /\ h \in [0..top -> Nat] /\ h[0] = 0
         /\ \A c \in 1..top : h[c] = h[c - 1] + (IF Wide(a, c) THEN 0 ELSE SizeOf(a, c))
<1>1. top \in Nat /\ Cols(a) = 1..top /\ \A c \in 1..top : a.columns[c] \in NewColumn
  BY CreateFacts DEF Cols
<1>2. \A c \in 1..top : SizeOf(a, c) \in Nat
  BY <1>1, ColumnFacts DEF SizeOf
<1>3. PICK s : s = Sizes(a)
  OBVIOUS
<1>4. PICK u : u = Kept(a)
  OBVIOUS
<1>5. s = [c \in 1..top |-> SizeOf(a, c)] /\ u = [c \in 1..top |-> IF Wide(a, c) THEN 0 ELSE SizeOf(a, c)]
  BY <1>1, <1>3, <1>4 DEF Sizes, Kept
<1>6. /\ s \in [1..top -> Nat] /\ \A c \in 1..top : s[c] = SizeOf(a, c)
      /\ u \in [1..top -> Nat] /\ \A c \in 1..top : u[c] = IF Wide(a, c) THEN 0 ELSE SizeOf(a, c)
  BY <1>2, <1>5
<1>7. /\ g \in [0..top -> Nat] /\ g[0] = 0 /\ \A k \in 1..top : g[k] = g[k - 1] + s[k]
      /\ \A j, k \in 0..top : j <= k => g[j] <= g[k]
      /\ \A k \in 1..top : s[k] <= g[top]
  <2>1. g = Definition!Sums(s)
    BY <1>3 DEF Offsets
  <2>2. s \in [1..top -> Nat] /\ top \in Nat
    BY <1>1, <1>6
  <2>3. PICK x : x = Definition!Sums(s)
    OBVIOUS
  <2>4. /\ x \in [0..top -> Nat] /\ x[0] = 0 /\ \A k \in 1..top : x[k] = x[k - 1] + s[k]
        /\ \A j, k \in 0..top : j <= k => x[j] <= x[k]
        /\ \A k \in 1..top : s[k] <= x[top]
    BY <2>2, <2>3, SumsOf
  <2> QED
    BY <2>1, <2>3, <2>4
<1>8. h \in [0..top -> Nat] /\ h[0] = 0 /\ \A k \in 1..top : h[k] = h[k - 1] + u[k]
  <2>1. h = Definition!Sums(u)
    BY <1>4
  <2>2. u \in [1..top -> Nat] /\ top \in Nat
    BY <1>1, <1>6
  <2>3. PICK x : x = Definition!Sums(u)
    OBVIOUS
  <2>4. x \in [0..top -> Nat] /\ x[0] = 0 /\ \A k \in 1..top : x[k] = x[k - 1] + u[k]
    BY <2>2, <2>3, SumsOf
  <2> QED
    BY <2>1, <2>3, <2>4
<1> QED
  BY <1>1, <1>2, <1>3, <1>4, <1>6, <1>7, <1>8

\* The sum leaves out what is too wide; it does not matter to what fits.
LEMMA KeptExact ==
  ASSUME NEW a \in Creates, NEW top, top = Len(a.columns)
  PROVE  RowFits(a) <=> (\A c \in 1..top : ~Wide(a, c)) /\ Definition!Sums(Kept(a))[top] <= MaxRow
<1>1. Cols(a) = 1..top
  BY DEF Cols
<1>2. (\A c \in 1..top : ~Wide(a, c)) => Kept(a) = Sizes(a)
  BY <1>1 DEF Kept, Sizes
<1> QED
  BY <1>1, <1>2 DEF RowFits, Offsets

LEMMA FitsExact ==
  ASSUME NEW a \in Creates
  PROVE  RowFits(a) <=> Definition!RowsFit(a)
<1>1. PICK top : top = Len(a.columns)
  OBVIOUS
<1>2. PICK g : g = Offsets(a)
  OBVIOUS
<1>3. /\ top \in Nat /\ Cols(a) = 1..top
      /\ \A c \in 1..top : SizeOf(a, c) \in Nat /\ SizeOf(a, c) <= g[top]
      /\ g \in [0..top -> Nat]
  BY <1>1, <1>2, SizesAre
<1>4. PICK r : r = g[top]
  OBVIOUS
<1>5. r \in Nat
  BY <1>3, <1>4
<1>6. DOMAIN a.columns = Cols(a) /\ \A c \in 1..top : a.columns[c] \in NewColumn
  BY <1>3, CreateFacts
<1>7. Definition!RowBytes(a) = r
  <2>1. Sizes(a) = [c \in DOMAIN a.columns |-> IF a.columns[c].type = "INT" THEN Definition!IntBytes
                                               ELSE a.columns[c].width]
    BY <1>6 DEF Sizes, SizeOf, Definition!IntBytes
  <2>2. Len(Sizes(a)) = top
    BY <1>3 DEF Sizes
  <2>3. Definition!RowBytes(a) = Definition!Sum(Sizes(a))
    BY <2>1 DEF Definition!RowBytes
  <2> QED
    BY <1>2, <1>4, <2>2, <2>3 DEF Definition!Sum, Offsets
<1>8. PICK fits : fits = (CellSpace \div Definition!AlignUp(4 + r) >= MinRows)
  OBVIOUS
<1>9. r <= MaxRow <=> CellSpace \div Definition!AlignUp(4 + r) >= MinRows
  BY <1>5, MaxRowExact
<1>10. Definition!RowsFit(a) <=>
         (\A c \in 1..top : a.columns[c].type = "TEXT" => ~a.columns[c].width_out_of_range) /\ r <= MaxRow
  BY <1>3, <1>6, <1>7, <1>9 DEF Definition!RowsFit, Definition!KeySize
<1>11. RowFits(a) <=> (\A c \in 1..top : ~Wide(a, c)) /\ r <= MaxRow
  BY <1>1, <1>2, <1>3, <1>4 DEF RowFits
<1>12. ASSUME r <= MaxRow, NEW c \in 1..top
       PROVE  ~Wide(a, c) <=> (a.columns[c].type = "TEXT" => ~a.columns[c].width_out_of_range)
  <2>1. MaxRow \in Int /\ a.columns[c].type \in {"INT", "TEXT"} /\ a.columns[c].width \in Nat
    BY <1>6, MaxRowExact, ColumnFacts
  <2>2. SizeOf(a, c) <= r
    BY <1>3, <1>4
  <2>3. a.columns[c].type = "TEXT" => a.columns[c].width <= MaxRow
    BY <1>5, <1>12, <2>1, <2>2 DEF SizeOf
  <2> QED
    BY <2>1, <2>3 DEF Wide
<1> QED
  BY <1>10, <1>11, <1>12

LEMMA TwinsExact ==
  ASSUME NEW a \in Creates
  PROVE  NoTwins(a) <=> ~(Definition!Cardinality({a.columns[c].name.word : c \in DOMAIN a.columns})
                            < Len(a.columns))
<1>1. PICK top : top = Len(a.columns)
  OBVIOUS
<1>2. top \in Nat /\ Cols(a) = 1..top /\ DOMAIN a.columns = 1..top
  BY <1>1, CreateFacts DEF Cols
<1>3. PICK f : f = [c \in 1..top |-> a.columns[c].name.word]
  OBVIOUS
<1>4. PICK T : T = {a.columns[c].name.word : c \in DOMAIN a.columns}
  OBVIOUS
<1>5. IsImage(T, f, top)
  <2>1. T = {f[c] : c \in 1..top}
    BY <1>2, <1>3, <1>4
  <2> QED
    BY <1>3, <2>1 DEF IsImage
<1>6. Cardinality(T) \in Nat /\ Cardinality(T) <= top /\ (Cardinality(T) = top <=> Different(f, top))
  BY <1>2, <1>5, ImageSize
<1>7. Different(f, top) <=> NoTwins(a)
  <2>1. \A c \in 1..top : f[c] = a.columns[c].name.word
    BY <1>3
  <2>2. ASSUME NoTwins(a), NEW c \in 1..top, NEW d \in 1..top, f[c] = f[d] PROVE c = d
    <3>1. ~(d < c) /\ ~(c < d)
      BY <1>2, <2>1, <2>2 DEF NoTwins
    <3> QED
      BY <3>1
  <2>3. ASSUME Different(f, top), NEW c \in 1..top, NEW d \in 1..top, d < c
        PROVE  a.columns[c].name.word # a.columns[d].name.word
    <3>1. c # d
      BY <2>3
    <3> QED
      BY <2>1, <2>3, <3>1 DEF Different
  <2> QED
    BY <1>2, <2>2, <2>3 DEF Different, NoTwins
<1>8. Definition!Cardinality(T) = Cardinality(T)
  BY SameCardinality
<1> QED
  BY <1>1, <1>2, <1>4, <1>6, <1>7, <1>8

LEMMA KeysExact ==
  ASSUME NEW a \in Creates
  PROVE  /\ Definition!Cardinality(KeysOf(a)) = Cardinality(KeysOf(a)) /\ Cardinality(KeysOf(a)) \in Nat
         /\ Cardinality(KeysOf(a)) = 0 <=> KeysOf(a) = {}
         /\ Cardinality(KeysOf(a)) = 1 => KeysOf(a) = {LastKey(a)} /\ LastKey(a) \in Cols(a)
<1>1. PICK top : top = Len(a.columns)
  OBVIOUS
<1>2. top \in Nat /\ Cols(a) = 1..top /\ DOMAIN a.columns = 1..top
  BY <1>1, CreateFacts DEF Cols
<1>3. PICK S : S = KeysOf(a)
  OBVIOUS
<1>4. S \in SUBSET (1..top) /\ IsFiniteSet(S)
  <2>1. S \in SUBSET (1..top) /\ IsFiniteSet(1..top)
    BY <1>2, <1>3, IntervalSize DEF KeysOf
  <2> QED
    BY <2>1, FS_Subset
<1>5. Cardinality(S) \in Nat /\ (Cardinality(S) = 0 <=> S = {})
  BY <1>4, FS_CardinalityType, FS_EmptySet
<1>6. ASSUME Cardinality(S) = 1 PROVE S = {LastKey(a)} /\ LastKey(a) \in Cols(a)
  <2>1. PICK k : S = {k}
    BY <1>4, <1>6, FS_Singleton
  <2>2. k \in 1..top /\ k <= k
    BY <1>4, <2>1
  <2>3. LastKey(a) = k
    BY <1>3, <2>1, <2>2 DEF LastKey
  <2> QED
    BY <1>2, <2>1, <2>2, <2>3
<1>7. Definition!Cardinality(S) = Cardinality(S)
  BY SameCardinality
<1> QED
  BY <1>3, <1>5, <1>6, <1>7

\* Every definition is refused for the first of the rules it breaks.
LEMMA FaultOf ==
  ASSUME NEW a \in Creates, NEW fault, fault = Definition!FirstFault(a)
  PROVE  /\ ~NameFits(a) => fault = "name"
         /\ NameFits(a) /\ ~NoTwins(a) => fault = "twice"
         /\ NameFits(a) /\ NoTwins(a) /\ ~NoneNarrow(a) => fault = "narrow"
         /\ NameFits(a) /\ NoTwins(a) /\ NoneNarrow(a) /\ ~OneKey(a) =>
              fault = IF KeysOf(a) = {} THEN "no key"
                      ELSE IF Cardinality(KeysOf(a)) > 1 THEN "keys" ELSE "key type"
         /\ NameFits(a) /\ NoTwins(a) /\ NoneNarrow(a) /\ OneKey(a) /\ ~RowFits(a) => fault = "size"
         /\ NameFits(a) /\ NoTwins(a) /\ NoneNarrow(a) /\ OneKey(a) /\ RowFits(a) /\ ~TextFits(a) =>
              fault = "text"
         /\ Passed(a) => fault = "none"
<1>1. Cols(a) = DOMAIN a.columns /\ a.name.bytes \in Nat /\ NameMax \in Nat
      /\ \A c \in Cols(a) : a.columns[c] \in NewColumn
  BY CreateFacts, LimitsAssumption DEF NewName
<1> DEFINE texts == {c \in DOMAIN a.columns : a.columns[c].type = "TEXT"}
           Narrow == \E c \in texts : ~a.columns[c].width_out_of_range /\ a.columns[c].width < 1
           Twins == Definition!Cardinality({a.columns[c].name.word : c \in DOMAIN a.columns})
                      < Len(a.columns)
           size == Definition!Cardinality(KeysOf(a))
           last == IF KeysOf(a) \subseteq texts THEN "key type"
                   ELSE IF ~Definition!RowsFit(a) THEN "size"
                   ELSE IF Definition!TextBytes(a) > SqlMax THEN "text" ELSE "none"
<1>2. fault = CASE a.name.bytes > NameMax -> "name"
                [] OTHER -> CASE Twins -> "twice"
                [] OTHER -> CASE Narrow -> "narrow"
                [] OTHER -> CASE size = 0 -> "no key" [] size > 1 -> "keys" [] size = 1 -> last
  BY DEF Definition!FirstFault, KeysOf
<1>3. a.name.bytes > NameMax <=> ~NameFits(a)
  BY <1>1 DEF NameFits
<1>4. Twins <=> ~NoTwins(a)
  BY TwinsExact
<1>5. Narrow <=> ~NoneNarrow(a)
  <2>1. \A c \in Cols(a) : a.columns[c].width \in Nat
    BY <1>1, ColumnFacts
  <2>2. \A c \in Cols(a) : a.columns[c].width < 1 <=> ~(a.columns[c].width >= 1)
    BY <2>1
  <2> QED
    BY <1>1, <2>2 DEF NoneNarrow
<1>6. /\ size = Cardinality(KeysOf(a)) /\ size \in Nat /\ (size = 0 <=> KeysOf(a) = {})
      /\ size = 1 => KeysOf(a) = {LastKey(a)} /\ LastKey(a) \in Cols(a)
  BY KeysExact
<1>7. size = 1 => (KeysOf(a) \subseteq texts <=> a.columns[LastKey(a)].type # "INT")
  <2> SUFFICES ASSUME size = 1 PROVE KeysOf(a) \subseteq texts <=> a.columns[LastKey(a)].type # "INT"
    OBVIOUS
  <2>1. KeysOf(a) = {LastKey(a)} /\ LastKey(a) \in Cols(a)
    BY <1>6
  <2>2. a.columns[LastKey(a)].type \in {"INT", "TEXT"}
    BY <1>1, <2>1, ColumnFacts
  <2> QED
    BY <1>1, <2>1, <2>2
<1>8. OneKey(a) <=> size = 1 /\ ~(KeysOf(a) \subseteq texts)
  <2>1. size \in Nat => (~(size > 1) /\ size # 0 <=> size = 1)
    <3> HIDE DEF size
    <3> QED
      OBVIOUS
  <2> HIDE DEF size, texts
  <2> QED
    BY <1>6, <1>7, <2>1 DEF OneKey
<1>9. ASSUME OneKey(a)
      PROVE  /\ ~RowFits(a) => last = "size"
             /\ RowFits(a) /\ ~TextFits(a) => last = "text"
             /\ RowFits(a) /\ TextFits(a) => last = "none"
  <2>1. RowFits(a) <=> Definition!RowsFit(a)
    BY FitsExact
  <2>2. ~(KeysOf(a) \subseteq texts) /\ size = 1
    BY <1>8, <1>9
  <2>3. Len(a.columns) # 0
    <3>1. LastKey(a) \in Cols(a)
      BY <1>6, <2>2
    <3> QED
      BY <3>1 DEF Cols
  <2>4. TextFits(a) <=> ~(Definition!TextBytes(a) > SqlMax)
    <3>1. Whole(a) \in Text /\ Whole(a).length = Definition!TextBytes(a)
      <4>1. PICK top : top = Len(a.columns)
        OBVIOUS
      <4>2. top # 0
        BY <2>3, <4>1
      <4> QED
        BY <4>1, <4>2, WholeLaid
    <3>2. Whole(a).length \in Nat /\ SqlMax \in Nat
      BY <3>1, LimitsAssumption DEF Text
    <3> QED
      BY <3>1, <3>2 DEF TextFits
  <2> HIDE DEF texts
  <2> QED
    BY <2>1, <2>2, <2>4
<1> HIDE DEF texts, Narrow, Twins, size, last
<1>10. size = 0 \/ size = 1 \/ size > 1
  BY <1>6
<1>11. size = 1 /\ ~OneKey(a) => last = "key type"
  BY <1>8 DEF last
<1>12. fault = IF ~NameFits(a) THEN "name" ELSE IF ~NoTwins(a) THEN "twice"
               ELSE IF ~NoneNarrow(a) THEN "narrow"
               ELSE IF size = 0 THEN "no key" ELSE IF size > 1 THEN "keys" ELSE last
  <2>1. size \in Nat /\ (size = 1 => size # 0 /\ ~(size > 1)) /\ (size > 1 => size # 0)
    BY <1>6
  <2>2. (CASE size = 0 -> "no key" [] size > 1 -> "keys" [] size = 1 -> last)
          = IF size = 0 THEN "no key" ELSE IF size > 1 THEN "keys" ELSE last
    <3>1. CASE size = 0
      <4>1. ~(size > 1) /\ size # 1
        BY <3>1
      <4> QED
        BY <3>1, <4>1
    <3>2. CASE size > 1
      <4>1. size # 0 /\ size # 1
        BY <2>1, <3>2
      <4> QED
        BY <3>2, <4>1
    <3>3. CASE size = 1
      <4>1. ~(size > 1) /\ size # 0
        BY <3>3
      <4> QED
        BY <3>3, <4>1
    <3> QED
      BY <1>10, <3>1, <3>2, <3>3
  <2> QED
    BY <1>2, <1>3, <1>4, <1>5, <2>2
<1>13. OneKey(a) => size # 0 /\ ~(size > 1)
  BY <1>6, <1>8
<1>14. ~OneKey(a) => size = 0 \/ size > 1 \/ last = "key type"
  BY <1>10, <1>11
<1> QED
  BY <1>6, <1>9, <1>12, <1>13, <1>14 DEF Passed

-----------------------------------------------------------------------------
\* Every step of table_definition_from_ast

\* A check leaves alone all but the place and the loop's counter.
Standing ==
  /\ ast' = ast /\ row_size' = row_size /\ too_wide' = too_wide /\ sql' = sql
  /\ schema' = schema /\ created' = created /\ i' = 1

LEMMA CheckIs ==
  ASSUME NEW here, NEW fault \in BOOLEAN, NEW why, NEW next, Definition!Check(here, fault, why, next)
  PROVE  /\ definition_at = here /\ Standing
         /\ fault => definition_at' = "refused" /\ definition_error' = why
         /\ ~fault => definition_at' = next
BY DEF Definition!Check, Standing

\* A refusal is for the first rule broken, and never comes in a load.
LEMMA Refuses ==
  ASSUME DefinitionInv, Standing, definition_at' = "refused",
         definition_error' = Definition!FirstFault(ast), ~Passed(ast)
  PROVE  DefinitionInv'
<1>1. created = Definition!NoDefinition
  BY DEF DefinitionInv
<1>2. Checked'
  BY DEF Checked, FromTwice, FromNarrow, FromKeys, FromSum, FromText, FromBuild
<1>3. Looping'
  BY DEF Looping
<1>4. (definition_error = Definition!FirstFault(ast))' /\ created' = Definition!NoDefinition
  BY <1>1 DEF Standing
<1> QED
  BY <1>2, <1>3, <1>4 DEF DefinitionInv, FromName, FromTwice, FromNarrow, FromKeys, FromSum, FromText,
     FromBuild

\* The six rules as the checks state them.
LEMMA ChecksAre ==
  ASSUME ast \in Creates
  PROVE  /\ ast.name.bytes > NameMax <=> ~NameFits(ast)
         /\ (\E c, d \in Definition!Columns : d < c /\
               Definition!schema_names_equal(ast.columns[c].name, ast.columns[d].name)) <=> ~NoTwins(ast)
         /\ (\E c \in Definition!Columns : ast.columns[c].type = "TEXT" /\
               ~ast.columns[c].width_out_of_range /\ ast.columns[c].width < 1) <=> ~NoneNarrow(ast)
         /\ Definition!Keys = KeysOf(ast) /\ Definition!key_index = LastKey(ast)
         /\ Definition!Cardinality(Definition!Keys) = Cardinality(KeysOf(ast))
<1>1. PICK a : a = ast
  OBVIOUS
<1>2. a \in Creates
  BY <1>1
<1>3. Cols(a) = DOMAIN a.columns /\ a.name.bytes \in Nat /\ NameMax \in Nat
      /\ \A c \in Cols(a) : a.columns[c] \in NewColumn
  BY <1>2, CreateFacts, LimitsAssumption DEF NewName
<1>4. Definition!Columns = Cols(a)
  BY <1>1, <1>3 DEF Definition!Columns
<1>5. a.name.bytes > NameMax <=> ~NameFits(a)
  BY <1>3 DEF NameFits
<1>6. (\E c, d \in Cols(a) : d < c /\ Definition!schema_names_equal(a.columns[c].name, a.columns[d].name))
        <=> ~NoTwins(a)
  BY DEF NoTwins, Definition!schema_names_equal
<1>7. (\E c \in Cols(a) : a.columns[c].type = "TEXT" /\
         ~a.columns[c].width_out_of_range /\ a.columns[c].width < 1) <=> ~NoneNarrow(a)
  <2>1. \A c \in Cols(a) : a.columns[c].width \in Nat
    BY <1>3, ColumnFacts
  <2>2. \A c \in Cols(a) : a.columns[c].width < 1 <=> ~(a.columns[c].width >= 1)
    BY <2>1
  <2> QED
    BY <2>2 DEF NoneNarrow
<1>8. Definition!Keys = KeysOf(ast)
  BY DEF Definition!Keys, Definition!Columns, KeysOf
<1>9. Definition!key_index = LastKey(ast)
  BY <1>8 DEF Definition!key_index, LastKey
<1>10. Definition!Cardinality(Definition!Keys) = Cardinality(KeysOf(ast))
  BY <1>8, SameCardinality
<1> QED
  BY <1>1, <1>4, <1>5, <1>6, <1>7, <1>8, <1>9, <1>10

LEMMA ChecksName ==
  ASSUME DefinitionInv, Definition!CheckName
  PROVE  DefinitionInv'
<1>1. PICK fault : fault = (ast.name.bytes > NameMax)
  OBVIOUS
<1>2. fault \in BOOLEAN /\ Definition!Check("name", fault, "name", "twice")
  BY <1>1 DEF Definition!CheckName
<1>3. /\ definition_at = "name" /\ Standing
      /\ fault => definition_at' = "refused" /\ definition_error' = "name"
      /\ ~fault => definition_at' = "twice"
  BY <1>2, CheckIs
<1>4. ast \in Creates
  BY <1>3 DEF DefinitionInv, FromName
<1>5. fault <=> ~NameFits(ast)
  BY <1>1, <1>4, ChecksAre
<1>6. CASE fault
  <2>1. Definition!FirstFault(ast) = "name" /\ ~Passed(ast)
    BY <1>4, <1>5, <1>6, FaultOf DEF Passed
  <2> QED
    BY <1>3, <1>6, <2>1, Refuses
<1>7. CASE ~fault
  <2>1. NameFits(ast) /\ definition_at' = "twice"
    BY <1>3, <1>5, <1>7
  <2>2. Checked'
    BY <1>3, <2>1 DEF Checked, Standing, FromTwice, FromNarrow, FromKeys, FromSum, FromText, FromBuild
  <2>3. Looping'
    BY <1>3, <2>1 DEF DefinitionInv, Looping, Standing
  <2> QED
    BY <1>3, <1>4, <2>1, <2>2, <2>3 DEF DefinitionInv, Standing, FromName, FromTwice
<1> QED
  BY <1>2, <1>6, <1>7

LEMMA ChecksTwice ==
  ASSUME DefinitionInv, Definition!CheckTwice
  PROVE  DefinitionInv'
<1>1. PICK fault : fault = (\E c, d \in Definition!Columns : d < c /\
                              Definition!schema_names_equal(ast.columns[c].name, ast.columns[d].name))
  OBVIOUS
<1>2. fault \in BOOLEAN /\ Definition!Check("twice", fault, "twice", "narrow")
  BY <1>1 DEF Definition!CheckTwice
<1>3. /\ definition_at = "twice" /\ Standing
      /\ fault => definition_at' = "refused" /\ definition_error' = "twice"
      /\ ~fault => definition_at' = "narrow"
  BY <1>2, CheckIs
<1>4. ast \in Creates /\ NameFits(ast)
  BY <1>3 DEF DefinitionInv, Checked, FromName, FromTwice
<1>5. fault <=> ~NoTwins(ast)
  BY <1>1, <1>4, ChecksAre
<1>6. CASE fault
  <2>1. Definition!FirstFault(ast) = "twice" /\ ~Passed(ast)
    BY <1>4, <1>5, <1>6, FaultOf DEF Passed
  <2> QED
    BY <1>3, <1>6, <2>1, Refuses
<1>7. CASE ~fault
  <2>1. NoTwins(ast) /\ definition_at' = "narrow"
    BY <1>3, <1>5, <1>7
  <2>2. Checked'
    BY <1>3, <1>4, <2>1 DEF Checked, Standing, FromTwice, FromNarrow, FromKeys, FromSum, FromText, FromBuild
  <2>3. Looping'
    BY <1>3, <2>1 DEF DefinitionInv, Looping, Standing
  <2> QED
    BY <1>3, <1>4, <2>1, <2>2, <2>3 DEF DefinitionInv, Standing, FromName, FromTwice, FromNarrow
<1> QED
  BY <1>2, <1>6, <1>7

LEMMA ChecksNarrow ==
  ASSUME DefinitionInv, Definition!CheckNarrow
  PROVE  DefinitionInv'
<1>1. PICK fault : fault = (\E c \in Definition!Columns : ast.columns[c].type = "TEXT" /\
                              ~ast.columns[c].width_out_of_range /\ ast.columns[c].width < 1)
  OBVIOUS
<1>2. fault \in BOOLEAN /\ Definition!Check("narrow", fault, "narrow", "keys")
  BY <1>1 DEF Definition!CheckNarrow
<1>3. /\ definition_at = "narrow" /\ Standing
      /\ fault => definition_at' = "refused" /\ definition_error' = "narrow"
      /\ ~fault => definition_at' = "keys"
  BY <1>2, CheckIs
<1>4. ast \in Creates /\ NameFits(ast) /\ NoTwins(ast)
  BY <1>3 DEF DefinitionInv, Checked, FromName, FromTwice, FromNarrow
<1>5. fault <=> ~NoneNarrow(ast)
  BY <1>1, <1>4, ChecksAre
<1>6. CASE fault
  <2>1. Definition!FirstFault(ast) = "narrow" /\ ~Passed(ast)
    BY <1>4, <1>5, <1>6, FaultOf DEF Passed
  <2> QED
    BY <1>3, <1>6, <2>1, Refuses
<1>7. CASE ~fault
  <2>1. NoneNarrow(ast) /\ definition_at' = "keys"
    BY <1>3, <1>5, <1>7
  <2>2. Checked'
    BY <1>3, <1>4, <2>1 DEF Checked, Standing, FromTwice, FromNarrow, FromKeys, FromSum, FromText, FromBuild
  <2>3. Looping'
    BY <1>3, <2>1 DEF DefinitionInv, Looping, Standing
  <2> QED
    BY <1>3, <1>4, <2>1, <2>2, <2>3 DEF DefinitionInv, Standing, FromName, FromTwice, FromNarrow, FromKeys
<1> QED
  BY <1>2, <1>6, <1>7

LEMMA ChecksKeys ==
  ASSUME DefinitionInv, Definition!CheckKeys
  PROVE  DefinitionInv'
<1>1. PICK fault : fault = (Definition!Keys = {} \/ Definition!Cardinality(Definition!Keys) > 1
                              \/ ast.columns[Definition!key_index].type # "INT")
  OBVIOUS
<1>2. PICK why : why = IF Definition!Keys = {} THEN "no key"
                       ELSE IF Definition!Cardinality(Definition!Keys) > 1 THEN "keys" ELSE "key type"
  OBVIOUS
<1>3. fault \in BOOLEAN /\ Definition!Check("keys", fault, why, "sum")
  BY <1>1, <1>2 DEF Definition!CheckKeys
<1>4. /\ definition_at = "keys" /\ Standing
      /\ fault => definition_at' = "refused" /\ definition_error' = why
      /\ ~fault => definition_at' = "sum"
  BY <1>3, CheckIs
<1>5. ast \in Creates /\ NameFits(ast) /\ NoTwins(ast) /\ NoneNarrow(ast)
  BY <1>4 DEF DefinitionInv, Checked, FromName, FromTwice, FromNarrow, FromKeys
<1>6. fault <=> ~OneKey(ast)
  BY <1>1, <1>5, ChecksAre DEF OneKey
<1>7. why = IF KeysOf(ast) = {} THEN "no key"
            ELSE IF Cardinality(KeysOf(ast)) > 1 THEN "keys" ELSE "key type"
  BY <1>2, <1>5, ChecksAre
<1>8. CASE fault
  <2>1. Definition!FirstFault(ast) = why /\ ~Passed(ast)
    BY <1>5, <1>6, <1>7, <1>8, FaultOf DEF Passed
  <2> QED
    BY <1>4, <1>8, <2>1, Refuses
<1>9. CASE ~fault
  <2>1. OneKey(ast) /\ definition_at' = "sum"
    BY <1>4, <1>6, <1>9
  <2>2. Checked'
    BY <1>4, <1>5, <2>1 DEF Checked, Standing, FromTwice, FromNarrow, FromKeys, FromSum, FromText, FromBuild
  <2>3. Looping'
    <3>1. row_size = 0 /\ ~too_wide /\ schema = Definition!NoSchema
      BY <1>4 DEF DefinitionInv, Looping
    <3>2. PICK h : h = Definition!Sums(Kept(ast))
      OBVIOUS
    <3>3. h[0] = 0 /\ Len(ast.columns) \in Nat
      BY <1>5, <3>2, SizesAre
    <3>4. /\ ast' = ast /\ i' = 1 /\ row_size' = 0 /\ ~too_wide' /\ schema' = Definition!NoSchema
          /\ 1 \in 1..(Len(ast.columns) + 1) /\ Definition!Sums(Kept(ast))[1 - 1] = 0
      BY <1>4, <3>1, <3>2, <3>3 DEF Standing
    <3>5. /\ i' \in 1..(Len(ast'.columns) + 1) /\ row_size' = Definition!Sums(Kept(ast'))[i' - 1]
          /\ too_wide' <=> \E c \in 1..(i' - 1) : Wide(ast', c)
      BY <3>4
    <3> QED
      BY <2>1, <3>4, <3>5 DEF Looping
  <2> QED
    BY <1>4, <1>5, <2>1, <2>2, <2>3 DEF DefinitionInv, Standing, FromName, FromTwice, FromNarrow, FromKeys,
       FromSum
<1> QED
  BY <1>3, <1>8, <1>9

\* What a step has to show that goes on to the next turn or check.
LEMMA Advances ==
  ASSUME DefinitionInv, ast' = ast, created' = created, definition_at \in FromName,
         definition_at' \in FromName \ {"loaded"}, Checked', Looping'
  PROVE  DefinitionInv'
BY DEF DefinitionInv, FromName, FromTwice, FromNarrow, FromKeys, FromSum, FromText, FromBuild

LEMMA SumsColumn ==
  ASSUME DefinitionInv, Definition!SumColumn
  PROVE  DefinitionInv'
<1>1. /\ definition_at = "sum" /\ i <= Len(ast.columns)
      /\ too_wide' = (too_wide \/ Definition!TooWide)
      /\ row_size' = row_size + (IF ast.columns[i].type = "INT" THEN 4
                                 ELSE IF Definition!TooWide THEN 0 ELSE ast.columns[i].width)
      /\ i' = i + 1 /\ ast' = ast /\ definition_at' = "sum" /\ schema' = schema /\ created' = created
  BY DEF Definition!SumColumn, Definition!Column, Definition!IntBytes
<1>2. /\ ast \in Creates /\ i \in 1..(Len(ast.columns) + 1)
      /\ row_size = Definition!Sums(Kept(ast))[i - 1]
      /\ too_wide <=> \E c \in 1..(i - 1) : Wide(ast, c)
      /\ schema = Definition!NoSchema
  BY <1>1 DEF DefinitionInv, Looping, FromName, FromTwice, FromNarrow, FromKeys, FromSum
<1>3. PICK a, top, h : a = ast /\ top = Len(a.columns) /\ h = Definition!Sums(Kept(a))
  OBVIOUS
<1>4. /\ top \in Nat
      /\ \A c \in 1..top : h[c] = h[c - 1] + (IF Wide(a, c) THEN 0 ELSE SizeOf(a, c))
  BY <1>2, <1>3, SizesAre
<1>5. i \in 1..top /\ i' - 1 = i /\ i' \in 1..(top + 1)
  BY <1>1, <1>2, <1>3, <1>4
<1>6. Definition!TooWide <=> Wide(a, i)
  BY <1>3 DEF Definition!TooWide, Definition!Column, Wide, MaxRow
<1>7. row_size' = h[i]
  <2>1. h[i] = h[i - 1] + (IF Wide(a, i) THEN 0 ELSE SizeOf(a, i))
    BY <1>4, <1>5
  <2>2. (IF a.columns[i].type = "INT" THEN 4 ELSE IF Wide(a, i) THEN 0 ELSE a.columns[i].width)
          = IF Wide(a, i) THEN 0 ELSE SizeOf(a, i)
    BY DEF Wide, SizeOf
  <2>3. row_size' = h[i - 1] + (IF a.columns[i].type = "INT" THEN 4
                                ELSE IF Wide(a, i) THEN 0 ELSE a.columns[i].width)
    BY <1>1, <1>2, <1>3, <1>6
  <2> QED
    BY <2>1, <2>2, <2>3
<1>8. too_wide' <=> \E c \in 1..i : Wide(a, c)
  <2>1. 1..i = 1..(i - 1) \cup {i}
    BY <1>5
  <2> QED
    BY <1>1, <1>2, <1>3, <1>6, <2>1
<1>9. Checked'
  BY <1>1 DEF DefinitionInv, Checked, FromTwice, FromNarrow, FromKeys, FromSum, FromText, FromBuild
<1>10. Looping'
  <2>1. /\ (i \in 1..(Len(ast.columns) + 1))' /\ (row_size = Definition!Sums(Kept(ast))[i - 1])'
        /\ (too_wide <=> \E c \in 1..(i - 1) : Wide(ast, c))'
    BY <1>1, <1>3, <1>5, <1>7, <1>8
  <2> QED
    BY <1>1, <1>2, <2>1 DEF Looping
<1> QED
  BY <1>1, <1>9, <1>10, Advances DEF FromName, FromTwice, FromNarrow, FromKeys, FromSum

LEMMA ChecksSize ==
  ASSUME DefinitionInv, Definition!CheckSize
  PROVE  DefinitionInv'
<1>1. PICK fault : fault = (too_wide \/ row_size > MaxRow)
  OBVIOUS
<1>2. fault \in BOOLEAN /\ Definition!Check("sum", fault, "size", "text") /\ i > Len(ast.columns)
  BY <1>1 DEF Definition!CheckSize, MaxRow
<1>3. /\ definition_at = "sum" /\ Standing
      /\ fault => definition_at' = "refused" /\ definition_error' = "size"
      /\ ~fault => definition_at' = "text"
  BY <1>2, CheckIs
<1>4. /\ ast \in Creates /\ NameFits(ast) /\ NoTwins(ast) /\ NoneNarrow(ast) /\ OneKey(ast)
      /\ i \in 1..(Len(ast.columns) + 1)
      /\ row_size = Definition!Sums(Kept(ast))[i - 1]
      /\ too_wide <=> \E c \in 1..(i - 1) : Wide(ast, c)
      /\ schema = Definition!NoSchema
  BY <1>3 DEF DefinitionInv, Checked, Looping, FromName, FromTwice, FromNarrow, FromKeys, FromSum
<1>5. fault <=> ~RowFits(ast)
  <2>1. PICK a, top, h : a = ast /\ top = Len(a.columns) /\ h = Definition!Sums(Kept(a))
    OBVIOUS
  <2>2. top \in Nat /\ h \in [0..top -> Nat]
    BY <1>4, <2>1, SizesAre
  <2>3. i - 1 = top
    BY <1>2, <1>4, <2>1, <2>2
  <2>4. h[top] \in Nat /\ MaxRow \in Int
    BY <2>2, MaxRowExact
  <2>5. row_size = h[top] /\ (too_wide <=> \E c \in 1..top : Wide(a, c))
    BY <1>4, <2>1, <2>3
  <2>6. RowFits(a) <=> (\A c \in 1..top : ~Wide(a, c)) /\ h[top] <= MaxRow
    BY <1>4, <2>1, KeptExact
  <2>7. h[top] > MaxRow <=> ~(h[top] <= MaxRow)
    BY <2>4
  <2> QED
    BY <1>1, <2>1, <2>5, <2>6, <2>7
<1>6. CASE fault
  <2>1. Definition!FirstFault(ast) = "size" /\ ~Passed(ast)
    BY <1>4, <1>5, <1>6, FaultOf DEF Passed
  <2> QED
    BY <1>3, <1>6, <2>1, Refuses
<1>7. CASE ~fault
  <2>1. RowFits(ast) /\ definition_at' = "text"
    BY <1>3, <1>5, <1>7
  <2>2. Checked'
    BY <1>3, <1>4, <2>1 DEF Checked, Standing, FromTwice, FromNarrow, FromKeys, FromSum, FromText, FromBuild
  <2>3. Looping'
    BY <1>3, <1>4, <2>1 DEF Looping, Standing
  <2> QED
    BY <1>3, <2>1, <2>2, <2>3, Advances DEF Standing, FromName, FromTwice, FromNarrow, FromKeys, FromSum,
       FromText
<1> QED
  BY <1>2, <1>6, <1>7

LEMMA OpensText ==
  ASSUME DefinitionInv, Definition!OpenText
  PROVE  DefinitionInv'
<1>1. /\ definition_at = "text" /\ definition_at' = "columns" /\ sql' = Definition!Opened(ast.name)
      /\ i' = i /\ ast' = ast /\ schema' = schema /\ created' = created
  BY DEF Definition!OpenText, Definition!WriteText
<1>2. ast \in Creates /\ i = 1 /\ schema = Definition!NoSchema
  BY <1>1 DEF DefinitionInv, Looping, FromName, FromTwice, FromNarrow, FromKeys, FromSum, FromText
<1>3. Checked'
  BY <1>1 DEF DefinitionInv, Checked, FromTwice, FromNarrow, FromKeys, FromSum, FromText, FromBuild
<1>4. Looping'
  <2>1. PICK t : t = Texts(ast)
    OBVIOUS
  <2>2. t[0] = Definition!Opened(ast.name)
    BY <1>2, <2>1, TextsAre
  <2>3. Len(ast.columns) \in Nat
    BY <1>2, CreateFacts
  <2>4. 1 \in 1..(Len(ast.columns) + 1) /\ 1 - 1 = 0
    BY <2>3
  <2>5. (i \in 1..(Len(ast.columns) + 1))' /\ (sql = Texts(ast)[i - 1])'
    BY <1>1, <1>2, <2>1, <2>2, <2>4
  <2> QED
    BY <1>1, <1>2, <2>5 DEF Looping
<1> QED
  BY <1>1, <1>3, <1>4, Advances DEF FromName, FromTwice, FromNarrow, FromKeys, FromSum, FromText

LEMMA AppendsColumn ==
  ASSUME DefinitionInv, Definition!AppendColumn
  PROVE  DefinitionInv'
<1>1. /\ definition_at = "columns" /\ definition_at' = "columns" /\ i <= Len(ast.columns)
      /\ sql' = Definition!WithColumn(sql, ast.columns[i], i = 1)
      /\ i' = i + 1 /\ ast' = ast /\ schema' = schema /\ created' = created
  BY DEF Definition!AppendColumn, Definition!WriteText, Definition!Column
<1>2. /\ ast \in Creates /\ i \in 1..(Len(ast.columns) + 1) /\ sql = Texts(ast)[i - 1]
      /\ schema = Definition!NoSchema
  BY <1>1 DEF DefinitionInv, Looping, FromName, FromTwice, FromNarrow, FromKeys, FromSum, FromText
<1>3. Checked'
  BY <1>1 DEF DefinitionInv, Checked, FromTwice, FromNarrow, FromKeys, FromSum, FromText, FromBuild
<1>4. Looping'
  <2>1. PICK t : t = Texts(ast)
    OBVIOUS
  <2>2. Len(ast.columns) \in Nat
    BY <1>2, CreateFacts
  <2>3. i \in Cols(ast) /\ i + 1 \in 1..(Len(ast.columns) + 1) /\ (i + 1) - 1 = i
    BY <1>1, <1>2, <2>2 DEF Cols
  <2>4. t[i] = Definition!WithColumn(t[i - 1], ast.columns[i], i = 1)
    BY <1>2, <2>1, <2>3, TextsAre
  <2>5. (i \in 1..(Len(ast.columns) + 1))' /\ (sql = Texts(ast)[i - 1])'
    BY <1>1, <1>2, <2>1, <2>3, <2>4
  <2> QED
    BY <1>1, <1>2, <2>5 DEF Looping
<1> QED
  BY <1>1, <1>3, <1>4, Advances DEF FromName, FromTwice, FromNarrow, FromKeys, FromSum, FromText

LEMMA ClosesText ==
  ASSUME DefinitionInv, Definition!CloseText
  PROVE  DefinitionInv'
<1>1. /\ definition_at = "columns" /\ definition_at' = "length" /\ i > Len(ast.columns)
      /\ sql' = Definition!Closed(sql)
      /\ i' = i /\ ast' = ast /\ schema' = schema /\ created' = created
  BY DEF Definition!CloseText, Definition!WriteText
<1>2. /\ ast \in Creates /\ i \in 1..(Len(ast.columns) + 1) /\ sql = Texts(ast)[i - 1]
      /\ schema = Definition!NoSchema
  BY <1>1 DEF DefinitionInv, Looping, FromName, FromTwice, FromNarrow, FromKeys, FromSum, FromText
<1>3. Checked'
  BY <1>1 DEF DefinitionInv, Checked, FromTwice, FromNarrow, FromKeys, FromSum, FromText, FromBuild
<1>4. Looping'
  <2>1. Len(ast.columns) \in Nat
    BY <1>2, CreateFacts
  <2>2. i - 1 = Len(ast.columns)
    BY <1>1, <1>2, <2>1
  <2>3. sql' = Whole(ast)
    BY <1>1, <1>2, <2>2 DEF Whole
  <2>4. (sql = Whole(ast))'
    BY <1>1, <2>3
  <2> QED
    BY <1>1, <1>2, <2>4 DEF Looping
<1> QED
  BY <1>1, <1>3, <1>4, Advances DEF FromName, FromTwice, FromNarrow, FromKeys, FromSum, FromText


\* One column is the key, so there is one.
LEMMA SomeColumn ==
  ASSUME NEW a \in Creates, OneKey(a)
  PROVE  Len(a.columns) \in Nat /\ Len(a.columns) # 0
<1>1. DOMAIN a.columns = 1..Len(a.columns) /\ Len(a.columns) \in Nat
  BY CreateFacts DEF Cols
<1>2. DOMAIN a.columns # {}
  BY DEF OneKey, KeysOf
<1> QED
  BY <1>1, <1>2

LEMMA ChecksText ==
  ASSUME DefinitionInv, Definition!CheckText
  PROVE  DefinitionInv'
<1>1. PICK fault : fault = (sql.length > SqlMax)
  OBVIOUS
<1>2. fault \in BOOLEAN /\ Definition!Check("length", fault, "text", "build")
  BY <1>1 DEF Definition!CheckText
<1>3. /\ definition_at = "length" /\ Standing
      /\ fault => definition_at' = "refused" /\ definition_error' = "text"
      /\ ~fault => definition_at' = "build"
  BY <1>2, CheckIs
<1>4. /\ ast \in Creates /\ NameFits(ast) /\ NoTwins(ast) /\ NoneNarrow(ast) /\ OneKey(ast) /\ RowFits(ast)
      /\ sql = Whole(ast) /\ schema = Definition!NoSchema
  BY <1>3 DEF DefinitionInv, Checked, Looping, FromName, FromTwice, FromNarrow, FromKeys, FromSum, FromText
<1>5. PICK a, top : a = ast /\ top = Len(a.columns)
  OBVIOUS
<1>6. a \in Creates /\ top \in Nat /\ top # 0
  BY <1>4, <1>5, SomeColumn
<1>7. fault <=> ~TextFits(ast)
  <2>1. Whole(a).length \in Nat /\ SqlMax \in Nat
    BY <1>5, <1>6, WholeLaid, LimitsAssumption DEF Text
  <2>2. Whole(a).length > SqlMax <=> ~TextFits(a)
    BY <2>1 DEF TextFits
  <2> QED
    BY <1>1, <1>4, <1>5, <2>2
<1>8. CASE fault
  <2>1. Definition!FirstFault(ast) = "text" /\ ~Passed(ast)
    BY <1>4, <1>7, <1>8, FaultOf DEF Passed
  <2> QED
    BY <1>3, <1>8, <2>1, Refuses
<1>9. CASE ~fault
  <2>1. TextFits(ast) /\ definition_at' = "build"
    BY <1>3, <1>7, <1>9
  <2>2. Checked'
    BY <1>3, <1>4, <2>1 DEF Checked, Standing, FromTwice, FromNarrow, FromKeys, FromSum, FromText, FromBuild
  <2>3. Looping'
    <3>1. 1 \in 1..(Len(ast.columns) + 1)
      BY <1>5, <1>6
    <3>2. LaidOut(ast, 0) = Definition!NoSchema
      <4>1. PICK g : g = Offsets(a)
        OBVIOUS
      <4>2. g[0] = 0
        BY <1>5, <1>6, <4>1, SizesAre
      <4>3. LaidOut(a, 0).columns = <<>>
        BY DEF LaidOut
      <4>4. LaidOut(a, 0).row_size = 0
        BY <4>1, <4>2 DEF LaidOut
      <4>5. LaidOut(a, 0) = [columns |-> LaidOut(a, 0).columns, row_size |-> LaidOut(a, 0).row_size]
        BY DEF LaidOut
      <4> QED
        BY <1>5, <4>3, <4>4, <4>5 DEF Definition!NoSchema
    <3>3. (i \in 1..(Len(ast.columns) + 1))' /\ (schema = LaidOut(ast, i - 1))' /\ (sql = Whole(ast))'
      BY <1>3, <1>4, <3>1, <3>2 DEF Standing
    <3> QED
      BY <2>1, <3>3 DEF Looping
  <2> QED
    BY <1>3, <2>1, <2>2, <2>3, Advances DEF Standing, FromName, FromTwice, FromNarrow, FromKeys, FromSum,
       FromText, FromBuild
<1> QED
  BY <1>2, <1>8, <1>9

\* A function's next value at the end of its first k.
LEMMA AppendNext ==
  ASSUME NEW top \in Nat, NEW k \in 1..top, NEW V, NEW r \in [1..top -> V]
  PROVE  Append([c \in 1..(k - 1) |-> r[c]], r[k]) = [c \in 1..k |-> r[c]]
<1>1. PICK s : s = [c \in 1..(k - 1) |-> r[c]]
  OBVIOUS
<1>2. k - 1 \in Nat /\ 1..(k - 1) \subseteq 1..top /\ k \in Nat
  OBVIOUS
<1>3. s \in Seq(V) /\ Len(s) = k - 1 /\ \A c \in 1..(k - 1) : s[c] = r[c]
  <2>1. s \in [1..(k - 1) -> V]
    BY <1>1, <1>2
  <2> QED
    BY <1>1, <1>2, <2>1
<1>4. r[k] \in V
  OBVIOUS
<1>5. PICK u : u = Append(s, r[k])
  OBVIOUS
<1>6. /\ u \in Seq(V) /\ Len(u) = k /\ \A c \in 1..(k - 1) : u[c] = s[c]
      /\ u[k] = r[k]
  BY <1>2, <1>3, <1>4, <1>5
<1>7. u \in [1..k -> V]
  BY <1>6
<1>8. \A c \in 1..k : u[c] = r[c]
  BY <1>2, <1>3, <1>6
<1>9. u = [c \in 1..k |-> r[c]]
  BY <1>7, <1>8
<1> QED
  BY <1>1, <1>5, <1>9

Built(a, g, c) ==
  [column_id |-> c, name |-> a.columns[c].name, type |-> a.columns[c].type, size |-> SizeOf(a, c),
   offset |-> g[c - 1]]

LEMMA LaidOutGrows ==
  ASSUME NEW a \in Creates, NEW k \in Cols(a), NEW s, s = LaidOut(a, k - 1),
         NEW u, u = [columns |-> Append(s.columns,
                       [column_id |-> k, name |-> a.columns[k].name, type |-> a.columns[k].type,
                        size |-> SizeOf(a, k), offset |-> s.row_size]),
                     row_size |-> s.row_size + SizeOf(a, k)]
  PROVE  u = LaidOut(a, k)
<1>1. PICK top, g : top = Len(a.columns) /\ g = Offsets(a)
  OBVIOUS
<1>2. top \in Nat /\ Cols(a) = 1..top /\ \A c \in 1..top : g[c] = g[c - 1] + SizeOf(a, c)
  BY <1>1, SizesAre
<1>3. PICK r : r = [c \in 1..top |-> Built(a, g, c)]
  OBVIOUS
<1>4. \A c \in 0..top : LaidOut(a, c) = [columns |-> [x \in 1..c |-> r[x]], row_size |-> g[c]]
  <2> SUFFICES ASSUME NEW c \in 0..top
               PROVE  LaidOut(a, c) = [columns |-> [x \in 1..c |-> r[x]], row_size |-> g[c]]
    OBVIOUS
  <2>1. \A x \in 1..c : x \in 1..top
    BY <1>2
  <2>2. [x \in 1..c |-> Built(a, g, x)] = [x \in 1..c |-> r[x]]
    BY <1>3, <2>1
  <2> QED
    BY <1>1, <2>2 DEF LaidOut, Built
<1>5. k \in 1..top /\ k \in 0..top /\ k - 1 \in 0..top
  BY <1>2
<1>6. s = [columns |-> [x \in 1..(k - 1) |-> r[x]], row_size |-> g[k - 1]]
  BY <1>4, <1>5
<1>7. r[k] = [column_id |-> k, name |-> a.columns[k].name, type |-> a.columns[k].type,
              size |-> SizeOf(a, k), offset |-> s.row_size]
  BY <1>3, <1>5, <1>6 DEF Built
<1>8. Append(s.columns, r[k]) = [x \in 1..k |-> r[x]]
  <2>1. PICK V : V = {r[c] : c \in 1..top}
    OBVIOUS
  <2>2. r \in [1..top -> V]
    BY <1>3, <2>1
  <2>3. PICK w : w = [x \in 1..(k - 1) |-> r[x]]
    OBVIOUS
  <2>4. Append(w, r[k]) = [x \in 1..k |-> r[x]]
    BY <1>2, <1>5, <2>2, <2>3, AppendNext
  <2>5. s = [columns |-> w, row_size |-> g[k - 1]]
    BY <1>6, <2>3, Zenon
  <2>6. s.columns = w
    BY <2>5
  <2> QED
    BY <2>4, <2>6
<1>9. s.row_size + SizeOf(a, k) = g[k]
  BY <1>2, <1>5, <1>6
<1> QED
  BY <1>4, <1>5, <1>7, <1>8, <1>9

\* A width that fits the row fits the 32 bits of the column array.
LEMMA SizeKept ==
  ASSUME NEW a \in Creates, NEW k \in Cols(a), RowFits(a)
  PROVE  (IF a.columns[k].type = "INT" THEN 4 ELSE a.columns[k].width % Word) = SizeOf(a, k)
<1>1. a.columns[k] \in NewColumn
  BY CreateFacts
<1>2. a.columns[k].type \in {"INT", "TEXT"} /\ a.columns[k].width \in Nat
  BY <1>1, ColumnFacts
<1>3. ~Wide(a, k)
  BY DEF RowFits
<1>4. CASE a.columns[k].type = "INT"
  BY <1>4 DEF SizeOf
<1>5. CASE a.columns[k].type # "INT"
  <2>1. ~(a.columns[k].width > MaxRow)
    BY <1>2, <1>3, <1>5 DEF Wide
  <2>2. MaxRow \in Int /\ MaxRow < Word /\ Word \in Nat
    BY MaxRowExact, LimitsAssumption
  <2>3. a.columns[k].width < Word
    BY <1>2, <2>1, <2>2
  <2>4. a.columns[k].width % Word = a.columns[k].width
    <3> SUFFICES ASSUME NEW x \in Nat, x < Word PROVE x % Word = x
      BY <1>2, <2>3
    <3>1. Word \in Nat /\ Word > 0
      BY <2>2
    <3> QED
      BY <3>1
  <2> QED
    BY <1>5, <2>4 DEF SizeOf
<1> QED
  BY <1>4, <1>5

LEMMA Builds ==
  ASSUME DefinitionInv, Definition!Build
  PROVE  DefinitionInv'
<1> DEFINE size == IF ast.columns[i].type = "INT" THEN 4 ELSE ast.columns[i].width % Word
<1>1. /\ definition_at = "build" /\ definition_at' = "build" /\ i <= Len(ast.columns)
      /\ i' = i + 1 /\ ast' = ast /\ sql' = sql /\ created' = created
      /\ schema' = [columns |-> Append(schema.columns,
                      [column_id |-> i, name |-> ast.columns[i].name, type |-> ast.columns[i].type,
                       size |-> size, offset |-> schema.row_size]),
                    row_size |-> schema.row_size + size]
  BY DEF Definition!Build, Definition!Column, Definition!IntBytes
<1>2. /\ ast \in Creates /\ RowFits(ast) /\ i \in 1..(Len(ast.columns) + 1) /\ sql = Whole(ast)
      /\ schema = LaidOut(ast, i - 1)
  BY <1>1 DEF DefinitionInv, Checked, Looping, FromName, FromTwice, FromNarrow, FromKeys, FromSum, FromText,
     FromBuild
<1>3. Checked'
  BY <1>1 DEF DefinitionInv, Checked, FromTwice, FromNarrow, FromKeys, FromSum, FromText, FromBuild
<1>4. Looping'
  <2>1. Len(ast.columns) \in Nat
    BY <1>2, CreateFacts
  <2>2. i \in Cols(ast) /\ i + 1 \in 1..(Len(ast.columns) + 1) /\ (i + 1) - 1 = i
    BY <1>1, <1>2, <2>1 DEF Cols
  <2>3. size = SizeOf(ast, i)
    BY <1>2, <2>2, SizeKept
  <2> HIDE DEF size
  <2>4. schema' = [columns |-> Append(schema.columns,
                     [column_id |-> i, name |-> ast.columns[i].name, type |-> ast.columns[i].type,
                      size |-> SizeOf(ast, i), offset |-> schema.row_size]),
                   row_size |-> schema.row_size + SizeOf(ast, i)]
    BY <1>1, <2>3
  <2>5. schema' = LaidOut(ast, i)
    BY <1>2, <2>2, <2>4, LaidOutGrows
  <2>6. (i \in 1..(Len(ast.columns) + 1))' /\ (schema = LaidOut(ast, i - 1))' /\ (sql = Whole(ast))'
    BY <1>1, <1>2, <2>2, <2>5
  <2> QED
    BY <1>1, <2>6 DEF Looping
<1> QED
  BY <1>1, <1>3, <1>4, Advances DEF FromName, FromTwice, FromNarrow, FromKeys, FromSum, FromText, FromBuild

LEMMA Finishes ==
  ASSUME DefinitionInv, Definition!Finish
  PROVE  DefinitionInv'
<1>1. Definition!Check("build", FALSE, "none", "done") /\ i > Len(ast.columns)
  BY DEF Definition!Finish
<1>2. definition_at = "build" /\ Standing /\ definition_at' = "done"
  BY <1>1, CheckIs
<1>3. /\ ast \in Creates /\ i \in 1..(Len(ast.columns) + 1) /\ sql = Whole(ast)
      /\ schema = LaidOut(ast, i - 1)
  BY <1>2 DEF DefinitionInv, Looping, FromName, FromTwice, FromNarrow, FromKeys, FromSum, FromText,
     FromBuild
<1>4. Checked'
  BY <1>2 DEF DefinitionInv, Checked, Standing, FromTwice, FromNarrow, FromKeys, FromSum, FromText, FromBuild
<1>5. Looping'
  <2>1. Len(ast.columns) \in Nat
    BY <1>3, CreateFacts
  <2>2. i - 1 = Len(ast.columns)
    BY <1>1, <1>3, <2>1
  <2>3. (schema = LaidOut(ast, Len(ast.columns)))' /\ (sql = Whole(ast))'
    BY <1>2, <1>3, <2>2 DEF Standing
  <2> QED
    BY <1>2, <2>3 DEF Looping
<1> QED
  BY <1>2, <1>4, <1>5, Advances DEF Standing, FromName, FromTwice, FromNarrow, FromKeys, FromSum, FromText,
     FromBuild


-----------------------------------------------------------------------------
\* The load of what the catalog keeps, and the next line

LEMMA LoadsText ==
  ASSUME DefinitionInv, Definition!LoadText
  PROVE  DefinitionInv'
<1>1. definition_at = "done" /\ created = Definition!NoDefinition
  BY DEF Definition!LoadText
<1>2. /\ ast \in Creates /\ NameFits(ast) /\ NoTwins(ast) /\ NoneNarrow(ast) /\ OneKey(ast) /\ RowFits(ast)
      /\ TextFits(ast) /\ sql = Whole(ast) /\ schema = LaidOut(ast, Len(ast.columns))
  BY <1>1 DEF DefinitionInv, Checked, Looping, FromName, FromTwice, FromNarrow, FromKeys, FromSum, FromText,
     FromBuild
<1>3. PICK t : t = Definition!CutText(sql, SqlMax)
  OBVIOUS
<1>4. Definition!Parses(t) /\ Definition!Parsed(t) = ast
  <2>1. t = Whole(ast).tokens
    BY <1>2, <1>3 DEF Definition!CutText, TextFits
  <2>2. Len(ast.columns) # 0
    BY <1>2, SomeColumn
  <2>3. ASSUME NEW c \in Cols(ast) PROVE ~ast.columns[c].width_out_of_range
    <3>1. ast.columns[c] \in NewColumn
      BY <1>2, CreateFacts
    <3>2. ast.columns[c].type \in {"INT", "TEXT"}
          /\ (ast.columns[c].type = "INT" => ~ast.columns[c].width_out_of_range)
      BY <3>1, ColumnFacts
    <3>3. ~Wide(ast, c)
      BY <1>2 DEF RowFits
    <3> QED
      BY <3>2, <3>3 DEF Wide
  <2> QED
    BY <1>2, <2>1, <2>2, <2>3, ParsedBack
<1>5. /\ ast' = ast /\ definition_at' = "name" /\ created' = Definition!Definition
      /\ i' = 1 /\ row_size' = 0 /\ ~too_wide' /\ schema' = Definition!NoSchema
  BY <1>3, <1>4 DEF Definition!LoadText
<1>6. created' = DefinitionOf(ast)
  <2>1. Definition!key_index = LastKey(ast)
    BY <1>2, ChecksAre
  <2> QED
    BY <1>2, <1>5, <2>1 DEF Definition!Definition, DefinitionOf
<1>7. Passed(ast)
  BY <1>2 DEF Passed
<1>8. Checked' /\ Looping'
  BY <1>5 DEF Checked, Looping, FromTwice, FromNarrow, FromKeys, FromSum, FromText, FromBuild
<1>9. (ast \in Creates /\ Passed(ast) /\ created = DefinitionOf(ast))'
  BY <1>2, <1>5, <1>6, <1>7
<1> QED
  BY <1>5, <1>8, <1>9 DEF DefinitionInv, FromName, FromTwice, FromNarrow, FromKeys, FromSum, FromText,
     FromBuild

LEMMA LoadsName ==
  ASSUME DefinitionInv, Definition!LoadName
  PROVE  DefinitionInv'
<1>1. PICK fault : fault = ~Definition!schema_names_equal(ast.name, Definition!CutName(created.name, NameMax))
  OBVIOUS
<1>2. /\ fault \in BOOLEAN /\ Definition!Check("done", fault, "other name", "loaded")
      /\ created # Definition!NoDefinition
  BY <1>1 DEF Definition!LoadName
<1>3. /\ definition_at = "done" /\ Standing
      /\ ~fault => definition_at' = "loaded"
  BY <1>2, CheckIs
<1>4. /\ ast \in Creates /\ Passed(ast) /\ created = DefinitionOf(ast)
      /\ sql = Whole(ast) /\ schema = LaidOut(ast, Len(ast.columns))
  BY <1>2, <1>3 DEF DefinitionInv, Looping
<1>5. ~fault
  <2>1. created.name = ast.name
    BY <1>4 DEF DefinitionOf
  <2>2. Definition!CutName(created.name, NameMax) = ast.name
    BY <1>4, <2>1 DEF Definition!CutName, Passed, NameFits
  <2> QED
    BY <1>1, <2>2 DEF Definition!schema_names_equal
<1>6. definition_at' = "loaded"
  BY <1>3, <1>5
<1>7. Checked'
  BY <1>3, <1>4, <1>6 DEF Standing, Passed, Checked, FromTwice, FromNarrow, FromKeys, FromSum, FromText,
     FromBuild
<1>8. (schema = LaidOut(ast, Len(ast.columns)))' /\ (sql = Whole(ast))'
      /\ (ast \in Creates /\ Passed(ast) /\ created = DefinitionOf(ast))'
      /\ (created # Definition!NoDefinition)'
  BY <1>2, <1>3, <1>4 DEF Standing
<1>9. Looping'
  BY <1>6, <1>8 DEF Looping
<1> QED
  BY <1>6, <1>7, <1>8, <1>9 DEF DefinitionInv, FromName, FromTwice, FromNarrow, FromKeys, FromSum, FromText,
     FromBuild

LEMMA DefinitionStarts ==
  ASSUME DefinitionInv, LinesInv, Creating, Definition!Start(line.definition)
  PROVE  DefinitionInv'
<1>1. line \in Lines /\ line.kind = "create"
  BY DEF LinesInv, Creating, Binding, NoLine
<1>2. line.definition \in Creates
  BY <1>1, LinesAssumption
<1>3. /\ definition_at = "idle" /\ ast' = line.definition /\ definition_at' = "name"
      /\ i' = i /\ row_size' = row_size /\ too_wide' = too_wide /\ schema' = schema /\ created' = created
  BY DEF Definition!Start
<1>4. /\ i = 1 /\ row_size = 0 /\ ~too_wide /\ schema = Definition!NoSchema
      /\ created = Definition!NoDefinition
  BY <1>3 DEF DefinitionInv, Looping
<1>5. Checked' /\ Looping'
  BY <1>3, <1>4 DEF Checked, Looping, FromTwice, FromNarrow, FromKeys, FromSum, FromText, FromBuild
<1> QED
  BY <1>2, <1>3, <1>4, <1>5 DEF DefinitionInv, FromName, FromTwice, FromNarrow, FromKeys, FromSum, FromText,
     FromBuild

LEMMA IdleDefinition ==
  /\ definition_at = "idle" /\ i = 1 /\ row_size = 0 /\ too_wide = FALSE
  /\ schema = Definition!NoSchema /\ created = Definition!NoDefinition
  => DefinitionInv
BY DEF DefinitionInv, Checked, Looping, FromName, FromTwice, FromNarrow, FromKeys, FromSum, FromText,
   FromBuild

LEMMA DefinitionInitially == PrepareInit => DefinitionInv
BY IdleDefinition DEF PrepareInit, Definition!Init

LEMMA DefinitionResets ==
  ASSUME Definition!Reset
  PROVE  DefinitionInv'
<1>1. /\ definition_at' = "idle" /\ i' = 1 /\ row_size' = 0 /\ too_wide' = FALSE
      /\ schema' = Definition!NoSchema /\ created' = Definition!NoDefinition
  BY DEF Definition!Reset
<1>2. Checked' /\ Looping'
  BY <1>1 DEF Checked, Looping, FromTwice, FromNarrow, FromKeys, FromSum, FromText, FromBuild
<1> QED
  BY <1>1, <1>2 DEF DefinitionInv, FromName, FromTwice, FromNarrow, FromKeys, FromSum, FromText, FromBuild

LEMMA DefinitionUnchanged ==
  ASSUME DefinitionInv, UNCHANGED definition_vars
  PROVE  DefinitionInv'
<1>1. /\ ast' = ast /\ definition_at' = definition_at /\ i' = i /\ row_size' = row_size
      /\ too_wide' = too_wide /\ sql' = sql /\ schema' = schema /\ created' = created
      /\ definition_error' = definition_error
  BY DEF definition_vars
<1>2. Checked'
  BY <1>1 DEF DefinitionInv, Checked
<1>3. Looping'
  BY <1>1 DEF DefinitionInv, Looping
<1>4. (definition_error = Definition!FirstFault(ast))' <=> definition_error = Definition!FirstFault(ast)
  BY <1>1
<1>5. (Passed(ast) /\ created = DefinitionOf(ast))' <=> Passed(ast) /\ created = DefinitionOf(ast)
  BY <1>1
<1> QED
  BY <1>1, <1>2, <1>3, <1>4, <1>5 DEF DefinitionInv

LEMMA DefineKeeps ==
  ASSUME DefinitionInv, Definition!Define
  PROVE  DefinitionInv'
BY ChecksName, ChecksTwice, ChecksNarrow, ChecksKeys, SumsColumn, ChecksSize, OpensText, AppendsColumn,
   ClosesText, ChecksText, Builds, Finishes DEF Definition!Define

LEMMA DefinitionKept == DefinitionInv /\ LinesInv /\ [PrepareNext]_all_vars => DefinitionInv'
<1> SUFFICES ASSUME DefinitionInv, LinesInv, [PrepareNext]_all_vars PROVE DefinitionInv'
  OBVIOUS
<1>1. CASE DefinitionStep
  BY <1>1, DefinitionStarts, DefineKeeps DEF DefinitionStep
<1>2. CASE ReopenStep
  BY <1>2, LoadsText, LoadsName, DefineKeeps DEF ReopenStep
<1>3. CASE NextPrompt
  BY <1>3, DefinitionResets DEF NextPrompt
<1>4. CASE UNCHANGED definition_vars
  BY <1>4, DefinitionUnchanged
<1> QED
  BY <1>1, <1>2, <1>3, <1>4 DEF PrepareNext, PrepareStep, BindInsertValues, InsertStep, BindDefinition,
     all_vars

LEMMA DefinitionAlways == PrepareSpec => []DefinitionInv
BY InsertAlways, DefinitionInitially, DefinitionKept, PTL DEF PrepareSpec

\* A CREATE TABLE is refused exactly when one of the six rules is broken, and for
\* the most basic of them, however wide its columns and long its names are.
THEOREM MostBasicFaultIsNamed == PrepareSpec => []RefusedForMostBasicFault
<1>1. DefinitionInv => RefusedForMostBasicFault
  <2> SUFFICES ASSUME DefinitionInv PROVE Definition!RefusedForMostBasicFault
    BY DEF RefusedForMostBasicFault
  <2>1. ASSUME definition_at = "done" PROVE Definition!FirstFault(ast) = "none"
    <3>1. ast \in Creates /\ Passed(ast)
      BY <2>1 DEF DefinitionInv, Checked, Passed, FromName, FromTwice, FromNarrow, FromKeys, FromSum, FromText,
         FromBuild
    <3> QED
      BY <3>1, FaultOf
  <2> QED
    BY <2>1 DEF DefinitionInv, Definition!RefusedForMostBasicFault
<1> QED
  BY <1>1, DefinitionAlways, PTL

\* The fields of a row never overlap, and a leaf has room for MinRows rows of
\* every table that CREATE TABLE accepts, which the b+tree's proofs assume.
THEOREM AcceptedRowsFitLeaf == PrepareSpec => []RowsFitLeaf
<1>1. DefinitionInv => RowsFitLeaf
  <2> SUFFICES ASSUME DefinitionInv, definition_at = "done"
               PROVE  /\ Definition!leaf_node_max_cells(schema.row_size) >= MinRows
                      /\ \A c, d \in DOMAIN schema.columns : c < d =>
                           schema.columns[c].offset + schema.columns[c].size <= schema.columns[d].offset
                      /\ \A c \in DOMAIN schema.columns :
                           schema.columns[c].offset + schema.columns[c].size <= schema.row_size
    BY DEF RowsFitLeaf, Definition!RowsFitLeaf
  <2>1. ast \in Creates /\ RowFits(ast) /\ schema = LaidOut(ast, Len(ast.columns))
    BY DEF DefinitionInv, Checked, Looping, FromName, FromTwice, FromNarrow, FromKeys, FromSum, FromText,
       FromBuild
  <2>2. PICK a, top, g : a = ast /\ top = Len(a.columns) /\ g = Offsets(a)
    OBVIOUS
  <2>3. /\ top \in Nat /\ g \in [0..top -> Nat]
        /\ \A c \in 1..top : SizeOf(a, c) \in Nat /\ g[c] = g[c - 1] + SizeOf(a, c)
        /\ \A j, k \in 0..top : j <= k => g[j] <= g[k]
    BY <2>1, <2>2, SizesAre
  <2>4. /\ DOMAIN schema.columns = 1..top /\ schema.row_size = g[top]
        /\ \A c \in 1..top : schema.columns[c].offset = g[c - 1] /\ schema.columns[c].size = SizeOf(a, c)
    BY <2>1, <2>2 DEF LaidOut
  <2>5. Definition!leaf_node_max_cells(schema.row_size) >= MinRows
    <3>1. g[top] \in Nat /\ g[top] <= MaxRow
      BY <2>1, <2>2, <2>3 DEF RowFits
    <3>2. CellSpace \div Definition!AlignUp(4 + g[top]) >= MinRows
      BY <3>1, MaxRowExact
    <3> QED
      BY <2>4, <3>2 DEF Definition!leaf_node_max_cells, Definition!leaf_node_cell_size, Definition!KeySize
  <2>6. \A c \in 1..top : schema.columns[c].offset + schema.columns[c].size = g[c]
    BY <2>3, <2>4
  <2>7. \A c \in 1..top : g[c] <= g[top]
    BY <2>3
  <2>8. \A c, d \in 1..top : c < d => g[c] <= g[d - 1]
    <3> SUFFICES ASSUME NEW c \in 1..top, NEW d \in 1..top, c < d PROVE g[c] <= g[d - 1]
      OBVIOUS
    <3>1. c \in 0..top /\ d - 1 \in 0..top /\ c <= d - 1
      BY <2>3
    <3> QED
      BY <2>3, <3>1
  <2> QED
    BY <2>4, <2>5, <2>6, <2>7, <2>8
<1> QED
  BY <1>1, DefinitionAlways, PTL

\* What the catalog keeps of a table is read back by every later db_open as the
\* definition it was: no accepted table makes its file unreadable.
THEOREM DefinitionsReturn == PrepareSpec => []DefinitionReturns
<1>1. DefinitionInv => DefinitionReturns
  <2> SUFFICES ASSUME DefinitionInv, created # Definition!NoDefinition
               PROVE  /\ definition_at # "refused"
                      /\ definition_at \in {"done", "loaded"} => Definition!Definition = created
    BY DEF DefinitionReturns, Definition!DefinitionReturns
  <2>1. definition_at # "refused" /\ ast \in Creates /\ created = DefinitionOf(ast)
    BY DEF DefinitionInv
  <2>2. ASSUME definition_at \in {"done", "loaded"} PROVE Definition!Definition = created
    <3>1. sql = Whole(ast) /\ schema = LaidOut(ast, Len(ast.columns))
      BY <2>2 DEF DefinitionInv, Looping
    <3>2. Definition!key_index = LastKey(ast)
      BY <2>1, ChecksAre
    <3> QED
      BY <2>1, <3>1, <3>2 DEF Definition!Definition, DefinitionOf
  <2> QED
    BY <2>1, <2>2
<1> QED
  BY <1>1, DefinitionAlways, PTL


=============================================================================
