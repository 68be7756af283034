------------------------------ MODULE InsertBinding ------------------------------
(***************************************************************************)
(* bind_insert (statement.c): which column each value of an INSERT goes    *)
(* into, every check in the code's order, and the row built at the end.    *)
(* The array `targets` has a slot for each column of the table, while the  *)
(* loop that fills it runs over the names of the statement.                *)
(*                                                                         *)
(* The row is built in bytes (module Records).  Positions count from 1; a  *)
(* string is the sequence of its bytes, an integer has the flag of one too *)
(* long.                                                                   *)
(***************************************************************************)
EXTENDS Records

CONSTANTS
  Schema,       \* the table's columns, each [name, type, size, offset]
  KeyColumn,    \* the position of the key column
  Constants     \* the literals conditions compare with

num_columns == Len(Schema)

VARIABLES
  insert,     \* the statement: [named, names, values]
  at,         \* where bind_insert stands, "idle" between INSERTs
  i,          \* the counter of its loops
  listed,     \* the columns the list has named so far
  targets,    \* the slots written: position of a value -> column
  error,      \* what is wrong, "none" if nothing is
  record      \* the payload of the row

vars == <<insert, at, i, listed, targets, error, record>>

\* The columns of that name, their case ignored; the first is taken.
schema_find_column_by_name(name) == {c \in 1..num_columns : Schema[c].name = name.word}
First(columns) == CHOOSE c \in columns : \A d \in columns : c <= d

NoInsert == [named |-> FALSE, names |-> <<>>, values |-> <<>>]

Init ==
  /\ insert = NoInsert /\ at = "idle" /\ i = 1
  /\ listed = {} /\ targets = <<>>
  /\ error = "none" /\ record = record_init(Schema)

\* bind_insert is called, and later its caller is done with the line.
Start(asked) ==
  /\ at = "idle"
  /\ insert' = asked /\ at' = "names"
  /\ UNCHANGED <<i, listed, targets, error, record>>

Reset ==
  /\ insert' = NoInsert /\ at' = "idle" /\ i' = 1
  /\ listed' = {} /\ targets' = <<>>
  /\ error' = "none" /\ record' = record_init(Schema)

-----------------------------------------------------------------------------
Refuse(why) ==
  /\ at' = "refused" /\ error' = why
  /\ UNCHANGED <<insert, i, listed, targets, record>>

GoTo(next) ==
  /\ at' = next /\ i' = 1
  /\ UNCHANGED <<insert, listed, targets, error, record>>

UnknownColumn ==
  /\ at = "names" /\ insert.named /\ i <= Len(insert.names)
  /\ schema_find_column_by_name(insert.names[i]) = {}
  /\ Refuse("no such column")

Found == First(schema_find_column_by_name(insert.names[i]))

\* Mutant of AlreadyListed: a repeated column is let through.
NeverListed(c) == FALSE

AlreadyListed(c) == c \in listed

RepeatedColumn ==
  /\ at = "names" /\ insert.named /\ i <= Len(insert.names)
  /\ schema_find_column_by_name(insert.names[i]) # {}
  /\ AlreadyListed(Found)
  /\ Refuse("listed twice")

\* targets[i] is written.
ListColumn ==
  /\ at = "names" /\ insert.named /\ i <= Len(insert.names)
  /\ schema_find_column_by_name(insert.names[i]) # {}
  /\ ~AlreadyListed(Found)
  /\ listed' = listed \cup {Found}
  /\ targets' = [t \in DOMAIN targets \cup {i} |-> IF t = i THEN Found ELSE targets[t]]
  /\ i' = i + 1
  /\ UNCHANGED <<insert, at, error, record>>

\* Mutant of EndNames: missing columns are looked for before the count.
MissingFirst == at = "names" /\ insert.named /\ i > Len(insert.names) /\ GoTo("missing")

EndNames == at = "names" /\ insert.named /\ i > Len(insert.names) /\ GoTo("count")

\* Without a list the values fill the columns in order.
NoNames ==
  /\ at = "names" /\ ~insert.named
  /\ targets' = [t \in 1..num_columns |-> t]
  /\ at' = "count"
  /\ UNCHANGED <<insert, i, listed, error, record>>

num_targets == IF insert.named THEN Len(insert.names) ELSE num_columns

WrongCount == at = "count" /\ Len(insert.values) # num_targets /\ Refuse("count")
RightCount == at = "count" /\ Len(insert.values) = num_targets /\ GoTo("missing")

Unlisted == 1..num_columns \ listed

MissingColumn == at = "missing" /\ insert.named /\ Unlisted # {} /\ Refuse("no value")
NoneMissing == at = "missing" /\ (insert.named => Unlisted = {}) /\ GoTo("values")

\* bind_value: what is wrong with a value for a column.
Fault(value, c) ==
  IF Schema[c].type = "INT"
  THEN IF value.type # "INTEGER" THEN "type"
       ELSE IF value.out_of_range \/ value.integer < Int32Min \/ value.integer > Int32Max THEN "range"
       ELSE IF c = KeyColumn /\ value.integer < 0 THEN "negative" ELSE "none"
  ELSE IF value.type # "STRING" THEN "type"
       ELSE IF Len(value.text) > Schema[c].size THEN "length" ELSE "none"

WrongValue ==
  /\ at = "values" /\ i <= Len(insert.values)
  /\ Fault(insert.values[i], targets[i]) # "none"
  /\ Refuse(Fault(insert.values[i], targets[i]))

RightValue ==
  /\ at = "values" /\ i <= Len(insert.values)
  /\ Fault(insert.values[i], targets[i]) = "none"
  /\ i' = i + 1
  /\ UNCHANGED <<insert, at, listed, targets, error, record>>

EndValues == at = "values" /\ i > Len(insert.values) /\ GoTo("row")

\* (int32_t)literal->integer
AsInt32(v) == ((v - Int32Min) % (Int32Max - Int32Min + 1)) + Int32Min

\* The column's field set to the value.
Stored(value, c) ==
  IF value.type = "INTEGER" THEN record_set_int(record, Schema[c], AsInt32(value.integer))
  ELSE record_set_text(record, Schema[c], value.text)

SetColumn ==
  /\ at = "row" /\ i <= Len(insert.values)
  /\ record' = Stored(insert.values[i], targets[i])
  /\ i' = i + 1
  /\ UNCHANGED <<insert, at, listed, targets, error>>

Accept == at = "row" /\ i > Len(insert.values) /\ GoTo("accepted")

Next ==
  \/ UnknownColumn \/ RepeatedColumn \/ ListColumn \/ EndNames \/ NoNames
  \/ WrongCount \/ RightCount \/ MissingColumn \/ NoneMissing
  \/ WrongValue \/ RightValue \/ EndValues \/ SetColumn \/ Accept

-----------------------------------------------------------------------------
\* What an INSERT asks for, without the order the binder looks at it.

\* The columns the n-th name stands for, the case of names ignored.
Names(n) == {c \in 1..num_columns : Schema[c].name = insert.names[n].word}

\* The column the n-th value is meant for.
Meant(n) == IF insert.named THEN First(Names(n)) ELSE n

NameFault ==
  insert.named /\ \E n \in DOMAIN insert.names :
    Names(n) = {} \/ \E m \in 1..(n - 1) : Names(m) = Names(n)
CountFault == Len(insert.values) # num_targets
MissingFault ==
  insert.named /\ \E c \in 1..num_columns : \A n \in DOMAIN insert.names : c \notin Names(n)

\* A value fits its column if it comes back as it went in.
Fits(value, c) ==
  /\ (value.type = "INTEGER") <=> Schema[c].type = "INT"
  /\ value.type = "INTEGER" => ~value.out_of_range /\ value.integer \in Int32Min..Int32Max
  /\ value.type = "STRING" => Len(value.text) <= Schema[c].size
  /\ c = KeyColumn /\ value.type = "INTEGER" => value.integer >= 0

Acceptable ==
  /\ ~NameFault /\ ~CountFault /\ ~MissingFault
  /\ \A n \in DOMAIN insert.values : Fits(insert.values[n], Meant(n))

-----------------------------------------------------------------------------
\* The array of targets has a slot for each column, but a statement may list any
\* number of names: no slot past the last is written, since a name that would
\* need one repeats a column.  And no slot is read before it was written.
TargetsInBounds ==
  /\ DOMAIN targets \subseteq 1..num_columns
  /\ \A t \in DOMAIN targets : targets[t] \in 1..num_columns
  /\ at \in {"values", "row"} => 1..Len(insert.values) \subseteq DOMAIN targets

\* Exactly the INSERTs are accepted that give each column one value that fits,
\* and of the others "the error reported is the most basic thing wrong": names,
\* then the count, then missing columns, then values.
InsertJudged ==
  /\ at = "accepted" => Acceptable
  /\ at = "refused" => ~Acceptable /\
       CASE error \in {"no such column", "listed twice"} -> NameFault
         [] error = "count" -> ~NameFault /\ CountFault
         [] error = "no value" -> ~NameFault /\ ~CountFault /\ MissingFault
         [] OTHER -> ~NameFault /\ ~CountFault /\ ~MissingFault

Written(value) == IF value.type = "INTEGER" THEN value.integer ELSE value.text

\* An accepted row's fields read back as the values the statement gives for
\* their columns, in whatever order it lists them: also a text that fills its
\* field and so has no NUL, whatever stands in the next field, and a negative
\* integer.
RowAsWritten ==
  at = "accepted" =>
    \A n \in DOMAIN insert.values :
      Field(record, Schema[Meant(n)]) = Written(insert.values[n])

\* Conditions on a row as stored order values as the values themselves are
\* ordered, whichever two of its fields and the constants are compared: padding,
\* the missing NUL of a full field, a constant longer than the field is wide and
\* bytes of 128 and more change nothing.
Operands(type) ==
  {<<Field(record, Schema[Meant(n)]), Written(insert.values[n])>> :
     n \in {m \in DOMAIN insert.values : Schema[Meant(m)].type = type}}
    \cup {<<constant.value, constant.value>> : constant \in {k \in Constants : k.type = type}}

StoredOrderIsValueOrder ==
  at = "accepted" => \A type \in {"INT", "TEXT"} : \A x, y \in Operands(type) :
    /\ compare_operands(type, x[1], y[1]) < 0 <=> Before(type, x[2], y[2])
    /\ compare_operands(type, x[1], y[1]) = 0 <=> x[2] = y[2]

=============================================================================
