---------------------------- MODULE TableDefinition ----------------------------
(***************************************************************************)
(* A CREATE TABLE from its syntax tree to a checked definition             *)
(* (table_definition.c, schema_create in schema.c), and back: the catalog  *)
(* keeps the canonical text of a definition in a field of fixed width, and *)
(* the next db_open parses it and checks it by the same code (load_tables, *)
(* database.c).                                                            *)
(*                                                                         *)
(* A text is the sequence of its tokens with its length in bytes; a name   *)
(* is a word, the case it is written in, and its length.                   *)
(***************************************************************************)
EXTENDS Integers, SequencesExt

CONSTANTS
  NameMax,         \* TABLE_NAME_MAX_LENGTH, and the width of the catalog's field
  SqlMax,          \* TABLE_SQL_MAX_LENGTH, and the width of the catalog's field
  FirstCapacity,   \* the bytes canonical_sql starts with
  CellSpace,       \* the bytes of a leaf that its cells share
  MinRows,         \* TABLE_MIN_ROWS_PER_LEAF
  Word             \* what a uint32_t holds, 2^32

IntBytes == 4
KeySize == 4

VARIABLES
  ast,        \* the definition being checked: its name and columns
  at,         \* the check it has come to, "done" or "refused"; "idle" between
  i,          \* the counter of the loop at work
  row_size,   \* the bytes of a row, as the size check adds them up
  too_wide,   \* a column alone is wider than a row may be
  sql,        \* the canonical text: its tokens, length and the buffer's capacity
  schema,     \* the columns laid out so far, and their row size
  error,      \* why it was refused, "none" if it was not
  created     \* the definition the catalog keeps, NoDefinition before it does

vars == <<ast, at, i, row_size, too_wide, sql, schema, error, created>>

NoText == [tokens |-> <<>>, length |-> 0, capacity |-> FirstCapacity]
NoSchema == [columns |-> <<>>, row_size |-> 0]
NoDefinition == [name |-> "none"]

NoAst == [columns |-> <<>>]

Init ==
  /\ ast = NoAst /\ at = "idle" /\ i = 1 /\ row_size = 0 /\ too_wide = FALSE
  /\ sql = NoText /\ schema = NoSchema /\ error = "none" /\ created = NoDefinition

\* table_definition_from_ast is called, and later its caller is done with the
\* line.
Start(asked) ==
  /\ at = "idle"
  /\ ast' = asked /\ at' = "name"
  /\ UNCHANGED <<i, row_size, too_wide, sql, schema, error, created>>

Reset ==
  /\ ast' = NoAst /\ at' = "idle" /\ i' = 1 /\ row_size' = 0 /\ too_wide' = FALSE
  /\ sql' = NoText /\ schema' = NoSchema /\ error' = "none" /\ created' = NoDefinition

-----------------------------------------------------------------------------
schema_names_equal(a, b) == a.word = b.word

Columns == DOMAIN ast.columns
Column == ast.columns[i]

Check(here, fault, why, next) ==
  /\ at = here
  /\ IF fault THEN at' = "refused" /\ error' = why ELSE at' = next /\ error' = error
  /\ i' = 1
  /\ UNCHANGED <<ast, row_size, too_wide, sql, schema, created>>

CheckName == Check("name", ast.name.bytes > NameMax, "name", "twice")

CheckTwice ==
  Check("twice", \E c, d \in Columns : d < c /\
          schema_names_equal(ast.columns[c].name, ast.columns[d].name), "twice", "narrow")

CheckNarrow ==
  Check("narrow", \E c \in Columns : ast.columns[c].type = "TEXT" /\
          ~ast.columns[c].width_out_of_range /\ ast.columns[c].width < 1, "narrow", "keys")

Keys == {c \in Columns : ast.columns[c].primary_key}
key_index == CHOOSE c \in Keys : \A d \in Keys : d <= c

CheckKeys ==
  Check("keys",
        Keys = {} \/ Cardinality(Keys) > 1 \/ ast.columns[key_index].type # "INT",
        IF Keys = {} THEN "no key" ELSE IF Cardinality(Keys) > 1 THEN "keys" ELSE "key type",
        "sum")

-----------------------------------------------------------------------------
\* The layout of leaves (btree.c): a cell is a key and a row, rounded up to four.
AlignDown(n) == n - (n % 4)
AlignUp(n) == AlignDown(n + 3)
leaf_node_cell_size(size) == AlignUp(KeySize + size)
leaf_node_max_cells(size) == CellSpace \div leaf_node_cell_size(size)

leaf_node_max_row_size == AlignDown(CellSpace \div MinRows) - KeySize

TooWide == Column.type = "TEXT" /\ (Column.width_out_of_range \/ Column.width > leaf_node_max_row_size)

\* Mutant of SumColumn: widths are added up in 32 bits, whatever they are.
SumNarrowed ==
  /\ at = "sum" /\ i <= Len(ast.columns)
  /\ row_size' = (row_size + (IF Column.type = "INT" THEN IntBytes ELSE Column.width)) % Word
  /\ i' = i + 1
  /\ UNCHANGED <<ast, at, too_wide, sql, schema, error, created>>

SumColumn ==
  /\ at = "sum" /\ i <= Len(ast.columns)
  /\ too_wide' = (too_wide \/ TooWide)
  /\ row_size' = row_size + (IF Column.type = "INT" THEN IntBytes
                             ELSE IF TooWide THEN 0 ELSE Column.width)
  /\ i' = i + 1
  /\ UNCHANGED <<ast, at, sql, schema, error, created>>

CheckSize ==
  i > Len(ast.columns) /\
    Check("sum", too_wide \/ row_size > leaf_node_max_row_size, "size", "text")

-----------------------------------------------------------------------------
Sign(text) == [kind |-> text]

\* The digits of a width that has passed the size check.
Digits(width) == 1 + Cardinality({d \in 1..9 : 10^d <= width})

\* The capacity doubles until it holds `needed` bytes.
Grown(capacity, needed) ==
  LET doubled[c \in Nat \ {0}] == IF c >= needed THEN c ELSE doubled[2 * c]
  IN  doubled[capacity]

\* vsnprintf cuts what does not fit with its NUL in the bytes left.
append(text, tokens, bytes) ==
  LET capacity == Grown(text.capacity, text.length + bytes + 1)
  IN  [tokens |-> text.tokens \o (IF text.length + bytes + 1 <= capacity
                                  THEN tokens ELSE <<Sign("cut")>>),
       length |-> text.length + bytes, capacity |-> capacity]

\* canonical_sql: "CREATE TABLE name (", each column, and ")".
Opened(name) ==
  append(NoText, <<Sign("CREATE TABLE"), [kind |-> "name", name |-> name], Sign("open")>>, 15 + name.bytes)

WithName(text, column, first) ==
  append(text, (IF first THEN <<>> ELSE <<Sign("comma")>>) \o <<[kind |-> "name", name |-> column.name]>>,
         column.name.bytes + (IF first THEN 1 ELSE 3))
WithType(text, column) ==
  IF column.type = "INT" THEN append(text, <<Sign("INT")>>, 3)
  ELSE append(text, <<[kind |-> "TEXT", width |-> column.width]>>, 6 + Digits(column.width))
WithKey(text, column) ==
  IF column.primary_key THEN append(text, <<Sign("PRIMARY KEY")>>, 12) ELSE text
WithColumn(text, column, first) == WithKey(WithType(WithName(text, column, first), column), column)

Closed(text) == append(text, <<Sign("close")>>, 1)

WriteText(text, next) ==
  /\ sql' = text
  /\ at' = next
  /\ UNCHANGED <<ast, row_size, too_wide, schema, error, created>>

OpenText == at = "text" /\ WriteText(Opened(ast.name), "columns") /\ UNCHANGED i
AppendColumn ==
  /\ at = "columns" /\ i <= Len(ast.columns)
  /\ WriteText(WithColumn(sql, Column, i = 1), at)
  /\ i' = i + 1
CloseText ==
  at = "columns" /\ i > Len(ast.columns) /\ WriteText(Closed(sql), "length") /\ UNCHANGED i

\* Mutant of CheckText: the limit is a byte more than the field has.
CheckTextLong == Check("length", sql.length > SqlMax + 1, "text", "build")

CheckText == Check("length", sql.length > SqlMax, "text", "build")

\* Mutant of Build: a column starts after its own bytes.
BuildShifted ==
  /\ at = "build" /\ i <= Len(ast.columns)
  /\ LET size == IF Column.type = "INT" THEN IntBytes ELSE Column.width % Word
     IN  schema' = [columns |-> Append(schema.columns,
                      [column_id |-> i, name |-> Column.name, type |-> Column.type,
                       size |-> size, offset |-> schema.row_size + size]),
                    row_size |-> schema.row_size + size]
  /\ i' = i + 1
  /\ UNCHANGED <<ast, at, row_size, too_wide, sql, error, created>>

\* The column array's sizes are uint32_t; schema_create lays them end to end.
Build ==
  /\ at = "build" /\ i <= Len(ast.columns)
  /\ LET size == IF Column.type = "INT" THEN IntBytes ELSE Column.width % Word
     IN  schema' = [columns |-> Append(schema.columns,
                      [column_id |-> i, name |-> Column.name, type |-> Column.type,
                       size |-> size, offset |-> schema.row_size]),
                    row_size |-> schema.row_size + size]
  /\ i' = i + 1
  /\ UNCHANGED <<ast, at, row_size, too_wide, sql, error, created>>

Finish == i > Len(ast.columns) /\ Check("build", FALSE, "none", "done")

Definition ==
  [name |-> ast.name, schema |-> schema, key_column_id |-> key_index, sql |-> sql]

-----------------------------------------------------------------------------
\* What is read back of a text kept in a field of `width` bytes.
CutName(name, width) == IF name.bytes <= width THEN name ELSE [name EXCEPT !.word = "cut"]
CutText(text, width) == IF text.length <= width THEN text.tokens ELSE Front(text.tokens)

\* parse_statement on a canonical text: its columns are what stands between its
\* commas.  A text that lost its end does not parse.
Signs(tokens, kinds) == {k \in DOMAIN tokens : tokens[k].kind \in kinds}
Parses(tokens) == Last(tokens).kind = "close" /\ Signs(tokens, {"cut"}) = {}

ColumnBetween(tokens, from, to) ==
  LET type == tokens[from + 2]
  IN  [name |-> tokens[from + 1].name, type |-> type.kind,
       width |-> IF type.kind = "TEXT" THEN type.width ELSE 0,
       width_out_of_range |-> FALSE, primary_key |-> tokens[to - 1].kind = "PRIMARY KEY"]

Parsed(tokens) ==
  LET signs == Signs(tokens, {"open", "comma", "close"})
      nth(c) == CHOOSE s \in signs : Cardinality({r \in signs : r < s}) = c - 1
  IN  [name |-> tokens[2].name,
       columns |-> [c \in 1..(Cardinality(signs) - 1) |-> ColumnBetween(tokens, nth(c), nth(c + 1))]]

\* A later db_open reads the catalog's row and checks the definition again.
LoadText ==
  /\ at = "done" /\ created = NoDefinition
  /\ created' = Definition
  /\ IF Parses(CutText(sql, SqlMax))
     THEN ast' = Parsed(CutText(sql, SqlMax)) /\ at' = "name" /\ error' = error
     ELSE ast' = ast /\ at' = "refused" /\ error' = "does not parse"
  /\ i' = 1 /\ row_size' = 0 /\ too_wide' = FALSE /\ sql' = NoText /\ schema' = NoSchema

LoadName ==
  /\ created # NoDefinition
  /\ Check("done", ~schema_names_equal(ast.name, CutName(created.name, NameMax)), "other name", "loaded")

Define ==
  \/ CheckName \/ CheckTwice \/ CheckNarrow \/ CheckKeys
  \/ SumColumn \/ CheckSize \/ OpenText \/ AppendColumn \/ CloseText \/ CheckText \/ Build \/ Finish

-----------------------------------------------------------------------------
\* What is wrong with a definition, the most basic thing first, said of the
\* definition as a whole and in integers without bounds.
Sums(sizes) ==
  LET sum[k \in 0..Len(sizes)] == IF k = 0 THEN 0 ELSE sum[k - 1] + sizes[k]
  IN  sum
Sum(sizes) == Sums(sizes)[Len(sizes)]
TextBytes(a) ==
  LET column(c) == a.columns[c].name.bytes + (IF a.columns[c].primary_key THEN 12 ELSE 0)
                   + (IF a.columns[c].type = "INT" THEN 4 ELSE 7 + Digits(a.columns[c].width))
  IN  16 + a.name.bytes + 2 * (Len(a.columns) - 1) + Sum([c \in DOMAIN a.columns |-> column(c)])
RowBytes(a) ==
  Sum([c \in DOMAIN a.columns |-> IF a.columns[c].type = "INT" THEN IntBytes ELSE a.columns[c].width])
RowsFit(a) ==
  /\ \A c \in DOMAIN a.columns : a.columns[c].type = "TEXT" => ~a.columns[c].width_out_of_range
  /\ CellSpace \div AlignUp(KeySize + RowBytes(a)) >= MinRows

FirstFault(a) ==
  LET keys == {c \in DOMAIN a.columns : a.columns[c].primary_key}
      texts == {c \in DOMAIN a.columns : a.columns[c].type = "TEXT"}
  IN  CASE a.name.bytes > NameMax -> "name"
        [] OTHER ->
      CASE Cardinality({a.columns[c].name.word : c \in DOMAIN a.columns}) < Len(a.columns) -> "twice"
        [] OTHER ->
      CASE \E c \in texts : ~a.columns[c].width_out_of_range /\ a.columns[c].width < 1 -> "narrow"
        [] OTHER ->
      CASE Cardinality(keys) = 0 -> "no key"
        [] Cardinality(keys) > 1 -> "keys"
        [] Cardinality(keys) = 1 ->
             IF keys \subseteq texts THEN "key type"
             ELSE IF ~RowsFit(a) THEN "size"
             ELSE IF TextBytes(a) > SqlMax THEN "text" ELSE "none"

-----------------------------------------------------------------------------
\* A definition is refused exactly when one of the six rules of
\* table_definition_from_ast's comment is broken, and for the most basic of them
\* ("so the message names the most basic problem"): no width is too absurd, no
\* two names differ by case alone, and a name or text as long as its field fits.
RefusedForMostBasicFault ==
  /\ at = "refused" /\ created = NoDefinition => error = FirstFault(ast)
  /\ at = "done" => FirstFault(ast) = "none"

\* An accepted definition's fields lie one after another in the row without
\* overlapping, and a leaf holds at least MinRows of its rows: what borrowing and
\* merging leaves after a delete rest on (TABLE_MIN_ROWS_PER_LEAF's comment).
RowsFitLeaf ==
  at = "done" =>
    /\ leaf_node_max_cells(schema.row_size) >= MinRows
    /\ \A c, d \in DOMAIN schema.columns : c < d =>
         schema.columns[c].offset + schema.columns[c].size <= schema.columns[d].offset
    /\ \A c \in DOMAIN schema.columns :
         schema.columns[c].offset + schema.columns[c].size <= schema.row_size

\* "it always parses back into the same definition" (table_definition.h): the
\* catalog's fields hold the name and the text whole, the text parses, passes the
\* same checks and gives the same schema, key and text, so load_tables never
\* takes a file for corrupt that holds what CREATE TABLE accepted.
DefinitionReturns ==
  created # NoDefinition =>
    /\ at # "refused"
    /\ at \in {"done", "loaded"} => Definition = created

=============================================================================
