------------------------ MODULE StatementPreparation ------------------------
(***************************************************************************)
(* prepare_statement whole (statement.c): bind_insert's and                *)
(* table_definition_from_ast's own steps (modules InsertBinding and        *)
(* TableDefinition) within the binding of a line (module Preparation).  A  *)
(* table that was created is read back from the catalog by a later         *)
(* db_open, before or instead of the session's next line.                  *)
(***************************************************************************)
EXTENDS Preparation

CONSTANTS
  KeyColumn,                                   \* of every table
  ByteMax, IntSize, Constants,                 \* for the rows INSERT builds
  NameMax, SqlMax, FirstCapacity, CellSpace, MinRows, Word    \* for CREATE TABLE

VARIABLES
  insert, insert_at, n, listed, targets, insert_error, record,
  ast, definition_at, i, row_size, too_wide, sql, schema, definition_error, created,
  buffer       \* the block of canonical_sql's text, NULL when none is at work

Insert == INSTANCE InsertBinding WITH at <- insert_at, i <- n, error <- insert_error
Definition == INSTANCE TableDefinition WITH at <- definition_at, error <- definition_error

\* What the parser makes of an INSERT and of a CREATE TABLE, and a table that the
\* checks of its CREATE TABLE have passed: no two names differ by case alone.
ColumnName == [word : STRING, upper : BOOLEAN]
Value == [type : {"INTEGER", "STRING"}, integer : Int, out_of_range : BOOLEAN, text : Seq(1..ByteMax)]
NewName == [word : STRING, upper : BOOLEAN, bytes : Nat]
NewColumn ==
  {column \in [name : NewName, type : {"INT", "TEXT"}, width : Nat, width_out_of_range : BOOLEAN,
               primary_key : BOOLEAN] :
     column.type = "INT" => column.width = 0 /\ ~column.width_out_of_range}
Creates == [name : NewName, columns : Seq(NewColumn)]

Inserts == [named : BOOLEAN, names : Seq(ColumnName), values : Seq(Value)]

ASSUME LinesAssumption ==
  \A l \in Lines : /\ l.kind = "insert" => l.insert \in Inserts
                   /\ l.kind = "create" => l.definition \in Creates

ASSUME SchemaAssumption ==
  /\ Schema \in Seq([name : STRING, type : {"INT", "TEXT"}, size : Nat, offset : Nat])
  /\ \A c, d \in DOMAIN Schema : c # d => Schema[c].name # Schema[d].name

\* INT32_MAX
ASSUME IntAssumption == Insert!Int32Max \in Nat

\* The limits on a definition; the widest row's size is a 32-bit number.
ASSUME LimitsAssumption ==
  /\ NameMax \in Nat /\ SqlMax \in Nat /\ FirstCapacity \in Nat \ {0}
  /\ CellSpace \in Nat /\ MinRows \in Nat \ {0}
  /\ Word \in Nat /\ CellSpace < Word

insert_vars == <<insert, insert_at, n, listed, targets, insert_error, record>>
definition_vars == <<ast, definition_at, i, row_size, too_wide, sql, schema, definition_error, created>>
all_vars == <<vars, insert_vars, definition_vars, buffer>>

PrepareInit == Init /\ Insert!Init /\ Definition!Init /\ buffer = NULL

PrepareStep == Next /\ UNCHANGED <<insert_vars, definition_vars, buffer>>

\* bind_insert, from its call to its return.
InsertStep ==
  /\ Inserting
  /\ Insert!Start(line.insert) \/ Insert!Next
  /\ UNCHANGED <<vars, definition_vars, buffer>>

BindInsertValues ==
  /\ insert_at \in {"accepted", "refused"}
  /\ BindInsert(insert_error)
  /\ UNCHANGED <<insert_vars, definition_vars, buffer>>

\* What a step of table_definition_from_ast does on the heap: canonical_sql
\* allocates its text, which realloc keeps one block, and a text that turns out
\* too long is freed.  The checks before and the columns after allocate nothing.
AllocateText == definition_at = "text" /\ buffer' = Fresh /\ Allocate(1)

\* Mutant of FreeText: the refused text stays.
DropText ==
  /\ definition_at = "length" /\ definition_at' = "refused"
  /\ buffer' = NULL /\ UNCHANGED frees

FreeText ==
  /\ definition_at = "length" /\ definition_at' = "refused"
  /\ buffer' = NULL /\ FreeAll(<<buffer>>)

KeepText ==
  /\ definition_at # "text" /\ ~(definition_at = "length" /\ definition_at' = "refused")
  /\ UNCHANGED <<buffer, frees>>

\* bind_create_table checks the name first, then the definition.
DefinitionStep ==
  /\ Creating
  /\ Definition!Start(line.definition) \/ Definition!Define
  /\ AllocateText \/ FreeText \/ KeepText
  /\ UNCHANGED <<line, at, tables, column_ids, binding, statement, error, insert_vars>>

\* An accepted definition is built and takes over the text.
BindDefinition ==
  /\ definition_at \in {"done", "refused"}
  /\ BindCreate(definition_error, buffer, Len(schema.columns))
  /\ buffer' = NULL
  /\ UNCHANGED <<insert_vars, definition_vars>>

\* The session has ended and load_tables reads the new table's row.  What it
\* allocates is that session's, and the new table's in the end.
ReopenStep ==
  /\ at = "freed"
  /\ Definition!LoadText \/ Definition!LoadName
       \/ (created # Definition!NoDefinition /\ Definition!Define)
  /\ UNCHANGED <<vars, insert_vars, buffer>>

\* The next prompt comes when the line is done with, and a load that has begun.
NextPrompt ==
  /\ Prompt
  /\ created # Definition!NoDefinition => definition_at \in {"loaded", "refused"}
  /\ Insert!Reset /\ Definition!Reset
  /\ UNCHANGED buffer

PrepareNext ==
  \/ PrepareStep \/ InsertStep \/ BindInsertValues
  \/ DefinitionStep \/ BindDefinition \/ ReopenStep
  \/ NextPrompt

PrepareSpec == PrepareInit /\ [][PrepareNext]_all_vars

-----------------------------------------------------------------------------
\* The blocks the statement, or the binder at work on it, points to.
Held ==
  {statement.record, statement.where, statement.column_ids, column_ids, buffer}
    \cup ToSet(statement.definition) \cup {frames[f].block : f \in DOMAIN frames}

\* What a line allocates is freed once before the next is read, or has become
\* part of a table: a refused line's statement "holds nothing that needs
\* freeing" (the shell does not free it), so what its binder had bound, copied or
\* written out by then is the binder's to free; an executed one's is freed whole,
\* and neither the parts a new table takes over nor anything still pointed to is
\* freed early.
NothingLeaks ==
  /\ NoneFreedTwice
  /\ LET taken == UNION {ToSet(tables[t].blocks) : t \in DOMAIN tables}
     IN  /\ \A b \in (taken \cup Held) \ {NULL} : frees[b] = 0
         /\ at \in {"refused", "freed"} => \A b \in DOMAIN frees : frees[b] = 1 \/ b \in taken

\* A line is refused if and only if something is wrong with it, and for the
\* first thing wrong: a table or column nobody knows comes before any trouble
\* with types or values, and a WHERE's comparisons are taken from left to right.
RefusedForFirstFault ==
  at \in {"prepared", "refused"} =>
    error = CASE FaultsOf(line) # <<>> -> FaultsOf(line)[1]
              [] OTHER ->
                   IF line.kind = "insert" THEN insert_error
                   ELSE IF line.kind = "create" THEN definition_error ELSE "none"

\* The properties of the two binders (modules InsertBinding, TableDefinition).
TargetsInBounds == Insert!TargetsInBounds
InsertJudged == Insert!InsertJudged
RowAsWritten == Insert!RowAsWritten
StoredOrderIsValueOrder == Insert!StoredOrderIsValueOrder
RefusedForMostBasicFault == Definition!RefusedForMostBasicFault
RowsFitLeaf == Definition!RowsFitLeaf
DefinitionReturns == Definition!DefinitionReturns

=============================================================================
