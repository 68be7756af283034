------------------------------- MODULE Preparation -------------------------------
(***************************************************************************)
(* A line from its syntax tree to the end of its execution (statement.c,   *)
(* expression_bind in expression.c, main.c): the checks against the open   *)
(* tables, what the statement comes to own on the heap, and who frees it.  *)
(*                                                                         *)
(* What bind_insert makes of its values and table_definition_from_ast of a *)
(* new table's columns is modules InsertBinding's and TableDefinition's    *)
(* part; module StatementPreparation puts the three together.  A WHERE is  *)
(* a sequence of nodes that name their children, node 1 the root.          *)
(***************************************************************************)
EXTENDS Heap, Integers, SequencesExt

CONSTANTS
  Lines,      \* the parsed lines: a kind, a table, and what that kind has besides
  Schema,     \* the columns of every table, each [name, type, size, offset]
  Tables      \* the tables open at first, a sequence of names

VARIABLES
  line,        \* the line at work
  at,          \* where prepare_statement or the shell's loop stands
  tables,      \* the open tables: their names, and the blocks each took over
  column_ids,  \* bind_select's array, NULL if there is none
  frames,      \* the calls of expression_bind under way, the innermost last
  returned,    \* what the innermost has just returned, Running if it works on
  bound,       \* the nodes of bound expressions: block -> contents
  statement,   \* what the Statement owns
  error        \* why the line was refused, "none" if it was not

vars == <<line, at, tables, column_ids, frames, returned, bound, statement, error, frees>>
binding == <<frames, returned, bound>>

Running == -1
NoLine == [kind |-> "empty"]
NoStatement == [type |-> "none", record |-> NULL, definition |-> <<>>, column_ids |-> NULL,
                where |-> NULL]

\* The columns' types, by name.
Columns ==
  [name \in {Schema[c].name : c \in DOMAIN Schema} |->
     Schema[CHOOSE c \in DOMAIN Schema : Schema[c].name = name].type]

\* A name is a word and the case it is written in.
schema_names_equal(a, b) == a.word = b.word
IsOpen(name) == \E t \in DOMAIN tables : schema_names_equal(tables[t].name, name)

Init ==
  /\ line = NoLine /\ at = "prompt"
  /\ tables = [t \in DOMAIN Tables |-> [name |-> Tables[t], blocks |-> <<>>]]
  /\ column_ids = NULL /\ frames = <<>> /\ returned = Running /\ bound = <<>>
  /\ statement = NoStatement /\ error = "none" /\ frees = <<>>

-----------------------------------------------------------------------------
\* A line read and parsed.
Begin(ast) ==
  /\ line' = ast /\ at' = "bind"
  /\ UNCHANGED <<tables, column_ids, binding, statement, error, frees>>

\* prepare_statement fails: the shell prints the error and does not call
\* statement_free.
Refuse(why) ==
  /\ error' = why /\ at' = "refused"
  /\ UNCHANGED <<line, tables, statement>>

\* The shell is done with the line, whose blocks no longer matter, and reads on.
\* For a blank line it has done nothing.
Prompt ==
  /\ at \in {"refused", "freed"} \/ (at = "bind" /\ line.kind = "empty")
  /\ line' = NoLine /\ at' = "prompt"
  /\ error' = "none" /\ frees' = <<>> /\ bound' = <<>>
  /\ tables' = [t \in DOMAIN tables |-> [tables[t] EXCEPT !.blocks = <<>>]]
  /\ UNCHANGED <<column_ids, frames, returned, statement>>

Binding(kinds) == at = "bind" /\ line.kind \in kinds

NoSuchTable ==
  /\ Binding({"insert", "select", "delete"}) /\ ~IsOpen(line.table)
  /\ Refuse("table")
  /\ UNCHANGED <<column_ids, binding, frees>>

Inserting == Binding({"insert"}) /\ IsOpen(line.table)

\* bind_insert allocates only once every check has passed.
BindInsert(fault) ==
  /\ Inserting
  /\ IF fault = "none"
     THEN /\ statement' = [NoStatement EXCEPT !.type = "insert", !.record = Fresh]
          /\ Allocate(1)
          /\ at' = "prepared"
          /\ UNCHANGED <<line, tables, error>>
     ELSE Refuse(fault) /\ UNCHANGED frees
  /\ UNCHANGED <<column_ids, binding>>

\* bind_select's column list; "*" is an empty one here, and takes every column.
BindColumns ==
  /\ Binding({"select"}) /\ IsOpen(line.table)
  /\ column_ids' = Fresh
  /\ Allocate(1)
  /\ at' = "columns"
  /\ UNCHANGED <<line, tables, binding, statement, error>>

UnknownColumn ==
  /\ at = "columns" /\ ~(ToSet(line.columns) \subseteq DOMAIN Columns)
  /\ Refuse("column")
  /\ FreeAll(<<column_ids>>) /\ column_ids' = NULL
  /\ UNCHANGED binding

\* With a WHERE, expression_bind is called on its root.
Enter(node) == [node |-> node, block |-> NULL, at |-> "new", child |-> 1]

BindWhere ==
  /\ \/ at = "columns" /\ ToSet(line.columns) \subseteq DOMAIN Columns
     \/ Binding({"delete"}) /\ IsOpen(line.table)
  /\ at' = "where"
  /\ frames' = IF line.where = <<>> THEN <<>> ELSE <<Enter(1)>>
  /\ returned' = IF line.where = <<>> THEN NULL ELSE Running
  /\ UNCHANGED <<line, tables, column_ids, bound, statement, error, frees>>

-----------------------------------------------------------------------------
\* expression_bind

Top == frames[Len(frames)]
Node == line.where[Top.node]
In(place) == at = "where" /\ frames # <<>> /\ Top.at = place /\ returned = Running
Back == at = "where" /\ frames # <<>> /\ returned # Running
PutTop(frame) == [frames EXCEPT ![Len(frames)] = frame]
Return(value) == frames' = Front(frames) /\ returned' = value
SetBound(id, node) == bound' = [b \in DOMAIN bound \cup {id} |-> IF b = id THEN node ELSE bound[b]]

Concatenate(seqs) == FoldLeft(LAMBDA all, s : all \o s, <<>>, seqs)

\* The blocks expression_free frees, in its order.
expression_free(root) ==
  LET blocks[id \in DOMAIN bound] ==
        <<bound[id].left.text, bound[id].right.text>>
          \o Concatenate([i \in DOMAIN bound[id].children |-> blocks[bound[id].children[i]]])
          \o <<bound[id].array, id>>
  IN  IF root = NULL THEN <<>> ELSE blocks[root]

NoOperand == [column |-> "none", type |-> "none", text |-> NULL]

NewNode ==
  /\ In("new")
  /\ LET leaf == Node.kind = "COMPARISON"
     IN  /\ Allocate(IF leaf THEN 1 ELSE 2)
         /\ SetBound(Fresh, [node |-> Top.node, left |-> NoOperand, right |-> NoOperand,
                             array |-> IF leaf THEN NULL ELSE Fresh + 1, children |-> <<>>])
         /\ frames' = PutTop([Top EXCEPT !.block = Fresh, !.at = IF leaf THEN "left" ELSE "children"])
  /\ UNCHANGED <<line, at, tables, column_ids, returned, statement, error>>

\* An operand is a column, known or not, or a literal; a literal text is copied.
TypeOf(operand) ==
  IF operand.kind = "column" THEN Columns[operand.name] ELSE operand.type
Unknown(operand) == operand.kind = "column" /\ operand.name \notin DOMAIN Columns
Copied(operand) == operand.kind = "literal" /\ operand.type = "TEXT"

Sides == {"left", "right"}

\* The comparison fails: what is bound of it is freed.
GiveUp(why) ==
  /\ error' = why
  /\ FreeAll(expression_free(Top.block))
  /\ Return(NULL)
  /\ UNCHANGED <<line, at, tables, column_ids, bound, statement>>

BindOperand(side) ==
  /\ In(side) /\ ~Unknown(Node[side])
  /\ SetBound(Top.block, [bound[Top.block] EXCEPT ![side] =
                [column |-> IF Node[side].kind = "column" THEN Node[side].name ELSE "none",
                 type |-> TypeOf(Node[side]), text |-> IF Copied(Node[side]) THEN Fresh ELSE NULL]])
  /\ Allocate(IF Copied(Node[side]) THEN 1 ELSE 0)
  /\ frames' = PutTop([Top EXCEPT !.at = IF side = "left" THEN "right" ELSE "check"])
  /\ UNCHANGED <<line, at, tables, column_ids, returned, statement, error>>

UnknownOperand(side) == In(side) /\ Unknown(Node[side]) /\ GiveUp("column")

TypesDiffer == bound[Top.block].left.type # bound[Top.block].right.type

\* Mutant of TooLong: a literal on the right is not looked at.
TooLongLeft(operand) ==
  /\ operand = Node["left"]
  /\ operand.kind = "literal" /\ operand.type = "INT" /\ operand.out_of_range

TooLong(operand) ==
  /\ operand.kind = "literal" /\ operand.type = "INT" /\ operand.out_of_range

WrongTypes == In("check") /\ TypesDiffer /\ GiveUp("type")
OutOfRange == In("check") /\ ~TypesDiffer /\ (\E side \in Sides : TooLong(Node[side])) /\ GiveUp("range")
KeepComparison ==
  /\ In("check") /\ ~TypesDiffer /\ ~\E side \in Sides : TooLong(Node[side])
  /\ Return(Top.block)
  /\ UNCHANGED <<line, at, tables, column_ids, bound, statement, error, frees>>

BindChild ==
  /\ In("children") /\ Top.child <= Len(Node.children)
  /\ frames' = Append(frames, Enter(Node.children[Top.child]))
  /\ UNCHANGED <<line, at, tables, column_ids, returned, bound, statement, error, frees>>

AddChild ==
  /\ Back /\ returned # NULL
  /\ SetBound(Top.block, [bound[Top.block] EXCEPT !.children = Append(@, returned)])
  /\ frames' = PutTop([Top EXCEPT !.child = @ + 1])
  /\ returned' = Running
  /\ UNCHANGED <<line, at, tables, column_ids, statement, error, frees>>

ChildFailed ==
  /\ Back /\ returned = NULL
  /\ FreeAll(expression_free(Top.block))
  /\ Return(NULL)
  /\ UNCHANGED <<line, at, tables, column_ids, bound, statement, error>>

LeaveNode ==
  /\ In("children") /\ Top.child > Len(Node.children)
  /\ Return(Top.block)
  /\ UNCHANGED <<line, at, tables, column_ids, bound, statement, error, frees>>

ExpressionStep ==
  \/ NewNode \/ BindChild \/ AddChild \/ ChildFailed \/ LeaveNode
  \/ WrongTypes \/ OutOfRange \/ KeepComparison
  \/ \E side \in Sides : BindOperand(side) \/ UnknownOperand(side)

-----------------------------------------------------------------------------
\* expression_bind has returned to bind_select or bind_delete.
Bound == at = "where" /\ frames = <<>>

WhereFailed ==
  /\ Bound /\ returned = NULL /\ line.where # <<>>
  /\ FreeAll(<<column_ids>>) /\ column_ids' = NULL
  /\ at' = "refused" /\ returned' = Running
  /\ UNCHANGED <<line, tables, frames, bound, statement, error>>

\* Mutant of KeepWhere: bind_delete forgets the WHERE it bound.
DeleteEverything ==
  /\ Bound /\ (returned # NULL \/ line.where = <<>>)
  /\ statement' = [NoStatement EXCEPT !.type = line.kind, !.column_ids = column_ids,
                                      !.where = IF line.kind = "select" THEN returned ELSE NULL]
  /\ column_ids' = NULL
  /\ at' = "prepared" /\ returned' = Running
  /\ UNCHANGED <<line, tables, frames, bound, error, frees>>

\* Everything is checked before the statement keeps anything.
KeepWhere ==
  /\ Bound /\ (returned # NULL \/ line.where = <<>>)
  /\ statement' = [NoStatement EXCEPT !.type = line.kind, !.column_ids = column_ids,
                                      !.where = returned]
  /\ column_ids' = NULL
  /\ at' = "prepared" /\ returned' = Running
  /\ UNCHANGED <<line, tables, frames, bound, error, frees>>

NameTaken ==
  /\ Binding({"create"}) /\ IsOpen(line.table)
  /\ Refuse("exists")
  /\ UNCHANGED <<column_ids, binding, frees>>

Creating == Binding({"create"}) /\ ~IsOpen(line.table)

\* A schema's blocks as schema_free meets them, numbered from `first` as
\* schema_create allocates them: the struct, the array, and a name for each column.
SchemaBlocks(first, columns) == [c \in 1..columns |-> first + 1 + c] \o <<first + 1, first>>

\* A definition's, in the order of table_definition_free: its name, its schema,
\* and its text, which is there already.
DefinitionBlocks(buffer, columns) == <<Fresh>> \o SchemaBlocks(Fresh + 1, columns) \o <<buffer>>

BindCreate(fault, buffer, columns) ==
  /\ Creating
  /\ IF fault = "none"
     THEN /\ statement' = [NoStatement EXCEPT !.type = "create",
                                              !.definition = DefinitionBlocks(buffer, columns)]
          /\ Allocate(3 + columns)
          /\ at' = "prepared"
          /\ UNCHANGED <<line, tables, error>>
     ELSE Refuse(fault) /\ UNCHANGED frees
  /\ UNCHANGED <<column_ids, binding>>

\* Running the statement frees nothing of it.
Execute ==
  /\ at = "prepared" /\ statement.type # "create"
  /\ at' = "executed"
  /\ UNCHANGED <<line, tables, column_ids, binding, statement, error, frees>>

\* table_create moves the definition's parts over and clears them.
ExecuteCreate ==
  /\ at = "prepared" /\ statement.type = "create"
  /\ tables' = Append(tables, [name |-> line.table, blocks |-> statement.definition])
  /\ statement' = [statement EXCEPT !.definition = <<>>]
  /\ at' = "executed"
  /\ UNCHANGED <<line, column_ids, binding, error, frees>>

statement_free ==
  /\ at = "executed"
  /\ FreeAll(<<statement.record>> \o statement.definition \o <<statement.column_ids>>
               \o expression_free(statement.where))
  /\ statement' = NoStatement
  /\ at' = "freed"
  /\ UNCHANGED <<line, tables, column_ids, binding, error>>

\* Everything but the calls of the two other binders.
Next ==
  \/ at = "prompt" /\ \E ast \in Lines : Begin(ast)
  \/ NoSuchTable \/ BindColumns \/ UnknownColumn \/ BindWhere
  \/ ExpressionStep \/ WhereFailed \/ KeepWhere \/ NameTaken
  \/ Execute \/ ExecuteCreate \/ statement_free

-----------------------------------------------------------------------------
\* What is wrong with a comparison, the most basic thing first.
Fault(comparison) ==
  LET sides == {comparison.left, comparison.right}
  IN  CASE \E o \in sides : Unknown(o) -> "column"
        [] OTHER ->
             IF TypeOf(comparison.left) # TypeOf(comparison.right) THEN "type"
             ELSE IF \E o \in sides : o.out_of_range THEN "range" ELSE "none"

\* The comparisons of a tree, left to right.
Comparisons(tree) ==
  LET under[n \in DOMAIN tree] ==
        IF tree[n].kind = "COMPARISON" THEN <<tree[n]>>
        ELSE Concatenate([i \in DOMAIN tree[n].children |-> under[tree[n].children[i]]])
  IN  IF tree = <<>> THEN <<>> ELSE under[1]

\* What is wrong with a line here, whatever order the binder checks in.
FaultsOf(ast) ==
  CASE ast.kind = "empty" -> <<>>
    [] ast.kind = "create" -> IF IsOpen(ast.table) THEN <<"exists">> ELSE <<>>
    [] OTHER ->
         (IF ~IsOpen(ast.table) THEN <<"table">> ELSE <<>>)
         \o (IF ast.kind = "select" /\ ~(ToSet(ast.columns) \subseteq DOMAIN Columns)
             THEN <<"column">> ELSE <<>>)
         \o (IF ast.kind = "insert" THEN <<>>
             ELSE SelectSeq([i \in DOMAIN Comparisons(ast.where) |-> Fault(Comparisons(ast.where)[i])],
                            LAMBDA f : f # "none"))

-----------------------------------------------------------------------------
SameOperand(parsed, operand) ==
  /\ operand.column = IF parsed.kind = "column" THEN parsed.name ELSE "none"
  /\ operand.type = TypeOf(parsed)
  /\ (operand.text # NULL) = Copied(parsed)

\* The bound WHERE is the parsed one, node for node and operand for operand: the
\* same columns, a text of its own wherever one was written, and operands of one
\* type in every comparison, so evaluation, which checks nothing, never meets a
\* column the table lacks or compares INT with TEXT.  In particular a WHERE is
\* never lost on the way, which for a DELETE would be every row.
BoundWhereIsWhole ==
  at = "prepared" /\ statement.type \in {"select", "delete"} =>
    LET Mirrors[n \in DOMAIN line.where, b \in DOMAIN bound] ==
          /\ bound[b].node = n
          /\ Len(bound[b].children) = Len(line.where[n].children)
          /\ \A i \in DOMAIN line.where[n].children :
               Mirrors[line.where[n].children[i], bound[b].children[i]]
          /\ line.where[n].kind = "COMPARISON" =>
               /\ bound[b].left.type = bound[b].right.type
               /\ \A side \in Sides : SameOperand(line.where[n][side], bound[b][side])
    IN  IF line.where = <<>> THEN statement.where = NULL
        ELSE statement.where # NULL /\ Mirrors[1, statement.where]

=============================================================================
