-------------------------------- MODULE Parser --------------------------------
(***************************************************************************)
(* parse_statement (parser.c): one line of SQL read as an INSERT, SELECT,  *)
(* CREATE TABLE or DELETE, with what the syntax tree owns at every moment  *)
(* and what is freed when the line turns out to be wrong.  A WHERE is read *)
(* by module ExpressionParser.                                             *)
(*                                                                         *)
(* The rules without a choice of their own are rows of a table: at a       *)
(* place, a token is consumed, something is kept, and the next place       *)
(* follows.                                                                *)
(***************************************************************************)
EXTENDS ExpressionParser

CONSTANT ListCapacity    \* the slots a new list is given, 4 in the code

ASSUME ListCapacityAssumption == ListCapacity \in Nat \ {0}

VARIABLES
  at,    \* where parse_statement stands
  ast    \* the syntax tree: for each pointer its block, NULL if it has none

parser_vars == <<vars, at, ast>>

\* `items` are the elements the list's count covers; `spare` is what the slot
\* after them holds, NULL if nothing was written there.
NoList == [array |-> NULL, capacity |-> 0, items |-> <<>>, spare |-> NULL]
EmptyAst == [kind |-> "empty", explain |-> FALSE, table_name |-> NULL, where |-> NULL,
             column_names |-> NoList, values |-> NoList, columns |-> NoList]

ParserInit ==
  /\ current \in Tokens /\ read = <<>> /\ error = NoError
  /\ frames = <<>> /\ returned = Running
  /\ nodes = <<>> /\ frees = <<>>
  /\ at = "statement" /\ ast = EmptyAst

-----------------------------------------------------------------------------
\* What is kept of a token

\* Before an element is written, a list that is full is doubled.
Room(list) == [list EXCEPT !.capacity = IF Len(list.items) = @ THEN 2 * @ ELSE @]
Counted(list, item) == [list EXCEPT !.items = Append(@, item), !.spare = NULL]

NewList == [NoList EXCEPT !.array = Fresh, !.capacity = ListCapacity]
Columns == ast.columns

\* The tree after keeping what `keep` names, in block Fresh if it needs one.
Kept(keep) ==
  CASE keep = "nothing" -> ast
    [] keep \in {"insert", "select", "create", "delete"} -> [ast EXCEPT !.kind = keep]
    [] keep = "explain" -> [ast EXCEPT !.explain = TRUE]
    [] keep = "table_name" -> [ast EXCEPT !.table_name = Fresh]
    [] keep = "name list" -> [ast EXCEPT !.column_names = NewList]
    [] keep = "name" -> [ast EXCEPT !.column_names = Counted(Room(@), Fresh)]
    [] keep = "value list" -> [ast EXCEPT !.values = NewList]
    [] keep = "value" -> [ast EXCEPT !.values = Counted(Room(@), Fresh)]
    [] keep = "column list" -> [ast EXCEPT !.columns = NewList]
    [] keep = "column name" -> [ast EXCEPT !.columns = [Room(@) EXCEPT !.spare = Fresh]]
    [] keep = "column" -> [ast EXCEPT !.columns = Counted(@, Columns.spare)]

InBlock == {"table_name", "name list", "name", "value list", "value", "column list", "column name"}
Keep(keep) ==
  /\ ast' = Kept(keep)
  /\ IF keep \in InBlock THEN Allocate(1) ELSE UNCHANGED frees

-----------------------------------------------------------------------------
\* The table: [from, token, keep, to]

Row(from, token, keep, to) == [from |-> from, token |-> token, keep |-> keep, to |-> to]

StatementRows ==
  {Row("statement", "EXPLAIN", "explain", "explained"),
   Row("statement", "INSERT", "insert", "insert into"),
   Row("statement", "CREATE", "create", "create table")} \cup
  UNION {{Row(from, "SELECT", "select", "select"), Row(from, "DELETE", "delete", "delete from")} :
           from \in {"statement", "explained"}}

InsertRows ==
  {Row("insert into", "INTO", "nothing", "insert table"),
   Row("insert table", "name", "table_name", "insert columns"),
   Row("insert columns", "(", "name list", "insert column"),
   Row("insert column", "name", "name", "insert column end"),
   Row("insert column end", ",", "nothing", "insert column"),
   Row("insert column end", ")", "nothing", "values"),
   Row("values", "VALUES", "nothing", "values list"),
   Row("values list", "(", "value list", "value"),
   Row("value", "integer", "value", "value end"),
   Row("value", "string", "value", "value end"),
   Row("value", "-", "nothing", "negative value"),
   Row("negative value", "integer", "value", "value end"),
   Row("value end", ",", "nothing", "value"),
   Row("value end", ")", "nothing", "end")}

SelectRows ==
  {Row("select", "*", "nothing", "select from"),
   Row("select column", "name", "name", "select column end"),
   Row("select column end", ",", "nothing", "select column"),
   Row("select from", "FROM", "nothing", "from table"),
   Row("from table", "name", "table_name", "where")}

DeleteRows == {Row("delete from", "FROM", "nothing", "from table")}

CreateRows ==
  {Row("create table", "TABLE", "nothing", "create name"),
   Row("create name", "name", "table_name", "create columns"),
   Row("create columns", "(", "column list", "column name"),
   Row("column name", "name", "column name", "column type"),
   Row("column type", "INT", "nothing", "column key"),
   Row("column type", "TEXT", "nothing", "text"),
   Row("text", "(", "nothing", "width"),
   Row("width", "integer", "nothing", "text end"),
   Row("text end", ")", "nothing", "column key"),
   Row("column key", "PRIMARY", "nothing", "key"),
   Row("key", "KEY", "column", "column end"),
   Row("column end", ",", "nothing", "column name"),
   Row("column end", ")", "nothing", "end")}

Rows == StatementRows \cup InsertRows \cup SelectRows \cup DeleteRows \cup CreateRows

\* What may be left out: with none of a place's tokens the parser goes on at
\* another, having kept what the row says.
Left(from, keep, to) == [from |-> from, keep |-> keep, to |-> to]
Omissions ==
  {Left("insert columns", "nothing", "values"), Left("select", "name list", "select column"),
   Left("select column end", "nothing", "select from"), Left("column key", "column", "column end"),
   Left("where", "nothing", "end")}

Taken(from) == {row.token : row \in {r \in Rows : r.from = from}} \cup
               (IF from = "where" THEN {"WHERE"} ELSE {})
Omitted == {row.from : row \in Omissions}
InColumn == {"column name", "column type", "text", "width", "text end", "key"}

-----------------------------------------------------------------------------
Reading == frames = <<>> /\ returned = Running

Consume(row) ==
  /\ Reading /\ at = row.from /\ current = row.token
  /\ Keep(row.keep)
  /\ advance
  /\ at' = row.to
  /\ UNCHANGED <<error, frames, returned, nodes>>

Omit(row) ==
  /\ Reading /\ at = row.from /\ current \notin Taken(at)
  /\ Keep(row.keep)
  /\ at' = row.to
  /\ Stay /\ UNCHANGED <<error, frames, returned, nodes>>

\* A blank line, or a lone semicolon.
OmitStatement ==
  /\ Reading /\ at = "statement" /\ current \in {";", "END"}
  /\ at' = "end"
  /\ Stay /\ UNCHANGED <<error, frames, returned, heap, ast>>

\* A token the grammar has no use for.  A column that fails halfway may own its
\* name, which the count does not cover: parse_create frees it.
Refuse ==
  /\ Reading /\ at \in {row.from : row \in Rows} \ Omitted
  /\ current \notin Taken(at) \cup (IF at = "statement" THEN {";", "END"} ELSE {})
  /\ report("expected")
  /\ FreeAll(IF at \in InColumn THEN <<Columns.spare>> ELSE <<>>)
  /\ at' = "end"
  /\ Stay /\ UNCHANGED <<frames, returned, nodes, ast>>

\* WHERE: parse_or is called, works (module ExpressionParser), and returns.
CallWhere ==
  /\ Reading /\ at = "where" /\ current = "WHERE"
  /\ advance
  /\ frames' = <<Enter("or", 0)>>
  /\ UNCHANGED <<error, returned, heap, at, ast>>

WhereStep == Next /\ UNCHANGED <<at, ast>>

TakeWhere ==
  /\ frames = <<>> /\ returned # Running
  /\ ast' = [ast EXCEPT !.where = returned]
  /\ returned' = Running
  /\ at' = "end"
  /\ Stay /\ UNCHANGED <<error, frames, heap>>

\* One optional semicolon, then the line must end.
EndWithSemicolon ==
  /\ Reading /\ at = "end" /\ error = NoError /\ current = ";"
  /\ advance
  /\ at' = "end of line"
  /\ UNCHANGED <<error, frames, returned, heap, ast>>

CheckEnd ==
  /\ Reading /\ error = NoError
  /\ at = "end of line" \/ (at = "end" /\ current # ";")
  /\ IF current = "END" THEN at' = "parsed" /\ UNCHANGED error
                        ELSE at' = "end" /\ report("expected")
  /\ Stay /\ UNCHANGED <<frames, returned, heap, ast>>

ListBlocks(list) == list.items \o <<list.array>>

\* The blocks ast_free frees; the fields of other kinds are other uses of the
\* same bytes.
AstBlocks(tree) ==
  CASE tree.kind = "insert" ->
         <<tree.table_name>> \o ListBlocks(tree.column_names) \o ListBlocks(tree.values)
    [] tree.kind = "select" ->
         <<tree.table_name>> \o ListBlocks(tree.column_names) \o free_expr(tree.where)
    [] tree.kind = "create" -> <<tree.table_name>> \o ListBlocks(tree.columns)
    [] tree.kind = "delete" -> <<tree.table_name>> \o free_expr(tree.where)
    [] tree.kind = "empty" -> <<>>

\* ast_free: on a line that failed by parse_statement itself, and on a parsed
\* one by prepare_statement, once the statement is bound.
ast_free ==
  /\ Reading
  /\ \/ at = "end" /\ error # NoError /\ at' = "refused"
     \/ at = "parsed" /\ at' = "released"
  /\ FreeAll(AstBlocks(ast))
  /\ ast' = EmptyAst
  /\ Stay /\ UNCHANGED <<error, frames, returned, nodes>>

ParserNext ==
  \/ \E row \in Rows : Consume(row)
  \/ \E row \in Omissions : Omit(row)
  \/ OmitStatement \/ Refuse
  \/ CallWhere \/ WhereStep \/ TakeWhere
  \/ EndWithSemicolon \/ CheckEnd \/ ast_free

ParserSpec == ParserInit /\ [][ParserNext]_parser_vars

=============================================================================
