------------------------------- MODULE Executor -------------------------------
(***************************************************************************)
(* SELECT, DELETE and INSERT as the executor runs them (executor.c): the   *)
(* plan, the cursor's walk along the leaves (cursor.c), the check of every *)
(* row read against the WHERE, and DELETE's two phases over trees that     *)
(* change under table_delete (module BTree).                               *)
(*                                                                         *)
(* A WHERE is here a sequence of comparisons joined by AND; module Planner *)
(* has the other shapes.                                                   *)
(***************************************************************************)
EXTENDS BTreeProperties, Narrowing

CONSTANT Wheres    \* the WHERE clauses statements use

ASSUME StatementsAssumption == Keys \subseteq 0..KeyMax /\ Wheres \subseteq Seq(Comparison)

VARIABLES
  statement,   \* the SELECT or DELETE at work, NoStatement if there is none
  cursor,      \* its cursor: a leaf, a cell of it, and end_of_table
  visited,     \* the keys of the rows handed to the visitor, first to last
  last_rows_examined   \* the rows read, for .stats

scan_vars == <<cursor, visited, last_rows_examined>>
all_vars == <<vars, statement, scan_vars>>

\* `phase` is where the statement stands: its scan, a DELETE's second loop, or
\* done; `next` is that loop's counter.  `before` is no part of the program: it
\* keeps the rows the table had, for the properties to compare with.
NoStatement == [kind |-> "none", phase |-> "none", root |-> NoPage, where |-> <<>>,
                plan |-> PlanFor(1, 0), next |-> 1, before |-> {}]
NoCursor == [page |-> NoPage, cell |-> 1, end_of_table |-> TRUE]

\* One other column tells the rows apart.
Row(key) == [key |-> key, other |-> key % 2]
Matches(where, key) == \A i \in DOMAIN where : Satisfies(Row(key), where[i])
PlanOf(where) ==
  PlanFor(FoldLeft(LAMBDA low, c : NarrowLow(c, low), 0, where),
          FoldLeft(LAMBDA high, c : NarrowHigh(c, high), KeyMax, where))

ExecutorInit ==
  /\ Init
  /\ statement = NoStatement
  /\ cursor = NoCursor
  /\ visited = <<>>
  /\ last_rows_examined = 0

-----------------------------------------------------------------------------
\* Cursors (cells are numbered from 1 here, from 0 in the code)

table_find(root, key) ==
  LET leaf == LeafFor(pages, root, key)
      cell == LowerBound(pages[leaf].keys, key)
  IN  [page |-> leaf, cell |-> cell, end_of_table |-> cell > Len(pages[leaf].keys)]

\* Mutant of cursor_advance: the end of a leaf is the end of the table.
AdvanceInLeaf(c) ==
  IF c.cell < Len(pages[c.page].keys) THEN [c EXCEPT !.cell = @ + 1]
  ELSE [c EXCEPT !.cell = @ + 1, !.end_of_table = TRUE]

cursor_advance(c) ==
  IF c.cell < Len(pages[c.page].keys) THEN [c EXCEPT !.cell = @ + 1]
  ELSE IF pages[c.page].next = NoPage THEN [c EXCEPT !.cell = @ + 1, !.end_of_table = TRUE]
  ELSE [page |-> pages[c.page].next, cell |-> 1, end_of_table |-> FALSE]

cursor_key == pages[cursor.page].keys[cursor.cell]

-----------------------------------------------------------------------------
Quiet == Idle /\ statement = NoStatement
Scanning == statement.phase = "scan"

ExecuteInsert(root, key) ==
  /\ statement = NoStatement
  /\ CallInsert(root, key)
  /\ UNCHANGED <<statement, scan_vars>>

\* Mutant of StartAt: a lookup or range starts at the leftmost leaf too.
StartAtFirst(root, plan) == table_find(root, 0)

StartAt(root, plan) == table_find(root, IF plan.kind = "SCAN" THEN 0 ELSE plan.low)

\* A SELECT or DELETE has been planned and its scan begins; an EMPTY plan opens
\* no cursor and reads nothing.  visit_matching_rows counts in a variable of its
\* own that becomes last_rows_examined at its end; as nothing looks at the old
\* count in between, it is counted in place here.
Begin(kind, root, where) ==
  /\ Quiet
  /\ statement' = [kind |-> kind, phase |-> "scan", root |-> root, where |-> where,
                   plan |-> PlanOf(where), next |-> 1, before |-> Rows[root]]
  /\ cursor' = IF PlanOf(where).kind = "EMPTY" THEN NoCursor ELSE StartAt(root, PlanOf(where))
  /\ last_rows_examined' = 0
  /\ UNCHANGED <<vars, visited>>

\* EXPLAIN prints the plan and reads nothing.
Explain ==
  /\ Quiet
  /\ last_rows_examined' = 0
  /\ UNCHANGED <<vars, statement, cursor, visited>>

PastHigh(plan, key) == plan.kind # "SCAN" /\ key > plan.high

MoreToRead == ~cursor.end_of_table /\ ~PastHigh(statement.plan, cursor_key)

\* Handing a row to the visitor: SELECT prints it, DELETE notes its key.
Visit(key) == visited' = Append(visited, key)

\* Mutant of VisitRow: a DELETE removes each row as its cursor meets it.
VisitAndDeleteRow ==
  /\ Scanning /\ Idle
  /\ MoreToRead
  /\ last_rows_examined' = last_rows_examined + 1
  /\ IF Matches(statement.where, cursor_key)
     THEN /\ Visit(cursor_key)
          /\ stack' = IF statement.kind = "delete"
                      THEN <<Call("table_delete", statement.root, NoPage, cursor_key)>> ELSE stack
     ELSE UNCHANGED <<visited, stack>>
  /\ cursor' = cursor_advance(cursor)
  /\ UNCHANGED <<pages, free_head, roots, max_keys, reply, statement>>

\* One turn of visit_matching_rows' loop.
VisitRow ==
  /\ Scanning /\ Idle
  /\ MoreToRead
  /\ last_rows_examined' = last_rows_examined + 1
  /\ IF Matches(statement.where, cursor_key) THEN Visit(cursor_key) ELSE UNCHANGED visited
  /\ cursor' = cursor_advance(cursor)
  /\ UNCHANGED <<vars, statement>>

\* The loop ends at the end of the table or at the first key past the range.  A
\* SELECT is then done, and a DELETE goes on to remove what it has chosen.
FinishScan ==
  /\ Scanning /\ Idle
  /\ ~MoreToRead
  /\ cursor' = NoCursor
  /\ statement' = [statement EXCEPT !.phase = IF statement.kind = "delete" THEN "delete" ELSE "done"]
  /\ UNCHANGED <<vars, visited, last_rows_examined>>

\* Mutant of DeleteRow: the loop stays at the same key.
DeleteRowAgain ==
  /\ statement.phase = "delete" /\ Idle
  /\ statement.next <= Len(visited)
  /\ stack' = <<Call("table_delete", statement.root, NoPage, visited[statement.next])>>
  /\ UNCHANGED <<pages, free_head, roots, max_keys, reply, statement, scan_vars>>

\* DELETE's second loop: table_delete for each key of the list, in turn.
DeleteRow ==
  /\ statement.phase = "delete" /\ Idle
  /\ statement.next <= Len(visited)
  /\ stack' = <<Call("table_delete", statement.root, NoPage, visited[statement.next])>>
  /\ statement' = [statement EXCEPT !.next = @ + 1]
  /\ UNCHANGED <<pages, free_head, roots, max_keys, reply, scan_vars>>

FinishDelete ==
  /\ statement.phase = "delete" /\ Idle
  /\ statement.next > Len(visited)
  /\ statement' = [statement EXCEPT !.phase = "done"]
  /\ UNCHANGED <<vars, scan_vars>>

\* execute_statement returns to the shell.
Leave ==
  /\ statement.phase = "done"
  /\ statement' = NoStatement
  /\ visited' = <<>>
  /\ UNCHANGED <<vars, cursor, last_rows_examined>>

TreeStep == Step /\ UNCHANGED <<statement, scan_vars>>

Work == VisitRow \/ FinishScan \/ DeleteRow \/ FinishDelete \/ Leave \/ TreeStep

ExecutorNext ==
  \/ \E root \in UserRoots, key \in Keys : ExecuteInsert(root, key)
  \/ \E kind \in {"select", "delete"}, root \in UserRoots, where \in Wheres :
       Begin(kind, root, where)
  \/ Explain
  \/ Work

\* A statement once begun runs to its end: nothing else runs in the process.
ExecutorSpec == ExecutorInit /\ [][ExecutorNext]_all_vars /\ WF_all_vars(Work)

-----------------------------------------------------------------------------
InRange ==
  {key \in statement.before :
     \/ statement.plan.kind = "SCAN"
     \/ statement.plan.kind # "EMPTY" /\ statement.plan.low <= key /\ key <= statement.plan.high}

\* .stats reports what the plan promises: the rows of the range and no more, the
\* first key past it not counted.
ReadsOnlyTheRange ==
  statement.phase \in {"delete", "done"} => last_rows_examined = Cardinality(InRange)

\* A SELECT leaves the table as it was, and a DELETE removes the rows it chose,
\* one by one and no other, though each removal reshapes the tree the keys were
\* collected from.
OnlyChosenRowsGo ==
  Idle /\ statement # NoStatement =>
    Rows[statement.root] = statement.before \
      (IF statement.kind = "delete" THEN ToSet(SubSeq(visited, 1, statement.next - 1)) ELSE {})

\* Every statement ends: neither the walk along the leaves, nor DELETE's loop
\* over its keys, nor a cascade of repairs under it goes on for ever.
StatementsEnd == [](statement # NoStatement => <>(statement = NoStatement))

-----------------------------------------------------------------------------
\* A DELETE counts as done once its rows are chosen: what it has still to remove
\* is no longer in the table, seen from outside.
RowsOutside ==
  [root \in UserRoots |->
     IF statement.phase = "delete" /\ root = statement.root THEN statement.before \ ToSet(visited)
     ELSE Rows[root]]

Requested ==
  IF Scanning
  THEN [kind |-> statement.kind, table |-> statement.root,
        accepts |-> {key \in Keys : Matches(statement.where, key)}]
  ELSE IF statement = NoStatement /\ Pending("table_insert")
  THEN [kind |-> "insert", table |-> Top.page, key |-> Top.key]
  ELSE [kind |-> "none"]

Simple == INSTANCE Statements WITH
  Key <- Keys,
  rows <- RowsOutside,
  request <- Requested,
  found <- IF Scanning THEN <<>> ELSE visited,
  stats <- IF Scanning THEN 0 ELSE last_rows_examined

\* To its caller a statement is one step on a set of rows: a SELECT returns the
\* rows its WHERE accepts and a DELETE removes them and no other, whatever plan
\* was chosen and however the tree is reshaped on the way, an INSERT that meets
\* its key changes nothing, .stats never counts fewer rows than were found, and
\* every statement takes effect in the end.
ImplementsStatements == Simple!Spec

=============================================================================
