# mini-sql in TLA+

A verification development kept beside mini-sql, a single-file SQL database in
C: a pager over one file, b+trees in its pages, a catalog table that lists the
tables, and a SQL front end that plans and runs one statement at a time.

Everything here is TLA+ checked by TLC and proofs checked by TLAPS.
`PROJECT.json` lists the runs, maps every definition to the lines it models,
and names, for every property, a mutated definition that breaks it. Mutated
definitions stand in the modules next to the definition they replace, under a
comment that begins "Mutant of".

## 1. The system

### Components

| Component | State it keeps | Operations |
|---|---|---|
| Pager (`pager.c`) | the file, its length, the page cache, `num_pages`, `free_head` | open, get page, allocate, free, flush, close |
| File header (`file_header.c`) | page 0: magic, version, page size, catalog root, free-list head | initialise, validate, get and set the head |
| B+tree (`btree.c`) | leaves (cells, `next_leaf`), internal nodes (separators, children), parent and root marks | insert with splits up to a new root; delete with borrows and merges up to a collapsed root |
| Table (`table.c`) | root page, schema | `table_insert`, `table_delete` |
| Cursor (`cursor.c`) | page, cell, `end_of_table` | `table_find`, `table_start`, `cursor_key`, `cursor_advance` |
| Expressions (`expression.c`) | a bound WHERE | bind, evaluate against a row |
| Planner (`planner.c`) | a range of keys | narrow by a WHERE, choose SCAN, POINT, RANGE or EMPTY |
| Executor (`executor.c`) | a running statement: cursor, key list, rows examined | INSERT, SELECT, two-phase DELETE, CREATE TABLE, EXPLAIN |
| Catalog (`catalog.c`) | one b+tree whose rows name tables, roots and definitions | add a row, load all rows |
| Database (`database.c`) | the open tables, `next_table_id` | open, load tables, create a table, find by name, close |
| Statement preparation (`statement.c`) | a bound statement and what it owns | bind INSERT, SELECT, DELETE, CREATE TABLE; free |
| Table definitions (`table_definition.c`) | a checked definition, its canonical text | check, write out, free |
| Parser (`parser.c`) | one token of lookahead, a syntax tree, the first error | recursive descent with a depth limit; free |
| Tokenizer (`tokenizer.c`) | a position in a line | next token |
| Records, schema (`record.c`, `schema.c`) | bytes of a row, columns | lay out, encode, decode, look up |
| Shell (`main.c`, `input_buffer.c`, `meta_command.c`) | a line of input | read, run, print, `.exit` |

How they interact: the shell prepares a line against the database (parser, then
binder, then planner) and executes it. The executor walks cursors over one
table's tree and calls `table_insert` and `table_delete`. Trees call the pager
for pages; all trees, the catalog's included, share its free list and the end of
the file. The database owns the pager and the open tables. Nothing reaches the
file before `db_close`, which only `.exit` runs.

### What is hard here

There is one thread and one statement at a time. The difficulty is in long
sequences of calls, in what one call leaves for the next, and in what is left
when one of several steps fails:

* **Cascades.** An insert splits nodes up to the root, a delete repairs nodes up
  to the root. Between two C calls of a cascade the tree is half done: a
  sibling not attached yet, a separator still naming an old maximum, a parent
  field about to move.
* **Two structures over the same rows.** The tree above the leaves and the chain
  along them are changed at different moments by different code. Point lookups
  use one, scans the other, and range scans trust that both agree.
* **Exact separators.** A separator that is merely an upper bound breaks no
  lookup, only range scans that start in the gap.
* **Shared pages.** A page freed by one table's merge becomes another table's
  split, or a new table's root.
* **Sessions.** The free list's head and the next table id are not kept on disk
  as they change; they are rebuilt at every opening. `db_close` overwrites the
  file in place.
* **Half-built trees.** A line can turn out to be wrong at any token, a WHERE at any
  node; what has been built by then is owned partly by a tree whose counts do
  not cover it yet, partly by C locals of calls under way. The shell frees
  nothing of a statement that was refused.
* **NULL that means three things.** No WHERE, a WHERE that failed, and one not bound
  yet are all NULL; a DELETE that takes one for another removes every row.
* **Recursion over input.** Parser, binder, evaluation, planner and both frees
  recurse over a WHERE, and one limit in two functions of the parser bounds them all.
* **Round trips.** What CREATE TABLE accepts is written as text into a field of fixed
  width and must be accepted again, as the same definition, by every later opening.
* **Edges.** Binary-search end points, the in-place split loop, bounds that move
  by one around 32-bit limits, two builds with different key caps, lines that
  break off inside a token, numbers and widths too long for their integers,
  lists at their capacity, texts as wide as their field.

`PROJECT.json` lists these as hazards, each at its line.

### What makes each part correct

* Nodes: the two binary searches compute the lower bound; the split loop loses no
  cell; every split, borrow and merge fits.
* Trees: separators exact, chain equal to the tree's leaves, balanced, each page
  owned once, no fatal exit, other tables untouched; all of it implements plain
  sets of keys.
* Pager: the free list is exactly the free pages; with no session open the file
  is what the last `db_close` saved and opens again.
* Planner: no row the WHERE accepts lies outside the plan; plain conjunctions are
  planned exactly; no bound overflows.
* Executor: SELECT returns exactly the matching rows in key order, DELETE removes
  exactly those, no more rows are read than the range holds, every statement
  ends; seen from outside, a statement is one step on a set of rows.
* Tokenizer: it stays in the line, loses nothing but blanks and comments, takes
  tokens as long as they can be, and reaches the end.
* Parser: exactly the lines of the documented grammar are parsed, into the tree the
  grammar gives; the error is at the first bad token; nesting is bounded; every
  block is freed once.
* Binder: a statement is prepared whole or refused for the most basic thing wrong,
  with nothing left to free; an INSERT's values are in the columns they were meant
  for; a WHERE arrives whole.
* Table definitions: the checks are exact, three rows fit a leaf, and a stored
  definition comes back the same.
* Records: fields read back as written, and conditions on stored fields order them as
  the values are ordered.
* Database: open tables, catalog and next id agree; a saved database brings its
  tables back.

## 2. The modules

| Module | Models | Built on |
|---|---|---|
| `Node` | one page as a tree node and the pure operations inside it | |
| `BTree` | inserts and deletes of all trees of an open database, call by call | `Node` |
| `BTreeProperties` | what makes them correct | `BTree`, `OrderedTables` |
| `OrderedTables` | the abstract specification: tables as sets of keys | |
| `MCDeepTree` | a workload for deep trees | `BTreeProperties` |
| `MixedBuilds` | one file used by two builds | `MCDeepTree` |
| `NodeSearch` | the two binary searches, probe by probe | `Node` |
| `LeafSplit` | the in-place loop that divides a full leaf | |
| `LeafInsertion` | one row on its way into a leaf: search, then shift or split | `NodeSearch`, `LeafSplit` |
| `Pager` | pages, free list, header, sessions and crashes | |
| `Narrowing` | comparisons, as a row and as the planner see them | |
| `Planner` | `plan_select` over any WHERE tree | `Narrowing` |
| `Executor` | statements: plan, cursor, loop, two-phase DELETE, EXPLAIN | `BTreeProperties`, `Narrowing`, `Statements` |
| `Statements` | the abstract specification: statements as steps on sets of rows | |
| `Database` | catalog, CREATE TABLE, opening and closing | `BTreeProperties` |
| `Tokenizer` | a line cut into tokens, byte by byte | |
| `Literals` | the value of an integer literal, digit by digit | |
| `Lexer` | a line cut into tokens with the values of its numbers | `Tokenizer`, `Literals` |
| `Heap` | malloc and free: how often each block has been freed | |
| `ExpressionParser` | the recursive descent over a WHERE, call by call | `Heap` |
| `Parser` | `parse_statement` and `ast_free` | `ExpressionParser` |
| `ParserProperties` | the grammar of conditions and lines, and what the parser makes of it | `Parser` |
| `Records` | the bytes of a row, and comparing them | |
| `InsertBinding` | `bind_insert`, check by check, and the row it builds | `Records` |
| `TableDefinition` | the checks of a CREATE TABLE, its text, and loading it again | |
| `Preparation` | from a syntax tree to `statement_free`, with all a statement owns | `Heap` |
| `StatementPreparation` | `prepare_statement` whole: the binders within a line | `Preparation`, `InsertBinding`, `TableDefinition` |
| `MC...` | constants for TLC | |
| `PagerProofs` | theorems about the pager | `Pager` |
| `BTreeProofs` | theorems about the shape of the trees | `BTreeProperties` |
| `InsertionProofs`, `OrderProofs` | the order of their keys: what it is and that inserts keep it; that deletes do, and the theorems | `BTreeProofs` |
| `LoopProofs` | theorems about the loops inside a node and the digits of a number | `LeafInsertion`, `Literals` |
| `QueryProofs` | theorems about the parser and about the planner | `ParserProperties`, `Planner` |
| `PreparationProofs` | theorems about what is made of a parsed statement | `StatementPreparation` |
| `Lemmas` | the lemmas they share: induction, descents that end, sequences, keys that rise | |

### How the state corresponds to the code

* **Pages.** A page is a record: type, root mark, parent, keys, children, next. An
  internal node has one child more than keys, the last one being the child the
  code keeps in the header. Positions count from 1 where the code counts from 0
  (`NodeSearch` and `LeafSplit` keep the code's numbering). Page 0 is the header
  and, as in the code, 0 means "no page". A row moves wherever its key moves, so
  the key stands for the cell.
* **C calls.** `BTree`'s `stack` holds the calls a statement still has to make,
  the next one first; each action pops one call, does what it does, and pushes
  the calls it makes last. So every intermediate tree a later call can see is a
  state, and invariants are checked in it. Calls that only read
  (`get_node_max_key`, `table_find`) are operators. Searches inside a node are
  taken in one step as `LowerBound`, which `NodeSearch` justifies, and the
  division of a leaf as two subsequences, which `LeafSplit` justifies.
* **Reading through the cache.** `BTree` sees pages directly; that a fetch
  returns what was last written is `Pager`'s `View`.
* **Capacity.** `LeafMaxCells` is one number for all trees. In the code it
  follows from the schema, so the catalog's leaves hold fewer rows than a narrow
  table's; nothing in `btree.c` compares the capacities of two tables, and every
  run and theorem holds for each value from 3, the least a definition may have.
* **`Pager`.** It leaves open what the trees do: in a session they may fetch, write,
  allocate and free in any order. The cache's capacity and its growth are left
  out. Contents of nodes are opaque values.
* **`Planner`.** A WHERE is a sequence of nodes that name their children, so trees
  of any shape are values, and `todo` is what the recursion of `narrow` has
  still to visit. `Agrees` states what `expression_evaluate` computes: the one
  set of nodes that agrees with comparisons, AND, OR and NOT; short-circuiting
  has no effect to model, since evaluation changes nothing. All columns but the
  key are one column, "other". Sums wrap at `IntMax`, so a bound that leaves 64
  bits would be seen.
* **`Executor`.** `statement.phase` is the place in `visit_matching_rows`' loop or
  `execute_delete`'s second one; `visited` is the output of a SELECT or the key
  list of a DELETE. `statement.before` is a history variable. The trees change
  only through `BTree`'s own actions. The refinement to `Statements` lets a DELETE
  take effect when its scan ends: what it has still to remove is hidden from then
  on. `.stats` may there show any number from the rows found to the rows there are.
* **`Database`.** `creating` is set between the catalog insert that
  `database_create_table` begins and `add_table`. Closing is one step here;
  `Pager` takes it page by page. `saved` is a history variable.
* **`Tokenizer`.** Bytes treated alike share a character ("(" stands for every
  one-byte symbol that begins no other). Each iteration of each loop is an action;
  `at` is the function and loop the code is in. The references are a description of
  each kind of token and the doubling of quotes read backwards.
* **`ExpressionParser`.** `frames` is the C stack of `parse_or` ... `parse_primary`:
  each frame has its `depth`, its place (`at`) and the node its local points to;
  `returned` is a return value on its way. `nodes` and `frees` are the heap; a
  comparison keeps the tokens it was read from instead of their texts. A token is
  its type. The input is not fixed in advance: `advance` chooses the next token,
  so one run covers every line.
* **`Parser`.** The rules of the grammar that only consume tokens are a table of rows
  (place, token, what is kept, next place); `Refuse` is every `fail_expected`,
  with the one clean-up a rule does itself, the name of a half-read column. A list
  has the slots of its block (`capacity`), the elements the count covers and the
  `spare` one written but not counted yet. Malformed tokens need no type of their
  own: to the grammar they are tokens that fit nowhere, which every run has.
* **`InsertBinding`.** `targets` is a function whose domain is the slots written so
  far, so an index past the array or a slot never set is visible. The row is built
  in the bytes of `Records`, whose base, integer width and field widths are small;
  storing a row in a cell and fetching it copies the payload as it stands.
* **`Preparation`.** `bound` and `frees` are the heap of one line; blocks of an earlier
  line have been accounted for when the next begins. The parse tree is input:
  what it owns is `Parser`'s. A created table's blocks are counted one by one: the text,
  on the heap from `canonical_sql` on and freed by the one check that comes after it,
  the name, and the schema's struct, array and column names.
* **`TableDefinition`.** A text is its tokens and its length in bytes; `sql` is written
  as `canonical_sql` does, column after column, into a buffer that `Grown` doubles. A
  field of the catalog cuts what is longer. After acceptance the same variables go through
  the same checks again, from the text, as `load_tables` does.
* **`StatementPreparation`.** The two binders with loops of their own are instances
  inside `Preparation`: from the moment an INSERT's or CREATE TABLE's table has been
  looked up until the binder returns, only the binder steps, and what it returns is
  what `BindInsert` and `BindCreate` go by. Every table has the columns of `Schema`,
  since what depends on them is decided within one line; a table created in the
  session counts by its name and by the blocks it took over. A load of the new
  table's catalog row comes after the line, before its blocks are forgotten, or not
  at all.
* **`Lexer`.** The parser reads an integer token's value before it asks for the next
  token, which is when `parse_literal` steps.

## 3. The runs

| Run | Question | Bounds and why they are enough |
|---|---|---|
| `btree_two_tables` | do two tables and the catalog share pages without harm, and implement sets? | 4 keys per table, leaves of 3: each table can split, merge, free pages and take the other's; that calls end included |
| `btree_deep` | do cascades over several levels keep all invariants? | 22 keys filled upward or downward under caps 3 and 4 make three and four levels; 3 keys at the places where leaves meet then come and go in every order |
| `pager_sessions` | are free list and file sound over sessions? | 5 pages: header, catalog and three to chain in the free list in every order; any number of sessions |
| `leaf_insertion` | does a row get into a leaf with nothing lost? | all ascending leaves of keys up to 8, every wanted key between, below and above, capacities 3 to 8: both parities, every insertion point, every fill |
| `planner` | is a matching row ever planned away? | keys 0..2 in 64-bit integers shrunk to -7..6, so constants lie inside, next to and far from the keys and at both ends of the integers; every single comparison, every AND of two, nested trees of five nodes |
| `executor` | do statements do exactly what they say, and look like one step? | keys 0..5, the ends included, leaves of 3, so a scan crosses leaves and a DELETE merges them; five WHEREs with plans of all four kinds and bounds on, between and beyond rows and separators; liveness included |
| `database` | do catalog and open tables stay in step? | four names, one in two spellings; a catalog leaf of 3 so that it splits; one table that grows, shrinks and gives pages back |
| `parser` | is exactly the documented grammar accepted, within the limit, and all freed? | every line the parser can be led along, up to 15 tokens. A DELETE's WHERE has room for three comparisons under two joiners, or two with two parentheses; the nesting limit is 2, reached by NOTs, by parentheses and by both mixed. Lists hold three names or values, and capacity 1 doubles twice |
| `lexer` | is every line cut up right, within the line, and every number read right? | every line of up to 5 characters over each of four alphabets: two doubled quotes, a comment after a token and before one, and every broken-off symbol fit in 5. Integers have 8 bits, so that three digits pass the limit by one, four and five by more |
| `preparation` | is every line prepared whole or refused for the right reason, and all freed once? | conditions of one comparison with every pair of operands, a NOT, and an OR of an AND and a comparison, each place of the tree failing in each way; INSERTs into four columns with up to five names and values; definitions of up to three columns with names, widths and texts at, below and above every limit. Bytes are 0..3, integers in rows two bytes, a word 13 bits; pages and the least rows of a leaf are the code's; texts have 70 bytes where the code has 1024, in a buffer of 16 that doubles |
| `mixed_builds` | is a split half never full, as `btree.c` says? | violated, see below |
| `pager_crash` | is only unsaved work lost, as the README says? | violated, see below |

`leaf_insertion`, `planner`, `parser` and `lexer` each follow one computation, which
stops when it is done, and do not check deadlock; every other run does.

**Fairness.** `BTree` and `Executor` assume weak fairness of the steps of a
statement that has begun, and of nothing else. The process has one thread, and
between the first and the last C call of a statement nothing else runs; a
statement never waits. That statements begin at all is not assumed. From it follow
`CallsReturn`, that a call's cascade of further calls comes to its end, and what the
abstract specification `Statements` promises, that a statement once asked for takes
effect; `OrderedTables` says only what a call does when it does. The other runs check
safety only: the front end's loops each consume a token, a byte or an element of a
bounded list, and `LoopProofs!SearchHalves` shows the searches end.

**Named bounds.** `Keys`, `Filled`, `Builds`, `Tables` (BTree), `MaxPages`
(Pager), `MaxKey` (nodes to search), `MaxCells` (LeafSplit), `KeyMax`, `IntMax`,
`Wheres`, `Others` (planner), `Names`, `Busy` (database: only the first `Busy`
tables get rows), `MaxLength`, `Alphabets` (Tokenizer), `Digits`, `MaxDigits`
(Literals), `MaxTokens`, `WhereTokens` (parser: the tokens a condition is written
in), `Lines` (StatementPreparation).

### What the two failing runs show

* `mixed_builds`. `btree.c` says that neither half of a split internal node is
  full, also for nodes "filled by a build with a larger cap". With a node of at
  least twice this build's cap of keys that is not so, and the nested insert
  splits again. `BTreeProofs!MixedHalvesHaveRoom` gives the exact condition. Only
  a file moved between the production build and the test build meets it.
* `pager_crash`. The README says a killed process loses unsaved changes.
  `db_close` rewrites the file in place, page 0 first; killed between two pages
  it can leave a header that the next open refuses, and saved rows with it.

### Two more places where code and comment differ

These need no run: each is visible in a line.

* `pager_flush`'s comment calls any I/O failure fatal. It compares `write`'s result
  with -1 only, so a disk that takes part of a page passes for success.
* A comment in `expression.c` says that only a literal too long to hold is an error.
  The digits are judged before the minus is put in front, so -9223372036854775808,
  which 64 bits hold, is refused as out of range. `LiteralExact` states what the code
  does: the flag means that the digits alone do not fit.

## 4. The proofs

The prover establishes these for every value of the constants that satisfies
the assumptions stated beside them.

* **`PagerProofs`.** `IInv` is the inductive invariant. The properties alone are
  not inductive: that the free list of an open database stays exact needs to know
  that the saved file is itself a whole database (`SavedWhole`), that pages past
  the end of the file are in memory (`InSession`), and, while `db_close` runs,
  that what it has passed is on disk (`Closing`). The free list is a chain whose
  length the property bounds by `MaxPages`; the proof works with the unbounded
  `ListSound` and derives the bound by counting pages. One lemma per action; list
  lemmas say what taking the head, pushing a page, writing elsewhere and adding a
  page do to a chain. Assumptions: fewer pages than 4 GiB hold
  (`LengthAssumption`, a documented limitation) and a `db_close` that is not cut
  short (`Spec`; `CrashSpec` drops it, and there the property fails).
* **`BTreeProofs`.** `TreeInv` is the inductive invariant: there are a level for every
  page, a set `loose` of subtrees whose parent does not list them yet and a set
  `short` of nodes that may lack keys for the moment, such that
  - a child is one level below its parent, leaves are at level 0, and no node lists a
    child twice (`Descends`): so descents end, at leaves, and trees have no cycles;
  - every live page but the roots and `loose` is listed, by the node its parent field
    names and no other (`Shape`); the free pages are a chain from `free_head`
    (`FreeChain`);
  - nodes have room and, but for `short`, their minimum fill (`Filled`);
  - the pending calls are the ones that will mend what is loose or short, and are about
    pages that exist, at the level they expect (`Work`): this ties the half-done tree
    between two C calls to what `stack` still has to do.

  It says nothing of which keys a node holds, and so holds however keys compare; the
  page a key leads to matters only in that it is some child. One lemma per action.
  The properties follow from it. `NoFatalExit` directly. `EveryPageOwnedOnce`,
  `Balanced` and `OtherTablesUntouched` speak of `PagesUnder`, a recursive function:
  `Under` shows that it is the least set with the page in it and closed under children,
  which is all the rest needs. Trees are then disjoint (`TreesApart`) and together
  have every live page (`AllUnder`); and the pages of a tree no statement is at work in
  keep together, so no parent field or child pointer followed from outside leads in
  (`Elsewhere`, one lemma per action again). The arithmetic of minimum fills stands at
  the beginning: halves meet the minimum and have room, merges fit. Assumptions: leaves hold three rows,
  which `TableDefinition` checks, the caps of the builds are at least 3, as `btree.c`
  insists, and the catalog is a single leaf (`TablesAssumption`).
* **`InsertionProofs`, `OrderProofs`.** `TreeInv` is silent about keys, and what a user sees of a tree is
  its keys. `OrderInv` adds that there are an interval of keys from `lo` (excluded) to
  `hi` for every page, the `tree` every page belongs to, also while no parent lists it,
  a bound `top` on every key ever asked for, and a set `gaps` of pages whose interval is
  not yet what their parent's separators say, such that
  - a leaf's keys ascend within its interval, and its last key is the end of it, unless
    that is `top`; an inner page's separators rise strictly within its own
    (`NodeOrdered`);
  - a child has the interval between the separators around it, a page in `gaps` a part
    of it (`Fitted`); a root has everything up to `top` (`RootFits`);
  - a leaf names the leaf of its tree whose interval begins where its own ends, the last
    one none (`Linked`), and two leaves of a tree have disjoint intervals (`Apart`);
  - the pending calls are the ones that will close the gaps (`Mended`): the halves of a
    split node together have the slot the node had (`Halves`), and a node to be inserted
    goes next to a gap, into the same slot (`Beside`).

  This is what the comment in `btree.c`, "every separator stays equal to the largest key
  in the subtree to its left", becomes when it has to hold between any two calls; the
  comment itself, and the properties, are not inductive. That `lo` and `hi` are not
  computed from the pages is what makes the steps local: a split divides an interval, a
  borrow moves the boundary two siblings share, a merge joins two intervals, an insert
  beyond every key raises `top`, and deleting a leaf's last key moves that boundary in
  every page that it ends or begins, just where `lower_ancestor_separator` stores it
  (`SeparatorLowered`, `OrderLowered`). One lemma per action says that a later order exists and that
  each tree has the keys it had, but for the statement's own (`RowsKept`, `RowGained`,
  `RowLost`). `SeparatorsExact` follows since the rightmost leaf under a child ends where
  the child does; `ChainIsTree` since leaves that are each named by the one before it
  cover the keys without a hole, so that none is left out (`ChainIsWhole`); both need that
  a recursive function, `PagesUnder` or a scan, computes what its steps say (`Under`,
  `WalkIs`). For `ImplementsTables` the refinement maps a table to the keys of the leaves
  a scan meets (`RowsAlways`: the keys of its tree) and the pending statement to the
  abstract call; every action of `BTree` is a step of `OrderedTables` or changes nothing
  it shows (`AbstractStep`).
* **`Lemmas`.** Proof by induction, without a theorem that takes a predicate: a set
  of naturals that has 0 and every successor is all of them, a set that is not empty
  has a least element, a path along which a rank falls ends. Predicates
  become sets, recursive functions such paths. And what inserting into, removing from
  and cutting a sequence do to its elements, and to the order of keys that rise.
* **`LoopProofs`.** For the searches `Narrowed`: keys left of the range are
  below the wanted one, keys from its end on are not; so the result is the lower bound.
  For the split loop `Progress`: positions from `i` on hold what they should and
  slots below are still as they were, so what a position reads has not been
  overwritten. For the whole, that the shift or the loop starts from the lower bound
  the search has found, in a leaf that has room or not as the branch taken says.
  For literals `NumberInv`, the conjunction of `NumberTypeOK`, `NumberExact` and
  `LiteralExact`, is inductive as it stands: a flag once set stays right since a
  number only grows by further digits. `OverflowsExact` is the arithmetic: the
  division in the check decides exactly whether value * 10 + digit fits.
  `IntMaxAssumption` asks for integers that hold a digit.
* **`QueryProofs`.** For the planner `Narrowed`: every row the WHERE accepts is within the bounds
  and satisfies every node still to be visited. An OR or NOT is passed over, so
  the nodes of `todo` are always conjuncts of the whole. With `WidthAssumption`
  (the integers reach three past the largest key) no sum wraps. That conjunctions
  are planned exactly needs the converse: while only ANDs and comparisons with the key
  have been met, a row within the bounds that satisfies what is still to be visited is
  accepted (`Exact`); and a row for every key, whatever its other column.

  For the parser, a frame of the descent has its rank in the chain `or`, `and`, `not`,
  `primary` and the depth of what it is nested in; callers are one rank up or one
  level out (`StackInv`), so a call at place i has i <= 4 * depth + its rank. The height
  of what is built is bounded by levels: every node has one, higher than its
  children's (`Levelled`), and a chain under way is given at once the highest that its
  call may return, so that what its operands return fits below it (`Highest`).
* **`PreparationProofs`.** `LinesAssumption` and `SchemaAssumption` say what the parser
  and the catalog hand over: definitions and statements of any length, with any names,
  widths and values. `InsertInv` says of every place in `bind_insert` what has been
  found out by then: the names read are k different columns, each in its slot, so k
  slots are at most the table's columns (a subset's cardinality); the values judged so
  far fit; a refusal is for the first fault. `DefinitionInv` says which of the six
  rules hold by each check (`Checked`), and what the loop at work has done by its i-th
  turn (`Looping`): the size so far, which leaves out what is too wide, the columns in
  the text, the columns laid out. `FirstFault` states the rules of the definition as a
  whole; `FaultOf` shows what it says for each broken rule, from lemmas on sums, on two
  roundings to four (`MaxRowExact`) and on counting (`TwinsExact`, `KeysExact`).
  That a text parses back is `ParsedBack`: `WholeLaid` says where every token of a
  canonical text stands and how many bytes it has, so its signs are those before the
  columns and the closing one, in this order; the n-th of a finite set of numbers is
  found by counting those below it (`NthOf`). Buffers double until the text fits
  (`GrownEnough`), so nothing is cut; and a text no longer than its field returns from
  the catalog whole. Assumptions: the limits are naturals, and a row that fits a leaf
  has a width of 32 bits (`LimitsAssumption`).

Some theorems state properties that no run repeats, since the run of the same module
would only show on small values what is proved for all: the type invariants, that
searches halve their range, and that numbers are flagged exactly.

**Only model-checked.** Liveness, which is beyond the prover: `CallsReturn`,
`StatementsEnd`, and with them the refinement of `Statements`. `Executor` and `Database`
as wholes, which rest on the trees. That the parser accepts exactly the grammar, that
each block is freed once, the order of checks across a whole line
(`RefusedForFirstFault`), the tokenizer, and the bytes of a row, which are sums of powers
of the base, `Records`' recursion over an integer's bytes (see the plan).

## 5. What is not modelled

* Page layouts and the header's magic, version and page size: fixed offsets that
  every file of this program has. (The layout of rows is `Records`', the space of
  leaves `TableDefinition`'s.)
* I/O errors the code does notice: they end the process, which `Pager`'s `Die` and
  `DieClosing` cover. A torn page, half of whose bytes a crash or a full disk left
  behind, is not modelled: pages are the atoms of the file.
* Files of 4 GiB and more (`LengthAssumption`): the README calls them unsupported.
* The refusal messages of a corrupt file: `Database!SavedTablesReturn`,
  `TableDefinition!DefinitionReturns` and `Pager!SavedDatabaseSurvives` say that
  files this program closes never meet them.
* Allocation failure, which the code does not handle, except where it ends the process.
* The wording of errors; `parser.c`'s are modelled by their place and cause.
* Lines with a byte of zero in them, and lines as `getline` gives them: `read_input`
  and the meta commands other than `.exit` read and print.

## 6. Plan

Done, in this order: the trees (the heart of the system), the pager they share,
the algorithms inside a node, the planner, the executor over the trees, the
database over its sessions; then the front end, from the bytes of a line to
`statement_free`, rows as bytes, and the abstract `Statements`; and the proofs above.

Next, in order of what they would add:

1. `Preparation`'s `NothingLeaks`: each block of a line is freed once, or owned by the
   statement or a table; and `RefusedForFirstFault` with it.
2. The executor's loop over an ordered chain given as an assumption; `NextId` and
   the catalog's ids in `Database`.
