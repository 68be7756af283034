--------------------------- MODULE ParserProperties ---------------------------
(***************************************************************************)
(* What parse_statement promises.  The reference is the grammar at the     *)
(* head of parser.c: the set of the conditions it allows, each with the    *)
(* tree it stands for, and the set of the lines, each with what its tree   *)
(* has to say of it and with its condition left out.                       *)
(***************************************************************************)
EXTENDS Parser

Tree(kind, text, children) == [kind |-> kind, text |-> text, children |-> children]

\* The conditions the model's lines can hold: a WHERE is their fourth token at
\* the earliest.
Bounded(sentences) == {s \in sentences : Len(s.text) <= MaxTokens - 4}

Operands == {<<"name">>, <<"integer">>, <<"string">>, <<"-", "integer">>}
Written == {o \in Operands : ToSet(o) \subseteq WhereTokens}
Comparisons ==
  LET Said(a, b) == a \o <<"op">> \o b
  IN  {[text |-> Said(a, b), tree |-> Tree("COMPARISON", Said(a, b), <<>>)] : a, b \in Written}

Parenthesised(s) == [s EXCEPT !.text = <<"(">> \o @ \o <<")">>]
Negated(s) == [text |-> <<"NOT">> \o s.text, tree |-> Tree("NOT", <<>>, <<s.tree>>)]

\* x { word x }: one operand stands for itself, more are gathered in one node.
Chain(word, operands) ==
  LET Join(list, s) == [text |-> list.text \o <<word>> \o s.text, trees |-> Append(list.trees, s.tree)]
      longest == (MaxTokens - 3) \div 4
      lists[n \in 1..longest] ==
        IF n = 1 THEN {[text |-> s.text, trees |-> <<s.tree>>] : s \in operands}
        ELSE Bounded({Join(list, s) : list \in lists[n - 1], s \in operands})
      all == UNION {lists[n] : n \in 1..longest}
  IN  {[text |-> list.text,
        tree |-> IF Len(list.trees) = 1 THEN list.trees[1] ELSE Tree(word, <<>>, list.trees)] :
         list \in all}

\* The sentences in which NOTs and parentheses nest at most `depth` deep.
Sentences[depth \in Nat] ==
  LET below == IF depth = 0 THEN [expr |-> {}, not_expr |-> {}] ELSE Sentences[depth - 1]
      primary == Comparisons \cup Bounded({Parenthesised(s) : s \in below.expr})
      not_expr == primary \cup Bounded({Negated(s) : s \in below.not_expr})
  IN  [expr |-> Chain("OR", Chain("AND", not_expr)), not_expr |-> not_expr]

Conditions == Sentences[MaxDepth].expr
Beginnings == UNION {{SubSeq(s.text, 1, n) : n \in 0..Len(s.text)} : s \in Conditions}

TreeOf(root) ==
  LET tree[id \in DOMAIN nodes] ==
        Tree(nodes[id].kind, nodes[id].text,
             [i \in DOMAIN nodes[id].children |-> tree[nodes[id].children[i]]])
  IN  IF root = NULL THEN Tree("none", <<>>, <<>>) ELSE tree[root]

Height(root) ==
  LET height[id \in DOMAIN nodes] ==
        1 + Max({height[c] : c \in ToSet(nodes[id].children)} \cup {0})
  IN  IF root = NULL THEN 0 ELSE height[root]

\* How many of the NOTs and open parentheses before the last token of `text`
\* nest it: a NOT until an AND or an OR, or the end of a parenthesis around it.
Nesting(text) ==
  LET before == 1..(Len(text) - 1)
      Count(type, from, to) == Cardinality({i \in from..to : text[i] = type})
      Level(i) == Count("(", 1, i) - Count(")", 1, i)
      Open(i) == \A j \in i..(Len(text) - 1) : Level(j) >= Level(i)
      Negating(i) ==
        /\ text[i] = "NOT" /\ Open(i)
        /\ \A j \in i..(Len(text) - 1) : Level(j) = Level(i) => text[j] \notin {"AND", "OR"}
  IN  Cardinality({i \in before : (text[i] = "(" /\ Open(i)) \/ Negating(i)})

-----------------------------------------------------------------------------
\* A phrase, and what it adds to the tree: how many columns and values.
Phrase(text, columns, values) == [text |-> text, columns |-> columns, values |-> values]
Word(word) == {Phrase(<<word>>, 0, 0)}
Nothing == {Phrase(<<>>, 0, 0)}
Literals == {Phrase(t, 0, 1) : t \in {<<"integer">>, <<"string">>, <<"-", "integer">>}}
Names == {Phrase(<<"name">>, 1, 0)}

Joined(a, b) == Phrase(a.text \o b.text, a.columns + b.columns, a.values + b.values)
Both(A, B) == {p \in {Joined(a, b) : a \in A, b \in B} : Len(p.text) <= MaxTokens}
Sequence(phrases) == FoldLeft(Both, Nothing, phrases)
Optional(A) == A \cup Nothing
ListOf(A) ==
  LET lists[n \in 1..MaxTokens] ==
        IF n = 1 THEN A ELSE lists[n - 1] \cup Sequence(<<lists[n - 1], Word(","), A>>)
  IN  lists[(MaxTokens + 1) \div 2]
InParentheses(A) == Sequence(<<Word("("), A, Word(")")>>)

Insert == Sequence(<<Word("INSERT"), Word("INTO"), Word("name"), Optional(InParentheses(ListOf(Names))),
                     Word("VALUES"), InParentheses(ListOf(Literals))>>)
From == Sequence(<<Word("FROM"), Word("name"), Optional(Word("WHERE"))>>)
Select == Sequence(<<Word("SELECT"), Word("*") \cup ListOf(Names), From>>)
Delete == Both(Word("DELETE"), From)
ColumnDef == Sequence(<<Names, Word("INT") \cup Both(Word("TEXT"), InParentheses(Word("integer"))),
                        Optional(Both(Word("PRIMARY"), Word("KEY")))>>)
Create == Sequence(<<Word("CREATE"), Word("TABLE"), Word("name"), InParentheses(ListOf(ColumnDef))>>)

Explained == Both(Word("EXPLAIN"), Select \cup Delete)

\* The lines, a WHERE standing for itself and the condition after it.
Lines == Both(Insert \cup Select \cup Create \cup Delete \cup Explained \cup Nothing, Optional(Word(";")))
LineBeginnings == UNION {{SubSeq(line.text, 1, n) : n \in 0..Len(line.text)} : line \in Lines}

\* A text in two parts: what follows its WHERE up to a semicolon, and the rest.
Semicolons(text) == SelectSeq(text, LAMBDA t : t = ";")
Condition(text) ==
  IF Contains(text, "WHERE")
  THEN SelectSeq(SubSeq(text, SelectInSeq(text, LAMBDA t : t = "WHERE") + 1, Len(text)),
                 LAMBDA t : t # ";")
  ELSE <<>>
Outline(text) ==
  IF Contains(text, "WHERE")
  THEN SubSeq(text, 1, SelectInSeq(text, LAMBDA t : t = "WHERE")) \o Semicolons(text)
  ELSE text

\* Whether `text` is the beginning of a line the grammar allows.
IsBeginning(text) ==
  /\ Outline(text) \in LineBeginnings
  /\ Condition(text) \in Beginnings
  /\ Contains(text, "WHERE") /\ Contains(text, ";") =>
       Last(text) = ";" /\ Condition(text) \in {s.text : s \in Conditions}

IsLine(text) ==
  /\ \E line \in Lines : line.text = Outline(text)
  /\ Contains(text, "WHERE") => Condition(text) \in {s.text : s \in Conditions}

KindOf(text) ==
  LET words == SelectSeq(text, LAMBDA t : t \in {"INSERT", "SELECT", "CREATE", "DELETE"})
  IN  IF words = <<>> THEN "empty"
      ELSE [INSERT |-> "insert", SELECT |-> "select", CREATE |-> "create", DELETE |-> "delete"][words[1]]

\* What the tree of a line is to say: the statement, and every column, value
\* and condition the line has.
Describes(tree, line) ==
  /\ tree.kind = KindOf(line.text)
  /\ tree.explain <=> Contains(line.text, "EXPLAIN")
  /\ Len(tree.column_names.items) + Len(tree.columns.items) = line.columns
  /\ Len(tree.values.items) = line.values
  /\ (tree.where # NULL) <=> Contains(line.text, "WHERE")

-----------------------------------------------------------------------------
\* A line is parsed only if the documented grammar has it, to its very end
\* (nothing after the statement is "silently ignored"), and the tree then holds
\* all that the line says.  Its WHERE is the one the grammar gives: NOT binds
\* tightest, then AND, then OR, a chain is one node, no operand is lost or
\* moved, and a WHERE that failed is never taken for none.
ParsedLinesAreGrammar ==
  at = "parsed" =>
    /\ \E line \in Lines : line.text = Outline(read) /\ Describes(ast, line)
    /\ ast.where # NULL =>
         [text |-> Condition(read), tree |-> TreeOf(ast.where)] \in Conditions

\* "The error reported is always the first one": a line is refused at its first
\* token that no statement could go on with, nothing is read past it, and the
\* error says so: no later trouble overwrites it.
LineRefusedAtFirstBadToken ==
  at = "refused" => /\ error.position = Len(read) + 1
                    /\ IF current = "END" THEN ~IsLine(read) ELSE ~IsBeginning(Append(read, current))

\* A line is refused for its nesting exactly when a NOT or a parenthesis would
\* be nested deeper than MAX_EXPRESSION_DEPTH.
NestingLimitExact ==
  LET text == Condition(read)
  IN  /\ \A i \in DOMAIN text :
           text[i] \in {"NOT", "("} => Nesting(SubSeq(text, 1, i)) < MaxDepth
      /\ error.what = "nested" => Nesting(Append(text, current)) = MaxDepth

\* "The stack depth is bounded": the parser's calls are at most four to a level
\* of nesting, so that no line, however long, can exhaust the stack; and the
\* finished tree is no higher than two chains to a level and a comparison, which
\* bounds the recursions over it (free_expr, the binder, evaluation) as well.
DepthBounded ==
  /\ Len(frames) <= 4 * MaxDepth + 4
  /\ frames = <<>> => Height(ast.where) <= 2 * MaxDepth + 3

\* parse_statement leaves "nothing to free" behind a line it refuses, and what
\* it gives for a parsed one is freed whole by one ast_free: no block twice,
\* none never, whatever was half built when the bad token came.
NothingLeaks ==
  /\ NoneFreedTwice
  /\ at \in {"refused", "released"} => \A b \in DOMAIN frees : frees[b] = 1
  /\ at = "parsed" => \A b \in DOMAIN frees : frees[b] = 0

=============================================================================
