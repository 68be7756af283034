----------------------- MODULE MCStatementPreparation -----------------------
(***************************************************************************)
(* Lines for module StatementPreparation.  Every table is                  *)
(* (b TEXT(2), c TEXT(1), a INT PRIMARY KEY, d INT); bytes are 0 to 3, of  *)
(* which 2 and 3 have the top bit, and an int32_t has two of them.  A      *)
(* leaf's space and the fewest rows it holds are the code's own; the       *)
(* catalog's fields are shorter, and so is a word of 32 bits, which widths *)
(* can wrap at.                                                            *)
(***************************************************************************)
EXTENDS StatementPreparation

MCSchema ==
  <<[name |-> "b", type |-> "TEXT", size |-> 2, offset |-> 0],
    [name |-> "c", type |-> "TEXT", size |-> 1, offset |-> 2],
    [name |-> "a", type |-> "INT", size |-> 2, offset |-> 3],
    [name |-> "d", type |-> "INT", size |-> 2, offset |-> 5]>>

MCConstants ==
  {[type |-> "INT", value |-> number] : number \in {-100, -8, -1, 0, 7, 100}}
    \cup {[type |-> "TEXT", value |-> text] : text \in {<<>>, <<2>>, <<1, 3>>, <<3, 1, 2>>}}

Name(word, upper) == [word |-> word, upper |-> upper]
MCTables == <<Name("t", FALSE)>>

-----------------------------------------------------------------------------
\* SELECTs and DELETEs: every comparison of two operands, and such comparisons
\* under AND, OR and NOT.
Operand(kind, name, type, flag) == [kind |-> kind, name |-> name, type |-> type, out_of_range |-> flag]
ColumnNamed(name) == Operand("column", name, "none", FALSE)
Literal(type, flag) == Operand("literal", "none", type, flag)
Operands ==
  {ColumnNamed(name) : name \in {"a", "b", "x"}}
    \cup {Literal("INT", FALSE), Literal("INT", TRUE), Literal("TEXT", FALSE)}
Leaf(l, r) == [kind |-> "COMPARISON", left |-> l, right |-> r, children |-> <<>>]
Inner(kind, children) ==
  [kind |-> kind, left |-> ColumnNamed("none"), right |-> ColumnNamed("none"), children |-> children]

Some ==
  {Leaf(ColumnNamed("b"), Literal("TEXT", FALSE)), Leaf(Literal("TEXT", FALSE), ColumnNamed("x")),
   Leaf(ColumnNamed("a"), Literal("TEXT", FALSE)), Leaf(Literal("INT", TRUE), ColumnNamed("a"))}

Wheres ==
  {<<>>} \cup {<<Leaf(l, r)>> : l, r \in Operands}
    \cup {<<Inner("NOT", <<2>>), c>> : c \in Some}
    \cup {<<Inner("OR", <<2, 5>>), Inner("AND", <<3, 4>>), c, d, e>> : c, d, e \in Some}

Reads ==
  [kind : {"select"}, table : {Name("t", TRUE), Name("u", FALSE)},
   columns : {<<>>, <<"b", "a", "b">>, <<"a", "x">>}, where : Wheres]
    \cup [kind : {"delete"}, table : {Name("t", FALSE), Name("u", TRUE)}, where : Wheres]

-----------------------------------------------------------------------------
\* INSERTs: every list of up to four names, every order of all four with one
\* more, and counts of values that fit or not; and values at, inside and past
\* every limit, in three orders.
Integer(v, flag) == [type |-> "INTEGER", integer |-> v, out_of_range |-> flag, text |-> <<>>]
String(text) == [type |-> "STRING", integer |-> 0, out_of_range |-> FALSE, text |-> text]

Listable == {Name(word, FALSE) : word \in {"a", "b", "c", "d", "x"}} \cup {Name("a", TRUE)}
Lists ==
  (BoundedSeq(Listable, 3) \ {<<>>})
    \cup {Append(names, name) : names \in {<<Name("d", FALSE), Name("b", FALSE), Name("a", TRUE)>>,
                                           <<Name("a", FALSE), Name("c", FALSE), Name("b", FALSE)>>},
                                name \in Listable}
    \cup {<<Name("d", FALSE), Name("b", FALSE), Name("a", TRUE), Name("c", FALSE), name>> : name \in Listable}

RowValues ==
  {<<b, c, a, d>> :
     b \in {String(<<>>), String(<<2>>), String(<<1, 3>>), String(<<1, 2, 3>>), Integer(1, FALSE)},
     c \in {String(<<>>), String(<<3>>), String(<<3, 3>>)},
     a \in {Integer(-1, FALSE), Integer(0, FALSE), Integer(7, FALSE), Integer(0, TRUE), String(<<>>)},
     d \in {Integer(-9, FALSE), Integer(-8, FALSE), Integer(-1, FALSE), Integer(8, FALSE), Integer(0, TRUE)}}

Permuted(values, names) ==
  [k \in DOMAIN names |-> values[CHOOSE c \in 1..4 : MCSchema[c].name = names[k].word]]
Orders ==
  {<<Name("c", FALSE), Name("b", FALSE), Name("d", FALSE), Name("a", TRUE)>>,
   <<Name("a", FALSE), Name("d", FALSE), Name("c", FALSE), Name("b", FALSE)>>}

Asked(named, names, values) == [named |-> named, names |-> names, values |-> values]
MCInserts ==
  {Asked(TRUE, names, [k \in 1..count |-> Integer(1, FALSE)]) : names \in Lists, count \in {2, 4, 5}}
    \cup {Asked(FALSE, <<>>, [k \in 1..count |-> Integer(1, FALSE)]) : count \in {3, 5}}
    \cup {Asked(FALSE, <<>>, values) : values \in RowValues}
    \cup {Asked(TRUE, names, Permuted(values, names)) : names \in Orders, values \in RowValues}

InsertLines ==
  [kind : {"insert"}, table : {Name("t", TRUE)}, insert : MCInserts]
    \cup [kind : {"insert"}, table : {Name("u", FALSE)}, insert : {Asked(FALSE, <<>>, <<>>)}]

-----------------------------------------------------------------------------
\* CREATE TABLEs of up to three columns, with widths and lengths at, below and
\* above every limit.
Called(word, upper, bytes) == [word |-> word, upper |-> upper, bytes |-> bytes]
A == Called("a", FALSE, 1)
IntColumn(name, key) ==
  [name |-> name, type |-> "INT", width |-> 0, width_out_of_range |-> FALSE, primary_key |-> key]
TextColumn(name, width, flag, key) ==
  [name |-> name, type |-> "TEXT", width |-> width, width_out_of_range |-> flag, primary_key |-> key]

ColumnNames == {A, Called("a", TRUE, 1), Called("b", FALSE, 1), Called("long", FALSE, 24)}
Widths == {0, 1, 9, 10, 1344, 1351, 1352, 1353, 1356, 1357, Word + 5}

FirstColumns ==
  {IntColumn(name, key) : name \in {A, Called("long", FALSE, 24)}, key \in BOOLEAN}
    \cup {TextColumn(A, 3, FALSE, TRUE), TextColumn(A, 1351, FALSE, FALSE), TextColumn(A, 0, TRUE, FALSE)}
MiddleColumns ==
  {IntColumn(name, key) : name \in ColumnNames, key \in BOOLEAN}
    \cup {TextColumn(name, width, FALSE, FALSE) : name \in ColumnNames, width \in Widths}
    \cup {TextColumn(name, 0, TRUE, key) : name \in ColumnNames, key \in BOOLEAN}
LastColumns ==
  {IntColumn(Called("c", FALSE, bytes), key) : bytes \in 1..4, key \in BOOLEAN}
    \cup {TextColumn(Called("c", FALSE, 1), width, FALSE, FALSE) : width \in {1, 4, 5, Word - 1349}}


Definitions ==
  {[name |-> Called("u", FALSE, bytes), columns |-> columns] :
     bytes \in {3, 4, 5},
     columns \in {<<c>> : c \in FirstColumns}
       \cup {<<c, d>> : c \in FirstColumns, d \in MiddleColumns}
       \cup {<<c, d, e>> : c \in FirstColumns, d \in MiddleColumns, e \in LastColumns}}

CreateLines ==
  [kind : {"create"}, table : {Name("u", FALSE)}, definition : Definitions]
    \cup [kind : {"create"}, table : {Name("t", TRUE)},
          definition : {[name |-> Called("t", TRUE, 5), columns |-> <<IntColumn(A, TRUE)>>]}]

-----------------------------------------------------------------------------
MCLines == Reads \cup InsertLines \cup CreateLines \cup {NoLine}

=============================================================================
