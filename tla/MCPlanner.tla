------------------------------ MODULE MCPlanner ------------------------------
(***************************************************************************)
(* WHERE clauses to plan for: every comparison by itself, every pair of    *)
(* key comparisons joined by AND, and the ways AND, OR and NOT nest.       *)
(***************************************************************************)
EXTENDS Planner

Leaf(c) == [kind |-> "comparison", comparison |-> c]
Inner(kind, children) == [kind |-> kind, children |-> children]

KeyComparisons ==
  [op : CompareOp, left : {Column("key")}, right : {Constant(v) : v \in Constants}]
    \cup [op : CompareOp, left : {Constant(v) : v \in Constants}, right : {Column("key")}]

\* Enough for the nested shapes: bounds that meet, miss and exclude, the other
\* column, and a comparison that holds for no row.
Few ==
  {[op |-> o, left |-> Column("key"), right |-> Constant(1)] : o \in {"=", "!=", "<", ">="}}
    \cup {[op |-> "<", left |-> Constant(0), right |-> Column("key")],
          [op |-> "=", left |-> Column("other"), right |-> Constant(1)],
          [op |-> "<=", left |-> Column("other"), right |-> Column("key")],
          [op |-> "=", left |-> Constant(1), right |-> Constant(2)]}

Single == {<<Leaf(c)>> : c \in Comparison}
Pairs == {<<Inner("and", <<2, 3>>), Leaf(a), Leaf(b)>> : a, b \in KeyComparisons}
Negated == {<<Inner("not", <<2>>), Leaf(a)>> : a \in Few}
           \cup {<<Inner("not", <<2>>), Inner("not", <<3>>), Leaf(a)>> : a \in Few}
Nested ==
  {<<Inner(outer, <<2, 5>>), Inner(inner, <<3, 4>>), Leaf(a), Leaf(b), Leaf(c)>> :
     outer, inner \in {"and", "or"}, a, b, c \in Few}
  \cup {<<Inner("and", <<2, 4>>), Inner("not", <<3>>), Leaf(a), Leaf(b)>> : a, b \in Few}
  \cup {<<Inner("not", <<2>>), Inner(inner, <<3, 4>>), Leaf(a), Leaf(b)>> :
          inner \in {"and", "or"}, a, b \in Few}

MCWheres == {<<>>} \cup Single \cup Pairs \cup Negated \cup Nested

=============================================================================
