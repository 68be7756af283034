------------------------------ MODULE Narrowing ------------------------------
(***************************************************************************)
(* Comparisons of a WHERE: what a row makes of one (expression.c), and     *)
(* what the planner makes of one about the key (planner.c).                *)
(*                                                                         *)
(* Columns other than the key differ for the planner in nothing but not    *)
(* being the key, so one of them, "other", stands for all; a TEXT          *)
(* comparison is one between two such columns or constants.                *)
(***************************************************************************)
EXTENDS Integers

CONSTANTS
  KeyMax,    \* KEY_MAX: keys are 0 .. KeyMax
  IntMax     \* the largest int64_t

ASSUME WidthAssumption == KeyMax \in Nat /\ IntMax \in Nat /\ IntMax >= KeyMax + 3

CompareOp == {"=", "!=", "<", "<=", ">", ">="}
Constants == -IntMax - 1 .. IntMax

Column(name) == [kind |-> "column", column |-> name, integer |-> 0]
Constant(value) == [kind |-> "constant", column |-> "none", integer |-> value]

BoundOperand == {Column("key"), Column("other")} \cup {Constant(v) : v \in Constants}
Comparison == [op : CompareOp, left : BoundOperand, right : BoundOperand]

-----------------------------------------------------------------------------
\* expression_evaluate, for one comparison

Value(operand, row) ==
  IF operand.kind = "column" THEN row[operand.column] ELSE operand.integer

Compare(op, a, b) ==
  \/ op = "=" /\ a = b
  \/ op = "!=" /\ a # b
  \/ op = "<" /\ a < b
  \/ op = "<=" /\ a <= b
  \/ op = ">" /\ a > b
  \/ op = ">=" /\ a >= b

Satisfies(row, comparison) ==
  Compare(comparison.op, Value(comparison.left, row), Value(comparison.right, row))

-----------------------------------------------------------------------------
\* narrow_by_comparison

\* What a sum that leaves the 64 bits becomes (undefined in C, a wrap in what
\* compilers make of it): the planner must never see it.
Wrap(n) ==
  IF n > IntMax THEN n - 2 * (IntMax + 1)
  ELSE IF n < -IntMax - 1 THEN n + 2 * (IntMax + 1)
  ELSE n

clamp_constant(value) ==
  IF value < -2 THEN -2 ELSE IF value > KeyMax + 2 THEN KeyMax + 2 ELSE value

flip(op) ==
  CASE op = "<" -> ">"
    [] op = "<=" -> ">="
    [] op = ">" -> "<"
    [] op = ">=" -> "<="
    [] OTHER -> op

IsKey(operand) == operand = Column("key")
IsConstant(operand) == operand.kind = "constant"

\* Whether the comparison is one of the key with a constant, on either side.
OnKey(c) ==
  \/ IsKey(c.left) /\ IsConstant(c.right)
  \/ IsKey(c.right) /\ IsConstant(c.left)

KeyOp(c) == IF IsKey(c.left) THEN c.op ELSE flip(c.op)
KeyValue(c) == clamp_constant(IF IsKey(c.left) THEN c.right.integer ELSE c.left.integer)

Raised(low, bound) == IF bound > low THEN bound ELSE low
Lowered(high, bound) == IF bound < high THEN bound ELSE high

\* Mutant of NarrowLow: a strict bound keeps the constant itself.
NarrowLowLoosely(c, low) ==
  IF OnKey(c) /\ KeyOp(c) \in {"=", ">=", ">"} THEN Raised(low, KeyValue(c)) ELSE low

NarrowLow(c, low) ==
  IF ~OnKey(c) THEN low
  ELSE CASE KeyOp(c) \in {"=", ">="} -> Raised(low, KeyValue(c))
         [] KeyOp(c) = ">" -> Raised(low, Wrap(KeyValue(c) + 1))
         [] OTHER -> low

NarrowHigh(c, high) ==
  IF ~OnKey(c) THEN high
  ELSE CASE KeyOp(c) \in {"=", "<="} -> Lowered(high, KeyValue(c))
         [] KeyOp(c) = "<" -> Lowered(high, Wrap(KeyValue(c) - 1))
         [] OTHER -> high

\* plan_select's answer for a narrowed range; a plan that needs no bounds has none.
PlanFor(low, high) ==
  LET kind == CASE low > high -> "EMPTY"
                [] low = high -> "POINT"
                [] low < high /\ (low > 0 \/ high < KeyMax) -> "RANGE"
                [] OTHER -> "SCAN"
      bounded == kind \in {"POINT", "RANGE"}
  IN  [kind |-> kind, low |-> IF bounded THEN low ELSE 0, high |-> IF bounded THEN high ELSE 0]

=============================================================================
