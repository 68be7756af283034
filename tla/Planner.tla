------------------------------- MODULE Planner -------------------------------
(***************************************************************************)
(* plan_select: the walk of `narrow` over a bound WHERE, comparison by     *)
(* comparison, and the plan it ends in.                                    *)
(*                                                                         *)
(* A WHERE is a tree of nodes, given as a sequence whose first element is  *)
(* the root: a comparison, or an AND, OR or NOT naming its children, which *)
(* come after it.  No WHERE at all is the empty sequence.                  *)
(***************************************************************************)
EXTENDS Narrowing, Sequences

CONSTANTS
  Wheres,    \* the WHERE clauses to plan for
  Others     \* the values the other column may have

WhereNode ==
  [kind : {"comparison"}, comparison : Comparison]
    \cup [kind : {"and", "or", "not"}, children : Seq(Nat)]

IsWhere(nodes) ==
  /\ nodes \in Seq(WhereNode)
  /\ \A n \in DOMAIN nodes : nodes[n].kind # "comparison" =>
       /\ nodes[n].children \in Seq((n + 1)..Len(nodes))
       /\ nodes[n].kind = "not" => Len(nodes[n].children) = 1

ASSUME WheresAssumption == \A nodes \in Wheres : IsWhere(nodes)
ASSUME OthersAssumption == Others \subseteq Int /\ Others # {}

VARIABLES
  where,    \* the WHERE being planned for
  todo,     \* the nodes narrow has still to be called on, the next one first
  low,      \* the range left for the key
  high,
  plan      \* plan_select's answer, NoPlan until it is chosen

planner_vars == <<where, todo, low, high, plan>>

NoPlan == [kind |-> "none", low |-> 0, high |-> 0]

PlannerInit ==
  /\ where \in Wheres
  /\ todo = IF where = <<>> THEN <<>> ELSE <<1>>
  /\ low = 0
  /\ high = KeyMax
  /\ plan = NoPlan

NodeToDo == where[Head(todo)]

NarrowByComparison ==
  /\ todo # <<>>
  /\ NodeToDo.kind = "comparison"
  /\ low' = NarrowLow(NodeToDo.comparison, low)
  /\ high' = NarrowHigh(NodeToDo.comparison, high)
  /\ todo' = Tail(todo)
  /\ UNCHANGED <<where, plan>>

\* Mutant of Conjoins: the pieces of an OR narrow the range as well.
ConjoinsAny(node) == node.kind \in {"and", "or"}

\* The pieces of an AND must all hold.
Conjoins(node) == node.kind = "and"

EnterAnd ==
  /\ todo # <<>>
  /\ Conjoins(NodeToDo)
  /\ todo' = NodeToDo.children \o Tail(todo)
  /\ UNCHANGED <<where, low, high, plan>>

\* An OR or a NOT promises nothing about any one comparison.
PassOver ==
  /\ todo # <<>>
  /\ NodeToDo.kind # "comparison" /\ ~Conjoins(NodeToDo)
  /\ todo' = Tail(todo)
  /\ UNCHANGED <<where, low, high, plan>>

ChoosePlan ==
  /\ todo = <<>>
  /\ plan = NoPlan
  /\ plan' = PlanFor(low, high)
  /\ UNCHANGED <<where, todo, low, high>>

PlannerNext == NarrowByComparison \/ EnterAnd \/ PassOver \/ ChoosePlan

PlannerSpec == PlannerInit /\ [][PlannerNext]_planner_vars

-----------------------------------------------------------------------------
\* expression_evaluate, over a whole WHERE: the nodes that hold for a row are
\* those that agree with the comparisons and with AND, OR and NOT.
TableRows == [key : 0..KeyMax, other : Others]

Agrees(holding, row) ==
  \A n \in DOMAIN where :
    LET node == where[n]
    IN  /\ node.kind = "comparison" => (n \in holding <=> Satisfies(row, node.comparison))
        /\ node.kind = "and" =>
             (n \in holding <=> \A i \in DOMAIN node.children : node.children[i] \in holding)
        /\ node.kind = "or" =>
             (n \in holding <=> \E i \in DOMAIN node.children : node.children[i] \in holding)
        /\ node.kind = "not" => (n \in holding <=> node.children[1] \notin holding)

Accepts(row) ==
  \E holding \in SUBSET DOMAIN where : Agrees(holding, row) /\ (where # <<>> => 1 \in holding)

\* The keys a plan has the executor read.
Covers(p, key) ==
  CASE p.kind = "SCAN" -> TRUE
    [] p.kind = "EMPTY" -> FALSE
    [] OTHER -> p.low <= key /\ key <= p.high

-----------------------------------------------------------------------------
\* The type invariant.  The bounds stay within three of the keys' range, as
\* clamp_constant's comment promises, so 64 bits hold every sum; and the bounds
\* a plan stores as uint32_t are keys.
PlannerTypeOK ==
  /\ IsWhere(where)
  /\ todo \in Seq(DOMAIN where)
  /\ low \in 0..(KeyMax + 3) /\ high \in -3..KeyMax
  /\ plan = NoPlan \/ (plan.low \in 0..KeyMax /\ plan.high \in 0..KeyMax)

\* No row the WHERE accepts is ever outside the range, whichever way the tree
\* nests and however far its constants are from the keys; so the plan chosen
\* has the executor read every row that matches (executor.c checks each row
\* read against the whole WHERE, but cannot miss what it does not read).
PlanCoversMatches ==
  \A row \in TableRows : Accepts(row) =>
    /\ low <= row.key /\ row.key <= high
    /\ plan # NoPlan => Covers(plan, row.key)

\* A WHERE that is nothing but ANDs of comparisons of the key with constants,
\* none of them !=, is planned exactly: the plan reads the keys it accepts and
\* no other, it is EMPTY exactly when none can match, and POINT for one key.
IsConjunction ==
  \A n \in DOMAIN where :
    \/ where[n].kind = "and"
    \/ where[n].kind = "comparison" /\ OnKey(where[n].comparison) /\ where[n].comparison.op # "!="

ConjunctionsAreExact ==
  plan # NoPlan /\ IsConjunction =>
    LET accepted == {row.key : row \in {r \in TableRows : Accepts(r)}}
    IN  /\ accepted = {k \in 0..KeyMax : Covers(plan, k)}
        /\ plan.kind = "EMPTY" <=> (accepted = {})
        /\ plan.kind = "POINT" <=> (\E k \in accepted : accepted = {k})

=============================================================================
