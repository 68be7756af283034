---------------------------- MODULE ExpressionParser ----------------------------
(***************************************************************************)
(* The WHERE of a statement as parser.c reads it: recursive descent over   *)
(* OR, AND, NOT and primaries with one token of lookahead, a limit on how  *)
(* deeply NOTs and parentheses nest, and every heap block of the tree.     *)
(*                                                                         *)
(* A token is its type; the tokenizer gives the next one when advance asks *)
(* for it, so the line is any sequence of Tokens.  A call under way is a   *)
(* frame of a stack, and a comparison keeps the tokens it was read from.   *)
(***************************************************************************)
EXTENDS Heap, Integers, SequencesExt

CONSTANTS
  Tokens,      \* the types of token a line is made of, "END" among them
  WhereTokens, \* a bound: those that may follow a WHERE
  MaxTokens,   \* a bound: the longest line
  MaxDepth     \* MAX_EXPRESSION_DEPTH

ASSUME TokensAssumption == WhereTokens \subseteq Tokens /\ "END" \in WhereTokens
ASSUME MaxTokensAssumption == MaxTokens \in Nat
ASSUME MaxDepthAssumption == MaxDepth \in Nat

VARIABLES
  current,    \* the token of lookahead
  read,       \* the tokens before it
  error,      \* what was reported, NoError if nothing was
  frames,     \* the calls under way, the innermost last
  returned,   \* what the innermost call has just returned, Running if it works on
  nodes       \* the nodes of expressions: block -> contents

vars == <<current, read, error, frames, returned, nodes, frees>>
heap == <<nodes, frees>>

Running == -1
NoError == [what |-> "none", position |-> 0]

-----------------------------------------------------------------------------
\* Tokens

advance ==
  /\ read' = Append(read, current)
  /\ current' \in IF Len(read') = MaxTokens THEN {"END"}
                 ELSE IF Contains(read', "WHERE") THEN WhereTokens ELSE Tokens

Stay == UNCHANGED <<current, read>>

\* Only the first error is kept.
report(what) ==
  error' = IF error = NoError THEN [what |-> what, position |-> Len(read) + 1] ELSE error

-----------------------------------------------------------------------------
\* Trees on the heap

Put(id, node) == nodes' = [n \in DOMAIN nodes \cup {id} |-> IF n = id THEN node ELSE nodes[n]]

new_expr(kind) ==
  [kind |-> kind, text |-> <<>>, left |-> NULL, right |-> NULL,
   children |-> <<>>, array |-> NULL, capacity |-> 0]

\* A full list of children is doubled, from two; it stays one block here.
Grown(node, fresh) ==
  IF Len(node.children) < node.capacity THEN node
  ELSE [node EXCEPT !.capacity = IF @ = 0 THEN 2 ELSE 2 * @,
                    !.array = IF @ = NULL THEN fresh ELSE @]

add_child(node, child, fresh) == [Grown(node, fresh) EXCEPT !.children = Append(@, child)]

Concatenate(seqs) == FoldLeft(LAMBDA all, s : all \o s, <<>>, seqs)

\* The blocks free_expr frees, in its order.
free_expr(root) ==
  LET blocks[id \in DOMAIN nodes] ==
        <<nodes[id].left, nodes[id].right>>
          \o Concatenate([i \in DOMAIN nodes[id].children |-> blocks[nodes[id].children[i]]])
          \o <<nodes[id].array, id>>
  IN  IF root = NULL THEN <<>> ELSE blocks[root]

-----------------------------------------------------------------------------
\* Calls

Enter(proc, depth) == [proc |-> proc, depth |-> depth, at |-> "enter", node |-> NULL]
Top == frames[Len(frames)]
In(proc, at) == frames # <<>> /\ Top.proc = proc /\ Top.at = at /\ returned = Running
Back(proc, at) == frames # <<>> /\ Top.proc = proc /\ Top.at = at /\ returned # Running

GoTo(at) == frames' = [frames EXCEPT ![Len(frames)].at = at]
CallFrom(top, callee) == frames' = Append([frames EXCEPT ![Len(frames)] = top], callee)
Return(value) == frames' = Front(frames) /\ returned' = value

\* Mutant of Fail: the parser goes on past the token it refuses.
FailPast(blocks) ==
  /\ report("expected") /\ FreeAll(blocks) /\ Return(NULL)
  /\ advance /\ UNCHANGED nodes

\* Reporting what was expected and giving up, with what there is to free.
Fail(blocks) ==
  /\ report("expected") /\ FreeAll(blocks) /\ Return(NULL)
  /\ Stay /\ UNCHANGED nodes

RefuseNesting ==
  /\ report("nested") /\ Return(NULL)
  /\ Stay /\ UNCHANGED heap

-----------------------------------------------------------------------------
\* parse_or and parse_and: a chain of operands

Chains == {"or", "and"}
\* Mutant of Joiner: AND binds looser than OR.
SwappedJoiner(proc) == IF proc = "or" THEN "AND" ELSE "OR"
Joiner(proc) == IF proc = "or" THEN "OR" ELSE "AND"
Operand(proc) == IF proc = "or" THEN "and" ELSE "not"

CallFirst(proc) ==
  /\ In(proc, "enter")
  /\ CallFrom([Top EXCEPT !.at = "first"], Enter(Operand(proc), Top.depth))
  /\ Stay /\ UNCHANGED <<error, returned, heap>>

\* A single operand is returned as it is, and so is a failure.
ReturnFirst(proc) ==
  /\ Back(proc, "first")
  /\ returned = NULL \/ current # Joiner(proc)
  /\ Return(returned)
  /\ Stay /\ UNCHANGED <<error, heap>>

BeginChain(proc) ==
  /\ Back(proc, "first")
  /\ returned # NULL /\ current = Joiner(proc)
  /\ Put(Fresh, add_child(new_expr(Joiner(proc)), returned, Fresh + 1))
  /\ Allocate(2)
  /\ advance
  /\ CallFrom([Top EXCEPT !.at = "rest", !.node = Fresh], Enter(Operand(proc), Top.depth))
  /\ returned' = Running
  /\ UNCHANGED error

Extended == add_child(nodes[Top.node], returned, NULL)

ExtendChain(proc) ==
  /\ Back(proc, "rest")
  /\ returned # NULL /\ current = Joiner(proc)
  /\ Put(Top.node, Extended)
  /\ advance
  /\ CallFrom(Top, Enter(Operand(proc), Top.depth))
  /\ returned' = Running
  /\ UNCHANGED <<error, frees>>

EndChain(proc) ==
  /\ Back(proc, "rest")
  /\ returned # NULL /\ current # Joiner(proc)
  /\ Put(Top.node, Extended)
  /\ Return(Top.node)
  /\ Stay /\ UNCHANGED <<error, frees>>

\* Mutant of BreakChain: the operands already gathered are not freed.
KeepChain(proc) ==
  /\ Back(proc, "rest") /\ returned = NULL
  /\ Return(NULL)
  /\ Stay /\ UNCHANGED <<error, heap>>

BreakChain(proc) ==
  /\ Back(proc, "rest") /\ returned = NULL
  /\ FreeAll(free_expr(Top.node))
  /\ Return(NULL)
  /\ Stay /\ UNCHANGED <<error, nodes>>

-----------------------------------------------------------------------------
\* parse_not

CallPrimary ==
  /\ In("not", "enter") /\ current # "NOT"
  /\ CallFrom([Top EXCEPT !.at = "primary"], Enter("primary", Top.depth))
  /\ Stay /\ UNCHANGED <<error, returned, heap>>

\* Mutant of TooDeep: the limit itself is let through.
PastLimit(depth) == depth > MaxDepth

TooDeep(depth) == depth >= MaxDepth

RefuseNot ==
  /\ In("not", "enter") /\ current = "NOT" /\ TooDeep(Top.depth)
  /\ RefuseNesting

\* Mutant of CallNot: a NOT does not count as nesting.
CallNotLevel ==
  /\ In("not", "enter") /\ current = "NOT" /\ ~TooDeep(Top.depth)
  /\ advance
  /\ CallFrom([Top EXCEPT !.at = "operand"], Enter("not", Top.depth))
  /\ UNCHANGED <<error, returned, heap>>

CallNot ==
  /\ In("not", "enter") /\ current = "NOT" /\ ~TooDeep(Top.depth)
  /\ advance
  /\ CallFrom([Top EXCEPT !.at = "operand"], Enter("not", Top.depth + 1))
  /\ UNCHANGED <<error, returned, heap>>

PassOn ==
  /\ \/ Back("not", "primary")
     \/ Back("not", "operand") /\ returned = NULL
  /\ Return(returned)
  /\ Stay /\ UNCHANGED <<error, heap>>

Negate ==
  /\ Back("not", "operand") /\ returned # NULL
  /\ Put(Fresh, add_child(new_expr("NOT"), returned, Fresh + 1))
  /\ Allocate(2)
  /\ Return(Fresh)
  /\ Stay /\ UNCHANGED error

-----------------------------------------------------------------------------
\* parse_primary

RefuseParenthesis ==
  /\ In("primary", "enter") /\ current = "(" /\ TooDeep(Top.depth)
  /\ RefuseNesting

OpenParenthesis ==
  /\ In("primary", "enter") /\ current = "(" /\ ~TooDeep(Top.depth)
  /\ advance
  /\ CallFrom([Top EXCEPT !.at = "inner"], Enter("or", Top.depth + 1))
  /\ UNCHANGED <<error, returned, heap>>

PassOnFailure ==
  /\ Back("primary", "inner") /\ returned = NULL
  /\ Return(NULL)
  /\ Stay /\ UNCHANGED <<error, heap>>

CloseParenthesis ==
  /\ Back("primary", "inner") /\ returned # NULL /\ current = ")"
  /\ advance
  /\ Return(returned)
  /\ UNCHANGED <<error, heap>>

MissParenthesis ==
  /\ Back("primary", "inner") /\ returned # NULL /\ current # ")"
  /\ Fail(free_expr(returned))

BeginComparison ==
  /\ In("primary", "enter") /\ current # "("
  /\ Put(Fresh, new_expr("COMPARISON"))
  /\ Allocate(1)
  /\ frames' = [frames EXCEPT ![Len(frames)].at = "left", ![Len(frames)].node = Fresh]
  /\ Stay /\ UNCHANGED <<error, returned>>

\* Taking a token into the comparison.  An operand's name or literal text is a
\* block of its own; a minus belongs to the integer after it.
Sides == {"left", "right"}
AfterMinus(side) == IF side = "left" THEN "left-" ELSE "right-"
Take(node) == advance /\ Put(Top.node, [node EXCEPT !.text = Append(@, current)])

TakeOperand(side) ==
  /\ \/ In("primary", side) /\ current \in {"name", "integer", "string"}
     \/ In("primary", AfterMinus(side)) /\ current = "integer"
  /\ Take([nodes[Top.node] EXCEPT ![side] = Fresh])
  /\ Allocate(1)
  /\ IF side = "left" THEN GoTo("op") /\ UNCHANGED returned ELSE Return(Top.node)
  /\ UNCHANGED error

TakeMinus(side) ==
  /\ In("primary", side) /\ current = "-"
  /\ Take(nodes[Top.node])
  /\ GoTo(AfterMinus(side))
  /\ UNCHANGED <<error, returned, frees>>

TakeOperator ==
  /\ In("primary", "op") /\ current = "op"
  /\ Take(nodes[Top.node])
  /\ GoTo("right")
  /\ UNCHANGED <<error, returned, frees>>

Wanted(at) ==
  IF at \in Sides THEN {"name", "integer", "string", "-"}
  ELSE IF at = "op" THEN {"op"} ELSE {"integer"}

FailComparison ==
  /\ \E at \in {"left", "left-", "op", "right", "right-"} :
       In("primary", at) /\ current \notin Wanted(at)
  /\ Fail(free_expr(Top.node))

-----------------------------------------------------------------------------
Next ==
  \/ \E proc \in Chains :
       \/ CallFirst(proc) \/ ReturnFirst(proc) \/ BeginChain(proc)
       \/ ExtendChain(proc) \/ EndChain(proc) \/ BreakChain(proc)
  \/ CallPrimary \/ RefuseNot \/ CallNot \/ PassOn \/ Negate
  \/ RefuseParenthesis \/ OpenParenthesis \/ PassOnFailure \/ CloseParenthesis \/ MissParenthesis
  \/ BeginComparison \/ TakeOperator \/ FailComparison
  \/ \E side \in Sides : TakeOperand(side) \/ TakeMinus(side)

=============================================================================
