---------------------------------- MODULE Heap ----------------------------------
(***************************************************************************)
(* The C heap as the parser and the binder use it: malloc, calloc and      *)
(* free.  Blocks are numbered as they are allocated; a block that grows    *)
(* with realloc stays the same block.  Allocation does not fail here.      *)
(***************************************************************************)
EXTENDS Naturals, Sequences, FiniteSets

VARIABLE frees    \* how often each block has been freed

NULL == 0
Fresh == Len(frees) + 1

Allocate(n) == frees' = frees \o [i \in 1..n |-> 0]

\* free, called with each of `blocks` in turn; free(NULL) does nothing.
FreeAll(blocks) ==
  frees' = [b \in DOMAIN frees |-> frees[b] + Cardinality({i \in DOMAIN blocks : blocks[i] = b})]

NoneFreedTwice == \A b \in DOMAIN frees : frees[b] <= 1

=============================================================================
