--------------------------- MODULE MCLeafInsertion ---------------------------
(* Every ascending node over a small set of keys, the empty one included.   *)
EXTENDS LeafInsertion

CONSTANT MaxKey    \* the largest key used

MCNodes ==
  LET upTo[k \in 0..MaxKey] ==
        IF k = 0 THEN {<<>>} ELSE upTo[k - 1] \cup {Append(node, k) : node \in upTo[k - 1]}
  IN  upTo[MaxKey]

=============================================================================
