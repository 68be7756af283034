---------------------------- MODULE MixedBuilds ----------------------------
(***************************************************************************)
(* One database file opened in turn by builds that differ in their cap on  *)
(* an internal node's keys.  btree.c: the cap's only use "is comparing     *)
(* trees built at the production fanout with trees built at the test's:    *)
(* both builds read and write the same file format".                       *)
(***************************************************************************)
EXTENDS MCDeepTree

\* .exit, and another build opens the file and runs statements on it.
SwitchBuild ==
  /\ Idle
  /\ max_keys' \in Builds \ {max_keys}
  /\ UNCHANGED <<pages, free_head, roots, stack, reply>>

MixedSpec ==
  /\ MCInit /\ max_keys = Max(Builds)
  /\ [][Next \/ SwitchBuild]_vars

\* internal_node_split_and_insert's comment says of the half the child goes
\* into: "Neither half is full after the split, so that insert never splits
\* again".  It is said of nodes "filled by a build with a larger cap" too.
HalvesHaveRoom ==
  Pending("internal_node_insert") /\ Len(stack) > 1 /\ stack[2].fn = "attach_sibling" =>
    Len(pages[Top.page].keys) < max_keys

=============================================================================
