----------------------------- MODULE MCTrieHeap -----------------------------
(***************************************************************************)
(* A small instance of TrieHeap for TLC.                                   *)
(***************************************************************************)
EXTENDS TrieHeap, TLC

CONSTANTS
  MaxLost,       \* bound on the empty blocks that are lost
  MaxUncounted   \* bound on the nodes the statistics are off by

\* Two rules in the root and two in a node below it, which together need one
\* unit more than each alone; a node under that one and a sibling beside it, so
\* that children are moved, and unlinked one and two at a time.
TreeInputs == {<<0>>, <<0,0>>, <<0,0,1>>, <<0,0,1,1>>, <<1,0>>}

\* State constraint.
FewLeftovers ==
  /\ LET reachable == Reachable
     IN  Cardinality({b \in DOMAIN heap : Owners(b, reachable) = {}}) <= MaxLost
  /\ \A lvl \in Level : Uncounted[lvl] <= MaxUncounted

NhiSymmetry == Permutations(NHI)

=============================================================================
