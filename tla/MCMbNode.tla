------------------------------ MODULE MCMbNode ------------------------------
(***************************************************************************)
(* A small instance of MbNode for TLC.                                     *)
(***************************************************************************)
EXTENDS MbNode, TLC

CONSTANTS
  MaxRules,      \* bounds on the bits that are set at a time
  MaxChildren,
  MaxUncounted   \* bound on the nodes the statistics may be off by

\* State constraint.  One more rule than fit one unit, and children enough for
\* one to be added or removed between two others.
SmallNode ==
  /\ Cardinality(internal) <= MaxRules
  /\ Cardinality(external) <= MaxChildren
  /\ ms_node - UnitsInUse <= MaxUncounted

BlockSymmetry == Permutations(Block) \cup Permutations(NHI)

=============================================================================
