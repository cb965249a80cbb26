----------------------------- MODULE MCMmColor -----------------------------
(***************************************************************************)
(* A small instance of MmColor for TLC.                                    *)
(***************************************************************************)
EXTENDS MmColor

CONSTANTS
  MaxAreas,    \* bound on the areas of all shares
  MaxUsed,     \* bounds on the blocks before the first of them is freed,
  MaxBlocks    \* and on those in use and freed afterwards

\* Shares of one, two and one page.
SmallPages == [s \in Share |-> IF s = 1 THEN 2 ELSE 1]

Areas == Len(lm[0]) + Len(lm[1]) + Len(lm[2])
Freed == Cardinality(UNION {FreedBlocks(s) : s \in Share})

\* State constraint.  Enough blocks to fill two areas of the large share, so
\* that the third is placed in the next huge page with its colours shifted.
FewBlocks ==
  /\ Areas <= MaxAreas
  /\ Cardinality(used) + Freed <= IF Freed = 0 THEN MaxUsed ELSE MaxBlocks

=============================================================================
