------------------------------ MODULE NodeBits ------------------------------
(***************************************************************************)
(* The bits of a node's bitmaps: how many of the address it consumes, and  *)
(* which bit of `internal' a rule has.                                     *)
(***************************************************************************)
EXTENDS Powers

CONSTANT STRIDE      \* bits consumed by one node: 6

ASSUME StrideAssumption == STRIDE \in Nat \ {0}

\* Mutant: positions count from 1.
count_inl_bitmap_from_1(bit, cidr) == Pow2[cidr] + bit

\* The bit of the rule whose cidr leading bits have the value `bit'.
count_inl_bitmap(bit, cidr) == Pow2[cidr] + bit - 1

=============================================================================
