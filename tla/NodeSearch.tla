----------------------------- MODULE NodeSearch -----------------------------
(***************************************************************************)
(* The search inside one node: which rule of `internal' matches the next   *)
(* STRIDE bits of an address (lib/mb_node.c:334-407).                      *)
(*                                                                         *)
(* The rule of cidr leading bits whose value is `bit' has the bit          *)
(* (1 << cidr) + bit - 1 of internal, so that longer rules have higher     *)
(* bits.  Two builds of tree_function find the longest match: the loop     *)
(* tries the lengths from the longest on, the fast one intersects internal *)
(* with a mask of all rules that match, made at start-up, and takes the    *)
(* highest bit.  It finds that with __builtin_clzll, which counts from bit *)
(* 63 on whatever BITMAP_BITS is (lib/mb_node.c:361-362): the fast build   *)
(* is modelled for bitmaps of 64 bits, the STRIDE of 6.  With the 32 bits  *)
(* of the other STRIDE in lib/mb_node.h its result would be negative.      *)
(***************************************************************************)
EXTENDS NodeBits, FiniteSetsExt

VARIABLE internal     \* node->internal: the set of its bits

\* The values of STRIDE bits, and a value shifted right.
Stride == 0 .. Pow2[STRIDE] - 1
ShiftRight(stride, n) == stride \div Pow2[n]

\* The rules of a node: their length and their leading bits.
Rule == UNION {[cidr : {c}, bit : 0 .. Pow2[c] - 1] : c \in 0 .. STRIDE - 1}
PosOf(rule) == count_inl_bitmap(rule.bit, rule.cidr)

TypeOK == internal \subseteq 0 .. Pow2[STRIDE] - 2

Init == internal = {}

\* update_inl_bitmap and clear_bitmap.
AddRule(rule) == internal' = internal \cup {PosOf(rule)}
DropRule(rule) == PosOf(rule) \in internal /\ internal' = internal \ {PosOf(rule)}

Next == \E rule \in Rule : AddRule(rule) \/ DropRule(rule)

Spec == Init /\ [][Next]_internal

-----------------------------------------------------------------------------
\* tree_function without FAST_TREE_FUNCTION: stride has been shifted
\* STRIDE - i times when length i is tried.
TreeFunctionLoop(bitmap, stride) ==
  LET PosAt(i) == count_inl_bitmap(ShiftRight(stride, STRIDE - i), i)
      found    == {i \in 0 .. STRIDE - 1 : PosAt(i) \in bitmap}
  IN  IF found = {} THEN -1 ELSE PosAt(Max(found))

\* Mutant: the rule of length 0 is forgotten.
fct_without_default ==
  [i \in 0 .. Pow2[STRIDE - 1] - 1 |->
     {count_inl_bitmap(ShiftRight(i, STRIDE - 1 - j), j) :
        j \in 1 .. STRIDE - 1}]

\* fast_lookup_init: for the STRIDE - 1 leading bits of a stride, the bits of
\* every rule that matches.
fct == [i \in 0 .. Pow2[STRIDE - 1] - 1 |->
          {count_inl_bitmap(ShiftRight(i, STRIDE - 1 - j), j) :
             j \in 0 .. STRIDE - 1}]

\* tree_function with FAST_TREE_FUNCTION: BITMAP_BITS - 1 - clz is the highest
\* bit, when bitmaps are as wide as what __builtin_clzll counts in.
TreeFunctionFast(bitmap, stride) ==
  LET ret == fct[ShiftRight(stride, 1)] \cap bitmap
  IN  IF ret = {} THEN -1 ELSE Max(ret)

\* Mutant: the bits after the limit are not shifted out.
FindOverlapUnshifted(bitmap, stride, limit_inside) ==
  LET PosAt(i) == count_inl_bitmap(ShiftRight(stride, limit_inside - i), i)
      found    == {i \in 0 .. limit_inside - 1 : PosAt(i) \in bitmap}
  IN  IF found = {} THEN [pos |-> -1, mask |-> 0]
      ELSE [pos |-> PosAt(Max(found)), mask |-> Max(found)]

\* find_overlap_in_node: the longest rule of less than limit_inside bits; mask
\* gets its length.
FindOverlapInNode(bitmap, stride, limit_inside) ==
  LET start    == ShiftRight(stride, STRIDE - limit_inside)
      PosAt(i) == count_inl_bitmap(ShiftRight(start, limit_inside - i), i)
      found    == {i \in 0 .. limit_inside - 1 : PosAt(i) \in bitmap}
  IN  IF found = {} THEN [pos |-> -1, mask |-> 0]
      ELSE [pos |-> PosAt(Max(found)), mask |-> Max(found)]

-----------------------------------------------------------------------------
\* The reference: a rule matches when its bits are the leading bits of the
\* stride, compared one by one; rules are told apart by their position only.
BitAt(value, width, k) == (value \div Pow2[width - k]) % 2

Matches(rule, stride) ==
  \A k \in 1 .. rule.cidr :
    BitAt(rule.bit, rule.cidr, k) = BitAt(stride, STRIDE, k)

RulesSet == {rule \in Rule : PosOf(rule) \in internal}

IsLongest(pos, stride, limit) ==
  LET matching == {r \in RulesSet : r.cidr < limit /\ Matches(r, stride)}
  IN  \/ pos = -1 /\ matching = {}
      \/ \E r \in matching :
           /\ pos = PosOf(r)
           /\ \A q \in matching : q.cidr <= r.cidr

\* Both builds of tree_function find the longest rule that matches: no two rules
\* share a bit, and no rule of another value is taken for a match.
TreeFunctionIsLongestMatch ==
  \A stride \in Stride :
    /\ IsLongest(TreeFunctionLoop(internal, stride), stride, STRIDE)
    /\ IsLongest(TreeFunctionFast(internal, stride), stride, STRIDE)

\* find_overlap_in_node finds the longest rule below the limit and its length,
\* whatever the bits after the limit are.
OverlapInNodeIsLongest ==
  \A stride \in Stride, limit \in 1 .. STRIDE :
    LET found == FindOverlapInNode(internal, stride, limit)
    IN  /\ IsLongest(found.pos, stride, limit)
        /\ found.pos # -1 =>
             \E r \in RulesSet : r.cidr = found.mask /\ PosOf(r) = found.pos

=============================================================================
