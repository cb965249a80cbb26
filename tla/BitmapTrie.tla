----------------------------- MODULE BitmapTrie -----------------------------
(***************************************************************************)
(* The operations on one multi-bit trie (lib/bitmap_v4.c, and by the same  *)
(* text lib/bitmap_v6.c), as operators on the value of the trie.           *)
(*                                                                         *)
(* A node consumes STRIDE bits of the address, so a node is named by the   *)
(* bits that lead to it: the root by <<>>, the others by sequences whose   *)
(* length is a multiple of STRIDE.  A trie is a record of                  *)
(*   inl   the rules: a bit of `internal' in the node NodeOf(p) for every  *)
(*         p in DOMAIN inl, and its next hop in that node's block;         *)
(*   enl   the nodes below the root: for each, a bit of `external' in the  *)
(*         node one stride above it.                                       *)
(* The memory blocks that hold next hops and child nodes are the subject   *)
(* of module MbNode.                                                       *)
(***************************************************************************)
EXTENDS Prefixes, NodeBits

IsTrie(t) ==
  /\ t = [inl |-> t.inl, enl |-> t.enl]
  /\ IsTable(t.inl)
  /\ t.enl \subseteq Prefix

\* A node with no rule and no child.
EmptyTrie == [inl |-> EmptyTable, enl |-> {}]

\* Mutant: the walk goes on until no bit is left, padding the last with zeros.
BranchToLastBit(p) ==
  {[k \in 1 .. m |-> IF k <= Len(p) THEN p[k] ELSE 0] :
     m \in {k \in 1 .. Len(p) + STRIDE - 1 : k % STRIDE = 0}}

\* The node that holds the rule p, and the nodes below the root on its path.
NodeOf(p) == Take(p, Len(p) - (Len(p) % STRIDE))

Branch(p) == {Take(p, m) : m \in {k \in 1 .. Len(p) : k % STRIDE = 0}}

\* The walk that follows the bits of a gets to the node that holds rules of
\* length n.
Reached(t, a, n) == \A m \in 1 .. n : m % STRIDE = 0 => Take(a, m) \in t.enl

\* The rules a lookup of a meets on its way down, by length.
RulesMet(t, a) == {n \in MatchLengths(t.inl, a) : Reached(t, a, n)}

-----------------------------------------------------------------------------
\* bitmap_do_search: the last rule found while descending.
Search(t, a) == NextHopAt(t.inl, a, RulesMet(t, a))

\* bitmap_prefix_exist
PrefixExist(t, p) == Reached(t, p, Len(p)) /\ p \in DOMAIN t.inl

\* bitmap_detect_overlap_generic: the longest rule that covers p and is
\* strictly shorter than both p and bits_limit.  A zero mask says there is
\* none, and then nhi_over keeps the caller's value, NULL.
SmallerOf(a, b) == IF a > b THEN b ELSE a

\* Mutant: the limit itself is allowed, and with it p.
OverlapLengthsUpToLimit(t, p, bits_limit) ==
  {n \in RulesMet(t, p) : n <= SmallerOf(Len(p), bits_limit)}

OverlapLengths(t, p, bits_limit) ==
  {n \in RulesMet(t, p) : n < SmallerOf(Len(p), bits_limit)}

DetectOverlap(t, p, bits_limit) ==
  LET lens == OverlapLengths(t, p, bits_limit) \ {0}
  IN  [mask |-> IF lens = {} THEN 0 ELSE Max(lens),
       nhi  |-> NextHopAt(t.inl, p, lens)]

\* bitmap_insert_prefix: extend_child for every node missing on the way, then
\* extend_rule, or the next hop replaced where the rule already exists.
InsertPrefix(t, p, nhi) ==
  [inl |-> Put(t.inl, p, nhi), enl |-> t.enl \cup Branch(p)]

-----------------------------------------------------------------------------
(***************************************************************************)
(* bitmap_delete_prefix walks down to the rule, recording the nodes it     *)
(* passes, and update_nodes comes back up: reduce_rule at the last node,   *)
(* then reduce_child at each node whose child on the path has just become  *)
(* empty, as long as each node empties in turn.                            *)
(***************************************************************************)

\* What is left in the node of p at depth m once the rule p is gone, and the
\* child on the path to p with it.
RulesLeft(t, p, m) ==
  {q \in DOMAIN t.inl \ {p} : NodeOf(q) = Take(p, m)}
ChildrenLeft(t, p, m) ==
  {c \in t.enl : /\ Len(c) = m + STRIDE
                 /\ Covers(Take(p, m), c)
                 /\ ~ Covers(c, p)}

Emptied(t, p, m) == RulesLeft(t, p, m) = {} /\ ChildrenLeft(t, p, m) = {}

\* Mutant: an emptied node does not empty the one above it.
NeedToDelLastOnly(t, p) ==
  {m \in {Len(p) - (Len(p) % STRIDE)} : Emptied(t, p, m)}

\* The depths on the path to p where node_need_to_del ends up set.
NeedToDel(t, p) ==
  {m \in 0 .. Len(p) :
     /\ m % STRIDE = 0
     /\ \A k \in m .. Len(p) : k % STRIDE = 0 => Emptied(t, p, k)}

\* update_nodes: children are unlinked bottom-up; the root stays, and 1 is
\* returned when it is empty.
DeletePrefix(t, p) ==
  [trie  |-> [inl |-> Remove(t.inl, p),
              enl |-> t.enl \ {Take(p, m) : m \in NeedToDel(t, p) \ {0}}],
   empty |-> 0 \in NeedToDel(t, p)]

=============================================================================
