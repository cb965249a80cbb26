------------------------------- MODULE MbNode -------------------------------
(***************************************************************************)
(* One multi-bit node and the memory block it owns (lib/mb_node.c).        *)
(*                                                                         *)
(* Every change of a bitmap moves the rest of the block (NodeBlock) to a   *)
(* new one, and the old one goes back to the allocator with a size that is *)
(* computed from the bitmaps once more.                                    *)
(*                                                                         *)
(* `rules' and `kids' are not in the code: they are the next hop that was  *)
(* last stored for a bit of internal, and the state that the child of a    *)
(* bit of external was last left in.                                       *)
(***************************************************************************)
EXTENDS NodeBlock

CONSTANTS
  BITMAP_BITS,    \* bits of a bitmap: 64
  NHI,            \* next hop pointers
  Kid,            \* the states a child node can be in
  Block           \* names of the blocks the allocator hands out

ASSUME BitmapAssumption == BITMAP_BITS \in Nat \ {0}
ASSUME NullAssumption == NULL \notin NHI /\ NULL \notin Block
ASSUME KidAssumption == EmptyKid \in Kid

VARIABLES
  internal,   \* node->internal: the bits that have a rule
  external,   \* node->external: the bits that have a child
  child_ptr,  \* the block node->child_ptr points into, or NULL
  heap,       \* the blocks in use: their size in nodes, the part of it below
              \* the pointer new_node returns, and what the block holds
  ms_node,    \* mm.ms.node: nodes in use, as the statistics have it
  rules,      \* the next hop stored for each bit of internal
  kids        \* the state of the child of each bit of external

vars == <<internal, external, child_ptr, heap, ms_node, rules, kids>>
node == <<internal, external, child_ptr>>

InlPos == 0 .. BITMAP_BITS - 2      \* count_inl_bitmap: (1 << cidr) + bit - 1
EnlPos == 0 .. BITMAP_BITS - 1      \* count_enl_bitmap

-----------------------------------------------------------------------------
IsBlock(b) ==
  /\ b = [units |-> b.units, low |-> b.low, rule |-> b.rule, kid |-> b.kid]
  /\ b.units \in Nat
  /\ b.low \in Nat
  /\ b.rule \in [1 .. NODE_WORDS * b.low -> NHI \cup {NULL}]
  /\ b.kid \in [0 .. b.units - b.low - 1 -> Kid]

TypeOK ==
  /\ internal \in SUBSET InlPos
  /\ external \in SUBSET EnlPos
  /\ child_ptr \in Block \cup {NULL}
  /\ heap = [b \in DOMAIN heap |-> heap[b]]
  /\ DOMAIN heap \subseteq Block
  /\ \A b \in DOMAIN heap : IsBlock(heap[b])
  /\ ms_node \in Nat
  /\ rules \in [internal -> NHI]
  /\ kids \in [external -> Kid]

-----------------------------------------------------------------------------
\* pointer_to_nhi and next_child, as indices into the block.
NhiIndex(pos) == CountOnes(internal, pos) + 1
KidIndex(pos) == CountOnes(external, pos)

block == heap[child_ptr]

\* free_node of the block that starts old_low nodes below child_ptr.  Where that
\* is no start of a block, free is undefined: the block stays in use.
Freed(old_low) ==
  {b \in DOMAIN heap : b = child_ptr /\ heap[b].low = old_low}

\* Mutant: the old block is counted with the size of the new one.
ReplaceFreeingNewSize(n, old_low, old_units) ==
  \E b \in Block \ DOMAIN heap :
    /\ child_ptr' = b
    /\ heap' = [c \in (DOMAIN heap \ Freed(old_low)) \cup {b} |->
                  IF c = b THEN n ELSE heap[c]]
    /\ ms_node' = ms_node + n.units - (IF child_ptr = NULL THEN 0 ELSE n.units)

\* Mutant: the old block is kept.
ReplaceWithoutFree(n, old_low, old_units) ==
  \E b \in Block \ DOMAIN heap :
    /\ child_ptr' = b
    /\ heap' = [c \in DOMAIN heap \cup {b} |-> IF c = b THEN n ELSE heap[c]]
    /\ ms_node' = ms_node + n.units

\* The node is given the block n under a fresh name, and the old one is freed
\* with the size old_units.
Replace(n, old_low, old_units) ==
  \E b \in Block \ DOMAIN heap :
    /\ child_ptr' = b
    /\ heap' = [c \in (DOMAIN heap \ Freed(old_low)) \cup {b} |->
                  IF c = b THEN n ELSE heap[c]]
    /\ ms_node' = ms_node + n.units - (IF child_ptr = NULL THEN 0 ELSE old_units)

Init ==
  /\ internal = {}
  /\ external = {}
  /\ child_ptr = NULL
  /\ heap = [b \in {} |-> NewBlock(0, 0)]
  /\ ms_node = 0
  /\ rules = [pos \in {} |-> NULL]
  /\ kids = [pos \in {} |-> EmptyKid]

-----------------------------------------------------------------------------
\* extend_rule: called where test_bitmap says the rule is not there yet.
ExtendRule(pos, nhi) ==
  LET child_num == Cardinality(external)
      rule_num  == Cardinality(internal)
      n         == NewBlock(child_num, rule_num + 1)
      new_pos   == CountOnes(internal \cup {pos}, pos) + 1
  IN  /\ pos \notin internal
      /\ internal' = internal \cup {pos}
      /\ Replace(RulesWith(SameKids(n, block), block, rule_num, new_pos, nhi),
                 UP_RULE(rule_num), UnitsOf(child_num, rule_num))
      /\ rules' = [k \in internal' |-> IF k = pos THEN nhi ELSE rules[k]]
      /\ UNCHANGED <<external, kids>>

\* The rule exists: the word pointer_to_nhi finds is overwritten.
UpdateRule(pos, nhi) ==
  /\ pos \in internal
  /\ heap' = [heap EXCEPT ![child_ptr].rule[NhiIndex(pos)] = nhi]
  /\ rules' = [rules EXCEPT ![pos] = nhi]
  /\ UNCHANGED <<node, ms_node, kids>>

\* extend_child: returns the new child, which is zero.
ExtendChild(pos) ==
  LET child_num == Cardinality(external)
      rule_num  == Cardinality(internal)
      n         == NewBlock(child_num + 1, rule_num)
      new_pos   == CountOnes(external \cup {pos}, pos)
  IN  /\ pos \notin external
      /\ external' = external \cup {pos}
      /\ Replace(KidsWith(SameRules(n, block, rule_num), block, new_pos),
                 UP_RULE(rule_num), UnitsOf(child_num, rule_num))
      /\ kids' = [k \in external' |-> IF k = pos THEN EmptyKid ELSE kids[k]]
      /\ UNCHANGED <<internal, rules>>

\* An operation further down changes the child that next_child finds.
ChangeChild(pos, kid) ==
  /\ pos \in external
  /\ heap' = [heap EXCEPT ![child_ptr].kid[KidIndex(pos)] = kid]
  /\ kids' = [kids EXCEPT ![pos] = kid]
  /\ UNCHANGED <<node, ms_node, rules>>

\* reduce_rule: update_nodes takes a rule away that was there.
ReduceRule(pos) ==
  LET child_num == Cardinality(external)
      rule_num  == Cardinality(internal)
      n         == NewBlock(child_num, rule_num - 1)
  IN  /\ pos \in internal
      /\ internal' = internal \ {pos}
      /\ Replace(RulesWithout(SameKids(n, block), block, rule_num, NhiIndex(pos)),
                 UP_RULE(rule_num), UnitsOf(child_num, rule_num))
      /\ rules' = [k \in internal' |-> rules[k]]
      /\ UNCHANGED <<external, kids>>

\* reduce_child: update_nodes takes a child away that has emptied.
ReduceChild(pos) ==
  LET child_num == Cardinality(external)
      rule_num  == Cardinality(internal)
      n         == NewBlock(child_num - 1, rule_num)
  IN  /\ pos \in external
      /\ kids[pos] = EmptyKid
      /\ external' = external \ {pos}
      /\ Replace(KidsWithout(SameRules(n, block, rule_num), block, KidIndex(pos)),
                 UP_RULE(rule_num), UnitsOf(child_num, rule_num))
      /\ kids' = [k \in external' |-> kids[k]]
      /\ UNCHANGED <<internal, rules>>

\* destroy_subtrie, after it has destroyed the children: the bitmaps are zeroed
\* before count_children(node->external) is taken for the size, which is 0.
DestroySubtrie ==
  LET cnt_rules    == Cardinality(internal)
      cnt_children == Cardinality(external')
  IN  /\ internal' = {}
      /\ external' = {}
      /\ child_ptr' = NULL
      /\ heap' = [b \in DOMAIN heap \ Freed(UP_RULE(cnt_rules)) |-> heap[b]]
      /\ ms_node' = ms_node - (IF child_ptr = NULL THEN 0
                               ELSE UnitsOf(cnt_children, cnt_rules))
      /\ rules' = [pos \in {} |-> NULL]
      /\ kids' = [pos \in {} |-> EmptyKid]

Next ==
  \/ \E pos \in InlPos, nhi \in NHI : ExtendRule(pos, nhi)
  \/ \E pos \in InlPos, nhi \in NHI : UpdateRule(pos, nhi)
  \/ \E pos \in EnlPos : ExtendChild(pos)
  \/ \E pos \in EnlPos, kid \in Kid : ChangeChild(pos, kid)
  \/ \E pos \in InlPos : ReduceRule(pos)
  \/ \E pos \in EnlPos : ReduceChild(pos)
  \/ DestroySubtrie

Spec == Init /\ [][Next]_vars

-----------------------------------------------------------------------------
\* pointer_to_nhi gives every rule the next hop that was stored for it, and
\* next_child every child as it was left, however often the block was rebuilt
\* around them.
RulesInPlace ==
  \A pos \in internal : block.rule[NhiIndex(pos)] = rules[pos]

KidsInPlace ==
  \A pos \in external : block.kid[KidIndex(pos)] = kids[pos]

\* The block of the node is the only one in use: every rebuild frees the block
\* it replaces, and a node without a block has neither rules nor children.  The
\* bitmaps tell its shape: where it starts and how large it is follows from the
\* numbers of their bits, so that the next free_node is given the address and
\* the size new_node was.
BlockFitsBitmaps ==
  /\ DOMAIN heap = {child_ptr} \ {NULL}
  /\ child_ptr = NULL => internal = {} /\ external = {}
  /\ child_ptr # NULL =>
       /\ block.low = UP_RULE(Cardinality(internal))
       /\ block.units = UnitsOf(Cardinality(external), Cardinality(internal))

UnitsInUse == IF child_ptr = NULL THEN 0 ELSE block.units

\* Only destroy_subtrie may change the statistics by another amount than the
\* memory in use changes by.
RebuildKeepsCount ==
  [][child_ptr' # NULL =>
       ms_node' - ms_node = UnitsInUse' - UnitsInUse]_vars

\* "Total nodes" of mm_profile (lib/mm.c:108, which lib/test.c:596 prints after
\* a trie is destroyed) is the memory in use.
TotalNodesIsInUse == ms_node = UnitsInUse

=============================================================================
