------------------------------ MODULE TrieHeap ------------------------------
(***************************************************************************)
(* A whole trie in memory: the root, which its owner holds, and below it   *)
(* nodes that lie in the block of the node above them (NodeBlock).  The    *)
(* updates of lib/bitmap_v4.c, update_nodes and destroy_subtrie run one    *)
(* turn of their loops at a time.                                          *)
(*                                                                         *)
(* Between two turns they keep pointers to nodes: `node' while they walk   *)
(* down, trace_node for the way back up, the frames of the recursion.      *)
(* Every turn may rebuild a block and so move the nodes that lie in it.    *)
(*                                                                         *)
(* A pointer to a node is <<>> for the root, else the block the node lies  *)
(* in and its index there.  Which free block the allocator hands out does  *)
(* not matter to the code: a block is named here by the path of the node   *)
(* it was allocated for and a number, the lowest that is not in use.       *)
(***************************************************************************)
EXTENDS BitmapTrie

CONSTANTS
  NODE_WORDS,     \* NODE_SIZE / sizeof(void *): 3
  Copies,         \* the numbers that tell blocks of one path apart
  Inputs          \* the prefixes callers insert

ASSUME HeapWordsAssumption == NODE_WORDS \in Nat \ {0}
ASSUME CopiesAssumption == Copies \subseteq Nat
ASSUME HeapInputsAssumption == Inputs \subseteq Prefix

\* A node calloc has made.
ZeroNode == [internal |-> {}, external |-> {}, child_ptr |-> NULL]

INSTANCE NodeBlock WITH EmptyKid <- ZeroNode

VARIABLES
  root,      \* the root node
  heap,      \* the blocks in use
  lnode,     \* mm.ms.lnode: nodes in use per level, as the statistics have it
  op,        \* the allocator mm_init has found: "simple" or "color"
  pc,        \* the operation that runs: "idle", "insert", "delete" (on its
             \* way down), "update" (update_nodes) or "destroy"
  arg,       \* its prefix
  nhi,       \* its next hop
  node,      \* the node it has got to
  level,     \* and the number of nodes above that
  trace,     \* trace_node: the nodes on the way, with a bit of each
  i,         \* the turn of update_nodes, an index of trace_node
  node_need_to_del,
  stack,     \* destroy_subtrie: the nodes it is called for, with its `stride'
  before     \* the trie when the operation began: not in the code

vars == <<root, heap, lnode, op, pc, arg, nhi, node, level, trace, i,
          node_need_to_del, stack, before>>
memory == <<root, heap, lnode>>
walk == <<arg, nhi, node, level, trace, i, node_need_to_del, stack>>

NodePath == {b \in Prefix : Len(b) % STRIDE = 0}
Block == NodePath \X Copies

Level == 0 .. LENGTH \div STRIDE
Root == <<>>
Pointer == {Root} \cup (Block \X (0 .. Pow2[STRIDE] - 1))

ASSUME NullPointerAssumption == NULL \notin Block

InlPos == 0 .. Pow2[STRIDE] - 2
EnlPos == 0 .. Pow2[STRIDE] - 1
Node == [internal : SUBSET InlPos, external : SUBSET EnlPos,
         child_ptr : Block \cup {NULL}]

\* count_inl_bitmap and count_enl_bitmap, on the bits of a stride.
PosOfRule(b) == count_inl_bitmap(Value(b), Len(b))
PosOfChild(b) == Value(b)

-----------------------------------------------------------------------------
\* *p, and next_child(*p, pos).
At(p) == IF p = Root THEN root ELSE heap[p[1]].kid[p[2]]

next_child(n, pos) == <<n.child_ptr, CountOnes(n.external, pos)>>

child_num(n) == Cardinality(n.external)
rule_num(n) == Cardinality(n.internal)

\* The node with no rule and no child.
IsEmpty(n) == n.internal = {} /\ n.external = {}

\* *p = n, where the blocks in use are h.
Store(p, n, h) ==
  IF p = Root THEN root' = n /\ heap' = h
  ELSE /\ heap' = [h EXCEPT ![p[1]].kid[p[2]] = n]
       /\ UNCHANGED root

\* The path to the node at a level of the walk.
PathAt(lvl) == Take(arg, lvl * STRIDE)

\* The names that are left for a block: Copies is the bound on them.
Unused(lvl) == {k \in Copies : <<PathAt(lvl), k>> \notin DOMAIN heap}

\* alloc_node: calloc(0) returns a block too, mc_alloc_node returns NULL.
Allocated(units, lvl) ==
  IF op = "color" /\ units = 0 THEN NULL ELSE <<PathAt(lvl), Min(Unused(lvl))>>

\* free_node of the block that starts low nodes below child_ptr: nothing else
\* is a block to the allocator.
Freed(n, low) ==
  {b \in DOMAIN heap : b = n.child_ptr /\ heap[b].low = low}

\* What a rebuild of *p copies from, and nothing where there is no block.
BlockOf(n) == IF n.child_ptr = NULL THEN NewBlock(0, 0) ELSE heap[n.child_ptr]

\* new_node, the old block of *p freed with the sizes its bitmaps had, and the
\* bitmaps and the pointer of n stored.
Rebuild(p, n, new, lvl) ==
  LET b    == Allocated(new.units, lvl)
      old  == At(p)
      kept == DOMAIN heap \ Freed(old, UP_RULE(rule_num(old)))
  IN  /\ Unused(lvl) # {}
      /\ Store(p, [n EXCEPT !.child_ptr = b],
               [c \in kept \cup ({b} \ {NULL}) |-> IF c = b THEN new ELSE heap[c]])
      /\ lnode' = [lnode EXCEPT ![lvl] = @ + new.units -
                     (IF old.child_ptr = NULL THEN 0
                      ELSE UnitsOf(child_num(old), rule_num(old)))]

extend_rule(p, pos, lvl) ==
  LET old == At(p)
      n   == [old EXCEPT !.internal = @ \cup {pos}]
      new == SameKids(NewBlock(child_num(old), rule_num(old) + 1), BlockOf(old))
  IN  Rebuild(p, n, RulesWith(new, BlockOf(old), rule_num(old),
                              CountOnes(n.internal, pos) + 1, nhi), lvl)

extend_child(p, pos, lvl) ==
  LET old == At(p)
      n   == [old EXCEPT !.external = @ \cup {pos}]
      new == SameRules(NewBlock(child_num(old) + 1, rule_num(old)),
                       BlockOf(old), rule_num(old))
  IN  Rebuild(p, n, KidsWith(new, BlockOf(old), CountOnes(n.external, pos)), lvl)

\* What extend_child returns: the new child, in the new block.
extended_child(p, pos, lvl) ==
  LET n == At(p)
  IN  <<Allocated(UnitsOf(child_num(n) + 1, rule_num(n)), lvl),
        CountOnes(n.external \cup {pos}, pos)>>

reduce_rule(p, pos, lvl) ==
  LET old == At(p)
      n   == [old EXCEPT !.internal = @ \ {pos}]
      new == SameKids(NewBlock(child_num(old), rule_num(old) - 1), BlockOf(old))
  IN  Rebuild(p, n, RulesWithout(new, BlockOf(old), rule_num(old),
                                 CountOnes(old.internal, pos) + 1), lvl)

reduce_child(p, pos, lvl) ==
  LET old == At(p)
      n   == [old EXCEPT !.external = @ \ {pos}]
      new == SameRules(NewBlock(child_num(old) - 1, rule_num(old)),
                       BlockOf(old), rule_num(old))
  IN  Rebuild(p, n, KidsWithout(new, BlockOf(old), CountOnes(old.external, pos)),
              lvl)

-----------------------------------------------------------------------------
\* The bits of a stride that a position stands for.
InlBits == [pos \in InlPos |->
  CHOOSE b \in UNION {BitStrings(k) : k \in 0 .. STRIDE - 1} : PosOfRule(b) = pos]
EnlBits == [pos \in EnlPos |-> BitsOf(pos, STRIDE)]

\* The nodes that can be reached from the root, one level after the other: for
\* each path its pointer.
ChildrenOf(x) ==
  {[path |-> x.path \o EnlBits[pos], ptr |-> next_child(At(x.ptr), pos)] :
     pos \in At(x.ptr).external}

NodesAt[lvl \in Level] ==
  IF lvl = 0 THEN {[path |-> <<>>, ptr |-> Root]}
  ELSE UNION {ChildrenOf(x) : x \in NodesAt[lvl - 1]}

Reachable == UNION {NodesAt[lvl] : lvl \in Level}

PointerTo(path, reachable) ==
  LET found == {x \in reachable : x.path = path}
  IN  IF found = {} THEN NULL ELSE (CHOOSE x \in found : TRUE).ptr

\* The trie that they are: *pointer_to_nhi for every bit of internal, and their
\* paths.
TrieInMemory ==
  LET reachable == Reachable
      rules     == UNION {{[p    |-> x.path \o InlBits[pos],
                            nhi  |-> heap[At(x.ptr).child_ptr].rule
                                       [CountOnes(At(x.ptr).internal, pos) + 1]] :
                             pos \in At(x.ptr).internal} : x \in reachable}
  IN  [inl |-> [p \in {r.p : r \in rules} |-> (CHOOSE r \in rules : r.p = p).nhi],
       enl |-> {x.path : x \in reachable} \ {<<>>}]

-----------------------------------------------------------------------------
TypeOK ==
  /\ root \in Node
  /\ DOMAIN heap \subseteq Block
  /\ \A b \in DOMAIN heap :
       /\ heap[b].units \in 0 .. Pow2[STRIDE + 1]
       /\ heap[b].low \in 0 .. heap[b].units
       /\ heap[b].rule \in [1 .. NODE_WORDS * heap[b].low -> NHI \cup {NULL}]
       /\ heap[b].kid \in [0 .. heap[b].units - heap[b].low - 1 -> Node]
  /\ lnode \in [Level -> Nat]
  /\ op \in {"simple", "color"}
  /\ pc \in {"idle", "insert", "delete", "update", "destroy"}
  /\ arg \in Prefix
  /\ nhi \in NHI \cup {NULL}
  /\ node \in Pointer
  /\ level \in Level
  /\ \A k \in DOMAIN trace : trace[k].node \in Pointer /\ trace[k].pos \in EnlPos
  /\ i \in Level
  /\ node_need_to_del \in BOOLEAN
  /\ \A k \in DOMAIN stack : stack[k].node \in Pointer /\ stack[k].stride \in Nat
  /\ IsTrie(before)

\* mm_init and the zeroed root of bitmap_init_trie's caller.
Init ==
  /\ root = ZeroNode
  /\ heap = [b \in {} |-> NewBlock(0, 0)]
  /\ lnode = [lvl \in Level |-> 0]
  /\ op \in {"simple", "color"}
  /\ pc = "idle"
  /\ arg = <<>>
  /\ nhi = NULL
  /\ node = Root
  /\ level = 0
  /\ trace = <<>>
  /\ i = 0
  /\ node_need_to_del = FALSE
  /\ stack = <<>>
  /\ before = EmptyTrie

\* An operation is called.
Call(operation, p, h) ==
  /\ pc = "idle"
  /\ pc' = operation
  /\ arg' = p
  /\ nhi' = h
  /\ before' = TrieInMemory
  /\ UNCHANGED <<memory, op, node, level, trace, i, node_need_to_del>>

\* And returns: its variables are gone.
Return ==
  /\ pc' = "idle"
  /\ arg' = <<>>
  /\ nhi' = NULL
  /\ node' = Root
  /\ level' = 0
  /\ trace' = <<>>
  /\ i' = 0
  /\ node_need_to_del' = FALSE
  /\ stack' = <<>>
  /\ before' = EmptyTrie

\* What is left of the prefix, and the bit of it in the node.
Rest == Drop(arg, level * STRIDE)
ChildPos == PosOfChild(Take(Rest, STRIDE))

CallInsert(p, h) == Call("insert", p, h) /\ UNCHANGED stack

\* bitmap_insert_prefix: cidr < STRIDE.
InsertRule ==
  LET pos == PosOfRule(Rest)
      n   == At(node)
  IN  /\ pc = "insert" /\ Len(Rest) < STRIDE
      /\ \/ /\ pos \in n.internal
            /\ heap' = [heap EXCEPT
                 ![n.child_ptr].rule[CountOnes(n.internal, pos) + 1] = nhi]
            /\ UNCHANGED <<root, lnode>>
         \/ /\ pos \notin n.internal
            /\ extend_rule(node, pos, level)
      /\ Return
      /\ UNCHANGED op

\* Mutant: the pointer that extend_child returns is into the old block.
InsertDescendInOldBlock ==
  /\ pc = "insert" /\ Len(Rest) >= STRIDE
  /\ \/ /\ ChildPos \in At(node).external
        /\ node' = next_child(At(node), ChildPos)
        /\ UNCHANGED memory
     \/ /\ ChildPos \notin At(node).external
        /\ extend_child(node, ChildPos, level)
        /\ node' = IF At(node).child_ptr = NULL
                   THEN extended_child(node, ChildPos, level)
                   ELSE <<At(node).child_ptr, extended_child(node, ChildPos, level)[2]>>
  /\ level' = level + 1
  /\ UNCHANGED <<op, pc, arg, nhi, trace, i, node_need_to_del, stack, before>>

\* cidr >= STRIDE: on to the child, which extend_child makes if need be.
InsertDescend ==
  /\ pc = "insert" /\ Len(Rest) >= STRIDE
  /\ \/ /\ ChildPos \in At(node).external
        /\ node' = next_child(At(node), ChildPos)
        /\ UNCHANGED memory
     \/ /\ ChildPos \notin At(node).external
        /\ extend_child(node, ChildPos, level)
        /\ node' = extended_child(node, ChildPos, level)
  /\ level' = level + 1
  /\ UNCHANGED <<op, pc, arg, nhi, trace, i, node_need_to_del, stack, before>>

-----------------------------------------------------------------------------
\* bitmap_delete_prefix, for a rule that bitmap_prefix_exist has found.
CallDelete(p) ==
  /\ PrefixExist(TrieInMemory, p)
  /\ Call("delete", p, NULL)
  /\ UNCHANGED stack

\* One turn on the way down; at the node of the rule update_nodes is called.
DeleteDescend ==
  LET down == Len(Rest) >= STRIDE
      pos  == IF down THEN ChildPos ELSE PosOfRule(Rest)
  IN  /\ pc = "delete"
      /\ trace' = Append(trace, [node |-> node, pos |-> pos])
      /\ \/ /\ down
            /\ node' = next_child(At(node), pos)
            /\ level' = level + 1
            /\ UNCHANGED <<pc, i>>
         \/ /\ ~ down
            /\ pc' = "update"
            /\ i' = level
            /\ UNCHANGED <<node, level>>
      /\ UNCHANGED <<memory, op, arg, nhi, node_need_to_del, stack, before>>

\* t[i] of update_nodes, and the end of its turn, which leaves n in that node.
Traced == trace[i + 1]

\* Mutant: node_need_to_del is never reset.
EndOfTurnWithoutReset(n) ==
  \/ /\ i > 0
     /\ i' = i - 1
     /\ node_need_to_del' = (node_need_to_del \/ IsEmpty(n))
     /\ UNCHANGED <<pc, arg, nhi, node, level, trace, stack, before>>
  \/ i = 0 /\ Return

\* Mutant: the loop goes on for one turn after that of the root.
EndOfTurnPastRoot(n) ==
  \/ /\ i >= 0
     /\ i' = i - 1
     /\ node_need_to_del' = IsEmpty(n)
     /\ UNCHANGED <<pc, arg, nhi, node, level, trace, stack, before>>
  \/ i < 0 /\ Return

EndOfTurn(n) ==
  \/ /\ i > 0
     /\ i' = i - 1
     /\ node_need_to_del' = IsEmpty(n)
     /\ UNCHANGED <<pc, arg, nhi, node, level, trace, stack, before>>
  \/ i = 0 /\ Return

\* The first turn, at the node of the rule.
UpdateLast ==
  /\ pc = "update" /\ i = level
  /\ reduce_rule(Traced.node, Traced.pos, i)
  /\ EndOfTurn([At(Traced.node) EXCEPT !.internal = @ \ {Traced.pos}])
  /\ UNCHANGED op

\* Mutant: the block is counted for the level below.
UpdateAboveOneLevelDown ==
  /\ pc = "update" /\ i < level
  /\ \/ /\ node_need_to_del
        /\ reduce_child(Traced.node, Traced.pos, i + 1)
        /\ EndOfTurn([At(Traced.node) EXCEPT !.external = @ \ {Traced.pos}])
     \/ /\ ~ node_need_to_del
        /\ EndOfTurn(At(Traced.node))
        /\ UNCHANGED memory
  /\ UNCHANGED op

\* The turns after it, at the nodes above.
UpdateAbove ==
  /\ pc = "update" /\ i < level
  /\ \/ /\ node_need_to_del
        /\ reduce_child(Traced.node, Traced.pos, i)
        /\ EndOfTurn([At(Traced.node) EXCEPT !.external = @ \ {Traced.pos}])
     \/ /\ ~ node_need_to_del
        /\ EndOfTurn(At(Traced.node))
        /\ UNCHANGED memory
  /\ UNCHANGED op

-----------------------------------------------------------------------------
\* destroy_subtrie is called for *p: its first loop zeroes the next hops.
Enter(p, frames) ==
  LET n == At(p)
  IN  /\ heap' = IF n.internal = {} THEN heap
                 ELSE [heap EXCEPT ![n.child_ptr].rule =
                         [k \in DOMAIN @ |-> IF k <= rule_num(n) THEN NULL ELSE @[k]]]
      /\ stack' = Append(frames, [node |-> p, stride |-> 0])
      /\ UNCHANGED <<root, lnode>>

\* bitmap_destroy_trie
CallDestroy ==
  /\ pc = "idle"
  /\ pc' = "destroy"
  /\ Enter(Root, <<>>)
  /\ before' = TrieInMemory
  /\ UNCHANGED <<op, arg, nhi, node, level, trace, i, node_need_to_del>>

Top == stack[Len(stack)]

\* The bits of external that its second loop has still to come to.
ChildrenToCome ==
  {pos \in At(Top.node).external : pos >= Top.stride}

\* The loop comes to the next child.
DestroyChild ==
  /\ pc = "destroy" /\ ChildrenToCome # {}
  /\ LET pos == Min(ChildrenToCome)
     IN  Enter(next_child(At(Top.node), pos),
               [stack EXCEPT ![Len(stack)].stride = pos + 1])
  /\ UNCHANGED <<op, pc, arg, nhi, node, level, trace, i, node_need_to_del, before>>

\* Mutant: a node goes before its children.
DestroyNodeFirst ==
  LET n == At(Top.node)
  IN  /\ pc = "destroy"
      /\ Store(Top.node, ZeroNode,
               [b \in DOMAIN heap \ Freed(n, UP_RULE(rule_num(n))) |-> heap[b]])
      /\ lnode' = [lnode EXCEPT ![Len(stack) - 1] =
                     @ - (IF n.child_ptr = NULL THEN 0 ELSE UnitsOf(0, rule_num(n)))]
      /\ IF Len(stack) > 1
         THEN /\ stack' = SubSeq(stack, 1, Len(stack) - 1)
              /\ UNCHANGED <<pc, arg, nhi, node, level, trace, i,
                             node_need_to_del, before>>
         ELSE Return
      /\ UNCHANGED op

\* No child is left: the node is zeroed and its block freed, with a size that
\* counts the children of the zeroed node.
DestroyNode ==
  LET n == At(Top.node)
  IN  /\ pc = "destroy" /\ ChildrenToCome = {}
      /\ Store(Top.node, ZeroNode,
               [b \in DOMAIN heap \ Freed(n, UP_RULE(rule_num(n))) |-> heap[b]])
      /\ lnode' = [lnode EXCEPT ![Len(stack) - 1] =
                     @ - (IF n.child_ptr = NULL THEN 0
                          ELSE UnitsOf(child_num(ZeroNode), rule_num(n)))]
      /\ IF Len(stack) > 1
         THEN /\ stack' = SubSeq(stack, 1, Len(stack) - 1)
              /\ UNCHANGED <<pc, arg, nhi, node, level, trace, i,
                             node_need_to_del, before>>
         ELSE Return
      /\ UNCHANGED op

Next ==
  \/ \E p \in Inputs, h \in NHI : CallInsert(p, h)
  \/ InsertRule
  \/ InsertDescend
  \/ \E p \in Inputs : CallDelete(p)
  \/ DeleteDescend
  \/ UpdateLast
  \/ UpdateAbove
  \/ CallDestroy
  \/ DestroyChild
  \/ DestroyNode

Spec == Init /\ [][Next]_vars

-----------------------------------------------------------------------------
\* Every pointer an operation keeps across turns of its loop is the one the
\* trie has to that node now, whatever was rebuilt since it was noted: the node
\* the walk has got to, the nodes update_nodes has still to come to, and the
\* callers of destroy_subtrie.
WalkIsOnPath ==
  LET reachable == Reachable
  IN  /\ pc \in {"insert", "delete"} => node = PointerTo(PathAt(level), reachable)
      /\ \A k \in DOMAIN trace :
           pc = "delete" \/ k <= i + 1
             => trace[k].node = PointerTo(PathAt(k - 1), reachable)
      /\ pc = "destroy" =>
           /\ stack[1].node = Root
           /\ \A k \in 2 .. Len(stack) :
                LET up == At(stack[k - 1].node)
                IN  /\ stack[k - 1].stride - 1 \in up.external
                    /\ stack[k].node = next_child(up, stack[k - 1].stride - 1)

\* Every block in use is the block of exactly one node of the trie, and has the
\* shape the bitmaps of that node tell; at any time, also between two turns.
\* Only the empty blocks calloc(0) returns are lost, with the emptied nodes
\* that reduce_child drops.
Owners(b, reachable) == {x \in reachable : At(x.ptr).child_ptr = b}

BlocksAreOwned ==
  LET reachable == Reachable
  IN  /\ \A b \in DOMAIN heap :
           \/ Cardinality(Owners(b, reachable)) = 1
           \/ op = "simple" /\ Owners(b, reachable) = {} /\ heap[b].units = 0
      /\ \A x \in reachable :
           LET n == At(x.ptr)
           IN  IF n.child_ptr = NULL THEN IsEmpty(n)
               ELSE /\ n.child_ptr \in DOMAIN heap
                    /\ heap[n.child_ptr].low = UP_RULE(rule_num(n))
                    /\ heap[n.child_ptr].units = UnitsOf(child_num(n), rule_num(n))

\* The nodes that the statistics of a level count beyond those in use.
UnitsInUse(lvl) ==
  LET blocks == {At(x.ptr).child_ptr : x \in NodesAt[lvl]} \ {NULL}
  IN  SumFunction([b \in blocks |-> heap[b].units])

Uncounted == [lvl \in Level |-> lnode[lvl] - UnitsInUse(lvl)]

\* The statistics of a level change by what its nodes gain and lose in memory,
\* except in destroy_subtrie.
StatisticsFollowMemory == [][pc # "destroy" => Uncounted' = Uncounted]_vars

\* The loops over nodes and blocks do what the operators of BitmapTrie say: each
\* operation, seen when it returns, is a step of Trie.
AbstractTrie ==
  INSTANCE Trie WITH
    trie <- IF pc = "idle" THEN TrieInMemory ELSE before

ImplementsTrie == AbstractTrie!Spec

=============================================================================
