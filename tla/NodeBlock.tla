----------------------------- MODULE NodeBlock -----------------------------
(***************************************************************************)
(* The memory block of a multi-bit node (lib/mb_node.[hc]): how large it   *)
(* is, where its next hops and children lie, and what the copies of a      *)
(* rebuild put into the new block.                                         *)
(*                                                                         *)
(*      ----child_ptr-----                                                 *)
(*      --------|---------        child_ptr points into the block: next    *)
(*      |rules  | child--|        hops lie below it, in pointer words 1,   *)
(*      |-------|--------|        2, ... counted downwards, child nodes    *)
(*                                from it on, 0, 1, ... counted upwards.   *)
(*                                                                         *)
(* The block has no index of its own: the n-th rule and the n-th child are *)
(* those of the n-th set bit of `internal' and `external', counted from    *)
(* the highest bit.                                                        *)
(***************************************************************************)
EXTENDS Integers, FiniteSets

CONSTANTS
  NODE_WORDS,     \* NODE_SIZE / sizeof(void *): 3
  NULL,           \* the null pointer
  EmptyKid        \* the child node calloc makes: all zero

ASSUME NodeWordsAssumption == NODE_WORDS \in Nat \ {0}

\* The nodes that x next hops take, rounded up, and that x children take.
UP_RULE(x) == (x + NODE_WORDS - 1) \div NODE_WORDS
UP_CHILD(x) == x

\* The number of set bits above pos: popcount(bitmap >> pos) - 1 when pos is
\* set.
CountOnes(bitmap, pos) == Cardinality({k \in bitmap : k >= pos}) - 1

\* Mutant: the size is not rounded to whole nodes.
NewBlockUnrounded(mb_cnt, nh_cnt) ==
  [units |-> UP_CHILD(mb_cnt) + nh_cnt,
   low   |-> nh_cnt,
   rule  |-> [k \in 1 .. NODE_WORDS * nh_cnt |-> NULL],
   kid   |-> [k \in 0 .. UP_CHILD(mb_cnt) - 1 |-> EmptyKid]]

\* new_node: a zeroed block with room for the children and the next hops.
NewBlock(mb_cnt, nh_cnt) ==
  [units |-> UP_CHILD(mb_cnt) + UP_RULE(nh_cnt),
   low   |-> UP_RULE(nh_cnt),
   rule  |-> [k \in 1 .. NODE_WORDS * UP_RULE(nh_cnt) |-> NULL],
   kid   |-> [k \in 0 .. UP_CHILD(mb_cnt) - 1 |-> EmptyKid]]

UnitsOf(child_num, rule_num) == UP_CHILD(child_num) + UP_RULE(rule_num)

-----------------------------------------------------------------------------
\* The memcpys: the words 1 .. pos - 1 stay, word pos gets the new next hop,
\* the words pos .. rule_num move one down.
RulesWith(n, old, rule_num, pos, nhi) ==
  [n EXCEPT !.rule =
     [k \in DOMAIN n.rule |->
        CASE k < pos -> old.rule[k]
          [] k = pos -> nhi
          [] k > pos /\ k <= rule_num + 1 -> old.rule[k - 1]
          [] OTHER -> n.rule[k]]]

\* Mutant: the rules after the removed one are copied one too far.
RulesWithoutOffByOne(n, old, rule_num, pos) ==
  [n EXCEPT !.rule =
     [k \in DOMAIN n.rule |->
        CASE k <= pos -> old.rule[k]
          [] k > pos /\ k < rule_num -> old.rule[k + 1]
          [] OTHER -> n.rule[k]]]

RulesWithout(n, old, rule_num, pos) ==
  [n EXCEPT !.rule =
     [k \in DOMAIN n.rule |->
        CASE k < pos -> old.rule[k]
          [] k >= pos /\ k < rule_num -> old.rule[k + 1]
          [] OTHER -> n.rule[k]]]

\* Mutant: the new child is put last.
KidsWithInPlace(n, old, pos) ==
  [n EXCEPT !.kid =
     [k \in DOMAIN n.kid |->
        IF k + 1 \in DOMAIN n.kid THEN old.kid[k] ELSE n.kid[k]]]

KidsWith(n, old, pos) ==
  [n EXCEPT !.kid =
     [k \in DOMAIN n.kid |->
        CASE k < pos -> old.kid[k]
          [] k = pos -> n.kid[k]
          [] OTHER -> old.kid[k - 1]]]

KidsWithout(n, old, pos) ==
  [n EXCEPT !.kid =
     [k \in DOMAIN n.kid |->
        IF k < pos THEN old.kid[k] ELSE old.kid[k + 1]]]

SameRules(n, old, rule_num) ==
  [n EXCEPT !.rule =
     [k \in DOMAIN n.rule |->
        IF k <= rule_num THEN old.rule[k] ELSE n.rule[k]]]

SameKids(n, old) ==
  [n EXCEPT !.kid = [k \in DOMAIN n.kid |-> old.kid[k]]]

=============================================================================
