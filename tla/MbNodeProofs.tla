---------------------------- MODULE MbNodeProofs ----------------------------
(***************************************************************************)
(* That no rebuild of a multi-bit node's block loses or moves a next hop   *)
(* or a child, for every width of the bitmaps and every number of words to *)
(* a node: the inductive invariant of MbNode and what follows from it.     *)
(***************************************************************************)
EXTENDS MbNode, FiniteSetTheorems, TLAPS

-----------------------------------------------------------------------------
\* The inductive invariant.  The statistics never count less than the block
\* in use: what they are off by is what destroy_subtrie left in them.
Inv ==
  /\ TypeOK
  /\ RulesInPlace
  /\ KidsInPlace
  /\ BlockFitsBitmaps
  /\ ms_node >= UnitsInUse

-----------------------------------------------------------------------------
\* A bitmap is finite.
LEMMA BitmapIsFinite ==
  ASSUME NEW S, S \subseteq EnlPos
  PROVE  /\ IsFiniteSet(S)
         /\ S \subseteq Int
         /\ Cardinality(S) \in Nat
<1>1. BITMAP_BITS - 1 \in Int /\ EnlPos \subseteq Int
  BY BitmapAssumption DEF EnlPos
<1>2. IsFiniteSet(EnlPos)
  BY <1>1, FS_Interval DEF EnlPos
<1>3. IsFiniteSet(S)
  BY <1>2, FS_Subset
<1> QED BY <1>1, <1>3, FS_CardinalityType

\* A bit that is set makes a bitmap of one more bit,
LEMMA SetBit ==
  ASSUME NEW S, S \subseteq EnlPos, NEW pos \in EnlPos, pos \notin S,
         NEW T, T = S \cup {pos}
  PROVE  /\ Cardinality(S) \in Nat /\ Cardinality(T) = Cardinality(S) + 1
         /\ IsFiniteSet(S) /\ IsFiniteSet(T)
         /\ S \subseteq Int /\ T \subseteq Int /\ pos \in Int
<1>1. IsFiniteSet(S) /\ S \subseteq Int /\ Cardinality(S) \in Nat
  BY BitmapIsFinite
<1>2. T \subseteq EnlPos /\ pos \in T
  OBVIOUS
<1>3. IsFiniteSet(T) /\ T \subseteq Int
  BY <1>2, BitmapIsFinite
<1>4. Cardinality(S \cup {pos}) = IF pos \in S THEN Cardinality(S)
                                  ELSE Cardinality(S) + 1
  BY <1>1, FS_AddElement
<1>5. Cardinality(T) = Cardinality(S) + 1
  BY <1>4
<1> QED BY <1>1, <1>2, <1>3, <1>5

\* and one that is cleared, a bitmap of one less.
LEMMA ClearBit ==
  ASSUME NEW S, S \subseteq EnlPos, NEW pos \in S, NEW T, T = S \ {pos}
  PROVE  /\ Cardinality(S) \in Nat /\ Cardinality(T) = Cardinality(S) - 1
         /\ Cardinality(S) - 1 \in Nat
         /\ IsFiniteSet(S) /\ IsFiniteSet(T)
         /\ S \subseteq Int /\ T \subseteq Int /\ pos \in Int
<1>1. T \subseteq EnlPos /\ pos \in EnlPos /\ pos \notin T
  OBVIOUS
<1>2. S = T \cup {pos}
  OBVIOUS
<1> DEFINE n == Cardinality(S)
           m == Cardinality(T)
<1>3. m \in Nat /\ n = m + 1
  BY <1>1, <1>2, SetBit
<1>4. IsFiniteSet(S) /\ IsFiniteSet(T) /\ S \subseteq Int /\ T \subseteq Int /\ pos \in Int
  BY <1>1, <1>2, SetBit
<1> HIDE DEF n, m
<1>5. n \in Nat /\ m = n - 1 /\ n - 1 \in Nat
  BY <1>3
<1> QED BY <1>4, <1>5 DEF n, m

\* A bit that is set has one of the indices 0 .. popcount - 1.
LEMMA CountRange ==
  ASSUME NEW S, IsFiniteSet(S), S \subseteq Int, NEW p \in S
  PROVE  CountOnes(S, p) \in 0 .. Cardinality(S) - 1
<1> DEFINE T == {k \in S : k >= p}
<1>1. IsFiniteSet(T) /\ Cardinality(T) <= Cardinality(S)
  <2>1. T \in SUBSET S
    OBVIOUS
  <2> QED BY <2>1, FS_Subset
<1>2. Cardinality(T) \in Nat /\ Cardinality(S) \in Nat
  BY <1>1, FS_CardinalityType
<1>3. Cardinality(T) # 0
  <2>1. p \in T
    OBVIOUS
  <2> QED BY <1>1, <2>1, FS_EmptySet
<1> QED BY <1>1, <1>2, <1>3 DEF CountOnes

\* The index tells the bits apart: a higher bit comes first.
LEMMA CountOrder ==
  ASSUME NEW S, IsFiniteSet(S), S \subseteq Int, NEW p \in S, NEW q \in S,
         p < q
  PROVE  CountOnes(S, q) < CountOnes(S, p)
<1> DEFINE A == {k \in S : k >= p}
           B == {k \in S : k >= q}
<1>1. IsFiniteSet(A)
  <2>1. A \in SUBSET S
    OBVIOUS
  <2> QED BY <2>1, FS_Subset
<1>2. B \in SUBSET A
  <2>1. \A k \in S : k >= q => k >= p
    OBVIOUS
  <2> QED BY <2>1
<1>3. p \in A /\ p \notin B
  OBVIOUS
<1>4. Cardinality(B) <= Cardinality(A) /\ Cardinality(B) # Cardinality(A)
  <2> HIDE DEF A, B
  <2>1. IsFiniteSet(B) /\ Cardinality(B) <= Cardinality(A)
    BY <1>1, <1>2, FS_Subset
  <2>2. A # B
    BY <1>3
  <2> QED BY <1>1, <1>2, <2>1, <2>2, FS_Subset
<1>5. IsFiniteSet(B)
  BY <1>1, <1>2, FS_Subset
<1>6. Cardinality(A) \in Nat /\ Cardinality(B) \in Nat
  BY <1>1, <1>5, FS_CardinalityType
<1>7. Cardinality(B) - 1 < Cardinality(A) - 1
  <2> HIDE DEF A, B
  <2> QED BY <1>4, <1>6
<1> QED BY <1>7 DEF CountOnes

\* Setting the bit p moves the bits below it one index up, and no other.
LEMMA CountAdd ==
  ASSUME NEW S, IsFiniteSet(S), S \subseteq Int, NEW p \in Int, p \notin S,
         NEW q \in S
  PROVE  CountOnes(S \cup {p}, q) =
           IF q < p THEN CountOnes(S, q) + 1 ELSE CountOnes(S, q)
<1> DEFINE A == {k \in S : k >= q}
           B == {k \in S \cup {p} : k >= q}
<1>1. IsFiniteSet(A)
  <2>1. A \in SUBSET S
    OBVIOUS
  <2> QED BY <2>1, FS_Subset
<1>2. Cardinality(A) \in Nat
  BY <1>1, FS_CardinalityType
<1>3. CASE q < p
  <2>1. B = A \cup {p} /\ p \notin A
    BY <1>3
  <2>2. Cardinality(B) = Cardinality(A) + 1
    <3> HIDE DEF A, B
    <3> QED BY <1>1, <2>1, FS_AddElement
  <2>3. Cardinality(B) - 1 = (Cardinality(A) - 1) + 1
    <3> HIDE DEF A, B
    <3> QED BY <1>2, <2>2
  <2> QED BY <1>3, <2>3 DEF CountOnes
<1>4. CASE ~ (q < p)
  <2>1. B = A
    BY <1>4
  <2> QED BY <1>4, <2>1 DEF CountOnes
<1> QED BY <1>3, <1>4

-----------------------------------------------------------------------------
\* The units of x next hops hold them.
LEMMA UnitsHoldRules ==
  ASSUME NEW x \in Nat
  PROVE  UP_RULE(x) \in Nat /\ NODE_WORDS * UP_RULE(x) >= x
<1> DEFINE a == x + NODE_WORDS - 1
           q == a \div NODE_WORDS
<1>1. NODE_WORDS \in Int /\ NODE_WORDS > 0 /\ a \in Int /\ a >= 0
  BY NodeWordsAssumption
<1>2. q \in Int /\ a < NODE_WORDS * q + NODE_WORDS /\ NODE_WORDS * q <= a
  <2> HIDE DEF a
  <2> QED BY <1>1
<1>3. NODE_WORDS * q \in Int
  <2> HIDE DEF q
  <2> QED BY <1>1, <1>2
<1>4. NODE_WORDS * q >= x
  <2> HIDE DEF q
  <2> QED BY <1>1, <1>2, <1>3
<1>5. q >= 0
  <2> HIDE DEF q
  <2>1. SUFFICES ASSUME q <= -1
                 PROVE  FALSE
    BY <1>2
  <2>2. NODE_WORDS * q <= -NODE_WORDS
    BY <1>1, <1>2, <2>1
  <2> QED BY <1>1, <1>3, <1>4, <2>2
<1> QED BY <1>2, <1>4, <1>5 DEF UP_RULE

\* What a rebuild writes into the words W of a zeroed block: the next hops of
\* the block old with one more, with one less, or as they are.
ZeroWords(W) == [k \in W |-> NULL]

WordsPlus(W, old, num, pos, nhi) ==
  [k \in W |->
     CASE k < pos -> old.rule[k]
       [] k = pos -> nhi
       [] k > pos /\ k <= num + 1 -> old.rule[k - 1]
       [] OTHER -> NULL]

WordsMinus(W, old, num, pos) ==
  [k \in W |->
     CASE k < pos -> old.rule[k]
       [] k >= pos /\ k < num -> old.rule[k + 1]
       [] OTHER -> NULL]

SameWords(W, old, num) == [k \in W |-> IF k <= num THEN old.rule[k] ELSE NULL]

\* And into the nodes V.
ZeroNodes(V) == [k \in V |-> EmptyKid]

NodesPlus(V, old, pos) ==
  [k \in V |->
     CASE k < pos -> old.kid[k]
       [] k = pos -> EmptyKid
       [] OTHER -> old.kid[k - 1]]

NodesMinus(V, old, pos) ==
  [k \in V |-> IF k < pos THEN old.kid[k] ELSE old.kid[k + 1]]

SameNodes(V, old) == [k \in V |-> old.kid[k]]

\* A new block is a record of zeroes.
LEMMA NewBlockIsZero ==
  ASSUME NEW mb, NEW nh
  PROVE  NewBlock(mb, nh) =
           [units |-> UnitsOf(mb, nh), low |-> UP_RULE(nh),
            rule |-> ZeroWords(1 .. NODE_WORDS * UP_RULE(nh)),
            kid |-> ZeroNodes(0 .. mb - 1)]
BY DEF NewBlock, UnitsOf, UP_CHILD, ZeroWords, ZeroNodes

\* A copy of next hops fills its words, and only those.
LEMMA CopyRules ==
  ASSUME NEW u, NEW l, NEW W, NEW c, NEW n, NEW old, NEW num, NEW pos, NEW nhi,
         n = [units |-> u, low |-> l, rule |-> ZeroWords(W), kid |-> c]
  PROVE  /\ RulesWith(n, old, num, pos, nhi) =
              [units |-> u, low |-> l, kid |-> c,
               rule |-> WordsPlus(W, old, num, pos, nhi)]
         /\ RulesWithout(n, old, num, pos) =
              [units |-> u, low |-> l, kid |-> c,
               rule |-> WordsMinus(W, old, num, pos)]
         /\ SameRules(n, old, num) =
              [units |-> u, low |-> l, kid |-> c, rule |-> SameWords(W, old, num)]
<1> DEFINE Put(R) == [n EXCEPT !.rule = R]
<1>1. \A R : Put(R) = [units |-> u, low |-> l, kid |-> c, rule |-> R]
  OBVIOUS
<1>2. DOMAIN n.rule = W /\ \A k \in W : n.rule[k] = NULL
  BY DEF ZeroWords
<1> HIDE DEF Put
<1>3. ASSUME NEW R
      PROVE  Put(R) = [units |-> u, low |-> l, kid |-> c, rule |-> R]
  BY <1>1
<1> QED BY <1>2, <1>3 DEF RulesWith, RulesWithout, SameRules, Put,
                        WordsPlus, WordsMinus, SameWords

\* And a copy of children its nodes.
LEMMA CopyKids ==
  ASSUME NEW u, NEW l, NEW r, NEW V, NEW n, NEW old, NEW pos,
         n = [units |-> u, low |-> l, rule |-> r, kid |-> ZeroNodes(V)]
  PROVE  /\ KidsWith(n, old, pos) =
              [units |-> u, low |-> l, rule |-> r, kid |-> NodesPlus(V, old, pos)]
         /\ KidsWithout(n, old, pos) =
              [units |-> u, low |-> l, rule |-> r, kid |-> NodesMinus(V, old, pos)]
         /\ SameKids(n, old) =
              [units |-> u, low |-> l, rule |-> r, kid |-> SameNodes(V, old)]
<1> DEFINE Put(K) == [n EXCEPT !.kid = K]
<1>1. \A K : Put(K) = [units |-> u, low |-> l, rule |-> r, kid |-> K]
  OBVIOUS
<1>2. DOMAIN n.kid = V /\ \A k \in V : n.kid[k] = EmptyKid
  BY DEF ZeroNodes
<1> HIDE DEF Put
<1>3. ASSUME NEW K
      PROVE  Put(K) = [units |-> u, low |-> l, rule |-> r, kid |-> K]
  BY <1>1
<1> QED BY <1>2, <1>3 DEF KidsWith, KidsWithout, SameKids, Put,
                        NodesPlus, NodesMinus, SameNodes

-----------------------------------------------------------------------------
\* What the invariant says of the block the bitmaps index.
LEMMA BlockOfNode ==
  ASSUME Inv
  PROVE  /\ internal \subseteq EnlPos /\ external \subseteq EnlPos
         /\ internal # {} \/ external # {} => child_ptr # NULL
         /\ child_ptr # NULL =>
              /\ block.rule \in [1 .. NODE_WORDS * UP_RULE(Cardinality(internal))
                                   -> NHI \cup {NULL}]
              /\ block.kid \in [0 .. Cardinality(external) - 1 -> Kid]
         /\ \A pos \in internal : NhiIndex(pos) \in 1 .. Cardinality(internal)
         /\ \A pos \in external : KidIndex(pos) \in 0 .. Cardinality(external) - 1
<1>1. internal \subseteq EnlPos /\ external \subseteq EnlPos
  BY BitmapAssumption DEF Inv, TypeOK, InlPos, EnlPos
<1>2. internal # {} \/ external # {} => child_ptr # NULL
  BY DEF Inv, BlockFitsBitmaps
<1>3. ASSUME child_ptr # NULL
      PROVE  /\ block.rule \in [1 .. NODE_WORDS * UP_RULE(Cardinality(internal))
                                  -> NHI \cup {NULL}]
             /\ block.kid \in [0 .. Cardinality(external) - 1 -> Kid]
  <2>1. IsBlock(block)
    BY <1>3 DEF Inv, TypeOK, BlockFitsBitmaps, block
  <2>2. /\ block.low = UP_RULE(Cardinality(internal))
        /\ block.units = UnitsOf(Cardinality(external), Cardinality(internal))
    BY <1>3 DEF Inv, BlockFitsBitmaps
  <2>3. Cardinality(internal) \in Nat /\ Cardinality(external) \in Nat
    BY <1>1, BitmapIsFinite
  <2>4. UP_RULE(Cardinality(internal)) \in Nat
    BY <2>3, UnitsHoldRules
  <2>5. block.units - block.low = Cardinality(external)
    BY <2>2, <2>3, <2>4 DEF UnitsOf, UP_CHILD
  <2> QED BY <2>1, <2>2, <2>5 DEF IsBlock
<1>4. \A pos \in internal : NhiIndex(pos) \in 1 .. Cardinality(internal)
  <2> SUFFICES ASSUME NEW pos \in internal
               PROVE  NhiIndex(pos) \in 1 .. Cardinality(internal)
    OBVIOUS
  <2>1. CountOnes(internal, pos) \in 0 .. Cardinality(internal) - 1
    BY <1>1, BitmapIsFinite, CountRange
  <2>2. Cardinality(internal) \in Nat
    BY <1>1, BitmapIsFinite
  <2> QED BY <2>1, <2>2 DEF NhiIndex
<1>5. \A pos \in external : KidIndex(pos) \in 0 .. Cardinality(external) - 1
  BY <1>1, BitmapIsFinite, CountRange DEF KidIndex
<1> QED BY <1>1, <1>2, <1>3, <1>4, <1>5

\* No two bits share an index.
LEMMA BitsHaveTheirIndex ==
  ASSUME Inv
  PROVE  /\ \A p, q \in internal : p # q => NhiIndex(p) # NhiIndex(q)
         /\ \A p, q \in external : p # q => KidIndex(p) # KidIndex(q)
<1>1. ASSUME NEW S, S \subseteq EnlPos, NEW p \in S, NEW q \in S, p # q
      PROVE  /\ CountOnes(S, p) \in Int /\ CountOnes(S, q) \in Int
             /\ CountOnes(S, p) # CountOnes(S, q)
  <2>1. IsFiniteSet(S) /\ S \subseteq Int /\ Cardinality(S) \in Nat
    BY <1>1, BitmapIsFinite
  <2>2. CountOnes(S, p) \in 0 .. Cardinality(S) - 1
    BY <2>1, CountRange
  <2>3. CountOnes(S, q) \in 0 .. Cardinality(S) - 1
    BY <2>1, CountRange
  <2>4. p < q => CountOnes(S, q) < CountOnes(S, p)
    BY <2>1, CountOrder
  <2>5. q < p => CountOnes(S, p) < CountOnes(S, q)
    BY <2>1, CountOrder
  <2>6. p < q \/ q < p
    BY <1>1, <2>1
  <2> QED BY <2>1, <2>2, <2>3, <2>4, <2>5, <2>6
<1>2. ASSUME NEW p \in internal, NEW q \in internal, p # q
      PROVE  NhiIndex(p) # NhiIndex(q)
  <2>1. /\ CountOnes(internal, p) \in Int /\ CountOnes(internal, q) \in Int
        /\ CountOnes(internal, p) # CountOnes(internal, q)
    BY <1>1, <1>2, BlockOfNode
  <2> QED BY <2>1 DEF NhiIndex
<1>3. ASSUME NEW p \in external, NEW q \in external, p # q
      PROVE  KidIndex(p) # KidIndex(q)
  BY <1>1, <1>3, BlockOfNode DEF KidIndex
<1> QED BY <1>2, <1>3

\* The statistics and the memory in use are numbers.
LEMMA UnitsInt ==
  ASSUME Inv
  PROVE  ms_node \in Nat /\ UnitsInUse \in Int
<1>1. CASE child_ptr = NULL
  BY <1>1 DEF UnitsInUse, Inv, TypeOK
<1>2. CASE child_ptr # NULL
  <2>1. IsBlock(block) /\ ms_node \in Nat
    BY <1>2 DEF Inv, TypeOK, BlockFitsBitmaps, block
  <2> QED BY <1>2, <2>1 DEF UnitsInUse, IsBlock
<1> QED BY <1>1, <1>2

\* A rebuild frees the block it replaces, whose start and size the bitmaps
\* give, so that the node's new block is the only one.
LEMMA ReplaceKeepsOneBlock ==
  ASSUME Inv, NEW n,
         Replace(n, UP_RULE(Cardinality(internal)),
                 UnitsOf(Cardinality(external), Cardinality(internal)))
  PROVE  /\ child_ptr' \in Block /\ child_ptr' # NULL
         /\ heap' = [b \in {child_ptr'} |-> n]
         /\ ms_node' = ms_node + n.units - UnitsInUse
<1> DEFINE old == Freed(UP_RULE(Cardinality(internal)))
<1>1. PICK b \in Block \ DOMAIN heap :
        /\ child_ptr' = b
        /\ heap' = [c \in (DOMAIN heap \ old) \cup {b} |->
                      IF c = b THEN n ELSE heap[c]]
        /\ ms_node' = ms_node + n.units
                      - (IF child_ptr = NULL THEN 0
                         ELSE UnitsOf(Cardinality(external), Cardinality(internal)))
  BY DEF Replace
<1>2. DOMAIN heap \ old = {}
  BY DEF Inv, BlockFitsBitmaps, Freed, block
<1>3. b # NULL
  BY NullAssumption
<1>4. heap' = [c \in {b} |-> n]
  BY <1>1, <1>2
<1>5. ms_node' = ms_node + n.units - UnitsInUse
  BY <1>1 DEF Inv, BlockFitsBitmaps, UnitsInUse
<1> QED BY <1>1, <1>3, <1>4, <1>5

\* A rebuild is right when it gives the bitmaps it leaves a block that holds
\* their next hops and their children in the order of their bits.
LEMMA RebuildKeepsInv ==
  ASSUME Inv,
         NEW R, NEW K, NEW n,
         n = [units |-> UnitsOf(Cardinality(external'), Cardinality(internal')),
              low |-> UP_RULE(Cardinality(internal')), rule |-> R, kid |-> K],
         Replace(n, UP_RULE(Cardinality(internal)),
                 UnitsOf(Cardinality(external), Cardinality(internal))),
         internal' \subseteq InlPos, external' \subseteq EnlPos,
         rules' \in [internal' -> NHI], kids' \in [external' -> Kid],
         R \in [1 .. NODE_WORDS * UP_RULE(Cardinality(internal')) -> NHI \cup {NULL}],
         K \in [0 .. Cardinality(external') - 1 -> Kid],
         \A pos \in internal' : R[CountOnes(internal', pos) + 1] = rules'[pos],
         \A pos \in external' : K[CountOnes(external', pos)] = kids'[pos]
  PROVE  /\ Inv'
         /\ ms_node' - ms_node = UnitsInUse' - UnitsInUse
<1>1. /\ child_ptr' \in Block /\ child_ptr' # NULL
      /\ heap' = [b \in {child_ptr'} |-> n]
      /\ ms_node' = ms_node + n.units - UnitsInUse
  BY ReplaceKeepsOneBlock
<1>2. block' = n /\ DOMAIN heap' = {child_ptr'}
  BY <1>1 DEF block
<1>3. Cardinality(internal') \in Nat /\ Cardinality(external') \in Nat
  <2>1. internal' \subseteq EnlPos
    BY BitmapAssumption DEF InlPos, EnlPos
  <2> QED BY <2>1, BitmapIsFinite
<1>4. /\ n.low = UP_RULE(Cardinality(internal')) /\ n.low \in Nat
      /\ n.units = Cardinality(external') + n.low /\ n.units \in Nat
      /\ n.rule = R /\ n.kid = K
  <2>1. /\ n.low = UP_RULE(Cardinality(internal')) /\ n.rule = R /\ n.kid = K
        /\ n.units = UnitsOf(Cardinality(external'), Cardinality(internal'))
    OBVIOUS
  <2>2. UP_RULE(Cardinality(internal')) \in Nat
    BY <1>3, UnitsHoldRules
  <2> QED BY <1>3, <2>1, <2>2 DEF UnitsOf, UP_CHILD
<1>5. IsBlock(n)
  <2>1. n.units - n.low = Cardinality(external')
    BY <1>3, <1>4
  <2> QED BY <1>4, <2>1 DEF IsBlock
<1>6. UnitsInUse \in Int
  BY UnitsInt
<1>7. UnitsInUse' = n.units
  BY <1>1, <1>2 DEF UnitsInUse
<1>8. /\ ms_node' \in Nat
      /\ ms_node' >= UnitsInUse'
      /\ ms_node' - ms_node = UnitsInUse' - UnitsInUse
  BY <1>1, <1>4, <1>6, <1>7 DEF Inv, TypeOK
<1>9. TypeOK'
  <2>1. \A b \in DOMAIN heap' : IsBlock(heap'[b])
    BY <1>1, <1>5
  <2>2. heap' = [b \in DOMAIN heap' |-> heap'[b]]
    BY <1>1
  <2> QED BY <1>1, <1>2, <1>8, <2>1, <2>2 DEF TypeOK, IsBlock
<1>10. RulesInPlace' /\ KidsInPlace'
  BY <1>2, <1>4 DEF RulesInPlace, KidsInPlace, NhiIndex, KidIndex
<1>11. BlockFitsBitmaps'
  BY <1>1, <1>2, <1>4 DEF BlockFitsBitmaps
<1> QED BY <1>8, <1>9, <1>10, <1>11 DEF Inv

-----------------------------------------------------------------------------
\* The words of the node's next block: those of the bitmap it keeps, of I with
\* one rule more and of I with one less.
WordsOf(rule_num) == 1 .. NODE_WORDS * UP_RULE(rule_num)
NodesOf(child_num) == 0 .. child_num - 1

KeptRules == SameWords(WordsOf(Cardinality(internal)), block, Cardinality(internal))

RulesPlus(I, pos, nhi) ==
  WordsPlus(WordsOf(Cardinality(I)), block, Cardinality(internal),
            CountOnes(I, pos) + 1, nhi)

RulesMinus(I, pos) ==
  WordsMinus(WordsOf(Cardinality(I)), block, Cardinality(internal), NhiIndex(pos))

\* And its children.
KeptKids == SameNodes(NodesOf(Cardinality(external)), block)

KidsPlus(E, pos) ==
  NodesPlus(NodesOf(Cardinality(E)), block, CountOnes(E, pos))

KidsMinus(E, pos) ==
  NodesMinus(NodesOf(Cardinality(E)), block, KidIndex(pos))

\* The next hops that are copied as they are stay those of their bits.
LEMMA RulesKept ==
  ASSUME Inv
  PROVE  /\ KeptRules \in [1 .. NODE_WORDS * UP_RULE(Cardinality(internal))
                             -> NHI \cup {NULL}]
         /\ \A q \in internal : KeptRules[CountOnes(internal, q) + 1] = rules[q]
<1>1. Cardinality(internal) \in Nat
  BY BlockOfNode, BitmapIsFinite
<1>2. /\ UP_RULE(Cardinality(internal)) \in Nat
      /\ NODE_WORDS * UP_RULE(Cardinality(internal)) >= Cardinality(internal)
  BY <1>1, UnitsHoldRules
<1>3. NODE_WORDS * UP_RULE(Cardinality(internal)) \in Nat
  BY <1>2, NodeWordsAssumption
<1> DEFINE N == NODE_WORDS * UP_RULE(Cardinality(internal))
           C == Cardinality(internal)
<1>4. \A k \in 1 .. N : KeptRules[k] = IF k <= C THEN block.rule[k] ELSE NULL
  BY DEF KeptRules, SameWords, WordsOf
<1>5. C > 0 => block.rule \in [1 .. N -> NHI \cup {NULL}]
  <2>1. C > 0 => internal # {}
    BY <1>1, FS_EmptySet
  <2> QED BY <2>1, BlockOfNode
<1> HIDE DEF N, C
<1>6. \A k \in 1 .. N : KeptRules[k] \in NHI \cup {NULL}
  BY <1>1, <1>3, <1>4, <1>5 DEF C, N
<1>7. KeptRules \in [1 .. N -> NHI \cup {NULL}]
  BY <1>6 DEF KeptRules, SameWords, WordsOf, N
<1>8. ASSUME NEW q \in internal
      PROVE  KeptRules[CountOnes(internal, q) + 1] = rules[q]
  <2>1. NhiIndex(q) \in 1 .. C
    BY BlockOfNode DEF C
  <2>2. KeptRules[NhiIndex(q)] = block.rule[NhiIndex(q)]
    BY <1>1, <1>2, <1>3, <1>4, <2>1 DEF C, N
  <2> QED BY <2>2 DEF NhiIndex, Inv, RulesInPlace
<1> QED BY <1>7, <1>8 DEF N

\* And so do the children.
LEMMA KidsKept ==
  ASSUME Inv
  PROVE  /\ KeptKids \in [0 .. Cardinality(external) - 1 -> Kid]
         /\ \A q \in external : KeptKids[CountOnes(external, q)] = kids[q]
<1> DEFINE C == Cardinality(external)
<1>1. C \in Nat
  BY BlockOfNode, BitmapIsFinite
<1>2. C > 0 => block.kid \in [0 .. C - 1 -> Kid]
  <2>1. C > 0 => external # {}
    BY <1>1, FS_EmptySet
  <2> QED BY <2>1, BlockOfNode
<1>3. KeptKids = [k \in 0 .. C - 1 |-> block.kid[k]]
  BY DEF KeptKids, SameNodes, NodesOf
<1>4. ASSUME NEW q \in external
      PROVE  KeptKids[CountOnes(external, q)] = kids[q]
  <2>1. KidIndex(q) \in 0 .. C - 1
    BY BlockOfNode
  <2>2. KeptKids[KidIndex(q)] = block.kid[KidIndex(q)]
    BY <1>3, <2>1
  <2> QED BY <2>2 DEF KidIndex, Inv, KidsInPlace
<1> HIDE DEF C
<1>5. KeptKids \in [0 .. C - 1 -> Kid]
  BY <1>1, <1>2, <1>3
<1> QED BY <1>4, <1>5 DEF C

\* A new next hop is put at the index of its bit, and the others follow theirs.
LEMMA RulesAdded ==
  ASSUME Inv, NEW pos \in InlPos, pos \notin internal, NEW nhi \in NHI,
         NEW I, I = internal \cup {pos}
  PROVE  /\ Cardinality(I) = Cardinality(internal) + 1
         /\ RulesPlus(I, pos, nhi) \in [1 .. NODE_WORDS * UP_RULE(Cardinality(I))
                                          -> NHI \cup {NULL}]
         /\ \A q \in I : RulesPlus(I, pos, nhi)[CountOnes(I, q) + 1] =
                           IF q = pos THEN nhi ELSE rules[q]
<1> DEFINE C == Cardinality(internal)
           N == NODE_WORDS * UP_RULE(Cardinality(I))
           W == RulesPlus(I, pos, nhi)
           np == CountOnes(I, pos) + 1
<1>1. I \subseteq EnlPos /\ pos \in EnlPos /\ internal \subseteq EnlPos /\ pos \in Int
  BY BlockOfNode, BitmapAssumption DEF InlPos, EnlPos
<1>2. /\ C \in Nat /\ Cardinality(I) = C + 1
      /\ IsFiniteSet(internal) /\ IsFiniteSet(I)
      /\ internal \subseteq Int /\ I \subseteq Int
  BY <1>1, SetBit
<1>3. UP_RULE(C + 1) \in Nat /\ NODE_WORDS * UP_RULE(C + 1) >= C + 1
  BY <1>2, UnitsHoldRules
<1>4. N \in Nat /\ N >= C + 1
  <2>1. NODE_WORDS * UP_RULE(C + 1) \in Nat
    BY <1>3, NodeWordsAssumption
  <2> QED BY <1>2, <1>3, <2>1
<1>5. np \in 1 .. C + 1
  <2>1. CountOnes(I, pos) \in 0 .. Cardinality(I) - 1
    BY <1>2, CountRange
  <2> QED BY <1>2, <2>1
<1>6. C > 0 => /\ block.rule \in [1 .. NODE_WORDS * UP_RULE(C) -> NHI \cup {NULL}]
               /\ NODE_WORDS * UP_RULE(C) \in Nat
               /\ NODE_WORDS * UP_RULE(C) >= C
  <2>1. C > 0 => internal # {}
    BY <1>2, FS_EmptySet
  <2>2. UP_RULE(C) \in Nat /\ NODE_WORDS * UP_RULE(C) >= C
    BY <1>2, UnitsHoldRules
  <2>3. NODE_WORDS * UP_RULE(C) \in Nat
    BY <2>2, NodeWordsAssumption
  <2> QED BY <2>1, <2>2, <2>3, BlockOfNode
<1>7. \A k \in 1 .. N :
        W[k] = CASE k < np -> block.rule[k]
                 [] k = np -> nhi
                 [] k > np /\ k <= C + 1 -> block.rule[k - 1]
                 [] OTHER -> NULL
  BY DEF RulesPlus, WordsPlus, WordsOf
<1>8. W = [k \in 1 .. N |-> W[k]]
  BY DEF RulesPlus, WordsPlus, WordsOf
<1> HIDE DEF W, N, np
<1>9. \A k \in 1 .. C : C > 0 /\ block.rule[k] \in NHI \cup {NULL}
  <2> DEFINE M == NODE_WORDS * UP_RULE(C)
  <2>1. C > 0 => block.rule \in [1 .. M -> NHI \cup {NULL}] /\ M \in Nat /\ M >= C
    BY <1>6
  <2> HIDE DEF C, M
  <2> QED BY <1>2, <2>1 DEF C
<1>10. \A k \in 1 .. N : W[k] \in NHI \cup {NULL}
  <2> SUFFICES ASSUME NEW k \in 1 .. N
               PROVE  W[k] \in NHI \cup {NULL}
    OBVIOUS
  <2> HIDE DEF C
  <2>1. C \in Nat /\ np \in Int /\ k \in Int /\ k >= 1 /\ np <= C + 1
    BY <1>2, <1>4, <1>5 DEF C
  <2>2. CASE k < np
    BY <1>7, <1>9, <2>1, <2>2
  <2>3. CASE k = np
    BY <1>7, <2>1, <2>3
  <2>4. CASE k > np /\ k <= C + 1
    <3>1. W[k] = block.rule[k - 1]
      BY <1>7, <2>1, <2>4
    <3>2. k - 1 \in 1 .. C
      BY <1>5, <2>1, <2>4
    <3> QED BY <1>9, <3>1, <3>2
  <2>5. CASE k > C + 1
    BY <1>7, <2>1, <2>5
  <2> QED BY <2>1, <2>2, <2>3, <2>4, <2>5
<1>11. ASSUME NEW q \in I
       PROVE  W[CountOnes(I, q) + 1] = IF q = pos THEN nhi ELSE rules[q]
  <2> DEFINE i == CountOnes(I, q) + 1
  <2>1. CountOnes(I, q) \in 0 .. C /\ CountOnes(I, pos) \in 0 .. C
    <3>1. pos \in I
      OBVIOUS
    <3>2. CountOnes(I, q) \in 0 .. Cardinality(I) - 1
      BY <1>2, CountRange
    <3>3. CountOnes(I, pos) \in 0 .. Cardinality(I) - 1
      BY <1>2, <3>1, CountRange
    <3> QED BY <1>2, <3>2, <3>3
  <2>2. i \in 1 .. C + 1 /\ i \in 1 .. N /\ i \in Int /\ np \in Int
    BY <1>2, <1>4, <1>5, <2>1
  <2>3. /\ i < np => W[i] = block.rule[i]
        /\ i = np => W[i] = nhi
        /\ i > np => W[i] = block.rule[i - 1]
    <3> HIDE DEF i
    <3> QED BY <1>2, <1>7, <2>2
  <2>4. CASE q = pos
    BY <2>3, <2>4 DEF np
  <2>5. CASE q # pos
    <3>1. q \in internal /\ pos \in I
      BY <2>5
    <3>2. CountOnes(I, q) = IF q < pos THEN CountOnes(internal, q) + 1
                            ELSE CountOnes(internal, q)
      BY <1>1, <1>2, <3>1, CountAdd
    <3>3. NhiIndex(q) = CountOnes(internal, q) + 1 /\ CountOnes(internal, q) \in Int
      <4>1. CountOnes(internal, q) \in 0 .. C - 1
        BY <1>2, <3>1, CountRange
      <4> QED BY <4>1 DEF NhiIndex
    <3>4. CASE q < pos
      <4>1. CountOnes(I, pos) < CountOnes(I, q)
        BY <1>2, <3>1, <3>4, CountOrder
      <4>2. i > np /\ i - 1 = NhiIndex(q)
        BY <2>1, <3>2, <3>3, <3>4, <4>1 DEF np
      <4> QED BY <2>3, <2>5, <3>1, <4>2 DEF Inv, RulesInPlace
    <3>5. CASE ~ (q < pos)
      <4>1. q > pos
        BY <1>1, <1>2, <2>5, <3>1, <3>5
      <4>2. CountOnes(I, q) < CountOnes(I, pos)
        BY <1>1, <1>2, <3>1, <4>1, CountOrder
      <4>3. i < np /\ i = NhiIndex(q)
        BY <2>1, <3>2, <3>3, <3>5, <4>2 DEF np
      <4> QED BY <2>3, <2>5, <3>1, <4>3 DEF Inv, RulesInPlace
    <3> QED BY <3>4, <3>5
  <2> QED BY <2>4, <2>5
<1> QED BY <1>2, <1>8, <1>10, <1>11 DEF W, N

\* A next hop is taken out at the index of its bit, and the ones below it move
\* up with theirs.
LEMMA RulesRemoved ==
  ASSUME Inv, NEW pos \in internal, NEW I, I = internal \ {pos}
  PROVE  /\ Cardinality(I) = Cardinality(internal) - 1
         /\ RulesMinus(I, pos) \in [1 .. NODE_WORDS * UP_RULE(Cardinality(I))
                                      -> NHI \cup {NULL}]
         /\ \A q \in I : RulesMinus(I, pos)[CountOnes(I, q) + 1] = rules[q]
<1> DEFINE C == Cardinality(internal)
           N == NODE_WORDS * UP_RULE(Cardinality(I))
           W == RulesMinus(I, pos)
           op == NhiIndex(pos)
<1>1. internal \subseteq EnlPos /\ I \subseteq EnlPos /\ pos \notin I
      /\ internal = I \cup {pos}
  BY BlockOfNode
<1>2. /\ C \in Nat /\ Cardinality(I) = C - 1 /\ C - 1 \in Nat
      /\ IsFiniteSet(internal) /\ IsFiniteSet(I)
      /\ internal \subseteq Int /\ I \subseteq Int /\ pos \in Int
  BY <1>1, ClearBit
<1>3. UP_RULE(C - 1) \in Nat /\ NODE_WORDS * UP_RULE(C - 1) >= C - 1
  BY <1>2, UnitsHoldRules
<1>4. N \in Nat /\ N >= C - 1
  <2>1. NODE_WORDS * UP_RULE(C - 1) \in Nat
    BY <1>3, NodeWordsAssumption
  <2> QED BY <1>2, <1>3, <2>1
<1>5. op \in 1 .. C /\ op = CountOnes(internal, pos) + 1
  BY BlockOfNode DEF NhiIndex
<1>6. \A k \in 1 .. N :
        W[k] = CASE k < op -> block.rule[k]
                 [] k >= op /\ k < C -> block.rule[k + 1]
                 [] OTHER -> NULL
  BY DEF RulesMinus, WordsMinus, WordsOf
<1>7. W = [k \in 1 .. N |-> W[k]]
  BY DEF RulesMinus, WordsMinus, WordsOf
<1> HIDE DEF W, N, op
<1>8. \A k \in 1 .. C : block.rule[k] \in NHI \cup {NULL}
  <2> DEFINE M == NODE_WORDS * UP_RULE(C)
  <2>1. block.rule \in [1 .. M -> NHI \cup {NULL}]
    BY BlockOfNode
  <2>2. UP_RULE(C) \in Nat /\ NODE_WORDS * UP_RULE(C) >= C
    BY <1>2, UnitsHoldRules
  <2>3. M \in Nat /\ M >= C
    BY <2>2, NodeWordsAssumption
  <2> HIDE DEF C, M
  <2> QED BY <1>2, <2>1, <2>3 DEF C
<1>9. \A k \in 1 .. N : W[k] \in NHI \cup {NULL}
  <2> SUFFICES ASSUME NEW k \in 1 .. N
               PROVE  W[k] \in NHI \cup {NULL}
    OBVIOUS
  <2> HIDE DEF C
  <2>1. C \in Nat /\ op \in Int /\ k \in Int /\ k >= 1 /\ op <= C
    BY <1>2, <1>4, <1>5 DEF C
  <2>2. CASE k < op
    BY <1>6, <1>8, <2>1, <2>2
  <2>3. CASE k >= op /\ k < C
    <3>1. W[k] = block.rule[k + 1]
      BY <1>6, <2>1, <2>3
    <3>2. k + 1 \in 1 .. C
      BY <2>1, <2>3
    <3> QED BY <1>8, <3>1, <3>2
  <2>4. CASE k >= op /\ ~ (k < C)
    BY <1>6, <2>1, <2>4
  <2> QED BY <2>1, <2>2, <2>3, <2>4
<1>10. ASSUME NEW q \in I
       PROVE  W[CountOnes(I, q) + 1] = rules[q]
  <2> DEFINE i == CountOnes(I, q) + 1
  <2>1. q \in internal /\ q # pos
    BY <1>1
  <2>2. CountOnes(I, q) \in 0 .. C - 2
    <3>1. CountOnes(I, q) \in 0 .. Cardinality(I) - 1
      BY <1>2, CountRange
    <3> QED BY <1>2, <3>1
  <2>3. CountOnes(internal, q) \in 0 .. C - 1
    BY <1>2, <2>1, CountRange
  <2>4. i \in 1 .. C - 1 /\ i \in 1 .. N /\ i \in Int /\ op \in Int
    BY <1>2, <1>4, <1>5, <2>2
  <2>5. /\ i < op => W[i] = block.rule[i]
        /\ i >= op => W[i] = block.rule[i + 1]
    <3> HIDE DEF i
    <3> QED BY <1>2, <1>6, <2>4
  <2>6. CountOnes(internal, q) = IF q < pos THEN CountOnes(I, q) + 1
                                 ELSE CountOnes(I, q)
    <3>1. CountOnes(I \cup {pos}, q) = IF q < pos THEN CountOnes(I, q) + 1
                                       ELSE CountOnes(I, q)
      BY <1>1, <1>2, CountAdd
    <3> QED BY <1>1, <3>1
  <2>7. CASE q < pos
    <3>1. CountOnes(internal, pos) < CountOnes(internal, q)
      BY <1>2, <2>1, <2>7, CountOrder
    <3>2. CountOnes(internal, pos) \in 0 .. C - 1
      BY <1>2, CountRange
    <3>3. i >= op /\ i + 1 = NhiIndex(q)
      BY <1>5, <2>2, <2>3, <2>6, <2>7, <3>1, <3>2 DEF NhiIndex
    <3> QED BY <2>1, <2>5, <3>3 DEF Inv, RulesInPlace
  <2>8. CASE ~ (q < pos)
    <3>1. q > pos
      BY <1>2, <2>1, <2>8
    <3>2. CountOnes(internal, q) < CountOnes(internal, pos)
      BY <1>2, <2>1, <3>1, CountOrder
    <3>3. CountOnes(internal, pos) \in 0 .. C - 1
      BY <1>2, CountRange
    <3>4. i < op /\ i = NhiIndex(q)
      BY <1>5, <2>2, <2>3, <2>6, <2>8, <3>2, <3>3 DEF NhiIndex
    <3> QED BY <2>1, <2>5, <3>4 DEF Inv, RulesInPlace
  <2> QED BY <2>7, <2>8
<1> QED BY <1>2, <1>7, <1>9, <1>10 DEF W, N

\* The same for a new child
LEMMA KidsAdded ==
  ASSUME Inv, NEW pos \in EnlPos, pos \notin external,
         NEW E, E = external \cup {pos}
  PROVE  /\ Cardinality(E) = Cardinality(external) + 1
         /\ KidsPlus(E, pos) \in [0 .. Cardinality(E) - 1 -> Kid]
         /\ \A q \in E : KidsPlus(E, pos)[CountOnes(E, q)] =
                           IF q = pos THEN EmptyKid ELSE kids[q]
<1> DEFINE C == Cardinality(external)
           K == KidsPlus(E, pos)
           np == CountOnes(E, pos)
<1>1. E \subseteq EnlPos /\ pos \in E /\ external \subseteq EnlPos
  BY BlockOfNode
<1>2. /\ C \in Nat /\ Cardinality(E) = C + 1
      /\ IsFiniteSet(external) /\ IsFiniteSet(E)
      /\ external \subseteq Int /\ E \subseteq Int /\ pos \in Int
  BY <1>1, SetBit
<1>3. np \in 0 .. C
  <2>1. CountOnes(E, pos) \in 0 .. Cardinality(E) - 1
    BY <1>1, <1>2, CountRange
  <2> QED BY <1>2, <2>1
<1>4. \A k \in 0 .. C :
        K[k] = CASE k < np -> block.kid[k]
                 [] k = np -> EmptyKid
                 [] OTHER -> block.kid[k - 1]
  BY <1>2 DEF KidsPlus, NodesPlus, NodesOf
<1>5. K = [k \in 0 .. C |-> K[k]]
  BY <1>2 DEF KidsPlus, NodesPlus, NodesOf
<1> HIDE DEF K, np
<1>6. \A k \in 0 .. C - 1 : block.kid[k] \in Kid
  <2>1. C > 0 => external # {}
    BY <1>2, FS_EmptySet
  <2>2. C > 0 => block.kid \in [0 .. C - 1 -> Kid]
    BY <2>1, BlockOfNode
  <2> HIDE DEF C
  <2> QED BY <1>2, <2>2 DEF C
<1>7. \A k \in 0 .. C : K[k] \in Kid
  <2> SUFFICES ASSUME NEW k \in 0 .. C
               PROVE  K[k] \in Kid
    OBVIOUS
  <2> HIDE DEF C
  <2>1. C \in Nat /\ np \in Int /\ k \in Int /\ np <= C /\ 0 <= np
    BY <1>2, <1>3 DEF C
  <2>2. CASE k < np
    BY <1>4, <1>6, <2>1, <2>2
  <2>3. CASE k = np
    BY <1>4, <2>1, <2>3, KidAssumption
  <2>4. CASE k > np
    <3>1. K[k] = block.kid[k - 1]
      BY <1>4, <2>1, <2>4
    <3>2. k - 1 \in 0 .. C - 1
      BY <2>1, <2>4
    <3> QED BY <1>6, <3>1, <3>2
  <2> QED BY <2>1, <2>2, <2>3, <2>4
<1>8. ASSUME NEW q \in E
      PROVE  K[CountOnes(E, q)] = IF q = pos THEN EmptyKid ELSE kids[q]
  <2> DEFINE i == CountOnes(E, q)
  <2>1. i \in 0 .. C
    <3>1. CountOnes(E, q) \in 0 .. Cardinality(E) - 1
      BY <1>2, CountRange
    <3> QED BY <1>2, <3>1
  <2>2. /\ i < np => K[i] = block.kid[i]
        /\ i = np => K[i] = EmptyKid
        /\ i > np => K[i] = block.kid[i - 1]
    <3> HIDE DEF i
    <3> QED BY <1>2, <1>3, <1>4, <2>1
  <2>3. CASE q = pos
    BY <2>2, <2>3 DEF np
  <2>4. CASE q # pos
    <3>1. q \in external
      BY <2>4
    <3>2. CountOnes(E, q) = IF q < pos THEN CountOnes(external, q) + 1
                            ELSE CountOnes(external, q)
      BY <1>2, <3>1, CountAdd
    <3>3. CountOnes(external, q) \in 0 .. C - 1
      BY <1>2, <3>1, CountRange
    <3>4. CASE q < pos
      <4>1. CountOnes(E, pos) < CountOnes(E, q)
        BY <1>1, <1>2, <3>4, CountOrder
      <4>2. i > np /\ i - 1 = KidIndex(q)
        BY <3>2, <3>3, <3>4, <4>1, <1>3, <2>1 DEF np, KidIndex
      <4> QED BY <2>2, <2>4, <3>1, <4>2 DEF Inv, KidsInPlace
    <3>5. CASE ~ (q < pos)
      <4>1. q > pos
        BY <1>2, <2>4, <3>5
      <4>2. CountOnes(E, q) < CountOnes(E, pos)
        BY <1>1, <1>2, <4>1, CountOrder
      <4>3. i < np /\ i = KidIndex(q)
        BY <3>2, <3>5, <4>2 DEF np, KidIndex
      <4> QED BY <2>2, <2>4, <3>1, <4>3 DEF Inv, KidsInPlace
    <3> QED BY <3>4, <3>5
  <2> QED BY <2>3, <2>4
<1> QED
  <2>1. Cardinality(E) - 1 = C
    BY <1>2
  <2> QED BY <1>2, <1>5, <1>7, <1>8, <2>1 DEF K

\* and for one that is taken out.
LEMMA KidsRemoved ==
  ASSUME Inv, NEW pos \in external, NEW E, E = external \ {pos}
  PROVE  /\ Cardinality(E) = Cardinality(external) - 1
         /\ KidsMinus(E, pos) \in [0 .. Cardinality(E) - 1 -> Kid]
         /\ \A q \in E : KidsMinus(E, pos)[CountOnes(E, q)] = kids[q]
<1> DEFINE C == Cardinality(external)
           K == KidsMinus(E, pos)
           op == KidIndex(pos)
<1>1. /\ external \subseteq EnlPos /\ E \subseteq EnlPos /\ pos \notin E
      /\ external = E \cup {pos}
  BY BlockOfNode
<1>2. /\ C \in Nat /\ Cardinality(E) = C - 1 /\ C - 1 \in Nat
      /\ IsFiniteSet(external) /\ IsFiniteSet(E)
      /\ external \subseteq Int /\ E \subseteq Int /\ pos \in Int
  BY <1>1, ClearBit
<1>3. op \in 0 .. C - 1 /\ op = CountOnes(external, pos)
  BY BlockOfNode DEF KidIndex
<1>4. \A k \in 0 .. C - 2 :
        K[k] = IF k < op THEN block.kid[k] ELSE block.kid[k + 1]
  <2>1. Cardinality(E) - 1 = C - 2
    BY <1>2
  <2> QED BY <2>1 DEF KidsMinus, NodesMinus, NodesOf
<1>5. K = [k \in 0 .. C - 2 |-> K[k]]
  <2>1. Cardinality(E) - 1 = C - 2
    BY <1>2
  <2> QED BY <2>1 DEF KidsMinus, NodesMinus, NodesOf
<1> HIDE DEF K, op
<1>6. block.kid \in [0 .. C - 1 -> Kid]
  BY BlockOfNode
<1>7. \A k \in 0 .. C - 2 : K[k] \in Kid
  <2> HIDE DEF C
  <2>1. \A k \in 0 .. C - 2 : k \in 0 .. C - 1 /\ k + 1 \in 0 .. C - 1
    BY <1>2 DEF C
  <2> QED BY <1>4, <1>6, <2>1
<1>8. ASSUME NEW q \in E
      PROVE  K[CountOnes(E, q)] = kids[q]
  <2> DEFINE i == CountOnes(E, q)
  <2>1. q \in external /\ q # pos
    BY <1>1
  <2>2. i \in 0 .. C - 2
    <3>1. CountOnes(E, q) \in 0 .. Cardinality(E) - 1
      BY <1>2, CountRange
    <3> QED BY <1>2, <3>1
  <2>3. CountOnes(external, q) \in 0 .. C - 1
    BY <1>2, <2>1, CountRange
  <2>4. K[i] = IF i < op THEN block.kid[i] ELSE block.kid[i + 1]
    <3> HIDE DEF i
    <3> QED BY <1>4, <2>2
  <2>5. CountOnes(external, q) = IF q < pos THEN CountOnes(E, q) + 1
                                 ELSE CountOnes(E, q)
    <3>1. CountOnes(E \cup {pos}, q) = IF q < pos THEN CountOnes(E, q) + 1
                                       ELSE CountOnes(E, q)
      BY <1>1, <1>2, CountAdd
    <3> QED BY <1>1, <3>1
  <2>6. CASE q < pos
    <3>1. CountOnes(external, pos) < CountOnes(external, q)
      BY <1>2, <2>1, <2>6, CountOrder
    <3>2. ~ (i < op) /\ i + 1 = KidIndex(q)
      BY <1>3, <2>2, <2>3, <2>5, <2>6, <3>1 DEF KidIndex
    <3> QED BY <2>1, <2>4, <3>2 DEF Inv, KidsInPlace
  <2>7. CASE ~ (q < pos)
    <3>1. q > pos
      BY <1>2, <2>1, <2>7
    <3>2. CountOnes(external, q) < CountOnes(external, pos)
      BY <1>2, <2>1, <3>1, CountOrder
    <3>3. i < op /\ i = KidIndex(q)
      BY <1>3, <2>5, <2>7, <3>2 DEF KidIndex
    <3> QED BY <2>1, <2>4, <3>3 DEF Inv, KidsInPlace
  <2> QED BY <2>6, <2>7
<1> QED
  <2>1. Cardinality(E) - 1 = C - 2
    BY <1>2
  <2> QED BY <1>2, <1>5, <1>7, <1>8, <2>1 DEF K

-----------------------------------------------------------------------------
\* The four rebuilds: each moves the node to the block its bitmaps ask for.
LEMMA ExtendRuleMakes ==
  ASSUME NEW pos, NEW nhi, ExtendRule(pos, nhi),
         Cardinality(internal') = Cardinality(internal) + 1
  PROVE  \E n :
           /\ n = [units |-> UnitsOf(Cardinality(external'), Cardinality(internal')),
                   low |-> UP_RULE(Cardinality(internal')),
                   rule |-> RulesPlus(internal', pos, nhi), kid |-> KeptKids]
           /\ Replace(n, UP_RULE(Cardinality(internal)),
                      UnitsOf(Cardinality(external), Cardinality(internal)))
<1> DEFINE C == Cardinality(external)
           D == Cardinality(internal)
           np == CountOnes(internal', pos) + 1
           m == SameKids(NewBlock(C, D + 1), block)
           n == RulesWith(m, block, D, np, nhi)
<1>1. Replace(n, UP_RULE(D), UnitsOf(C, D)) /\ external' = external
  BY DEF ExtendRule
<1>2. m = [units |-> UnitsOf(C, D + 1), low |-> UP_RULE(D + 1),
           rule |-> ZeroWords(WordsOf(D + 1)), kid |-> KeptKids]
  BY NewBlockIsZero, CopyKids DEF KeptKids, WordsOf, NodesOf
<1> HIDE DEF m
<1>3. n = [units |-> UnitsOf(C, D + 1), low |-> UP_RULE(D + 1), kid |-> KeptKids,
           rule |-> WordsPlus(WordsOf(D + 1), block, D, np, nhi)]
  BY <1>2, CopyRules
<1> QED BY <1>1, <1>3 DEF RulesPlus

\* The block that reduce_rule makes,
LEMMA ReduceRuleMakes ==
  ASSUME NEW pos, ReduceRule(pos),
         Cardinality(internal') = Cardinality(internal) - 1
  PROVE  \E n :
           /\ n = [units |-> UnitsOf(Cardinality(external'), Cardinality(internal')),
                   low |-> UP_RULE(Cardinality(internal')),
                   rule |-> RulesMinus(internal', pos), kid |-> KeptKids]
           /\ Replace(n, UP_RULE(Cardinality(internal)),
                      UnitsOf(Cardinality(external), Cardinality(internal)))
<1> DEFINE C == Cardinality(external)
           D == Cardinality(internal)
           m == SameKids(NewBlock(C, D - 1), block)
           n == RulesWithout(m, block, D, NhiIndex(pos))
<1>1. Replace(n, UP_RULE(D), UnitsOf(C, D)) /\ external' = external
  BY DEF ReduceRule
<1>2. m = [units |-> UnitsOf(C, D - 1), low |-> UP_RULE(D - 1),
           rule |-> ZeroWords(WordsOf(D - 1)), kid |-> KeptKids]
  BY NewBlockIsZero, CopyKids DEF KeptKids, WordsOf, NodesOf
<1> HIDE DEF m
<1>3. n = [units |-> UnitsOf(C, D - 1), low |-> UP_RULE(D - 1), kid |-> KeptKids,
           rule |-> WordsMinus(WordsOf(D - 1), block, D, NhiIndex(pos))]
  BY <1>2, CopyRules
<1> QED BY <1>1, <1>3 DEF RulesMinus

\* that extend_child makes,
LEMMA ExtendChildMakes ==
  ASSUME NEW pos, ExtendChild(pos),
         Cardinality(external') = Cardinality(external) + 1
  PROVE  \E n :
           /\ n = [units |-> UnitsOf(Cardinality(external'), Cardinality(internal')),
                   low |-> UP_RULE(Cardinality(internal')),
                   rule |-> KeptRules, kid |-> KidsPlus(external', pos)]
           /\ Replace(n, UP_RULE(Cardinality(internal)),
                      UnitsOf(Cardinality(external), Cardinality(internal)))
<1> DEFINE C == Cardinality(external)
           D == Cardinality(internal)
           np == CountOnes(external', pos)
           m == SameRules(NewBlock(C + 1, D), block, D)
           n == KidsWith(m, block, np)
<1>1. Replace(n, UP_RULE(D), UnitsOf(C, D)) /\ internal' = internal
  BY DEF ExtendChild
<1>2. m = [units |-> UnitsOf(C + 1, D), low |-> UP_RULE(D),
           rule |-> KeptRules, kid |-> ZeroNodes(NodesOf(C + 1))]
  BY NewBlockIsZero, CopyRules DEF KeptRules, WordsOf, NodesOf
<1> HIDE DEF m
<1>3. n = [units |-> UnitsOf(C + 1, D), low |-> UP_RULE(D), rule |-> KeptRules,
           kid |-> NodesPlus(NodesOf(C + 1), block, np)]
  BY <1>2, CopyKids
<1> QED BY <1>1, <1>3 DEF KidsPlus

\* and that reduce_child makes.
LEMMA ReduceChildMakes ==
  ASSUME NEW pos, ReduceChild(pos),
         Cardinality(external') = Cardinality(external) - 1
  PROVE  \E n :
           /\ n = [units |-> UnitsOf(Cardinality(external'), Cardinality(internal')),
                   low |-> UP_RULE(Cardinality(internal')),
                   rule |-> KeptRules, kid |-> KidsMinus(external', pos)]
           /\ Replace(n, UP_RULE(Cardinality(internal)),
                      UnitsOf(Cardinality(external), Cardinality(internal)))
<1> DEFINE C == Cardinality(external)
           D == Cardinality(internal)
           m == SameRules(NewBlock(C - 1, D), block, D)
           n == KidsWithout(m, block, KidIndex(pos))
<1>1. Replace(n, UP_RULE(D), UnitsOf(C, D)) /\ internal' = internal
  BY DEF ReduceChild
<1>2. m = [units |-> UnitsOf(C - 1, D), low |-> UP_RULE(D),
           rule |-> KeptRules, kid |-> ZeroNodes(NodesOf(C - 1))]
  BY NewBlockIsZero, CopyRules DEF KeptRules, WordsOf, NodesOf
<1> HIDE DEF m
<1>3. n = [units |-> UnitsOf(C - 1, D), low |-> UP_RULE(D), rule |-> KeptRules,
           kid |-> NodesMinus(NodesOf(C - 1), block, KidIndex(pos))]
  BY <1>2, CopyKids
<1> QED BY <1>1, <1>3 DEF KidsMinus

\* They keep the invariant, and the statistics in step with the memory in use.
LEMMA ExtendRuleStep ==
  ASSUME Inv, NEW pos \in InlPos, NEW nhi \in NHI, ExtendRule(pos, nhi)
  PROVE  Inv' /\ ms_node' - ms_node = UnitsInUse' - UnitsInUse
<1>1. /\ pos \notin internal /\ internal' = internal \cup {pos}
      /\ rules' = [k \in internal' |-> IF k = pos THEN nhi ELSE rules[k]]
      /\ external' = external /\ kids' = kids
  BY DEF ExtendRule
<1>2. /\ Cardinality(internal') = Cardinality(internal) + 1
      /\ RulesPlus(internal', pos, nhi)
           \in [1 .. NODE_WORDS * UP_RULE(Cardinality(internal')) -> NHI \cup {NULL}]
      /\ \A q \in internal' :
           RulesPlus(internal', pos, nhi)[CountOnes(internal', q) + 1] = rules'[q]
  BY <1>1, RulesAdded
<1>3. /\ KeptKids \in [0 .. Cardinality(external') - 1 -> Kid]
      /\ \A q \in external' : KeptKids[CountOnes(external', q)] = kids'[q]
  BY <1>1, KidsKept
<1>4. /\ internal' \subseteq InlPos /\ external' \subseteq EnlPos
      /\ rules' \in [internal' -> NHI] /\ kids' \in [external' -> Kid]
  BY <1>1 DEF Inv, TypeOK
<1>5. PICK n :
        /\ n = [units |-> UnitsOf(Cardinality(external'), Cardinality(internal')),
                low |-> UP_RULE(Cardinality(internal')),
                rule |-> RulesPlus(internal', pos, nhi), kid |-> KeptKids]
        /\ Replace(n, UP_RULE(Cardinality(internal)),
                   UnitsOf(Cardinality(external), Cardinality(internal)))
  BY <1>2, ExtendRuleMakes
<1> QED BY <1>2, <1>3, <1>4, <1>5, RebuildKeepsInv

\* reduce_rule keeps the invariant and counts what it changes.
LEMMA ReduceRuleStep ==
  ASSUME Inv, NEW pos \in InlPos, ReduceRule(pos)
  PROVE  Inv' /\ ms_node' - ms_node = UnitsInUse' - UnitsInUse
<1>1. /\ pos \in internal /\ internal' = internal \ {pos}
      /\ rules' = [k \in internal' |-> rules[k]]
      /\ external' = external /\ kids' = kids
  BY DEF ReduceRule
<1>2. /\ Cardinality(internal') = Cardinality(internal) - 1
      /\ RulesMinus(internal', pos)
           \in [1 .. NODE_WORDS * UP_RULE(Cardinality(internal')) -> NHI \cup {NULL}]
      /\ \A q \in internal' :
           RulesMinus(internal', pos)[CountOnes(internal', q) + 1] = rules'[q]
  BY <1>1, RulesRemoved
<1>3. /\ KeptKids \in [0 .. Cardinality(external') - 1 -> Kid]
      /\ \A q \in external' : KeptKids[CountOnes(external', q)] = kids'[q]
  BY <1>1, KidsKept
<1>4. /\ internal' \subseteq InlPos /\ external' \subseteq EnlPos
      /\ rules' \in [internal' -> NHI] /\ kids' \in [external' -> Kid]
  BY <1>1 DEF Inv, TypeOK
<1> QED BY <1>2, <1>3, <1>4, ReduceRuleMakes, RebuildKeepsInv

\* So does extend_child,
LEMMA ExtendChildStep ==
  ASSUME Inv, NEW pos \in EnlPos, ExtendChild(pos)
  PROVE  Inv' /\ ms_node' - ms_node = UnitsInUse' - UnitsInUse
<1>1. /\ pos \notin external /\ external' = external \cup {pos}
      /\ kids' = [k \in external' |-> IF k = pos THEN EmptyKid ELSE kids[k]]
      /\ internal' = internal /\ rules' = rules
  BY DEF ExtendChild
<1>2. /\ Cardinality(external') = Cardinality(external) + 1
      /\ KidsPlus(external', pos) \in [0 .. Cardinality(external') - 1 -> Kid]
      /\ \A q \in external' :
           KidsPlus(external', pos)[CountOnes(external', q)] = kids'[q]
  BY <1>1, KidsAdded
<1>3. /\ KeptRules \in [1 .. NODE_WORDS * UP_RULE(Cardinality(internal'))
                          -> NHI \cup {NULL}]
      /\ \A q \in internal' : KeptRules[CountOnes(internal', q) + 1] = rules'[q]
  BY <1>1, RulesKept
<1>4. /\ internal' \subseteq InlPos /\ external' \subseteq EnlPos
      /\ rules' \in [internal' -> NHI] /\ kids' \in [external' -> Kid]
  BY <1>1, KidAssumption DEF Inv, TypeOK
<1> QED BY <1>2, <1>3, <1>4, ExtendChildMakes, RebuildKeepsInv

\* and reduce_child.
LEMMA ReduceChildStep ==
  ASSUME Inv, NEW pos \in EnlPos, ReduceChild(pos)
  PROVE  Inv' /\ ms_node' - ms_node = UnitsInUse' - UnitsInUse
<1>1. /\ pos \in external /\ external' = external \ {pos}
      /\ kids' = [k \in external' |-> kids[k]]
      /\ internal' = internal /\ rules' = rules
  BY DEF ReduceChild
<1>2. /\ Cardinality(external') = Cardinality(external) - 1
      /\ KidsMinus(external', pos) \in [0 .. Cardinality(external') - 1 -> Kid]
      /\ \A q \in external' :
           KidsMinus(external', pos)[CountOnes(external', q)] = kids'[q]
  BY <1>1, KidsRemoved
<1>3. /\ KeptRules \in [1 .. NODE_WORDS * UP_RULE(Cardinality(internal'))
                          -> NHI \cup {NULL}]
      /\ \A q \in internal' : KeptRules[CountOnes(internal', q) + 1] = rules'[q]
  BY <1>1, RulesKept
<1>4. /\ internal' \subseteq InlPos /\ external' \subseteq EnlPos
      /\ rules' \in [internal' -> NHI] /\ kids' \in [external' -> Kid]
  BY <1>1 DEF Inv, TypeOK
<1> QED BY <1>2, <1>3, <1>4, ReduceChildMakes, RebuildKeepsInv

-----------------------------------------------------------------------------
\* Where a node has a bit, it has a block.
LEMMA BlockIsThere ==
  ASSUME Inv, child_ptr # NULL
  PROVE  /\ DOMAIN heap = {child_ptr} /\ child_ptr \in Block
         /\ heap = [b \in {child_ptr} |-> block]
         /\ IsBlock(block)
<1>1. DOMAIN heap = {child_ptr} /\ child_ptr \in Block
  BY DEF Inv, TypeOK, BlockFitsBitmaps
<1>2. heap = [b \in DOMAIN heap |-> heap[b]] /\ IsBlock(block)
  BY <1>1 DEF Inv, TypeOK, block
<1>3. heap = [b \in {child_ptr} |-> block]
  BY <1>1, <1>2 DEF block
<1> QED BY <1>1, <1>2, <1>3

\* A step that changes what the block holds keeps the invariant when it leaves
\* its shape alone and keeps it in line with the bitmaps.
LEMMA BlockWritten ==
  ASSUME Inv, child_ptr # NULL, NEW R, NEW K,
         heap' = [b \in {child_ptr} |->
                    [units |-> block.units, low |-> block.low,
                     rule |-> R, kid |-> K]],
         R \in [DOMAIN block.rule -> NHI \cup {NULL}],
         K \in [DOMAIN block.kid -> Kid],
         node' = node, ms_node' = ms_node,
         rules' \in [internal -> NHI], kids' \in [external -> Kid],
         \A q \in internal : R[NhiIndex(q)] = rules'[q],
         \A q \in external : K[KidIndex(q)] = kids'[q]
  PROVE  Inv' /\ UnitsInUse' = UnitsInUse
<1> DEFINE n == [units |-> block.units, low |-> block.low, rule |-> R, kid |-> K]
<1>1. /\ internal' = internal /\ external' = external /\ child_ptr' = child_ptr
  BY DEF node
<1>2. DOMAIN heap' = {child_ptr} /\ block' = n
  BY <1>1 DEF block
<1>3. /\ DOMAIN heap = {child_ptr} /\ child_ptr \in Block /\ IsBlock(block)
  BY BlockIsThere
<1>4. /\ block'.units = block.units /\ block'.low = block.low
      /\ block'.rule = R /\ block'.kid = K
  BY <1>2
<1>5. IsBlock(block')
  <2>1. /\ block.units \in Nat /\ block.low \in Nat
        /\ DOMAIN block.rule = 1 .. NODE_WORDS * block.low
        /\ DOMAIN block.kid = 0 .. block.units - block.low - 1
    BY <1>3 DEF IsBlock
  <2> QED BY <1>2, <1>4, <2>1 DEF IsBlock
<1>6. TypeOK'
  <2>1. heap' = [b \in DOMAIN heap' |-> heap'[b]]
    BY <1>2
  <2>2. \A b \in DOMAIN heap' : IsBlock(heap'[b])
    BY <1>1, <1>2, <1>5 DEF block
  <2> QED BY <1>1, <1>2, <1>3, <2>1, <2>2 DEF Inv, TypeOK, IsBlock
<1>7. RulesInPlace' /\ KidsInPlace'
  BY <1>1, <1>4 DEF RulesInPlace, KidsInPlace, NhiIndex, KidIndex
<1>8. BlockFitsBitmaps'
  BY <1>1, <1>2, <1>3, <1>4 DEF Inv, BlockFitsBitmaps
<1>9. UnitsInUse' = UnitsInUse
  BY <1>1, <1>4 DEF UnitsInUse
<1> QED BY <1>6, <1>7, <1>8, <1>9 DEF Inv

\* A next hop overwritten in place changes no size,
LEMMA UpdateRuleStep ==
  ASSUME Inv, NEW pos \in InlPos, NEW nhi \in NHI, UpdateRule(pos, nhi)
  PROVE  Inv' /\ UnitsInUse' = UnitsInUse
<1> DEFINE R == [block.rule EXCEPT ![NhiIndex(pos)] = nhi]
<1>1. /\ pos \in internal
      /\ heap' = [heap EXCEPT ![child_ptr].rule[NhiIndex(pos)] = nhi]
      /\ rules' = [rules EXCEPT ![pos] = nhi]
      /\ node' = node /\ ms_node' = ms_node /\ kids' = kids
  BY DEF UpdateRule
<1>2. child_ptr # NULL
  BY <1>1, BlockOfNode
<1>3. /\ DOMAIN heap = {child_ptr} /\ heap = [b \in {child_ptr} |-> block]
      /\ IsBlock(block)
  BY <1>2, BlockIsThere
<1>4. heap' = [b \in {child_ptr} |->
                 [units |-> block.units, low |-> block.low,
                  rule |-> R, kid |-> block.kid]]
  <2>1. heap' = [b \in {child_ptr} |-> [block EXCEPT !.rule = R]]
    BY <1>1, <1>3 DEF block
  <2>2. [block EXCEPT !.rule = R] = [units |-> block.units, low |-> block.low,
                                     rule |-> R, kid |-> block.kid]
    <3> HIDE DEF R
    <3> QED BY <1>3 DEF IsBlock
  <2> HIDE DEF R
  <2> QED BY <2>1, <2>2
<1>5. /\ block.rule \in [DOMAIN block.rule -> NHI \cup {NULL}]
      /\ block.kid \in [DOMAIN block.kid -> Kid]
  BY <1>3 DEF IsBlock
<1>6. NhiIndex(pos) \in DOMAIN block.rule
  <2>1. Cardinality(internal) \in Nat
    BY BlockOfNode, BitmapIsFinite
  <2>2. /\ UP_RULE(Cardinality(internal)) \in Nat
        /\ NODE_WORDS * UP_RULE(Cardinality(internal)) >= Cardinality(internal)
    BY <2>1, UnitsHoldRules
  <2>3. DOMAIN block.rule = 1 .. NODE_WORDS * UP_RULE(Cardinality(internal))
    BY <1>2, BlockOfNode
  <2>4. NhiIndex(pos) \in 1 .. Cardinality(internal)
    BY <1>1, BlockOfNode
  <2>5. NODE_WORDS * UP_RULE(Cardinality(internal)) \in Nat
    BY <2>2, NodeWordsAssumption
  <2> QED BY <2>1, <2>2, <2>3, <2>4, <2>5
<1>7. R \in [DOMAIN block.rule -> NHI \cup {NULL}]
  BY <1>5
<1>8. \A q \in internal : R[NhiIndex(q)] = rules'[q]
  <2> SUFFICES ASSUME NEW q \in internal
               PROVE  R[NhiIndex(q)] = rules'[q]
    OBVIOUS
  <2>1. NhiIndex(q) \in DOMAIN block.rule => R[NhiIndex(q)] =
          IF NhiIndex(q) = NhiIndex(pos) THEN nhi ELSE block.rule[NhiIndex(q)]
    OBVIOUS
  <2>2. rules'[q] = IF q = pos THEN nhi ELSE rules[q]
    BY <1>1 DEF Inv, TypeOK
  <2>3. block.rule[NhiIndex(q)] = rules[q]
    BY DEF Inv, RulesInPlace
  <2>4. q # pos => NhiIndex(q) # NhiIndex(pos)
    BY <1>1, BitsHaveTheirIndex
  <2> QED BY <2>1, <2>2, <2>3, <2>4, <1>6
<1>9. rules' \in [internal -> NHI] /\ kids' \in [external -> Kid]
  BY <1>1 DEF Inv, TypeOK
<1>10. \A q \in external : block.kid[KidIndex(q)] = kids'[q]
  BY <1>1 DEF Inv, KidsInPlace
<1>11. node' = node /\ ms_node' = ms_node
  BY <1>1
<1> HIDE DEF R
<1> QED BY <1>2, <1>4, <1>5, <1>7, <1>8, <1>9, <1>10, <1>11, BlockWritten

\* nor does an update below the node.
LEMMA ChangeChildStep ==
  ASSUME Inv, NEW pos \in EnlPos, NEW kid \in Kid, ChangeChild(pos, kid)
  PROVE  Inv' /\ UnitsInUse' = UnitsInUse
<1> DEFINE K == [block.kid EXCEPT ![KidIndex(pos)] = kid]
<1>1. /\ pos \in external
      /\ heap' = [heap EXCEPT ![child_ptr].kid[KidIndex(pos)] = kid]
      /\ kids' = [kids EXCEPT ![pos] = kid]
      /\ node' = node /\ ms_node' = ms_node /\ rules' = rules
  BY DEF ChangeChild
<1>2. child_ptr # NULL
  BY <1>1, BlockOfNode
<1>3. /\ DOMAIN heap = {child_ptr} /\ heap = [b \in {child_ptr} |-> block]
      /\ IsBlock(block)
  BY <1>2, BlockIsThere
<1>4. heap' = [b \in {child_ptr} |->
                 [units |-> block.units, low |-> block.low,
                  rule |-> block.rule, kid |-> K]]
  <2>1. heap' = [b \in {child_ptr} |-> [block EXCEPT !.kid = K]]
    BY <1>1, <1>3 DEF block
  <2>2. [block EXCEPT !.kid = K] = [units |-> block.units, low |-> block.low,
                                    rule |-> block.rule, kid |-> K]
    <3> HIDE DEF K
    <3> QED BY <1>3 DEF IsBlock
  <2> HIDE DEF K
  <2> QED BY <2>1, <2>2
<1>5. /\ block.rule \in [DOMAIN block.rule -> NHI \cup {NULL}]
      /\ block.kid \in [DOMAIN block.kid -> Kid]
  BY <1>3 DEF IsBlock
<1>6. \A q \in external : KidIndex(q) \in DOMAIN block.kid
  BY <1>2, BlockOfNode
<1>7. K \in [DOMAIN block.kid -> Kid]
  BY <1>5
<1>8. \A q \in external : K[KidIndex(q)] = kids'[q]
  <2> SUFFICES ASSUME NEW q \in external
               PROVE  K[KidIndex(q)] = kids'[q]
    OBVIOUS
  <2>1. K[KidIndex(q)] =
          IF KidIndex(q) = KidIndex(pos) THEN kid ELSE block.kid[KidIndex(q)]
    BY <1>6
  <2>2. kids'[q] = IF q = pos THEN kid ELSE kids[q]
    BY <1>1 DEF Inv, TypeOK
  <2>3. block.kid[KidIndex(q)] = kids[q]
    BY DEF Inv, KidsInPlace
  <2>4. q # pos => KidIndex(q) # KidIndex(pos)
    BY <1>1, BitsHaveTheirIndex
  <2> QED BY <2>1, <2>2, <2>3, <2>4
<1>9. rules' \in [internal -> NHI] /\ kids' \in [external -> Kid]
  BY <1>1 DEF Inv, TypeOK
<1>10. \A q \in internal : block.rule[NhiIndex(q)] = rules'[q]
  BY <1>1 DEF Inv, RulesInPlace
<1> HIDE DEF K
<1> QED BY <1>1, <1>2, <1>4, <1>5, <1>7, <1>8, <1>9, <1>10, BlockWritten

\* destroy_subtrie frees the block, and takes no more from the statistics than
\* it had.
LEMMA DestroySubtrieStep ==
  ASSUME Inv, DestroySubtrie
  PROVE  Inv' /\ child_ptr' = NULL
<1> DEFINE D == Cardinality(internal)
<1>1. /\ internal' = {} /\ external' = {} /\ child_ptr' = NULL
      /\ heap' = [b \in DOMAIN heap \ Freed(UP_RULE(D)) |-> heap[b]]
      /\ ms_node' = ms_node - (IF child_ptr = NULL THEN 0
                               ELSE UnitsOf(Cardinality(external'), D))
      /\ rules' = [pos \in {} |-> NULL] /\ kids' = [pos \in {} |-> EmptyKid]
  BY DEF DestroySubtrie
<1>2. DOMAIN heap \ Freed(UP_RULE(D)) = {}
  BY DEF Inv, BlockFitsBitmaps, Freed, block
<1>3. heap' = [b \in {} |-> heap[b]] /\ DOMAIN heap' = {}
  BY <1>1, <1>2
<1>4. ms_node' \in Nat
  <2>1. D \in Nat /\ Cardinality(external) \in Nat
    BY BlockOfNode, BitmapIsFinite
  <2>2. UP_RULE(D) \in Nat
    BY <2>1, UnitsHoldRules
  <2>3. Cardinality(external') = 0
    BY <1>1, FS_EmptySet
  <2>4. UnitsOf(Cardinality(external'), D) = UP_RULE(D)
    BY <2>2, <2>3 DEF UnitsOf, UP_CHILD
  <2>5. ms_node \in Nat
    BY DEF Inv, TypeOK
  <2>6. child_ptr # NULL => ms_node >= UP_RULE(D)
    <3>1. child_ptr # NULL => UnitsInUse = UnitsOf(Cardinality(external), D)
      BY DEF Inv, BlockFitsBitmaps, UnitsInUse
    <3> HIDE DEF D
    <3>2. UnitsOf(Cardinality(external), D) = Cardinality(external) + UP_RULE(D)
      BY DEF UnitsOf, UP_CHILD
    <3> QED BY <2>1, <2>2, <2>5, <3>1, <3>2 DEF Inv
  <2> HIDE DEF D
  <2> QED BY <1>1, <2>2, <2>4, <2>5, <2>6
<1>5. TypeOK'
  BY <1>1, <1>3, <1>4 DEF TypeOK
<1>6. RulesInPlace' /\ KidsInPlace' /\ BlockFitsBitmaps'
  BY <1>1, <1>3 DEF RulesInPlace, KidsInPlace, BlockFitsBitmaps
<1>7. ms_node' >= UnitsInUse'
  BY <1>1, <1>4 DEF UnitsInUse
<1> QED BY <1>1, <1>5, <1>6, <1>7 DEF Inv

-----------------------------------------------------------------------------
\* The invariant holds at the start,
LEMMA InitInv == Init => Inv
<1> SUFFICES ASSUME Init
             PROVE  Inv
  OBVIOUS
<1>1. DOMAIN heap = {}
  BY DEF Init
<1>2. heap = [b \in DOMAIN heap |-> heap[b]]
  BY <1>1 DEF Init
<1>3. TypeOK
  BY <1>1, <1>2 DEF Init, TypeOK
<1> QED BY <1>1, <1>3 DEF Init, Inv, RulesInPlace, KidsInPlace, BlockFitsBitmaps,
                          UnitsInUse

\* and every step keeps it.
LEMMA StepInv == Inv /\ [Next]_vars => Inv'
<1> SUFFICES ASSUME Inv, [Next]_vars
             PROVE  Inv'
  OBVIOUS
<1>1. ASSUME NEW pos \in InlPos, NEW nhi \in NHI, ExtendRule(pos, nhi)
      PROVE  Inv'
  BY <1>1, ExtendRuleStep
<1>2. ASSUME NEW pos \in InlPos, NEW nhi \in NHI, UpdateRule(pos, nhi)
      PROVE  Inv'
  BY <1>2, UpdateRuleStep
<1>3. ASSUME NEW pos \in EnlPos, ExtendChild(pos)
      PROVE  Inv'
  BY <1>3, ExtendChildStep
<1>4. ASSUME NEW pos \in EnlPos, NEW kid \in Kid, ChangeChild(pos, kid)
      PROVE  Inv'
  BY <1>4, ChangeChildStep
<1>5. ASSUME NEW pos \in InlPos, ReduceRule(pos)
      PROVE  Inv'
  BY <1>5, ReduceRuleStep
<1>6. ASSUME NEW pos \in EnlPos, ReduceChild(pos)
      PROVE  Inv'
  BY <1>6, ReduceChildStep
<1>7. CASE DestroySubtrie
  BY <1>7, DestroySubtrieStep
<1>8. CASE UNCHANGED vars
  BY <1>8 DEF vars, Inv, TypeOK, IsBlock, RulesInPlace, KidsInPlace, NhiIndex,
              KidIndex, BlockFitsBitmaps, UnitsInUse, block
<1> QED BY <1>1, <1>2, <1>3, <1>4, <1>5, <1>6, <1>7, <1>8 DEF Next

\* The node, its block and the statistics agree after every sequence of updates.
THEOREM InvHolds == Spec => []Inv
<1> QED BY InitInv, StepInv, PTL DEF Spec

\* The variables keep their types, and the blocks the shape new_node gave them.
THEOREM TypeCorrect == Spec => []TypeOK
<1>1. Inv => TypeOK
  BY DEF Inv
<1> QED BY <1>1, InvHolds, PTL

\* pointer_to_nhi finds the next hop that was stored for a rule, however often
\* the block was rebuilt around it since.
THEOREM RulesStayInPlace == Spec => []RulesInPlace
<1>1. Inv => RulesInPlace
  BY DEF Inv
<1> QED BY <1>1, InvHolds, PTL

\* next_child finds the child as it was left.
THEOREM KidsStayInPlace == Spec => []KidsInPlace
<1>1. Inv => KidsInPlace
  BY DEF Inv
<1> QED BY <1>1, InvHolds, PTL

\* No rebuild leaks a block, and free_node is always given the start and the
\* size of the one there is.
THEOREM OneBlockOfItsSize == Spec => []BlockFitsBitmaps
<1>1. Inv => BlockFitsBitmaps
  BY DEF Inv
<1> QED BY <1>1, InvHolds, PTL

\* The statistics follow the memory in use through every step but
\* destroy_subtrie.
THEOREM RebuildsAreCounted == Spec => RebuildKeepsCount
<1>1. (Inv => ms_node \in Nat /\ UnitsInUse \in Int)'
  BY UnitsInt, PTL
<1>2. Inv /\ [Next]_vars =>
        [child_ptr' # NULL => ms_node' - ms_node = UnitsInUse' - UnitsInUse]_vars
  <2> SUFFICES ASSUME Inv, Next, child_ptr' # NULL
               PROVE  ms_node' - ms_node = UnitsInUse' - UnitsInUse
    OBVIOUS
  <2>1. Inv'
    BY StepInv
  <2>2. ms_node \in Nat /\ UnitsInUse \in Int
    BY UnitsInt
  <2>3. ms_node' \in Nat /\ UnitsInUse' \in Int
    BY <2>1, <1>1
  <2>4. ASSUME ms_node' = ms_node, UnitsInUse' = UnitsInUse
        PROVE  ms_node' - ms_node = UnitsInUse' - UnitsInUse
    BY <2>2, <2>4
  <2>5. ASSUME NEW pos \in InlPos, NEW nhi \in NHI, UpdateRule(pos, nhi)
        PROVE  ms_node' - ms_node = UnitsInUse' - UnitsInUse
    <3>1. ms_node' = ms_node
      BY <2>5 DEF UpdateRule
    <3> QED BY <2>4, <2>5, <3>1, UpdateRuleStep
  <2>6. ASSUME NEW pos \in EnlPos, NEW kid \in Kid, ChangeChild(pos, kid)
        PROVE  ms_node' - ms_node = UnitsInUse' - UnitsInUse
    <3>1. ms_node' = ms_node
      BY <2>6 DEF ChangeChild
    <3> QED BY <2>4, <2>6, <3>1, ChangeChildStep
  <2>7. ~ DestroySubtrie
    BY DestroySubtrieStep
  <2> QED BY <2>5, <2>6, <2>7, ExtendRuleStep, ExtendChildStep, ReduceRuleStep,
             ReduceChildStep DEF Next
<1> QED BY <1>2, InvHolds, PTL DEF Spec, RebuildKeepsCount

=============================================================================
