--------------------------- MODULE TrieHeapProofs ---------------------------
(***************************************************************************)
(* That the nodes and blocks of a trie hold what the operators of          *)
(* BitmapTrie say, at every moment of every operation: for all strides,    *)
(* address lengths and sets of blocks.                                     *)
(*                                                                         *)
(* In order: the paths of nodes and the bits of rules; the copies into a   *)
(* block; the invariant, Inv, which says what trie of values is in memory  *)
(* (MemoryOK) and where the operation is in it (Walk); what a rebuild does *)
(* to that trie (NodeBecomes); the steps of the operations; the theorems;  *)
(* and at last sums of sizes, for the statistics.                          *)
(***************************************************************************)
EXTENDS TrieHeap, TrieProofs

-----------------------------------------------------------------------------
\* The node above, the bit of a node in its external, the bit of a rule in the
\* internal of its node; and the other way round.
Up(b) == Take(b, Len(b) - STRIDE)
LastPos(b) == PosOfChild(Drop(b, Len(b) - STRIDE))
RulePos(p) == PosOfRule(Drop(p, Len(NodeOf(p))))
KidOf(b, pos) == b \o EnlBits[pos]
RuleOf(b, pos) == b \o InlBits[pos]

\* A stride of bits has a bit in external, which tells it.
LEMMA StridePos ==
  ASSUME NEW s \in Bits, Len(s) = STRIDE
  PROVE  /\ PosOfChild(s) \in EnlPos
         /\ EnlBits[PosOfChild(s)] = s
<1>1. PosOfChild(s) \in EnlPos
  BY ValueRange DEF PosOfChild, EnlPos
<1>2. BitsOf(Value(s), STRIDE) = s
  BY BitsOfValue
<1> QED BY <1>1, <1>2 DEF PosOfChild, EnlBits

\* So have fewer bits one in internal.
LEMMA RulePosRange ==
  ASSUME NEW s \in Bits, Len(s) < STRIDE
  PROVE  /\ PosOfRule(s) \in InlPos
         /\ Len(s) \in 0 .. STRIDE - 1
         /\ Value(s) \in 0 .. Pow2[Len(s)] - 1
<1>1. Len(s) \in 0 .. STRIDE - 1
  BY BitsLen, StrideAssumption
<1>2. Value(s) \in 0 .. Pow2[Len(s)] - 1
  BY ValueRange
<1> QED BY <1>1, <1>2, PosRange DEF PosOfRule, InlPos

\* No two strings have the same bit of internal.
LEMMA RulePosUnique ==
  ASSUME NEW s \in Bits, Len(s) < STRIDE, NEW q \in Bits, Len(q) < STRIDE,
         PosOfRule(s) = PosOfRule(q)
  PROVE  s = q
<1>1. /\ Len(s) \in 0 .. STRIDE - 1 /\ Value(s) \in 0 .. Pow2[Len(s)] - 1
      /\ Len(q) \in 0 .. STRIDE - 1 /\ Value(q) \in 0 .. Pow2[Len(q)] - 1
  BY RulePosRange
<1>2. PosOfRule(s) \in Int /\ PosOfRule(q) \in Int
  BY RulePosRange DEF InlPos
<1>3. ~ (Len(s) < Len(q))
  <2> SUFFICES ASSUME Len(s) < Len(q) PROVE FALSE
    OBVIOUS
  <2>1. PosOfRule(s) < PosOfRule(q)
    BY <1>1, PosOrder DEF PosOfRule
  <2> QED BY <1>2, <2>1
<1>4. ~ (Len(q) < Len(s))
  <2> SUFFICES ASSUME Len(q) < Len(s) PROVE FALSE
    OBVIOUS
  <2>1. PosOfRule(q) < PosOfRule(s)
    BY <1>1, PosOrder DEF PosOfRule
  <2> QED BY <1>2, <2>1
<1>5. Len(s) = Len(q) /\ Len(s) \in Nat
  BY <1>1, <1>3, <1>4
<1>6. Pow2[Len(s)] \in Nat
  BY <1>5, Pow2Positive
<1>7. Pow2[Len(s)] + Value(s) - 1 = Pow2[Len(s)] + Value(q) - 1
  BY <1>5 DEF PosOfRule, count_inl_bitmap
<1>8. Value(s) = Value(q)
  BY <1>1, <1>5, <1>6, <1>7
<1> QED BY <1>5, <1>8, BitsOfValue

\* InlBits finds the string that a bit of internal stands for.
LEMMA RuleBits ==
  ASSUME NEW s \in Bits, Len(s) < STRIDE
  PROVE  InlBits[PosOfRule(s)] = s
<1> DEFINE strings == UNION {BitStrings(k) : k \in 0 .. STRIDE - 1}
           q == CHOOSE b \in strings : PosOfRule(b) = PosOfRule(s)
<1>1. ASSUME NEW b
      PROVE  b \in strings <=> b \in Bits /\ Len(b) < STRIDE
  <2>1. ASSUME b \in strings PROVE b \in Bits /\ Len(b) < STRIDE
    <3>1. PICK k \in 0 .. STRIDE - 1 : b \in BitStrings(k)
      BY <2>1
    <3>2. k \in Nat /\ k < STRIDE
      BY StrideAssumption
    <3> QED BY <3>1, <3>2, BitStringsIsBits
  <2>2. ASSUME b \in Bits, Len(b) < STRIDE PROVE b \in strings
    <3>1. Len(b) \in Nat /\ Len(b) \in 0 .. STRIDE - 1
      BY <2>2, BitsLen, StrideAssumption
    <3>2. b \in BitStrings(Len(b))
      BY <2>2, <3>1, BitStringsIsBits
    <3> QED BY <3>1, <3>2
  <2> QED BY <2>1, <2>2
<1>2. s \in strings
  BY <1>1
<1>3. InlBits[PosOfRule(s)] = q
  BY RulePosRange DEF InlBits
<1> HIDE DEF strings
<1>4. q \in strings /\ PosOfRule(q) = PosOfRule(s)
  BY <1>2
<1> HIDE DEF q
<1>5. q = s
  BY <1>1, <1>4, RulePosUnique
<1> QED BY <1>3, <1>5

\* Whole strides can be counted.
LEMMA StrideCount ==
  ASSUME NEW m \in Nat, m % STRIDE = 0
  PROVE  \E j \in Nat : m = j * STRIDE
<1>1. PICK j \in Nat : j * STRIDE <= m /\ m < (j + 1) * STRIDE
  BY StrideOf
<1>2. /\ j * STRIDE \in Nat /\ (j * STRIDE) % STRIDE = 0
      /\ (j + 1) * STRIDE = j * STRIDE + STRIDE
  BY StrideSteps
<1>3. m - (m % STRIDE) = j * STRIDE
  BY <1>1, <1>2, StrideBelow
<1> QED BY <1>3

-----------------------------------------------------------------------------
\* The paths of nodes.
LEMMA NodePathIs ==
  ASSUME NEW b
  PROVE  b \in NodePath <=> /\ b \in Bits /\ Len(b) \in 0 .. LENGTH
                            /\ Len(b) % STRIDE = 0
BY PrefixIsBits, BitsLen, LengthAssumption DEF NodePath

\* The root is a node.
LEMMA RootPath == <<>> \in NodePath /\ <<>> \in Bits /\ Len(<<>>) = 0
<1>1. <<>> \in Bits /\ Len(<<>>) = 0
  BY DEF Bits
<1> QED BY <1>1, NodePathIs, StrideZero, LengthAssumption

\* A node and the stride below it.
LEMMA KidPath ==
  ASSUME NEW b \in NodePath, NEW s \in Bits, Len(s) = STRIDE,
         Len(b) + STRIDE <= LENGTH
  PROVE  LET c == b \o s
         IN  /\ c \in NodePath /\ c # <<>>
             /\ Len(c) = Len(b) + STRIDE
             /\ Up(c) = b
             /\ LastPos(c) = PosOfChild(s)
             /\ KidOf(b, PosOfChild(s)) = c
<1> DEFINE c == b \o s
<1>1. /\ b \in Bits /\ Len(b) \in Nat /\ Len(b) % STRIDE = 0
      /\ STRIDE \in Nat /\ STRIDE >= 1
  BY NodePathIs, BitsLen, StrideAssumption
<1>2. /\ c \in Bits /\ Len(c) = Len(b) + STRIDE
      /\ Take(c, Len(b)) = b /\ Drop(c, Len(b)) = s
  BY <1>1, JoinBits
<1>3. Len(c) % STRIDE = 0
  BY <1>1, <1>2, StrideNext
<1>4. Len(c) \in 0 .. LENGTH /\ Len(c) - STRIDE = Len(b) /\ Len(c) # 0
  BY <1>1, <1>2
<1> HIDE DEF c
<1>5. c \in NodePath /\ c # <<>>
  BY <1>2, <1>3, <1>4, NodePathIs, RootPath
<1>6. Up(c) = b /\ LastPos(c) = PosOfChild(s)
  BY <1>2, <1>4 DEF Up, LastPos
<1>7. KidOf(b, PosOfChild(s)) = c
  BY StridePos DEF KidOf, c
<1> QED BY <1>2, <1>5, <1>6, <1>7 DEF c

\* Every other node is the child of the one above it, at its last stride.
LEMMA KidSplit ==
  ASSUME NEW c \in NodePath, c # <<>>
  PROVE  /\ Up(c) \in NodePath /\ Len(c) = Len(Up(c)) + STRIDE
         /\ LastPos(c) \in EnlPos
         /\ KidOf(Up(c), LastPos(c)) = c
         /\ Up(c) # c
<1> DEFINE n == Len(c) - STRIDE
           s == Drop(c, n)
<1>1. /\ c \in Bits /\ Len(c) \in Nat /\ Len(c) <= LENGTH /\ Len(c) % STRIDE = 0
      /\ STRIDE \in Nat /\ STRIDE >= 1 /\ Len(c) # 0
  <2>1. Len(c) # 0
    BY NodePathIs, EmptySeq DEF Bits
  <2> QED BY <2>1, NodePathIs, BitsLen, StrideAssumption
<1>2. PICK j \in Nat : Len(c) = (j + 1) * STRIDE
  <2>1. PICK k \in Nat : Len(c) = k * STRIDE
    BY <1>1, StrideCount
  <2>2. k # 0
    BY <1>1, <2>1
  <2>3. k - 1 \in Nat /\ (k - 1) + 1 = k
    BY <2>2
  <2> QED BY <2>1, <2>3
<1>3. n \in Nat /\ n \in 0 .. Len(c) /\ Len(c) - n = STRIDE
  <2>1. j * STRIDE \in Nat /\ Len(c) = j * STRIDE + STRIDE
    BY <1>2, StrideSteps
  <2> QED BY <1>1, <2>1
<1>4. n % STRIDE = 0
  <2>1. j * STRIDE \in Nat /\ Len(c) = j * STRIDE + STRIDE /\ (j * STRIDE) % STRIDE = 0
    BY <1>2, StrideSteps
  <2>2. n = j * STRIDE
    BY <1>1, <2>1
  <2> QED BY <2>1, <2>2
<1> HIDE DEF n
<1>5. s \in Bits /\ Len(s) = STRIDE
  BY <1>1, <1>3, DropBits
<1>6. Up(c) \in Bits /\ Len(Up(c)) = n /\ Up(c) \o s = c
  BY <1>1, <1>3, TakeBits, SplitBits DEF Up, n
<1>7. Up(c) \in NodePath
  BY <1>1, <1>3, <1>4, <1>6, NodePathIs, LengthAssumption
<1>8. LastPos(c) = PosOfChild(s)
  BY DEF LastPos, n
<1>9. LastPos(c) \in EnlPos /\ EnlBits[LastPos(c)] = s
  BY <1>5, <1>8, StridePos
<1>10. Len(c) = Len(Up(c)) + STRIDE /\ Up(c) # c
  BY <1>1, <1>3, <1>6
<1>11. KidOf(Up(c), LastPos(c)) = c
  BY <1>6, <1>9 DEF KidOf
<1> QED BY <1>7, <1>9, <1>10, <1>11

\* A node and the bits of a rule in it.
LEMMA RulePath ==
  ASSUME NEW b \in NodePath, NEW s \in Bits, Len(s) < STRIDE,
         Len(b) + Len(s) <= LENGTH
  PROVE  LET p == b \o s
         IN  /\ p \in Prefix
             /\ NodeOf(p) = b
             /\ RulePos(p) = PosOfRule(s)
             /\ RuleOf(b, PosOfRule(s)) = p
<1> DEFINE p == b \o s
<1>1. /\ b \in Bits /\ Len(b) \in Nat /\ Len(b) % STRIDE = 0
      /\ Len(s) \in Nat /\ STRIDE \in Nat
  BY NodePathIs, BitsLen, StrideAssumption
<1>2. /\ p \in Bits /\ Len(p) = Len(b) + Len(s)
      /\ Take(p, Len(b)) = b /\ Drop(p, Len(b)) = s
  BY <1>1, JoinBits
<1>3. Len(p) - (Len(p) % STRIDE) = Len(b)
  BY <1>1, <1>2, StrideBelow
<1>4. RuleOf(b, PosOfRule(s)) = p
  BY RuleBits DEF RuleOf
<1> HIDE DEF p
<1>5. NodeOf(p) = b
  BY <1>2, <1>3 DEF NodeOf
<1>6. p \in Prefix
  BY <1>2, PrefixIsBits
<1> QED BY <1>2, <1>4, <1>5, <1>6 DEF RulePos, p

\* Every prefix is a rule of its node, at one bit.
LEMMA RuleSplit ==
  ASSUME NEW p \in Prefix
  PROVE  /\ NodeOf(p) \in NodePath
         /\ Len(NodeOf(p)) <= Len(p) /\ Len(p) < Len(NodeOf(p)) + STRIDE
         /\ RulePos(p) \in InlPos
         /\ RuleOf(NodeOf(p), RulePos(p)) = p
<1> DEFINE n == Len(p) - (Len(p) % STRIDE)
           s == Drop(p, n)
<1>1. p \in Bits /\ Len(p) \in Nat /\ Len(p) <= LENGTH /\ STRIDE \in Nat
  BY PrefixIsBits, BitsLen, StrideAssumption
<1>2. n \in 0 .. Len(p) /\ n % STRIDE = 0 /\ Len(p) < n + STRIDE /\ n \in Nat
  BY <1>1, StrideFloor
<1> HIDE DEF n
<1>3. NodeOf(p) \in Bits /\ Len(NodeOf(p)) = n /\ NodeOf(p) \o s = p
  BY <1>1, <1>2, TakeBits, SplitBits DEF NodeOf, n
<1>4. s \in Bits /\ Len(s) = Len(p) - n
  BY <1>1, <1>2, DropBits
<1>5. Len(s) < STRIDE
  BY <1>1, <1>2, <1>4
<1>6. NodeOf(p) \in NodePath
  BY <1>1, <1>2, <1>3, NodePathIs, LengthAssumption
<1>7. RulePos(p) = PosOfRule(s)
  BY <1>3 DEF RulePos
<1>8. RulePos(p) \in InlPos /\ InlBits[RulePos(p)] = s
  BY <1>4, <1>5, <1>7, RulePosRange, RuleBits
<1> QED BY <1>1, <1>2, <1>3, <1>6, <1>8 DEF RuleOf

-----------------------------------------------------------------------------
\* The path of an argument, stride by stride.
Along(a, k) == Take(a, k * STRIDE)

\* The nodes on the way to a prefix, one for each stride.
LEMMA OnTheWay ==
  ASSUME NEW a \in Prefix, NEW k \in Nat, k * STRIDE <= Len(a)
  PROVE  /\ Along(a, k) \in NodePath /\ Along(a, k) \in Bits
         /\ Len(Along(a, k)) = k * STRIDE
         /\ k \in Level
         /\ \A j \in 0 .. k : /\ j * STRIDE <= Len(a)
                              /\ j * STRIDE \in 0 .. k * STRIDE
                              /\ Take(Along(a, k), j * STRIDE) = Along(a, j)
<1>1. a \in Bits /\ Len(a) \in Nat /\ Len(a) <= LENGTH
  BY PrefixIsBits, BitsLen
<1>2. k * STRIDE \in Nat /\ (k * STRIDE) % STRIDE = 0
      /\ (k * STRIDE <= LENGTH => k <= LENGTH \div STRIDE)
  BY StrideSteps
<1>3. k * STRIDE \in 0 .. Len(a) /\ k * STRIDE <= LENGTH
  BY <1>1, <1>2, LengthAssumption
<1>4. LENGTH \div STRIDE \in Nat
  BY LengthAssumption, StrideAssumption
<1>5. k \in Level
  BY <1>2, <1>3, <1>4 DEF Level
<1>6. Along(a, k) \in Bits /\ Len(Along(a, k)) = k * STRIDE
  BY <1>1, <1>3, TakeBits DEF Along
<1>7. Along(a, k) \in NodePath
  BY <1>2, <1>3, <1>6, NodePathIs
<1>8. ASSUME NEW j \in 0 .. k
      PROVE  /\ j * STRIDE <= Len(a) /\ j * STRIDE \in 0 .. k * STRIDE
             /\ Take(Along(a, k), j * STRIDE) = Along(a, j)
  <2>0. j \in Nat /\ j <= k
    OBVIOUS
  <2>1. j * STRIDE \in Nat /\ k * STRIDE \in Nat
    BY <2>0, StrideSteps
  <2>2. j * STRIDE <= k * STRIDE
    BY <2>0, ScaleOrder, StrideAssumption
  <2>3. j * STRIDE <= Len(a) /\ j * STRIDE \in 0 .. k * STRIDE
    BY <1>1, <2>1, <2>2
  <2> QED BY <1>1, <1>3, <2>3, TakeTake DEF Along
<1> QED BY <1>5, <1>6, <1>7, <1>8

\* One stride further.
LEMMA NextOnTheWay ==
  ASSUME NEW a \in Prefix, NEW k \in Nat, (k + 1) * STRIDE <= Len(a)
  PROVE  /\ k * STRIDE <= Len(a)
         /\ Along(a, k + 1) # <<>>
         /\ Up(Along(a, k + 1)) = Along(a, k)
         /\ LastPos(Along(a, k + 1)) = PosOfChild(Take(Drop(a, k * STRIDE), STRIDE))
         /\ LastPos(Along(a, k + 1)) \in EnlPos
         /\ KidOf(Along(a, k), LastPos(Along(a, k + 1))) = Along(a, k + 1)
         /\ k + 1 \in Level
<1> DEFINE c == Along(a, k + 1)
<1>1. k + 1 \in Nat /\ k \in 0 .. k + 1
  OBVIOUS
<1>2. /\ c \in NodePath /\ c \in Bits /\ Len(c) = (k + 1) * STRIDE /\ k + 1 \in Level
      /\ k * STRIDE <= Len(a) /\ Take(c, k * STRIDE) = Along(a, k)
  BY <1>1, OnTheWay
<1>3. (k + 1) * STRIDE = k * STRIDE + STRIDE /\ k * STRIDE \in Nat
      /\ STRIDE \in Nat /\ STRIDE >= 1
  BY StrideSteps, StrideAssumption
<1>4. c # <<>>
  BY <1>2, <1>3, RootPath
<1>5. Len(c) - STRIDE = k * STRIDE
  BY <1>2, <1>3
<1>6. Up(c) = Along(a, k)
  BY <1>2, <1>5 DEF Up
<1>7. Drop(c, k * STRIDE) = Take(Drop(a, k * STRIDE), STRIDE)
  <2>1. a \in Bits /\ Len(a) \in Nat
    BY PrefixIsBits, BitsLen
  <2>2. k * STRIDE \in 0 .. Len(a) /\ STRIDE \in 0 .. Len(a) - k * STRIDE
    BY <1>2, <1>3, <2>1
  <2> QED BY <1>3, <2>1, <2>2, TakeOfDrop DEF Along
<1>8. LastPos(c) = PosOfChild(Take(Drop(a, k * STRIDE), STRIDE))
  BY <1>5, <1>7 DEF LastPos
<1>9. LastPos(c) \in EnlPos /\ KidOf(Up(c), LastPos(c)) = c
  BY <1>2, <1>4, KidSplit
<1> QED BY <1>2, <1>4, <1>6, <1>8, <1>9

\* The last node on the way is the node of the argument.
LEMMA EndOfTheWay ==
  ASSUME NEW a \in Prefix, NEW k \in Nat, k * STRIDE <= Len(a),
         Len(a) < (k + 1) * STRIDE
  PROVE  /\ NodeOf(a) = Along(a, k)
         /\ RulePos(a) = PosOfRule(Drop(a, k * STRIDE))
<1>1. /\ Len(a) \in Nat /\ k * STRIDE \in Nat /\ (k * STRIDE) % STRIDE = 0
      /\ (k + 1) * STRIDE = k * STRIDE + STRIDE
  BY PrefixIsBits, BitsLen, StrideSteps
<1>2. Len(a) - (Len(a) % STRIDE) = k * STRIDE
  BY <1>1, StrideBelow
<1>3. NodeOf(a) = Along(a, k)
  BY <1>2 DEF NodeOf, Along
<1>4. Len(NodeOf(a)) = k * STRIDE
  BY <1>3, OnTheWay
<1> QED BY <1>3, <1>4 DEF RulePos

\* The nodes below the root on the way to the k-th.
LEMMA BranchOnTheWay ==
  ASSUME NEW a \in Prefix, NEW k \in Nat, k * STRIDE <= Len(a)
  PROVE  Branch(Along(a, k)) = {Along(a, j) : j \in 1 .. k}
<1> DEFINE c == Along(a, k)
           M == {m \in 1 .. Len(c) : m % STRIDE = 0}
<1>1. /\ c \in Bits /\ Len(c) = k * STRIDE /\ Len(c) \in Nat
      /\ \A j \in 0 .. k : /\ j * STRIDE \in 0 .. k * STRIDE
                           /\ Take(c, j * STRIDE) = Along(a, j)
  BY OnTheWay, BitsLen
<1>2. ASSUME NEW m \in M PROVE \E j \in 1 .. k : m = j * STRIDE
  <2>1. m \in Nat /\ m >= 1 /\ m <= k * STRIDE /\ m % STRIDE = 0
    BY <1>1
  <2>2. PICK j \in Nat : m = j * STRIDE
    BY <2>1, StrideCount
  <2>3. j # 0
    BY <2>1, <2>2, StrideAssumption
  <2>4. ~ (k < j)
    <3> SUFFICES ASSUME k < j PROVE FALSE
      OBVIOUS
    <3>1. (k + 1) * STRIDE <= j * STRIDE
      BY StridesOrder
    <3> QED BY <2>1, <2>2, <3>1, StrideSteps, StrideAssumption
  <2> QED BY <2>2, <2>3, <2>4
<1>3. ASSUME NEW j \in 1 .. k PROVE j * STRIDE \in M
  <2>1. j \in Nat /\ j \in 0 .. k /\ 0 < j
    OBVIOUS
  <2>2. (0 + 1) * STRIDE <= j * STRIDE
    BY <2>1, StridesOrder
  <2>3. (j * STRIDE) % STRIDE = 0 /\ j * STRIDE \in Nat
    BY <2>1, StrideSteps
  <2>4. j * STRIDE <= Len(c)
    BY <1>1, <2>1
  <2>5. j * STRIDE >= 1
    BY <2>2, <2>3, StrideAssumption
  <2> QED BY <1>1, <2>3, <2>4, <2>5
<1>4. Branch(c) = {Take(c, m) : m \in M}
  BY DEF Branch
<1> HIDE DEF M
<1>5. \A x : x \in {Take(c, m) : m \in M} <=> x \in {Along(a, j) : j \in 1 .. k}
  <2>1. ASSUME NEW m \in M PROVE Take(c, m) \in {Along(a, j) : j \in 1 .. k}
    <3>1. PICK j \in 1 .. k : m = j * STRIDE
      BY <1>2
    <3>2. Take(c, m) = Along(a, j)
      BY <1>1, <3>1
    <3> QED BY <3>2
  <2>2. ASSUME NEW j \in 1 .. k PROVE Along(a, j) \in {Take(c, m) : m \in M}
    <3>1. Along(a, j) = Take(c, j * STRIDE) /\ j * STRIDE \in M
      BY <1>1, <1>3
    <3> QED BY <3>1
  <2> QED BY <2>1, <2>2
<1> QED BY <1>4, <1>5

\* Those of an argument are those of its node.
LEMMA BranchOfRule ==
  ASSUME NEW a \in Prefix, NEW k \in Nat, k * STRIDE <= Len(a),
         Len(a) < (k + 1) * STRIDE
  PROVE  Branch(Along(a, k)) = Branch(a)
<1> DEFINE c == Along(a, k)
           K == k * STRIDE
           M(n) == {m \in 1 .. n : m % STRIDE = 0}
<1>1. /\ a \in Bits /\ Len(a) \in Nat
      /\ c \in Bits /\ Len(c) = K /\ K \in Nat
      /\ K % STRIDE = 0 /\ K <= Len(a) /\ Len(a) < K + STRIDE
  BY PrefixIsBits, BitsLen, OnTheWay, StrideSteps
<1> HIDE DEF K
<1>2. ASSUME NEW m \in M(Len(a)) PROVE m \in M(Len(c))
  <2>1. m \in Nat /\ m >= 1 /\ m <= Len(a) /\ m % STRIDE = 0 /\ STRIDE \in Nat
    BY <1>1, StrideAssumption
  <2>2. K <= m => m = K
    <3> SUFFICES ASSUME K <= m PROVE m = K
      OBVIOUS
    <3>1. m - (m % STRIDE) = K
      BY <1>1, <2>1, StrideBelow
    <3> QED BY <2>1, <3>1
  <2> QED BY <1>1, <2>1, <2>2
<1>3. \A m \in M(Len(c)) : m \in M(Len(a)) /\ Take(c, m) = Take(a, m)
  <2> SUFFICES ASSUME NEW m \in M(Len(c))
               PROVE  m \in M(Len(a)) /\ Take(c, m) = Take(a, m)
    OBVIOUS
  <2>1. m \in 0 .. K /\ K \in 0 .. Len(a) /\ m \in M(Len(a))
    BY <1>1
  <2> QED BY <1>1, <2>1, TakeTake DEF Along, K
<1>4. Branch(c) = {Take(c, m) : m \in M(Len(c))} /\ Branch(a) = {Take(a, m) : m \in M(Len(a))}
  BY DEF Branch
<1> HIDE DEF M
<1>5. M(Len(a)) = M(Len(c))
  BY <1>2, <1>3
<1> QED BY <1>3, <1>4, <1>5

-----------------------------------------------------------------------------
\* The bits of a bitmap.
LEMMA PowStride == /\ Pow2[STRIDE] \in Nat /\ Pow2[STRIDE] \in Nat \ {0}
                   /\ InlPos \subseteq EnlPos /\ InlPos \subseteq Nat /\ EnlPos \subseteq Nat
<1>1. Pow2[STRIDE] \in Nat /\ Pow2[STRIDE] >= 1
  BY StrideAssumption, Pow2Positive
<1> QED BY <1>1 DEF InlPos, EnlPos

\* A bitmap has a bit.
LEMMA BitsOfBitmap == Pow2[STRIDE] \in Nat \ {0}
BY PowStride

\* The node calloc has made.
LEMMA ZeroNodeIsNode == ZeroNode \in Node /\ IsEmpty(ZeroNode)
BY DEF ZeroNode, Node, IsEmpty

\* A bitmap is finite.
LEMMA BitmapIsFinite ==
  ASSUME NEW S, S \subseteq EnlPos
  PROVE  /\ IsFiniteSet(S)
         /\ S \subseteq Int
         /\ Cardinality(S) \in Nat
<1>1. Pow2[STRIDE] - 1 \in Int /\ EnlPos \subseteq Int
  BY BitsOfBitmap DEF EnlPos
<1>2. IsFiniteSet(EnlPos)
  BY <1>1, FS_Interval DEF EnlPos
<1>3. IsFiniteSet(S)
  BY <1>2, FS_Subset
<1> QED BY <1>1, <1>3, FS_CardinalityType

\* A bit that is set makes a bitmap of one more bit,
LEMMA SetBit ==
  ASSUME NEW S, S \subseteq EnlPos, NEW pos \in EnlPos, pos \notin S,
         NEW T, T = S \cup {pos}
  PROVE  /\ Cardinality(S) \in Nat /\ Cardinality(T) = Cardinality(S) + 1
         /\ IsFiniteSet(S) /\ IsFiniteSet(T)
         /\ S \subseteq Int /\ T \subseteq Int /\ pos \in Int
<1>1. IsFiniteSet(S) /\ S \subseteq Int /\ Cardinality(S) \in Nat
  BY BitmapIsFinite
<1>2. T \subseteq EnlPos /\ pos \in T
  OBVIOUS
<1>3. IsFiniteSet(T) /\ T \subseteq Int
  BY <1>2, BitmapIsFinite
<1>4. Cardinality(S \cup {pos}) = IF pos \in S THEN Cardinality(S)
                                  ELSE Cardinality(S) + 1
  BY <1>1, FS_AddElement
<1>5. Cardinality(T) = Cardinality(S) + 1
  BY <1>4
<1> QED BY <1>1, <1>2, <1>3, <1>5

\* and one that is cleared, a bitmap of one less.
LEMMA ClearBit ==
  ASSUME NEW S, S \subseteq EnlPos, NEW pos \in S, NEW T, T = S \ {pos}
  PROVE  /\ Cardinality(S) \in Nat /\ Cardinality(T) = Cardinality(S) - 1
         /\ Cardinality(S) - 1 \in Nat
         /\ IsFiniteSet(S) /\ IsFiniteSet(T)
         /\ S \subseteq Int /\ T \subseteq Int /\ pos \in Int
<1>1. T \subseteq EnlPos /\ pos \in EnlPos /\ pos \notin T
  OBVIOUS
<1>2. S = T \cup {pos}
  OBVIOUS
<1> DEFINE n == Cardinality(S)
           m == Cardinality(T)
<1>3. m \in Nat /\ n = m + 1
  BY <1>1, <1>2, SetBit
<1>4. IsFiniteSet(S) /\ IsFiniteSet(T) /\ S \subseteq Int /\ T \subseteq Int /\ pos \in Int
  BY <1>1, <1>2, SetBit
<1> HIDE DEF n, m
<1>5. n \in Nat /\ m = n - 1 /\ n - 1 \in Nat
  BY <1>3
<1> QED BY <1>4, <1>5 DEF n, m

\* A bit that is set has one of the indices 0 .. popcount - 1.
LEMMA CountRange ==
  ASSUME NEW S, IsFiniteSet(S), S \subseteq Int, NEW p \in S
  PROVE  CountOnes(S, p) \in 0 .. Cardinality(S) - 1
<1> DEFINE T == {k \in S : k >= p}
<1>1. IsFiniteSet(T) /\ Cardinality(T) <= Cardinality(S)
  <2>1. T \in SUBSET S
    OBVIOUS
  <2> QED BY <2>1, FS_Subset
<1>2. Cardinality(T) \in Nat /\ Cardinality(S) \in Nat
  BY <1>1, FS_CardinalityType
<1>3. Cardinality(T) # 0
  <2>1. p \in T
    OBVIOUS
  <2> QED BY <1>1, <2>1, FS_EmptySet
<1> QED BY <1>1, <1>2, <1>3 DEF CountOnes

\* The index tells the bits apart: a higher bit comes first.
LEMMA CountOrder ==
  ASSUME NEW S, IsFiniteSet(S), S \subseteq Int, NEW p \in S, NEW q \in S,
         p < q
  PROVE  CountOnes(S, q) < CountOnes(S, p)
<1> DEFINE A == {k \in S : k >= p}
           B == {k \in S : k >= q}
<1>1. IsFiniteSet(A)
  <2>1. A \in SUBSET S
    OBVIOUS
  <2> QED BY <2>1, FS_Subset
<1>2. B \in SUBSET A
  <2>1. \A k \in S : k >= q => k >= p
    OBVIOUS
  <2> QED BY <2>1
<1>3. p \in A /\ p \notin B
  OBVIOUS
<1>4. Cardinality(B) <= Cardinality(A) /\ Cardinality(B) # Cardinality(A)
  <2> HIDE DEF A, B
  <2>1. IsFiniteSet(B) /\ Cardinality(B) <= Cardinality(A)
    BY <1>1, <1>2, FS_Subset
  <2>2. A # B
    BY <1>3
  <2> QED BY <1>1, <1>2, <2>1, <2>2, FS_Subset
<1>5. IsFiniteSet(B)
  BY <1>1, <1>2, FS_Subset
<1>6. Cardinality(A) \in Nat /\ Cardinality(B) \in Nat
  BY <1>1, <1>5, FS_CardinalityType
<1>7. Cardinality(B) - 1 < Cardinality(A) - 1
  <2> HIDE DEF A, B
  <2> QED BY <1>4, <1>6
<1> QED BY <1>7 DEF CountOnes

\* Setting the bit p moves the bits below it one index up, and no other.
LEMMA CountAdd ==
  ASSUME NEW S, IsFiniteSet(S), S \subseteq Int, NEW p \in Int, p \notin S,
         NEW q \in S
  PROVE  CountOnes(S \cup {p}, q) =
           IF q < p THEN CountOnes(S, q) + 1 ELSE CountOnes(S, q)
<1> DEFINE A == {k \in S : k >= q}
           B == {k \in S \cup {p} : k >= q}
<1>1. IsFiniteSet(A)
  <2>1. A \in SUBSET S
    OBVIOUS
  <2> QED BY <2>1, FS_Subset
<1>2. Cardinality(A) \in Nat
  BY <1>1, FS_CardinalityType
<1>3. CASE q < p
  <2>1. B = A \cup {p} /\ p \notin A
    BY <1>3
  <2>2. Cardinality(B) = Cardinality(A) + 1
    <3> HIDE DEF A, B
    <3> QED BY <1>1, <2>1, FS_AddElement
  <2>3. Cardinality(B) - 1 = (Cardinality(A) - 1) + 1
    <3> HIDE DEF A, B
    <3> QED BY <1>2, <2>2
  <2> QED BY <1>3, <2>3 DEF CountOnes
<1>4. CASE ~ (q < p)
  <2>1. B = A
    BY <1>4
  <2> QED BY <1>4, <2>1 DEF CountOnes
<1> QED BY <1>3, <1>4

-----------------------------------------------------------------------------
\* The units of x next hops hold them.
LEMMA UnitsHoldRules ==
  ASSUME NEW x \in Nat
  PROVE  UP_RULE(x) \in Nat /\ NODE_WORDS * UP_RULE(x) >= x
<1> DEFINE a == x + NODE_WORDS - 1
           q == a \div NODE_WORDS
<1>1. NODE_WORDS \in Int /\ NODE_WORDS > 0 /\ a \in Int /\ a >= 0
  BY HeapWordsAssumption
<1>2. q \in Int /\ a < NODE_WORDS * q + NODE_WORDS /\ NODE_WORDS * q <= a
  <2> HIDE DEF a
  <2> QED BY <1>1
<1>3. NODE_WORDS * q \in Int
  <2> HIDE DEF q
  <2> QED BY <1>1, <1>2
<1>4. NODE_WORDS * q >= x
  <2> HIDE DEF q
  <2> QED BY <1>1, <1>2, <1>3
<1>5. q >= 0
  <2> HIDE DEF q
  <2>1. SUFFICES ASSUME q <= -1
                 PROVE  FALSE
    BY <1>2
  <2>2. NODE_WORDS * q <= -NODE_WORDS
    BY <1>1, <1>2, <2>1
  <2> QED BY <1>1, <1>3, <1>4, <2>2
<1> QED BY <1>2, <1>4, <1>5 DEF UP_RULE

\* What a rebuild writes into the words W of a zeroed old: the next hops of
\* the old old with one more, with one less, or as they are.
ZeroWords(W) == [k \in W |-> NULL]

WordsPlus(W, old, num, pos, h) ==
  [k \in W |->
     CASE k < pos -> old.rule[k]
       [] k = pos -> h
       [] k > pos /\ k <= num + 1 -> old.rule[k - 1]
       [] OTHER -> NULL]

WordsMinus(W, old, num, pos) ==
  [k \in W |->
     CASE k < pos -> old.rule[k]
       [] k >= pos /\ k < num -> old.rule[k + 1]
       [] OTHER -> NULL]

SameWords(W, old, num) == [k \in W |-> IF k <= num THEN old.rule[k] ELSE NULL]

\* And into the nodes V.
ZeroNodes(V) == [k \in V |-> ZeroNode]

NodesPlus(V, old, pos) ==
  [k \in V |->
     CASE k < pos -> old.kid[k]
       [] k = pos -> ZeroNode
       [] OTHER -> old.kid[k - 1]]

NodesMinus(V, old, pos) ==
  [k \in V |-> IF k < pos THEN old.kid[k] ELSE old.kid[k + 1]]

SameNodes(V, old) == [k \in V |-> old.kid[k]]

\* A new old is a record of zeroes.
LEMMA NewBlockIsZero ==
  ASSUME NEW mb, NEW nh
  PROVE  NewBlock(mb, nh) =
           [units |-> UnitsOf(mb, nh), low |-> UP_RULE(nh),
            rule |-> ZeroWords(1 .. NODE_WORDS * UP_RULE(nh)),
            kid |-> ZeroNodes(0 .. mb - 1)]
BY DEF NewBlock, UnitsOf, UP_CHILD, ZeroWords, ZeroNodes

\* A copy of next hops fills its words, and only those.
LEMMA CopyRules ==
  ASSUME NEW u, NEW l, NEW W, NEW c, NEW n, NEW old, NEW num, NEW pos, NEW h,
         n = [units |-> u, low |-> l, rule |-> ZeroWords(W), kid |-> c]
  PROVE  /\ RulesWith(n, old, num, pos, h) =
              [units |-> u, low |-> l, kid |-> c,
               rule |-> WordsPlus(W, old, num, pos, h)]
         /\ RulesWithout(n, old, num, pos) =
              [units |-> u, low |-> l, kid |-> c,
               rule |-> WordsMinus(W, old, num, pos)]
         /\ SameRules(n, old, num) =
              [units |-> u, low |-> l, kid |-> c, rule |-> SameWords(W, old, num)]
<1> DEFINE Filled(R) == [n EXCEPT !.rule = R]
<1>1. \A R : Filled(R) = [units |-> u, low |-> l, kid |-> c, rule |-> R]
  OBVIOUS
<1>2. DOMAIN n.rule = W /\ \A k \in W : n.rule[k] = NULL
  BY DEF ZeroWords
<1> HIDE DEF Filled
<1>3. ASSUME NEW R
      PROVE  Filled(R) = [units |-> u, low |-> l, kid |-> c, rule |-> R]
  BY <1>1
<1> QED BY <1>2, <1>3 DEF RulesWith, RulesWithout, SameRules, Filled,
                        WordsPlus, WordsMinus, SameWords

\* And a copy of children its nodes.
LEMMA CopyKids ==
  ASSUME NEW u, NEW l, NEW r, NEW V, NEW n, NEW old, NEW pos,
         n = [units |-> u, low |-> l, rule |-> r, kid |-> ZeroNodes(V)]
  PROVE  /\ KidsWith(n, old, pos) =
              [units |-> u, low |-> l, rule |-> r, kid |-> NodesPlus(V, old, pos)]
         /\ KidsWithout(n, old, pos) =
              [units |-> u, low |-> l, rule |-> r, kid |-> NodesMinus(V, old, pos)]
         /\ SameKids(n, old) =
              [units |-> u, low |-> l, rule |-> r, kid |-> SameNodes(V, old)]
<1> DEFINE Filled(K) == [n EXCEPT !.kid = K]
<1>1. \A K : Filled(K) = [units |-> u, low |-> l, rule |-> r, kid |-> K]
  OBVIOUS
<1>2. DOMAIN n.kid = V /\ \A k \in V : n.kid[k] = ZeroNode
  BY DEF ZeroNodes
<1> HIDE DEF Filled
<1>3. ASSUME NEW K
      PROVE  Filled(K) = [units |-> u, low |-> l, rule |-> r, kid |-> K]
  BY <1>1
<1> QED BY <1>2, <1>3 DEF KidsWith, KidsWithout, SameKids, Filled,
                        NodesPlus, NodesMinus, SameNodes

-----------------------------------------------------------------------------
\* A block holds what its size says,
IsBlock(blk) ==
  /\ blk = [units |-> blk.units, low |-> blk.low, rule |-> blk.rule, kid |-> blk.kid]
  /\ blk.units \in 0 .. Pow2[STRIDE + 1]
  /\ blk.low \in 0 .. blk.units
  /\ blk.rule \in [1 .. NODE_WORDS * blk.low -> NHI \cup {NULL}]
  /\ blk.kid \in [0 .. blk.units - blk.low - 1 -> Node]

\* and the block of a node with the bits I of internal and E of external the
\* next hops rs and the children ks.
Holds(blk, I, E, rs, ks) ==
  /\ I \subseteq InlPos /\ E \subseteq EnlPos
  /\ IsBlock(blk)
  /\ blk.low = UP_RULE(Cardinality(I))
  /\ blk.units = UnitsOf(Cardinality(E), Cardinality(I))
  /\ \A pos \in I : blk.rule[CountOnes(I, pos) + 1] = rs[pos]
  /\ \A pos \in E : blk.kid[CountOnes(E, pos)] = ks[pos]

\* Its words and children.
LEMMA BlockOfNode ==
  ASSUME NEW old, NEW I0, NEW E0, NEW rs, NEW ks,
         Holds(old, I0, E0, rs, ks)
  PROVE  /\ I0 \subseteq EnlPos /\ E0 \subseteq EnlPos
         /\ old.rule \in [1 .. NODE_WORDS * UP_RULE(Cardinality(I0))
                            -> NHI \cup {NULL}]
         /\ old.kid \in [0 .. Cardinality(E0) - 1 -> Node]
         /\ \A pos \in I0 : CountOnes(I0, pos) + 1 \in 1 .. Cardinality(I0)
         /\ \A pos \in E0 : CountOnes(E0, pos) \in 0 .. Cardinality(E0) - 1
<1>1. I0 \subseteq EnlPos /\ E0 \subseteq EnlPos
  BY PowStride DEF Holds
<1>2. Cardinality(I0) \in Nat /\ Cardinality(E0) \in Nat
  BY <1>1, BitmapIsFinite
<1>3. UP_RULE(Cardinality(I0)) \in Nat
  BY <1>2, UnitsHoldRules
<1>4. /\ IsBlock(old) /\ old.low = UP_RULE(Cardinality(I0))
      /\ old.units = UnitsOf(Cardinality(E0), Cardinality(I0))
  BY DEF Holds
<1>5. old.units - old.low = Cardinality(E0)
  BY <1>2, <1>3, <1>4 DEF UnitsOf, UP_CHILD
<1>6. \A pos \in I0 : CountOnes(I0, pos) + 1 \in 1 .. Cardinality(I0)
  <2> SUFFICES ASSUME NEW pos \in I0
               PROVE  CountOnes(I0, pos) + 1 \in 1 .. Cardinality(I0)
    OBVIOUS
  <2>1. CountOnes(I0, pos) \in 0 .. Cardinality(I0) - 1
    BY <1>1, BitmapIsFinite, CountRange
  <2> QED BY <1>2, <2>1
<1>7. \A pos \in E0 : CountOnes(E0, pos) \in 0 .. Cardinality(E0) - 1
  BY <1>1, BitmapIsFinite, CountRange
<1> QED BY <1>1, <1>4, <1>5, <1>6, <1>7 DEF IsBlock

\* No two bits share an index.
LEMMA BitsHaveTheirIndex ==
  ASSUME NEW S, S \subseteq EnlPos, NEW p \in S, NEW q \in S, p # q
  PROVE  CountOnes(S, p) # CountOnes(S, q)
<1>1. IsFiniteSet(S) /\ S \subseteq Int /\ Cardinality(S) \in Nat
  BY BitmapIsFinite
<1>2. /\ CountOnes(S, p) \in 0 .. Cardinality(S) - 1
      /\ CountOnes(S, q) \in 0 .. Cardinality(S) - 1
  BY <1>1, CountRange
<1>3. p \in Int /\ q \in Int
  BY <1>1
<1>4. CASE p < q
  <2>1. CountOnes(S, q) < CountOnes(S, p)
    BY <1>1, <1>4, CountOrder
  <2> QED BY <1>1, <1>2, <2>1
<1>5. CASE q < p
  <2>1. CountOnes(S, p) < CountOnes(S, q)
    BY <1>1, <1>5, CountOrder
  <2> QED BY <1>1, <1>2, <2>1
<1> QED BY <1>3, <1>4, <1>5

-----------------------------------------------------------------------------
\* The words of the next block: those of I as they are, of J with one rule more
\* and of J with one less.
WordsOf(n) == 1 .. NODE_WORDS * UP_RULE(n)
NodesOf(n) == 0 .. n - 1

KeptRules(old, I) == SameWords(WordsOf(Cardinality(I)), old, Cardinality(I))

RulesPlus(old, I, J, pos, h) ==
  WordsPlus(WordsOf(Cardinality(J)), old, Cardinality(I), CountOnes(J, pos) + 1, h)

RulesMinus(old, I, J, pos) ==
  WordsMinus(WordsOf(Cardinality(J)), old, Cardinality(I), CountOnes(I, pos) + 1)

\* And its children.
KeptKids(old, E) == SameNodes(NodesOf(Cardinality(E)), old)

KidsPlus(old, F, pos) == NodesPlus(NodesOf(Cardinality(F)), old, CountOnes(F, pos))

KidsMinus(old, E, F, pos) ==
  NodesMinus(NodesOf(Cardinality(F)), old, CountOnes(E, pos))

\* The next hops that are copied as they are stay those of their bits.
LEMMA RulesKept ==
  ASSUME NEW old, NEW I0, NEW E0, NEW rs, NEW ks,
         Holds(old, I0, E0, rs, ks)
  PROVE  /\ KeptRules(old, I0) \in [1 .. NODE_WORDS * UP_RULE(Cardinality(I0))
                             -> NHI \cup {NULL}]
         /\ \A q \in I0 : KeptRules(old, I0)[CountOnes(I0, q) + 1] = rs[q]
<1>1. Cardinality(I0) \in Nat
  BY BlockOfNode, BitmapIsFinite
<1>2. /\ UP_RULE(Cardinality(I0)) \in Nat
      /\ NODE_WORDS * UP_RULE(Cardinality(I0)) >= Cardinality(I0)
  BY <1>1, UnitsHoldRules
<1>3. NODE_WORDS * UP_RULE(Cardinality(I0)) \in Nat
  BY <1>2, HeapWordsAssumption
<1> DEFINE N == NODE_WORDS * UP_RULE(Cardinality(I0))
           C == Cardinality(I0)
<1>4. \A k \in 1 .. N : KeptRules(old, I0)[k] = IF k <= C THEN old.rule[k] ELSE NULL
  BY DEF KeptRules, SameWords, WordsOf
<1>5. C > 0 => old.rule \in [1 .. N -> NHI \cup {NULL}]
  <2>1. C > 0 => I0 # {}
    BY <1>1, FS_EmptySet
  <2> QED BY <2>1, BlockOfNode
<1> HIDE DEF N, C
<1>6. \A k \in 1 .. N : KeptRules(old, I0)[k] \in NHI \cup {NULL}
  BY <1>1, <1>3, <1>4, <1>5 DEF C, N
<1>7. KeptRules(old, I0) \in [1 .. N -> NHI \cup {NULL}]
  BY <1>6 DEF KeptRules, SameWords, WordsOf, N
<1>8. ASSUME NEW q \in I0
      PROVE  KeptRules(old, I0)[CountOnes(I0, q) + 1] = rs[q]
  <2>1. CountOnes(I0, q) + 1 \in 1 .. C
    BY BlockOfNode DEF C
  <2>2. KeptRules(old, I0)[CountOnes(I0, q) + 1] = old.rule[CountOnes(I0, q) + 1]
    BY <1>1, <1>2, <1>3, <1>4, <2>1 DEF C, N
  <2> QED BY <2>2 DEF Holds
<1> QED BY <1>7, <1>8 DEF N

\* And so do the children.
LEMMA KidsKept ==
  ASSUME NEW old, NEW I0, NEW E0, NEW rs, NEW ks,
         Holds(old, I0, E0, rs, ks)
  PROVE  /\ KeptKids(old, E0) \in [0 .. Cardinality(E0) - 1 -> Node]
         /\ \A q \in E0 : KeptKids(old, E0)[CountOnes(E0, q)] = ks[q]
<1> DEFINE C == Cardinality(E0)
<1>1. C \in Nat
  BY BlockOfNode, BitmapIsFinite
<1>2. C > 0 => old.kid \in [0 .. C - 1 -> Node]
  <2>1. C > 0 => E0 # {}
    BY <1>1, FS_EmptySet
  <2> QED BY <2>1, BlockOfNode
<1>3. KeptKids(old, E0) = [k \in 0 .. C - 1 |-> old.kid[k]]
  BY DEF KeptKids, SameNodes, NodesOf
<1>4. ASSUME NEW q \in E0
      PROVE  KeptKids(old, E0)[CountOnes(E0, q)] = ks[q]
  <2>1. CountOnes(E0, q) \in 0 .. C - 1
    BY BlockOfNode
  <2>2. KeptKids(old, E0)[CountOnes(E0, q)] = old.kid[CountOnes(E0, q)]
    BY <1>3, <2>1
  <2> QED BY <2>2 DEF Holds
<1> HIDE DEF C
<1>5. KeptKids(old, E0) \in [0 .. C - 1 -> Node]
  BY <1>1, <1>2, <1>3
<1> QED BY <1>4, <1>5 DEF C

\* A new next hop is put at the index of its bit, and the others follow theirs.
LEMMA RulesAdded ==
  ASSUME NEW old, NEW I0, NEW E0, NEW rs, NEW ks,
         Holds(old, I0, E0, rs, ks), NEW pos \in InlPos, pos \notin I0, NEW h \in NHI \cup {NULL},
         NEW I, I = I0 \cup {pos}
  PROVE  /\ Cardinality(I) = Cardinality(I0) + 1
         /\ RulesPlus(old, I0, I, pos, h) \in [1 .. NODE_WORDS * UP_RULE(Cardinality(I))
                                          -> NHI \cup {NULL}]
         /\ \A q \in I : RulesPlus(old, I0, I, pos, h)[CountOnes(I, q) + 1] =
                           IF q = pos THEN h ELSE rs[q]
<1> DEFINE C == Cardinality(I0)
           N == NODE_WORDS * UP_RULE(Cardinality(I))
           W == RulesPlus(old, I0, I, pos, h)
           np == CountOnes(I, pos) + 1
<1>1. I \subseteq EnlPos /\ pos \in EnlPos /\ I0 \subseteq EnlPos /\ pos \in Int
  BY BlockOfNode, BitsOfBitmap DEF InlPos, EnlPos
<1>2. /\ C \in Nat /\ Cardinality(I) = C + 1
      /\ IsFiniteSet(I0) /\ IsFiniteSet(I)
      /\ I0 \subseteq Int /\ I \subseteq Int
  BY <1>1, SetBit
<1>3. UP_RULE(C + 1) \in Nat /\ NODE_WORDS * UP_RULE(C + 1) >= C + 1
  BY <1>2, UnitsHoldRules
<1>4. N \in Nat /\ N >= C + 1
  <2>1. NODE_WORDS * UP_RULE(C + 1) \in Nat
    BY <1>3, HeapWordsAssumption
  <2> QED BY <1>2, <1>3, <2>1
<1>5. np \in 1 .. C + 1
  <2>1. CountOnes(I, pos) \in 0 .. Cardinality(I) - 1
    BY <1>2, CountRange
  <2> QED BY <1>2, <2>1
<1>6. C > 0 => /\ old.rule \in [1 .. NODE_WORDS * UP_RULE(C) -> NHI \cup {NULL}]
               /\ NODE_WORDS * UP_RULE(C) \in Nat
               /\ NODE_WORDS * UP_RULE(C) >= C
  <2>1. C > 0 => I0 # {}
    BY <1>2, FS_EmptySet
  <2>2. UP_RULE(C) \in Nat /\ NODE_WORDS * UP_RULE(C) >= C
    BY <1>2, UnitsHoldRules
  <2>3. NODE_WORDS * UP_RULE(C) \in Nat
    BY <2>2, HeapWordsAssumption
  <2> QED BY <2>1, <2>2, <2>3, BlockOfNode
<1>7. \A k \in 1 .. N :
        W[k] = CASE k < np -> old.rule[k]
                 [] k = np -> h
                 [] k > np /\ k <= C + 1 -> old.rule[k - 1]
                 [] OTHER -> NULL
  BY DEF RulesPlus, WordsPlus, WordsOf
<1>8. W = [k \in 1 .. N |-> W[k]]
  BY DEF RulesPlus, WordsPlus, WordsOf
<1> HIDE DEF W, N, np
<1>9. \A k \in 1 .. C : C > 0 /\ old.rule[k] \in NHI \cup {NULL}
  <2> DEFINE M == NODE_WORDS * UP_RULE(C)
  <2>1. C > 0 => old.rule \in [1 .. M -> NHI \cup {NULL}] /\ M \in Nat /\ M >= C
    BY <1>6
  <2> HIDE DEF C, M
  <2> QED BY <1>2, <2>1 DEF C
<1>10. \A k \in 1 .. N : W[k] \in NHI \cup {NULL}
  <2> SUFFICES ASSUME NEW k \in 1 .. N
               PROVE  W[k] \in NHI \cup {NULL}
    OBVIOUS
  <2> HIDE DEF C
  <2>1. C \in Nat /\ np \in Int /\ k \in Int /\ k >= 1 /\ np <= C + 1
    BY <1>2, <1>4, <1>5 DEF C
  <2>2. CASE k < np
    BY <1>7, <1>9, <2>1, <2>2
  <2>3. CASE k = np
    BY <1>7, <2>1, <2>3
  <2>4. CASE k > np /\ k <= C + 1
    <3>1. W[k] = old.rule[k - 1]
      BY <1>7, <2>1, <2>4
    <3>2. k - 1 \in 1 .. C
      BY <1>5, <2>1, <2>4
    <3> QED BY <1>9, <3>1, <3>2
  <2>5. CASE k > C + 1
    BY <1>7, <2>1, <2>5
  <2> QED BY <2>1, <2>2, <2>3, <2>4, <2>5
<1>11. ASSUME NEW q \in I
       PROVE  W[CountOnes(I, q) + 1] = IF q = pos THEN h ELSE rs[q]
  <2> DEFINE at == CountOnes(I, q) + 1
  <2>1. CountOnes(I, q) \in 0 .. C /\ CountOnes(I, pos) \in 0 .. C
    <3>1. pos \in I
      OBVIOUS
    <3>2. CountOnes(I, q) \in 0 .. Cardinality(I) - 1
      BY <1>2, CountRange
    <3>3. CountOnes(I, pos) \in 0 .. Cardinality(I) - 1
      BY <1>2, <3>1, CountRange
    <3> QED BY <1>2, <3>2, <3>3
  <2>2. at \in 1 .. C + 1 /\ at \in 1 .. N /\ at \in Int /\ np \in Int
    BY <1>2, <1>4, <1>5, <2>1
  <2>3. /\ at < np => W[at] = old.rule[at]
        /\ at = np => W[at] = h
        /\ at > np => W[at] = old.rule[at - 1]
    <3> HIDE DEF at
    <3> QED BY <1>2, <1>7, <2>2
  <2>4. CASE q = pos
    BY <2>3, <2>4 DEF np
  <2>5. CASE q # pos
    <3>1. q \in I0 /\ pos \in I
      BY <2>5
    <3>2. CountOnes(I, q) = IF q < pos THEN CountOnes(I0, q) + 1
                            ELSE CountOnes(I0, q)
      BY <1>1, <1>2, <3>1, CountAdd
    <3>3. CountOnes(I0, q) + 1 = CountOnes(I0, q) + 1 /\ CountOnes(I0, q) \in Int
      <4>1. CountOnes(I0, q) \in 0 .. C - 1
        BY <1>2, <3>1, CountRange
      <4> QED BY <4>1
    <3>4. CASE q < pos
      <4>1. CountOnes(I, pos) < CountOnes(I, q)
        BY <1>2, <3>1, <3>4, CountOrder
      <4>2. at > np /\ at - 1 = CountOnes(I0, q) + 1
        BY <2>1, <3>2, <3>3, <3>4, <4>1 DEF np
      <4> QED BY <2>3, <2>5, <3>1, <4>2 DEF Holds
    <3>5. CASE ~ (q < pos)
      <4>1. q > pos
        BY <1>1, <1>2, <2>5, <3>1, <3>5
      <4>2. CountOnes(I, q) < CountOnes(I, pos)
        BY <1>1, <1>2, <3>1, <4>1, CountOrder
      <4>3. at < np /\ at = CountOnes(I0, q) + 1
        BY <2>1, <3>2, <3>3, <3>5, <4>2 DEF np
      <4> QED BY <2>3, <2>5, <3>1, <4>3 DEF Holds
    <3> QED BY <3>4, <3>5
  <2> QED BY <2>4, <2>5
<1> QED BY <1>2, <1>8, <1>10, <1>11 DEF W, N

\* A next hop is taken out at the index of its bit, and the ones below it move
\* up with theirs.
LEMMA RulesRemoved ==
  ASSUME NEW old, NEW I0, NEW E0, NEW rs, NEW ks,
         Holds(old, I0, E0, rs, ks), NEW pos \in I0, NEW I, I = I0 \ {pos}
  PROVE  /\ Cardinality(I) = Cardinality(I0) - 1
         /\ RulesMinus(old, I0, I, pos) \in [1 .. NODE_WORDS * UP_RULE(Cardinality(I))
                                      -> NHI \cup {NULL}]
         /\ \A q \in I : RulesMinus(old, I0, I, pos)[CountOnes(I, q) + 1] = rs[q]
<1> DEFINE C == Cardinality(I0)
           N == NODE_WORDS * UP_RULE(Cardinality(I))
           W == RulesMinus(old, I0, I, pos)
           was == CountOnes(I0, pos) + 1
<1>1. I0 \subseteq EnlPos /\ I \subseteq EnlPos /\ pos \notin I
      /\ I0 = I \cup {pos}
  BY BlockOfNode
<1>2. /\ C \in Nat /\ Cardinality(I) = C - 1 /\ C - 1 \in Nat
      /\ IsFiniteSet(I0) /\ IsFiniteSet(I)
      /\ I0 \subseteq Int /\ I \subseteq Int /\ pos \in Int
  BY <1>1, ClearBit
<1>3. UP_RULE(C - 1) \in Nat /\ NODE_WORDS * UP_RULE(C - 1) >= C - 1
  BY <1>2, UnitsHoldRules
<1>4. N \in Nat /\ N >= C - 1
  <2>1. NODE_WORDS * UP_RULE(C - 1) \in Nat
    BY <1>3, HeapWordsAssumption
  <2> QED BY <1>2, <1>3, <2>1
<1>5. was \in 1 .. C /\ was = CountOnes(I0, pos) + 1
  BY BlockOfNode
<1>6. \A k \in 1 .. N :
        W[k] = CASE k < was -> old.rule[k]
                 [] k >= was /\ k < C -> old.rule[k + 1]
                 [] OTHER -> NULL
  BY DEF RulesMinus, WordsMinus, WordsOf
<1>7. W = [k \in 1 .. N |-> W[k]]
  BY DEF RulesMinus, WordsMinus, WordsOf
<1> HIDE DEF W, N, was
<1>8. \A k \in 1 .. C : old.rule[k] \in NHI \cup {NULL}
  <2> DEFINE M == NODE_WORDS * UP_RULE(C)
  <2>1. old.rule \in [1 .. M -> NHI \cup {NULL}]
    BY BlockOfNode
  <2>2. UP_RULE(C) \in Nat /\ NODE_WORDS * UP_RULE(C) >= C
    BY <1>2, UnitsHoldRules
  <2>3. M \in Nat /\ M >= C
    BY <2>2, HeapWordsAssumption
  <2> HIDE DEF C, M
  <2> QED BY <1>2, <2>1, <2>3 DEF C
<1>9. \A k \in 1 .. N : W[k] \in NHI \cup {NULL}
  <2> SUFFICES ASSUME NEW k \in 1 .. N
               PROVE  W[k] \in NHI \cup {NULL}
    OBVIOUS
  <2> HIDE DEF C
  <2>1. C \in Nat /\ was \in Int /\ k \in Int /\ k >= 1 /\ was <= C
    BY <1>2, <1>4, <1>5 DEF C
  <2>2. CASE k < was
    BY <1>6, <1>8, <2>1, <2>2
  <2>3. CASE k >= was /\ k < C
    <3>1. W[k] = old.rule[k + 1]
      BY <1>6, <2>1, <2>3
    <3>2. k + 1 \in 1 .. C
      BY <2>1, <2>3
    <3> QED BY <1>8, <3>1, <3>2
  <2>4. CASE k >= was /\ ~ (k < C)
    BY <1>6, <2>1, <2>4
  <2> QED BY <2>1, <2>2, <2>3, <2>4
<1>10. ASSUME NEW q \in I
       PROVE  W[CountOnes(I, q) + 1] = rs[q]
  <2> DEFINE at == CountOnes(I, q) + 1
  <2>1. q \in I0 /\ q # pos
    BY <1>1
  <2>2. CountOnes(I, q) \in 0 .. C - 2
    <3>1. CountOnes(I, q) \in 0 .. Cardinality(I) - 1
      BY <1>2, CountRange
    <3> QED BY <1>2, <3>1
  <2>3. CountOnes(I0, q) \in 0 .. C - 1
    BY <1>2, <2>1, CountRange
  <2>4. at \in 1 .. C - 1 /\ at \in 1 .. N /\ at \in Int /\ was \in Int
    BY <1>2, <1>4, <1>5, <2>2
  <2>5. /\ at < was => W[at] = old.rule[at]
        /\ at >= was => W[at] = old.rule[at + 1]
    <3> HIDE DEF at
    <3> QED BY <1>2, <1>6, <2>4
  <2>6. CountOnes(I0, q) = IF q < pos THEN CountOnes(I, q) + 1
                                 ELSE CountOnes(I, q)
    <3>1. CountOnes(I \cup {pos}, q) = IF q < pos THEN CountOnes(I, q) + 1
                                       ELSE CountOnes(I, q)
      BY <1>1, <1>2, CountAdd
    <3> QED BY <1>1, <3>1
  <2>7. CASE q < pos
    <3>1. CountOnes(I0, pos) < CountOnes(I0, q)
      BY <1>2, <2>1, <2>7, CountOrder
    <3>2. CountOnes(I0, pos) \in 0 .. C - 1
      BY <1>2, CountRange
    <3>3. at >= was /\ at + 1 = CountOnes(I0, q) + 1
      BY <1>5, <2>2, <2>3, <2>6, <2>7, <3>1, <3>2
    <3> QED BY <2>1, <2>5, <3>3 DEF Holds
  <2>8. CASE ~ (q < pos)
    <3>1. q > pos
      BY <1>2, <2>1, <2>8
    <3>2. CountOnes(I0, q) < CountOnes(I0, pos)
      BY <1>2, <2>1, <3>1, CountOrder
    <3>3. CountOnes(I0, pos) \in 0 .. C - 1
      BY <1>2, CountRange
    <3>4. at < was /\ at = CountOnes(I0, q) + 1
      BY <1>5, <2>2, <2>3, <2>6, <2>8, <3>2, <3>3
    <3> QED BY <2>1, <2>5, <3>4 DEF Holds
  <2> QED BY <2>7, <2>8
<1> QED BY <1>2, <1>7, <1>9, <1>10 DEF W, N

\* The same for a new child
LEMMA KidsAdded ==
  ASSUME NEW old, NEW I0, NEW E0, NEW rs, NEW ks,
         Holds(old, I0, E0, rs, ks), NEW pos \in EnlPos, pos \notin E0,
         NEW E, E = E0 \cup {pos}
  PROVE  /\ Cardinality(E) = Cardinality(E0) + 1
         /\ KidsPlus(old, E, pos) \in [0 .. Cardinality(E) - 1 -> Node]
         /\ \A q \in E : KidsPlus(old, E, pos)[CountOnes(E, q)] =
                           IF q = pos THEN ZeroNode ELSE ks[q]
<1> DEFINE C == Cardinality(E0)
           K == KidsPlus(old, E, pos)
           np == CountOnes(E, pos)
<1>1. E \subseteq EnlPos /\ pos \in E /\ E0 \subseteq EnlPos
  BY BlockOfNode
<1>2. /\ C \in Nat /\ Cardinality(E) = C + 1
      /\ IsFiniteSet(E0) /\ IsFiniteSet(E)
      /\ E0 \subseteq Int /\ E \subseteq Int /\ pos \in Int
  BY <1>1, SetBit
<1>3. np \in 0 .. C
  <2>1. CountOnes(E, pos) \in 0 .. Cardinality(E) - 1
    BY <1>1, <1>2, CountRange
  <2> QED BY <1>2, <2>1
<1>4. \A k \in 0 .. C :
        K[k] = CASE k < np -> old.kid[k]
                 [] k = np -> ZeroNode
                 [] OTHER -> old.kid[k - 1]
  BY <1>2 DEF KidsPlus, NodesPlus, NodesOf
<1>5. K = [k \in 0 .. C |-> K[k]]
  BY <1>2 DEF KidsPlus, NodesPlus, NodesOf
<1> HIDE DEF K, np
<1>6. \A k \in 0 .. C - 1 : old.kid[k] \in Node
  <2>1. C > 0 => E0 # {}
    BY <1>2, FS_EmptySet
  <2>2. C > 0 => old.kid \in [0 .. C - 1 -> Node]
    BY <2>1, BlockOfNode
  <2> HIDE DEF C
  <2> QED BY <1>2, <2>2 DEF C
<1>7. \A k \in 0 .. C : K[k] \in Node
  <2> SUFFICES ASSUME NEW k \in 0 .. C
               PROVE  K[k] \in Node
    OBVIOUS
  <2> HIDE DEF C
  <2>1. C \in Nat /\ np \in Int /\ k \in Int /\ np <= C /\ 0 <= np
    BY <1>2, <1>3 DEF C
  <2>2. CASE k < np
    BY <1>4, <1>6, <2>1, <2>2
  <2>3. CASE k = np
    BY <1>4, <2>1, <2>3, ZeroNodeIsNode
  <2>4. CASE k > np
    <3>1. K[k] = old.kid[k - 1]
      BY <1>4, <2>1, <2>4
    <3>2. k - 1 \in 0 .. C - 1
      BY <2>1, <2>4
    <3> QED BY <1>6, <3>1, <3>2
  <2> QED BY <2>1, <2>2, <2>3, <2>4
<1>8. ASSUME NEW q \in E
      PROVE  K[CountOnes(E, q)] = IF q = pos THEN ZeroNode ELSE ks[q]
  <2> DEFINE at == CountOnes(E, q)
  <2>1. at \in 0 .. C
    <3>1. CountOnes(E, q) \in 0 .. Cardinality(E) - 1
      BY <1>2, CountRange
    <3> QED BY <1>2, <3>1
  <2>2. /\ at < np => K[at] = old.kid[at]
        /\ at = np => K[at] = ZeroNode
        /\ at > np => K[at] = old.kid[at - 1]
    <3> HIDE DEF at
    <3> QED BY <1>2, <1>3, <1>4, <2>1
  <2>3. CASE q = pos
    BY <2>2, <2>3 DEF np
  <2>4. CASE q # pos
    <3>1. q \in E0
      BY <2>4
    <3>2. CountOnes(E, q) = IF q < pos THEN CountOnes(E0, q) + 1
                            ELSE CountOnes(E0, q)
      BY <1>2, <3>1, CountAdd
    <3>3. CountOnes(E0, q) \in 0 .. C - 1
      BY <1>2, <3>1, CountRange
    <3>4. CASE q < pos
      <4>1. CountOnes(E, pos) < CountOnes(E, q)
        BY <1>1, <1>2, <3>4, CountOrder
      <4>2. at > np /\ at - 1 = CountOnes(E0, q)
        BY <3>2, <3>3, <3>4, <4>1, <1>3, <2>1 DEF np
      <4> QED BY <2>2, <2>4, <3>1, <4>2 DEF Holds
    <3>5. CASE ~ (q < pos)
      <4>1. q > pos
        BY <1>2, <2>4, <3>5
      <4>2. CountOnes(E, q) < CountOnes(E, pos)
        BY <1>1, <1>2, <4>1, CountOrder
      <4>3. at < np /\ at = CountOnes(E0, q)
        BY <3>2, <3>5, <4>2 DEF np
      <4> QED BY <2>2, <2>4, <3>1, <4>3 DEF Holds
    <3> QED BY <3>4, <3>5
  <2> QED BY <2>3, <2>4
<1> QED
  <2>1. Cardinality(E) - 1 = C
    BY <1>2
  <2> QED BY <1>2, <1>5, <1>7, <1>8, <2>1 DEF K

\* and for one that is taken out.
LEMMA KidsRemoved ==
  ASSUME NEW old, NEW I0, NEW E0, NEW rs, NEW ks,
         Holds(old, I0, E0, rs, ks), NEW pos \in E0, NEW E, E = E0 \ {pos}
  PROVE  /\ Cardinality(E) = Cardinality(E0) - 1
         /\ KidsMinus(old, E0, E, pos) \in [0 .. Cardinality(E) - 1 -> Node]
         /\ \A q \in E : KidsMinus(old, E0, E, pos)[CountOnes(E, q)] = ks[q]
<1> DEFINE C == Cardinality(E0)
           K == KidsMinus(old, E0, E, pos)
           was == CountOnes(E0, pos)
<1>1. /\ E0 \subseteq EnlPos /\ E \subseteq EnlPos /\ pos \notin E
      /\ E0 = E \cup {pos}
  BY BlockOfNode
<1>2. /\ C \in Nat /\ Cardinality(E) = C - 1 /\ C - 1 \in Nat
      /\ IsFiniteSet(E0) /\ IsFiniteSet(E)
      /\ E0 \subseteq Int /\ E \subseteq Int /\ pos \in Int
  BY <1>1, ClearBit
<1>3. was \in 0 .. C - 1 /\ was = CountOnes(E0, pos)
  BY BlockOfNode
<1>4. \A k \in 0 .. C - 2 :
        K[k] = IF k < was THEN old.kid[k] ELSE old.kid[k + 1]
  <2>1. Cardinality(E) - 1 = C - 2
    BY <1>2
  <2> QED BY <2>1 DEF KidsMinus, NodesMinus, NodesOf
<1>5. K = [k \in 0 .. C - 2 |-> K[k]]
  <2>1. Cardinality(E) - 1 = C - 2
    BY <1>2
  <2> QED BY <2>1 DEF KidsMinus, NodesMinus, NodesOf
<1> HIDE DEF K, was
<1>6. old.kid \in [0 .. C - 1 -> Node]
  BY BlockOfNode
<1>7. \A k \in 0 .. C - 2 : K[k] \in Node
  <2> HIDE DEF C
  <2>1. \A k \in 0 .. C - 2 : k \in 0 .. C - 1 /\ k + 1 \in 0 .. C - 1
    BY <1>2 DEF C
  <2> QED BY <1>4, <1>6, <2>1
<1>8. ASSUME NEW q \in E
      PROVE  K[CountOnes(E, q)] = ks[q]
  <2> DEFINE at == CountOnes(E, q)
  <2>1. q \in E0 /\ q # pos
    BY <1>1
  <2>2. at \in 0 .. C - 2
    <3>1. CountOnes(E, q) \in 0 .. Cardinality(E) - 1
      BY <1>2, CountRange
    <3> QED BY <1>2, <3>1
  <2>3. CountOnes(E0, q) \in 0 .. C - 1
    BY <1>2, <2>1, CountRange
  <2>4. K[at] = IF at < was THEN old.kid[at] ELSE old.kid[at + 1]
    <3> HIDE DEF at
    <3> QED BY <1>4, <2>2
  <2>5. CountOnes(E0, q) = IF q < pos THEN CountOnes(E, q) + 1
                                 ELSE CountOnes(E, q)
    <3>1. CountOnes(E \cup {pos}, q) = IF q < pos THEN CountOnes(E, q) + 1
                                       ELSE CountOnes(E, q)
      BY <1>1, <1>2, CountAdd
    <3> QED BY <1>1, <3>1
  <2>6. CASE q < pos
    <3>1. CountOnes(E0, pos) < CountOnes(E0, q)
      BY <1>2, <2>1, <2>6, CountOrder
    <3>2. ~ (at < was) /\ at + 1 = CountOnes(E0, q)
      BY <1>3, <2>2, <2>3, <2>5, <2>6, <3>1
    <3> QED BY <2>1, <2>4, <3>2 DEF Holds
  <2>7. CASE ~ (q < pos)
    <3>1. q > pos
      BY <1>2, <2>1, <2>7
    <3>2. CountOnes(E0, q) < CountOnes(E0, pos)
      BY <1>2, <2>1, <3>1, CountOrder
    <3>3. at < was /\ at = CountOnes(E0, q)
      BY <1>3, <2>5, <2>7, <3>2
    <3> QED BY <2>1, <2>4, <3>3 DEF Holds
  <2> QED BY <2>6, <2>7
<1> QED
  <2>1. Cardinality(E) - 1 = C - 2
    BY <1>2
  <2> QED BY <1>2, <1>5, <1>7, <1>8, <2>1 DEF K

-----------------------------------------------------------------------------
\* x next hops take at most x units, and none when there are none.
LEMMA UnitsOfRules ==
  ASSUME NEW x \in Nat
  PROVE  /\ UP_RULE(x) \in 0 .. x
         /\ UP_RULE(x) = 0 <=> x = 0
<1> DEFINE a == x + NODE_WORDS - 1
           q == a \div NODE_WORDS
<1>1. UP_RULE(x) = q /\ q \in Nat /\ NODE_WORDS * q >= x
  BY UnitsHoldRules DEF UP_RULE
<1>2. NODE_WORDS \in Nat /\ NODE_WORDS >= 1 /\ a \in Nat
  BY HeapWordsAssumption
<1>3. q * NODE_WORDS <= a
  <2> HIDE DEF a
  <2>1. a \div NODE_WORDS \in Int /\ a % NODE_WORDS \in 0 .. NODE_WORDS - 1
        /\ a = (a \div NODE_WORDS) * NODE_WORDS + (a % NODE_WORDS)
    BY <1>2, DivModExist
  <2> DEFINE r == a % NODE_WORDS
             m == q * NODE_WORDS
  <2>2. a = m + r /\ r >= 0 /\ r \in Int /\ m \in Int
    BY <1>2, <2>1
  <2> HIDE DEF r, m
  <2>3. m <= a
    BY <1>2, <2>2
  <2> QED BY <2>3 DEF m
<1>4. a = x + NODE_WORDS - 1
  OBVIOUS
<1> HIDE DEF q, a
<1>5. ~ (x + 1 <= q)
  <2> SUFFICES ASSUME x + 1 <= q PROVE FALSE
    OBVIOUS
  <2>1. (x + 1) * NODE_WORDS <= q * NODE_WORDS
    BY <1>1, <1>2, ScaleOrder
  <2>2. 1 * x <= NODE_WORDS * x
    BY <1>2, ScaleOrder
  <2>3. (x + 1) * NODE_WORDS = NODE_WORDS * x + NODE_WORDS
    BY <1>2
  <2> DEFINE p == NODE_WORDS * x
             z == q * NODE_WORDS
  <2>4. p \in Int /\ z \in Int /\ p + NODE_WORDS <= z /\ x <= p /\ z <= x + NODE_WORDS - 1
    BY <1>1, <1>2, <1>3, <1>4, <2>1, <2>2, <2>3
  <2> HIDE DEF p, z
  <2> QED BY <1>2, <2>4
<1>6. q = 0 => x = 0
  <2> SUFFICES ASSUME q = 0 PROVE x = 0
    OBVIOUS
  <2>1. NODE_WORDS * q = 0
    BY <1>2
  <2> QED BY <1>1, <2>1
<1> QED BY <1>1, <1>5, <1>6

\* The size of a block.
LEMMA UnitsRange ==
  ASSUME NEW I, NEW E, I \subseteq InlPos, E \subseteq EnlPos
  PROVE  /\ Cardinality(I) \in Nat /\ Cardinality(E) \in Nat
         /\ UP_RULE(Cardinality(I)) \in Nat
         /\ NODE_WORDS * UP_RULE(Cardinality(I)) \in Nat
         /\ NODE_WORDS * UP_RULE(Cardinality(I)) >= Cardinality(I)
         /\ UnitsOf(Cardinality(E), Cardinality(I)) \in 0 .. Pow2[STRIDE + 1]
         /\ UP_RULE(Cardinality(I)) \in 0 .. UnitsOf(Cardinality(E), Cardinality(I))
         /\ UnitsOf(Cardinality(E), Cardinality(I)) - UP_RULE(Cardinality(I)) = Cardinality(E)
         /\ UnitsOf(Cardinality(E), Cardinality(I)) = 0 => I = {} /\ E = {}
<1> DEFINE P == Pow2[STRIDE]
           ci == Cardinality(I)
           ce == Cardinality(E)
<1>1. P \in Nat /\ P >= 1 /\ Pow2[STRIDE + 1] = 2 * P
  BY StrideAssumption, Pow2Is, Pow2Positive
<1>2. IsFiniteSet(EnlPos) /\ Cardinality(EnlPos) = P
  <2>1. 0 \in Int /\ P - 1 \in Int
    BY <1>1
  <2>2. IsFiniteSet(0 .. P - 1) /\ Cardinality(0 .. P - 1) = IF 0 > P - 1 THEN 0 ELSE P - 1 - 0 + 1
    <3> HIDE DEF P
    <3> QED BY <2>1, FS_Interval
  <2> HIDE DEF P
  <2>3. Cardinality(0 .. P - 1) = P
    BY <1>1, <2>2
  <2> QED BY <2>2, <2>3 DEF EnlPos, P
<1>3. I \in SUBSET EnlPos /\ E \in SUBSET EnlPos
  BY PowStride
<1>4. ci \in Nat /\ ci <= P /\ ce \in Nat /\ ce <= P
  BY <1>2, <1>3, FS_Subset, FS_CardinalityType
<1>5. UP_RULE(ci) \in 0 .. ci /\ (UP_RULE(ci) = 0 <=> ci = 0)
      /\ UP_RULE(ci) \in Nat /\ NODE_WORDS * UP_RULE(ci) >= ci
  BY <1>4, UnitsOfRules, UnitsHoldRules
<1>6. NODE_WORDS * UP_RULE(ci) \in Nat
  BY <1>5, HeapWordsAssumption
<1>7. ci = 0 => I = {}
  BY <1>3, BitmapIsFinite, FS_EmptySet
<1>8. ce = 0 => E = {}
  BY <1>3, BitmapIsFinite, FS_EmptySet
<1>9. UnitsOf(ce, ci) = ce + UP_RULE(ci)
  BY DEF UnitsOf, UP_CHILD
<1> DEFINE u == UP_RULE(ci)
           v == UnitsOf(ce, ci)
<1> HIDE DEF P, ci, ce, u, v
<1>10. /\ v = ce + u /\ u \in Nat /\ u <= P /\ u <= v
       /\ v \in 0 .. 2 * P /\ v - u = ce /\ u \in 0 .. v
       /\ v = 0 => u = 0 /\ ce = 0
  BY <1>1, <1>4, <1>5, <1>9 DEF u, v
<1> QED BY <1>1, <1>4, <1>5, <1>6, <1>7, <1>8, <1>10 DEF P, ci, ce, u, v

\* A record of the size its bitmaps tell, with every next hop and child at its
\* index, is the block of the node.
LEMMA BlockIsHeld ==
  ASSUME NEW I, NEW E, I \subseteq InlPos, E \subseteq EnlPos,
         NEW rs, NEW ks, NEW R, NEW K,
         R \in [1 .. NODE_WORDS * UP_RULE(Cardinality(I)) -> NHI \cup {NULL}],
         K \in [0 .. Cardinality(E) - 1 -> Node],
         \A pos \in I : R[CountOnes(I, pos) + 1] = rs[pos],
         \A pos \in E : K[CountOnes(E, pos)] = ks[pos]
  PROVE  Holds([units |-> UnitsOf(Cardinality(E), Cardinality(I)),
                low |-> UP_RULE(Cardinality(I)), rule |-> R, kid |-> K], I, E, rs, ks)
<1> DEFINE blk == [units |-> UnitsOf(Cardinality(E), Cardinality(I)),
                   low |-> UP_RULE(Cardinality(I)), rule |-> R, kid |-> K]
<1>1. /\ blk.units = UnitsOf(Cardinality(E), Cardinality(I))
      /\ blk.low = UP_RULE(Cardinality(I)) /\ blk.rule = R /\ blk.kid = K
      /\ blk = [units |-> blk.units, low |-> blk.low, rule |-> blk.rule, kid |-> blk.kid]
  OBVIOUS
<1>2. /\ UnitsOf(Cardinality(E), Cardinality(I)) \in 0 .. Pow2[STRIDE + 1]
      /\ UP_RULE(Cardinality(I)) \in 0 .. UnitsOf(Cardinality(E), Cardinality(I))
      /\ UnitsOf(Cardinality(E), Cardinality(I)) - UP_RULE(Cardinality(I)) = Cardinality(E)
  BY UnitsRange
<1> HIDE DEF blk
<1>3. IsBlock(blk)
  BY <1>1, <1>2 DEF IsBlock
<1>4. Holds(blk, I, E, rs, ks)
  BY <1>1, <1>3 DEF Holds
<1> QED BY <1>4 DEF blk

\* The block of the node that is all zero.
LEMMA NoBlock ==
  ASSUME NEW rs, NEW ks
  PROVE  Holds(NewBlock(0, 0), {}, {}, rs, ks)
<1>1. Cardinality({}) = 0
  BY FS_EmptySet
<1>2. UP_RULE(0) = 0
  BY UnitsOfRules
<1>3. NODE_WORDS * 0 = 0
  BY HeapWordsAssumption
<1> DEFINE R == ZeroWords(1 .. NODE_WORDS * UP_RULE(0))
           K == ZeroNodes(0 .. 0 - 1)
<1>4. NewBlock(0, 0) = [units |-> UnitsOf(0, 0), low |-> UP_RULE(0), rule |-> R, kid |-> K]
  BY NewBlockIsZero
<1>5. R \in [1 .. NODE_WORDS * UP_RULE(0) -> NHI \cup {NULL}] /\ K \in [0 .. 0 - 1 -> Node]
  BY ZeroNodeIsNode DEF ZeroWords, ZeroNodes
<1> HIDE DEF R, K
<1> QED BY <1>1, <1>4, <1>5, BlockIsHeld

-----------------------------------------------------------------------------
\* The four rebuilds: from the block of a node to that of the node changed.
LEMMA RuleAdded ==
  ASSUME NEW old, NEW I, NEW E, NEW rs, NEW ks, Holds(old, I, E, rs, ks),
         NEW pos \in InlPos, pos \notin I, NEW h \in NHI \cup {NULL},
         NEW J, J = I \cup {pos},
         NEW rt, \A q \in J : rt[q] = IF q = pos THEN h ELSE rs[q]
  PROVE  Holds(RulesWith(SameKids(NewBlock(Cardinality(E), Cardinality(I) + 1), old),
                         old, Cardinality(I), CountOnes(J, pos) + 1, h),
               J, E, rt, ks)
<1> DEFINE C == Cardinality(E)
           D == Cardinality(I)
           np == CountOnes(J, pos) + 1
           m == SameKids(NewBlock(C, D + 1), old)
           n == RulesWith(m, old, D, np, h)
<1>1. m = [units |-> UnitsOf(C, D + 1), low |-> UP_RULE(D + 1),
           rule |-> ZeroWords(WordsOf(D + 1)), kid |-> KeptKids(old, E)]
  BY NewBlockIsZero, CopyKids DEF KeptKids, WordsOf, NodesOf
<1> HIDE DEF m
<1>2. n = [units |-> UnitsOf(C, D + 1), low |-> UP_RULE(D + 1), kid |-> KeptKids(old, E),
           rule |-> WordsPlus(WordsOf(D + 1), old, D, np, h)]
  BY <1>1, CopyRules
<1>3. /\ Cardinality(J) = D + 1
      /\ RulesPlus(old, I, J, pos, h) \in [1 .. NODE_WORDS * UP_RULE(Cardinality(J))
                                            -> NHI \cup {NULL}]
      /\ \A q \in J : RulesPlus(old, I, J, pos, h)[CountOnes(J, q) + 1] = rt[q]
  BY RulesAdded
<1>4. /\ KeptKids(old, E) \in [0 .. C - 1 -> Node]
      /\ \A q \in E : KeptKids(old, E)[CountOnes(E, q)] = ks[q]
  BY KidsKept
<1>5. n = [units |-> UnitsOf(C, Cardinality(J)), low |-> UP_RULE(Cardinality(J)),
           rule |-> RulesPlus(old, I, J, pos, h), kid |-> KeptKids(old, E)]
  BY <1>2, <1>3 DEF RulesPlus
<1>6. J \subseteq InlPos /\ E \subseteq EnlPos
  BY DEF Holds
<1> HIDE DEF n
<1>7. Holds(n, J, E, rt, ks)
  BY <1>3, <1>4, <1>5, <1>6, BlockIsHeld
<1> QED BY <1>7 DEF n, m

\* reduce_rule: the block that is left has the other next hops and the
\* children where the bitmaps say.
LEMMA RuleRemoved ==
  ASSUME NEW old, NEW I, NEW E, NEW rs, NEW ks, Holds(old, I, E, rs, ks),
         NEW pos \in I, NEW J, J = I \ {pos},
         NEW rt, \A q \in J : rt[q] = rs[q]
  PROVE  Holds(RulesWithout(SameKids(NewBlock(Cardinality(E), Cardinality(I) - 1), old),
                            old, Cardinality(I), CountOnes(I, pos) + 1),
               J, E, rt, ks)
<1> DEFINE C == Cardinality(E)
           D == Cardinality(I)
           at == CountOnes(I, pos) + 1
           m == SameKids(NewBlock(C, D - 1), old)
           n == RulesWithout(m, old, D, at)
<1>1. m = [units |-> UnitsOf(C, D - 1), low |-> UP_RULE(D - 1),
           rule |-> ZeroWords(WordsOf(D - 1)), kid |-> KeptKids(old, E)]
  BY NewBlockIsZero, CopyKids DEF KeptKids, WordsOf, NodesOf
<1> HIDE DEF m
<1>2. n = [units |-> UnitsOf(C, D - 1), low |-> UP_RULE(D - 1), kid |-> KeptKids(old, E),
           rule |-> WordsMinus(WordsOf(D - 1), old, D, at)]
  BY <1>1, CopyRules
<1>3. /\ Cardinality(J) = D - 1
      /\ RulesMinus(old, I, J, pos) \in [1 .. NODE_WORDS * UP_RULE(Cardinality(J))
                                          -> NHI \cup {NULL}]
      /\ \A q \in J : RulesMinus(old, I, J, pos)[CountOnes(J, q) + 1] = rt[q]
  BY RulesRemoved
<1>4. /\ KeptKids(old, E) \in [0 .. C - 1 -> Node]
      /\ \A q \in E : KeptKids(old, E)[CountOnes(E, q)] = ks[q]
  BY KidsKept
<1>5. n = [units |-> UnitsOf(C, Cardinality(J)), low |-> UP_RULE(Cardinality(J)),
           rule |-> RulesMinus(old, I, J, pos), kid |-> KeptKids(old, E)]
  BY <1>2, <1>3 DEF RulesMinus
<1>6. J \subseteq InlPos /\ E \subseteq EnlPos
  BY DEF Holds
<1> HIDE DEF n
<1>7. Holds(n, J, E, rt, ks)
  BY <1>3, <1>4, <1>5, <1>6, BlockIsHeld
<1> QED BY <1>7 DEF n, m

\* extend_child: the new child is a zeroed node, among its moved siblings.
LEMMA ChildAdded ==
  ASSUME NEW old, NEW I, NEW E, NEW rs, NEW ks, Holds(old, I, E, rs, ks),
         NEW pos \in EnlPos, pos \notin E, NEW F, F = E \cup {pos},
         NEW kt, \A q \in F : kt[q] = IF q = pos THEN ZeroNode ELSE ks[q]
  PROVE  Holds(KidsWith(SameRules(NewBlock(Cardinality(E) + 1, Cardinality(I)),
                                  old, Cardinality(I)),
                        old, CountOnes(F, pos)),
               I, F, rs, kt)
<1> DEFINE C == Cardinality(E)
           D == Cardinality(I)
           m == SameRules(NewBlock(C + 1, D), old, D)
           n == KidsWith(m, old, CountOnes(F, pos))
<1>1. m = [units |-> UnitsOf(C + 1, D), low |-> UP_RULE(D),
           kid |-> ZeroNodes(NodesOf(C + 1)), rule |-> KeptRules(old, I)]
  BY NewBlockIsZero, CopyRules DEF KeptRules, WordsOf, NodesOf
<1> HIDE DEF m
<1>2. n = [units |-> UnitsOf(C + 1, D), low |-> UP_RULE(D), rule |-> KeptRules(old, I),
           kid |-> NodesPlus(NodesOf(C + 1), old, CountOnes(F, pos))]
  BY <1>1, CopyKids
<1>3. /\ Cardinality(F) = C + 1
      /\ KidsPlus(old, F, pos) \in [0 .. Cardinality(F) - 1 -> Node]
      /\ \A q \in F : KidsPlus(old, F, pos)[CountOnes(F, q)] = kt[q]
  BY KidsAdded
<1>4. /\ KeptRules(old, I) \in [1 .. NODE_WORDS * UP_RULE(D) -> NHI \cup {NULL}]
      /\ \A q \in I : KeptRules(old, I)[CountOnes(I, q) + 1] = rs[q]
  BY RulesKept
<1>5. n = [units |-> UnitsOf(Cardinality(F), D), low |-> UP_RULE(D),
           rule |-> KeptRules(old, I), kid |-> KidsPlus(old, F, pos)]
  BY <1>2, <1>3 DEF KidsPlus
<1>6. I \subseteq InlPos /\ F \subseteq EnlPos
  BY DEF Holds
<1> HIDE DEF n
<1>7. Holds(n, I, F, rs, kt)
  BY <1>3, <1>4, <1>5, <1>6, BlockIsHeld
<1> QED BY <1>7 DEF n, m

\* reduce_child: the siblings close the gap.
LEMMA ChildRemoved ==
  ASSUME NEW old, NEW I, NEW E, NEW rs, NEW ks, Holds(old, I, E, rs, ks),
         NEW pos \in E, NEW F, F = E \ {pos},
         NEW kt, \A q \in F : kt[q] = ks[q]
  PROVE  Holds(KidsWithout(SameRules(NewBlock(Cardinality(E) - 1, Cardinality(I)),
                                     old, Cardinality(I)),
                           old, CountOnes(E, pos)),
               I, F, rs, kt)
<1> DEFINE C == Cardinality(E)
           D == Cardinality(I)
           m == SameRules(NewBlock(C - 1, D), old, D)
           n == KidsWithout(m, old, CountOnes(E, pos))
<1>1. m = [units |-> UnitsOf(C - 1, D), low |-> UP_RULE(D),
           kid |-> ZeroNodes(NodesOf(C - 1)), rule |-> KeptRules(old, I)]
  BY NewBlockIsZero, CopyRules DEF KeptRules, WordsOf, NodesOf
<1> HIDE DEF m
<1>2. n = [units |-> UnitsOf(C - 1, D), low |-> UP_RULE(D), rule |-> KeptRules(old, I),
           kid |-> NodesMinus(NodesOf(C - 1), old, CountOnes(E, pos))]
  BY <1>1, CopyKids
<1>3. /\ Cardinality(F) = C - 1
      /\ KidsMinus(old, E, F, pos) \in [0 .. Cardinality(F) - 1 -> Node]
      /\ \A q \in F : KidsMinus(old, E, F, pos)[CountOnes(F, q)] = kt[q]
  BY KidsRemoved
<1>4. /\ KeptRules(old, I) \in [1 .. NODE_WORDS * UP_RULE(D) -> NHI \cup {NULL}]
      /\ \A q \in I : KeptRules(old, I)[CountOnes(I, q) + 1] = rs[q]
  BY RulesKept
<1>5. n = [units |-> UnitsOf(Cardinality(F), D), low |-> UP_RULE(D),
           rule |-> KeptRules(old, I), kid |-> KidsMinus(old, E, F, pos)]
  BY <1>2, <1>3 DEF KidsMinus
<1>6. I \subseteq InlPos /\ F \subseteq EnlPos
  BY DEF Holds
<1> HIDE DEF n
<1>7. Holds(n, I, F, rs, kt)
  BY <1>3, <1>4, <1>5, <1>6, BlockIsHeld
<1> QED BY <1>7 DEF n, m

-----------------------------------------------------------------------------
\* Writes into a block in place: a next hop, a child, all next hops cleared.
LEMMA RuleWritten ==
  ASSUME NEW old, NEW I, NEW E, NEW rs, NEW ks, Holds(old, I, E, rs, ks),
         NEW pos \in I, NEW h \in NHI \cup {NULL},
         NEW rt, \A q \in I : rt[q] = IF q = pos THEN h ELSE rs[q]
  PROVE  Holds([old EXCEPT !.rule[CountOnes(I, pos) + 1] = h], I, E, rt, ks)
<1> DEFINE at == CountOnes(I, pos) + 1
           blk == [old EXCEPT !.rule[at] = h]
           W == 1 .. NODE_WORDS * UP_RULE(Cardinality(I))
<1>1. /\ I \subseteq EnlPos
      /\ old.rule \in [W -> NHI \cup {NULL}]
      /\ \A q \in I : CountOnes(I, q) + 1 \in 1 .. Cardinality(I)
  BY BlockOfNode
<1>2. /\ Cardinality(I) \in Nat /\ NODE_WORDS * UP_RULE(Cardinality(I)) \in Nat
      /\ NODE_WORDS * UP_RULE(Cardinality(I)) >= Cardinality(I)
  BY UnitsRange DEF Holds
<1>3. \A q \in I : CountOnes(I, q) + 1 \in W
  BY <1>1, <1>2
<1>4. ASSUME NEW q \in I, q # pos PROVE CountOnes(I, q) + 1 # at
  <2>1. CountOnes(I, q) # CountOnes(I, pos)
    BY <1>1, <1>4, BitsHaveTheirIndex
  <2>2. CountOnes(I, q) + 1 \in Nat /\ at \in Nat
    BY <1>1
  <2>3. CountOnes(I, q) \in Int /\ CountOnes(I, pos) \in Int
    BY <1>1, BitmapIsFinite, CountRange
  <2> QED BY <2>1, <2>3
<1> HIDE DEF at, W
<1>5. IsBlock(old) /\ old.low = UP_RULE(Cardinality(I))
  BY DEF Holds
<1>6. /\ blk.units = old.units /\ blk.low = old.low /\ blk.kid = old.kid
      /\ blk.rule = [old.rule EXCEPT ![at] = h]
      /\ blk = [units |-> blk.units, low |-> blk.low, rule |-> blk.rule, kid |-> blk.kid]
  BY <1>5 DEF IsBlock
<1> HIDE DEF blk
<1>7. blk.rule \in [W -> NHI \cup {NULL}] /\ \A k \in W : blk.rule[k] = IF k = at THEN h ELSE old.rule[k]
  BY <1>1, <1>6
<1>8. IsBlock(blk)
  BY <1>5, <1>6, <1>7 DEF IsBlock, W
<1>9. \A q \in I : blk.rule[CountOnes(I, q) + 1] = rt[q]
  BY <1>3, <1>4, <1>7 DEF Holds, at
<1>10. Holds(blk, I, E, rt, ks)
  BY <1>6, <1>8, <1>9 DEF Holds
<1> QED BY <1>10 DEF blk, at

\* A store to a child changes that child alone.
LEMMA KidWritten ==
  ASSUME NEW old, NEW I, NEW E, NEW rs, NEW ks, Holds(old, I, E, rs, ks),
         NEW pos \in E, NEW n \in Node,
         NEW kt, \A q \in E : kt[q] = IF q = pos THEN n ELSE ks[q]
  PROVE  Holds([old EXCEPT !.kid[CountOnes(E, pos)] = n], I, E, rs, kt)
<1> DEFINE at == CountOnes(E, pos)
           blk == [old EXCEPT !.kid[at] = n]
           V == 0 .. Cardinality(E) - 1
<1>1. /\ E \subseteq EnlPos
      /\ old.kid \in [V -> Node]
      /\ \A q \in E : CountOnes(E, q) \in V
  BY BlockOfNode
<1>2. ASSUME NEW q \in E, q # pos PROVE CountOnes(E, q) # at
  BY <1>1, <1>2, BitsHaveTheirIndex
<1> HIDE DEF at, V
<1>3. IsBlock(old)
  BY DEF Holds
<1>4. /\ blk.units = old.units /\ blk.low = old.low /\ blk.rule = old.rule
      /\ blk.kid = [old.kid EXCEPT ![at] = n]
      /\ blk = [units |-> blk.units, low |-> blk.low, rule |-> blk.rule, kid |-> blk.kid]
  <2>1. old = [units |-> old.units, low |-> old.low, rule |-> old.rule, kid |-> old.kid]
    BY <1>3 DEF IsBlock
  <2> DEFINE K == [old.kid EXCEPT ![at] = n]
  <2>2. blk = [old EXCEPT !.kid = K]
    OBVIOUS
  <2> HIDE DEF K, blk
  <2>3. blk = [units |-> old.units, low |-> old.low, rule |-> old.rule, kid |-> K]
    BY <2>1, <2>2
  <2> QED BY <2>3 DEF K
<1> HIDE DEF blk
<1>5. blk.kid \in [V -> Node] /\ \A k \in V : blk.kid[k] = IF k = at THEN n ELSE old.kid[k]
  BY <1>1, <1>4
<1>6. IsBlock(blk)
  <2>1. old.kid \in [0 .. old.units - old.low - 1 -> Node]
    BY <1>3 DEF IsBlock
  <2>2. blk.kid \in [0 .. old.units - old.low - 1 -> Node]
    BY <1>4, <2>1
  <2> QED BY <1>3, <1>4, <2>2 DEF IsBlock
<1>7. \A q \in E : blk.kid[CountOnes(E, q)] = kt[q]
  BY <1>1, <1>2, <1>5 DEF Holds, at
<1>8. Holds(blk, I, E, rs, kt)
  BY <1>4, <1>6, <1>7 DEF Holds
<1> QED BY <1>8 DEF blk, at

\* The first loop of destroy_subtrie: no next hop is left, the children stay.
LEMMA RulesCleared ==
  ASSUME NEW old, NEW I, NEW E, NEW rs, NEW ks, Holds(old, I, E, rs, ks),
         NEW rt, \A q \in I : rt[q] = NULL
  PROVE  Holds([old EXCEPT !.rule = [k \in DOMAIN @ |-> IF k <= Cardinality(I) THEN NULL
                                                         ELSE @[k]]], I, E, rt, ks)
<1> DEFINE R == [k \in DOMAIN old.rule |-> IF k <= Cardinality(I) THEN NULL ELSE old.rule[k]]
           blk == [old EXCEPT !.rule = R]
           W == 1 .. NODE_WORDS * UP_RULE(Cardinality(I))
<1>1. /\ old.rule \in [W -> NHI \cup {NULL}]
      /\ \A q \in I : CountOnes(I, q) + 1 \in 1 .. Cardinality(I)
  BY BlockOfNode
<1>2. /\ Cardinality(I) \in Nat /\ NODE_WORDS * UP_RULE(Cardinality(I)) \in Nat
      /\ NODE_WORDS * UP_RULE(Cardinality(I)) >= Cardinality(I)
  BY UnitsRange DEF Holds
<1>3. \A q \in I : CountOnes(I, q) + 1 \in W /\ CountOnes(I, q) + 1 <= Cardinality(I)
  BY <1>1, <1>2
<1> HIDE DEF W
<1>4. R \in [W -> NHI \cup {NULL}]
  BY <1>1
<1>5. \A q \in I : R[CountOnes(I, q) + 1] = rt[q]
  BY <1>1, <1>3
<1> HIDE DEF R
<1>6. IsBlock(old) /\ old.low = UP_RULE(Cardinality(I))
  BY DEF Holds
<1>7. /\ blk.units = old.units /\ blk.low = old.low /\ blk.kid = old.kid
      /\ blk.rule = R
      /\ blk = [units |-> blk.units, low |-> blk.low, rule |-> blk.rule, kid |-> blk.kid]
  BY <1>6 DEF IsBlock
<1> HIDE DEF blk
<1>8. IsBlock(blk)
  BY <1>4, <1>6, <1>7 DEF IsBlock, W
<1>9. Holds(blk, I, E, rt, ks)
  BY <1>5, <1>7, <1>8 DEF Holds
<1> QED BY <1>9 DEF blk, R

-----------------------------------------------------------------------------
(***************************************************************************)
(* The nodes of a trie as a value t, apart from where they lie: paths, the *)
(* paths there are nodes for; node[b] and rule[b], the node of the path b  *)
(* and the next hops of the bits of its internal.                          *)
(***************************************************************************)
RuleFits(b, pos) ==
  /\ RuleOf(b, pos) \in Prefix
  /\ NodeOf(RuleOf(b, pos)) = b
  /\ RulePos(RuleOf(b, pos)) = pos

KidFits(b, pos) ==
  /\ KidOf(b, pos) \in NodePath
  /\ KidOf(b, pos) # <<>>
  /\ Up(KidOf(b, pos)) = b
  /\ LastPos(KidOf(b, pos)) = pos

\* Every bit of a node stands for a prefix or for a child, and every node but
\* the root is the child of another.
IsShape(t) ==
  /\ t.paths \subseteq NodePath
  /\ <<>> \in t.paths
  /\ \A b \in t.paths :
       /\ t.node[b] \in Node
       /\ t.rule[b] \in [t.node[b].internal -> NHI \cup {NULL}]
       /\ \A pos \in t.node[b].internal : RuleFits(b, pos)
       /\ \A pos \in t.node[b].external : KidFits(b, pos) /\ KidOf(b, pos) \in t.paths
  /\ \A c \in t.paths \ {<<>>} :
       Up(c) \in t.paths /\ LastPos(c) \in t.node[Up(c)].external

KidsOf(t, b) == [pos \in t.node[b].external |-> t.node[KidOf(b, pos)]]

\* The node of b has no block, or in the blocks h one that holds its next hops
\* and children.
HasBlock(t, h, b) ==
  LET n == t.node[b]
  IN  IF n.child_ptr = NULL THEN IsEmpty(n)
      ELSE /\ n.child_ptr \in DOMAIN h
           /\ n.child_ptr[1] = b
           /\ Holds(h[n.child_ptr], n.internal, n.external, t.rule[b], KidsOf(t, b))

\* The root r and the blocks h are the memory of the nodes of t, and of nothing
\* else but blocks without a unit.
InMemory(t, r, h, o) ==
  /\ r = t.node[<<>>]
  /\ DOMAIN h \subseteq Block
  /\ \A c \in DOMAIN h :
       /\ IsBlock(h[c])
       /\ h[c].units = 0 => o = "simple"
       /\ h[c].units = 0 \/ (c[1] \in t.paths /\ t.node[c[1]].child_ptr = c)
  /\ \A b \in t.paths : HasBlock(t, h, b)

\* The pointer to the node of b.
PtrTo(t, b) ==
  IF b = <<>> THEN Root
  ELSE <<t.node[Up(b)].child_ptr, CountOnes(t.node[Up(b)].external, LastPos(b))>>

\* The trie that the nodes are.
TrieOf(t) ==
  [inl |-> [p \in {q \in Prefix : NodeOf(q) \in t.paths
                                  /\ RulePos(q) \in t.node[NodeOf(q)].internal}
              |-> t.rule[NodeOf(p)][RulePos(p)]],
   enl |-> t.paths \ {<<>>}]

-----------------------------------------------------------------------------
(***************************************************************************)
(* What holds between two turns of an operation, for the nodes t.          *)
(***************************************************************************)
AtRest ==
  /\ arg = <<>> /\ nhi = NULL /\ node = Root /\ level = 0
  /\ trace = <<>> /\ i = 0 /\ node_need_to_del = FALSE

IdleOK(t) ==
  /\ AtRest /\ stack = <<>> /\ before = EmptyTrie
  /\ IsTable(TrieOf(t).inl)

\* On the way down: the nodes above, and those that had to be made, are there.
OnWay(t) ==
  /\ arg \in Inputs
  /\ level \in Nat /\ level * STRIDE <= Len(arg)
  /\ PathAt(level) \in t.paths
  /\ node = PtrTo(t, PathAt(level))
  /\ i = 0 /\ node_need_to_del = FALSE /\ stack = <<>>
  /\ IsTrie(before)

InsertOK(t) ==
  /\ OnWay(t) /\ nhi \in NHI /\ trace = <<>>
  /\ TrieOf(t) = [inl |-> before.inl, enl |-> before.enl \cup Branch(PathAt(level))]

\* What trace_node holds of the turn k.
TraceAt(t, k) ==
  [node |-> PtrTo(t, PathAt(k - 1)),
   pos  |-> IF k * STRIDE <= Len(arg) THEN LastPos(PathAt(k)) ELSE RulePos(arg)]

DeleteOK(t) ==
  /\ OnWay(t) /\ nhi = NULL
  /\ arg \in DOMAIN before.inl
  /\ TrieOf(t) = before
  /\ trace \in Seq([node : Pointer, pos : EnlPos])
  /\ Len(trace) = level
  /\ \A k \in 1 .. level : trace[k] = TraceAt(t, k)

\* The nodes from the k-th to the n-th on the way to a that update_nodes takes
\* away when the rule a goes from the trie w.
GoneFrom(w, a, n, k) == {Along(a, j) : j \in {m \in k .. n : m * STRIDE \in NeedToDel(w, a)}}
Gone(k) == GoneFrom(before, arg, level, k)

UpdateOK(t) ==
  /\ arg \in Inputs /\ nhi = NULL /\ node \in Pointer /\ stack = <<>>
  /\ level \in Nat /\ level * STRIDE <= Len(arg) /\ Len(arg) < (level + 1) * STRIDE
  /\ i \in 0 .. level
  /\ IsTrie(before)
  /\ arg \in DOMAIN before.inl
  /\ \A k \in 1 .. level : PathAt(k) \in before.enl
  /\ trace \in Seq([node : Pointer, pos : EnlPos])
  /\ Len(trace) = level + 1
  /\ \A k \in 1 .. i + 1 : trace[k] = TraceAt(t, k)
  /\ node_need_to_del \in BOOLEAN
  /\ i = level => TrieOf(t) = before /\ node_need_to_del = FALSE
  /\ i < level =>
       /\ TrieOf(t) = [inl |-> Remove(before.inl, arg), enl |-> before.enl \ Gone(i + 2)]
       /\ node_need_to_del <=> (i + 1) * STRIDE \in NeedToDel(before, arg)
       /\ node_need_to_del => IsEmpty(t.node[PathAt(i + 1)])

\* s are the paths of the nodes that destroy_subtrie is called for and st their
\* frames; a frame is done with the children that its loop has passed, but the one it is called for.
Frame == [node : Pointer, stride : Nat]

FrameOK(t, s, st, k) ==
  /\ Len(s[k]) = (k - 1) * STRIDE
  /\ st[k].node = PtrTo(t, s[k])
  /\ k < Len(s) => /\ st[k].stride - 1 \in t.node[s[k]].external
                   /\ s[k + 1] = KidOf(s[k], st[k].stride - 1)
  /\ \A pos \in t.node[s[k]].external :
       pos < st[k].stride =>
         \/ t.node[KidOf(s[k], pos)] = ZeroNode
         \/ k < Len(s) /\ KidOf(s[k], pos) = s[k + 1]

Frames(t, s, st) ==
  /\ s \in Seq(t.paths)
  /\ st \in Seq(Frame)
  /\ Len(s) = Len(st) /\ Len(s) >= 1
  /\ s[1] = <<>>
  /\ \A k \in 1 .. Len(s) : FrameOK(t, s, st, k)

DestroyOK(t) ==
  /\ AtRest
  /\ IsTrie(before)
  /\ \E s : Frames(t, s, stack)

Walk(t) ==
  \/ pc = "idle" /\ IdleOK(t)
  \/ pc = "insert" /\ InsertOK(t)
  \/ pc = "delete" /\ DeleteOK(t)
  \/ pc = "update" /\ UpdateOK(t)
  \/ pc = "destroy" /\ DestroyOK(t)

MemoryOK(t) == IsShape(t) /\ InMemory(t, root, heap, op)

Inv ==
  /\ op \in {"simple", "color"}
  /\ \E t : MemoryOK(t) /\ Walk(t)

-----------------------------------------------------------------------------
\* A pointer to a node in a block is not that to the root.
LEMMA BlockPointer ==
  ASSUME NEW x, NEW y
  PROVE  <<x, y>> # Root /\ <<x, y>>[1] = x /\ <<x, y>>[2] = y
<1>1. Len(<<x, y>>) = 2 /\ Len(<<>>) = 0
  OBVIOUS
<1> QED BY <1>1 DEF Root

\* A node of t.
LEMMA NodeOfShape ==
  ASSUME NEW t, IsShape(t), NEW b \in t.paths
  PROVE  /\ b \in NodePath
         /\ t.node[b] \in Node
         /\ t.node[b].internal \subseteq InlPos
         /\ t.node[b].external \subseteq EnlPos
         /\ t.node[b].child_ptr \in Block \cup {NULL}
         /\ t.rule[b] \in [t.node[b].internal -> NHI \cup {NULL}]
         /\ \A pos \in t.node[b].external : KidFits(b, pos) /\ KidOf(b, pos) \in t.paths
         /\ \A pos \in t.node[b].internal : RuleFits(b, pos)
         /\ b # <<>> => /\ Up(b) \in t.paths
                        /\ LastPos(b) \in t.node[Up(b)].external
                        /\ KidOf(Up(b), LastPos(b)) = b
                        /\ Up(b) # b
                        /\ Len(b) = Len(Up(b)) + STRIDE
<1>1. b \in NodePath /\ t.node[b] \in Node
  BY DEF IsShape
<1>2. t.node[b].internal \subseteq InlPos /\ t.node[b].external \subseteq EnlPos
      /\ t.node[b].child_ptr \in Block \cup {NULL}
  BY <1>1 DEF Node
<1>3. b # <<>> => KidOf(Up(b), LastPos(b)) = b /\ Up(b) # b /\ Len(b) = Len(Up(b)) + STRIDE
  BY <1>1, KidSplit
<1> QED BY <1>1, <1>2, <1>3 DEF IsShape

\* A node that is not the root lies in the block of the one above.
LEMMA BlockAbove ==
  ASSUME NEW t, NEW r, NEW h, NEW o, IsShape(t), InMemory(t, r, h, o),
         NEW b \in t.paths, b # <<>>
  PROVE  LET u == t.node[Up(b)]
             x == CountOnes(u.external, LastPos(b))
         IN  /\ u.child_ptr # NULL
             /\ u.child_ptr \in DOMAIN h /\ u.child_ptr \in Block
             /\ u.child_ptr[1] = Up(b)
             /\ Holds(h[u.child_ptr], u.internal, u.external, t.rule[Up(b)], KidsOf(t, Up(b)))
             /\ PtrTo(t, b) = <<u.child_ptr, x>>
             /\ x \in EnlPos
             /\ x \in DOMAIN h[u.child_ptr].kid
             /\ h[u.child_ptr].kid[x] = t.node[b]
<1> DEFINE a == Up(b)
           u == t.node[a]
           x == CountOnes(u.external, LastPos(b))
<1>1. a \in t.paths /\ LastPos(b) \in u.external /\ KidOf(a, LastPos(b)) = b
      /\ u \in Node /\ u.external \subseteq EnlPos
  BY NodeOfShape
<1>2. u.child_ptr # NULL
  BY <1>1 DEF InMemory, HasBlock, IsEmpty
<1>3. /\ u.child_ptr \in DOMAIN h /\ u.child_ptr \in Block /\ u.child_ptr[1] = a
      /\ Holds(h[u.child_ptr], u.internal, u.external, t.rule[a], KidsOf(t, a))
  BY <1>1, <1>2 DEF InMemory, HasBlock
<1>4. h[u.child_ptr].kid[x] = KidsOf(t, a)[LastPos(b)]
  BY <1>1, <1>3 DEF Holds
<1>5. KidsOf(t, a)[LastPos(b)] = t.node[b]
  BY <1>1 DEF KidsOf
<1>6. /\ x \in 0 .. Cardinality(u.external) - 1
      /\ h[u.child_ptr].kid \in [0 .. Cardinality(u.external) - 1 -> Node]
  BY <1>1, <1>3, BlockOfNode
<1>7. x \in EnlPos
  <2>1. u.external \in SUBSET EnlPos /\ IsFiniteSet(EnlPos)
    BY <1>1, BitmapIsFinite
  <2>2. Cardinality(u.external) <= Cardinality(EnlPos) /\ Cardinality(u.external) \in Nat
        /\ Cardinality(EnlPos) \in Nat
    BY <1>1, <2>1, FS_Subset, FS_CardinalityType, BitmapIsFinite
  <2>3. Cardinality(EnlPos) = Pow2[STRIDE]
    <3> DEFINE P == Pow2[STRIDE]
    <3>1. 0 \in Int /\ P - 1 \in Int /\ P \in Nat \ {0}
      BY PowStride
    <3> HIDE DEF P
    <3>2. Cardinality(0 .. P - 1) = IF 0 > P - 1 THEN 0 ELSE P - 1 - 0 + 1
      BY <3>1, FS_Interval
    <3>3. Cardinality(0 .. P - 1) = P
      BY <3>1, <3>2
    <3> QED BY <3>3 DEF EnlPos, P
  <2> HIDE DEF x
  <2>4. x \in 0 .. Pow2[STRIDE] - 1
    BY <1>6, <2>2, <2>3, PowStride
  <2> QED BY <2>4 DEF EnlPos
<1>8. PtrTo(t, b) = <<u.child_ptr, x>>
  BY DEF PtrTo
<1> QED BY <1>2, <1>3, <1>4, <1>5, <1>6, <1>7, <1>8

\* PtrTo points to the node.
LEMMA PtrToNode ==
  ASSUME NEW t, NEW r, NEW h, NEW o, IsShape(t), InMemory(t, r, h, o),
         NEW b \in t.paths
  PROVE  /\ PtrTo(t, b) \in Pointer
         /\ PtrTo(t, b) = Root <=> b = <<>>
         /\ t.node[b] = IF PtrTo(t, b) = Root THEN r
                        ELSE h[PtrTo(t, b)[1]].kid[PtrTo(t, b)[2]]
<1>1. CASE b = <<>>
  BY <1>1 DEF PtrTo, InMemory, Pointer
<1>2. CASE b # <<>>
  <2> DEFINE u == t.node[Up(b)]
             x == CountOnes(u.external, LastPos(b))
  <2>1. /\ u.child_ptr \in Block /\ PtrTo(t, b) = <<u.child_ptr, x>> /\ x \in EnlPos
        /\ h[u.child_ptr].kid[x] = t.node[b]
    BY <1>2, BlockAbove
  <2> HIDE DEF u, x
  <2>2. PtrTo(t, b) # Root /\ PtrTo(t, b)[1] = u.child_ptr /\ PtrTo(t, b)[2] = x
    BY <2>1, BlockPointer
  <2>3. PtrTo(t, b) \in Block \X EnlPos
    BY <2>1
  <2> QED BY <1>2, <2>1, <2>2, <2>3 DEF Pointer, EnlPos
<1> QED BY <1>1, <1>2

\* A pointer to a node of the shape is a pointer to what the shape has there.
LEMMA AtPtrTo ==
  ASSUME NEW t, MemoryOK(t), NEW b \in t.paths
  PROVE  /\ At(PtrTo(t, b)) = t.node[b]
         /\ PtrTo(t, b) \in Pointer
         /\ PtrTo(t, b) = Root <=> b = <<>>
BY PtrToNode DEF MemoryOK, At

\* The pointer that next_child returns.
LEMMA NextChildPtr ==
  ASSUME NEW t, IsShape(t), NEW b \in t.paths, NEW pos \in t.node[b].external
  PROVE  next_child(t.node[b], pos) = PtrTo(t, KidOf(b, pos))
BY NodeOfShape DEF next_child, PtrTo, KidFits

\* Only the next hops and children of the bits matter.
LEMMA HoldsTheSame ==
  ASSUME NEW blk, NEW I, NEW E, NEW rs, NEW ks, Holds(blk, I, E, rs, ks),
         NEW rt, NEW kt, \A pos \in I : rt[pos] = rs[pos],
         \A pos \in E : kt[pos] = ks[pos]
  PROVE  Holds(blk, I, E, rt, kt)
BY DEF Holds

\* The block of a node without a bit has no unit.
LEMMA EmptyBlock ==
  ASSUME NEW blk, NEW n, NEW rs, NEW ks,
         Holds(blk, n.internal, n.external, rs, ks)
  PROVE  IsEmpty(n) <=> blk.units = 0
<1>1. blk.units = UnitsOf(Cardinality(n.external), Cardinality(n.internal))
      /\ n.internal \subseteq InlPos /\ n.external \subseteq EnlPos
  BY DEF Holds
<1>2. ASSUME IsEmpty(n) PROVE blk.units = 0
  <2>1. Cardinality(n.external) = 0 /\ Cardinality(n.internal) = 0
    BY <1>2, FS_EmptySet DEF IsEmpty
  <2>2. UP_RULE(0) = 0
    BY UnitsOfRules
  <2> QED BY <1>1, <2>1, <2>2 DEF UnitsOf, UP_CHILD
<1>3. ASSUME blk.units = 0 PROVE IsEmpty(n)
  BY <1>1, <1>3, UnitsRange DEF IsEmpty
<1> QED BY <1>2, <1>3

-----------------------------------------------------------------------------
(***************************************************************************)
(* One node changes: b gets the node n with the next hops rs.  The         *)
(* children that n has no bit for are gone, and the new ones are zero.     *)
(***************************************************************************)
PathsWith(t, b, n) ==
  {c \in t.paths : c = <<>> \/ Up(c) # b \/ LastPos(c) \in n.external}
    \cup {KidOf(b, pos) : pos \in n.external}

Changed(t, b, n, rs) ==
  [paths |-> PathsWith(t, b, n),
   node  |-> [c \in PathsWith(t, b, n) |->
                IF c = b THEN n ELSE IF c \in t.paths THEN t.node[c] ELSE ZeroNode],
   rule  |-> [c \in PathsWith(t, b, n) |->
                IF c = b THEN rs ELSE IF c \in t.paths THEN t.rule[c]
                ELSE [pos \in {} |-> NULL]]]

\* What may be put in its place.
Fits(t, b, n, rs) ==
  /\ n \in Node
  /\ rs \in [n.internal -> NHI \cup {NULL}]
  /\ \A pos \in n.internal : RuleFits(b, pos)
  /\ \A pos \in n.external : KidFits(b, pos)
  /\ \A pos \in t.node[b].external \ n.external : IsEmpty(t.node[KidOf(b, pos)])

\* The nodes of the changed trie.
LEMMA ChangedNodes ==
  ASSUME NEW t, IsShape(t), NEW b \in t.paths, NEW n, NEW rs, Fits(t, b, n, rs)
  PROVE  LET u == Changed(t, b, n, rs)
         IN  /\ b \in u.paths /\ <<>> \in u.paths
             /\ u.node[b] = n /\ u.rule[b] = rs
             /\ \A c \in u.paths :
                  /\ c \in t.paths \/ \E pos \in n.external : c = KidOf(b, pos)
                  /\ c # b /\ c \in t.paths =>
                       u.node[c] = t.node[c] /\ u.rule[c] = t.rule[c]
                  /\ c \notin t.paths =>
                       u.node[c] = ZeroNode /\ u.rule[c] = [pos \in {} |-> NULL]
             /\ \A pos \in n.external : KidOf(b, pos) \in u.paths
             /\ \A c \in t.paths :
                  c \in u.paths \/ (c # <<>> /\ Up(c) = b /\ LastPos(c) \notin n.external)
<1> DEFINE u == Changed(t, b, n, rs)
           P == PathsWith(t, b, n)
<1>1. /\ u.paths = P
      /\ u.node = [c \in P |->
                     IF c = b THEN n ELSE IF c \in t.paths THEN t.node[c] ELSE ZeroNode]
      /\ u.rule = [c \in P |->
                     IF c = b THEN rs ELSE IF c \in t.paths THEN t.rule[c]
                     ELSE [pos \in {} |-> NULL]]
  BY DEF Changed
<1>2. b \in P /\ <<>> \in P
  BY NodeOfShape DEF PathsWith, IsShape
<1>3. \A c \in P : c \in t.paths \/ \E pos \in n.external : c = KidOf(b, pos)
  BY DEF PathsWith
<1>4. \A pos \in n.external : KidOf(b, pos) \in P
  BY DEF PathsWith
<1>5. \A c \in t.paths : c \in P \/ (c # <<>> /\ Up(c) = b /\ LastPos(c) \notin n.external)
  BY DEF PathsWith
<1> HIDE DEF P, u
<1> QED BY <1>1, <1>2, <1>3, <1>4, <1>5 DEF u

\* Its paths, one by one.
LEMMA ChangedPaths ==
  ASSUME NEW t, IsShape(t), NEW b \in t.paths, NEW n, NEW rs, Fits(t, b, n, rs)
  PROVE  /\ \A c \in Changed(t, b, n, rs).paths :
              c # <<>> /\ Up(c) = b => LastPos(c) \in n.external
         /\ \A c \in Changed(t, b, n, rs).paths :
              c \notin t.paths => c # <<>> /\ Up(c) = b /\ c # b
<1> DEFINE P == PathsWith(t, b, n)
<1>1. Changed(t, b, n, rs).paths = P
  BY DEF Changed
<1>2. \A pos \in n.external :
        LET c == KidOf(b, pos) IN c # <<>> /\ Up(c) = b /\ LastPos(c) = pos
  BY DEF Fits, KidFits
<1>3. \A c \in P : c # <<>> /\ Up(c) = b => LastPos(c) \in n.external
  BY <1>2 DEF PathsWith
<1>4. \A c \in P : c \notin t.paths => c # <<>> /\ Up(c) = b /\ c # b
  BY <1>2 DEF PathsWith
<1> HIDE DEF P
<1> QED BY <1>1, <1>3, <1>4

\* They are again the nodes of a trie.
LEMMA ChangedShape ==
  ASSUME NEW t, IsShape(t), NEW b \in t.paths, NEW n, NEW rs, Fits(t, b, n, rs)
  PROVE  IsShape(Changed(t, b, n, rs))
<1> DEFINE u == Changed(t, b, n, rs)
<1> HIDE DEF u
<1>1. /\ b \in u.paths /\ <<>> \in u.paths
      /\ u.node[b] = n /\ u.rule[b] = rs
      /\ \A c \in u.paths :
           /\ c \in t.paths \/ \E pos \in n.external : c = KidOf(b, pos)
           /\ c # b /\ c \in t.paths => u.node[c] = t.node[c] /\ u.rule[c] = t.rule[c]
           /\ c \notin t.paths => u.node[c] = ZeroNode /\ u.rule[c] = [pos \in {} |-> NULL]
      /\ \A pos \in n.external : KidOf(b, pos) \in u.paths
      /\ \A c \in t.paths :
           c \in u.paths \/ (c # <<>> /\ Up(c) = b /\ LastPos(c) \notin n.external)
  BY ChangedNodes DEF u
<1>2. /\ \A c \in u.paths : c # <<>> /\ Up(c) = b => LastPos(c) \in n.external
      /\ \A c \in u.paths : c \notin t.paths => c # <<>> /\ Up(c) = b /\ c # b
  BY ChangedPaths DEF u
<1>3. u.paths \subseteq NodePath
  BY <1>1, NodeOfShape DEF Fits, KidFits
<1>4. ASSUME NEW c \in u.paths
      PROVE  /\ u.node[c] \in Node
             /\ u.rule[c] \in [u.node[c].internal -> NHI \cup {NULL}]
             /\ \A pos \in u.node[c].internal : RuleFits(c, pos)
             /\ \A pos \in u.node[c].external : KidFits(c, pos) /\ KidOf(c, pos) \in u.paths
  <2>1. CASE c = b
    BY <1>1, <2>1 DEF Fits
  <2>2. CASE c # b /\ c \in t.paths
    <3>1. u.node[c] = t.node[c] /\ u.rule[c] = t.rule[c]
      BY <1>1, <2>2
    <3>2. /\ t.node[c] \in Node
          /\ t.rule[c] \in [t.node[c].internal -> NHI \cup {NULL}]
          /\ \A pos \in t.node[c].internal : RuleFits(c, pos)
          /\ \A pos \in t.node[c].external : KidFits(c, pos) /\ KidOf(c, pos) \in t.paths
      BY <2>2, NodeOfShape
    <3>3. ASSUME NEW pos \in t.node[c].external PROVE KidOf(c, pos) \in u.paths
      <4>1. Up(KidOf(c, pos)) = c /\ KidOf(c, pos) \in t.paths
        BY <3>2 DEF KidFits
      <4> QED BY <1>1, <2>2, <4>1
    <3> QED BY <3>1, <3>2, <3>3
  <2>3. CASE c \notin t.paths
    <3>1. u.node[c] = ZeroNode /\ u.rule[c] = [pos \in {} |-> NULL]
      BY <1>1, <2>3
    <3>2. ZeroNode \in Node /\ ZeroNode.internal = {} /\ ZeroNode.external = {}
      BY ZeroNodeIsNode DEF ZeroNode
    <3> QED BY <3>1, <3>2
  <2> QED BY <2>1, <2>2, <2>3
<1>5. ASSUME NEW c \in u.paths \ {<<>>}
      PROVE  Up(c) \in u.paths /\ LastPos(c) \in u.node[Up(c)].external
  <2>1. CASE Up(c) = b
    BY <1>1, <1>2, <2>1
  <2>2. CASE Up(c) # b
    <3>1. c \in t.paths
      BY <1>2, <2>2
    <3>2. Up(c) \in t.paths /\ LastPos(c) \in t.node[Up(c)].external
      BY <3>1, NodeOfShape
    <3>3. Up(c) \in u.paths
      <4> SUFFICES ASSUME Up(c) \notin u.paths PROVE FALSE
        OBVIOUS
      <4> DEFINE d == Up(c)
      <4>1. d # <<>> /\ Up(d) = b /\ LastPos(d) \notin n.external
        BY <1>1, <3>2
      <4>2. LastPos(d) \in t.node[b].external /\ KidOf(b, LastPos(d)) = d
        BY <3>2, <4>1, NodeOfShape
      <4>3. t.node[d].external = {}
        BY <4>1, <4>2 DEF Fits, IsEmpty
      <4> QED BY <3>2, <4>3
    <3> QED BY <1>1, <2>2, <3>2, <3>3
  <2> QED BY <2>1, <2>2
<1>6. IsShape(u)
  BY <1>1, <1>3, <1>4, <1>5 DEF IsShape
<1> QED BY <1>6 DEF u

\* The pointers to the nodes that neither are changed nor lie in the block of
\* the changed node, stay what they are: here those that do not lie in it.
LEMMA ChangedPtr ==
  ASSUME NEW t, IsShape(t), NEW b \in t.paths, NEW n, NEW rs, Fits(t, b, n, rs),
         NEW c \in Changed(t, b, n, rs).paths
  PROVE  PtrTo(Changed(t, b, n, rs), c) =
           IF c = <<>> THEN Root
           ELSE IF Up(c) = b THEN <<n.child_ptr, CountOnes(n.external, LastPos(c))>>
           ELSE PtrTo(t, c)
<1> DEFINE u == Changed(t, b, n, rs)
<1> HIDE DEF u
<1>1. u.node[b] = n /\ \A d \in u.paths : d # b /\ d \in t.paths => u.node[d] = t.node[d]
  BY ChangedNodes DEF u
<1>2. IsShape(u)
  BY ChangedShape DEF u
<1>3. c \in u.paths
  BY DEF u
<1>4. c # <<>> => Up(c) \in u.paths
  BY <1>2, <1>3, NodeOfShape
<1>5. c # <<>> /\ Up(c) # b => c \in t.paths
  BY <1>3, ChangedPaths DEF u
<1>6. c # <<>> /\ Up(c) # b => Up(c) \in t.paths
  BY <1>5, NodeOfShape
<1>7. PtrTo(u, c) = IF c = <<>> THEN Root
                    ELSE IF Up(c) = b THEN <<n.child_ptr, CountOnes(n.external, LastPos(c))>>
                    ELSE PtrTo(t, c)
  BY <1>1, <1>4, <1>6 DEF PtrTo
<1> QED BY <1>7 DEF u

-----------------------------------------------------------------------------
\* What the memory is when the node of b has become n, in blocks that are h2 and
\* were h: n has a new block or none, or writes into its own.
MemoryWith(t, b, n, rs, h, r2, h2, o) ==
  /\ r2 = IF b = <<>> THEN n ELSE t.node[<<>>]
  /\ DOMAIN h2 = (DOMAIN h \ {t.node[b].child_ptr}) \cup ({n.child_ptr} \ {NULL})
  /\ \A c \in DOMAIN h2 :
       c # n.child_ptr /\ (b # <<>> => c # t.node[Up(b)].child_ptr) => h2[c] = h[c]
  /\ b # <<>> =>
       Holds(h2[t.node[Up(b)].child_ptr],
             t.node[Up(b)].internal, t.node[Up(b)].external, t.rule[Up(b)],
             [KidsOf(t, Up(b)) EXCEPT ![LastPos(b)] = n])
  /\ \/ n.child_ptr = NULL /\ IsEmpty(n)
     \/ /\ n.child_ptr \in Block /\ n.child_ptr[1] = b
        /\ n.child_ptr \notin DOMAIN h \ {t.node[b].child_ptr}
        /\ Holds(h2[n.child_ptr], n.internal, n.external, rs,
                 KidsOf(Changed(t, b, n, rs), b))
        /\ h2[n.child_ptr].units = 0 => o = "simple"

\* That is the memory of the changed trie.
LEMMA ChangedInMemory ==
  ASSUME NEW t, NEW r, NEW h, NEW o, IsShape(t), InMemory(t, r, h, o),
         NEW b \in t.paths, NEW n, NEW rs, Fits(t, b, n, rs),
         NEW r2, NEW h2, MemoryWith(t, b, n, rs, h, r2, h2, o)
  PROVE  InMemory(Changed(t, b, n, rs), r2, h2, o)
<1> DEFINE u == Changed(t, b, n, rs)
           old == t.node[b].child_ptr
           above == t.node[Up(b)].child_ptr
<1>1. /\ b \in u.paths /\ <<>> \in u.paths
      /\ u.node[b] = n /\ u.rule[b] = rs
      /\ \A c \in u.paths :
           /\ c \in t.paths \/ \E pos \in n.external : c = KidOf(b, pos)
           /\ c # b /\ c \in t.paths => u.node[c] = t.node[c] /\ u.rule[c] = t.rule[c]
           /\ c \notin t.paths => u.node[c] = ZeroNode /\ u.rule[c] = [pos \in {} |-> NULL]
      /\ \A pos \in n.external : KidOf(b, pos) \in u.paths
      /\ \A c \in t.paths :
           c \in u.paths \/ (c # <<>> /\ Up(c) = b /\ LastPos(c) \notin n.external)
  BY ChangedNodes
<1>2. IsShape(u)
  BY ChangedShape
<1>3. /\ r2 = IF b = <<>> THEN n ELSE t.node[<<>>]
      /\ DOMAIN h2 = (DOMAIN h \ {old}) \cup ({n.child_ptr} \ {NULL})
      /\ \A c \in DOMAIN h2 : c # n.child_ptr /\ (b # <<>> => c # above) => h2[c] = h[c]
      /\ b # <<>> =>
           Holds(h2[above], t.node[Up(b)].internal, t.node[Up(b)].external,
                 t.rule[Up(b)], [KidsOf(t, Up(b)) EXCEPT ![LastPos(b)] = n])
  BY DEF MemoryWith
<1>4. \/ n.child_ptr = NULL /\ IsEmpty(n)
      \/ /\ n.child_ptr # NULL
         /\ n.child_ptr \in Block /\ n.child_ptr[1] = b
         /\ n.child_ptr \notin DOMAIN h \ {old}
         /\ Holds(h2[n.child_ptr], n.internal, n.external, rs, KidsOf(u, b))
         /\ h2[n.child_ptr].units = 0 => o = "simple"
  BY NullPointerAssumption DEF MemoryWith
<1>5. /\ DOMAIN h \subseteq Block
      /\ \A c \in DOMAIN h :
           /\ IsBlock(h[c])
           /\ h[c].units = 0 => o = "simple"
           /\ h[c].units = 0 \/ (c[1] \in t.paths /\ t.node[c[1]].child_ptr = c)
      /\ \A c \in t.paths : HasBlock(t, h, c)
  BY DEF InMemory
<1>6. b # <<>> =>
        /\ Up(b) \in t.paths /\ Up(b) # b /\ LastPos(b) \in t.node[Up(b)].external
        /\ KidOf(Up(b), LastPos(b)) = b
        /\ above # NULL /\ above \in DOMAIN h /\ above[1] = Up(b)
        /\ Holds(h[above], t.node[Up(b)].internal, t.node[Up(b)].external,
                 t.rule[Up(b)], KidsOf(t, Up(b)))
  BY NodeOfShape, BlockAbove
<1>7. old = NULL \/ (old \in DOMAIN h /\ old[1] = b)
  BY <1>5 DEF HasBlock
<1>8. b # <<>> => /\ above \in DOMAIN h2 /\ above # n.child_ptr
                  /\ h2[above].units = h[above].units /\ IsBlock(h2[above])
                  /\ Up(b) \in u.paths
  <2> SUFFICES ASSUME b # <<>> PROVE /\ above \in DOMAIN h2 /\ above # n.child_ptr
                  /\ h2[above].units = h[above].units /\ IsBlock(h2[above])
                  /\ Up(b) \in u.paths
    OBVIOUS
  <2>1. above # old
    BY <1>6, <1>7
  <2>2. above # n.child_ptr
    BY <1>4, <1>6
  <2>3. Up(b) \in u.paths
    BY <1>1, <1>2, NodeOfShape
  <2> QED BY <1>3, <1>6, <2>1, <2>2, <2>3 DEF Holds
<1> HIDE DEF u, old, above
<1>9. r2 = u.node[<<>>]
  BY <1>1, <1>3 DEF IsShape
<1>10. DOMAIN h2 \subseteq Block
  BY <1>3, <1>4, <1>5
<1>11. ASSUME NEW c \in DOMAIN h2
       PROVE  /\ IsBlock(h2[c])
              /\ h2[c].units = 0 => o = "simple"
              /\ h2[c].units = 0 \/ (c[1] \in u.paths /\ u.node[c[1]].child_ptr = c)
  <2>1. CASE c = n.child_ptr
    <3>1. c # NULL
      BY <1>10, NullPointerAssumption
    <3>2. /\ n.child_ptr[1] = b
          /\ Holds(h2[c], n.internal, n.external, rs, KidsOf(u, b))
          /\ h2[c].units = 0 => o = "simple"
      BY <1>4, <2>1, <3>1
    <3>3. IsBlock(h2[c])
      BY <3>2 DEF Holds
    <3> QED BY <1>1, <2>1, <3>2, <3>3
  <2>2. CASE c # n.child_ptr
    <3>1. c \in DOMAIN h /\ c # old
      BY <1>3, <2>2
    <3>2. h2[c].units = h[c].units /\ IsBlock(h2[c])
      BY <1>3, <1>5, <1>8, <2>2, <3>1
    <3>3. ASSUME h[c].units # 0
          PROVE  c[1] \in u.paths /\ u.node[c[1]].child_ptr = c
      <4>1. c[1] \in t.paths /\ t.node[c[1]].child_ptr = c
        BY <1>5, <3>1, <3>3
      <4>2. c[1] # b
        BY <3>1, <4>1 DEF old
      <4>3. c # NULL
        BY <1>10, NullPointerAssumption
      <4>4. c[1] \in u.paths
        <5> SUFFICES ASSUME c[1] \notin u.paths PROVE FALSE
          OBVIOUS
        <5> DEFINE d == c[1]
        <5> HIDE DEF d
        <5>1. d \in t.paths /\ d # <<>> /\ Up(d) = b /\ LastPos(d) \notin n.external
          BY <1>1, <4>1 DEF d
        <5>2. LastPos(d) \in t.node[b].external /\ KidOf(b, LastPos(d)) = d
          BY <5>1, NodeOfShape
        <5>3. IsEmpty(t.node[d])
          BY <5>1, <5>2 DEF Fits
        <5>4. Holds(h[c], t.node[d].internal, t.node[d].external, t.rule[d], KidsOf(t, d))
          BY <1>5, <4>1, <4>3, <5>1 DEF HasBlock, d
        <5>5. h[c].units = 0
          BY <5>3, <5>4, EmptyBlock
        <5> QED BY <3>3, <5>5
      <4> QED BY <1>1, <4>1, <4>2, <4>4
    <3> QED BY <1>5, <3>1, <3>2, <3>3
  <2> QED BY <2>1, <2>2
<1>12. ASSUME NEW c \in u.paths PROVE HasBlock(u, h2, c)
  <2>1. CASE c = b
    <3>1. CASE n.child_ptr = NULL /\ IsEmpty(n)
      BY <1>1, <2>1, <3>1 DEF HasBlock
    <3>2. CASE n.child_ptr # NULL
      BY <1>1, <1>3, <1>4, <2>1, <3>2 DEF HasBlock
    <3> QED BY <1>4, <3>1, <3>2
  <2>2. CASE c \notin t.paths
    <3>1. u.node[c] = ZeroNode
      BY <1>1, <2>2
    <3> QED BY <3>1, ZeroNodeIsNode DEF HasBlock, ZeroNode
  <2>3. CASE c # b /\ c \in t.paths
    <3>1. u.node[c] = t.node[c] /\ u.rule[c] = t.rule[c]
      BY <1>1, <2>3
    <3>2. CASE t.node[c].child_ptr = NULL
      BY <1>5, <2>3, <3>1, <3>2 DEF HasBlock
    <3>3. CASE t.node[c].child_ptr # NULL
      <4> DEFINE p == t.node[c].child_ptr
      <4>1. /\ p \in DOMAIN h /\ p[1] = c
            /\ Holds(h[p], t.node[c].internal, t.node[c].external, t.rule[c], KidsOf(t, c))
        BY <1>5, <2>3, <3>3 DEF HasBlock
      <4> HIDE DEF p
      <4>2. p # old /\ p # n.child_ptr /\ p \in DOMAIN h2
        BY <1>3, <1>4, <1>7, <2>3, <3>3, <4>1 DEF p
      <4>3. ASSUME NEW pos \in t.node[c].external
            PROVE  /\ KidsOf(t, c)[pos] = t.node[KidOf(c, pos)]
                   /\ KidsOf(u, c)[pos] = u.node[KidOf(c, pos)]
                   /\ KidOf(c, pos) \in t.paths /\ KidOf(c, pos) \in u.paths
                   /\ Up(KidOf(c, pos)) = c /\ LastPos(KidOf(c, pos)) = pos
                   /\ KidOf(c, pos) # <<>>
                   /\ KidOf(c, pos) # b => u.node[KidOf(c, pos)] = t.node[KidOf(c, pos)]
        <5>1. KidFits(c, pos) /\ KidOf(c, pos) \in t.paths
          BY <2>3, NodeOfShape
        <5>2. KidOf(c, pos) \in u.paths
          BY <1>2, <3>1, NodeOfShape
        <5> QED BY <1>1, <3>1, <5>1, <5>2 DEF KidsOf, KidFits
      <4>4. CASE b # <<>> /\ c = Up(b)
        <5> DEFINE ks == [KidsOf(t, c) EXCEPT ![LastPos(b)] = n]
        <5>1. p = above
          BY <4>4 DEF p, above
        <5>2. Holds(h2[p], t.node[c].internal, t.node[c].external, t.rule[c], ks)
          BY <1>3, <4>4, <5>1
        <5>3. ASSUME NEW pos \in t.node[c].external PROVE KidsOf(u, c)[pos] = ks[pos]
          <6>1. DOMAIN KidsOf(t, c) = t.node[c].external
            BY DEF KidsOf
          <6>2. ks[pos] = IF pos = LastPos(b) THEN n ELSE KidsOf(t, c)[pos]
            BY <6>1
          <6> HIDE DEF ks
          <6>3. pos = LastPos(b) <=> KidOf(c, pos) = b
            BY <1>6, <4>3, <4>4
          <6> QED BY <1>1, <4>3, <6>2, <6>3
        <5> HIDE DEF ks
        <5>4. Holds(h2[p], t.node[c].internal, t.node[c].external, t.rule[c], KidsOf(u, c))
          BY <5>2, <5>3, HoldsTheSame
        <5> QED BY <3>1, <3>3, <4>1, <4>2, <5>4 DEF HasBlock, p
      <4>5. CASE ~ (b # <<>> /\ c = Up(b))
        <5>1. b # <<>> => p # above
          BY <1>6, <4>1, <4>5
        <5>2. h2[p] = h[p]
          BY <1>3, <4>2, <5>1
        <5>3. ASSUME NEW pos \in t.node[c].external PROVE KidsOf(u, c)[pos] = KidsOf(t, c)[pos]
          BY <4>3, <4>5
        <5>4. Holds(h2[p], t.node[c].internal, t.node[c].external, t.rule[c], KidsOf(u, c))
          BY <4>1, <5>2, <5>3, HoldsTheSame
        <5> QED BY <3>1, <3>3, <4>1, <4>2, <5>4 DEF HasBlock, p
      <4> QED BY <4>4, <4>5
    <3> QED BY <3>2, <3>3
  <2> QED BY <2>1, <2>2, <2>3
<1>13. InMemory(u, r2, h2, o)
  BY <1>9, <1>10, <1>11, <1>12 DEF InMemory
<1> QED BY <1>13 DEF u

-----------------------------------------------------------------------------
\* The smallest of a set of numbers.
LEMMA MinOfNats ==
  ASSUME NEW S, S \subseteq Nat, S # {}
  PROVE  Min(S) \in S /\ \A x \in S : Min(S) <= x
<1>1. PICK s \in S : \A y \in S : ~ (<<y, s>> \in OpToRel(<, Nat))
  <2>1. IsWellFoundedOn(OpToRel(<, Nat), Nat)
    BY NatLessThanWellFounded
  <2> QED BY <2>1, WFMin
<1>2. \A y \in S : s <= y
  <2> TAKE y \in S
  <2>1. y \in Nat /\ s \in Nat
    OBVIOUS
  <2>2. ~ (y < s)
    BY <1>1, <2>1 DEF OpToRel
  <2> QED BY <2>1, <2>2
<1> QED BY <1>2 DEF Min

\* free_node frees the block of the node, whose size the bitmaps tell.
LEMMA FreedBlock ==
  ASSUME NEW t, MemoryOK(t), NEW b \in t.paths
  PROVE  DOMAIN heap \ Freed(t.node[b], UP_RULE(rule_num(t.node[b]))) =
           DOMAIN heap \ {t.node[b].child_ptr}
<1> DEFINE n == t.node[b]
<1>1. DOMAIN heap \subseteq Block /\ HasBlock(t, heap, b)
  BY DEF MemoryOK, InMemory
<1>2. ASSUME NEW c \in DOMAIN heap, c = n.child_ptr
      PROVE  heap[c].low = UP_RULE(rule_num(n))
  <2>1. c # NULL
    BY <1>1, <1>2, NullPointerAssumption
  <2> QED BY <1>1, <1>2, <2>1 DEF HasBlock, Holds, rule_num
<1> QED BY <1>2 DEF Freed

\* The blocks of the changed trie, before the node itself is written.
BlocksFor(t, b, m, rs, hh) ==
  /\ DOMAIN hh = (DOMAIN heap \ {t.node[b].child_ptr}) \cup ({m.child_ptr} \ {NULL})
  /\ \A c \in DOMAIN hh : c # m.child_ptr => hh[c] = heap[c]
  /\ \/ m.child_ptr = NULL /\ IsEmpty(m)
     \/ /\ m.child_ptr \in Block /\ m.child_ptr[1] = b
        /\ m.child_ptr \notin DOMAIN heap \ {t.node[b].child_ptr}
        /\ Holds(hh[m.child_ptr], m.internal, m.external, rs,
                 KidsOf(Changed(t, b, m, rs), b))
        /\ hh[m.child_ptr].units = 0 => op = "simple"

\* A node is written where its pointer says, and then the memory is that of the
\* changed trie.
LEMMA Stored ==
  ASSUME NEW t, MemoryOK(t), NEW b \in t.paths, NEW m, NEW rs, Fits(t, b, m, rs),
         NEW hh, BlocksFor(t, b, m, rs, hh), Store(PtrTo(t, b), m, hh)
  PROVE  /\ IsShape(Changed(t, b, m, rs))
         /\ InMemory(Changed(t, b, m, rs), root', heap', op)
<1> DEFINE p == PtrTo(t, b)
           a == Up(b)
           u == t.node[a]
           x == CountOnes(u.external, LastPos(b))
           above == u.child_ptr
           old == t.node[b].child_ptr
<1>1. IsShape(t) /\ InMemory(t, root, heap, op)
  BY DEF MemoryOK
<1>2. p = Root <=> b = <<>>
  BY <1>1, PtrToNode
<1>3. root = t.node[<<>>]
  BY <1>1 DEF InMemory
<1>4. old = NULL \/ old[1] = b
  BY <1>1 DEF InMemory, HasBlock
<1>0. /\ DOMAIN hh = (DOMAIN heap \ {old}) \cup ({m.child_ptr} \ {NULL})
      /\ \A c \in DOMAIN hh : c # m.child_ptr => hh[c] = heap[c]
      /\ \/ m.child_ptr = NULL /\ IsEmpty(m)
         \/ /\ m.child_ptr \in Block /\ m.child_ptr[1] = b
            /\ m.child_ptr \notin DOMAIN heap \ {old}
            /\ Holds(hh[m.child_ptr], m.internal, m.external, rs,
                     KidsOf(Changed(t, b, m, rs), b))
            /\ hh[m.child_ptr].units = 0 => op = "simple"
  BY DEF BlocksFor
<1>5. MemoryWith(t, b, m, rs, heap, root', heap', op)
  <2>1. CASE b = <<>>
    <3>1. root' = m /\ heap' = hh
      BY <1>2, <2>1 DEF Store
    <3> QED BY <1>0, <2>1, <3>1 DEF MemoryWith
  <2>2. CASE b # <<>>
    <3>1. /\ a \in t.paths /\ LastPos(b) \in u.external /\ a # b
      BY <1>1, <2>2, NodeOfShape
    <3>2. /\ above # NULL /\ above \in DOMAIN heap /\ above[1] = a
          /\ Holds(heap[above], u.internal, u.external, t.rule[a], KidsOf(t, a))
          /\ p = <<above, x>>
      BY <1>1, <2>2, BlockAbove
    <3>3. p[1] = above /\ p[2] = x
      BY <3>2, BlockPointer
    <3>4. above # old /\ above # m.child_ptr
      BY <1>0, <1>4, <3>1, <3>2
    <3>5. above \in DOMAIN hh /\ hh[above] = heap[above]
      BY <1>0, <3>2, <3>4
    <3>6. heap' = [hh EXCEPT ![above].kid[x] = m] /\ root' = root
      BY <1>2, <2>2, <3>3 DEF Store
    <3> DEFINE blk == [hh[above] EXCEPT !.kid[x] = m]
    <3>7. heap' = [hh EXCEPT ![above] = blk]
      BY <3>6
    <3>8. Holds(blk, u.internal, u.external, t.rule[a],
                [KidsOf(t, a) EXCEPT ![LastPos(b)] = m])
      <4> DEFINE kt == [KidsOf(t, a) EXCEPT ![LastPos(b)] = m]
      <4>1. \A q \in u.external : kt[q] = IF q = LastPos(b) THEN m ELSE KidsOf(t, a)[q]
        BY DEF KidsOf
      <4> HIDE DEF kt
      <4>2. m \in Node
        BY DEF Fits
      <4>3. Holds([heap[above] EXCEPT !.kid[x] = m], u.internal, u.external, t.rule[a], kt)
        BY <3>1, <3>2, <4>1, <4>2, KidWritten
      <4> QED BY <3>5, <4>3 DEF kt
    <3> HIDE DEF blk
    <3>9. DOMAIN heap' = DOMAIN hh /\ heap'[above] = blk
          /\ \A c \in DOMAIN hh : c # above => heap'[c] = hh[c]
      BY <3>5, <3>7
    <3>10. root' = t.node[<<>>]
      BY <1>3, <3>6
    <3>11. m.child_ptr \in Block => m.child_ptr \in DOMAIN hh /\ heap'[m.child_ptr] = hh[m.child_ptr]
      BY <1>0, <3>4, <3>9, NullPointerAssumption
    <3> HIDE DEF above, old, u, a
    <3>12. \A c \in DOMAIN heap' : c # m.child_ptr /\ c # above => heap'[c] = heap[c]
      BY <1>0, <3>9
    <3>13. \/ m.child_ptr = NULL /\ IsEmpty(m)
           \/ /\ m.child_ptr \in Block /\ m.child_ptr[1] = b
              /\ m.child_ptr \notin DOMAIN heap \ {old}
              /\ Holds(heap'[m.child_ptr], m.internal, m.external, rs,
                       KidsOf(Changed(t, b, m, rs), b))
              /\ heap'[m.child_ptr].units = 0 => op = "simple"
      BY <1>0, <3>11
    <3>14. Holds(heap'[above], u.internal, u.external, t.rule[a],
                 [KidsOf(t, a) EXCEPT ![LastPos(b)] = m])
      BY <3>8, <3>9
    <3>15. DOMAIN heap' = (DOMAIN heap \ {old}) \cup ({m.child_ptr} \ {NULL})
      BY <1>0, <3>9
    <3> QED BY <2>2, <3>10, <3>12, <3>13, <3>14, <3>15 DEF MemoryWith, above, old, u, a
  <2> QED BY <2>1, <2>2
<1> QED BY <1>1, <1>5, ChangedShape, ChangedInMemory

\* A rebuild with a new block that holds the next hops rs and the children.
LEMMA Rebuilt ==
  ASSUME NEW t, MemoryOK(t), op \in {"simple", "color"},
         NEW b \in t.paths, NEW lvl, PathAt(lvl) = b, NEW n \in Node,
         NEW new, NEW rs, NEW m, m = [n EXCEPT !.child_ptr = Allocated(new.units, lvl)],
         Fits(t, b, m, rs),
         Holds(new, n.internal, n.external, rs, KidsOf(Changed(t, b, m, rs), b)),
         Rebuild(PtrTo(t, b), n, new, lvl)
  PROVE  /\ IsShape(Changed(t, b, m, rs))
         /\ InMemory(Changed(t, b, m, rs), root', heap', op)
<1> DEFINE bl == Allocated(new.units, lvl)
           old == At(PtrTo(t, b))
           kept == DOMAIN heap \ Freed(old, UP_RULE(rule_num(old)))
           hh == [c \in kept \cup ({bl} \ {NULL}) |-> IF c = bl THEN new ELSE heap[c]]
<1>1. IsShape(t) /\ InMemory(t, root, heap, op)
  BY DEF MemoryOK
<1>2. old = t.node[b]
  BY AtPtrTo
<1>3. kept = DOMAIN heap \ {t.node[b].child_ptr}
  BY <1>2, FreedBlock
<1>4. Unused(lvl) # {} /\ Store(PtrTo(t, b), m, hh)
  BY DEF Rebuild
<1>5. Min(Unused(lvl)) \in Copies /\ <<b, Min(Unused(lvl))>> \notin DOMAIN heap
  <2>1. Unused(lvl) \subseteq Nat
    BY CopiesAssumption DEF Unused
  <2>2. Min(Unused(lvl)) \in Unused(lvl)
    BY <1>4, <2>1, MinOfNats
  <2> QED BY <2>2 DEF Unused
<1>6. \/ bl = NULL /\ new.units = 0
      \/ /\ bl \in Block /\ bl[1] = b /\ bl \notin DOMAIN heap
         /\ new.units = 0 => op = "simple"
  <2>1. CASE op = "color" /\ new.units = 0
    BY <2>1 DEF Allocated
  <2>2. CASE ~ (op = "color" /\ new.units = 0)
    <3>1. bl = <<b, Min(Unused(lvl))>>
      BY <2>2 DEF Allocated
    <3>2. b \in NodePath
      BY <1>1, NodeOfShape
    <3>3. bl \in Block /\ bl[1] = b
      BY <1>5, <3>1, <3>2 DEF Block
    <3> QED BY <1>5, <2>2, <3>1, <3>3
  <2> QED BY <2>1, <2>2
<1> HIDE DEF bl, old, kept
<1>7. m = [n EXCEPT !.child_ptr = bl]
  BY DEF bl
<1>8. m.internal = n.internal /\ m.external = n.external /\ m.child_ptr = bl
  <2>1. n = [internal |-> n.internal, external |-> n.external, child_ptr |-> n.child_ptr]
    BY DEF Node
  <2> QED BY <1>7, <2>1
<1>9. new.units = 0 <=> IsEmpty(m)
  <2>1. new.units = 0 <=> IsEmpty(n)
    BY EmptyBlock
  <2> QED BY <1>8, <2>1 DEF IsEmpty
<1>10. DOMAIN hh = (DOMAIN heap \ {t.node[b].child_ptr}) \cup ({m.child_ptr} \ {NULL})
  BY <1>3, <1>8
<1>11. \A c \in DOMAIN hh : c # m.child_ptr => hh[c] = heap[c]
  BY <1>3, <1>8
<1>12. bl \in Block => hh[bl] = new
  BY NullPointerAssumption
<1> HIDE DEF hh
<1>13. \/ m.child_ptr = NULL /\ IsEmpty(m)
       \/ /\ m.child_ptr \in Block /\ m.child_ptr[1] = b
          /\ m.child_ptr \notin DOMAIN heap \ {t.node[b].child_ptr}
          /\ Holds(hh[m.child_ptr], m.internal, m.external, rs,
                   KidsOf(Changed(t, b, m, rs), b))
          /\ hh[m.child_ptr].units = 0 => op = "simple"
  BY <1>6, <1>8, <1>9, <1>12
<1>14. BlocksFor(t, b, m, rs, hh)
  BY <1>10, <1>11, <1>13 DEF BlocksFor
<1> QED BY <1>4, <1>14, Stored

-----------------------------------------------------------------------------
\* What an update of the node of b may change: the node m with the next hops rs
\* has a rule or a child more or less.
RuleComes(t, b, m, rs, pos, h) ==
  /\ m.internal = t.node[b].internal \cup {pos}
  /\ m.external = t.node[b].external
  /\ \A q \in m.internal : rs[q] = IF q = pos THEN h ELSE t.rule[b][q]

RuleGoes(t, b, m, rs, pos) ==
  /\ m.internal = t.node[b].internal \ {pos}
  /\ m.external = t.node[b].external
  /\ \A q \in m.internal : rs[q] = t.rule[b][q]

KidComes(t, b, m, pos) ==
  /\ m.internal = t.node[b].internal
  /\ m.external = t.node[b].external \cup {pos}

KidGoes(t, b, m, pos) ==
  /\ m.internal = t.node[b].internal
  /\ m.external = t.node[b].external \ {pos}

-----------------------------------------------------------------------------
\* The paths of the changed trie.
LEMMA PathsAre ==
  ASSUME NEW t, IsShape(t), NEW b \in t.paths, NEW n, NEW rs, Fits(t, b, n, rs)
  PROVE  Changed(t, b, n, rs).paths =
           (t.paths \ {KidOf(b, pos) : pos \in t.node[b].external \ n.external})
             \cup {KidOf(b, pos) : pos \in n.external \ t.node[b].external}
<1> DEFINE u == Changed(t, b, n, rs)
           old == t.node[b].external
           out == {KidOf(b, pos) : pos \in old \ n.external}
           in == {KidOf(b, pos) : pos \in n.external \ old}
<1>1. /\ \A c \in u.paths : c \in t.paths \/ \E pos \in n.external : c = KidOf(b, pos)
      /\ \A pos \in n.external : KidOf(b, pos) \in u.paths
      /\ \A c \in t.paths :
           c \in u.paths \/ (c # <<>> /\ Up(c) = b /\ LastPos(c) \notin n.external)
  BY ChangedNodes
<1>2. \A c \in u.paths : c # <<>> /\ Up(c) = b => LastPos(c) \in n.external
  BY ChangedPaths
<1>3. \A pos \in old : KidFits(b, pos) /\ KidOf(b, pos) \in t.paths
  BY NodeOfShape
<1>4. \A c \in t.paths : c # <<>> /\ Up(c) = b =>
        LastPos(c) \in old /\ KidOf(b, LastPos(c)) = c
  BY NodeOfShape
<1> HIDE DEF u
<1>5. ASSUME NEW c \in u.paths PROVE c \in (t.paths \ out) \cup in
  <2>1. ASSUME c \in out PROVE FALSE
    <3>1. PICK pos \in old \ n.external : c = KidOf(b, pos)
      BY <2>1
    <3>2. c # <<>> /\ Up(c) = b /\ LastPos(c) = pos
      BY <1>3, <3>1 DEF KidFits
    <3> QED BY <1>2, <3>1, <3>2
  <2>2. ASSUME c \notin t.paths PROVE c \in in
    <3>1. PICK pos \in n.external : c = KidOf(b, pos)
      BY <1>1, <2>2
    <3>2. pos \notin old
      BY <1>3, <2>2, <3>1
    <3> QED BY <3>1, <3>2
  <2> QED BY <2>1, <2>2
<1>6. ASSUME NEW c \in (t.paths \ out) \cup in PROVE c \in u.paths
  <2>1. CASE c \in in
    BY <1>1, <2>1
  <2>2. CASE c \in t.paths \ out
    <3> SUFFICES ASSUME c \notin u.paths PROVE FALSE
      OBVIOUS
    <3>1. c # <<>> /\ Up(c) = b /\ LastPos(c) \notin n.external
      BY <1>1, <2>2
    <3>2. LastPos(c) \in old /\ KidOf(b, LastPos(c)) = c
      BY <1>4, <2>2, <3>1
    <3>3. c \in out
      BY <3>1, <3>2
    <3> QED BY <2>2, <3>3
  <2> QED BY <2>1, <2>2
<1>7. u.paths = (t.paths \ out) \cup in
  BY <1>5, <1>6
<1> QED BY <1>7 DEF u

\* A node that keeps its bits of external keeps its children.
LEMMA PathsStay ==
  ASSUME NEW t, IsShape(t), NEW b \in t.paths, NEW n, NEW rs, Fits(t, b, n, rs),
         n.external = t.node[b].external
  PROVE  Changed(t, b, n, rs).paths = t.paths
<1>1. Changed(t, b, n, rs).paths =
        (t.paths \ {KidOf(b, pos) : pos \in t.node[b].external \ n.external})
          \cup {KidOf(b, pos) : pos \in n.external \ t.node[b].external}
  BY PathsAre
<1>2. n.external \ t.node[b].external = {} /\ t.node[b].external \ n.external = {}
  OBVIOUS
<1> QED BY <1>1, <1>2

\* The rules of a trie.
RuleIsIn(t, p) ==
  NodeOf(p) \in t.paths /\ RulePos(p) \in t.node[NodeOf(p)].internal

\* The trie of a shape, part by part.
LEMMA TrieOfIs ==
  ASSUME NEW t
  PROVE  /\ TrieOf(t) = [inl |-> TrieOf(t).inl, enl |-> TrieOf(t).enl]
         /\ TrieOf(t).enl = t.paths \ {<<>>}
         /\ DOMAIN TrieOf(t).inl = {p \in Prefix : RuleIsIn(t, p)}
         /\ TrieOf(t).inl = [p \in DOMAIN TrieOf(t).inl |-> TrieOf(t).inl[p]]
         /\ \A p \in Prefix : RuleIsIn(t, p) =>
              TrieOf(t).inl[p] = t.rule[NodeOf(p)][RulePos(p)]
<1> DEFINE f == [p \in {q \in Prefix : NodeOf(q) \in t.paths
                                       /\ RulePos(q) \in t.node[NodeOf(q)].internal}
                   |-> t.rule[NodeOf(p)][RulePos(p)]]
<1>1. TrieOf(t) = [inl |-> f, enl |-> t.paths \ {<<>>}]
  BY DEF TrieOf
<1>2. /\ DOMAIN f = {p \in Prefix : RuleIsIn(t, p)}
      /\ f = [p \in DOMAIN f |-> f[p]]
      /\ \A p \in Prefix : RuleIsIn(t, p) => f[p] = t.rule[NodeOf(p)][RulePos(p)]
  BY DEF RuleIsIn
<1> HIDE DEF f
<1>3. TrieOf(t).inl = f /\ TrieOf(t).enl = t.paths \ {<<>>}
  BY <1>1
<1> QED BY <1>1, <1>2, <1>3

\* A rule is told by its node and its bit.
LEMMA RuleIsUnique ==
  ASSUME NEW p \in Prefix, NEW q \in Prefix, NodeOf(p) = NodeOf(q),
         RulePos(p) = RulePos(q)
  PROVE  p = q
BY RuleSplit

\* The rules of the changed trie: those of the node, and the others as before.
LEMMA RulesAre ==
  ASSUME NEW t, IsShape(t), NEW b \in t.paths, NEW n, NEW rs, Fits(t, b, n, rs),
         NEW p \in Prefix
  PROVE  LET u == Changed(t, b, n, rs)
         IN  /\ NodeOf(p) = b => /\ RuleIsIn(u, p) <=> RulePos(p) \in n.internal
                                 /\ u.rule[NodeOf(p)][RulePos(p)] = rs[RulePos(p)]
             /\ NodeOf(p) # b => /\ RuleIsIn(u, p) <=> RuleIsIn(t, p)
                                 /\ RuleIsIn(t, p) =>
                                      u.rule[NodeOf(p)][RulePos(p)] =
                                        t.rule[NodeOf(p)][RulePos(p)]
<1> DEFINE u == Changed(t, b, n, rs)
           c == NodeOf(p)
<1>1. /\ b \in u.paths
      /\ u.node[b] = n /\ u.rule[b] = rs
      /\ \A d \in u.paths :
           /\ d # b /\ d \in t.paths => u.node[d] = t.node[d] /\ u.rule[d] = t.rule[d]
           /\ d \notin t.paths => u.node[d] = ZeroNode
      /\ \A d \in t.paths :
           d \in u.paths \/ (d # <<>> /\ Up(d) = b /\ LastPos(d) \notin n.external)
  BY ChangedNodes
<1> HIDE DEF u
<1>2. c = b => (RuleIsIn(u, p) <=> RulePos(p) \in n.internal)
               /\ u.rule[c][RulePos(p)] = rs[RulePos(p)]
  BY <1>1 DEF RuleIsIn
<1>3. ASSUME c # b, c \in u.paths, c \in t.paths
      PROVE  /\ RuleIsIn(u, p) <=> RuleIsIn(t, p)
             /\ u.rule[c][RulePos(p)] = t.rule[c][RulePos(p)]
  BY <1>1, <1>3 DEF RuleIsIn
<1>4. ASSUME c # b, c \notin t.paths
      PROVE  ~ RuleIsIn(u, p) /\ ~ RuleIsIn(t, p)
  BY <1>1, <1>4 DEF RuleIsIn, ZeroNode
<1>5. ASSUME c # b, c \in t.paths, c \notin u.paths
      PROVE  ~ RuleIsIn(u, p) /\ ~ RuleIsIn(t, p)
  <2>1. c # <<>> /\ Up(c) = b /\ LastPos(c) \notin n.external
    BY <1>1, <1>5
  <2>2. LastPos(c) \in t.node[b].external /\ KidOf(b, LastPos(c)) = c
    BY <1>5, <2>1, NodeOfShape
  <2>3. t.node[c].internal = {}
    BY <2>1, <2>2 DEF Fits, IsEmpty
  <2> QED BY <1>5, <2>3 DEF RuleIsIn
<1> QED BY <1>2, <1>3, <1>4, <1>5 DEF u

\* So the table gets a rule,
LEMMA RuleIsPut ==
  ASSUME NEW t, IsShape(t), NEW p \in Prefix, NodeOf(p) \in t.paths, NEW n, NEW rs,
         Fits(t, NodeOf(p), n, rs), NEW h, RuleComes(t, NodeOf(p), n, rs, RulePos(p), h)
  PROVE  TrieOf(Changed(t, NodeOf(p), n, rs)) =
           [inl |-> Put(TrieOf(t).inl, p, h), enl |-> TrieOf(t).enl]
<1> DEFINE b == NodeOf(p)
           u == Changed(t, b, n, rs)
           f == TrieOf(u).inl
           g == Put(TrieOf(t).inl, p, h)
<1>0. /\ n.internal = t.node[NodeOf(p)].internal \cup {RulePos(p)}
      /\ n.external = t.node[NodeOf(p)].external
      /\ \A pos \in n.internal :
           rs[pos] = IF pos = RulePos(p) THEN h ELSE t.rule[NodeOf(p)][pos]
  BY DEF RuleComes
<1>1. u.paths = t.paths
  BY <1>0, PathsStay
<1>2. TrieOf(u).enl = TrieOf(t).enl
  BY <1>1, TrieOfIs
<1>3. /\ DOMAIN f = {q \in Prefix : RuleIsIn(u, q)} /\ f = [q \in DOMAIN f |-> f[q]]
      /\ \A q \in Prefix : RuleIsIn(u, q) => f[q] = u.rule[NodeOf(q)][RulePos(q)]
  BY TrieOfIs
<1>4. /\ DOMAIN TrieOf(t).inl = {q \in Prefix : RuleIsIn(t, q)}
      /\ \A q \in Prefix : RuleIsIn(t, q) =>
           TrieOf(t).inl[q] = t.rule[NodeOf(q)][RulePos(q)]
  BY TrieOfIs
<1>5. /\ DOMAIN g = DOMAIN TrieOf(t).inl \cup {p} /\ g = [q \in DOMAIN g |-> g[q]]
      /\ \A q \in DOMAIN g : g[q] = IF q = p THEN h ELSE TrieOf(t).inl[q]
  BY DEF Put
<1>6. ASSUME NEW q \in Prefix
      PROVE  /\ RuleIsIn(u, q) <=> (q = p \/ RuleIsIn(t, q))
             /\ RuleIsIn(u, q) =>
                  u.rule[NodeOf(q)][RulePos(q)] =
                    IF q = p THEN h ELSE t.rule[NodeOf(q)][RulePos(q)]
  <2>1. CASE NodeOf(q) = b
    <3>1. RuleIsIn(u, q) <=> RulePos(q) \in n.internal
      BY <2>1, RulesAre
    <3>2. u.rule[NodeOf(q)][RulePos(q)] = rs[RulePos(q)]
      BY <2>1, RulesAre
    <3>3. RulePos(q) = RulePos(p) <=> q = p
      BY <2>1, RuleIsUnique
    <3> HIDE DEF u
    <3> QED BY <1>0, <2>1, <3>1, <3>2, <3>3 DEF RuleIsIn
  <2>2. CASE NodeOf(q) # b
    BY <2>2, RulesAre
  <2> QED BY <2>1, <2>2
<1>7. TrieOf(u) = [inl |-> f, enl |-> TrieOf(t).enl]
  BY <1>2, TrieOfIs
<1> HIDE DEF u, f, g
<1>8. DOMAIN f = DOMAIN g
  BY <1>3, <1>4, <1>5, <1>6
<1>9. \A q \in DOMAIN g : f[q] = g[q]
  BY <1>3, <1>4, <1>5, <1>6, <1>8
<1>10. f = g
  BY <1>3, <1>5, <1>8, <1>9
<1> QED BY <1>7, <1>10 DEF u, g

\* or loses one;
LEMMA RuleIsTaken ==
  ASSUME NEW t, IsShape(t), NEW p \in Prefix, NodeOf(p) \in t.paths, NEW n, NEW rs,
         Fits(t, NodeOf(p), n, rs), RuleGoes(t, NodeOf(p), n, rs, RulePos(p))
  PROVE  TrieOf(Changed(t, NodeOf(p), n, rs)) =
           [inl |-> Remove(TrieOf(t).inl, p), enl |-> TrieOf(t).enl]
<1> DEFINE b == NodeOf(p)
           u == Changed(t, b, n, rs)
           f == TrieOf(u).inl
           g == Remove(TrieOf(t).inl, p)
<1>0. /\ n.internal = t.node[NodeOf(p)].internal \ {RulePos(p)}
      /\ n.external = t.node[NodeOf(p)].external
      /\ \A pos \in n.internal : rs[pos] = t.rule[NodeOf(p)][pos]
  BY DEF RuleGoes
<1>1. u.paths = t.paths
  BY <1>0, PathsStay
<1>2. TrieOf(u).enl = TrieOf(t).enl
  BY <1>1, TrieOfIs
<1>3. /\ DOMAIN f = {q \in Prefix : RuleIsIn(u, q)} /\ f = [q \in DOMAIN f |-> f[q]]
      /\ \A q \in Prefix : RuleIsIn(u, q) => f[q] = u.rule[NodeOf(q)][RulePos(q)]
  BY TrieOfIs
<1>4. /\ DOMAIN TrieOf(t).inl = {q \in Prefix : RuleIsIn(t, q)}
      /\ \A q \in Prefix : RuleIsIn(t, q) =>
           TrieOf(t).inl[q] = t.rule[NodeOf(q)][RulePos(q)]
  BY TrieOfIs
<1>5. /\ DOMAIN g = DOMAIN TrieOf(t).inl \ {p} /\ g = [q \in DOMAIN g |-> g[q]]
      /\ \A q \in DOMAIN g : g[q] = TrieOf(t).inl[q]
  BY DEF Remove
<1>6. ASSUME NEW q \in Prefix
      PROVE  /\ RuleIsIn(u, q) <=> (q # p /\ RuleIsIn(t, q))
             /\ RuleIsIn(u, q) =>
                  u.rule[NodeOf(q)][RulePos(q)] = t.rule[NodeOf(q)][RulePos(q)]
  <2>1. CASE NodeOf(q) = b
    <3>1. RuleIsIn(u, q) <=> RulePos(q) \in n.internal
      BY <2>1, RulesAre
    <3>2. u.rule[NodeOf(q)][RulePos(q)] = rs[RulePos(q)]
      BY <2>1, RulesAre
    <3>3. RulePos(q) = RulePos(p) <=> q = p
      BY <2>1, RuleIsUnique
    <3> HIDE DEF u
    <3> QED BY <1>0, <2>1, <3>1, <3>2, <3>3 DEF RuleIsIn
  <2>2. CASE NodeOf(q) # b
    BY <2>2, RulesAre
  <2> QED BY <2>1, <2>2
<1>7. TrieOf(u) = [inl |-> f, enl |-> TrieOf(t).enl]
  BY <1>2, TrieOfIs
<1> HIDE DEF u, f, g
<1>8. DOMAIN f = DOMAIN g
  BY <1>3, <1>4, <1>5, <1>6
<1>9. \A q \in DOMAIN g : f[q] = g[q]
  BY <1>3, <1>4, <1>5, <1>6, <1>8
<1>10. f = g
  BY <1>3, <1>5, <1>8, <1>9
<1> QED BY <1>7, <1>10 DEF u, g

\* when only children come and go, the rules stay.
LEMMA RulesStay ==
  ASSUME NEW t, IsShape(t), NEW b \in t.paths, NEW n, NEW rs, Fits(t, b, n, rs),
         n.internal = t.node[b].internal, rs = t.rule[b]
  PROVE  TrieOf(Changed(t, b, n, rs)).inl = TrieOf(t).inl
<1> DEFINE u == Changed(t, b, n, rs)
           f == TrieOf(u).inl
           g == TrieOf(t).inl
<1>3. /\ DOMAIN f = {q \in Prefix : RuleIsIn(u, q)} /\ f = [q \in DOMAIN f |-> f[q]]
      /\ \A q \in Prefix : RuleIsIn(u, q) => f[q] = u.rule[NodeOf(q)][RulePos(q)]
  BY TrieOfIs
<1>4. /\ DOMAIN g = {q \in Prefix : RuleIsIn(t, q)} /\ g = [q \in DOMAIN g |-> g[q]]
      /\ \A q \in Prefix : RuleIsIn(t, q) => g[q] = t.rule[NodeOf(q)][RulePos(q)]
  BY TrieOfIs
<1>6. ASSUME NEW q \in Prefix
      PROVE  /\ RuleIsIn(u, q) <=> RuleIsIn(t, q)
             /\ RuleIsIn(u, q) =>
                  u.rule[NodeOf(q)][RulePos(q)] = t.rule[NodeOf(q)][RulePos(q)]
  <2>1. CASE NodeOf(q) = b
    <3>1. RuleIsIn(u, q) <=> RulePos(q) \in n.internal
      BY <2>1, RulesAre
    <3>2. u.rule[NodeOf(q)][RulePos(q)] = rs[RulePos(q)]
      BY <2>1, RulesAre
    <3> HIDE DEF u
    <3> QED BY <2>1, <3>1, <3>2 DEF RuleIsIn
  <2>2. CASE NodeOf(q) # b
    BY <2>2, RulesAre
  <2> QED BY <2>1, <2>2
<1> HIDE DEF u, f, g
<1>8. DOMAIN f = DOMAIN g
  BY <1>3, <1>4, <1>6
<1>9. \A q \in DOMAIN g : f[q] = g[q]
  BY <1>3, <1>4, <1>6, <1>8
<1>10. f = g
  BY <1>3, <1>4, <1>8, <1>9
<1> QED BY <1>10 DEF u, f, g

-----------------------------------------------------------------------------
(***************************************************************************)
(* What the operations do to the memory.                                   *)
(***************************************************************************)

\* In the next state the memory is that of t with the node n at b.
NodeBecomes(t, b, n, rs) ==
  /\ Fits(t, b, n, rs)
  /\ IsShape(Changed(t, b, n, rs))
  /\ InMemory(Changed(t, b, n, rs), root', heap', op)

\* What a rebuild copies from.
LEMMA BlockOfHolds ==
  ASSUME NEW t, MemoryOK(t), NEW b \in t.paths
  PROVE  Holds(BlockOf(t.node[b]), t.node[b].internal, t.node[b].external,
               t.rule[b], KidsOf(t, b))
<1> DEFINE n == t.node[b]
<1>1. HasBlock(t, heap, b)
  BY DEF MemoryOK, InMemory
<1>2. CASE n.child_ptr = NULL
  <2>1. n.internal = {} /\ n.external = {} /\ BlockOf(n) = NewBlock(0, 0)
    BY <1>1, <1>2 DEF HasBlock, IsEmpty, BlockOf
  <2> QED BY <2>1, NoBlock
<1>3. CASE n.child_ptr # NULL
  <2>1. BlockOf(n) = heap[n.child_ptr]
    BY <1>3 DEF BlockOf
  <2> QED BY <1>1, <1>3, <2>1 DEF HasBlock
<1> QED BY <1>2, <1>3

\* The children of the changed node.
LEMMA KidsAre ==
  ASSUME NEW t, IsShape(t), NEW b \in t.paths, NEW n, NEW rs, Fits(t, b, n, rs)
  PROVE  \A pos \in n.external :
           KidsOf(Changed(t, b, n, rs), b)[pos] =
             IF pos \in t.node[b].external THEN KidsOf(t, b)[pos] ELSE ZeroNode
<1> DEFINE u == Changed(t, b, n, rs)
<1>1. /\ b \in u.paths /\ u.node[b] = n
      /\ \A c \in u.paths :
           /\ c # b /\ c \in t.paths => u.node[c] = t.node[c]
           /\ c \notin t.paths => u.node[c] = ZeroNode
      /\ \A pos \in n.external : KidOf(b, pos) \in u.paths
  BY ChangedNodes
<1>2. IsShape(u)
  BY ChangedShape
<1> HIDE DEF u
<1> SUFFICES ASSUME NEW pos \in n.external
             PROVE  KidsOf(u, b)[pos] =
                      IF pos \in t.node[b].external THEN KidsOf(t, b)[pos] ELSE ZeroNode
  BY DEF u
<1> DEFINE c == KidOf(b, pos)
<1>3. c \in u.paths /\ c # <<>> /\ Up(c) = b /\ LastPos(c) = pos
  BY <1>1 DEF Fits, KidFits
<1>4. c # b
  BY <1>2, <1>3, NodeOfShape
<1>5. KidsOf(u, b)[pos] = u.node[c]
  BY <1>1 DEF KidsOf
<1>6. CASE pos \in t.node[b].external
  <2>1. c \in t.paths
    BY <1>6, NodeOfShape
  <2>2. KidsOf(t, b)[pos] = t.node[c]
    BY <1>6 DEF KidsOf
  <2> QED BY <1>1, <1>3, <1>4, <1>5, <1>6, <2>1, <2>2
<1>7. CASE pos \notin t.node[b].external
  <2>1. c \notin t.paths
    BY <1>3, <1>7, NodeOfShape
  <2> QED BY <1>1, <1>3, <1>5, <1>7, <2>1
<1> QED BY <1>6, <1>7

\* new is a block for the node of b with the bitmaps of n, its next hops rs and
\* its children ks.
NewBlockFor(t, b, n, new, rs, ks) ==
  /\ n \in Node
  /\ rs \in [n.internal -> NHI \cup {NULL}]
  /\ \A pos \in n.internal : RuleFits(b, pos)
  /\ \A pos \in n.external : KidFits(b, pos)
  /\ \A pos \in t.node[b].external \ n.external : IsEmpty(t.node[KidOf(b, pos)])
  /\ Holds(new, n.internal, n.external, rs, ks)
  /\ \A pos \in n.external :
       ks[pos] = IF pos \in t.node[b].external THEN KidsOf(t, b)[pos] ELSE ZeroNode

\* A rebuild with such a block.
LEMMA RebuiltTo ==
  ASSUME NEW t, MemoryOK(t), op \in {"simple", "color"},
         NEW b \in t.paths, NEW lvl, PathAt(lvl) = b, NEW n, NEW new, NEW rs, NEW ks,
         NewBlockFor(t, b, n, new, rs, ks), Rebuild(PtrTo(t, b), n, new, lvl)
  PROVE  \E m : /\ m.internal = n.internal /\ m.external = n.external
                /\ m.child_ptr = Allocated(new.units, lvl)
                /\ NodeBecomes(t, b, m, rs)
<1>1. PICK m : m = [n EXCEPT !.child_ptr = Allocated(new.units, lvl)]
  OBVIOUS
<1>0. /\ n \in Node
      /\ rs \in [n.internal -> NHI \cup {NULL}]
      /\ \A pos \in n.internal : RuleFits(b, pos)
      /\ \A pos \in n.external : KidFits(b, pos)
      /\ \A pos \in t.node[b].external \ n.external : IsEmpty(t.node[KidOf(b, pos)])
      /\ Holds(new, n.internal, n.external, rs, ks)
      /\ \A pos \in n.external :
           ks[pos] = IF pos \in t.node[b].external THEN KidsOf(t, b)[pos] ELSE ZeroNode
  BY DEF NewBlockFor
<1>2. IsShape(t)
  BY DEF MemoryOK
<1>3. Allocated(new.units, lvl) \in Block \cup {NULL}
  <2>1. Unused(lvl) # {}
    BY DEF Rebuild
  <2>2. Unused(lvl) \subseteq Copies /\ Unused(lvl) \subseteq Nat
    BY CopiesAssumption DEF Unused
  <2>3. Min(Unused(lvl)) \in Copies
    BY <2>1, <2>2, MinOfNats
  <2>4. b \in NodePath
    BY <1>2, NodeOfShape
  <2>5. <<PathAt(lvl), Min(Unused(lvl))>> \in Block
    BY <2>3, <2>4 DEF Block
  <2> QED BY <2>5 DEF Allocated
<1>4. /\ m.internal = n.internal /\ m.external = n.external
      /\ m.child_ptr = Allocated(new.units, lvl) /\ m \in Node
  <2>1. n = [internal |-> n.internal, external |-> n.external, child_ptr |-> n.child_ptr]
        /\ n.internal \in SUBSET InlPos /\ n.external \in SUBSET EnlPos
    BY <1>0 DEF Node
  <2> DEFINE a == Allocated(new.units, lvl)
  <2> HIDE DEF a
  <2>2. m = [internal |-> n.internal, external |-> n.external, child_ptr |-> a]
    BY <1>1, <2>1 DEF a
  <2>3. a \in Block \cup {NULL}
    BY <1>3 DEF a
  <2> QED BY <2>1, <2>2, <2>3 DEF Node, a
<1>5. Fits(t, b, m, rs)
  BY <1>0, <1>4 DEF Fits
<1>6. \A pos \in m.external : KidsOf(Changed(t, b, m, rs), b)[pos] = ks[pos]
  BY <1>0, <1>2, <1>4, <1>5, KidsAre
<1> DEFINE kt == KidsOf(Changed(t, b, m, rs), b)
<1>7. \A pos \in n.external : kt[pos] = ks[pos]
  BY <1>0, <1>4, <1>6
<1> HIDE DEF kt
<1>8. Holds(new, n.internal, n.external, rs, kt)
  BY <1>0, <1>7, HoldsTheSame
<1>9. IsShape(Changed(t, b, m, rs)) /\ InMemory(Changed(t, b, m, rs), root', heap', op)
  BY <1>0, <1>1, <1>5, <1>8, Rebuilt DEF kt
<1> QED BY <1>4, <1>5, <1>9 DEF NodeBecomes

\* The block of a node is written into.
LEMMA WrittenInPlace ==
  ASSUME NEW t, MemoryOK(t), NEW b \in t.paths, NEW blk,
         NEW rs \in [t.node[b].internal -> NHI \cup {NULL}],
         t.node[b].child_ptr # NULL,
         Holds(blk, t.node[b].internal, t.node[b].external, rs, KidsOf(t, b)),
         heap' = [heap EXCEPT ![t.node[b].child_ptr] = blk], root' = root
  PROVE  NodeBecomes(t, b, t.node[b], rs)
<1> DEFINE n == t.node[b]
           p == n.child_ptr
           above == t.node[Up(b)].child_ptr
<1>1. IsShape(t) /\ InMemory(t, root, heap, op)
  BY DEF MemoryOK
<1>2. Fits(t, b, n, rs)
  BY <1>1, NodeOfShape DEF Fits
<1>3. /\ p \in DOMAIN heap /\ p[1] = b /\ p \in Block
      /\ Holds(heap[p], n.internal, n.external, t.rule[b], KidsOf(t, b))
      /\ heap[p].units = 0 => op = "simple"
  BY <1>1 DEF InMemory, HasBlock
<1>4. blk.units = heap[p].units
  BY <1>3 DEF Holds
<1>5. Holds(blk, n.internal, n.external, rs, KidsOf(Changed(t, b, n, rs), b))
  <2>1. \A pos \in n.external : KidsOf(Changed(t, b, n, rs), b)[pos] = KidsOf(t, b)[pos]
    BY <1>1, <1>2, KidsAre
  <2> DEFINE kt == KidsOf(Changed(t, b, n, rs), b)
  <2>2. \A pos \in n.external : kt[pos] = KidsOf(t, b)[pos]
    BY <2>1
  <2> HIDE DEF kt
  <2>3. Holds(blk, n.internal, n.external, rs, kt)
    BY <2>2, HoldsTheSame
  <2> QED BY <2>3 DEF kt
<1>6. DOMAIN heap' = DOMAIN heap /\ heap'[p] = blk
      /\ \A c \in DOMAIN heap : c # p => heap'[c] = heap[c]
  BY <1>3
<1>7. root' = IF b = <<>> THEN n ELSE t.node[<<>>]
  BY <1>1 DEF InMemory
<1>8. ASSUME b # <<>>
      PROVE  Holds(heap'[above], t.node[Up(b)].internal, t.node[Up(b)].external,
                   t.rule[Up(b)], [KidsOf(t, Up(b)) EXCEPT ![LastPos(b)] = n])
  <2> DEFINE ks == [KidsOf(t, Up(b)) EXCEPT ![LastPos(b)] = n]
             a == t.node[Up(b)]
  <2>1. /\ Up(b) # b /\ LastPos(b) \in a.external /\ KidOf(Up(b), LastPos(b)) = b
    BY <1>1, <1>8, NodeOfShape
  <2>2. above \in DOMAIN heap /\ above[1] = Up(b)
        /\ Holds(heap[above], a.internal, a.external, t.rule[Up(b)], KidsOf(t, Up(b)))
    BY <1>1, <1>8, BlockAbove
  <2>3. heap'[above] = heap[above]
    BY <1>3, <1>6, <2>1, <2>2
  <2>4. \A pos \in a.external : ks[pos] = KidsOf(t, Up(b))[pos]
    BY <2>1 DEF KidsOf
  <2> HIDE DEF ks, a
  <2>5. Holds(heap[above], a.internal, a.external, t.rule[Up(b)], ks)
    BY <2>2, <2>4, HoldsTheSame
  <2> QED BY <2>3, <2>5 DEF ks, a
<1>9. MemoryWith(t, b, n, rs, heap, root', heap', op)
  <2> HIDE DEF n
  <2>1. n.child_ptr \notin DOMAIN heap \ {t.node[b].child_ptr}
    BY DEF n
  <2>2. DOMAIN heap' = (DOMAIN heap \ {t.node[b].child_ptr}) \cup ({n.child_ptr} \ {NULL})
    BY <1>3, <1>6, NullPointerAssumption DEF n
  <2>3. /\ n.child_ptr \in Block /\ n.child_ptr[1] = b
        /\ Holds(heap'[n.child_ptr], n.internal, n.external, rs,
                 KidsOf(Changed(t, b, n, rs), b))
        /\ heap'[n.child_ptr].units = 0 => op = "simple"
    BY <1>3, <1>4, <1>5, <1>6
  <2>4. \A c \in DOMAIN heap' :
          c # n.child_ptr /\ (b # <<>> => c # t.node[Up(b)].child_ptr) => heap'[c] = heap[c]
    BY <1>6
  <2> QED BY <1>7, <1>8, <2>1, <2>2, <2>3, <2>4 DEF MemoryWith
<1>10. IsShape(Changed(t, b, n, rs))
  BY <1>1, <1>2, ChangedShape
<1>11. InMemory(Changed(t, b, n, rs), root', heap', op)
  <2> HIDE DEF n
  <2> QED BY <1>1, <1>2, <1>9, ChangedInMemory
<1> QED BY <1>2, <1>10, <1>11 DEF NodeBecomes

-----------------------------------------------------------------------------
\* extend_rule, reduce_rule: a rule more, a rule less.
LEMMA ExtendRule ==
  ASSUME NEW t, MemoryOK(t), op \in {"simple", "color"},
         NEW b \in t.paths, NEW lvl, PathAt(lvl) = b, NEW pos \in InlPos,
         RuleFits(b, pos), nhi \in NHI, pos \notin t.node[b].internal,
         extend_rule(PtrTo(t, b), pos, lvl)
  PROVE  \E m, rs :
           NodeBecomes(t, b, m, rs) /\ RuleComes(t, b, m, rs, pos, nhi)
<1> DEFINE old == t.node[b]
           J == old.internal \cup {pos}
           n == [old EXCEPT !.internal = J]
           D == Cardinality(old.internal)
           C == Cardinality(old.external)
           blk == BlockOf(old)
           new == RulesWith(SameKids(NewBlock(C, D + 1), blk), blk, D,
                            CountOnes(J, pos) + 1, nhi)
           rs == [q \in J |-> IF q = pos THEN nhi ELSE t.rule[b][q]]
<1>1. IsShape(t)
  BY DEF MemoryOK
<1>2. At(PtrTo(t, b)) = old
  BY AtPtrTo
<1>3. n \in Node /\ n.internal = J /\ n.external = old.external
  BY <1>1, NodeOfShape DEF Node
<1>4. Rebuild(PtrTo(t, b), n, new, lvl)
  <2>1. Rebuild(PtrTo(t, b), n,
                RulesWith(SameKids(NewBlock(C, D + 1), blk), blk, D,
                          CountOnes(n.internal, pos) + 1, nhi), lvl)
    BY <1>2 DEF extend_rule, child_num, rule_num
  <2> QED BY <1>3, <2>1
<1>5. Holds(blk, old.internal, old.external, t.rule[b], KidsOf(t, b))
  BY BlockOfHolds
<1>6. rs \in [J -> NHI \cup {NULL}] /\ \A q \in J : rs[q] = IF q = pos THEN nhi ELSE t.rule[b][q]
  BY <1>1, NodeOfShape
<1> DEFINE E == old.external
           I == old.internal
<1>7. /\ I \subseteq InlPos /\ pos \notin I
      /\ Cardinality(E) = C /\ Cardinality(I) = D
  BY <1>1, NodeOfShape
<1> HIDE DEF rs, n, blk
<1>8. Holds(new, J, E, rs, KidsOf(t, b))
  <2> HIDE DEF J, E, I, C, D
  <2>1. J = I \cup {pos} /\ Holds(blk, I, E, t.rule[b], KidsOf(t, b))
    BY <1>5 DEF J, I, E
  <2>2. Holds(RulesWith(SameKids(NewBlock(Cardinality(E), Cardinality(I) + 1), blk), blk,
                        Cardinality(I), CountOnes(J, pos) + 1, nhi),
              J, E, rs, KidsOf(t, b))
    BY <1>6, <1>7, <2>1, RuleAdded
  <2> QED BY <1>7, <2>2
<1>9. new.units = UnitsOf(Cardinality(n.external), Cardinality(n.internal))
  BY <1>3, <1>8 DEF Holds
<1> HIDE DEF new
<1>10. \A q \in n.internal : RuleFits(b, q)
  BY <1>1, <1>3, NodeOfShape
<1>11. \A q \in n.external : KidFits(b, q)
  BY <1>1, <1>3, NodeOfShape
<1>12. \E m : /\ m.internal = n.internal /\ m.external = n.external
              /\ m.child_ptr = Allocated(new.units, lvl)
              /\ NodeBecomes(t, b, m, rs)
  <2>1. \A q \in t.node[b].external \ n.external : IsEmpty(t.node[KidOf(b, q)])
    BY <1>3
  <2>2. Holds(new, n.internal, n.external, rs, KidsOf(t, b))
    BY <1>3, <1>8
  <2>3. \A q \in n.external :
          KidsOf(t, b)[q] = IF q \in t.node[b].external THEN KidsOf(t, b)[q] ELSE ZeroNode
    BY <1>3
  <2>4. rs \in [n.internal -> NHI \cup {NULL}]
    BY <1>3, <1>6
  <2>5. NewBlockFor(t, b, n, new, rs, KidsOf(t, b))
    BY <1>3, <1>10, <1>11, <2>1, <2>2, <2>3, <2>4 DEF NewBlockFor
  <2> QED BY <1>4, <2>5, RebuiltTo
<1> QED BY <1>3, <1>6, <1>12 DEF RuleComes

\* reduce_rule in the trie: the node loses the rule.
LEMMA ReduceRule ==
  ASSUME NEW t, MemoryOK(t), op \in {"simple", "color"},
         NEW b \in t.paths, NEW lvl, PathAt(lvl) = b, NEW pos \in t.node[b].internal,
         reduce_rule(PtrTo(t, b), pos, lvl)
  PROVE  \E m, rs :
           NodeBecomes(t, b, m, rs) /\ RuleGoes(t, b, m, rs, pos)
<1> DEFINE old == t.node[b]
           J == old.internal \ {pos}
           n == [old EXCEPT !.internal = J]
           D == Cardinality(old.internal)
           C == Cardinality(old.external)
           blk == BlockOf(old)
           new == RulesWithout(SameKids(NewBlock(C, D - 1), blk), blk, D,
                               CountOnes(old.internal, pos) + 1)
           rs == [q \in J |-> t.rule[b][q]]
<1>1. IsShape(t)
  BY DEF MemoryOK
<1>2. At(PtrTo(t, b)) = old
  BY AtPtrTo
<1>3. n \in Node /\ n.internal = J /\ n.external = old.external
  BY <1>1, NodeOfShape DEF Node
<1>4. Rebuild(PtrTo(t, b), n, new, lvl)
  BY <1>2 DEF reduce_rule, child_num, rule_num
<1>5. Holds(blk, old.internal, old.external, t.rule[b], KidsOf(t, b))
  BY BlockOfHolds
<1>6. rs \in [J -> NHI \cup {NULL}] /\ \A q \in J : rs[q] = t.rule[b][q]
  BY <1>1, NodeOfShape
<1> DEFINE E == old.external
           I == old.internal
<1>7. /\ I \subseteq InlPos /\ pos \in I
      /\ Cardinality(E) = C /\ Cardinality(I) = D
  BY <1>1, NodeOfShape
<1> HIDE DEF rs, n, blk
<1>8. Holds(new, J, E, rs, KidsOf(t, b))
  <2> HIDE DEF J, E, I, C, D
  <2>1. J = I \ {pos} /\ Holds(blk, I, E, t.rule[b], KidsOf(t, b))
    BY <1>5 DEF J, I, E
  <2>2. Holds(RulesWithout(SameKids(NewBlock(Cardinality(E), Cardinality(I) - 1), blk), blk,
                           Cardinality(I), CountOnes(I, pos) + 1),
              J, E, rs, KidsOf(t, b))
    BY <1>6, <1>7, <2>1, RuleRemoved
  <2>3. CountOnes(old.internal, pos) = CountOnes(I, pos)
    BY DEF I
  <2> QED BY <1>7, <2>2, <2>3
<1>9. new.units = UnitsOf(Cardinality(n.external), Cardinality(n.internal))
  BY <1>3, <1>8 DEF Holds
<1> HIDE DEF new
<1>10. \A q \in n.internal : RuleFits(b, q)
  BY <1>1, <1>3, NodeOfShape
<1>11. \A q \in n.external : KidFits(b, q)
  BY <1>1, <1>3, NodeOfShape
<1>12. \E m : /\ m.internal = n.internal /\ m.external = n.external
              /\ m.child_ptr = Allocated(new.units, lvl)
              /\ NodeBecomes(t, b, m, rs)
  <2>1. \A q \in t.node[b].external \ n.external : IsEmpty(t.node[KidOf(b, q)])
    BY <1>3
  <2>2. Holds(new, n.internal, n.external, rs, KidsOf(t, b))
    BY <1>3, <1>8
  <2>3. \A q \in n.external :
          KidsOf(t, b)[q] = IF q \in t.node[b].external THEN KidsOf(t, b)[q] ELSE ZeroNode
    BY <1>3
  <2>4. rs \in [n.internal -> NHI \cup {NULL}]
    BY <1>3, <1>6
  <2>5. NewBlockFor(t, b, n, new, rs, KidsOf(t, b))
    BY <1>3, <1>10, <1>11, <2>1, <2>2, <2>3, <2>4 DEF NewBlockFor
  <2> QED BY <1>4, <2>5, RebuiltTo
<1> QED BY <1>3, <1>6, <1>12 DEF RuleGoes

\* extend_child, reduce_child: a child more, a child less.
LEMMA ExtendChild ==
  ASSUME NEW t, MemoryOK(t), op \in {"simple", "color"},
         NEW b \in t.paths, NEW lvl, PathAt(lvl) = b, NEW pos \in EnlPos,
         KidFits(b, pos), pos \notin t.node[b].external,
         extend_child(PtrTo(t, b), pos, lvl)
  PROVE  \E m :
           /\ NodeBecomes(t, b, m, t.rule[b]) /\ KidComes(t, b, m, pos)
           /\ m.child_ptr = Allocated(UnitsOf(child_num(t.node[b]) + 1, rule_num(t.node[b])), lvl)
<1> DEFINE old == t.node[b]
           F == old.external \cup {pos}
           n == [old EXCEPT !.external = F]
           D == Cardinality(old.internal)
           C == Cardinality(old.external)
           blk == BlockOf(old)
           new == KidsWith(SameRules(NewBlock(C + 1, D), blk, D), blk, CountOnes(F, pos))
           rs == t.rule[b]
           ks == [q \in F |-> IF q = pos THEN ZeroNode ELSE KidsOf(t, b)[q]]
<1>1. IsShape(t)
  BY DEF MemoryOK
<1>2. At(PtrTo(t, b)) = old
  BY AtPtrTo
<1>3. n \in Node /\ n.internal = old.internal /\ n.external = F
  BY <1>1, NodeOfShape DEF Node
<1>4. Rebuild(PtrTo(t, b), n, new, lvl)
  <2>1. Rebuild(PtrTo(t, b), n,
                KidsWith(SameRules(NewBlock(C + 1, D), blk, D), blk,
                         CountOnes(n.external, pos)), lvl)
    BY <1>2 DEF extend_child, child_num, rule_num
  <2> QED BY <1>3, <2>1
<1>5. Holds(blk, old.internal, old.external, t.rule[b], KidsOf(t, b))
  BY BlockOfHolds
<1>6. \A q \in F : ks[q] = IF q = pos THEN ZeroNode ELSE KidsOf(t, b)[q]
  OBVIOUS
<1> DEFINE E == old.external
           I == old.internal
<1>7. /\ E \subseteq EnlPos /\ pos \notin E
      /\ Cardinality(E) = C /\ Cardinality(I) = D
  BY <1>1, NodeOfShape
<1>8. Cardinality(F) = C + 1
  BY <1>7, SetBit
<1> HIDE DEF rs, n, blk, ks
<1>9. Holds(new, I, F, rs, ks)
  <2> HIDE DEF F, E, I, C, D
  <2>1. F = E \cup {pos} /\ Holds(blk, I, E, rs, KidsOf(t, b))
    BY <1>5 DEF F, I, E, rs
  <2>2. Holds(KidsWith(SameRules(NewBlock(Cardinality(E) + 1, Cardinality(I)), blk,
                                 Cardinality(I)), blk, CountOnes(F, pos)),
              I, F, rs, ks)
    BY <1>6, <1>7, <2>1, ChildAdded
  <2> QED BY <1>7, <2>2
<1>10. new.units = UnitsOf(Cardinality(n.external), Cardinality(n.internal))
  BY <1>3, <1>9 DEF Holds
<1> HIDE DEF new
<1>11. \A q \in n.internal : RuleFits(b, q)
  BY <1>1, <1>3, NodeOfShape
<1>12. \A q \in n.external : KidFits(b, q)
  BY <1>1, <1>3, NodeOfShape
<1>13. \E m : /\ m.internal = n.internal /\ m.external = n.external
              /\ m.child_ptr = Allocated(new.units, lvl)
              /\ NodeBecomes(t, b, m, rs)
  <2>1. \A q \in t.node[b].external \ n.external : IsEmpty(t.node[KidOf(b, q)])
    BY <1>3
  <2>2. Holds(new, n.internal, n.external, rs, ks)
    BY <1>3, <1>9
  <2>3. \A q \in n.external :
          ks[q] = IF q \in t.node[b].external THEN KidsOf(t, b)[q] ELSE ZeroNode
    BY <1>3, <1>6
  <2>4. rs \in [n.internal -> NHI \cup {NULL}]
    BY <1>1, <1>3, NodeOfShape DEF rs
  <2>5. NewBlockFor(t, b, n, new, rs, ks)
    BY <1>3, <1>11, <1>12, <2>1, <2>2, <2>3, <2>4 DEF NewBlockFor
  <2> QED BY <1>4, <2>5, RebuiltTo
<1> QED BY <1>3, <1>8, <1>10, <1>13 DEF rs, child_num, rule_num, KidComes

\* reduce_child in the trie: the node loses an emptied child, and its block.
LEMMA ReduceChild ==
  ASSUME NEW t, MemoryOK(t), op \in {"simple", "color"},
         NEW b \in t.paths, NEW lvl, PathAt(lvl) = b, NEW pos \in t.node[b].external,
         IsEmpty(t.node[KidOf(b, pos)]),
         reduce_child(PtrTo(t, b), pos, lvl)
  PROVE  \E m :
           NodeBecomes(t, b, m, t.rule[b]) /\ KidGoes(t, b, m, pos)
<1> DEFINE old == t.node[b]
           F == old.external \ {pos}
           n == [old EXCEPT !.external = F]
           D == Cardinality(old.internal)
           C == Cardinality(old.external)
           blk == BlockOf(old)
           new == KidsWithout(SameRules(NewBlock(C - 1, D), blk, D), blk,
                              CountOnes(old.external, pos))
           rs == t.rule[b]
           ks == KidsOf(t, b)
<1>1. IsShape(t)
  BY DEF MemoryOK
<1>2. At(PtrTo(t, b)) = old
  BY AtPtrTo
<1>3. n \in Node /\ n.internal = old.internal /\ n.external = F
  BY <1>1, NodeOfShape DEF Node
<1>4. Rebuild(PtrTo(t, b), n, new, lvl)
  BY <1>2 DEF reduce_child, child_num, rule_num
<1>5. Holds(blk, old.internal, old.external, t.rule[b], KidsOf(t, b))
  BY BlockOfHolds
<1> DEFINE E == old.external
           I == old.internal
<1>7. /\ E \subseteq EnlPos /\ pos \in E
      /\ Cardinality(E) = C /\ Cardinality(I) = D
  BY <1>1, NodeOfShape
<1> HIDE DEF rs, n, blk, ks
<1>9. Holds(new, I, F, rs, ks)
  <2> HIDE DEF F, E, I, C, D
  <2>1. F = E \ {pos} /\ Holds(blk, I, E, rs, ks)
    BY <1>5 DEF F, I, E, rs, ks
  <2>2. Holds(KidsWithout(SameRules(NewBlock(Cardinality(E) - 1, Cardinality(I)), blk,
                                    Cardinality(I)), blk, CountOnes(E, pos)),
              I, F, rs, ks)
    BY <1>7, <2>1, ChildRemoved
  <2>3. CountOnes(old.external, pos) = CountOnes(E, pos)
    BY DEF E
  <2> QED BY <1>7, <2>2, <2>3
<1>10. new.units = UnitsOf(Cardinality(n.external), Cardinality(n.internal))
  BY <1>3, <1>9 DEF Holds
<1> HIDE DEF new
<1>11. \A q \in n.internal : RuleFits(b, q)
  BY <1>1, <1>3, NodeOfShape
<1>12. \A q \in n.external : KidFits(b, q)
  BY <1>1, <1>3, NodeOfShape
<1>13. \E m : /\ m.internal = n.internal /\ m.external = n.external
              /\ m.child_ptr = Allocated(new.units, lvl)
              /\ NodeBecomes(t, b, m, rs)
  <2>1. \A q \in t.node[b].external \ n.external : IsEmpty(t.node[KidOf(b, q)])
    BY <1>3
  <2>2. Holds(new, n.internal, n.external, rs, ks)
    BY <1>3, <1>9
  <2>3. \A q \in n.external :
          ks[q] = IF q \in t.node[b].external THEN KidsOf(t, b)[q] ELSE ZeroNode
    BY <1>3 DEF ks
  <2>4. rs \in [n.internal -> NHI \cup {NULL}]
    BY <1>1, <1>3, NodeOfShape DEF rs
  <2>5. NewBlockFor(t, b, n, new, rs, ks)
    BY <1>3, <1>11, <1>12, <2>1, <2>2, <2>3, <2>4 DEF NewBlockFor
  <2> QED BY <1>4, <2>5, RebuiltTo
<1> QED BY <1>3, <1>10, <1>13 DEF rs, KidGoes

-----------------------------------------------------------------------------
\* The next hop of a rule that is there already is written over.
Overwrites(n, pos) ==
  /\ heap' = [heap EXCEPT ![n.child_ptr].rule[CountOnes(n.internal, pos) + 1] = nhi]
  /\ root' = root

\* A rule that is there gets the next hop, in place.
LEMMA OverwriteRule ==
  ASSUME NEW t, MemoryOK(t), NEW b \in t.paths, NEW pos \in t.node[b].internal,
         nhi \in NHI, NEW n, n = t.node[b], Overwrites(n, pos)
  PROVE  \E rs : NodeBecomes(t, b, n, rs) /\ RuleComes(t, b, n, rs, pos, nhi)
<1> DEFINE p == n.child_ptr
           at == CountOnes(n.internal, pos) + 1
           blk == [heap[p] EXCEPT !.rule[at] = nhi]
           rs == [q \in n.internal |-> IF q = pos THEN nhi ELSE t.rule[b][q]]
<1>1. IsShape(t) /\ HasBlock(t, heap, b)
  BY DEF MemoryOK, InMemory
<1>2. p # NULL /\ p \in DOMAIN heap
      /\ Holds(heap[p], n.internal, n.external, t.rule[b], KidsOf(t, b))
  BY <1>1 DEF HasBlock, IsEmpty
<1>3. heap' = [heap EXCEPT ![p] = blk] /\ root' = root
  BY DEF Overwrites
<1>4. /\ rs \in [n.internal -> NHI \cup {NULL}]
      /\ \A q \in n.internal : rs[q] = IF q = pos THEN nhi ELSE t.rule[b][q]
  BY <1>1, NodeOfShape
<1> HIDE DEF rs
<1>5. Holds(blk, n.internal, n.external, rs, KidsOf(t, b))
  BY <1>2, <1>4, RuleWritten
<1> HIDE DEF blk
<1>6. NodeBecomes(t, b, n, rs)
  BY <1>2, <1>3, <1>4, <1>5, WrittenInPlace
<1>7. n.internal = n.internal \cup {pos}
  OBVIOUS
<1> QED BY <1>4, <1>6, <1>7 DEF RuleComes

\* The pointers of a trie tell nothing of its next hops.
LEMMA SamePtr ==
  ASSUME NEW t, IsShape(t), NEW u, \A c \in t.paths : u.node[c] = t.node[c]
  PROVE  \A c \in t.paths : PtrTo(u, c) = PtrTo(t, c)
BY NodeOfShape DEF PtrTo

\* A node that stays as it is leaves all nodes as they are.
LEMMA SameNode ==
  ASSUME NEW t, IsShape(t), NEW b \in t.paths, NEW rs, Fits(t, b, t.node[b], rs)
  PROVE  LET u == Changed(t, b, t.node[b], rs)
         IN  u.paths = t.paths /\ \A c \in t.paths : u.node[c] = t.node[c]
<1> DEFINE u == Changed(t, b, t.node[b], rs)
<1>1. u.paths = t.paths
  BY PathsStay
<1>2. u.node[b] = t.node[b] /\ \A c \in u.paths : c # b /\ c \in t.paths => u.node[c] = t.node[c]
  BY ChangedNodes
<1> HIDE DEF u
<1>3. u.paths = t.paths /\ \A c \in t.paths : u.node[c] = t.node[c]
  BY <1>1, <1>2
<1> QED BY <1>3 DEF u

\* The first loop of destroy_subtrie changes next hops only.
LEMMA EnterNode ==
  ASSUME NEW t, MemoryOK(t), NEW b \in t.paths, NEW frames, Enter(PtrTo(t, b), frames)
  PROVE  /\ stack' = Append(frames, [node |-> PtrTo(t, b), stride |-> 0])
         /\ root' = root /\ lnode' = lnode /\ DOMAIN heap' = DOMAIN heap
         /\ \A c \in DOMAIN heap : heap'[c].units = heap[c].units
         /\ \E u : /\ IsShape(u) /\ InMemory(u, root', heap', op)
                   /\ u.paths = t.paths
                   /\ \A c \in t.paths : u.node[c] = t.node[c]
<1> DEFINE n == t.node[b]
           p == n.child_ptr
           blk == [heap[p] EXCEPT !.rule = [k \in DOMAIN @ |->
                     IF k <= Cardinality(n.internal) THEN NULL ELSE @[k]]]
           rs == [q \in n.internal |-> NULL]
<1>1. IsShape(t) /\ HasBlock(t, heap, b) /\ InMemory(t, root, heap, op)
  BY DEF MemoryOK, InMemory
<1>2. At(PtrTo(t, b)) = n
  BY AtPtrTo
<1>3. /\ heap' = IF n.internal = {} THEN heap
                 ELSE [heap EXCEPT ![p].rule =
                         [k \in DOMAIN @ |-> IF k <= Cardinality(n.internal) THEN NULL ELSE @[k]]]
      /\ stack' = Append(frames, [node |-> PtrTo(t, b), stride |-> 0])
      /\ root' = root /\ lnode' = lnode
  BY <1>2 DEF Enter, rule_num
<1>4. CASE n.internal = {}
  BY <1>1, <1>3, <1>4
<1>5. CASE n.internal # {}
  <2>1. p # NULL /\ p \in DOMAIN heap
        /\ Holds(heap[p], n.internal, n.external, t.rule[b], KidsOf(t, b))
    BY <1>1, <1>5 DEF HasBlock, IsEmpty
  <2>2. heap' = [heap EXCEPT ![p] = blk]
    BY <1>3, <1>5
  <2>3. rs \in [n.internal -> NHI \cup {NULL}] /\ \A q \in n.internal : rs[q] = NULL
    OBVIOUS
  <2> HIDE DEF rs
  <2>4. Holds(blk, n.internal, n.external, rs, KidsOf(t, b))
    BY <2>1, <2>3, RulesCleared
  <2> HIDE DEF blk
  <2>5. NodeBecomes(t, b, n, rs)
    BY <1>3, <2>1, <2>2, <2>3, <2>4, WrittenInPlace
  <2>6. /\ Fits(t, b, n, rs) /\ IsShape(Changed(t, b, n, rs))
        /\ InMemory(Changed(t, b, n, rs), root', heap', op)
    BY <2>5 DEF NodeBecomes
  <2>7. Changed(t, b, n, rs).paths = t.paths
        /\ \A c \in t.paths : Changed(t, b, n, rs).node[c] = t.node[c]
    BY <1>1, <2>6, SameNode
  <2>8. DOMAIN heap' = DOMAIN heap /\ \A c \in DOMAIN heap : heap'[c].units = heap[c].units
    <3>1. blk.units = heap[p].units
      BY <2>1, <2>4 DEF Holds
    <3> QED BY <2>2, <3>1
  <2> DEFINE u == Changed(t, b, n, rs)
  <2>9. IsShape(u) /\ InMemory(u, root', heap', op) /\ u.paths = t.paths
        /\ \A c \in t.paths : u.node[c] = t.node[c]
    BY <2>6, <2>7
  <2> HIDE DEF u
  <2> QED BY <1>3, <2>8, <2>9
<1> QED BY <1>4, <1>5

\* And when its second loop is done the node goes, and the zeroed children.
LEMMA DropNode ==
  ASSUME NEW t, MemoryOK(t), NEW b \in t.paths, NEW p, p = PtrTo(t, b), NEW n, n = At(p),
         \A pos \in n.external : t.node[KidOf(b, pos)] = ZeroNode,
         Store(p, ZeroNode,
               [c \in DOMAIN heap \ Freed(n, UP_RULE(rule_num(n))) |-> heap[c]])
  PROVE  NodeBecomes(t, b, ZeroNode, [pos \in {} |-> NULL])
<1> DEFINE rs == [pos \in {} |-> NULL]
           hh == [c \in DOMAIN heap \ Freed(n, UP_RULE(rule_num(n))) |-> heap[c]]
<1>1. IsShape(t) /\ n = t.node[b]
  BY AtPtrTo DEF MemoryOK
<1>2. ZeroNode \in Node /\ IsEmpty(ZeroNode) /\ ZeroNode.internal = {}
      /\ ZeroNode.external = {} /\ ZeroNode.child_ptr = NULL
  BY ZeroNodeIsNode DEF ZeroNode
<1>3. rs \in [ZeroNode.internal -> NHI \cup {NULL}]
  BY <1>2
<1>4. Fits(t, b, ZeroNode, rs)
  BY <1>1, <1>2, <1>3 DEF Fits
<1>5. DOMAIN hh = DOMAIN heap \ {t.node[b].child_ptr}
  BY <1>1, FreedBlock
<1>6. \A c \in DOMAIN hh : hh[c] = heap[c]
  OBVIOUS
<1> HIDE DEF hh, rs
<1>7. BlocksFor(t, b, ZeroNode, rs, hh)
  BY <1>2, <1>5, <1>6 DEF BlocksFor
<1>8. Store(PtrTo(t, b), ZeroNode, hh)
  BY DEF hh
<1>9. NodeBecomes(t, b, ZeroNode, rs)
  BY <1>4, <1>7, <1>8, Stored DEF NodeBecomes
<1> QED BY <1>9 DEF rs

-----------------------------------------------------------------------------
(***************************************************************************)
(* The nodes that can be reached from the root are those of t.             *)
(***************************************************************************)
Entry(t, b) == [path |-> b, ptr |-> PtrTo(t, b)]

EntriesAt(t, lvl) == {Entry(t, b) : b \in {c \in t.paths : Len(c) = lvl * STRIDE}}

\* A node is on one of the levels.
LEMMA LevelOfPath ==
  ASSUME NEW b \in NodePath
  PROVE  \E lvl \in Level : Len(b) = lvl * STRIDE
<1>1. Len(b) \in Nat /\ Len(b) <= LENGTH /\ Len(b) % STRIDE = 0
  BY NodePathIs, LengthAssumption
<1>2. PICK j \in Nat : Len(b) = j * STRIDE
  BY <1>1, StrideCount
<1>3. j <= LENGTH \div STRIDE
  BY <1>1, <1>2, StrideSteps
<1>4. LENGTH \div STRIDE \in Nat
  BY LengthAssumption, StrideAssumption
<1> QED BY <1>2, <1>3, <1>4 DEF Level

\* The children of a node that ChildrenOf finds.
LEMMA ChildrenAre ==
  ASSUME NEW t, MemoryOK(t), NEW b \in t.paths
  PROVE  ChildrenOf(Entry(t, b)) = {Entry(t, KidOf(b, pos)) : pos \in t.node[b].external}
<1>1. IsShape(t) /\ At(PtrTo(t, b)) = t.node[b]
  BY AtPtrTo DEF MemoryOK
<1>2. Entry(t, b).path = b /\ Entry(t, b).ptr = PtrTo(t, b)
  BY DEF Entry
<1>3. \A pos \in t.node[b].external :
        next_child(t.node[b], pos) = PtrTo(t, KidOf(b, pos))
  BY <1>1, NextChildPtr
<1>4. ChildrenOf(Entry(t, b)) =
        {[path |-> b \o EnlBits[pos], ptr |-> next_child(t.node[b], pos)] :
           pos \in t.node[b].external}
  BY <1>1, <1>2 DEF ChildrenOf
<1> QED BY <1>3, <1>4 DEF Entry, KidOf

\* The children of a level's nodes are the nodes of the next.
LEMMA EntriesBelow ==
  ASSUME NEW t, MemoryOK(t), NEW lvl \in Nat
  PROVE  UNION {ChildrenOf(x) : x \in EntriesAt(t, lvl)} = EntriesAt(t, lvl + 1)
<1>1. IsShape(t)
  BY DEF MemoryOK
<1>2. (lvl + 1) * STRIDE = lvl * STRIDE + STRIDE /\ lvl * STRIDE \in Nat
      /\ STRIDE \in Nat /\ STRIDE >= 1
  BY StrideSteps, StrideAssumption
<1>3. ASSUME NEW b \in t.paths, Len(b) = lvl * STRIDE, NEW y \in ChildrenOf(Entry(t, b))
      PROVE  y \in EntriesAt(t, lvl + 1)
  <2>1. PICK pos \in t.node[b].external : y = Entry(t, KidOf(b, pos))
    BY ChildrenAre
  <2>2. KidOf(b, pos) \in t.paths /\ KidOf(b, pos) # <<>> /\ Up(KidOf(b, pos)) = b
    BY <1>1, NodeOfShape DEF KidFits
  <2>3. Len(KidOf(b, pos)) = (lvl + 1) * STRIDE
    BY <1>1, <1>2, <1>3, <2>2, NodeOfShape
  <2> QED BY <2>1, <2>2, <2>3 DEF EntriesAt
<1>4. ASSUME NEW y \in EntriesAt(t, lvl + 1)
      PROVE  \E x \in EntriesAt(t, lvl) : y \in ChildrenOf(x)
  <2>1. PICK c \in t.paths : Len(c) = (lvl + 1) * STRIDE /\ y = Entry(t, c)
    BY <1>4 DEF EntriesAt
  <2>2. c # <<>>
    BY <1>2, <2>1, RootPath
  <2>3. /\ Up(c) \in t.paths /\ LastPos(c) \in t.node[Up(c)].external
        /\ KidOf(Up(c), LastPos(c)) = c /\ Len(c) = Len(Up(c)) + STRIDE
    BY <1>1, <2>2, NodeOfShape
  <2>4. Len(Up(c)) = lvl * STRIDE
    <3>1. Len(Up(c)) \in Nat
      BY <1>1, <2>3, NodeOfShape, NodePathIs, LengthAssumption
    <3> QED BY <1>2, <2>1, <2>3, <3>1
  <2>5. y \in ChildrenOf(Entry(t, Up(c)))
    BY <2>1, <2>3, ChildrenAre
  <2> QED BY <2>3, <2>4, <2>5 DEF EntriesAt
<1>5. \A x \in EntriesAt(t, lvl) : \A y \in ChildrenOf(x) : y \in EntriesAt(t, lvl + 1)
  BY <1>3 DEF EntriesAt
<1> QED BY <1>4, <1>5

\* What is reached from the root, level by level, are the nodes of the shape.
LEMMA NodesAre ==
  ASSUME NEW t, MemoryOK(t)
  PROVE  \A lvl \in Level : NodesAt[lvl] = EntriesAt(t, lvl)
<1> DEFINE top == {[path |-> <<>>, ptr |-> Root]}
           g == [lvl \in Level |-> EntriesAt(t, lvl)]
           w == NodesAt
<1>1. IsShape(t)
  BY DEF MemoryOK
<1>2. Level \subseteq Nat /\ 0 \in Level /\ \A lvl \in Level : lvl # 0 => lvl - 1 \in Level
  BY LengthAssumption, StrideAssumption DEF Level
<1>3. EntriesAt(t, 0) = top
  <2>1. \A c \in t.paths : Len(c) = 0 * STRIDE <=> c = <<>>
    <3>1. 0 * STRIDE = 0
      BY StrideAssumption
    <3>2. \A c \in t.paths : c \in Bits
      BY <1>1, NodeOfShape, NodePathIs
    <3> QED BY <3>1, <3>2, EmptySeq, RootPath DEF Bits
  <2>2. {c \in t.paths : Len(c) = 0 * STRIDE} = {<<>>}
    BY <1>1, <2>1 DEF IsShape
  <2>3. Entry(t, <<>>) = [path |-> <<>>, ptr |-> Root]
    BY DEF Entry, PtrTo
  <2> QED BY <2>2, <2>3 DEF EntriesAt
<1>4. \A lvl \in Level :
        g[lvl] = IF lvl = 0 THEN top ELSE UNION {ChildrenOf(x) : x \in g[lvl - 1]}
  <2> TAKE lvl \in Level
  <2>1. CASE lvl = 0
    BY <1>2, <1>3, <2>1
  <2>2. CASE lvl # 0
    <3>1. lvl - 1 \in Level /\ lvl - 1 \in Nat /\ (lvl - 1) + 1 = lvl
      BY <1>2, <2>2
    <3>2. UNION {ChildrenOf(x) : x \in EntriesAt(t, lvl - 1)} = EntriesAt(t, (lvl - 1) + 1)
      BY <3>1, EntriesBelow
    <3> QED BY <2>2, <3>1, <3>2
  <2> QED BY <2>1, <2>2
<1>5. g = [lvl \in Level |-> g[lvl]]
  OBVIOUS
<1>6. g = [lvl \in Level |->
             IF lvl = 0 THEN top ELSE UNION {ChildrenOf(x) : x \in g[lvl - 1]}]
  <2> HIDE DEF g, top
  <2> QED BY <1>4, <1>5, Zenon
<1>7. NodesAt = [lvl \in Level |->
                   IF lvl = 0 THEN {[path |-> <<>>, ptr |-> Root]}
                   ELSE UNION {ChildrenOf(x) : x \in NodesAt[lvl - 1]}]
  <2> HIDE DEF g
  <2>1. g = [lvl \in Level |->
               IF lvl = 0 THEN {[path |-> <<>>, ptr |-> Root]}
               ELSE UNION {ChildrenOf(x) : x \in g[lvl - 1]}]
    BY <1>6 DEF top
  <2> QED BY <2>1, Zenon DEF NodesAt
<1>8. \A lvl \in Level :
        w[lvl] = IF lvl = 0 THEN top ELSE UNION {ChildrenOf(x) : x \in w[lvl - 1]}
  <2>1. w = [lvl \in Level |->
               IF lvl = 0 THEN top ELSE UNION {ChildrenOf(x) : x \in w[lvl - 1]}]
    BY <1>7
  <2> HIDE DEF w, top
  <2> QED BY <2>1
<1> HIDE DEF w, g, top
<1>9. \A lvl \in Level : w[lvl] = g[lvl]
  <2> DEFINE S == {k \in Nat : k \in Level => w[k] = g[k]}
  <2>1. 0 \in S
    BY <1>2, <1>4, <1>8
  <2>2. ASSUME NEW k \in S PROVE k + 1 \in S
    <3>1. k \in Nat /\ k + 1 \in Nat /\ k + 1 # 0 /\ (k + 1) - 1 = k
      OBVIOUS
    <3> SUFFICES ASSUME k + 1 \in Level PROVE w[k + 1] = g[k + 1]
      BY <3>1
    <3>2. k \in Level
      BY <1>2, <3>1
    <3>3. w[k] = g[k]
      BY <3>2
    <3> QED BY <1>4, <1>8, <3>1, <3>3
  <2>3. S \subseteq Nat
    OBVIOUS
  <2> HIDE DEF S
  <2>4. S = Nat
    BY <2>1, <2>2, <2>3, NatIsClosure
  <2> QED BY <1>2, <2>4 DEF S
<1> QED BY <1>9 DEF w, g

\* So are all that are reached, at the pointers the shape tells.
LEMMA ReachableAre ==
  ASSUME NEW t, MemoryOK(t)
  PROVE  /\ Reachable = {Entry(t, b) : b \in t.paths}
         /\ \A b \in t.paths : PointerTo(b, Reachable) = PtrTo(t, b)
<1>1. IsShape(t)
  BY DEF MemoryOK
<1>2. Reachable = UNION {EntriesAt(t, lvl) : lvl \in Level}
  BY NodesAre DEF Reachable
<1>3. ASSUME NEW b \in t.paths PROVE \E lvl \in Level : Entry(t, b) \in EntriesAt(t, lvl)
  <2>1. PICK lvl \in Level : Len(b) = lvl * STRIDE
    BY <1>1, LevelOfPath, NodeOfShape
  <2> QED BY <2>1 DEF EntriesAt
<1>4. \A lvl \in Level : \A x \in EntriesAt(t, lvl) : x \in {Entry(t, b) : b \in t.paths}
  BY DEF EntriesAt
<1>5. Reachable = {Entry(t, b) : b \in t.paths}
  BY <1>2, <1>3, <1>4
<1>6. ASSUME NEW b \in t.paths PROVE PointerTo(b, Reachable) = PtrTo(t, b)
  <2> DEFINE found == {x \in Reachable : x.path = b}
  <2>1. \A c \in t.paths : Entry(t, c).path = c /\ Entry(t, c).ptr = PtrTo(t, c)
    BY DEF Entry
  <2>2. found = {Entry(t, b)}
    BY <1>5, <2>1
  <2>3. PointerTo(b, Reachable) = IF found = {} THEN NULL ELSE (CHOOSE x \in found : TRUE).ptr
    BY DEF PointerTo
  <2> HIDE DEF found
  <2>4. (CHOOSE x \in found : TRUE) = Entry(t, b)
    BY <2>2
  <2> QED BY <2>1, <2>2, <2>3, <2>4
<1> QED BY <1>5, <1>6

\* So what can be read there is the trie of t.
LEMMA TrieInMemoryIs ==
  ASSUME NEW t, MemoryOK(t)
  PROVE  TrieInMemory = TrieOf(t)
<1> DEFINE rules == UNION {{[p   |-> x.path \o InlBits[pos],
                             nhi |-> heap[At(x.ptr).child_ptr].rule
                                       [CountOnes(At(x.ptr).internal, pos) + 1]] :
                              pos \in At(x.ptr).internal} : x \in Reachable}
           RuleAt(b, pos) == [p |-> RuleOf(b, pos), nhi |-> t.rule[b][pos]]
           f == TrieOf(t).inl
           g == [p \in {r.p : r \in rules} |-> (CHOOSE r \in rules : r.p = p).nhi]
<1>1. IsShape(t) /\ Reachable = {Entry(t, b) : b \in t.paths}
  BY ReachableAre DEF MemoryOK
<1>2. TrieInMemory = [inl |-> g, enl |-> {x.path : x \in Reachable} \ {<<>>}]
  BY DEF TrieInMemory
<1>3. {x.path : x \in Reachable} = t.paths
  <2> DEFINE E(b) == Entry(t, b)
  <2>1. \A b : E(b).path = b
    BY DEF Entry
  <2>2. Reachable = {E(b) : b \in t.paths}
    BY <1>1
  <2> HIDE DEF E
  <2>3. \A b \in t.paths : b \in {x.path : x \in Reachable}
    BY <2>1, <2>2
  <2>4. \A b \in {x.path : x \in Reachable} : b \in t.paths
    BY <2>1, <2>2
  <2> QED BY <2>3, <2>4
<1>4. \A r : r \in rules <=> \E b \in t.paths : \E pos \in t.node[b].internal : r = RuleAt(b, pos)
  <2>1. ASSUME NEW b \in t.paths
        PROVE  {[p   |-> Entry(t, b).path \o InlBits[pos],
                 nhi |-> heap[At(Entry(t, b).ptr).child_ptr].rule
                           [CountOnes(At(Entry(t, b).ptr).internal, pos) + 1]] :
                  pos \in At(Entry(t, b).ptr).internal} =
               {RuleAt(b, pos) : pos \in t.node[b].internal}
    <3> DEFINE n == t.node[b]
    <3>1. Entry(t, b).path = b /\ At(Entry(t, b).ptr) = n
      BY AtPtrTo DEF Entry
    <3>2. ASSUME NEW pos \in n.internal
          PROVE  heap[n.child_ptr].rule[CountOnes(n.internal, pos) + 1] = t.rule[b][pos]
      <4>1. HasBlock(t, heap, b)
        BY DEF MemoryOK, InMemory
      <4>2. Holds(heap[n.child_ptr], n.internal, n.external, t.rule[b], KidsOf(t, b))
        BY <4>1 DEF HasBlock, IsEmpty
      <4> QED BY <4>2 DEF Holds
    <3> HIDE DEF n
    <3>3. {[p   |-> Entry(t, b).path \o InlBits[pos],
            nhi |-> heap[At(Entry(t, b).ptr).child_ptr].rule
                      [CountOnes(At(Entry(t, b).ptr).internal, pos) + 1]] :
             pos \in At(Entry(t, b).ptr).internal} =
          {[p |-> b \o InlBits[pos],
            nhi |-> heap[n.child_ptr].rule[CountOnes(n.internal, pos) + 1]] : pos \in n.internal}
      BY <3>1
    <3>4. \A pos \in n.internal :
            [p |-> b \o InlBits[pos],
             nhi |-> heap[n.child_ptr].rule[CountOnes(n.internal, pos) + 1]] = RuleAt(b, pos)
      BY <3>2 DEF RuleOf
    <3> HIDE DEF RuleAt
    <3> QED BY <3>3, <3>4 DEF n
  <2> HIDE DEF RuleAt
  <2> DEFINE RulesIn(x) == {[p   |-> x.path \o InlBits[pos],
                             nhi |-> heap[At(x.ptr).child_ptr].rule
                                       [CountOnes(At(x.ptr).internal, pos) + 1]] :
                              pos \in At(x.ptr).internal}
  <2>2. \A b \in t.paths : RulesIn(Entry(t, b)) = {RuleAt(b, pos) : pos \in t.node[b].internal}
    BY <2>1
  <2>3. rules = UNION {RulesIn(x) : x \in Reachable}
    OBVIOUS
  <2> HIDE DEF RulesIn, rules, RuleAt
  <2>4. \A r : r \in rules <=> \E b \in t.paths : r \in RulesIn(Entry(t, b))
    BY <1>1, <2>3
  <2>5. \A b \in t.paths : \A r :
          r \in RulesIn(Entry(t, b)) <=> \E pos \in t.node[b].internal : r = RuleAt(b, pos)
    BY <2>2
  <2> QED BY <2>4, <2>5
<1>5. \A b, pos : RuleAt(b, pos).p = RuleOf(b, pos) /\ RuleAt(b, pos).nhi = t.rule[b][pos]
  OBVIOUS
<1> HIDE DEF rules, RuleAt
<1>6. /\ DOMAIN f = {p \in Prefix : RuleIsIn(t, p)} /\ f = [p \in DOMAIN f |-> f[p]]
      /\ \A p \in Prefix : RuleIsIn(t, p) => f[p] = t.rule[NodeOf(p)][RulePos(p)]
  BY TrieOfIs
<1>7. ASSUME NEW p \in Prefix, RuleIsIn(t, p)
      PROVE  RuleAt(NodeOf(p), RulePos(p)) \in rules /\ RuleOf(NodeOf(p), RulePos(p)) = p
  BY <1>4, <1>7, RuleSplit DEF RuleIsIn
<1>8. ASSUME NEW r \in rules
      PROVE  r.p \in Prefix /\ RuleIsIn(t, r.p) /\ r.nhi = t.rule[NodeOf(r.p)][RulePos(r.p)]
  <2>1. PICK b \in t.paths : \E pos \in t.node[b].internal : r = RuleAt(b, pos)
    BY <1>4
  <2>2. PICK pos \in t.node[b].internal : r = RuleAt(b, pos)
    BY <2>1
  <2>3. RuleFits(b, pos)
    BY <1>1, NodeOfShape
  <2> QED BY <1>5, <2>2, <2>3 DEF RuleFits, RuleIsIn
<1> DEFINE D == {r.p : r \in rules}
<1>9. D = DOMAIN f
  BY <1>5, <1>6, <1>7, <1>8
<1>10. ASSUME NEW p \in D PROVE g[p] = f[p]
  <2> DEFINE r == CHOOSE x \in rules : x.p = p
  <2>1. \E x \in rules : x.p = p
    OBVIOUS
  <2>2. r \in rules /\ r.p = p
    BY <2>1
  <2>3. g[p] = r.nhi
    OBVIOUS
  <2> HIDE DEF r, g
  <2> QED BY <1>6, <1>8, <2>2, <2>3
<1>11. g = f
  <2>1. DOMAIN g = D /\ g = [p \in D |-> g[p]]
    OBVIOUS
  <2> HIDE DEF g, f, D
  <2> QED BY <1>6, <1>9, <1>10, <2>1
<1>12. TrieOf(t) = [inl |-> f, enl |-> t.paths \ {<<>>}]
  BY TrieOfIs
<1> HIDE DEF g, f
<1> QED BY <1>2, <1>3, <1>11, <1>12

-----------------------------------------------------------------------------
(***************************************************************************)
(* Paths on the way to a prefix.                                           *)
(***************************************************************************)

\* The nodes above a node are there, with a bit for the next.
LEMMA PathsClosed ==
  ASSUME NEW t, IsShape(t), NEW a \in Prefix, NEW k \in Nat, k * STRIDE <= Len(a),
         Along(a, k) \in t.paths
  PROVE  /\ \A j \in 0 .. k : Along(a, j) \in t.paths
         /\ \A j \in 0 .. k - 1 :
              /\ Along(a, j + 1) # <<>>
              /\ Up(Along(a, j + 1)) = Along(a, j)
              /\ LastPos(Along(a, j + 1)) \in t.node[Along(a, j)].external
              /\ KidOf(Along(a, j), LastPos(Along(a, j + 1))) = Along(a, j + 1)
<1>1. \A j \in 0 .. k : j * STRIDE <= Len(a)
  BY OnTheWay
<1>2. ASSUME NEW j \in 0 .. k - 1, Along(a, j + 1) \in t.paths
      PROVE  /\ Along(a, j + 1) # <<>>
             /\ Up(Along(a, j + 1)) = Along(a, j)
             /\ LastPos(Along(a, j + 1)) \in t.node[Along(a, j)].external
             /\ KidOf(Along(a, j), LastPos(Along(a, j + 1))) = Along(a, j + 1)
             /\ Along(a, j) \in t.paths
  <2>1. j \in Nat /\ j + 1 \in 0 .. k
    OBVIOUS
  <2>2. (j + 1) * STRIDE <= Len(a)
    BY <1>1, <2>1
  <2>3. Along(a, j + 1) # <<>> /\ Up(Along(a, j + 1)) = Along(a, j)
    BY <2>1, <2>2, NextOnTheWay
  <2> QED BY <1>2, <2>3, NodeOfShape
<1> DEFINE S == {d \in Nat : d <= k => Along(a, k - d) \in t.paths}
<1>3. 0 \in S
  <2>1. k - 0 = k
    OBVIOUS
  <2> QED BY <2>1
<1>4. ASSUME NEW d \in S PROVE d + 1 \in S
  <2> SUFFICES ASSUME d + 1 <= k PROVE Along(a, k - (d + 1)) \in t.paths
    OBVIOUS
  <2>1. k - (d + 1) \in 0 .. k - 1 /\ (k - (d + 1)) + 1 = k - d /\ d <= k
    OBVIOUS
  <2>2. Along(a, k - d) \in t.paths
    BY <2>1
  <2> QED BY <1>2, <2>1, <2>2
<1>5. S \subseteq Nat
  OBVIOUS
<1> HIDE DEF S
<1>6. S = Nat
  BY <1>3, <1>4, <1>5, NatIsClosure
<1>7. ASSUME NEW j \in 0 .. k PROVE Along(a, j) \in t.paths
  <2>1. k - j \in S /\ k - j <= k /\ k - (k - j) = j
    BY <1>6
  <2> QED BY <2>1 DEF S
<1> QED BY <1>2, <1>7

\* Two nodes on the way are told by their level.
LEMMA WayIsUnique ==
  ASSUME NEW a \in Prefix, NEW j \in Nat, j * STRIDE <= Len(a),
         NEW k \in Nat, k * STRIDE <= Len(a)
  PROVE  Along(a, j) = Along(a, k) <=> j = k
<1>1. Len(Along(a, j)) = j * STRIDE /\ Len(Along(a, k)) = k * STRIDE
  BY OnTheWay
<1>2. j * STRIDE = k * STRIDE => j = k
  <2>1. STRIDE \in Nat /\ STRIDE > 0 /\ 0 \in 0 .. STRIDE - 1
    BY StrideAssumption
  <2>2. (j * STRIDE + 0) \div STRIDE = j /\ (k * STRIDE + 0) \div STRIDE = k
    BY <2>1, DivModIs
  <2>3. j * STRIDE \in Int /\ k * STRIDE \in Int
    BY StrideSteps
  <2> QED BY <2>2, <2>3
<1> QED BY <1>1, <1>2

\* The node above a node on the way.
LEMMA UpOnTheWay ==
  ASSUME NEW a \in Prefix, NEW j \in Nat, j * STRIDE <= Len(a), j # 0
  PROVE  /\ Along(a, j) # <<>>
         /\ Up(Along(a, j)) = Along(a, j - 1)
         /\ (j - 1) * STRIDE <= Len(a)
<1>1. j - 1 \in Nat /\ (j - 1) + 1 = j
  OBVIOUS
<1> QED BY <1>1, NextOnTheWay

\* A trie of one node.
LEMMA OnlyRoot ==
  ASSUME NEW t, IsShape(t), t.node[<<>>] = ZeroNode
  PROVE  t.paths = {<<>>} /\ TrieOf(t) = EmptyTrie
<1>1. ASSUME NEW c \in t.paths, c # <<>> PROVE FALSE
  <2>1. c \in NodePath /\ c \in Prefix
    BY NodeOfShape DEF NodePath
  <2>2. Len(c) \in Nat /\ Len(c) % STRIDE = 0 /\ c \in Bits
    BY <2>1, NodePathIs, BitsLen
  <2>3. PICK k \in Nat : Len(c) = k * STRIDE
    BY <2>2, StrideCount
  <2>4. Along(c, k) = c
    BY <2>2, <2>3, TakeAll DEF Along
  <2>5. k # 0
    <3>1. 0 * STRIDE = 0 /\ (Len(c) = 0 => c = <<>>)
      BY <2>2, StrideAssumption, EmptySeq DEF Bits
    <3> QED BY <1>1, <2>3, <3>1
  <2>6. k * STRIDE <= Len(c) /\ 0 \in 0 .. k - 1 /\ 0 + 1 = 1
    BY <2>2, <2>3, <2>5
  <2>7. LastPos(Along(c, 1)) \in t.node[Along(c, 0)].external
    BY <2>1, <2>4, <2>6, PathsClosed
  <2>8. Along(c, 0) = <<>>
    <3>1. 0 * STRIDE = 0
      BY StrideAssumption
    <3>2. Len(Along(c, 0)) = 0 /\ Along(c, 0) \in Bits
      BY <2>1, <2>2, <3>1, OnTheWay
    <3> QED BY <3>2, EmptySeq DEF Bits
  <2> QED BY <2>7, <2>8 DEF ZeroNode
<1>2. t.paths = {<<>>}
  BY <1>1 DEF IsShape
<1>3. \A p \in Prefix : ~ RuleIsIn(t, p)
  BY <1>2 DEF RuleIsIn, ZeroNode
<1>4. DOMAIN TrieOf(t).inl = {} /\ TrieOf(t).enl = {}
      /\ TrieOf(t).inl = [p \in DOMAIN TrieOf(t).inl |-> TrieOf(t).inl[p]]
      /\ TrieOf(t) = [inl |-> TrieOf(t).inl, enl |-> TrieOf(t).enl]
  BY <1>2, <1>3, TrieOfIs
<1>5. TrieOf(t).inl = EmptyTable
  <2> DEFINE f == TrieOf(t).inl
  <2> HIDE DEF f
  <2>1. DOMAIN f = {} /\ f = [p \in DOMAIN f |-> f[p]]
    BY <1>4 DEF f
  <2>2. f = [p \in {} |-> NULL]
    BY <2>1
  <2> QED BY <2>2 DEF f, EmptyTable
<1> QED BY <1>2, <1>4, <1>5 DEF EmptyTrie

\* The table of a trie is one if its next hops are.
LEMMA TrieOfIsTrie ==
  ASSUME NEW t, IsShape(t), IsTable(TrieOf(t).inl)
  PROVE  IsTrie(TrieOf(t))
<1>1. TrieOf(t) = [inl |-> TrieOf(t).inl, enl |-> TrieOf(t).enl]
      /\ TrieOf(t).enl = t.paths \ {<<>>}
  BY TrieOfIs
<1>2. TrieOf(t).enl \subseteq Prefix
  BY <1>1, NodeOfShape DEF NodePath
<1> QED BY <1>1, <1>2 DEF IsTrie

\* A child more, or less, is a node more, or less.
LEMMA KidMade ==
  ASSUME NEW t, IsShape(t), NEW b \in t.paths, NEW n, NEW rs, Fits(t, b, n, rs),
         NEW pos, KidComes(t, b, n, pos), rs = t.rule[b]
  PROVE  TrieOf(Changed(t, b, n, rs)) =
           [inl |-> TrieOf(t).inl, enl |-> TrieOf(t).enl \cup {KidOf(b, pos)}]
<1> DEFINE u == Changed(t, b, n, rs)
           old == t.node[b].external
<1>0. n.internal = t.node[b].internal /\ n.external = t.node[b].external \cup {pos}
  BY DEF KidComes
<1>1. u.paths = (t.paths \ {KidOf(b, q) : q \in old \ n.external})
                  \cup {KidOf(b, q) : q \in n.external \ old}
  BY PathsAre
<1>2. KidOf(b, pos) # <<>> /\ \A q \in old : KidOf(b, q) \in t.paths
  BY <1>0, NodeOfShape DEF Fits, KidFits
<1>3. u.paths = t.paths \cup {KidOf(b, pos)}
  <2> HIDE DEF u
  <2>1. old \ n.external = {} /\ n.external \ old \subseteq {pos}
        /\ (pos \in old \/ pos \in n.external \ old)
    BY <1>0
  <2> DEFINE K(q) == KidOf(b, q)
  <2>2. u.paths = t.paths \cup {K(q) : q \in n.external \ old}
    BY <1>1, <2>1
  <2>3. \A q \in old : K(q) \in t.paths
    BY <1>2
  <2> HIDE DEF K
  <2>4. u.paths = t.paths \cup {K(pos)}
    BY <2>1, <2>2, <2>3
  <2> QED BY <2>4 DEF K
<1>4. TrieOf(u).inl = TrieOf(t).inl
  BY <1>0, RulesStay
<1>5. TrieOf(u) = [inl |-> TrieOf(u).inl, enl |-> u.paths \ {<<>>}]
      /\ TrieOf(t).enl = t.paths \ {<<>>}
  BY TrieOfIs
<1> HIDE DEF u
<1>6. u.paths \ {<<>>} = TrieOf(t).enl \cup {KidOf(b, pos)}
  BY <1>2, <1>3, <1>5
<1> QED BY <1>4, <1>5, <1>6 DEF u

\* Without an emptied child the trie has one node less, and the same rules.
LEMMA KidTaken ==
  ASSUME NEW t, IsShape(t), NEW b \in t.paths, NEW n, NEW rs, Fits(t, b, n, rs),
         NEW pos \in t.node[b].external, KidGoes(t, b, n, pos), rs = t.rule[b]
  PROVE  TrieOf(Changed(t, b, n, rs)) =
           [inl |-> TrieOf(t).inl, enl |-> TrieOf(t).enl \ {KidOf(b, pos)}]
<1> DEFINE u == Changed(t, b, n, rs)
           old == t.node[b].external
<1>0. n.internal = t.node[b].internal /\ n.external = t.node[b].external \ {pos}
  BY DEF KidGoes
<1>1. u.paths = (t.paths \ {KidOf(b, q) : q \in old \ n.external})
                  \cup {KidOf(b, q) : q \in n.external \ old}
  BY PathsAre
<1>2. old \ n.external = {pos} /\ n.external \ old = {}
  BY <1>0
<1>3. u.paths = t.paths \ {KidOf(b, pos)}
  BY <1>1, <1>2
<1>4. TrieOf(u).inl = TrieOf(t).inl
  BY <1>0, RulesStay
<1>5. TrieOf(u) = [inl |-> TrieOf(u).inl, enl |-> u.paths \ {<<>>}]
      /\ TrieOf(t).enl = t.paths \ {<<>>}
  BY TrieOfIs
<1> HIDE DEF u
<1>6. u.paths \ {<<>>} = TrieOf(t).enl \ {KidOf(b, pos)}
  BY <1>3, <1>5
<1> QED BY <1>4, <1>5, <1>6 DEF u

-----------------------------------------------------------------------------
(***************************************************************************)
(* What update_nodes takes away, one turn after the other.                 *)
(***************************************************************************)

\* A node is empty if no rule and no child of the trie is in it.
LEMMA EmptyNode ==
  ASSUME NEW t, IsShape(t), NEW b \in t.paths
  PROVE  IsEmpty(t.node[b]) <=> /\ \A q \in DOMAIN TrieOf(t).inl : NodeOf(q) # b
                                /\ \A c \in TrieOf(t).enl : Up(c) # b
<1>1. DOMAIN TrieOf(t).inl = {p \in Prefix : RuleIsIn(t, p)}
      /\ TrieOf(t).enl = t.paths \ {<<>>}
  BY TrieOfIs
<1>2. ASSUME IsEmpty(t.node[b])
      PROVE  /\ \A q \in DOMAIN TrieOf(t).inl : NodeOf(q) # b
             /\ \A c \in TrieOf(t).enl : Up(c) # b
  <2>1. t.node[b].internal = {} /\ t.node[b].external = {}
    BY <1>2 DEF IsEmpty
  <2>2. \A q \in DOMAIN TrieOf(t).inl : NodeOf(q) # b
    BY <1>1, <2>1 DEF RuleIsIn
  <2>3. \A c \in t.paths \ {<<>>} : LastPos(c) \in t.node[Up(c)].external
    BY DEF IsShape
  <2> QED BY <1>1, <2>1, <2>2, <2>3
<1>3. ASSUME \A q \in DOMAIN TrieOf(t).inl : NodeOf(q) # b,
             \A c \in TrieOf(t).enl : Up(c) # b
      PROVE  IsEmpty(t.node[b])
  <2>1. ASSUME NEW pos \in t.node[b].internal PROVE FALSE
    <3>1. RuleOf(b, pos) \in Prefix /\ NodeOf(RuleOf(b, pos)) = b
          /\ RulePos(RuleOf(b, pos)) = pos
      BY NodeOfShape DEF RuleFits
    <3>2. RuleOf(b, pos) \in DOMAIN TrieOf(t).inl
      BY <1>1, <3>1 DEF RuleIsIn
    <3> QED BY <1>3, <3>1, <3>2
  <2>2. ASSUME NEW pos \in t.node[b].external PROVE FALSE
    <3>1. KidOf(b, pos) \in t.paths /\ KidOf(b, pos) # <<>> /\ Up(KidOf(b, pos)) = b
      BY NodeOfShape DEF KidFits
    <3> QED BY <1>1, <1>3, <3>1
  <2> QED BY <2>1, <2>2 DEF IsEmpty
<1> QED BY <1>2, <1>3

\* So for the trie w without the rule a and the child on the way to it, the
\* node of the way is empty as Emptied says.
LEMMA EmptiedIs ==
  ASSUME NEW t, IsShape(t), NEW a \in Prefix, NEW k \in Nat, k * STRIDE <= Len(a),
         Along(a, k) \in t.paths, NEW w, IsTrie(w), NEW X,
         TrieOf(t).inl = Remove(w.inl, a), TrieOf(t).enl = w.enl \ X,
         \A c \in w.enl : Len(c) = (k + 1) * STRIDE =>
           (c \in X <=> (k + 1) * STRIDE <= Len(a) /\ c = Along(a, k + 1))
  PROVE  IsEmpty(t.node[Along(a, k)]) <=> Emptied(w, a, k * STRIDE)
<1> DEFINE b == Along(a, k)
<1>1. DOMAIN TrieOf(t).inl = DOMAIN w.inl \ {a}
  BY DEF Remove
<1>2. /\ TrieOf(t).enl = t.paths \ {<<>>}
      /\ w.enl \subseteq Prefix
      /\ (k + 1) * STRIDE = k * STRIDE + STRIDE /\ k * STRIDE \in Nat
      /\ b \in Bits /\ Len(b) = k * STRIDE /\ STRIDE \in Nat
      /\ a \in Bits /\ Len(a) \in Nat
  BY TrieOfIs, OnTheWay, StrideSteps, StrideAssumption, PrefixIsBits, BitsLen DEF IsTrie
<1>3. ASSUME NEW c \in w.enl
      PROVE  /\ Len(c) = k * STRIDE + STRIDE /\ Covers(b, c) => Up(c) = b
             /\ Covers(c, a) /\ Len(c) = k * STRIDE + STRIDE <=>
                  (k + 1) * STRIDE <= Len(a) /\ c = Along(a, k + 1)
  <2>1. Len(c) \in Nat /\ c \in Bits
    BY <1>2, PrefixIsBits, BitsLen
  <2>2. ASSUME Len(c) = k * STRIDE + STRIDE, Covers(b, c) PROVE Up(c) = b
    <3>1. Len(c) - STRIDE = Len(b)
      BY <1>2, <2>2
    <3> QED BY <2>2, <3>1 DEF Covers, Up
  <2>3. ASSUME (k + 1) * STRIDE <= Len(a)
        PROVE  Len(Along(a, k + 1)) = (k + 1) * STRIDE
    BY <2>3, OnTheWay
  <2> QED BY <1>2, <2>1, <2>2, <2>3 DEF Covers, Along
<1>4. ASSUME NEW c \in TrieOf(t).enl, Up(c) = b
      PROVE  Len(c) = k * STRIDE + STRIDE /\ Covers(b, c)
  <2>1. c \in t.paths /\ c # <<>> /\ c \in NodePath
    BY <1>2, NodeOfShape
  <2>2. Len(c) = Len(Up(c)) + STRIDE
    BY <2>1, NodeOfShape
  <2>3. Len(c) - STRIDE = Len(b) /\ Len(b) <= Len(c)
    BY <1>2, <1>4, <2>2
  <2> QED BY <1>2, <1>4, <2>2, <2>3 DEF Covers, Up
<1>5. (\A c \in TrieOf(t).enl : Up(c) # b) <=> ChildrenLeft(w, a, k * STRIDE) = {}
  <2>1. ASSUME NEW c \in TrieOf(t).enl, Up(c) = b
        PROVE  c \in ChildrenLeft(w, a, k * STRIDE)
    <3>1. Len(c) = k * STRIDE + STRIDE /\ Covers(b, c) /\ c \in w.enl /\ c \notin X
      BY <1>4, <2>1
    <3>2. ~ Covers(c, a)
      BY <1>2, <1>3, <3>1
    <3> QED BY <3>1, <3>2 DEF ChildrenLeft, Along
  <2>2. ASSUME NEW c \in ChildrenLeft(w, a, k * STRIDE)
        PROVE  c \in TrieOf(t).enl /\ Up(c) = b
    <3>1. c \in w.enl /\ Len(c) = k * STRIDE + STRIDE /\ Covers(b, c) /\ ~ Covers(c, a)
      BY <2>2 DEF ChildrenLeft, Along
    <3>2. c \notin X
      BY <1>2, <1>3, <3>1
    <3> QED BY <1>3, <3>1, <3>2
  <2> QED BY <2>1, <2>2
<1>6. (\A q \in DOMAIN TrieOf(t).inl : NodeOf(q) # b) <=> RulesLeft(w, a, k * STRIDE) = {}
  BY <1>1 DEF RulesLeft, Along
<1> QED BY <1>5, <1>6, EmptyNode DEF Emptied

\* No whole number of strides is between two that follow each other.
LEMMA NoStrideBetween ==
  ASSUME NEW k \in Nat, NEW m \in Nat, m % STRIDE = 0, k * STRIDE < m
  PROVE  (k + 1) * STRIDE <= m
<1>1. PICK j \in Nat : m = j * STRIDE
  BY StrideCount
<1>2. STRIDE \in Nat
  BY StrideAssumption
<1>3. k + 1 <= j
  <2> SUFFICES ASSUME j <= k PROVE FALSE
    OBVIOUS
  <2>1. j * STRIDE <= k * STRIDE
    BY <1>2, ScaleOrder
  <2> QED BY <1>1, <1>2, <2>1, StrideSteps
<1> QED BY <1>1, <1>2, <1>3, ScaleOrder

\* The depth where node_need_to_del is set, from one turn to the next.
LEMMA NeedToDelStep ==
  ASSUME NEW w, NEW a \in Prefix, NEW k \in Nat, k * STRIDE <= Len(a)
  PROVE  k * STRIDE \in NeedToDel(w, a) <=>
           /\ Emptied(w, a, k * STRIDE)
           /\ (k + 1) * STRIDE <= Len(a) => (k + 1) * STRIDE \in NeedToDel(w, a)
<1> DEFINE m == k * STRIDE
           n == (k + 1) * STRIDE
<1>1. /\ m \in Nat /\ n \in Nat /\ n = m + STRIDE /\ STRIDE \in Nat /\ STRIDE >= 1
      /\ m % STRIDE = 0 /\ n % STRIDE = 0 /\ Len(a) \in Nat
  <2>1. k + 1 \in Nat
    OBVIOUS
  <2>2. m \in Nat /\ m % STRIDE = 0 /\ n = m + STRIDE
    BY StrideSteps
  <2>3. n \in Nat /\ n % STRIDE = 0
    BY <2>1, StrideSteps
  <2> QED BY <2>2, <2>3, StrideAssumption, PrefixIsBits, BitsLen
<1>2. \A d \in Nat : d % STRIDE = 0 /\ m < d => n <= d
  BY NoStrideBetween
<1>3. \A d : d \in NeedToDel(w, a) <=>
        d \in 0 .. Len(a) /\ d % STRIDE = 0
        /\ \A j \in d .. Len(a) : j % STRIDE = 0 => Emptied(w, a, j)
  BY DEF NeedToDel
<1> HIDE DEF m, n
<1>4. ASSUME m \in NeedToDel(w, a)
      PROVE  Emptied(w, a, m) /\ (n <= Len(a) => n \in NeedToDel(w, a))
  <2>1. \A j \in m .. Len(a) : j % STRIDE = 0 => Emptied(w, a, j)
    BY <1>3, <1>4
  <2>2. m \in m .. Len(a) /\ \A j \in n .. Len(a) : j \in m .. Len(a)
    BY <1>1 DEF m
  <2>3. n <= Len(a) => n \in 0 .. Len(a)
    BY <1>1
  <2> QED BY <1>1, <1>3, <2>1, <2>2, <2>3
<1>5. ASSUME Emptied(w, a, m), n <= Len(a) => n \in NeedToDel(w, a)
      PROVE  m \in NeedToDel(w, a)
  <2>1. ASSUME NEW j \in m .. Len(a), j % STRIDE = 0 PROVE Emptied(w, a, j)
    <3>1. CASE j = m
      BY <1>5, <3>1
    <3>2. CASE j # m
      <4>1. n <= j /\ n <= Len(a)
        BY <1>1, <1>2, <2>1, <3>2
      <4>2. j \in n .. Len(a)
        BY <1>1, <4>1
      <4> QED BY <1>3, <1>5, <2>1, <4>1, <4>2
    <3> QED BY <3>1, <3>2
  <2>2. m \in 0 .. Len(a)
    BY <1>1 DEF m
  <2> QED BY <1>1, <1>3, <2>1, <2>2
<1> QED BY <1>4, <1>5 DEF m, n

\* Of the nodes below the k-th of the way the next one on it may be gone.
LEMMA GoneTells ==
  ASSUME NEW w, NEW a \in Prefix, NEW n \in Nat, n * STRIDE <= Len(a),
         Len(a) < (n + 1) * STRIDE, NEW k \in 0 .. n, NEW c,
         Len(c) = (k + 1) * STRIDE
  PROVE  c \in GoneFrom(w, a, n, k + 1) <=>
           /\ (k + 1) * STRIDE <= Len(a) /\ c = Along(a, k + 1)
           /\ (k + 1) * STRIDE \in NeedToDel(w, a)
<1>1. /\ n * STRIDE \in Nat /\ (k + 1) * STRIDE \in Nat /\ (n + 1) * STRIDE \in Nat
      /\ STRIDE \in Nat /\ STRIDE > 0 /\ Len(a) \in Nat
  BY StrideSteps, StrideAssumption, PrefixIsBits, BitsLen
<1>2. ASSUME NEW j \in k + 1 .. n, c = Along(a, j) PROVE j = k + 1
  <2>1. j \in Nat /\ k + 1 \in Nat
    OBVIOUS
  <2>2. j * STRIDE <= n * STRIDE /\ j * STRIDE \in Nat
    BY <1>1, <2>1, ScaleOrder, StrideSteps
  <2>3. j * STRIDE <= Len(a)
    BY <1>1, <2>2
  <2>4. Len(Along(a, j)) = j * STRIDE
    BY <2>1, <2>3, OnTheWay
  <2>5. (k + 1) * STRIDE <= Len(a) /\ Along(a, k + 1) = c
    BY <1>2, <2>3, <2>4 DEF Along
  <2> QED BY <1>2, <2>1, <2>3, <2>5, WayIsUnique
<1>3. ASSUME (k + 1) * STRIDE <= Len(a) PROVE k + 1 \in k + 1 .. n
  <2> SUFFICES ASSUME n + 1 <= k + 1 PROVE FALSE
    OBVIOUS
  <2>1. (n + 1) * STRIDE <= (k + 1) * STRIDE
    BY <1>1, ScaleOrder
  <2> QED BY <1>1, <1>3, <2>1
<1>4. ASSUME c \in GoneFrom(w, a, n, k + 1)
      PROVE  /\ (k + 1) * STRIDE <= Len(a) /\ c = Along(a, k + 1)
             /\ (k + 1) * STRIDE \in NeedToDel(w, a)
  <2>1. PICK j \in k + 1 .. n : c = Along(a, j) /\ j * STRIDE \in NeedToDel(w, a)
    BY <1>4 DEF GoneFrom
  <2>2. j = k + 1
    BY <1>2, <2>1
  <2>3. (k + 1) * STRIDE \in 0 .. Len(a)
    BY <2>1, <2>2 DEF NeedToDel
  <2> QED BY <1>1, <2>1, <2>2, <2>3
<1> QED BY <1>3, <1>4 DEF GoneFrom

\* In the end all of them are.
LEMMA GoneAll ==
  ASSUME NEW w, NEW a \in Prefix, NEW n \in Nat, n * STRIDE <= Len(a),
         Len(a) < (n + 1) * STRIDE
  PROVE  /\ GoneFrom(w, a, n, n + 1) = {}
         /\ GoneFrom(w, a, n, 1) = {Take(a, m) : m \in NeedToDel(w, a) \ {0}}
<1>1. GoneFrom(w, a, n, n + 1) = {}
  BY DEF GoneFrom
<1>2. /\ n * STRIDE \in Nat /\ (n + 1) * STRIDE \in Nat
      /\ STRIDE \in Nat /\ STRIDE > 0 /\ Len(a) \in Nat
  BY StrideSteps, StrideAssumption, PrefixIsBits, BitsLen
<1>3. ASSUME NEW c \in GoneFrom(w, a, n, 1)
      PROVE  c \in {Take(a, m) : m \in NeedToDel(w, a) \ {0}}
  <2>1. PICK j \in 1 .. n : c = Along(a, j) /\ j * STRIDE \in NeedToDel(w, a)
    BY <1>3 DEF GoneFrom
  <2>2. j * STRIDE # 0
    <3>1. 1 * STRIDE <= j * STRIDE
      BY <1>2, ScaleOrder
    <3> QED BY <1>2, <3>1
  <2> QED BY <2>1, <2>2 DEF Along
<1>4. ASSUME NEW m \in NeedToDel(w, a) \ {0}
      PROVE  Take(a, m) \in GoneFrom(w, a, n, 1)
  <2>1. m \in Nat /\ m <= Len(a) /\ m % STRIDE = 0
    BY <1>2 DEF NeedToDel
  <2>2. PICK j \in Nat : m = j * STRIDE
    BY <2>1, StrideCount
  <2>3. j # 0
    BY <1>2, <2>2
  <2>4. j <= n
    <3> SUFFICES ASSUME n + 1 <= j PROVE FALSE
      OBVIOUS
    <3>1. (n + 1) * STRIDE <= j * STRIDE
      BY <1>2, ScaleOrder
    <3> QED BY <1>2, <2>1, <2>2, <3>1
  <2>5. j \in 1 .. n
    BY <2>3, <2>4
  <2> QED BY <2>2, <2>5 DEF GoneFrom, Along
<1> QED BY <1>1, <1>3, <1>4

\* So the trie is that of bitmap_delete_prefix.
LEMMA DeletedTrie ==
  ASSUME NEW w, NEW a \in Prefix, NEW n \in Nat, n * STRIDE <= Len(a),
         Len(a) < (n + 1) * STRIDE
  PROVE  DeletePrefix(w, a).trie =
           [inl |-> Remove(w.inl, a), enl |-> w.enl \ GoneFrom(w, a, n, 1)]
BY GoneAll DEF DeletePrefix

-----------------------------------------------------------------------------
(***************************************************************************)
(* The steps of the operations, one by one: each leads from nodes t in     *)
(* memory to nodes u in memory.                                            *)
(***************************************************************************)
LEMMA IsAlong == \A lvl : PathAt(lvl) = Along(arg, lvl)
BY DEF PathAt, Along

\* At first there is one node.
LEMMA InitOK ==
  ASSUME Init
  PROVE  \E t : MemoryOK(t) /\ Walk(t) /\ TrieOf(t) = EmptyTrie
<1> DEFINE t0 == [paths |-> {<<>>}, node |-> [b \in {<<>>} |-> ZeroNode],
                  rule |-> [b \in {<<>>} |-> [pos \in {} |-> NULL]]]
<1>1. PICK t : t = t0
  OBVIOUS
<1>2. t.paths = {<<>>} /\ t.node[<<>>] = ZeroNode /\ t.rule[<<>>] = [pos \in {} |-> NULL]
  BY <1>1
<1>3. ZeroNode \in Node /\ ZeroNode.internal = {} /\ ZeroNode.external = {}
      /\ ZeroNode.child_ptr = NULL
  BY ZeroNodeIsNode DEF ZeroNode
<1>4. IsShape(t)
  BY <1>2, <1>3, RootPath DEF IsShape
<1>5. DOMAIN heap = {} /\ root = ZeroNode
  BY DEF Init
<1>6. MemoryOK(t)
  BY <1>2, <1>3, <1>4, <1>5 DEF MemoryOK, InMemory, HasBlock, IsEmpty
<1>7. TrieOf(t) = EmptyTrie
  BY <1>2, <1>4, OnlyRoot
<1>8. IsTable(TrieOf(t).inl)
  BY <1>7, EmptyTrieOK DEF EmptyTrie
<1>9. Walk(t)
  BY <1>8 DEF Init, Walk, IdleOK, AtRest
<1> QED BY <1>6, <1>7, <1>9

\* Nothing changes.
LEMMA Untouched ==
  ASSUME NEW t, MemoryOK(t), UNCHANGED <<root, heap, op>>
  PROVE  MemoryOK(t)'
BY DEF MemoryOK

\* A node has changed.
LEMMA Became ==
  ASSUME NEW t, NEW b, NEW n, NEW rs, NodeBecomes(t, b, n, rs), op' = op,
         NEW u, u = Changed(t, b, n, rs)
  PROVE  MemoryOK(u)'
BY DEF MemoryOK, NodeBecomes

\* The call of bitmap_insert_prefix changes no memory.
LEMMA CallInsertOK ==
  ASSUME NEW t, MemoryOK(t), Walk(t), NEW p \in Inputs, NEW h \in NHI, CallInsert(p, h)
  PROVE  /\ MemoryOK(t)' /\ Walk(t)'
         /\ pc = "idle" /\ pc' = "insert" /\ before' = TrieOf(t)
<1>1. pc = "idle" /\ pc' = "insert" /\ arg' = p /\ nhi' = h /\ before' = TrieOf(t)
      /\ UNCHANGED <<root, heap, op, node, level, trace, i, node_need_to_del, stack>>
  BY TrieInMemoryIs DEF CallInsert, Call, memory
<1>2. IdleOK(t)
  BY <1>1 DEF Walk
<1>3. MemoryOK(t)' /\ IsShape(t)
  BY <1>1, Untouched DEF MemoryOK
<1>4. IsTrie(TrieOf(t))
  BY <1>2, <1>3, TrieOfIsTrie DEF IdleOK
<1>5. p \in Prefix /\ p \in Bits /\ 0 * STRIDE = 0 /\ Len(p) \in Nat
  BY HeapInputsAssumption, PrefixIsBits, BitsLen, StrideAssumption
<1>6. Along(p, 0) = <<>> /\ Branch(Along(p, 0)) = {}
  <2>1. Along(p, 0) \in Bits /\ Len(Along(p, 0)) = 0
    BY <1>5, OnTheWay
  <2>2. Branch(Along(p, 0)) = {Along(p, j) : j \in 1 .. 0}
    BY <1>5, BranchOnTheWay
  <2> QED BY <2>1, <2>2, EmptySeq DEF Bits
<1>7. PathAt(0)' = <<>>
  BY <1>1, <1>6 DEF PathAt, Along
<1>8. level' = 0 /\ node' = Root /\ trace' = <<>> /\ i' = 0 /\ node_need_to_del' = FALSE
      /\ stack' = <<>>
  BY <1>1, <1>2 DEF IdleOK, AtRest
<1>9. TrieOf(t) = [inl |-> TrieOf(t).inl, enl |-> TrieOf(t).enl \cup Branch(<<>>)]
  <2>1. TrieOf(t) = [inl |-> TrieOf(t).inl, enl |-> TrieOf(t).enl]
    BY TrieOfIs
  <2> QED BY <1>6, <2>1
<1>10. OnWay(t)'
  BY <1>1, <1>3, <1>4, <1>5, <1>7, <1>8 DEF OnWay, IsShape, PtrTo
<1>11. InsertOK(t)'
  BY <1>1, <1>7, <1>8, <1>9, <1>10 DEF InsertOK
<1> QED BY <1>1, <1>3, <1>11 DEF Walk

\* The call of bitmap_delete_prefix changes no memory.
LEMMA CallDeleteOK ==
  ASSUME NEW t, MemoryOK(t), Walk(t), NEW p \in Inputs, CallDelete(p)
  PROVE  /\ MemoryOK(t)' /\ Walk(t)'
         /\ pc = "idle" /\ pc' = "delete" /\ before' = TrieOf(t)
<1>1. pc = "idle" /\ pc' = "delete" /\ arg' = p /\ nhi' = NULL /\ before' = TrieOf(t)
      /\ UNCHANGED <<root, heap, op, node, level, trace, i, node_need_to_del, stack>>
      /\ PrefixExist(TrieOf(t), p)
  BY TrieInMemoryIs DEF CallDelete, Call, memory
<1>2. IdleOK(t)
  BY <1>1 DEF Walk
<1>3. MemoryOK(t)' /\ IsShape(t)
  BY <1>1, Untouched DEF MemoryOK
<1>4. IsTrie(TrieOf(t))
  BY <1>2, <1>3, TrieOfIsTrie DEF IdleOK
<1>5. p \in Prefix /\ p \in Bits /\ 0 * STRIDE = 0 /\ Len(p) \in Nat
  BY HeapInputsAssumption, PrefixIsBits, BitsLen, StrideAssumption
<1>6. Along(p, 0) = <<>>
  <2>1. Along(p, 0) \in Bits /\ Len(Along(p, 0)) = 0
    BY <1>5, OnTheWay
  <2> QED BY <2>1, EmptySeq DEF Bits
<1>7. PathAt(0)' = <<>>
  BY <1>1, <1>6 DEF PathAt, Along
<1>8. level' = 0 /\ node' = Root /\ trace' = <<>> /\ i' = 0 /\ node_need_to_del' = FALSE
      /\ stack' = <<>>
  BY <1>1, <1>2 DEF IdleOK, AtRest
<1>9. OnWay(t)'
  BY <1>1, <1>3, <1>4, <1>5, <1>7, <1>8 DEF OnWay, IsShape, PtrTo
<1>10. p \in DOMAIN TrieOf(t).inl
  BY <1>1 DEF PrefixExist
<1>11. /\ trace' \in Seq([node : Pointer, pos : EnlPos]) /\ Len(trace') = level'
       /\ \A k \in 1 .. level' : trace'[k] = TraceAt(t, k)'
  <2>1. trace' = <<>> /\ Len(<<>>) = 0 /\ <<>> \in Seq([node : Pointer, pos : EnlPos])
    BY <1>8, EmptySeq
  <2> QED BY <1>8, <2>1
<1>12. DeleteOK(t)'
  BY <1>1, <1>8, <1>9, <1>10, <1>11 DEF DeleteOK
<1> QED BY <1>1, <1>3, <1>12 DEF Walk

\* The node the walk has got to.
LEMMA OnWayFacts ==
  ASSUME NEW t, MemoryOK(t), OnWay(t)
  PROVE  /\ IsShape(t) /\ arg \in Prefix /\ arg \in Bits /\ Len(arg) \in Nat
         /\ level * STRIDE \in 0 .. Len(arg) /\ level \in Nat
         /\ Rest = Drop(arg, level * STRIDE) /\ Rest \in Bits
         /\ Len(Rest) = Len(arg) - level * STRIDE
         /\ PathAt(level) = Along(arg, level) /\ PathAt(level) \in t.paths
         /\ At(node) = t.node[PathAt(level)]
         /\ PathAt(level) \in NodePath /\ Len(PathAt(level)) = level * STRIDE
         /\ Len(Rest) < STRIDE => /\ Len(arg) < (level + 1) * STRIDE
                                  /\ NodeOf(arg) = PathAt(level)
                                  /\ RulePos(arg) = PosOfRule(Rest)
                                  /\ PosOfRule(Rest) \in InlPos
                                  /\ RuleFits(PathAt(level), PosOfRule(Rest))
         /\ Len(Rest) >= STRIDE => /\ (level + 1) * STRIDE <= Len(arg)
                                   /\ PathAt(level + 1) = Along(arg, level + 1)
                                   /\ ChildPos = LastPos(PathAt(level + 1))
                                   /\ KidOf(PathAt(level), ChildPos) = PathAt(level + 1)
                                   /\ ChildPos \in EnlPos
                                   /\ KidFits(PathAt(level), ChildPos)
                                   /\ level + 1 \in Level
<1>1. IsShape(t) /\ arg \in Prefix /\ arg \in Bits /\ Len(arg) \in Nat
      /\ level \in Nat /\ level * STRIDE <= Len(arg)
  BY HeapInputsAssumption, PrefixIsBits, BitsLen DEF MemoryOK, OnWay
<1>2. level * STRIDE \in 0 .. Len(arg) /\ (level + 1) * STRIDE = level * STRIDE + STRIDE
      /\ STRIDE \in Nat
  BY <1>1, StrideSteps, StrideAssumption
<1>3. Rest = Drop(arg, level * STRIDE) /\ Rest \in Bits
      /\ Len(Rest) = Len(arg) - level * STRIDE
  BY <1>1, <1>2, DropBits DEF Rest
<1>4. PathAt(level) = Along(arg, level) /\ PathAt(level + 1) = Along(arg, level + 1)
  BY IsAlong
<1>5. At(node) = t.node[PathAt(level)] /\ PathAt(level) \in t.paths
  BY AtPtrTo DEF OnWay
<1>6. PathAt(level) \in NodePath /\ Len(PathAt(level)) = level * STRIDE
  BY <1>1, <1>4, OnTheWay
<1>7. ASSUME Len(Rest) < STRIDE
      PROVE  /\ Len(arg) < (level + 1) * STRIDE
             /\ NodeOf(arg) = PathAt(level)
             /\ RulePos(arg) = PosOfRule(Rest)
             /\ PosOfRule(Rest) \in InlPos
             /\ RuleFits(PathAt(level), PosOfRule(Rest))
  <2>1. Len(arg) < (level + 1) * STRIDE
    BY <1>1, <1>2, <1>3, <1>7
  <2>2. NodeOf(arg) = PathAt(level) /\ RulePos(arg) = PosOfRule(Rest)
    BY <1>1, <1>3, <1>4, <2>1, EndOfTheWay
  <2>3. PosOfRule(Rest) \in InlPos
    BY <1>3, <1>7, RulePosRange
  <2>4. RuleOf(NodeOf(arg), RulePos(arg)) = arg
    BY <1>1, RuleSplit
  <2> QED BY <1>1, <2>1, <2>2, <2>3, <2>4 DEF RuleFits
<1>8. ASSUME Len(Rest) >= STRIDE
      PROVE  /\ (level + 1) * STRIDE <= Len(arg)
             /\ ChildPos = LastPos(PathAt(level + 1))
             /\ KidOf(PathAt(level), ChildPos) = PathAt(level + 1)
             /\ ChildPos \in EnlPos
             /\ KidFits(PathAt(level), ChildPos)
             /\ level + 1 \in Level
  <2>1. (level + 1) * STRIDE <= Len(arg)
    BY <1>1, <1>2, <1>3, <1>8
  <2>2. /\ Along(arg, level + 1) # <<>>
        /\ Up(Along(arg, level + 1)) = Along(arg, level)
        /\ LastPos(Along(arg, level + 1)) = ChildPos
        /\ ChildPos \in EnlPos
        /\ KidOf(Along(arg, level), ChildPos) = Along(arg, level + 1)
        /\ level + 1 \in Level
    BY <1>1, <1>3, <2>1, NextOnTheWay DEF ChildPos
  <2>3. Along(arg, level + 1) \in NodePath
    BY <1>1, <2>1, OnTheWay
  <2> QED BY <1>4, <2>1, <2>2, <2>3 DEF KidFits
<1> QED BY <1>1, <1>2, <1>3, <1>4, <1>5, <1>6, <1>7, <1>8

-----------------------------------------------------------------------------
\* bitmap_insert_prefix at the node of the rule.
LEMMA InsertRuleOK ==
  ASSUME NEW t, MemoryOK(t), Walk(t), op \in {"simple", "color"}, InsertRule
  PROVE  \E u : /\ MemoryOK(u)' /\ Walk(u)'
                /\ TrieOf(u) = InsertPrefix(before, arg, nhi)
                /\ arg \in Inputs /\ nhi \in NHI /\ pc' = "idle"
<1>1. pc = "insert" /\ Len(Rest) < STRIDE /\ Return /\ op' = op
  BY DEF InsertRule
<1>2. InsertOK(t) /\ OnWay(t)
  BY <1>1 DEF Walk, InsertOK
<1>3. PICK a : a = arg
  OBVIOUS
<1>4. PICK b : b = PathAt(level)
  OBVIOUS
<1>5. PICK h : h = nhi
  OBVIOUS
<1>6. PICK pos : pos = PosOfRule(Rest)
  OBVIOUS
<1>7. /\ IsShape(t) /\ a \in Prefix /\ level \in Nat /\ level * STRIDE <= Len(a)
      /\ Len(a) < (level + 1) * STRIDE
      /\ b \in t.paths /\ At(node) = t.node[b] /\ node = PtrTo(t, b)
      /\ NodeOf(a) = b /\ RulePos(a) = pos /\ pos \in InlPos /\ RuleFits(b, pos)
      /\ b = Along(a, level)
  BY <1>1, <1>2, <1>3, <1>4, <1>6, OnWayFacts DEF OnWay
<1>8. h \in NHI /\ IsTrie(before)
      /\ TrieOf(t) = [inl |-> before.inl, enl |-> before.enl \cup Branch(b)]
  BY <1>2, <1>4, <1>5 DEF InsertOK, OnWay
<1>9. \E m, rs : NodeBecomes(t, b, m, rs) /\ RuleComes(t, b, m, rs, pos, h)
  <2>1. CASE pos \in t.node[b].internal
    <3>1. PICK n : n = t.node[b]
      OBVIOUS
    <3>2. Overwrites(n, pos)
      BY <1>6, <1>7, <2>1, <3>1 DEF InsertRule, Overwrites
    <3>3. \E rs : NodeBecomes(t, b, n, rs) /\ RuleComes(t, b, n, rs, pos, nhi)
      BY <1>5, <1>7, <1>8, <2>1, <3>1, <3>2, OverwriteRule
    <3> QED BY <1>5, <3>3
  <2>2. CASE pos \notin t.node[b].internal
    <3>1. extend_rule(node, pos, level)
      BY <1>6, <1>7, <2>2 DEF InsertRule
    <3>2. PICK lvl : lvl = level
      OBVIOUS
    <3>3. extend_rule(PtrTo(t, b), pos, lvl) /\ PathAt(lvl) = b /\ nhi \in NHI
      BY <1>4, <1>5, <1>7, <1>8, <3>1, <3>2
    <3>4. \E m, rs : NodeBecomes(t, b, m, rs) /\ RuleComes(t, b, m, rs, pos, nhi)
      BY <1>7, <2>2, <3>3, ExtendRule
    <3> QED BY <1>5, <3>4
  <2> QED BY <2>1, <2>2
<1>10. PICK m, rs : NodeBecomes(t, b, m, rs) /\ RuleComes(t, b, m, rs, pos, h)
  BY <1>9
<1>11. PICK u : u = Changed(t, b, m, rs)
  OBVIOUS
<1>12. MemoryOK(u)'
  BY <1>1, <1>10, <1>11, Became
<1>13. TrieOf(u) = [inl |-> Put(TrieOf(t).inl, a, h), enl |-> TrieOf(t).enl]
  <2>1. Fits(t, NodeOf(a), m, rs)
    BY <1>7, <1>10 DEF NodeBecomes
  <2>2. RuleComes(t, NodeOf(a), m, rs, RulePos(a), h) /\ NodeOf(a) \in t.paths
    BY <1>7, <1>10
  <2>3. TrieOf(Changed(t, NodeOf(a), m, rs)) =
          [inl |-> Put(TrieOf(t).inl, a, h), enl |-> TrieOf(t).enl]
    BY <1>7, <2>1, <2>2, RuleIsPut
  <2> QED BY <1>7, <1>11, <2>3
<1>14. Branch(b) = Branch(a)
  BY <1>7, BranchOfRule
<1>15. TrieOf(u) = InsertPrefix(before, a, h)
  BY <1>8, <1>13, <1>14 DEF InsertPrefix
<1>16. IsTable(TrieOf(u).inl)
  <2>1. TrieOf(u).inl = Put(before.inl, a, h)
    BY <1>15 DEF InsertPrefix
  <2>2. IsTable(before.inl)
    BY <1>8 DEF IsTrie
  <2>3. IsTable(Put(before.inl, a, h))
    BY <1>7, <1>8, <2>2, PutTable
  <2> QED BY <2>1, <2>3
<1>17. Walk(u)' /\ pc' = "idle"
  BY <1>1, <1>16 DEF Return, Walk, IdleOK, AtRest
<1> QED BY <1>2, <1>3, <1>5, <1>8, <1>12, <1>15, <1>17 DEF OnWay

\* The next node on the way.
LEMMA InsertDescendOK ==
  ASSUME NEW t, MemoryOK(t), Walk(t), op \in {"simple", "color"}, InsertDescend
  PROVE  /\ \E u : MemoryOK(u)' /\ Walk(u)'
         /\ pc = "insert" /\ pc' = "insert" /\ before' = before
<1>1. pc = "insert" /\ Len(Rest) >= STRIDE /\ level' = level + 1
      /\ UNCHANGED <<op, pc, arg, nhi, trace, i, node_need_to_del, stack, before>>
  BY DEF InsertDescend
<1>2. InsertOK(t) /\ OnWay(t)
  BY <1>1 DEF Walk, InsertOK
<1>3. PICK a : a = arg
  OBVIOUS
<1>4. PICK b : b = PathAt(level)
  OBVIOUS
<1>5. PICK lvl : lvl = level
  OBVIOUS
<1>6. PICK pos : pos = ChildPos
  OBVIOUS
<1>7. PICK c : c = PathAt(level + 1)
  OBVIOUS
<1>8. /\ IsShape(t) /\ a \in Prefix /\ lvl \in Nat /\ (lvl + 1) * STRIDE <= Len(a)
      /\ b \in t.paths /\ At(node) = t.node[b] /\ node = PtrTo(t, b)
      /\ pos \in EnlPos /\ KidFits(b, pos) /\ c = KidOf(b, pos)
      /\ b = Along(a, lvl) /\ c = Along(a, lvl + 1)
  BY <1>1, <1>2, <1>3, <1>4, <1>5, <1>6, <1>7, OnWayFacts DEF OnWay
<1>9. nhi \in NHI /\ IsTrie(before)
      /\ TrieOf(t) = [inl |-> before.inl, enl |-> before.enl \cup Branch(b)]
  BY <1>2, <1>4 DEF InsertOK, OnWay
<1>10. c # <<>> /\ Up(c) = b /\ LastPos(c) = pos
  BY <1>8 DEF KidFits
\* The child is there, or made.
<1>11. \E u : /\ MemoryOK(u)' /\ c \in u.paths /\ node' = PtrTo(u, c)
              /\ TrieOf(u) = [inl |-> TrieOf(t).inl, enl |-> TrieOf(t).enl \cup {c}]
  <2>1. CASE pos \in t.node[b].external
    <3>1. node' = next_child(t.node[b], pos) /\ UNCHANGED memory
      BY <1>6, <1>8, <2>1 DEF InsertDescend
    <3>2. node' = PtrTo(t, c) /\ c \in t.paths
      <4>1. next_child(t.node[b], pos) = PtrTo(t, KidOf(b, pos))
        BY <1>8, <2>1, NextChildPtr
      <4>2. KidOf(b, pos) \in t.paths
        BY <1>8, <2>1, NodeOfShape
      <4> QED BY <1>8, <3>1, <4>1, <4>2
    <3>3. MemoryOK(t)'
      BY <1>1, <3>1, Untouched DEF memory
    <3>4. TrieOf(t) = [inl |-> TrieOf(t).inl, enl |-> TrieOf(t).enl]
          /\ TrieOf(t).enl = t.paths \ {<<>>}
      BY TrieOfIs
    <3>5. TrieOf(t).enl \cup {c} = TrieOf(t).enl
      BY <1>10, <3>2, <3>4
    <3> QED BY <3>2, <3>3, <3>4, <3>5
  <2>2. CASE pos \notin t.node[b].external
    <3>1. extend_child(PtrTo(t, b), pos, lvl) /\ PathAt(lvl) = b
          /\ node' = extended_child(PtrTo(t, b), pos, lvl)
      BY <1>4, <1>5, <1>6, <1>8, <2>2 DEF InsertDescend
    <3>2. \E m : /\ NodeBecomes(t, b, m, t.rule[b]) /\ KidComes(t, b, m, pos)
                 /\ m.child_ptr = Allocated(UnitsOf(child_num(t.node[b]) + 1, rule_num(t.node[b])), lvl)
      BY <1>8, <2>2, <3>1, ExtendChild
    <3>3. PICK m : /\ NodeBecomes(t, b, m, t.rule[b]) /\ KidComes(t, b, m, pos)
                   /\ m.child_ptr = Allocated(UnitsOf(child_num(t.node[b]) + 1, rule_num(t.node[b])), lvl)
      BY <3>2
    <3>4. PICK u : u = Changed(t, b, m, t.rule[b])
      OBVIOUS
    <3>5. MemoryOK(u)'
      BY <1>1, <3>3, <3>4, Became
    <3>6. Fits(t, b, m, t.rule[b])
      BY <3>3 DEF NodeBecomes
    <3>7. TrieOf(u) = [inl |-> TrieOf(t).inl, enl |-> TrieOf(t).enl \cup {c}]
      <4>1. PICK rs : rs = t.rule[b]
        OBVIOUS
      <4>2. Fits(t, b, m, rs) /\ KidComes(t, b, m, pos)
        BY <3>3, <3>6, <4>1
      <4>3. TrieOf(Changed(t, b, m, rs)) =
              [inl |-> TrieOf(t).inl, enl |-> TrieOf(t).enl \cup {KidOf(b, pos)}]
        BY <1>8, <4>1, <4>2, KidMade
      <4> QED BY <1>8, <3>4, <4>1, <4>3
    <3>8. c \in u.paths
      <4>1. pos \in m.external
        BY <3>3 DEF KidComes
      <4>2. \A q \in m.external : KidOf(b, q) \in Changed(t, b, m, t.rule[b]).paths
        BY <1>8, <3>6, ChangedNodes
      <4> QED BY <1>8, <3>4, <4>1, <4>2
    <3>9. PtrTo(u, c) = <<m.child_ptr, CountOnes(m.external, pos)>>
      BY <1>8, <1>10, <3>4, <3>6, <3>8, ChangedPtr
    <3>10. node' = <<m.child_ptr, CountOnes(m.external, pos)>>
      <4>1. At(PtrTo(t, b)) = t.node[b] /\ m.external = t.node[b].external \cup {pos}
        BY <1>8, <3>3 DEF KidComes
      <4> QED BY <3>1, <3>3, <4>1 DEF extended_child, child_num, rule_num
    <3> QED BY <3>5, <3>7, <3>8, <3>9, <3>10
  <2> QED BY <2>1, <2>2
<1>12. PICK u : /\ MemoryOK(u)' /\ c \in u.paths /\ node' = PtrTo(u, c)
                /\ TrieOf(u) = [inl |-> TrieOf(t).inl, enl |-> TrieOf(t).enl \cup {c}]
  BY <1>11
<1>13. Branch(c) = Branch(b) \cup {c}
  <2>1. lvl * STRIDE <= Len(a) /\ lvl + 1 \in Nat
    BY <1>8, NextOnTheWay
  <2>2. Branch(b) = {Along(a, j) : j \in 1 .. lvl}
    BY <1>8, <2>1, BranchOnTheWay
  <2>3. Branch(c) = {Along(a, j) : j \in 1 .. lvl + 1}
    BY <1>8, <2>1, BranchOnTheWay
  <2>4. \A j : j \in 1 .. lvl + 1 <=> j \in 1 .. lvl \/ j = lvl + 1
    BY <1>8
  <2> QED BY <1>8, <2>2, <2>3, <2>4
<1>14. TrieOf(u) = [inl |-> before.inl, enl |-> before.enl \cup Branch(c)]
  <2>1. TrieOf(t).inl = before.inl /\ TrieOf(t).enl = before.enl \cup Branch(b)
    BY <1>9
  <2> QED BY <1>12, <1>13, <2>1
<1>15. PathAt(level)' = c
  BY <1>1, <1>3, <1>5, <1>8 DEF PathAt, Along
<1>16. OnWay(u)'
  BY <1>1, <1>2, <1>3, <1>5, <1>8, <1>12, <1>15 DEF OnWay
<1>17. InsertOK(u)'
  BY <1>1, <1>2, <1>9, <1>14, <1>15, <1>16 DEF InsertOK
<1> QED BY <1>1, <1>12, <1>17 DEF Walk

-----------------------------------------------------------------------------
\* One turn of bitmap_delete_prefix on its way down.
LEMMA StrideOfLength ==
  ASSUME NEW m \in Nat
  PROVE  \E k \in Nat : k * STRIDE <= m /\ m < (k + 1) * STRIDE
<1>1. /\ m - (m % STRIDE) \in 0 .. m /\ (m - (m % STRIDE)) % STRIDE = 0
      /\ m < (m - (m % STRIDE)) + STRIDE
  BY StrideFloor
<1>2. PICK k \in Nat : m - (m % STRIDE) = k * STRIDE
  BY <1>1, StrideCount
<1>3. (k + 1) * STRIDE = k * STRIDE + STRIDE
  BY StrideSteps
<1> QED BY <1>1, <1>2, <1>3

\* The nodes on the way to a rule of the trie are there, with a bit for the
\* next node.
LEMMA WayToRule ==
  ASSUME NEW t, IsShape(t), NEW a \in Prefix, a \in DOMAIN TrieOf(t).inl
  PROVE  /\ \A j \in Nat : j * STRIDE <= Len(a) => Along(a, j) \in t.paths
         /\ \A j \in Nat : (j + 1) * STRIDE <= Len(a) =>
              LastPos(Along(a, j + 1)) \in t.node[Along(a, j)].external
         /\ RulePos(a) \in t.node[NodeOf(a)].internal
<1>1. NodeOf(a) \in t.paths /\ RulePos(a) \in t.node[NodeOf(a)].internal
  BY TrieOfIs DEF RuleIsIn
<1>2. Len(a) \in Nat /\ STRIDE \in Nat /\ STRIDE > 0
  BY PrefixIsBits, BitsLen, StrideAssumption
<1>3. PICK k \in Nat : k * STRIDE <= Len(a) /\ Len(a) < (k + 1) * STRIDE
  BY <1>2, StrideOfLength
<1>4. NodeOf(a) = Along(a, k)
  BY <1>3, EndOfTheWay
<1>5. /\ \A j \in 0 .. k : Along(a, j) \in t.paths
      /\ \A j \in 0 .. k - 1 :
           LastPos(Along(a, j + 1)) \in t.node[Along(a, j)].external
  BY <1>1, <1>3, <1>4, PathsClosed
<1>6. ASSUME NEW j \in Nat, j * STRIDE <= Len(a) PROVE j <= k
  <2> SUFFICES ASSUME k + 1 <= j PROVE FALSE
    OBVIOUS
  <2>1. (k + 1) * STRIDE <= j * STRIDE
    BY <1>2, ScaleOrder
  <2>2. k + 1 \in Nat
    OBVIOUS
  <2>3. (k + 1) * STRIDE \in Nat /\ j * STRIDE \in Nat
    BY <2>2, StrideSteps
  <2> QED BY <1>2, <1>3, <1>6, <2>1, <2>3
<1>7. ASSUME NEW j \in Nat, (j + 1) * STRIDE <= Len(a) PROVE j \in 0 .. k - 1
  <2>1. j + 1 \in Nat
    OBVIOUS
  <2>2. j + 1 <= k
    BY <1>6, <1>7, <2>1
  <2> QED BY <2>2
<1> QED BY <1>1, <1>5, <1>6, <1>7

\* A turn of bitmap_delete_prefix notes a pointer in trace_node and goes on to
\* the child, or begins update_nodes.
LEMMA DeleteDescendOK ==
  ASSUME NEW t, MemoryOK(t), Walk(t), DeleteDescend
  PROVE  /\ MemoryOK(t)' /\ Walk(t)'
         /\ pc = "delete" /\ pc' \in {"delete", "update"} /\ before' = before
<1> DEFINE T == [node : Pointer, pos : EnlPos]
           down == Len(Rest) >= STRIDE
           pos == IF down THEN ChildPos ELSE PosOfRule(Rest)
           b == PathAt(level)
<1>1. /\ pc = "delete"
      /\ trace' = Append(trace, [node |-> node, pos |-> pos])
      /\ \/ /\ down
            /\ node' = next_child(At(node), pos)
            /\ level' = level + 1
            /\ UNCHANGED <<pc, i>>
         \/ /\ ~ down
            /\ pc' = "update"
            /\ i' = level
            /\ UNCHANGED <<node, level>>
      /\ UNCHANGED <<memory, op, arg, nhi, node_need_to_del, stack, before>>
  BY DEF DeleteDescend
<1>2. DeleteOK(t) /\ OnWay(t)
  BY <1>1 DEF Walk, DeleteOK
<1>3. MemoryOK(t)'
  BY <1>1, Untouched DEF memory
<1>4. /\ IsShape(t) /\ arg \in Prefix /\ arg \in Bits /\ Len(arg) \in Nat
      /\ level * STRIDE \in 0 .. Len(arg) /\ level \in Nat
      /\ Rest \in Bits /\ Len(Rest) = Len(arg) - level * STRIDE
      /\ b = Along(arg, level) /\ b \in t.paths
      /\ At(node) = t.node[b] /\ node = PtrTo(t, b)
      /\ Len(Rest) < STRIDE => /\ Len(arg) < (level + 1) * STRIDE
                               /\ RulePos(arg) = PosOfRule(Rest)
                               /\ PosOfRule(Rest) \in InlPos
      /\ Len(Rest) >= STRIDE => /\ (level + 1) * STRIDE <= Len(arg)
                                /\ PathAt(level + 1) = Along(arg, level + 1)
                                /\ ChildPos = LastPos(PathAt(level + 1))
                                /\ KidOf(PathAt(level), ChildPos) = PathAt(level + 1)
                                /\ ChildPos \in EnlPos
  BY <1>2, OnWayFacts DEF OnWay
<1>5. /\ nhi = NULL /\ arg \in DOMAIN before.inl /\ TrieOf(t) = before
      /\ trace \in Seq(T) /\ Len(trace) = level
      /\ \A k \in 1 .. level : trace[k] = TraceAt(t, k)
  BY <1>2 DEF DeleteOK
<1>6. /\ arg \in Inputs /\ i = 0 /\ node_need_to_del = FALSE /\ stack = <<>>
      /\ IsTrie(before)
  BY <1>2 DEF OnWay
<1>7. down \/ Len(Rest) < STRIDE
  BY <1>4, StrideAssumption
<1>8. /\ \A j \in Nat : j * STRIDE <= Len(arg) => Along(arg, j) \in t.paths
      /\ \A j \in Nat : (j + 1) * STRIDE <= Len(arg) =>
           LastPos(Along(arg, j + 1)) \in t.node[Along(arg, j)].external
  <2>1. PICK a : a = arg
    OBVIOUS
  <2>2. a \in DOMAIN TrieOf(t).inl /\ a \in Prefix
    BY <1>4, <1>5, <2>1
  <2> QED BY <1>4, <2>1, <2>2, WayToRule
\* The trace has one entry more, for this node.
<1>9. InlPos \subseteq EnlPos
  BY PowStride DEF InlPos, EnlPos
<1>10. [node |-> node, pos |-> pos] \in T /\ pos \in EnlPos
  BY <1>4, <1>7, <1>9, AtPtrTo
<1>11. /\ trace' \in Seq(T) /\ Len(trace') = level + 1
       /\ \A k \in 1 .. level : trace'[k] = trace[k]
       /\ trace'[level + 1] = [node |-> node, pos |-> pos]
  <2> DEFINE e == [node |-> node, pos |-> pos]
  <2> HIDE DEF T, e
  <2>1. trace \in Seq(T) /\ e \in T /\ trace' = Append(trace, e)
    BY <1>1, <1>5, <1>10 DEF e
  <2>2. /\ Append(trace, e) \in Seq(T) /\ Len(Append(trace, e)) = Len(trace) + 1
        /\ \A k \in 1 .. Len(trace) : Append(trace, e)[k] = trace[k]
        /\ Append(trace, e)[Len(trace) + 1] = e
    BY <2>1, AppendProperties
  <2> QED BY <1>5, <2>1, <2>2 DEF e
<1>12. TraceAt(t, level + 1) = [node |-> node, pos |-> pos]
  <2>1. (level + 1) - 1 = level
    BY <1>4
  <2>2. (level + 1) * STRIDE <= Len(arg) <=> down
    BY <1>4, <1>7, StrideAssumption, StrideSteps
  <2>3. pos = IF (level + 1) * STRIDE <= Len(arg) THEN LastPos(PathAt(level + 1))
              ELSE RulePos(arg)
    BY <1>4, <1>7, <2>2
  <2> HIDE DEF pos
  <2> QED BY <1>4, <2>1, <2>3 DEF TraceAt
<1>13. \A k : TraceAt(t, k)' = TraceAt(t, k)
  <2>1. \A k : PathAt(k)' = PathAt(k)
    BY <1>1 DEF PathAt
  <2> QED BY <1>1, <2>1 DEF TraceAt
<1>14. \A k \in 1 .. level + 1 : trace'[k] = TraceAt(t, k)'
  <2>1. \A k \in 1 .. level + 1 : k \in 1 .. level \/ k = level + 1
    BY <1>4
  <2>2. \A k \in 1 .. level + 1 : trace'[k] = TraceAt(t, k)
    BY <1>5, <1>11, <1>12, <2>1
  <2> QED BY <1>13, <2>2
<1>15. CASE down
  <2>1. /\ node' = next_child(At(node), ChildPos) /\ level' = level + 1
        /\ UNCHANGED <<pc, i>>
    BY <1>1, <1>15
  <2>2. ChildPos \in t.node[b].external
    BY <1>4, <1>8, <1>15
  <2>3. next_child(t.node[b], ChildPos) = PtrTo(t, KidOf(b, ChildPos))
    <3>1. PICK q, c : q = ChildPos /\ c = b
      OBVIOUS
    <3>2. next_child(t.node[c], q) = PtrTo(t, KidOf(c, q))
      BY <1>4, <2>2, <3>1, NextChildPtr
    <3> QED BY <3>1, <3>2
  <2>4. PathAt(level)' = PathAt(level + 1)
    BY <1>1, <2>1 DEF PathAt
  <2>5. node' = PtrTo(t, PathAt(level)')
    BY <1>4, <1>15, <2>1, <2>3, <2>4
  <2>6. level + 1 \in Nat
    BY <1>4
  <2>7. PathAt(level)' \in t.paths
    BY <1>4, <1>8, <1>15, <2>4, <2>6
  <2>8. OnWay(t)'
    BY <1>1, <1>4, <1>6, <1>15, <2>1, <2>5, <2>6, <2>7 DEF OnWay
  <2>9. DeleteOK(t)'
    BY <1>1, <1>5, <1>11, <1>14, <2>1, <2>8 DEF DeleteOK
  <2> QED BY <1>1, <1>3, <2>1, <2>9 DEF Walk
<1>16. CASE ~ down
  <2>1. pc' = "update" /\ i' = level /\ UNCHANGED <<node, level>>
    BY <1>1, <1>16
  <2>2. node' \in Pointer
    BY <1>4, <2>1, AtPtrTo
  <2>3. ASSUME NEW k \in 1 .. level PROVE PathAt(k)' \in before.enl
    <3>1. k \in Nat /\ k # 0 /\ k <= level
      BY <1>4
    <3>2. k * STRIDE <= level * STRIDE /\ k * STRIDE \in Nat
      BY <1>4, <3>1, ScaleOrder, StrideSteps, StrideAssumption
    <3>3. k * STRIDE <= Len(arg)
      BY <1>4, <3>2
    <3>4. Along(arg, k) \in t.paths /\ Along(arg, k) # <<>>
      BY <1>4, <1>8, <3>1, <3>3, UpOnTheWay
    <3>5. PathAt(k)' = Along(arg, k)
      BY <1>1 DEF PathAt, Along
    <3>6. TrieOf(t).enl = t.paths \ {<<>>}
      BY TrieOfIs
    <3> QED BY <1>5, <3>4, <3>5, <3>6
  <2>4. UpdateOK(t)'
    <3>1. level * STRIDE <= Len(arg) /\ Len(arg) < (level + 1) * STRIDE
      BY <1>4, <1>7, <1>16
    <3>2. i' \in 0 .. level /\ ~ i' < level
      BY <1>4, <2>1
    <3> QED BY <1>1, <1>4, <1>5, <1>6, <1>11, <1>14, <2>1, <2>2, <2>3, <3>1, <3>2
            DEF UpdateOK
  <2> QED BY <1>1, <1>3, <2>1, <2>4 DEF Walk
<1> QED BY <1>15, <1>16

-----------------------------------------------------------------------------
\* The turns of update_nodes.
LEMMA UpdateFacts ==
  ASSUME NEW t, MemoryOK(t), UpdateOK(t)
  PROVE  /\ IsShape(t) /\ arg \in Prefix /\ Len(arg) \in Nat
         /\ level \in Nat /\ i \in 0 .. level /\ i \in Nat
         /\ level * STRIDE <= Len(arg) /\ Len(arg) < (level + 1) * STRIDE
         /\ \A k \in 0 .. level : k * STRIDE <= Len(arg)
         /\ IsTrie(before)
         /\ PathAt(i) = Along(arg, i) /\ PathAt(i) \in t.paths
         /\ At(Traced.node) = t.node[PathAt(i)] /\ Traced.node = PtrTo(t, PathAt(i))
         /\ Traced.pos = IF (i + 1) * STRIDE <= Len(arg) THEN LastPos(PathAt(i + 1))
                         ELSE RulePos(arg)
         /\ PrefixExist(before, arg)
<1>1. /\ IsShape(t) /\ arg \in Prefix /\ arg \in Bits /\ Len(arg) \in Nat
      /\ level \in Nat /\ i \in 0 .. level /\ i \in Nat
      /\ level * STRIDE <= Len(arg) /\ Len(arg) < (level + 1) * STRIDE
      /\ IsTrie(before) /\ arg \in DOMAIN before.inl
      /\ \A k \in 1 .. level : PathAt(k) \in before.enl
      /\ \A k \in 1 .. i + 1 : trace[k] = TraceAt(t, k)
  BY HeapInputsAssumption, PrefixIsBits, BitsLen DEF MemoryOK, UpdateOK
<1>2. ASSUME NEW k \in 0 .. level PROVE k * STRIDE <= Len(arg)
  <2>1. k \in Nat /\ k <= level /\ STRIDE \in Nat
    BY <1>1, StrideAssumption
  <2>2. k * STRIDE <= level * STRIDE /\ k * STRIDE \in Nat /\ level * STRIDE \in Nat
    BY <1>1, <2>1, ScaleOrder, StrideSteps
  <2> QED BY <1>1, <2>2
<1>3. PathAt(i) \in t.paths
  <2>1. CASE i = 0
    <3>1. 0 * STRIDE = 0 /\ 0 \in 0 .. level
      BY <1>1, StrideAssumption
    <3>2. Along(arg, 0) \in Bits /\ Len(Along(arg, 0)) = 0
      BY <1>1, <1>2, <3>1, OnTheWay
    <3>3. Along(arg, 0) = <<>>
      BY <3>2, EmptySeq DEF Bits
    <3> QED BY <1>1, <2>1, <3>3, IsAlong DEF IsShape
  <2>2. CASE i # 0
    <3>1. i \in 1 .. level /\ PathAt(i) \in before.enl
      BY <1>1, <2>2
    <3>2. TrieOf(t).enl = t.paths \ {<<>>}
      BY TrieOfIs
    <3>3. CASE i = level
      <4>1. TrieOf(t) = before
        BY <3>3 DEF UpdateOK
      <4> QED BY <3>1, <3>2, <4>1
    <3>4. CASE i < level
      <4>1. TrieOf(t).enl = before.enl \ Gone(i + 2)
        BY <3>4 DEF UpdateOK
      <4>2. ASSUME PathAt(i) \in Gone(i + 2) PROVE FALSE
        <5>1. PICK j \in i + 2 .. level : Along(arg, j) = Along(arg, i)
          BY <4>2, IsAlong DEF Gone, GoneFrom
        <5>2. j \in Nat /\ j # i /\ j \in 0 .. level
          BY <1>1
        <5> QED BY <1>1, <1>2, <5>1, <5>2, WayIsUnique
      <4> QED BY <3>1, <3>2, <4>1, <4>2
    <3> QED BY <1>1, <3>3, <3>4
  <2> QED BY <2>1, <2>2
<1>4. Traced = TraceAt(t, i + 1) /\ (i + 1) - 1 = i
  BY <1>1 DEF Traced
<1>5. /\ Traced.node = PtrTo(t, PathAt(i))
      /\ Traced.pos = IF (i + 1) * STRIDE <= Len(arg) THEN LastPos(PathAt(i + 1))
                      ELSE RulePos(arg)
  BY <1>4 DEF TraceAt
<1>6. At(Traced.node) = t.node[PathAt(i)]
  <2>1. PICK b : b = PathAt(i)
    OBVIOUS
  <2> QED BY <1>3, <1>5, <2>1, AtPtrTo
<1>7. PrefixExist(before, arg)
  <2>1. ASSUME NEW m \in 1 .. Len(arg), m % STRIDE = 0 PROVE Take(arg, m) \in before.enl
    <3>1. PICK k \in Nat : m = k * STRIDE
      BY <2>1, StrideCount
    <3>2. k # 0
      BY <3>1, StrideAssumption
    <3>3. k <= level
      <4> SUFFICES ASSUME level + 1 <= k PROVE FALSE
        BY <1>1
      <4>1. level + 1 \in Nat /\ STRIDE \in Nat
        BY <1>1, StrideAssumption
      <4>2. (level + 1) * STRIDE <= k * STRIDE /\ (level + 1) * STRIDE \in Nat
        BY <4>1, ScaleOrder, StrideSteps
      <4> QED BY <1>1, <3>1, <4>2
    <3> QED BY <1>1, <3>1, <3>2, <3>3 DEF PathAt
  <2> QED BY <1>1, <2>1 DEF PrefixExist, Reached
<1> QED BY <1>1, <1>2, <1>3, <1>5, <1>6, <1>7, IsAlong

\* Whether the node of the turn has become empty,
LEMMA TurnIsEmpty ==
  ASSUME NEW u, IsShape(u), NEW a \in Prefix, NEW n \in Nat, n * STRIDE <= Len(a),
         Len(a) < (n + 1) * STRIDE, NEW k \in 0 .. n, k * STRIDE <= Len(a),
         NEW w, IsTrie(w), Along(a, k) \in u.paths,
         TrieOf(u).inl = Remove(w.inl, a),
         TrieOf(u).enl = w.enl \ GoneFrom(w, a, n, k + 1),
         k < n => (k + 1) * STRIDE \in NeedToDel(w, a)
  PROVE  IsEmpty(u.node[Along(a, k)]) <=> k * STRIDE \in NeedToDel(w, a)
<1> DEFINE X == GoneFrom(w, a, n, k + 1)
<1>1. (k + 1) * STRIDE <= Len(a) => k < n
  <2>1. n = k \/ k < n
    OBVIOUS
  <2>2. Len(a) \in Nat /\ (n + 1) * STRIDE \in Nat
    <3>1. n + 1 \in Nat
      OBVIOUS
    <3> QED BY <3>1, StrideSteps, PrefixIsBits, BitsLen
  <2> QED BY <2>1, <2>2
<1>2. \A c : Len(c) = (k + 1) * STRIDE =>
        (c \in X <=> /\ (k + 1) * STRIDE <= Len(a) /\ c = Along(a, k + 1)
                     /\ (k + 1) * STRIDE \in NeedToDel(w, a))
  BY GoneTells
<1> HIDE DEF X
<1>3. \A c \in w.enl : Len(c) = (k + 1) * STRIDE =>
        (c \in X <=> (k + 1) * STRIDE <= Len(a) /\ c = Along(a, k + 1))
  BY <1>1, <1>2
<1>4. TrieOf(u).enl = w.enl \ X /\ k \in Nat
  BY DEF X
<1>5. IsEmpty(u.node[Along(a, k)]) <=> Emptied(w, a, k * STRIDE)
  BY <1>3, <1>4, EmptiedIs
<1>6. k * STRIDE \in NeedToDel(w, a) <=>
           /\ Emptied(w, a, k * STRIDE)
           /\ (k + 1) * STRIDE <= Len(a) => (k + 1) * STRIDE \in NeedToDel(w, a)
  BY <1>4, NeedToDelStep
<1> QED BY <1>1, <1>5, <1>6

\* and that it has not when the one below is left.
LEMMA TurnIsNotEmpty ==
  ASSUME NEW u, IsShape(u), NEW a \in Prefix, NEW n \in Nat, n * STRIDE <= Len(a),
         Len(a) < (n + 1) * STRIDE, NEW k \in 0 .. n, k < n, k * STRIDE <= Len(a),
         (k + 1) * STRIDE <= Len(a),
         NEW w, Along(a, k) \in u.paths, Along(a, k + 1) \in w.enl,
         TrieOf(u).enl = w.enl \ GoneFrom(w, a, n, k + 1),
         (k + 1) * STRIDE \notin NeedToDel(w, a)
  PROVE  ~ IsEmpty(u.node[Along(a, k)]) /\ k * STRIDE \notin NeedToDel(w, a)
<1> DEFINE c == Along(a, k + 1)
<1>1. k \in Nat /\ k + 1 \in Nat
  OBVIOUS
<1>2. Len(c) = (k + 1) * STRIDE
  BY <1>1, OnTheWay
<1>3. c \notin GoneFrom(w, a, n, k + 1)
  BY <1>2, GoneTells
<1>4. c \in TrieOf(u).enl
  BY <1>3
<1>5. Up(c) = Along(a, k)
  BY <1>1, NextOnTheWay
<1>6. ~ IsEmpty(u.node[Along(a, k)])
  BY <1>4, <1>5, EmptyNode
<1>7. k * STRIDE \notin NeedToDel(w, a)
  BY <1>1, NeedToDelStep
<1> QED BY <1>6, <1>7

\* What a turn has come to, with the nodes u and in the node b the value n.
TurnDone(t, u, n) ==
  /\ \A k \in 1 .. i : PtrTo(u, PathAt(k - 1)) = PtrTo(t, PathAt(k - 1))
  /\ TrieOf(u) = [inl |-> Remove(before.inl, arg), enl |-> before.enl \ Gone(i + 1)]
  /\ IsEmpty(n) <=> i * STRIDE \in NeedToDel(before, arg)
  /\ IsEmpty(n) => IsEmpty(u.node[PathAt(i)])

\* The end of a turn of update_nodes: what it leaves is where the next turn, or
\* the end of the operation, has to begin.
LEMMA TurnEnds ==
  ASSUME NEW t, MemoryOK(t), UpdateOK(t), pc = "update", NEW u, NEW n,
         EndOfTurn(n), TurnDone(t, u, n)
  PROVE  /\ Walk(u)'
         /\ \/ pc' = "update" /\ before' = before
            \/ pc' = "idle" /\ TrieOf(u) = DeletePrefix(before, arg).trie
<1>0. /\ \A k \in 1 .. i : PtrTo(u, PathAt(k - 1)) = PtrTo(t, PathAt(k - 1))
      /\ TrieOf(u) = [inl |-> Remove(before.inl, arg), enl |-> before.enl \ Gone(i + 1)]
      /\ IsEmpty(n) <=> i * STRIDE \in NeedToDel(before, arg)
      /\ IsEmpty(n) => IsEmpty(u.node[PathAt(i)])
  BY DEF TurnDone
<1>1. /\ level \in Nat /\ i \in 0 .. level
      /\ level * STRIDE <= Len(arg) /\ Len(arg) < (level + 1) * STRIDE
      /\ arg \in Prefix /\ IsTrie(before)
  BY UpdateFacts
<1>2. CASE i > 0
  <2>1. /\ i' = i - 1
        /\ node_need_to_del' = IsEmpty(n)
        /\ UNCHANGED <<pc, arg, nhi, node, level, trace, stack, before>>
    BY <1>2 DEF EndOfTurn
  <2>2. i' \in 0 .. level /\ i' < level /\ i' # level /\ i' + 1 = i /\ i' + 2 = i + 1
    BY <1>1, <1>2, <2>1
  <2>3. \A k : PathAt(k)' = PathAt(k)
    BY <2>1 DEF PathAt
  <2>4. Gone(i + 2)' = Gone(i + 1)
    BY <2>1, <2>2 DEF Gone
  <2>5. \A k \in 1 .. i' + 1 : trace'[k] = TraceAt(u, k)'
    <3>1. \A k \in 1 .. i : TraceAt(u, k)' = TraceAt(t, k)
      BY <1>0, <2>1, <2>3 DEF TraceAt
    <3>2. \A k \in 1 .. i : trace[k] = TraceAt(t, k)
      <4>1. \A k \in 1 .. i + 1 : trace[k] = TraceAt(t, k)
        BY DEF UpdateOK
      <4>2. \A k \in 1 .. i : k \in 1 .. i + 1
        BY <1>1
      <4> QED BY <4>1, <4>2
    <3> QED BY <2>1, <2>2, <3>1, <3>2
  <2>6. node_need_to_del' \in BOOLEAN
    BY <2>1 DEF IsEmpty
  <2>7. TrieOf(u) = [inl |-> Remove(before.inl, arg), enl |-> before.enl \ Gone(i + 2)']
    BY <1>0, <2>4
  <2>8. node_need_to_del' <=> (i' + 1) * STRIDE \in NeedToDel(before, arg)
    BY <1>0, <2>1, <2>2
  <2>9. node_need_to_del' => IsEmpty(u.node[PathAt(i + 1)'])
    <3>1. PathAt(i + 1)' = PathAt(i)
      BY <2>1, <2>2 DEF PathAt
    <3> QED BY <1>0, <2>1, <3>1
  <2>10. /\ arg \in Inputs /\ nhi = NULL /\ node \in Pointer /\ stack = <<>>
         /\ level \in Nat /\ level * STRIDE <= Len(arg) /\ Len(arg) < (level + 1) * STRIDE
         /\ IsTrie(before)
         /\ arg \in DOMAIN before.inl
         /\ \A k \in 1 .. level : PathAt(k) \in before.enl
         /\ trace \in Seq([node : Pointer, pos : EnlPos])
         /\ Len(trace) = level + 1
    BY DEF UpdateOK
  <2>11. UpdateOK(u)'
    BY <2>1, <2>2, <2>3, <2>5, <2>6, <2>7, <2>8, <2>9, <2>10 DEF UpdateOK
  <2> QED BY <2>1, <2>11 DEF Walk
<1>3. CASE i = 0
  <2>1. Return
    BY <1>3 DEF EndOfTurn
  <2>2. Gone(i + 1) = GoneFrom(before, arg, level, 1)
    BY <1>3 DEF Gone
  <2>3. TrieOf(u) = DeletePrefix(before, arg).trie
    BY <1>0, <1>1, <2>2, DeletedTrie
  <2>4. IsTable(TrieOf(u).inl)
    <3>1. TrieOf(u).inl = Remove(before.inl, arg) /\ IsTable(before.inl)
      BY <1>0, <1>1 DEF IsTrie
    <3>2. IsTable(Remove(before.inl, arg))
      BY <3>1, RemoveTable
    <3> QED BY <3>1, <3>2
  <2> QED BY <2>1, <2>3, <2>4 DEF Return, Walk, IdleOK, AtRest
<1> QED BY <1>1, <1>2, <1>3

-----------------------------------------------------------------------------
\* The pointers to the nodes above a node that changes stay.
LEMMA AbovePtr ==
  ASSUME NEW t, IsShape(t), NEW a \in Prefix, NEW k \in Nat, k * STRIDE <= Len(a),
         NEW b, b = Along(a, k), b \in t.paths, NEW n, NEW rs, Fits(t, b, n, rs),
         NEW j \in 0 .. k
  PROVE  /\ Along(a, j) \in Changed(t, b, n, rs).paths
         /\ PtrTo(Changed(t, b, n, rs), Along(a, j)) = PtrTo(t, Along(a, j))
<1> DEFINE u == Changed(t, b, n, rs)
<1>1. j \in Nat /\ j * STRIDE <= Len(a)
  BY OnTheWay
<1>2. IsShape(u) /\ b \in u.paths
  BY ChangedShape, ChangedNodes
<1>3. Along(a, j) \in u.paths
  <2> HIDE DEF u
  <2> QED BY <1>2, PathsClosed
<1>4. Along(a, j) # <<>> => Up(Along(a, j)) # b
  <2> SUFFICES ASSUME Along(a, j) # <<>>, Up(Along(a, j)) = b PROVE FALSE
    OBVIOUS
  <2>1. Along(a, j) \in NodePath /\ Len(Along(a, j)) = j * STRIDE /\ Len(b) = k * STRIDE
    BY <1>1, OnTheWay
  <2>2. j * STRIDE = k * STRIDE + STRIDE
    BY <2>1, KidSplit
  <2>3. j * STRIDE <= k * STRIDE
    BY <1>1, ScaleOrder, StrideAssumption
  <2> QED BY <2>2, <2>3, StrideSteps, StrideAssumption
<1>5. PtrTo(u, Along(a, j)) =
        IF Along(a, j) = <<>> THEN Root
        ELSE IF Up(Along(a, j)) = b THEN <<n.child_ptr, CountOnes(n.external, LastPos(Along(a, j)))>>
        ELSE PtrTo(t, Along(a, j))
  BY <1>3, ChangedPtr
<1>6. Along(a, j) = <<>> => PtrTo(t, Along(a, j)) = Root
  BY DEF PtrTo
<1> HIDE DEF u
<1>7. Along(a, j) \in u.paths /\ PtrTo(u, Along(a, j)) = PtrTo(t, Along(a, j))
  BY <1>3, <1>4, <1>5, <1>6
<1> QED BY <1>7 DEF u

\* The rule goes.
LEMMA UpdateLastOK ==
  ASSUME NEW t, MemoryOK(t), Walk(t), op \in {"simple", "color"}, UpdateLast
  PROVE  \E u : /\ MemoryOK(u)' /\ Walk(u)'
                /\ arg \in Inputs /\ PrefixExist(before, arg)
                /\ pc = "update"
                /\ \/ pc' = "update" /\ before' = before
                   \/ pc' = "idle" /\ TrieOf(u) = DeletePrefix(before, arg).trie
<1>1. /\ pc = "update" /\ i = level /\ op' = op
      /\ reduce_rule(Traced.node, Traced.pos, i)
      /\ EndOfTurn([At(Traced.node) EXCEPT !.internal = @ \ {Traced.pos}])
  BY DEF UpdateLast
<1>2. UpdateOK(t)
  BY <1>1 DEF Walk
<1>3. PICK a : a = arg
  OBVIOUS
<1>4. PICK k : k = i
  OBVIOUS
<1>5. PICK b : b = PathAt(i)
  OBVIOUS
<1>6. PICK pos : pos = Traced.pos
  OBVIOUS
<1>7. PICK w : w = before
  OBVIOUS
<1>8. /\ IsShape(t) /\ a \in Prefix /\ k \in Nat
      /\ k * STRIDE <= Len(a) /\ Len(a) < (k + 1) * STRIDE
      /\ IsTrie(w) /\ b = Along(a, k) /\ b \in t.paths
      /\ At(Traced.node) = t.node[b] /\ Traced.node = PtrTo(t, b)
      /\ Traced.pos = IF (k + 1) * STRIDE <= Len(a) THEN LastPos(PathAt(i + 1))
                      ELSE RulePos(a)
      /\ PrefixExist(w, a)
  BY <1>1, <1>2, <1>3, <1>4, <1>5, <1>7, UpdateFacts
<1>9. TrieOf(t) = w /\ a \in Inputs
  BY <1>1, <1>2, <1>3, <1>7 DEF UpdateOK
<1>10. NodeOf(a) = b
  BY <1>8, EndOfTheWay
<1>11. pos = RulePos(a)
  <2>1. (k + 1) * STRIDE \in Nat /\ Len(a) \in Nat
    <3>1. k + 1 \in Nat
      BY <1>8
    <3> QED BY <1>8, <3>1, StrideSteps, PrefixIsBits, BitsLen
  <2> QED BY <1>6, <1>8, <2>1
<1>12. pos \in t.node[b].internal
  <2>1. a \in DOMAIN TrieOf(t).inl
    BY <1>8, <1>9 DEF PrefixExist
  <2> QED BY <1>8, <1>10, <1>11, <2>1, WayToRule
<1>13. \E m, rs : NodeBecomes(t, b, m, rs) /\ RuleGoes(t, b, m, rs, pos)
  <2>1. reduce_rule(PtrTo(t, b), pos, k) /\ PathAt(k) = b
    BY <1>1, <1>4, <1>5, <1>6, <1>8
  <2> QED BY <1>8, <1>12, <2>1, ReduceRule
<1>14. PICK m, rs : NodeBecomes(t, b, m, rs) /\ RuleGoes(t, b, m, rs, pos)
  BY <1>13
<1>15. PICK u : u = Changed(t, b, m, rs)
  OBVIOUS
<1>16. MemoryOK(u)'
  BY <1>1, <1>14, <1>15, Became
<1>17. Fits(t, b, m, rs) /\ IsShape(u) /\ b \in u.paths /\ u.node[b] = m
  <2>1. Fits(t, b, m, rs)
    BY <1>14 DEF NodeBecomes
  <2> QED BY <1>8, <1>15, <2>1, ChangedNodes, ChangedShape
<1>18. TrieOf(u) = [inl |-> Remove(w.inl, a), enl |-> w.enl]
  <2>1. Fits(t, NodeOf(a), m, rs) /\ RuleGoes(t, NodeOf(a), m, rs, RulePos(a))
        /\ NodeOf(a) \in t.paths
    BY <1>8, <1>10, <1>11, <1>14, <1>17
  <2>2. TrieOf(Changed(t, NodeOf(a), m, rs)) =
          [inl |-> Remove(TrieOf(t).inl, a), enl |-> TrieOf(t).enl]
    BY <1>8, <2>1, RuleIsTaken
  <2> QED BY <1>9, <1>10, <1>15, <2>2
<1>19. w.enl = w.enl \ GoneFrom(w, a, k, k + 1)
  <2>1. GoneFrom(w, a, k, k + 1) = {}
    BY <1>8, GoneAll
  <2> QED BY <2>1
<1>20. PICK n : n = [At(Traced.node) EXCEPT !.internal = @ \ {Traced.pos}]
  OBVIOUS
<1>21. IsEmpty(n) <=> IsEmpty(m)
  <2>1. t.node[b] = [internal |-> t.node[b].internal, external |-> t.node[b].external,
                     child_ptr |-> t.node[b].child_ptr]
    BY <1>8, NodeOfShape DEF Node
  <2>2. n = [t.node[b] EXCEPT !.internal = t.node[b].internal \ {pos}]
    BY <1>6, <1>8, <1>20
  <2>3. n.internal = t.node[b].internal \ {pos} /\ n.external = t.node[b].external
    BY <2>1, <2>2
  <2>4. m.internal = t.node[b].internal \ {pos} /\ m.external = t.node[b].external
    BY <1>14 DEF RuleGoes
  <2> QED BY <2>3, <2>4 DEF IsEmpty
<1>22. IsEmpty(m) <=> k * STRIDE \in NeedToDel(w, a)
  <2>1. /\ Along(a, k) \in u.paths /\ u.node[Along(a, k)] = m
        /\ TrieOf(u).inl = Remove(w.inl, a)
        /\ TrieOf(u).enl = w.enl \ GoneFrom(w, a, k, k + 1)
    BY <1>8, <1>17, <1>18, <1>19
  <2>2. k \in 0 .. k /\ ~ k < k
    BY <1>8
  <2>3. IsEmpty(u.node[Along(a, k)]) <=> k * STRIDE \in NeedToDel(w, a)
    BY <1>8, <1>17, <2>1, <2>2, TurnIsEmpty
  <2> QED BY <2>1, <2>3
<1>23. TurnDone(t, u, n)
  <2>1. ASSUME NEW j \in 1 .. i PROVE PtrTo(u, PathAt(j - 1)) = PtrTo(t, PathAt(j - 1))
    <3>1. j - 1 \in 0 .. k
      BY <1>4, <1>8
    <3>2. PtrTo(Changed(t, b, m, rs), Along(a, j - 1)) = PtrTo(t, Along(a, j - 1))
      BY <1>8, <1>17, <3>1, AbovePtr
    <3> QED BY <1>3, <1>15, <3>2, IsAlong
  <2>2. Gone(i + 1) = GoneFrom(w, a, k, k + 1)
    BY <1>1, <1>3, <1>4, <1>7 DEF Gone
  <2>3. TrieOf(u) = [inl |-> Remove(before.inl, arg), enl |-> before.enl \ Gone(i + 1)]
    BY <1>3, <1>7, <1>18, <1>19, <2>2
  <2> QED BY <1>3, <1>4, <1>5, <1>7, <1>17, <1>21, <1>22, <2>1, <2>3 DEF TurnDone
<1>24. EndOfTurn(n)
  BY <1>1, <1>20
<1>25. /\ Walk(u)'
       /\ \/ pc' = "update" /\ before' = before
          \/ pc' = "idle" /\ TrieOf(u) = DeletePrefix(before, arg).trie
  BY <1>1, <1>2, <1>23, <1>24, TurnEnds
<1> QED BY <1>1, <1>3, <1>7, <1>8, <1>9, <1>16, <1>25

\* And the nodes that it has left empty.
LEMMA UpdateAboveOK ==
  ASSUME NEW t, MemoryOK(t), Walk(t), op \in {"simple", "color"}, UpdateAbove
  PROVE  \E u : /\ MemoryOK(u)' /\ Walk(u)'
                /\ arg \in Inputs /\ PrefixExist(before, arg)
                /\ pc = "update"
                /\ \/ pc' = "update" /\ before' = before
                   \/ pc' = "idle" /\ TrieOf(u) = DeletePrefix(before, arg).trie
<1>1. /\ pc = "update" /\ i < level /\ op' = op
      /\ \/ /\ node_need_to_del
            /\ reduce_child(Traced.node, Traced.pos, i)
            /\ EndOfTurn([At(Traced.node) EXCEPT !.external = @ \ {Traced.pos}])
         \/ /\ ~ node_need_to_del
            /\ EndOfTurn(At(Traced.node))
            /\ UNCHANGED memory
  BY DEF UpdateAbove
<1>2. UpdateOK(t)
  BY <1>1 DEF Walk
<1>3. PICK a : a = arg
  OBVIOUS
<1>4. PICK k, top : k = i /\ top = level
  OBVIOUS
<1>5. PICK b : b = PathAt(i)
  OBVIOUS
<1>6. PICK pos : pos = Traced.pos
  OBVIOUS
<1>7. PICK w : w = before
  OBVIOUS
<1>8. PICK c : c = Along(a, k + 1)
  OBVIOUS
<1>9. /\ IsShape(t) /\ a \in Prefix /\ k \in Nat /\ top \in Nat /\ k \in 0 .. top /\ k < top
      /\ k + 1 \in Nat /\ k + 1 \in 1 .. top
      /\ k * STRIDE <= Len(a) /\ (k + 1) * STRIDE <= Len(a)
      /\ top * STRIDE <= Len(a) /\ Len(a) < (top + 1) * STRIDE
      /\ IsTrie(w) /\ b = Along(a, k) /\ b \in t.paths
      /\ At(Traced.node) = t.node[b] /\ Traced.node = PtrTo(t, b)
      /\ pos = LastPos(c)
      /\ PrefixExist(w, a)
  <2>1. /\ IsShape(t) /\ arg \in Prefix /\ Len(arg) \in Nat
        /\ level \in Nat /\ i \in 0 .. level /\ i \in Nat
        /\ level * STRIDE <= Len(arg) /\ Len(arg) < (level + 1) * STRIDE
        /\ \A j \in 0 .. level : j * STRIDE <= Len(arg)
        /\ IsTrie(before)
        /\ PathAt(i) = Along(arg, i) /\ PathAt(i) \in t.paths
        /\ At(Traced.node) = t.node[PathAt(i)] /\ Traced.node = PtrTo(t, PathAt(i))
        /\ Traced.pos = IF (i + 1) * STRIDE <= Len(arg) THEN LastPos(PathAt(i + 1))
                        ELSE RulePos(arg)
        /\ PrefixExist(before, arg)
    BY <1>2, UpdateFacts
  <2>2. i + 1 \in 0 .. level /\ i + 1 \in 1 .. level /\ i + 1 \in Nat /\ i < level
    BY <1>1, <2>1
  <2>3. PathAt(i + 1) = Along(arg, i + 1)
    BY IsAlong
  <2> QED BY <1>3, <1>4, <1>5, <1>6, <1>7, <1>8, <2>1, <2>2, <2>3
<1>10. /\ TrieOf(t) = [inl |-> Remove(w.inl, a), enl |-> w.enl \ GoneFrom(w, a, top, k + 2)]
       /\ node_need_to_del <=> (k + 1) * STRIDE \in NeedToDel(w, a)
       /\ node_need_to_del => IsEmpty(t.node[c])
       /\ a \in Inputs
       /\ c \in w.enl
  <2>1. PathAt(i + 1) = Along(arg, i + 1) /\ i + 1 \in 1 .. level
    BY <1>4, <1>9, IsAlong
  <2> QED BY <1>1, <1>2, <1>3, <1>4, <1>7, <1>8, <2>1 DEF UpdateOK, Gone
<1>11. c # <<>> /\ Up(c) = b /\ KidOf(b, pos) = c /\ Len(c) = (k + 1) * STRIDE
  BY <1>8, <1>9, NextOnTheWay, OnTheWay
<1>12. c \in t.paths
  <2>1. c \notin GoneFrom(w, a, top, k + 2)
    <3> SUFFICES ASSUME NEW j \in k + 2 .. top, c = Along(a, j) PROVE FALSE
      BY DEF GoneFrom
    <3>1. j \in Nat /\ j # k + 1 /\ j <= top
      BY <1>9
    <3>2. j * STRIDE <= Len(a)
      BY <1>9, <3>1, OnTheWay
    <3> QED BY <1>8, <1>9, <3>1, <3>2, WayIsUnique
  <2>2. c \in TrieOf(t).enl
    BY <1>10, <2>1
  <2> QED BY <2>2, TrieOfIs
<1>13. pos \in t.node[b].external
  BY <1>9, <1>11, <1>12, NodeOfShape
<1>14. GoneFrom(w, a, top, k + 1) =
         GoneFrom(w, a, top, k + 2)
           \cup (IF (k + 1) * STRIDE \in NeedToDel(w, a) THEN {c} ELSE {})
  <2>1. PICK j : j = k + 1
    OBVIOUS
  <2>2. j \in Nat /\ j <= top /\ j + 1 = k + 2
    BY <1>9, <2>1
  <2>3. GoneFrom(w, a, top, j) =
         GoneFrom(w, a, top, j + 1)
           \cup (IF j * STRIDE \in NeedToDel(w, a) THEN {Along(a, j)} ELSE {})
    <3>1. top \in Nat
      BY <1>9
    <3>2. \A m : m \in j .. top <=> m = j \/ m \in j + 1 .. top
      BY <2>2, <3>1
    <3> QED BY <3>2 DEF GoneFrom
  <2> QED BY <1>8, <2>1, <2>2, <2>3
<1>15. Gone(i + 1) = GoneFrom(w, a, top, k + 1)
  BY <1>3, <1>4, <1>7 DEF Gone
\* What is left to show of the nodes u after the turn.
<1>16. ASSUME NEW u, NEW n, MemoryOK(u)', EndOfTurn(n), TurnDone(t, u, n)
       PROVE  \E v : /\ MemoryOK(v)' /\ Walk(v)'
                     /\ arg \in Inputs /\ PrefixExist(before, arg)
                     /\ pc = "update"
                     /\ \/ pc' = "update" /\ before' = before
                        \/ pc' = "idle" /\ TrieOf(v) = DeletePrefix(before, arg).trie
  <2>1. /\ Walk(u)'
        /\ \/ pc' = "update" /\ before' = before
           \/ pc' = "idle" /\ TrieOf(u) = DeletePrefix(before, arg).trie
    BY <1>1, <1>2, <1>16, TurnEnds
  <2> QED BY <1>1, <1>3, <1>7, <1>9, <1>10, <1>16, <2>1
<1>17. CASE node_need_to_del
  <2>1. /\ reduce_child(Traced.node, Traced.pos, i)
        /\ EndOfTurn([At(Traced.node) EXCEPT !.external = @ \ {Traced.pos}])
    BY <1>1, <1>17
  <2>2. \E m : NodeBecomes(t, b, m, t.rule[b]) /\ KidGoes(t, b, m, pos)
    <3>1. reduce_child(PtrTo(t, b), pos, k) /\ PathAt(k) = b
      BY <1>4, <1>5, <1>6, <1>9, <2>1
    <3>2. IsEmpty(t.node[KidOf(b, pos)])
      BY <1>10, <1>11, <1>17
    <3> QED BY <1>9, <1>13, <3>1, <3>2, ReduceChild
  <2>3. PICK m : NodeBecomes(t, b, m, t.rule[b]) /\ KidGoes(t, b, m, pos)
    BY <2>2
  <2>4. PICK rs : rs = t.rule[b]
    OBVIOUS
  <2>5. PICK u : u = Changed(t, b, m, rs)
    OBVIOUS
  <2>6. MemoryOK(u)'
    BY <1>1, <2>3, <2>4, <2>5, Became
  <2>7. Fits(t, b, m, rs) /\ IsShape(u) /\ b \in u.paths /\ u.node[b] = m
    <3>1. Fits(t, b, m, rs)
      BY <2>3, <2>4 DEF NodeBecomes
    <3> QED BY <1>9, <2>5, <3>1, ChangedNodes, ChangedShape
  <2>8. TrieOf(u) = [inl |-> Remove(w.inl, a), enl |-> w.enl \ GoneFrom(w, a, top, k + 1)]
    <3>1. TrieOf(Changed(t, b, m, rs)) =
            [inl |-> TrieOf(t).inl, enl |-> TrieOf(t).enl \ {KidOf(b, pos)}]
      BY <1>9, <1>13, <2>3, <2>4, <2>7, KidTaken
    <3>2. TrieOf(t).inl = Remove(w.inl, a)
          /\ TrieOf(t).enl = w.enl \ GoneFrom(w, a, top, k + 2)
      BY <1>10
    <3>3. TrieOf(t).enl \ {c} = w.enl \ GoneFrom(w, a, top, k + 1)
      BY <1>10, <1>14, <1>17, <3>2
    <3> QED BY <1>11, <2>5, <3>1, <3>2, <3>3
  <2>9. PICK n : n = [At(Traced.node) EXCEPT !.external = @ \ {Traced.pos}]
    OBVIOUS
  <2>10. IsEmpty(n) <=> IsEmpty(m)
    <3>1. t.node[b] = [internal |-> t.node[b].internal, external |-> t.node[b].external,
                       child_ptr |-> t.node[b].child_ptr]
      BY <1>9, NodeOfShape DEF Node
    <3>2. n = [t.node[b] EXCEPT !.external = t.node[b].external \ {pos}]
      BY <1>6, <1>9, <2>9
    <3>3. n.external = t.node[b].external \ {pos} /\ n.internal = t.node[b].internal
      BY <3>1, <3>2
    <3>4. m.external = t.node[b].external \ {pos} /\ m.internal = t.node[b].internal
      BY <2>3 DEF KidGoes
    <3> QED BY <3>3, <3>4 DEF IsEmpty
  <2>11. IsEmpty(m) <=> k * STRIDE \in NeedToDel(w, a)
    <3>1. /\ Along(a, k) \in u.paths /\ u.node[Along(a, k)] = m
          /\ TrieOf(u).inl = Remove(w.inl, a)
          /\ TrieOf(u).enl = w.enl \ GoneFrom(w, a, top, k + 1)
      BY <1>9, <2>7, <2>8
    <3>2. (k + 1) * STRIDE \in NeedToDel(w, a)
      BY <1>10, <1>17
    <3>3. IsEmpty(u.node[Along(a, k)]) <=> k * STRIDE \in NeedToDel(w, a)
      BY <1>9, <2>7, <3>1, <3>2, TurnIsEmpty
    <3> QED BY <3>1, <3>3
  <2>12. TurnDone(t, u, n)
    <3>1. ASSUME NEW j \in 1 .. i PROVE PtrTo(u, PathAt(j - 1)) = PtrTo(t, PathAt(j - 1))
      <4>1. j - 1 \in 0 .. k
        BY <1>4, <1>9
      <4>2. PtrTo(Changed(t, b, m, rs), Along(a, j - 1)) = PtrTo(t, Along(a, j - 1))
        BY <1>9, <2>7, <4>1, AbovePtr
      <4> QED BY <1>3, <2>5, <4>2, IsAlong
    <3>2. TrieOf(u) = [inl |-> Remove(before.inl, arg), enl |-> before.enl \ Gone(i + 1)]
      BY <1>3, <1>7, <1>15, <2>8
    <3> QED BY <1>3, <1>4, <1>5, <1>7, <2>7, <2>10, <2>11, <3>1, <3>2 DEF TurnDone
  <2>13. EndOfTurn(n)
    BY <2>1, <2>9
  <2> QED BY <1>16, <2>6, <2>12, <2>13
<1>18. CASE ~ node_need_to_del
  <2>1. EndOfTurn(At(Traced.node)) /\ UNCHANGED memory
    BY <1>1, <1>18
  <2>2. MemoryOK(t)'
    BY <1>1, <2>1, Untouched DEF memory
  <2>3. PICK n : n = t.node[b]
    OBVIOUS
  <2>4. TrieOf(t) = [inl |-> Remove(w.inl, a), enl |-> w.enl \ GoneFrom(w, a, top, k + 1)]
        /\ (k + 1) * STRIDE \notin NeedToDel(w, a)
    <3>1. (k + 1) * STRIDE \notin NeedToDel(w, a)
      BY <1>10, <1>18
    <3>2. GoneFrom(w, a, top, k + 1) = GoneFrom(w, a, top, k + 2)
      BY <1>14, <3>1
    <3> QED BY <1>10, <3>1, <3>2
  <2>5. ~ IsEmpty(n) /\ k * STRIDE \notin NeedToDel(w, a)
    <3>1. TrieOf(t).enl = w.enl \ GoneFrom(w, a, top, k + 1)
      BY <2>4
    <3>2. Along(a, k) \in t.paths /\ Along(a, k + 1) \in w.enl
      BY <1>8, <1>9, <1>10
    <3>3. ~ IsEmpty(t.node[Along(a, k)]) /\ k * STRIDE \notin NeedToDel(w, a)
      BY <1>9, <2>4, <3>1, <3>2, TurnIsNotEmpty
    <3> QED BY <1>9, <2>3, <3>3
  <2>6. TrieOf(t) = [inl |-> Remove(before.inl, arg), enl |-> before.enl \ Gone(i + 1)]
    BY <1>3, <1>7, <1>15, <2>4
  <2>7. TurnDone(t, t, n)
    BY <1>3, <1>4, <1>7, <2>5, <2>6 DEF TurnDone
  <2>8. EndOfTurn(n)
    BY <1>9, <2>1, <2>3
  <2> QED BY <1>16, <2>2, <2>7, <2>8
<1> QED BY <1>17, <1>18

-----------------------------------------------------------------------------
\* More strides are more bits.
LEMMA StrideOrder ==
  ASSUME NEW j \in Nat, NEW m \in Nat, j <= m
  PROVE  j * STRIDE <= m * STRIDE
<1>1. PICK d \in Nat : m = j + d
  <2>1. m - j \in Nat /\ m = j + (m - j)
    OBVIOUS
  <2> QED BY <2>1
<1>2. d * STRIDE \in Nat /\ j * STRIDE \in Nat
  BY StrideSteps
<1>3. m * STRIDE = j * STRIDE + d * STRIDE
  BY <1>1, StrideAssumption
<1> QED BY <1>2, <1>3

\* A sequence with one member.
LEMMA SeqOfOne ==
  ASSUME NEW S, NEW x \in S
  PROVE  <<x>> \in Seq(S) /\ Len(<<x>>) = 1 /\ <<x>>[1] = x
OBVIOUS

\* The frame that destroy_subtrie is called with first.
LEMMA FirstFrame ==
  ASSUME NEW t, IsShape(t), NEW x, x = <<>>, NEW s, s = <<x>>,
         NEW f, f = [node |-> Root, stride |-> 0], NEW st, st = <<f>>
  PROVE  Frames(t, s, st)
<1>1. x \in t.paths /\ Root \in Pointer /\ PtrTo(t, x) = Root
  BY DEF IsShape, Pointer, PtrTo
<1>2. Len(s) = 1 /\ s[1] = x /\ s \in Seq(t.paths)
  BY <1>1, SeqOfOne
<1>3. f \in Frame
  BY <1>1 DEF Frame
<1>4. Len(st) = 1 /\ st[1] = f /\ st \in Seq(Frame)
  BY <1>3, SeqOfOne
<1>5. Len(x) = 0 /\ (1 - 1) * STRIDE = 0
  <2>1. Len(x) = 0
    OBVIOUS
  <2> QED BY <2>1, StrideAssumption
<1>6. ASSUME NEW pos \in t.node[x].external PROVE ~ (pos < 0)
  <2>1. pos \in EnlPos
    BY <1>1, <1>6, NodeOfShape
  <2> QED BY <2>1, PowStride
<1>7. FrameOK(t, s, st, 1)
  BY <1>1, <1>2, <1>4, <1>5, <1>6 DEF FrameOK
<1> QED BY <1>2, <1>4, <1>7 DEF Frames

\* What the members of a sequence are.
LEMMA SeqMembers ==
  ASSUME NEW S, NEW s \in Seq(S)
  PROVE  Len(s) \in Nat /\ s \in [1 .. Len(s) -> S] /\ \A k \in 1 .. Len(s) : s[k] \in S
OBVIOUS

\* A sequence with one more member.
LEMMA SeqAppended ==
  ASSUME NEW S, NEW s \in Seq(S), NEW x \in S, NEW r, r = Append(s, x)
  PROVE  /\ r \in Seq(S) /\ Len(r) = Len(s) + 1 /\ r[Len(s) + 1] = x
         /\ \A k \in 1 .. Len(s) : r[k] = s[k]
BY AppendProperties, SeqMembers

\* The stride of the last frame.
TopMoved(st, m) == [st EXCEPT ![Len(st)].stride = m]

\* The other frames stay.
LEMMA FrameMoved ==
  ASSUME NEW st \in Seq(Frame), Len(st) >= 1, NEW m \in Nat,
         NEW top, top = TopMoved(st, m)
  PROVE  /\ top \in Seq(Frame) /\ Len(top) = Len(st)
         /\ \A k \in 1 .. Len(st) : k # Len(st) => top[k] = st[k]
         /\ top[Len(st)].node = st[Len(st)].node /\ top[Len(st)].stride = m
<1>1. PICK n : n = Len(st)
  OBVIOUS
<1>2. n \in Nat /\ n \in 1 .. n /\ st \in [1 .. n -> Frame] /\ st[n] \in Frame
  BY <1>1, SeqMembers
<1>3. PICK f : f = [st[n] EXCEPT !.stride = m]
  OBVIOUS
<1>4. f \in Frame /\ f.node = st[n].node /\ f.stride = m
  BY <1>2, <1>3 DEF Frame
<1>5. top = [st EXCEPT ![n] = f]
  BY <1>1, <1>3 DEF TopMoved
<1>6. top \in Seq(Frame) /\ Len(top) = n
      /\ \A k \in 1 .. n : top[k] = IF k = n THEN f ELSE st[k]
  BY <1>1, <1>2, <1>4, <1>5, ExceptSeq
<1> QED BY <1>1, <1>2, <1>4, <1>6

\* Its loop comes to the first of the children left.
LEMMA FramePushed ==
  ASSUME NEW t, IsShape(t), NEW s, NEW st, Frames(t, s, st),
         NEW u, u.paths = t.paths, \A c \in t.paths : u.node[c] = t.node[c],
         NEW b, b = s[Len(s)], NEW pos \in t.node[b].external,
         pos >= st[Len(st)].stride,
         \A q \in t.node[b].external : q >= st[Len(st)].stride => pos <= q,
         NEW c, c = KidOf(b, pos), PtrTo(u, c) \in Pointer,
         NEW s1, s1 = Append(s, c),
         NEW top, top = TopMoved(st, pos + 1),
         NEW f, f = [node |-> PtrTo(u, c), stride |-> 0],
         NEW st1, st1 = Append(top, f)
  PROVE  Frames(u, s1, st1)
<1>1. PICK n : n = Len(s)
  OBVIOUS
<1>2. /\ s \in Seq(t.paths) /\ st \in Seq(Frame)
      /\ n = Len(st) /\ n >= 1 /\ n \in Nat /\ n \in 1 .. n /\ s[1] = <<>>
      /\ \A k \in 1 .. n : FrameOK(t, s, st, k) /\ s[k] \in t.paths
                           /\ st[k] \in Frame
  <2>1. PICK P : P = t.paths
    OBVIOUS
  <2>2. s \in Seq(P) /\ st \in Seq(Frame)
    BY <2>1 DEF Frames
  <2>3. /\ Len(s) \in Nat /\ \A k \in 1 .. Len(s) : s[k] \in P
        /\ Len(st) \in Nat /\ \A k \in 1 .. Len(st) : st[k] \in Frame
    BY <2>2, SeqMembers
  <2>4. Len(s) = Len(st) /\ Len(st) >= 1 /\ s[1] = <<>>
    BY DEF Frames
  <2>5. \A k \in 1 .. Len(s) : FrameOK(t, s, st, k)
    BY DEF Frames
  <2>6. n \in Nat /\ n >= 1 /\ n \in 1 .. n
    BY <1>1, <2>3, <2>4
  <2> QED BY <1>1, <2>1, <2>2, <2>3, <2>4, <2>5, <2>6
<1>3. b \in t.paths /\ b = s[n]
  BY <1>1, <1>2
<1>4. pos \in Nat /\ c \in t.paths /\ Len(c) = Len(b) + STRIDE
      /\ \A q \in t.node[b].external : q \in Nat
  <2>1. pos \in EnlPos /\ KidFits(b, pos) /\ c \in t.paths
        /\ t.node[b].external \subseteq EnlPos
    BY <1>3, NodeOfShape
  <2>2. c \in NodePath /\ c # <<>> /\ Up(c) = b
    BY <2>1 DEF KidFits
  <2> QED BY <2>1, <2>2, KidSplit, PowStride
<1>5. \A d \in t.paths : PtrTo(u, d) = PtrTo(t, d)
  BY SamePtr
<1>6. f \in Frame /\ f.node = PtrTo(u, c) /\ f.stride = 0
  BY DEF Frame
<1>7. /\ top \in Seq(Frame) /\ Len(top) = n
      /\ \A k \in 1 .. n : k # n => top[k] = st[k]
      /\ top[n].node = st[n].node /\ top[n].stride = pos + 1
  <2>1. PICK m : m = pos + 1
    OBVIOUS
  <2>2. m \in Nat /\ Len(st) >= 1 /\ st \in Seq(Frame) /\ top = TopMoved(st, m)
    BY <1>2, <1>4, <2>1
  <2>3. /\ top \in Seq(Frame) /\ Len(top) = Len(st)
        /\ \A k \in 1 .. Len(st) : k # Len(st) => top[k] = st[k]
        /\ top[Len(st)].node = st[Len(st)].node /\ top[Len(st)].stride = m
    BY <2>1, <2>2, FrameMoved
  <2> QED BY <1>2, <2>1, <2>3
<1>8. /\ s1 \in Seq(u.paths) /\ Len(s1) = n + 1 /\ s1[n + 1] = c
      /\ \A k \in 1 .. n : s1[k] = s[k]
  <2>1. PICK P : P = t.paths
    OBVIOUS
  <2>2. s \in Seq(P) /\ c \in P
    BY <1>2, <1>4, <2>1
  <2>3. /\ s1 \in Seq(P) /\ Len(s1) = Len(s) + 1 /\ s1[Len(s) + 1] = c
        /\ \A k \in 1 .. Len(s) : s1[k] = s[k]
    BY <2>2, SeqAppended
  <2> QED BY <1>1, <2>1, <2>3
<1>9. /\ st1 \in Seq(Frame) /\ Len(st1) = n + 1 /\ st1[n + 1] = f
      /\ \A k \in 1 .. n : st1[k] = top[k]
  <2>1. /\ st1 \in Seq(Frame) /\ Len(st1) = Len(top) + 1 /\ st1[Len(top) + 1] = f
        /\ \A k \in 1 .. Len(top) : st1[k] = top[k]
    BY <1>6, <1>7, SeqAppended
  <2> QED BY <1>7, <2>1
<1>10. ASSUME NEW k \in 1 .. n + 1 PROVE FrameOK(u, s1, st1, k)
  <2>1. CASE k \in 1 .. n /\ k # n
    <3>1. k + 1 \in 1 .. n /\ k < n /\ k < n + 1 /\ k \in 1 .. n
      BY <1>2, <2>1
    <3>2. /\ s1[k] = s[k] /\ s1[k + 1] = s[k + 1] /\ st1[k] = st[k] /\ s[k] \in t.paths
          /\ FrameOK(t, s, st, k)
      BY <1>2, <1>7, <1>8, <1>9, <2>1, <3>1
    <3>3. /\ Len(s[k]) = (k - 1) * STRIDE
          /\ st[k].node = PtrTo(t, s[k])
          /\ st[k].stride - 1 \in t.node[s[k]].external
          /\ s[k + 1] = KidOf(s[k], st[k].stride - 1)
          /\ \A q \in t.node[s[k]].external :
               q < st[k].stride =>
                 t.node[KidOf(s[k], q)] = ZeroNode \/ KidOf(s[k], q) = s[k + 1]
      BY <1>1, <3>1, <3>2 DEF FrameOK
    <3>4. \A q \in t.node[s[k]].external : KidOf(s[k], q) \in t.paths
      BY <3>2, NodeOfShape
    <3>5. \A q \in u.node[s1[k]].external :
            q < st1[k].stride =>
              u.node[KidOf(s1[k], q)] = ZeroNode \/ KidOf(s1[k], q) = s1[k + 1]
      <4> TAKE q \in u.node[s1[k]].external
      <4>1. u.node[s1[k]] = t.node[s[k]]
        BY <3>2
      <4>2. KidOf(s1[k], q) = KidOf(s[k], q) /\ KidOf(s[k], q) \in t.paths
        BY <3>2, <3>4, <4>1
      <4>3. u.node[KidOf(s1[k], q)] = t.node[KidOf(s[k], q)]
        BY <4>2
      <4> QED BY <3>2, <3>3, <4>1, <4>2, <4>3
    <3>6. st1[k].stride - 1 \in u.node[s1[k]].external
      BY <3>2, <3>3
    <3> QED BY <1>5, <1>8, <3>1, <3>2, <3>3, <3>5, <3>6 DEF FrameOK
  <2>2. CASE k = n
    <3>1. /\ s1[k] = b /\ s1[k + 1] = c /\ st1[k].node = st[n].node
          /\ st1[k].stride = pos + 1 /\ FrameOK(t, s, st, n)
      BY <1>2, <1>3, <1>7, <1>8, <1>9, <2>2
    <3>2. /\ Len(b) = (k - 1) * STRIDE
          /\ st[n].node = PtrTo(t, b)
          /\ \A q \in t.node[b].external :
               q < st[n].stride => t.node[KidOf(b, q)] = ZeroNode
      BY <1>1, <1>2, <1>3, <2>2, <3>1 DEF FrameOK
    <3>3. pos + 1 - 1 = pos /\ k < n + 1
      BY <1>2, <1>4, <2>2
    <3>4. ASSUME NEW q \in t.node[b].external, q < pos + 1
          PROVE  t.node[KidOf(b, q)] = ZeroNode \/ KidOf(b, q) = c
      <4>1. st[n].stride \in Nat /\ q \in Nat /\ Len(st) = n
        BY <1>2, <1>4 DEF Frame
      <4>2. q >= st[n].stride => pos <= q
        BY <1>2
      <4>3. q = pos \/ q < st[n].stride
        BY <1>4, <3>4, <4>1, <4>2
      <4> QED BY <3>2, <4>3
    <3>5. \A q \in t.node[b].external : KidOf(b, q) \in t.paths
      BY <1>3, NodeOfShape
    <3>6. \A q \in u.node[s1[k]].external :
            q < st1[k].stride =>
              u.node[KidOf(s1[k], q)] = ZeroNode \/ KidOf(s1[k], q) = s1[k + 1]
      <4> TAKE q \in u.node[s1[k]].external
      <4>1. s1[k] = b /\ u.node[b] = t.node[b] /\ q \in t.node[b].external
        BY <1>3, <3>1
      <4>2. u.node[KidOf(b, q)] = t.node[KidOf(b, q)]
        BY <3>5, <4>1
      <4>3. q < st1[k].stride => q < pos + 1
        BY <3>1
      <4> QED BY <3>1, <3>4, <4>1, <4>2, <4>3
    <3>7. st1[k].stride - 1 \in u.node[s1[k]].external /\ s1[k + 1] = KidOf(s1[k], st1[k].stride - 1)
      <4>0. PICK x : x = st1[k].stride
        OBVIOUS
      <4>1. st1[k].stride - 1 = pos
        <5>1. x = pos + 1 /\ pos \in Nat
          BY <1>4, <3>1, <4>0
        <5>2. x - 1 = pos
          BY <5>1
        <5> QED BY <4>0, <5>2
      <4>2. s1[k] = b /\ s1[k + 1] = c
        BY <3>1
      <4>3. u.node[b] = t.node[b] /\ c = KidOf(b, pos)
        BY <1>3
      <4>4. KidOf(s1[k], st1[k].stride - 1) = KidOf(b, pos)
        BY <4>1, <4>2
      <4> QED BY <4>1, <4>2, <4>3, <4>4
    <3> QED BY <1>3, <1>5, <1>8, <3>1, <3>2, <3>3, <3>6, <3>7 DEF FrameOK
  <2>3. CASE k = n + 1
    <3>1. s1[k] = c /\ st1[k] = f /\ ~ (k < n + 1)
      BY <1>2, <1>8, <1>9, <2>3
    <3>2. Len(c) = (k - 1) * STRIDE
      <4>1. Len(b) = (n - 1) * STRIDE
        BY <1>1, <1>2, <1>3 DEF FrameOK
      <4>2. n - 1 \in Nat /\ (n - 1) + 1 = n /\ k - 1 = n
        BY <1>2, <2>3
      <4>3. n * STRIDE = (n - 1) * STRIDE + STRIDE
        BY <4>2, StrideSteps
      <4> QED BY <1>4, <4>1, <4>2, <4>3
    <3>3. ASSUME NEW q \in u.node[c].external PROVE ~ (q < 0)
      <4>1. q \in EnlPos
        BY <1>4, <3>3, NodeOfShape
      <4> QED BY <4>1, PowStride
    <3> QED BY <1>6, <1>8, <3>1, <3>2, <3>3 DEF FrameOK
  <2> QED BY <1>2, <2>1, <2>2, <2>3
<1>11. s1[1] = <<>> /\ Len(s1) >= 1 /\ Len(s1) = Len(st1)
  BY <1>2, <1>8, <1>9
<1> QED BY <1>8, <1>9, <1>10, <1>11 DEF Frames

\* And it returns from a child, which is zeroed then.
LEMMA FramePopped ==
  ASSUME NEW t, IsShape(t), NEW s, NEW st, Frames(t, s, st),
         NEW n, n = Len(s), n > 1, NEW b, b = s[n],
         NEW rs, Fits(t, b, ZeroNode, rs), NEW u, u = Changed(t, b, ZeroNode, rs)
  PROVE  Frames(u, SubSeq(s, 1, n - 1), SubSeq(st, 1, n - 1))
<1>1. /\ s \in Seq(t.paths) /\ st \in Seq(Frame)
      /\ n = Len(st) /\ n \in Nat /\ s[1] = <<>>
      /\ \A k \in 1 .. n : FrameOK(t, s, st, k) /\ s[k] \in t.paths /\ st[k] \in Frame
  <2>1. PICK P : P = t.paths
    OBVIOUS
  <2>2. s \in Seq(P) /\ st \in Seq(Frame)
    BY <2>1 DEF Frames
  <2>3. /\ Len(s) \in Nat /\ \A k \in 1 .. Len(s) : s[k] \in P
        /\ Len(st) \in Nat /\ \A k \in 1 .. Len(st) : st[k] \in Frame
    BY <2>2, SeqMembers
  <2> QED BY <2>1, <2>2, <2>3 DEF Frames
<1>2. n - 1 \in Nat /\ 1 \in 1 .. n - 1 /\ n \in 1 .. n /\ b \in t.paths
  BY <1>1
<1>3. ZeroNode.external = {} /\ IsShape(u)
  BY <1>2, ChangedShape DEF ZeroNode
<1>4. /\ b \in u.paths /\ <<>> \in u.paths
      /\ u.node[b] = ZeroNode
      /\ \A c \in u.paths : c \in t.paths /\ (c # b => u.node[c] = t.node[c])
      /\ \A c \in t.paths : c \in u.paths \/ (c # <<>> /\ Up(c) = b)
  BY <1>2, <1>3, ChangedNodes
<1>5. \A c \in u.paths : c # <<>> => Up(c) # b
  BY <1>2, <1>3, ChangedPaths
<1>6. ASSUME NEW c \in u.paths PROVE PtrTo(u, c) = PtrTo(t, c)
  <2>1. PtrTo(u, c) = IF c = <<>> THEN Root ELSE PtrTo(t, c)
    BY <1>2, <1>5, ChangedPtr
  <2> QED BY <2>1 DEF PtrTo
\* The callers are above the child, and stay.
<1>7. ASSUME NEW k \in 1 .. n - 1
      PROVE  s[k] \in u.paths /\ s[k] # b /\ Len(s[k]) = (k - 1) * STRIDE
  <2>1. k \in 1 .. n /\ k - 1 \in Nat /\ k - 1 <= n - 1 /\ k <= n - 1 /\ k \in Nat
        /\ (k - 1) + 1 = k
    BY <1>1
  <2>2. Len(s[k]) = (k - 1) * STRIDE /\ Len(b) = (n - 1) * STRIDE
        /\ s[k] \in t.paths
    BY <1>1, <1>2, <2>1 DEF FrameOK
  <2>3. k * STRIDE <= (n - 1) * STRIDE /\ k * STRIDE = (k - 1) * STRIDE + STRIDE
        /\ (k - 1) * STRIDE \in Nat /\ (n - 1) * STRIDE \in Nat
    BY <1>2, <2>1, StrideOrder, StrideSteps
  <2>4. STRIDE \in Nat /\ STRIDE > 0
    BY StrideAssumption
  <2>5. Len(s[k]) < Len(b)
    BY <2>2, <2>3, <2>4
  <2>6. s[k] # <<>> /\ Up(s[k]) = b => Len(s[k]) = Len(b) + STRIDE
    BY <2>2, NodeOfShape
  <2>7. ~ (s[k] # <<>> /\ Up(s[k]) = b)
    BY <2>2, <2>3, <2>4, <2>5, <2>6
  <2>8. s[k] # b
    BY <2>2, <2>3, <2>5
  <2> QED BY <1>4, <2>2, <2>7, <2>8
<1> DEFINE r == SubSeq(s, 1, n - 1)
           sr == SubSeq(st, 1, n - 1)
<1>8. r \in Seq(u.paths) /\ Len(r) = n - 1 /\ \A k \in 1 .. n - 1 : r[k] = s[k]
  <2>0. PICK P : P = u.paths
    OBVIOUS
  <2>1. \A k \in 1 .. n - 1 : s[k] \in P
    BY <1>7, <2>0
  <2>2. /\ r \in Seq(P)
        /\ Len(r) = IF 1 <= n - 1 THEN (n - 1) - 1 + 1 ELSE 0
        /\ \A k \in 1 .. (n - 1) - 1 + 1 : r[k] = s[1 + k - 1]
    BY <1>2, <2>1, SubSeqProperties
  <2>3. (n - 1) - 1 + 1 = n - 1 /\ \A k \in 1 .. n - 1 : 1 + k - 1 = k
    BY <1>2
  <2> QED BY <1>2, <2>0, <2>2, <2>3
<1>9. sr \in Seq(Frame) /\ Len(sr) = n - 1 /\ \A k \in 1 .. n - 1 : sr[k] = st[k]
  <2>1. \A k \in 1 .. n - 1 : st[k] \in Frame
    BY <1>1
  <2>2. /\ sr \in Seq(Frame)
        /\ Len(sr) = IF 1 <= n - 1 THEN (n - 1) - 1 + 1 ELSE 0
        /\ \A k \in 1 .. (n - 1) - 1 + 1 : sr[k] = st[1 + k - 1]
    BY <1>2, <2>1, SubSeqProperties
  <2>3. (n - 1) - 1 + 1 = n - 1 /\ \A k \in 1 .. n - 1 : 1 + k - 1 = k
    BY <1>2
  <2> QED BY <1>2, <2>2, <2>3
<1> HIDE DEF r, sr
<1>10. ASSUME NEW k \in 1 .. n - 1 PROVE FrameOK(u, r, sr, k)
  <2>1. k \in 1 .. n /\ k < n /\ k + 1 \in 1 .. n /\ k \in Nat
    BY <1>1
  <2>2. /\ r[k] = s[k] /\ sr[k] = st[k] /\ s[k] \in u.paths /\ s[k] \in t.paths
        /\ u.node[s[k]] = t.node[s[k]] /\ PtrTo(u, s[k]) = PtrTo(t, s[k])
        /\ Len(s[k]) = (k - 1) * STRIDE
    BY <1>4, <1>6, <1>7, <1>8, <1>9
  <2>3. /\ st[k].node = PtrTo(t, s[k])
        /\ st[k].stride - 1 \in t.node[s[k]].external
        /\ s[k + 1] = KidOf(s[k], st[k].stride - 1)
        /\ \A q \in t.node[s[k]].external :
             q < st[k].stride =>
               t.node[KidOf(s[k], q)] = ZeroNode \/ KidOf(s[k], q) = s[k + 1]
    BY <1>1, <2>1 DEF FrameOK
  <2>4. k < n - 1 => r[k + 1] = s[k + 1] /\ s[k + 1] # b
    <3> HAVE k < n - 1
    <3>1. k + 1 \in 1 .. n - 1
      BY <1>2, <2>1
    <3> QED BY <1>7, <1>8, <3>1
  <2>5. ASSUME NEW q \in u.node[r[k]].external, q < sr[k].stride
        PROVE  \/ u.node[KidOf(r[k], q)] = ZeroNode
               \/ k < n - 1 /\ KidOf(r[k], q) = r[k + 1]
    <3>1. q \in t.node[s[k]].external /\ q \in u.node[s[k]].external /\ q < st[k].stride
      BY <2>2, <2>5
    <3>2. KidOf(s[k], q) \in u.paths
      BY <1>3, <2>2, <3>1, NodeOfShape
    <3>3. CASE t.node[KidOf(s[k], q)] = ZeroNode
      <4>1. u.node[KidOf(s[k], q)] = ZeroNode
        BY <1>4, <3>2, <3>3
      <4> QED BY <2>2, <4>1
    <3>4. CASE KidOf(s[k], q) = s[k + 1]
      <4>1. CASE k < n - 1
        BY <2>2, <2>4, <3>4, <4>1
      <4>2. CASE ~ (k < n - 1)
        <5>1. k + 1 = n
          BY <1>1, <2>1, <4>2
        <5>2. u.node[KidOf(s[k], q)] = ZeroNode
          BY <1>4, <3>4, <5>1
        <5> QED BY <2>2, <5>2
      <4> QED BY <4>1, <4>2
    <3> QED BY <2>3, <3>1, <3>3, <3>4
  <2>6. k < n - 1 => /\ sr[k].stride - 1 \in u.node[r[k]].external
                     /\ r[k + 1] = KidOf(r[k], sr[k].stride - 1)
    BY <2>2, <2>3, <2>4
  <2>7. Len(r[k]) = (k - 1) * STRIDE /\ sr[k].node = PtrTo(u, r[k])
    BY <2>2, <2>3
  <2> QED BY <1>8, <2>5, <2>6, <2>7 DEF FrameOK
<1>11. r[1] = <<>> /\ Len(r) >= 1 /\ Len(r) = Len(sr)
  BY <1>1, <1>2, <1>8, <1>9
<1>12. Frames(u, r, sr)
  BY <1>8, <1>9, <1>10, <1>11 DEF Frames
<1> QED BY <1>12 DEF r, sr

-----------------------------------------------------------------------------
\* bitmap_destroy_trie calls destroy_subtrie for the root.
LEMMA CallDestroyOK ==
  ASSUME NEW t, MemoryOK(t), Walk(t), CallDestroy
  PROVE  \E u : /\ MemoryOK(u)' /\ Walk(u)'
                /\ pc = "idle" /\ pc' = "destroy" /\ before' = TrieOf(t)
<1>1. /\ pc = "idle" /\ pc' = "destroy" /\ Enter(Root, <<>>) /\ before' = TrieOf(t)
      /\ UNCHANGED <<op, arg, nhi, node, level, trace, i, node_need_to_del>>
  BY TrieInMemoryIs DEF CallDestroy
<1>2. IdleOK(t) /\ IsShape(t) /\ <<>> \in t.paths
  BY <1>1 DEF Walk, MemoryOK, IsShape
<1>3. PtrTo(t, <<>>) = Root
  BY DEF PtrTo
<1>4. PICK b, frames : b = <<>> /\ frames = <<>>
  OBVIOUS
<1>5. b \in t.paths /\ PtrTo(t, b) = Root /\ Enter(PtrTo(t, b), frames)
  BY <1>1, <1>2, <1>3, <1>4
<1>6. /\ stack' = Append(frames, [node |-> PtrTo(t, b), stride |-> 0])
      /\ \E u : /\ IsShape(u) /\ InMemory(u, root', heap', op)
                /\ u.paths = t.paths
                /\ \A c \in t.paths : u.node[c] = t.node[c]
  BY <1>5, EnterNode
<1>7. PICK u : IsShape(u) /\ InMemory(u, root', heap', op)
  BY <1>6
<1>8. MemoryOK(u)'
  BY <1>1, <1>7 DEF MemoryOK
<1>9. PICK f : f = [node |-> Root, stride |-> 0]
  OBVIOUS
<1>10. stack' = <<f>>
  <2>1. Append(<<>>, f) = <<f>>
    OBVIOUS
  <2> QED BY <1>4, <1>5, <1>6, <1>9, <2>1
<1>11. PICK s : s = <<b>>
  OBVIOUS
<1>12. Frames(u, s, <<f>>)
  BY <1>4, <1>7, <1>9, <1>11, FirstFrame
<1>13. IsTrie(TrieOf(t))
  BY <1>2, TrieOfIsTrie DEF IdleOK
<1>14. AtRest'
  BY <1>1, <1>2 DEF IdleOK, AtRest
<1>15. DestroyOK(u)'
  BY <1>1, <1>10, <1>12, <1>13, <1>14 DEF DestroyOK
<1> QED BY <1>1, <1>8, <1>15 DEF Walk

\* The node that destroy_subtrie is at.
LEMMA DestroyFacts ==
  ASSUME NEW t, MemoryOK(t), Walk(t), pc = "destroy"
  PROVE  /\ IsShape(t) /\ AtRest /\ IsTrie(before)
         /\ \E s, b, k :
              /\ Frames(t, s, stack) /\ k = Len(stack) /\ k = Len(s) /\ k \in Nat /\ k >= 1
              /\ b = s[k] /\ b \in t.paths /\ Len(b) = (k - 1) * STRIDE
              /\ Top.node = PtrTo(t, b) /\ At(Top.node) = t.node[b]
              /\ Top.stride \in Nat
              /\ ChildrenToCome = {pos \in t.node[b].external : pos >= Top.stride}
              /\ t.node[b].external \subseteq Nat
              /\ \A pos \in t.node[b].external :
                   pos < Top.stride => t.node[KidOf(b, pos)] = ZeroNode
<1>1. IsShape(t) /\ DestroyOK(t)
  BY DEF MemoryOK, Walk
<1>2. AtRest /\ IsTrie(before)
  BY <1>1 DEF DestroyOK
<1>3. PICK s : Frames(t, s, stack)
  BY <1>1 DEF DestroyOK
<1>4. PICK k, b, st : k = Len(s) /\ b = s[k] /\ st = stack
  OBVIOUS
<1>5. /\ k \in Nat /\ k >= 1 /\ k = Len(st) /\ k \in 1 .. k
      /\ b \in t.paths /\ st[k] \in Frame /\ FrameOK(t, s, st, k)
  <2>1. PICK P : P = t.paths
    OBVIOUS
  <2>2. s \in Seq(P) /\ st \in Seq(Frame)
    BY <1>3, <1>4, <2>1 DEF Frames
  <2>3. /\ Len(s) \in Nat /\ \A m \in 1 .. Len(s) : s[m] \in P
        /\ Len(st) \in Nat /\ \A m \in 1 .. Len(st) : st[m] \in Frame
    BY <2>2, SeqMembers
  <2>4. /\ Len(s) = Len(st) /\ Len(s) >= 1
        /\ \A m \in 1 .. Len(s) : FrameOK(t, s, st, m)
    BY <1>3, <1>4 DEF Frames
  <2>5. k \in 1 .. k /\ k \in Nat
    BY <1>4, <2>3, <2>4
  <2> QED BY <1>4, <2>1, <2>3, <2>4, <2>5
<1>6. Top = st[k] /\ Top.stride \in Nat
  BY <1>4, <1>5 DEF Top, Frame
<1>7. /\ Len(b) = (k - 1) * STRIDE
      /\ st[k].node = PtrTo(t, b)
      /\ \A pos \in t.node[b].external :
           pos < st[k].stride => t.node[KidOf(b, pos)] = ZeroNode
  BY <1>4, <1>5 DEF FrameOK
<1>8. At(Top.node) = t.node[b]
  BY <1>5, <1>6, <1>7, AtPtrTo
<1>9. t.node[b].external \subseteq Nat
  BY <1>1, <1>5, NodeOfShape, PowStride
<1>10. ChildrenToCome = {pos \in t.node[b].external : pos >= Top.stride}
  BY <1>8 DEF ChildrenToCome
<1> QED BY <1>1, <1>2, <1>3, <1>4, <1>5, <1>6, <1>7, <1>8, <1>9, <1>10

\* destroy_subtrie calls itself for the next child.
LEMMA DestroyChildOK ==
  ASSUME NEW t, MemoryOK(t), Walk(t), DestroyChild
  PROVE  \E u : /\ MemoryOK(u)' /\ Walk(u)'
                /\ pc = "destroy" /\ pc' = "destroy" /\ before' = before
<1>1. PICK pos : pos = Min(ChildrenToCome)
  OBVIOUS
<1>2. PICK frames : frames = TopMoved(stack, pos + 1)
  OBVIOUS
<1>3. /\ pc = "destroy" /\ ChildrenToCome # {}
      /\ Enter(next_child(At(Top.node), pos), frames)
      /\ UNCHANGED <<op, pc, arg, nhi, node, level, trace, i, node_need_to_del, before>>
  BY <1>1, <1>2 DEF DestroyChild, TopMoved
<1>4. IsShape(t) /\ AtRest /\ IsTrie(before)
  BY <1>3, DestroyFacts
<1>5. PICK s, b, k :
        /\ Frames(t, s, stack) /\ k = Len(stack) /\ k = Len(s) /\ k \in Nat /\ k >= 1
        /\ b = s[k] /\ b \in t.paths
        /\ At(Top.node) = t.node[b]
        /\ Top.stride \in Nat
        /\ ChildrenToCome = {q \in t.node[b].external : q >= Top.stride}
        /\ t.node[b].external \subseteq Nat
  BY <1>3, DestroyFacts
<1>6. PICK st : st = stack
  OBVIOUS
<1>7. Top = st[Len(st)] /\ Frames(t, s, st) /\ Len(s) = Len(st) /\ b = s[Len(s)]
  BY <1>5, <1>6 DEF Top
<1>8. /\ pos \in t.node[b].external /\ pos >= st[Len(st)].stride
      /\ \A q \in t.node[b].external : q >= st[Len(st)].stride => pos <= q
  <2>1. PICK S : S = ChildrenToCome
    OBVIOUS
  <2>2. S \subseteq Nat /\ S # {}
    BY <1>3, <1>5, <2>1
  <2>3. pos \in S /\ \A q \in S : pos <= q
    BY <1>1, <2>1, <2>2, MinOfNats
  <2> QED BY <1>5, <1>7, <2>1, <2>3
<1>9. PICK c : c = KidOf(b, pos)
  OBVIOUS
<1>10. c \in t.paths
  BY <1>4, <1>5, <1>8, <1>9, NodeOfShape
<1>11. Enter(PtrTo(t, c), frames)
  <2>1. next_child(t.node[b], pos) = PtrTo(t, c)
    BY <1>4, <1>5, <1>8, <1>9, NextChildPtr
  <2> QED BY <1>3, <1>5, <2>1
<1>12. /\ stack' = Append(frames, [node |-> PtrTo(t, c), stride |-> 0])
       /\ \E u : /\ IsShape(u) /\ InMemory(u, root', heap', op)
                 /\ u.paths = t.paths
                 /\ \A d \in t.paths : u.node[d] = t.node[d]
  BY <1>10, <1>11, EnterNode
<1>13. PICK u : /\ IsShape(u) /\ InMemory(u, root', heap', op)
                /\ u.paths = t.paths
                /\ \A d \in t.paths : u.node[d] = t.node[d]
  BY <1>12
<1>14. MemoryOK(u)'
  BY <1>3, <1>13 DEF MemoryOK
<1>15. PtrTo(u, c) = PtrTo(t, c) /\ PtrTo(u, c) \in Pointer
  BY <1>4, <1>10, <1>13, SamePtr, AtPtrTo
<1>16. PICK f, s1 : f = [node |-> PtrTo(u, c), stride |-> 0] /\ s1 = Append(s, c)
  OBVIOUS
<1>17. stack' = Append(frames, f)
  BY <1>12, <1>15, <1>16
<1>18. Frames(u, s1, Append(frames, f))
  BY <1>2, <1>4, <1>6, <1>7, <1>8, <1>9, <1>13, <1>15, <1>16, FramePushed
<1>19. AtRest'
  BY <1>3, <1>4 DEF AtRest
<1>20. DestroyOK(u)'
  BY <1>3, <1>4, <1>17, <1>18, <1>19 DEF DestroyOK
<1> QED BY <1>3, <1>14, <1>20 DEF Walk

\* destroy_subtrie is done with the children of a node: node and block go.
LEMMA DestroyNodeOK ==
  ASSUME NEW t, MemoryOK(t), Walk(t), DestroyNode
  PROVE  \E u : /\ MemoryOK(u)' /\ Walk(u)' /\ pc = "destroy"
                /\ \/ pc' = "destroy" /\ before' = before
                   \/ pc' = "idle" /\ TrieOf(u) = EmptyTrie
<1>1. PICK n, p : n = At(Top.node) /\ p = Top.node
  OBVIOUS
<1>2. /\ pc = "destroy" /\ ChildrenToCome = {}
      /\ Store(p, ZeroNode,
               [c \in DOMAIN heap \ Freed(n, UP_RULE(rule_num(n))) |-> heap[c]])
      /\ op' = op
      /\ IF Len(stack) > 1
         THEN /\ stack' = SubSeq(stack, 1, Len(stack) - 1)
              /\ UNCHANGED <<pc, arg, nhi, node, level, trace, i, node_need_to_del, before>>
         ELSE Return
  BY <1>1 DEF DestroyNode
<1>3. IsShape(t) /\ AtRest /\ IsTrie(before)
  BY <1>2, DestroyFacts
<1>4. PICK s, b, k :
        /\ Frames(t, s, stack) /\ k = Len(stack) /\ k = Len(s) /\ k \in Nat /\ k >= 1
        /\ b = s[k] /\ b \in t.paths
        /\ Top.node = PtrTo(t, b) /\ At(Top.node) = t.node[b]
        /\ Top.stride \in Nat
        /\ ChildrenToCome = {q \in t.node[b].external : q >= Top.stride}
        /\ t.node[b].external \subseteq Nat
        /\ \A q \in t.node[b].external :
             q < Top.stride => t.node[KidOf(b, q)] = ZeroNode
  BY <1>2, DestroyFacts
<1>5. \A q \in n.external : t.node[KidOf(b, q)] = ZeroNode
  <2> TAKE q \in n.external
  <2>1. q \in t.node[b].external /\ q \in Nat
    BY <1>1, <1>4
  <2>2. ~ (q >= Top.stride)
    BY <1>2, <1>4, <2>1
  <2> QED BY <1>4, <2>1, <2>2
<1>6. PICK rs : rs = [q \in {} |-> NULL]
  OBVIOUS
<1>7. NodeBecomes(t, b, ZeroNode, rs)
  BY <1>1, <1>2, <1>4, <1>5, <1>6, DropNode
<1>8. PICK u : u = Changed(t, b, ZeroNode, rs)
  OBVIOUS
<1>9. MemoryOK(u)'
  BY <1>2, <1>7, <1>8, Became
<1>10. Fits(t, b, ZeroNode, rs) /\ IsShape(u)
  BY <1>3, <1>4, <1>7, <1>8, ChangedShape DEF NodeBecomes
<1>11. CASE Len(stack) > 1
  <2>1. stack' = SubSeq(stack, 1, Len(stack) - 1)
        /\ UNCHANGED <<pc, arg, nhi, node, level, trace, i, node_need_to_del, before>>
    BY <1>2, <1>11
  <2>2. PICK st : st = stack
    OBVIOUS
  <2>3. Frames(u, SubSeq(s, 1, k - 1), SubSeq(st, 1, k - 1))
    BY <1>3, <1>4, <1>8, <1>10, <1>11, <2>2, FramePopped
  <2>4. Frames(u, SubSeq(s, 1, k - 1), stack')
    BY <1>4, <2>1, <2>2, <2>3
  <2>5. AtRest'
    BY <1>3, <2>1 DEF AtRest
  <2>6. DestroyOK(u)'
    BY <1>3, <2>1, <2>4, <2>5 DEF DestroyOK
  <2> QED BY <1>2, <1>9, <2>1, <2>6 DEF Walk
<1>12. CASE ~ (Len(stack) > 1)
  <2>1. Return
    BY <1>2, <1>12
  <2>2. b = <<>>
    <3>1. k = 1
      BY <1>4, <1>12
    <3>2. s[1] = <<>>
      BY <1>4 DEF Frames
    <3> QED BY <1>4, <3>1, <3>2
  <2>3. u.node[<<>>] = ZeroNode
    BY <1>3, <1>4, <1>8, <1>10, <2>2, ChangedNodes
  <2>4. TrieOf(u) = EmptyTrie
    BY <1>10, <2>3, OnlyRoot
  <2>5. IsTable(TrieOf(u).inl)
    BY <2>4, EmptyTrieOK DEF EmptyTrie
  <2>6. IdleOK(u)'
    BY <2>1, <2>5 DEF Return, IdleOK, AtRest
  <2>7. pc' = "idle"
    BY <2>1 DEF Return
  <2> QED BY <1>2, <1>9, <2>4, <2>6, <2>7 DEF Walk
<1> QED BY <1>11, <1>12

-----------------------------------------------------------------------------
(***************************************************************************)
(* Every operation leads from nodes in memory to nodes in memory, and when *)
(* it returns these are the trie that the operator of BitmapTrie computes. *)
(***************************************************************************)
\* Nothing changes but what the memory does not hold.
LEMMA StutterOK ==
  ASSUME NEW t, MemoryOK(t), Walk(t), UNCHANGED vars
  PROVE  MemoryOK(t)' /\ Walk(t)'
<1>1. UNCHANGED <<root, heap, op, pc, arg, nhi, node, level, trace, i,
                  node_need_to_del, stack, before>>
  BY DEF vars
<1>2. MemoryOK(t)'
  BY <1>1, Untouched
<1>3. CASE pc = "idle" /\ IdleOK(t)
  BY <1>1, <1>2, <1>3 DEF Walk, IdleOK, AtRest
<1>4. CASE pc = "insert" /\ InsertOK(t)
  BY <1>1, <1>2, <1>4 DEF Walk, InsertOK, OnWay, PathAt
<1>5. CASE pc = "delete" /\ DeleteOK(t)
  BY <1>1, <1>2, <1>5 DEF Walk, DeleteOK, OnWay, PathAt, TraceAt
<1>6. CASE pc = "update" /\ UpdateOK(t)
  BY <1>1, <1>2, <1>6 DEF Walk, UpdateOK, PathAt, TraceAt, Gone
<1>7. CASE pc = "destroy" /\ DestroyOK(t)
  BY <1>1, <1>2, <1>7 DEF Walk, DestroyOK, AtRest
<1> QED BY <1>2, <1>3, <1>4, <1>5, <1>6, <1>7 DEF Walk

\* What a step does to the trie that the memory is, and to the one noted when the
\* operation began.
StepsTo(t, u) ==
  \/ /\ pc = "idle" /\ pc' # "idle" /\ before' = TrieOf(t)
  \/ /\ pc # "idle" /\ pc' # "idle" /\ before' = before
  \/ /\ pc # "idle" /\ pc' = "idle"
     /\ \/ \E p \in Inputs, h \in NHI : TrieOf(u) = InsertPrefix(before, p, h)
        \/ \E p \in Inputs : PrefixExist(before, p) /\ TrieOf(u) = DeletePrefix(before, p).trie
        \/ TrieOf(u) = EmptyTrie

\* Every step keeps memory and walk right, and does to the trie what StepsTo says.
LEMMA StepOK ==
  ASSUME NEW t, MemoryOK(t), Walk(t), op \in {"simple", "color"}, Next
  PROVE  /\ \E u : MemoryOK(u)' /\ Walk(u)' /\ StepsTo(t, u)
         /\ op' = op
<1>1. ASSUME NEW p \in Inputs, NEW h \in NHI, CallInsert(p, h)
      PROVE  (\E u : MemoryOK(u)' /\ Walk(u)' /\ StepsTo(t, u)) /\ op' = op
  <2>1. MemoryOK(t)' /\ Walk(t)' /\ pc = "idle" /\ pc' = "insert" /\ before' = TrieOf(t)
    BY <1>1, CallInsertOK
  <2>2. StepsTo(t, t)
    BY <2>1 DEF StepsTo
  <2>3. op' = op
    BY <1>1 DEF CallInsert, Call
  <2> QED BY <2>1, <2>2, <2>3
<1>2. ASSUME InsertRule
      PROVE  (\E u : MemoryOK(u)' /\ Walk(u)' /\ StepsTo(t, u)) /\ op' = op
  <2>1. PICK u : /\ MemoryOK(u)' /\ Walk(u)'
                 /\ TrieOf(u) = InsertPrefix(before, arg, nhi)
                 /\ arg \in Inputs /\ nhi \in NHI /\ pc' = "idle"
    BY <1>2, InsertRuleOK
  <2>2. pc = "insert" /\ op' = op
    BY <1>2 DEF InsertRule
  <2>3. StepsTo(t, u)
    BY <2>1, <2>2 DEF StepsTo
  <2> QED BY <2>1, <2>2, <2>3
<1>3. ASSUME InsertDescend
      PROVE  (\E u : MemoryOK(u)' /\ Walk(u)' /\ StepsTo(t, u)) /\ op' = op
  <2>1. pc = "insert" /\ pc' = "insert" /\ before' = before
    BY <1>3, InsertDescendOK
  <2>2. PICK u : MemoryOK(u)' /\ Walk(u)'
    BY <1>3, InsertDescendOK
  <2>3. StepsTo(t, u) /\ op' = op
    BY <1>3, <2>1 DEF StepsTo, InsertDescend
  <2> QED BY <2>2, <2>3
<1>4. ASSUME NEW p \in Inputs, CallDelete(p)
      PROVE  (\E u : MemoryOK(u)' /\ Walk(u)' /\ StepsTo(t, u)) /\ op' = op
  <2>1. MemoryOK(t)' /\ Walk(t)' /\ pc = "idle" /\ pc' = "delete" /\ before' = TrieOf(t)
    BY <1>4, CallDeleteOK
  <2>2. StepsTo(t, t)
    BY <2>1 DEF StepsTo
  <2>3. op' = op
    BY <1>4 DEF CallDelete, Call
  <2> QED BY <2>1, <2>2, <2>3
<1>5. ASSUME DeleteDescend
      PROVE  (\E u : MemoryOK(u)' /\ Walk(u)' /\ StepsTo(t, u)) /\ op' = op
  <2>1. /\ MemoryOK(t)' /\ Walk(t)'
        /\ pc = "delete" /\ pc' \in {"delete", "update"} /\ before' = before
    BY <1>5, DeleteDescendOK
  <2>2. StepsTo(t, t)
    BY <2>1 DEF StepsTo
  <2>3. op' = op
    BY <1>5 DEF DeleteDescend
  <2> QED BY <2>1, <2>2, <2>3
<1>6. ASSUME UpdateLast \/ UpdateAbove
      PROVE  (\E u : MemoryOK(u)' /\ Walk(u)' /\ StepsTo(t, u)) /\ op' = op
  <2>1. PICK u : /\ MemoryOK(u)' /\ Walk(u)'
                 /\ arg \in Inputs /\ PrefixExist(before, arg)
                 /\ pc = "update"
                 /\ \/ pc' = "update" /\ before' = before
                    \/ pc' = "idle" /\ TrieOf(u) = DeletePrefix(before, arg).trie
    BY <1>6, UpdateLastOK, UpdateAboveOK
  <2>2. StepsTo(t, u)
    BY <2>1 DEF StepsTo
  <2>3. op' = op
    BY <1>6 DEF UpdateLast, UpdateAbove
  <2> QED BY <2>1, <2>2, <2>3
<1>7. ASSUME CallDestroy
      PROVE  (\E u : MemoryOK(u)' /\ Walk(u)' /\ StepsTo(t, u)) /\ op' = op
  <2>1. PICK u : /\ MemoryOK(u)' /\ Walk(u)'
                 /\ pc = "idle" /\ pc' = "destroy" /\ before' = TrieOf(t)
    BY <1>7, CallDestroyOK
  <2>2. StepsTo(t, u) /\ op' = op
    BY <1>7, <2>1 DEF StepsTo, CallDestroy
  <2> QED BY <2>1, <2>2
<1>8. ASSUME DestroyChild
      PROVE  (\E u : MemoryOK(u)' /\ Walk(u)' /\ StepsTo(t, u)) /\ op' = op
  <2>1. PICK u : /\ MemoryOK(u)' /\ Walk(u)'
                 /\ pc = "destroy" /\ pc' = "destroy" /\ before' = before
    BY <1>8, DestroyChildOK
  <2>2. StepsTo(t, u) /\ op' = op
    BY <1>8, <2>1 DEF StepsTo, DestroyChild
  <2> QED BY <2>1, <2>2
<1>9. ASSUME DestroyNode
      PROVE  (\E u : MemoryOK(u)' /\ Walk(u)' /\ StepsTo(t, u)) /\ op' = op
  <2>1. PICK u : /\ MemoryOK(u)' /\ Walk(u)' /\ pc = "destroy"
                 /\ \/ pc' = "destroy" /\ before' = before
                    \/ pc' = "idle" /\ TrieOf(u) = EmptyTrie
    BY <1>9, DestroyNodeOK
  <2>2. StepsTo(t, u) /\ op' = op
    BY <1>9, <2>1 DEF StepsTo, DestroyNode
  <2> QED BY <2>1, <2>2
<1> QED BY <1>1, <1>2, <1>3, <1>4, <1>5, <1>6, <1>7, <1>8, <1>9 DEF Next

\* At every moment of an operation the blocks in use are the memory of the
\* nodes of a trie, and the pointers of the operation lead to its nodes.
THEOREM InvAlways == Spec => []Inv
<1>1. Init => Inv
  <2> SUFFICES ASSUME Init PROVE Inv
    OBVIOUS
  <2>1. \E t : MemoryOK(t) /\ Walk(t)
    BY InitOK
  <2>2. op \in {"simple", "color"}
    BY DEF Init
  <2> QED BY <2>1, <2>2 DEF Inv
<1>2. Inv /\ [Next]_vars => Inv'
  <2> SUFFICES ASSUME Inv, [Next]_vars PROVE Inv'
    OBVIOUS
  <2>1. PICK t : MemoryOK(t) /\ Walk(t)
    BY DEF Inv
  <2>2. op \in {"simple", "color"}
    BY DEF Inv
  <2>3. CASE Next
    BY <2>1, <2>2, <2>3, StepOK DEF Inv
  <2>4. CASE UNCHANGED vars
    <3>1. MemoryOK(t)' /\ Walk(t)'
      BY <2>1, <2>4, StutterOK
    <3>2. op' = op
      BY <2>4 DEF vars
    <3> QED BY <2>2, <3>1, <3>2 DEF Inv
  <2> QED BY <2>3, <2>4
<1> QED BY <1>1, <1>2, PTL DEF Spec

\* What is read from the memory is the trie of its nodes.
MemoryIsRead ==
  \A t : MemoryOK(t) => TrieInMemory = TrieOf(t)

\* As MemoryIsRead holds in every state, it holds in the next one.
LEMMA MemoryIsReadAlways == Spec => []MemoryIsRead
<1>1. MemoryIsRead
  BY TrieInMemoryIs DEF MemoryIsRead
<1> QED BY <1>1, PTL

\* The operators of the abstract trie are those of this module.
LEMMA SameEmptyTrie == AbstractTrie!EmptyTrie = EmptyTrie
BY DEF AbstractTrie!EmptyTrie, AbstractTrie!EmptyTable, EmptyTrie, EmptyTable

\* So is insertion,
LEMMA SameInsertPrefix ==
  ASSUME NEW w, NEW p, NEW h
  PROVE  AbstractTrie!InsertPrefix(w, p, h) = InsertPrefix(w, p, h)
<1>1. AbstractTrie!Put(w.inl, p, h) = Put(w.inl, p, h)
  BY DEF AbstractTrie!Put, Put
<1>2. AbstractTrie!Branch(p) = Branch(p)
  BY DEF AbstractTrie!Branch, AbstractTrie!Take, Branch, Take
<1> QED BY <1>1, <1>2 DEF AbstractTrie!InsertPrefix, InsertPrefix

\* the walk of update_nodes,
LEMMA SameNeedToDel ==
  ASSUME NEW w, NEW p
  PROVE  AbstractTrie!NeedToDel(w, p) = NeedToDel(w, p)
<1>1. \A x, m : AbstractTrie!Take(x, m) = Take(x, m)
  BY DEF AbstractTrie!Take, Take
<1>2. \A x : AbstractTrie!NodeOf(x) = NodeOf(x)
  BY <1>1 DEF AbstractTrie!NodeOf, NodeOf
<1>3. \A x, y : AbstractTrie!Covers(x, y) <=> Covers(x, y)
  BY <1>1 DEF AbstractTrie!Covers, Covers
<1>4. ASSUME NEW m PROVE AbstractTrie!RulesLeft(w, p, m) = RulesLeft(w, p, m)
  BY <1>1, <1>2 DEF AbstractTrie!RulesLeft, RulesLeft
<1>5. ASSUME NEW m PROVE AbstractTrie!ChildrenLeft(w, p, m) = ChildrenLeft(w, p, m)
  BY <1>1, <1>3 DEF AbstractTrie!ChildrenLeft, ChildrenLeft
<1>6. \A m : AbstractTrie!Emptied(w, p, m) <=> Emptied(w, p, m)
  BY <1>4, <1>5 DEF AbstractTrie!Emptied, Emptied
<1> QED BY <1>6 DEF AbstractTrie!NeedToDel, NeedToDel

\* deletion,
LEMMA SameDeletePrefix ==
  ASSUME NEW w, NEW p
  PROVE  AbstractTrie!DeletePrefix(w, p) = DeletePrefix(w, p)
<1>1. AbstractTrie!Remove(w.inl, p) = Remove(w.inl, p)
  BY DEF AbstractTrie!Remove, Remove
<1>2. \A m : AbstractTrie!Take(p, m) = Take(p, m)
  BY DEF AbstractTrie!Take, Take
<1>3. AbstractTrie!NeedToDel(w, p) = NeedToDel(w, p)
  BY SameNeedToDel
<1> QED BY <1>1, <1>2, <1>3 DEF AbstractTrie!DeletePrefix, DeletePrefix

\* and membership.
LEMMA SamePrefixExist ==
  ASSUME NEW w, NEW p
  PROVE  AbstractTrie!PrefixExist(w, p) <=> PrefixExist(w, p)
<1>1. \A m : AbstractTrie!Take(p, m) = Take(p, m)
  BY DEF AbstractTrie!Take, Take
<1> QED BY <1>1 DEF AbstractTrie!PrefixExist, PrefixExist, AbstractTrie!Reached, Reached

\* Nodes in blocks, rebuilt and walked turn by turn, implement the trie that is
\* a value: each operation takes effect once, when it returns.
THEOREM HeapImplementsTrie == Spec => ImplementsTrie
<1>1. Init /\ MemoryIsRead => AbstractTrie!Init
  <2> SUFFICES ASSUME Init, MemoryIsRead PROVE AbstractTrie!Init
    OBVIOUS
  <2>1. TrieInMemory = EmptyTrie
    <3>1. PICK t : MemoryOK(t) /\ TrieOf(t) = EmptyTrie
      BY InitOK
    <3> QED BY <3>1 DEF MemoryIsRead
  <2>2. pc = "idle"
    BY DEF Init
  <2> QED BY <2>1, <2>2, SameEmptyTrie DEF AbstractTrie!Init
<1>2. Inv /\ MemoryIsRead /\ MemoryIsRead' /\ [Next]_vars
        => [AbstractTrie!Next]_(IF pc = "idle" THEN TrieInMemory ELSE before)
  <2> SUFFICES ASSUME Inv, MemoryIsRead, MemoryIsRead', [Next]_vars
               PROVE  [AbstractTrie!Next]_(IF pc = "idle" THEN TrieInMemory ELSE before)
    OBVIOUS
  <2>1. PICK t : MemoryOK(t) /\ Walk(t)
    BY DEF Inv
  <2>2. op \in {"simple", "color"}
    BY DEF Inv
  <2>3. TrieInMemory = TrieOf(t)
    BY <2>1 DEF MemoryIsRead
  <2>4. CASE Next
    <3>1. PICK u : MemoryOK(u)' /\ Walk(u)' /\ StepsTo(t, u)
      BY <2>1, <2>2, <2>4, StepOK
    <3>2. TrieInMemory' = TrieOf(u)
      BY <3>1 DEF MemoryIsRead
    <3>3. CASE pc = "idle" /\ pc' # "idle" /\ before' = TrieOf(t)
      BY <2>3, <3>3
    <3>4. CASE pc # "idle" /\ pc' # "idle" /\ before' = before
      BY <3>4
    <3>5. CASE /\ pc # "idle" /\ pc' = "idle"
               /\ \E p \in Inputs, h \in NHI : TrieOf(u) = InsertPrefix(before, p, h)
      <4>1. PICK p \in Inputs, h \in NHI : TrieOf(u) = InsertPrefix(before, p, h)
        BY <3>5
      <4>2. TrieInMemory' = AbstractTrie!InsertPrefix(before, p, h)
        BY <3>2, <4>1, SameInsertPrefix
      <4>3. AbstractTrie!Insert(p, h)
        BY <3>5, <4>2 DEF AbstractTrie!Insert
      <4> QED BY <4>3 DEF AbstractTrie!Next
    <3>6. CASE /\ pc # "idle" /\ pc' = "idle"
               /\ \E p \in Inputs : /\ PrefixExist(before, p)
                                    /\ TrieOf(u) = DeletePrefix(before, p).trie
      <4>1. PICK p \in Inputs : /\ PrefixExist(before, p)
                                /\ TrieOf(u) = DeletePrefix(before, p).trie
        BY <3>6
      <4>2. TrieInMemory' = AbstractTrie!DeletePrefix(before, p).trie
        BY <3>2, <4>1, SameDeletePrefix
      <4>3. AbstractTrie!PrefixExist(before, p)
        BY <4>1, SamePrefixExist
      <4>4. AbstractTrie!Delete(p)
        BY <3>6, <4>2, <4>3 DEF AbstractTrie!Delete
      <4> QED BY <4>4 DEF AbstractTrie!Next
    <3>7. CASE pc # "idle" /\ pc' = "idle" /\ TrieOf(u) = EmptyTrie
      <4>1. AbstractTrie!Destroy
        BY <3>2, <3>7, SameEmptyTrie DEF AbstractTrie!Destroy
      <4> QED BY <4>1 DEF AbstractTrie!Next
    <3> QED BY <3>1, <3>3, <3>4, <3>5, <3>6, <3>7 DEF StepsTo
  <2>5. CASE UNCHANGED vars
    <3>1. MemoryOK(t)' /\ pc' = pc /\ before' = before
      BY <2>1, <2>5, StutterOK DEF vars
    <3>2. TrieInMemory' = TrieOf(t)
      BY <3>1 DEF MemoryIsRead
    <3> QED BY <2>3, <3>1, <3>2
  <2> QED BY <2>4, <2>5
<1> QED BY <1>1, <1>2, InvAlways, MemoryIsReadAlways, PTL
       DEF Spec, ImplementsTrie, AbstractTrie!Spec

-----------------------------------------------------------------------------
(***************************************************************************)
(* What the invariant says of the pointers, and of the blocks.             *)
(***************************************************************************)
\* The pointers that the walks keep are those to the nodes they came by.
LEMMA WalkFollows ==
  ASSUME NEW t, MemoryOK(t), Walk(t)
  PROVE  WalkIsOnPath
<1>1. IsShape(t)
  BY DEF MemoryOK
<1>2. \A b \in t.paths : PointerTo(b, Reachable) = PtrTo(t, b)
  BY ReachableAre
<1>3. ASSUME pc \in {"insert", "delete"}
      PROVE  node = PointerTo(PathAt(level), Reachable)
  <2>1. OnWay(t)
    BY <1>3 DEF Walk, InsertOK, DeleteOK
  <2> QED BY <1>2, <2>1 DEF OnWay
<1>4. ASSUME NEW k \in DOMAIN trace, pc = "delete" \/ k <= i + 1
      PROVE  trace[k].node = PointerTo(PathAt(k - 1), Reachable)
  <2> SUFFICES /\ trace[k].node = PtrTo(t, PathAt(k - 1))
               /\ PathAt(k - 1) \in t.paths
    BY <1>2
  <2>1. CASE pc = "delete"
    <3>1. DeleteOK(t) /\ OnWay(t)
      BY <2>1 DEF Walk, DeleteOK
    <3>2. /\ arg \in Prefix /\ level \in Nat /\ level * STRIDE <= Len(arg)
          /\ Along(arg, level) \in t.paths
      BY <3>1, OnWayFacts, IsAlong DEF OnWay
    <3>3. k \in 1 .. level
      <4>1. trace \in Seq([node : Pointer, pos : EnlPos]) /\ Len(trace) = level
        BY <3>1 DEF DeleteOK
      <4> QED BY <4>1
    <3>4. k - 1 \in 0 .. level
      BY <3>2, <3>3
    <3>5. Along(arg, k - 1) \in t.paths
      BY <1>1, <3>2, <3>4, PathsClosed
    <3>6. trace[k] = TraceAt(t, k)
      BY <3>1, <3>3 DEF DeleteOK
    <3> QED BY <3>5, <3>6, IsAlong DEF TraceAt
  <2>2. CASE pc = "update" /\ k <= i + 1
    <3>1. UpdateOK(t)
      BY <2>2 DEF Walk
    <3>2. /\ arg \in Prefix /\ i \in Nat /\ i \in 0 .. level /\ i * STRIDE <= Len(arg)
          /\ Along(arg, i) \in t.paths
      BY <3>1, UpdateFacts
    <3>3. k \in 1 .. i + 1
      <4>1. trace \in Seq([node : Pointer, pos : EnlPos]) /\ Len(trace) = level + 1
        BY <3>1 DEF UpdateOK
      <4>2. k \in Nat /\ k >= 1
        BY <4>1
      <4> QED BY <2>2, <3>2, <4>2
    <3>4. k - 1 \in 0 .. i
      BY <3>2, <3>3
    <3>5. Along(arg, k - 1) \in t.paths
      BY <1>1, <3>2, <3>4, PathsClosed
    <3>6. trace[k] = TraceAt(t, k)
      BY <3>1, <3>3 DEF UpdateOK
    <3> QED BY <3>5, <3>6, IsAlong DEF TraceAt
  <2>3. CASE pc \in {"idle", "insert", "destroy"}
    <3>1. trace = <<>>
      BY <2>3 DEF Walk, IdleOK, InsertOK, DestroyOK, AtRest
    <3>2. DOMAIN <<>> = {}
      OBVIOUS
    <3> QED BY <3>1, <3>2
  <2>4. pc \in {"idle", "insert", "delete", "update", "destroy"}
    BY DEF Walk
  <2> QED BY <1>4, <2>1, <2>2, <2>3, <2>4
<1>5. ASSUME pc = "destroy"
      PROVE  /\ stack[1].node = Root
             /\ \A k \in 2 .. Len(stack) :
                  LET up == At(stack[k - 1].node)
                  IN  /\ stack[k - 1].stride - 1 \in up.external
                      /\ stack[k].node = next_child(up, stack[k - 1].stride - 1)
  <2>1. PICK s : Frames(t, s, stack)
    BY <1>5 DEF Walk, DestroyOK
  <2>2. PICK st, n : st = stack /\ n = Len(s)
    OBVIOUS
  <2>3. /\ n \in Nat /\ n >= 1 /\ n = Len(st) /\ s[1] = <<>>
        /\ \A k \in 1 .. n : s[k] \in t.paths /\ FrameOK(t, s, st, k)
    <3>1. PICK P : P = t.paths
      OBVIOUS
    <3>2. s \in Seq(P) /\ st \in Seq(Frame)
      BY <2>1, <2>2, <3>1 DEF Frames
    <3>3. Len(s) \in Nat /\ \A k \in 1 .. Len(s) : s[k] \in P
      BY <3>2, SeqMembers
    <3> QED BY <2>1, <2>2, <3>1, <3>3 DEF Frames
  <2>4. st[1].node = Root
    <3>1. 1 \in 1 .. n
      BY <2>3
    <3>2. st[1].node = PtrTo(t, s[1])
      BY <2>3, <3>1 DEF FrameOK
    <3> QED BY <2>3, <3>2 DEF PtrTo
  <2>5. ASSUME NEW k \in 2 .. n
        PROVE  /\ st[k - 1].stride - 1 \in At(st[k - 1].node).external
               /\ st[k].node = next_child(At(st[k - 1].node), st[k - 1].stride - 1)
    <3>1. PICK j : j = k - 1
      OBVIOUS
    <3>2. j \in 1 .. n /\ j < n /\ j + 1 = k /\ k \in 1 .. n
      BY <2>3, <3>1
    <3>3. PICK pos : pos = st[j].stride - 1
      OBVIOUS
    <3>4. /\ s[j] \in t.paths /\ st[j].node = PtrTo(t, s[j])
          /\ pos \in t.node[s[j]].external /\ s[k] = KidOf(s[j], pos)
          /\ st[k].node = PtrTo(t, s[k])
      BY <2>2, <2>3, <3>2, <3>3 DEF FrameOK
    <3>5. At(st[j].node) = t.node[s[j]]
      BY <3>4, AtPtrTo
    <3>6. next_child(t.node[s[j]], pos) = PtrTo(t, KidOf(s[j], pos))
      BY <1>1, <3>4, NextChildPtr
    <3> QED BY <3>1, <3>3, <3>4, <3>5, <3>6
  <2> QED BY <2>2, <2>3, <2>4, <2>5
<1> QED BY <1>3, <1>4, <1>5 DEF WalkIsOnPath

\* Every block has the node it was allocated for, and its size.
LEMMA BlocksHaveOwners ==
  ASSUME NEW t, MemoryOK(t)
  PROVE  BlocksAreOwned
<1>1. IsShape(t) /\ InMemory(t, root, heap, op)
  BY DEF MemoryOK
<1>2. Reachable = {Entry(t, b) : b \in t.paths}
  BY ReachableAre
<1>3. \A b \in t.paths : At(Entry(t, b).ptr) = t.node[b]
  BY AtPtrTo DEF Entry
<1>4. ASSUME NEW c \in DOMAIN heap, NEW x \in Owners(c, Reachable)
      PROVE  x = Entry(t, c[1]) /\ c[1] \in t.paths /\ t.node[c[1]].child_ptr = c
  <2>1. x \in Reachable /\ At(x.ptr).child_ptr = c
    BY <1>4 DEF Owners
  <2>2. PICK b \in t.paths : x = Entry(t, b)
    BY <1>2, <2>1
  <2>3. t.node[b].child_ptr = c
    BY <1>3, <2>1, <2>2
  <2>4. c # NULL
    BY <1>1, NullPointerAssumption DEF InMemory
  <2>5. c[1] = b
    BY <1>1, <2>3, <2>4 DEF InMemory, HasBlock
  <2> QED BY <2>2, <2>3, <2>5
<1>5. ASSUME NEW c \in DOMAIN heap
      PROVE  \/ Cardinality(Owners(c, Reachable)) = 1
             \/ op = "simple" /\ Owners(c, Reachable) = {} /\ heap[c].units = 0
  <2>1. CASE Owners(c, Reachable) = {}
    <3>1. ~ (c[1] \in t.paths /\ t.node[c[1]].child_ptr = c)
      <4> SUFFICES ASSUME c[1] \in t.paths, t.node[c[1]].child_ptr = c PROVE FALSE
        OBVIOUS
      <4>1. Entry(t, c[1]) \in Owners(c, Reachable)
        BY <1>2, <1>3 DEF Owners
      <4> QED BY <2>1, <4>1
    <3>2. heap[c].units = 0 /\ op = "simple"
      BY <1>1, <3>1 DEF InMemory
    <3> QED BY <2>1, <3>2
  <2>2. CASE Owners(c, Reachable) # {}
    <3>1. Owners(c, Reachable) = {Entry(t, c[1])}
      BY <1>4, <2>2
    <3>2. Cardinality({Entry(t, c[1])}) = 1
      BY FS_Singleton
    <3> QED BY <3>1, <3>2
  <2> QED BY <2>1, <2>2
<1>6. ASSUME NEW x \in Reachable
      PROVE  LET n == At(x.ptr)
             IN  IF n.child_ptr = NULL THEN IsEmpty(n)
                 ELSE /\ n.child_ptr \in DOMAIN heap
                      /\ heap[n.child_ptr].low = UP_RULE(rule_num(n))
                      /\ heap[n.child_ptr].units = UnitsOf(child_num(n), rule_num(n))
  <2>1. PICK b \in t.paths : x = Entry(t, b)
    BY <1>2
  <2>2. At(x.ptr) = t.node[b]
    BY <1>3, <2>1
  <2>3. HasBlock(t, heap, b)
    BY <1>1 DEF InMemory
  <2> QED BY <2>2, <2>3 DEF HasBlock, Holds, rule_num, child_num
<1> QED BY <1>5, <1>6 DEF BlocksAreOwned

\* At every moment of every operation, whatever the turns before have rebuilt,
\* the pointers that the loops of lib/bitmap_v4.c keep are those to the nodes
\* on their way.
THEOREM WalkStaysOnPath == Spec => []WalkIsOnPath
<1>1. Inv => WalkIsOnPath
  BY WalkFollows DEF Inv
<1> QED BY <1>1, InvAlways, PTL

\* And no block is lost or held twice: free_node and alloc_node of every
\* rebuild leave to each node one block of the size its bitmaps tell.
THEOREM EachBlockHasItsNode == Spec => []BlocksAreOwned
<1>1. Inv => BlocksAreOwned
  BY BlocksHaveOwners DEF Inv
<1> QED BY <1>1, InvAlways, PTL

-----------------------------------------------------------------------------
(***************************************************************************)
(* Sums of numbers over a finite set: what the community module's operator *)
(* returns.                                                                *)
(***************************************************************************)
Pick(s) == CHOOSE x \in s : TRUE

\* g has the sum of f over every part of S.
AddsUp(g, f, S) ==
  g = [s \in SUBSET S |-> IF s = {} THEN 0 ELSE f[Pick(s)] + g[s \ {Pick(s)}]]

\* SumFunction is the function that AddsUp says.
LEMMA SumUnfolds ==
  ASSUME NEW f
  PROVE  SumFunction(f) = (CHOOSE g : AddsUp(g, f, DOMAIN f))[DOMAIN f]
BY DEF SumFunction, SumFunctionOnSet, FoldFunctionOnSet, MapThenFoldSet, AddsUp, Pick

\* A member less.
LEMMA PickedLess ==
  ASSUME NEW S, IsFiniteSet(S), NEW s \in SUBSET S
  PROVE  /\ IsFiniteSet(s) /\ Cardinality(s) \in Nat
         /\ Cardinality(s) = 0 <=> s = {}
         /\ \A x \in s : s \ {x} \in SUBSET S /\ Cardinality(s \ {x}) = Cardinality(s) - 1
         /\ s # {} => Pick(s) \in s
<1>1. IsFiniteSet(s) /\ Cardinality(s) \in Nat
  BY FS_Subset, FS_CardinalityType
<1>2. Cardinality(s) = 0 <=> s = {}
  BY <1>1, FS_EmptySet
<1>3. ASSUME NEW x \in s
      PROVE  s \ {x} \in SUBSET S /\ Cardinality(s \ {x}) = Cardinality(s) - 1
  BY <1>1, FS_RemoveElement
<1>4. s # {} => Pick(s) \in s
  BY DEF Pick
<1> QED BY <1>1, <1>2, <1>3, <1>4

\* The sums of parts with at most n members can be told.
AddsUpTo(g, f, S, n) ==
  /\ g \in [SUBSET S -> Nat]
  /\ \A s \in SUBSET S : Cardinality(s) <= n =>
       g[s] = IF s = {} THEN 0 ELSE f[Pick(s)] + g[s \ {Pick(s)}]

\* There is one for every finite set.
LEMMA SumsExist ==
  ASSUME NEW S, IsFiniteSet(S), NEW f \in [S -> Nat]
  PROVE  \E g \in [SUBSET S -> Nat] : AddsUp(g, f, S)
<1> DEFINE N == {n \in Nat : \E g : AddsUpTo(g, f, S, n)}
<1>1. 0 \in N
  <2> DEFINE g == [s \in SUBSET S |-> 0]
  <2>1. g \in [SUBSET S -> Nat]
    OBVIOUS
  <2>2. ASSUME NEW s \in SUBSET S, Cardinality(s) <= 0 PROVE s = {}
    BY <2>2, PickedLess
  <2>3. AddsUpTo(g, f, S, 0)
    BY <2>1, <2>2 DEF AddsUpTo
  <2> QED BY <2>3
<1>2. ASSUME NEW n \in N PROVE n + 1 \in N
  <2>1. PICK g : AddsUpTo(g, f, S, n)
    OBVIOUS
  <2>2. n \in Nat
    OBVIOUS
  <2> DEFINE h == [s \in SUBSET S |->
                     IF Cardinality(s) <= n THEN g[s]
                     ELSE f[Pick(s)] + g[s \ {Pick(s)}]]
  <2>3. ASSUME NEW s \in SUBSET S
        PROVE  /\ h[s] \in Nat
               /\ Cardinality(s) <= n + 1 =>
                    h[s] = IF s = {} THEN 0 ELSE f[Pick(s)] + h[s \ {Pick(s)}]
    <3>1. Cardinality(s) \in Nat /\ (Cardinality(s) = 0 <=> s = {})
      BY PickedLess
    <3>2. CASE Cardinality(s) <= n
      <4>1. h[s] = g[s] /\ g[s] \in Nat
        BY <2>1, <3>2 DEF AddsUpTo
      <4>2. CASE s = {}
        BY <2>1, <3>2, <4>1, <4>2 DEF AddsUpTo
      <4>3. CASE s # {}
        <5>1. Pick(s) \in s /\ s \ {Pick(s)} \in SUBSET S
              /\ Cardinality(s \ {Pick(s)}) = Cardinality(s) - 1
          BY <4>3, PickedLess
        <5>2. h[s \ {Pick(s)}] = g[s \ {Pick(s)}]
          BY <2>2, <3>1, <3>2, <5>1
        <5>3. g[s] = f[Pick(s)] + g[s \ {Pick(s)}]
          BY <2>1, <3>2, <4>3 DEF AddsUpTo
        <5> QED BY <4>1, <4>3, <5>2, <5>3
      <4> QED BY <4>2, <4>3
    <3>3. CASE ~ (Cardinality(s) <= n)
      <4>1. s # {}
        BY <2>2, <3>1, <3>3
      <4>2. Pick(s) \in s /\ s \ {Pick(s)} \in SUBSET S
            /\ Cardinality(s \ {Pick(s)}) = Cardinality(s) - 1
        BY <4>1, PickedLess
      <4>3. h[s] = f[Pick(s)] + g[s \ {Pick(s)}]
        BY <3>3
      <4>4. f[Pick(s)] \in Nat /\ g[s \ {Pick(s)}] \in Nat
        BY <2>1, <4>2 DEF AddsUpTo
      <4>5. Cardinality(s) <= n + 1 => h[s \ {Pick(s)}] = g[s \ {Pick(s)}]
        BY <2>2, <3>1, <4>2
      <4> HIDE DEF h
      <4> QED BY <4>1, <4>3, <4>4, <4>5
    <3> QED BY <3>2, <3>3
  <2>4. h \in [SUBSET S -> Nat]
    BY <2>3
  <2>5. AddsUpTo(h, f, S, n + 1)
    <3> HIDE DEF h
    <3> QED BY <2>3, <2>4 DEF AddsUpTo
  <2> QED BY <2>2, <2>5
<1>3. N \subseteq Nat
  OBVIOUS
<1>4. Cardinality(S) \in N
  <2> HIDE DEF N
  <2> QED BY <1>1, <1>2, <1>3, NatIsClosure, FS_CardinalityType
<1>5. PICK g : AddsUpTo(g, f, S, Cardinality(S))
  BY <1>4
<1>6. g \in [SUBSET S -> Nat]
  BY <1>5 DEF AddsUpTo
<1>7. ASSUME NEW s \in SUBSET S
      PROVE  g[s] = IF s = {} THEN 0 ELSE f[Pick(s)] + g[s \ {Pick(s)}]
  <2>1. Cardinality(s) <= Cardinality(S)
    BY FS_Subset
  <2> QED BY <1>5, <2>1 DEF AddsUpTo
<1>8. g = [s \in SUBSET S |-> IF s = {} THEN 0 ELSE f[Pick(s)] + g[s \ {Pick(s)}]]
  BY <1>6, <1>7
<1> QED BY <1>6, <1>8 DEF AddsUp

\* It does not matter which member is taken first, nor what f is elsewhere.
LEMMA SumsAgree ==
  ASSUME NEW S, IsFiniteSet(S), NEW f, NEW g, AddsUp(g, f, S), f \in [S -> Nat],
         NEW T, IsFiniteSet(T), NEW e, NEW h, AddsUp(h, e, T),
         NEW R, R \subseteq S, R \subseteq T, \A x \in R : e[x] = f[x]
  PROVE  g[R] = h[R]
<1> DEFINE N == {n \in Nat : \A s \in SUBSET R : Cardinality(s) = n => g[s] = h[s]}
<1>1. ASSUME NEW s \in SUBSET R
      PROVE  /\ s \in SUBSET S /\ s \in SUBSET T
             /\ g[s] = IF s = {} THEN 0 ELSE f[Pick(s)] + g[s \ {Pick(s)}]
             /\ h[s] = IF s = {} THEN 0 ELSE e[Pick(s)] + h[s \ {Pick(s)}]
  <2>1. s \in SUBSET S /\ s \in SUBSET T
    OBVIOUS
  <2>2. g[s] = IF s = {} THEN 0 ELSE f[Pick(s)] + g[s \ {Pick(s)}]
    BY <2>1 DEF AddsUp
  <2>3. h[s] = IF s = {} THEN 0 ELSE e[Pick(s)] + h[s \ {Pick(s)}]
    BY <2>1 DEF AddsUp
  <2> QED BY <2>1, <2>2, <2>3
<1>2. 0 \in N
  <2>1. ASSUME NEW s \in SUBSET R, Cardinality(s) = 0 PROVE g[s] = h[s]
    <3>1. s = {}
      BY <1>1, <2>1, PickedLess
    <3> QED BY <1>1, <3>1
  <2> QED BY <2>1
<1>3. ASSUME NEW n \in N PROVE n + 1 \in N
  <2>1. n \in Nat /\ \A s \in SUBSET R : Cardinality(s) = n => g[s] = h[s]
    OBVIOUS
  <2>2. ASSUME NEW s \in SUBSET R, Cardinality(s) = n + 1 PROVE g[s] = h[s]
    <3>1. /\ s # {} /\ Pick(s) \in s
          /\ Cardinality(s \ {Pick(s)}) = Cardinality(s) - 1
      BY <1>1, <2>1, <2>2, PickedLess
    <3>2. s \ {Pick(s)} \in SUBSET R /\ Cardinality(s \ {Pick(s)}) = n
      BY <2>1, <2>2, <3>1
    <3>3. g[s \ {Pick(s)}] = h[s \ {Pick(s)}] /\ e[Pick(s)] = f[Pick(s)]
      BY <2>1, <3>1, <3>2
    <3> QED BY <1>1, <3>1, <3>3
  <2> QED BY <2>1, <2>2
<1>4. N \subseteq Nat
  OBVIOUS
<1>5. Cardinality(R) \in N
  <2>1. R \in SUBSET S
    OBVIOUS
  <2>2. Cardinality(R) \in Nat
    BY <2>1, PickedLess
  <2> HIDE DEF N
  <2> QED BY <1>2, <1>3, <1>4, <2>2, NatIsClosure
<1> QED BY <1>5

\* A member more adds its number.
Adds(g, f, S) ==
  \A s \in SUBSET S : \A x \in s : g[s] = f[x] + g[s \ {x}]

\* It is a sum: one element more adds its value.
LEMMA SumsAdd ==
  ASSUME NEW S, IsFiniteSet(S), NEW f \in [S -> Nat],
         NEW g \in [SUBSET S -> Nat], AddsUp(g, f, S)
  PROVE  Adds(g, f, S)
<1> DEFINE Good(s) == \A x \in s : g[s] = f[x] + g[s \ {x}]
           N == {n \in Nat : \A s \in SUBSET S : Cardinality(s) = n => Good(s)}
<1>1. 0 \in N
  <2>1. ASSUME NEW s \in SUBSET S, Cardinality(s) = 0 PROVE Good(s)
    BY <2>1, PickedLess
  <2> HIDE DEF Good
  <2> QED BY <2>1
<1>2. ASSUME NEW n \in N PROVE n + 1 \in N
  <2>1. n \in Nat /\ \A s \in SUBSET S : Cardinality(s) = n => Good(s)
    OBVIOUS
  <2>2. ASSUME NEW s \in SUBSET S, Cardinality(s) = n + 1 PROVE Good(s)
    <3> SUFFICES ASSUME NEW x \in s PROVE g[s] = f[x] + g[s \ {x}]
      OBVIOUS
    <3>1. PICK y : y = Pick(s)
      OBVIOUS
    <3>2. y \in s /\ g[s] = f[y] + g[s \ {y}]
      <4>1. s # {} /\ Pick(s) \in s
        BY PickedLess
      <4>2. g[s] = IF s = {} THEN 0 ELSE f[Pick(s)] + g[s \ {Pick(s)}]
        BY DEF AddsUp
      <4> QED BY <3>1, <4>1, <4>2
    <3>3. CASE x = y
      BY <3>2, <3>3
    <3>4. CASE x # y
      <4>1. /\ s \ {x} \in SUBSET S /\ s \ {y} \in SUBSET S
            /\ (s \ {x}) \ {y} = (s \ {y}) \ {x}
            /\ (s \ {x}) \ {y} \in SUBSET S
            /\ y \in s \ {x} /\ x \in s \ {y}
        BY <3>2, <3>4
      <4>2. Cardinality(s \ {x}) = n /\ Cardinality(s \ {y}) = n
        <5>1. Cardinality(s \ {x}) = Cardinality(s) - 1
              /\ Cardinality(s \ {y}) = Cardinality(s) - 1
          BY <3>2, PickedLess
        <5> QED BY <2>1, <2>2, <5>1
      <4>3. Good(s \ {x}) /\ Good(s \ {y})
        BY <2>1, <4>1, <4>2
      <4>4. /\ g[s \ {x}] = f[y] + g[(s \ {x}) \ {y}]
            /\ g[s \ {y}] = f[x] + g[(s \ {x}) \ {y}]
        BY <4>1, <4>3
      <4>5. f[x] \in Nat /\ f[y] \in Nat /\ g[(s \ {x}) \ {y}] \in Nat
        BY <3>2, <4>1
      <4> QED BY <3>2, <4>4, <4>5
    <3> QED BY <3>3, <3>4
  <2> HIDE DEF Good
  <2> QED BY <2>1, <2>2
<1>3. N \subseteq Nat
  OBVIOUS
<1>4. ASSUME NEW s \in SUBSET S PROVE Good(s)
  <2>1. Cardinality(s) \in Nat
    BY PickedLess
  <2>2. N = Nat
    <3> HIDE DEF N
    <3> QED BY <1>1, <1>2, <1>3, NatIsClosure
  <2> HIDE DEF Good
  <2> QED BY <2>1, <2>2
<1> QED BY <1>4 DEF Adds

\* What SumFunction returns for numbers over a finite set, and over its parts.
Sums(g, f, S) ==
  /\ g \in [SUBSET S -> Nat]
  /\ g[{}] = 0
  /\ Adds(g, f, S)
  /\ \A R \in SUBSET S : \A e \in [R -> Nat] :
       (\A x \in R : e[x] = f[x]) => SumFunction(e) = g[R]

\* What is used of sums: there is a function that gives those of all subsets.
LEMMA SumsAre ==
  ASSUME NEW S, IsFiniteSet(S), NEW f \in [S -> Nat]
  PROVE  \E g : Sums(g, f, S)
<1>1. PICK g \in [SUBSET S -> Nat] : AddsUp(g, f, S)
  BY SumsExist
<1>2. g[{}] = 0
  <2>1. {} \in SUBSET S
    OBVIOUS
  <2> QED BY <1>1, <2>1 DEF AddsUp
<1>3. Adds(g, f, S)
  BY <1>1, SumsAdd
<1>4. ASSUME NEW R \in SUBSET S, NEW e \in [R -> Nat], \A x \in R : e[x] = f[x]
      PROVE  SumFunction(e) = g[R]
  <2>1. IsFiniteSet(R)
    BY FS_Subset
  <2>2. PICK h : h = CHOOSE w : AddsUp(w, e, R)
    OBVIOUS
  <2>3. AddsUp(h, e, R)
    <3>1. \E w : AddsUp(w, e, R)
      BY <2>1, SumsExist
    <3> QED BY <2>2, <3>1
  <2>4. SumFunction(e) = h[R]
    <3>1. DOMAIN e = R
      OBVIOUS
    <3> QED BY <2>2, <3>1, SumUnfolds
  <2>5. g[R] = h[R]
    BY <1>1, <1>4, <2>1, <2>3, SumsAgree
  <2> QED BY <2>4, <2>5
<1>5. Sums(g, f, S)
  BY <1>2, <1>3, <1>4 DEF Sums
<1> QED BY <1>5

\* Members without units add nothing.
AddsNothing(g, Q, z) == g[Q \cup z] = g[Q]

\* Elements of value 0 add nothing.
LEMMA ZerosAdd ==
  ASSUME NEW S, IsFiniteSet(S), NEW f \in [S -> Nat], NEW g, Sums(g, f, S),
         NEW Q \in SUBSET S, NEW Z \in SUBSET S, \A x \in Z : f[x] = 0
  PROVE  AddsNothing(g, Q, Z)
<1> DEFINE N == {n \in Nat : \A z \in SUBSET Z : Cardinality(z) = n => AddsNothing(g, Q, z)}
<1>1. 0 \in N
  <2>1. ASSUME NEW z \in SUBSET Z, Cardinality(z) = 0 PROVE AddsNothing(g, Q, z)
    <3>1. z \in SUBSET S
      OBVIOUS
    <3>2. z = {}
      BY <2>1, <3>1, PickedLess
    <3>3. Q \cup z = Q
      BY <3>2
    <3> QED BY <3>3 DEF AddsNothing
  <2> QED BY <2>1
<1>2. ASSUME NEW n \in N PROVE n + 1 \in N
  <2>1. n \in Nat /\ \A z \in SUBSET Z : Cardinality(z) = n => AddsNothing(g, Q, z)
    OBVIOUS
  <2>2. ASSUME NEW z \in SUBSET Z, Cardinality(z) = n + 1 PROVE AddsNothing(g, Q, z)
    <3>1. z \in SUBSET S
      OBVIOUS
    <3>2. PICK x : x \in z
      <4>1. z # {}
        BY <2>1, <2>2, <3>1, PickedLess
      <4> QED BY <4>1
    <3>3. z \ {x} \in SUBSET Z /\ Cardinality(z \ {x}) = n
      <4>1. Cardinality(z \ {x}) = Cardinality(z) - 1
        BY <3>1, <3>2, PickedLess
      <4> QED BY <2>1, <2>2, <4>1
    <3>4. g[Q \cup (z \ {x})] = g[Q]
      <4>1. AddsNothing(g, Q, z \ {x})
        BY <2>1, <3>3
      <4> QED BY <4>1 DEF AddsNothing
    <3>5. CASE x \in Q
      <4>1. Q \cup (z \ {x}) = Q \cup z
        BY <3>5
      <4> QED BY <3>4, <4>1 DEF AddsNothing
    <3>6. CASE x \notin Q
      <4>1. /\ Q \cup z \in SUBSET S /\ x \in Q \cup z
            /\ (Q \cup z) \ {x} = Q \cup (z \ {x})
            /\ Q \cup (z \ {x}) \in SUBSET S
        BY <3>1, <3>2, <3>6
      <4>2. g[Q \cup z] = f[x] + g[(Q \cup z) \ {x}]
        BY <4>1 DEF Sums, Adds
      <4>3. f[x] = 0 /\ g[Q] \in Nat
        BY <3>2 DEF Sums
      <4>4. (Q \cup z) \ {x} = Q \cup (z \ {x})
        BY <4>1
      <4>5. g[(Q \cup z) \ {x}] = g[Q]
        BY <3>4, <4>4
      <4> QED BY <4>2, <4>3, <4>5 DEF AddsNothing
    <3> QED BY <3>5, <3>6
  <2>3. n + 1 \in Nat /\ \A z \in SUBSET Z : Cardinality(z) = n + 1 => AddsNothing(g, Q, z)
    BY <2>1, <2>2
  <2> QED BY <2>3
<1>3. N \subseteq Nat
  OBVIOUS
<1>4. Cardinality(Z) \in N
  <2>1. Cardinality(Z) \in Nat
    BY PickedLess
  <2> HIDE DEF N
  <2> QED BY <1>1, <1>2, <1>3, <2>1, NatIsClosure
<1> QED BY <1>4

\* A sum is that of a part, when outside of it only x may have units.
Share(f, R, x) == IF x \in DOMAIN f \ R THEN f[x] ELSE 0

PartOf(f, S, e, R, x) ==
  /\ IsFiniteSet(S) /\ f \in [S -> Nat]
  /\ R \in SUBSET S /\ e \in [R -> Nat]
  /\ \A c \in R : e[c] = f[c]
  /\ \A c \in S \ R : c = x \/ f[c] = 0

\* A sum is that of a part of its elements and what the one left out adds.
LEMMA SumOfPart ==
  ASSUME NEW f, NEW S, NEW e, NEW R, NEW x, PartOf(f, S, e, R, x)
  PROVE  /\ SumFunction(f) \in Nat /\ SumFunction(e) \in Nat
         /\ SumFunction(f) = SumFunction(e) + Share(f, R, x)
<1>0. /\ IsFiniteSet(S) /\ f \in [S -> Nat]
      /\ R \in SUBSET S /\ e \in [R -> Nat]
      /\ \A c \in R : e[c] = f[c]
      /\ \A c \in S \ R : c = x \/ f[c] = 0
  BY DEF PartOf
<1>1. PICK g : Sums(g, f, S)
  BY <1>0, SumsAre
<1>2. g \in [SUBSET S -> Nat] /\ S \in SUBSET S
  BY <1>1 DEF Sums
<1>3. SumFunction(f) = g[S] /\ SumFunction(e) = g[R]
  BY <1>0, <1>1, <1>2 DEF Sums
<1>4. g[S] \in Nat /\ g[R] \in Nat
  BY <1>0, <1>2
<1>5. PICK Z : Z = (S \ R) \ {x}
  OBVIOUS
<1>6. Z \in SUBSET S /\ \A c \in Z : f[c] = 0
  BY <1>0, <1>5
<1>7. g[R \cup Z] = g[R]
  <2>1. R \in SUBSET S /\ Z \in SUBSET S /\ \A c \in Z : f[c] = 0
    BY <1>0, <1>6
  <2>2. AddsNothing(g, R, Z)
    BY <1>0, <1>1, <2>1, ZerosAdd
  <2> QED BY <2>2 DEF AddsNothing
<1>8. DOMAIN f = S
  BY <1>0
<1>9. CASE x \in S \ R
  <2>1. R \cup Z = S \ {x}
    BY <1>0, <1>5, <1>9
  <2>2. g[S] = f[x] + g[S \ {x}]
    BY <1>1, <1>2, <1>9 DEF Sums, Adds
  <2>3. Share(f, R, x) = f[x] /\ f[x] \in Nat
    BY <1>0, <1>8, <1>9 DEF Share
  <2>4. g[S \ {x}] = g[R]
    BY <1>7, <2>1
  <2> QED BY <1>3, <1>4, <2>2, <2>3, <2>4
<1>10. CASE x \notin S \ R
  <2>1. R \cup Z = S
    BY <1>0, <1>5, <1>10
  <2>2. Share(f, R, x) = 0
    BY <1>8, <1>10 DEF Share
  <2>3. g[S] = g[R]
    BY <1>7, <2>1
  <2> QED BY <1>3, <1>4, <2>2, <2>3
<1> QED BY <1>9, <1>10

-----------------------------------------------------------------------------
(***************************************************************************)
(* The units that the blocks of a level take.                              *)
(***************************************************************************)
\* There are finitely many strings of a length.
LEMMA FewStrings ==
  ASSUME NEW n \in Nat
  PROVE  IsFiniteSet(BitStrings(n))
<1> DEFINE N == {k \in Nat : IsFiniteSet(BitStrings(k))}
<1>1. 0 \in N
  <2>1. BitStrings(0) = {<<>>}
    <3>1. \A b : b \in BitStrings(0) <=> b \in Bits /\ Len(b) = 0
      BY BitStringsIsBits
    <3>2. \A b \in Bits : Len(b) = 0 <=> b = <<>>
      BY EmptySeq DEF Bits
    <3>3. <<>> \in Bits
      BY RootPath
    <3> QED BY <3>1, <3>2, <3>3
  <2>2. IsFiniteSet({<<>>})
    BY FS_Singleton
  <2> QED BY <2>1, <2>2
<1>2. ASSUME NEW k \in N PROVE k + 1 \in N
  <2>1. k \in Nat /\ IsFiniteSet(BitStrings(k))
    OBVIOUS
  <2>2. PICK A : A = BitStrings(k) \X Bit
    OBVIOUS
  <2>3. PICK T : T = BitStrings(k + 1)
    OBVIOUS
  <2>4. IsFiniteSet(A)
    <3>1. IsFiniteSet({0} \cup {1})
      BY FS_Singleton, FS_AddElement
    <3>2. {0} \cup {1} = Bit
      BY DEF Bit
    <3> QED BY <2>1, <2>2, <3>1, <3>2, FS_Product
  <2> DEFINE Joined(x) == [j \in 1 .. k + 1 |-> IF j <= k THEN x[1][j] ELSE x[2]]
             f == [x \in A |-> Joined(x)]
  <2>5. ASSUME NEW x \in A PROVE Joined(x) \in T
    <3>1. x[1] \in [1 .. k -> Bit] /\ x[2] \in Bit
      BY <2>2 DEF BitStrings
    <3>2. \A j \in 1 .. k + 1 : j <= k => x[1][j] \in Bit
      BY <2>1, <3>1
    <3>3. Joined(x) \in [1 .. k + 1 -> Bit]
      BY <3>1, <3>2
    <3> HIDE DEF Joined
    <3> QED BY <2>3, <3>3 DEF BitStrings
  <2>6. ASSUME NEW b \in T PROVE \E x \in A : Joined(x) = b
    <3>1. b \in [1 .. k + 1 -> Bit]
      BY <2>3 DEF BitStrings
    <3>2. PICK a : a = [j \in 1 .. k |-> b[j]]
      OBVIOUS
    <3>3. PICK x : x = <<a, b[k + 1]>>
      OBVIOUS
    <3>4. a \in [1 .. k -> Bit] /\ b[k + 1] \in Bit
      BY <2>1, <3>1, <3>2
    <3>5. x \in A
      BY <2>2, <3>3, <3>4 DEF BitStrings
    <3>6. Joined(x) = b
      <4>1. ASSUME NEW j \in 1 .. k + 1
            PROVE  (IF j <= k THEN x[1][j] ELSE x[2]) = b[j]
        <5>1. CASE j <= k
          BY <2>1, <3>2, <3>3, <5>1
        <5>2. CASE ~ (j <= k)
          <6>1. j = k + 1
            BY <2>1, <5>2
          <6> QED BY <3>3, <5>2, <6>1
        <5> QED BY <5>1, <5>2
      <4> QED BY <3>1, <4>1
    <3> QED BY <3>5, <3>6
  <2>7. f \in Surjection(A, T)
    <3> HIDE DEF Joined
    <3>1. f \in [A -> T]
      BY <2>5
    <3>2. \A b \in T : \E x \in A : f[x] = b
      BY <2>6
    <3> QED BY <3>1, <3>2 DEF Surjection
  <2>8. IsFiniteSet(T)
    <3> HIDE DEF f
    <3> QED BY <2>4, <2>7, FS_Surjection
  <2> QED BY <2>1, <2>3, <2>8
<1>3. N \subseteq Nat
  OBVIOUS
<1>4. N = Nat
  <2> HIDE DEF N
  <2> QED BY <1>1, <1>2, <1>3, NatIsClosure
<1> QED BY <1>4

\* Blocks belong to nodes, and a node without a block needs none.
Owned(t) ==
  \A b \in t.paths :
    IF t.node[b].child_ptr = NULL THEN IsEmpty(t.node[b])
    ELSE t.node[b].child_ptr[1] = b

SizeOf(n) == UnitsOf(child_num(n), rule_num(n))

\* The blocks of a level, and the units that their nodes need.
BlocksAt(t, lvl) ==
  {t.node[b].child_ptr : b \in {c \in t.paths : Len(c) = lvl * STRIDE}} \ {NULL}

SizesAt(t, lvl) == [c \in BlocksAt(t, lvl) |-> SizeOf(t.node[c[1]])]
UnitsAt(t, lvl) == SumFunction(SizesAt(t, lvl))

\* The nodes of the trie in memory own their blocks.
LEMMA InMemoryOwned ==
  ASSUME NEW t, NEW r, NEW h, NEW o, InMemory(t, r, h, o)
  PROVE  Owned(t)
BY DEF InMemory, HasBlock, Owned

\* The size of a node, which is 0 for one that is empty.
LEMMA SizeIs ==
  ASSUME NEW n \in Node
  PROVE  /\ SizeOf(n) \in Nat
         /\ UnitsOf(0, rule_num(n)) \in Nat /\ UnitsOf(0, rule_num(n)) <= SizeOf(n)
         /\ IsEmpty(n) => SizeOf(n) = 0
<1>1. n.internal \subseteq InlPos /\ n.external \subseteq EnlPos
  BY DEF Node
<1>2. /\ Cardinality(n.internal) \in Nat /\ Cardinality(n.external) \in Nat
      /\ UP_RULE(Cardinality(n.internal)) \in Nat
  BY <1>1, UnitsRange
<1>3. SizeOf(n) = Cardinality(n.external) + UP_RULE(Cardinality(n.internal))
  BY DEF SizeOf, UnitsOf, UP_CHILD, child_num, rule_num
<1>4. UnitsOf(0, rule_num(n)) = 0 + UP_RULE(Cardinality(n.internal))
  BY DEF UnitsOf, UP_CHILD, rule_num
<1>5. IsEmpty(n) => SizeOf(n) = 0
  <2> SUFFICES ASSUME IsEmpty(n) PROVE SizeOf(n) = 0
    OBVIOUS
  <2>1. Cardinality(n.external) = 0 /\ Cardinality(n.internal) = 0
    BY FS_EmptySet DEF IsEmpty
  <2>2. UP_RULE(0) = 0
    BY UnitsOfRules
  <2> QED BY <1>3, <2>1, <2>2
<1> QED BY <1>2, <1>3, <1>4, <1>5

\* A block of a level is the block of a node there, and there are finitely many.
LEMMA BlocksAtIs ==
  ASSUME NEW t, IsShape(t), Owned(t), NEW lvl \in Level
  PROVE  /\ \A c : c \in BlocksAt(t, lvl) <=>
                     /\ c # NULL /\ c[1] \in t.paths /\ Len(c[1]) = lvl * STRIDE
                     /\ t.node[c[1]].child_ptr = c
         /\ IsFiniteSet(BlocksAt(t, lvl))
         /\ SizesAt(t, lvl) \in [BlocksAt(t, lvl) -> Nat]
<1>1. PICK S : S = BlocksAt(t, lvl)
  OBVIOUS
<1>2. ASSUME NEW c
      PROVE  c \in S <=> /\ c # NULL /\ c[1] \in t.paths /\ Len(c[1]) = lvl * STRIDE
                         /\ t.node[c[1]].child_ptr = c
  BY <1>1 DEF BlocksAt, Owned
<1>3. IsFiniteSet(S)
  <2>1. PICK n : n = lvl * STRIDE
    OBVIOUS
  <2>2. n \in Nat
    <3>1. lvl \in Nat
      BY DEF Level
    <3> QED BY <2>1, <3>1, StrideAssumption
  <2>3. ASSUME NEW c \in S PROVE c[1] \in BitStrings(n)
    <3>1. c[1] \in t.paths /\ Len(c[1]) = n
      BY <1>2, <2>1
    <3>2. c[1] \in Bits
      BY <3>1, NodeOfShape, NodePathIs
    <3> QED BY <2>2, <3>1, <3>2, BitStringsIsBits
  <2>4. PICK f : f = [c \in S |-> c[1]]
    OBVIOUS
  <2>5. f \in [S -> BitStrings(n)]
    BY <2>3, <2>4
  <2>6. \A c, d \in S : f[c] = f[d] => c = d
    BY <1>2, <2>4
  <2>7. f \in Injection(S, BitStrings(n))
    BY <2>5, <2>6 DEF Injection, IsInjective
  <2> QED BY <2>2, <2>7, FewStrings, FS_Injection
<1>4. ASSUME NEW c \in S PROVE SizeOf(t.node[c[1]]) \in Nat
  <2>1. t.node[c[1]] \in Node
    BY <1>2, NodeOfShape
  <2> QED BY <2>1, SizeIs
<1>5. SizesAt(t, lvl) \in [S -> Nat]
  BY <1>1, <1>4 DEF SizesAt
<1> QED BY <1>1, <1>2, <1>3, <1>5

\* What one node needs of its level.
Needs(t, b, lvl) == IF Len(b) = lvl * STRIDE THEN SizeOf(t.node[b]) ELSE 0

\* The units of a level without those of one node, when the blocks that R leaves
\* out are that of the node and such as need no units.
LEMMA UnitsOfPart ==
  ASSUME NEW t, IsShape(t), Owned(t), NEW lvl \in Level, NEW b \in t.paths,
         NEW R \in SUBSET BlocksAt(t, lvl), t.node[b].child_ptr \notin R,
         NEW e \in [R -> Nat], \A c \in R : e[c] = SizeOf(t.node[c[1]]),
         \A c \in BlocksAt(t, lvl) \ R : c[1] = b \/ SizeOf(t.node[c[1]]) = 0
  PROVE  /\ UnitsAt(t, lvl) \in Nat /\ SumFunction(e) \in Nat
         /\ UnitsAt(t, lvl) = SumFunction(e) + Needs(t, b, lvl)
<1>1. PICK S, f, x : S = BlocksAt(t, lvl) /\ f = SizesAt(t, lvl) /\ x = t.node[b].child_ptr
  OBVIOUS
<1>2. /\ \A c : c \in S <=> /\ c # NULL /\ c[1] \in t.paths /\ Len(c[1]) = lvl * STRIDE
                            /\ t.node[c[1]].child_ptr = c
      /\ IsFiniteSet(S) /\ f \in [S -> Nat]
  BY <1>1, BlocksAtIs
<1>3. \A c \in S : f[c] = SizeOf(t.node[c[1]])
  BY <1>1 DEF SizesAt
<1>4. R \in SUBSET S /\ \A c \in R : e[c] = f[c]
  BY <1>1, <1>3
<1>5. \A c \in S \ R : c = x \/ f[c] = 0
  BY <1>1, <1>2, <1>3
<1>6. /\ SumFunction(f) \in Nat /\ SumFunction(e) \in Nat
      /\ SumFunction(f) = SumFunction(e) + Share(f, R, x)
  <2>1. PartOf(f, S, e, R, x)
    BY <1>2, <1>4, <1>5 DEF PartOf
  <2> QED BY <2>1, SumOfPart
<1>7. Share(f, R, x) = Needs(t, b, lvl)
  <2>0. DOMAIN f = S
    BY <1>2
  <2>1. CASE x \in S
    <3>1. x[1] = b
      BY <1>1, <1>2, <2>1 DEF Owned
    <3>2. Share(f, R, x) = SizeOf(t.node[b])
      BY <1>1, <1>3, <2>0, <2>1, <3>1 DEF Share
    <3>3. Len(b) = lvl * STRIDE
      BY <1>2, <2>1, <3>1
    <3> QED BY <3>2, <3>3 DEF Needs
  <2>2. CASE x \notin S
    <3>1. Share(f, R, x) = 0
      BY <2>0, <2>2 DEF Share
    <3>2. CASE x = NULL
      <4>1. IsEmpty(t.node[b]) /\ t.node[b] \in Node
        BY <1>1, <3>2, NodeOfShape DEF Owned
      <4>2. SizeOf(t.node[b]) = 0
        BY <4>1, SizeIs
      <4> QED BY <3>1, <4>2 DEF Needs
    <3>3. CASE x # NULL
      <4>1. x[1] = b
        BY <1>1, <3>3 DEF Owned
      <4>2. Len(b) # lvl * STRIDE
        BY <1>1, <1>2, <2>2, <3>3, <4>1
      <4> QED BY <3>1, <4>2 DEF Needs
    <3> QED BY <3>2, <3>3
  <2> QED BY <2>1, <2>2
<1> QED BY <1>1, <1>6, <1>7 DEF UnitsAt

\* A node that changes changes the units of its own level, and by as much as its
\* own size; children that go with it are empty.
LEMMA UnitsChange ==
  ASSUME NEW t, IsShape(t), Owned(t), NEW b \in t.paths, NEW n, NEW rs, Fits(t, b, n, rs),
         NEW u, u = Changed(t, b, n, rs), IsShape(u), Owned(u), NEW lvl \in Level
  PROVE  /\ UnitsAt(t, lvl) \in Nat /\ UnitsAt(u, lvl) \in Nat
         /\ UnitsAt(t, lvl) - Needs(t, b, lvl) = UnitsAt(u, lvl) - Needs(u, b, lvl)
<1>1. /\ b \in u.paths /\ u.node[b] = n
      /\ \A c \in u.paths : c # b /\ c \in t.paths => u.node[c] = t.node[c]
      /\ \A c \in u.paths : c \notin t.paths => u.node[c] = ZeroNode
      /\ \A c \in t.paths :
           c \in u.paths \/ (c # <<>> /\ Up(c) = b /\ LastPos(c) \notin n.external)
  BY ChangedNodes
<1>2. PICK S, T : S = BlocksAt(t, lvl) /\ T = BlocksAt(u, lvl)
  OBVIOUS
<1>3. \A c : c \in S <=> /\ c # NULL /\ c[1] \in t.paths /\ Len(c[1]) = lvl * STRIDE
                         /\ t.node[c[1]].child_ptr = c
  BY <1>2, BlocksAtIs
<1>4. \A c : c \in T <=> /\ c # NULL /\ c[1] \in u.paths /\ Len(c[1]) = lvl * STRIDE
                         /\ u.node[c[1]].child_ptr = c
  BY <1>2, BlocksAtIs
<1>5. PICK R : R = {c \in S \cap T : c[1] # b}
  OBVIOUS
<1>6. PICK e : e = [c \in R |-> SizeOf(t.node[c[1]])]
  OBVIOUS
<1>7. \A c \in R : c[1] \in t.paths /\ u.node[c[1]] = t.node[c[1]]
  BY <1>1, <1>3, <1>4, <1>5
<1>8. e \in [R -> Nat]
  <2>1. ASSUME NEW c \in R PROVE SizeOf(t.node[c[1]]) \in Nat
    BY <1>7, NodeOfShape, SizeIs
  <2> QED BY <1>6, <2>1
<1>9. ASSUME NEW c \in S \ R PROVE c[1] = b \/ SizeOf(t.node[c[1]]) = 0
  <2> SUFFICES ASSUME c[1] # b PROVE SizeOf(t.node[c[1]]) = 0
    OBVIOUS
  <2>1. c[1] \in t.paths /\ c # NULL /\ t.node[c[1]].child_ptr = c /\ c \notin T
        /\ Len(c[1]) = lvl * STRIDE
    BY <1>3, <1>5
  <2>2. c[1] \notin u.paths
    BY <1>1, <1>4, <2>1
  <2>3. c[1] # <<>> /\ Up(c[1]) = b /\ LastPos(c[1]) \notin n.external
    BY <1>1, <2>1, <2>2
  <2>4. LastPos(c[1]) \in t.node[b].external /\ KidOf(b, LastPos(c[1])) = c[1]
    BY <2>1, <2>3, NodeOfShape
  <2>5. IsEmpty(t.node[c[1]]) /\ t.node[c[1]] \in Node
    BY <2>1, <2>3, <2>4, NodeOfShape DEF Fits
  <2> QED BY <2>5, SizeIs
<1>10. ASSUME NEW c \in T \ R PROVE c[1] = b
  <2> SUFFICES ASSUME c[1] # b PROVE FALSE
    OBVIOUS
  <2>1. c[1] \in u.paths /\ c # NULL /\ u.node[c[1]].child_ptr = c
        /\ Len(c[1]) = lvl * STRIDE
    BY <1>4
  <2>2. c[1] \in t.paths
    BY <1>1, <2>1 DEF ZeroNode
  <2>3. c \in S
    BY <1>1, <1>3, <2>1, <2>2
  <2> QED BY <1>5, <2>3
<1>11. /\ R \in SUBSET BlocksAt(t, lvl) /\ t.node[b].child_ptr \notin R
       /\ \A c \in R : e[c] = SizeOf(t.node[c[1]])
       /\ \A c \in BlocksAt(t, lvl) \ R : c[1] = b \/ SizeOf(t.node[c[1]]) = 0
  <2>1. ASSUME t.node[b].child_ptr \in R PROVE FALSE
    BY <1>3, <1>5, <2>1 DEF Owned
  <2> QED BY <1>2, <1>5, <1>6, <1>9, <2>1
<1>12. /\ R \in SUBSET BlocksAt(u, lvl) /\ u.node[b].child_ptr \notin R
       /\ \A c \in R : e[c] = SizeOf(u.node[c[1]])
       /\ \A c \in BlocksAt(u, lvl) \ R : c[1] = b \/ SizeOf(u.node[c[1]]) = 0
  <2>1. ASSUME u.node[b].child_ptr \in R PROVE FALSE
    BY <1>1, <1>4, <1>5, <2>1 DEF Owned
  <2>2. \A c \in R : e[c] = SizeOf(u.node[c[1]])
    BY <1>6, <1>7
  <2> QED BY <1>2, <1>5, <1>10, <2>1, <2>2
<1>13. /\ UnitsAt(t, lvl) \in Nat /\ SumFunction(e) \in Nat
       /\ UnitsAt(t, lvl) = SumFunction(e) + Needs(t, b, lvl)
  BY <1>8, <1>11, UnitsOfPart
<1>14. /\ UnitsAt(u, lvl) \in Nat
       /\ UnitsAt(u, lvl) = SumFunction(e) + Needs(u, b, lvl)
  BY <1>1, <1>8, <1>12, UnitsOfPart
<1>15. Needs(t, b, lvl) \in Nat /\ Needs(u, b, lvl) \in Nat
  <2>1. SizeOf(t.node[b]) \in Nat /\ SizeOf(u.node[b]) \in Nat
    BY <1>1, NodeOfShape, SizeIs
  <2> QED BY <2>1 DEF Needs
<1> QED BY <1>13, <1>14, <1>15

-----------------------------------------------------------------------------
(***************************************************************************)
(* The statistics.                                                         *)
(***************************************************************************)
\* The units that the blocks of a level take are those its nodes need.
LEMMA UnitsInUseIs ==
  ASSUME NEW t, MemoryOK(t), NEW lvl \in Level
  PROVE  UnitsInUse(lvl) = UnitsAt(t, lvl)
<1>1. IsShape(t) /\ InMemory(t, root, heap, op) /\ Owned(t)
  BY InMemoryOwned DEF MemoryOK
<1>2. PICK N : N = {c \in t.paths : Len(c) = lvl * STRIDE}
  OBVIOUS
<1>3. NodesAt[lvl] = {Entry(t, b) : b \in N}
  BY <1>2, NodesAre DEF EntriesAt
<1>4. \A b \in N : At(Entry(t, b).ptr) = t.node[b]
  BY <1>2, AtPtrTo DEF Entry
<1>5. PICK B : B = {At(x.ptr).child_ptr : x \in NodesAt[lvl]} \ {NULL}
  OBVIOUS
<1>6. B = BlocksAt(t, lvl)
  <2>1. BlocksAt(t, lvl) = {t.node[b].child_ptr : b \in N} \ {NULL}
    BY <1>2 DEF BlocksAt
  <2>2. {At(x.ptr).child_ptr : x \in NodesAt[lvl]} = {t.node[b].child_ptr : b \in N}
    BY <1>3, <1>4
  <2> QED BY <1>5, <2>1, <2>2
<1>7. ASSUME NEW c \in B PROVE heap[c].units = SizeOf(t.node[c[1]])
  <2>1. c # NULL /\ c[1] \in t.paths /\ t.node[c[1]].child_ptr = c
    BY <1>1, <1>6, BlocksAtIs
  <2>2. PICK n : n = t.node[c[1]]
    OBVIOUS
  <2>3. Holds(heap[c], n.internal, n.external, t.rule[c[1]], KidsOf(t, c[1]))
    BY <1>1, <2>1, <2>2 DEF InMemory, HasBlock
  <2> QED BY <2>2, <2>3 DEF Holds, SizeOf, child_num, rule_num
<1>8. [c \in B |-> heap[c].units] = SizesAt(t, lvl)
  BY <1>6, <1>7 DEF SizesAt
<1>9. UnitsInUse(lvl) = SumFunction([c \in B |-> heap[c].units])
  BY <1>5 DEF UnitsInUse
<1> QED BY <1>8, <1>9 DEF UnitsAt

\* In every state,
UnitsAreRead ==
  \A t : MemoryOK(t) => \A lvl \in Level : UnitsInUse(lvl) = UnitsAt(t, lvl)

\* and so in the next one.
LEMMA UnitsAreReadAlways == Spec => []UnitsAreRead
<1>1. UnitsAreRead
  BY UnitsInUseIs DEF UnitsAreRead
<1> QED BY <1>1, PTL

-----------------------------------------------------------------------------
\* The statistics count that the node of b becomes m.
Counts(t, b, m, lvl) ==
  lnode' = [lnode EXCEPT ![lvl] = @ + SizeOf(m) - SizeOf(t.node[b])]

\* A rebuild counts the new block and the old one.
LEMMA RebuildCounts ==
  ASSUME NEW t, MemoryOK(t), NEW b \in t.paths, NEW lvl, NEW n, NEW new,
         Rebuild(PtrTo(t, b), n, new, lvl), NEW m, new.units = SizeOf(m)
  PROVE  Counts(t, b, m, lvl)
<1>1. PICK old : old = t.node[b]
  OBVIOUS
<1>2. At(PtrTo(t, b)) = old
  BY <1>1, AtPtrTo
<1>3. lnode' = [lnode EXCEPT ![lvl] = @ + new.units -
                  (IF old.child_ptr = NULL THEN 0
                   ELSE UnitsOf(child_num(old), rule_num(old)))]
  BY <1>2 DEF Rebuild
<1>4. (IF old.child_ptr = NULL THEN 0 ELSE UnitsOf(child_num(old), rule_num(old)))
        = SizeOf(old)
  <2>1. HasBlock(t, heap, b) /\ old \in Node
    BY <1>1, NodeOfShape DEF MemoryOK, InMemory
  <2>2. CASE old.child_ptr = NULL
    <3>1. IsEmpty(old)
      BY <1>1, <2>1, <2>2 DEF HasBlock
    <3> QED BY <2>1, <2>2, <3>1, SizeIs
  <2>3. CASE old.child_ptr # NULL
    BY <2>3 DEF SizeOf
  <2> QED BY <2>2, <2>3
<1> QED BY <1>1, <1>3, <1>4 DEF Counts

\* The sizes of nodes with a bit more or less.
LEMMA SizeWithBit ==
  ASSUME NEW n \in Node, NEW m
  PROVE  /\ \A pos \in InlPos :
              /\ pos \notin n.internal /\ m.internal = n.internal \cup {pos}
              /\ m.external = n.external
              => SizeOf(m) = UnitsOf(child_num(n), rule_num(n) + 1)
         /\ \A pos \in n.internal :
              m.internal = n.internal \ {pos} /\ m.external = n.external
              => SizeOf(m) = UnitsOf(child_num(n), rule_num(n) - 1)
         /\ \A pos \in EnlPos :
              /\ pos \notin n.external /\ m.external = n.external \cup {pos}
              /\ m.internal = n.internal
              => SizeOf(m) = UnitsOf(child_num(n) + 1, rule_num(n))
         /\ \A pos \in n.external :
              m.external = n.external \ {pos} /\ m.internal = n.internal
              => SizeOf(m) = UnitsOf(child_num(n) - 1, rule_num(n))
<1>1. n.internal \subseteq InlPos /\ n.external \subseteq EnlPos /\ InlPos \subseteq EnlPos
      /\ n.internal \subseteq EnlPos
  BY PowStride DEF Node, InlPos, EnlPos
<1>2. ASSUME NEW pos \in InlPos, pos \notin n.internal,
             m.internal = n.internal \cup {pos}, m.external = n.external
      PROVE  SizeOf(m) = UnitsOf(child_num(n), rule_num(n) + 1)
  <2>1. Cardinality(m.internal) = Cardinality(n.internal) + 1
    <3>1. pos \in EnlPos
      BY <1>1
    <3> QED BY <1>1, <1>2, <3>1, SetBit
  <2> QED BY <1>2, <2>1 DEF SizeOf, child_num, rule_num
<1>3. ASSUME NEW pos \in n.internal,
             m.internal = n.internal \ {pos}, m.external = n.external
      PROVE  SizeOf(m) = UnitsOf(child_num(n), rule_num(n) - 1)
  <2>1. Cardinality(m.internal) = Cardinality(n.internal) - 1
    BY <1>1, <1>3, ClearBit
  <2> QED BY <1>3, <2>1 DEF SizeOf, child_num, rule_num
<1>4. ASSUME NEW pos \in EnlPos, pos \notin n.external,
             m.external = n.external \cup {pos}, m.internal = n.internal
      PROVE  SizeOf(m) = UnitsOf(child_num(n) + 1, rule_num(n))
  <2>1. Cardinality(m.external) = Cardinality(n.external) + 1
    BY <1>1, <1>4, SetBit
  <2> QED BY <1>4, <2>1 DEF SizeOf, child_num, rule_num
<1>5. ASSUME NEW pos \in n.external,
             m.external = n.external \ {pos}, m.internal = n.internal
      PROVE  SizeOf(m) = UnitsOf(child_num(n) - 1, rule_num(n))
  <2>1. Cardinality(m.external) = Cardinality(n.external) - 1
    BY <1>1, <1>5, ClearBit
  <2> QED BY <1>5, <2>1 DEF SizeOf, child_num, rule_num
<1> QED BY <1>2, <1>3, <1>4, <1>5

\* The copies into a new block leave its size.
LEMMA CopiesLeaveUnits ==
  ASSUME NEW C, NEW D, NEW blk, NEW x, NEW pos, NEW h
  PROVE  /\ RulesWith(SameKids(NewBlock(C, D), blk), blk, x, pos, h).units = UnitsOf(C, D)
         /\ RulesWithout(SameKids(NewBlock(C, D), blk), blk, x, pos).units = UnitsOf(C, D)
         /\ KidsWith(SameRules(NewBlock(C, D), blk, x), blk, pos).units = UnitsOf(C, D)
         /\ KidsWithout(SameRules(NewBlock(C, D), blk, x), blk, pos).units = UnitsOf(C, D)
<1>1. PICK n : n = NewBlock(C, D)
  OBVIOUS
<1>2. n.units = UnitsOf(C, D)
  BY <1>1 DEF NewBlock, UnitsOf
<1>3. n = [units |-> n.units, low |-> n.low, rule |-> n.rule, kid |-> n.kid]
  BY <1>1 DEF NewBlock
<1>4. PICK k, r : k = SameKids(n, blk) /\ r = SameRules(n, blk, x)
  OBVIOUS
<1>5. /\ k.units = n.units /\ r.units = n.units
      /\ k = [units |-> k.units, low |-> k.low, rule |-> k.rule, kid |-> k.kid]
      /\ r = [units |-> r.units, low |-> r.low, rule |-> r.rule, kid |-> r.kid]
  BY <1>3, <1>4 DEF SameKids, SameRules
<1>6. /\ RulesWith(k, blk, x, pos, h).units = k.units
      /\ RulesWithout(k, blk, x, pos).units = k.units
  BY <1>5 DEF RulesWith, RulesWithout
<1>7. /\ KidsWith(r, blk, pos).units = r.units
      /\ KidsWithout(r, blk, pos).units = r.units
  BY <1>5 DEF KidsWith, KidsWithout
<1> QED BY <1>1, <1>2, <1>4, <1>5, <1>6, <1>7

\* extend_rule counts the rule,
LEMMA ExtendRuleCounts ==
  ASSUME NEW t, MemoryOK(t), NEW b \in t.paths, NEW lvl, NEW pos \in InlPos,
         pos \notin t.node[b].internal, extend_rule(PtrTo(t, b), pos, lvl),
         NEW m, NEW rs, NEW h, RuleComes(t, b, m, rs, pos, h)
  PROVE  Counts(t, b, m, lvl)
<1>1. PICK old : old = t.node[b]
  OBVIOUS
<1>2. At(PtrTo(t, b)) = old /\ old \in Node
  BY <1>1, AtPtrTo, NodeOfShape DEF MemoryOK
<1>3. PICK n, at : /\ n = [old EXCEPT !.internal = @ \cup {pos}]
                   /\ at = CountOnes(n.internal, pos) + 1
  OBVIOUS
<1>4. PICK new : new = RulesWith(SameKids(NewBlock(child_num(old), rule_num(old) + 1),
                                          BlockOf(old)),
                                 BlockOf(old), rule_num(old), at, nhi)
  OBVIOUS
<1>5. Rebuild(PtrTo(t, b), n, new, lvl)
  BY <1>2, <1>3, <1>4 DEF extend_rule
<1>6. new.units = UnitsOf(child_num(old), rule_num(old) + 1)
  BY <1>4, CopiesLeaveUnits
<1>7. SizeOf(m) = UnitsOf(child_num(old), rule_num(old) + 1)
  BY <1>1, <1>2, SizeWithBit DEF RuleComes
<1> QED BY <1>5, <1>6, <1>7, RebuildCounts

\* reduce_rule that it goes,
LEMMA ReduceRuleCounts ==
  ASSUME NEW t, MemoryOK(t), NEW b \in t.paths, NEW lvl, NEW pos \in t.node[b].internal,
         reduce_rule(PtrTo(t, b), pos, lvl),
         NEW m, NEW rs, RuleGoes(t, b, m, rs, pos)
  PROVE  Counts(t, b, m, lvl)
<1>1. PICK old : old = t.node[b]
  OBVIOUS
<1>2. At(PtrTo(t, b)) = old /\ old \in Node
  BY <1>1, AtPtrTo, NodeOfShape DEF MemoryOK
<1>3. PICK n, at : /\ n = [old EXCEPT !.internal = @ \ {pos}]
                   /\ at = CountOnes(old.internal, pos) + 1
  OBVIOUS
<1>4. PICK new : new = RulesWithout(SameKids(NewBlock(child_num(old), rule_num(old) - 1),
                                             BlockOf(old)),
                                    BlockOf(old), rule_num(old), at)
  OBVIOUS
<1>5. Rebuild(PtrTo(t, b), n, new, lvl)
  BY <1>2, <1>3, <1>4 DEF reduce_rule
<1>6. new.units = UnitsOf(child_num(old), rule_num(old) - 1)
  BY <1>4, CopiesLeaveUnits
<1>7. SizeOf(m) = UnitsOf(child_num(old), rule_num(old) - 1)
  BY <1>1, <1>2, SizeWithBit DEF RuleGoes
<1> QED BY <1>5, <1>6, <1>7, RebuildCounts

\* extend_child the child,
LEMMA ExtendChildCounts ==
  ASSUME NEW t, MemoryOK(t), NEW b \in t.paths, NEW lvl, NEW pos \in EnlPos,
         pos \notin t.node[b].external, extend_child(PtrTo(t, b), pos, lvl),
         NEW m, KidComes(t, b, m, pos)
  PROVE  Counts(t, b, m, lvl)
<1>1. PICK old : old = t.node[b]
  OBVIOUS
<1>2. At(PtrTo(t, b)) = old /\ old \in Node
  BY <1>1, AtPtrTo, NodeOfShape DEF MemoryOK
<1>3. PICK n, at : /\ n = [old EXCEPT !.external = @ \cup {pos}]
                   /\ at = CountOnes(n.external, pos)
  OBVIOUS
<1>4. PICK new : new = KidsWith(SameRules(NewBlock(child_num(old) + 1, rule_num(old)),
                                          BlockOf(old), rule_num(old)),
                                BlockOf(old), at)
  OBVIOUS
<1>5. Rebuild(PtrTo(t, b), n, new, lvl)
  BY <1>2, <1>3, <1>4 DEF extend_child
<1>6. new.units = UnitsOf(child_num(old) + 1, rule_num(old))
  BY <1>4, CopiesLeaveUnits
<1>7. SizeOf(m) = UnitsOf(child_num(old) + 1, rule_num(old))
  BY <1>1, <1>2, SizeWithBit DEF KidComes
<1> QED BY <1>5, <1>6, <1>7, RebuildCounts

\* and reduce_child that it goes.
LEMMA ReduceChildCounts ==
  ASSUME NEW t, MemoryOK(t), NEW b \in t.paths, NEW lvl, NEW pos \in t.node[b].external,
         reduce_child(PtrTo(t, b), pos, lvl),
         NEW m, KidGoes(t, b, m, pos)
  PROVE  Counts(t, b, m, lvl)
<1>1. PICK old : old = t.node[b]
  OBVIOUS
<1>2. At(PtrTo(t, b)) = old /\ old \in Node
  BY <1>1, AtPtrTo, NodeOfShape DEF MemoryOK
<1>3. PICK n, at : /\ n = [old EXCEPT !.external = @ \ {pos}]
                   /\ at = CountOnes(old.external, pos)
  OBVIOUS
<1>4. PICK new : new = KidsWithout(SameRules(NewBlock(child_num(old) - 1, rule_num(old)),
                                             BlockOf(old), rule_num(old)),
                                   BlockOf(old), at)
  OBVIOUS
<1>5. Rebuild(PtrTo(t, b), n, new, lvl)
  BY <1>2, <1>3, <1>4 DEF reduce_child
<1>6. new.units = UnitsOf(child_num(old) - 1, rule_num(old))
  BY <1>4, CopiesLeaveUnits
<1>7. SizeOf(m) = UnitsOf(child_num(old) - 1, rule_num(old))
  BY <1>1, <1>2, SizeWithBit DEF KidGoes
<1> QED BY <1>5, <1>6, <1>7, RebuildCounts

-----------------------------------------------------------------------------
\* A level has one length.
LEMMA LevelOfLength ==
  ASSUME NEW k \in Nat, NEW m \in Nat, k * STRIDE = m * STRIDE
  PROVE  k = m
<1>1. ASSUME NEW j \in Nat, NEW n \in Nat, j < n PROVE j * STRIDE # n * STRIDE
  <2>1. j + 1 \in Nat /\ j + 1 <= n
    BY <1>1
  <2>2. (j + 1) * STRIDE <= n * STRIDE
    BY <2>1, StrideOrder
  <2>3. (j + 1) * STRIDE = j * STRIDE + STRIDE /\ j * STRIDE \in Nat /\ n * STRIDE \in Nat
    BY StrideSteps
  <2> QED BY <2>2, <2>3, StrideAssumption
<1> QED BY <1>1

\* What a level takes when one node changes: more or less by what this needs.
LEMMA UnitsBecome ==
  ASSUME NEW t, MemoryOK(t), NEW b \in t.paths, NEW m, NEW rs, NodeBecomes(t, b, m, rs),
         op' = op, UnitsAreRead', NEW lvl \in Level, Len(b) = lvl * STRIDE,
         NEW k \in Level
  PROVE  /\ UnitsInUse(k) \in Nat /\ UnitsInUse(k)' \in Nat
         /\ SizeOf(m) \in Nat /\ SizeOf(t.node[b]) \in Nat
         /\ k = lvl => UnitsInUse(k)' = UnitsInUse(k) + SizeOf(m) - SizeOf(t.node[b])
         /\ k # lvl => UnitsInUse(k)' = UnitsInUse(k)
<1>1. PICK u : u = Changed(t, b, m, rs)
  OBVIOUS
<1>2. MemoryOK(u)'
  BY <1>1, Became
<1>3. /\ IsShape(t) /\ Owned(t) /\ Fits(t, b, m, rs) /\ IsShape(u) /\ Owned(u)
      /\ u.node[b] = m
  <2>1. IsShape(t) /\ InMemory(t, root, heap, op) /\ Fits(t, b, m, rs)
    BY DEF MemoryOK, NodeBecomes
  <2>2. IsShape(u) /\ InMemory(u, root', heap', op)
    BY <1>1 DEF NodeBecomes
  <2> QED BY <1>1, <2>1, <2>2, InMemoryOwned, ChangedNodes
<1>4. SizeOf(m) \in Nat /\ SizeOf(t.node[b]) \in Nat
  BY <1>3, NodeOfShape, SizeIs DEF Fits
<1>5. UnitsInUse(k) = UnitsAt(t, k) /\ UnitsInUse(k)' = UnitsAt(u, k)
  BY <1>2, UnitsInUseIs DEF UnitsAreRead
<1>6. PICK x, y : x = UnitsAt(t, k) /\ y = UnitsAt(u, k)
  OBVIOUS
<1>7. x \in Nat /\ y \in Nat /\ x - Needs(t, b, k) = y - Needs(u, b, k)
  BY <1>1, <1>3, <1>6, UnitsChange
<1>8. ASSUME k = lvl PROVE y = x + SizeOf(m) - SizeOf(t.node[b])
  <2>1. PICK p, q : p = SizeOf(t.node[b]) /\ q = SizeOf(m)
    OBVIOUS
  <2>2. Needs(t, b, k) = p /\ Needs(u, b, k) = q
    BY <1>3, <1>8, <2>1 DEF Needs
  <2>3. p \in Nat /\ q \in Nat /\ x - p = y - q
    BY <1>4, <1>7, <2>1, <2>2
  <2>4. y = x + q - p
    BY <1>7, <2>3
  <2> QED BY <2>1, <2>4
<1>9. ASSUME k # lvl PROVE y = x
  <2>1. k \in Nat /\ lvl \in Nat
    BY DEF Level
  <2>2. Len(b) # k * STRIDE
    BY <1>9, <2>1, LevelOfLength
  <2>3. Needs(t, b, k) = 0 /\ Needs(u, b, k) = 0
    BY <2>2 DEF Needs
  <2> QED BY <1>7, <2>3
<1> QED BY <1>4, <1>5, <1>6, <1>7, <1>8, <1>9

-----------------------------------------------------------------------------
\* No level gains or loses in the statistics what it does not in memory.
CountsKept ==
  /\ lnode' \in [Level -> Int]
  /\ \A k \in Level : /\ UnitsInUse(k) \in Nat /\ UnitsInUse(k)' \in Nat
                      /\ lnode'[k] - UnitsInUse(k)' = lnode[k] - UnitsInUse(k)

\* Or it loses no more.
CountsNotLess ==
  /\ lnode' \in [Level -> Int]
  /\ \A k \in Level : /\ UnitsInUse(k) \in Nat /\ UnitsInUse(k)' \in Nat
                      /\ lnode'[k] - UnitsInUse(k)' >= lnode[k] - UnitsInUse(k)

\* So it is when a node changes and the statistics count it.
LEMMA NodeIsCounted ==
  ASSUME NEW t, MemoryOK(t), NEW b \in t.paths, NEW m, NEW rs, NodeBecomes(t, b, m, rs),
         op' = op, UnitsAreRead', NEW lvl \in Level, Len(b) = lvl * STRIDE,
         lnode \in [Level -> Int], Counts(t, b, m, lvl)
  PROVE  CountsKept
<1>1. ASSUME NEW k \in Level
      PROVE  /\ UnitsInUse(k) \in Nat /\ UnitsInUse(k)' \in Nat
             /\ lnode'[k] \in Int
             /\ lnode'[k] - UnitsInUse(k)' = lnode[k] - UnitsInUse(k)
  <2>1. PICK x, l, p, q : /\ x = UnitsInUse(k) /\ l = lnode[k]
                          /\ p = SizeOf(t.node[b]) /\ q = SizeOf(m)
    OBVIOUS
  <2>2. /\ x \in Nat /\ UnitsInUse(k)' \in Nat /\ p \in Nat /\ q \in Nat
        /\ k = lvl => UnitsInUse(k)' = x + q - p
        /\ k # lvl => UnitsInUse(k)' = x
    BY <2>1, UnitsBecome
  <2>3. l \in Int
    BY <2>1
  <2>4. lnode'[k] = IF k = lvl THEN l + q - p ELSE l
    BY <2>1 DEF Counts
  <2>5. PICK y, j : y = UnitsInUse(k)' /\ j = lnode'[k]
    OBVIOUS
  <2>6. j \in Int /\ j - y = l - x
    BY <2>2, <2>3, <2>4, <2>5
  <2> QED BY <2>1, <2>2, <2>5, <2>6
<1>2. lnode' \in [Level -> Int]
  <2>1. lnode' = [k \in Level |-> lnode'[k]]
    BY DEF Counts
  <2> QED BY <1>1, <2>1
<1> QED BY <1>1, <1>2 DEF CountsKept

\* And when nodes and statistics stay as they are.
LEMMA NodesStay ==
  ASSUME NEW t, MemoryOK(t), NEW u, MemoryOK(u)', u.paths = t.paths,
         \A c \in t.paths : u.node[c] = t.node[c], UnitsAreRead',
         lnode \in [Level -> Int], lnode' = lnode
  PROVE  CountsKept
<1>1. IsShape(t) /\ Owned(t)
  BY InMemoryOwned DEF MemoryOK
<1>2. ASSUME NEW k \in Level
      PROVE  /\ UnitsInUse(k) \in Nat /\ UnitsInUse(k)' \in Nat
             /\ UnitsInUse(k)' = UnitsInUse(k)
  <2>1. UnitsInUse(k) = UnitsAt(t, k) /\ UnitsInUse(k)' = UnitsAt(u, k)
    BY UnitsInUseIs DEF UnitsAreRead
  <2>2. BlocksAt(u, k) = BlocksAt(t, k)
    BY DEF BlocksAt
  <2>3. \A c \in BlocksAt(t, k) : c[1] \in t.paths
    BY <1>1, BlocksAtIs
  <2>4. SizesAt(u, k) = SizesAt(t, k)
    BY <2>2, <2>3 DEF SizesAt
  <2>5. PICK e : e = SizesAt(t, k)
    OBVIOUS
  <2>6. SumFunction(e) \in Nat
    <3>1. PICK S : S = BlocksAt(t, k)
      OBVIOUS
    <3>2. IsFiniteSet(S) /\ e \in [S -> Nat]
      BY <1>1, <2>5, <3>1, BlocksAtIs
    <3>3. PICK g : Sums(g, e, S)
      BY <3>2, SumsAre
    <3>4. g \in [SUBSET S -> Nat] /\ S \in SUBSET S
      BY <3>3 DEF Sums
    <3>5. SumFunction(e) = g[S]
      BY <3>2, <3>3, <3>4 DEF Sums
    <3> QED BY <3>4, <3>5
  <2> QED BY <2>1, <2>4, <2>5, <2>6 DEF UnitsAt
<1>3. ASSUME NEW k \in Level
      PROVE  lnode'[k] - UnitsInUse(k)' = lnode[k] - UnitsInUse(k)
  BY <1>2
<1> QED BY <1>2, <1>3 DEF CountsKept

-----------------------------------------------------------------------------
\* The levels of the nodes that the walks come to.
LEMMA LevelOnWay ==
  ASSUME NEW t, MemoryOK(t), OnWay(t)
  PROVE  level \in Level /\ Len(PathAt(level)) = level * STRIDE
<1>1. PICK a, lvl : a = arg /\ lvl = level
  OBVIOUS
<1>2. a \in Prefix /\ lvl \in Nat /\ lvl * STRIDE <= Len(a)
  BY <1>1, OnWayFacts DEF OnWay
<1>3. lvl \in Level
  BY <1>2, OnTheWay
<1> QED BY <1>1, <1>3, OnWayFacts

\* The same of update_nodes.
LEMMA LevelOfTurn ==
  ASSUME NEW t, MemoryOK(t), UpdateOK(t)
  PROVE  i \in Level /\ level \in Level /\ Len(PathAt(i)) = i * STRIDE
<1>1. PICK a, k, top : a = arg /\ k = i /\ top = level
  OBVIOUS
<1>2. /\ a \in Prefix /\ k \in Nat /\ k * STRIDE <= Len(a)
      /\ top \in Nat /\ top * STRIDE <= Len(a) /\ PathAt(i) = Along(a, k)
  BY <1>1, UpdateFacts
<1>3. k \in Level /\ top \in Level /\ Len(Along(a, k)) = k * STRIDE
  BY <1>2, OnTheWay
<1> QED BY <1>1, <1>2, <1>3

\* A step that leaves the memory leaves what is counted.
LEMMA MemoryStays ==
  ASSUME NEW t, MemoryOK(t), UNCHANGED <<memory, op>>, UnitsAreRead',
         lnode \in [Level -> Int]
  PROVE  CountsKept
<1>1. root' = root /\ heap' = heap /\ lnode' = lnode /\ op' = op
  BY DEF memory
<1>2. MemoryOK(t)'
  BY <1>1, Untouched
<1>3. PICK u : u = t
  OBVIOUS
<1> QED BY <1>1, <1>2, <1>3, NodesStay

\* The same nodes.
SameNodesAs(t, u) == u.paths = t.paths /\ \A c \in t.paths : u.node[c] = t.node[c]

\* A node whose rules alone change.
LEMMA OnlyRulesChange ==
  ASSUME NEW t, IsShape(t), NEW b \in t.paths, NEW n, n = t.node[b],
         NEW rs, Fits(t, b, n, rs), NEW u, u = Changed(t, b, n, rs)
  PROVE  SameNodesAs(t, u)
<1>1. Fits(t, b, t.node[b], rs)
  OBVIOUS
<1>2. PICK w : w = Changed(t, b, t.node[b], rs)
  OBVIOUS
<1>3. w.paths = t.paths /\ \A c \in t.paths : w.node[c] = t.node[c]
  BY <1>1, <1>2, SameNode
<1> QED BY <1>2, <1>3 DEF SameNodesAs

\* A rule is inserted or written over.
LEMMA InsertRuleCounts ==
  ASSUME NEW t, MemoryOK(t), Walk(t), op \in {"simple", "color"}, InsertRule,
         UnitsAreRead', lnode \in [Level -> Int]
  PROVE  CountsKept
<1>1. pc = "insert" /\ Len(Rest) < STRIDE /\ op' = op
  BY DEF InsertRule
<1>2. InsertOK(t) /\ OnWay(t)
  BY <1>1 DEF Walk, InsertOK
<1>3. PICK b, lvl, pos : b = PathAt(level) /\ lvl = level /\ pos = PosOfRule(Rest)
  OBVIOUS
<1>4. /\ b \in t.paths /\ At(node) = t.node[b] /\ node = PtrTo(t, b)
      /\ pos \in InlPos /\ RuleFits(b, pos) /\ nhi \in NHI
      /\ lvl \in Level /\ Len(b) = lvl * STRIDE /\ PathAt(lvl) = b
  BY <1>1, <1>2, <1>3, OnWayFacts, LevelOnWay DEF OnWay, InsertOK
<1>5. CASE pos \in t.node[b].internal
  <2>1. PICK n : n = t.node[b]
    OBVIOUS
  <2>2. Overwrites(n, pos) /\ lnode' = lnode
    BY <1>3, <1>4, <1>5, <2>1 DEF InsertRule, Overwrites
  <2>3. PICK rs : NodeBecomes(t, b, n, rs)
    BY <1>4, <1>5, <2>1, <2>2, OverwriteRule
  <2>4. PICK u : u = Changed(t, b, n, rs)
    OBVIOUS
  <2>5. MemoryOK(u)'
    BY <1>1, <2>3, <2>4, Became
  <2>6. u.paths = t.paths /\ \A c \in t.paths : u.node[c] = t.node[c]
    <3>1. IsShape(t) /\ Fits(t, b, n, rs)
      BY <2>1, <2>3 DEF MemoryOK, NodeBecomes
    <3>2. b \in t.paths
      BY <1>4
    <3>3. SameNodesAs(t, u)
      BY <2>1, <2>4, <3>1, <3>2, OnlyRulesChange
    <3> QED BY <3>3 DEF SameNodesAs
  <2> QED BY <2>2, <2>5, <2>6, NodesStay
<1>6. CASE pos \notin t.node[b].internal
  <2>1. extend_rule(PtrTo(t, b), pos, lvl)
    BY <1>3, <1>4, <1>6 DEF InsertRule
  <2>2. \E m, rs : NodeBecomes(t, b, m, rs) /\ RuleComes(t, b, m, rs, pos, nhi)
    BY <1>4, <1>6, <2>1, ExtendRule
  <2>3. PICK m, rs : NodeBecomes(t, b, m, rs) /\ RuleComes(t, b, m, rs, pos, nhi)
    BY <2>2
  <2>4. Counts(t, b, m, lvl)
    BY <1>4, <1>6, <2>1, <2>3, ExtendRuleCounts
  <2> QED BY <1>1, <1>4, <2>3, <2>4, NodeIsCounted
<1> QED BY <1>5, <1>6

\* A child is gone on to, or made.
LEMMA InsertDescendCounts ==
  ASSUME NEW t, MemoryOK(t), Walk(t), op \in {"simple", "color"}, InsertDescend,
         UnitsAreRead', lnode \in [Level -> Int]
  PROVE  CountsKept /\ level' \in Level
<1>1. pc = "insert" /\ Len(Rest) >= STRIDE /\ op' = op /\ level' = level + 1
  BY DEF InsertDescend
<1>2. InsertOK(t) /\ OnWay(t)
  BY <1>1 DEF Walk, InsertOK
<1>3. PICK b, lvl, pos : b = PathAt(level) /\ lvl = level /\ pos = ChildPos
  OBVIOUS
<1>4. /\ b \in t.paths /\ At(node) = t.node[b] /\ node = PtrTo(t, b)
      /\ pos \in EnlPos /\ KidFits(b, pos) /\ level + 1 \in Level
      /\ lvl \in Level /\ Len(b) = lvl * STRIDE /\ PathAt(lvl) = b
  BY <1>1, <1>2, <1>3, OnWayFacts, LevelOnWay DEF OnWay, InsertOK
<1>5. CASE pos \in t.node[b].external
  <2>1. UNCHANGED <<memory, op>>
    BY <1>1, <1>3, <1>4, <1>5 DEF InsertDescend
  <2> QED BY <1>1, <1>4, <2>1, MemoryStays
<1>6. CASE pos \notin t.node[b].external
  <2>1. extend_child(PtrTo(t, b), pos, lvl)
    BY <1>3, <1>4, <1>6 DEF InsertDescend
  <2>2. PICK m : NodeBecomes(t, b, m, t.rule[b]) /\ KidComes(t, b, m, pos)
    <3>1. \E m : /\ NodeBecomes(t, b, m, t.rule[b]) /\ KidComes(t, b, m, pos)
                 /\ m.child_ptr = Allocated(UnitsOf(child_num(t.node[b]) + 1, rule_num(t.node[b])), lvl)
      BY <1>4, <1>6, <2>1, ExtendChild
    <3> QED BY <3>1
  <2>3. PICK rs : rs = t.rule[b]
    OBVIOUS
  <2>4. NodeBecomes(t, b, m, rs)
    BY <2>2, <2>3
  <2>5. Counts(t, b, m, lvl)
    BY <1>4, <1>6, <2>1, <2>2, ExtendChildCounts
  <2> QED BY <1>1, <1>4, <2>4, <2>5, NodeIsCounted
<1> QED BY <1>5, <1>6

\* A rule goes,
LEMMA UpdateLastCounts ==
  ASSUME NEW t, MemoryOK(t), Walk(t), op \in {"simple", "color"}, UpdateLast,
         UnitsAreRead', lnode \in [Level -> Int]
  PROVE  CountsKept
<1>1. /\ pc = "update" /\ i = level /\ op' = op
      /\ reduce_rule(Traced.node, Traced.pos, i)
  BY DEF UpdateLast
<1>2. UpdateOK(t)
  BY <1>1 DEF Walk
<1>3. PICK a, b, k, pos : a = arg /\ b = PathAt(i) /\ k = i /\ pos = Traced.pos
  OBVIOUS
<1>4. /\ IsShape(t) /\ a \in Prefix /\ Len(a) \in Nat
      /\ k * STRIDE <= Len(a) /\ Len(a) < (k + 1) * STRIDE
      /\ k \in Nat /\ b = Along(a, k) /\ b \in t.paths
      /\ Traced.node = PtrTo(t, b)
      /\ pos = IF (k + 1) * STRIDE <= Len(a) THEN LastPos(PathAt(i + 1)) ELSE RulePos(a)
      /\ PrefixExist(before, a)
      /\ k \in Level /\ Len(b) = k * STRIDE /\ PathAt(k) = b
  BY <1>1, <1>2, <1>3, UpdateFacts, LevelOfTurn
<1>5. pos = RulePos(a)
  <2>1. k + 1 \in Nat
    BY <1>4
  <2>2. (k + 1) * STRIDE \in Nat
    BY <2>1, StrideSteps
  <2> QED BY <1>4, <2>2
<1>6. pos \in t.node[b].internal
  <2>1. TrieOf(t) = before
    BY <1>1, <1>2 DEF UpdateOK
  <2>2. a \in DOMAIN TrieOf(t).inl
    BY <1>4, <2>1 DEF PrefixExist
  <2>3. NodeOf(a) = b
    BY <1>4, EndOfTheWay
  <2> QED BY <1>4, <1>5, <2>2, <2>3, WayToRule
<1>7. reduce_rule(PtrTo(t, b), pos, k)
  BY <1>1, <1>3, <1>4
<1>8. PICK m, rs : NodeBecomes(t, b, m, rs) /\ RuleGoes(t, b, m, rs, pos)
  <2>1. \E m, rs : NodeBecomes(t, b, m, rs) /\ RuleGoes(t, b, m, rs, pos)
    BY <1>4, <1>6, <1>7, ReduceRule
  <2> QED BY <2>1
<1>9. Counts(t, b, m, k)
  BY <1>4, <1>6, <1>7, <1>8, ReduceRuleCounts
<1> QED BY <1>1, <1>4, <1>8, <1>9, NodeIsCounted

\* and the emptied nodes above it.
LEMMA UpdateAboveCounts ==
  ASSUME NEW t, MemoryOK(t), Walk(t), op \in {"simple", "color"}, UpdateAbove,
         UnitsAreRead', lnode \in [Level -> Int]
  PROVE  CountsKept
<1>1. /\ pc = "update" /\ i < level /\ op' = op
      /\ \/ node_need_to_del /\ reduce_child(Traced.node, Traced.pos, i)
         \/ ~ node_need_to_del /\ UNCHANGED memory
  BY DEF UpdateAbove
<1>2. UpdateOK(t)
  BY <1>1 DEF Walk
<1>3. CASE ~ node_need_to_del
  <2>1. UNCHANGED <<memory, op>>
    BY <1>1, <1>3
  <2> QED BY <2>1, MemoryStays
<1>4. CASE node_need_to_del
  <2>1. PICK a, b, k, pos, c : /\ a = arg /\ b = PathAt(i) /\ k = i /\ pos = Traced.pos
                               /\ c = Along(a, k + 1)
    OBVIOUS
  <2>2. PICK top, w : top = level /\ w = before
    OBVIOUS
  <2>3. /\ IsShape(t) /\ a \in Prefix /\ k \in Nat /\ top \in Nat /\ k < top
        /\ k + 1 \in Nat /\ k + 1 \in 1 .. top
        /\ k * STRIDE <= Len(a) /\ (k + 1) * STRIDE <= Len(a)
        /\ top * STRIDE <= Len(a)
        /\ b = Along(a, k) /\ b \in t.paths /\ Traced.node = PtrTo(t, b)
        /\ pos = LastPos(c)
        /\ k \in Level /\ Len(b) = k * STRIDE /\ PathAt(k) = b
    <3>1. /\ IsShape(t) /\ arg \in Prefix
          /\ level \in Nat /\ i \in 0 .. level /\ i \in Nat
          /\ level * STRIDE <= Len(arg)
          /\ \A j \in 0 .. level : j * STRIDE <= Len(arg)
          /\ PathAt(i) = Along(arg, i) /\ PathAt(i) \in t.paths
          /\ Traced.node = PtrTo(t, PathAt(i))
          /\ Traced.pos = IF (i + 1) * STRIDE <= Len(arg) THEN LastPos(PathAt(i + 1))
                          ELSE RulePos(arg)
      BY <1>2, UpdateFacts
    <3>2. i + 1 \in 0 .. level /\ i + 1 \in 1 .. level /\ i + 1 \in Nat
      BY <1>1, <3>1
    <3>3. PathAt(i + 1) = Along(arg, i + 1)
      BY IsAlong
    <3>4. i \in Level /\ Len(PathAt(i)) = i * STRIDE
      BY <1>2, LevelOfTurn
    <3> QED BY <1>1, <2>1, <2>2, <3>1, <3>2, <3>3, <3>4
  <2>4. /\ TrieOf(t).enl = w.enl \ GoneFrom(w, a, top, k + 2)
        /\ IsEmpty(t.node[c]) /\ c \in w.enl
    <3>1. PathAt(i + 1) = Along(arg, i + 1) /\ i + 1 \in 1 .. level
      BY <2>1, <2>2, <2>3, IsAlong
    <3>2. TrieOf(t) = [inl |-> Remove(before.inl, arg), enl |-> before.enl \ Gone(i + 2)]
      BY <1>1, <1>2 DEF UpdateOK
    <3>3. Gone(i + 2) = GoneFrom(w, a, top, k + 2)
      BY <2>1, <2>2 DEF Gone
    <3>4. IsEmpty(t.node[PathAt(i + 1)]) /\ PathAt(i + 1) \in before.enl
      BY <1>1, <1>2, <1>4, <3>1 DEF UpdateOK
    <3> QED BY <2>1, <2>2, <3>1, <3>2, <3>3, <3>4
  <2>5. c # <<>> /\ Up(c) = b /\ KidOf(b, pos) = c
    BY <2>1, <2>3, NextOnTheWay, OnTheWay
  <2>6. c \in t.paths
    <3>1. c \notin GoneFrom(w, a, top, k + 2)
      <4> SUFFICES ASSUME NEW j \in k + 2 .. top, c = Along(a, j) PROVE FALSE
        BY DEF GoneFrom
      <4>1. j \in Nat /\ j # k + 1 /\ j <= top
        BY <2>3
      <4>2. j * STRIDE <= Len(a)
        BY <2>3, <4>1, OnTheWay
      <4>3. Along(a, j) = Along(a, k + 1)
        BY <2>1
      <4>4. j = k + 1
        BY <2>3, <4>1, <4>2, <4>3, WayIsUnique
      <4> QED BY <4>1, <4>4
    <3>2. c \in TrieOf(t).enl
      BY <2>4, <3>1
    <3> QED BY <3>2, TrieOfIs
  <2>7. pos \in t.node[b].external
    BY <2>3, <2>5, <2>6, NodeOfShape
  <2>8. reduce_child(PtrTo(t, b), pos, k) /\ IsEmpty(t.node[KidOf(b, pos)])
    BY <1>1, <1>4, <2>1, <2>3, <2>4, <2>5
  <2>9. PICK m : NodeBecomes(t, b, m, t.rule[b]) /\ KidGoes(t, b, m, pos)
    <3>1. \E m : NodeBecomes(t, b, m, t.rule[b]) /\ KidGoes(t, b, m, pos)
      BY <2>3, <2>7, <2>8, ReduceChild
    <3> QED BY <3>1
  <2>10. PICK rs : rs = t.rule[b]
    OBVIOUS
  <2>11. NodeBecomes(t, b, m, rs)
    BY <2>9, <2>10
  <2>12. Counts(t, b, m, k)
    BY <2>3, <2>7, <2>8, <2>9, ReduceChildCounts
  <2> QED BY <1>1, <2>3, <2>11, <2>12, NodeIsCounted
<1> QED BY <1>1, <1>3, <1>4


\* destroy_subtrie leaves the nodes and the statistics when it is called,
LEMMA CallDestroyCounts ==
  ASSUME NEW t, MemoryOK(t), Walk(t), CallDestroy,
         UnitsAreRead', lnode \in [Level -> Int]
  PROVE  CountsKept
<1>1. Enter(Root, <<>>) /\ op' = op
  BY DEF CallDestroy
<1>2. PICK b, frames : b = <<>> /\ frames = <<>>
  OBVIOUS
<1>3. b \in t.paths /\ PtrTo(t, b) = Root
  BY <1>2 DEF MemoryOK, IsShape, PtrTo
<1>4. Enter(PtrTo(t, b), frames)
  BY <1>1, <1>2, <1>3
<1>5. /\ lnode' = lnode
      /\ \E u : /\ IsShape(u) /\ InMemory(u, root', heap', op)
                /\ u.paths = t.paths
                /\ \A d \in t.paths : u.node[d] = t.node[d]
  BY <1>3, <1>4, EnterNode
<1>6. PICK u : /\ IsShape(u) /\ InMemory(u, root', heap', op)
               /\ u.paths = t.paths
               /\ \A d \in t.paths : u.node[d] = t.node[d]
  BY <1>5
<1>7. MemoryOK(u)'
  BY <1>1, <1>6 DEF MemoryOK
<1> QED BY <1>5, <1>6, <1>7, NodesStay

\* and for a child.
LEMMA DestroyChildCounts ==
  ASSUME NEW t, MemoryOK(t), Walk(t), DestroyChild,
         UnitsAreRead', lnode \in [Level -> Int]
  PROVE  CountsKept
<1>1. PICK pos : pos = Min(ChildrenToCome)
  OBVIOUS
<1>2. PICK frames : frames = TopMoved(stack, pos + 1)
  OBVIOUS
<1>3. /\ pc = "destroy" /\ ChildrenToCome # {} /\ op' = op
      /\ Enter(next_child(At(Top.node), pos), frames)
  BY <1>1, <1>2 DEF DestroyChild, TopMoved
<1>4. IsShape(t)
  BY <1>3, DestroyFacts
<1>5. PICK b :
        /\ b \in t.paths
        /\ At(Top.node) = t.node[b]
        /\ ChildrenToCome = {q \in t.node[b].external : q >= Top.stride}
        /\ t.node[b].external \subseteq Nat
  BY <1>3, DestroyFacts
<1>6. pos \in t.node[b].external
  <2>1. PICK S : S = ChildrenToCome
    OBVIOUS
  <2>2. S \subseteq Nat /\ S # {}
    BY <1>3, <1>5, <2>1
  <2>3. pos \in S
    BY <1>1, <2>1, <2>2, MinOfNats
  <2> QED BY <1>5, <2>1, <2>3
<1>7. PICK c : c = KidOf(b, pos)
  OBVIOUS
<1>8. c \in t.paths
  BY <1>4, <1>5, <1>6, <1>7, NodeOfShape
<1>9. Enter(PtrTo(t, c), frames)
  <2>1. next_child(t.node[b], pos) = PtrTo(t, c)
    BY <1>4, <1>5, <1>6, <1>7, NextChildPtr
  <2> QED BY <1>3, <1>5, <2>1
<1>10. /\ lnode' = lnode
       /\ \E u : /\ IsShape(u) /\ InMemory(u, root', heap', op)
                 /\ u.paths = t.paths
                 /\ \A d \in t.paths : u.node[d] = t.node[d]
  BY <1>8, <1>9, EnterNode
<1>11. PICK u : /\ IsShape(u) /\ InMemory(u, root', heap', op)
                /\ u.paths = t.paths
                /\ \A d \in t.paths : u.node[d] = t.node[d]
  BY <1>10
<1>12. MemoryOK(u)'
  BY <1>3, <1>11 DEF MemoryOK
<1> QED BY <1>10, <1>11, <1>12, NodesStay

\* What destroy_subtrie counts for a node it frees.
FreedUnits(n) ==
  IF n.child_ptr = NULL THEN 0 ELSE UnitsOf(child_num(ZeroNode), rule_num(n))

\* It is no more than the node has.
LEMMA FreedUnitsRange ==
  ASSUME NEW n \in Node, n.child_ptr = NULL => IsEmpty(n)
  PROVE  /\ FreedUnits(n) \in Nat /\ FreedUnits(n) <= SizeOf(n) /\ SizeOf(n) \in Nat
         /\ SizeOf(ZeroNode) = 0
<1>1. ZeroNode \in Node /\ IsEmpty(ZeroNode)
  BY ZeroNodeIsNode
<1>2. child_num(ZeroNode) = 0
  BY FS_EmptySet DEF ZeroNode, child_num
<1>3. /\ SizeOf(n) \in Nat /\ UnitsOf(0, rule_num(n)) \in Nat
      /\ UnitsOf(0, rule_num(n)) <= SizeOf(n) /\ SizeOf(ZeroNode) = 0
  BY <1>1, SizeIs
<1> QED BY <1>2, <1>3 DEF FreedUnits

\* A node that is freed takes no more from the statistics than from memory.
LEMMA DestroyNodeCounts ==
  ASSUME NEW t, MemoryOK(t), Walk(t), DestroyNode,
         UnitsAreRead', lnode \in [Level -> Int]
  PROVE  CountsNotLess
<1>1. PICK n, p, top : n = At(Top.node) /\ p = Top.node /\ top = Len(stack) - 1
  OBVIOUS
<1>2. /\ pc = "destroy" /\ ChildrenToCome = {} /\ op' = op
      /\ Store(p, ZeroNode,
               [c \in DOMAIN heap \ Freed(n, UP_RULE(rule_num(n))) |-> heap[c]])
  BY <1>1 DEF DestroyNode
<1>3. lnode' = [lnode EXCEPT ![top] = @ - FreedUnits(n)]
  BY <1>1 DEF DestroyNode, FreedUnits
<1>4. IsShape(t) /\ InMemory(t, root, heap, op)
  BY DEF MemoryOK
<1>5. PICK s, b, k :
        /\ k = Len(stack) /\ k \in Nat /\ k >= 1
        /\ b \in t.paths /\ Len(b) = (k - 1) * STRIDE
        /\ Top.node = PtrTo(t, b) /\ At(Top.node) = t.node[b]
        /\ ChildrenToCome = {q \in t.node[b].external : q >= Top.stride}
        /\ t.node[b].external \subseteq Nat
        /\ \A q \in t.node[b].external :
             q < Top.stride => t.node[KidOf(b, q)] = ZeroNode
        /\ Top.stride \in Nat
  BY <1>2, DestroyFacts
<1>6. \A q \in n.external : t.node[KidOf(b, q)] = ZeroNode
  <2> TAKE q \in n.external
  <2>1. q \in t.node[b].external /\ q \in Nat
    BY <1>1, <1>5
  <2>2. ~ (q >= Top.stride)
    BY <1>2, <1>5, <2>1
  <2> QED BY <1>5, <2>1, <2>2
<1>7. PICK rs, m : rs = [q \in {} |-> NULL] /\ m = ZeroNode
  OBVIOUS
<1>8. NodeBecomes(t, b, m, rs)
  <2>1. NodeBecomes(t, b, ZeroNode, [q \in {} |-> NULL])
    BY <1>1, <1>2, <1>5, <1>6, DropNode
  <2> QED BY <1>7, <2>1
<1>9. top \in Level /\ Len(b) = top * STRIDE
  <2>1. top \in Nat /\ Len(b) = top * STRIDE
    BY <1>1, <1>5
  <2>2. b \in NodePath
    BY <1>4, <1>5 DEF IsShape
  <2>3. PICK lvl \in Level : Len(b) = lvl * STRIDE
    BY <2>2, LevelOfPath
  <2>4. lvl \in Nat /\ lvl * STRIDE = top * STRIDE
    BY <2>1, <2>3 DEF Level
  <2>5. lvl = top
    BY <2>1, <2>4, LevelOfLength
  <2> QED BY <2>1, <2>5
<1>10. PICK p0, q0 : p0 = SizeOf(n) /\ q0 = FreedUnits(n)
  OBVIOUS
<1>11. p0 \in Nat /\ q0 \in Nat /\ q0 <= p0 /\ SizeOf(m) = 0 /\ SizeOf(t.node[b]) = p0
  <2>1. n \in Node /\ n = t.node[b]
    BY <1>1, <1>4, <1>5, NodeOfShape
  <2>2. n.child_ptr = NULL => IsEmpty(n)
    BY <1>4, <1>5, <2>1 DEF InMemory, HasBlock
  <2> QED BY <1>7, <1>10, <2>1, <2>2, FreedUnitsRange
<1>12. ASSUME NEW j \in Level
       PROVE  /\ UnitsInUse(j) \in Nat /\ UnitsInUse(j)' \in Nat
              /\ lnode'[j] \in Int
              /\ lnode'[j] - UnitsInUse(j)' >= lnode[j] - UnitsInUse(j)
  <2>1. PICK x, l : x = UnitsInUse(j) /\ l = lnode[j]
    OBVIOUS
  <2>2. /\ x \in Nat /\ UnitsInUse(j)' \in Nat
        /\ j = top => UnitsInUse(j)' = x + SizeOf(m) - SizeOf(t.node[b])
        /\ j # top => UnitsInUse(j)' = x
    BY <1>2, <1>5, <1>8, <1>9, <2>1, UnitsBecome
  <2>3. l \in Int
    BY <2>1
  <2>4. lnode'[j] = IF j = top THEN l - q0 ELSE l
    BY <1>3, <1>10, <2>1
  <2>5. PICK y, jj : y = UnitsInUse(j)' /\ jj = lnode'[j]
    OBVIOUS
  <2>6. jj \in Int /\ jj - y >= l - x
    <3>1. y = IF j = top THEN x - p0 ELSE x
      BY <1>11, <2>2, <2>5
    <3> QED BY <1>11, <2>2, <2>3, <2>4, <2>5, <3>1
  <2> QED BY <2>1, <2>2, <2>5, <2>6
<1>13. lnode' \in [Level -> Int]
  <2>1. lnode' = [j \in Level |-> lnode'[j]]
    BY <1>3
  <2> QED BY <1>12, <2>1
<1> QED BY <1>12, <1>13 DEF CountsNotLess


-----------------------------------------------------------------------------
\* What is kept is not less.
LEMMA KeptIsNotLess == CountsKept => CountsNotLess
<1> SUFFICES ASSUME CountsKept PROVE CountsNotLess
  OBVIOUS
<1>1. lnode' \in [Level -> Int]
  BY DEF CountsKept
<1>2. ASSUME NEW k \in Level
      PROVE  /\ UnitsInUse(k) \in Nat /\ UnitsInUse(k)' \in Nat
             /\ lnode'[k] - UnitsInUse(k)' >= lnode[k] - UnitsInUse(k)
  <2>1. PICK x, y, l, m : /\ x = UnitsInUse(k) /\ y = UnitsInUse(k)'
                          /\ l = lnode[k] /\ m = lnode'[k]
    OBVIOUS
  <2>2. x \in Nat /\ y \in Nat /\ m - y = l - x
    BY <2>1 DEF CountsKept
  <2>3. m \in Int
    BY <1>1, <2>1
  <2>4. m - y >= l - x
    <3>1. m - y \in Int
      BY <2>2, <2>3
    <3> QED BY <2>2, <3>1
  <2> QED BY <2>1, <2>2, <2>4
<1> QED BY <1>1, <1>2 DEF CountsNotLess

\* Every step counts what it does to the nodes, those of destroy_subtrie no more.
LEMMA StepCounts ==
  ASSUME NEW t, MemoryOK(t), Walk(t), op \in {"simple", "color"}, Next,
         UnitsAreRead', lnode \in [Level -> Int]
  PROVE  CountsKept \/ (pc = "destroy" /\ CountsNotLess)
<1>1. ASSUME NEW p, NEW h, CallInsert(p, h) PROVE CountsKept
  <2>1. UNCHANGED <<memory, op>>
    BY <1>1 DEF CallInsert, Call
  <2> QED BY <2>1, MemoryStays
<1>2. ASSUME InsertRule PROVE CountsKept
  BY <1>2, InsertRuleCounts
<1>3. ASSUME InsertDescend PROVE CountsKept
  BY <1>3, InsertDescendCounts
<1>4. ASSUME NEW p, CallDelete(p) PROVE CountsKept
  <2>1. UNCHANGED <<memory, op>>
    BY <1>4 DEF CallDelete, Call
  <2> QED BY <2>1, MemoryStays
<1>5. ASSUME DeleteDescend PROVE CountsKept
  <2>1. UNCHANGED <<memory, op>>
    BY <1>5 DEF DeleteDescend
  <2> QED BY <2>1, MemoryStays
<1>6. ASSUME UpdateLast PROVE CountsKept
  BY <1>6, UpdateLastCounts
<1>7. ASSUME UpdateAbove PROVE CountsKept
  BY <1>7, UpdateAboveCounts
<1>8. ASSUME CallDestroy PROVE CountsKept
  BY <1>8, CallDestroyCounts
<1>9. ASSUME DestroyChild PROVE CountsKept
  BY <1>9, DestroyChildCounts
<1>10. ASSUME DestroyNode PROVE pc = "destroy" /\ CountsNotLess
  <2>1. pc = "destroy"
    BY <1>10 DEF DestroyNode
  <2> QED BY <1>10, <2>1, DestroyNodeCounts
<1> QED BY <1>1, <1>2, <1>3, <1>4, <1>5, <1>6, <1>7, <1>8, <1>9, <1>10 DEF Next

-----------------------------------------------------------------------------
\* The statistics of a level count at least the units its nodes have.
CountInv ==
  /\ lnode \in [Level -> Int]
  /\ \A lvl \in Level : UnitsInUse(lvl) \in Nat /\ lnode[lvl] >= UnitsInUse(lvl)

\* The sum over no block.
LEMMA NothingSums ==
  ASSUME NEW f \in [{} -> Nat]
  PROVE  SumFunction(f) = 0
<1>1. PICK S : S = {}
  OBVIOUS
<1>2. IsFiniteSet(S) /\ f \in [S -> Nat]
  BY <1>1, FS_EmptySet
<1>3. PICK g : Sums(g, f, S)
  BY <1>2, SumsAre
<1>4. g[S] = 0 /\ S \in SUBSET S
  BY <1>1, <1>3 DEF Sums
<1>5. SumFunction(f) = g[S]
  BY <1>2, <1>3, <1>4 DEF Sums
<1> QED BY <1>4, <1>5

\* mm_init: no block and nothing counted.
LEMMA InitCounts == Init => CountInv
<1> SUFFICES ASSUME Init PROVE CountInv
  OBVIOUS
<1>1. PICK t : MemoryOK(t)
  BY InitOK
<1>2. IsShape(t) /\ InMemory(t, root, heap, op) /\ Owned(t)
  BY <1>1, InMemoryOwned DEF MemoryOK
<1>3. DOMAIN heap = {} /\ lnode = [lvl \in Level |-> 0]
  BY DEF Init
<1>4. ASSUME NEW lvl \in Level PROVE UnitsInUse(lvl) = 0
  <2>1. PICK S, f : S = BlocksAt(t, lvl) /\ f = SizesAt(t, lvl)
    OBVIOUS
  <2>2. S = {}
    <3> SUFFICES ASSUME NEW c \in S PROVE FALSE
      OBVIOUS
    <3>1. c # NULL /\ c[1] \in t.paths /\ t.node[c[1]].child_ptr = c
      BY <1>2, <2>1, BlocksAtIs
    <3>2. c \in DOMAIN heap
      BY <1>2, <3>1 DEF InMemory, HasBlock
    <3> QED BY <1>3, <3>2
  <2>3. f \in [{} -> Nat]
    BY <1>2, <2>1, <2>2, BlocksAtIs
  <2>4. SumFunction(f) = 0
    BY <2>3, NothingSums
  <2>5. UnitsInUse(lvl) = UnitsAt(t, lvl)
    BY <1>1, UnitsInUseIs
  <2> QED BY <2>1, <2>4, <2>5 DEF UnitsAt
<1> QED BY <1>3, <1>4 DEF CountInv

\* Nothing less counted is still enough.
LEMMA CountsStay == CountInv /\ CountsNotLess => CountInv'
<1> SUFFICES ASSUME CountInv, CountsNotLess PROVE CountInv'
  OBVIOUS
<1>1. lnode' \in [Level -> Int]
  BY DEF CountsNotLess
<1>2. ASSUME NEW k \in Level
      PROVE  UnitsInUse(k)' \in Nat /\ lnode'[k] >= UnitsInUse(k)'
  <2>1. PICK x, y, l, m : /\ x = UnitsInUse(k) /\ y = UnitsInUse(k)'
                          /\ l = lnode[k] /\ m = lnode'[k]
    OBVIOUS
  <2>2. x \in Nat /\ y \in Nat /\ m - y >= l - x
    BY <2>1 DEF CountsNotLess
  <2>3. m \in Int /\ l \in Int /\ l >= x
    BY <1>1, <2>1 DEF CountInv
  <2>4. m >= y
    BY <2>2, <2>3
  <2> QED BY <2>1, <2>2, <2>4
<1> QED BY <1>1, <1>2 DEF CountInv

\* The statistics never count less for a level than its nodes have: what
\* free_node subtracts is what alloc_node has added, or less.
THEOREM StatisticsAreEnough == Spec => []CountInv
<1>1. Init => CountInv
  BY InitCounts
<1>2. Inv /\ UnitsAreRead' /\ CountInv /\ [Next]_vars => CountInv'
  <2> SUFFICES ASSUME Inv, UnitsAreRead', CountInv, [Next]_vars PROVE CountInv'
    OBVIOUS
  <2>1. PICK t : MemoryOK(t) /\ Walk(t)
    BY DEF Inv
  <2>2. op \in {"simple", "color"} /\ lnode \in [Level -> Int]
    BY DEF Inv, CountInv
  <2>3. CASE Next
    <3>1. CountsKept \/ CountsNotLess
      BY <2>1, <2>2, <2>3, StepCounts
    <3>2. CountsNotLess
      BY <3>1, KeptIsNotLess
    <3> QED BY <3>2, CountsStay
  <2>4. CASE UNCHANGED vars
    <3>1. UNCHANGED <<memory, op>>
      BY <2>4 DEF vars, memory
    <3>2. CountsNotLess
      BY <2>1, <2>2, <3>1, MemoryStays, KeptIsNotLess
    <3> QED BY <3>2, CountsStay
  <2> QED BY <2>3, <2>4
<1> QED BY <1>1, <1>2, InvAlways, UnitsAreReadAlways, PTL DEF Spec

\* Insertion and deletion leave the difference between the statistics of a level
\* and what is in use there: alloc_node adds the sizes that free_node subtracts
\* later, whatever was rebuilt in between.
THEOREM StatisticsHold == Spec => StatisticsFollowMemory
<1>1. Inv /\ UnitsAreRead' /\ CountInv /\ [Next]_vars
        => [pc # "destroy" => Uncounted' = Uncounted]_vars
  <2> SUFFICES ASSUME Inv, UnitsAreRead', CountInv, Next, pc # "destroy"
               PROVE  Uncounted' = Uncounted
    OBVIOUS
  <2>1. PICK t : MemoryOK(t) /\ Walk(t)
    BY DEF Inv
  <2>2. op \in {"simple", "color"} /\ lnode \in [Level -> Int]
    BY DEF Inv, CountInv
  <2>3. CountsKept
    BY <2>1, <2>2, StepCounts
  <2>4. \A k \in Level : lnode'[k] - UnitsInUse(k)' = lnode[k] - UnitsInUse(k)
    BY <2>3 DEF CountsKept
  <2> QED BY <2>4 DEF Uncounted
<1> QED BY <1>1, InvAlways, UnitsAreReadAlways, StatisticsAreEnough, PTL
       DEF Spec, StatisticsFollowMemory


-----------------------------------------------------------------------------
\* What an operation keeps has its type.
WalkTypes ==
  /\ arg \in Prefix
  /\ nhi \in NHI \cup {NULL}
  /\ node \in Pointer
  /\ level \in Level
  /\ \A k \in DOMAIN trace : trace[k].node \in Pointer /\ trace[k].pos \in EnlPos
  /\ i \in Level
  /\ node_need_to_del \in BOOLEAN
  /\ \A k \in DOMAIN stack : stack[k].node \in Pointer /\ stack[k].stride \in Nat
  /\ IsTrie(before)

\* The level of the root.
LEMMA RootLevel == 0 \in Level
<1>1. PICK lvl \in Level : Len(<<>>) = lvl * STRIDE
  BY RootPath, LevelOfPath
<1>2. lvl \in Nat /\ Len(<<>>) = 0 /\ 0 * STRIDE = 0
  BY RootPath, StrideAssumption DEF Level
<1>3. lvl = 0
  BY <1>1, <1>2, LevelOfLength
<1> QED BY <1>3

\* The members of trace_node and of the recursion.
LEMMA MembersOf ==
  ASSUME NEW s
  PROVE  /\ s \in Seq([node : Pointer, pos : EnlPos])
              => \A k \in DOMAIN s : s[k].node \in Pointer /\ s[k].pos \in EnlPos
         /\ s \in Seq(Frame)
              => \A k \in DOMAIN s : s[k].node \in Pointer /\ s[k].stride \in Nat
         /\ s = <<>> => DOMAIN s = {}
<1>1. ASSUME s \in Seq([node : Pointer, pos : EnlPos])
      PROVE  \A k \in DOMAIN s : s[k].node \in Pointer /\ s[k].pos \in EnlPos
  <2>1. PICK T : T = [node : Pointer, pos : EnlPos]
    OBVIOUS
  <2>2. s \in Seq(T)
    BY <1>1, <2>1
  <2>3. \A k \in DOMAIN s : s[k] \in T
    BY <2>2
  <2> QED BY <2>1, <2>3
<1>2. ASSUME s \in Seq(Frame)
      PROVE  \A k \in DOMAIN s : s[k].node \in Pointer /\ s[k].stride \in Nat
  <2>1. \A k \in DOMAIN s : s[k] \in Frame
    BY <1>2
  <2> QED BY <2>1 DEF Frame
<1>3. ASSUME s = <<>> PROVE DOMAIN s = {}
  BY <1>3
<1> QED BY <1>1, <1>2, <1>3

\* When nothing is under way,
LEMMA TypesAtRest ==
  ASSUME AtRest, IsTrie(before),
         \A k \in DOMAIN stack : stack[k].node \in Pointer /\ stack[k].stride \in Nat
  PROVE  WalkTypes
<1>1. <<>> \in Prefix
  BY RootPath DEF NodePath
<1>2. Root \in Pointer
  BY DEF Pointer
<1>3. DOMAIN trace = {}
  BY MembersOf DEF AtRest
<1> QED BY <1>1, <1>2, <1>3, RootLevel DEF AtRest, WalkTypes

\* on the way down,
LEMMA TypesOnWay ==
  ASSUME NEW t, MemoryOK(t), OnWay(t), nhi \in NHI \cup {NULL},
         \A k \in DOMAIN trace : trace[k].node \in Pointer /\ trace[k].pos \in EnlPos
  PROVE  WalkTypes
<1>1. arg \in Prefix /\ PathAt(level) \in t.paths
  BY OnWayFacts
<1>2. node \in Pointer
  BY <1>1, AtPtrTo DEF OnWay
<1>3. level \in Level
  BY LevelOnWay
<1>4. DOMAIN stack = {}
  BY MembersOf DEF OnWay
<1> QED BY <1>1, <1>2, <1>3, <1>4, RootLevel DEF OnWay, WalkTypes

\* and in each operation.
LEMMA WalkHasTypes ==
  ASSUME NEW t, MemoryOK(t), Walk(t)
  PROVE  WalkTypes
<1>1. CASE IdleOK(t)
  <2>1. AtRest /\ IsTrie(before) /\ DOMAIN stack = {}
    BY <1>1, EmptyTrieOK, MembersOf DEF IdleOK
  <2> QED BY <2>1, TypesAtRest
<1>2. CASE InsertOK(t)
  <2>1. OnWay(t) /\ nhi \in NHI \cup {NULL} /\ DOMAIN trace = {}
    BY <1>2, MembersOf DEF InsertOK
  <2> QED BY <2>1, TypesOnWay
<1>3. CASE DeleteOK(t)
  <2>1. /\ OnWay(t) /\ nhi \in NHI \cup {NULL}
        /\ trace \in Seq([node : Pointer, pos : EnlPos])
    BY <1>3 DEF DeleteOK
  <2>2. \A k \in DOMAIN trace : trace[k].node \in Pointer /\ trace[k].pos \in EnlPos
    BY <2>1, MembersOf
  <2> QED BY <2>1, <2>2, TypesOnWay
<1>4. CASE UpdateOK(t)
  <2>1. i \in Level /\ level \in Level
    BY <1>4, LevelOfTurn
  <2>2. arg \in Prefix /\ IsTrie(before)
    BY <1>4, UpdateFacts
  <2>3. /\ nhi \in NHI \cup {NULL} /\ node \in Pointer /\ node_need_to_del \in BOOLEAN
        /\ trace \in Seq([node : Pointer, pos : EnlPos]) /\ stack = <<>>
    BY <1>4 DEF UpdateOK
  <2>4. \A k \in DOMAIN trace : trace[k].node \in Pointer /\ trace[k].pos \in EnlPos
    BY <2>3, MembersOf
  <2>5. DOMAIN stack = {}
    BY <2>3, MembersOf
  <2> QED BY <2>1, <2>2, <2>3, <2>4, <2>5 DEF WalkTypes
<1>5. CASE DestroyOK(t)
  <2>1. AtRest /\ IsTrie(before) /\ stack \in Seq(Frame)
    BY <1>5 DEF DestroyOK, Frames
  <2>2. \A k \in DOMAIN stack : stack[k].node \in Pointer /\ stack[k].stride \in Nat
    BY <2>1, MembersOf
  <2> QED BY <2>1, <2>2, TypesAtRest
<1> QED BY <1>1, <1>2, <1>3, <1>4, <1>5 DEF Walk

\* Whatever runs, root and blocks, statistics and the variables of the operation
\* have their types: the numbers of the statistics are never negative, no bit is
\* outside its bitmap and no level below the last.
THEOREM TypeCorrect == Spec => []TypeOK
<1>1. Inv /\ CountInv => TypeOK
  <2> SUFFICES ASSUME Inv, CountInv PROVE TypeOK
    OBVIOUS
  <2>1. PICK t : MemoryOK(t) /\ Walk(t)
    BY DEF Inv
  <2>2. IsShape(t) /\ InMemory(t, root, heap, op)
    BY <2>1 DEF MemoryOK
  <2>3. root \in Node
    BY <2>2 DEF InMemory, IsShape
  <2>4. DOMAIN heap \subseteq Block
    BY <2>2 DEF InMemory
  <2>5. \A b \in DOMAIN heap :
          /\ heap[b].units \in 0 .. Pow2[STRIDE + 1]
          /\ heap[b].low \in 0 .. heap[b].units
          /\ heap[b].rule \in [1 .. NODE_WORDS * heap[b].low -> NHI \cup {NULL}]
          /\ heap[b].kid \in [0 .. heap[b].units - heap[b].low - 1 -> Node]
    <3> TAKE b \in DOMAIN heap
    <3>1. IsBlock(heap[b])
      BY <2>2 DEF InMemory
    <3> QED BY <3>1 DEF IsBlock
  <2>6. lnode \in [Level -> Nat]
    <3>1. \A k \in Level : lnode[k] \in Nat
      <4> TAKE k \in Level
      <4>1. PICK x, l : x = UnitsInUse(k) /\ l = lnode[k]
        OBVIOUS
      <4>2. x \in Nat /\ l \in Int /\ l >= x
        BY <4>1 DEF CountInv
      <4>3. l \in Nat
        BY <4>2
      <4> QED BY <4>1, <4>3
    <3> QED BY <3>1 DEF CountInv
  <2>7. op \in {"simple", "color"} /\ pc \in {"idle", "insert", "delete", "update", "destroy"}
    BY <2>1 DEF Inv, Walk
  <2>8. WalkTypes
    BY <2>1, WalkHasTypes
  <2> QED BY <2>3, <2>4, <2>5, <2>6, <2>7, <2>8 DEF WalkTypes, TypeOK
<1> QED BY <1>1, InvAlways, StatisticsAreEnough, PTL

=============================================================================
