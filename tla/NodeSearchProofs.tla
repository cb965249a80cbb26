-------------------------- MODULE NodeSearchProofs --------------------------
(***************************************************************************)
(* That both builds of tree_function, and find_overlap_in_node, find the   *)
(* longest rule of a node that matches, for every STRIDE: the arithmetic   *)
(* of positions and shifts.                                                *)
(***************************************************************************)
EXTENDS NodeSearch, TrieProofs

-----------------------------------------------------------------------------
\* Shifting twice is shifting by the sum.
LEMMA ShiftShift ==
  ASSUME NEW x \in Nat, NEW a \in Nat, NEW b \in Nat
  PROVE  ShiftRight(ShiftRight(x, a), b) = ShiftRight(x, a + b)
<1> DEFINE p == Pow2[a]
           q == Pow2[b]
<1>1. p \in Nat /\ p > 0 /\ q \in Nat /\ q > 0 /\ Pow2[a + b] = p * q
  <2>1. Pow2[a + b] = p * q
    BY Pow2Sum
  <2>2. p \in Nat /\ p >= 1 /\ q \in Nat /\ q >= 1
    BY Pow2Positive
  <2> HIDE DEF p, q
  <2> QED BY <2>1, <2>2
<1> HIDE DEF p, q
<1>2. (x \div p) \div q = x \div (p * q)
  BY <1>1, DivDiv
<1> QED BY <1>1, <1>2 DEF ShiftRight, p, q

\* A value of n bits, shifted by a of them, has n - a bits.
LEMMA ShiftRange ==
  ASSUME NEW n \in Nat, NEW a \in 0 .. n, NEW x \in 0 .. Pow2[n] - 1
  PROVE  ShiftRight(x, a) \in 0 .. Pow2[n - a] - 1
<1> DEFINE b == Pow2[a]
           m == Pow2[n - a]
           q == x \div b
           r == x % b
<1>1. a \in Nat /\ n - a \in Nat /\ a + (n - a) = n
  OBVIOUS
<1>2. b \in Nat /\ b > 0 /\ m \in Nat /\ m > 0 /\ Pow2[n] = b * m
  <2>1. Pow2[a + (n - a)] = b * m
    BY <1>1, Pow2Sum
  <2>2. b \in Nat /\ b >= 1 /\ m \in Nat /\ m >= 1
    BY <1>1, Pow2Positive
  <2> HIDE DEF b, m
  <2> QED BY <1>1, <2>1, <2>2
<1>3. x \in Nat /\ x < b * m
  BY <1>2
<1> HIDE DEF b, m
<1>4. q \in Int /\ r \in 0 .. b - 1 /\ x = q * b + r
  BY <1>2, <1>3, DivModExist
<1> HIDE DEF q, r
<1>5. q >= 0
  <2> SUFFICES ASSUME q <= -1 PROVE FALSE
    BY <1>4
  <2>1. q * b <= (-1) * b
    BY <1>2, <1>4, ScaleOrder
  <2> QED BY <1>2, <1>3, <1>4, <2>1
<1>6. q <= m - 1
  <2> SUFFICES ASSUME m <= q PROVE FALSE
    BY <1>2, <1>4
  <2>1. m * b <= q * b
    BY <1>2, <1>4, ScaleOrder
  <2>2. m * b = b * m /\ q * b \in Int
    BY <1>2, <1>4
  <2> QED BY <1>2, <1>3, <1>4, <2>1, <2>2
<1> QED BY <1>2, <1>4, <1>5, <1>6 DEF ShiftRight, q, b, m

\* Shifting by nothing.
LEMMA ShiftNone ==
  ASSUME NEW x \in Nat
  PROVE  ShiftRight(x, 0) = x
<1>1. Pow2[0] = 1
  BY Pow2Is
<1>2. x = x * 1 + 0
  OBVIOUS
<1>3. x \div 1 = x
  BY <1>2, DivModIs
<1> QED BY <1>1, <1>3 DEF ShiftRight

\* A value is its bits: two of c bits with the same ones are the same.
LEMMA BitsDetermine ==
  ASSUME NEW c \in Nat, NEW u \in 0 .. Pow2[c] - 1, NEW v \in 0 .. Pow2[c] - 1,
         \A k \in 1 .. c : BitAt(u, c, k) = BitAt(v, c, k)
  PROVE  u = v
<1> DEFINE S == {k \in Nat : k <= c => ShiftRight(u, c - k) = ShiftRight(v, c - k)}
<1>0. u \in Nat /\ v \in Nat /\ Pow2[c] \in Nat /\ Pow2[c] > 0
  BY Pow2Positive
<1>1. 0 \in S
  <2>1. u \div Pow2[c] = 0 /\ v \div Pow2[c] = 0
    BY <1>0, DivSmall
  <2>2. c - 0 = c
    OBVIOUS
  <2> QED BY <2>1, <2>2 DEF ShiftRight
<1>2. ASSUME NEW k \in S PROVE k + 1 \in S
  <2>1. k \in Nat
    OBVIOUS
  <2> SUFFICES ASSUME k + 1 <= c
               PROVE  ShiftRight(u, c - (k + 1)) = ShiftRight(v, c - (k + 1))
    BY <2>1
  <2> DEFINE n == c - (k + 1)
             U == ShiftRight(u, n)
             V == ShiftRight(v, n)
  <2>2. n \in Nat /\ n + 1 = c - k /\ k + 1 \in 1 .. c /\ n \in 0 .. c
    BY <2>1
  <2>3. ShiftRight(u, n + 1) = ShiftRight(v, n + 1)
    BY <2>1, <2>2
  <2>4. U \in Nat /\ V \in Nat
    <3>1. c - n \in Nat /\ Pow2[c - n] \in Nat
      BY <2>2, Pow2Positive
    <3>2. U \in 0 .. Pow2[c - n] - 1 /\ V \in 0 .. Pow2[c - n] - 1
      BY <2>2, ShiftRange
    <3> HIDE DEF U, V
    <3> QED BY <3>1, <3>2
  <2>5. Pow2[1] = 2
    <3>1. Pow2[0 + 1] = 2 * Pow2[0]
      BY Pow2Is
    <3> QED BY <3>1, Pow2Is
  <2>6. ShiftRight(U, 1) = ShiftRight(u, n + 1) /\ ShiftRight(V, 1) = ShiftRight(v, n + 1)
    <3> HIDE DEF S, n
    <3>1. n \in Nat /\ 1 \in Nat
      BY <2>2
    <3>2. ShiftRight(ShiftRight(u, n), 1) = ShiftRight(u, n + 1)
      BY <1>0, <3>1, ShiftShift
    <3>3. ShiftRight(ShiftRight(v, n), 1) = ShiftRight(v, n + 1)
      BY <1>0, <3>1, ShiftShift
    <3> QED BY <3>2, <3>3
  <2>7. U \div 2 = V \div 2
    BY <2>3, <2>5, <2>6 DEF ShiftRight
  <2>8. U % 2 = V % 2
    <3>1. BitAt(u, c, k + 1) = BitAt(v, c, k + 1)
      BY <2>2
    <3> QED BY <3>1 DEF BitAt, ShiftRight
  <2> HIDE DEF U, V
  <2>9. U = (U \div 2) * 2 + (U % 2) /\ V = (V \div 2) * 2 + (V % 2)
    BY <2>4, DivModExist
  <2>10. U = V
    BY <2>7, <2>8, <2>9
  <2> QED BY <2>10 DEF U, V
<1>3. S \subseteq Nat
  OBVIOUS
<1> HIDE DEF S
<1>4. c \in S
  BY <1>1, <1>2, <1>3, NatIsClosure
<1>5. ShiftRight(u, 0) = ShiftRight(v, 0)
  <2>1. c - c = 0
    OBVIOUS
  <2> QED BY <1>4, <2>1 DEF S
<1> QED BY <1>0, <1>5, ShiftNone

\* A rule, taken apart.
LEMMA RuleParts ==
  ASSUME NEW rule \in Rule
  PROVE  /\ rule.cidr \in 0 .. STRIDE - 1
         /\ rule.bit \in 0 .. Pow2[rule.cidr] - 1
         /\ rule = [cidr |-> rule.cidr, bit |-> rule.bit]
<1>1. PICK c \in 0 .. STRIDE - 1 : rule \in [cidr : {c}, bit : 0 .. Pow2[c] - 1]
  BY DEF Rule
<1> QED BY <1>1

\* No two rules have a position in common.
THEOREM PositionsAreUnique ==
  ASSUME NEW r \in Rule, NEW q \in Rule, PosOf(r) = PosOf(q)
  PROVE  r = q
<1>1. /\ r.cidr \in 0 .. STRIDE - 1 /\ r.bit \in 0 .. Pow2[r.cidr] - 1
      /\ q.cidr \in 0 .. STRIDE - 1 /\ q.bit \in 0 .. Pow2[q.cidr] - 1
      /\ r = [cidr |-> r.cidr, bit |-> r.bit] /\ q = [cidr |-> q.cidr, bit |-> q.bit]
  BY RuleParts
<1> DEFINE c == r.cidr
           b == r.bit
           d == q.cidr
           e == q.bit
<1>2. /\ c \in 0 .. STRIDE - 1 /\ b \in 0 .. Pow2[c] - 1
      /\ d \in 0 .. STRIDE - 1 /\ e \in 0 .. Pow2[d] - 1
      /\ r = [cidr |-> c, bit |-> b] /\ q = [cidr |-> d, bit |-> e]
      /\ count_inl_bitmap(b, c) = count_inl_bitmap(e, d)
  BY <1>1 DEF PosOf
<1> HIDE DEF c, b, d, e
<1>3. count_inl_bitmap(b, c) \in Int
  <2>1. Pow2[c] \in Nat
    BY <1>2, Pow2Positive
  <2> QED BY <1>2, <2>1 DEF count_inl_bitmap
<1>4. ~ (c < d)
  <2> SUFFICES ASSUME c < d PROVE FALSE
    OBVIOUS
  <2>1. count_inl_bitmap(b, c) < count_inl_bitmap(e, d)
    BY <1>2, PosOrder
  <2> QED BY <1>2, <1>3, <2>1
<1>5. ~ (d < c)
  <2> SUFFICES ASSUME d < c PROVE FALSE
    OBVIOUS
  <2>1. count_inl_bitmap(e, d) < count_inl_bitmap(b, c)
    BY <1>2, PosOrder
  <2> QED BY <1>2, <1>3, <2>1
<1>6. c = d
  BY <1>2, <1>4, <1>5
<1>7. b = e
  <2>1. Pow2[c] \in Nat
    BY <1>2, Pow2Positive
  <2>2. Pow2[c] + b - 1 = Pow2[c] + e - 1
    BY <1>2, <1>6 DEF count_inl_bitmap
  <2> QED BY <1>2, <2>1, <2>2
<1> QED BY <1>2, <1>6, <1>7

-----------------------------------------------------------------------------
\* The rule of length i that a stride is looked up with.
RuleAt(stride, i) == [cidr |-> i, bit |-> ShiftRight(stride, STRIDE - i)]

\* The rule that the turn i of tree_function asks for is one a node can have.
LEMMA RuleAtIsRule ==
  ASSUME NEW stride \in Stride, NEW i \in 0 .. STRIDE - 1
  PROVE  /\ RuleAt(stride, i) \in Rule
         /\ ShiftRight(stride, STRIDE - i) \in 0 .. Pow2[i] - 1
         /\ PosOf(RuleAt(stride, i)) =
              count_inl_bitmap(ShiftRight(stride, STRIDE - i), i)
<1>1. STRIDE \in Nat /\ STRIDE - i \in 0 .. STRIDE /\ STRIDE - (STRIDE - i) = i
  BY StrideFacts
<1>2. ShiftRight(stride, STRIDE - i) \in 0 .. Pow2[STRIDE - (STRIDE - i)] - 1
  BY <1>1, ShiftRange DEF Stride
<1>3. ShiftRight(stride, STRIDE - i) \in 0 .. Pow2[i] - 1
  BY <1>1, <1>2
<1>4. RuleAt(stride, i) \in [cidr : {i}, bit : 0 .. Pow2[i] - 1]
  BY <1>3 DEF RuleAt
<1> QED BY <1>3, <1>4 DEF Rule, RuleAt, PosOf

\* A rule matches, bit by bit, when it is that one.
LEMMA MatchesIsShift ==
  ASSUME NEW stride \in Stride, NEW rule \in Rule
  PROVE  Matches(rule, stride) <=> rule = RuleAt(stride, rule.cidr)
<1> DEFINE c == rule.cidr
           b == rule.bit
           t == ShiftRight(stride, STRIDE - c)
<1>1. c \in 0 .. STRIDE - 1 /\ b \in 0 .. Pow2[c] - 1 /\ rule = [cidr |-> c, bit |-> b]
  BY RuleParts
<1>2. t \in 0 .. Pow2[c] - 1
  BY <1>1, RuleAtIsRule
<1>3. stride \in Nat /\ c \in Nat /\ STRIDE \in Nat /\ STRIDE - c \in Nat
  BY <1>1, StrideFacts DEF Stride
<1>4. ASSUME NEW k \in 1 .. c
      PROVE  BitAt(t, c, k) = BitAt(stride, STRIDE, k)
  <2>1. c - k \in Nat /\ (STRIDE - c) + (c - k) = STRIDE - k
    BY <1>3
  <2>2. ShiftRight(ShiftRight(stride, STRIDE - c), c - k) =
          ShiftRight(stride, (STRIDE - c) + (c - k))
    <3>1. \A x, y, z \in Nat : ShiftRight(ShiftRight(x, y), z) = ShiftRight(x, y + z)
      BY ShiftShift
    <3> HIDE DEF c
    <3> QED BY <1>3, <2>1, <3>1
  <2>3. ShiftRight(t, c - k) = ShiftRight(stride, STRIDE - k)
    BY <2>1, <2>2
  <2> QED BY <2>3 DEF BitAt, ShiftRight
<1> HIDE DEF c, b, t
<1>5. (\A k \in 1 .. c : BitAt(b, c, k) = BitAt(stride, STRIDE, k)) <=> b = t
  <2>1. ASSUME \A k \in 1 .. c : BitAt(b, c, k) = BitAt(stride, STRIDE, k)
        PROVE  b = t
    <3>1. \A k \in 1 .. c : BitAt(b, c, k) = BitAt(t, c, k)
      BY <1>4, <2>1
    <3> QED BY <1>1, <1>2, <1>3, <3>1, BitsDetermine
  <2>2. ASSUME b = t
        PROVE  \A k \in 1 .. c : BitAt(b, c, k) = BitAt(stride, STRIDE, k)
    BY <1>4, <2>2
  <2> QED BY <2>1, <2>2
<1>6. Matches(rule, stride) <=>
        \A k \in 1 .. c : BitAt(b, c, k) = BitAt(stride, STRIDE, k)
  BY DEF Matches, c, b
<1>7. RuleAt(stride, c) = [cidr |-> c, bit |-> t]
  BY DEF RuleAt, t
<1>8. rule = RuleAt(stride, c) <=> b = t
  BY <1>1, <1>7
<1> QED BY <1>5, <1>6, <1>8 DEF c

-----------------------------------------------------------------------------
\* The lengths below limit of which the node has a rule for a stride.
PosAt(stride, i) == count_inl_bitmap(ShiftRight(stride, STRIDE - i), i)
Found(stride, limit) == {i \in 0 .. limit - 1 : PosAt(stride, i) \in internal}

\* Those lengths stand for the rules that match.
LEMMA FoundAreMatching ==
  ASSUME NEW stride \in Stride, NEW limit \in 0 .. STRIDE
  PROVE  {r \in RulesSet : r.cidr < limit /\ Matches(r, stride)} =
           {RuleAt(stride, i) : i \in Found(stride, limit)}
<1> DEFINE M == {r \in RulesSet : r.cidr < limit /\ Matches(r, stride)}
<1>0. STRIDE \in Nat /\ limit \in Nat /\ limit <= STRIDE
  BY StrideFacts
<1>1. ASSUME NEW r \in M
      PROVE  \E i \in Found(stride, limit) : r = RuleAt(stride, i)
  <2>1. r \in Rule /\ PosOf(r) \in internal /\ r.cidr < limit /\ Matches(r, stride)
    BY DEF RulesSet
  <2>2. r = RuleAt(stride, r.cidr) /\ r.cidr \in 0 .. STRIDE - 1
    BY <2>1, MatchesIsShift, RuleParts
  <2>3. PosOf(r) = PosAt(stride, r.cidr)
    BY <2>2, RuleAtIsRule DEF PosAt
  <2>4. r.cidr \in 0 .. limit - 1
    BY <1>0, <2>1, <2>2
  <2> QED BY <2>1, <2>2, <2>3, <2>4 DEF Found
<1>2. ASSUME NEW i \in Found(stride, limit)
      PROVE  RuleAt(stride, i) \in M
  <2>1. i \in 0 .. limit - 1 /\ PosAt(stride, i) \in internal
    BY DEF Found
  <2>2. i \in 0 .. STRIDE - 1 /\ i < limit
    BY <1>0, <2>1
  <2>3. RuleAt(stride, i) \in Rule /\ PosOf(RuleAt(stride, i)) \in internal
    BY <2>1, <2>2, RuleAtIsRule DEF PosAt
  <2>4. RuleAt(stride, i).cidr = i
    BY DEF RuleAt
  <2>5. Matches(RuleAt(stride, i), stride)
    BY <2>3, <2>4, MatchesIsShift
  <2> QED BY <2>2, <2>3, <2>4, <2>5 DEF RulesSet
<1> HIDE DEF M
<1>3. M = {RuleAt(stride, i) : i \in Found(stride, limit)}
  BY <1>1, <1>2
<1> QED BY <1>3 DEF M

\* The largest of them is the longest rule that matches.
LEMMA LargestIsLongest ==
  ASSUME NEW stride \in Stride, NEW limit \in 0 .. STRIDE
  PROVE  /\ Found(stride, limit) = {} => IsLongest(-1, stride, limit)
         /\ Found(stride, limit) # {} =>
              LET m == Max(Found(stride, limit))
              IN  /\ m \in Found(stride, limit)
                  /\ m \in 0 .. STRIDE - 1
                  /\ \A i \in Found(stride, limit) : i <= m
                  /\ IsLongest(PosAt(stride, m), stride, limit)
<1> DEFINE F == Found(stride, limit)
           M == {r \in RulesSet : r.cidr < limit /\ Matches(r, stride)}
           m == Max(F)
<1>0. STRIDE \in Nat /\ limit \in Nat /\ limit <= STRIDE
  BY StrideFacts
<1>1. M = {RuleAt(stride, i) : i \in F}
  BY FoundAreMatching
<1>2. F \in SUBSET (0 .. STRIDE - 1) /\ F \in SUBSET (0 .. STRIDE)
  BY <1>0 DEF Found
<1>3. CASE F = {}
  <2>1. M = {}
    BY <1>1, <1>3
  <2> QED BY <1>3, <2>1 DEF IsLongest
<1>4. CASE F # {}
  <2>1. m \in F /\ \A i \in F : i <= m
    BY <1>0, <1>2, <1>4, MaxOfNats
  <2>2. m \in 0 .. STRIDE - 1
    BY <1>2, <2>1
  <2> HIDE DEF m, F
  <2>3. RuleAt(stride, m) \in M
    BY <1>1, <2>1
  <2>4. PosAt(stride, m) = PosOf(RuleAt(stride, m)) /\ RuleAt(stride, m).cidr = m
    BY <2>2, RuleAtIsRule DEF PosAt, RuleAt
  <2>5. ASSUME NEW q \in M PROVE q.cidr <= RuleAt(stride, m).cidr
    <3>1. PICK i \in F : q = RuleAt(stride, i)
      BY <1>1
    <3>2. q.cidr = i
      BY <3>1 DEF RuleAt
    <3> QED BY <2>1, <2>4, <3>1, <3>2
  <2>6. \E r \in M : PosAt(stride, m) = PosOf(r) /\ \A q \in M : q.cidr <= r.cidr
    BY <2>3, <2>4, <2>5
  <2>7. IsLongest(PosAt(stride, m), stride, limit)
    BY <2>6 DEF IsLongest, M
  <2> QED BY <1>4, <2>1, <2>2, <2>7 DEF m, F
<1> QED BY <1>3, <1>4

\* The loop answers it,
LEMMA LoopIsLongest ==
  ASSUME NEW stride \in Stride
  PROVE  IsLongest(TreeFunctionLoop(internal, stride), stride, STRIDE)
<1> DEFINE F == Found(stride, STRIDE)
<1>1. STRIDE \in 0 .. STRIDE
  BY StrideFacts
<1>2. TreeFunctionLoop(internal, stride) =
        IF F = {} THEN -1 ELSE PosAt(stride, Max(F))
  BY DEF TreeFunctionLoop, Found, PosAt
<1> QED BY <1>1, <1>2, LargestIsLongest

\* and so does the highest bit under the mask of all rules that match.
LEMMA FastIsLongest ==
  ASSUME NEW stride \in Stride
  PROVE  IsLongest(TreeFunctionFast(internal, stride), stride, STRIDE)
<1> DEFINE F == Found(stride, STRIDE)
           h == ShiftRight(stride, 1)
           ret == fct[h] \cap internal
<1>1. STRIDE \in Nat /\ STRIDE \in 0 .. STRIDE /\ 1 \in 0 .. STRIDE /\ STRIDE - 1 \in Nat
  BY StrideAssumption
<1>2. h \in 0 .. Pow2[STRIDE - 1] - 1
  BY <1>1, ShiftRange DEF Stride
<1>3. fct[h] = {count_inl_bitmap(ShiftRight(h, STRIDE - 1 - j), j) : j \in 0 .. STRIDE - 1}
  <2> HIDE DEF h
  <2> QED BY <1>2 DEF fct
<1>4. ASSUME NEW j \in 0 .. STRIDE - 1
      PROVE  ShiftRight(h, STRIDE - 1 - j) = ShiftRight(stride, STRIDE - j)
  <2>1. stride \in Nat /\ STRIDE - 1 - j \in Nat /\ 1 + (STRIDE - 1 - j) = STRIDE - j
    BY <1>1, StrideFacts DEF Stride
  <2>2. \A x, y, z \in Nat : ShiftRight(ShiftRight(x, y), z) = ShiftRight(x, y + z)
    BY ShiftShift
  <2>3. ShiftRight(ShiftRight(stride, 1), STRIDE - 1 - j) =
          ShiftRight(stride, 1 + (STRIDE - 1 - j))
    BY <2>1, <2>2
  <2> QED BY <2>1, <2>3
<1> HIDE DEF h
<1>5. ret = {PosAt(stride, j) : j \in F}
  BY <1>3, <1>4 DEF Found, PosAt
<1>6. TreeFunctionFast(internal, stride) = IF ret = {} THEN -1 ELSE Max(ret)
  BY DEF TreeFunctionFast, h
<1> HIDE DEF ret
<1>7. CASE F = {}
  <2>1. ret = {}
    BY <1>5, <1>7
  <2> QED BY <1>1, <1>6, <1>7, <2>1, LargestIsLongest
<1>8. CASE F # {}
  <2> DEFINE m == Max(F)
             M == Pow2[STRIDE]
  <2>1. /\ m \in F /\ m \in 0 .. STRIDE - 1 /\ \A i \in F : i <= m
        /\ IsLongest(PosAt(stride, m), stride, STRIDE)
    BY <1>1, <1>8, LargestIsLongest
  <2>2. F \subseteq 0 .. STRIDE - 1
    BY DEF Found
  <2> HIDE DEF F, m
  <2>3. ASSUME NEW j \in 0 .. STRIDE - 1
        PROVE  PosAt(stride, j) \in 0 .. M - 2
    BY RuleAtIsRule, PosRange DEF PosAt
  <2>4. M \in Nat /\ M >= 1
    BY <1>1, Pow2Positive
  <2> HIDE DEF M
  <2>5. ret \in SUBSET (0 .. M) /\ PosAt(stride, m) \in ret
    BY <1>5, <2>1, <2>2, <2>3, <2>4
  <2>6. ASSUME NEW y \in ret PROVE y <= PosAt(stride, m)
    <3>1. PICK j \in F : y = PosAt(stride, j)
      BY <1>5
    <3>2. j \in 0 .. STRIDE - 1 /\ j <= m
      BY <2>1, <2>2, <3>1
    <3>3. CASE j = m
      <4>1. PosAt(stride, m) \in Nat
        BY <2>1, <2>3
      <4> QED BY <3>1, <3>3, <4>1
    <3>4. CASE j < m
      <4>1. PosAt(stride, j) < PosAt(stride, m)
        BY <2>1, <3>2, <3>4, RuleAtIsRule, PosOrder DEF PosAt
      <4>2. PosAt(stride, j) \in Int /\ PosAt(stride, m) \in Int
        BY <2>1, <2>3, <3>2
      <4> QED BY <3>1, <4>1, <4>2
    <3> QED BY <2>1, <3>2, <3>3, <3>4
  <2>7. Max(ret) = PosAt(stride, m)
    BY <2>4, <2>5, <2>6, MaxIs
  <2>8. TreeFunctionFast(internal, stride) = PosAt(stride, m)
    BY <1>6, <2>5, <2>7
  <2> QED BY <2>1, <2>8
<1> QED BY <1>7, <1>8

\* The overlap below a limit, too.
LEMMA OverlapIsLongest ==
  ASSUME NEW stride \in Stride, NEW limit \in 1 .. STRIDE
  PROVE  LET found == FindOverlapInNode(internal, stride, limit)
         IN  /\ IsLongest(found.pos, stride, limit)
             /\ found.pos # -1 =>
                  \E r \in RulesSet : r.cidr = found.mask /\ PosOf(r) = found.pos
<1> DEFINE F == Found(stride, limit)
           start == ShiftRight(stride, STRIDE - limit)
           found == FindOverlapInNode(internal, stride, limit)
<1>1. /\ STRIDE \in Nat /\ limit \in Nat /\ limit \in 0 .. STRIDE
      /\ STRIDE - limit \in Nat /\ stride \in Nat
  BY StrideFacts DEF Stride
<1>2. ASSUME NEW i \in 0 .. limit - 1
      PROVE  ShiftRight(start, limit - i) = ShiftRight(stride, STRIDE - i)
  <2>1. limit - i \in Nat /\ (STRIDE - limit) + (limit - i) = STRIDE - i
    BY <1>1
  <2>2. \A x, y, z \in Nat : ShiftRight(ShiftRight(x, y), z) = ShiftRight(x, y + z)
    BY ShiftShift
  <2>3. ShiftRight(ShiftRight(stride, STRIDE - limit), limit - i) =
          ShiftRight(stride, (STRIDE - limit) + (limit - i))
    BY <1>1, <2>1, <2>2
  <2> QED BY <2>1, <2>3
<1> HIDE DEF start
<1> DEFINE At(i) == count_inl_bitmap(ShiftRight(start, limit - i), i)
<1>3. \A i \in 0 .. limit - 1 : At(i) = PosAt(stride, i)
  BY <1>2 DEF PosAt
<1>4. found = LET G == {i \in 0 .. limit - 1 : At(i) \in internal}
              IN  IF G = {} THEN [pos |-> -1, mask |-> 0]
                  ELSE [pos |-> At(Max(G)), mask |-> Max(G)]
  BY DEF FindOverlapInNode, start
<1> HIDE DEF At, found
<1>5. {i \in 0 .. limit - 1 : At(i) \in internal} = F
  BY <1>3 DEF Found
<1>6. found = IF F = {} THEN [pos |-> -1, mask |-> 0]
              ELSE [pos |-> At(Max(F)), mask |-> Max(F)]
  BY <1>4, <1>5, Zenon
<1>7. CASE F = {}
  <2>1. found.pos = -1
    BY <1>6, <1>7
  <2>2. IsLongest(-1, stride, limit)
    BY <1>1, <1>7, LargestIsLongest
  <2> QED BY <2>1, <2>2 DEF found
<1>8. CASE F # {}
  <2> DEFINE m == Max(F)
  <2>1. /\ m \in F /\ m \in 0 .. STRIDE - 1
        /\ IsLongest(PosAt(stride, m), stride, limit)
    BY <1>1, <1>8, LargestIsLongest
  <2>2. m \in 0 .. limit - 1 /\ PosAt(stride, m) \in internal
    BY <2>1 DEF Found
  <2>3. found.pos = At(m) /\ found.mask = m
    BY <1>6, <1>8
  <2> HIDE DEF m
  <2>4. found.pos = PosAt(stride, m)
    BY <1>3, <2>2, <2>3
  <2>5. /\ RuleAt(stride, m) \in Rule /\ PosOf(RuleAt(stride, m)) = PosAt(stride, m)
        /\ RuleAt(stride, m).cidr = m
    BY <2>1, RuleAtIsRule DEF PosAt, RuleAt
  <2>6. RuleAt(stride, m) \in RulesSet
    BY <2>2, <2>5 DEF RulesSet
  <2> QED BY <2>1, <2>3, <2>4, <2>5, <2>6 DEF found
<1> QED BY <1>7, <1>8

-----------------------------------------------------------------------------
\* The bits of internal are positions of rules.
THEOREM TypeCorrect == Spec => []TypeOK
<1>1. Init => TypeOK
  BY DEF Init, TypeOK
<1>2. TypeOK /\ [Next]_internal => TypeOK'
  <2> SUFFICES ASSUME TypeOK, [Next]_internal
               PROVE  TypeOK'
    OBVIOUS
  <2>1. CASE UNCHANGED internal
    BY <2>1 DEF TypeOK
  <2>2. CASE Next
    <3>1. PICK rule \in Rule : AddRule(rule) \/ DropRule(rule)
      BY <2>2 DEF Next
    <3>2. PosOf(rule) \in 0 .. Pow2[STRIDE] - 2
      BY <3>1, RuleParts, PosRange DEF PosOf
    <3> QED BY <3>1, <3>2 DEF AddRule, DropRule, TypeOK
  <2> QED BY <2>1, <2>2
<1> QED BY <1>1, <1>2, PTL DEF Spec

\* Both builds of tree_function find the longest rule that matches, in every
\* node and for every stride (mb_node.c:334-386).
THEOREM LongestMatchInNode == Spec => []TreeFunctionIsLongestMatch
<1>1. TreeFunctionIsLongestMatch
  BY LoopIsLongest, FastIsLongest DEF TreeFunctionIsLongestMatch
<1>2. []TreeFunctionIsLongestMatch
  BY <1>1, PTL
<1> QED BY <1>2

\* find_overlap_in_node finds the longest rule below the limit and reports its
\* length (mb_node.c:388-407).
THEOREM LongestOverlapInNode == Spec => []OverlapInNodeIsLongest
<1>1. OverlapInNodeIsLongest
  BY OverlapIsLongest DEF OverlapInNodeIsLongest
<1>2. []OverlapInNodeIsLongest
  BY <1>1, PTL
<1> QED BY <1>2

=============================================================================
