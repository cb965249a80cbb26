--------------------------- MODULE BitmapV4Proofs ---------------------------
(***************************************************************************)
(* That the three searches of lib/bitmap_v4.c answer with the longest      *)
(* match of every address, for every trie the updates can make and         *)
(* whatever earlier searches left in lazy_mark.                            *)
(***************************************************************************)
EXTENDS BitmapV4, TrieProofs

-----------------------------------------------------------------------------
\* The nodes noted are the first ones on the path of a.
Noted(marks, a, depth) ==
  \A d \in 0 .. depth - 1 :
    /\ marks[d].lazy_p = Take(a, d * STRIDE)
    /\ marks[d].stride = StrideAt(a, marks[d].lazy_p)

\* Where an element is, and what it has noted.
Walks(j) ==
  /\ OnPath(ip[j], n[j])
  /\ travel_depth[j] * STRIDE <= Len(n[j])
  /\ mode # "search" =>
       /\ Noted(lazy_mark[j], ip[j], travel_depth[j])
       /\ mode = "batch" \/ pc = "descend" => travel_depth[j] * STRIDE = Len(n[j])

\* What an element knows of the rules: those above it, those below it, or all.
Finds(j) ==
  /\ mode = "search" /\ pc = "descend" =>
       FoundIn(trie, longest[j], ip[j], 0, Len(n[j]))
  /\ mode = "lazy" /\ pc = "ascend" =>
       /\ longest[j] = NULL
       /\ FoundIn(trie, NULL, ip[j], travel_depth[j] * STRIDE, All)
  /\ j \in endcnt => ~ HasChild(n[j], StrideAt(ip[j], n[j]))
  /\ pc = "done" \/ (mode = "batch" /\ pc = "ascend" /\ j < i) =>
       FoundIn(trie, longest[j], ip[j], 0, All)

\* The program counter and the turn.
Turns ==
  /\ mode \in Mode \cup {"none"}
  /\ pc \in {"idle", "descend", "ascend", "done"}
  /\ pc = "idle" <=> mode = "none"
  /\ IF pc = "idle" THEN ip = <<>> /\ i = 0 ELSE i \in DOMAIN ip
  /\ mode \in {"search", "lazy"} => Len(ip) = 1
  /\ mode = "batch" /\ pc = "ascend" => endcnt = DOMAIN ip
  /\ endcnt \subseteq DOMAIN ip

Types ==
  /\ ip \in Seq(Keys) /\ Len(ip) <= BATCH
  /\ n \in [DOMAIN ip -> Prefix]
  /\ travel_depth \in [DOMAIN ip -> Nat]
  /\ lazy_mark \in [Element -> [0 .. LEVEL - 1 -> Mark]]
  /\ longest \in [DOMAIN ip -> Prefix \cup {NULL}]

Inv ==
  /\ IsTrie(trie) /\ Trim(trie)
  /\ Types
  /\ Turns
  /\ \A j \in DOMAIN ip : Walks(j) /\ Finds(j)

-----------------------------------------------------------------------------
\* lazy_mark has an entry for every node of a path.
LEMMA DepthFits ==
  ASSUME NEW d \in Nat, d * STRIDE <= LENGTH
  PROVE  d < LEVEL
<1>1. d <= LENGTH \div STRIDE BY StrideSteps
<1>2. LENGTH \div STRIDE \in Nat BY StrideAssumption, LengthAssumption
<1> QED BY <1>1, <1>2 DEF LEVEL

\* The size of lazy_mark.
LEMMA LevelIsNat == LEVEL \in Nat
<1>1. LENGTH \div STRIDE \in Nat BY StrideAssumption, LengthAssumption
<1> QED BY <1>1 DEF LEVEL

-----------------------------------------------------------------------------
\* The bits of one node.
LEMMA StrideIs ==
  ASSUME NEW a \in Address, NEW node, OnPath(a, node)
  PROVE  StrideAt(a, node) = BitsAt(a, node) /\ StrideAt(a, node) \in BitStrings(STRIDE)
BY BitsAtIs DEF OnPath, StrideAt, BitsAt

\* The child of a node of the path, where there is one, is the next node of it.
LEMMA ChildOnPath ==
  ASSUME IsTrie(trie), NEW a \in Address, NEW node, OnPath(a, node),
         HasChild(node, StrideAt(a, node))
  PROVE  /\ OnPath(a, ChildAt(node, StrideAt(a, node)))
         /\ ChildAt(node, StrideAt(a, node)) \in Prefix
         /\ Len(ChildAt(node, StrideAt(a, node))) = Len(node) + STRIDE
BY StrideIs, NextOnPath DEF HasChild, ChildAt

\* tree_function finds the longest rule of the node that matches.
LEMMA RuleInNode ==
  ASSUME IsTrie(trie), NEW a \in Address, NEW node, OnPath(a, node)
  PROVE  FoundIn(trie, TreeFunction(node, StrideAt(a, node)), a,
                 Len(node), Len(node) + STRIDE)
<1>1. STRIDE \in 0 .. STRIDE BY StrideAssumption
<1>2. TreeFunction(node, StrideAt(a, node)) = RuleIn(trie, node, BitsAt(a, node), STRIDE)
  BY StrideIs DEF TreeFunction, RuleIn
<1> QED BY <1>1, <1>2, RuleInIs

\* Where the path ends there is nothing left to match.
LEMMA NothingBelow ==
  ASSUME IsTrie(trie), Trim(trie), NEW a \in Address, NEW node, OnPath(a, node),
         ~ HasChild(node, StrideAt(a, node)), NEW k \in MatchLengths(trie.inl, a)
  PROVE  k < Len(node) + STRIDE
BY StrideIs, NothingLonger DEF HasChild, ChildAt

-----------------------------------------------------------------------------
\* tree_function of the last node finds the longest of all rules from there on.
LEMMA LastRule ==
  ASSUME IsTrie(trie), Trim(trie), NEW a \in Address, NEW node, OnPath(a, node),
         ~ HasChild(node, StrideAt(a, node))
  PROVE  FoundIn(trie, TreeFunction(node, StrideAt(a, node)), a, Len(node), All)
<1>1. Len(node) \in Nat /\ Len(node) + STRIDE \in Nat
  BY StrideAssumption, LengthAssumption DEF OnPath
<1> QED BY <1>1, RuleInNode, NothingBelow, FoundAll

\* A node noted, tried with the stride noted.
LEMMA NotedRule ==
  ASSUME IsTrie(trie), NEW a \in Address, NEW marks, NEW depth \in Nat,
         Noted(marks, a, depth), depth * STRIDE <= LENGTH,
         NEW d \in 0 .. depth - 1
  PROVE  FoundIn(trie, TreeFunction(marks[d].lazy_p, marks[d].stride), a,
                 d * STRIDE, (d + 1) * STRIDE)
<1> DEFINE node == Take(a, d * STRIDE)
<1>1. d \in Nat /\ d < depth BY StrideAssumption
<1>2. d * STRIDE \in 0 .. LENGTH
  <2>1. (d + 1) * STRIDE <= depth * STRIDE BY <1>1, StridesOrder
  <2> QED BY <1>1, <2>1, StrideSteps, StrideAssumption, LengthAssumption
<1>3. Len(node) = d * STRIDE BY <1>2, AddressIs, TakeBits
<1>4. OnPath(a, node) BY <1>1, <1>2, <1>3, StrideSteps DEF OnPath
<1>5. marks[d].lazy_p = node /\ marks[d].stride = StrideAt(a, node)
  BY DEF Noted
<1> HIDE DEF node
<1>6. FoundIn(trie, TreeFunction(node, StrideAt(a, node)), a,
              Len(node), Len(node) + STRIDE)
  BY <1>4, RuleInNode
<1> QED BY <1>1, <1>3, <1>5, <1>6, StrideSteps

-----------------------------------------------------------------------------
\* What is known of an element of a search.
LEMMA Here ==
  ASSUME Inv, NEW j \in DOMAIN ip
  PROVE  /\ ip[j] \in Address
         /\ j \in Element /\ j \in 1 .. Len(ip) /\ j \in Nat
         /\ n[j] \in Prefix /\ OnPath(ip[j], n[j])
         /\ Len(n[j]) \in 0 .. LENGTH /\ Len(n[j]) \in Nat
         /\ travel_depth[j] \in Nat /\ travel_depth[j] < LEVEL
         /\ travel_depth[j] * STRIDE \in Nat
         /\ travel_depth[j] * STRIDE <= Len(n[j])
         /\ travel_depth[j] * STRIDE <= LENGTH
<1>1. ip \in Seq(Keys) /\ Len(ip) \in Nat /\ Len(ip) <= BATCH /\ j \in 1 .. Len(ip)
  BY LenProperties DEF Inv, Types
<1>2. ip[j] \in Keys BY <1>1, ElementOfSeq
<1>3. j \in Element BY <1>1, BatchAssumption DEF Element
<1>4. /\ n[j] \in Prefix /\ travel_depth[j] \in Nat
      /\ OnPath(ip[j], n[j]) /\ travel_depth[j] * STRIDE <= Len(n[j])
  BY DEF Inv, Types, Walks
<1>5. Len(n[j]) \in 0 .. LENGTH /\ Len(n[j]) \in Nat
  BY <1>4, LengthAssumption DEF OnPath
<1>6. travel_depth[j] * STRIDE \in Nat BY <1>4, StrideSteps
<1>7. travel_depth[j] * STRIDE <= LENGTH
  BY <1>4, <1>5, <1>6, LengthAssumption
<1>8. travel_depth[j] < LEVEL BY <1>4, <1>7, DepthFits
<1>9. ip[j] \in Address BY <1>2, InputsAssumption
<1>10. j \in Nat BY <1>1
<1> QED BY <1>1, <1>3, <1>4, <1>5, <1>6, <1>7, <1>8, <1>9, <1>10

\* An element that does not move stays where it is.
LEMMA WalkKept ==
  ASSUME NEW j, Walks(j), UNCHANGED <<ip, mode>>,
         n'[j] = n[j], travel_depth'[j] = travel_depth[j],
         lazy_mark'[j] = lazy_mark[j],
         mode = "batch" \/ pc' = "descend" => mode = "batch" \/ pc = "descend"
  PROVE  Walks(j)'
BY DEF Walks

\* An element that goes down notes the node it leaves, and is at the next one.
LEMMA GoesDown ==
  ASSUME Inv, NEW j \in DOMAIN ip, mode \in {"lazy", "batch"}, pc = "descend",
         HasChild(n[j], StrideAt(ip[j], n[j])),
         NoteAndDescend(j, StrideAt(ip[j], n[j])),
         UNCHANGED <<trie, mode, pc, ip>>
  PROVE  /\ n' \in [DOMAIN ip -> Prefix]
         /\ travel_depth' \in [DOMAIN ip -> Nat]
         /\ lazy_mark' \in [Element -> [0 .. LEVEL - 1 -> Mark]]
         /\ \A x \in DOMAIN ip : Walks(x)'
         /\ \A x \in DOMAIN ip \ {j} : n'[x] = n[x]
<1> DEFINE a == ip[j]
           s == StrideAt(a, n[j])
           c == ChildAt(n[j], s)
           d == travel_depth[j]
           m == [lazy_p |-> n[j], stride |-> s]
<1>1. /\ a \in Address /\ j \in Element /\ n[j] \in Prefix /\ OnPath(a, n[j])
      /\ Len(n[j]) \in 0 .. LENGTH /\ Len(n[j]) \in Nat /\ d \in Nat /\ d < LEVEL
  BY Here
<1>2. IsTrie(trie) /\ Types /\ Walks(j) BY DEF Inv
<1>3. d * STRIDE = Len(n[j]) /\ Noted(lazy_mark[j], a, d) BY <1>2 DEF Walks
<1>4. OnPath(a, c) /\ c \in Prefix /\ Len(c) = Len(n[j]) + STRIDE
  BY <1>1, <1>2, ChildOnPath
<1>5. s \in BitStrings(STRIDE) BY <1>1, StrideIs
<1>6. m \in Mark BY <1>1, <1>5 DEF Mark
<1>7. d \in 0 .. LEVEL - 1 BY <1>1, LevelIsNat
<1>8. n[j] = Take(a, d * STRIDE) BY <1>1, <1>3 DEF OnPath
<1>9. (d + 1) * STRIDE = Len(c) BY <1>1, <1>3, <1>4, StrideSteps
<1>10. /\ n' = [n EXCEPT ![j] = c]
       /\ travel_depth' = [travel_depth EXCEPT ![j] = d + 1]
       /\ lazy_mark' = [lazy_mark EXCEPT ![j][d] = m]
  BY DEF NoteAndDescend
<1> HIDE DEF c, s
<1>11. /\ n' \in [DOMAIN ip -> Prefix]
       /\ travel_depth' \in [DOMAIN ip -> Nat]
       /\ n'[j] = c /\ travel_depth'[j] = d + 1
       /\ \A x \in DOMAIN ip \ {j} :
            n'[x] = n[x] /\ travel_depth'[x] = travel_depth[x]
  BY <1>1, <1>2, <1>4, <1>10 DEF Types
<1>12. /\ lazy_mark' \in [Element -> [0 .. LEVEL - 1 -> Mark]]
       /\ \A x \in Element \ {j} : lazy_mark'[x] = lazy_mark[x]
       /\ lazy_mark'[j] = [lazy_mark[j] EXCEPT ![d] = m]
  BY <1>1, <1>2, <1>6, <1>7, <1>10 DEF Types
<1>13. /\ lazy_mark'[j][d] = m
       /\ \A e \in 0 .. d - 1 : lazy_mark'[j][e] = lazy_mark[j][e]
  <2>1. lazy_mark[j] \in [0 .. LEVEL - 1 -> Mark] BY <1>1, <1>2 DEF Types
  <2>2. \A e \in 0 .. d - 1 : e \in 0 .. LEVEL - 1 /\ e # d
    BY <1>1, LevelIsNat
  <2> QED BY <1>7, <1>12, <2>1, <2>2
<1>14. m.lazy_p = n[j] /\ m.stride = s OBVIOUS
<1> HIDE DEF m
<1>15. Noted(lazy_mark'[j], a, d + 1)
  <2>1. ASSUME NEW e \in 0 .. (d + 1) - 1, e # d
        PROVE  /\ lazy_mark'[j][e].lazy_p = Take(a, e * STRIDE)
               /\ lazy_mark'[j][e].stride = StrideAt(a, lazy_mark'[j][e].lazy_p)
    <3>1. e \in 0 .. d - 1 BY <1>1, <2>1
    <3> QED BY <1>3, <1>13, <3>1 DEF Noted
  <2>2. /\ lazy_mark'[j][d].lazy_p = Take(a, d * STRIDE)
        /\ lazy_mark'[j][d].stride = StrideAt(a, lazy_mark'[j][d].lazy_p)
    BY <1>8, <1>13, <1>14 DEF s
  <2> QED BY <2>1, <2>2 DEF Noted
<1>16. Walks(j)'
  <2>1. /\ OnPath(a, n'[j])
        /\ travel_depth'[j] * STRIDE = Len(n'[j])
        /\ Noted(lazy_mark'[j], a, travel_depth'[j])
    BY <1>4, <1>9, <1>11, <1>15
  <2>2. Len(n'[j]) <= Len(n'[j]) BY <1>4, <1>11, LengthAssumption DEF OnPath
  <2> QED BY <2>1, <2>2 DEF Walks
<1>17. ASSUME NEW x \in DOMAIN ip \ {j} PROVE Walks(x)'
  <2>1. x \in Element BY Here
  <2>2. Walks(x) BY DEF Inv
  <2> QED BY <1>11, <1>12, <2>1, <2>2, WalkKept
<1> QED BY <1>11, <1>12, <1>16, <1>17

-----------------------------------------------------------------------------
\* What is to be shown of a turn of a search.
LEMMA TurnKeepsInv ==
  ASSUME Inv, UNCHANGED <<trie, ip>>,
         n' \in [DOMAIN ip -> Prefix],
         travel_depth' \in [DOMAIN ip -> Nat],
         lazy_mark' \in [Element -> [0 .. LEVEL - 1 -> Mark]],
         longest' \in [DOMAIN ip -> Prefix \cup {NULL}],
         Turns',
         \A j \in DOMAIN ip : Walks(j)' /\ Finds(j)'
  PROVE  Inv'
BY DEF Inv, Types

\* Two of the searches are for one address.
LEMMA OneElement ==
  ASSUME Inv, mode \in {"search", "lazy"}
  PROVE  DOMAIN ip = {1}
BY LenProperties DEF Inv, Types, Turns

\* A turn of bitmap_do_search.
LEMMA SearchStepInv ==
  ASSUME Inv, SearchStep
  PROVE  Inv'
<1> DEFINE a == ip[1]
           node == n[1]
           s == StrideAt(a, node)
           rule == TreeFunction(node, s)
           r == IF rule # NULL THEN rule ELSE longest[1]
<1>1. /\ mode = "search" /\ pc = "descend"
      /\ longest' = [longest EXCEPT ![1] = r]
      /\ UNCHANGED <<trie, mode, ip, travel_depth, lazy_mark, endcnt, i>>
      /\ \/ /\ HasChild(node, s)
            /\ n' = [n EXCEPT ![1] = ChildAt(node, s)]
            /\ pc' = pc
         \/ /\ ~ HasChild(node, s)
            /\ pc' = "done"
            /\ n' = n
  BY DEF SearchStep
<1>2. DOMAIN ip = {1} BY <1>1, OneElement
<1>3. /\ a \in Address /\ node \in Prefix /\ OnPath(a, node) /\ Len(node) \in Nat
      /\ Len(node) + STRIDE \in Nat /\ Len(node) <= Len(node) + STRIDE
      /\ travel_depth[1] * STRIDE \in Nat
      /\ travel_depth[1] * STRIDE <= Len(node)
      /\ travel_depth[1] * STRIDE <= Len(node) + STRIDE
  BY <1>2, Here, StrideAssumption
<1>4. IsTrie(trie) /\ Trim(trie) /\ Types /\ Turns /\ Walks(1) /\ Finds(1)
  BY <1>2 DEF Inv
<1>5. FoundIn(trie, longest[1], a, 0, Len(node)) BY <1>1, <1>4 DEF Finds
<1>6. FoundIn(trie, r, a, 0, Len(node) + STRIDE)
  <2>1. FoundIn(trie, rule, a, Len(node), Len(node) + STRIDE)
    BY <1>3, <1>4, RuleInNode
  <2> HIDE DEF rule, s
  <2> QED BY <1>3, <1>4, <1>5, <2>1, LongerFirst
<1> HIDE DEF r
<1>7. r \in Prefix \cup {NULL} BY <1>3, <1>4, <1>6, FoundRule
<1>8. longest' \in [DOMAIN ip -> Prefix \cup {NULL}] /\ longest'[1] = r
  BY <1>1, <1>2, <1>4, <1>7 DEF Types
<1> HIDE DEF s
<1>9. CASE HasChild(node, s)
  <2> DEFINE c == ChildAt(node, s)
  <2>1. OnPath(a, c) /\ c \in Prefix /\ Len(c) = Len(node) + STRIDE
    BY <1>3, <1>4, <1>9, ChildOnPath DEF s
  <2>2. n' = [n EXCEPT ![1] = c] /\ pc' = pc BY <1>1, <1>9
  <2> HIDE DEF c
  <2>3. n' \in [DOMAIN ip -> Prefix] /\ n'[1] = c
    BY <1>2, <1>4, <2>1, <2>2 DEF Types
  <2>4. Turns' BY <1>1, <1>4, <2>2 DEF Turns
  <2>5. Walks(1)' BY <1>1, <1>3, <2>1, <2>3 DEF Walks
  <2>6. 1 \notin endcnt' => Finds(1)'
    BY <1>1, <1>6, <1>8, <2>1, <2>2, <2>3 DEF Finds
  <2>7. 1 \notin endcnt'
    BY <1>1, <1>4, <1>9 DEF Finds, s
  <2> QED
    BY <1>1, <1>2, <1>4, <1>8, <2>3, <2>4, <2>5, <2>6, <2>7, TurnKeepsInv DEF Types
<1>10. CASE ~ HasChild(node, s)
  <2>1. FoundIn(trie, r, a, 0, All)
    BY <1>3, <1>4, <1>6, <1>10, NothingBelow, FoundAll DEF s
  <2>2. pc' = "done" /\ n' = n BY <1>1, <1>10
  <2>3. n' \in [DOMAIN ip -> Prefix] BY <1>4, <2>2 DEF Types
  <2>4. Turns' BY <1>1, <1>4, <2>2 DEF Turns
  <2>5. Walks(1)' BY <1>1, <1>4, <2>2, WalkKept
  <2>6. Finds(1)'
    BY <1>1, <1>8, <1>10, <2>1, <2>2 DEF Finds, HasChild, s
  <2> QED
    BY <1>1, <1>2, <1>4, <1>8, <2>3, <2>4, <2>5, <2>6, TurnKeepsInv DEF Types
<1> QED BY <1>9, <1>10

\* A turn of the descent of bitmap_do_search_lazy.
LEMMA LazyDescendInv ==
  ASSUME Inv, LazyDescend
  PROVE  Inv'
<1> DEFINE a == ip[1]
           node == n[1]
           s == StrideAt(a, node)
           rule == TreeFunction(node, s)
<1>1. /\ mode = "lazy" /\ pc = "descend"
      /\ UNCHANGED <<trie, mode, ip, endcnt, i>>
      /\ \/ /\ HasChild(node, s)
            /\ NoteAndDescend(1, s)
            /\ UNCHANGED <<pc, longest>>
         \/ /\ ~ HasChild(node, s)
            /\ longest' = [longest EXCEPT ![1] = rule]
            /\ pc' = IF rule # NULL THEN "done" ELSE "ascend"
            /\ UNCHANGED <<n, travel_depth, lazy_mark>>
  BY DEF LazyDescend
<1>2. DOMAIN ip = {1} BY <1>1, OneElement
<1>3. a \in Address /\ node \in Prefix /\ OnPath(a, node) /\ Len(node) \in Nat
  BY <1>2, Here
<1>4. IsTrie(trie) /\ Trim(trie) /\ Types /\ Turns /\ Walks(1) /\ Finds(1)
  BY <1>2 DEF Inv
<1>5. CASE HasChild(node, s)
  <2>1. NoteAndDescend(1, s) /\ pc' = pc /\ longest' = longest BY <1>1, <1>5
  <2>2. /\ n' \in [DOMAIN ip -> Prefix]
        /\ travel_depth' \in [DOMAIN ip -> Nat]
        /\ lazy_mark' \in [Element -> [0 .. LEVEL - 1 -> Mark]]
        /\ Walks(1)'
    BY <1>1, <1>2, <1>5, <2>1, GoesDown
  <2> HIDE DEF s
  <2>3. Turns' BY <1>1, <1>4, <2>1 DEF Turns
  <2>4. 1 \notin endcnt'
    BY <1>1, <1>4, <1>5 DEF Finds, s
  <2>5. Finds(1)' BY <1>1, <2>1, <2>4 DEF Finds
  <2> QED
    BY <1>1, <1>2, <1>4, <2>1, <2>2, <2>3, <2>5, TurnKeepsInv DEF Types
<1>6. CASE ~ HasChild(node, s)
  <2>1. FoundIn(trie, rule, a, Len(node), All) BY <1>3, <1>4, <1>6, LastRule
  <2>2. /\ longest' = [longest EXCEPT ![1] = rule]
        /\ pc' = IF rule # NULL THEN "done" ELSE "ascend"
        /\ UNCHANGED <<n, travel_depth, lazy_mark>>
    BY <1>1, <1>6
  <2> HIDE DEF rule, s
  <2>3. rule \in Prefix \cup {NULL} BY <1>3, <1>4, <2>1, FoundRule
  <2>4. longest' \in [DOMAIN ip -> Prefix \cup {NULL}] /\ longest'[1] = rule
    BY <1>2, <1>4, <2>2, <2>3 DEF Types
  <2>5. travel_depth[1] * STRIDE = Len(node) BY <1>1, <1>4 DEF Walks
  <2>6. Turns' BY <1>1, <1>4, <2>2 DEF Turns
  <2>7. Walks(1)' BY <1>1, <1>4, <2>2, WalkKept
  <2>8. rule # NULL => FoundIn(trie, rule, a, 0, All)
    BY <1>3, <1>4, <2>1, FoundIsLongest
  <2>9. rule = NULL => FoundIn(trie, NULL, a, Len(node), All) BY <2>1
  <2>10. Finds(1)'
    BY <1>1, <1>6, <2>2, <2>4, <2>5, <2>8, <2>9 DEF Finds, HasChild, s
  <2> QED
    BY <1>1, <1>2, <1>4, <2>2, <2>4, <2>6, <2>7, <2>10, TurnKeepsInv DEF Types
<1> QED BY <1>5, <1>6

\* A turn of its way back up.
LEMMA LazyAscendInv ==
  ASSUME Inv, LazyAscend
  PROVE  Inv'
<1> DEFINE a == ip[1]
           td == travel_depth[1]
           rule == MarkedRule(1)
<1>1. /\ mode = "lazy" /\ pc = "ascend"
      /\ UNCHANGED <<trie, mode, ip, n, lazy_mark, endcnt, i>>
      /\ \/ /\ td > 0
            /\ longest' = [longest EXCEPT ![1] = rule]
            /\ travel_depth' = [travel_depth EXCEPT ![1] = td - 1]
            /\ pc' = IF rule # NULL THEN "done" ELSE "ascend"
         \/ /\ td = 0
            /\ pc' = "done"
            /\ UNCHANGED <<longest, travel_depth>>
  BY DEF LazyAscend
<1>2. DOMAIN ip = {1} BY <1>1, OneElement
<1>3. /\ a \in Address /\ OnPath(a, n[1]) /\ Len(n[1]) \in Nat /\ td \in Nat
      /\ td * STRIDE \in Nat /\ td * STRIDE <= Len(n[1]) /\ td * STRIDE <= LENGTH
  BY <1>2, Here
<1>4. IsTrie(trie) /\ Trim(trie) /\ Types /\ Turns /\ Walks(1) /\ Finds(1)
  BY <1>2 DEF Inv
<1>5. Noted(lazy_mark[1], a, td) BY <1>1, <1>4 DEF Walks
<1>6. longest[1] = NULL /\ FoundIn(trie, NULL, a, td * STRIDE, All)
  BY <1>1, <1>4 DEF Finds
<1>7. Turns' BY <1>1, <1>4 DEF Turns
<1>8. 1 \in endcnt' => ~ HasChild(n[1], StrideAt(ip[1], n[1]))'
  BY <1>1, <1>4 DEF Finds, HasChild
<1>9. CASE td > 0
  <2> DEFINE d == td - 1
  <2>1. d \in Nat /\ d \in 0 .. td - 1 /\ d + 1 = td BY <1>3, <1>9
  <2>2. /\ d * STRIDE \in Nat /\ td * STRIDE = d * STRIDE + STRIDE
        /\ d * STRIDE <= td * STRIDE /\ d * STRIDE <= Len(n[1])
    <3> HIDE DEF d
    <3>1. d * STRIDE \in Nat /\ (d + 1) * STRIDE = d * STRIDE + STRIDE
      BY <2>1, StrideSteps
    <3>2. td * STRIDE = d * STRIDE + STRIDE BY <2>1, <3>1
    <3> QED BY <1>3, <3>1, <3>2, StrideAssumption
  <2>3. FoundIn(trie, rule, a, d * STRIDE, td * STRIDE)
    BY <1>3, <1>4, <1>5, <2>1, NotedRule DEF MarkedRule
  <2>4. /\ longest' = [longest EXCEPT ![1] = rule]
        /\ travel_depth' = [travel_depth EXCEPT ![1] = d]
        /\ pc' = IF rule # NULL THEN "done" ELSE "ascend"
    BY <1>1, <1>9
  <2> HIDE DEF rule
  <2>5. rule \in Prefix \cup {NULL} BY <1>3, <1>4, <2>3, FoundRule
  <2>6. FoundIn(trie, rule, a, d * STRIDE, All)
    <3>1. All \in Nat /\ td * STRIDE <= All BY <1>3, LengthAssumption DEF All
    <3>2. FoundIn(trie, IF NULL # NULL THEN NULL ELSE rule, a, d * STRIDE, All)
      BY <1>3, <1>4, <1>6, <2>2, <2>3, <3>1, LongerFirst
    <3> QED BY <3>2
  <2>7. rule # NULL => FoundIn(trie, rule, a, 0, All)
    BY <1>3, <1>4, <2>2, <2>6, FoundIsLongest
  <2> HIDE DEF d
  <2>8. /\ longest' \in [DOMAIN ip -> Prefix \cup {NULL}] /\ longest'[1] = rule
        /\ travel_depth' \in [DOMAIN ip -> Nat] /\ travel_depth'[1] = d
    BY <1>2, <1>4, <2>1, <2>4, <2>5 DEF Types
  <2>9. Noted(lazy_mark[1], a, d)
    <3>1. \A e \in 0 .. d - 1 : e \in 0 .. td - 1 BY <1>3, <2>1
    <3> QED BY <1>5, <3>1 DEF Noted
  <2>10. Walks(1)'
    BY <1>1, <1>3, <2>2, <2>4, <2>8, <2>9 DEF Walks
  <2>11. rule = NULL => FoundIn(trie, NULL, a, d * STRIDE, All) BY <2>6
  <2>12. Finds(1)' BY <1>1, <1>8, <2>4, <2>7, <2>8, <2>11 DEF Finds
  <2> QED
    BY <1>1, <1>2, <1>4, <1>7, <2>8, <2>10, <2>12, TurnKeepsInv DEF Types
<1>10. CASE td = 0
  <2>1. pc' = "done" /\ UNCHANGED <<longest, travel_depth>> BY <1>1, <1>10
  <2>2. td * STRIDE = 0 BY <1>10, StrideAssumption
  <2>3. FoundIn(trie, longest[1], a, 0, All) BY <1>6, <2>2
  <2>4. Walks(1)' BY <1>1, <1>4, <2>1, WalkKept
  <2>5. Finds(1)' BY <1>1, <1>8, <2>1, <2>3 DEF Finds
  <2> QED
    BY <1>1, <1>2, <1>4, <1>7, <2>1, <2>4, <2>5, TurnKeepsInv DEF Types
<1> QED BY <1>3, <1>9, <1>10

\* A turn of the descent of bitmap_do_search_lazy_batch.
LEMMA BatchDescendInv ==
  ASSUME Inv, BatchDescend
  PROVE  Inv'
<1> DEFINE a == ip[i]
           node == n[i]
           s == StrideAt(a, node)
<1>1. /\ mode = "batch" /\ pc = "descend"
      /\ UNCHANGED <<trie, mode, pc, ip, longest>>
      /\ i' = (i % Len(ip)) + 1
      /\ \/ /\ HasChild(node, s)
            /\ NoteAndDescend(i, s)
            /\ UNCHANGED endcnt
         \/ /\ ~ HasChild(node, s)
            /\ endcnt' = endcnt \cup {i}
            /\ UNCHANGED <<n, travel_depth, lazy_mark>>
  BY DEF BatchDescend
<1>2. Types /\ Turns /\ \A j \in DOMAIN ip : Walks(j) /\ Finds(j)
  BY DEF Inv
<1>3. i \in DOMAIN ip BY <1>1, <1>2 DEF Turns
<1>4. DOMAIN ip = 1 .. Len(ip) /\ Len(ip) \in Nat
  BY <1>2, LenProperties DEF Types
<1>5. i' \in DOMAIN ip
  <2>1. Len(ip) > 0 BY <1>3, <1>4
  <2>2. i % Len(ip) \in 0 .. Len(ip) - 1 BY <1>3, <1>4, <2>1
  <2> QED BY <1>1, <1>4, <2>2
<1>6. CASE HasChild(node, s)
  <2>1. NoteAndDescend(i, s) /\ UNCHANGED endcnt BY <1>1, <1>6
  <2>2. /\ n' \in [DOMAIN ip -> Prefix]
        /\ travel_depth' \in [DOMAIN ip -> Nat]
        /\ lazy_mark' \in [Element -> [0 .. LEVEL - 1 -> Mark]]
        /\ \A x \in DOMAIN ip : Walks(x)'
        /\ \A x \in DOMAIN ip \ {i} : n'[x] = n[x]
    BY <1>1, <1>3, <1>6, <2>1, GoesDown
  <2>3. i \notin endcnt BY <1>2, <1>3, <1>6 DEF Finds
  <2> HIDE DEF s
  <2>4. Turns' BY <1>1, <1>2, <1>5, <2>1 DEF Turns
  <2>5. ASSUME NEW j \in DOMAIN ip PROVE Finds(j)'
    <3>1. j \in endcnt' => ~ HasChild(n[j], StrideAt(ip[j], n[j])) /\ n'[j] = n[j]
      BY <1>2, <2>1, <2>2, <2>3 DEF Finds
    <3> QED BY <1>1, <3>1 DEF Finds, HasChild
  <2> QED BY <1>1, <1>2, <2>2, <2>4, <2>5, TurnKeepsInv DEF Types
<1>7. CASE ~ HasChild(node, s)
  <2>1. endcnt' = endcnt \cup {i} /\ UNCHANGED <<n, travel_depth, lazy_mark>>
    BY <1>1, <1>7
  <2>2. Turns' BY <1>1, <1>2, <1>3, <1>5, <2>1 DEF Turns
  <2>3. ASSUME NEW j \in DOMAIN ip PROVE Walks(j)' /\ Finds(j)'
    <3>1. Walks(j)' BY <1>1, <1>2, <2>1, WalkKept
    <3>2. j \in endcnt' => ~ HasChild(n[j], StrideAt(ip[j], n[j]))
      BY <1>2, <1>7, <2>1 DEF Finds
    <3>3. Finds(j)' BY <1>1, <2>1, <3>2 DEF Finds, HasChild
    <3> QED BY <3>1, <3>3
  <2> QED BY <1>1, <1>2, <2>1, <2>2, <2>3, TurnKeepsInv DEF Types
<1> QED BY <1>6, <1>7

\* Its last round.
LEMMA BatchTurnInv ==
  ASSUME Inv, BatchTurn
  PROVE  Inv'
<1>1. /\ mode = "batch" /\ pc = "descend" /\ i = 1 /\ endcnt = DOMAIN ip
      /\ pc' = "ascend"
      /\ UNCHANGED <<trie, mode, ip, n, travel_depth, lazy_mark, longest, endcnt, i>>
  BY DEF BatchTurn
<1>2. Types /\ Turns /\ \A j \in DOMAIN ip : Walks(j) /\ Finds(j)
  BY DEF Inv
<1>3. Turns' BY <1>1, <1>2 DEF Turns
<1>4. ASSUME NEW j \in DOMAIN ip PROVE Walks(j)' /\ Finds(j)'
  <2>1. Walks(j)' BY <1>1, <1>2, WalkKept
  <2>2. ~ j < i BY <1>1, Here
  <2>3. Finds(j)' BY <1>1, <1>2, <2>2 DEF Finds, HasChild
  <2> QED BY <2>1, <2>3
<1> QED BY <1>1, <1>2, <1>3, <1>4, TurnKeepsInv DEF Types

\* The last of the nodes noted that has a rule has the longest one of them.
LEMMA LastMarkWithRule ==
  ASSUME IsTrie(trie), NEW a \in Address, NEW marks, NEW depth \in Nat,
         Noted(marks, a, depth), depth * STRIDE <= LENGTH
  PROVE  LET D == {d \in 0 .. depth - 1 :
                     TreeFunction(marks[d].lazy_p, marks[d].stride) # NULL}
             mark == marks[Max(D)]
         IN  FoundIn(trie,
                     IF D = {} THEN NULL ELSE TreeFunction(mark.lazy_p, mark.stride),
                     a, 0, depth * STRIDE)
<1> DEFINE Rule(d) == TreeFunction(marks[d].lazy_p, marks[d].stride)
           D == {d \in 0 .. depth - 1 : Rule(d) # NULL}
           M == MatchLengths(trie.inl, a)
<1>1. ASSUME NEW d \in 0 .. depth - 1
      PROVE  FoundIn(trie, Rule(d), a, d * STRIDE, (d + 1) * STRIDE)
  BY NotedRule
<1> HIDE DEF Rule
<1>2. ASSUME NEW k \in M, k < depth * STRIDE
      PROVE  \E d \in D : d * STRIDE <= k /\ k < (d + 1) * STRIDE
  <2>1. k \in Nat BY MatchLength
  <2>2. PICK d \in Nat : d * STRIDE <= k /\ k < (d + 1) * STRIDE
    BY <2>1, StrideOf
  <2>3. d < depth
    <3>1. SUFFICES ASSUME depth <= d PROVE FALSE OBVIOUS
    <3>2. depth * STRIDE <= d * STRIDE
      <4>1. depth = d \/ depth < d BY <3>1
      <4>2. (depth + 1) * STRIDE = depth * STRIDE + STRIDE
            /\ depth * STRIDE \in Nat /\ d * STRIDE \in Nat
        BY StrideSteps
      <4>3. depth < d => (depth + 1) * STRIDE <= d * STRIDE BY StridesOrder
      <4> QED BY <4>1, <4>2, <4>3, StrideAssumption
    <3>3. depth * STRIDE \in Nat /\ d * STRIDE \in Nat BY StrideSteps
    <3> QED BY <1>2, <2>1, <2>2, <3>2, <3>3
  <2>4. d \in 0 .. depth - 1 BY <2>2, <2>3
  <2>5. Rule(d) # NULL
    <3>1. \A x \in M : Take(a, x) # NULL BY MatchLength
    <3> QED BY <1>1, <2>2, <2>4, <3>1 DEF FoundIn
  <2> QED BY <2>2, <2>4, <2>5
<1>3. CASE D = {}
  <2>1. FoundIn(trie, NULL, a, 0, depth * STRIDE) BY <1>2, <1>3 DEF FoundIn
  <2> QED BY <1>3, <2>1 DEF Rule
<1>4. CASE D # {}
  <2> DEFINE d == Max(D)
  <2>1. D \in SUBSET (0 .. depth) OBVIOUS
  <2>2. d \in D /\ \A x \in D : x <= d
    <3> HIDE DEF D
    <3> QED BY <1>4, <2>1, MaxOfNats
  <2>3. d \in 0 .. depth - 1 /\ Rule(d) # NULL /\ d \in Nat /\ d < depth
    <3> HIDE DEF d
    <3> QED BY <2>2
  <2> HIDE DEF d
  <2>4. PICK k \in M : /\ d * STRIDE <= k /\ k < (d + 1) * STRIDE /\ Rule(d) = Take(a, k)
                       /\ \A x \in M : d * STRIDE <= x /\ x < (d + 1) * STRIDE => x <= k
    BY <1>1, <2>3 DEF FoundIn
  <2>5. /\ d * STRIDE \in Nat /\ (d + 1) * STRIDE <= depth * STRIDE
        /\ (d + 1) * STRIDE \in Nat /\ depth * STRIDE \in Nat
    BY <2>3, StrideSteps, StridesOrder
  <2>6. \A x \in M : x \in Nat BY MatchLength
  <2>7. ASSUME NEW x \in M, x < depth * STRIDE PROVE x <= k
    <3>1. PICK e \in D : e * STRIDE <= x /\ x < (e + 1) * STRIDE
      BY <1>2, <2>7
    <3>2. e \in Nat /\ e <= d BY <2>2, <3>1
    <3>3. e < d => (e + 1) * STRIDE <= d * STRIDE BY <2>3, <3>2, StridesOrder
    <3>4. e * STRIDE \in Nat /\ (e + 1) * STRIDE \in Nat BY <3>2, StrideSteps
    <3>5. e < d => x <= k BY <2>4, <2>5, <2>6, <3>1, <3>3, <3>4
    <3>6. e = d => x <= k BY <2>4, <3>1
    <3> QED BY <2>3, <3>2, <3>5, <3>6
  <2>8. 0 <= k /\ k < depth * STRIDE BY <2>4, <2>5, <2>6
  <2>9. FoundIn(trie, Rule(d), a, 0, depth * STRIDE)
    BY <2>4, <2>7, <2>8 DEF FoundIn
  <2> QED BY <1>4, <2>9 DEF d, Rule
<1> QED BY <1>3, <1>4

\* Its second stage: element i has its answer.
LEMMA BatchAscendInv ==
  ASSUME Inv, BatchAscend
  PROVE  Inv'
<1> DEFINE a == ip[i]
           node == n[i]
           td == travel_depth[i]
           rule == TreeFunction(node, StrideAt(a, node))
           D == {d \in 0 .. td - 1 :
                   TreeFunction(lazy_mark[i][d].lazy_p, lazy_mark[i][d].stride) # NULL}
           mark == lazy_mark[i][Max(D)]
           above == IF D = {} THEN NULL ELSE TreeFunction(mark.lazy_p, mark.stride)
           r == IF rule # NULL THEN rule ELSE above
<1>1. /\ mode = "batch" /\ pc = "ascend"
      /\ longest' = [longest EXCEPT ![i] = r]
      /\ pc' = IF i = Len(ip) THEN "done" ELSE "ascend"
      /\ i' = IF i = Len(ip) THEN i ELSE i + 1
      /\ UNCHANGED <<trie, mode, ip, n, travel_depth, lazy_mark, endcnt>>
  BY DEF BatchAscend
<1>2. IsTrie(trie) /\ Trim(trie) /\ Types /\ Turns
      /\ \A j \in DOMAIN ip : Walks(j) /\ Finds(j)
  BY DEF Inv
<1>3. i \in DOMAIN ip /\ endcnt = DOMAIN ip BY <1>1, <1>2 DEF Turns
<1>4. DOMAIN ip = 1 .. Len(ip) /\ Len(ip) \in Nat
  BY <1>2, LenProperties DEF Types
<1>5. /\ a \in Address /\ OnPath(a, node) /\ td \in Nat
      /\ td * STRIDE \in Nat /\ td * STRIDE <= LENGTH
  BY <1>3, Here
<1>6. Noted(lazy_mark[i], a, td) /\ td * STRIDE = Len(node)
  BY <1>1, <1>2, <1>3 DEF Walks
<1>7. FoundIn(trie, r, a, 0, All)
  <2>1. ~ HasChild(node, StrideAt(a, node)) BY <1>2, <1>3 DEF Finds
  <2>2. FoundIn(trie, rule, a, td * STRIDE, All)
    BY <1>2, <1>5, <1>6, <2>1, LastRule
  <2>3. FoundIn(trie, above, a, 0, td * STRIDE)
    BY <1>2, <1>5, <1>6, LastMarkWithRule
  <2>4. All \in Nat /\ td * STRIDE <= All BY <1>5, LengthAssumption DEF All
  <2> HIDE DEF rule, above
  <2> QED BY <1>2, <1>5, <2>2, <2>3, <2>4, LongerFirst
<1> HIDE DEF r
<1>8. r \in Prefix \cup {NULL} BY <1>2, <1>5, <1>7, FoundRule
<1>9. /\ longest' \in [DOMAIN ip -> Prefix \cup {NULL}]
      /\ longest'[i] = r
      /\ \A j \in DOMAIN ip \ {i} : longest'[j] = longest[j]
  BY <1>1, <1>2, <1>3, <1>8 DEF Types
<1>10. i' \in DOMAIN ip BY <1>1, <1>3, <1>4
<1>11. Turns' BY <1>1, <1>2, <1>3, <1>10 DEF Turns
<1>12. ASSUME NEW j \in DOMAIN ip PROVE Walks(j)' /\ Finds(j)'
  <2>1. Walks(j)' BY <1>1, <1>2, WalkKept
  <2>2. ~ HasChild(n[j], StrideAt(ip[j], n[j])) BY <1>2, <1>3 DEF Finds
  <2>3. pc' = "done" \/ j < i' => j <= i BY <1>1, <1>3, <1>4
  <2>4. j < i => FoundIn(trie, longest[j], ip[j], 0, All)
    BY <1>1, <1>2 DEF Finds
  <2>5. j <= i => FoundIn(trie, longest'[j], ip[j], 0, All)
    <3>1. CASE j = i BY <1>7, <1>9, <3>1
    <3>2. CASE j # i
      <4>1. j <= i => j < i BY <1>3, <1>4, <3>2
      <4> QED BY <1>9, <2>4, <3>2, <4>1
    <3> QED BY <3>1, <3>2
  <2>6. Finds(j)' BY <1>1, <2>2, <2>3, <2>5 DEF Finds, HasChild
  <2> QED BY <2>1, <2>6
<1> QED BY <1>1, <1>2, <1>9, <1>11, <1>12, TurnKeepsInv DEF Types

\* A call begins in the root.
LEMMA StartInv ==
  ASSUME Inv, NEW m \in Mode, NEW a \in Seq(Keys), Len(a) \in 1 .. BATCH,
         m # "batch" => Len(a) = 1, Start(m, a)
  PROVE  Inv'
<1>1. /\ pc = "idle" /\ mode' = m /\ pc' = "descend" /\ ip' = a
      /\ n' = [j \in DOMAIN a |-> <<>>]
      /\ travel_depth' = [j \in DOMAIN a |-> 0]
      /\ longest' = [j \in DOMAIN a |-> NULL]
      /\ endcnt' = {} /\ i' = 1
      /\ UNCHANGED <<trie, lazy_mark>>
  BY DEF Start
<1>2. IsTrie(trie) /\ Trim(trie) /\ Types BY DEF Inv
<1>3. DOMAIN a = 1 .. Len(a) /\ Len(a) \in Nat /\ Len(a) <= BATCH /\ 1 \in DOMAIN a
  BY BatchAssumption, LenProperties
<1>4. <<>> \in Prefix /\ Len(<<>>) = 0
  <2>1. <<>> \in Bits /\ Len(<<>>) = 0 BY EmptySeq DEF Bits
  <2>2. 0 <= LENGTH BY LengthAssumption
  <2> QED BY <2>1, <2>2, PrefixIsBits
<1>5. Types' BY <1>1, <1>2, <1>3, <1>4 DEF Types
<1>6. Turns' BY <1>1, <1>3 DEF Turns, Mode
<1>7. ASSUME NEW j \in DOMAIN a PROVE Walks(j)' /\ Finds(j)'
  <2>1. n'[j] = <<>> /\ travel_depth'[j] = 0 /\ longest'[j] = NULL /\ ip'[j] = a[j]
    BY <1>1
  <2>2. a[j] \in Keys BY <1>3, ElementOfSeq
  <2>3. a[j] \in Address BY <2>2, InputsAssumption
  <2>4. OnPath(a[j], <<>>)
    <3>1. Take(a[j], 0) = <<>> BY SubSeqEmpty DEF Take
    <3> QED BY <1>4, <3>1, StrideZero, LengthAssumption DEF OnPath
  <2>5. 0 * STRIDE = 0 BY StrideAssumption
  <2>6. Noted(lazy_mark'[j], a[j], 0) BY DEF Noted
  <2>7. Walks(j)' BY <1>4, <2>1, <2>4, <2>5, <2>6 DEF Walks
  <2>8. FoundIn(trie, NULL, a[j], 0, 0) BY <1>2, <2>3, FoundNone
  <2>9. Finds(j)' BY <1>1, <1>4, <2>1, <2>8 DEF Finds
  <2> QED BY <2>7, <2>9
<1> QED BY <1>1, <1>2, <1>5, <1>6, <1>7 DEF Inv

\* Nobody is looking up: what is left to say.
LEMMA IdleInv ==
  ASSUME IsTrie(trie), Trim(trie),
         lazy_mark \in [Element -> [0 .. LEVEL - 1 -> Mark]],
         mode = "none", pc = "idle", ip = <<>>, n = <<>>, travel_depth = <<>>,
         longest = <<>>, endcnt = {}, i = 0
  PROVE  Inv
<1>1. ip \in Seq(Keys) /\ Len(ip) = 0 /\ DOMAIN ip = {} BY EmptySeq
<1>2. DOMAIN <<>> = {} /\ <<>> = [j \in {} |-> NULL] OBVIOUS
<1>3. Types BY <1>1, <1>2, BatchAssumption DEF Types
<1>4. Turns BY <1>1 DEF Turns, Mode
<1> QED BY <1>1, <1>3, <1>4 DEF Inv

\* The updates come between calls, and keep the trie trim.
LEMMA UpdateInv ==
  ASSUME Inv, pc = "idle", UNCHANGED search, IsTrie(trie'), Trim(trie')
  PROVE  Inv'
<1>1. mode = "none" /\ ip = <<>> /\ i = 0 /\ DOMAIN ip = {} BY DEF Inv, Turns
<1>2. Types' BY DEF Inv, Types, search
<1>3. Turns' BY DEF Inv, Turns, search
<1>4. DOMAIN ip' = {} BY <1>1 DEF search
<1> QED BY <1>2, <1>3, <1>4 DEF Inv

\* bitmap_insert_prefix.
LEMMA InsertInv ==
  ASSUME Inv, NEW p \in Inputs, NEW nhi \in NHI, Insert(p, nhi)
  PROVE  Inv'
<1>1. IsTrie(trie) /\ Trim(trie) /\ p \in Prefix BY InputsAssumption DEF Inv
<1>2. IsTrie(trie') /\ Trim(trie')
  <2>1. trie' = InsertPrefix(trie, p, nhi) BY DEF Insert
  <2> QED BY <1>1, <2>1, InsertKeepsTrim
<1> QED BY <1>2, UpdateInv DEF Insert

\* bitmap_delete_prefix of a rule that bitmap_prefix_exist has found.
LEMMA DeleteInv ==
  ASSUME Inv, NEW p \in Inputs, Delete(p)
  PROVE  Inv'
<1>1. IsTrie(trie) /\ Trim(trie) /\ p \in Prefix BY InputsAssumption DEF Inv
<1>2. p \in DOMAIN trie.inl BY <1>1, ExistIsRule DEF Delete
<1>3. IsTrie(trie') /\ Trim(trie')
  <2>1. trie' = DeletePrefix(trie, p).trie BY DEF Delete
  <2> QED BY <1>1, <1>2, <2>1, DeleteKeepsTrim
<1> QED BY <1>3, UpdateInv DEF Delete

\* Before the first call
LEMMA InitInv == Init => Inv
<1> SUFFICES ASSUME Init
             PROVE  Inv
  OBVIOUS
<1>1. NoMark \in Mark
  <2>1. [k \in 1 .. STRIDE |-> 0] \in BitStrings(STRIDE)
    BY DEF BitStrings, Bit
  <2> QED BY <2>1 DEF NoMark, Mark
<1>2. lazy_mark \in [Element -> [0 .. LEVEL - 1 -> Mark]] BY <1>1 DEF Init
<1>3. IsTrie(trie) /\ Trim(trie) BY EmptyTrieOK DEF Init
<1> QED BY <1>2, <1>3, IdleInv DEF Init

\* and after every step of a call or of an update.
LEMMA StepInv == Inv /\ [Next]_vars => Inv'
<1> SUFFICES ASSUME Inv, [Next]_vars
             PROVE  Inv'
  OBVIOUS
<1>1. ASSUME NEW p \in Inputs, NEW nhi \in NHI, Insert(p, nhi) PROVE Inv'
  BY <1>1, InsertInv
<1>2. ASSUME NEW p \in Inputs, Delete(p) PROVE Inv'
  BY <1>2, DeleteInv
<1>3. CASE DestroyTrie
  BY <1>3, EmptyTrieOK, UpdateInv DEF DestroyTrie
<1>4. ASSUME NEW m \in {"search", "lazy"}, NEW a \in Keys, Start(m, <<a>>)
      PROVE  Inv'
  <2>1. <<a>> \in Seq(Keys) /\ Len(<<a>>) = 1 OBVIOUS
  <2>2. 1 \in 1 .. BATCH BY BatchAssumption
  <2> QED BY <1>4, <2>1, <2>2, StartInv DEF Mode
<1>5. ASSUME NEW cnt \in 1 .. BATCH, NEW a \in [1 .. cnt -> Keys], Start("batch", a)
      PROVE  Inv'
  <2>1. cnt \in Nat /\ a \in Seq(Keys) BY BatchAssumption, SeqDef
  <2>2. Len(a) = cnt BY <2>1, LenProperties
  <2> QED BY <1>5, <2>1, <2>2, StartInv DEF Mode
<1>6. CASE Return
  <2>1. IsTrie(trie) /\ Trim(trie) /\ Types BY DEF Inv
  <2>2. /\ IsTrie(trie') /\ Trim(trie')
        /\ lazy_mark' \in [Element -> [0 .. LEVEL - 1 -> Mark]]
    BY <1>6, <2>1 DEF Return, Types
  <2>3. /\ mode' = "none" /\ pc' = "idle" /\ ip' = <<>> /\ n' = <<>>
        /\ travel_depth' = <<>> /\ longest' = <<>> /\ endcnt' = {} /\ i' = 0
    BY <1>6 DEF Return
  <2>4. ( /\ IsTrie(trie) /\ Trim(trie)
          /\ lazy_mark \in [Element -> [0 .. LEVEL - 1 -> Mark]]
          /\ mode = "none" /\ pc = "idle" /\ ip = <<>> /\ n = <<>>
          /\ travel_depth = <<>> /\ longest = <<>> /\ endcnt = {} /\ i = 0
          => Inv )'
    BY IdleInv, PTL
  <2> QED BY <2>2, <2>3, <2>4
<1>7. CASE UNCHANGED vars
  <2>1. Types' BY <1>7 DEF Inv, Types, vars
  <2>2. Turns' BY <1>7 DEF Inv, Turns, vars
  <2>3. ASSUME NEW j \in DOMAIN ip PROVE Walks(j)' /\ Finds(j)'
    BY <1>7 DEF Inv, Walks, Finds, HasChild, vars
  <2> QED BY <1>7, <2>1, <2>2, <2>3 DEF Inv, vars
<1> QED
  BY <1>1, <1>2, <1>3, <1>4, <1>5, <1>6, <1>7,
     SearchStepInv, LazyDescendInv, LazyAscendInv,
     BatchDescendInv, BatchTurnInv, BatchAscendInv
  DEF Next, Step

\* Every lookup, at every turn, knows of the rules what it has passed.
THEOREM InvHolds == Spec => []Inv
<1> QED BY InitInv, StepInv, PTL DEF Spec

-----------------------------------------------------------------------------
\* The depth of a walk is within the types.
LEMMA InvTypeOK == Inv => TypeOK
<1> SUFFICES ASSUME Inv
             PROVE  TypeOK
  OBVIOUS
<1>1. IsTrie(trie) /\ Types /\ Turns BY DEF Inv
<1>2. \A j \in DOMAIN ip : ip[j] \in Keys
  BY <1>1, LenProperties, ElementOfSeq DEF Types
<1>3. travel_depth \in [DOMAIN ip -> 0 .. LEVEL]
  <2>1. \A j \in DOMAIN ip : travel_depth[j] \in 0 .. LEVEL BY Here, LevelIsNat
  <2> QED BY <1>1, <2>1 DEF Types
<1>4. i \in 0 .. BATCH
  <2>1. CASE pc = "idle" BY <1>1, <2>1, BatchAssumption DEF Turns
  <2>2. CASE pc # "idle"
    <3>1. i \in DOMAIN ip BY <1>1, <2>2 DEF Turns
    <3>2. i \in Element BY <3>1, Here
    <3> QED BY <3>2, BatchAssumption DEF Element
  <2> QED BY <2>1, <2>2
<1> QED BY <1>1, <1>2, <1>3, <1>4 DEF TypeOK, Types, Turns

\* The variables of the searches keep their types: no node is noted beyond the
\* last entry of lazy_mark.
THEOREM TypeCorrect == Spec => []TypeOK
BY InvHolds, InvTypeOK, PTL

\* What the lazy searches of lib/bitmap_v4.c read back from lazy_mark they have
\* noted themselves, although the array is static and never cleared.
THEOREM OnlyFreshMarks == Spec => []MarksAreFresh
<1>1. Inv => MarksAreFresh
  <2> SUFFICES ASSUME Inv, NEW j \in DOMAIN ip, mode \in {"lazy", "batch"}
               PROVE  /\ travel_depth[j] < LEVEL
                      /\ \A d \in 0 .. travel_depth[j] - 1 :
                           /\ lazy_mark[j][d].lazy_p = Take(ip[j], d * STRIDE)
                           /\ lazy_mark[j][d].stride =
                                StrideAt(ip[j], lazy_mark[j][d].lazy_p)
    BY DEF MarksAreFresh
  <2>1. Noted(lazy_mark[j], ip[j], travel_depth[j]) BY DEF Inv, Walks
  <2> QED BY <2>1, Here DEF Noted
<1> QED BY <1>1, InvHolds, PTL

\* bitmap_do_search, bitmap_do_search_lazy and bitmap_do_search_lazy_batch all
\* answer with the longest match of each of their addresses.
THEOREM LongestMatchAnswered == Spec => []AnswersAreLongestMatch
<1>1. Inv => AnswersAreLongestMatch
  <2> SUFFICES ASSUME Inv, pc = "done", NEW j \in DOMAIN ip
               PROVE  Answer(j) = LongestMatch(trie.inl, ip[j])
    BY DEF AnswersAreLongestMatch
  <2>1. FoundIn(trie, longest[j], ip[j], 0, All) BY DEF Inv, Finds
  <2>2. IsTrie(trie) /\ ip[j] \in Address BY Here DEF Inv
  <2> QED BY <2>1, <2>2, FoundIsAnswer DEF Answer
<1> QED BY <1>1, InvHolds, PTL

-----------------------------------------------------------------------------
\* A rule that covers p is one of the matches of p.
LEMMA CoverIsMatch ==
  ASSUME IsTrie(trie), NEW p \in Prefix, NEW q
  PROVE  q \in DOMAIN trie.inl /\ Covers(q, p) =>
           /\ Len(q) \in MatchLengths(trie.inl, p)
           /\ Take(p, Len(q)) = q
<1> SUFFICES ASSUME q \in DOMAIN trie.inl, Covers(q, p)
             PROVE  Len(q) \in MatchLengths(trie.inl, p) /\ Take(p, Len(q)) = q
  OBVIOUS
<1>1. q \in Prefix BY TableEntry DEF IsTrie
<1>2. Len(q) \in Nat /\ Len(p) \in Nat BY <1>1, PrefixIsBits, BitsLen
<1> QED BY <1>2 DEF Covers, MatchLengths

\* And the other way round.
LEMMA MatchIsCover ==
  ASSUME IsTrie(trie), NEW p \in Prefix, NEW k \in MatchLengths(trie.inl, p)
  PROVE  /\ k \in 0 .. Len(p) /\ k \in Nat /\ Len(p) \in Nat
         /\ Take(p, k) \in DOMAIN trie.inl
         /\ Len(Take(p, k)) = k
         /\ Covers(Take(p, k), p)
<1>1. p \in Bits /\ Len(p) \in Nat BY PrefixIsBits, BitsLen
<1>2. k \in 0 .. Len(p) /\ Take(p, k) \in DOMAIN trie.inl BY DEF MatchLengths
<1>3. Len(Take(p, k)) = k BY <1>1, <1>2, TakeBits
<1> QED BY <1>1, <1>2, <1>3 DEF Covers

\* bitmap_detect_overlap_generic on a trim trie.
LEMMA OverlapIs ==
  ASSUME IsTrie(trie), Trim(trie), NEW p \in Prefix, NEW limit \in Nat
  PROVE  LET shorter == {q \in DOMAIN trie.inl \ {<<>>} :
                           Covers(q, p) /\ Len(q) < Len(p) /\ Len(q) < limit}
             found   == DetectOverlap(trie, p, limit)
         IN  \/ shorter = {} /\ found.mask = 0 /\ found.nhi = NULL
             \/ \E q \in shorter :
                  /\ \A r \in shorter : Len(r) <= Len(q)
                  /\ found.mask = Len(q)
                  /\ found.nhi = trie.inl[q]
<1> DEFINE shorter == {q \in DOMAIN trie.inl \ {<<>>} :
                         Covers(q, p) /\ Len(q) < Len(p) /\ Len(q) < limit}
           found == DetectOverlap(trie, p, limit)
           lens == OverlapLengths(trie, p, limit) \ {0}
<1>1. p \in Bits /\ Len(p) \in Nat BY PrefixIsBits, BitsLen
<1>2. \A k : k \in lens <=> /\ k \in MatchLengths(trie.inl, p)
                            /\ k < Len(p) /\ k < limit /\ k # 0
  <2>1. RulesMet(trie, p) = MatchLengths(trie.inl, p) BY MatchesAreMet
  <2>2. \A k \in MatchLengths(trie.inl, p) :
          k < SmallerOf(Len(p), limit) <=> k < Len(p) /\ k < limit
    BY <1>1, MatchIsCover DEF SmallerOf
  <2> QED BY <2>1, <2>2 DEF OverlapLengths
<1>3. /\ found.mask = IF lens = {} THEN 0 ELSE Max(lens)
      /\ found.nhi = IF lens = {} THEN NULL ELSE trie.inl[Take(p, Max(lens))]
  BY DEF DetectOverlap, NextHopAt
<1> HIDE DEF lens, found
<1>4. ASSUME NEW k \in lens
      PROVE  Take(p, k) \in shorter /\ Len(Take(p, k)) = k /\ k \in 0 .. Len(p)
  <2>1. k \in MatchLengths(trie.inl, p) /\ k < Len(p) /\ k < limit /\ k # 0 BY <1>2
  <2>2. /\ Take(p, k) \in DOMAIN trie.inl /\ Len(Take(p, k)) = k
        /\ Covers(Take(p, k), p) /\ k \in 0 .. Len(p)
    BY <2>1, MatchIsCover
  <2>3. Take(p, k) # <<>>
    <3>1. Len(<<>>) = 0 BY EmptySeq
    <3> QED BY <2>1, <2>2, <3>1
  <2> QED BY <2>1, <2>2, <2>3
<1>5. ASSUME NEW q \in shorter
      PROVE  Len(q) \in lens /\ Take(p, Len(q)) = q
  <2>1. Len(q) \in MatchLengths(trie.inl, p) /\ Take(p, Len(q)) = q
    BY CoverIsMatch
  <2>2. Len(q) # 0
    <3>1. q \in Prefix BY TableEntry DEF IsTrie
    <3>2. q \in Seq(Bit) /\ q # <<>> BY <3>1, PrefixIsBits DEF Bits
    <3> QED BY <3>2, EmptySeq
  <2> QED BY <1>2, <2>1, <2>2
<1> HIDE DEF shorter
<1>6. CASE lens = {}
  <2>1. shorter = {} BY <1>5, <1>6
  <2> QED BY <1>3, <1>6, <2>1 DEF shorter, found
<1>7. CASE lens # {}
  <2> DEFINE k == Max(lens)
  <2>1. lens \in SUBSET (0 .. Len(p)) BY <1>4
  <2>2. k \in lens /\ \A x \in lens : x <= k BY <1>1, <1>7, <2>1, MaxOfNats
  <2>3. found.mask = k /\ found.nhi = trie.inl[Take(p, k)] BY <1>3, <1>7
  <2> HIDE DEF k
  <2>4. Take(p, k) \in shorter /\ Len(Take(p, k)) = k BY <1>4, <2>2
  <2>5. \A r \in shorter : Len(r) <= Len(Take(p, k)) BY <1>5, <2>2, <2>4
  <2>6. \E q \in shorter : /\ \A r \in shorter : Len(r) <= Len(q)
                           /\ found.mask = Len(q)
                           /\ found.nhi = trie.inl[q]
    BY <2>3, <2>4, <2>5
  <2> QED BY <2>6 DEF shorter, found
<1> QED BY <1>6, <1>7

\* bitmap_detect_overlap_generic finds the longest of the shorter rules that
\* cover a prefix, which tbm_delete_prefix puts in the place of the deleted one.
THEOREM OverlapFound == Spec => []OverlapIsLongestShorter
<1>1. Inv => OverlapIsLongestShorter
  <2> SUFFICES ASSUME Inv, NEW p \in Inputs, NEW limit \in 0 .. LENGTH
               PROVE  LET shorter == {q \in DOMAIN trie.inl \ {<<>>} :
                                /\ Covers(q, p)
                                /\ Len(q) < Len(p) /\ Len(q) < limit}
                          found   == DetectOverlap(trie, p, limit)
                      IN  \/ shorter = {} /\ found.mask = 0 /\ found.nhi = NULL
                          \/ \E q \in shorter :
                               /\ \A r \in shorter : Len(r) <= Len(q)
                               /\ found.mask = Len(q)
                               /\ found.nhi = trie.inl[q]
    BY DEF OverlapIsLongestShorter
  <2>1. p \in Prefix /\ limit \in Nat BY InputsAssumption, LengthAssumption
  <2>2. IsTrie(trie) /\ Trim(trie) BY DEF Inv
  <2> QED BY <2>1, <2>2, OverlapIs
<1> QED BY <1>1, InvHolds, PTL

=============================================================================
