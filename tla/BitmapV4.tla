------------------------------ MODULE BitmapV4 ------------------------------
(***************************************************************************)
(* One multi-bit trie as a caller of lib/bitmap_v4.h uses it: updates, one *)
(* at a time, and between them the three lookups, one turn of their loops  *)
(* at a time.                                                              *)
(*                                                                         *)
(*   bitmap_do_search             descends and remembers the last rule met *)
(*   bitmap_do_search_lazy        descends first, noting the nodes passed  *)
(*                                in lazy_mark, and looks for a rule from  *)
(*                                the last node back up                    *)
(*   bitmap_do_search_lazy_batch  the same for several addresses, in turns *)
(*                                                                         *)
(* lazy_mark is static (one array per thread, here the one of the thread   *)
(* that looks up): it is never cleared, and keeps what the previous search *)
(* noted about a trie that has since changed.                              *)
(***************************************************************************)
EXTENDS BitmapTrie

CONSTANTS
  Inputs,         \* the prefixes callers insert
  Keys,           \* the addresses callers look up
  BATCH           \* the addresses bitmap_do_search_lazy_batch takes at most: 32

ASSUME InputsAssumption == Inputs \subseteq Prefix /\ Keys \subseteq Address
ASSUME BatchAssumption == BATCH \in Nat \ {0}

VARIABLES
  trie,          \* the trie
  mode,          \* the search that runs, or "none"
  pc,            \* where it is: "idle", "descend", "ascend" or "done"
  ip,            \* the addresses looked up, one per element of the batch
  n,             \* the node each element has got to
  travel_depth,  \* and how many nodes it has noted
  lazy_mark,     \* the nodes noted: static arrays, one per element
  longest,       \* the rule found, as the prefix it stands for, or NULL
  endcnt,        \* the elements that have got to their last node
  i              \* the element whose turn it is

vars == <<trie, mode, pc, ip, n, travel_depth, lazy_mark, longest, endcnt, i>>
search == <<mode, pc, ip, n, travel_depth, lazy_mark, longest, endcnt, i>>

\* The most nodes on a path, and the entries of lazy_mark.
LEVEL == LENGTH \div STRIDE + 1

Mode == {"search", "lazy", "batch"}
Element == 1 .. BATCH
Mark == [lazy_p : Prefix \cup {NULL}, stride : BitStrings(STRIDE)]

NoMark == [lazy_p |-> NULL, stride |-> [k \in 1 .. STRIDE |-> 0]]

TypeOK ==
  /\ IsTrie(trie)
  /\ mode \in Mode \cup {"none"}
  /\ pc \in {"idle", "descend", "ascend", "done"}
  /\ Len(ip) <= BATCH /\ \A j \in DOMAIN ip : ip[j] \in Keys
  /\ n \in [DOMAIN ip -> Prefix]
  /\ travel_depth \in [DOMAIN ip -> 0 .. LEVEL]
  /\ lazy_mark \in [Element -> [0 .. LEVEL - 1 -> Mark]]
  /\ longest \in [DOMAIN ip -> Prefix \cup {NULL}]
  /\ endcnt \subseteq DOMAIN ip
  /\ i \in 0 .. BATCH

Init ==
  /\ trie = EmptyTrie
  /\ mode = "none"
  /\ pc = "idle"
  /\ ip = <<>>
  /\ n = <<>>
  /\ travel_depth = <<>>
  /\ lazy_mark = [j \in Element |-> [d \in 0 .. LEVEL - 1 |-> NoMark]]
  /\ longest = <<>>
  /\ endcnt = {}
  /\ i = 0

-----------------------------------------------------------------------------
\* Updates.  bitmap_delete_prefix is for a prefix that bitmap_prefix_exist has
\* found.
Insert(p, nhi) ==
  /\ pc = "idle"
  /\ trie' = InsertPrefix(trie, p, nhi)
  /\ UNCHANGED search

Delete(p) ==
  /\ pc = "idle"
  /\ PrefixExist(trie, p)
  /\ trie' = DeletePrefix(trie, p).trie
  /\ UNCHANGED search

\* bitmap_destroy_trie
DestroyTrie ==
  /\ pc = "idle"
  /\ trie' = EmptyTrie
  /\ UNCHANGED search

-----------------------------------------------------------------------------
\* What is left of the address after the bits that lead to a node, as
\* ip >> (LENGTH - STRIDE) gives it: zeros follow the last bit.
StrideAt(a, node) ==
  [k \in 1 .. STRIDE |->
     IF Len(node) + k <= LENGTH THEN a[Len(node) + k] ELSE 0]

\* The child that a bit of external stands for, and the rule of a node that
\* tree_function finds for a stride.
ChildAt(node, stride) == node \o stride
HasChild(node, stride) == ChildAt(node, stride) \in trie.enl

TreeFunction(node, stride) ==
  LET found == {m \in 0 .. STRIDE - 1 : node \o Take(stride, m) \in DOMAIN trie.inl}
  IN  IF found = {} THEN NULL ELSE node \o Take(stride, Max(found))

\* A call with the addresses a.
Start(m, a) ==
  /\ pc = "idle"
  /\ mode' = m
  /\ pc' = "descend"
  /\ ip' = a
  /\ n' = [j \in DOMAIN a |-> <<>>]
  /\ travel_depth' = [j \in DOMAIN a |-> 0]
  /\ longest' = [j \in DOMAIN a |-> NULL]
  /\ endcnt' = {}
  /\ i' = 1
  /\ UNCHANGED <<trie, lazy_mark>>

\* One turn of the loop of bitmap_do_search.
SearchStep ==
  LET stride == StrideAt(ip[1], n[1])
      rule   == TreeFunction(n[1], stride)
  IN  /\ mode = "search" /\ pc = "descend"
      /\ longest' = [longest EXCEPT ![1] = IF rule # NULL THEN rule ELSE @]
      /\ \/ /\ HasChild(n[1], stride)
            /\ n' = [n EXCEPT ![1] = ChildAt(@, stride)]
            /\ UNCHANGED pc
         \/ /\ ~ HasChild(n[1], stride)
            /\ pc' = "done"
            /\ UNCHANGED n
      /\ UNCHANGED <<trie, mode, ip, travel_depth, lazy_mark, endcnt, i>>

\* Mutant: the elements of a batch share one array of marks.
NoteInSharedArray(j, stride) ==
  /\ lazy_mark' = [lazy_mark EXCEPT ![1][travel_depth[j]] =
                     [lazy_p |-> n[j], stride |-> stride]]
  /\ travel_depth' = [travel_depth EXCEPT ![j] = @ + 1]
  /\ n' = [n EXCEPT ![j] = ChildAt(@, stride)]

\* Element j goes down one node and notes the one it leaves.
NoteAndDescend(j, stride) ==
  /\ lazy_mark' = [lazy_mark EXCEPT ![j][travel_depth[j]] =
                     [lazy_p |-> n[j], stride |-> stride]]
  /\ travel_depth' = [travel_depth EXCEPT ![j] = @ + 1]
  /\ n' = [n EXCEPT ![j] = ChildAt(@, stride)]

\* One turn of the descent of bitmap_do_search_lazy; the last one tries the
\* node it has come to.
LazyDescend ==
  LET stride == StrideAt(ip[1], n[1])
      rule   == TreeFunction(n[1], stride)
  IN  /\ mode = "lazy" /\ pc = "descend"
      /\ \/ /\ HasChild(n[1], stride)
            /\ NoteAndDescend(1, stride)
            /\ UNCHANGED <<pc, longest>>
         \/ /\ ~ HasChild(n[1], stride)
            /\ longest' = [longest EXCEPT ![1] = rule]
            /\ pc' = IF rule # NULL THEN "done" ELSE "ascend"
            /\ UNCHANGED <<n, travel_depth, lazy_mark>>
      /\ UNCHANGED <<trie, mode, ip, endcnt, i>>

\* The rule of the last node element j has noted, in the node as it is now.
MarkedRule(j) ==
  LET mark == lazy_mark[j][travel_depth[j] - 1]
  IN  TreeFunction(mark.lazy_p, mark.stride)

\* Mutant: the way back up stops below the root.
LazyAscendSkipsRoot ==
  /\ mode = "lazy" /\ pc = "ascend"
  /\ \/ /\ travel_depth[1] > 1
        /\ longest' = [longest EXCEPT ![1] = MarkedRule(1)]
        /\ travel_depth' = [travel_depth EXCEPT ![1] = @ - 1]
        /\ pc' = IF MarkedRule(1) # NULL THEN "done" ELSE "ascend"
     \/ /\ travel_depth[1] <= 1
        /\ pc' = "done"
        /\ UNCHANGED <<longest, travel_depth>>
  /\ UNCHANGED <<trie, mode, ip, n, lazy_mark, endcnt, i>>

\* One turn of the way back up: until a node has a rule or none is left.
LazyAscend ==
  /\ mode = "lazy" /\ pc = "ascend"
  /\ \/ /\ travel_depth[1] > 0
        /\ longest' = [longest EXCEPT ![1] = MarkedRule(1)]
        /\ travel_depth' = [travel_depth EXCEPT ![1] = @ - 1]
        /\ pc' = IF MarkedRule(1) # NULL THEN "done" ELSE "ascend"
     \/ /\ travel_depth[1] = 0
        /\ pc' = "done"
        /\ UNCHANGED <<longest, travel_depth>>
  /\ UNCHANGED <<trie, mode, ip, n, lazy_mark, endcnt, i>>

\* Mutant: an element that ends in the root is not counted as arrived.
BatchDescendCountsBelowRoot ==
  LET stride == StrideAt(ip[i], n[i])
  IN  /\ mode = "batch" /\ pc = "descend"
      /\ ~ (i = 1 /\ endcnt = DOMAIN ip)
      /\ \/ /\ HasChild(n[i], stride)
            /\ NoteAndDescend(i, stride)
            /\ UNCHANGED endcnt
         \/ /\ ~ HasChild(n[i], stride)
            /\ endcnt' = IF travel_depth[i] > 0 THEN endcnt \cup {i} ELSE endcnt
            /\ UNCHANGED <<n, travel_depth, lazy_mark>>
      /\ i' = (i % Len(ip)) + 1
      /\ UNCHANGED <<trie, mode, pc, ip, longest>>

\* Stage 1 of bitmap_do_search_lazy_batch: element i goes down one node, or is
\* counted as having arrived; elements that have arrived keep their turn.
BatchDescend ==
  LET stride == StrideAt(ip[i], n[i])
  IN  /\ mode = "batch" /\ pc = "descend"
      /\ ~ (i = 1 /\ endcnt = DOMAIN ip)
      /\ \/ /\ HasChild(n[i], stride)
            /\ NoteAndDescend(i, stride)
            /\ UNCHANGED endcnt
         \/ /\ ~ HasChild(n[i], stride)
            /\ endcnt' = endcnt \cup {i}
            /\ UNCHANGED <<n, travel_depth, lazy_mark>>
      /\ i' = (i % Len(ip)) + 1
      /\ UNCHANGED <<trie, mode, pc, ip, longest>>

\* The loop ends where a round begins with every element arrived.
BatchTurn ==
  /\ mode = "batch" /\ pc = "descend"
  /\ i = 1 /\ endcnt = DOMAIN ip
  /\ pc' = "ascend"
  /\ UNCHANGED <<trie, mode, ip, n, travel_depth, lazy_mark, longest, endcnt, i>>

\* Stage 2: element i tries its last node and then the ones it has noted.
BatchAscend ==
  LET rule  == TreeFunction(n[i], StrideAt(ip[i], n[i]))
      depth == {d \in 0 .. travel_depth[i] - 1 :
                  TreeFunction(lazy_mark[i][d].lazy_p, lazy_mark[i][d].stride) # NULL}
      mark  == lazy_mark[i][Max(depth)]
  IN  /\ mode = "batch" /\ pc = "ascend"
      /\ longest' = [longest EXCEPT ![i] =
                       IF rule # NULL THEN rule
                       ELSE IF depth = {} THEN NULL
                       ELSE TreeFunction(mark.lazy_p, mark.stride)]
      /\ pc' = IF i = Len(ip) THEN "done" ELSE "ascend"
      /\ i' = IF i = Len(ip) THEN i ELSE i + 1
      /\ UNCHANGED <<trie, mode, ip, n, travel_depth, lazy_mark, endcnt>>

\* The caller takes the answers: the next hops that `longest' points to.
Answer(j) == IF longest[j] = NULL THEN NULL ELSE trie.inl[longest[j]]

Return ==
  /\ pc = "done"
  /\ mode' = "none"
  /\ pc' = "idle"
  /\ ip' = <<>>
  /\ n' = <<>>
  /\ travel_depth' = <<>>
  /\ longest' = <<>>
  /\ endcnt' = {}
  /\ i' = 0
  /\ UNCHANGED <<trie, lazy_mark>>

Step ==
  SearchStep \/ LazyDescend \/ LazyAscend
    \/ BatchDescend \/ BatchTurn \/ BatchAscend \/ Return

Next ==
  \/ \E p \in Inputs, nhi \in NHI : Insert(p, nhi)
  \/ \E p \in Inputs : Delete(p)
  \/ DestroyTrie
  \/ \E m \in {"search", "lazy"}, a \in Keys : Start(m, <<a>>)
  \/ \E cnt \in 1 .. BATCH : \E a \in [1 .. cnt -> Keys] : Start("batch", a)
  \/ Step

\* A lookup is a loop of its caller's thread: it goes on as long as it can.
Spec == Init /\ [][Next]_vars /\ WF_vars(Step)

-----------------------------------------------------------------------------
\* Every lookup, whichever of the three it is and whatever earlier lookups left
\* in lazy_mark, answers with the longest match of each of its addresses.
AnswersAreLongestMatch ==
  pc = "done" =>
    \A j \in DOMAIN ip : Answer(j) = LongestMatch(trie.inl, ip[j])

\* What a lookup may read back from lazy_mark was noted by this lookup, on the
\* path of this address; and it fits the array of LEVEL entries.
MarksAreFresh ==
  \A j \in DOMAIN ip :
    mode \in {"lazy", "batch"} =>
      /\ travel_depth[j] < LEVEL
      /\ \A d \in 0 .. travel_depth[j] - 1 :
           /\ lazy_mark[j][d].lazy_p = Take(ip[j], d * STRIDE)
           /\ lazy_mark[j][d].stride = StrideAt(ip[j], lazy_mark[j][d].lazy_p)

\* The loops end: no address keeps its element going down for ever, and the
\* batch ends although the elements arrive at different times.
LookupsReturn == pc # "idle" ~> pc = "idle"

\* bitmap_detect_overlap_generic finds the longest rule that covers the prefix
\* and is shorter than both limits.  One of length 0 it does not find, because
\* the mask of that, 0, also says that there is none.
OverlapIsLongestShorter ==
  \A p \in Inputs, limit \in 0 .. LENGTH :
    LET shorter == {q \in DOMAIN trie.inl \ {<<>>} :
                      Covers(q, p) /\ Len(q) < Len(p) /\ Len(q) < limit}
        found   == DetectOverlap(trie, p, limit)
    IN  \/ shorter = {} /\ found.mask = 0 /\ found.nhi = NULL
        \/ \E q \in shorter :
             /\ \A r \in shorter : Len(r) <= Len(q)
             /\ found.mask = Len(q)
             /\ found.nhi = trie.inl[q]

=============================================================================
