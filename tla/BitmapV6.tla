------------------------------ MODULE BitmapV6 ------------------------------
(***************************************************************************)
(* The functions of lib/bitmap_v6.c one turn of their loops at a time, on  *)
(* addresses of two words: every turn copies the address, shifts the copy  *)
(* right for the bits of this node, and shifts the address left for the    *)
(* next.  The trie is that of module BitmapTrie, whose operators say what  *)
(* each function has to come to.                                           *)
(*                                                                         *)
(* A node is named by the bits that lead to it.  These names are found the *)
(* way the code finds its nodes, from the words: nothing but the result of *)
(* the shifts tells which child is taken or which rule is meant.           *)
(***************************************************************************)
EXTENDS BitmapTrie, AddressV6

CONSTANTS
  Inputs,         \* the prefixes callers insert
  Keys            \* the addresses callers look up

ASSUME InputsAssumption == Inputs \subseteq Prefix /\ Keys \subseteq Address
ASSUME LengthV6Assumption == LENGTH = 2 * WORD
\* A stride fits a uint8_t and a word.
ASSUME StrideV6Assumption == STRIDE <= 8 /\ STRIDE <= WORD

VARIABLES
  trie,          \* the trie
  call,          \* the function that runs, its arguments, and where it is
  node,          \* the local variables: the node the loop has come to,
  ip,            \* what is left of the address,
  cidr,          \* what is left of the prefix length, or of `limit',
  longest,       \* the rule found, as the prefix it stands for, or NULL,
  travel_depth,  \* the index of the last node noted in lazy_mark,
  lazy_mark,     \* the static array of the lazy search
  ret            \* the value returned, where it is a number

vars == <<trie, call, node, ip, cidr, longest, travel_depth, lazy_mark, ret>>
walk == <<node, ip, cidr>>

\* LEVEL_v6 and UPDATE_LEVEL_v6: the entries of lazy_mark and of the trace of
\* bitmapv6_delete_prefix.
LEVEL == LENGTH \div STRIDE + 1

Fun == {"insert", "delete", "exist", "overlap", "search", "lazy"}
Pc == {"descend", "ascend", "done"}
Call == [fun : Fun, pc : Pc, p : Inputs \cup Keys, nhi : NHI \cup {NULL},
         bits_limit : 0 .. LENGTH]
NoCall == [fun |-> "none", pc |-> "done", p |-> <<>>, nhi |-> NULL,
           bits_limit |-> 0]

NoMark == [lazy_p |-> NULL, stride |-> 0]
Mark == [lazy_p : Prefix \cup {NULL}, stride : 0 .. Pow2[STRIDE] - 1]

TypeOK ==
  /\ IsTrie(trie)
  /\ call \in Call \cup {NoCall}
  /\ node \in Prefix
  /\ ip \in ip_v6
  /\ cidr \in Int
  /\ longest \in Prefix \cup {NULL}
  /\ travel_depth \in -1 .. LENGTH
  /\ lazy_mark \in [0 .. LEVEL - 1 -> Mark]
  /\ ret \in 0 .. LENGTH

Init ==
  /\ trie = EmptyTrie
  /\ call = NoCall
  /\ node = <<>> /\ ip = WordsOf(<<>>) /\ cidr = 0
  /\ longest = NULL
  /\ travel_depth = -1
  /\ lazy_mark = [d \in 0 .. LEVEL - 1 |-> NoMark]
  /\ ret = 0

-----------------------------------------------------------------------------
\* A call, while no other runs.  Callers pass ip with zeros below cidr.
Start(fun, p, nhi, bits_limit) ==
  /\ call = NoCall
  /\ call' = [fun |-> fun, pc |-> "descend", p |-> p, nhi |-> nhi,
              bits_limit |-> bits_limit]
  /\ node' = <<>>
  /\ ip' = WordsOf(p)
  /\ cidr' = IF fun = "overlap" THEN SmallerOf(Len(p), bits_limit) ELSE Len(p)
  /\ longest' = NULL
  /\ travel_depth' = -1
  /\ ret' = 0
  /\ UNCHANGED <<trie, lazy_mark>>

\* The function returns to its caller.
Return ==
  /\ call # NoCall /\ call.pc = "done"
  /\ call' = NoCall
  /\ node' = <<>> /\ ip' = WordsOf(<<>>) /\ cidr' = 0
  /\ longest' = NULL
  /\ travel_depth' = -1
  /\ ret' = 0
  /\ UNCHANGED <<trie, lazy_mark>>

\* bitmapv6_destroy_trie; destroy_subtrie is in module TrieHeap.
DestroyTrie ==
  /\ call = NoCall
  /\ trie' = EmptyTrie
  /\ UNCHANGED <<call, walk, longest, travel_depth, lazy_mark, ret>>

Goto(pc) == call' = [call EXCEPT !.pc = pc]

\* iptmp = ip; rshift_ipv6(&iptmp, LENGTH_v6 - bits); stride = iptmp.iplo, a
\* uint8_t.
Strides(bits) ==
  {iptmp.iplo % Pow2[8] : iptmp \in rshift_ipv6(ip, LENGTH - bits)}

\* The rule that bit count_inl_bitmap(stride, bits) of internal stands for: it
\* is one of another length where stride has more than `bits' bits.
RuleAt(at, stride, bits) ==
  at \o (CHOOSE q \in UNION {BitStrings(n) : n \in 0 .. 7} :
           Pow2[Len(q)] + Value(q) = Pow2[bits] + stride)

\* next_child, and the test of its bit of external.
ChildAt(at, stride) == at \o BitsOf(stride, STRIDE)
HasChild(at, stride) == ChildAt(at, stride) \in trie.enl

\* The longest rule of the node with less than `limit' bits that matches:
\* tree_function, where limit is STRIDE, and find_overlap_in_node.
RuleInNode(at, stride, limit) ==
  LET found == {m \in 0 .. limit - 1 :
                  at \o Take(BitsOf(stride, STRIDE), m) \in DOMAIN trie.inl}
  IN  IF found = {} THEN NULL ELSE at \o Take(BitsOf(stride, STRIDE), Max(found))

\* node = next_child(...), cidr -= STRIDE, lshift_ipv6(&ip, STRIDE).
Descend(stride) ==
  /\ node' = ChildAt(node, stride)
  /\ ip' \in lshift_ipv6(ip, STRIDE)
  /\ cidr' = cidr - STRIDE

Running(fun, pc) == call.fun = fun /\ call.pc = pc

-----------------------------------------------------------------------------
\* bitmapv6_insert_prefix.  The last turn replaces the next hop or calls
\* extend_rule; the others go to the child, after extend_child if need be.
InsertRule ==
  /\ Running("insert", "descend")
  /\ cidr < STRIDE
  /\ \E stride \in Strides(cidr) :
       LET rule == RuleAt(node, stride, cidr)
       IN  /\ trie' = [trie EXCEPT !.inl = Put(@, rule, call.nhi)]
           /\ ret' = IF rule \in DOMAIN trie.inl THEN 1 ELSE 0
  /\ Goto("done")
  /\ UNCHANGED <<walk, longest, travel_depth, lazy_mark>>

InsertDescend ==
  /\ Running("insert", "descend")
  /\ cidr >= STRIDE
  /\ \E stride \in Strides(STRIDE) :
       /\ trie' = [trie EXCEPT !.enl = @ \cup {ChildAt(node, stride)}]
       /\ Descend(stride)
  /\ UNCHANGED <<call, longest, travel_depth, lazy_mark, ret>>

\* Mutant: update_nodes leaves the emptied nodes in place.
DeleteRuleAlone ==
  /\ Running("delete", "descend")
  /\ cidr < STRIDE
  /\ \E stride \in Strides(cidr) :
       LET del == DeletePrefix(trie, RuleAt(node, stride, cidr))
       IN  /\ trie' = [trie EXCEPT !.inl = del.trie.inl]
           /\ ret' = IF del.empty THEN 1 ELSE 0
  /\ Goto("done")
  /\ UNCHANGED <<walk, longest, travel_depth, lazy_mark>>

\* bitmapv6_delete_prefix.  The nodes it has passed are in trace_node, and
\* update_nodes goes back up along them.
DeleteRule ==
  /\ Running("delete", "descend")
  /\ cidr < STRIDE
  /\ \E stride \in Strides(cidr) :
       LET del == DeletePrefix(trie, RuleAt(node, stride, cidr))
       IN  /\ trie' = del.trie
           /\ ret' = IF del.empty THEN 1 ELSE 0
  /\ Goto("done")
  /\ UNCHANGED <<walk, longest, travel_depth, lazy_mark>>

DeleteDescend ==
  /\ Running("delete", "descend")
  /\ cidr >= STRIDE
  /\ \E stride \in Strides(STRIDE) : Descend(stride)
  /\ UNCHANGED <<trie, call, longest, travel_depth, lazy_mark, ret>>

\* bitmapv6_prefix_exist: bitmapv6_traverse_branch with prefix_exist_func.
ExistRule ==
  /\ Running("exist", "descend")
  /\ cidr < STRIDE
  /\ \E stride \in Strides(cidr) :
       ret' = IF RuleAt(node, stride, cidr) \in DOMAIN trie.inl THEN 1 ELSE 0
  /\ Goto("done")
  /\ UNCHANGED <<trie, walk, longest, travel_depth, lazy_mark>>

ExistDescend ==
  /\ Running("exist", "descend")
  /\ cidr >= STRIDE
  /\ \E stride \in Strides(STRIDE) :
       IF HasChild(node, stride)
       THEN Descend(stride) /\ UNCHANGED call
       ELSE Goto("done") /\ UNCHANGED walk
  /\ UNCHANGED <<trie, longest, travel_depth, lazy_mark, ret>>

-----------------------------------------------------------------------------
\* bitmapv6_do_search
SearchTurn ==
  /\ Running("search", "descend")
  /\ \E stride \in Strides(STRIDE) :
       LET rule == RuleInNode(node, stride, STRIDE)
       IN  /\ longest' = IF rule # NULL THEN rule ELSE longest
           /\ IF HasChild(node, stride)
              THEN Descend(stride) /\ UNCHANGED call
              ELSE Goto("done") /\ UNCHANGED walk
  /\ UNCHANGED <<trie, travel_depth, lazy_mark, ret>>

\* One turn of the while loop of bitmapv6_detect_overlap_generic; cidr is its
\* `limit', and step * STRIDE the bits that lead to the node.
OverlapTurn ==
  /\ Running("overlap", "descend")
  /\ cidr > 0
  /\ \E stride \in Strides(STRIDE) :
       LET rule      == RuleInNode(node, stride, SmallerOf(cidr, STRIDE))
           org_limit == SmallerOf(Len(call.p), call.bits_limit)
       IN  /\ IF rule # NULL /\ Len(rule) < org_limit
              THEN ret' = Len(rule) /\ longest' = rule
              ELSE UNCHANGED <<ret, longest>>
           /\ IF HasChild(node, stride)
              THEN Descend(stride) /\ UNCHANGED call
              ELSE Goto("done") /\ UNCHANGED walk
  /\ UNCHANGED <<trie, travel_depth, lazy_mark>>

OverlapEnd ==
  /\ Running("overlap", "descend")
  /\ cidr <= 0
  /\ Goto("done")
  /\ UNCHANGED <<trie, walk, longest, travel_depth, lazy_mark, ret>>

\* bitmapv6_do_search_lazy goes down first, noting the nodes it leaves; the
\* last one is tried at once.
LazyDescend ==
  /\ Running("lazy", "descend")
  /\ \E stride \in Strides(STRIDE) :
       IF HasChild(node, stride)
       THEN /\ travel_depth' = travel_depth + 1
            /\ lazy_mark' = [lazy_mark EXCEPT ![travel_depth'] =
                               [lazy_p |-> node, stride |-> stride]]
            /\ Descend(stride)
            /\ UNCHANGED <<call, longest>>
       ELSE /\ longest' = RuleInNode(node, stride, STRIDE)
            /\ Goto(IF longest' # NULL THEN "done" ELSE "ascend")
            /\ UNCHANGED <<walk, travel_depth, lazy_mark>>
  /\ UNCHANGED <<trie, ret>>

\* Mutant: the index is not counted down.
LazyAscendForEver ==
  /\ Running("lazy", "ascend")
  /\ IF travel_depth >= 0
     THEN LET mark == lazy_mark[travel_depth]
          IN  /\ longest' = RuleInNode(mark.lazy_p, mark.stride, STRIDE)
              /\ Goto(IF longest' # NULL THEN "done" ELSE "ascend")
              /\ UNCHANGED travel_depth
     ELSE Goto("done") /\ UNCHANGED <<longest, travel_depth>>
  /\ UNCHANGED <<trie, walk, lazy_mark, ret>>

\* Mutant: the stride of the node searched last is used for the nodes above.
LazyAscendWithLastStride ==
  /\ Running("lazy", "ascend")
  /\ IF travel_depth >= 0
     THEN \E stride \in Strides(STRIDE) :
            /\ longest' = RuleInNode(lazy_mark[travel_depth].lazy_p, stride, STRIDE)
            /\ travel_depth' = travel_depth - 1
            /\ Goto(IF longest' # NULL THEN "done" ELSE "ascend")
     ELSE Goto("done") /\ UNCHANGED <<longest, travel_depth>>
  /\ UNCHANGED <<trie, walk, lazy_mark, ret>>

\* Then it goes back up until a node has a rule for the address.
LazyAscend ==
  /\ Running("lazy", "ascend")
  /\ IF travel_depth >= 0
     THEN LET mark == lazy_mark[travel_depth]
          IN  /\ longest' = RuleInNode(mark.lazy_p, mark.stride, STRIDE)
              /\ travel_depth' = travel_depth - 1
              /\ Goto(IF longest' # NULL THEN "done" ELSE "ascend")
     ELSE Goto("done") /\ UNCHANGED <<longest, travel_depth>>
  /\ UNCHANGED <<trie, walk, lazy_mark, ret>>

-----------------------------------------------------------------------------
Turn ==
  \/ InsertRule \/ InsertDescend
  \/ DeleteRule \/ DeleteDescend
  \/ ExistRule \/ ExistDescend
  \/ SearchTurn
  \/ OverlapTurn \/ OverlapEnd
  \/ LazyDescend \/ LazyAscend
  \/ Return

\* A caller deletes what bitmapv6_prefix_exist has found.
Next ==
  \/ \E p \in Inputs, nhi \in NHI : Start("insert", p, nhi, 0)
  \/ \E p \in Inputs : PrefixExist(trie, p) /\ Start("delete", p, NULL, 0)
  \/ \E p \in Inputs : Start("exist", p, NULL, 0)
  \/ \E p \in Inputs, limit \in 0 .. LENGTH : Start("overlap", p, NULL, limit)
  \/ \E a \in Keys, fun \in {"search", "lazy"} : Start(fun, a, NULL, 0)
  \/ DestroyTrie
  \/ Turn

\* A call is a loop of its caller's thread: it goes on as long as it can.
Spec == Init /\ [][Next]_vars /\ WF_vars(Turn)

-----------------------------------------------------------------------------
\* "1~127" (lib/bitmap_v6.c:11): by every number of bits in that range a shift
\* in two halves is a shift of the whole address, with no undefined outcome.
ShiftsAreExact ==
  LET bits == BitsOf(ip.iphi, WORD) \o BitsOf(ip.iplo, WORD)
      Zeros(k) == [j \in 1 .. k |-> 0]
  IN  \A k \in 1 .. LENGTH - 1 :
        /\ lshift_ipv6(ip, k) = {WordsOf(Drop(bits, k))}
        /\ rshift_ipv6(ip, k) = {WordsOf(Zeros(k) \o Take(bits, LENGTH - k))}

\* In every turn the words hold the bits of the argument that the node has not
\* consumed, and the node is on the argument's path: also for a prefix of length
\* 0 left in the last node, where the shift by the whole length is undefined but
\* has nothing but zeros to move, and where bitmapv6_detect_overlap_generic goes
\* on with the zeros behind a prefix.  No path leaves the arrays of LEVEL entries.
WalkFollowsArgument ==
  call # NoCall =>
    /\ Covers(node, IpOf(call.p))
    /\ ip = WordsOf(Drop(IpOf(call.p), Len(node)))
    /\ Len(node) \div STRIDE < LEVEL /\ travel_depth < LEVEL

\* What a function returns is what the trie holds: the searches the longest
\* match, whatever an earlier search has left in lazy_mark; the overlap the
\* longest rule that is shorter than both limits; prefix_exist whether the
\* prefix is a rule.
Answer == IF longest = NULL THEN NULL ELSE trie.inl[longest]

ReturnsAreRight ==
  call.pc = "done" =>
    /\ call.fun \in {"search", "lazy"} => Answer = LongestMatch(trie.inl, call.p)
    /\ call.fun = "overlap" =>
         LET over == DetectOverlap(trie, call.p, call.bits_limit)
         IN  ret = over.mask /\ (over.mask # 0 => Answer = over.nhi)
    /\ call.fun = "exist" => (ret = 1 <=> call.p \in DOMAIN trie.inl)

\* An update ends by changing its own rule and no other; while a function runs
\* nothing else changes a rule, and no search changes one at all.  It returns
\* whether the rule was there before, or whether the trie is empty now, and
\* leaves exactly the nodes that the rules need.
UpdatesItsRule ==
  [][IF call.fun \in {"insert", "delete"} /\ call.pc = "descend" /\ call'.pc = "done"
     THEN /\ \/ /\ call.fun = "insert"
                /\ trie'.inl = Put(trie.inl, call.p, call.nhi)
                /\ ret' = 1 <=> call.p \in DOMAIN trie.inl
             \/ /\ call.fun = "delete"
                /\ trie'.inl = Remove(trie.inl, call.p)
                /\ ret' = 1 <=> DOMAIN trie'.inl = {}
          /\ trie'.enl = UNION {Branch(p) : p \in DOMAIN trie'.inl}
     ELSE call # NoCall => trie'.inl = trie.inl]_vars

\* Every call returns.
CallsReturn == call # NoCall ~> call = NoCall

=============================================================================
