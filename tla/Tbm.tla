-------------------------------- MODULE Tbm --------------------------------
(***************************************************************************)
(* The lookup table of tbm/tbmv4.c: an initial array indexed by the        *)
(* leading INITIAL_BITS bits of an address, whose entries are a next hop   *)
(* or a trie for the remaining bits, and an auxiliary trie up_aux with     *)
(* every route.  tbm/tbmv6.c inserts and deletes by the same text; module  *)
(* TbmV6 has what differs.                                                 *)
(*                                                                         *)
(* A route of at most INITIAL_BITS bits is expanded to all the entries it  *)
(* covers, each entry keeping the longest such route; a longer one goes    *)
(* into the trie of its single entry.  Deleting a short route uncovers the *)
(* next longest one, which only up_aux still remembers.                    *)
(***************************************************************************)
EXTENDS BitmapTrie

CONSTANTS
  INITIAL_BITS,   \* 13 for both IPv4 and IPv6
  Inputs,         \* the prefixes callers insert: any but the empty one
  Batches,        \* the address lists they pass to tbm_search_batch
  DestroyNhi      \* callers hand their next hops over: every route has one of
                  \* its own, and tbm_delete_prefix gets a destroy_nhi

ASSUME InitialBitsAssumption == INITIAL_BITS \in 1 .. LENGTH - 1
ASSUME InputsAssumption == Inputs \subseteq Prefix \ {<<>>}
ASSUME BatchesAssumption == Batches \subseteq Seq(Address)
ASSUME DestroyNhiAssumption == DestroyNhi \in BOOLEAN

VARIABLES
  up,       \* trie->init points to a table
  init,     \* that table
  up_aux,   \* the auxiliary trie
  calls     \* how often the last operation called destroy_nhi on a next hop

vars == <<up, init, up_aux, calls>>

-----------------------------------------------------------------------------
\* The indices of trie->init, and those a prefix of cidr <= INITIAL_BITS
\* expands to: index + i for i < 1 << (INITIAL_BITS - cidr), in that order.
Slot == BitStrings(INITIAL_BITS)
SlotsOf(p) == {s \in Slot : Covers(p, s)}
SlotAt(a) == Take(a, INITIAL_BITS)

SlotBefore(s, r) ==
  \E k \in 1 .. INITIAL_BITS :
    /\ s[k] < r[k]
    /\ \A j \in 1 .. k - 1 : s[j] = r[j]

(***************************************************************************)
(* struct init_node.  `hi' is flags >> PREFIX_HI, `child' is the flag      *)
(* INIT_HAS_A_CHILD.  In the union, e.ptr and the external bitmap of       *)
(* e.node are one word: it is `ptr' in an entry without a child, and       *)
(* node.enl otherwise.                                                     *)
(***************************************************************************)
IsEntry(e) ==
  /\ e = [hi |-> e.hi, child |-> e.child, ptr |-> e.ptr, node |-> e.node]
  /\ e.hi \in 0 .. INITIAL_BITS
  /\ e.child \in BOOLEAN
  /\ e.ptr \in NHI \cup {NULL}
  /\ IsTrie(e.node)

NoEntry == [hi |-> 0, child |-> FALSE, ptr |-> NULL, node |-> EmptyTrie]

\* e.ptr = nhi, which overwrites the bits of e.node.external.
SetPtr(e, nhi) == [e EXCEPT !.ptr = nhi, !.node.enl = {}]

\* e.node as the trie functions find it: a pointer left in the union is read
\* as a bitmap full of children that do not exist.
NodeIn(e) ==
  IF e.ptr = NULL THEN e.node ELSE [e.node EXCEPT !.enl = Prefix]

\* e.node after an insertion, and the flags that go with it.
SetNode(e, hi, node) ==
  [hi |-> hi, child |-> TRUE, ptr |-> NULL, node |-> node]

TypeOK ==
  /\ up \in BOOLEAN
  /\ init = [s \in Slot |-> init[s]]
  /\ \A s \in Slot : IsEntry(init[s])
  /\ IsTrie(up_aux)
  /\ calls \in [NHI \cup {NULL} -> Nat]

-----------------------------------------------------------------------------
NoCalls == [n \in NHI \cup {NULL} |-> 0]
CallOnce(nhi) == [NoCalls EXCEPT ![nhi] = 1]

Init ==
  /\ up = FALSE
  /\ init = [s \in Slot |-> NoEntry]
  /\ up_aux = EmptyTrie
  /\ calls = NoCalls

\* tbm_init_trie, on a trie that is not in use.
InitTrie ==
  /\ ~ up
  /\ up' = TRUE
  /\ init' = [s \in Slot |-> NoEntry]
  /\ up_aux' = EmptyTrie
  /\ calls' = NoCalls

-----------------------------------------------------------------------------
\* Mutant: prefix_hi is not compared.
ExpandIntoAny(e, cidr, nhi) ==
  IF e.child
  THEN SetNode(e, cidr, InsertPrefix(NodeIn(e), <<>>, nhi))
  ELSE [SetPtr(e, nhi) EXCEPT !.hi = cidr]

\* One turn of the loop that expands a short prefix: an entry that holds a
\* longer one is left alone.
ExpandInto(e, cidr, nhi) ==
  IF e.hi > cidr THEN e
  ELSE IF e.child
  THEN SetNode(e, cidr, InsertPrefix(NodeIn(e), <<>>, nhi))
  ELSE [SetPtr(e, nhi) EXCEPT !.hi = cidr]

\* Mutant: an empty entry is taken for one with a next hop.
PushDownAlways(e) ==
  SetNode(e, e.hi, InsertPrefix(NodeIn(SetPtr(e, NULL)), <<>>, e.ptr))

\* Mutant: the next hop is not moved into the trie.
PushDownNothing(e) == SetNode(e, e.hi, NodeIn(SetPtr(e, NULL)))

\* An entry without a child becomes one that has a trie: the next hop it held
\* moves into the trie, as the rule of length 0.
PushDown(e) ==
  IF e.hi > 0
  THEN SetNode(e, e.hi, InsertPrefix(NodeIn(SetPtr(e, NULL)), <<>>, e.ptr))
  ELSE SetNode(e, e.hi, NodeIn(e))

\* A prefix longer than INITIAL_BITS, of which `rest' is left.
InsertBelow(e, rest, nhi) ==
  LET f == IF e.child THEN e ELSE PushDown(e)
  IN  SetNode(f, f.hi, InsertPrefix(NodeIn(f), rest, nhi))

InsertShort(p, nhi) ==
  /\ Len(p) <= INITIAL_BITS
  /\ init' = [s \in Slot |->
                IF s \in SlotsOf(p) THEN ExpandInto(init[s], Len(p), nhi)
                ELSE init[s]]

InsertLong(p, nhi) ==
  /\ Len(p) > INITIAL_BITS
  /\ init' = [init EXCEPT ![SlotAt(p)] =
                InsertBelow(@, Drop(p, INITIAL_BITS), nhi)]

\* tbm_insert_prefix.  A caller that hands its next hops over does not store
\* one of them twice.
Insert(p, nhi) ==
  /\ up
  /\ Len(p) > 0
  /\ DestroyNhi => nhi \notin NextHops(up_aux.inl)
  /\ InsertShort(p, nhi) \/ InsertLong(p, nhi)
  /\ up_aux' = InsertPrefix(up_aux, p, nhi)
  /\ calls' = NoCalls
  /\ UNCHANGED up

-----------------------------------------------------------------------------
\* The next hop an entry holds for the short prefixes that cover it.
NhiOf(e) == IF e.child THEN NodeIn(e).inl[<<>>] ELSE e.ptr

\* Mutant: the flags are not written.
UncoverKeepingHi(e, cidr, near) ==
  IF e.hi > cidr THEN e
  ELSE IF ~ e.child THEN SetPtr(e, near.nhi)
  ELSE IF near.mask > 0
  THEN SetNode(e, e.hi, [NodeIn(e) EXCEPT !.inl[<<>>] = near.nhi])
  ELSE SetNode(e, e.hi, DeletePrefix(NodeIn(e), <<>>).trie)

\* Mutant: prefix_hi is not compared.
UncoverIgnoringLonger(e, cidr, near) ==
  IF ~ e.child
  THEN [SetPtr(e, near.nhi) EXCEPT !.hi = near.mask]
  ELSE SetNode(e, near.mask, [NodeIn(e) EXCEPT !.inl[<<>>] = near.nhi])

\* One turn of the loop that takes a short prefix of length cidr away and puts
\* the one that covers it, near, in its place.
Uncover(e, cidr, near) ==
  IF e.hi > cidr THEN e
  ELSE IF ~ e.child
  THEN [SetPtr(e, near.nhi) EXCEPT !.hi = near.mask]
  ELSE IF near.mask > 0
  THEN SetNode(e, near.mask, [NodeIn(e) EXCEPT !.inl[<<>>] = near.nhi])
  ELSE LET del == DeletePrefix(NodeIn(e), <<>>)
           f   == SetNode(e, 0, del.trie)
       IN  IF del.empty THEN [SetPtr(f, NULL) EXCEPT !.child = FALSE] ELSE f

\* The entries the loop does not skip: destroy_nhi is cleared after the first.
Uncovered(p) == {s \in SlotsOf(p) : ~ init[s].hi > Len(p)}

\* Mutant: destroy_nhi is not cleared after the first entry.
DestroyShortEverywhere(p) ==
  calls' = [NoCalls EXCEPT ![up_aux.inl[p]] = Cardinality(Uncovered(p))]

\* The one call of destroy_nhi, for the next hop of the lowest of them.
DestroyShort(p) ==
  \/ /\ DestroyNhi
     /\ \E s \in Uncovered(p) :
          /\ \A r \in Uncovered(p) \ {s} : SlotBefore(s, r)
          /\ calls' = CallOnce(NhiOf(init[s]))
  \/ /\ ~ DestroyNhi \/ Uncovered(p) = {}
     /\ calls' = NoCalls

DeleteShort(p) ==
  LET near == DetectOverlap(up_aux, p, INITIAL_BITS)
  IN  /\ Len(p) <= INITIAL_BITS
      /\ init' = [s \in Slot |->
                    IF s \in SlotsOf(p) THEN Uncover(init[s], Len(p), near)
                    ELSE init[s]]
      /\ DestroyShort(p)

\* Mutant: the result of bitmap_delete_prefix is ignored.
DeleteBelowDropsTrie(e, rest, near) ==
  [e EXCEPT !.ptr = near.nhi, !.hi = near.mask, !.child = FALSE,
            !.node = EmptyTrie]

\* A prefix longer than INITIAL_BITS, of which `rest' is left, goes from the
\* trie of its entry; an entry whose trie empties falls back to near.
DeleteBelow(e, rest, near) ==
  LET del == DeletePrefix(NodeIn(e), rest)
      f   == SetNode(e, e.hi, del.trie)
  IN  IF del.empty
      THEN [SetPtr(f, near.nhi) EXCEPT !.hi = near.mask, !.child = FALSE]
      ELSE f

DeleteLong(p) ==
  LET s    == SlotAt(p)
      rest == Drop(p, INITIAL_BITS)
      near == DetectOverlap(up_aux, p, INITIAL_BITS)
  IN  /\ Len(p) > INITIAL_BITS
      /\ IF init[s].child
         THEN /\ init' = [init EXCEPT ![s] = DeleteBelow(@, rest, near)]
              /\ calls' = IF DestroyNhi
                          THEN CallOnce(NodeIn(init[s]).inl[rest])
                          ELSE NoCalls
         ELSE /\ calls' = NoCalls
              /\ UNCHANGED init

\* tbm_delete_prefix.  The code requires the prefix to be in the table, which
\* callers find out with tbm_prefix_exist.
Delete(p) ==
  /\ up
  /\ Len(p) > 0
  /\ PrefixExist(up_aux, p)
  /\ DeleteShort(p) \/ DeleteLong(p)
  /\ up_aux' = DeletePrefix(up_aux, p).trie
  /\ UNCHANGED up

-----------------------------------------------------------------------------
\* tbm_destroy_trie: destroy_nhi goes to up_aux alone, the tries below the
\* entries are freed without it, and so is the table.
Destroy ==
  /\ up
  /\ up' = FALSE
  /\ init' = [s \in Slot |-> NoEntry]
  /\ up_aux' = EmptyTrie
  /\ calls' = [n \in NHI \cup {NULL} |->
                 IF DestroyNhi
                 THEN Cardinality({p \in DOMAIN up_aux.inl :
                                     up_aux.inl[p] = n /\ n # NULL})
                 ELSE 0]

Next ==
  \/ InitTrie
  \/ \E p \in Inputs, nhi \in NHI : Insert(p, nhi)
  \/ \E p \in Inputs : Delete(p)
  \/ Destroy

Spec == Init /\ [][Next]_vars

-----------------------------------------------------------------------------
\* tbm_search
TbmSearch(a) ==
  LET e == init[SlotAt(a)]
  IN  IF e.child THEN Search(NodeIn(e), Drop(a, INITIAL_BITS)) ELSE e.ptr

HasChild(ip, i) == init[SlotAt(ip[i])].child

\* The loop of tbm_search_batch that packs the addresses whose entry has a child
\* into mb: their positions in the caller's batch, after n turns.
Packed(ip, n) ==
  LET mb[i \in Nat] ==
        IF i = 0 THEN <<>>
        ELSE IF HasChild(ip, i) THEN Append(mb[i - 1], i) ELSE mb[i - 1]
  IN  mb[n]

\* bitmap_do_search_lazy_batch, for the addresses that are packed.
SearchPacked(ip, mb) ==
  [j \in DOMAIN mb |->
     Search(NodeIn(init[SlotAt(ip[mb[j]])]), Drop(ip[mb[j]], INITIAL_BITS))]

\* Mutant: results are taken by the position in the caller's batch.
TbmSearchBatchUnpacked(ip) ==
  LET mb_ret == SearchPacked(ip, Packed(ip, Len(ip)))
  IN  [i \in DOMAIN ip |->
         IF HasChild(ip, i) /\ i \in DOMAIN mb_ret THEN mb_ret[i]
         ELSE init[SlotAt(ip[i])].ptr]

\* tbm_search_batch: the results are dealt out again in the same order.
TbmSearchBatch(ip) ==
  LET mb_ret == SearchPacked(ip, Packed(ip, Len(ip)))
  IN  [i \in DOMAIN ip |->
         IF HasChild(ip, i)
         THEN mb_ret[Cardinality({k \in 1 .. i : HasChild(ip, k)})]
         ELSE init[SlotAt(ip[i])].ptr]

\* tbm_prefix_exist
TbmPrefixExist(p) == PrefixExist(up_aux, p)

-----------------------------------------------------------------------------
\* The routes of the table, short ones (which are expanded) and long ones.
Routes == up_aux.inl
ShortCovers(s) == {n \in 1 .. INITIAL_BITS : Take(s, n) \in DOMAIN Routes}
LongRoutes(s) ==
  {p \in DOMAIN Routes : Len(p) > INITIAL_BITS /\ SlotAt(p) = s}

\* tbm_prefix_exist finds exactly the routes that were inserted and not deleted,
\* which is what callers rely on before they delete.
ExistIsMembership ==
  \A p \in Prefix : TbmPrefixExist(p) <=> p \in DOMAIN Routes

\* Every lookup returns the next hop of the longest route that matches.
LookupIsLongestMatch ==
  up => \A a \in Address : TbmSearch(a) = LongestMatch(Routes, a)

\* A batch answers each of its addresses like a search for it alone, however
\* entries with and without a child are mixed in it.
BatchMatchesSearch ==
  up => \A ip \in Batches :
          TbmSearchBatch(ip) = [i \in DOMAIN ip |-> TbmSearch(ip[i])]

\* prefix_hi and the next hop of an entry are those of the longest short route
\* that covers it, whatever the order routes came and went in; without one the
\* entry holds no next hop of its own.
EntryHoldsBestShort ==
  \A s \in Slot :
    LET e    == init[s]
        lens == ShortCovers(s)
    IN  IF lens = {}
        THEN e.hi = 0 /\ e.ptr = NULL /\ <<>> \notin DOMAIN e.node.inl
        ELSE e.hi = Max(lens) /\ NhiOf(e) = Routes[Take(s, Max(lens))]

\* The trie of an entry holds exactly the long routes that go through it, with
\* the next hops up_aux has for them, and besides them the rule of length 0.
\* It stays until both kinds are gone.
EntryMirrorsLong ==
  \A s \in Slot :
    /\ LongRoutes(s) # {} => init[s].child
    /\ init[s].child => DOMAIN init[s].node.inl # {}
    /\ \A p \in LongRoutes(s) :
         LET rest == Drop(p, INITIAL_BITS)
         IN  /\ PrefixExist(NodeIn(init[s]), rest)
             /\ NodeIn(init[s]).inl[rest] = Routes[p]
    /\ \A q \in DOMAIN init[s].node.inl \ {<<>>} :
         s \o q \in LongRoutes(s)

\* The union of an entry is used as one thing at a time: an entry without a
\* child leaves no rule and no node behind, one with a child has no pointer
\* bits in its external bitmap, and prefix_hi tells whether it has a next hop.
EntryDiscipline ==
  \A s \in Slot :
    LET e == init[s]
    IN  /\ e.child => e.ptr = NULL /\ (e.hi > 0 <=> <<>> \in DOMAIN e.node.inl)
        /\ ~ e.child => e.node = EmptyTrie /\ (e.hi > 0 <=> e.ptr # NULL)

\* No node is left without a rule at or below it (update_nodes unlinks every
\* node that empties), and no rule is cut off from the root.
Pruned(t) ==
  /\ \A c \in t.enl : \E p \in DOMAIN t.inl : c \in Branch(p)
  /\ \A p \in DOMAIN t.inl : Branch(p) \subseteq t.enl

TriesArePruned ==
  /\ Pruned(up_aux)
  /\ \A s \in Slot : init[s].child => Pruned(NodeIn(init[s]))

\* No lookup can return a next hop that destroy_nhi has been given, and no
\* later operation can give it to destroy_nhi again.
StoredNhis ==
  NextHops(Routes) \cup
  UNION {NextHops(init[s].node.inl) \cup {init[s].ptr} : s \in Slot}

NoDestroyedNhiIsStored == \A n \in StoredNhis : calls[n] = 0

\* destroy_nhi is called at most once on a next hop, and only by the operation
\* that takes its route out of the table.
DestroyedOnce ==
  [][\A n \in NHI \cup {NULL} :
       calls'[n] > 0 =>
         /\ calls'[n] = 1
         /\ n \in NextHops(Routes) \ NextHops(Routes')]_vars

\* "we only delete the nhi once" (tbm/tbmv4.c:226, 238): deleting a route
\* destroys its next hop.
DeleteDestroysNhi ==
  [][\A p \in Inputs :
       DestroyNhi /\ p \in DOMAIN Routes /\ Delete(p)
         => calls'[Routes[p]] = 1]_vars

\* When a long route leaves an entry without a child, no short route covers
\* the entry: its rule of length 0 would have kept the trie from emptying, so
\* the fallback of tbm/tbmv4.c:291-295 is never needed.
EmptiedEntryIsUncovered ==
  [][\A s \in Slot :
       init[s].child /\ ~ init'[s].child => init'[s].hi = 0]_vars

\* The table implements RouteTable: up_aux is its dictionary of routes and
\* tbm_search makes its forwarding decisions; how entries are expanded, turned
\* into tries and uncovered again cannot be told from outside.
TbmTable ==
  INSTANCE RouteTable WITH
    routes <- Routes,
    fib    <- [a \in Address |-> IF up THEN TbmSearch(a) ELSE NULL]

ImplementsRouteTable == TbmTable!Spec

=============================================================================
