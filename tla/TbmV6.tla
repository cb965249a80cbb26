------------------------------- MODULE TbmV6 -------------------------------
(***************************************************************************)
(* The IPv6 table of tbm/tbmv6.c.  Its entries and tries are those of Tbm. *)
(* Its functions take an address of 128 bits from which they cut the index *)
(* of an entry and the bits for the trie below by shifts of a copy, and    *)
(* module TbmProofs shows that its updates are those of IPv4 for it.       *)
(* The search and the destruction of a table are not the same.             *)
(***************************************************************************)
EXTENDS Tbm

-----------------------------------------------------------------------------
\* rshift_ipv6 and lshift_ipv6, in place, on a word of all the address bits.
\* Module AddressV6 has the shifts of the two halves.
rshift_ipv6(ip, bits) ==
  [k \in DOMAIN ip |-> IF k <= bits THEN 0 ELSE ip[k - bits]]
lshift_ipv6(ip, bits) ==
  [k \in DOMAIN ip |-> IF k + bits <= Len(ip) THEN ip[k + bits] ELSE 0]

\* iptmp = ip; rshift_ipv6(&iptmp, ...); index = iptmp.iplo, and the entries
\* index + i for i < 1 << (INITIAL_BITS - cidr), whose leading bits are those of
\* the index.
Index(ip) ==
  Drop(rshift_ipv6(ip, LENGTH - INITIAL_BITS), LENGTH - INITIAL_BITS)
Expanded(ip, cidr) == {s \in Slot : Take(s, cidr) = Take(Index(ip), cidr)}

\* iptmp = ip; lshift_ipv6(&iptmp, INITIAL_BITS): the cidr - INITIAL_BITS bits
\* that are handed on.
Rest(ip, cidr) == Take(lshift_ipv6(ip, INITIAL_BITS), cidr - INITIAL_BITS)

\* tbmv6_insert_prefix
InsertV6(p, nhi) ==
  LET ip == IpOf(p)
  IN  /\ up
      /\ Len(p) > 0
      /\ DestroyNhi => nhi \notin NextHops(up_aux.inl)
      /\ \/ /\ Len(p) <= INITIAL_BITS
            /\ init' = [s \in Slot |->
                          IF s \in Expanded(ip, Len(p))
                          THEN ExpandInto(init[s], Len(p), nhi)
                          ELSE init[s]]
         \/ /\ Len(p) > INITIAL_BITS
            /\ init' = [init EXCEPT ![Index(ip)] =
                          InsertBelow(@, Rest(ip, Len(p)), nhi)]
      /\ up_aux' = InsertPrefix(up_aux, p, nhi)
      /\ calls' = NoCalls
      /\ UNCHANGED up

-----------------------------------------------------------------------------
\* tbmv6_delete_prefix of a short prefix; what the turns of the loop do to an
\* entry and to destroy_nhi is the same as for IPv4.
DeleteShortV6(p) ==
  LET near == DetectOverlap(up_aux, p, INITIAL_BITS)
  IN  /\ Len(p) <= INITIAL_BITS
      /\ init' = [s \in Slot |->
                    IF s \in Expanded(IpOf(p), Len(p))
                    THEN Uncover(init[s], Len(p), near)
                    ELSE init[s]]
      /\ DestroyShort(p)

\* And of a long one, of which `rest' is left for the trie of its entry.
DeleteRestV6(p, rest) ==
  LET s    == Index(IpOf(p))
      near == DetectOverlap(up_aux, p, INITIAL_BITS)
  IN  /\ Len(p) > INITIAL_BITS
      /\ \/ /\ init[s].child
            /\ init' = [init EXCEPT ![s] = DeleteBelow(@, rest, near)]
            /\ calls' = IF DestroyNhi
                        THEN CallOnce(NodeIn(init[s]).inl[rest])
                        ELSE NoCalls
         \/ /\ ~ init[s].child
            /\ calls' = NoCalls
            /\ UNCHANGED init

\* Mutant: iptmp = ip is left out, so that the shifted copy is shifted again.
DeleteLongUncopied(p) ==
  DeleteRestV6(p, Rest(rshift_ipv6(IpOf(p), LENGTH - INITIAL_BITS), Len(p)))

DeleteLongV6(p) == DeleteRestV6(p, Rest(IpOf(p), Len(p)))

DeleteV6(p) ==
  /\ up
  /\ Len(p) > 0
  /\ PrefixExist(up_aux, p)
  /\ DeleteShortV6(p) \/ DeleteLongV6(p)
  /\ up_aux' = DeletePrefix(up_aux, p).trie
  /\ UNCHANGED up

-----------------------------------------------------------------------------
\* tbmv6_search shifts its copy of the address right to index init, and then
\* shifts that same copy left for the trie below.
Tbmv6Search(a) ==
  LET ip   == rshift_ipv6(a, LENGTH - INITIAL_BITS)
      e    == init[Drop(ip, LENGTH - INITIAL_BITS)]
      rest == lshift_ipv6(ip, INITIAL_BITS)
  IN  IF e.child
      THEN Search(NodeIn(e), Take(rest, LENGTH - INITIAL_BITS))
      ELSE e.ptr

\* The entries that tbmv6_destroy_trie hands to destroy_subtrie as nodes:
\* those with any flag.
Taken == {s \in Slot : init[s].hi > 0 \/ init[s].child}

\* tbmv6_destroy_trie.  Where an entry that is Taken holds a next hop alone,
\* destroy_subtrie reads the pointer as a bitmap of children.  What comes of it
\* is undefined: the process ends, and the table is not used again, or else the
\* function goes on and the table is gone.
DestroyV6 == Destroy

NextV6 ==
  \/ InitTrie
  \/ \E p \in Inputs, nhi \in NHI : InsertV6(p, nhi)
  \/ \E p \in Inputs : DeleteV6(p)
  \/ DestroyV6

SpecV6 == Init /\ [][NextV6]_vars

-----------------------------------------------------------------------------
\* An update of either table is the same update of the other: insertion and
\* deletion name the same entries, and the same bits in the trie of an entry,
\* although they cut them from the address in different ways.
UpdatesAreV6Updates ==
  [][\A p \in Inputs :
       /\ \A nhi \in NHI : Insert(p, nhi) <=> InsertV6(p, nhi)
       /\ Delete(p) <=> DeleteV6(p)]_vars

\* "it could be a child node and a ptr node or an empty node" (tbm/tbmv6.c:56):
\* destroy_subtrie is for child nodes, those with a trie.
DestroyTakesNodes ==
  [][up /\ ~ up' => \A s \in Taken : init[s].child]_vars

\* "It can be used for both IPv4 and IPv6 lookup" (README.md:9): every IPv6
\* lookup returns the next hop of the longest route that matches.
V6LookupIsLongestMatch ==
  up => \A a \in Address : Tbmv6Search(a) = LongestMatch(Routes, a)

=============================================================================
