------------------------------ MODULE Prefixes ------------------------------
(***************************************************************************)
(* Addresses and prefixes of the lookup engine, and the longest prefix     *)
(* match that a routing table promises.                                    *)
(*                                                                         *)
(* The C code holds a prefix as a pair (ip, cidr) whose bits below cidr    *)
(* are zero (tbm/tbmv4.c:55-61 demands it).  Here a prefix is the sequence *)
(* of its cidr leading bits, most significant bit first: the pair and the  *)
(* sequence determine each other, `ip >> (LENGTH - n)' is Take(ip, n) and  *)
(* `ip << n' is Drop(ip, n).                                               *)
(***************************************************************************)
EXTENDS Integers, Sequences, FiniteSetsExt

CONSTANTS
  LENGTH,     \* bits of an address: LENGTH (32) or LENGTH_v6 (128)
  NHI,        \* the next hop pointers a caller may store
  NULL        \* the null pointer: no next hop

ASSUME LengthAssumption == LENGTH \in Nat \ {0}
ASSUME NullAssumption == NULL \notin NHI

Bit == {0, 1}

BitStrings(n) == [1 .. n -> Bit]

Address == BitStrings(LENGTH)

Prefix == UNION {BitStrings(n) : n \in 0 .. LENGTH}

\* A search that has found no rule says so with NULL.
ASSUME RuleAssumption == NULL \notin Prefix

\* The n leading bits of b, and what is left when they are shifted out.
Take(b, n) == SubSeq(b, 1, n)
Drop(b, n) == SubSeq(b, n + 1, Len(b))

\* The address that goes with a prefix: its bits below cidr are zero.
IpOf(p) == [k \in 1 .. LENGTH |-> IF k <= Len(p) THEN p[k] ELSE 0]

\* p is an initial segment of b: the prefix p matches b.
Covers(p, b) == Len(p) <= Len(b) /\ Take(b, Len(p)) = p

-----------------------------------------------------------------------------
\* A table is a function from a finite set of prefixes to next hops.

Put(table, p, nhi) ==
  [q \in DOMAIN table \cup {p} |-> IF q = p THEN nhi ELSE table[q]]

Remove(table, p) == [q \in DOMAIN table \ {p} |-> table[q]]

NextHops(table) == {table[p] : p \in DOMAIN table}

EmptyTable == [p \in {} |-> NULL]

IsTable(table) ==
  /\ table = [p \in DOMAIN table |-> table[p]]
  /\ IsFiniteSet(DOMAIN table)
  /\ DOMAIN table \subseteq Prefix
  /\ NextHops(table) \subseteq NHI

\* The lengths of the entries of the table that match a.
MatchLengths(table, a) == {n \in 0 .. Len(a) : Take(a, n) \in DOMAIN table}

\* The next hop of the longest entry whose length is in lens.
NextHopAt(table, a, lens) ==
  IF lens = {} THEN NULL ELSE table[Take(a, Max(lens))]

\* Longest prefix match: the reference every search function is held to.
LongestMatch(table, a) == NextHopAt(table, a, MatchLengths(table, a))

=============================================================================
