----------------------------- MODULE TbmProofs -----------------------------
(***************************************************************************)
(* The inductive invariant of Tbm, that every step keeps it, and what      *)
(* follows from it: a lookup is the longest match of the routes.  At the   *)
(* end, that the updates of the IPv6 table are those of Tbm: what the      *)
(* shifts of a copy of the address cut out is the slot and the rest of the *)
(* prefix.  So all that is proved of the tables Tbm builds holds for IPv6  *)
(* tables.                                                                 *)
(***************************************************************************)
EXTENDS TbmV6, TrieProofs

-----------------------------------------------------------------------------
\* The short routes of a table R that cover the slot s, by length, with the
\* longest of them and its next hop: ShortCovers(s) is ShortLens(Routes, s).
ShortLens(R, s) == {n \in 1 .. INITIAL_BITS : Take(s, n) \in DOMAIN R}

Best(R, s) == IF ShortLens(R, s) = {} THEN 0 ELSE Max(ShortLens(R, s))

ShortNhi(R, s) == NextHopAt(R, s, ShortLens(R, s))

\* A trie holds what it should below the slot s when the routes are R: the
\* long routes through s and, as the rule of length 0, the next hop of the best
\* short one.
LongFits(n, R, s) ==
  /\ \A q \in Bits : q # <<>> => (q \in DOMAIN n.inl <=> s \o q \in DOMAIN R)
  /\ \A q \in DOMAIN n.inl : q # <<>> => n.inl[q] = R[s \o q]

NodeFits(n, R, s) ==
  /\ Trim(n)
  /\ <<>> \in DOMAIN n.inl <=> ShortLens(R, s) # {}
  /\ <<>> \in DOMAIN n.inl => n.inl[<<>>] = ShortNhi(R, s)
  /\ LongFits(n, R, s)

NothingBelow(R, s) == \A q \in Bits : q # <<>> => s \o q \notin DOMAIN R

\* Two tables have the same long routes through s.
SameBelow(R, T, s) ==
  \A q \in Bits :
    q # <<>> =>
      /\ s \o q \in DOMAIN T <=> s \o q \in DOMAIN R
      /\ s \o q \in DOMAIN R => T[s \o q] = R[s \o q]

\* And an entry does: it has a trie as long as there is something to put in it,
\* or else there is no long route through s.
EntryFits(e, R, s) ==
  /\ IsEntry(e)
  /\ e.hi = Best(R, s)
  /\ e.child => /\ e.ptr = NULL
                /\ NodeFits(e.node, R, s)
                /\ DOMAIN e.node.inl # {}
  /\ ~ e.child => /\ e.node = EmptyTrie
                  /\ e.ptr = ShortNhi(R, s)
                  /\ NothingBelow(R, s)

\* The inductive invariant.
Inv ==
  /\ up \in BOOLEAN
  /\ calls \in [NHI \cup {NULL} -> Nat]
  /\ IsTrie(up_aux)
  /\ Trim(up_aux)
  /\ <<>> \notin DOMAIN up_aux.inl
  /\ ~ up => up_aux = EmptyTrie
  /\ init = [s \in Slot |-> init[s]]
  /\ \A s \in Slot : EntryFits(init[s], up_aux.inl, s)

-----------------------------------------------------------------------------
\* A slot is a prefix of INITIAL_BITS bits, with some of the address to follow.
LEMMA SlotBits ==
  /\ INITIAL_BITS \in Nat /\ INITIAL_BITS > 0 /\ INITIAL_BITS < LENGTH
  /\ \A s : s \in Slot <=> s \in Bits /\ Len(s) = INITIAL_BITS
<1>1. INITIAL_BITS \in Nat /\ INITIAL_BITS > 0 /\ INITIAL_BITS < LENGTH
  BY InitialBitsAssumption, LengthAssumption
<1> QED BY <1>1, BitStringsIsBits DEF Slot

\* The longest of the short routes that cover s.
LEMMA BestBits ==
  ASSUME NEW R, NEW s
  PROVE  /\ Best(R, s) \in 0 .. INITIAL_BITS
         /\ Best(R, s) = 0 <=> ShortLens(R, s) = {}
         /\ ShortLens(R, s) # {} => Best(R, s) \in ShortLens(R, s)
         /\ \A n \in ShortLens(R, s) : n <= Best(R, s)
         /\ ShortNhi(R, s) = IF ShortLens(R, s) = {} THEN NULL
                             ELSE R[Take(s, Best(R, s))]
<1> DEFINE S == ShortLens(R, s)
<1>1. S \in SUBSET (0 .. INITIAL_BITS) /\ \A n \in S : n \in 1 .. INITIAL_BITS
  BY SlotBits DEF ShortLens
<1>2. INITIAL_BITS \in Nat BY SlotBits
<1> HIDE DEF S
<1>3. CASE S = {} BY <1>2, <1>3 DEF Best, ShortNhi, NextHopAt, S
<1>4. CASE S # {}
  <2> DEFINE b == Max(S)
  <2>1. b \in S /\ \A n \in S : n <= b BY <1>1, <1>2, <1>4, MaxOfNats
  <2>2. Best(R, s) = b BY <1>4 DEF Best, S
  <2>3. ShortNhi(R, s) = R[Take(s, b)] BY <1>4 DEF ShortNhi, NextHopAt, S
  <2> HIDE DEF b
  <2>4. b \in 1 .. INITIAL_BITS BY <1>1, <2>1
  <2> QED BY <1>2, <1>4, <2>1, <2>2, <2>3, <2>4 DEF S
<1> QED BY <1>3, <1>4

\* The least upper bound in ShortLens is Best.
LEMMA BestIs ==
  ASSUME NEW R, NEW s, NEW n \in ShortLens(R, s),
         \A k \in ShortLens(R, s) : k <= n
  PROVE  Best(R, s) = n /\ ShortNhi(R, s) = R[Take(s, n)]
<1> DEFINE b == Best(R, s)
<1>1. b \in ShortLens(R, s) /\ n <= b /\ b <= n BY BestBits
<1>2. b \in Nat /\ n \in Nat BY <1>1, SlotBits DEF ShortLens
<1>3. ShortNhi(R, s) = R[Take(s, b)] BY BestBits
<1> HIDE DEF b
<1>4. b = n BY <1>1, <1>2
<1> QED BY <1>3, <1>4 DEF b

\* The next hop of a slot is one of those in the table.
LEMMA ShortNhiType ==
  ASSUME NEW R, IsTable(R), NEW s
  PROVE  /\ ShortNhi(R, s) \in NHI \cup {NULL}
         /\ ShortNhi(R, s) # NULL <=> ShortLens(R, s) # {}
<1>1. CASE ShortLens(R, s) = {} BY <1>1, BestBits
<1>2. CASE ShortLens(R, s) # {}
  <2>1. Take(s, Best(R, s)) \in DOMAIN R BY <1>2, BestBits DEF ShortLens
  <2>2. R[Take(s, Best(R, s))] \in NHI BY <2>1, TableEntry
  <2> QED BY <1>2, <2>2, BestBits, NullAssumption
<1> QED BY <1>1, <1>2

\* Two tables with the same short routes over s agree about it.
LEMMA SameShort ==
  ASSUME NEW R, NEW T, NEW s,
         ShortLens(T, s) = ShortLens(R, s),
         \A n \in ShortLens(R, s) : T[Take(s, n)] = R[Take(s, n)]
  PROVE  Best(T, s) = Best(R, s) /\ ShortNhi(T, s) = ShortNhi(R, s)
<1>1. Best(T, s) = Best(R, s) BY DEF Best
<1>2. ShortNhi(T, s) = ShortNhi(R, s) BY <1>1, BestBits
<1> QED BY <1>1, <1>2

\* A leading part of s is p only when it has the length of p.
LEMMA TakeLen ==
  ASSUME NEW s \in Slot, NEW n \in 1 .. INITIAL_BITS
  PROVE  Len(Take(s, n)) = n /\ Take(s, n) \in Bits
<1>1. n \in 0 .. Len(s) /\ s \in Bits BY SlotBits
<1> QED BY <1>1, TakeBits

-----------------------------------------------------------------------------
\* A route that does not cover s is put into the table or taken out of it.
LEMMA PutElsewhere ==
  ASSUME NEW R, IsTable(R), NEW s \in Slot, NEW p \in Prefix, NEW nhi \in NHI,
         ~ (Len(p) <= INITIAL_BITS /\ Take(s, Len(p)) = p)
  PROVE  /\ ShortLens(Put(R, p, nhi), s) = ShortLens(R, s)
         /\ Best(Put(R, p, nhi), s) = Best(R, s)
         /\ ShortNhi(Put(R, p, nhi), s) = ShortNhi(R, s)
<1> DEFINE T == Put(R, p, nhi)
<1>1. DOMAIN T = DOMAIN R \cup {p} /\ \A q \in DOMAIN R \ {p} : T[q] = R[q]
  BY PutTable
<1> HIDE DEF T
<1>2. \A n \in 1 .. INITIAL_BITS : Take(s, n) # p
  <2> SUFFICES ASSUME NEW n \in 1 .. INITIAL_BITS, Take(s, n) = p PROVE FALSE
    OBVIOUS
  <2>1. Len(p) = n BY TakeLen
  <2> QED BY <2>1
<1>3. ShortLens(T, s) = ShortLens(R, s) BY <1>1, <1>2 DEF ShortLens
<1>4. \A n \in ShortLens(R, s) : T[Take(s, n)] = R[Take(s, n)]
  BY <1>1, <1>2 DEF ShortLens
<1> QED BY <1>3, <1>4, SameShort DEF T

\* And taken out of it.
LEMMA RemoveElsewhere ==
  ASSUME NEW R, IsTable(R), NEW s \in Slot, NEW p \in Prefix,
         ~ (Len(p) <= INITIAL_BITS /\ Take(s, Len(p)) = p)
  PROVE  /\ ShortLens(Remove(R, p), s) = ShortLens(R, s)
         /\ Best(Remove(R, p), s) = Best(R, s)
         /\ ShortNhi(Remove(R, p), s) = ShortNhi(R, s)
<1> DEFINE T == Remove(R, p)
<1>1. DOMAIN T = DOMAIN R \ {p} /\ \A q \in DOMAIN R \ {p} : T[q] = R[q]
  BY RemoveTable
<1> HIDE DEF T
<1>2. \A n \in 1 .. INITIAL_BITS : Take(s, n) # p
  <2> SUFFICES ASSUME NEW n \in 1 .. INITIAL_BITS, Take(s, n) = p PROVE FALSE
    OBVIOUS
  <2>1. Len(p) = n BY TakeLen
  <2> QED BY <2>1
<1>3. ShortLens(T, s) = ShortLens(R, s) BY <1>1, <1>2 DEF ShortLens
<1>4. \A n \in ShortLens(R, s) : T[Take(s, n)] = R[Take(s, n)]
  BY <1>1, <1>2 DEF ShortLens
<1> QED BY <1>3, <1>4, SameShort DEF T

\* A route over s is put into the table: it is the one s goes by, unless a
\* longer one is there.
LEMMA PutOver ==
  ASSUME NEW R, IsTable(R), NEW s \in Slot, NEW p \in Prefix, NEW nhi \in NHI,
         Len(p) \in 1 .. INITIAL_BITS, Take(s, Len(p)) = p
  PROVE  /\ ShortLens(Put(R, p, nhi), s) # {}
         /\ Best(R, s) > Len(p) =>
              /\ Best(Put(R, p, nhi), s) = Best(R, s)
              /\ ShortNhi(Put(R, p, nhi), s) = ShortNhi(R, s)
              /\ ShortLens(R, s) # {}
         /\ ~ Best(R, s) > Len(p) =>
              /\ Best(Put(R, p, nhi), s) = Len(p)
              /\ ShortNhi(Put(R, p, nhi), s) = nhi
<1> DEFINE T == Put(R, p, nhi)
           b == Best(R, s)
<1>1. /\ DOMAIN T = DOMAIN R \cup {p}
      /\ T[p] = nhi
      /\ \A q \in DOMAIN R \ {p} : T[q] = R[q]
  <2>1. IsTable(R) /\ p \in Prefix /\ nhi \in NHI OBVIOUS
  <2> QED BY ONLY <2>1, PutTable
<1>2. ShortLens(T, s) = ShortLens(R, s) \cup {Len(p)}
  <2>1. \A n \in 1 .. INITIAL_BITS : Take(s, n) = p => n = Len(p)
    BY TakeLen
  <2> HIDE DEF T
  <2> QED BY <1>1, <2>1 DEF ShortLens
<1>3. /\ b \in 0 .. INITIAL_BITS
      /\ b = 0 <=> ShortLens(R, s) = {}
      /\ ShortLens(R, s) # {} => b \in ShortLens(R, s)
      /\ \A n \in ShortLens(R, s) : n <= b
      /\ ShortLens(R, s) # {} => ShortNhi(R, s) = R[Take(s, b)]
  BY BestBits
<1>4. ShortLens(R, s) \subseteq 1 .. INITIAL_BITS BY DEF ShortLens
<1>5. Len(p) \in Nat /\ b \in Nat BY <1>3, SlotBits
<1> HIDE DEF T, b
<1>6. ASSUME b > Len(p)
      PROVE  /\ Best(T, s) = b /\ ShortNhi(T, s) = ShortNhi(R, s)
             /\ ShortLens(R, s) # {}
  <2>1. b # 0 /\ b # Len(p) BY <1>5, <1>6
  <2>2. b \in ShortLens(R, s) BY <1>3, <2>1
  <2>3. \A n \in ShortLens(T, s) : n <= b BY <1>2, <1>3, <1>5, <1>6
  <2>4. Best(T, s) = b /\ ShortNhi(T, s) = T[Take(s, b)]
    BY <1>2, <2>2, <2>3, BestIs
  <2>5. Take(s, b) \in DOMAIN R /\ Take(s, b) # p
    BY <1>4, <2>1, <2>2, TakeLen DEF ShortLens
  <2> QED BY <1>1, <1>3, <2>2, <2>4, <2>5
<1>7. ASSUME ~ b > Len(p) PROVE Best(T, s) = Len(p) /\ ShortNhi(T, s) = nhi
  <2>1. \A n \in ShortLens(T, s) : n <= Len(p)
    <3> TAKE n \in ShortLens(T, s)
    <3>1. CASE n = Len(p) BY <1>5, <3>1
    <3>2. CASE n \in ShortLens(R, s)
      <4>1. n \in Nat /\ n <= b BY <1>3, <1>4, <3>2, SlotBits
      <4> QED BY <1>5, <1>7, <4>1
    <3> QED BY <1>2, <3>1, <3>2
  <2>2. Len(p) \in ShortLens(T, s) BY <1>2
  <2> QED BY <1>1, <2>1, <2>2, BestIs
<1> QED BY <1>2, <1>6, <1>7 DEF T, b

\* A route over s is taken out of the table: the one s goes by from then on is
\* the one bitmap_detect_overlap finds, unless s went by a longer one already.
LEMMA RemoveOver ==
  ASSUME NEW t, IsTrie(t), Trim(t), NEW s \in Slot, NEW p \in DOMAIN t.inl,
         Len(p) \in 1 .. INITIAL_BITS, Take(s, Len(p)) = p
  PROVE  LET T    == Remove(t.inl, p)
             near == DetectOverlap(t, p, INITIAL_BITS)
         IN  /\ ShortLens(t.inl, s) # {}
             /\ Best(t.inl, s) > Len(p) =>
                  /\ Best(T, s) = Best(t.inl, s)
                  /\ ShortNhi(T, s) = ShortNhi(t.inl, s)
                  /\ ShortLens(T, s) # {}
             /\ ~ Best(t.inl, s) > Len(p) =>
                  /\ near.mask = Best(T, s)
                  /\ near.nhi = ShortNhi(T, s)
<1> DEFINE R == t.inl
           T == Remove(R, p)
           near == DetectOverlap(t, p, INITIAL_BITS)
           b == Best(R, s)
           lens == OverlapLengths(t, p, INITIAL_BITS) \ {0}
<1>1. IsTable(R) BY DEF IsTrie
<1>2. DOMAIN T = DOMAIN R \ {p} /\ \A q \in DOMAIN R \ {p} : T[q] = R[q]
  BY ONLY <1>1, RemoveTable
<1>3. near.mask = (IF lens = {} THEN 0 ELSE Max(lens))
      /\ near.nhi = (IF lens = {} THEN NULL ELSE R[Take(p, Max(lens))])
  BY DEF DetectOverlap, NextHopAt
<1>4. lens = {n \in 1 .. Len(p) : n < Len(p) /\ Take(p, n) \in DOMAIN R}
  <2>1. p \in Prefix /\ Len(p) \in Nat BY <1>1, TableEntry
  <2>2. RulesMet(t, p) = {n \in 0 .. Len(p) : Take(p, n) \in DOMAIN R}
    BY <2>1, MatchesAreMet DEF MatchLengths
  <2>3. SmallerOf(Len(p), INITIAL_BITS) = Len(p)
    BY <2>1, SlotBits DEF SmallerOf
  <2>4. lens = {n \in 0 .. Len(p) : Take(p, n) \in DOMAIN R /\ n < Len(p)} \ {0}
    <3> HIDE DEF R
    <3> QED BY <2>2, <2>3 DEF OverlapLengths
  <2> HIDE DEF R, lens
  <2> QED BY <2>1, <2>4
<1>5. /\ b \in 0 .. INITIAL_BITS
      /\ b = 0 <=> ShortLens(R, s) = {}
      /\ ShortLens(R, s) # {} => b \in ShortLens(R, s)
      /\ \A n \in ShortLens(R, s) : n <= b
      /\ ShortLens(R, s) # {} => ShortNhi(R, s) = R[Take(s, b)]
  BY BestBits
<1>6. ShortLens(R, s) \subseteq 1 .. INITIAL_BITS BY DEF ShortLens
<1>7. Len(p) \in ShortLens(R, s) /\ p \in DOMAIN R BY DEF ShortLens
<1> HIDE DEF R, T, near, b, lens
<1>8. Len(p) \in Nat /\ b \in Nat /\ Len(p) <= b
  BY <1>5, <1>7, SlotBits
<1>9. ShortLens(T, s) = ShortLens(R, s) \ {Len(p)}
  <2>1. \A n \in 1 .. INITIAL_BITS : Take(s, n) = p <=> n = Len(p)
    BY TakeLen
  <2> QED BY <1>2, <2>1 DEF ShortLens
<1>10. ASSUME b > Len(p)
       PROVE  /\ Best(T, s) = b /\ ShortNhi(T, s) = ShortNhi(R, s)
              /\ ShortLens(T, s) # {}
  <2>1. b # Len(p) /\ b \in ShortLens(R, s) BY <1>5, <1>7, <1>8, <1>10
  <2>2. b \in ShortLens(T, s) /\ \A n \in ShortLens(T, s) : n <= b
    BY <1>5, <1>9, <2>1
  <2>3. Best(T, s) = b /\ ShortNhi(T, s) = T[Take(s, b)]
    BY <2>2, BestIs
  <2>4. Take(s, b) \in DOMAIN T BY <2>2 DEF ShortLens
  <2> QED BY <1>2, <1>5, <1>7, <2>2, <2>3, <2>4
<1>11. ASSUME ~ b > Len(p)
       PROVE  near.mask = Best(T, s) /\ near.nhi = ShortNhi(T, s)
  <2>1. s \in Bits /\ Len(s) = INITIAL_BITS /\ Len(p) \in 0 .. Len(s)
    BY SlotBits, <1>8
  <2>2. \A n \in 1 .. Len(p) : Take(s, n) = Take(p, n)
    <3> TAKE n \in 1 .. Len(p)
    <3>1. n \in 0 .. Len(p) BY <1>8
    <3> QED BY <2>1, <3>1, TakeTake
  <2>3. \A n \in ShortLens(R, s) : n \in 1 .. Len(p)
    BY <1>5, <1>6, <1>8, <1>11, SlotBits
  <2>4. ASSUME NEW n PROVE n \in lens <=> n \in ShortLens(T, s)
    <3>1. n \in lens <=>
            n \in 1 .. Len(p) /\ n # Len(p) /\ Take(s, n) \in DOMAIN R
      BY <1>4, <1>8, <2>2
    <3>2. n \in 1 .. Len(p) => n \in 1 .. INITIAL_BITS BY <1>8, SlotBits
    <3>3. n \in ShortLens(T, s) <=>
            n \in 1 .. Len(p) /\ n # Len(p) /\ Take(s, n) \in DOMAIN R
      BY <1>9, <2>3, <3>2 DEF ShortLens
    <3> QED BY <3>1, <3>3
  <2>5. lens = ShortLens(T, s) BY <2>4
  <2>6. near.mask = Best(T, s) BY <1>3, <2>5 DEF Best
  <2>7. CASE lens = {}
    BY <1>3, <2>5, <2>6, <2>7, BestBits
  <2>8. CASE lens # {}
    <3> DEFINE m == Max(lens)
    <3>1. Best(T, s) = m BY <2>5, <2>8 DEF Best
    <3>2. near.nhi = R[Take(p, m)] BY <1>3, <2>8
    <3> HIDE DEF m
    <3>3. m \in lens BY <2>5, <2>8, <3>1, BestBits
    <3>4. m \in 1 .. Len(p) BY <1>4, <3>3
    <3>5. Take(p, m) = Take(s, m) BY <2>2, <3>4
    <3>6. Take(s, m) \in DOMAIN T BY <2>5, <3>3 DEF ShortLens
    <3>7. ShortNhi(T, s) = T[Take(s, m)] BY <2>5, <2>8, <3>1, BestBits
    <3> QED BY <1>2, <2>6, <3>2, <3>5, <3>6, <3>7
  <2> QED BY <2>6, <2>7, <2>8
<1> QED BY <1>7, <1>10, <1>11 DEF R, T, near, b

\* Nothing covers a long route of an uncovered slot.
LEMMA NothingOver ==
  ASSUME NEW t, IsTrie(t), Trim(t), NEW p \in Prefix, Len(p) > INITIAL_BITS,
         ShortLens(t.inl, SlotAt(p)) = {}
  PROVE  /\ DetectOverlap(t, p, INITIAL_BITS).mask = 0
         /\ DetectOverlap(t, p, INITIAL_BITS).nhi = NULL
<1> DEFINE lens == OverlapLengths(t, p, INITIAL_BITS) \ {0}
<1>1. p \in Bits /\ Len(p) \in Nat BY PrefixIsBits, BitsLen
<1>2. lens = {}
  <2> SUFFICES ASSUME NEW n \in lens PROVE FALSE OBVIOUS
  <2>1. n \in RulesMet(t, p) /\ n < SmallerOf(Len(p), INITIAL_BITS) /\ n # 0
    BY DEF OverlapLengths
  <2>2. n \in 0 .. Len(p) /\ Take(p, n) \in DOMAIN t.inl
    BY <2>1 DEF RulesMet, MatchLengths
  <2>3. n \in 1 .. INITIAL_BITS /\ n \in 0 .. INITIAL_BITS
        /\ INITIAL_BITS \in 0 .. Len(p)
    BY <1>1, <2>1, <2>2, SlotBits DEF SmallerOf
  <2>4. Take(SlotAt(p), n) = Take(p, n) BY <1>1, <2>3, TakeTake DEF SlotAt
  <2> QED BY <2>2, <2>3, <2>4 DEF ShortLens
<1> HIDE DEF lens
<1>3. DetectOverlap(t, p, INITIAL_BITS) =
        [mask |-> IF lens = {} THEN 0 ELSE Max(lens),
         nhi |-> NextHopAt(t.inl, p, lens)]
  BY DEF DetectOverlap, lens
<1> QED BY <1>2, <1>3 DEF NextHopAt

-----------------------------------------------------------------------------
\* Writing an entry.
LEMMA SetNodeEntry ==
  ASSUME NEW e, NEW h \in 0 .. INITIAL_BITS, NEW n, IsTrie(n)
  PROVE  LET f == SetNode(e, h, n)
         IN  /\ IsEntry(f)
             /\ f.hi = h
             /\ f.child
             /\ f.ptr = NULL
             /\ f.node = n
             /\ NodeIn(f) = n
BY DEF SetNode, IsEntry, NodeIn

\* An entry field by field.
EntryOf(h, c, x, n) == [hi |-> h, child |-> c, ptr |-> x, node |-> n]

\* Writing e.ptr clears the external bitmap and nothing else.
LEMMA SetPtrFields ==
  ASSUME NEW h, NEW c, NEW x, NEW n, NEW y
  PROVE  SetPtr(EntryOf(h, c, x, n), y) =
           EntryOf(h, c, y, [n EXCEPT !.enl = {}])
<1> DEFINE d == EntryOf(h, c, x, n)
           f == SetPtr(d, y)
<1>1. d = [hi |-> h, child |-> c, ptr |-> x, node |-> n] BY DEF EntryOf
<1>2. f = [d EXCEPT !.ptr = y, !.node.enl = {}] BY DEF SetPtr
<1> HIDE DEF d, f
<1>3. /\ f = [hi |-> f.hi, child |-> f.child, ptr |-> f.ptr, node |-> f.node]
      /\ f.hi = h
      /\ f.ptr = y
      /\ f.node = [n EXCEPT !.enl = {}]
  BY <1>1, <1>2, Zenon
<1>4. f.child = c BY <1>1, <1>2, Zenon
<1>5. f = EntryOf(h, c, y, [n EXCEPT !.enl = {}])
  BY <1>3, <1>4, Zenon DEF EntryOf
<1> QED BY <1>5 DEF f, d

\* An entry without a child and with an empty node is well formed.
LEMMA LeafEntry ==
  ASSUME NEW h \in 0 .. INITIAL_BITS, NEW x \in NHI \cup {NULL},
         NEW c \in BOOLEAN, ~ c
  PROVE  LET f == EntryOf(h, c, x, EmptyTrie)
         IN  /\ IsEntry(f)
             /\ f.hi = h
             /\ ~ f.child
             /\ f.ptr = x
             /\ f.node = EmptyTrie
<1> DEFINE f == EntryOf(h, c, x, EmptyTrie)
<1>1. f.hi = h /\ f.ptr = x /\ f.node = EmptyTrie
      /\ f = [hi |-> f.hi, child |-> f.child, ptr |-> f.ptr, node |-> f.node]
  BY DEF EntryOf
<1>2. f.child \in BOOLEAN /\ ~ f.child BY Zenon DEF EntryOf
<1> HIDE DEF f
<1>3. IsEntry(f) BY <1>1, <1>2, EmptyTrieOK DEF IsEntry
<1> QED BY <1>1, <1>2, <1>3 DEF f

\* Clearing the external bitmap of an empty node changes nothing.
LEMMA NoNodes == [EmptyTrie EXCEPT !.enl = {}] = EmptyTrie
BY DEF EmptyTrie

\* A next hop is written into an entry without a child.
LEMMA SetPtrEntry ==
  ASSUME NEW e, IsEntry(e), e.node = EmptyTrie, ~ e.child,
         NEW x \in NHI \cup {NULL}, NEW h \in 0 .. INITIAL_BITS
  PROVE  LET f == [SetPtr(e, x) EXCEPT !.hi = h]
         IN  /\ IsEntry(f)
             /\ f.hi = h
             /\ ~ f.child
             /\ f.ptr = x
             /\ f.node = EmptyTrie
<1>1. e.child \in BOOLEAN BY Zenon DEF IsEntry
<1>2. e = EntryOf(e.hi, e.child, e.ptr, EmptyTrie) BY DEF IsEntry, EntryOf
<1> DEFINE c == e.child
<1>3. e = EntryOf(e.hi, c, e.ptr, EmptyTrie) /\ c \in BOOLEAN /\ ~ c
  BY <1>1, <1>2, Zenon
<1> HIDE DEF c
<1>4. SetPtr(EntryOf(e.hi, c, e.ptr, EmptyTrie), x) =
        EntryOf(e.hi, c, x, EmptyTrie)
  BY SetPtrFields, NoNodes
<1>5. [EntryOf(e.hi, c, x, EmptyTrie) EXCEPT !.hi = h] =
        EntryOf(h, c, x, EmptyTrie)
  BY DEF EntryOf
<1> DEFINE f == EntryOf(h, c, x, EmptyTrie)
<1>6. [SetPtr(e, x) EXCEPT !.hi = h] = f
  BY ONLY <1>3, <1>4, <1>5
<1>7. IsEntry(f) /\ f.hi = h /\ ~ f.child /\ f.ptr = x /\ f.node = EmptyTrie
  BY <1>3, LeafEntry
<1> HIDE DEF f
<1> QED BY <1>6, <1>7

\* An entry whose trie has become empty.
EmptiedTo(e, g, h, x) ==
  [SetPtr(SetNode(e, g, EmptyTrie), x) EXCEPT !.hi = h, !.child = FALSE]
EmptiedKeepingHi(e, g, x) ==
  [SetPtr(SetNode(e, g, EmptyTrie), x) EXCEPT !.child = FALSE]

\* Such an entry is well formed, and has no child.
LEMMA ClearEntry ==
  ASSUME NEW e, NEW g \in 0 .. INITIAL_BITS, NEW h \in 0 .. INITIAL_BITS,
         NEW x \in NHI \cup {NULL}
  PROVE  LET f == EmptiedTo(e, g, h, x)
             k == EmptiedKeepingHi(e, g, x)
         IN  /\ IsEntry(f) /\ f.hi = h
             /\ ~ f.child /\ f.ptr = x /\ f.node = EmptyTrie
             /\ IsEntry(k) /\ k.hi = g
             /\ ~ k.child /\ k.ptr = x /\ k.node = EmptyTrie
<1> DEFINE m == SetNode(e, g, EmptyTrie)
           c == m.child
           d == SetPtr(m, x)
<1>1. m = EntryOf(g, c, NULL, EmptyTrie) BY Zenon DEF SetNode, EntryOf
<1> HIDE DEF c, m
<1>2. SetPtr(EntryOf(g, c, NULL, EmptyTrie), x) = EntryOf(g, c, x, EmptyTrie)
  BY SetPtrFields, NoNodes
<1>3. d = EntryOf(g, c, x, EmptyTrie) BY ONLY <1>1, <1>2
<1> HIDE DEF d
<1>4. d = [hi |-> g, child |-> c, ptr |-> x, node |-> EmptyTrie]
  BY <1>3 DEF EntryOf
<1> DEFINE f == [d EXCEPT !.hi = h, !.child = FALSE]
           k == [d EXCEPT !.child = FALSE]
<1>5. f = [d EXCEPT !.hi = h, !.child = FALSE] OBVIOUS
<1>6. k = [d EXCEPT !.child = FALSE] OBVIOUS
<1> HIDE DEF f, k
<1>7. /\ f = [hi |-> f.hi, child |-> f.child, ptr |-> f.ptr, node |-> f.node]
      /\ f.hi = h /\ f.ptr = x /\ f.node = EmptyTrie
  BY ONLY <1>4, <1>5, Zenon
<1>8. /\ k = [hi |-> k.hi, child |-> k.child, ptr |-> k.ptr, node |-> k.node]
      /\ k.hi = g /\ k.ptr = x /\ k.node = EmptyTrie
  BY ONLY <1>4, <1>6, Zenon
<1>9. f.child = FALSE BY ONLY <1>4, <1>5, Zenon
<1>10. k.child = FALSE BY ONLY <1>4, <1>6, Zenon
<1>11. f.child \in BOOLEAN /\ ~ f.child BY <1>9, Zenon
<1>12. k.child \in BOOLEAN /\ ~ k.child BY <1>10, Zenon
<1>13. IsEntry(f) BY <1>7, <1>11, EmptyTrieOK DEF IsEntry
<1>14. IsEntry(k) BY <1>8, <1>12, EmptyTrieOK DEF IsEntry
<1> QED BY <1>7, <1>8, <1>11, <1>12, <1>13, <1>14
     DEF f, k, d, m, EmptiedTo, EmptiedKeepingHi

\* Giving a rule another next hop changes nothing else.
LEMMA ReplaceRule ==
  ASSUME NEW t, IsTrie(t), Trim(t), NEW p \in DOMAIN t.inl, NEW nhi \in NHI
  PROVE  LET u == [t EXCEPT !.inl[p] = nhi]
         IN  /\ IsTrie(u)
             /\ Trim(u)
             /\ DOMAIN u.inl = DOMAIN t.inl
             /\ u.inl[p] = nhi
             /\ \A q \in DOMAIN t.inl \ {p} : u.inl[q] = t.inl[q]
<1> DEFINE u == [t EXCEPT !.inl[p] = nhi]
<1>1. u.inl = [t.inl EXCEPT ![p] = nhi] /\ u.enl = t.enl
      /\ u = [inl |-> u.inl, enl |-> u.enl]
  BY DEF IsTrie
<1>2. IsTable(t.inl) /\ t.enl \subseteq Prefix BY DEF IsTrie
<1> HIDE DEF u
<1>3. /\ DOMAIN u.inl = DOMAIN t.inl
      /\ u.inl[p] = nhi
      /\ \A q \in DOMAIN t.inl \ {p} : u.inl[q] = t.inl[q]
  BY <1>1
<1>4. \A q \in DOMAIN u.inl : u.inl[q] \in NHI BY <1>2, <1>3, TableEntry
<1>5. u.inl = [q \in DOMAIN u.inl |-> u.inl[q]] BY <1>1, <1>2 DEF IsTable
<1>6. IsTable(u.inl) BY <1>2, <1>3, <1>4, <1>5 DEF IsTable, NextHops
<1>7. IsTrie(u) BY <1>1, <1>2, <1>6 DEF IsTrie
<1>8. Trim(u) BY <1>1, <1>3 DEF Trim
<1> QED BY <1>3, <1>7, <1>8 DEF u

-----------------------------------------------------------------------------
\* What is left of a route below its slot.
LEMMA RestBits ==
  ASSUME NEW p \in Prefix, Len(p) > INITIAL_BITS
  PROVE  /\ SlotAt(p) \in Slot
         /\ Drop(p, INITIAL_BITS) \in Prefix
         /\ Drop(p, INITIAL_BITS) \in Bits
         /\ Drop(p, INITIAL_BITS) # <<>>
         /\ SlotAt(p) \o Drop(p, INITIAL_BITS) = p
<1>1. p \in Bits /\ Len(p) \in Nat /\ Len(p) <= LENGTH
  BY PrefixIsBits, BitsLen
<1>2. INITIAL_BITS \in 0 .. Len(p) /\ INITIAL_BITS \in Nat BY <1>1, SlotBits
<1>3. SlotAt(p) \in Slot BY <1>1, <1>2, TakeBits, SlotBits DEF SlotAt
<1>4. /\ Drop(p, INITIAL_BITS) \in Bits
      /\ Len(Drop(p, INITIAL_BITS)) = Len(p) - INITIAL_BITS
  BY <1>1, <1>2, DropBits
<1>5. Len(Drop(p, INITIAL_BITS)) <= LENGTH /\ Len(Drop(p, INITIAL_BITS)) # 0
  BY <1>1, <1>2, <1>4, LengthAssumption
<1>6. Drop(p, INITIAL_BITS) # <<>> BY <1>4, <1>5, EmptySeq DEF Bits
<1>7. SlotAt(p) \o Drop(p, INITIAL_BITS) = p
  BY <1>1, <1>2, SplitBits DEF SlotAt
<1> QED BY <1>3, <1>4, <1>5, <1>6, <1>7, PrefixIsBits

\* What goes below a slot is longer than it and can be read off again.
LEMMA BelowBits ==
  ASSUME NEW s \in Slot, NEW q \in Bits, q # <<>>
  PROVE  /\ s \o q \in Bits
         /\ Len(s \o q) > INITIAL_BITS
         /\ SlotAt(s \o q) = s
         /\ Drop(s \o q, INITIAL_BITS) = q
<1>1. s \in Bits /\ Len(s) = INITIAL_BITS BY SlotBits
<1>2. Len(q) \in Nat /\ Len(q) # 0 BY EmptySeq, BitsLen DEF Bits
<1>3. /\ s \o q \in Bits
      /\ Len(s \o q) = Len(s) + Len(q)
      /\ Take(s \o q, Len(s)) = s
      /\ Drop(s \o q, Len(s)) = q
  BY <1>1, JoinBits
<1> QED BY <1>1, <1>2, <1>3, SlotBits DEF SlotAt

\* The empty prefix is a prefix.
LEMMA EmptyPrefix == <<>> \in Prefix /\ <<>> \in Bits /\ Len(<<>>) = 0
<1>1. <<>> \in Bits /\ Len(<<>>) = 0 BY EmptySeq DEF Bits
<1> QED BY <1>1, PrefixIsBits, LengthAssumption

\* A trie that has the long routes of one table has those of another with the
\* same ones.
LEMMA LongFitsBoth ==
  ASSUME NEW n, IsTrie(n), NEW R, NEW T, NEW s, SameBelow(R, T, s),
         LongFits(n, R, s)
  PROVE  LongFits(n, T, s)
<1>1. \A q \in DOMAIN n.inl : q \in Bits
  BY TableEntry, PrefixIsBits DEF IsTrie
<1>2. ASSUME NEW q \in Bits, q # <<>>
      PROVE  /\ q \in DOMAIN n.inl <=> s \o q \in DOMAIN T
             /\ q \in DOMAIN n.inl => n.inl[q] = T[s \o q]
  <2>1. /\ s \o q \in DOMAIN T <=> s \o q \in DOMAIN R
        /\ s \o q \in DOMAIN R => T[s \o q] = R[s \o q]
    BY <1>2 DEF SameBelow
  <2>2. /\ q \in DOMAIN n.inl <=> s \o q \in DOMAIN R
        /\ q \in DOMAIN n.inl => n.inl[q] = R[s \o q]
    BY <1>2 DEF LongFits
  <2> QED BY <2>1, <2>2
<1> QED BY <1>1, <1>2 DEF LongFits

\* An entry fits two tables that agree about its slot.
LEMMA FitsBoth ==
  ASSUME NEW e, NEW R, NEW T, NEW s, EntryFits(e, R, s),
         Best(T, s) = Best(R, s), ShortNhi(T, s) = ShortNhi(R, s),
         ShortLens(T, s) = {} <=> ShortLens(R, s) = {},
         SameBelow(R, T, s)
  PROVE  EntryFits(e, T, s)
<1>1. CASE e.child
  <2>1. IsTrie(e.node) /\ NodeFits(e.node, R, s)
    BY <1>1 DEF EntryFits, IsEntry
  <2>2. NodeFits(e.node, T, s) BY <2>1, LongFitsBoth DEF NodeFits
  <2> QED BY <1>1, <2>2 DEF EntryFits
<1>2. CASE ~ e.child
  <2>1. NothingBelow(R, s) BY <1>2 DEF EntryFits
  <2>2. NothingBelow(T, s) BY <2>1, Zenon DEF NothingBelow, SameBelow
  <2> QED BY <1>2, <2>2 DEF EntryFits
<1> QED BY <1>1, <1>2

\* A short route goes into the table, or out of it, without touching the long
\* ones; a long one without touching those of other slots.
LEMMA BelowUntouched ==
  ASSUME NEW R, IsTable(R), NEW s \in Slot, NEW p \in Prefix, NEW nhi \in NHI,
         Len(p) <= INITIAL_BITS \/ SlotAt(p) # s
  PROVE  SameBelow(R, Put(R, p, nhi), s) /\ SameBelow(R, Remove(R, p), s)
<1> DEFINE T == Put(R, p, nhi)
           U == Remove(R, p)
<1>1. DOMAIN T = DOMAIN R \cup {p} /\ \A q \in DOMAIN R \ {p} : T[q] = R[q]
  BY PutTable
<1>2. DOMAIN U = DOMAIN R \ {p} /\ \A q \in DOMAIN R \ {p} : U[q] = R[q]
  BY RemoveTable
<1> HIDE DEF T, U
<1>3. ASSUME NEW q \in Bits, q # <<>> PROVE s \o q # p
  <2>1. Len(s \o q) > INITIAL_BITS /\ SlotAt(s \o q) = s
    BY <1>3, BelowBits
  <2>2. p \in Bits /\ Len(p) \in Nat BY PrefixIsBits, BitsLen
  <2> DEFINE r == s \o q
  <2> HIDE DEF r
  <2>3. ASSUME r = p PROVE FALSE
    <3>1. Len(p) > INITIAL_BITS /\ SlotAt(p) = s BY <2>1, <2>3 DEF r
    <3>2. ~ Len(p) <= INITIAL_BITS BY <2>2, <3>1, SlotBits
    <3> QED BY <3>1, <3>2
  <2> QED BY <2>3 DEF r
<1> QED BY <1>1, <1>2, <1>3 DEF SameBelow, T, U

-----------------------------------------------------------------------------
\* The rule of length 0 is put into a trie that has the right long routes.
LEMMA RootPut ==
  ASSUME NEW n, IsTrie(n), Trim(n), NEW R, NEW s, LongFits(n, R, s),
         ShortLens(R, s) # {}, ShortNhi(R, s) \in NHI
  PROVE  LET u == InsertPrefix(n, <<>>, ShortNhi(R, s))
         IN  IsTrie(u) /\ NodeFits(u, R, s) /\ DOMAIN u.inl # {}
<1> DEFINE x == ShortNhi(R, s)
           u == InsertPrefix(n, <<>>, x)
<1>1. IsTrie(u) /\ Trim(u) /\ u.inl = Put(n.inl, <<>>, x)
  BY EmptyPrefix, InsertKeepsTrim
<1>2. IsTable(n.inl) BY DEF IsTrie
<1>3. /\ DOMAIN Put(n.inl, <<>>, x) = DOMAIN n.inl \cup {<<>>}
      /\ Put(n.inl, <<>>, x)[<<>>] = x
      /\ \A q \in DOMAIN n.inl \ {<<>>} : Put(n.inl, <<>>, x)[q] = n.inl[q]
  BY <1>2, EmptyPrefix, PutTable
<1> HIDE DEF u
<1>4. /\ DOMAIN u.inl = DOMAIN n.inl \cup {<<>>}
      /\ u.inl[<<>>] = x
      /\ \A q \in DOMAIN n.inl \ {<<>>} : u.inl[q] = n.inl[q]
  BY <1>1, <1>3
<1>5. LongFits(u, R, s) BY <1>4 DEF LongFits
<1> QED BY <1>1, <1>4, <1>5 DEF NodeFits, u

\* The long route p is put into the table, and what is left of it into the
\* trie of its slot.
LEMMA BelowPut ==
  ASSUME NEW n, IsTrie(n), NEW R, IsTable(R), NEW p \in Prefix,
         NEW nhi \in NHI, Len(p) > INITIAL_BITS, NodeFits(n, R, SlotAt(p))
  PROVE  LET u == InsertPrefix(n, Drop(p, INITIAL_BITS), nhi)
         IN  /\ IsTrie(u)
             /\ NodeFits(u, Put(R, p, nhi), SlotAt(p))
             /\ DOMAIN u.inl # {}
<1> DEFINE s == SlotAt(p)
           rest == Drop(p, INITIAL_BITS)
           u == InsertPrefix(n, rest, nhi)
           T == Put(R, p, nhi)
<1>1. s \in Slot /\ rest \in Prefix /\ rest \in Bits /\ rest # <<>>
      /\ s \o rest = p
  BY RestBits
<1>2. Trim(n) /\ IsTable(n.inl) BY DEF NodeFits, IsTrie
<1>3. /\ DOMAIN T = DOMAIN R \cup {p}
      /\ T[p] = nhi
      /\ \A q \in DOMAIN R \ {p} : T[q] = R[q]
  BY DEF Put
<1>4. ~ (Len(p) <= INITIAL_BITS /\ Take(s, Len(p)) = p)
  <2>1. Len(p) \in Nat BY PrefixIsBits, BitsLen
  <2> QED BY <2>1, SlotBits
<1>5. /\ ShortLens(T, s) = ShortLens(R, s)
      /\ ShortNhi(T, s) = ShortNhi(R, s)
  BY <1>1, <1>4, PutElsewhere
<1> HIDE DEF T, rest, s
<1>6. IsTrie(u) /\ Trim(u) /\ u.inl = Put(n.inl, rest, nhi)
  BY <1>1, <1>2, InsertKeepsTrim
<1>7. /\ DOMAIN Put(n.inl, rest, nhi) = DOMAIN n.inl \cup {rest}
      /\ Put(n.inl, rest, nhi)[rest] = nhi
      /\ \A q \in DOMAIN n.inl \ {rest} : Put(n.inl, rest, nhi)[q] = n.inl[q]
  <2> DEFINE L == n.inl
  <2>1. IsTable(L) /\ rest \in Prefix /\ nhi \in NHI BY <1>1, <1>2
  <2> HIDE DEF L, u
  <2>2. /\ DOMAIN Put(L, rest, nhi) = DOMAIN L \cup {rest}
        /\ Put(L, rest, nhi)[rest] = nhi
        /\ \A q \in DOMAIN L \ {rest} : Put(L, rest, nhi)[q] = L[q]
    BY ONLY <2>1, PutTable
  <2> QED BY <2>2 DEF L
<1> HIDE DEF u
<1>8. /\ DOMAIN u.inl = DOMAIN n.inl \cup {rest}
      /\ u.inl[rest] = nhi
      /\ \A q \in DOMAIN n.inl \ {rest} : u.inl[q] = n.inl[q]
  BY <1>6, <1>7
<1>9. \A q \in Bits : q # <<>> => (s \o q = p <=> q = rest)
  <2> SUFFICES ASSUME NEW q \in Bits, q # <<>>, s \o q = p PROVE q = rest
    BY <1>1
  <2>1. Drop(s \o q, INITIAL_BITS) = q BY <1>1, BelowBits
  <2> QED BY <2>1 DEF rest
<1>10. \A q \in DOMAIN n.inl : q \in Bits
  BY <1>2, TableEntry, PrefixIsBits
<1>11. LongFits(n, R, s) BY DEF NodeFits, s
<1>12. ASSUME NEW q \in Bits, q # <<>>
       PROVE  /\ q \in DOMAIN u.inl <=> s \o q \in DOMAIN T
              /\ q \in DOMAIN u.inl => u.inl[q] = T[s \o q]
  <2>1. CASE q = rest BY <1>1, <1>3, <1>8, <2>1
  <2>2. CASE q # rest
    <3>1. s \o q # p BY <1>9, <1>12, <2>2
    <3>2. /\ q \in DOMAIN n.inl <=> s \o q \in DOMAIN R
          /\ q \in DOMAIN n.inl => n.inl[q] = R[s \o q]
      BY <1>11, <1>12 DEF LongFits
    <3> QED BY <1>3, <1>8, <2>2, <3>1, <3>2
  <2> QED BY <2>1, <2>2
<1>13. LongFits(u, T, s) BY <1>1, <1>8, <1>10, <1>12 DEF LongFits
<1>14. /\ <<>> \in DOMAIN u.inl <=> <<>> \in DOMAIN n.inl
       /\ <<>> \in DOMAIN n.inl => u.inl[<<>>] = n.inl[<<>>]
  BY <1>1, <1>8
<1>15. NodeFits(u, T, s) BY <1>5, <1>6, <1>13, <1>14 DEF NodeFits, s
<1> QED BY <1>6, <1>8, <1>15 DEF u, T, rest, s

\* The long route p is taken out of the table, and what is left of it out of
\* the trie of its slot; when that empties the trie nothing goes by the slot.
LEMMA BelowRemove ==
  ASSUME NEW n, IsTrie(n), NEW R, IsTable(R), NEW p \in DOMAIN R,
         Len(p) > INITIAL_BITS, NodeFits(n, R, SlotAt(p))
  PROVE  LET s   == SlotAt(p)
             T   == Remove(R, p)
             del == DeletePrefix(n, Drop(p, INITIAL_BITS))
         IN  /\ Drop(p, INITIAL_BITS) \in DOMAIN n.inl
             /\ IsTrie(del.trie)
             /\ NodeFits(del.trie, T, s)
             /\ ~ del.empty => DOMAIN del.trie.inl # {}
             /\ del.empty => /\ del.trie = EmptyTrie
                             /\ ShortLens(R, s) = {}
                             /\ NothingBelow(T, s)
<1> DEFINE s == SlotAt(p)
           rest == Drop(p, INITIAL_BITS)
           T == Remove(R, p)
           del == DeletePrefix(n, rest)
           u == del.trie
           empty == del.empty
<1>1. p \in Prefix BY TableEntry
<1>2. s \in Slot /\ rest \in Prefix /\ rest \in Bits /\ rest # <<>>
      /\ s \o rest = p
  BY <1>1, RestBits
<1>3. Trim(n) /\ IsTable(n.inl) /\ LongFits(n, R, s) BY DEF NodeFits, IsTrie
<1>4. DOMAIN T = DOMAIN R \ {p} /\ \A q \in DOMAIN R \ {p} : T[q] = R[q]
  BY DEF Remove
<1>5. ~ (Len(p) <= INITIAL_BITS /\ Take(s, Len(p)) = p)
  <2>1. Len(p) \in Nat BY <1>1, PrefixIsBits, BitsLen
  <2> QED BY <2>1, SlotBits
<1>6. /\ ShortLens(T, s) = ShortLens(R, s)
      /\ ShortNhi(T, s) = ShortNhi(R, s)
  BY <1>1, <1>2, <1>5, RemoveElsewhere
<1> HIDE DEF T, s
<1>7. rest \in DOMAIN n.inl BY <1>2, <1>3 DEF LongFits
<1>8. /\ IsTrie(u)
      /\ Trim(u)
      /\ u.inl = Remove(n.inl, rest)
      /\ empty <=> DOMAIN n.inl = {rest}
      /\ empty => u = EmptyTrie
  BY <1>3, <1>7, DeleteKeepsTrim, Zenon
<1> HIDE DEF u, empty, del
<1>9. /\ DOMAIN u.inl = DOMAIN n.inl \ {rest}
      /\ \A q \in DOMAIN n.inl \ {rest} : u.inl[q] = n.inl[q]
  BY <1>8 DEF Remove
<1> HIDE DEF rest
<1>10. \A q \in Bits : q # <<>> => (s \o q = p <=> q = rest)
  <2> SUFFICES ASSUME NEW q \in Bits, q # <<>>, s \o q = p PROVE q = rest
    BY <1>2
  <2>1. Drop(s \o q, INITIAL_BITS) = q BY <1>2, BelowBits
  <2> QED BY <2>1 DEF rest
<1>11. \A q \in DOMAIN n.inl : q \in Bits
  BY <1>3, TableEntry, PrefixIsBits
<1>12. ASSUME NEW q \in Bits, q # <<>>
       PROVE  /\ q \in DOMAIN u.inl <=> s \o q \in DOMAIN T
              /\ q \in DOMAIN u.inl => u.inl[q] = T[s \o q]
  <2>1. CASE q = rest BY <1>2, <1>4, <1>9, <2>1
  <2>2. CASE q # rest
    <3>1. s \o q # p BY <1>10, <1>12, <2>2
    <3>2. /\ q \in DOMAIN n.inl <=> s \o q \in DOMAIN R
          /\ q \in DOMAIN n.inl => n.inl[q] = R[s \o q]
      BY <1>3, <1>12 DEF LongFits
    <3> QED BY <1>4, <1>9, <2>2, <3>1, <3>2
  <2> QED BY <2>1, <2>2
<1>13. LongFits(u, T, s) BY <1>9, <1>11, <1>12 DEF LongFits
<1>14. /\ <<>> \in DOMAIN u.inl <=> <<>> \in DOMAIN n.inl
       /\ <<>> \in DOMAIN n.inl => u.inl[<<>>] = n.inl[<<>>]
  BY <1>2, <1>9
<1>15. NodeFits(u, T, s) BY <1>6, <1>8, <1>13, <1>14 DEF NodeFits, s
<1>16. ~ empty => DOMAIN u.inl # {}
  <2>1. DOMAIN n.inl \ {rest} = {} => DOMAIN n.inl = {rest} BY <1>7
  <2> QED BY <1>8, <1>9, <2>1
<1>17. ASSUME empty PROVE ShortLens(R, s) = {} /\ NothingBelow(T, s)
  <2>1. DOMAIN u.inl = {} BY <1>8, <1>9, <1>17
  <2>2. ShortLens(R, s) = {} BY <1>6, <1>15, <2>1 DEF NodeFits
  <2>3. NothingBelow(T, s) BY <1>13, <2>1 DEF LongFits, NothingBelow
  <2> QED BY <2>2, <2>3
<1> QED BY <1>7, <1>8, <1>15, <1>16, <1>17, Zenon DEF u, empty, del, T, rest, s

\* The rule of length 0 gets the next hop of the route that is now the best.
LEMMA RootReplace ==
  ASSUME NEW n, IsTrie(n), Trim(n), <<>> \in DOMAIN n.inl,
         NEW R, NEW s, LongFits(n, R, s),
         ShortLens(R, s) # {}, ShortNhi(R, s) \in NHI
  PROVE  LET u == [n EXCEPT !.inl[<<>>] = ShortNhi(R, s)]
         IN  IsTrie(u) /\ NodeFits(u, R, s) /\ DOMAIN u.inl # {}
<1> DEFINE x == ShortNhi(R, s)
           u == [n EXCEPT !.inl[<<>>] = x]
<1>1. /\ IsTrie(u)
      /\ Trim(u)
      /\ DOMAIN u.inl = DOMAIN n.inl
      /\ u.inl[<<>>] = x
      /\ \A q \in DOMAIN n.inl \ {<<>>} : u.inl[q] = n.inl[q]
  BY ReplaceRule
<1> HIDE DEF u
<1>2. LongFits(u, R, s) BY <1>1 DEF LongFits
<1> QED BY <1>1, <1>2 DEF NodeFits, u

\* The rule of length 0 goes with the last short route.
LEMMA RootRemove ==
  ASSUME NEW n, IsTrie(n), Trim(n), <<>> \in DOMAIN n.inl,
         NEW R, NEW s, LongFits(n, R, s), ShortLens(R, s) = {}
  PROVE  LET del == DeletePrefix(n, <<>>)
         IN  /\ IsTrie(del.trie)
             /\ NodeFits(del.trie, R, s)
             /\ ~ del.empty => DOMAIN del.trie.inl # {}
             /\ del.empty => del.trie = EmptyTrie /\ NothingBelow(R, s)
<1> DEFINE del == DeletePrefix(n, <<>>)
           u == del.trie
           empty == del.empty
<1>1. /\ IsTrie(u)
      /\ Trim(u)
      /\ u.inl = Remove(n.inl, <<>>)
      /\ empty <=> DOMAIN n.inl = {<<>>}
      /\ empty => u = EmptyTrie
  BY DeleteKeepsTrim, Zenon
<1> HIDE DEF u, empty, del
<1>2. /\ DOMAIN u.inl = DOMAIN n.inl \ {<<>>}
      /\ \A q \in DOMAIN n.inl \ {<<>>} : u.inl[q] = n.inl[q]
  BY <1>1 DEF Remove
<1>3. LongFits(u, R, s) BY <1>2 DEF LongFits
<1>4. NodeFits(u, R, s) BY <1>1, <1>2, <1>3 DEF NodeFits
<1>5. ~ empty => DOMAIN u.inl # {}
  <2>1. DOMAIN n.inl \ {<<>>} = {} => DOMAIN n.inl = {<<>>} OBVIOUS
  <2> QED BY <1>1, <1>2, <2>1
<1>6. ASSUME empty PROVE NothingBelow(R, s)
  <2>1. DOMAIN u.inl = {} BY <1>1, <1>2, <1>6
  <2> QED BY <1>3, <2>1 DEF LongFits, NothingBelow
<1> QED BY <1>1, <1>4, <1>5, <1>6, Zenon DEF u, empty, del

-----------------------------------------------------------------------------
\* What an entry that fits holds.
LEMMA ChildEntry ==
  ASSUME NEW e, NEW R, NEW s, EntryFits(e, R, s), e.child
  PROVE  /\ NodeIn(e) = e.node
         /\ IsTrie(e.node)
         /\ Trim(e.node)
         /\ NodeFits(e.node, R, s)
         /\ LongFits(e.node, R, s)
         /\ NhiOf(e) = e.node.inl[<<>>]
<1>1. NodeIn(e) = e.node BY DEF EntryFits, NodeIn
<1>2. NhiOf(e) = e.node.inl[<<>>] BY <1>1 DEF NhiOf
<1>3. NodeFits(e.node, R, s) /\ IsTrie(e.node) BY DEF EntryFits, IsEntry
<1> QED BY <1>1, <1>2, <1>3 DEF NodeFits

\* An entry that is given a trie that fits, fits.
LEMMA SetNodeFits ==
  ASSUME NEW e, NEW n, NEW R, NEW s, IsTrie(n), NodeFits(n, R, s),
         DOMAIN n.inl # {}, NEW h, h = Best(R, s)
  PROVE  EntryFits(SetNode(e, h, n), R, s)
<1> DEFINE f == SetNode(e, h, n)
<1>1. h \in 0 .. INITIAL_BITS BY BestBits
<1>2. IsEntry(f) /\ f.hi = h /\ f.child /\ f.ptr = NULL /\ f.node = n
  BY <1>1, SetNodeEntry
<1> HIDE DEF f
<1>3. EntryFits(f, R, s) BY <1>2 DEF EntryFits
<1> QED BY <1>3 DEF f

\* The expansion of a short route, at one of its slots.
LEMMA ExpandFits ==
  ASSUME NEW e, NEW R, IsTable(R), NEW s \in Slot, EntryFits(e, R, s),
         NEW p \in Prefix, NEW nhi \in NHI,
         Len(p) \in 1 .. INITIAL_BITS, Take(s, Len(p)) = p
  PROVE  EntryFits(ExpandInto(e, Len(p), nhi), Put(R, p, nhi), s)
<1> DEFINE T == Put(R, p, nhi)
<1>1. /\ ShortLens(T, s) # {}
      /\ Best(R, s) > Len(p) => /\ Best(T, s) = Best(R, s)
                                /\ ShortNhi(T, s) = ShortNhi(R, s)
                                /\ ShortLens(R, s) # {}
      /\ ~ Best(R, s) > Len(p) => Best(T, s) = Len(p) /\ ShortNhi(T, s) = nhi
  BY PutOver
<1>2. SameBelow(R, T, s)
  <2>1. Len(p) <= INITIAL_BITS BY SlotBits
  <2> QED BY <2>1, BelowUntouched
<1> HIDE DEF T
<1>3. e.hi = Best(R, s) BY DEF EntryFits
<1>4. CASE e.hi > Len(p)
  <2>1. ExpandInto(e, Len(p), nhi) = e BY <1>4 DEF ExpandInto
  <2>2. EntryFits(e, T, s) BY <1>1, <1>2, <1>3, <1>4, FitsBoth
  <2> QED BY <2>1, <2>2 DEF T
<1>5. CASE ~ e.hi > Len(p) /\ e.child
  <2> DEFINE n == InsertPrefix(e.node, <<>>, nhi)
             f == SetNode(e, Len(p), n)
  <2>1. ExpandInto(e, Len(p), nhi) = f
    BY <1>5, ChildEntry DEF ExpandInto
  <2>2. IsTrie(e.node) /\ Trim(e.node) /\ LongFits(e.node, T, s)
    BY <1>2, <1>5, ChildEntry, LongFitsBoth
  <2>3. Best(T, s) = Len(p) /\ ShortNhi(T, s) = nhi BY <1>1, <1>3, <1>5
  <2>4. IsTrie(n) /\ NodeFits(n, T, s) /\ DOMAIN n.inl # {}
    BY <1>1, <2>2, <2>3, RootPut
  <2> HIDE DEF n
  <2>5. EntryFits(f, T, s) BY <2>3, <2>4, SetNodeFits
  <2> QED BY <2>1, <2>5 DEF T
<1>6. CASE ~ e.hi > Len(p) /\ ~ e.child
  <2> DEFINE f == [SetPtr(e, nhi) EXCEPT !.hi = Len(p)]
  <2>1. ExpandInto(e, Len(p), nhi) = f BY <1>6 DEF ExpandInto
  <2>2. IsEntry(e) /\ e.node = EmptyTrie /\ NothingBelow(R, s)
    BY <1>6 DEF EntryFits
  <2>3. Len(p) \in 0 .. INITIAL_BITS BY SlotBits
  <2>4. IsEntry(f) /\ f.hi = Len(p) /\ ~ f.child /\ f.ptr = nhi
        /\ f.node = EmptyTrie
    BY <1>6, <2>2, <2>3, SetPtrEntry
  <2>5. NothingBelow(T, s) BY <1>2, <2>2 DEF NothingBelow, SameBelow
  <2> HIDE DEF f
  <2>6. EntryFits(f, T, s) BY <1>1, <1>3, <1>6, <2>4, <2>5 DEF EntryFits
  <2> QED BY <2>1, <2>6 DEF T
<1> QED BY <1>4, <1>5, <1>6

\* The next hop of an entry without a child moves into its new trie.
LEMMA PushDownFits ==
  ASSUME NEW e, NEW R, IsTable(R), NEW s, EntryFits(e, R, s), ~ e.child
  PROVE  LET f == PushDown(e)
         IN  /\ f.hi = Best(R, s)
             /\ IsTrie(NodeIn(f))
             /\ NodeFits(NodeIn(f), R, s)
<1>1. /\ IsEntry(e) /\ e.hi = Best(R, s) /\ e.node = EmptyTrie
      /\ e.ptr = ShortNhi(R, s) /\ NothingBelow(R, s)
  BY DEF EntryFits
<1>2. LongFits(EmptyTrie, R, s) /\ IsTrie(EmptyTrie) /\ Trim(EmptyTrie)
      /\ DOMAIN EmptyTrie.inl = {}
  BY <1>1, EmptyTrieOK DEF LongFits, NothingBelow
<1>3. e.hi \in 0 .. INITIAL_BITS BY <1>1, BestBits
<1>4. CASE e.hi > 0
  <2>1. NodeIn(SetPtr(e, NULL)) = EmptyTrie
    <3> DEFINE g == SetPtr(e, NULL)
    <3>1. g.ptr = NULL /\ g.node = EmptyTrie
      <4>1. e = EntryOf(e.hi, e.child, e.ptr, EmptyTrie)
        BY <1>1 DEF IsEntry, EntryOf
      <4> DEFINE c == e.child
      <4>2. e = EntryOf(e.hi, c, e.ptr, EmptyTrie) BY <4>1, Zenon
      <4> HIDE DEF c
      <4>3. SetPtr(EntryOf(e.hi, c, e.ptr, EmptyTrie), NULL) =
              EntryOf(e.hi, c, NULL, EmptyTrie)
        BY SetPtrFields, NoNodes
      <4>4. g = EntryOf(e.hi, c, NULL, EmptyTrie) BY ONLY <4>2, <4>3
      <4> HIDE DEF g
      <4> QED BY <4>4 DEF EntryOf
    <3> HIDE DEF g
    <3>2. NodeIn(g) = EmptyTrie BY <3>1 DEF NodeIn
    <3> QED BY <3>2 DEF g
  <2> DEFINE x == ShortNhi(R, s)
             n == InsertPrefix(EmptyTrie, <<>>, x)
             f == SetNode(e, e.hi, n)
  <2>2. PushDown(e) = f BY <1>1, <1>4, <2>1 DEF PushDown
  <2>3. ShortLens(R, s) # {} BY <1>1, <1>4, BestBits
  <2>4. x \in NHI BY <2>3, ShortNhiType
  <2>5. IsTrie(n) /\ NodeFits(n, R, s) BY <1>2, <2>3, <2>4, RootPut
  <2> HIDE DEF n
  <2>6. f.hi = e.hi /\ NodeIn(f) = n BY <1>3, <2>5, SetNodeEntry
  <2> QED BY <1>1, <2>2, <2>5, <2>6
<1>5. CASE ~ e.hi > 0
  <2>1. ShortLens(R, s) = {} BY <1>1, <1>3, <1>5, SlotBits, BestBits
  <2>2. e.ptr = NULL BY <1>1, <2>1, ShortNhiType
  <2>3. NodeIn(e) = EmptyTrie BY <1>1, <2>2 DEF NodeIn
  <2> DEFINE f == SetNode(e, e.hi, EmptyTrie)
  <2>4. PushDown(e) = f BY <1>5, <2>3 DEF PushDown
  <2>5. NodeFits(EmptyTrie, R, s) BY <1>2, <2>1 DEF NodeFits
  <2>6. f.hi = e.hi /\ NodeIn(f) = EmptyTrie BY <1>2, <1>3, SetNodeEntry
  <2> QED BY <1>1, <1>2, <2>4, <2>5, <2>6
<1> QED BY <1>4, <1>5

\* The insertion of a long route at its slot.
LEMMA InsertBelowFits ==
  ASSUME NEW e, NEW R, IsTable(R), NEW p \in Prefix, NEW nhi \in NHI,
         Len(p) > INITIAL_BITS, EntryFits(e, R, SlotAt(p))
  PROVE  EntryFits(InsertBelow(e, Drop(p, INITIAL_BITS), nhi),
                   Put(R, p, nhi), SlotAt(p))
<1> DEFINE s == SlotAt(p)
           rest == Drop(p, INITIAL_BITS)
           T == Put(R, p, nhi)
           f == IF e.child THEN e ELSE PushDown(e)
           n == InsertPrefix(NodeIn(f), rest, nhi)
<1>1. InsertBelow(e, rest, nhi) = SetNode(f, f.hi, n) BY DEF InsertBelow
<1>2. f.hi = Best(R, s) /\ IsTrie(NodeIn(f)) /\ NodeFits(NodeIn(f), R, s)
  <2>1. CASE e.child
    <3>1. f = e BY <2>1
    <3> HIDE DEF f
    <3> QED BY <2>1, <3>1, ChildEntry DEF EntryFits
  <2>2. CASE ~ e.child
    <3>1. f = PushDown(e) BY <2>2
    <3> HIDE DEF f
    <3> QED BY <2>2, <3>1, PushDownFits
  <2> QED BY <2>1, <2>2
<1> HIDE DEF f
<1>3. IsTrie(n) /\ NodeFits(n, T, s) /\ DOMAIN n.inl # {}
  BY <1>2, BelowPut
<1>4. Best(T, s) = Best(R, s)
  <2>1. Len(p) \in Nat BY PrefixIsBits, BitsLen
  <2>2. ~ (Len(p) <= INITIAL_BITS /\ Take(s, Len(p)) = p) BY <2>1, SlotBits
  <2>3. s \in Slot BY RestBits
  <2> HIDE DEF s
  <2> QED BY <2>2, <2>3, PutElsewhere
<1> HIDE DEF n, T
<1>5. EntryFits(SetNode(f, f.hi, n), T, s) BY <1>2, <1>3, <1>4, SetNodeFits
<1> QED BY <1>1, <1>5 DEF T

\* The deletion of a short route, at one of its slots.
LEMMA UncoverFits ==
  ASSUME NEW t, IsTrie(t), Trim(t), NEW s \in Slot, NEW e,
         EntryFits(e, t.inl, s), NEW p \in DOMAIN t.inl,
         Len(p) \in 1 .. INITIAL_BITS, Take(s, Len(p)) = p
  PROVE  EntryFits(Uncover(e, Len(p), DetectOverlap(t, p, INITIAL_BITS)),
                   Remove(t.inl, p), s)
<1> DEFINE R == t.inl
           T == Remove(R, p)
           near == DetectOverlap(t, p, INITIAL_BITS)
<1>1. IsTable(R) /\ p \in Prefix BY TableEntry DEF IsTrie
<1>2. IsTable(T) BY <1>1, RemoveTable
<1>3. /\ ShortLens(R, s) # {}
      /\ Best(R, s) > Len(p) => /\ Best(T, s) = Best(R, s)
                                /\ ShortNhi(T, s) = ShortNhi(R, s)
                                /\ ShortLens(T, s) # {}
      /\ ~ Best(R, s) > Len(p) => /\ near.mask = Best(T, s)
                                  /\ near.nhi = ShortNhi(T, s)
  BY RemoveOver
<1>4. SameBelow(R, T, s)
  <2>1. Len(p) <= INITIAL_BITS BY SlotBits
  <2>2. \A nhi \in NHI : SameBelow(R, T, s)
    BY <1>1, <2>1, BelowUntouched
  <2>3. R[p] \in NHI BY <1>1, TableEntry
  <2> QED BY <2>2, <2>3
<1> HIDE DEF T, R, near
<1>5. e.hi = Best(R, s) BY DEF EntryFits, R
<1>6. EntryFits(e, R, s) BY DEF R
<1>7. CASE e.hi > Len(p)
  <2>1. Uncover(e, Len(p), near) = e BY <1>7 DEF Uncover
  <2>2. EntryFits(e, T, s) BY <1>3, <1>4, <1>5, <1>6, <1>7, FitsBoth
  <2> QED BY <2>1, <2>2 DEF T, R, near
<1>8. CASE ~ e.hi > Len(p)
  <2>1. near.mask = Best(T, s) /\ near.nhi = ShortNhi(T, s)
    BY <1>3, <1>5, <1>8
  <2>2. near.mask \in 0 .. INITIAL_BITS /\ near.nhi \in NHI \cup {NULL}
    BY <1>2, <2>1, BestBits, ShortNhiType
  <2>3. CASE ~ e.child
    <3> DEFINE f == [SetPtr(e, near.nhi) EXCEPT !.hi = near.mask]
    <3>1. Uncover(e, Len(p), near) = f BY <1>8, <2>3 DEF Uncover
    <3>2. IsEntry(e) /\ e.node = EmptyTrie /\ NothingBelow(R, s)
      BY <1>6, <2>3 DEF EntryFits
    <3>3. IsEntry(f) /\ f.hi = near.mask /\ ~ f.child /\ f.ptr = near.nhi
          /\ f.node = EmptyTrie
      BY <2>2, <2>3, <3>2, SetPtrEntry
    <3>4. NothingBelow(T, s) BY <1>4, <3>2 DEF NothingBelow, SameBelow
    <3> HIDE DEF f
    <3>5. EntryFits(f, T, s) BY <2>1, <3>3, <3>4 DEF EntryFits
    <3> QED BY <3>1, <3>5 DEF T, R, near
  <2>4. CASE e.child
    <3> DEFINE n == e.node
    <3>1. NodeIn(e) = n /\ IsTrie(n) /\ Trim(n) /\ LongFits(n, R, s)
          /\ NodeFits(n, R, s)
      BY <1>6, <2>4, ChildEntry
    <3> HIDE DEF n
    <3>2. LongFits(n, T, s) BY <1>4, <3>1, LongFitsBoth
    <3>3. <<>> \in DOMAIN n.inl BY <1>3, <3>1 DEF NodeFits
    <3>4. CASE near.mask > 0
      <4> DEFINE u == [n EXCEPT !.inl[<<>>] = near.nhi]
      <4>1. Uncover(e, Len(p), near) = SetNode(e, near.mask, u)
        BY <1>8, <2>4, <3>1, <3>4 DEF Uncover
      <4>2. ShortLens(T, s) # {} BY <2>1, <3>4, BestBits
      <4>3. ShortNhi(T, s) \in NHI BY <1>2, <4>2, ShortNhiType
      <4>4. IsTrie(u) /\ NodeFits(u, T, s) /\ DOMAIN u.inl # {}
        BY <2>1, <3>1, <3>2, <3>3, <4>2, <4>3, RootReplace
      <4> HIDE DEF u
      <4>5. EntryFits(SetNode(e, near.mask, u), T, s)
        BY <2>1, <4>4, SetNodeFits
      <4> QED BY <4>1, <4>5 DEF T, R, near
    <3>5. CASE ~ near.mask > 0
      <4> DEFINE del == DeletePrefix(n, <<>>)
                 u == del.trie
                 empty == del.empty
                 f == SetNode(e, 0, u)
                 g == [SetPtr(f, NULL) EXCEPT !.child = FALSE]
      <4>1. Uncover(e, Len(p), near) = IF empty THEN g ELSE f
        BY <1>8, <2>4, <3>1, <3>5, Zenon DEF Uncover
      <4>2. Best(T, s) = 0 BY <2>1, <2>2, <3>5, SlotBits
      <4>3. ShortLens(T, s) = {} BY <4>2, BestBits
      <4>4. ShortNhi(T, s) = NULL BY <1>2, <4>3, ShortNhiType
      <4>5. /\ IsTrie(u)
            /\ NodeFits(u, T, s)
            /\ ~ empty => DOMAIN u.inl # {}
            /\ empty => u = EmptyTrie /\ NothingBelow(T, s)
        BY <3>1, <3>2, <3>3, <4>3, RootRemove, Zenon
      <4> HIDE DEF u, empty, del
      <4>6. CASE ~ empty
        <5>1. EntryFits(f, T, s) BY <4>2, <4>5, <4>6, SetNodeFits
        <5> QED BY <4>1, <4>6, <5>1, Zenon DEF T, R, near
      <4>7. CASE empty
        <5> DEFINE k == EmptiedKeepingHi(e, 0, NULL)
        <5>1. g = k BY <4>5, <4>7 DEF EmptiedKeepingHi
        <5>2. 0 \in 0 .. INITIAL_BITS /\ NULL \in NHI \cup {NULL} BY SlotBits
        <5>3. IsEntry(k) /\ k.hi = 0 /\ ~ k.child /\ k.ptr = NULL
              /\ k.node = EmptyTrie
          <6>1. \A h \in 0 .. INITIAL_BITS :
                  IsEntry(k) /\ k.hi = 0 /\ ~ k.child /\ k.ptr = NULL
                  /\ k.node = EmptyTrie
            <7> HIDE DEF f, g
            <7> QED BY ONLY <5>2, ClearEntry
          <6> HIDE DEF k
          <6> QED BY <5>2, <6>1
        <5>4. NothingBelow(T, s) BY <4>5, <4>7
        <5> HIDE DEF k
        <5>5. EntryFits(k, T, s) BY <4>2, <4>4, <5>3, <5>4 DEF EntryFits
        <5> HIDE DEF g
        <5> QED BY <4>1, <4>7, <5>1, <5>5, Zenon DEF T, R, near
      <4> QED BY <4>6, <4>7
    <3> QED BY <3>4, <3>5
  <2> QED BY <2>3, <2>4
<1> QED BY <1>7, <1>8

\* The deletion of a long route at its slot: it is in the trie there, and its
\* next hop with it.
LEMMA DeleteBelowFits ==
  ASSUME NEW t, IsTrie(t), Trim(t), NEW p \in DOMAIN t.inl, NEW e,
         Len(p) > INITIAL_BITS, EntryFits(e, t.inl, SlotAt(p))
  PROVE  /\ e.child
         /\ EntryFits(DeleteBelow(e, Drop(p, INITIAL_BITS),
                                  DetectOverlap(t, p, INITIAL_BITS)),
                      Remove(t.inl, p), SlotAt(p))
<1> DEFINE R == t.inl
           T == Remove(R, p)
           s == SlotAt(p)
           rest == Drop(p, INITIAL_BITS)
           near == DetectOverlap(t, p, INITIAL_BITS)
           n == e.node
           del == DeletePrefix(n, rest)
           u == del.trie
           empty == del.empty
           f == SetNode(e, e.hi, u)
           g == [SetPtr(f, near.nhi) EXCEPT !.hi = near.mask, !.child = FALSE]
<1>1. IsTable(R) /\ p \in Prefix BY TableEntry DEF IsTrie
<1>2. s \in Slot /\ rest \in Bits /\ rest # <<>> /\ s \o rest = p
  BY <1>1, RestBits
<1>3. e.child
  <2> SUFFICES ASSUME ~ e.child PROVE FALSE OBVIOUS
  <2>1. NothingBelow(R, s) BY DEF EntryFits
  <2> HIDE DEF s, rest
  <2> QED BY <1>2, <2>1 DEF NothingBelow
<1>4. NodeIn(e) = n /\ IsTrie(n) /\ NodeFits(n, R, s)
  BY <1>3, ChildEntry
<1>5. /\ IsTrie(u)
      /\ NodeFits(u, T, s)
      /\ ~ empty => DOMAIN u.inl # {}
      /\ empty => u = EmptyTrie /\ ShortLens(R, s) = {} /\ NothingBelow(T, s)
  <2> HIDE DEF n, R
  <2>1. p \in DOMAIN R /\ NodeFits(n, R, SlotAt(p)) BY <1>4 DEF R
  <2> QED BY <1>1, <1>4, <2>1, BelowRemove, Zenon
<1>6. /\ ShortLens(T, s) = ShortLens(R, s)
      /\ Best(T, s) = Best(R, s)
      /\ ShortNhi(T, s) = ShortNhi(R, s)
  <2>1. Len(p) \in Nat BY <1>1, PrefixIsBits, BitsLen
  <2>2. ~ (Len(p) <= INITIAL_BITS /\ Take(s, Len(p)) = p) BY <2>1, SlotBits
  <2> HIDE DEF s
  <2> QED BY <1>1, <1>2, <2>2, RemoveElsewhere
<1>7. e.hi = Best(T, s) BY <1>6 DEF EntryFits
<1>8. DeleteBelow(e, rest, near) = IF empty THEN g ELSE f
  BY <1>4, Zenon DEF DeleteBelow
<1>9. empty => near.mask = 0 /\ near.nhi = NULL
  BY <1>1, <1>5, NothingOver
<1> HIDE DEF u, empty, del, n, near, T
<1>10. CASE ~ empty
  <2>1. EntryFits(f, T, s) BY <1>5, <1>7, <1>10, SetNodeFits
  <2> HIDE DEF f, g
  <2> QED BY <1>3, <1>8, <1>10, <2>1, Zenon DEF T, near
<1>11. CASE empty
  <2> DEFINE h == e.hi
             k == EmptiedTo(e, h, 0, NULL)
  <2>1. g = k BY <1>5, <1>9, <1>11 DEF EmptiedTo
  <2>2. 0 \in 0 .. INITIAL_BITS /\ NULL \in NHI \cup {NULL}
        /\ h \in 0 .. INITIAL_BITS
    BY <1>7, BestBits, SlotBits
  <2> HIDE DEF h
  <2>3. IsEntry(k) /\ k.hi = 0 /\ ~ k.child /\ k.ptr = NULL
        /\ k.node = EmptyTrie
    BY <2>2, ClearEntry
  <2>4. NothingBelow(T, s) BY <1>5, <1>11
  <2>5. Best(T, s) = 0 /\ ShortNhi(T, s) = NULL
    BY <1>5, <1>6, <1>11, BestBits
  <2> HIDE DEF k
  <2>6. EntryFits(k, T, s) BY <2>3, <2>4, <2>5 DEF EntryFits
  <2> HIDE DEF g, f
  <2> QED BY <1>3, <1>8, <1>11, <2>1, <2>6, Zenon DEF T, near
<1> QED BY <1>10, <1>11

-----------------------------------------------------------------------------
\* Calls of destroy_nhi are counted, whatever they are given.
LEMMA CallsAreNumbers ==
  /\ NoCalls \in [NHI \cup {NULL} -> Nat]
  /\ \A nhi : CallOnce(nhi) \in [NHI \cup {NULL} -> Nat]
BY DEF NoCalls, CallOnce

\* Without routes every entry is empty.
LEMMA NoEntryFits ==
  ASSUME NEW s \in Slot
  PROVE  EntryFits(NoEntry, EmptyTrie.inl, s)
<1>1. EmptyTrie.inl = EmptyTable /\ DOMAIN EmptyTable = {} /\ IsTable(EmptyTable)
  BY EmptyTrieOK DEF EmptyTrie
<1>2. ShortLens(EmptyTable, s) = {} BY <1>1 DEF ShortLens
<1>3. Best(EmptyTable, s) = 0 BY <1>2, BestBits
<1>4. ShortNhi(EmptyTable, s) = NULL BY <1>1, <1>2, ShortNhiType
<1>5. NothingBelow(EmptyTable, s) BY <1>1 DEF NothingBelow
<1> DEFINE e == NoEntry
<1>6. /\ e = [hi |-> e.hi, child |-> e.child, ptr |-> e.ptr, node |-> e.node]
      /\ e.hi = 0 /\ ~ e.child /\ e.child \in BOOLEAN
      /\ e.ptr = NULL /\ e.node = EmptyTrie
  BY DEF NoEntry
<1> HIDE DEF e
<1>7. IsEntry(e) BY <1>6, SlotBits, EmptyTrieOK DEF IsEntry
<1>8. EntryFits(e, EmptyTable, s) BY <1>3, <1>4, <1>5, <1>6, <1>7 DEF EntryFits
<1> QED BY <1>1, <1>8 DEF e

\* An empty table, in use or not.
LEMMA EmptyInv ==
  ASSUME up' \in BOOLEAN, init' = [s \in Slot |-> NoEntry],
         up_aux' = EmptyTrie, calls' \in [NHI \cup {NULL} -> Nat]
  PROVE  Inv'
<1>1. IsTrie(up_aux') /\ Trim(up_aux') /\ <<>> \notin DOMAIN up_aux'.inl
  BY EmptyTrieOK
<1>2. init' = [s \in Slot |-> init'[s]] OBVIOUS
<1>3. ASSUME NEW s \in Slot PROVE EntryFits(init'[s], up_aux'.inl, s)
  <2>1. init'[s] = NoEntry OBVIOUS
  <2> QED BY <2>1, NoEntryFits
<1> QED BY <1>1, <1>2, <1>3, Zenon DEF Inv

\* The slots of a short route, and of a long one.
LEMMA SlotsOfShort ==
  ASSUME NEW p \in Prefix, NEW s \in Slot
  PROVE  s \in SlotsOf(p) <=> Len(p) <= INITIAL_BITS /\ Take(s, Len(p)) = p
BY SlotBits DEF SlotsOf, Covers

\* tbm_insert_prefix keeps the invariant.
LEMMA InsertInv ==
  ASSUME Inv, NEW p \in Inputs, NEW nhi \in NHI, Insert(p, nhi)
  PROVE  Inv'
<1> DEFINE R == up_aux.inl
           T == Put(R, p, nhi)
<1>1. p \in Prefix /\ p # <<>> /\ Len(p) \in Nat /\ Len(p) > 0
  <2>1. p \in Prefix /\ p # <<>> BY InputsAssumption
  <2> QED BY <2>1, PrefixIsBits, BitsLen DEF Insert
<1>2. /\ IsTrie(up_aux) /\ Trim(up_aux) /\ <<>> \notin DOMAIN R
      /\ init = [s \in Slot |-> init[s]]
      /\ \A s \in Slot : EntryFits(init[s], R, s)
  BY Zenon DEF Inv
<1>3. IsTable(R) BY <1>2 DEF IsTrie
<1>4. /\ up_aux' = InsertPrefix(up_aux, p, nhi)
      /\ calls' = NoCalls
      /\ up \in BOOLEAN /\ up /\ up' = up
      /\ InsertShort(p, nhi) \/ InsertLong(p, nhi)
  BY Zenon DEF Insert, Inv
<1>5. IsTrie(up_aux') /\ Trim(up_aux') /\ up_aux'.inl = T
  BY <1>1, <1>2, <1>4, InsertKeepsTrim
<1>6. DOMAIN T = DOMAIN R \cup {p} BY DEF Put
<1>7. <<>> \notin DOMAIN up_aux'.inl BY <1>1, <1>2, <1>5, <1>6
<1> HIDE DEF R, T
<1>8. CASE InsertShort(p, nhi)
  <2>1. /\ Len(p) <= INITIAL_BITS
        /\ init' = [s \in Slot |->
                      IF s \in SlotsOf(p) THEN ExpandInto(init[s], Len(p), nhi)
                      ELSE init[s]]
    BY <1>8 DEF InsertShort
  <2>2. ASSUME NEW s \in Slot PROVE EntryFits(init'[s], T, s)
    <3>1. CASE s \in SlotsOf(p)
      <4>1. init'[s] = ExpandInto(init[s], Len(p), nhi) BY <2>1, <3>1
      <4>2. Take(s, Len(p)) = p BY <1>1, <3>1, SlotsOfShort
      <4>3. Len(p) \in 1 .. INITIAL_BITS BY <1>1, <2>1, SlotBits
      <4>4. EntryFits(ExpandInto(init[s], Len(p), nhi), T, s)
        BY <1>1, <1>2, <1>3, <4>2, <4>3, ExpandFits DEF T
      <4> QED BY <4>1, <4>4
    <3>2. CASE s \notin SlotsOf(p)
      <4>1. init'[s] = init[s] BY <2>1, <3>2
      <4>2. ~ (Len(p) <= INITIAL_BITS /\ Take(s, Len(p)) = p)
        BY <1>1, <3>2, SlotsOfShort
      <4>3. /\ ShortLens(T, s) = ShortLens(R, s)
            /\ Best(T, s) = Best(R, s)
            /\ ShortNhi(T, s) = ShortNhi(R, s)
        BY <1>1, <1>3, <4>2, PutElsewhere DEF T
      <4>4. SameBelow(R, T, s) BY <1>1, <1>3, <2>1, BelowUntouched DEF T
      <4>5. EntryFits(init[s], T, s) BY <1>2, <4>3, <4>4, FitsBoth
      <4> QED BY <4>1, <4>5
    <3> QED BY <3>1, <3>2
  <2>3. init' = [s \in Slot |-> init'[s]] BY <2>1
  <2> QED BY <1>4, <1>5, <1>7, <2>2, <2>3, CallsAreNumbers, Zenon DEF Inv
<1>9. CASE InsertLong(p, nhi)
  <2> DEFINE r == SlotAt(p)
  <2>1. /\ Len(p) > INITIAL_BITS
        /\ init' = [init EXCEPT ![r] =
                      InsertBelow(init[r], Drop(p, INITIAL_BITS), nhi)]
    BY <1>9 DEF InsertLong
  <2>2. r \in Slot BY <1>1, <2>1, RestBits
  <2>3. ASSUME NEW s \in Slot PROVE EntryFits(init'[s], T, s)
    <3>1. CASE s = r
      <4>1. init'[s] = InsertBelow(init[r], Drop(p, INITIAL_BITS), nhi)
        BY <1>2, <2>1, <2>2, <3>1
      <4>2. EntryFits(InsertBelow(init[r], Drop(p, INITIAL_BITS), nhi), T, r)
        BY <1>1, <1>2, <1>3, <2>1, <2>2, InsertBelowFits DEF T
      <4> QED BY <3>1, <4>1, <4>2
    <3>2. CASE s # r
      <4>1. init'[s] = init[s] BY <1>2, <2>1, <3>2
      <4>2. ~ (Len(p) <= INITIAL_BITS /\ Take(s, Len(p)) = p)
        BY <1>1, <2>1, SlotBits
      <4>3. /\ ShortLens(T, s) = ShortLens(R, s)
            /\ Best(T, s) = Best(R, s)
            /\ ShortNhi(T, s) = ShortNhi(R, s)
        BY <1>1, <1>3, <4>2, PutElsewhere DEF T
      <4>4. SameBelow(R, T, s) BY <1>1, <1>3, <3>2, BelowUntouched DEF T
      <4>5. EntryFits(init[s], T, s) BY <1>2, <4>3, <4>4, FitsBoth
      <4> QED BY <4>1, <4>5
    <3> QED BY <3>1, <3>2
  <2>4. init' = [s \in Slot |-> init'[s]] BY <1>2, <2>1
  <2> QED BY <1>4, <1>5, <1>7, <2>3, <2>4, CallsAreNumbers, Zenon DEF Inv
<1> QED BY <1>4, <1>8, <1>9

\* tbm_delete_prefix keeps the invariant.
LEMMA DeleteInv ==
  ASSUME Inv, NEW p \in Inputs, Delete(p)
  PROVE  Inv'
<1> DEFINE R == up_aux.inl
           T == Remove(R, p)
           near == DetectOverlap(up_aux, p, INITIAL_BITS)
<1>1. p \in Prefix /\ p # <<>> /\ Len(p) \in Nat /\ Len(p) > 0
  <2>1. p \in Prefix /\ p # <<>> BY InputsAssumption
  <2> QED BY <2>1, PrefixIsBits, BitsLen DEF Delete
<1>2. /\ IsTrie(up_aux) /\ Trim(up_aux) /\ <<>> \notin DOMAIN R
      /\ init = [s \in Slot |-> init[s]]
      /\ \A s \in Slot : EntryFits(init[s], R, s)
  BY Zenon DEF Inv
<1>3. IsTable(R) BY <1>2 DEF IsTrie
<1>4. /\ up_aux' = DeletePrefix(up_aux, p).trie
      /\ up \in BOOLEAN /\ up /\ up' = up
      /\ PrefixExist(up_aux, p)
      /\ DeleteShort(p) \/ DeleteLong(p)
  BY Zenon DEF Delete, Inv
<1>5. p \in DOMAIN R BY <1>4 DEF PrefixExist
<1>6. IsTrie(up_aux') /\ Trim(up_aux') /\ up_aux'.inl = T
  BY <1>2, <1>4, <1>5, DeleteKeepsTrim, Zenon
<1>7. DOMAIN T = DOMAIN R \ {p} BY DEF Remove
<1>8. <<>> \notin DOMAIN up_aux'.inl BY <1>2, <1>6, <1>7
<1>9. R[p] \in NHI BY <1>3, <1>5, TableEntry
<1>10. ASSUME NEW s \in Slot, Len(p) <= INITIAL_BITS \/ SlotAt(p) # s
       PROVE  SameBelow(R, T, s)
  <2>1. \A nhi \in NHI : SameBelow(R, T, s)
    BY <1>1, <1>3, <1>10, BelowUntouched
  <2> QED BY <1>9, <2>1
<1>11. ASSUME NEW s \in Slot,
              ~ (Len(p) <= INITIAL_BITS /\ Take(s, Len(p)) = p),
              Len(p) <= INITIAL_BITS \/ SlotAt(p) # s
       PROVE  EntryFits(init[s], T, s)
  <2>1. /\ ShortLens(T, s) = ShortLens(R, s)
        /\ Best(T, s) = Best(R, s)
        /\ ShortNhi(T, s) = ShortNhi(R, s)
    BY <1>1, <1>3, <1>11, RemoveElsewhere
  <2>2. SameBelow(R, T, s) BY <1>10, <1>11
  <2> HIDE DEF T
  <2> QED BY <1>2, <2>1, <2>2, FitsBoth
<1>12. CASE DeleteShort(p)
  <2>1. /\ Len(p) <= INITIAL_BITS
        /\ init' = [s \in Slot |->
                      IF s \in SlotsOf(p) THEN Uncover(init[s], Len(p), near)
                      ELSE init[s]]
    BY <1>12 DEF DeleteShort
  <2>2. calls' \in [NHI \cup {NULL} -> Nat]
    <3>1. DestroyShort(p) BY <1>12 DEF DeleteShort
    <3>2. calls' = NoCalls \/ \E nhi : calls' = CallOnce(nhi)
      BY <3>1 DEF DestroyShort
    <3> QED BY <3>2, CallsAreNumbers
  <2>3. Len(p) \in 1 .. INITIAL_BITS BY <1>1, <2>1, SlotBits
  <2>4. ASSUME NEW s \in Slot PROVE EntryFits(init'[s], T, s)
    <3>1. CASE s \in SlotsOf(p)
      <4>1. init'[s] = Uncover(init[s], Len(p), near) BY <2>1, <3>1
      <4>2. Take(s, Len(p)) = p BY <1>1, <3>1, SlotsOfShort
      <4>3. EntryFits(Uncover(init[s], Len(p), near), T, s)
        BY <1>2, <1>5, <2>3, <4>2, UncoverFits
      <4> QED BY <4>1, <4>3
    <3>2. CASE s \notin SlotsOf(p)
      <4>1. init'[s] = init[s] BY <2>1, <3>2
      <4>2. ~ (Len(p) <= INITIAL_BITS /\ Take(s, Len(p)) = p)
        BY <1>1, <3>2, SlotsOfShort
      <4>3. EntryFits(init[s], T, s) BY <1>11, <2>1, <4>2
      <4> QED BY <4>1, <4>3
    <3> QED BY <3>1, <3>2
  <2>5. init' = [s \in Slot |-> init'[s]] BY <2>1
  <2> HIDE DEF R, T
  <2> QED BY <1>4, <1>6, <1>8, <2>2, <2>4, <2>5, Zenon DEF Inv
<1>13. CASE DeleteLong(p)
  <2> DEFINE r == SlotAt(p)
             rest == Drop(p, INITIAL_BITS)
  <2>1. Len(p) > INITIAL_BITS BY <1>13 DEF DeleteLong
  <2>2. r \in Slot BY <1>1, <2>1, RestBits
  <2>3. /\ init[r].child
        /\ EntryFits(DeleteBelow(init[r], rest, near), T, r)
    BY <1>2, <1>5, <2>1, <2>2, DeleteBelowFits
  <2>4. /\ init' = [init EXCEPT ![r] = DeleteBelow(init[r], rest, near)]
        /\ \/ calls' = CallOnce(NodeIn(init[r]).inl[rest])
           \/ calls' = NoCalls
    BY <1>13, <2>3, Zenon DEF DeleteLong
  <2>5. calls' \in [NHI \cup {NULL} -> Nat] BY <2>4, CallsAreNumbers
  <2>6. ASSUME NEW s \in Slot PROVE EntryFits(init'[s], T, s)
    <3>1. CASE s = r
      <4>1. init'[s] = DeleteBelow(init[r], rest, near)
        BY <1>2, <2>2, <2>4, <3>1
      <4> QED BY <2>3, <3>1, <4>1
    <3>2. CASE s # r
      <4>1. init'[s] = init[s] BY <1>2, <2>4, <3>2
      <4>2. ~ (Len(p) <= INITIAL_BITS /\ Take(s, Len(p)) = p)
        BY <1>1, <2>1, SlotBits
      <4>3. EntryFits(init[s], T, s) BY <1>11, <3>2, <4>2
      <4> QED BY <4>1, <4>3
    <3> QED BY <3>1, <3>2
  <2>7. init' = [s \in Slot |-> init'[s]] BY <1>2, <2>4
  <2> HIDE DEF R, T
  <2> QED BY <1>4, <1>6, <1>8, <2>5, <2>6, <2>7, Zenon DEF Inv
<1> QED BY <1>4, <1>12, <1>13

\* tbm_destroy_trie keeps the invariant: it counts a finite set of routes for
\* each next hop.
LEMMA DestroyInv ==
  ASSUME Inv, Destroy
  PROVE  Inv'
<1>1. IsFiniteSet(DOMAIN up_aux.inl) BY DEF Inv, IsTrie, IsTable
<1>2. ASSUME NEW n
      PROVE  Cardinality({p \in DOMAIN up_aux.inl :
                            up_aux.inl[p] = n /\ n # NULL}) \in Nat
  <2> DEFINE S == {p \in DOMAIN up_aux.inl : up_aux.inl[p] = n /\ n # NULL}
  <2>1. S \subseteq DOMAIN up_aux.inl OBVIOUS
  <2> HIDE DEF S
  <2>2. IsFiniteSet(S) BY <1>1, <2>1, FS_Subset
  <2>3. Cardinality(S) \in Nat BY <2>2, FS_CardinalityType
  <2> QED BY <2>3 DEF S
<1>3. calls' \in [NHI \cup {NULL} -> Nat] BY <1>2 DEF Destroy
<1>4. /\ up' \in BOOLEAN
      /\ init' = [s \in Slot |-> NoEntry]
      /\ up_aux' = EmptyTrie
  BY Zenon DEF Destroy
<1> QED BY <1>3, <1>4, EmptyInv

\* The invariant is inductive.
THEOREM InvAlways == Spec => []Inv
<1>1. Init => Inv
  <2> SUFFICES ASSUME Init PROVE Inv OBVIOUS
  <2>1. up \in BOOLEAN /\ calls \in [NHI \cup {NULL} -> Nat]
        /\ up_aux = EmptyTrie /\ init = [s \in Slot |-> NoEntry]
    BY CallsAreNumbers, Zenon DEF Init
  <2>2. IsTrie(up_aux) /\ Trim(up_aux) /\ <<>> \notin DOMAIN up_aux.inl
    BY <2>1, EmptyTrieOK
  <2>3. init = [s \in Slot |-> init[s]] BY <2>1
  <2>4. \A s \in Slot : EntryFits(init[s], up_aux.inl, s)
    BY <2>1, NoEntryFits
  <2> QED BY <2>1, <2>2, <2>3, <2>4, Zenon DEF Inv
<1>2. Inv /\ [Next]_vars => Inv'
  <2> SUFFICES ASSUME Inv, [Next]_vars PROVE Inv' OBVIOUS
  <2>1. CASE InitTrie
    <3>1. /\ up' \in BOOLEAN
          /\ init' = [s \in Slot |-> NoEntry]
          /\ up_aux' = EmptyTrie
          /\ calls' \in [NHI \cup {NULL} -> Nat]
      BY <2>1, CallsAreNumbers, Zenon DEF InitTrie
    <3> QED BY <3>1, EmptyInv
  <2>2. CASE \E p \in Inputs, nhi \in NHI : Insert(p, nhi)
    BY <2>2, InsertInv
  <2>3. CASE \E p \in Inputs : Delete(p)
    BY <2>3, DeleteInv
  <2>4. CASE Destroy
    BY <2>4, DestroyInv
  <2>5. CASE UNCHANGED vars
    BY <2>5, Zenon DEF vars, Inv
  <2> QED BY <2>1, <2>2, <2>3, <2>4, <2>5 DEF Next
<1> QED BY <1>1, <1>2, PTL DEF Spec

-----------------------------------------------------------------------------
\* The state of the table keeps its type through every operation.
THEOREM TypeCorrect == Spec => []TypeOK
<1>1. Inv => TypeOK
  <2> SUFFICES ASSUME Inv PROVE TypeOK OBVIOUS
  <2>1. \A s \in Slot : IsEntry(init[s]) BY DEF Inv, EntryFits
  <2> QED BY <2>1, Zenon DEF Inv, TypeOK
<1> QED BY <1>1, InvAlways, PTL

\* prefix_hi and the flag INIT_HAS_A_CHILD tell at any time what the union of
\* an entry holds.
THEOREM DisciplineHolds == Spec => []EntryDiscipline
<1>1. Inv => EntryDiscipline
  <2> SUFFICES ASSUME Inv, NEW s \in Slot
               PROVE  LET e == init[s]
                      IN  /\ e.child => /\ e.ptr = NULL
                                        /\ e.hi > 0 <=> <<>> \in DOMAIN e.node.inl
                          /\ ~ e.child => /\ e.node = EmptyTrie
                                          /\ e.hi > 0 <=> e.ptr # NULL
    BY Zenon DEF EntryDiscipline
  <2> DEFINE e == init[s]
             R == up_aux.inl
  <2>1. EntryFits(e, R, s) /\ IsTable(R) BY DEF Inv, IsTrie
  <2> HIDE DEF e, R
  <2>2. e.hi > 0 <=> ShortLens(R, s) # {}
    <3>1. e.hi = Best(R, s) BY <2>1 DEF EntryFits
    <3> QED BY <3>1, BestBits, SlotBits
  <2>3. e.child => /\ e.ptr = NULL
                   /\ e.hi > 0 <=> <<>> \in DOMAIN e.node.inl
    BY <2>1, <2>2 DEF EntryFits, NodeFits
  <2>4. ~ e.child => e.node = EmptyTrie /\ e.ptr = ShortNhi(R, s)
    BY <2>1 DEF EntryFits
  <2>5. ~ e.child => (e.hi > 0 <=> e.ptr # NULL)
    BY <2>1, <2>2, <2>4, ShortNhiType
  <2> QED BY <2>3, <2>4, <2>5 DEF e
<1> QED BY <1>1, InvAlways, PTL

\* In whatever order routes come and go, every entry holds the length and the
\* next hop of the longest short route over it.
THEOREM BestShortHolds == Spec => []EntryHoldsBestShort
<1>1. Inv => EntryHoldsBestShort
  <2> SUFFICES ASSUME Inv, NEW s \in Slot
               PROVE  LET e    == init[s]
                          lens == ShortCovers(s)
                      IN  IF lens = {}
                          THEN e.hi = 0 /\ e.ptr = NULL
                               /\ <<>> \notin DOMAIN e.node.inl
                          ELSE e.hi = Max(lens)
                               /\ NhiOf(e) = Routes[Take(s, Max(lens))]
    BY DEF EntryHoldsBestShort
  <2> DEFINE e == init[s]
             R == up_aux.inl
             lens == ShortLens(R, s)
  <2>1. EntryFits(e, R, s) /\ IsTable(R) BY DEF Inv, IsTrie
  <2>2. ShortCovers(s) = lens /\ Routes = R BY DEF ShortCovers, ShortLens, Routes
  <2> HIDE DEF e, R
  <2>3. e.hi = Best(R, s) BY <2>1 DEF EntryFits
  <2>4. ASSUME lens = {}
        PROVE  e.hi = 0 /\ e.ptr = NULL /\ <<>> \notin DOMAIN e.node.inl
    <3>1. e.hi = 0 BY <2>3, <2>4, BestBits
    <3>2. CASE e.child BY <2>1, <2>4, <3>1, <3>2 DEF EntryFits, NodeFits
    <3>3. CASE ~ e.child
      <4>1. e.ptr = NULL BY <2>1, <2>4, <3>3, ShortNhiType DEF EntryFits
      <4>2. DOMAIN e.node.inl = {} BY <2>1, <3>3, EmptyTrieOK DEF EntryFits
      <4> QED BY <3>1, <4>1, <4>2
    <3> QED BY <3>2, <3>3
  <2>5. ASSUME lens # {}
        PROVE  e.hi = Max(lens) /\ NhiOf(e) = R[Take(s, Max(lens))]
    <3>1. e.hi = Max(lens) BY <2>3, <2>5 DEF Best
    <3>2. ShortNhi(R, s) = R[Take(s, Max(lens))]
      BY <2>5 DEF ShortNhi, NextHopAt
    <3>3. NhiOf(e) = ShortNhi(R, s)
      <4>1. CASE e.child
        BY <2>1, <2>5, <4>1, ChildEntry DEF NodeFits
      <4>2. CASE ~ e.child
        <5>1. NhiOf(e) = e.ptr BY <4>2 DEF NhiOf
        <5> QED BY <2>1, <4>2, <5>1 DEF EntryFits
      <4> QED BY <4>1, <4>2
    <3> QED BY <3>1, <3>2, <3>3
  <2> HIDE DEF lens
  <2> QED BY <2>2, <2>4, <2>5 DEF e
<1> QED BY <1>1, InvAlways, PTL

\* tbm_prefix_exist answers for exactly the routes in the table.
THEOREM ExistCorrect == Spec => []ExistIsMembership
<1>1. Inv => ExistIsMembership
  BY ExistIsRule DEF Inv, ExistIsMembership, TbmPrefixExist, Routes
<1> QED BY <1>1, InvAlways, PTL

\* The trie of an entry holds the long routes through it, all of them and no
\* other.
THEOREM MirrorHolds == Spec => []EntryMirrorsLong
<1>1. Inv => EntryMirrorsLong
  <2> SUFFICES ASSUME Inv, NEW s \in Slot
               PROVE  /\ LongRoutes(s) # {} => init[s].child
                      /\ init[s].child => DOMAIN init[s].node.inl # {}
                      /\ \A p \in LongRoutes(s) :
                           LET rest == Drop(p, INITIAL_BITS)
                           IN  /\ PrefixExist(NodeIn(init[s]), rest)
                               /\ NodeIn(init[s]).inl[rest] = Routes[p]
                      /\ \A q \in DOMAIN init[s].node.inl \ {<<>>} :
                           s \o q \in LongRoutes(s)
    BY Zenon DEF EntryMirrorsLong
  <2> DEFINE e == init[s]
             R == up_aux.inl
  <2>1. EntryFits(e, R, s) /\ IsTable(R) BY DEF Inv, IsTrie
  <2>2. Routes = R BY DEF Routes
  <2> HIDE DEF e, R
  <2>3. ASSUME NEW p \in LongRoutes(s)
        PROVE  LET rest == Drop(p, INITIAL_BITS)
               IN  /\ e.child
                   /\ PrefixExist(NodeIn(e), rest)
                   /\ NodeIn(e).inl[rest] = R[p]
    <3> DEFINE rest == Drop(p, INITIAL_BITS)
    <3>1. p \in DOMAIN R /\ Len(p) > INITIAL_BITS /\ SlotAt(p) = s
      BY <2>2 DEF LongRoutes
    <3>2. p \in Prefix BY <2>1, <3>1, TableEntry
    <3>3. rest \in Prefix /\ rest \in Bits /\ rest # <<>> /\ s \o rest = p
      BY <3>1, <3>2, RestBits
    <3> HIDE DEF rest
    <3>4. e.child
      <4> SUFFICES ASSUME ~ e.child PROVE FALSE OBVIOUS
      <4>1. NothingBelow(R, s) BY <2>1 DEF EntryFits
      <4> QED BY <3>1, <3>3, <4>1 DEF NothingBelow
    <3>5. /\ NodeIn(e) = e.node
          /\ IsTrie(e.node) /\ Trim(e.node) /\ LongFits(e.node, R, s)
      BY <2>1, <3>4, ChildEntry
    <3>6. rest \in DOMAIN e.node.inl /\ e.node.inl[rest] = R[p]
      BY <3>1, <3>3, <3>5 DEF LongFits
    <3>7. PrefixExist(e.node, rest) BY <3>3, <3>5, <3>6, ExistIsRule
    <3> QED BY <3>4, <3>5, <3>6, <3>7 DEF rest
  <2>4. e.child => DOMAIN e.node.inl # {} BY <2>1 DEF EntryFits
  <2>5. ASSUME NEW q \in DOMAIN e.node.inl \ {<<>>}
        PROVE  s \o q \in LongRoutes(s)
    <3>1. e.child
      <4>1. ~ e.child => DOMAIN e.node.inl = {}
        BY <2>1, EmptyTrieOK DEF EntryFits
      <4> QED BY <4>1
    <3>2. IsTrie(e.node) /\ LongFits(e.node, R, s)
      BY <2>1, <3>1, ChildEntry
    <3>3. q \in Bits BY <3>2, TableEntry, PrefixIsBits DEF IsTrie
    <3>4. s \o q \in DOMAIN R BY <3>2, <3>3 DEF LongFits
    <3>5. Len(s \o q) > INITIAL_BITS /\ SlotAt(s \o q) = s
      BY <3>3, BelowBits
    <3> QED BY <2>2, <3>4, <3>5 DEF LongRoutes
  <2>6. \A p \in LongRoutes(s) :
          /\ e.child
          /\ PrefixExist(NodeIn(e), Drop(p, INITIAL_BITS))
          /\ NodeIn(e).inl[Drop(p, INITIAL_BITS)] = R[p]
    BY <2>3
  <2> QED BY <2>2, <2>4, <2>5, <2>6, Zenon DEF e
<1> QED BY <1>1, InvAlways, PTL

\* update_nodes leaves no empty node behind and cuts no rule off, in up_aux
\* and in the tries of the entries.
THEOREM PrunedHolds == Spec => []TriesArePruned
<1>1. ASSUME NEW t, Trim(t) PROVE Pruned(t)
  BY <1>1 DEF Trim, Pruned
<1>2. Inv => TriesArePruned
  <2> SUFFICES ASSUME Inv PROVE TriesArePruned OBVIOUS
  <2>1. Pruned(up_aux) BY <1>1 DEF Inv
  <2>2. ASSUME NEW s \in Slot, init[s].child PROVE Pruned(NodeIn(init[s]))
    <3>1. EntryFits(init[s], up_aux.inl, s) BY DEF Inv
    <3>2. Trim(NodeIn(init[s])) BY <2>2, <3>1, ChildEntry
    <3> QED BY <1>1, <3>2
  <2> QED BY <2>1, <2>2 DEF TriesArePruned
<1> QED BY <1>2, InvAlways, PTL

-----------------------------------------------------------------------------
\* The two parts of an address, and those of what matches it.
LEMMA AddressParts ==
  ASSUME NEW a \in Address
  PROVE  /\ a \in Bits /\ Len(a) = LENGTH
         /\ SlotAt(a) \in Slot
         /\ Drop(a, INITIAL_BITS) \in Prefix
         /\ Len(Drop(a, INITIAL_BITS)) = LENGTH - INITIAL_BITS
         /\ \A k \in 0 .. INITIAL_BITS : Take(SlotAt(a), k) = Take(a, k)
         /\ \A k \in 1 .. LENGTH - INITIAL_BITS :
              /\ Take(Drop(a, INITIAL_BITS), k) \in Bits
              /\ Take(Drop(a, INITIAL_BITS), k) # <<>>
              /\ SlotAt(a) \o Take(Drop(a, INITIAL_BITS), k) =
                   Take(a, INITIAL_BITS + k)
<1> DEFINE I == INITIAL_BITS
           b == Drop(a, I)
<1>1. a \in Bits /\ Len(a) = LENGTH /\ LENGTH \in Nat
  BY BitStringsIsBits, LengthAssumption DEF Address
<1>2. I \in 0 .. Len(a) /\ I \in Nat BY <1>1, SlotBits
<1>3. SlotAt(a) \in Slot BY <1>1, <1>2, TakeBits, SlotBits DEF SlotAt
<1>4. b \in Bits /\ Len(b) = LENGTH - I BY <1>1, <1>2, DropBits
<1>5. b \in Prefix BY <1>1, <1>2, <1>4, PrefixIsBits
<1>6. \A k \in 0 .. I : Take(SlotAt(a), k) = Take(a, k)
  BY <1>1, <1>2, TakeTake DEF SlotAt
<1> HIDE DEF b
<1>7. ASSUME NEW k \in 1 .. LENGTH - I
      PROVE  /\ Take(b, k) \in Bits
             /\ Take(b, k) # <<>>
             /\ SlotAt(a) \o Take(b, k) = Take(a, I + k)
  <2>1. k \in 0 .. Len(b) /\ k \in Nat /\ k # 0 BY <1>1, <1>2, <1>4
  <2>2. Take(b, k) \in Bits /\ Len(Take(b, k)) = k BY <1>4, <2>1, TakeBits
  <2>3. Take(b, k) # <<>> BY <2>1, <2>2, EmptyPrefix
  <2>4. I + k \in 0 .. Len(a) /\ I \in 0 .. I + k BY <1>1, <1>2, <2>1
  <2> DEFINE c == Take(a, I + k)
  <2>5. c \in Bits /\ Len(c) = I + k /\ Take(c, I) = Take(a, I)
    BY <1>1, <2>4, TakeBits, TakeTake
  <2>6. Take(b, k) = Drop(c, I)
    <3>1. k \in 0 .. Len(a) - I BY <1>1, <1>4, <2>1
    <3> QED BY <1>1, <1>2, <3>1, TakeOfDrop DEF b
  <2> HIDE DEF c
  <2>7. Take(c, I) \o Drop(c, I) = c BY <2>4, <2>5, SplitBits
  <2> QED BY <2>2, <2>3, <2>5, <2>6, <2>7 DEF SlotAt, c
<1> QED BY <1>1, <1>3, <1>4, <1>5, <1>6, <1>7 DEF b

\* The routes that match an address, by length: short ones over its slot and
\* long ones through it.
LEMMA MatchParts ==
  ASSUME NEW R, <<>> \notin DOMAIN R, NEW a \in Address
  PROVE  /\ MatchLengths(R, a) \subseteq 1 .. LENGTH
         /\ \A k \in 1 .. INITIAL_BITS :
              k \in MatchLengths(R, a) <=> k \in ShortLens(R, SlotAt(a))
         /\ \A k \in 1 .. LENGTH - INITIAL_BITS :
              INITIAL_BITS + k \in MatchLengths(R, a) <=>
                SlotAt(a) \o Take(Drop(a, INITIAL_BITS), k) \in DOMAIN R
<1> DEFINE L == MatchLengths(R, a)
<1>1. /\ a \in Bits /\ Len(a) = LENGTH
      /\ \A k \in 0 .. INITIAL_BITS : Take(SlotAt(a), k) = Take(a, k)
      /\ \A k \in 1 .. LENGTH - INITIAL_BITS :
           SlotAt(a) \o Take(Drop(a, INITIAL_BITS), k) =
             Take(a, INITIAL_BITS + k)
  BY AddressParts
<1>2. \A k : k \in L <=> k \in 0 .. LENGTH /\ Take(a, k) \in DOMAIN R
  BY <1>1 DEF MatchLengths
<1>3. Take(a, 0) = <<>>
  <2>1. 0 \in 0 .. Len(a) BY <1>1, LengthAssumption
  <2>2. Take(a, 0) \in Bits /\ Len(Take(a, 0)) = 0 BY <1>1, <2>1, TakeBits
  <2> QED BY <2>2, EmptySeq DEF Bits
<1> HIDE DEF L
<1>4. L \subseteq 1 .. LENGTH
  <2> SUFFICES ASSUME NEW k \in L PROVE k \in 1 .. LENGTH OBVIOUS
  <2>1. k \in 0 .. LENGTH /\ k # 0 BY <1>2, <1>3
  <2> QED BY <2>1, LengthAssumption
<1>5. ASSUME NEW k \in 1 .. INITIAL_BITS
      PROVE  k \in L <=> k \in ShortLens(R, SlotAt(a))
  <2>1. k \in 0 .. INITIAL_BITS /\ k \in 0 .. LENGTH
    BY SlotBits, LengthAssumption
  <2> QED BY <1>1, <1>2, <2>1 DEF ShortLens
<1>6. ASSUME NEW k \in 1 .. LENGTH - INITIAL_BITS
      PROVE  INITIAL_BITS + k \in L <=>
               SlotAt(a) \o Take(Drop(a, INITIAL_BITS), k) \in DOMAIN R
  <2>1. INITIAL_BITS + k \in 0 .. LENGTH BY SlotBits, LengthAssumption
  <2> QED BY <1>1, <1>2, <2>1
<1> QED BY <1>4, <1>5, <1>6 DEF L

\* An entry without a child answers with the best short route.
LEMMA LeafAnswer ==
  ASSUME NEW R, IsTable(R), <<>> \notin DOMAIN R, NEW a \in Address,
         NothingBelow(R, SlotAt(a))
  PROVE  ShortNhi(R, SlotAt(a)) = LongestMatch(R, a)
<1> DEFINE s == SlotAt(a)
           L == MatchLengths(R, a)
           S == ShortLens(R, s)
<1>1. /\ L \subseteq 1 .. LENGTH
      /\ \A k \in 1 .. INITIAL_BITS : k \in L <=> k \in S
      /\ \A k \in 1 .. LENGTH - INITIAL_BITS : INITIAL_BITS + k \notin L
  BY MatchParts, AddressParts DEF NothingBelow
<1>2. S \subseteq 1 .. INITIAL_BITS BY DEF ShortLens
<1>3. \A k \in 0 .. INITIAL_BITS : Take(s, k) = Take(a, k) BY AddressParts
<1> HIDE DEF L, S
<1>4. ASSUME NEW k \in L PROVE k \in 1 .. INITIAL_BITS
  <2>1. k \in 1 .. LENGTH BY <1>1
  <2>2. CASE k > INITIAL_BITS
    <3>1. k - INITIAL_BITS \in 1 .. LENGTH - INITIAL_BITS
          /\ INITIAL_BITS + (k - INITIAL_BITS) = k
      BY <2>1, <2>2, SlotBits, LengthAssumption
    <3>2. k \notin L BY <1>1, <3>1
    <3> QED BY <3>2
  <2> QED BY <2>1, <2>2, SlotBits
<1>5. L = S BY <1>1, <1>2, <1>4
<1>6. CASE S = {}
  BY <1>5, <1>6 DEF LongestMatch, NextHopAt, ShortNhi, L, S
<1>7. CASE S # {}
  <2> DEFINE m == Max(S)
  <2>1. ShortNhi(R, s) = R[Take(s, m)] BY <1>7 DEF ShortNhi, NextHopAt, S
  <2>2. LongestMatch(R, a) = R[Take(a, m)]
    BY <1>5, <1>7 DEF LongestMatch, NextHopAt, L
  <2>3. m \in S BY <1>7, BestBits DEF Best, S
  <2> HIDE DEF m
  <2>4. m \in 0 .. INITIAL_BITS BY <1>2, <2>3, SlotBits
  <2> QED BY <1>3, <2>1, <2>2, <2>4
<1> QED BY <1>6, <1>7

\* An entry with a trie answers with the longest long route, and without one
\* with the best short route.
LEMMA ChildAnswer ==
  ASSUME NEW R, IsTable(R), <<>> \notin DOMAIN R, NEW a \in Address,
         NEW n, IsTrie(n), NodeFits(n, R, SlotAt(a))
  PROVE  Search(n, Drop(a, INITIAL_BITS)) = LongestMatch(R, a)
<1> DEFINE s == SlotAt(a)
           b == Drop(a, INITIAL_BITS)
           L == MatchLengths(R, a)
           S == ShortLens(R, s)
           M == MatchLengths(n.inl, b)
           I == INITIAL_BITS
<1>1. /\ b \in Prefix /\ Len(b) = LENGTH - I
      /\ \A k \in 0 .. I : Take(s, k) = Take(a, k)
      /\ \A k \in 1 .. LENGTH - I :
           /\ Take(b, k) \in Bits
           /\ Take(b, k) # <<>>
           /\ s \o Take(b, k) = Take(a, I + k)
  BY AddressParts
<1>2. /\ L \subseteq 1 .. LENGTH
      /\ \A k \in 1 .. I : k \in L <=> k \in S
      /\ \A k \in 1 .. LENGTH - I : I + k \in L <=> s \o Take(b, k) \in DOMAIN R
  BY MatchParts
<1>3. /\ Trim(n)
      /\ <<>> \in DOMAIN n.inl <=> S # {}
      /\ <<>> \in DOMAIN n.inl => n.inl[<<>>] = ShortNhi(R, s)
      /\ LongFits(n, R, s)
  BY DEF NodeFits
<1>4. Search(n, b) = LongestMatch(n.inl, b) BY <1>1, <1>3, SearchIsLongestMatch
<1>5. S \subseteq 1 .. I BY DEF ShortLens
<1>6. I \in Nat /\ I > 0 /\ LENGTH \in Nat /\ I < LENGTH
  BY SlotBits, LengthAssumption
<1>7. M \subseteq 0 .. LENGTH - I
      /\ \A k \in 0 .. LENGTH - I : k \in M <=> Take(b, k) \in DOMAIN n.inl
  BY <1>1 DEF MatchLengths
<1>8. Take(b, 0) = <<>>
  <2>1. b \in Bits /\ 0 \in 0 .. Len(b) BY <1>1, <1>6, PrefixIsBits
  <2>2. Take(b, 0) \in Bits /\ Len(Take(b, 0)) = 0 BY <2>1, TakeBits
  <2> QED BY <2>2, EmptySeq DEF Bits
<1>9. LongestMatch(n.inl, b) =
        (IF M = {} THEN NULL ELSE n.inl[Take(b, Max(M))])
  BY DEF LongestMatch, NextHopAt
<1>10. LongestMatch(R, a) = (IF L = {} THEN NULL ELSE R[Take(a, Max(L))])
  BY DEF LongestMatch, NextHopAt
<1> HIDE DEF s, b, L, S, M, I
<1>11. ASSUME NEW k \in 1 .. LENGTH - I
       PROVE  /\ k \in M <=> I + k \in L
              /\ k \in M => n.inl[Take(b, k)] = R[Take(a, I + k)]
  <2>1. /\ Take(b, k) \in Bits /\ Take(b, k) # <<>>
        /\ s \o Take(b, k) = Take(a, I + k)
    BY <1>1
  <2>2. /\ Take(b, k) \in DOMAIN n.inl <=> s \o Take(b, k) \in DOMAIN R
        /\ Take(b, k) \in DOMAIN n.inl =>
             n.inl[Take(b, k)] = R[s \o Take(b, k)]
    BY <1>3, <2>1 DEF LongFits
  <2>3. k \in 0 .. LENGTH - I BY <1>6
  <2> QED BY <1>2, <1>7, <2>1, <2>2, <2>3
<1>12. 0 \in M <=> S # {}
  <2>1. 0 \in 0 .. LENGTH - I BY <1>6
  <2> QED BY <1>3, <1>7, <1>8, <2>1
<1>13. ASSUME NEW k \in L, k > I
       PROVE  k - I \in 1 .. LENGTH - I /\ k - I \in M /\ k = I + (k - I)
  <2>1. k \in 1 .. LENGTH BY <1>2
  <2>2. k - I \in 1 .. LENGTH - I /\ k = I + (k - I) BY <1>6, <1>13, <2>1
  <2> QED BY <1>11, <2>2
<1>14. CASE M = {}
  <2>1. S = {} BY <1>12, <1>14
  <2>2. ASSUME NEW k \in L PROVE FALSE
    <3>1. k \in 1 .. LENGTH BY <1>2
    <3>2. CASE k > I BY <1>13, <1>14, <3>2
    <3>3. CASE ~ k > I
      <4>1. k \in 1 .. I BY <1>6, <3>1, <3>3
      <4> QED BY <1>2, <2>1, <4>1
    <3> QED BY <3>2, <3>3
  <2>3. L = {} BY <2>2
  <2> QED BY <1>4, <1>9, <1>10, <1>14, <2>3 DEF b
<1>15. CASE M # {}
  <2> DEFINE m == Max(M)
  <2>1. m \in M /\ \A k \in M : k <= m
    <3>1. LENGTH - I \in Nat /\ M \in SUBSET (0 .. LENGTH - I) BY <1>6, <1>7
    <3> QED BY <1>15, <3>1, MaxOfNats
  <2>2. LongestMatch(n.inl, b) = n.inl[Take(b, m)] BY <1>9, <1>15
  <2> HIDE DEF m
  <2>3. m \in 0 .. LENGTH - I BY <1>7, <2>1
  <2>4. L \in SUBSET (0 .. LENGTH) BY <1>2
  <2>5. CASE m > 0
    <3>1. m \in 1 .. LENGTH - I BY <1>6, <2>3, <2>5
    <3>2. I + m \in L /\ n.inl[Take(b, m)] = R[Take(a, I + m)]
      BY <1>11, <2>1, <3>1
    <3>3. ASSUME NEW k \in L PROVE k <= I + m
      <4>1. k \in 1 .. LENGTH BY <1>2
      <4>2. CASE k > I
        <5>1. k - I <= m BY <1>13, <2>1, <4>2
        <5> QED BY <1>6, <2>3, <4>1, <5>1
      <4> QED BY <1>6, <2>3, <4>1, <4>2
    <3>4. Max(L) = I + m BY <1>6, <2>4, <3>2, <3>3, MaxIs
    <3> QED BY <1>4, <1>10, <2>2, <3>2, <3>4 DEF b
  <2>6. CASE m = 0
    <3>1. S # {} BY <1>12, <2>1, <2>6
    <3>2. n.inl[Take(b, m)] = ShortNhi(R, s) BY <1>3, <1>8, <2>6, <3>1
    <3>3. ASSUME NEW k \in L PROVE k \in S
      <4>1. k \in 1 .. LENGTH BY <1>2
      <4>2. CASE k > I
        <5>1. k - I \in M /\ k - I \in 1 .. LENGTH - I BY <1>13, <4>2
        <5>2. k - I <= 0 BY <2>1, <2>6, <5>1
        <5> QED BY <1>6, <5>1, <5>2
      <4>3. CASE ~ k > I
        <5>1. k \in 1 .. I BY <1>6, <4>1, <4>3
        <5> QED BY <1>2, <5>1
      <4> QED BY <4>2, <4>3
    <3>4. L = S BY <1>2, <1>5, <3>3
    <3> DEFINE x == Max(S)
    <3>5. ShortNhi(R, s) = R[Take(s, x)] BY <3>1 DEF ShortNhi, NextHopAt, S
    <3>6. x \in S BY <3>1, BestBits DEF Best, S
    <3>7. LongestMatch(R, a) = R[Take(a, x)] BY <1>10, <3>1, <3>4
    <3> HIDE DEF x
    <3>8. x \in 0 .. I BY <1>5, <1>6, <3>6
    <3>9. Take(s, x) = Take(a, x) BY <1>1, <3>8
    <3> QED BY <1>4, <2>2, <3>2, <3>5, <3>7, <3>9 DEF b
  <2> QED BY <1>6, <2>3, <2>5, <2>6
<1> QED BY <1>14, <1>15

\* A lookup of a table in a state of the invariant.
LEMMA LookupCorrect ==
  ASSUME Inv, NEW a \in Address
  PROVE  TbmSearch(a) = LongestMatch(Routes, a)
<1> DEFINE s == SlotAt(a)
           e == init[s]
           R == up_aux.inl
<1>1. s \in Slot BY AddressParts
<1>2. EntryFits(e, R, s) /\ IsTable(R) /\ <<>> \notin DOMAIN R
  BY <1>1 DEF Inv, IsTrie
<1>3. TbmSearch(a) =
        IF e.child THEN Search(NodeIn(e), Drop(a, INITIAL_BITS)) ELSE e.ptr
  BY Zenon DEF TbmSearch
<1> HIDE DEF R
<1>4. CASE e.child
  <2> DEFINE n == e.node
  <2> HIDE DEF e
  <2>1. NodeIn(e) = n /\ IsTrie(n) /\ NodeFits(n, R, s)
    BY <1>2, <1>4, ChildEntry
  <2> HIDE DEF n
  <2>2. Search(n, Drop(a, INITIAL_BITS)) = LongestMatch(R, a)
    BY <1>2, <2>1, ChildAnswer
  <2>3. TbmSearch(a) = Search(n, Drop(a, INITIAL_BITS)) BY <1>3, <1>4, <2>1
  <2> QED BY <2>2, <2>3 DEF R, Routes
<1>5. CASE ~ e.child
  <2> HIDE DEF e
  <2>1. e.ptr = ShortNhi(R, s) /\ NothingBelow(R, s)
    BY <1>2, <1>5 DEF EntryFits
  <2>2. TbmSearch(a) = e.ptr BY <1>3, <1>5
  <2>3. ShortNhi(R, s) = LongestMatch(R, a) BY <1>2, <2>1, LeafAnswer
  <2> QED BY <2>1, <2>2, <2>3 DEF R, Routes
<1> QED BY <1>4, <1>5

\* tbm_search is the longest match of the routes that were inserted and not
\* deleted, for every table, address and sequence of operations.
THEOREM LookupHolds == Spec => []LookupIsLongestMatch
<1>1. Inv => LookupIsLongestMatch
  BY LookupCorrect DEF LookupIsLongestMatch
<1> QED BY <1>1, InvAlways, PTL

-----------------------------------------------------------------------------
\* What the forwarding table of RouteTable says of Tbm's routes.
Fib == [a \in Address |-> IF up THEN TbmSearch(a) ELSE NULL]

\* RouteTable decides by the longest match of Prefixes.
LEMMA SameDecide ==
  ASSUME NEW t
  PROVE  TbmTable!Decide(t) = [a \in Address |-> LongestMatch(t, a)]
BY DEF TbmTable!Decide, TbmTable!LongestMatch, TbmTable!NextHopAt,
       TbmTable!MatchLengths, TbmTable!Take, TbmTable!Address,
       TbmTable!BitStrings, TbmTable!Bit, TbmTable!Max,
       LongestMatch, NextHopAt, MatchLengths, Take, Address, BitStrings, Bit, Max

\* In a state of the invariant the forwarding table is the one RouteTable asks
\* for.
LEMMA FibDecides == Inv => Fib = TbmTable!Decide(Routes)
<1> SUFFICES ASSUME Inv PROVE Fib = TbmTable!Decide(Routes) OBVIOUS
<1>1. ASSUME NEW a \in Address
      PROVE  (IF up THEN TbmSearch(a) ELSE NULL) = LongestMatch(Routes, a)
  <2>1. CASE up BY <2>1, LookupCorrect
  <2>2. CASE ~ up
    <3>1. Routes = EmptyTable BY <2>2 DEF Inv, Routes, EmptyTrie
    <3>2. MatchLengths(Routes, a) = {}
      BY <3>1 DEF MatchLengths, EmptyTable
    <3> QED BY <2>2, <3>2 DEF LongestMatch, NextHopAt
  <2> QED BY <2>1, <2>2
<1> QED BY <1>1, SameDecide DEF Fib

\* The lookup table implements RouteTable: its routes are those of up_aux, its
\* forwarding decisions those of tbm_search.
THEOREM Refinement == Spec => ImplementsRouteTable
<1>1. Init /\ Inv => TbmTable!Init
  <2> SUFFICES ASSUME Init, Inv PROVE TbmTable!Init OBVIOUS
  <2>1. Routes = EmptyTable BY DEF Init, Routes, EmptyTrie
  <2>2. TbmTable!EmptyTable = EmptyTable
    BY DEF TbmTable!EmptyTable, EmptyTable
  <2>3. Fib = TbmTable!Decide(Routes) BY FibDecides
  <2> QED BY <2>1, <2>2, <2>3 DEF TbmTable!Init, Fib
<1>2. Inv /\ Inv' /\ [Next]_vars => [TbmTable!Next]_TbmTable!vars
  <2> SUFFICES ASSUME Inv, Inv', [Next]_vars
               PROVE  [TbmTable!Next]_TbmTable!vars
    OBVIOUS
  <2>1. Fib = TbmTable!Decide(Routes) BY FibDecides
  <2>2. Fib' = TbmTable!Decide(Routes')
    <3>1. (Fib = TbmTable!Decide(Routes))' BY FibDecides, PTL
    <3> QED BY <3>1
  <2>3. TbmTable!Prefix = Prefix
    BY DEF TbmTable!Prefix, TbmTable!BitStrings, TbmTable!Bit,
           Prefix, BitStrings, Bit
  <2>4. Routes = up_aux.inl /\ Routes' = up_aux'.inl BY DEF Routes
  <2>5. ASSUME up_aux' = EmptyTrie PROVE TbmTable!Next
    <3>1. Routes' = TbmTable!EmptyTable
      BY <2>4, <2>5 DEF EmptyTrie, EmptyTable, TbmTable!EmptyTable
    <3>2. TbmTable!Clear BY <2>2, <3>1 DEF TbmTable!Clear, Fib
    <3> QED BY <3>2 DEF TbmTable!Next
  <2>6. CASE InitTrie BY <2>5, <2>6 DEF InitTrie
  <2>7. CASE \E p \in Inputs, nhi \in NHI : Insert(p, nhi)
    <3>1. PICK p \in Inputs, nhi \in NHI : Insert(p, nhi) BY <2>7
    <3>2. p \in TbmTable!Prefix BY <2>3, InputsAssumption
    <3>3. Routes' = TbmTable!Put(Routes, p, nhi)
      BY <2>4, <3>1 DEF Insert, InsertPrefix, Put, TbmTable!Put
    <3>4. TbmTable!Insert(p, nhi) BY <2>2, <3>3 DEF TbmTable!Insert, Fib
    <3> QED BY <3>2, <3>4 DEF TbmTable!Next
  <2>8. CASE \E p \in Inputs : Delete(p)
    <3>1. PICK p \in Inputs : Delete(p) BY <2>8
    <3>2. p \in TbmTable!Prefix BY <2>3, InputsAssumption
    <3>3. p \in DOMAIN Routes BY <2>4, <3>1 DEF Delete, PrefixExist
    <3>4. Routes' = TbmTable!Remove(Routes, p)
      <4>1. up_aux' = DeletePrefix(up_aux, p).trie BY <3>1 DEF Delete
      <4>2. DeletePrefix(up_aux, p).trie.inl = Remove(up_aux.inl, p)
        BY DEF DeletePrefix
      <4> QED BY <2>4, <4>1, <4>2 DEF Remove, TbmTable!Remove
    <3>5. TbmTable!Delete(p) BY <2>2, <3>3, <3>4 DEF TbmTable!Delete, Fib
    <3> QED BY <3>2, <3>5 DEF TbmTable!Next
  <2>9. CASE Destroy BY <2>5, <2>9 DEF Destroy
  <2>10. CASE UNCHANGED vars
    <3>1. Routes' = Routes BY <2>4, <2>10 DEF vars
    <3>2. Fib' = Fib BY <2>1, <2>2, <3>1
    <3> QED BY <3>1, <3>2 DEF TbmTable!vars, Fib
  <2> QED BY <2>6, <2>7, <2>8, <2>9, <2>10 DEF Next
<1> QED BY <1>1, <1>2, InvAlways, PTL DEF Spec, ImplementsRouteTable, TbmTable!Spec

-----------------------------------------------------------------------------
(***************************************************************************)
(* What becomes of next hops: destroy_nhi gets each of them at most once   *)
(* and only with its route, and nothing that is still stored in the table, *)
(* the tries of its entries or up_aux was ever given to it.                *)
(***************************************************************************)

-----------------------------------------------------------------------------
\* Callers that hand their next hops over have no route share one with another.
OwnNextHops ==
  DestroyNhi => \A p, q \in DOMAIN Routes : Routes[p] = Routes[q] => p = q

\* What the last operation destroyed is not in up_aux any more; nor is NULL
\* ever given to destroy_nhi.
RoutesAreAlive == \A n \in NextHops(Routes) \cup {NULL} : calls[n] = 0

NhiInv == OwnNextHops /\ RoutesAreAlive

-----------------------------------------------------------------------------
\* An operation that destroys no next hop has made no call,
LEMMA NoCallsAt == \A n \in NHI \cup {NULL} : NoCalls[n] = 0
BY DEF NoCalls

\* and one that destroys one has made one call.
LEMMA CallOnceAt ==
  ASSUME NEW x \in NHI
  PROVE  \A n \in NHI \cup {NULL} : CallOnce(x)[n] = IF n = x THEN 1 ELSE 0
BY DEF CallOnce, NoCalls

\* The next hops of routes are next hops.
LEMMA RouteHops ==
  ASSUME Inv
  PROVE  IsTable(Routes) /\ NextHops(Routes) \subseteq NHI
BY DEF Inv, IsTrie, IsTable, Routes

\* The next hop of the best short route over s is that of a route, or NULL.
LEMMA ShortNhiIsStored ==
  ASSUME NEW R, NEW s
  PROVE  ShortNhi(R, s) \in NextHops(R) \cup {NULL}
<1>1. CASE ShortLens(R, s) = {}
  BY <1>1, BestBits
<1>2. CASE ShortLens(R, s) # {}
  <2>1. Take(s, Best(R, s)) \in DOMAIN R
    BY <1>2, BestBits DEF ShortLens
  <2>2. ShortNhi(R, s) = R[Take(s, Best(R, s))]
    BY <1>2, BestBits
  <2> QED BY <2>1, <2>2 DEF NextHops
<1> QED BY <1>1, <1>2

\* Entries and their tries hold no next hop that up_aux does not have.
LEMMA StoredAreRoutes ==
  ASSUME Inv
  PROVE  StoredNhis \subseteq NextHops(Routes) \cup {NULL}
<1> DEFINE R == up_aux.inl
<1>1. ASSUME NEW s \in Slot
      PROVE  NextHops(init[s].node.inl) \cup {init[s].ptr}
               \subseteq NextHops(R) \cup {NULL}
  <2> DEFINE e == init[s]
  <2>1. EntryFits(e, R, s)
    BY DEF Inv
  <2> HIDE DEF e, R
  <2>2. CASE ~ e.child
    <3>1. e.node = EmptyTrie /\ e.ptr = ShortNhi(R, s)
      BY <2>1, <2>2 DEF EntryFits
    <3>2. DOMAIN EmptyTrie.inl = {}
      BY EmptyTrieOK
    <3>3. NextHops(e.node.inl) = {}
      BY <3>1, <3>2 DEF NextHops
    <3> QED BY <3>1, <3>3, ShortNhiIsStored DEF e
  <2>3. CASE e.child
    <3>1. e.ptr = NULL /\ NodeFits(e.node, R, s) /\ IsTrie(e.node)
      BY <2>1, <2>3, ChildEntry DEF EntryFits
    <3>2. ASSUME NEW q \in DOMAIN e.node.inl
          PROVE  e.node.inl[q] \in NextHops(R) \cup {NULL}
      <4>1. CASE q = <<>>
        BY <3>1, <3>2, <4>1, ShortNhiIsStored DEF NodeFits
      <4>2. CASE q # <<>>
        <5>1. IsTable(e.node.inl)
          BY <3>1 DEF IsTrie
        <5>2. q \in Bits
          BY <3>2, <5>1, TableEntry, PrefixIsBits
        <5>3. s \o q \in DOMAIN R /\ e.node.inl[q] = R[s \o q]
          BY <3>1, <3>2, <4>2, <5>2 DEF NodeFits, LongFits
        <5> QED BY <5>3 DEF NextHops
      <4> QED BY <4>1, <4>2
    <3>3. NextHops(e.node.inl) \subseteq NextHops(R) \cup {NULL}
      <4> SUFFICES ASSUME NEW x \in NextHops(e.node.inl)
                   PROVE  x \in NextHops(R) \cup {NULL}
        OBVIOUS
      <4>1. PICK q \in DOMAIN e.node.inl : x = e.node.inl[q]
        BY DEF NextHops
      <4> QED BY <3>2, <4>1
    <3> QED BY <3>1, <3>3 DEF e
  <2> QED BY <2>2, <2>3
<1>2. Routes = R
  BY DEF Routes
<1> HIDE DEF R
<1> QED BY <1>1, <1>2 DEF StoredNhis

-----------------------------------------------------------------------------
\* An entry that the loop over a short prefix does not skip holds its next hop.
LEMMA UncoveredHolds ==
  ASSUME Inv, NEW p \in DOMAIN up_aux.inl, Len(p) \in 1 .. INITIAL_BITS,
         NEW s \in Uncovered(p)
  PROVE  NhiOf(init[s]) = up_aux.inl[p]
<1> DEFINE R == up_aux.inl
           e == init[s]
<1>1. IsTable(R) /\ \A r \in Slot : EntryFits(init[r], R, r)
  BY DEF Inv, IsTrie
<1>2. p \in Prefix
  BY <1>1, TableEntry
<1>3. s \in Slot /\ s \in SlotsOf(p) /\ ~ (e.hi > Len(p))
  BY DEF Uncovered, SlotsOf
<1>4. Take(s, Len(p)) = p
  BY <1>2, <1>3, SlotsOfShort
<1>5. EntryFits(e, R, s)
  BY <1>1, <1>3
<1> HIDE DEF e, R
<1>6. Len(p) \in ShortLens(R, s)
  BY <1>4 DEF ShortLens, R
<1>7. Best(R, s) = Len(p) /\ ShortNhi(R, s) = R[p]
  <2>1. e.hi = Best(R, s)
    BY <1>5 DEF EntryFits
  <2>2. Len(p) <= Best(R, s) /\ Best(R, s) \in 0 .. INITIAL_BITS
    BY <1>6, BestBits
  <2>3. Best(R, s) = Len(p)
    BY <1>3, <2>1, <2>2, SlotBits
  <2>4. ShortNhi(R, s) = R[Take(s, Best(R, s))]
    BY <1>6, BestBits
  <2> QED BY <1>4, <2>3, <2>4
<1>8. CASE ~ e.child
  <2>1. e.ptr = ShortNhi(R, s)
    BY <1>5, <1>8 DEF EntryFits
  <2> QED BY <1>7, <1>8, <2>1 DEF NhiOf, e, R
<1>9. CASE e.child
  <2>1. NodeIn(e) = e.node /\ NodeFits(e.node, R, s)
    BY <1>5, <1>9, ChildEntry
  <2>2. e.node.inl[<<>>] = ShortNhi(R, s)
    BY <1>6, <2>1 DEF NodeFits
  <2> QED BY <1>7, <1>9, <2>1, <2>2 DEF NhiOf, e, R
<1> QED BY <1>8, <1>9

\* tbm_delete_prefix gives destroy_nhi the next hop of its route or nothing.
LEMMA DeleteCalls ==
  ASSUME Inv, NEW p \in Inputs, Delete(p)
  PROVE  /\ p \in DOMAIN Routes
         /\ Routes' = Remove(Routes, p)
         /\ \/ calls' = NoCalls
            \/ DestroyNhi /\ calls' = CallOnce(Routes[p])
<1> DEFINE R == up_aux.inl
<1>1. p \in Prefix /\ p # <<>> /\ Len(p) \in Nat /\ Len(p) > 0
  <2>1. p \in Prefix /\ p # <<>>
    BY InputsAssumption
  <2> QED BY <2>1, PrefixIsBits, BitsLen DEF Delete
<1>2. /\ IsTrie(up_aux) /\ Trim(up_aux)
      /\ \A s \in Slot : EntryFits(init[s], R, s)
  BY Zenon DEF Inv
<1>3. /\ up_aux' = DeletePrefix(up_aux, p).trie
      /\ PrefixExist(up_aux, p)
      /\ DeleteShort(p) \/ DeleteLong(p)
  BY Zenon DEF Delete
<1>4. p \in DOMAIN R
  BY <1>3 DEF PrefixExist
<1>5. up_aux'.inl = Remove(R, p)
  BY <1>2, <1>3, <1>4, DeleteKeepsTrim, Zenon
<1>6. calls' = NoCalls \/ (DestroyNhi /\ calls' = CallOnce(R[p]))
  <2>1. CASE DeleteShort(p)
    <3>1. Len(p) \in 1 .. INITIAL_BITS /\ DestroyShort(p)
      BY <1>1, <2>1, SlotBits DEF DeleteShort
    <3>2. CASE calls' = NoCalls
      BY <3>2
    <3>3. CASE calls' # NoCalls
      <4>1. DestroyNhi /\ \E s \in Uncovered(p) : calls' = CallOnce(NhiOf(init[s]))
        BY <3>1, <3>3 DEF DestroyShort
      <4>2. PICK s \in Uncovered(p) : calls' = CallOnce(NhiOf(init[s]))
        BY <4>1
      <4>3. NhiOf(init[s]) = R[p]
        BY <1>4, <3>1, UncoveredHolds
      <4> QED BY <4>1, <4>2, <4>3
    <3> QED BY <3>2, <3>3
  <2>2. CASE DeleteLong(p)
    <3> DEFINE s == SlotAt(p)
               rest == Drop(p, INITIAL_BITS)
               e == init[s]
    <3>1. Len(p) > INITIAL_BITS
      BY <2>2 DEF DeleteLong
    <3>2. s \in Slot /\ rest \in Bits /\ rest # <<>> /\ s \o rest = p
      BY <1>1, <3>1, RestBits
    <3>3. EntryFits(e, R, s)
      BY <1>2, <3>2
    <3>4. CASE e.child
      <4>1. \/ calls' = NoCalls
            \/ DestroyNhi /\ calls' = CallOnce(NodeIn(e).inl[rest])
        BY <2>2, <3>4 DEF DeleteLong
      <4> HIDE DEF e, s, rest, R
      <4>2. NodeIn(e) = e.node /\ LongFits(e.node, R, s)
        BY <3>3, <3>4, ChildEntry
      <4>3. rest \in DOMAIN e.node.inl
        BY <1>4, <3>2, <4>2 DEF LongFits
      <4>4. e.node.inl[rest] = R[p]
        BY <3>2, <4>2, <4>3 DEF LongFits
      <4> QED BY <4>1, <4>2, <4>4
    <3>5. CASE ~ e.child
      BY <2>2, <3>5 DEF DeleteLong
    <3> QED BY <3>4, <3>5
  <2> QED BY <1>3, <2>1, <2>2
<1> QED BY <1>4, <1>5, <1>6 DEF Routes

\* tbm_destroy_trie gives destroy_nhi the next hops of all routes, each as often
\* as it is stored in up_aux.
LEMMA DestroyCalls ==
  ASSUME Inv, OwnNextHops, Destroy, NEW n \in NHI \cup {NULL}
  PROVE  /\ DOMAIN Routes' = {}
         /\ calls'[n] \in {0, 1}
         /\ calls'[n] = 1 => n \in NextHops(Routes)
         /\ calls'[NULL] = 0
<1> DEFINE S(x) == {p \in DOMAIN Routes : Routes[p] = x /\ x # NULL}
<1>1. DOMAIN Routes' = {}
  BY EmptyTrieOK DEF Destroy, Routes
<1>2. \A x \in NHI \cup {NULL} :
        calls'[x] = IF DestroyNhi THEN Cardinality(S(x)) ELSE 0
  BY DEF Destroy, Routes
<1>3. ASSUME NEW x \in NHI \cup {NULL}, S(x) = {}
      PROVE  calls'[x] = 0
  BY <1>2, <1>3, FS_EmptySet
<1>4. calls'[NULL] = 0
  BY <1>3
<1>5. CASE S(n) = {}
  BY <1>1, <1>3, <1>4, <1>5
<1>6. CASE S(n) # {} /\ DestroyNhi
  <2>1. PICK p \in DOMAIN Routes : p \in S(n) /\ Routes[p] = n
    BY <1>6
  <2>2. \A q \in S(n) : q = p
    BY <1>6, <2>1 DEF OwnNextHops
  <2>3. S(n) = {p}
    BY <2>1, <2>2
  <2>4. calls'[n] = 1
    <3>1. Cardinality({p}) = 1
      BY FS_Singleton
    <3> HIDE DEF S
    <3>2. calls'[n] = Cardinality(S(n))
      BY <1>2, <1>6
    <3> QED BY <2>3, <3>1, <3>2
  <2>5. n \in NextHops(Routes)
    BY <2>1 DEF NextHops
  <2> QED BY <1>1, <1>4, <2>4, <2>5
<1>7. CASE ~ DestroyNhi
  BY <1>1, <1>2, <1>4, <1>7
<1> QED BY <1>5, <1>6, <1>7

\* Taking a route away takes its next hop away, when it has one of its own.
LEMMA RemoveOwn ==
  ASSUME NEW R, NEW p \in DOMAIN R, \A q \in DOMAIN R : R[q] = R[p] => q = p
  PROVE  /\ R[p] \in NextHops(R) \ NextHops(Remove(R, p))
         /\ NextHops(Remove(R, p)) \subseteq NextHops(R)
         /\ DOMAIN Remove(R, p) = DOMAIN R \ {p}
         /\ \A q \in DOMAIN R \ {p} : Remove(R, p)[q] = R[q]
BY DEF NextHops, Remove

-----------------------------------------------------------------------------
\* tbm_insert_prefix destroys nothing; a route keeps a next hop of its own.
LEMMA InsertNhi ==
  ASSUME Inv, NhiInv, NEW p \in Inputs, NEW nhi \in NHI, Insert(p, nhi)
  PROVE  NhiInv' /\ calls' = NoCalls
<1>1. p \in Prefix
  BY InputsAssumption
<1>2. IsTrie(up_aux) /\ Trim(up_aux) /\ IsTable(Routes)
  BY Zenon DEF Inv, IsTrie, Routes
<1>3. /\ Routes' = Put(Routes, p, nhi) /\ calls' = NoCalls
      /\ DestroyNhi => nhi \notin NextHops(Routes)
  BY <1>1, <1>2, InsertKeepsTrim, Zenon DEF Insert, Routes
<1>4. /\ IsTable(Routes') /\ DOMAIN Routes' = DOMAIN Routes \cup {p}
      /\ Routes'[p] = nhi
      /\ \A q \in DOMAIN Routes \ {p} : Routes'[q] = Routes[q]
  <2> DEFINE T == Put(Routes, p, nhi)
  <2>1. /\ IsTable(T) /\ DOMAIN T = DOMAIN Routes \cup {p} /\ T[p] = nhi
        /\ \A q \in DOMAIN Routes \ {p} : T[q] = Routes[q]
    <3>1. IsTable(T)
      BY <1>1, <1>2, PutTable
    <3>2. DOMAIN T = DOMAIN Routes \cup {p}
      BY <1>1, <1>2, PutTable
    <3>3. T[p] = nhi
      BY DEF Put
    <3>4. \A q \in DOMAIN Routes \ {p} : T[q] = Routes[q]
      BY <1>1, <1>2, PutTable
    <3> QED BY <3>1, <3>2, <3>3, <3>4
  <2>2. Routes' = T
    BY <1>3
  <2> HIDE DEF T
  <2> QED BY <2>1, <2>2
<1>5. OwnNextHops'
  <2> SUFFICES ASSUME DestroyNhi, NEW q \in DOMAIN Routes', NEW r \in DOMAIN Routes',
                      Routes'[q] = Routes'[r]
               PROVE  q = r
    BY DEF OwnNextHops
  <2>1. \A x \in DOMAIN Routes : Routes[x] # nhi
    BY <1>3 DEF NextHops
  <2> QED BY <1>4, <2>1 DEF NhiInv, OwnNextHops
<1>6. RoutesAreAlive'
  <2>1. NextHops(Routes)' \subseteq NHI
    BY <1>4 DEF IsTable
  <2> QED BY <1>3, <2>1, NoCallsAt DEF RoutesAreAlive
<1> QED BY <1>3, <1>5, <1>6 DEF NhiInv

\* tbm_delete_prefix.
LEMMA DeleteNhi ==
  ASSUME Inv, NhiInv, NEW p \in Inputs, Delete(p)
  PROVE  /\ NhiInv'
         /\ \A n \in NHI \cup {NULL} :
              calls'[n] > 0 => /\ calls'[n] = 1
                               /\ n \in NextHops(Routes) \ NextHops(Routes')
<1>1. /\ p \in DOMAIN Routes /\ Routes' = Remove(Routes, p)
      /\ calls' = NoCalls \/ (DestroyNhi /\ calls' = CallOnce(Routes[p]))
  BY DeleteCalls
<1>2. IsTable(Routes) /\ NextHops(Routes) \subseteq NHI
  BY RouteHops
<1>3. Routes[p] \in NHI
  BY <1>1, <1>2, TableEntry
<1>4. /\ DOMAIN Routes' = DOMAIN Routes \ {p}
      /\ \A q \in DOMAIN Routes \ {p} : Routes'[q] = Routes[q]
      /\ NextHops(Routes') \subseteq NextHops(Routes)
  BY <1>1 DEF NextHops, Remove
<1>5. OwnNextHops'
  BY <1>4 DEF NhiInv, OwnNextHops
<1>6. CASE calls' = NoCalls
  <2>1. \A n \in NHI \cup {NULL} : calls'[n] = 0
    BY <1>6, NoCallsAt
  <2> QED BY <1>2, <1>4, <1>5, <2>1 DEF NhiInv, RoutesAreAlive
<1>7. CASE DestroyNhi /\ calls' = CallOnce(Routes[p])
  <2>1. \A q \in DOMAIN Routes : Routes[q] = Routes[p] => q = p
    BY <1>1, <1>7 DEF NhiInv, OwnNextHops
  <2>2. Routes[p] \in NextHops(Routes) \ NextHops(Routes')
    BY <1>1, <2>1, RemoveOwn
  <2>3. \A n \in NHI \cup {NULL} : calls'[n] = IF n = Routes[p] THEN 1 ELSE 0
    BY <1>3, <1>7, CallOnceAt
  <2>4. Routes[p] # NULL
    BY <1>3, NullAssumption
  <2>5. RoutesAreAlive'
    BY <1>2, <1>4, <2>2, <2>3, <2>4 DEF RoutesAreAlive
  <2> QED BY <1>5, <2>2, <2>3, <2>5 DEF NhiInv
<1> QED BY <1>1, <1>6, <1>7

\* tbm_destroy_trie.
LEMMA DestroyNhis ==
  ASSUME Inv, NhiInv, Destroy
  PROVE  /\ NhiInv'
         /\ \A n \in NHI \cup {NULL} :
              calls'[n] > 0 => /\ calls'[n] = 1
                               /\ n \in NextHops(Routes) \ NextHops(Routes')
<1>1. \A n \in NHI \cup {NULL} :
        /\ DOMAIN Routes' = {}
        /\ calls'[n] \in {0, 1}
        /\ calls'[n] = 1 => n \in NextHops(Routes)
        /\ calls'[NULL] = 0
  BY DestroyCalls DEF NhiInv
<1>2. DOMAIN Routes' = {} /\ calls'[NULL] = 0
  BY <1>1
<1>3. NextHops(Routes') = {}
  BY <1>2 DEF NextHops
<1>4. NhiInv'
  BY <1>2, <1>3 DEF NhiInv, OwnNextHops, RoutesAreAlive
<1> QED BY <1>1, <1>3, <1>4

\* Every step keeps NhiInv, and destroys only next hops whose route is gone.
LEMMA StepNhi ==
  ASSUME Inv, NhiInv, [Next]_vars
  PROVE  /\ NhiInv'
         /\ [\A n \in NHI \cup {NULL} :
               calls'[n] > 0 =>
                 /\ calls'[n] = 1
                 /\ n \in NextHops(Routes) \ NextHops(Routes')]_vars
<1>1. CASE InitTrie
  <2>1. DOMAIN Routes' = {} /\ calls' = NoCalls
    BY <1>1, EmptyTrieOK, Zenon DEF InitTrie, Routes
  <2>2. NextHops(Routes)' = {}
    BY <2>1 DEF NextHops
  <2>3. NhiInv'
    BY <2>1, <2>2, NoCallsAt DEF NhiInv, OwnNextHops, RoutesAreAlive
  <2> QED BY <2>1, <2>3, NoCallsAt
<1>2. ASSUME NEW p \in Inputs, NEW nhi \in NHI, Insert(p, nhi)
      PROVE  NhiInv' /\ calls' = NoCalls
  BY <1>2, InsertNhi
<1>3. CASE \E p \in Inputs : Delete(p)
  BY <1>3, DeleteNhi
<1>4. CASE Destroy
  BY <1>4, DestroyNhis
<1>5. CASE UNCHANGED vars
  <2>1. NhiInv'
    BY <1>5, Zenon DEF vars, NhiInv, OwnNextHops, RoutesAreAlive, Routes
  <2> QED BY <1>5, <2>1
<1> QED BY <1>1, <1>2, <1>3, <1>4, <1>5, NoCallsAt DEF Next

\* Routes have next hops of their own, and none of them has been destroyed.
THEOREM NhiInvAlways == Spec => [](Inv /\ NhiInv)
<1>1. Init => NhiInv
  <2> SUFFICES ASSUME Init
               PROVE  NhiInv
    OBVIOUS
  <2>1. DOMAIN Routes = {} /\ calls = NoCalls
    BY EmptyTrieOK, Zenon DEF Init, Routes
  <2>2. NextHops(Routes) = {}
    BY <2>1 DEF NextHops
  <2> QED BY <2>1, <2>2, NoCallsAt DEF NhiInv, OwnNextHops, RoutesAreAlive
<1>2. Inv /\ NhiInv /\ [Next]_vars => NhiInv'
  BY StepNhi
<1> QED BY <1>1, <1>2, InvAlways, PTL DEF Spec

\* A next hop that destroy_nhi was given is nowhere in the table: not in an
\* entry, not in the trie of one, and not in up_aux.
THEOREM DestroyedAreGone == Spec => []NoDestroyedNhiIsStored
<1>1. Inv /\ NhiInv => NoDestroyedNhiIsStored
  BY StoredAreRoutes DEF NhiInv, RoutesAreAlive, NoDestroyedNhiIsStored
<1> QED BY <1>1, NhiInvAlways, PTL

\* destroy_nhi is called once for a route at most, by the operation that takes
\* the route away, although a short route is stored in many entries.
THEOREM OneDestroyForARoute == Spec => DestroyedOnce
<1>1. Inv /\ NhiInv /\ [Next]_vars =>
        [\A n \in NHI \cup {NULL} :
           calls'[n] > 0 =>
             /\ calls'[n] = 1
             /\ n \in NextHops(Routes) \ NextHops(Routes')]_vars
  BY StepNhi
<1> QED BY <1>1, NhiInvAlways, PTL DEF Spec, DestroyedOnce

-----------------------------------------------------------------------------
\* An entry that loses its child keeps the prefix_hi that is written into it.
LEMMA EmptiedHi ==
  ASSUME NEW e, NEW g, NEW n, NEW x, NEW h
  PROVE  /\ [SetPtr(SetNode(e, g, n), x) EXCEPT !.child = FALSE].hi = g
         /\ [SetPtr(SetNode(e, g, n), x) EXCEPT !.hi = h, !.child = FALSE].hi = h
<1> DEFINE t == SetNode(e, g, n)
           c == t.child
           d == SetPtr(t, x)
           m == [n EXCEPT !.enl = {}]
<1>1. t = EntryOf(g, c, NULL, n)
  BY Zenon DEF SetNode, EntryOf
<1> HIDE DEF t, c
<1>2. d = [hi |-> g, child |-> c, ptr |-> x, node |-> m]
  <2>1. SetPtr(EntryOf(g, c, NULL, n), x) = EntryOf(g, c, x, [n EXCEPT !.enl = {}])
    BY SetPtrFields
  <2> QED BY <1>1, <2>1 DEF EntryOf
<1> HIDE DEF d, m
<1>3. [d EXCEPT !.child = FALSE].hi = g
  BY <1>2
<1>4. [d EXCEPT !.hi = h, !.child = FALSE].hi = h
  BY <1>2
<1> QED BY <1>3, <1>4 DEF d, t

\* An entry that holds a node has a child.
LEMMA SetNodeChild ==
  ASSUME NEW e, NEW h, NEW n
  PROVE  SetNode(e, h, n).child
BY DEF SetNode

\* An entry that loses its child in a step has prefix_hi 0 after it.
LEMMA StepEmptied ==
  ASSUME Inv, Next, NEW s \in Slot, init[s].child, ~ init'[s].child
  PROVE  init'[s].hi = 0
<1> DEFINE R == up_aux.inl
           e == init[s]
<1>1. /\ IsTrie(up_aux) /\ Trim(up_aux) /\ IsTable(R)
      /\ init = [r \in Slot |-> init[r]]
      /\ EntryFits(e, R, s)
  BY Zenon DEF Inv, IsTrie
<1>2. CASE InitTrie \/ Destroy
  <2>1. init'[s] = NoEntry
    BY <1>2 DEF InitTrie, Destroy
  <2> QED BY <2>1 DEF NoEntry
<1>3. ASSUME NEW p \in Inputs, NEW nhi \in NHI, Insert(p, nhi)
      PROVE  FALSE
  <2>1. CASE InsertShort(p, nhi)
    <3>1. init'[s] = IF s \in SlotsOf(p) THEN ExpandInto(e, Len(p), nhi) ELSE e
      BY <2>1 DEF InsertShort
    <3>2. ExpandInto(e, Len(p), nhi).child
      <4> HIDE DEF e
      <4>1. e.child
        BY DEF e
      <4>2. \/ ExpandInto(e, Len(p), nhi) = e
            \/ ExpandInto(e, Len(p), nhi) =
                 SetNode(e, Len(p), InsertPrefix(NodeIn(e), <<>>, nhi))
        BY <4>1 DEF ExpandInto
      <4> QED BY <4>1, <4>2, SetNodeChild
    <3> QED BY <3>1, <3>2
  <2>2. CASE InsertLong(p, nhi)
    <3>1. \/ init'[s] = e
          \/ init'[s] = InsertBelow(e, Drop(p, INITIAL_BITS), nhi)
      BY <1>1, <2>2 DEF InsertLong
    <3>2. InsertBelow(e, Drop(p, INITIAL_BITS), nhi).child
      BY SetNodeChild DEF InsertBelow
    <3> QED BY <3>1, <3>2
  <2> QED BY <1>3, <2>1, <2>2 DEF Insert
<1>4. ASSUME NEW p \in Inputs, Delete(p)
      PROVE  init'[s].hi = 0
  <2> DEFINE near == DetectOverlap(up_aux, p, INITIAL_BITS)
  <2>1. CASE DeleteShort(p)
    <3>1. init'[s] = IF s \in SlotsOf(p) THEN Uncover(e, Len(p), near) ELSE e
      BY <2>1 DEF DeleteShort
    <3>2. init'[s] = Uncover(e, Len(p), near)
      BY <3>1
    <3> DEFINE del == DeletePrefix(NodeIn(e), <<>>)
               f   == SetNode(e, 0, del.trie)
    <3>3. \/ Uncover(e, Len(p), near) = e
          \/ Uncover(e, Len(p), near) =
               SetNode(e, near.mask, [NodeIn(e) EXCEPT !.inl[<<>>] = near.nhi])
          \/ Uncover(e, Len(p), near) = f
          \/ Uncover(e, Len(p), near) = [SetPtr(f, NULL) EXCEPT !.child = FALSE]
      <4>1. e.child
        OBVIOUS
      <4> HIDE DEF e, near
      <4> QED BY <4>1, Zenon DEF Uncover
    <3>4. [SetPtr(f, NULL) EXCEPT !.child = FALSE].hi = 0
      BY EmptiedHi
    <3>5. f.child /\ SetNode(e, near.mask,
                             [NodeIn(e) EXCEPT !.inl[<<>>] = near.nhi]).child
      BY SetNodeChild
    <3> HIDE DEF e, f, near
    <3> QED BY <3>2, <3>3, <3>4, <3>5 DEF e
  <2>2. CASE DeleteLong(p)
    <3> DEFINE r == SlotAt(p)
               rest == Drop(p, INITIAL_BITS)
               del == DeletePrefix(NodeIn(e), rest)
               f == SetNode(e, e.hi, del.trie)
    <3>1. p \in Prefix /\ Len(p) > INITIAL_BITS /\ p \in DOMAIN R
      BY <1>4, <2>2, InputsAssumption DEF Delete, DeleteLong, PrefixExist
    <3>2. CASE s # r
      BY <1>1, <2>2, <3>2 DEF DeleteLong
    <3>3. CASE s = r
      <4>1. init'[s] = DeleteBelow(e, rest, near)
        BY <1>1, <2>2, <3>3 DEF DeleteLong
      <4>2. DeleteBelow(e, rest, near) =
              IF del.empty
              THEN [SetPtr(f, near.nhi) EXCEPT !.hi = near.mask, !.child = FALSE]
              ELSE f
        BY Zenon DEF DeleteBelow
      <4>3. [SetPtr(f, near.nhi) EXCEPT !.hi = near.mask, !.child = FALSE].hi = near.mask
        BY EmptiedHi
      <4>4. f.child
        BY SetNodeChild
      <4>5. NodeIn(e) = e.node /\ IsTrie(e.node) /\ NodeFits(e.node, R, SlotAt(p))
        BY <1>1, <3>3, ChildEntry
      <4>6. del.empty => ShortLens(R, SlotAt(p)) = {}
        <5> HIDE DEF e, R
        <5> QED BY <1>1, <3>1, <4>5, BelowRemove
      <4>7. del.empty => near.mask = 0
        BY <1>1, <3>1, <4>6, NothingOver
      <4>8. ~ init'[s].child
        OBVIOUS
      <4> DEFINE g == [SetPtr(f, near.nhi) EXCEPT !.hi = near.mask, !.child = FALSE]
                 empty == del.empty
                 mask == near.mask
      <4>9. init'[s] = IF empty THEN g ELSE f
        BY <4>1, <4>2
      <4>10. g.hi = mask /\ (empty => mask = 0)
        BY <4>3, <4>7
      <4> HIDE DEF f, g, empty, mask
      <4> QED BY <4>4, <4>8, <4>9, <4>10
    <3> QED BY <3>2, <3>3
  <2> QED BY <1>4, <2>1, <2>2 DEF Delete
<1> QED BY <1>2, <1>3, <1>4 DEF Next

\* The fallback for an entry whose trie empties when a long route goes is never
\* needed: the rule of length 0 would have kept the trie.
THEOREM FallbackIsUnneeded == Spec => EmptiedEntryIsUncovered
<1>1. Inv /\ [Next]_vars =>
        [\A s \in Slot : init[s].child /\ ~ init'[s].child => init'[s].hi = 0]_vars
  BY StepEmptied
<1> QED BY <1>1, InvAlways, PTL DEF Spec, EmptiedEntryIsUncovered

-----------------------------------------------------------------------------
(***************************************************************************)
(* A batch: what is dealt out to a position is the result for the address  *)
(* packed from there.                                                      *)
(***************************************************************************)
Rank(ip, i) == Cardinality({k \in 1 .. i : HasChild(ip, k)})

\* One turn of the loop that packs.
LEMMA PackedTurn ==
  ASSUME NEW ip
  PROVE  /\ Packed(ip, 0) = <<>>
         /\ \A n \in Nat :
              /\ Packed(ip, n) \in Seq(Nat)
              /\ Packed(ip, n + 1) = IF HasChild(ip, n + 1)
                                     THEN Append(Packed(ip, n), n + 1)
                                     ELSE Packed(ip, n)
<1> DEFINE Has(i) == HasChild(ip, i)
           D == Seq(Nat)
           step == [x \in D \X Nat |-> IF Has(x[2]) THEN Append(x[1], x[2]) ELSE x[1]]
           mb == CHOOSE g : g = [i \in Nat |->
                   IF i = 0 THEN <<>>
                   ELSE IF HasChild(ip, i) THEN Append(g[i - 1], i) ELSE g[i - 1]]
<1> HIDE DEF Has
<1>1. step \in [D \X Nat -> D]
  <2>1. ASSUME NEW x \in D \X Nat
        PROVE  (IF Has(x[2]) THEN Append(x[1], x[2]) ELSE x[1]) \in D
    OBVIOUS
  <2> QED BY <2>1
<1>2. PICK f : GoesOn(f, D, <<>>, step)
  <2>1. <<>> \in D
    OBVIOUS
  <2> HIDE DEF step, D
  <2> QED BY <1>1, <2>1, RecursionOnNat
<1>3. /\ f \in [Nat -> D] /\ f[0] = <<>>
      /\ \A k \in Nat :
           f[k + 1] = IF Has(k + 1) THEN Append(f[k], k + 1) ELSE f[k]
  <2>1. /\ f \in [Nat -> D] /\ f[0] = <<>>
        /\ \A k \in Nat : f[k + 1] = step[<<f[k], k + 1>>]
    BY <1>2 DEF GoesOn
  <2>2. ASSUME NEW k \in Nat
        PROVE  f[k + 1] = IF Has(k + 1) THEN Append(f[k], k + 1) ELSE f[k]
    <3>1. f[k] \in D /\ k + 1 \in Nat
      BY <2>1
    <3>2. <<f[k], k + 1>> \in D \X Nat
      BY <3>1
    <3>3. step[<<f[k], k + 1>>] = IF Has(k + 1) THEN Append(f[k], k + 1) ELSE f[k]
      BY <3>1, <3>2
    <3> QED BY <2>1, <3>3
  <2> QED BY <2>1, <2>2
<1> HIDE DEF D, step
<1>4. f = [i \in Nat |-> IF i = 0 THEN <<>>
                         ELSE IF Has(i) THEN Append(f[i - 1], i) ELSE f[i - 1]]
  <2>1. ASSUME NEW i \in Nat
        PROVE  f[i] = IF i = 0 THEN <<>>
                      ELSE IF Has(i) THEN Append(f[i - 1], i) ELSE f[i - 1]
    <3>1. CASE i = 0
      BY <1>3, <3>1
    <3>2. CASE i # 0
      <4>1. i - 1 \in Nat /\ (i - 1) + 1 = i
        BY <3>2
      <4>2. f[(i - 1) + 1] = IF Has((i - 1) + 1) THEN Append(f[i - 1], (i - 1) + 1)
                             ELSE f[i - 1]
        BY <1>3, <4>1
      <4> QED BY <3>2, <4>1, <4>2
    <3> QED BY <3>1, <3>2
  <2>2. f = [i \in Nat |-> f[i]]
    BY <1>3
  <2> QED BY <2>1, <2>2, Zenon
<1>5. mb = [i \in Nat |-> IF i = 0 THEN <<>>
                          ELSE IF Has(i) THEN Append(mb[i - 1], i) ELSE mb[i - 1]]
  BY <1>4, Zenon DEF Has
<1>6. \A n : Packed(ip, n) = mb[n]
  BY Zenon DEF Packed
<1> HIDE DEF mb
<1>7. /\ mb[0] = <<>>
      /\ \A n \in Nat : mb[n + 1] = IF Has(n + 1) THEN Append(mb[n], n + 1) ELSE mb[n]
  <2>1. \A i \in Nat : mb[i] = IF i = 0 THEN <<>>
                               ELSE IF Has(i) THEN Append(mb[i - 1], i) ELSE mb[i - 1]
    BY <1>5
  <2>2. mb[0] = <<>>
    BY <2>1
  <2>3. ASSUME NEW n \in Nat
        PROVE  mb[n + 1] = IF Has(n + 1) THEN Append(mb[n], n + 1) ELSE mb[n]
    <3>1. n + 1 \in Nat /\ n + 1 # 0 /\ (n + 1) - 1 = n
      OBVIOUS
    <3> QED BY <2>1, <3>1
  <2> QED BY <2>2, <2>3
<1>8. \A n \in Nat : mb[n] \in Seq(Nat)
  <2> DEFINE S == {n \in Nat : mb[n] \in Seq(Nat)}
  <2>1. 0 \in S
    <3>1. <<>> \in Seq(Nat) /\ 0 \in Nat
      OBVIOUS
    <3> QED BY <1>7, <3>1
  <2>2. ASSUME NEW n \in S PROVE n + 1 \in S
    <3>1. n \in Nat /\ n + 1 \in Nat /\ mb[n] \in Seq(Nat)
      OBVIOUS
    <3>2. Append(mb[n], n + 1) \in Seq(Nat)
      BY <3>1
    <3> QED BY <1>7, <3>1, <3>2
  <2>3. S \subseteq Nat
    OBVIOUS
  <2> HIDE DEF S
  <2>4. S = Nat
    BY <2>1, <2>2, <2>3, NatIsClosure
  <2> QED BY <2>4 DEF S
<1> QED BY <1>6, <1>7, <1>8 DEF Has

\* One position more.
LEMMA RankTurn ==
  ASSUME NEW ip
  PROVE  /\ Rank(ip, 0) = 0
         /\ \A n \in Nat :
              /\ Rank(ip, n) \in Nat
              /\ Rank(ip, n + 1) = IF HasChild(ip, n + 1) THEN Rank(ip, n) + 1
                                   ELSE Rank(ip, n)
<1> DEFINE R(i) == {k \in 1 .. i : HasChild(ip, k)}
<1>1. R(0) = {}
  OBVIOUS
<1>2. ASSUME NEW n \in Nat
      PROVE  /\ IsFiniteSet(R(n)) /\ n + 1 \notin R(n)
             /\ R(n + 1) = IF HasChild(ip, n + 1) THEN R(n) \cup {n + 1} ELSE R(n)
  <2>1. 1 .. n + 1 = (1 .. n) \cup {n + 1} /\ n + 1 \notin 1 .. n
    OBVIOUS
  <2>2. IsFiniteSet(1 .. n) /\ R(n) \in SUBSET (1 .. n)
    BY FS_Interval
  <2>3. IsFiniteSet(R(n))
    BY <2>2, FS_Subset
  <2>4. R(n + 1) = IF HasChild(ip, n + 1) THEN R(n) \cup {n + 1} ELSE R(n)
    BY <2>1
  <2> QED BY <2>1, <2>3, <2>4
<1> HIDE DEF R
<1>3. \A i : Rank(ip, i) = Cardinality(R(i))
  BY DEF Rank, R
<1>4. Cardinality(R(0)) = 0
  BY <1>1, FS_EmptySet
<1>5. ASSUME NEW n \in Nat
      PROVE  /\ Cardinality(R(n)) \in Nat
             /\ Cardinality(R(n + 1)) = IF HasChild(ip, n + 1)
                                        THEN Cardinality(R(n)) + 1
                                        ELSE Cardinality(R(n))
  <2>1. Cardinality(R(n)) \in Nat
    BY <1>2, FS_CardinalityType
  <2>2. Cardinality(R(n) \cup {n + 1}) = Cardinality(R(n)) + 1
    BY <1>2, FS_AddElement
  <2> QED BY <1>2, <2>1, <2>2
<1> QED BY <1>3, <1>4, <1>5

\* A position is packed at its rank.
LEMMA PackedAtRank ==
  ASSUME NEW ip
  PROVE  \A n \in Nat :
           /\ Len(Packed(ip, n)) = Rank(ip, n)
           /\ \A i \in 1 .. n : HasChild(ip, i) =>
                /\ Rank(ip, i) \in 1 .. Len(Packed(ip, n))
                /\ Packed(ip, n)[Rank(ip, i)] = i
<1> DEFINE P(n) == /\ Len(Packed(ip, n)) = Rank(ip, n)
                   /\ \A i \in 1 .. n : HasChild(ip, i) =>
                        /\ Rank(ip, i) \in 1 .. Len(Packed(ip, n))
                        /\ Packed(ip, n)[Rank(ip, i)] = i
           S == {n \in Nat : P(n)}
<1>1. 0 \in S
  <2>1. Packed(ip, 0) = <<>> /\ Rank(ip, 0) = 0
    BY PackedTurn, RankTurn
  <2> QED BY <2>1
<1>2. ASSUME NEW n \in S PROVE n + 1 \in S
  <2> DEFINE s == Packed(ip, n)
             t == Packed(ip, n + 1)
             r == Rank(ip, n)
  <2>1. n \in Nat /\ n + 1 \in Nat /\ P(n)
    OBVIOUS
  <2>2. /\ s \in Seq(Nat)
        /\ t = IF HasChild(ip, n + 1) THEN Append(s, n + 1) ELSE s
    BY <2>1, PackedTurn
  <2>3. /\ r \in Nat
        /\ Rank(ip, n + 1) = IF HasChild(ip, n + 1) THEN r + 1 ELSE r
    BY <2>1, RankTurn
  <2>4. /\ Len(s) = r
        /\ \A i \in 1 .. n : HasChild(ip, i) =>
             Rank(ip, i) \in 1 .. Len(s) /\ s[Rank(ip, i)] = i
    BY <2>1
  <2> HIDE DEF s, t, r
  <2>5. CASE HasChild(ip, n + 1)
    <3>1. t \in Seq(Nat) /\ Len(t) = Len(s) + 1 /\ t[Len(s) + 1] = n + 1
          /\ \A j \in 1 .. Len(s) : t[j] = s[j]
      BY <2>1, <2>2, <2>5, AppendProperties
    <3>2. Len(t) = Rank(ip, n + 1) /\ Rank(ip, n + 1) = r + 1
      BY <2>3, <2>4, <2>5, <3>1
    <3>3. ASSUME NEW i \in 1 .. n + 1, HasChild(ip, i)
          PROVE  Rank(ip, i) \in 1 .. Len(t) /\ t[Rank(ip, i)] = i
      <4>1. CASE i = n + 1
        <5>1. Rank(ip, i) = Len(s) + 1
          BY <2>4, <3>2, <4>1
        <5>2. Len(s) + 1 \in 1 .. Len(t)
          BY <2>3, <2>4, <3>1
        <5> QED BY <3>1, <4>1, <5>1, <5>2
      <4>2. CASE i # n + 1
        <5>1. i \in 1 .. n
          BY <2>1, <4>2
        <5>2. Rank(ip, i) \in 1 .. Len(s) /\ s[Rank(ip, i)] = i
          BY <2>4, <3>3, <5>1
        <5>3. Rank(ip, i) \in 1 .. Len(t)
          BY <2>3, <2>4, <3>1, <5>2
        <5> QED BY <3>1, <5>2, <5>3
      <4> QED BY <4>1, <4>2
    <3> QED BY <2>1, <3>2, <3>3 DEF t
  <2>6. CASE ~ HasChild(ip, n + 1)
    <3>1. t = s /\ Rank(ip, n + 1) = r
      BY <2>2, <2>3, <2>6
    <3>2. ASSUME NEW i \in 1 .. n + 1, HasChild(ip, i)
          PROVE  Rank(ip, i) \in 1 .. Len(t) /\ t[Rank(ip, i)] = i
      <4>1. i # n + 1
        BY <2>6, <3>2
      <4>2. i \in 1 .. n
        BY <2>1, <4>1
      <4> QED BY <2>4, <3>1, <3>2, <4>2
    <3> QED BY <2>1, <2>4, <3>1, <3>2 DEF t
  <2> QED BY <2>5, <2>6
<1>3. S \subseteq Nat
  OBVIOUS
<1> HIDE DEF S
<1>4. S = Nat
  BY <1>1, <1>2, <1>3, NatIsClosure
<1> QED BY <1>4 DEF S

\* tbm_search_batch answers each address like tbm_search, however addresses with
\* and without a trie below their entry are mixed (tbm/tbmv4.c:318-354).
THEOREM BatchIsSearch == Spec => []BatchMatchesSearch
<1>1. ASSUME NEW ip \in Seq(Address)
      PROVE  TbmSearchBatch(ip) = [i \in DOMAIN ip |-> TbmSearch(ip[i])]
  <2> DEFINE mb == Packed(ip, Len(ip))
             mb_ret == SearchPacked(ip, mb)
  <2>1. Len(ip) \in Nat /\ DOMAIN ip = 1 .. Len(ip)
    OBVIOUS
  <2>2. mb \in Seq(Nat)
    BY <2>1, PackedTurn
  <2>3. DOMAIN mb = 1 .. Len(mb)
    <3> HIDE DEF mb
    <3> QED BY <2>2
  <2>4. ASSUME NEW i \in DOMAIN ip, HasChild(ip, i)
        PROVE  mb_ret[Rank(ip, i)] = TbmSearch(ip[i])
    <3>1. Rank(ip, i) \in DOMAIN mb /\ mb[Rank(ip, i)] = i
      BY <2>1, <2>3, <2>4, PackedAtRank
    <3> HIDE DEF mb
    <3>2. mb_ret[Rank(ip, i)] =
            Search(NodeIn(init[SlotAt(ip[i])]), Drop(ip[i], INITIAL_BITS))
      BY <3>1 DEF SearchPacked
    <3> QED BY <2>4, <3>2 DEF TbmSearch, HasChild
  <2>5. ASSUME NEW i \in DOMAIN ip, ~ HasChild(ip, i)
        PROVE  init[SlotAt(ip[i])].ptr = TbmSearch(ip[i])
    BY <2>5 DEF TbmSearch, HasChild
  <2> HIDE DEF mb_ret
  <2>6. TbmSearchBatch(ip) =
          [i \in DOMAIN ip |->
             IF HasChild(ip, i) THEN mb_ret[Rank(ip, i)]
             ELSE init[SlotAt(ip[i])].ptr]
    BY DEF TbmSearchBatch, Rank, mb_ret
  <2> QED BY <2>4, <2>5, <2>6
<1>2. BatchMatchesSearch
  BY <1>1, BatchesAssumption DEF BatchMatchesSearch
<1>3. []BatchMatchesSearch
  BY <1>2, PTL
<1> QED BY <1>3

-----------------------------------------------------------------------------
\* Shifts of a string of bits.
LEMMA ShiftBits ==
  ASSUME NEW b \in Bits, NEW n \in 0 .. Len(b)
  PROVE  /\ rshift_ipv6(b, n) \in Bits
         /\ Len(rshift_ipv6(b, n)) = Len(b)
         /\ \A k \in 1 .. Len(b) - n : rshift_ipv6(b, n)[n + k] = b[k]
         /\ lshift_ipv6(b, n) \in Bits
         /\ Len(lshift_ipv6(b, n)) = Len(b)
         /\ \A k \in 1 .. Len(b) - n : lshift_ipv6(b, n)[k] = b[n + k]
<1>1. Len(b) \in Nat /\ n \in Nat /\ DOMAIN b = 1 .. Len(b)
  BY LenProperties DEF Bits
<1>2. \A k \in 1 .. Len(b) : b[k] \in Bit BY ElementOfSeq DEF Bits
<1>3. rshift_ipv6(b, n) \in [1 .. Len(b) -> Bit]
  <2>1. \A k \in 1 .. Len(b) : (IF k <= n THEN 0 ELSE b[k - n]) \in Bit
    <3> TAKE k \in 1 .. Len(b)
    <3>1. CASE k <= n BY <3>1 DEF Bit
    <3>2. CASE ~ k <= n
      <4>1. k - n \in 1 .. Len(b) BY <1>1, <3>2
      <4> QED BY <1>2, <3>2, <4>1
    <3> QED BY <3>1, <3>2
  <2> QED BY <1>1, <2>1 DEF rshift_ipv6
<1>4. lshift_ipv6(b, n) \in [1 .. Len(b) -> Bit]
  <2>1. \A k \in 1 .. Len(b) : (IF k + n <= Len(b) THEN b[k + n] ELSE 0) \in Bit
    <3> TAKE k \in 1 .. Len(b)
    <3>1. CASE k + n <= Len(b)
      <4>1. k + n \in 1 .. Len(b) BY <1>1, <3>1
      <4> QED BY <1>2, <3>1, <4>1
    <3>2. CASE ~ k + n <= Len(b) BY <3>2 DEF Bit
    <3> QED BY <3>1, <3>2
  <2> QED BY <1>1, <2>1 DEF lshift_ipv6
<1>5. /\ rshift_ipv6(b, n) \in Bits /\ Len(rshift_ipv6(b, n)) = Len(b)
      /\ lshift_ipv6(b, n) \in Bits /\ Len(lshift_ipv6(b, n)) = Len(b)
  BY <1>1, <1>3, <1>4, BitStringsIsBits DEF BitStrings
<1>6. \A k \in 1 .. Len(b) - n : rshift_ipv6(b, n)[n + k] = b[k]
  <2> TAKE k \in 1 .. Len(b) - n
  <2>1. n + k \in 1 .. Len(b) /\ ~ n + k <= n /\ (n + k) - n = k BY <1>1
  <2> QED BY <1>1, <2>1 DEF rshift_ipv6
<1>7. \A k \in 1 .. Len(b) - n : lshift_ipv6(b, n)[k] = b[n + k]
  <2> TAKE k \in 1 .. Len(b) - n
  <2>1. k \in 1 .. Len(b) /\ k + n <= Len(b) /\ k + n = n + k BY <1>1
  <2> QED BY <1>1, <2>1 DEF lshift_ipv6
<1> QED BY <1>5, <1>6, <1>7

\* The index is made of the leading bits of the address.
LEMMA IndexBits ==
  ASSUME NEW p \in Prefix
  PROVE  Index(IpOf(p)) = Take(IpOf(p), INITIAL_BITS)
<1> DEFINE ip == IpOf(p)
           n  == LENGTH - INITIAL_BITS
<1>1. LENGTH \in Nat /\ INITIAL_BITS \in 1 .. LENGTH - 1
  BY LengthAssumption, InitialBitsAssumption
<1>2. ip \in Bits /\ Len(ip) = LENGTH BY IpBits
<1>3. n \in 0 .. LENGTH /\ INITIAL_BITS \in 0 .. LENGTH
      /\ LENGTH - n = INITIAL_BITS
  BY <1>1
<1>4. /\ rshift_ipv6(ip, n) \in Bits
      /\ Len(rshift_ipv6(ip, n)) = LENGTH
      /\ \A k \in 1 .. INITIAL_BITS : rshift_ipv6(ip, n)[n + k] = ip[k]
  BY <1>2, <1>3, ShiftBits
<1>5. /\ Drop(rshift_ipv6(ip, n), n) \in Bits
      /\ Len(Drop(rshift_ipv6(ip, n), n)) = INITIAL_BITS
      /\ \A k \in 1 .. INITIAL_BITS :
           Drop(rshift_ipv6(ip, n), n)[k] = rshift_ipv6(ip, n)[n + k]
  <2> DEFINE r == rshift_ipv6(ip, n)
  <2>1. r \in Bits /\ Len(r) = LENGTH BY <1>4
  <2>2. n \in 0 .. Len(r) /\ Len(r) - n = INITIAL_BITS BY <1>3, <2>1
  <2> HIDE DEF r, n
  <2>3. /\ Drop(r, n) \in Bits
        /\ Len(Drop(r, n)) = Len(r) - n
        /\ \A k \in 1 .. Len(r) - n : Drop(r, n)[k] = r[n + k]
    BY <2>1, <2>2, DropBits
  <2>4. /\ Drop(r, n) \in Bits
        /\ Len(Drop(r, n)) = INITIAL_BITS
        /\ \A k \in 1 .. INITIAL_BITS : Drop(r, n)[k] = r[n + k]
    BY <2>2, <2>3
  <2> QED BY <2>4 DEF r
<1>6. /\ Take(ip, INITIAL_BITS) \in Bits
      /\ Len(Take(ip, INITIAL_BITS)) = INITIAL_BITS
      /\ \A k \in 1 .. INITIAL_BITS : Take(ip, INITIAL_BITS)[k] = ip[k]
  BY <1>2, <1>3, TakeBits
<1>7. Drop(rshift_ipv6(ip, n), n) = Take(ip, INITIAL_BITS)
  BY <1>4, <1>5, <1>6, BitsEqual
<1> QED BY <1>7 DEF Index

\* A short prefix is expanded to the slots it covers.
LEMMA ExpandedIsSlots ==
  ASSUME NEW p \in Prefix, Len(p) <= INITIAL_BITS
  PROVE  Expanded(IpOf(p), Len(p)) = SlotsOf(p)
<1>1. LENGTH \in Nat /\ INITIAL_BITS \in 1 .. LENGTH - 1
  BY LengthAssumption, InitialBitsAssumption
<1>2. p \in Bits /\ Len(p) \in 0 .. LENGTH
      /\ IpOf(p) \in Bits /\ Len(IpOf(p)) = LENGTH
  BY IpBits
<1>3. INITIAL_BITS \in 0 .. Len(IpOf(p)) /\ Len(p) \in 0 .. INITIAL_BITS
  BY <1>1, <1>2
<1>4. Take(Index(IpOf(p)), Len(p)) = p
  <2>1. Take(Index(IpOf(p)), Len(p)) = Take(IpOf(p), Len(p))
    BY <1>2, <1>3, IndexBits, TakeTake
  <2>2. Len(p) \in 0 .. Len(p) BY <1>2
  <2> QED BY <1>2, <2>1, <2>2, IpTake, TakeAll
<1>5. \A s \in Slot : Len(s) = INITIAL_BITS BY SlotBits
<1> QED BY <1>3, <1>4, <1>5 DEF Expanded, SlotsOf, Covers

\* A long prefix has the slot of its leading bits, and the rest is handed on.
LEMMA LongParts ==
  ASSUME NEW p \in Prefix, Len(p) > INITIAL_BITS
  PROVE  /\ Index(IpOf(p)) = SlotAt(p)
         /\ Rest(IpOf(p), Len(p)) = Drop(p, INITIAL_BITS)
<1> DEFINE ip == IpOf(p)
           n  == Len(p) - INITIAL_BITS
<1>1. LENGTH \in Nat /\ INITIAL_BITS \in 1 .. LENGTH - 1
  BY LengthAssumption, InitialBitsAssumption
<1>2. /\ p \in Bits /\ Len(p) \in 0 .. LENGTH
      /\ ip \in Bits /\ Len(ip) = LENGTH
      /\ \A k \in 1 .. LENGTH : ip[k] = IF k <= Len(p) THEN p[k] ELSE 0
  BY IpBits
<1>3. INITIAL_BITS \in 0 .. Len(p) /\ INITIAL_BITS \in 0 .. LENGTH
      /\ n \in 0 .. LENGTH - INITIAL_BITS /\ n \in 0 .. LENGTH
  BY <1>1, <1>2
<1>4. Index(ip) = SlotAt(p)
  BY <1>3, IndexBits, IpTake DEF SlotAt
<1>5. /\ lshift_ipv6(ip, INITIAL_BITS) \in Bits
      /\ Len(lshift_ipv6(ip, INITIAL_BITS)) = LENGTH
      /\ \A k \in 1 .. LENGTH - INITIAL_BITS :
           lshift_ipv6(ip, INITIAL_BITS)[k] = ip[INITIAL_BITS + k]
  BY <1>2, <1>3, ShiftBits
<1>6. /\ Take(lshift_ipv6(ip, INITIAL_BITS), n) \in Bits
      /\ Len(Take(lshift_ipv6(ip, INITIAL_BITS), n)) = n
      /\ \A k \in 1 .. n : Take(lshift_ipv6(ip, INITIAL_BITS), n)[k] =
                             lshift_ipv6(ip, INITIAL_BITS)[k]
  BY <1>3, <1>5, TakeBits
<1>7. /\ Drop(p, INITIAL_BITS) \in Bits
      /\ Len(Drop(p, INITIAL_BITS)) = n
      /\ \A k \in 1 .. n : Drop(p, INITIAL_BITS)[k] = p[INITIAL_BITS + k]
  BY <1>2, <1>3, DropBits
<1>8. \A k \in 1 .. n : Take(lshift_ipv6(ip, INITIAL_BITS), n)[k] =
                          Drop(p, INITIAL_BITS)[k]
  <2> TAKE k \in 1 .. n
  <2>1. /\ k \in 1 .. LENGTH - INITIAL_BITS
        /\ INITIAL_BITS + k \in 1 .. LENGTH
        /\ INITIAL_BITS + k <= Len(p)
    BY <1>1, <1>2, <1>3
  <2>2. lshift_ipv6(ip, INITIAL_BITS)[k] = ip[INITIAL_BITS + k] BY <1>5, <2>1
  <2>3. ip[INITIAL_BITS + k] = p[INITIAL_BITS + k] BY <1>2, <2>1
  <2> QED BY <1>6, <1>7, <2>2, <2>3
<1>9. Take(lshift_ipv6(ip, INITIAL_BITS), n) = Drop(p, INITIAL_BITS)
  BY <1>6, <1>7, <1>8, BitsEqual
<1> QED BY <1>4, <1>9 DEF Rest

-----------------------------------------------------------------------------
\* tbmv6_insert_prefix does to its table what tbm_insert_prefix does.
LEMMA InsertV6IsInsert ==
  ASSUME NEW p \in Inputs, NEW nhi \in NHI, InsertV6(p, nhi)
  PROVE  Insert(p, nhi)
<1>1. p \in Prefix BY InputsAssumption
<1>2. CASE Len(p) <= INITIAL_BITS
  <2>1. InsertShort(p, nhi)
    <3>1. ~ Len(p) > INITIAL_BITS
      BY <1>1, <1>2, IpBits, InitialBitsAssumption, LengthAssumption
    <3> QED BY <1>1, <1>2, <3>1, ExpandedIsSlots DEF InsertV6, InsertShort
  <2> QED BY <2>1, Zenon DEF InsertV6, Insert
<1>3. CASE ~ Len(p) <= INITIAL_BITS
  <2>1. Len(p) > INITIAL_BITS
    BY <1>1, <1>3, IpBits, InitialBitsAssumption, LengthAssumption
  <2>2. init' = [init EXCEPT ![Index(IpOf(p))] =
                   InsertBelow(@, Rest(IpOf(p), Len(p)), nhi)]
    BY <1>3, Zenon DEF InsertV6
  <2>3. InsertLong(p, nhi) BY <1>1, <2>1, <2>2, LongParts DEF InsertLong
  <2> QED BY <2>3, Zenon DEF InsertV6, Insert
<1> QED BY <1>2, <1>3

\* And the other way round.
LEMMA InsertIsInsertV6 ==
  ASSUME NEW p \in Inputs, NEW nhi \in NHI, Insert(p, nhi)
  PROVE  InsertV6(p, nhi)
<1>1. p \in Prefix BY InputsAssumption
<1>2. CASE InsertShort(p, nhi)
  <2>1. /\ Len(p) <= INITIAL_BITS
        /\ init' = [s \in Slot |->
                      IF s \in SlotsOf(p) THEN ExpandInto(init[s], Len(p), nhi)
                      ELSE init[s]]
    BY <1>2, Zenon DEF InsertShort
  <2>2. init' = [s \in Slot |->
                   IF s \in Expanded(IpOf(p), Len(p))
                   THEN ExpandInto(init[s], Len(p), nhi)
                   ELSE init[s]]
    BY <1>1, <2>1, ExpandedIsSlots
  <2> QED BY <2>1, <2>2, Zenon DEF InsertV6, Insert
<1>3. CASE InsertLong(p, nhi)
  <2>1. /\ Len(p) > INITIAL_BITS
        /\ init' = [init EXCEPT ![SlotAt(p)] =
                      InsertBelow(@, Drop(p, INITIAL_BITS), nhi)]
    BY <1>3, Zenon DEF InsertLong
  <2>2. init' = [init EXCEPT ![Index(IpOf(p))] =
                   InsertBelow(@, Rest(IpOf(p), Len(p)), nhi)]
    BY <1>1, <2>1, LongParts
  <2> QED BY <2>1, <2>2, Zenon DEF InsertV6, Insert
<1> QED BY <1>2, <1>3, Zenon DEF Insert

\* tbmv6_delete_prefix does to its table what tbm_delete_prefix does.
LEMMA DeleteShortAgrees ==
  ASSUME NEW p \in Inputs
  PROVE  DeleteShortV6(p) <=> DeleteShort(p)
<1>1. p \in Prefix BY InputsAssumption
<1>2. Len(p) <= INITIAL_BITS => Expanded(IpOf(p), Len(p)) = SlotsOf(p)
  BY <1>1, ExpandedIsSlots
<1> QED BY <1>2 DEF DeleteShortV6, DeleteShort

\* And of a long prefix.
LEMMA DeleteLongAgrees ==
  ASSUME NEW p \in Inputs
  PROVE  DeleteLongV6(p) <=> DeleteLong(p)
<1>1. p \in Prefix BY InputsAssumption
<1>2. Len(p) > INITIAL_BITS =>
        /\ Index(IpOf(p)) = SlotAt(p)
        /\ Rest(IpOf(p), Len(p)) = Drop(p, INITIAL_BITS)
  BY <1>1, LongParts
<1> QED BY <1>2 DEF DeleteLongV6, DeleteRestV6, DeleteLong

\* Both together.
LEMMA DeleteV6IsDelete ==
  ASSUME NEW p \in Inputs, DeleteV6(p)
  PROVE  Delete(p)
BY DeleteShortAgrees, DeleteLongAgrees, Zenon DEF DeleteV6, Delete

\* And the other way round.
LEMMA DeleteIsDeleteV6 ==
  ASSUME NEW p \in Inputs, Delete(p)
  PROVE  DeleteV6(p)
BY DeleteShortAgrees, DeleteLongAgrees, Zenon DEF DeleteV6, Delete

\* Every behaviour of an IPv6 table is one of the IPv4 table for the same
\* number of bits, so that an IPv6 table is what its routes say it has to be.
THEOREM V6ImplementsTbm == SpecV6 => Spec
<1>1. [NextV6]_vars => [Next]_vars
  <2> SUFFICES ASSUME [NextV6]_vars PROVE [Next]_vars OBVIOUS
  <2>1. CASE \E p \in Inputs, nhi \in NHI : InsertV6(p, nhi)
    BY <2>1, InsertV6IsInsert DEF Next
  <2>2. CASE \E p \in Inputs : DeleteV6(p)
    BY <2>2, DeleteV6IsDelete DEF Next
  <2>3. CASE InitTrie \/ DestroyV6 \/ UNCHANGED vars
    BY <2>3 DEF Next, DestroyV6
  <2> QED BY <2>1, <2>2, <2>3 DEF NextV6
<1> QED BY <1>1, PTL DEF SpecV6, Spec

\* Whatever else an update of one of the tables does, the same arguments make it
\* an update of the other, for all lengths of addresses and indices.
THEOREM UpdatesAgree == Spec => UpdatesAreV6Updates
<1>1. ASSUME NEW p \in Inputs
      PROVE  /\ \A nhi \in NHI : Insert(p, nhi) <=> InsertV6(p, nhi)
             /\ Delete(p) <=> DeleteV6(p)
  BY InsertV6IsInsert, InsertIsInsertV6, DeleteV6IsDelete, DeleteIsDeleteV6
<1>2. [Next]_vars =>
        [\A p \in Inputs :
           /\ \A nhi \in NHI : Insert(p, nhi) <=> InsertV6(p, nhi)
           /\ Delete(p) <=> DeleteV6(p)]_vars
  BY <1>1
<1> QED BY <1>2, PTL DEF Spec, UpdatesAreV6Updates

\* The tries of an IPv6 table hold the long routes, its entries the best short
\* ones, and tbmv6_prefix_exist finds the routes.
THEOREM V6TableHolds ==
  SpecV6 => [](EntryMirrorsLong /\ EntryHoldsBestShort /\ ExistIsMembership)
BY V6ImplementsTbm, MirrorHolds, BestShortHolds, ExistCorrect, PTL

=============================================================================
