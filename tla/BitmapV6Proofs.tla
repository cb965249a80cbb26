--------------------------- MODULE BitmapV6Proofs ---------------------------
(***************************************************************************)
(* That the functions of lib/bitmap_v6.c, whose only means are shifts of   *)
(* two words, stay on the path of their argument, answer with the longest  *)
(* match, and change the rule they are called for: for words of every      *)
(* width, and every stride that fits one and a uint8_t.                    *)
(***************************************************************************)
EXTENDS BitmapV6, TrieProofs

-----------------------------------------------------------------------------
\* The two words of an address, as bits.
Hi(a) == Take(a, WORD)
Lo(a) == Drop(a, WORD)

\* An address has two words.
LEMMA WordFacts ==
  /\ WORD \in Nat /\ WORD >= 1 /\ LENGTH \in Nat /\ LENGTH = WORD + WORD
  /\ STRIDE \in Nat /\ STRIDE >= 1 /\ STRIDE <= 8 /\ STRIDE <= WORD
BY WordAssumption, LengthV6Assumption, StrideAssumption, StrideV6Assumption

\* The two words of an address are its halves.
LEMMA WordBits ==
  ASSUME NEW a \in Address
  PROVE  /\ a \in Bits /\ Len(a) = LENGTH
         /\ Hi(a) \in Bits /\ Len(Hi(a)) = WORD
         /\ \A k \in 1 .. WORD : Hi(a)[k] = a[k]
         /\ Lo(a) \in Bits /\ Len(Lo(a)) = WORD
         /\ \A k \in 1 .. WORD : Lo(a)[k] = a[WORD + k]
<1>1. a \in Bits /\ Len(a) = LENGTH
  BY WordFacts, BitStringsIsBits DEF Address
<1>2. WORD \in 0 .. Len(a) /\ Len(a) - WORD = WORD
  BY <1>1, WordFacts
<1> QED BY <1>1, <1>2, TakeBits, DropBits DEF Hi, Lo

\* The address that goes with a prefix, and with an address.
LEMMA IpAddress ==
  /\ \A p \in Prefix : IpOf(p) \in Address
  /\ \A a \in Address : a \in Prefix /\ IpOf(a) = a
<1>1. ASSUME NEW p \in Prefix PROVE IpOf(p) \in Address
  BY IpBits, WordFacts, BitStringsIsBits DEF Address
<1>2. ASSUME NEW a \in Address PROVE a \in Prefix /\ IpOf(a) = a
  <2>1. a \in Bits /\ Len(a) = LENGTH
    BY WordBits
  <2>2. a \in Prefix
    BY <2>1, PrefixIsBits, WordFacts
  <2>3. /\ IpOf(a) \in Bits /\ Len(IpOf(a)) = LENGTH
        /\ \A k \in 1 .. LENGTH : IpOf(a)[k] = IF k <= Len(a) THEN a[k] ELSE 0
    BY <2>2, IpBits
  <2>4. \A k \in 1 .. LENGTH : IpOf(a)[k] = a[k]
    BY <2>1, <2>3
  <2>5. IpOf(a) = a
    BY <2>1, <2>3, <2>4, BitsEqual
  <2> QED BY <2>2, <2>5
<1> QED BY <1>1, <1>2

\* The words of a prefix are those of its address.
LEMMA WordsAre ==
  ASSUME NEW p \in Prefix
  PROVE  WordsOf(p) = [iphi |-> Value(Hi(IpOf(p))), iplo |-> Value(Lo(IpOf(p)))]
<1> DEFINE a == IpOf(p)
           At(k) == IF k <= Len(p) THEN p[k] ELSE 0
           h == [k \in 1 .. WORD |-> At(k)]
           l == [k \in 1 .. WORD |-> At(k + WORD)]
<1>1. a \in Address /\ \A k \in 1 .. LENGTH : a[k] = At(k)
  BY IpAddress, IpBits
<1>2. \A k \in 1 .. WORD : k \in 1 .. LENGTH /\ WORD + k \in 1 .. LENGTH /\ k + WORD = WORD + k
  BY WordFacts
<1>3. /\ Hi(a) \in Bits /\ Len(Hi(a)) = WORD
      /\ \A k \in 1 .. WORD : Hi(a)[k] = At(k) /\ Hi(a)[k] \in Bit
  <2>1. /\ Hi(a) \in Bits /\ Len(Hi(a)) = WORD
        /\ \A k \in 1 .. WORD : Hi(a)[k] = a[k]
    BY <1>1, WordBits
  <2> HIDE DEF a, At
  <2> QED BY <1>1, <1>2, <2>1, ElementOfSeq DEF Bits
<1>4. /\ Lo(a) \in Bits /\ Len(Lo(a)) = WORD
      /\ \A k \in 1 .. WORD : Lo(a)[k] = At(k + WORD) /\ Lo(a)[k] \in Bit
  <2>1. /\ Lo(a) \in Bits /\ Len(Lo(a)) = WORD
        /\ \A k \in 1 .. WORD : Lo(a)[k] = a[WORD + k]
    BY <1>1, WordBits
  <2> HIDE DEF a, At
  <2> QED BY <1>1, <1>2, <2>1, ElementOfSeq DEF Bits
<1>5. WordsOf(p) = [iphi |-> Value(h), iplo |-> Value(l)]
  BY DEF WordsOf
<1> HIDE DEF a, At
<1>6. h \in [1 .. WORD -> Bit] /\ l \in [1 .. WORD -> Bit]
  BY <1>3, <1>4
<1>7. h \in Bits /\ Len(h) = WORD /\ l \in Bits /\ Len(l) = WORD
  <2> HIDE DEF h, l
  <2> QED BY <1>6, WordFacts, BitStringsIsBits DEF BitStrings
<1>8. h = Hi(a)
  BY <1>3, <1>7, BitsEqual
<1>9. l = Lo(a)
  BY <1>4, <1>7, BitsEqual
<1> QED BY <1>5, <1>8, <1>9 DEF a

-----------------------------------------------------------------------------
\* x >> k and x << k, for a k the language defines.
LEMMA ShiftedRightWord ==
  ASSUME NEW w \in Bits, Len(w) = WORD, NEW k \in 0 .. WORD - 1
  PROVE  ShiftRightWord(Value(w), k) = {Value(Take(w, WORD - k))}
<1> DEFINE x == Value(Take(w, WORD - k))
           y == Value(Drop(w, WORD - k))
           p == Pow2[k]
<1>1. /\ WORD - k \in 0 .. WORD /\ k \in Nat /\ WORD - (WORD - k) = k /\ k < WORD
  BY WordFacts
<1>2. Value(w) = x * p + y
  BY <1>1, ValueSplit
<1>3. Take(w, WORD - k) \in Bits /\ Drop(w, WORD - k) \in Bits
      /\ Len(Drop(w, WORD - k)) = k
  BY <1>1, TakeBits, DropBits
<1>4. x \in Int /\ y \in 0 .. p - 1
  <2>1. x \in Nat
    BY <1>3, ValueIs
  <2>2. y \in 0 .. Pow2[Len(Drop(w, WORD - k))] - 1
    BY <1>3, ValueRange
  <2> HIDE DEF x, y
  <2> QED BY <1>3, <2>1, <2>2
<1>5. p \in Nat /\ p > 0
  BY <1>1, Pow2Positive
<1> HIDE DEF x, y, p
<1>6. (x * p + y) \div p = x
  BY <1>4, <1>5, DivModIs
<1> QED BY <1>1, <1>2, <1>6 DEF ShiftRightWord, x, p

\* A left shift of one word drops bits in front and appends zeros.
LEMMA ShiftedLeftWord ==
  ASSUME NEW w \in Bits, Len(w) = WORD, NEW k \in 0 .. WORD - 1
  PROVE  ShiftLeftWord(Value(w), k) = {Value(Drop(w, k)) * Pow2[k]}
<1> DEFINE x == Value(Take(w, k))
           y == Value(Drop(w, k))
           p == Pow2[k]
           m == Pow2[WORD - k]
           q == Pow2[WORD]
<1>1. /\ k \in 0 .. WORD /\ WORD - k \in Nat /\ k \in Nat /\ k < WORD
      /\ (WORD - k) + k = WORD
  BY WordFacts
<1>2. Value(w) = x * m + y
  BY <1>1, ValueSplit
<1>3. Take(w, k) \in Bits /\ Drop(w, k) \in Bits /\ Len(Drop(w, k)) = WORD - k
  BY <1>1, TakeBits, DropBits
<1>4. x \in Nat /\ y \in 0 .. m - 1
  <2>1. x \in Nat
    BY <1>3, ValueIs
  <2>2. y \in 0 .. Pow2[Len(Drop(w, k))] - 1
    BY <1>3, ValueRange
  <2> HIDE DEF x, y
  <2> QED BY <1>3, <2>1, <2>2
<1>5. p \in Nat /\ p >= 1 /\ m \in Nat /\ m >= 1 /\ q \in Nat /\ q >= 1
  BY <1>1, WordFacts, Pow2Positive
<1>6. q = m * p
  <2>1. Pow2[(WORD - k) + k] = Pow2[WORD - k] * Pow2[k]
    BY <1>1, Pow2Sum
  <2> QED BY <1>1, <2>1
<1> HIDE DEF x, y, p, m, q
<1>7. (x * m + y) * p = x * q + y * p
  BY <1>4, <1>5, <1>6
<1>8. y * p \in 0 .. q - 1
  <2>1. y <= m - 1 /\ y \in Int /\ m - 1 \in Int /\ 0 <= y
    BY <1>4, <1>5
  <2>2. y * p <= (m - 1) * p
    BY <1>5, <2>1, ScaleOrder
  <2>3. (m - 1) * p = q - p
    BY <1>5, <1>6
  <2>4. 0 * p <= y * p
    BY <1>5, <2>1, ScaleOrder
  <2>5. 0 * p = 0 /\ y * p \in Int
    BY <1>5, <2>1
  <2> QED BY <1>5, <2>2, <2>3, <2>4, <2>5
<1>9. (x * q + y * p) % q = y * p
  <2> DEFINE r == y * p
  <2> HIDE DEF r
  <2>1. (x * q + r) % q = r
    <3>1. r \in 0 .. q - 1 /\ x \in Int /\ q > 0
      BY <1>4, <1>5, <1>8 DEF r
    <3> QED BY <1>5, <3>1, DivModIs
  <2> QED BY <2>1 DEF r
<1>10. (Value(w) * Pow2[k]) % Pow2[WORD] = y * p
  <2>1. (Value(w) * p) % q = y * p
    BY <1>2, <1>7, <1>9
  <2> QED BY <2>1 DEF p, q
<1> QED BY <1>1, <1>10 DEF ShiftLeftWord, y, p

-----------------------------------------------------------------------------
\* A word in two parts, of m and n bits.
Parts(w, m, n) ==
  /\ Take(w, m) \in Bits /\ Len(Take(w, m)) = m
  /\ \A j \in 1 .. m : Take(w, m)[j] = w[j]
  /\ Drop(w, m) \in Bits /\ Len(Drop(w, m)) = n
  /\ \A j \in 1 .. n : Drop(w, m)[j] = w[m + j]
  /\ Value(w) = Value(Take(w, m)) * Pow2[n] + Value(Drop(w, m))

\* A word is the value of its first bits, then of the others.
LEMMA PartsOfWord ==
  ASSUME NEW w \in Bits, Len(w) = WORD, NEW m \in Nat, NEW n \in Nat, m + n = WORD
  PROVE  Parts(w, m, n)
<1>1. m \in 0 .. Len(w) /\ Len(w) - m = n
  BY WordFacts
<1>2. /\ Take(w, m) \in Bits /\ Len(Take(w, m)) = m
      /\ \A j \in 1 .. m : Take(w, m)[j] = w[j]
  BY <1>1, TakeBits
<1>3. /\ Drop(w, m) \in Bits /\ Len(Drop(w, m)) = Len(w) - m
      /\ \A j \in 1 .. Len(w) - m : Drop(w, m)[j] = w[m + j]
  BY <1>1, DropBits
<1>4. Value(w) = Value(Take(w, m)) * Pow2[Len(w) - m] + Value(Drop(w, m))
  BY <1>1, ValueSplit
<1> QED BY <1>1, <1>2, <1>3, <1>4 DEF Parts

\* The address left when the leading k bits are shifted out.
LEMMA RestBits ==
  ASSUME NEW a \in Address, NEW k \in 0 .. LENGTH
  PROVE  /\ Drop(a, k) \in Prefix /\ Len(Drop(a, k)) = LENGTH - k
         /\ IpOf(Drop(a, k)) \in Address
         /\ \A j \in 1 .. LENGTH :
              IpOf(Drop(a, k))[j] = IF j <= LENGTH - k THEN a[k + j] ELSE 0
<1> DEFINE r == Drop(a, k)
<1>1. a \in Bits /\ Len(a) = LENGTH
  BY WordBits
<1>2. r \in Bits /\ Len(r) = LENGTH - k /\ \A j \in 1 .. LENGTH - k : r[j] = a[k + j]
  BY <1>1, DropBits
<1> HIDE DEF r
<1>3. r \in Prefix
  BY <1>2, PrefixIsBits, WordFacts
<1>4. IpOf(r) \in Address /\ \A j \in 1 .. LENGTH :
                               IpOf(r)[j] = IF j <= Len(r) THEN r[j] ELSE 0
  BY <1>3, IpAddress, IpBits
<1>5. \A j \in 1 .. LENGTH : j <= LENGTH - k => j \in 1 .. LENGTH - k
  BY WordFacts
<1> QED BY <1>2, <1>3, <1>4, <1>5 DEF r

\* lshift_ipv6 by 1 to 127.
LEMMA LeftIsDrop ==
  ASSUME NEW a \in Address, NEW k \in 1 .. LENGTH - 1
  PROVE  lshift_ipv6(WordsOf(a), k) = {WordsOf(Drop(a, k))}
<1> DEFINE t == IpOf(Drop(a, k))
           T == Hi(t)
           U == Lo(t)
           h == Hi(a)
           l == Lo(a)
<1>1. /\ t \in Address /\ k \in Nat /\ k >= 1 /\ k <= LENGTH - 1
      /\ \A j \in 1 .. LENGTH : t[j] = IF j <= LENGTH - k THEN a[k + j] ELSE 0
  BY RestBits, WordFacts
<1>2. WordsOf(Drop(a, k)) = [iphi |-> Value(T), iplo |-> Value(U)]
  BY RestBits, WordsAre, WordFacts
<1>3. WordsOf(a) = [iphi |-> Value(h), iplo |-> Value(l)]
  BY IpAddress, WordsAre
<1>4. /\ h \in Bits /\ Len(h) = WORD /\ \A j \in 1 .. WORD : h[j] = a[j]
      /\ l \in Bits /\ Len(l) = WORD /\ \A j \in 1 .. WORD : l[j] = a[WORD + j]
  BY WordBits
<1>5. /\ T \in Bits /\ Len(T) = WORD /\ \A j \in 1 .. WORD : T[j] = t[j]
      /\ U \in Bits /\ Len(U) = WORD /\ \A j \in 1 .. WORD : U[j] = t[WORD + j]
  BY <1>1, WordBits
<1> DEFINE W == WordsOf(a)
<1>6. W.iphi = Value(h) /\ W.iplo = Value(l)
  BY <1>3
<1> HIDE DEF t, T, U, h, l, W
<1>7. CASE k < WORD
  <2> DEFINE m == WORD - k
             p == Pow2[k]
  <2>1. /\ m \in Nat /\ k \in Nat /\ m + k = WORD /\ k + m = WORD /\ WORD - m = k
        /\ m \in 0 .. WORD - 1 /\ k \in 0 .. WORD - 1
    BY <1>1, <1>7, WordFacts
  <2> HIDE DEF m
  <2>0. Parts(T, m, k) /\ Parts(U, m, k) /\ Parts(h, k, m) /\ Parts(l, k, m)
    BY <1>4, <1>5, <2>1, PartsOfWord
  <2>2. /\ Take(T, m) \in Bits /\ Len(Take(T, m)) = m
        /\ \A j \in 1 .. m : Take(T, m)[j] = T[j]
        /\ Drop(T, m) \in Bits /\ Len(Drop(T, m)) = k
        /\ \A j \in 1 .. k : Drop(T, m)[j] = T[m + j]
    BY <2>0 DEF Parts
  <2>3. /\ Take(U, m) \in Bits /\ Len(Take(U, m)) = m
        /\ \A j \in 1 .. m : Take(U, m)[j] = U[j]
        /\ Drop(U, m) \in Bits /\ Len(Drop(U, m)) = k
        /\ \A j \in 1 .. k : Drop(U, m)[j] = U[m + j]
    BY <2>0 DEF Parts
  <2>4. /\ Drop(h, k) \in Bits /\ Len(Drop(h, k)) = m
        /\ \A j \in 1 .. m : Drop(h, k)[j] = h[k + j]
        /\ Drop(l, k) \in Bits /\ Len(Drop(l, k)) = m
        /\ \A j \in 1 .. m : Drop(l, k)[j] = l[k + j]
    BY <2>0 DEF Parts
  <2>5. /\ Take(l, k) \in Bits /\ Len(Take(l, k)) = k
        /\ \A j \in 1 .. k : Take(l, k)[j] = l[j]
    BY <2>0 DEF Parts
  <2>6. Take(T, m) = Drop(h, k)
    <3>1. ASSUME NEW j \in 1 .. m PROVE T[j] = h[k + j]
      <4>1. j \in 1 .. WORD /\ j \in 1 .. LENGTH /\ j <= LENGTH - k /\ k + j \in 1 .. WORD
        BY <1>1, <2>1, WordFacts DEF m
      <4> QED BY <1>1, <1>4, <1>5, <4>1
    <3> QED BY <2>2, <2>4, <3>1, BitsEqual
  <2>7. Drop(T, m) = Take(l, k)
    <3>1. ASSUME NEW j \in 1 .. k PROVE T[m + j] = l[j]
      <4>1. /\ j \in 1 .. WORD /\ m + j \in 1 .. WORD /\ m + j \in 1 .. LENGTH
            /\ m + j <= LENGTH - k /\ k + (m + j) = WORD + j
        BY <1>1, <2>1, WordFacts DEF m
      <4>2. T[m + j] = t[m + j] /\ t[m + j] = a[k + (m + j)] /\ l[j] = a[WORD + j]
        BY <1>1, <1>4, <1>5, <4>1
      <4> QED BY <4>1, <4>2
    <3> QED BY <2>2, <2>5, <3>1, BitsEqual
  <2>8. Take(U, m) = Drop(l, k)
    <3>1. ASSUME NEW j \in 1 .. m PROVE U[j] = l[k + j]
      <4>1. /\ j \in 1 .. WORD /\ WORD + j \in 1 .. LENGTH /\ WORD + j <= LENGTH - k
            /\ k + (WORD + j) = WORD + (k + j) /\ k + j \in 1 .. WORD
        BY <1>1, <2>1, WordFacts DEF m
      <4>2. U[j] = t[WORD + j] /\ t[WORD + j] = a[k + (WORD + j)] /\ l[k + j] = a[WORD + (k + j)]
        BY <1>1, <1>4, <1>5, <4>1
      <4> QED BY <4>1, <4>2
    <3> QED BY <2>3, <2>4, <3>1, BitsEqual
  <2>9. Value(Drop(U, m)) = 0
    <3>1. ASSUME NEW j \in 1 .. k PROVE Drop(U, m)[j] = 0
      <4>1. /\ m + j \in 1 .. WORD /\ WORD + (m + j) \in 1 .. LENGTH
            /\ ~ WORD + (m + j) <= LENGTH - k
        BY <1>1, <2>1, WordFacts DEF m
      <4> QED BY <1>1, <1>5, <2>3, <4>1
    <3> QED BY <2>3, <3>1, ValueZero
  <2>10. Value(T) = Value(Drop(h, k)) * p + Value(Take(l, k))
    BY <2>0, <2>6, <2>7 DEF Parts, p
  <2>11. Value(U) = Value(Drop(l, k)) * p
    <3>1. Value(U) = Value(Drop(l, k)) * p + 0
      BY <2>0, <2>8, <2>9 DEF Parts
    <3>2. Value(Drop(l, k)) \in Nat /\ p \in Nat
      BY <1>1, <2>4, ValueIs, Pow2Positive
    <3> QED BY <3>1, <3>2
  <2>12. /\ ShiftRightWord(W.iplo, m) = {Value(Take(l, WORD - m))}
         /\ ShiftLeftWord(W.iphi, k) = {Value(Drop(h, k)) * p}
         /\ ShiftLeftWord(W.iplo, k) = {Value(Drop(l, k)) * p}
    BY <1>4, <1>6, <2>1, ShiftedRightWord, ShiftedLeftWord
  <2>13. lshift_ipv6(W, k) =
           {[iphi |-> hi + head, iplo |-> lo] :
              head \in ShiftRightWord(W.iplo, m),
              hi   \in ShiftLeftWord(W.iphi, k),
              lo   \in ShiftLeftWord(W.iplo, k)}
    BY <1>7 DEF lshift_ipv6, m
  <2> HIDE DEF p
  <2>14. lshift_ipv6(W, k) =
           {[iphi |-> Value(Drop(h, k)) * p + Value(Take(l, k)),
             iplo |-> Value(Drop(l, k)) * p]}
    BY <2>1, <2>12, <2>13
  <2> QED BY <1>2, <2>10, <2>11, <2>14 DEF W
<1>8. CASE ~ k < WORD
  <2> DEFINE n == k - WORD
             m == WORD - n
             p == Pow2[n]
  <2>1. /\ n \in 0 .. WORD - 1 /\ n \in Nat /\ m \in Nat /\ m + n = WORD /\ n + m = WORD
        /\ k = WORD + n /\ m = LENGTH - k
    BY <1>1, <1>8, WordFacts
  <2> HIDE DEF n, m
  <2>0. Parts(T, m, n) /\ Parts(l, n, m)
    BY <1>4, <1>5, <2>1, PartsOfWord
  <2>2. /\ Take(T, m) \in Bits /\ Len(Take(T, m)) = m
        /\ \A j \in 1 .. m : Take(T, m)[j] = T[j]
        /\ Drop(T, m) \in Bits /\ Len(Drop(T, m)) = n
        /\ \A j \in 1 .. n : Drop(T, m)[j] = T[m + j]
    BY <2>0 DEF Parts
  <2>3. /\ Drop(l, n) \in Bits /\ Len(Drop(l, n)) = m
        /\ \A j \in 1 .. m : Drop(l, n)[j] = l[n + j]
    BY <2>0 DEF Parts
  <2>4. Take(T, m) = Drop(l, n)
    <3>1. ASSUME NEW j \in 1 .. m PROVE T[j] = l[n + j]
      <4>1. /\ j \in 1 .. WORD /\ j \in 1 .. LENGTH /\ j <= LENGTH - k
            /\ n + j \in 1 .. WORD /\ k + j = WORD + (n + j)
        BY <1>1, <2>1, WordFacts DEF m
      <4>2. T[j] = t[j] /\ t[j] = a[k + j] /\ l[n + j] = a[WORD + (n + j)]
        BY <1>1, <1>4, <1>5, <4>1
      <4> QED BY <4>1, <4>2
    <3> QED BY <2>2, <2>3, <3>1, BitsEqual
  <2>5. Value(Drop(T, m)) = 0
    <3>1. ASSUME NEW j \in 1 .. n PROVE Drop(T, m)[j] = 0
      <4>1. m + j \in 1 .. WORD /\ m + j \in 1 .. LENGTH /\ ~ m + j <= LENGTH - k
        BY <1>1, <2>1, WordFacts
      <4> QED BY <1>1, <1>5, <2>2, <4>1
    <3> QED BY <2>2, <3>1, ValueZero
  <2>6. Value(T) = Value(Drop(l, n)) * p
    <3>1. Value(T) = Value(Drop(l, n)) * p + 0
      BY <2>0, <2>4, <2>5 DEF Parts
    <3>2. Value(Drop(l, n)) \in Nat /\ p \in Nat
      BY <2>1, <2>3, ValueIs, Pow2Positive
    <3> QED BY <3>1, <3>2
  <2>7. Value(U) = 0
    <3>1. ASSUME NEW j \in 1 .. WORD PROVE U[j] = 0
      <4>1. WORD + j \in 1 .. LENGTH /\ ~ WORD + j <= LENGTH - k
        BY <1>1, <1>8, WordFacts
      <4> QED BY <1>1, <1>5, <4>1
    <3> QED BY <1>5, <3>1, ValueZero
  <2>8. ShiftLeftWord(W.iplo, n) = {Value(Drop(l, n)) * p}
    BY <1>4, <1>6, <2>1, ShiftedLeftWord
  <2>9. lshift_ipv6(W, k) =
          {[iphi |-> head, iplo |-> 0] : head \in ShiftLeftWord(W.iplo, n)}
    BY <1>8 DEF lshift_ipv6, n
  <2> HIDE DEF p
  <2>10. lshift_ipv6(W, k) = {[iphi |-> Value(Drop(l, n)) * p, iplo |-> 0]}
    BY <2>8, <2>9
  <2> QED BY <1>2, <2>6, <2>7, <2>10 DEF W
<1> QED BY <1>7, <1>8

\* rshift_ipv6 by 1 to 127.
LEMMA RightIsTake ==
  ASSUME NEW a \in Address, NEW k \in 1 .. LENGTH - 1, NEW z \in Address,
         \A j \in 1 .. LENGTH : z[j] = IF j <= k THEN 0 ELSE a[j - k]
  PROVE  rshift_ipv6(WordsOf(a), k) = {WordsOf(z)}
<1> DEFINE T == Hi(z)
           U == Lo(z)
           h == Hi(a)
           l == Lo(a)
           W == WordsOf(a)
<1>1. k \in Nat /\ k >= 1 /\ k <= LENGTH - 1
  BY WordFacts
<1>2. WordsOf(z) = [iphi |-> Value(T), iplo |-> Value(U)]
  BY IpAddress, WordsAre
<1>3. WordsOf(a) = [iphi |-> Value(h), iplo |-> Value(l)]
  BY IpAddress, WordsAre
<1>4. /\ h \in Bits /\ Len(h) = WORD /\ \A j \in 1 .. WORD : h[j] = a[j]
      /\ l \in Bits /\ Len(l) = WORD /\ \A j \in 1 .. WORD : l[j] = a[WORD + j]
  BY WordBits
<1>5. /\ T \in Bits /\ Len(T) = WORD /\ \A j \in 1 .. WORD : T[j] = z[j]
      /\ U \in Bits /\ Len(U) = WORD /\ \A j \in 1 .. WORD : U[j] = z[WORD + j]
  BY WordBits
<1>6. W.iphi = Value(h) /\ W.iplo = Value(l)
  BY <1>3
<1> HIDE DEF T, U, h, l, W
<1>7. CASE k < WORD
  <2> DEFINE m == WORD - k
             p == Pow2[m]
  <2>1. /\ m \in Nat /\ k \in Nat /\ m + k = WORD /\ k + m = WORD
        /\ m \in 0 .. WORD - 1 /\ k \in 0 .. WORD - 1
    BY <1>1, <1>7, WordFacts
  <2> HIDE DEF m
  <2>0. Parts(T, k, m) /\ Parts(U, k, m) /\ Parts(h, m, k) /\ Parts(l, m, k)
    BY <1>4, <1>5, <2>1, PartsOfWord
  <2>2. Value(Take(T, k)) = 0
    <3>1. ASSUME NEW j \in 1 .. k PROVE Take(T, k)[j] = 0
      <4>1. j \in 1 .. WORD /\ j \in 1 .. LENGTH /\ j <= k /\ Take(T, k)[j] = T[j]
        BY <1>1, <1>7, <2>0, WordFacts DEF Parts
      <4> QED BY <1>5, <4>1
    <3>2. Take(T, k) \in Bits /\ Len(Take(T, k)) = k
      BY <2>0 DEF Parts
    <3> QED BY <3>1, <3>2, ValueZero
  <2>3. Drop(T, k) = Take(h, m)
    <3>1. ASSUME NEW j \in 1 .. m PROVE Drop(T, k)[j] = Take(h, m)[j]
      <4>1. /\ j \in 1 .. WORD /\ k + j \in 1 .. WORD /\ k + j \in 1 .. LENGTH
            /\ ~ k + j <= k /\ (k + j) - k = j
        BY <1>1, <2>1, WordFacts
      <4>2. Drop(T, k)[j] = T[k + j] /\ Take(h, m)[j] = h[j]
        BY <2>0 DEF Parts
      <4>3. T[k + j] = z[k + j] /\ z[k + j] = a[(k + j) - k] /\ h[j] = a[j]
        BY <1>4, <1>5, <4>1
      <4> QED BY <4>1, <4>2, <4>3
    <3>2. /\ Drop(T, k) \in Bits /\ Len(Drop(T, k)) = m
          /\ Take(h, m) \in Bits /\ Len(Take(h, m)) = m
      BY <2>0 DEF Parts
    <3> QED BY <3>1, <3>2, BitsEqual
  <2>4. Take(U, k) = Drop(h, m)
    <3>1. ASSUME NEW j \in 1 .. k PROVE Take(U, k)[j] = Drop(h, m)[j]
      <4>1. /\ j \in 1 .. WORD /\ WORD + j \in 1 .. LENGTH /\ ~ WORD + j <= k
            /\ m + j \in 1 .. WORD /\ (WORD + j) - k = m + j
        BY <1>1, <1>7, <2>1, WordFacts
      <4>2. Take(U, k)[j] = U[j] /\ Drop(h, m)[j] = h[m + j]
        BY <2>0 DEF Parts
      <4>3. U[j] = z[WORD + j] /\ z[WORD + j] = a[(WORD + j) - k] /\ h[m + j] = a[m + j]
        BY <1>4, <1>5, <4>1
      <4> QED BY <4>1, <4>2, <4>3
    <3>2. /\ Take(U, k) \in Bits /\ Len(Take(U, k)) = k
          /\ Drop(h, m) \in Bits /\ Len(Drop(h, m)) = k
      BY <2>0 DEF Parts
    <3> QED BY <3>1, <3>2, BitsEqual
  <2>5. Drop(U, k) = Take(l, m)
    <3>1. ASSUME NEW j \in 1 .. m PROVE Drop(U, k)[j] = Take(l, m)[j]
      <4>1. /\ j \in 1 .. WORD /\ k + j \in 1 .. WORD /\ WORD + (k + j) \in 1 .. LENGTH
            /\ ~ WORD + (k + j) <= k /\ (WORD + (k + j)) - k = WORD + j
        BY <1>1, <1>7, <2>1, WordFacts
      <4>2. Drop(U, k)[j] = U[k + j] /\ Take(l, m)[j] = l[j]
        BY <2>0 DEF Parts
      <4>3. /\ U[k + j] = z[WORD + (k + j)]
            /\ z[WORD + (k + j)] = a[(WORD + (k + j)) - k] /\ l[j] = a[WORD + j]
        BY <1>4, <1>5, <4>1
      <4> QED BY <4>1, <4>2, <4>3
    <3>2. /\ Drop(U, k) \in Bits /\ Len(Drop(U, k)) = m
          /\ Take(l, m) \in Bits /\ Len(Take(l, m)) = m
      BY <2>0 DEF Parts
    <3> QED BY <3>1, <3>2, BitsEqual
  <2>6. /\ Value(Take(h, m)) \in Nat /\ Value(Drop(h, m)) \in Nat
        /\ Value(Take(l, m)) \in Nat /\ p \in Nat
    <3>1. Take(h, m) \in Bits /\ Drop(h, m) \in Bits /\ Take(l, m) \in Bits
      BY <2>0 DEF Parts
    <3> QED BY <2>1, <3>1, ValueIs, Pow2Positive
  <2>7. Value(T) = Value(Take(h, m))
    <3>1. Value(T) = 0 * p + Value(Take(h, m))
      BY <2>0, <2>2, <2>3 DEF Parts
    <3> QED BY <2>6, <3>1
  <2>8. Value(U) = Value(Take(l, m)) + Value(Drop(h, m)) * p
    <3>1. Value(U) = Value(Drop(h, m)) * p + Value(Take(l, m))
      BY <2>0, <2>4, <2>5 DEF Parts
    <3> QED BY <2>6, <3>1
  <2>9. /\ ShiftRightWord(W.iphi, k) = {Value(Take(h, m))}
        /\ ShiftRightWord(W.iplo, k) = {Value(Take(l, m))}
        /\ ShiftLeftWord(W.iphi, m) = {Value(Drop(h, m)) * p}
    BY <1>4, <1>6, <2>1, ShiftedRightWord, ShiftedLeftWord DEF m
  <2>10. rshift_ipv6(W, k) =
           {[iphi |-> hi, iplo |-> lo + tail] :
              tail \in ShiftLeftWord(W.iphi, m),
              hi   \in ShiftRightWord(W.iphi, k),
              lo   \in ShiftRightWord(W.iplo, k)}
    BY <1>7 DEF rshift_ipv6, m
  <2> HIDE DEF p
  <2>11. rshift_ipv6(W, k) =
           {[iphi |-> Value(Take(h, m)),
             iplo |-> Value(Take(l, m)) + Value(Drop(h, m)) * p]}
    BY <2>9, <2>10
  <2> QED BY <1>2, <2>7, <2>8, <2>11 DEF W
<1>8. CASE ~ k < WORD
  <2> DEFINE n == k - WORD
             m == WORD - n
  <2>1. /\ n \in 0 .. WORD - 1 /\ n \in Nat /\ m \in Nat /\ m + n = WORD /\ n + m = WORD
        /\ k = WORD + n
    BY <1>1, <1>8, WordFacts
  <2> HIDE DEF n, m
  <2>0. Parts(U, n, m) /\ Parts(h, m, n)
    BY <1>4, <1>5, <2>1, PartsOfWord
  <2>2. Value(T) = 0
    <3>1. ASSUME NEW j \in 1 .. WORD PROVE T[j] = 0
      <4>1. j \in 1 .. LENGTH /\ j <= k
        BY <1>1, <1>8, WordFacts
      <4> QED BY <1>5, <4>1
    <3> QED BY <1>5, <3>1, ValueZero
  <2>3. Value(Take(U, n)) = 0
    <3>1. ASSUME NEW j \in 1 .. n PROVE Take(U, n)[j] = 0
      <4>1. /\ j \in 1 .. WORD /\ WORD + j \in 1 .. LENGTH /\ WORD + j <= k
            /\ Take(U, n)[j] = U[j]
        BY <2>0, <2>1, WordFacts DEF Parts
      <4> QED BY <1>5, <4>1
    <3>2. Take(U, n) \in Bits /\ Len(Take(U, n)) = n
      BY <2>0 DEF Parts
    <3> QED BY <3>1, <3>2, ValueZero
  <2>4. Drop(U, n) = Take(h, m)
    <3>1. ASSUME NEW j \in 1 .. m PROVE Drop(U, n)[j] = Take(h, m)[j]
      <4>1. /\ j \in 1 .. WORD /\ n + j \in 1 .. WORD /\ WORD + (n + j) \in 1 .. LENGTH
            /\ ~ WORD + (n + j) <= k /\ (WORD + (n + j)) - k = j
        BY <1>1, <2>1, WordFacts
      <4>2. Drop(U, n)[j] = U[n + j] /\ Take(h, m)[j] = h[j]
        BY <2>0 DEF Parts
      <4>3. /\ U[n + j] = z[WORD + (n + j)]
            /\ z[WORD + (n + j)] = a[(WORD + (n + j)) - k] /\ h[j] = a[j]
        BY <1>4, <1>5, <4>1
      <4> QED BY <4>1, <4>2, <4>3
    <3>2. /\ Drop(U, n) \in Bits /\ Len(Drop(U, n)) = m
          /\ Take(h, m) \in Bits /\ Len(Take(h, m)) = m
      BY <2>0 DEF Parts
    <3> QED BY <3>1, <3>2, BitsEqual
  <2>5. Value(U) = Value(Take(h, m))
    <3>1. Value(U) = 0 * Pow2[m] + Value(Take(h, m))
      BY <2>0, <2>3, <2>4 DEF Parts
    <3>2. Value(Take(h, m)) \in Nat /\ Pow2[m] \in Nat
      <4>1. Take(h, m) \in Bits
        BY <2>0 DEF Parts
      <4> QED BY <2>1, <4>1, ValueIs, Pow2Positive
    <3> QED BY <3>1, <3>2
  <2>6. ShiftRightWord(W.iphi, n) = {Value(Take(h, m))}
    BY <1>4, <1>6, <2>1, ShiftedRightWord DEF m
  <2>7. rshift_ipv6(W, k) =
          {[iphi |-> 0, iplo |-> tail] : tail \in ShiftRightWord(W.iphi, n)}
    BY <1>8 DEF rshift_ipv6, n
  <2>8. rshift_ipv6(W, k) = {[iphi |-> 0, iplo |-> Value(Take(h, m))]}
    BY <2>6, <2>7
  <2> QED BY <1>2, <2>2, <2>5, <2>8 DEF W
<1> QED BY <1>7, <1>8

\* Both copies of an address are its words.
LEMMA RestWords ==
  ASSUME NEW x \in Address, NEW l \in 0 .. LENGTH
  PROVE  /\ IpOf(Drop(x, l)) \in Address
         /\ WordsOf(Drop(x, l)) = WordsOf(IpOf(Drop(x, l)))
<1>1. Drop(x, l) \in Prefix /\ IpOf(Drop(x, l)) \in Address
  BY RestBits
<1> DEFINE r == IpOf(Drop(x, l))
<1>2. r \in Prefix /\ IpOf(r) = r
  BY <1>1, IpAddress
<1>3. WordsOf(r) = [iphi |-> Value(Hi(IpOf(r))), iplo |-> Value(Lo(IpOf(r)))]
  BY <1>2, WordsAre
<1>4. WordsOf(Drop(x, l)) = [iphi |-> Value(Hi(r)), iplo |-> Value(Lo(r))]
  BY <1>1, WordsAre
<1> QED BY <1>1, <1>2, <1>3, <1>4

\* lshift_ipv6(&ip, STRIDE): what is left is what is left behind the next node.
LEMMA NextRest ==
  ASSUME NEW x \in Address, NEW l \in 0 .. LENGTH, l + STRIDE <= LENGTH
  PROVE  lshift_ipv6(WordsOf(Drop(x, l)), STRIDE) = {WordsOf(Drop(x, l + STRIDE))}
<1> DEFINE r == IpOf(Drop(x, l))
           u == IpOf(Drop(r, STRIDE))
           v == IpOf(Drop(x, l + STRIDE))
<1>1. /\ STRIDE \in 1 .. LENGTH - 1 /\ STRIDE \in 0 .. LENGTH /\ STRIDE \in Nat
      /\ l \in Nat /\ LENGTH \in Nat /\ l + STRIDE \in 0 .. LENGTH
  BY WordFacts
<1>2. /\ r \in Address /\ WordsOf(Drop(x, l)) = WordsOf(r)
      /\ \A j \in 1 .. LENGTH : r[j] = IF j <= LENGTH - l THEN x[l + j] ELSE 0
  BY RestWords, RestBits
<1>3. v \in Address /\ WordsOf(Drop(x, l + STRIDE)) = WordsOf(v)
      /\ \A j \in 1 .. LENGTH :
           v[j] = IF j <= LENGTH - (l + STRIDE) THEN x[(l + STRIDE) + j] ELSE 0
  BY <1>1, RestWords, RestBits
<1> HIDE DEF r, v
<1>4. u \in Address /\ WordsOf(Drop(r, STRIDE)) = WordsOf(u)
      /\ \A j \in 1 .. LENGTH :
           u[j] = IF j <= LENGTH - STRIDE THEN r[STRIDE + j] ELSE 0
  BY <1>1, <1>2, RestWords, RestBits
<1> HIDE DEF u
<1>5. ASSUME NEW j \in 1 .. LENGTH PROVE u[j] = v[j]
  <2>1. CASE j <= LENGTH - STRIDE
    <3>1. /\ STRIDE + j \in 1 .. LENGTH /\ l + (STRIDE + j) = (l + STRIDE) + j
          /\ STRIDE + j <= LENGTH - l <=> j <= LENGTH - (l + STRIDE)
      BY <1>1, <2>1
    <3>2. u[j] = r[STRIDE + j]
      BY <1>4, <2>1
    <3>3. r[STRIDE + j] = IF STRIDE + j <= LENGTH - l THEN x[l + (STRIDE + j)] ELSE 0
      BY <1>2, <3>1
    <3>4. v[j] = IF j <= LENGTH - (l + STRIDE) THEN x[(l + STRIDE) + j] ELSE 0
      BY <1>3
    <3> QED BY <3>1, <3>2, <3>3, <3>4
  <2>2. CASE ~ j <= LENGTH - STRIDE
    <3>1. ~ j <= LENGTH - (l + STRIDE)
      BY <1>1, <2>2
    <3> QED BY <1>3, <1>4, <2>2, <3>1
  <2> QED BY <2>1, <2>2
<1>6. u = v
  <2>1. u \in Bits /\ Len(u) = LENGTH /\ v \in Bits /\ Len(v) = LENGTH
    BY <1>3, <1>4, WordBits
  <2> QED BY <1>5, <2>1, BitsEqual
<1>7. lshift_ipv6(WordsOf(r), STRIDE) = {WordsOf(Drop(r, STRIDE))}
  BY <1>1, <1>2, LeftIsDrop
<1> QED BY <1>2, <1>3, <1>4, <1>6, <1>7

\* A shift right by LENGTH - n leaves the first n bits, which a uint8_t holds;
\* and no bit of an address without any is left by the undefined shift, either.
LEMMA StridesOfRest ==
  ASSUME NEW a \in Address, ip = WordsOf(a), NEW n \in 0 .. STRIDE,
         n = 0 => \A k \in 1 .. LENGTH : a[k] = 0
  PROVE  Strides(n) = {Value(Take(a, n))}
<1> USE DEF Hi, Lo
<1>1. /\ n \in Nat /\ n <= 8 /\ n <= WORD /\ n \in 0 .. LENGTH
      /\ a \in Bits /\ Len(a) = LENGTH
  BY WordFacts, WordBits
<1>2. Take(a, n) \in Bits /\ Len(Take(a, n)) = n /\ \A k \in 1 .. n : Take(a, n)[k] = a[k]
  BY <1>1, TakeBits
<1> DEFINE x == Value(Take(a, n))
<1>3. x % Pow2[8] = x
  <2>1. x \in 0 .. Pow2[n] - 1
    <3>1. x \in 0 .. Pow2[Len(Take(a, n))] - 1
      BY <1>2, ValueRange
    <3> HIDE DEF x
    <3> QED BY <1>2, <3>1
  <2>2. Pow2[n] <= Pow2[8] /\ Pow2[8] \in Nat /\ Pow2[8] >= 1 /\ Pow2[n] \in Nat
    BY <1>1, Pow2Order, Pow2Positive
  <2> DEFINE p == Pow2[8]
  <2> HIDE DEF x, p
  <2>3. x \in 0 .. p - 1 /\ p \in Nat /\ p > 0 /\ 0 * p + x = x /\ 0 \in Int
    BY <2>1, <2>2 DEF p
  <2>4. (0 * p + x) % p = x
    BY <2>3, DivModIs
  <2> QED BY <2>3, <2>4 DEF p
<1> SUFFICES \E i : i.iplo = x /\ rshift_ipv6(ip, LENGTH - n) = {i}
  <2>1. PICK i : i.iplo = x /\ rshift_ipv6(ip, LENGTH - n) = {i}
    OBVIOUS
  <2>2. Strides(n) = {iptmp.iplo % Pow2[8] : iptmp \in {i}}
    BY <2>1 DEF Strides
  <2> HIDE DEF x
  <2> QED BY <1>3, <2>1, <2>2 DEF x
<1>4. CASE n = 0
  <2>1. Value(Take(a, WORD)) = 0
    <3>1. Hi(a) \in Bits /\ Len(Hi(a)) = WORD /\ \A k \in 1 .. WORD : Hi(a)[k] = a[k]
      BY WordBits
    <3>2. \A k \in 1 .. WORD : k \in 1 .. LENGTH
      BY WordFacts
    <3>3. \A k \in 1 .. Len(Hi(a)) : Hi(a)[k] = 0
      BY <1>4, <3>1, <3>2
    <3> QED BY <3>1, <3>3, ValueZero
  <2>2. ip.iphi = 0
    <3>1. WordsOf(a) = [iphi |-> Value(Hi(IpOf(a))), iplo |-> Value(Lo(IpOf(a)))]
      BY IpAddress, WordsAre
    <3>2. IpOf(a) = a
      BY IpAddress
    <3> QED BY <2>1, <3>1, <3>2
  <2>3. ShiftRightWord(0, WORD) = {0}
    <3>1. ~ WORD < WORD /\ WORD % WORD = 0
      BY WordFacts
    <3>2. Pow2[0] = 1 /\ 0 \div 1 = 0
      BY Pow2Is
    <3> QED BY <3>1, <3>2 DEF ShiftRightWord
  <2>4. LENGTH - n = LENGTH /\ ~ LENGTH < WORD /\ LENGTH - WORD = WORD
    BY <1>4, WordFacts
  <2>5. rshift_ipv6(ip, LENGTH) =
          {[iphi |-> 0, iplo |-> tail] : tail \in ShiftRightWord(ip.iphi, LENGTH - WORD)}
    BY <2>4 DEF rshift_ipv6
  <2>6. rshift_ipv6(ip, LENGTH) = {[iphi |-> 0, iplo |-> 0]}
    BY <2>2, <2>3, <2>4, <2>5
  <2>7. x = 0
    <3>1. \A k \in 1 .. Len(Take(a, n)) : Take(a, n)[k] = 0
      BY <1>2, <1>4
    <3> QED BY <1>2, <3>1, ValueZero
  <2> QED BY <2>4, <2>6, <2>7
<1>5. CASE n # 0
  <2> DEFINE k == LENGTH - n
             z == [j \in 1 .. LENGTH |-> IF j <= k THEN 0 ELSE a[j - k]]
             m == WORD - n
             l == Lo(z)
  <2>1. /\ k \in 1 .. LENGTH - 1 /\ m \in Nat /\ m + n = WORD /\ k = WORD + m
        /\ LENGTH = WORD + WORD /\ WORD \in Nat
    BY <1>1, <1>5, WordFacts
  <2>2. z \in Address /\ \A j \in 1 .. LENGTH : z[j] = IF j <= k THEN 0 ELSE a[j - k]
    <3>1. ASSUME NEW j \in 1 .. LENGTH PROVE (IF j <= k THEN 0 ELSE a[j - k]) \in Bit
      <4>1. ~ j <= k => j - k \in 1 .. LENGTH
        BY <2>1
      <4>2. \A i \in 1 .. LENGTH : a[i] \in Bit
        BY DEF Address, BitStrings
      <4> QED BY <4>1, <4>2 DEF Bit
    <3> HIDE DEF k
    <3> QED BY <3>1 DEF Address, BitStrings
  <2> HIDE DEF z, k, m
  <2>3. rshift_ipv6(ip, k) = {WordsOf(z)}
    BY <2>1, <2>2, RightIsTake
  <2>4. WordsOf(z).iplo = Value(l)
    <3>1. WordsOf(z) = [iphi |-> Value(Hi(IpOf(z))), iplo |-> Value(Lo(IpOf(z)))]
      BY <2>2, IpAddress, WordsAre
    <3>2. IpOf(z) = z
      BY <2>2, IpAddress
    <3> QED BY <3>1, <3>2
  <2>5. l \in Bits /\ Len(l) = WORD /\ \A j \in 1 .. WORD : l[j] = z[WORD + j]
    BY <2>2, WordBits
  <2> HIDE DEF l
  <2>6. Parts(l, m, n)
    BY <1>1, <2>1, <2>5, PartsOfWord
  <2>7. Value(Take(l, m)) = 0
    <3>1. ASSUME NEW j \in 1 .. m PROVE Take(l, m)[j] = 0
      <4>1. j \in 1 .. WORD /\ WORD + j \in 1 .. LENGTH /\ WORD + j <= k
        BY <1>1, <2>1
      <4> QED BY <2>2, <2>5, <2>6, <4>1 DEF Parts
    <3>2. Take(l, m) \in Bits /\ Len(Take(l, m)) = m
      BY <2>6 DEF Parts
    <3> QED BY <3>1, <3>2, ValueZero
  <2>8. Drop(l, m) = Take(a, n)
    <3>1. ASSUME NEW j \in 1 .. n PROVE Drop(l, m)[j] = Take(a, n)[j]
      <4>1. /\ m + j \in 1 .. WORD /\ WORD + (m + j) \in 1 .. LENGTH
            /\ ~ WORD + (m + j) <= k /\ (WORD + (m + j)) - k = j
        BY <1>1, <2>1
      <4>2. Drop(l, m)[j] = l[m + j] /\ l[m + j] = z[WORD + (m + j)]
        BY <2>5, <2>6, <4>1 DEF Parts
      <4> QED BY <1>2, <2>2, <4>1, <4>2
    <3>2. Drop(l, m) \in Bits /\ Len(Drop(l, m)) = n
      BY <2>6 DEF Parts
    <3> QED BY <1>2, <3>1, <3>2, BitsEqual
  <2>9. Value(l) = x
    <3>1. Value(l) = 0 * Pow2[n] + x
      BY <2>6, <2>7, <2>8 DEF Parts
    <3>2. Pow2[n] \in Nat /\ x \in Nat
      BY <1>1, <1>2, Pow2Positive, ValueIs
    <3> HIDE DEF x
    <3> QED BY <3>1, <3>2
  <2> HIDE DEF x
  <2> QED BY <2>3, <2>4, <2>9 DEF k
<1> QED BY <1>4, <1>5

-----------------------------------------------------------------------------
\* What the words are while a walk is at a node of the path of x.
At(x) == OnPath(x, node) /\ ip = WordsOf(Drop(x, Len(node)))

\* The bits the code reads there.
LEMMA StridesHere ==
  ASSUME NEW x \in Address, At(x), NEW m \in 0 .. STRIDE,
         m = 0 => \A k \in Len(node) + 1 .. LENGTH : x[k] = 0
  PROVE  Strides(m) = {Value(Take(BitsAt(x, node), m))}
<1> DEFINE l == Len(node)
           r == IpOf(Drop(x, l))
           b == BitsAt(x, node)
<1>1. l \in 0 .. LENGTH /\ l \in Nat /\ m \in Nat /\ m <= STRIDE /\ m \in 0 .. LENGTH
      /\ LENGTH \in Nat /\ STRIDE <= LENGTH
  BY WordFacts DEF At, OnPath
<1>2. /\ r \in Address /\ ip = WordsOf(r)
      /\ \A j \in 1 .. LENGTH : r[j] = IF j <= LENGTH - l THEN x[l + j] ELSE 0
  BY <1>1, RestWords, RestBits DEF At
<1>3. b \in Bits /\ Len(b) = STRIDE
      /\ \A k \in 1 .. STRIDE : b[k] = IF l + k <= LENGTH THEN x[l + k] ELSE 0
  BY <1>1, BitsAtIs DEF BitsAt
<1> HIDE DEF r, b, l
<1>4. r \in Bits /\ Len(r) = LENGTH
  BY <1>2, WordBits
<1>5. m = 0 => \A k \in 1 .. LENGTH : r[k] = 0
  <2> SUFFICES ASSUME m = 0, NEW k \in 1 .. LENGTH PROVE r[k] = 0
    OBVIOUS
  <2>1. k <= LENGTH - l => l + k \in l + 1 .. LENGTH
    BY <1>1
  <2> QED BY <1>2, <2>1 DEF l
<1>6. Take(r, m) = Take(b, m)
  <2>1. Take(r, m) \in Bits /\ Len(Take(r, m)) = m /\ \A k \in 1 .. m : Take(r, m)[k] = r[k]
    BY <1>1, <1>4, TakeBits
  <2>2. Take(b, m) \in Bits /\ Len(Take(b, m)) = m /\ \A k \in 1 .. m : Take(b, m)[k] = b[k]
    BY <1>1, <1>3, TakeBits
  <2>3. ASSUME NEW k \in 1 .. m PROVE r[k] = b[k]
    <3>1. k \in 1 .. LENGTH /\ k \in 1 .. STRIDE /\ (k <= LENGTH - l <=> l + k <= LENGTH)
      BY <1>1, WordFacts
    <3> QED BY <1>2, <1>3, <3>1
  <2> QED BY <2>1, <2>2, <2>3, BitsEqual
<1> QED BY <1>2, <1>5, <1>6, StridesOfRest DEF b

\* bit (1 << n) + stride of internal stands for one rule.
LEMMA RuleAtIs ==
  ASSUME NEW at, NEW b \in Bits, Len(b) < 8
  PROVE  RuleAt(at, Value(b), Len(b)) = at \o b
<1> DEFINE D == UNION {BitStrings(j) : j \in 0 .. 7}
           P(q) == Pow2[Len(q)] + Value(q) = Pow2[Len(b)] + Value(b)
<1>1. \A q : q \in D <=> q \in Bits /\ Len(q) < 8
  <2>1. \A j \in 0 .. 7 : \A q : q \in BitStrings(j) <=> q \in Bits /\ Len(q) = j
    BY BitStringsIsBits
  <2>2. ASSUME NEW q \in Bits, Len(q) < 8 PROVE Len(q) \in 0 .. 7
    <3> DEFINE n == Len(q)
    <3>1. n \in Nat /\ n < 8
      BY <2>2, BitsLen
    <3> HIDE DEF n
    <3>2. n \in 0 .. 7
      BY <3>1
    <3> QED BY <3>2 DEF n
  <2>3. \A j \in 0 .. 7 : j < 8
    OBVIOUS
  <2>4. \A q : q \in D <=> \E j \in 0 .. 7 : q \in BitStrings(j)
    OBVIOUS
  <2> HIDE DEF D
  <2>5. ASSUME NEW q, q \in D PROVE q \in Bits /\ Len(q) < 8
    <3>1. PICK j \in 0 .. 7 : q \in BitStrings(j)
      BY <2>4, <2>5
    <3>2. q \in Bits /\ Len(q) = j
      BY <2>1, <3>1
    <3> QED BY <2>3, <3>2
  <2>6. ASSUME NEW q, q \in Bits, Len(q) < 8 PROVE q \in D
    BY <2>1, <2>2, <2>4, <2>6
  <2> QED BY <2>5, <2>6
<1>2. ASSUME NEW q \in D, P(q) PROVE q = b
  <2>1. q \in Bits /\ b \in Bits
    BY <1>1
  <2>2. /\ Len(q) \in Nat /\ Value(q) \in 0 .. Pow2[Len(q)] - 1
        /\ Len(b) \in Nat /\ Value(b) \in 0 .. Pow2[Len(b)] - 1
    BY <2>1, BitsLen, ValueRange
  <2> DEFINE i == Len(q)
             j == Len(b)
             v == Value(q)
             w == Value(b)
  <2>3. /\ Pow2[i] \in Nat /\ Pow2[j] \in Nat
        /\ Pow2[i + 1] = 2 * Pow2[i] /\ Pow2[j + 1] = 2 * Pow2[j]
        /\ i + 1 <= j => Pow2[i + 1] <= Pow2[j]
        /\ j + 1 <= i => Pow2[j + 1] <= Pow2[i]
    <3>1. i \in Nat /\ j \in Nat /\ i + 1 \in Nat /\ j + 1 \in Nat
      BY <2>2
    <3> HIDE DEF i, j
    <3>2. /\ Pow2[i] \in Nat /\ Pow2[j] \in Nat
          /\ Pow2[i + 1] = 2 * Pow2[i] /\ Pow2[j + 1] = 2 * Pow2[j]
      BY <3>1, Pow2Is, Pow2Positive
    <3>3. i + 1 <= j => Pow2[i + 1] <= Pow2[j]
      BY <3>1, Pow2Order
    <3>4. j + 1 <= i => Pow2[j + 1] <= Pow2[i]
      BY <3>1, Pow2Order
    <3> QED BY <3>2, <3>3, <3>4
  <2>4. Pow2[i] + v = Pow2[j] + w
    BY <1>2
  <2>5. i \in Nat /\ j \in Nat /\ v \in 0 .. Pow2[i] - 1 /\ w \in 0 .. Pow2[j] - 1
    BY <2>2
  <2> HIDE DEF i, j, v, w
  <2>6. i = j
    <3> DEFINE x == Pow2[i]
               y == Pow2[j]
    <3>1. /\ x \in Nat /\ y \in Nat /\ x + v = y + w
          /\ i + 1 <= j => 2 * x <= y
          /\ j + 1 <= i => 2 * y <= x
          /\ 0 <= v /\ v <= x - 1 /\ 0 <= w /\ w <= y - 1
          /\ v \in Int /\ w \in Int
      BY <2>3, <2>4, <2>5
    <3> HIDE DEF x, y
    <3>2. ~ i + 1 <= j /\ ~ j + 1 <= i
      BY <3>1
    <3> QED BY <2>5, <3>2
  <2>8. v = w
    BY <2>3, <2>4, <2>5, <2>6
  <2>7. BitsOf(v, i) = q /\ BitsOf(w, j) = b
    BY <2>1, BitsOfValue DEF i, j, v, w
  <2> QED BY <2>6, <2>7, <2>8
<1>3. b \in D /\ P(b)
  BY <1>1
<1> HIDE DEF D
<1>4. (CHOOSE q \in D : P(q)) = b
  BY <1>2, <1>3
<1> HIDE DEF P
<1> QED BY <1>4 DEF RuleAt, D, P

\* The names of the child and of the rules that a stride stands for.
LEMMA StrideStandsFor ==
  ASSUME NEW s \in Bits, Len(s) = STRIDE, NEW at, NEW limit
  PROVE  /\ ChildAt(at, Value(s)) = at \o s
         /\ HasChild(at, Value(s)) <=> at \o s \in trie.enl
         /\ RuleInNode(at, Value(s), limit) = RuleIn(trie, at, s, limit)
         /\ Value(s) \in 0 .. Pow2[STRIDE] - 1
<1>1. BitsOf(Value(s), STRIDE) = s /\ Value(s) \in 0 .. Pow2[STRIDE] - 1
  BY BitsOfValue, ValueRange
<1> HIDE DEF Value
<1> QED BY <1>1 DEF ChildAt, HasChild, RuleInNode, RuleIn

-----------------------------------------------------------------------------
\* The address along which the running function goes down.
Way == IpOf(call.p)

\* The limit of an overlap, before the loop counts it down.
OrgLimit == SmallerOf(Len(call.p), call.bits_limit)

\* The nodes noted are the first ones on the path of x.
Noted(x, depth) ==
  \A d \in 0 .. depth - 1 :
    /\ lazy_mark[d].lazy_p = Take(x, d * STRIDE)
    /\ lazy_mark[d].stride = Value(BitsAt(x, Take(x, d * STRIDE)))

Types ==
  /\ IsTrie(trie)
  /\ call \in Call \cup {NoCall}
  /\ call.fun \in {"insert", "delete", "exist", "overlap"} => call.p \in Inputs
  /\ call.fun \in {"search", "lazy"} => call.p \in Keys
  /\ call.fun = "insert" => call.nhi \in NHI
  /\ longest \in Prefix \cup {NULL}
  /\ lazy_mark \in [0 .. LEVEL - 1 -> Mark]
  /\ ret \in 0 .. LENGTH

\* Where the walk is: the node, the words and what is left of the length say the
\* same, and the lazy search has noted the nodes above.
Walks ==
  /\ At(Way)
  /\ cidr \in Int
  /\ call.fun \in {"insert", "delete", "exist"} /\ call.pc = "descend" =>
       cidr = Len(call.p) - Len(node) /\ cidr >= 0
  /\ Running("overlap", "descend") => cidr = OrgLimit - Len(node)
  /\ travel_depth + 1 \in Nat /\ travel_depth \in Int
  /\ (travel_depth + 1) * STRIDE <= Len(node)
  /\ call.fun = "lazy" => Noted(Way, travel_depth + 1)
  /\ Running("lazy", "descend") => (travel_depth + 1) * STRIDE = Len(node)

\* What is known of the rules: of those above the node, below it, or of all.
Finds ==
  /\ Running("search", "descend") => FoundIn(trie, longest, Way, 0, Len(node))
  /\ Running("overlap", "descend") =>
       FoundIn(trie, longest, Way, 0, SmallerOf(Len(node), OrgLimit))
  /\ Running("overlap", "done") => FoundIn(trie, longest, Way, 0, OrgLimit)
  /\ call.fun = "overlap" => ret = IF longest = NULL THEN 0 ELSE Len(longest)
  /\ Running("lazy", "ascend") =>
       /\ longest = NULL
       /\ FoundIn(trie, NULL, Way, (travel_depth + 1) * STRIDE, All)
  /\ call.fun \in {"search", "lazy"} /\ call.pc = "done" =>
       FoundIn(trie, longest, Way, 0, All)

\* The nodes are those of the rules, and while a rule is inserted those that it
\* will need as far as they have been made.
Updates ==
  /\ IF Running("insert", "descend")
     THEN trie.enl = (UNION {Branch(q) : q \in DOMAIN trie.inl}) \cup Branch(node)
     ELSE Trim(trie)
  /\ Running("delete", "descend") => call.p \in DOMAIN trie.inl
  /\ Running("exist", "descend") => ret = 0
  /\ Running("exist", "done") => (ret = 1 <=> call.p \in DOMAIN trie.inl)

Inv == Types /\ Walks /\ Finds /\ Updates

-----------------------------------------------------------------------------
\* The nodes on the way to p, along an address that begins with p.
LEMMA BranchAlong ==
  ASSUME NEW x \in Address, NEW p \in Bits, Len(p) <= LENGTH, p = Take(x, Len(p))
  PROVE  Branch(p) = {Take(x, m) : m \in {k \in 1 .. Len(p) : k % STRIDE = 0}}
<1>1. x \in Bits /\ Len(x) = LENGTH /\ Len(p) \in 0 .. Len(x) /\ Len(p) \in Nat
  BY WordBits, BitsLen
<1>2. ASSUME NEW m \in 1 .. Len(p) PROVE Take(p, m) = Take(x, m)
  <2>1. m \in 0 .. Len(p)
    BY <1>1
  <2>2. Take(Take(x, Len(p)), m) = Take(x, m)
    BY <1>1, <2>1, TakeTake
  <2> QED BY <2>2
<1> QED BY <1>2 DEF Branch

\* No whole stride lies between two that follow one another.
LEMMA NoStrideBetween ==
  ASSUME NEW n \in Nat, n % STRIDE = 0, NEW k \in Nat, k % STRIDE = 0,
         n <= k, k < n + STRIDE
  PROVE  k = n
BY StrideBelow

\* The node that holds p needs the nodes that p needs.
LEMMA BranchOfNode ==
  ASSUME NEW x \in Address, NEW at \in Bits, OnPath(x, at),
         NEW p \in Bits, Len(p) <= LENGTH, p = Take(x, Len(p)),
         Len(at) <= Len(p), Len(p) < Len(at) + STRIDE
  PROVE  Branch(at) = Branch(p)
<1> DEFINE S(n) == {k \in 1 .. n : k % STRIDE = 0}
<1>1. /\ Len(p) \in Nat /\ Len(at) \in Nat /\ Len(at) <= LENGTH
      /\ Len(at) % STRIDE = 0 /\ at = Take(x, Len(at))
  BY BitsLen, WordFacts DEF OnPath
<1>2. ASSUME NEW k \in S(Len(p)) PROVE k \in S(Len(at))
  <2>1. k \in Nat /\ k >= 1 /\ k <= Len(p) /\ k % STRIDE = 0
    BY <1>1
  <2>2. Len(at) <= k => k = Len(at)
    BY <1>1, <2>1, NoStrideBetween, WordFacts
  <2> QED BY <1>1, <2>1, <2>2
<1>3. \A k \in S(Len(at)) : k \in S(Len(p))
  BY <1>1
<1>4. Branch(p) = {Take(x, m) : m \in S(Len(p))}
  BY <1>1, BranchAlong
<1>5. Branch(at) = {Take(x, m) : m \in S(Len(at))}
  BY <1>1, BranchAlong
<1> HIDE DEF S
<1>6. S(Len(p)) = S(Len(at))
  BY <1>2, <1>3 DEF S
<1> QED BY <1>4, <1>5, <1>6

\* The next node needs itself and what the one above needs.
LEMMA BranchOfNext ==
  ASSUME NEW x \in Address, NEW at \in Bits, OnPath(x, at),
         NEW c \in Bits, OnPath(x, c), Len(c) = Len(at) + STRIDE
  PROVE  Branch(c) = Branch(at) \cup {c}
<1> DEFINE S(n) == {k \in 1 .. n : k % STRIDE = 0}
<1>1. /\ Len(at) \in Nat /\ Len(at) <= LENGTH /\ Len(at) % STRIDE = 0
      /\ at = Take(x, Len(at))
      /\ Len(c) \in Nat /\ Len(c) <= LENGTH /\ Len(c) % STRIDE = 0
      /\ c = Take(x, Len(c)) /\ STRIDE \in Nat /\ STRIDE >= 1
  BY BitsLen, WordFacts DEF OnPath
<1>2. S(Len(c)) = S(Len(at)) \cup {Len(c)}
  <2>1. ASSUME NEW k \in S(Len(c)) PROVE k \in S(Len(at)) \cup {Len(c)}
    <3>1. k \in Nat /\ k >= 1 /\ k <= Len(c) /\ k % STRIDE = 0
      BY <1>1
    <3>2. Len(at) <= k /\ k < Len(at) + STRIDE => k = Len(at)
      BY <1>1, <3>1, NoStrideBetween
    <3> QED BY <1>1, <3>1, <3>2
  <2>2. ASSUME NEW k \in S(Len(at)) \cup {Len(c)} PROVE k \in S(Len(c))
    BY <1>1
  <2> HIDE DEF S
  <2> QED BY <2>1, <2>2
<1>3. Branch(c) = {Take(x, m) : m \in S(Len(c))}
  BY <1>1, BranchAlong
<1>4. Branch(at) = {Take(x, m) : m \in S(Len(at))}
  BY <1>1, BranchAlong
<1> HIDE DEF S
<1> QED BY <1>1, <1>2, <1>3, <1>4

-----------------------------------------------------------------------------
\* A walk begins in the root with the words of its argument.
LEMMA StartAt ==
  ASSUME NEW p \in Prefix
  PROVE  /\ OnPath(IpOf(p), <<>>)
         /\ WordsOf(p) = WordsOf(Drop(IpOf(p), Len(<<>>)))
         /\ Len(<<>>) = 0
         /\ Take(IpOf(p), 0) = <<>>
<1> DEFINE x == IpOf(p)
<1>1. x \in Address /\ x \in Bits /\ Len(x) = LENGTH
  BY IpAddress, WordBits
<1>2. Len(<<>>) = 0
  BY EmptySeq
<1> HIDE DEF x
<1>3. Take(x, 0) = <<>>
  BY SubSeqEmpty DEF Take
<1>4. Drop(x, 0) = x
  <2>1. 0 \in 0 .. Len(x)
    BY <1>1, WordFacts
  <2>2. Drop(x, 0) \in Bits /\ Len(Drop(x, 0)) = Len(x) - 0
        /\ \A k \in 1 .. Len(x) - 0 : Drop(x, 0)[k] = x[0 + k]
    BY <1>1, <2>1, DropBits
  <2>3. Len(x) - 0 = Len(x) /\ \A k \in 1 .. Len(x) : 0 + k = k
    BY <1>1, WordFacts
  <2> QED BY <1>1, <2>2, <2>3, BitsEqual
<1>5. WordsOf(p) = WordsOf(x)
  <2>1. x \in Prefix /\ IpOf(x) = x
    BY <1>1, IpAddress
  <2>2. WordsOf(p) = [iphi |-> Value(Hi(x)), iplo |-> Value(Lo(x))]
    BY WordsAre DEF x
  <2>3. WordsOf(x) = [iphi |-> Value(Hi(IpOf(x))), iplo |-> Value(Lo(IpOf(x)))]
    BY <2>1, WordsAre
  <2> QED BY <2>1, <2>2, <2>3
<1>6. OnPath(x, <<>>)
  BY <1>2, <1>3, StrideZero, WordFacts DEF OnPath
<1> QED BY <1>2, <1>3, <1>4, <1>5, <1>6 DEF x

\* What every state says of the walk.
LEMMA Here ==
  ASSUME Types, Walks
  PROVE  /\ call.p \in Prefix /\ call.p \in Bits /\ Len(call.p) \in 0 .. LENGTH
         /\ Way \in Address /\ Way \in Bits /\ Len(Way) = LENGTH
         /\ OnPath(Way, node) /\ node \in Prefix /\ node \in Bits
         /\ Len(node) \in 0 .. LENGTH /\ Len(node) \in Nat
         /\ Len(node) % STRIDE = 0
<1>1. call.p \in Prefix
  <2>1. CASE call = NoCall
    <3>1. <<>> \in Bits /\ Len(<<>>) = 0
      BY DEF Bits
    <3>2. <<>> \in Prefix
      BY <3>1, PrefixIsBits, WordFacts
    <3> QED BY <2>1, <3>2 DEF NoCall
  <2>2. CASE call \in Call
    <3>1. call.p \in Inputs \cup Keys
      BY <2>2 DEF Call
    <3> QED BY <3>1, InputsAssumption, IpAddress
  <2> QED BY <2>1, <2>2 DEF Types
<1>2. call.p \in Bits /\ Len(call.p) \in 0 .. LENGTH
  BY <1>1, PrefixIsBits, BitsLen, WordFacts
<1>3. Way \in Address /\ Way \in Bits /\ Len(Way) = LENGTH
  BY <1>1, IpAddress, WordBits DEF Way
<1>4. OnPath(Way, node) /\ Len(node) \in 0 .. LENGTH
  BY DEF Walks, At, OnPath
<1>5. Len(node) % STRIDE = 0 /\ node = Take(Way, Len(node))
  BY <1>4 DEF OnPath
<1>6. Take(Way, Len(node)) \in Bits
  BY <1>3, <1>4, TakeBits
<1>7. node \in Bits /\ Len(node) \in Nat /\ Len(node) <= LENGTH
  BY <1>4, <1>5, <1>6, WordFacts
<1>8. node \in Prefix
  BY <1>7, PrefixIsBits
<1> QED BY <1>1, <1>2, <1>3, <1>4, <1>5, <1>7, <1>8

\* A function that runs is one of the six.
LEMMA Runs ==
  ASSUME Types, call.fun \in Fun
  PROVE  call \in Call /\ call # NoCall
BY DEF Types, NoCall, Fun

\* A function goes on at another place.
LEMMA GoesOnAt ==
  ASSUME call \in Call, NEW pc \in Pc, Goto(pc)
  PROVE  /\ call' \in Call
         /\ call'.fun = call.fun /\ call'.p = call.p /\ call'.nhi = call.nhi
         /\ call'.bits_limit = call.bits_limit
         /\ call'.pc = pc
BY DEF Call, Goto

\* The bits of a whole stride.
LEMMA StrideBits ==
  ASSUME Types, Walks
  PROVE  LET b == BitsAt(Way, node)
         IN  /\ b \in Bits /\ Len(b) = STRIDE
             /\ Strides(STRIDE) = {Value(b)}
             /\ ChildAt(node, Value(b)) = node \o b
             /\ HasChild(node, Value(b)) <=> node \o b \in trie.enl
             /\ \A limit : RuleInNode(node, Value(b), limit) = RuleIn(trie, node, b, limit)
             /\ Value(b) \in 0 .. Pow2[STRIDE] - 1
<1> DEFINE b == BitsAt(Way, node)
<1>1. Way \in Address /\ OnPath(Way, node) /\ Len(node) \in 0 .. LENGTH /\ At(Way)
  BY Here DEF Walks
<1>2. b \in Bits /\ Len(b) = STRIDE
  BY <1>1, BitsAtIs
<1>3. STRIDE \in 0 .. STRIDE /\ STRIDE # 0
  BY WordFacts
<1>4. Strides(STRIDE) = {Value(Take(b, STRIDE))}
  BY <1>1, <1>3, StridesHere
<1>5. Take(b, STRIDE) = b
  BY <1>2, TakeAll
<1> HIDE DEF b
<1>6. \A limit : /\ ChildAt(node, Value(b)) = node \o b
                 /\ HasChild(node, Value(b)) <=> node \o b \in trie.enl
                 /\ RuleInNode(node, Value(b), limit) = RuleIn(trie, node, b, limit)
                 /\ Value(b) \in 0 .. Pow2[STRIDE] - 1
  BY <1>2, StrideStandsFor
<1> QED BY <1>2, <1>4, <1>5, <1>6 DEF b

\* The bits of the last one: what the code finds is the prefix it was called for.
LEMMA RuleHere ==
  ASSUME Types, Walks, call.fun \in {"insert", "delete", "exist"},
         call.pc = "descend", cidr < STRIDE
  PROVE  \E stride : Strides(cidr) = {stride} /\ RuleAt(node, stride, cidr) = call.p
<1> DEFINE b == BitsAt(Way, node)
           c == Take(b, cidr)
           p == call.p
<1>1. /\ p \in Prefix /\ p \in Bits /\ Len(p) \in 0 .. LENGTH
      /\ Way \in Address /\ OnPath(Way, node)
      /\ Len(node) \in 0 .. LENGTH /\ Len(node) \in Nat
  BY Here
<1>2. cidr = Len(p) - Len(node) /\ cidr >= 0 /\ At(Way)
  BY DEF Walks
<1>3. cidr \in 0 .. STRIDE /\ cidr < 8 /\ Len(node) + cidr = Len(p)
  BY <1>1, <1>2, WordFacts
<1>4. b \in Bits /\ Len(b) = STRIDE
  BY <1>1, BitsAtIs
<1>5. cidr = 0 => \A k \in Len(node) + 1 .. LENGTH : Way[k] = 0
  <2> SUFFICES ASSUME cidr = 0, NEW k \in Len(node) + 1 .. LENGTH PROVE Way[k] = 0
    OBVIOUS
  <2>1. k \in 1 .. LENGTH /\ ~ k <= Len(p)
    BY <1>1, <1>3, WordFacts
  <2> QED BY <1>1, <2>1, IpBits DEF Way
<1>6. Strides(cidr) = {Value(c)}
  BY <1>1, <1>2, <1>3, <1>5, StridesHere
<1>7. c \in Bits /\ Len(c) = cidr
  BY <1>3, <1>4, TakeBits
<1>8. node \o c = Take(Way, Len(p))
  <2>1. Len(node) + cidr <= LENGTH
    BY <1>1, <1>3
  <2>2. node \o c = Take(Way, Len(node) + cidr)
    BY <1>1, <1>3, <2>1, BitsOnPath
  <2> QED BY <1>3, <2>2
<1>9. Take(Way, Len(p)) = p
  <2>1. Len(p) \in 0 .. Len(p)
    BY <1>1
  <2>2. Take(IpOf(p), Len(p)) = Take(p, Len(p))
    BY <1>1, <2>1, IpTake
  <2>3. Take(p, Len(p)) = p
    BY <1>1, TakeAll
  <2> QED BY <2>2, <2>3 DEF Way
<1> HIDE DEF c, p
<1>10. RuleAt(node, Value(c), Len(c)) = node \o c
  BY <1>3, <1>7, RuleAtIs
<1> QED BY <1>6, <1>7, <1>8, <1>9, <1>10 DEF p

\* The next node is on the path, and the words are what is left behind it.
LEMMA GoesDown ==
  ASSUME Types, Walks, Descend(Value(BitsAt(Way, node))),
         Len(node) + STRIDE <= LENGTH, call'.p = call.p
  PROVE  /\ At(Way)'
         /\ node' = node \o BitsAt(Way, node)
         /\ Len(node') = Len(node) + STRIDE
         /\ node' \in Bits
         /\ cidr' = cidr - STRIDE
         /\ Way' = Way
         /\ OnPath(Way, node')
<1> DEFINE x == Way
           b == BitsAt(x, node)
<1>1. /\ x \in Address /\ OnPath(x, node) /\ Len(node) \in 0 .. LENGTH /\ Len(node) \in Nat
      /\ Len(node) % STRIDE = 0 /\ STRIDE \in Nat /\ STRIDE \in 0 .. STRIDE
      /\ Len(node) + STRIDE \in 0 .. LENGTH
  BY Here, WordFacts
<1>2. b \in Bits /\ Len(b) = STRIDE /\ ChildAt(node, Value(b)) = node \o b
  BY StrideBits
<1>3. Way' = Way
  BY DEF Way
<1>4. ip = WordsOf(Drop(x, Len(node)))
  BY DEF Walks, At
<1>5. /\ node' = ChildAt(node, Value(b))
      /\ ip' \in lshift_ipv6(ip, STRIDE)
      /\ cidr' = cidr - STRIDE
  BY DEF Descend
<1>6. Take(b, STRIDE) = b
  BY <1>2, TakeAll
<1>7. /\ node \o b \in Bits /\ Len(node \o b) = Len(node) + STRIDE
      /\ node \o b = Take(x, Len(node) + STRIDE)
  <2>1. Len(node) + STRIDE <= LENGTH
    OBVIOUS
  <2>2. /\ node \o Take(b, STRIDE) \in Bits
        /\ Len(node \o Take(b, STRIDE)) = Len(node) + STRIDE
        /\ node \o Take(b, STRIDE) = Take(x, Len(node) + STRIDE)
    BY <1>1, <2>1, BitsOnPath
  <2> HIDE DEF b
  <2> QED BY <1>6, <2>2
<1>8. lshift_ipv6(WordsOf(Drop(x, Len(node))), STRIDE) = {WordsOf(Drop(x, Len(node) + STRIDE))}
  BY <1>1, NextRest
<1> HIDE DEF x, b
<1>9. node' = node \o b
  BY <1>2, <1>5
<1>10. ip' = WordsOf(Drop(x, Len(node')))
  BY <1>4, <1>5, <1>7, <1>8, <1>9
<1>11. (Len(node) + STRIDE) % STRIDE = 0
  BY <1>1, StrideNext
<1>12. OnPath(x, node')
  BY <1>1, <1>7, <1>9, <1>11 DEF OnPath
<1>13. At(x)'
  BY <1>3, <1>10, <1>12 DEF At, x
<1> QED BY <1>3, <1>5, <1>7, <1>9, <1>12, <1>13 DEF x, b

\* A child is within the length of an address.
LEMMA ChildFits ==
  ASSUME Types, Walks, HasChild(node, Value(BitsAt(Way, node)))
  PROVE  Len(node) + STRIDE <= LENGTH
<1> DEFINE b == BitsAt(Way, node)
<1>1. node \o b \in trie.enl
  BY StrideBits
<1>2. node \o b \in Prefix /\ Len(node \o b) = Len(node) + STRIDE
  BY <1>1, Here, NextOnPath DEF Types
<1> QED BY <1>2, PrefixIsBits

\* A function that does not go down stays where it is.
LEMMA Stays ==
  ASSUME Types, Walks, call'.p = call.p, UNCHANGED walk
  PROVE  At(Way)' /\ Way' = Way /\ node' = node /\ cidr' = cidr
BY DEF Walks, At, Way, walk

\* Nor does it note anything.
LEMMA NotesKept ==
  ASSUME Types, Walks, call'.p = call.p, call'.fun = call.fun,
         UNCHANGED <<travel_depth, lazy_mark>>,
         call.fun = "lazy" /\ call'.pc = "descend" => call.pc = "descend" /\ node' = node,
         Len(node') \in Nat, Len(node') >= Len(node), Len(node) \in Nat
  PROVE  /\ travel_depth' + 1 \in Nat /\ travel_depth' \in Int
         /\ (travel_depth' + 1) * STRIDE <= Len(node')
         /\ call'.fun = "lazy" => Noted(Way, travel_depth + 1)'
         /\ Running("lazy", "descend")' => (travel_depth' + 1) * STRIDE = Len(node')
<1> DEFINE z == (travel_depth + 1) * STRIDE
<1>1. travel_depth + 1 \in Nat /\ travel_depth \in Int /\ z <= Len(node)
  BY DEF Walks
<1>2. z \in Nat
  BY <1>1, WordFacts
<1>3. call.fun = "lazy" => Noted(Way, travel_depth + 1)
  BY DEF Walks
<1>4. Running("lazy", "descend") => z = Len(node)
  BY DEF Walks
<1>5. Way' = Way
  BY DEF Way
<1>6. call'.fun = "lazy" => Noted(Way, travel_depth + 1)'
  BY <1>3, <1>5 DEF Noted
<1> HIDE DEF z
<1>7. z <= Len(node')
  BY <1>1, <1>2
<1>8. Running("lazy", "descend")' => z = Len(node')
  BY <1>4 DEF Running
<1> QED BY <1>1, <1>6, <1>7, <1>8 DEF z

\* The argument is the first part of the way.
LEMMA WayIs ==
  ASSUME Types, Walks
  PROVE  \A k \in 0 .. Len(call.p) : Take(Way, k) = Take(call.p, k)
<1> QED BY Here, IpTake DEF Way

\* The bits of a whole stride are there while the argument has as many.
LEMMA PathFits ==
  ASSUME Types, Walks, call.fun \in {"insert", "delete", "exist"},
         call.pc = "descend", cidr >= STRIDE
  PROVE  Len(node) + STRIDE <= LENGTH
<1>1. cidr = Len(call.p) - Len(node)
  BY DEF Walks
<1>2. Len(call.p) \in 0 .. LENGTH /\ Len(node) \in Nat
  BY Here
<1> QED BY <1>1, <1>2, WordFacts

\* The limit is a length.
LEMMA LimitIs ==
  ASSUME Types, Walks
  PROVE  OrgLimit \in 0 .. LENGTH /\ OrgLimit <= Len(call.p)
<1>1. Len(call.p) \in 0 .. LENGTH
  BY Here
<1>2. call.bits_limit \in 0 .. LENGTH
  BY WordFacts DEF Types, Call, NoCall
<1> QED BY <1>1, <1>2, WordFacts DEF OrgLimit, SmallerOf

\* A function that ends, or turns round, stays in its node.
LEMMA EndsWalk ==
  ASSUME Types, Walks, call \in Call, NEW pc \in {"done", "ascend"}, Goto(pc),
         UNCHANGED <<walk, travel_depth, lazy_mark>>
  PROVE  Walks'
<1>1. /\ call' \in Call /\ call'.fun = call.fun /\ call'.p = call.p
      /\ call'.pc = pc
  BY GoesOnAt DEF Pc
<1>2. At(Way)' /\ node' = node /\ cidr' = cidr
  BY <1>1, Stays
<1>3. Len(node) \in Nat
  BY Here
<1>4. /\ travel_depth' + 1 \in Nat /\ travel_depth' \in Int
      /\ (travel_depth' + 1) * STRIDE <= Len(node')
      /\ call'.fun = "lazy" => Noted(Way, travel_depth + 1)'
      /\ Running("lazy", "descend")' => (travel_depth' + 1) * STRIDE = Len(node')
  BY <1>1, <1>2, <1>3, NotesKept
<1>5. cidr' \in Int
  BY <1>2 DEF Walks
<1> QED BY <1>1, <1>2, <1>4, <1>5 DEF Walks, Running

\* A function that notes nothing goes on in the child.
LEMMA WalksOn ==
  ASSUME Types, Walks, call.fun # "lazy", call.pc = "descend",
         call.fun \in {"insert", "delete", "exist"} => cidr >= STRIDE,
         Descend(Value(BitsAt(Way, node))), Len(node) + STRIDE <= LENGTH,
         UNCHANGED <<call, travel_depth, lazy_mark>>
  PROVE  Walks'
<1>1. /\ Way \in Address /\ Len(node) \in Nat /\ Len(call.p) \in Nat
      /\ STRIDE \in Nat
  BY Here, WordFacts
<1>2. At(Way)' /\ Len(node') = Len(node) + STRIDE /\ cidr' = cidr - STRIDE
  BY GoesDown
<1>3. Len(node') \in Nat /\ Len(node') >= Len(node)
  BY <1>1, <1>2
<1>4. /\ travel_depth' + 1 \in Nat /\ travel_depth' \in Int
      /\ (travel_depth' + 1) * STRIDE <= Len(node')
  BY <1>1, <1>3, NotesKept
<1>5. cidr \in Int
  BY DEF Walks
<1>6. call.fun \in {"insert", "delete", "exist"} => cidr = Len(call.p) - Len(node)
  BY DEF Walks
<1>7. Running("overlap", "descend") => cidr = OrgLimit - Len(node)
  BY DEF Walks
<1>8. OrgLimit \in Int
  BY Here, WordFacts, LimitIs
<1>9. call.fun \in {"insert", "delete", "exist"} =>
        cidr' = Len(call.p) - Len(node') /\ cidr' >= 0
  BY <1>1, <1>2, <1>5, <1>6
<1>10. Running("overlap", "descend") => cidr' = OrgLimit - Len(node')
  BY <1>1, <1>2, <1>5, <1>7, <1>8
<1>11. cidr' \in Int
  BY <1>1, <1>2, <1>5
<1>12. OrgLimit' = OrgLimit /\ Running("overlap", "descend")' = Running("overlap", "descend")
  BY DEF OrgLimit, Running
<1> QED BY <1>2, <1>4, <1>9, <1>10, <1>11, <1>12 DEF Walks, Running

-----------------------------------------------------------------------------
\* bitmapv6_insert_prefix ends with the rule it was called for, and no node but
\* those the rules need.
LEMMA InsertRuleInv ==
  ASSUME Inv, InsertRule
  PROVE  /\ Inv' /\ Trim(trie)'
         /\ call.fun = "insert" /\ call' # call /\ call'.pc = "done"
         /\ trie'.inl = Put(trie.inl, call.p, call.nhi)
         /\ ret' = 1 <=> call.p \in DOMAIN trie.inl
<1> DEFINE p == call.p
           t == trie'
<1>1. Types /\ Walks /\ Finds /\ Updates
  BY DEF Inv
<1>2. call.fun = "insert" /\ call.pc = "descend" /\ cidr < STRIDE
  BY DEF InsertRule, Running
<1>3. call \in Call /\ call.nhi \in NHI
  BY <1>1, <1>2, Runs DEF Types, Fun
<1>4. /\ p \in Prefix /\ p \in Bits /\ Len(p) \in 0 .. LENGTH /\ Way \in Address
      /\ OnPath(Way, node) /\ node \in Bits /\ Len(node) \in Nat
  BY <1>1, Here
<1>5. PICK stride : Strides(cidr) = {stride} /\ RuleAt(node, stride, cidr) = p
  BY <1>1, <1>2, RuleHere
<1>6. /\ trie' = [trie EXCEPT !.inl = Put(@, p, call.nhi)]
      /\ ret' = IF p \in DOMAIN trie.inl THEN 1 ELSE 0
      /\ Goto("done")
      /\ UNCHANGED <<walk, longest, travel_depth, lazy_mark>>
  BY <1>5 DEF InsertRule
<1>7. /\ call' \in Call /\ call'.fun = call.fun /\ call'.p = p
      /\ call'.nhi = call.nhi /\ call'.pc = "done"
  BY <1>3, <1>6, GoesOnAt DEF Pc
<1>8. IsTrie(trie) /\ IsTable(trie.inl) /\ trie = [inl |-> trie.inl, enl |-> trie.enl]
  BY <1>1 DEF Types, IsTrie
<1>9. t = [inl |-> Put(trie.inl, p, call.nhi), enl |-> trie.enl]
  BY <1>6, <1>8
<1>10. t.inl = Put(trie.inl, p, call.nhi) /\ t.enl = trie.enl
  BY <1>9
<1>11. IsTable(t.inl) /\ DOMAIN t.inl = DOMAIN trie.inl \cup {p}
  <2>1. /\ IsTable(Put(trie.inl, p, call.nhi))
        /\ DOMAIN Put(trie.inl, p, call.nhi) = DOMAIN trie.inl \cup {p}
    <3>1. p \in Prefix /\ call.nhi \in NHI /\ IsTable(trie.inl)
      BY <1>3, <1>4, <1>8
    <3> HIDE DEF p, t
    <3> QED BY <3>1, PutTable
  <2> HIDE DEF p, t
  <2> QED BY <1>10, <2>1
<1>12. IsTrie(t)
  <2>1. t = [inl |-> t.inl, enl |-> t.enl]
    BY <1>9
  <2> QED BY <1>8, <1>10, <1>11, <2>1 DEF IsTrie
<1> HIDE DEF t, p
<1>13. Branch(node) = Branch(p)
  <2>1. cidr = Len(p) - Len(node) /\ cidr >= 0
    BY <1>1, <1>2 DEF Walks, p
  <2>2. Len(node) <= Len(p) /\ Len(p) < Len(node) + STRIDE /\ Len(p) <= LENGTH
        /\ Len(p) \in 0 .. Len(p)
    BY <1>2, <1>4, <2>1, WordFacts
  <2>3. p = Take(Way, Len(p))
    <3>1. Take(IpOf(p), Len(p)) = Take(p, Len(p))
      BY <1>4, <2>2, IpTake
    <3>2. Take(p, Len(p)) = p
      BY <1>4, TakeAll
    <3> QED BY <3>1, <3>2 DEF Way, p
  <2> QED BY <1>4, <2>2, <2>3, BranchOfNode
<1>14. Trim(t)
  <2>1. trie.enl = (UNION {Branch(q) : q \in DOMAIN trie.inl}) \cup Branch(node)
    BY <1>1, <1>2 DEF Updates, Running
  <2>2. UNION {Branch(q) : q \in DOMAIN t.inl} =
          (UNION {Branch(q) : q \in DOMAIN trie.inl}) \cup Branch(p)
    BY <1>11
  <2> QED BY <1>10, <1>13, <2>1, <2>2 DEF Trim
<1>15. Types'
  <2>1. ret' \in 0 .. LENGTH
    BY <1>6, WordFacts
  <2> QED BY <1>1, <1>2, <1>3, <1>6, <1>7, <1>12, <2>1 DEF Types, t, p
<1>16. Walks'
  BY <1>1, <1>3, <1>6, EndsWalk
<1>17. Finds'
  BY <1>2, <1>7 DEF Finds, Running
<1>18. Updates'
  BY <1>2, <1>7, <1>14 DEF Updates, Running, t
<1>19. ret' = 1 <=> p \in DOMAIN trie.inl
  BY <1>6 DEF p
<1>20. call' # call
  BY <1>2, <1>7
<1> QED BY <1>2, <1>7, <1>10, <1>14, <1>15, <1>16, <1>17, <1>18, <1>19, <1>20
        DEF Inv, t, p

\* Before, it makes the nodes on the way.
LEMMA InsertDescendInv ==
  ASSUME Inv, InsertDescend
  PROVE  Inv' /\ trie'.inl = trie.inl /\ call' = call
<1> DEFINE b == BitsAt(Way, node)
           t == trie'
<1>1. Types /\ Walks /\ Finds /\ Updates
  BY DEF Inv
<1>2. call.fun = "insert" /\ call.pc = "descend" /\ cidr >= STRIDE
  BY DEF InsertDescend, Running
<1>3. call \in Call
  BY <1>1, <1>2, Runs DEF Fun
<1>4. /\ Len(call.p) \in 0 .. LENGTH /\ Way \in Address /\ OnPath(Way, node)
      /\ node \in Bits /\ Len(node) \in Nat
  BY <1>1, Here
<1>5. Strides(STRIDE) = {Value(b)} /\ ChildAt(node, Value(b)) = node \o b
  BY <1>1, StrideBits
<1>6. /\ trie' = [trie EXCEPT !.enl = @ \cup {node \o b}]
      /\ Descend(Value(b))
      /\ UNCHANGED <<call, longest, travel_depth, lazy_mark, ret>>
  BY <1>5 DEF InsertDescend
<1>7. /\ cidr = Len(call.p) - Len(node) /\ cidr \in Int
      /\ Len(node) + STRIDE <= Len(call.p) /\ Len(node) + STRIDE <= LENGTH
  <2>1. cidr = Len(call.p) - Len(node) /\ cidr \in Int
    BY <1>1, <1>2 DEF Walks
  <2> QED BY <1>2, <1>4, <2>1, WordFacts
<1>8. /\ At(Way)' /\ node' = node \o b /\ Len(node') = Len(node) + STRIDE
      /\ node' \in Bits /\ cidr' = cidr - STRIDE /\ Way' = Way /\ OnPath(Way, node')
  BY <1>1, <1>6, <1>7, GoesDown
<1> HIDE DEF b
<1>9. node' \in Prefix
  BY <1>7, <1>8, PrefixIsBits
<1>10. IsTrie(trie) /\ trie = [inl |-> trie.inl, enl |-> trie.enl]
       /\ IsTable(trie.inl) /\ trie.enl \subseteq Prefix
  BY <1>1 DEF Types, IsTrie
<1>11. t = [inl |-> trie.inl, enl |-> trie.enl \cup {node'}]
  BY <1>6, <1>8, <1>10
<1>12. t.inl = trie.inl /\ t.enl = trie.enl \cup {node'} /\ t = [inl |-> t.inl, enl |-> t.enl]
  BY <1>11
<1> HIDE DEF t
<1>13. IsTrie(t)
  BY <1>9, <1>10, <1>12 DEF IsTrie
<1>14. Types'
  BY <1>1, <1>6, <1>13 DEF Types, t
<1>15. Walks'
  BY <1>1, <1>2, <1>6, <1>7, WalksOn DEF b
<1>16. Finds'
  BY <1>2, <1>6 DEF Finds, Running
<1>17. Updates'
  <2>1. trie.enl = (UNION {Branch(q) : q \in DOMAIN trie.inl}) \cup Branch(node)
    BY <1>1, <1>2 DEF Updates, Running
  <2>2. Branch(node') = Branch(node) \cup {node'}
    <3>1. PICK a, n, c : a = Way /\ n = node /\ c = node'
      OBVIOUS
    <3>2. a \in Address /\ n \in Bits /\ OnPath(a, n)
      BY <1>4, <3>1
    <3>3. c \in Bits /\ OnPath(a, c) /\ Len(c) = Len(n) + STRIDE
      BY <1>8, <3>1
    <3>4. Branch(c) = Branch(n) \cup {c}
      BY <3>2, <3>3, BranchOfNext
    <3> QED BY <3>1, <3>4
  <2> DEFINE U(x) == UNION {Branch(q) : q \in DOMAIN x}
  <2>3. trie.enl = U(trie.inl) \cup Branch(node)
    BY <2>1
  <2>4. U(t.inl) = U(trie.inl)
    BY <1>12
  <2> HIDE DEF U
  <2>5. t.enl = U(t.inl) \cup Branch(node')
    <3>1. t.enl = (U(trie.inl) \cup Branch(node)) \cup {node'}
      BY <1>12, <2>3
    <3> QED BY <2>2, <2>4, <3>1
  <2> QED BY <1>2, <1>6, <2>5 DEF Updates, Running, t, U
<1> QED BY <1>6, <1>12, <1>14, <1>15, <1>16, <1>17 DEF Inv, t

-----------------------------------------------------------------------------
\* bitmapv6_delete_prefix ends without the rule it was called for, and without
\* the nodes only that rule needed.
LEMMA DeleteRuleInv ==
  ASSUME Inv, DeleteRule
  PROVE  /\ Inv' /\ Trim(trie)'
         /\ call.fun = "delete" /\ call' # call /\ call'.pc = "done"
         /\ trie'.inl = Remove(trie.inl, call.p)
         /\ ret' = 1 <=> DOMAIN trie'.inl = {}
<1> DEFINE p == call.p
           del == DeletePrefix(trie, p)
<1>1. Types /\ Walks /\ Finds /\ Updates
  BY DEF Inv
<1>2. call.fun = "delete" /\ call.pc = "descend" /\ cidr < STRIDE
  BY DEF DeleteRule, Running
<1>3. call \in Call
  BY <1>1, <1>2, Runs DEF Fun
<1>4. PICK stride : Strides(cidr) = {stride} /\ RuleAt(node, stride, cidr) = p
  BY <1>1, <1>2, RuleHere
<1>5. /\ trie' = del.trie
      /\ ret' = IF del.empty THEN 1 ELSE 0
      /\ Goto("done")
      /\ UNCHANGED <<walk, longest, travel_depth, lazy_mark>>
  BY <1>4 DEF DeleteRule
<1>6. /\ call' \in Call /\ call'.fun = call.fun /\ call'.p = p
      /\ call'.nhi = call.nhi /\ call'.pc = "done"
  BY <1>3, <1>5, GoesOnAt DEF Pc
<1>7. IsTrie(trie) /\ Trim(trie) /\ p \in DOMAIN trie.inl
  BY <1>1, <1>2 DEF Types, Updates, Running
<1>8. /\ IsTrie(trie') /\ Trim(trie')
      /\ trie'.inl = Remove(trie.inl, p)
      /\ del.empty <=> DOMAIN trie.inl = {p}
  BY <1>5, <1>7, DeleteKeepsTrim
<1> HIDE DEF p, del
<1>9. DOMAIN Remove(trie.inl, p) = DOMAIN trie.inl \ {p}
  BY DEF Remove
<1>10. ret' = 1 <=> DOMAIN trie'.inl = {}
  <2>1. DOMAIN trie.inl = {p} <=> DOMAIN trie.inl \ {p} = {}
    BY <1>7
  <2> QED BY <1>5, <1>8, <1>9, <2>1
<1>11. Types'
  <2>1. ret' \in 0 .. LENGTH
    BY <1>5, WordFacts
  <2> QED BY <1>1, <1>2, <1>5, <1>6, <1>8, <2>1 DEF Types, p
<1>12. Walks'
  BY <1>1, <1>3, <1>5, EndsWalk
<1>13. Finds'
  BY <1>2, <1>6 DEF Finds, Running
<1>14. Trim(trie)' /\ Updates'
  BY <1>2, <1>6, <1>8 DEF Updates, Running
<1>15. call' # call
  BY <1>2, <1>6
<1> QED BY <1>2, <1>6, <1>8, <1>10, <1>11, <1>12, <1>13, <1>14, <1>15 DEF Inv, p

\* Before, it goes down to that rule.
LEMMA DeleteDescendInv ==
  ASSUME Inv, DeleteDescend
  PROVE  Inv'
<1>1. Types /\ Walks /\ Finds /\ Updates
  BY DEF Inv
<1>2. call.fun = "delete" /\ call.pc = "descend" /\ cidr >= STRIDE
  BY DEF DeleteDescend, Running
<1>3. Strides(STRIDE) = {Value(BitsAt(Way, node))}
  BY <1>1, StrideBits
<1>4. /\ Descend(Value(BitsAt(Way, node)))
      /\ UNCHANGED <<trie, call, longest, travel_depth, lazy_mark, ret>>
  BY <1>3 DEF DeleteDescend
<1>5. Len(node) + STRIDE <= LENGTH
  BY <1>1, <1>2, PathFits
<1>6. Walks'
  BY <1>1, <1>2, <1>4, <1>5, WalksOn
<1>7. Types'
  BY <1>1, <1>4 DEF Types
<1>8. Finds'
  BY <1>2, <1>4 DEF Finds, Running
<1>9. Updates'
  BY <1>1, <1>2, <1>4 DEF Updates, Running
<1> QED BY <1>6, <1>7, <1>8, <1>9 DEF Inv

-----------------------------------------------------------------------------
\* bitmapv6_prefix_exist in the node that would hold the prefix,
LEMMA ExistRuleInv ==
  ASSUME Inv, ExistRule
  PROVE  Inv'
<1>1. Types /\ Walks /\ Finds /\ Updates
  BY DEF Inv
<1>2. call.fun = "exist" /\ call.pc = "descend" /\ cidr < STRIDE
  BY DEF ExistRule, Running
<1>3. call \in Call
  BY <1>1, <1>2, Runs DEF Fun
<1>4. PICK stride : Strides(cidr) = {stride} /\ RuleAt(node, stride, cidr) = call.p
  BY <1>1, <1>2, RuleHere
<1>5. /\ ret' = IF call.p \in DOMAIN trie.inl THEN 1 ELSE 0
      /\ Goto("done")
      /\ UNCHANGED <<trie, walk, longest, travel_depth, lazy_mark>>
  BY <1>4 DEF ExistRule
<1>6. /\ call' \in Call /\ call'.fun = call.fun /\ call'.p = call.p
      /\ call'.nhi = call.nhi /\ call'.pc = "done"
  BY <1>3, <1>5, GoesOnAt DEF Pc
<1>7. Types'
  <2>1. ret' \in 0 .. LENGTH
    BY <1>5, WordFacts
  <2> QED BY <1>1, <1>2, <1>5, <1>6, <2>1 DEF Types
<1>8. Walks'
  BY <1>1, <1>3, <1>5, EndsWalk
<1>9. Finds'
  BY <1>2, <1>6 DEF Finds, Running
<1>10. Updates'
  BY <1>1, <1>2, <1>5, <1>6 DEF Updates, Running
<1> QED BY <1>7, <1>8, <1>9, <1>10 DEF Inv

\* or earlier, where a child is missing that the prefix would need.
LEMMA ExistDescendInv ==
  ASSUME Inv, ExistDescend
  PROVE  Inv'
<1> DEFINE b == BitsAt(Way, node)
<1>1. Types /\ Walks /\ Finds /\ Updates
  BY DEF Inv
<1>2. call.fun = "exist" /\ call.pc = "descend" /\ cidr >= STRIDE
  BY DEF ExistDescend, Running
<1>3. call \in Call
  BY <1>1, <1>2, Runs DEF Fun
<1>4. Strides(STRIDE) = {Value(b)} /\ (HasChild(node, Value(b)) <=> node \o b \in trie.enl)
  BY <1>1, StrideBits
<1>5. /\ IF HasChild(node, Value(b))
         THEN Descend(Value(b)) /\ UNCHANGED call
         ELSE Goto("done") /\ UNCHANGED walk
      /\ UNCHANGED <<trie, longest, travel_depth, lazy_mark, ret>>
  BY <1>4 DEF ExistDescend
<1>6. CASE HasChild(node, Value(b))
  <2>1. Len(node) + STRIDE <= LENGTH
    BY <1>1, <1>2, PathFits
  <2>2. Walks'
    BY <1>1, <1>2, <1>5, <1>6, <2>1, WalksOn
  <2> HIDE DEF b
  <2>3. Types'
    BY <1>1, <1>5, <1>6 DEF Types
  <2>4. Finds'
    BY <1>2, <1>5, <1>6 DEF Finds, Running
  <2>5. Updates'
    BY <1>1, <1>2, <1>5, <1>6 DEF Updates, Running
  <2> QED BY <2>2, <2>3, <2>4, <2>5 DEF Inv
<1>7. CASE ~ HasChild(node, Value(b))
  <2>1. Goto("done") /\ UNCHANGED <<trie, walk, longest, travel_depth, lazy_mark, ret>>
    BY <1>5, <1>7
  <2>2. /\ call' \in Call /\ call'.fun = call.fun /\ call'.p = call.p
        /\ call'.nhi = call.nhi /\ call'.pc = "done"
    BY <1>3, <2>1, GoesOnAt DEF Pc
  <2>3. call.p \notin DOMAIN trie.inl
    <3>1. SUFFICES ASSUME call.p \in DOMAIN trie.inl PROVE FALSE
      OBVIOUS
    <3>2. /\ IsTrie(trie) /\ Trim(trie) /\ Way \in Address /\ OnPath(Way, node)
          /\ Len(Way) = LENGTH /\ Len(call.p) \in 0 .. LENGTH /\ call.p \in Prefix
          /\ call.p \in Bits /\ Len(node) \in Nat
      BY <1>1, <1>2, Here DEF Types, Updates, Running
    <3>3. Take(Way, Len(call.p)) = call.p
      <4>1. Len(call.p) \in 0 .. Len(call.p) /\ Take(call.p, Len(call.p)) = call.p
        BY <3>2, TakeAll
      <4> QED BY <1>1, <4>1, WayIs
    <3>4. Len(call.p) \in MatchLengths(trie.inl, Way)
      BY <3>1, <3>2, <3>3 DEF MatchLengths
    <3>5. Len(call.p) < Len(node) + STRIDE
      BY <1>4, <1>7, <3>2, <3>4, NothingLonger
    <3>6. cidr = Len(call.p) - Len(node)
      BY <1>1, <1>2 DEF Walks
    <3> QED BY <1>2, <3>2, <3>5, <3>6, WordFacts
  <2> HIDE DEF b
  <2>4. Types'
    BY <1>1, <1>2, <2>1, <2>2 DEF Types
  <2>5. Walks'
    BY <1>1, <1>3, <2>1, EndsWalk
  <2>6. Finds'
    BY <1>2, <2>2 DEF Finds, Running
  <2>7. ret = 0 /\ Trim(trie)
    BY <1>1, <1>2 DEF Updates, Running
  <2>8. Updates'
    BY <1>2, <2>1, <2>2, <2>3, <2>7 DEF Updates, Running
  <2> QED BY <2>4, <2>5, <2>6, <2>8 DEF Inv
<1> QED BY <1>6, <1>7

-----------------------------------------------------------------------------
\* What a turn finds, put to what the turns before it have found.
LEMMA TurnFinds ==
  ASSUME Types, Walks, NEW limit \in 0 .. STRIDE, NEW r,
         FoundIn(trie, r, Way, 0, Len(node))
  PROVE  LET rule == RuleInNode(node, Value(BitsAt(Way, node)), limit)
         IN  /\ FoundIn(trie, rule, Way, Len(node), Len(node) + limit)
             /\ FoundIn(trie, IF rule # NULL THEN rule ELSE r, Way, 0, Len(node) + limit)
<1> DEFINE b == BitsAt(Way, node)
           rule == RuleInNode(node, Value(b), limit)
<1>1. /\ IsTrie(trie) /\ Way \in Address /\ OnPath(Way, node) /\ Len(node) \in Nat
      /\ limit \in Nat /\ 0 \in Nat /\ Len(node) + limit \in Nat
      /\ 0 <= Len(node) /\ Len(node) <= Len(node) + limit
  BY Here, WordFacts DEF Types
<1>2. rule = RuleIn(trie, node, b, limit)
  BY StrideBits
<1>3. FoundIn(trie, rule, Way, Len(node), Len(node) + limit)
  BY <1>1, <1>2, RuleInIs
<1> HIDE DEF b, rule
<1>4. FoundIn(trie, IF rule # NULL THEN rule ELSE r, Way, 0, Len(node) + limit)
  BY <1>1, <1>3, LongerFirst
<1> QED BY <1>3, <1>4 DEF rule, b

\* No rule of another length matches the way behind a missing child.
LEMMA NothingBelow ==
  ASSUME Types, Walks, Trim(trie), ~ HasChild(node, Value(BitsAt(Way, node)))
  PROVE  \A k \in MatchLengths(trie.inl, Way) : k < Len(node) + STRIDE
<1>1. IsTrie(trie) /\ Way \in Address /\ OnPath(Way, node)
  BY Here DEF Types
<1>2. node \o BitsAt(Way, node) \notin trie.enl
  BY StrideBits
<1> QED BY <1>1, <1>2, NothingLonger

\* A rule that is found is a prefix.
LEMMA RuleIsPrefix ==
  ASSUME Types, Walks, NEW r, NEW lo, NEW hi, FoundIn(trie, r, Way, lo, hi)
  PROVE  r \in Prefix \cup {NULL}
<1>1. IsTrie(trie) /\ Way \in Address
  BY Here DEF Types
<1> QED BY <1>1, FoundRule

\* bitmapv6_do_search keeps the longest rule so far.
LEMMA SearchTurnInv ==
  ASSUME Inv, SearchTurn
  PROVE  Inv'
<1> DEFINE b == BitsAt(Way, node)
           rule == RuleInNode(node, Value(b), STRIDE)
<1>1. Types /\ Walks /\ Finds /\ Updates
  BY DEF Inv
<1>2. call.fun = "search" /\ call.pc = "descend"
  BY DEF SearchTurn, Running
<1>3. call \in Call
  BY <1>1, <1>2, Runs DEF Fun
<1>4. Strides(STRIDE) = {Value(b)}
  BY <1>1, StrideBits
<1>5. /\ longest' = IF rule # NULL THEN rule ELSE longest
      /\ IF HasChild(node, Value(b))
         THEN Descend(Value(b)) /\ UNCHANGED call
         ELSE Goto("done") /\ UNCHANGED walk
      /\ UNCHANGED <<trie, travel_depth, lazy_mark, ret>>
  BY <1>4 DEF SearchTurn
<1>6. /\ IsTrie(trie) /\ Way \in Address /\ Len(node) \in Nat /\ STRIDE \in Nat
      /\ STRIDE \in 0 .. STRIDE /\ 0 \in Nat /\ Len(node) + STRIDE \in Nat
  BY <1>1, Here, WordFacts DEF Types
<1>7. FoundIn(trie, longest, Way, 0, Len(node))
  BY <1>1, <1>2 DEF Finds, Running
<1>8. FoundIn(trie, longest', Way, 0, Len(node) + STRIDE)
  BY <1>1, <1>5, <1>6, <1>7, TurnFinds
<1>9. longest' \in Prefix \cup {NULL}
  BY <1>1, <1>8, RuleIsPrefix
<1>10. Trim(trie)
  BY <1>1, <1>2 DEF Updates, Running
<1>11. CASE HasChild(node, Value(b))
  <2>1. Len(node) + STRIDE <= LENGTH
    BY <1>1, <1>11, ChildFits
  <2>2. Descend(Value(b)) /\ UNCHANGED <<trie, call, travel_depth, lazy_mark, ret>>
    BY <1>5, <1>11
  <2>3. Walks' /\ Len(node') = Len(node) + STRIDE /\ Way' = Way
    BY <1>1, <1>2, <2>1, <2>2, WalksOn, GoesDown
  <2> HIDE DEF b, rule
  <2>4. Types'
    BY <1>1, <1>9, <2>2 DEF Types
  <2>5. FoundIn(trie, longest, Way, 0, Len(node))'
    BY <1>8, <2>2, <2>3 DEF FoundIn
  <2>6. Finds'
    BY <1>2, <2>2, <2>5 DEF Finds, Running
  <2>7. Updates'
    BY <1>2, <1>10, <2>2 DEF Updates, Running, Trim
  <2> QED BY <2>3, <2>4, <2>6, <2>7 DEF Inv
<1>12. CASE ~ HasChild(node, Value(b))
  <2>1. Goto("done") /\ UNCHANGED <<trie, walk, travel_depth, lazy_mark, ret>>
    BY <1>5, <1>12
  <2>2. /\ call' \in Call /\ call'.fun = call.fun /\ call'.p = call.p
        /\ call'.nhi = call.nhi /\ call'.pc = "done"
    BY <1>3, <2>1, GoesOnAt DEF Pc
  <2>3. \A k \in MatchLengths(trie.inl, Way) : k < Len(node) + STRIDE
    BY <1>1, <1>10, <1>12, NothingBelow
  <2> HIDE DEF b, rule
  <2>4. FoundIn(trie, longest', Way, 0, All)
    BY <1>6, <1>8, <2>3, FoundAll
  <2>5. Way' = Way
    BY <2>2 DEF Way
  <2>6. Types'
    BY <1>1, <1>2, <1>9, <2>1, <2>2 DEF Types
  <2>7. Walks'
    BY <1>1, <1>3, <2>1, EndsWalk
  <2>8. FoundIn(trie, longest, Way, 0, All)'
    BY <2>1, <2>4, <2>5 DEF FoundIn, All
  <2>9. Finds'
    BY <1>2, <2>2, <2>8 DEF Finds, Running
  <2>10. Updates'
    BY <1>2, <1>10, <2>1, <2>2 DEF Updates, Running, Trim
  <2> QED BY <2>6, <2>7, <2>9, <2>10 DEF Inv
<1> QED BY <1>11, <1>12

\* bitmapv6_detect_overlap_generic keeps the longest rule below its limit.
LEMMA OverlapTurnInv ==
  ASSUME Inv, OverlapTurn
  PROVE  Inv'
<1> DEFINE b == BitsAt(Way, node)
           m == SmallerOf(cidr, STRIDE)
           rule == RuleInNode(node, Value(b), m)
           l == Len(node)
<1>1. Types /\ Walks /\ Finds /\ Updates
  BY DEF Inv
<1>2. call.fun = "overlap" /\ call.pc = "descend" /\ cidr > 0
  BY DEF OverlapTurn, Running
<1>3. call \in Call
  BY <1>1, <1>2, Runs DEF Fun
<1>4. Strides(STRIDE) = {Value(b)}
  BY <1>1, StrideBits
<1>5. /\ IF rule # NULL /\ Len(rule) < OrgLimit
         THEN ret' = Len(rule) /\ longest' = rule
         ELSE UNCHANGED <<ret, longest>>
      /\ IF HasChild(node, Value(b))
         THEN Descend(Value(b)) /\ UNCHANGED call
         ELSE Goto("done") /\ UNCHANGED walk
      /\ UNCHANGED <<trie, travel_depth, lazy_mark>>
  BY <1>4 DEF OverlapTurn, OrgLimit
<1>6. /\ IsTrie(trie) /\ Way \in Address /\ l \in Nat /\ STRIDE \in Nat
      /\ OrgLimit \in 0 .. LENGTH /\ LENGTH \in Nat /\ OrgLimit \in Nat
  BY <1>1, Here, LimitIs, WordFacts DEF Types
<1>7. cidr = OrgLimit - l
  BY <1>1, <1>2 DEF Walks, Running
<1> HIDE DEF l
<1>8. /\ m \in 0 .. STRIDE /\ m \in Nat /\ l + m \in Nat /\ l + m <= OrgLimit
      /\ SmallerOf(l, OrgLimit) = l
      /\ SmallerOf(l + STRIDE, OrgLimit) = l + m
      /\ l + m = OrgLimit \/ l + m = l + STRIDE
  BY <1>2, <1>6, <1>7 DEF SmallerOf
<1>9. FoundIn(trie, longest, Way, 0, l)
  BY <1>1, <1>2, <1>8 DEF Finds, Running, l
<1> HIDE DEF m
<1>10. /\ FoundIn(trie, rule, Way, l, l + m)
       /\ FoundIn(trie, IF rule # NULL THEN rule ELSE longest, Way, 0, l + m)
  BY <1>1, <1>8, <1>9, TurnFinds DEF l
<1> HIDE DEF b, rule
<1>11. rule # NULL => Len(rule) < OrgLimit /\ Len(rule) \in 0 .. LENGTH
  <2> SUFFICES ASSUME rule # NULL
               PROVE  Len(rule) < OrgLimit /\ Len(rule) \in 0 .. LENGTH
    OBVIOUS
  <2>1. PICK k \in MatchLengths(trie.inl, Way) : k < l + m /\ rule = Take(Way, k)
    BY <1>10 DEF FoundIn
  <2>2. k \in 0 .. LENGTH
    BY <1>6, <2>1, MatchLength
  <2>3. Len(Take(Way, k)) = k
    BY <1>6, <2>2, AddressIs, TakeBits
  <2> QED BY <1>6, <1>8, <2>1, <2>2, <2>3
<1>12. /\ longest' = IF rule # NULL THEN rule ELSE longest
       /\ ret' = IF longest' = NULL THEN 0 ELSE Len(longest')
  <2>1. ret = IF longest = NULL THEN 0 ELSE Len(longest)
    BY <1>1, <1>2 DEF Finds
  <2> QED BY <1>5, <1>11, <2>1
<1>13. FoundIn(trie, longest', Way, 0, l + m)
  BY <1>10, <1>12
<1>14. longest' \in Prefix \cup {NULL} /\ ret' \in 0 .. LENGTH
  <2>1. longest' \in Prefix \cup {NULL}
    BY <1>1, <1>13, RuleIsPrefix
  <2>2. ret \in 0 .. LENGTH
    BY <1>1 DEF Types
  <2> QED BY <1>5, <1>11, <2>1, <2>2
<1>15. Trim(trie)
  BY <1>1, <1>2 DEF Updates, Running
<1>16. CASE HasChild(node, Value(b))
  <2>1. Len(node) + STRIDE <= LENGTH
    BY <1>1, <1>16, ChildFits DEF b
  <2>2. Descend(Value(b)) /\ UNCHANGED <<trie, call, travel_depth, lazy_mark>>
    BY <1>5, <1>16
  <2>3. Walks' /\ Len(node') = l + STRIDE /\ Way' = Way
    BY <1>1, <1>2, <2>1, <2>2, WalksOn, GoesDown DEF b, l
  <2>4. Types'
    BY <1>1, <1>14, <2>2 DEF Types
  <2>5. OrgLimit' = OrgLimit
    BY <2>2 DEF OrgLimit
  <2>6. FoundIn(trie, longest, Way, 0, SmallerOf(Len(node), OrgLimit))'
    BY <1>8, <1>13, <2>2, <2>3, <2>5 DEF FoundIn, SmallerOf
  <2>7. Finds'
    BY <1>2, <1>12, <2>2, <2>6 DEF Finds, Running
  <2>8. Updates'
    BY <1>2, <1>15, <2>2 DEF Updates, Running, Trim
  <2> QED BY <2>3, <2>4, <2>7, <2>8 DEF Inv
<1>17. CASE ~ HasChild(node, Value(b))
  <2>1. Goto("done") /\ UNCHANGED <<trie, walk, travel_depth, lazy_mark>>
    BY <1>5, <1>17
  <2>2. /\ call' \in Call /\ call'.fun = call.fun /\ call'.p = call.p
        /\ call'.nhi = call.nhi /\ call'.pc = "done" /\ call'.bits_limit = call.bits_limit
    BY <1>3, <2>1, GoesOnAt DEF Pc
  <2>3. \A k \in MatchLengths(trie.inl, Way) : k < l + STRIDE
    BY <1>1, <1>15, <1>17, NothingBelow DEF b, l
  <2>4. FoundIn(trie, longest', Way, 0, OrgLimit)
    <3>1. \A k \in MatchLengths(trie.inl, Way) : k \in Nat
      BY <1>6, MatchLength
    <3>2. \A k \in MatchLengths(trie.inl, Way) : k < OrgLimit <=> k < l + m
      BY <1>6, <1>8, <2>3, <3>1
    <3>3. {k \in MatchLengths(trie.inl, Way) : 0 <= k /\ k < OrgLimit} =
            {k \in MatchLengths(trie.inl, Way) : 0 <= k /\ k < l + m}
      BY <3>2
    <3> QED BY <1>13, <3>3 DEF FoundIn
  <2>5. Way' = Way /\ OrgLimit' = OrgLimit
    BY <2>2 DEF Way, OrgLimit
  <2>6. Types'
    BY <1>1, <1>2, <1>14, <2>1, <2>2 DEF Types
  <2>7. Walks'
    BY <1>1, <1>3, <2>1, EndsWalk
  <2>8. FoundIn(trie, longest, Way, 0, OrgLimit)'
    BY <2>1, <2>4, <2>5 DEF FoundIn
  <2>9. Finds'
    BY <1>2, <1>12, <2>2, <2>8 DEF Finds, Running
  <2>10. Updates'
    BY <1>2, <1>15, <2>1, <2>2 DEF Updates, Running, Trim
  <2> QED BY <2>6, <2>7, <2>9, <2>10 DEF Inv
<1> QED BY <1>16, <1>17

\* It ends where the limit is used up.
LEMMA OverlapEndInv ==
  ASSUME Inv, OverlapEnd
  PROVE  Inv'
<1>1. Types /\ Walks /\ Finds /\ Updates
  BY DEF Inv
<1>2. call.fun = "overlap" /\ call.pc = "descend" /\ cidr <= 0
  BY DEF OverlapEnd, Running
<1>3. call \in Call
  BY <1>1, <1>2, Runs DEF Fun
<1>4. Goto("done") /\ UNCHANGED <<trie, walk, longest, travel_depth, lazy_mark, ret>>
  BY DEF OverlapEnd
<1>5. /\ call' \in Call /\ call'.fun = call.fun /\ call'.p = call.p
      /\ call'.nhi = call.nhi /\ call'.pc = "done" /\ call'.bits_limit = call.bits_limit
  BY <1>3, <1>4, GoesOnAt DEF Pc
<1>6. Way' = Way /\ OrgLimit' = OrgLimit
  BY <1>5 DEF Way, OrgLimit
<1>7. SmallerOf(Len(node), OrgLimit) = OrgLimit
  <2>1. Len(node) \in Nat /\ OrgLimit \in 0 .. LENGTH
    BY <1>1, Here, LimitIs
  <2>2. cidr = OrgLimit - Len(node)
    BY <1>1, <1>2 DEF Walks, Running
  <2> QED BY <1>2, <2>1, <2>2, WordFacts DEF SmallerOf
<1>8. FoundIn(trie, longest, Way, 0, OrgLimit)
  BY <1>1, <1>2, <1>7 DEF Finds, Running
<1>9. FoundIn(trie, longest, Way, 0, OrgLimit)'
  BY <1>4, <1>6, <1>8 DEF FoundIn
<1>10. Types'
  BY <1>1, <1>2, <1>4, <1>5 DEF Types
<1>11. Walks'
  BY <1>1, <1>3, <1>4, EndsWalk
<1>12. Finds'
  <2>1. ret = IF longest = NULL THEN 0 ELSE Len(longest)
    BY <1>1, <1>2 DEF Finds
  <2> QED BY <1>2, <1>4, <1>5, <1>9, <2>1 DEF Finds, Running
<1>13. Updates'
  BY <1>1, <1>2, <1>4, <1>5 DEF Updates, Running, Trim
<1> QED BY <1>10, <1>11, <1>12, <1>13 DEF Inv

-----------------------------------------------------------------------------
\* lazy_mark has room for all nodes of a path.
LEMMA DepthFits ==
  ASSUME NEW d \in Nat, d * STRIDE <= LENGTH
  PROVE  /\ LEVEL \in Nat /\ d < LEVEL /\ d \in 0 .. LEVEL - 1
         /\ d <= LENGTH
<1>1. d <= LENGTH \div STRIDE
  BY StrideSteps
<1>2. LENGTH \div STRIDE \in Nat
  BY StrideAssumption, LengthAssumption
<1>3. d <= d * STRIDE
  BY StrideAssumption
<1>4. d * STRIDE \in Nat
  BY StrideSteps
<1> QED BY <1>1, <1>2, <1>3, <1>4, LengthAssumption DEF LEVEL

\* bitmapv6_do_search_lazy on the way down: a node it leaves is noted.
LEMMA LazyGoesDownInv ==
  ASSUME Inv, Running("lazy", "descend"),
         HasChild(node, Value(BitsAt(Way, node))),
         travel_depth' = travel_depth + 1,
         lazy_mark' = [lazy_mark EXCEPT ![travel_depth'] =
                         [lazy_p |-> node, stride |-> Value(BitsAt(Way, node))]],
         Descend(Value(BitsAt(Way, node))),
         UNCHANGED <<trie, call, longest, ret>>
  PROVE  Inv'
<1> DEFINE b == BitsAt(Way, node)
           d == travel_depth + 1
           mark == [lazy_p |-> node, stride |-> Value(b)]
<1>1. Types /\ Walks /\ Finds /\ Updates
  BY DEF Inv
<1>2. call.fun = "lazy" /\ call.pc = "descend"
  BY DEF Running
<1>3. Len(node) + STRIDE <= LENGTH
  BY <1>1, ChildFits
<1>4. /\ At(Way)' /\ Way' = Way /\ Len(node') = Len(node) + STRIDE
      /\ cidr' = cidr - STRIDE
  BY <1>1, <1>3, GoesDown
<1>5. /\ d \in Nat /\ d * STRIDE = Len(node) /\ travel_depth \in Int
      /\ Noted(Way, d)
  BY <1>1, <1>2 DEF Walks, Running
<1>6. /\ Len(node) \in 0 .. LENGTH /\ node \in Prefix /\ OnPath(Way, node)
      /\ Value(b) \in 0 .. Pow2[STRIDE] - 1
  BY <1>1, Here, StrideBits
<1>7. lazy_mark \in [0 .. LEVEL - 1 -> Mark] /\ mark \in Mark
  <2>1. lazy_mark \in [0 .. LEVEL - 1 -> Mark]
    BY <1>1 DEF Types
  <2> HIDE DEF b
  <2> QED BY <1>6, <2>1 DEF Mark
<1>8. d \in 0 .. LEVEL - 1 /\ LEVEL \in Nat
  BY <1>5, <1>6, DepthFits
<1>9. travel_depth' = d /\ lazy_mark' = [lazy_mark EXCEPT ![d] = mark]
  OBVIOUS
<1>10. node = Take(Way, d * STRIDE)
  BY <1>5, <1>6 DEF OnPath
<1> HIDE DEF mark, d
<1>11. /\ lazy_mark' \in [0 .. LEVEL - 1 -> Mark]
       /\ lazy_mark'[d] = mark
       /\ \A e \in 0 .. d - 1 : lazy_mark'[e] = lazy_mark[e]
  <2>1. \A e \in 0 .. d - 1 : e # d /\ e \in 0 .. LEVEL - 1
    <3>1. d \in Nat /\ LEVEL \in Nat /\ d <= LEVEL - 1
      BY <1>5, <1>8
    <3> QED BY <3>1
  <2> QED BY <1>7, <1>8, <1>9, <2>1
<1>12. Noted(Way, travel_depth + 1)'
  <2>1. travel_depth' + 1 - 1 = d /\ d \in Int
    BY <1>5, <1>9
  <2>2. ASSUME NEW e \in 0 .. d
        PROVE  /\ lazy_mark'[e].lazy_p = Take(Way, e * STRIDE)
               /\ lazy_mark'[e].stride = Value(BitsAt(Way, Take(Way, e * STRIDE)))
    <3>1. CASE e = d
      <4>1. mark.lazy_p = node /\ mark.stride = Value(BitsAt(Way, node))
        BY DEF mark
      <4> QED BY <1>10, <1>11, <3>1, <4>1
    <3>2. CASE e # d
      <4>1. e \in 0 .. d - 1
        BY <2>1, <3>2
      <4> QED BY <1>5, <1>11, <4>1 DEF Noted
    <3> QED BY <3>1, <3>2
  <2>3. \A e \in 0 .. travel_depth' + 1 - 1 : e \in 0 .. d
    BY <2>1
  <2> QED BY <1>4, <2>2, <2>3 DEF Noted
<1>13. /\ travel_depth' + 1 \in Nat /\ travel_depth' \in Int
       /\ (travel_depth' + 1) * STRIDE = Len(node') /\ Len(node') \in Int
  <2>1. (d + 1) * STRIDE = d * STRIDE + STRIDE
    BY <1>5, StrideSteps
  <2>2. Len(node') \in Int
    BY <1>4, <1>6, WordFacts
  <2> QED BY <1>4, <1>5, <1>9, <2>1, <2>2
<1>14. Walks'
  <2>1. cidr' \in Int
    BY <1>1, <1>4, WordFacts DEF Walks
  <2> QED BY <1>2, <1>4, <1>12, <1>13, <2>1 DEF Walks, Running
<1>15. Types'
  BY <1>1, <1>11 DEF Types
<1>16. Finds'
  BY <1>2 DEF Finds, Running
<1>17. Updates'
  BY <1>1, <1>2 DEF Updates, Running, Trim
<1> QED BY <1>14, <1>15, <1>16, <1>17 DEF Inv

\* The last node is tried at once; if it has no rule the search turns round.
LEMMA LazyDescendInv ==
  ASSUME Inv, LazyDescend
  PROVE  Inv'
<1> DEFINE b == BitsAt(Way, node)
           rule == RuleInNode(node, Value(b), STRIDE)
           l == Len(node)
<1>1. Types /\ Walks /\ Finds /\ Updates
  BY DEF Inv
<1>2. call.fun = "lazy" /\ call.pc = "descend" /\ Running("lazy", "descend")
  BY DEF LazyDescend, Running
<1>3. call \in Call
  BY <1>1, <1>2, Runs DEF Fun
<1>4. Strides(STRIDE) = {Value(b)}
  BY <1>1, StrideBits
<1>5. /\ IF HasChild(node, Value(b))
         THEN /\ travel_depth' = travel_depth + 1
              /\ lazy_mark' = [lazy_mark EXCEPT ![travel_depth'] =
                                 [lazy_p |-> node, stride |-> Value(b)]]
              /\ Descend(Value(b))
              /\ UNCHANGED <<call, longest>>
         ELSE /\ longest' = rule
              /\ Goto(IF longest' # NULL THEN "done" ELSE "ascend")
              /\ UNCHANGED <<walk, travel_depth, lazy_mark>>
      /\ UNCHANGED <<trie, ret>>
  BY <1>4 DEF LazyDescend
<1>6. CASE HasChild(node, Value(b))
  BY <1>2, <1>5, <1>6, LazyGoesDownInv
<1>7. CASE ~ HasChild(node, Value(b))
  <2> DEFINE pc == IF longest' # NULL THEN "done" ELSE "ascend"
  <2>1. /\ longest' = rule /\ Goto(pc)
        /\ UNCHANGED <<trie, walk, travel_depth, lazy_mark, ret>>
    BY <1>5, <1>7
  <2>2. pc \in {"done", "ascend"}
    OBVIOUS
  <2>3. /\ call' \in Call /\ call'.fun = call.fun /\ call'.p = call.p
        /\ call'.nhi = call.nhi /\ call'.pc = pc
    BY <1>3, <2>1, <2>2, GoesOnAt DEF Pc
  <2>4. /\ IsTrie(trie) /\ Trim(trie) /\ Way \in Address /\ l \in Nat
        /\ STRIDE \in 0 .. STRIDE /\ l + STRIDE \in Nat /\ 0 \in Nat
        /\ OnPath(Way, node)
    BY <1>1, <1>2, Here, WordFacts DEF Types, Updates, Running
  <2>5. rule = RuleIn(trie, node, b, STRIDE)
    BY <1>1, StrideBits
  <2>6. FoundIn(trie, rule, Way, l, l + STRIDE)
    BY <2>4, <2>5, RuleInIs
  <2>7. \A k \in MatchLengths(trie.inl, Way) : k < l + STRIDE
    BY <1>1, <1>7, <2>4, NothingBelow
  <2> HIDE DEF rule, b, l
  <2>8. FoundIn(trie, longest', Way, l, All)
    BY <2>1, <2>4, <2>6, <2>7, FoundAll
  <2>9. longest' # NULL => FoundIn(trie, longest', Way, 0, All)
    BY <2>4, <2>8, FoundIsLongest
  <2>10. longest' \in Prefix \cup {NULL}
    BY <1>1, <2>8, RuleIsPrefix
  <2>11. (travel_depth + 1) * STRIDE = l
    BY <1>1, <1>2 DEF Walks, l
  <2>12. Way' = Way
    BY <2>3 DEF Way
  <2>13. Types'
    BY <1>1, <1>2, <2>1, <2>3, <2>10 DEF Types
  <2>14. Walks'
    BY <1>1, <1>3, <2>1, <2>2, EndsWalk
  <2>15. longest' # NULL => FoundIn(trie, longest, Way, 0, All)'
    BY <2>1, <2>9, <2>12 DEF FoundIn, All
  <2>16. longest' = NULL => FoundIn(trie, NULL, Way, (travel_depth + 1) * STRIDE, All)'
    <3>1. SUFFICES ASSUME longest' = NULL
                   PROVE  FoundIn(trie, NULL, Way, (travel_depth + 1) * STRIDE, All)'
      OBVIOUS
    <3>2. FoundIn(trie, NULL, Way, (travel_depth + 1) * STRIDE, All)
      BY <2>8, <2>11, <3>1
    <3> QED BY <2>1, <2>12, <3>2 DEF FoundIn, All
  <2>17. Finds'
    BY <1>2, <2>3, <2>15, <2>16 DEF Finds, Running
  <2>18. Updates'
    BY <1>2, <2>1, <2>3, <2>4 DEF Updates, Running, Trim
  <2> QED BY <2>13, <2>14, <2>17, <2>18 DEF Inv
<1> QED BY <1>6, <1>7

\* On the way back the marks are those of this search.
LEMMA NotedRule ==
  ASSUME Types, Walks, call.fun = "lazy", NEW d \in 0 .. travel_depth
  PROVE  FoundIn(trie, RuleInNode(lazy_mark[d].lazy_p, lazy_mark[d].stride, STRIDE), Way,
                 d * STRIDE, (d + 1) * STRIDE)
<1> DEFINE at == Take(Way, d * STRIDE)
           b == BitsAt(Way, at)
<1>1. /\ IsTrie(trie) /\ Way \in Address /\ Way \in Bits /\ Len(Way) = LENGTH
      /\ Len(node) \in 0 .. LENGTH /\ LENGTH \in Nat /\ STRIDE \in 0 .. STRIDE
  BY Here, WordFacts DEF Types
<1>2. /\ travel_depth + 1 \in Nat /\ travel_depth \in Int
      /\ (travel_depth + 1) * STRIDE <= Len(node) /\ Noted(Way, travel_depth + 1)
  BY DEF Walks
<1>3. d \in Nat /\ d < travel_depth + 1 /\ d \in 0 .. (travel_depth + 1) - 1
  BY <1>2
<1>4. /\ (d + 1) * STRIDE <= (travel_depth + 1) * STRIDE
      /\ d * STRIDE \in Nat /\ (d + 1) * STRIDE = d * STRIDE + STRIDE
      /\ (d * STRIDE) % STRIDE = 0 /\ (travel_depth + 1) * STRIDE \in Nat
  BY <1>2, <1>3, StridesOrder, StrideSteps
<1>5. d * STRIDE \in 0 .. LENGTH
  <2> DEFINE x == d * STRIDE
             y == (travel_depth + 1) * STRIDE
  <2>1. x \in Nat /\ y \in Nat /\ x + STRIDE <= y /\ y <= Len(node) /\ STRIDE \in Nat
    BY <1>2, <1>4, WordFacts
  <2> HIDE DEF x, y
  <2>2. x \in 0 .. LENGTH
    BY <1>1, <2>1
  <2> QED BY <2>2 DEF x
<1>6. Len(at) = d * STRIDE
  BY <1>1, <1>5, TakeBits
<1>7. OnPath(Way, at)
  BY <1>4, <1>5, <1>6 DEF OnPath
<1>8. lazy_mark[d].lazy_p = at /\ lazy_mark[d].stride = Value(b)
  BY <1>2, <1>3 DEF Noted
<1> HIDE DEF at
<1>9. b \in Bits /\ Len(b) = STRIDE
  BY <1>1, <1>5, <1>6, BitsAtIs
<1>10. RuleInNode(at, Value(b), STRIDE) = RuleIn(trie, at, b, STRIDE)
  BY <1>9, StrideStandsFor
<1>11. FoundIn(trie, RuleIn(trie, at, b, STRIDE), Way, Len(at), Len(at) + STRIDE)
  BY <1>1, <1>7, RuleInIs
<1> HIDE DEF b
<1> QED BY <1>4, <1>6, <1>8, <1>10, <1>11

\* It goes back up until a node has a rule.
LEMMA LazyAscendInv ==
  ASSUME Inv, LazyAscend
  PROVE  Inv'
<1> DEFINE d == travel_depth
           pc == IF longest' # NULL THEN "done" ELSE "ascend"
<1>1. Types /\ Walks /\ Finds /\ Updates
  BY DEF Inv
<1>2. call.fun = "lazy" /\ call.pc = "ascend"
  BY DEF LazyAscend, Running
<1>3. call \in Call
  BY <1>1, <1>2, Runs DEF Fun
<1>4. /\ IsTrie(trie) /\ Trim(trie) /\ Way \in Address /\ 0 \in Nat
      /\ d + 1 \in Nat /\ d \in Int /\ LENGTH \in Nat /\ All \in Nat
  BY <1>1, <1>2, Here, WordFacts DEF Types, Updates, Running, Walks, All
<1>5. longest = NULL /\ FoundIn(trie, NULL, Way, (d + 1) * STRIDE, All)
  BY <1>1, <1>2 DEF Finds, Running
<1>6. Len(node) \in 0 .. LENGTH /\ (d + 1) * STRIDE <= Len(node)
  BY <1>1, Here DEF Walks
<1>7. CASE d >= 0
  <2> DEFINE mark == lazy_mark[d]
             rule == RuleInNode(mark.lazy_p, mark.stride, STRIDE)
  <2>1. /\ longest' = rule /\ travel_depth' = d - 1 /\ Goto(pc)
        /\ UNCHANGED <<trie, walk, lazy_mark, ret>>
    BY <1>7 DEF LazyAscend
  <2>2. d \in 0 .. d /\ d \in Nat
    BY <1>4, <1>7
  <2>3. FoundIn(trie, rule, Way, d * STRIDE, (d + 1) * STRIDE)
    BY <1>1, <1>2, <2>2, NotedRule
  <2> HIDE DEF rule, mark
  <2>4. /\ d * STRIDE \in Nat /\ (d + 1) * STRIDE \in Nat
        /\ (d + 1) * STRIDE = d * STRIDE + STRIDE
    BY <1>4, <2>2, StrideSteps
  <2>5. d * STRIDE <= (d + 1) * STRIDE /\ (d + 1) * STRIDE <= All
    <3> DEFINE x == d * STRIDE
               y == (d + 1) * STRIDE
    <3>1. x \in Nat /\ y \in Nat /\ y = x + STRIDE /\ y <= Len(node)
      BY <1>6, <2>4
    <3> HIDE DEF x, y
    <3>2. x <= y /\ y <= All
      BY <1>4, <1>6, <3>1, WordFacts DEF All
    <3> QED BY <3>2 DEF x, y
  <2> HIDE DEF d
  <2>6. FoundIn(trie, IF NULL # NULL THEN NULL ELSE rule, Way, d * STRIDE, All)
    BY <1>4, <1>5, <2>3, <2>4, <2>5, LongerFirst
  <2>7. FoundIn(trie, longest', Way, d * STRIDE, All)
    BY <2>1, <2>6
  <2>8. longest' # NULL => FoundIn(trie, longest', Way, 0, All)
    BY <1>4, <2>4, <2>7, FoundIsLongest
  <2>9. longest' \in Prefix \cup {NULL}
    BY <1>1, <2>7, RuleIsPrefix
  <2>10. pc \in {"done", "ascend"}
    OBVIOUS
  <2>11. /\ call' \in Call /\ call'.fun = call.fun /\ call'.p = call.p
         /\ call'.nhi = call.nhi /\ call'.pc = pc
    BY <1>3, <2>1, <2>10, GoesOnAt DEF Pc
  <2>12. Way' = Way
    BY <2>11 DEF Way
  <2>13. travel_depth' + 1 = d /\ travel_depth' + 1 \in Nat /\ travel_depth' \in Int
    BY <1>4, <2>1, <2>2
  <2>14. Types'
    BY <1>1, <1>2, <2>1, <2>9, <2>11 DEF Types
  <2>15. Walks'
    <3>1. At(Way)' /\ node' = node /\ cidr' = cidr
      BY <1>1, <2>1, <2>11, Stays
    <3>2. (travel_depth' + 1) * STRIDE <= Len(node')
      <4> DEFINE x == d * STRIDE
                 y == (d + 1) * STRIDE
      <4>1. x \in Nat /\ y \in Nat /\ x <= y /\ y <= Len(node) /\ Len(node) \in Int
        BY <1>6, <2>4, <2>5
      <4> HIDE DEF x, y
      <4>2. x <= Len(node)
        BY <4>1
      <4> QED BY <2>13, <3>1, <4>2 DEF x
    <3>3. Noted(Way, travel_depth + 1)'
      <4>1. Noted(Way, d + 1)
        BY <1>1, <1>2 DEF Walks, d
      <4>2. (d + 1) - 1 = d /\ \A e \in 0 .. d - 1 : e \in 0 .. (d + 1) - 1
        BY <2>2
      <4>3. Noted(Way, d)
        BY <4>1, <4>2 DEF Noted
      <4>4. \A e \in 0 .. d - 1 : /\ lazy_mark'[e].lazy_p = Take(Way', e * STRIDE)
                                  /\ lazy_mark'[e].stride = Value(BitsAt(Way', Take(Way', e * STRIDE)))
        BY <2>1, <2>12, <4>3 DEF Noted
      <4> QED BY <2>13, <4>4 DEF Noted
    <3>4. cidr' \in Int
      BY <1>1, <3>1 DEF Walks
    <3> QED BY <1>2, <2>11, <2>13, <3>1, <3>2, <3>3, <3>4 DEF Walks, Running
  <2>16. longest' # NULL => FoundIn(trie, longest, Way, 0, All)'
    BY <2>1, <2>8, <2>12 DEF FoundIn, All
  <2>17. longest' = NULL => FoundIn(trie, NULL, Way, (travel_depth + 1) * STRIDE, All)'
    <3>1. SUFFICES ASSUME longest' = NULL
                   PROVE  FoundIn(trie, NULL, Way, (travel_depth + 1) * STRIDE, All)'
      OBVIOUS
    <3>2. FoundIn(trie, NULL, Way, d * STRIDE, All)
      BY <2>7, <3>1
    <3> QED BY <2>1, <2>12, <2>13, <3>2 DEF FoundIn, All
  <2>18. Finds'
    BY <1>2, <2>11, <2>16, <2>17 DEF Finds, Running
  <2>19. Updates'
    BY <1>2, <1>4, <2>1, <2>11 DEF Updates, Running, Trim
  <2> QED BY <2>14, <2>15, <2>18, <2>19 DEF Inv
<1>8. CASE ~ d >= 0
  <2>1. Goto("done") /\ UNCHANGED <<trie, walk, longest, travel_depth, lazy_mark, ret>>
    BY <1>8 DEF LazyAscend
  <2>2. d + 1 = 0 /\ 0 * STRIDE = 0
    BY <1>4, <1>8, WordFacts
  <2>3. FoundIn(trie, longest, Way, 0, All)
    BY <1>5, <2>2
  <2>4. /\ call' \in Call /\ call'.fun = call.fun /\ call'.p = call.p
        /\ call'.nhi = call.nhi /\ call'.pc = "done"
    BY <1>3, <2>1, GoesOnAt DEF Pc
  <2>5. Way' = Way
    BY <2>4 DEF Way
  <2>6. Types'
    BY <1>1, <1>2, <2>1, <2>4 DEF Types
  <2>7. Walks'
    BY <1>1, <1>3, <2>1, EndsWalk
  <2>8. FoundIn(trie, longest, Way, 0, All)'
    BY <2>1, <2>3, <2>5 DEF FoundIn, All
  <2>9. Finds'
    BY <1>2, <2>4, <2>8 DEF Finds, Running
  <2>10. Updates'
    BY <1>2, <1>4, <2>1, <2>4 DEF Updates, Running, Trim
  <2> QED BY <2>6, <2>7, <2>9, <2>10 DEF Inv
<1> QED BY <1>7, <1>8

-----------------------------------------------------------------------------
\* What is so before the first turn of a function, and while none runs.
Fresh ==
  /\ IsTrie(trie) /\ Trim(trie) /\ lazy_mark \in [0 .. LEVEL - 1 -> Mark]
  /\ call = NoCall \/ (call \in Call /\ call.pc = "descend")
  /\ call.fun \in {"insert", "delete", "exist", "overlap"} => call.p \in Inputs
  /\ call.fun \in {"search", "lazy"} => call.p \in Keys
  /\ call.fun = "insert" => call.nhi \in NHI
  /\ call.fun = "delete" => call.p \in DOMAIN trie.inl
  /\ node = <<>> /\ ip = WordsOf(call.p)
  /\ cidr = IF call.fun = "overlap" THEN OrgLimit ELSE Len(call.p)
  /\ longest = NULL /\ travel_depth = -1 /\ ret = 0

\* Then the invariant holds,
LEMMA FreshInv == Fresh => Inv
<1> SUFFICES ASSUME Fresh PROVE Inv
  OBVIOUS
<1>1. call \in Call \cup {NoCall} /\ call.p \in Prefix
  <2>1. CASE call = NoCall
    <3>1. <<>> \in Bits /\ Len(<<>>) = 0
      BY DEF Bits
    <3>2. <<>> \in Prefix
      BY <3>1, PrefixIsBits, WordFacts
    <3> QED BY <2>1, <3>2 DEF NoCall
  <2>2. CASE call \in Call
    <3>1. call.p \in Inputs \cup Keys
      BY <2>2 DEF Call
    <3> QED BY <2>2, <3>1, InputsAssumption, IpAddress
  <2> QED BY <2>1, <2>2 DEF Fresh
<1>2. call.p \in Bits /\ Len(call.p) \in 0 .. LENGTH
  BY <1>1, PrefixIsBits, BitsLen, WordFacts
<1>3. OrgLimit \in 0 .. LENGTH
  <2>1. call.bits_limit \in 0 .. LENGTH
    BY <1>1, WordFacts DEF Call, NoCall
  <2> QED BY <1>2, <2>1, WordFacts DEF OrgLimit, SmallerOf
<1>4. At(Way) /\ Len(node) = 0 /\ Way \in Address
  BY <1>1, StartAt, IpAddress DEF At, Way, Fresh
<1>5. Types
  BY <1>1, WordFacts DEF Types, Fresh
<1>6. Walks
  <2>1. travel_depth + 1 = 0 /\ 0 * STRIDE = 0
    BY WordFacts DEF Fresh
  <2>2. Noted(Way, travel_depth + 1)
    BY <2>1 DEF Noted
  <2>3. cidr \in Int /\ (call.fun # "overlap" => cidr = Len(call.p) - Len(node) /\ cidr >= 0)
    BY <1>2, <1>3, <1>4, WordFacts DEF Fresh
  <2>4. call.fun = "overlap" => cidr = OrgLimit - Len(node)
    BY <1>3, <1>4, WordFacts DEF Fresh
  <2>5. travel_depth \in Int
    BY DEF Fresh
  <2> QED BY <1>4, <2>1, <2>2, <2>3, <2>4, <2>5 DEF Walks, Running
<1>7. Finds
  <2>1. FoundIn(trie, NULL, Way, 0, 0)
    BY <1>4, FoundNone DEF Fresh
  <2>2. SmallerOf(Len(node), OrgLimit) = 0
    BY <1>3, <1>4, WordFacts DEF SmallerOf
  <2>3. call.pc = "descend" \/ call.fun = "none"
    BY DEF Fresh, NoCall
  <2> QED BY <1>4, <2>1, <2>2, <2>3 DEF Finds, Running, Fresh
<1>8. Updates
  <2>1. Branch(node) = {}
    <3>1. {k \in 1 .. Len(node) : k % STRIDE = 0} = {}
      BY <1>4
    <3> QED BY <3>1 DEF Branch
  <2>2. call.pc = "descend" \/ call.fun = "none"
    BY DEF Fresh, NoCall
  <2> QED BY <2>1, <2>2 DEF Updates, Running, Fresh, Trim
<1> QED BY <1>5, <1>6, <1>7, <1>8 DEF Inv

\* in the beginning,
LEMMA InitInv == Init => Inv
<1> SUFFICES ASSUME Init PROVE Fresh
  BY FreshInv
<1>1. IsTrie(trie) /\ Trim(trie)
  BY EmptyTrieOK DEF Init
<1>2. NoMark \in Mark
  <2>1. Pow2[STRIDE] \in Nat /\ Pow2[STRIDE] >= 1
    BY WordFacts, Pow2Positive
  <2> DEFINE n == Pow2[STRIDE]
  <2> HIDE DEF n
  <2>2. 0 \in 0 .. n - 1
    BY <2>1 DEF n
  <2> QED BY <2>2 DEF NoMark, Mark, n
<1>3. lazy_mark \in [0 .. LEVEL - 1 -> Mark]
  BY <1>2 DEF Init
<1>4. Len(<<>>) = 0
  BY EmptySeq
<1> QED BY <1>1, <1>3, <1>4 DEF Init, Fresh, NoCall

\* when a call begins at the root, with the whole argument left to walk,
LEMMA StartInv ==
  ASSUME Inv, NEW fun \in Fun, NEW p \in Inputs \cup Keys, NEW nhi \in NHI \cup {NULL},
         NEW bits_limit \in 0 .. LENGTH,
         fun \in {"insert", "delete", "exist", "overlap"} => p \in Inputs,
         fun \in {"search", "lazy"} => p \in Keys,
         fun = "insert" => nhi \in NHI,
         fun = "delete" => p \in DOMAIN trie.inl,
         Start(fun, p, nhi, bits_limit)
  PROVE  Inv'
<1>1. Types /\ Updates /\ call = NoCall
  BY DEF Inv, Start
<1>2. Trim(trie) /\ IsTrie(trie) /\ lazy_mark \in [0 .. LEVEL - 1 -> Mark]
  BY <1>1 DEF Types, Updates, Running, NoCall
<1>3. call' \in Call /\ call'.pc = "descend"
  BY DEF Start, Call, Pc
<1>4. /\ call'.fun = fun /\ call'.p = p /\ call'.nhi = nhi
      /\ call'.bits_limit = bits_limit
  BY DEF Start
<1>5. OrgLimit' = SmallerOf(Len(p), bits_limit)
  BY <1>4 DEF OrgLimit
<1>6. Fresh'
  BY <1>2, <1>3, <1>4, <1>5 DEF Start, Fresh, Trim
<1> QED BY <1>6, FreshInv, PTL

\* when it returns, with the trie as the last turn made it,
LEMMA ReturnInv ==
  ASSUME Inv, Return
  PROVE  Inv'
<1>1. Types /\ Updates
  BY DEF Inv
<1>2. call.pc = "done"
  BY DEF Return
<1>3. Trim(trie) /\ IsTrie(trie) /\ lazy_mark \in [0 .. LEVEL - 1 -> Mark]
  BY <1>1, <1>2 DEF Types, Updates, Running
<1>4. call'.fun = "none" /\ call'.p = <<>> /\ Len(<<>>) = 0
  BY EmptySeq DEF Return, NoCall
<1>5. Fresh'
  BY <1>3, <1>4 DEF Return, Fresh, Trim
<1> QED BY <1>5, FreshInv, PTL

\* and after bitmapv6_destroy_trie.
LEMMA DestroyTrieInv ==
  ASSUME Inv, DestroyTrie
  PROVE  Inv'
<1>1. Types /\ Walks
  BY DEF Inv
<1>2. /\ call = NoCall /\ trie' = EmptyTrie
      /\ UNCHANGED <<call, walk, longest, travel_depth, lazy_mark, ret>>
  BY DEF DestroyTrie
<1>3. IsTrie(trie') /\ Trim(trie')
  BY <1>2, EmptyTrieOK
<1>4. call.fun = "none" /\ call.pc = "done"
  BY <1>2 DEF NoCall
<1>5. Types'
  BY <1>1, <1>2, <1>3 DEF Types
<1>6. Walks'
  <2>1. call' = call /\ node' = node /\ ip' = ip /\ cidr' = cidr /\ travel_depth' = travel_depth
    BY <1>2 DEF walk
  <2>2. Way' = Way
    BY <2>1 DEF Way
  <2>3. At(Way)'
    BY <1>1, <2>1, <2>2 DEF Walks, At
  <2> QED BY <1>1, <1>4, <2>1, <2>3 DEF Walks, Running
<1>7. Finds'
  BY <1>2, <1>4 DEF Finds, Running
<1>8. Updates'
  BY <1>2, <1>3, <1>4 DEF Updates, Running, Trim
<1> QED BY <1>5, <1>6, <1>7, <1>8 DEF Inv

\* Nothing happens.
LEMMA StutterInv ==
  ASSUME Inv, UNCHANGED vars
  PROVE  Inv'
<1>1. UNCHANGED <<trie, call, node, ip, cidr, longest, travel_depth, lazy_mark, ret>>
  BY DEF vars
<1>2. Types'
  BY <1>1 DEF Inv, Types
<1>3. Walks'
  BY <1>1 DEF Inv, Walks, At, Way, Noted, OrgLimit, Running
<1>4. Finds'
  BY <1>1 DEF Inv, Finds, Way, FoundIn, OrgLimit, Running
<1>5. Updates'
  BY <1>1 DEF Inv, Updates, Trim, Running
<1> QED BY <1>2, <1>3, <1>4, <1>5 DEF Inv

\* One step, by the function that takes it.
LEMMA StepInv == Inv /\ [Next]_vars => Inv'
<1> SUFFICES ASSUME Inv, [Next]_vars PROVE Inv'
  OBVIOUS
<1> USE DEF Fun
<1>1. ASSUME NEW p \in Inputs, NEW nhi \in NHI, Start("insert", p, nhi, 0) PROVE Inv'
  <2>1. 0 \in 0 .. LENGTH
    BY WordFacts
  <2> QED BY <1>1, <2>1, StartInv
<1>2. ASSUME NEW p \in Inputs, PrefixExist(trie, p), Start("delete", p, NULL, 0) PROVE Inv'
  <2>1. 0 \in 0 .. LENGTH
    BY WordFacts
  <2>2. p \in DOMAIN trie.inl
    BY <1>2 DEF PrefixExist
  <2> QED BY <1>2, <2>1, <2>2, StartInv
<1>3. ASSUME NEW p \in Inputs, Start("exist", p, NULL, 0) PROVE Inv'
  <2>1. 0 \in 0 .. LENGTH
    BY WordFacts
  <2> QED BY <1>3, <2>1, StartInv
<1>4. ASSUME NEW p \in Inputs, NEW limit \in 0 .. LENGTH, Start("overlap", p, NULL, limit)
      PROVE  Inv'
  BY <1>4, StartInv
<1>5. ASSUME NEW a \in Keys, NEW fun \in {"search", "lazy"}, Start(fun, a, NULL, 0)
      PROVE  Inv'
  <2>1. 0 \in 0 .. LENGTH
    BY WordFacts
  <2> QED BY <1>5, <2>1, StartInv
<1>6. CASE DestroyTrie
  BY <1>6, DestroyTrieInv
<1>7. CASE Turn
  BY <1>7, InsertRuleInv, InsertDescendInv, DeleteRuleInv, DeleteDescendInv, ExistRuleInv,
     ExistDescendInv, SearchTurnInv, OverlapTurnInv, OverlapEndInv, LazyDescendInv,
     LazyAscendInv, ReturnInv DEF Turn
<1>8. CASE UNCHANGED vars
  BY <1>8, StutterInv
<1> QED BY <1>1, <1>2, <1>3, <1>4, <1>5, <1>6, <1>7, <1>8 DEF Next

\* The walks keep to their arguments, and what they have found so far is right.
THEOREM InvHolds == Spec => []Inv
<1> QED BY InitInv, StepInv, PTL DEF Spec

-----------------------------------------------------------------------------
\* The bits that the words hold.
LEMMA WordsHold ==
  ASSUME NEW a \in Address
  PROVE  /\ WordsOf(a) \in ip_v6
         /\ BitsOf(WordsOf(a).iphi, WORD) \o BitsOf(WordsOf(a).iplo, WORD) = a
<1> DEFINE W == WordsOf(a)
<1>1. W = [iphi |-> Value(Hi(a)), iplo |-> Value(Lo(a))]
  BY IpAddress, WordsAre
<1>2. /\ a \in Bits /\ Len(a) = LENGTH /\ WORD \in 0 .. Len(a) /\ Len(a) - WORD = WORD
      /\ Hi(a) \in Bits /\ Len(Hi(a)) = WORD /\ \A k \in 1 .. WORD : Hi(a)[k] = a[k]
      /\ Lo(a) \in Bits /\ Len(Lo(a)) = WORD /\ \A k \in 1 .. WORD : Lo(a)[k] = a[WORD + k]
  BY WordBits, WordFacts
<1>3. Value(Hi(a)) \in Word /\ Value(Lo(a)) \in Word
  BY <1>2, ValueRange DEF Word
<1>4. BitsOf(Value(Hi(a)), WORD) = Hi(a) /\ BitsOf(Value(Lo(a)), WORD) = Lo(a)
  BY <1>2, BitsOfValue
<1>5. Hi(a) = Take(a, WORD)
  <2>1. Take(a, WORD) \in Bits /\ Len(Take(a, WORD)) = WORD
        /\ \A k \in 1 .. WORD : Take(a, WORD)[k] = a[k]
    BY <1>2, TakeBits
  <2> QED BY <1>2, <2>1, BitsEqual
<1>6. Lo(a) = Drop(a, WORD)
  <2>1. Drop(a, WORD) \in Bits /\ Len(Drop(a, WORD)) = WORD
        /\ \A k \in 1 .. WORD : Drop(a, WORD)[k] = a[WORD + k]
    BY <1>2, DropBits
  <2> QED BY <1>2, <2>1, BitsEqual
<1>7. Take(a, WORD) \o Drop(a, WORD) = a
  BY <1>2, SplitBits
<1> HIDE DEF W
<1>8. W.iphi = Value(Hi(a)) /\ W.iplo = Value(Lo(a)) /\ W \in ip_v6
  BY <1>1, <1>3 DEF ip_v6
<1> QED BY <1>4, <1>5, <1>6, <1>7, <1>8 DEF W

\* What is in ip is an address, that of the bits that are left.
LEMMA WordsLeft ==
  ASSUME Inv
  PROVE  \E a \in Address : ip = WordsOf(a)
<1>1. Way \in Address /\ Len(node) \in 0 .. LENGTH /\ ip = WordsOf(Drop(Way, Len(node)))
  BY Here DEF Inv, Walks, At
<1> QED BY <1>1, RestWords

\* Every variable keeps its type; the index into lazy_mark is within LENGTH.
THEOREM TypeCorrect == Spec => []TypeOK
<1>1. Inv => TypeOK
  <2> SUFFICES ASSUME Inv PROVE TypeOK
    OBVIOUS
  <2>1. Types /\ Walks
    BY DEF Inv
  <2>2. node \in Prefix /\ Len(node) \in 0 .. LENGTH
    BY <2>1, Here
  <2>3. ip \in ip_v6
    BY WordsLeft, WordsHold
  <2>4. travel_depth \in -1 .. LENGTH
    <3>1. travel_depth + 1 \in Nat /\ travel_depth \in Int
          /\ (travel_depth + 1) * STRIDE <= Len(node)
      BY <2>1 DEF Walks
    <3> DEFINE d == travel_depth + 1
    <3>2. d * STRIDE \in Nat
      BY <3>1, StrideSteps
    <3>3. d * STRIDE <= LENGTH
      <4> DEFINE x == d * STRIDE
      <4>1. x \in Nat /\ x <= Len(node)
        BY <3>1, <3>2
      <4> HIDE DEF x
      <4>2. x <= LENGTH
        BY <2>2, <4>1, WordFacts
      <4> QED BY <4>2 DEF x
    <3>4. d \in Nat /\ d <= LENGTH
      BY <3>1, <3>3, DepthFits
    <3> QED BY <3>1, <3>4, WordFacts
  <2> QED BY <2>1, <2>2, <2>3, <2>4 DEF TypeOK, Types, Walks
<1> QED BY <1>1, InvHolds, PTL

\* lshift_ipv6 and rshift_ipv6 shift what ip holds exactly, and without an
\* undefined shift of a word, for every count from 1 to LENGTH - 1.
THEOREM ShiftsExact == Spec => []ShiftsAreExact
<1>1. Inv => ShiftsAreExact
  <2> DEFINE bits == BitsOf(ip.iphi, WORD) \o BitsOf(ip.iplo, WORD)
             Zeros(k) == [j \in 1 .. k |-> 0]
  <2> SUFFICES ASSUME Inv, NEW k \in 1 .. LENGTH - 1
               PROVE  /\ lshift_ipv6(ip, k) = {WordsOf(Drop(bits, k))}
                      /\ rshift_ipv6(ip, k) =
                           {WordsOf(Zeros(k) \o Take(bits, LENGTH - k))}
    BY DEF ShiftsAreExact
  <2>1. PICK a \in Address : ip = WordsOf(a)
    BY WordsLeft
  <2>2. bits = a
    BY <2>1, WordsHold
  <2> HIDE DEF bits
  <2>3. lshift_ipv6(ip, k) = {WordsOf(Drop(bits, k))}
    BY <2>1, <2>2, LeftIsDrop
  <2> DEFINE y == Zeros(k)
             w == Take(a, LENGTH - k)
             z == y \o w
  <2>4. /\ k \in Nat /\ LENGTH - k \in 0 .. LENGTH /\ k + (LENGTH - k) = LENGTH
        /\ a \in Bits /\ Len(a) = LENGTH /\ LENGTH \in Nat
    BY WordFacts, WordBits
  <2>5. y \in Bits /\ Len(y) = k /\ \A j \in 1 .. k : y[j] = 0
    <3>1. y \in BitStrings(k)
      BY DEF BitStrings, Bit
    <3> HIDE DEF y
    <3>2. y \in Bits /\ Len(y) = k
      BY <2>4, <3>1, BitStringsIsBits
    <3> QED BY <3>2 DEF y
  <2>6. w \in Bits /\ Len(w) = LENGTH - k /\ \A j \in 1 .. LENGTH - k : w[j] = a[j]
    BY <2>4, TakeBits
  <2> HIDE DEF y, w
  <2>7. z \in Bits /\ Len(z) = LENGTH /\ Take(z, k) = y /\ Drop(z, k) = w
    BY <2>4, <2>5, <2>6, JoinBits
  <2> HIDE DEF z
  <2>8. k \in 0 .. Len(z)
    BY <2>4, <2>7
  <2>9. \A j \in 1 .. k : Take(z, k)[j] = z[j]
    BY <2>7, <2>8, TakeBits
  <2>10. \A j \in 1 .. LENGTH - k : Drop(z, k)[j] = z[k + j]
    BY <2>7, <2>8, DropBits
  <2>11. ASSUME NEW j \in 1 .. LENGTH PROVE z[j] = IF j <= k THEN 0 ELSE a[j - k]
    <3>1. CASE j <= k
      <4>1. j \in 1 .. k
        BY <2>4, <3>1
      <4> QED BY <2>5, <2>7, <2>9, <3>1, <4>1
    <3>2. CASE ~ j <= k
      <4>1. j - k \in 1 .. LENGTH - k /\ k + (j - k) = j
        BY <2>4, <3>2
      <4> QED BY <2>6, <2>7, <2>10, <3>2, <4>1
    <3> QED BY <3>1, <3>2
  <2>12. z \in Address
    <3>1. z \in BitStrings(LENGTH)
      BY <2>4, <2>7, BitStringsIsBits
    <3> QED BY <3>1 DEF Address
  <2>13. rshift_ipv6(ip, k) = {WordsOf(z)}
    BY <2>1, <2>11, <2>12, RightIsTake
  <2> QED BY <2>2, <2>3, <2>13 DEF z, y, w
<1> QED BY <1>1, InvHolds, PTL

\* The words hold the bits of the argument behind the node, the node is on its
\* path, and no path is longer than lazy_mark and trace_node.
THEOREM WalksFollow == Spec => []WalkFollowsArgument
<1>1. Inv => WalkFollowsArgument
  <2> SUFFICES ASSUME Inv
               PROVE  /\ Covers(node, IpOf(call.p))
                      /\ ip = WordsOf(Drop(IpOf(call.p), Len(node)))
                      /\ Len(node) \div STRIDE < LEVEL /\ travel_depth < LEVEL
    BY DEF WalkFollowsArgument
  <2>1. Types /\ Walks
    BY DEF Inv
  <2>2. /\ OnPath(Way, node) /\ Len(Way) = LENGTH /\ Len(node) \in 0 .. LENGTH
        /\ Len(node) \in Nat
    BY <2>1, Here
  <2>3. Covers(node, Way)
    BY <2>2, WordFacts DEF Covers, OnPath
  <2>4. ip = WordsOf(Drop(Way, Len(node)))
    BY <2>1 DEF Walks, At
  <2>5. LENGTH \div STRIDE \in Nat /\ Len(node) \div STRIDE <= LENGTH \div STRIDE
    BY <2>2, StrideAssumption, LengthAssumption
  <2>6. Len(node) \div STRIDE < LEVEL
    <3>1. Len(node) \div STRIDE \in Int
      BY <2>2, StrideAssumption
    <3> QED BY <2>5, <3>1 DEF LEVEL
  <2>7. travel_depth < LEVEL
    <3> DEFINE d == travel_depth + 1
    <3>1. d \in Nat /\ travel_depth \in Int /\ d * STRIDE <= Len(node)
      BY <2>1 DEF Walks
    <3>2. d * STRIDE \in Nat
      BY <3>1, StrideSteps
    <3>3. d * STRIDE <= LENGTH
      <4> DEFINE x == d * STRIDE
      <4>1. x \in Nat /\ x <= Len(node)
        BY <3>1, <3>2
      <4> HIDE DEF x
      <4>2. x <= LENGTH
        BY <2>2, <4>1, WordFacts
      <4> QED BY <4>2 DEF x
    <3>4. d < LEVEL /\ LEVEL \in Nat
      BY <3>1, <3>3, DepthFits
    <3> QED BY <3>1, <3>4
  <2> QED BY <2>3, <2>4, <2>6, <2>7 DEF Way
<1> QED BY <1>1, InvHolds, PTL

-----------------------------------------------------------------------------
\* A rule shorter than the limit matches a prefix as it matches the way.
LEMMA ShorterMatches ==
  ASSUME Types, Walks, NEW k, k < OrgLimit
  PROVE  k \in MatchLengths(trie.inl, Way) <=> k \in MatchLengths(trie.inl, call.p)
<1>1. /\ Len(call.p) \in 0 .. LENGTH /\ Len(Way) = LENGTH /\ LENGTH \in Nat
      /\ OrgLimit \in 0 .. LENGTH /\ OrgLimit <= Len(call.p)
  BY Here, LimitIs, WordFacts
<1>2. \A j \in 0 .. Len(call.p) : Take(Way, j) = Take(call.p, j)
  BY WayIs
<1>3. k \in 0 .. LENGTH <=> k \in 0 .. Len(call.p)
  BY <1>1
<1> QED BY <1>1, <1>2, <1>3 DEF MatchLengths

\* What the overlap has found when it ends.
LEMMA OverlapIs ==
  ASSUME Inv, Running("overlap", "done")
  PROVE  LET over == DetectOverlap(trie, call.p, call.bits_limit)
         IN  ret = over.mask /\ (over.mask # 0 => Answer = over.nhi)
<1> DEFINE p == call.p
           over == DetectOverlap(trie, p, call.bits_limit)
           lens == OverlapLengths(trie, p, call.bits_limit) \ {0}
<1>1. Types /\ Walks /\ Finds /\ Updates
  BY DEF Inv
<1>2. /\ FoundIn(trie, longest, Way, 0, OrgLimit)
      /\ ret = IF longest = NULL THEN 0 ELSE Len(longest)
  BY <1>1 DEF Finds, Running
<1>3. /\ IsTrie(trie) /\ Trim(trie) /\ Way \in Address /\ LENGTH \in Nat
      /\ p \in Prefix /\ OrgLimit \in 0 .. LENGTH /\ OrgLimit <= Len(p)
      /\ Len(p) \in 0 .. LENGTH
  BY <1>1, Here, LimitIs, WordFacts DEF Types, Updates, Running
<1>4. \A k : k \in lens <=> /\ k \in MatchLengths(trie.inl, Way)
                            /\ k < OrgLimit /\ k # 0
  <2>1. RulesMet(trie, p) = MatchLengths(trie.inl, p)
    BY <1>3, MatchesAreMet
  <2>2. \A k : k < OrgLimit => (k \in MatchLengths(trie.inl, Way) <=>
                                k \in MatchLengths(trie.inl, p))
    BY <1>1, ShorterMatches
  <2> QED BY <2>1, <2>2 DEF OverlapLengths, OrgLimit
<1>5. /\ over.mask = IF lens = {} THEN 0 ELSE Max(lens)
      /\ over.nhi = IF lens = {} THEN NULL ELSE trie.inl[Take(p, Max(lens))]
  BY DEF DetectOverlap, NextHopAt
<1> HIDE DEF lens, over
<1>6. CASE longest = NULL
  <2>1. {k \in MatchLengths(trie.inl, Way) : 0 <= k /\ k < OrgLimit} = {}
    BY <1>3, <1>2, <1>6, MatchLength DEF FoundIn
  <2>2. lens = {}
    BY <1>3, <1>4, <2>1, MatchLength
  <2> QED BY <1>2, <1>5, <1>6, <2>2 DEF over
<1>7. CASE longest # NULL
  <2>1. PICK k \in MatchLengths(trie.inl, Way) :
          /\ k < OrgLimit /\ longest = Take(Way, k)
          /\ \A x \in MatchLengths(trie.inl, Way) : 0 <= x /\ x < OrgLimit => x <= k
    BY <1>2, <1>7 DEF FoundIn
  <2>2. k \in 0 .. LENGTH /\ k \in Nat
    BY <1>3, <2>1, MatchLength
  <2>3. Len(longest) = k
    BY <1>3, <2>1, <2>2, AddressIs, TakeBits
  <2>4. ret = k
    BY <1>2, <1>7, <2>3
  <2>5. CASE k = 0
    <3>1. lens = {}
      <4>1. ASSUME NEW x \in lens PROVE FALSE
        <5>1. x \in MatchLengths(trie.inl, Way) /\ x < OrgLimit /\ x # 0
          BY <1>4
        <5>2. x \in Nat
          BY <1>3, <5>1, MatchLength
        <5> QED BY <2>1, <2>5, <5>1, <5>2
      <4> QED BY <4>1
    <3> QED BY <1>5, <2>4, <2>5, <3>1 DEF over
  <2>6. CASE k # 0
    <3>1. k \in lens
      BY <1>4, <2>1, <2>6
    <3>2. ASSUME NEW x \in lens PROVE x <= k /\ x \in 0 .. LENGTH
      <4>1. x \in MatchLengths(trie.inl, Way) /\ x < OrgLimit
        BY <1>4
      <4>2. x \in 0 .. LENGTH
        BY <1>3, <4>1, MatchLength
      <4> QED BY <1>3, <2>1, <4>1, <4>2
    <3>3. Max(lens) = k
      <4>1. lens \in SUBSET (0 .. LENGTH) /\ lens # {}
        BY <3>1, <3>2
      <4>2. Max(lens) \in lens /\ \A x \in lens : x <= Max(lens)
        BY <1>3, <4>1, MaxOfNats
      <4> DEFINE m == Max(lens)
      <4> HIDE DEF m
      <4>3. m \in lens /\ k <= m
        BY <3>1, <4>2 DEF m
      <4>4. m <= k /\ m \in 0 .. LENGTH
        BY <3>2, <4>3
      <4>5. m = k
        BY <2>2, <4>3, <4>4
      <4> QED BY <4>5 DEF m
    <3>4. Take(p, k) = Take(Way, k)
      <4>1. k \in 0 .. Len(p)
        BY <1>3, <2>1, <2>2
      <4> QED BY <1>1, <4>1, WayIs
    <3>5. over.mask = k /\ over.nhi = trie.inl[longest]
      BY <1>5, <2>1, <3>1, <3>3, <3>4
    <3>6. Answer = trie.inl[longest]
      BY <1>7 DEF Answer
    <3> QED BY <2>4, <3>5, <3>6 DEF over
  <2> QED BY <2>5, <2>6
<1> QED BY <1>6, <1>7

\* bitmapv6_do_search and the lazy search return the longest match, the overlap
\* the longest rule below both limits, and bitmapv6_prefix_exist whether the
\* prefix is a rule.
THEOREM ReturnsRight == Spec => []ReturnsAreRight
<1>1. Inv => ReturnsAreRight
  <2> SUFFICES ASSUME Inv, call.pc = "done"
               PROVE  /\ call.fun \in {"search", "lazy"} =>
                           Answer = LongestMatch(trie.inl, call.p)
                      /\ call.fun = "overlap" =>
                           LET over == DetectOverlap(trie, call.p, call.bits_limit)
                           IN  ret = over.mask /\ (over.mask # 0 => Answer = over.nhi)
                      /\ call.fun = "exist" => (ret = 1 <=> call.p \in DOMAIN trie.inl)
    BY DEF ReturnsAreRight
  <2>1. Types /\ Walks /\ Finds /\ Updates
    BY DEF Inv
  <2>2. ASSUME call.fun \in {"search", "lazy"}
        PROVE  Answer = LongestMatch(trie.inl, call.p)
    <3>1. call.p \in Address
      BY <2>1, <2>2, InputsAssumption DEF Types
    <3>2. Way = call.p
      BY <3>1, IpAddress DEF Way
    <3>3. FoundIn(trie, longest, call.p, 0, All)
      BY <2>1, <2>2, <3>2 DEF Finds
    <3>4. IsTrie(trie)
      BY <2>1 DEF Types
    <3> QED BY <3>1, <3>3, <3>4, FoundIsAnswer DEF Answer
  <2>3. call.fun = "overlap" =>
          LET over == DetectOverlap(trie, call.p, call.bits_limit)
          IN  ret = over.mask /\ (over.mask # 0 => Answer = over.nhi)
    BY OverlapIs DEF Running
  <2>4. call.fun = "exist" => (ret = 1 <=> call.p \in DOMAIN trie.inl)
    BY <2>1 DEF Updates, Running
  <2> QED BY <2>2, <2>3, <2>4
<1> QED BY <1>1, InvHolds, PTL

\* An update ends by changing its own rule, returns what it promises, and leaves
\* exactly the nodes that the rules need; nothing else changes a rule while a
\* function runs.
THEOREM UpdatesOwnRule == Spec => UpdatesItsRule
<1> DEFINE Ends == call.fun \in {"insert", "delete"} /\ call.pc = "descend" /\ call'.pc = "done"
           Own == /\ \/ /\ call.fun = "insert"
                        /\ trie'.inl = Put(trie.inl, call.p, call.nhi)
                        /\ ret' = 1 <=> call.p \in DOMAIN trie.inl
                     \/ /\ call.fun = "delete"
                        /\ trie'.inl = Remove(trie.inl, call.p)
                        /\ ret' = 1 <=> DOMAIN trie'.inl = {}
                  /\ trie'.enl = UNION {Branch(p) : p \in DOMAIN trie'.inl}
           Kept == call # NoCall => trie'.inl = trie.inl
           Owed == IF Ends THEN Own ELSE Kept
<1>1. Inv /\ [Next]_vars => [Owed]_vars
  <2> SUFFICES ASSUME Inv, Next PROVE Owed
    OBVIOUS
  <2>1. CASE InsertRule
    <3>1. /\ call.fun = "insert" /\ call'.pc = "done"
          /\ trie'.inl = Put(trie.inl, call.p, call.nhi)
          /\ ret' = 1 <=> call.p \in DOMAIN trie.inl
          /\ Trim(trie)'
      BY <2>1, InsertRuleInv
    <3>2. Ends
      BY <2>1, <3>1 DEF InsertRule, Running
    <3> QED BY <3>1, <3>2 DEF Trim
  <2>2. CASE DeleteRule
    <3>1. /\ call.fun = "delete" /\ call'.pc = "done"
          /\ trie'.inl = Remove(trie.inl, call.p)
          /\ ret' = 1 <=> DOMAIN trie'.inl = {}
          /\ Trim(trie)'
      BY <2>2, DeleteRuleInv
    <3>2. Ends
      BY <2>2, <3>1 DEF DeleteRule, Running
    <3> QED BY <3>1, <3>2 DEF Trim
  <2>3. CASE InsertDescend
    <3>1. trie'.inl = trie.inl /\ call' = call
      BY <2>3, InsertDescendInv
    <3>2. ~ Ends
      BY <3>1
    <3> QED BY <3>1, <3>2
  <2>4. CASE DeleteDescend
    BY <2>4 DEF DeleteDescend
  <2>5. CASE ExistRule \/ ExistDescend \/ SearchTurn \/ OverlapTurn \/ OverlapEnd
             \/ LazyDescend \/ LazyAscend
    <3>1. call.fun \notin {"insert", "delete"} /\ trie' = trie
      BY <2>5 DEF ExistRule, ExistDescend, SearchTurn, OverlapTurn, OverlapEnd,
                  LazyDescend, LazyAscend, Running
    <3> QED BY <3>1
  <2>6. CASE Return
    BY <2>6 DEF Return
  <2>7. CASE call = NoCall
    BY <2>7 DEF NoCall
  <2> HIDE DEF Owed
  <2> QED BY <2>1, <2>2, <2>3, <2>4, <2>5, <2>6, <2>7 DEF Next, Turn, Start, DestroyTrie
<1> QED BY <1>1, InvHolds, PTL DEF Spec, UpdatesItsRule

=============================================================================
