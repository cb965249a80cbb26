----------------------------- MODULE TrieProofs -----------------------------
(***************************************************************************)
(* What the operations of BitmapTrie do to a trie of any size: an update   *)
(* keeps every node needed by a rule and no other, and on such a trie the  *)
(* search of the code is the longest match.  Before that, the lemmas about *)
(* numbers, powers of two, bit strings, prefixes and tables that the       *)
(* proofs about the other modules cite too.                                *)
(***************************************************************************)
EXTENDS BitmapTrie, WellFoundedInduction, SequenceTheorems, FiniteSetTheorems,
        TLAPS

-----------------------------------------------------------------------------
\* Multiplying by a size keeps the order.
LEMMA ScaleOrder ==
  ASSUME NEW a \in Int, NEW b \in Int, NEW c \in Nat, a <= b
  PROVE  a * c <= b * c
<1>1. (b - a) * c >= 0
  OBVIOUS
<1> QED BY <1>1

\* A quotient and a remainder are the only ones.
LEMMA DivModIs ==
  ASSUME NEW b \in Nat, b > 0, NEW q \in Int, NEW r \in 0 .. b - 1
  PROVE  (q * b + r) \div b = q /\ (q * b + r) % b = r
<1> DEFINE a == q * b + r
           d == a \div b
           m == a % b
<1>1. a \in Int
  OBVIOUS
<1>2. d \in Int /\ m \in 0 .. b - 1 /\ a = d * b + m
  <2> HIDE DEF a
  <2> QED BY <1>1
<1>3. (q - d) * b = m - r
  <2> HIDE DEF d, m
  <2> QED BY <1>2
<1>4. ~ (q - d >= 1)
  <2> HIDE DEF d, m
  <2> SUFFICES ASSUME q - d >= 1
               PROVE  FALSE
    OBVIOUS
  <2>1. (q - d) * b >= 1 * b
    BY <1>2, ScaleOrder
  <2> QED BY <1>2, <1>3, <2>1
<1>5. ~ (q - d <= -1)
  <2> HIDE DEF d, m
  <2> SUFFICES ASSUME q - d <= -1
               PROVE  FALSE
    OBVIOUS
  <2>1. (q - d) * b <= (-1) * b
    BY <1>2, ScaleOrder
  <2> QED BY <1>2, <1>3, <2>1
<1>6. d = q
  <2> HIDE DEF d
  <2> QED BY <1>2, <1>4, <1>5
<1>7. m = r
  <2> HIDE DEF d, m
  <2> QED BY <1>2, <1>3, <1>6
<1> QED BY <1>6, <1>7

\* There are a quotient and a remainder.
LEMMA DivModExist ==
  ASSUME NEW a \in Int, NEW b \in Nat, b > 0
  PROVE  /\ a \div b \in Int /\ a % b \in 0 .. b - 1
         /\ a = (a \div b) * b + (a % b)
OBVIOUS

\* Dividing twice is dividing by the product.
LEMMA DivDiv ==
  ASSUME NEW x \in Nat, NEW b \in Nat, NEW c \in Nat, b > 0, c > 0
  PROVE  (x \div b) \div c = x \div (b * c)
<1> DEFINE q == x \div b
           r == x % b
           d == q \div c
           e == q % c
<1>1. q \in Int /\ r \in 0 .. b - 1 /\ x = q * b + r
  BY DivModExist
<1>2. d \in Int /\ e \in 0 .. c - 1 /\ q = d * c + e
  <2> HIDE DEF q
  <2> QED BY <1>1, DivModExist
<1> HIDE DEF q, r, d, e
<1>3. b * c \in Nat /\ b * c > 0
  <2>1. 1 * c <= b * c BY ScaleOrder
  <2> QED BY <2>1
<1>4. e * b + r \in 0 .. b * c - 1
  <2>1. e * b \in Nat BY <1>2
  <2>2. e * b <= (c - 1) * b BY <1>2, ScaleOrder
  <2>3. (c - 1) * b = b * c - b OBVIOUS
  <2> QED BY <1>1, <1>3, <2>1, <2>2, <2>3
<1>5. x = d * (b * c) + (e * b + r) BY <1>1, <1>2
<1>6. x \div (b * c) = d BY <1>2, <1>3, <1>4, <1>5, DivModIs
<1> QED BY <1>6 DEF d, q

\* A number below the divisor.
LEMMA DivSmall ==
  ASSUME NEW b \in Nat, b > 0, NEW x \in 0 .. b - 1
  PROVE  x \div b = 0
<1>1. x = 0 * b + x OBVIOUS
<1> QED BY <1>1, DivModIs

-----------------------------------------------------------------------------
\* Induction, on a set of numbers.
LEMMA NatIsClosure ==
  ASSUME NEW S, S \subseteq Nat, 0 \in S, \A x \in S : x + 1 \in S
  PROVE  S = Nat
<1> SUFFICES ASSUME Nat \ S # {}
             PROVE  FALSE
  OBVIOUS
<1>1. PICK t \in Nat \ S : \A y \in Nat \ S : ~ (<<y, t>> \in OpToRel(<, Nat))
  <2>1. IsWellFoundedOn(OpToRel(<, Nat), Nat) BY NatLessThanWellFounded
  <2> QED BY <2>1, WFMin
<1>2. t # 0 /\ t - 1 \in Nat /\ t - 1 < t OBVIOUS
<1>3. t - 1 \in S BY <1>1, <1>2 DEF OpToRel
<1>4. (t - 1) + 1 = t OBVIOUS
<1> QED BY <1>1, <1>3, <1>4

\* The largest of a set of numbers with a bound.
LEMMA MaxOfNats ==
  ASSUME NEW m \in Nat, NEW S \in SUBSET (0 .. m), S # {}
  PROVE  Max(S) \in S /\ \A x \in S : x <= Max(S)
<1> DEFINE T == {m - x : x \in S}
<1>1. T \subseteq Nat /\ T # {}
  <2>1. \A x \in S : x \in 0 .. m OBVIOUS
  <2>2. \A x \in S : m - x \in Nat BY <2>1
  <2>3. \E x \in S : m - x \in T OBVIOUS
  <2> QED BY <2>2, <2>3
<1>2. PICK t \in T : \A y \in T : ~ (<<y, t>> \in OpToRel(<, Nat))
  <2>1. IsWellFoundedOn(OpToRel(<, Nat), Nat) BY NatLessThanWellFounded
  <2> HIDE DEF T
  <2> QED BY <1>1, <2>1, WFMin
<1>3. \A y \in T : y >= t
  <2> TAKE y \in T
  <2>1. y \in Nat /\ t \in Nat BY <1>1
  <2>2. ~ (y < t) BY <1>2, <2>1 DEF OpToRel
  <2> QED BY <2>1, <2>2
<1>4. PICK s \in S : t = m - s OBVIOUS
<1>5. \A x \in S : s >= x
  <2> TAKE x \in S
  <2>1. m - x >= t BY <1>3
  <2> QED BY <1>4, <2>1
<1> QED BY <1>5 DEF Max

\* There is only one largest.
LEMMA MaxIs ==
  ASSUME NEW m \in Nat, NEW S \in SUBSET (0 .. m), NEW x \in S,
         \A y \in S : y <= x
  PROVE  Max(S) = x
<1> DEFINE y == Max(S)
<1>1. y \in S /\ x <= y BY MaxOfNats
<1> HIDE DEF y
<1>2. \A z \in S : z \in Nat OBVIOUS
<1>3. y <= x /\ x \in Nat /\ y \in Nat BY <1>1, <1>2
<1>4. y = x BY <1>1, <1>3
<1> QED BY <1>4 DEF y

-----------------------------------------------------------------------------
\* The first n values of the function that has the value base at 0 and goes on
\* by step, as a table.
Tables(n, D, base, step) ==
  {f \in [0 .. n -> D] : f[0] = base /\ \A k \in 1 .. n : f[k] = step[<<f[k - 1], k>>]}

\* There is one,
LEMMA TableExists ==
  ASSUME NEW D, NEW base \in D, NEW step \in [D \X Nat -> D]
  PROVE  \A n \in Nat : Tables(n, D, base, step) # {}
<1> DEFINE T(n) == Tables(n, D, base, step)
           S == {n \in Nat : T(n) # {}}
<1>1. 0 \in S
  <2> DEFINE g == [k \in 0 .. 0 |-> base]
  <2>1. g \in T(0)
    BY DEF Tables
  <2> QED BY <2>1
<1>2. ASSUME NEW n \in S PROVE n + 1 \in S
  <2>1. PICK g : g \in T(n)
    OBVIOUS
  <2> DEFINE h == [k \in 0 .. n + 1 |->
                     IF k <= n THEN g[k] ELSE step[<<g[n], n + 1>>]]
  <2>2. /\ n \in Nat /\ g \in [0 .. n -> D] /\ g[0] = base
        /\ \A k \in 1 .. n : g[k] = step[<<g[k - 1], k>>]
    BY <2>1 DEF Tables
  <2>3. g[n] \in D /\ <<g[n], n + 1>> \in D \X Nat
    BY <2>2
  <2>4. h \in [0 .. n + 1 -> D]
    BY <2>2, <2>3
  <2>5. h[0] = base
    BY <2>2
  <2>6. ASSUME NEW k \in 1 .. n + 1 PROVE h[k] = step[<<h[k - 1], k>>]
    <3>1. k - 1 \in 0 .. n + 1 /\ k - 1 <= n /\ k \in 0 .. n + 1
      BY <2>2
    <3>2. h[k - 1] = g[k - 1]
      BY <3>1
    <3>3. CASE k <= n
      <4>1. h[k] = g[k] /\ k \in 1 .. n
        BY <2>2, <3>1, <3>3
      <4> QED BY <2>2, <3>2, <4>1
    <3>4. CASE k = n + 1
      <4>1. ~ k <= n /\ k - 1 = n
        BY <2>2, <3>4
      <4>2. h[k] = step[<<g[n], n + 1>>]
        BY <3>1, <4>1
      <4> QED BY <3>2, <3>4, <4>1, <4>2
    <3> QED BY <2>2, <3>3, <3>4
  <2> HIDE DEF h
  <2>7. h \in T(n + 1)
    BY <2>4, <2>5, <2>6 DEF Tables
  <2> QED BY <2>2, <2>7
<1>3. S \subseteq Nat
  OBVIOUS
<1> HIDE DEF S
<1>4. S = Nat
  BY <1>1, <1>2, <1>3, NatIsClosure
<1> QED BY <1>4 DEF S

\* and it agrees with the longer ones.
LEMMA TablesAgree ==
  ASSUME NEW D, NEW base \in D, NEW step \in [D \X Nat -> D],
         NEW n \in Nat, NEW l \in Nat,
         NEW g \in Tables(n, D, base, step), NEW h \in Tables(l, D, base, step),
         NEW m \in Nat, m <= n, m <= l
  PROVE  g[m] = h[m]
<1> DEFINE S == {k \in Nat : k <= n /\ k <= l => g[k] = h[k]}
<1>1. 0 \in S
  BY DEF Tables
<1>2. ASSUME NEW k \in S PROVE k + 1 \in S
  <2> SUFFICES ASSUME k + 1 <= n, k + 1 <= l
               PROVE  g[k + 1] = h[k + 1]
    OBVIOUS
  <2>1. k \in Nat /\ g[k] = h[k]
    OBVIOUS
  <2>2. k + 1 \in 1 .. n /\ k + 1 \in 1 .. l /\ (k + 1) - 1 = k
    BY <2>1
  <2>3. /\ \A x \in 1 .. n : g[x] = step[<<g[x - 1], x>>]
        /\ \A x \in 1 .. l : h[x] = step[<<h[x - 1], x>>]
    BY DEF Tables
  <2>4. g[k + 1] = step[<<g[k], k + 1>>] /\ h[k + 1] = step[<<h[k], k + 1>>]
    BY <2>2, <2>3
  <2> QED BY <2>1, <2>4
<1>3. S \subseteq Nat
  OBVIOUS
<1> HIDE DEF S
<1>4. S = Nat
  BY <1>1, <1>2, <1>3, NatIsClosure
<1> QED BY <1>4 DEF S

\* So a function goes on by step on all natural numbers.
GoesOn(f, D, base, step) ==
  /\ f \in [Nat -> D]
  /\ f[0] = base
  /\ \A k \in Nat : f[k + 1] = step[<<f[k], k + 1>>]

\* A function defined by recursion on the naturals exists.
LEMMA RecursionOnNat ==
  ASSUME NEW D, NEW base \in D, NEW step \in [D \X Nat -> D]
  PROVE  \E f : GoesOn(f, D, base, step)
<1> DEFINE T(n) == Tables(n, D, base, step)
           table(n) == CHOOSE g : g \in T(n)
           f == [n \in Nat |-> table(n)[n]]
<1>1. \A n \in Nat : table(n) \in T(n)
  BY TableExists
<1> HIDE DEF table
<1>2. f[0] = base
  <2>1. table(0) \in T(0)
    BY <1>1
  <2> QED BY <2>1 DEF Tables
<1>3. ASSUME NEW n \in Nat
      PROVE  f[n] \in D /\ f[n + 1] = step[<<f[n], n + 1>>]
  <2>1. n + 1 \in Nat /\ n <= n /\ n <= n + 1
    OBVIOUS
  <2>2. table(n) \in T(n) /\ table(n + 1) \in T(n + 1)
    BY <1>1, <2>1
  <2>3. table(n)[n] \in D
    BY <2>2 DEF Tables
  <2>4. table(n + 1)[n] = table(n)[n]
    BY <2>1, <2>2, TablesAgree
  <2>5. table(n + 1)[n + 1] = step[<<table(n + 1)[n], n + 1>>]
    <3>1. \A x \in 1 .. n + 1 :
            table(n + 1)[x] = step[<<table(n + 1)[x - 1], x>>]
      BY <2>2 DEF Tables
    <3>2. n + 1 \in 1 .. n + 1 /\ (n + 1) - 1 = n
      OBVIOUS
    <3> QED BY <3>1, <3>2
  <2> QED BY <2>1, <2>3, <2>4, <2>5
<1>4. f \in [Nat -> D]
  BY <1>3
<1> HIDE DEF f
<1>5. GoesOn(f, D, base, step)
  BY <1>2, <1>3, <1>4 DEF GoesOn
<1> QED BY <1>5

-----------------------------------------------------------------------------
\* The powers of two are what their definition says.
LEMMA Pow2Is ==
  /\ Pow2[0] = 1
  /\ \A n \in Nat : Pow2[n] \in Nat /\ Pow2[n + 1] = 2 * Pow2[n]
<1> DEFINE step == [x \in Nat \X Nat |-> 2 * x[1]]
<1>1. step \in [Nat \X Nat -> Nat]
  OBVIOUS
<1>2. PICK f : GoesOn(f, Nat, 1, step)
  <2>1. 1 \in Nat
    OBVIOUS
  <2> HIDE DEF step
  <2> QED BY <1>1, <2>1, RecursionOnNat
<1>3. f[0] = 1 /\ \A n \in Nat : f[n] \in Nat /\ f[n + 1] = 2 * f[n]
  <2>1. /\ f \in [Nat -> Nat] /\ f[0] = 1
        /\ \A k \in Nat : f[k + 1] = step[<<f[k], k + 1>>]
    BY <1>2 DEF GoesOn
  <2>2. ASSUME NEW n \in Nat PROVE f[n] \in Nat /\ f[n + 1] = 2 * f[n]
    <3>1. f[n] \in Nat /\ n + 1 \in Nat
      BY <2>1
    <3>2. <<f[n], n + 1>> \in Nat \X Nat
      BY <3>1
    <3> QED BY <2>1, <3>1, <3>2
  <2> QED BY <2>1, <2>2
<1>4. ASSUME NEW n \in Nat
      PROVE  f[n] = IF n = 0 THEN 1 ELSE 2 * f[n - 1]
  <2>1. CASE n = 0 BY <1>3, <2>1
  <2>2. CASE n # 0
    <3>1. n - 1 \in Nat /\ (n - 1) + 1 = n BY <2>2
    <3>2. f[(n - 1) + 1] = 2 * f[n - 1] BY <1>3, <3>1
    <3> QED BY <2>2, <3>1, <3>2
  <2> QED BY <2>1, <2>2
<1>5. f = [n \in Nat |-> f[n]]
  BY <1>2 DEF GoesOn
<1>6. f = [n \in Nat |-> IF n = 0 THEN 1 ELSE 2 * f[n - 1]]
  <2>1. \A n \in Nat : f[n] = IF n = 0 THEN 1 ELSE 2 * f[n - 1] BY <1>4
  <2> QED BY <1>5, <2>1, Zenon
<1>7. Pow2 = [n \in Nat |-> IF n = 0 THEN 1 ELSE 2 * Pow2[n - 1]]
  BY <1>6, Zenon DEF Pow2
<1> DEFINE P == Pow2
<1>8. \A n \in Nat : P[n] = IF n = 0 THEN 1 ELSE 2 * P[n - 1]
  <2> HIDE DEF P
  <2>1. P = [n \in Nat |-> IF n = 0 THEN 1 ELSE 2 * P[n - 1]] BY <1>7 DEF P
  <2> QED BY <2>1
<1> HIDE DEF P
<1>9. P[0] = 1 BY <1>8
<1>10. \A n \in Nat : P[n + 1] = 2 * P[n]
  <2> TAKE n \in Nat
  <2>1. n + 1 \in Nat /\ n + 1 # 0 /\ (n + 1) - 1 = n OBVIOUS
  <2> QED BY <1>8, <2>1
<1>11. \A n \in Nat : P[n] \in Nat
  <2> DEFINE S == {n \in Nat : P[n] \in Nat}
  <2>1. 0 \in S /\ \A n \in S : n + 1 \in S BY <1>9, <1>10
  <2>2. S \subseteq Nat OBVIOUS
  <2> HIDE DEF S
  <2>3. S = Nat BY <2>1, <2>2, NatIsClosure
  <2> QED BY <2>3 DEF S
<1> QED BY <1>9, <1>10, <1>11 DEF P


\* They are positive.
LEMMA Pow2Positive == \A n \in Nat : Pow2[n] \in Nat /\ Pow2[n] >= 1
<1> DEFINE S == {n \in Nat : Pow2[n] >= 1}
<1>1. 0 \in S
  BY Pow2Is
<1>2. ASSUME NEW n \in S PROVE n + 1 \in S
  BY Pow2Is
<1>3. S \subseteq Nat
  OBVIOUS
<1> HIDE DEF S
<1>4. S = Nat
  BY <1>1, <1>2, <1>3, NatIsClosure
<1> QED BY <1>4, Pow2Is DEF S

\* The power of a sum is the product of the powers.
LEMMA Pow2Sum ==
  ASSUME NEW a \in Nat, NEW b \in Nat
  PROVE  Pow2[a + b] = Pow2[a] * Pow2[b]
<1> DEFINE S == {n \in Nat : Pow2[a + n] = Pow2[a] * Pow2[n]}
<1>1. 0 \in S
  <2>1. a + 0 = a /\ Pow2[a] \in Nat /\ Pow2[0] = 1
    BY Pow2Is
  <2> QED BY <2>1
<1>2. ASSUME NEW n \in S PROVE n + 1 \in S
  <2> DEFINE x == Pow2[a]
             y == Pow2[n]
             z == Pow2[a + n]
  <2>1. n \in Nat /\ a + n \in Nat /\ a + (n + 1) = (a + n) + 1
    OBVIOUS
  <2>2. Pow2[a + (n + 1)] = 2 * z /\ Pow2[n + 1] = 2 * y
    BY <2>1, Pow2Is
  <2>3. x \in Nat /\ y \in Nat /\ z = x * y
    BY <2>1, Pow2Is
  <2> HIDE DEF x, y, z
  <2>4. 2 * z = x * (2 * y)
    BY <2>3
  <2> QED BY <2>1, <2>2, <2>4 DEF x
<1>3. S \subseteq Nat
  OBVIOUS
<1> HIDE DEF S
<1>4. S = Nat
  BY <1>1, <1>2, <1>3, NatIsClosure
<1> QED BY <1>4 DEF S

\* They grow.
LEMMA Pow2Order ==
  ASSUME NEW a \in Nat, NEW b \in Nat, a <= b
  PROVE  Pow2[a] <= Pow2[b]
<1> DEFINE d == b - a
           x == Pow2[a]
           y == Pow2[d]
<1>1. d \in Nat /\ a + d = b
  OBVIOUS
<1>2. Pow2[b] = x * y
  BY <1>1, Pow2Sum
<1>3. x \in Nat /\ y \in Nat /\ 1 <= y
  BY <1>1, Pow2Positive
<1> HIDE DEF x, y, d
<1>4. 1 * x <= y * x
  BY <1>3, ScaleOrder
<1>5. x <= x * y
  BY <1>3, <1>4
<1> QED BY <1>2, <1>5 DEF x


-----------------------------------------------------------------------------
Bits == Seq(Bit)

-----------------------------------------------------------------------------
\* A prefix is a sequence of at most LENGTH bits, an address one of LENGTH.
LEMMA PrefixIsBits ==
  \A p : p \in Prefix <=> p \in Bits /\ Len(p) <= LENGTH
<1> USE LengthAssumption
<1>1. ASSUME NEW p, p \in Prefix PROVE p \in Bits /\ Len(p) <= LENGTH
  <2>1. PICK n \in 0 .. LENGTH : p \in [1 .. n -> Bit]
    BY <1>1 DEF Prefix, BitStrings
  <2>2. p \in Bits
    BY <2>1, SeqDef DEF Bits
  <2>3. Len(p) = n
    BY <2>1, <2>2, LenProperties DEF Bits
  <2> QED BY <2>2, <2>3
<1>2. ASSUME NEW p, p \in Bits, Len(p) <= LENGTH PROVE p \in Prefix
  <2>1. Len(p) \in 0 .. LENGTH /\ p \in [1 .. Len(p) -> Bit]
    BY <1>2, LenProperties DEF Bits
  <2> QED BY <2>1 DEF Prefix, BitStrings
<1> QED BY <1>1, <1>2

\* A string of n bits.
LEMMA BitStringsIsBits ==
  ASSUME NEW n \in Nat
  PROVE  \A b : b \in BitStrings(n) <=> b \in Bits /\ Len(b) = n
<1>1. ASSUME NEW b, b \in BitStrings(n) PROVE b \in Bits /\ Len(b) = n
  <2>1. b \in [1 .. n -> Bit] BY <1>1 DEF BitStrings
  <2>2. b \in Bits BY <2>1, SeqDef DEF Bits
  <2> QED BY <2>1, <2>2, LenProperties DEF Bits
<1>2. ASSUME NEW b, b \in Bits, Len(b) = n PROVE b \in BitStrings(n)
  BY <1>2, LenProperties DEF Bits, BitStrings
<1> QED BY <1>1, <1>2

\* The n leading bits of b.
LEMMA TakeBits ==
  ASSUME NEW b \in Bits, NEW n \in 0 .. Len(b)
  PROVE  /\ Take(b, n) \in Bits
         /\ Len(Take(b, n)) = n
         /\ \A k \in 1 .. n : Take(b, n)[k] = b[k]
<1>1. \A i \in 1 .. n : b[i] \in Bit
  BY ElementOfSeq, LenProperties DEF Bits
<1> QED BY <1>1, SubSeqProperties, LenProperties DEF Bits, Take

\* The bits of b after the first n.
LEMMA DropBits ==
  ASSUME NEW b \in Bits, NEW n \in 0 .. Len(b)
  PROVE  /\ Drop(b, n) \in Bits
         /\ Len(Drop(b, n)) = Len(b) - n
         /\ \A k \in 1 .. Len(b) - n : Drop(b, n)[k] = b[n + k]
<1>1. \A i \in n + 1 .. Len(b) : b[i] \in Bit
  BY ElementOfSeq, LenProperties DEF Bits
<1>2. Len(b) \in Nat BY LenProperties DEF Bits
<1>3. /\ SubSeq(b, n + 1, Len(b)) \in Seq(Bit)
      /\ Len(SubSeq(b, n + 1, Len(b))) =
           IF n + 1 <= Len(b) THEN Len(b) - (n + 1) + 1 ELSE 0
      /\ \A i \in 1 .. Len(b) - (n + 1) + 1 :
           SubSeq(b, n + 1, Len(b))[i] = b[n + 1 + i - 1]
  <2>1. n + 1 \in Int /\ Len(b) \in Int BY <1>2
  <2> QED BY <1>1, <2>1, SubSeqProperties
<1> QED BY <1>2, <1>3 DEF Bits, Drop

\* Strings of the same length and the same bits are the same.
LEMMA BitsEqual ==
  ASSUME NEW a \in Bits, NEW b \in Bits, Len(a) = Len(b),
         \A k \in 1 .. Len(a) : a[k] = b[k]
  PROVE  a = b
BY SeqEqual DEF Bits

\* A length is a natural number.
LEMMA BitsLen == \A b \in Bits : Len(b) \in Nat
BY LenProperties DEF Bits

\* Leading bits of leading bits.
LEMMA TakeTake ==
  ASSUME NEW b \in Bits, NEW n \in 0 .. Len(b), NEW m \in 0 .. n
  PROVE  Take(Take(b, n), m) = Take(b, m)
<1>1. Len(b) \in Nat /\ n \in Nat /\ m \in Nat BY BitsLen
<1>2. m \in 0 .. Len(b) BY <1>1
<1>3. /\ Take(b, n) \in Bits
      /\ Len(Take(b, n)) = n
      /\ \A k \in 1 .. n : Take(b, n)[k] = b[k]
  BY TakeBits
<1>4. /\ Take(Take(b, n), m) \in Bits
      /\ Len(Take(Take(b, n), m)) = m
      /\ \A k \in 1 .. m : Take(Take(b, n), m)[k] = Take(b, n)[k]
  BY <1>3, TakeBits
<1>5. /\ Take(b, m) \in Bits
      /\ Len(Take(b, m)) = m
      /\ \A k \in 1 .. m : Take(b, m)[k] = b[k]
  BY <1>2, TakeBits
<1>6. \A k \in 1 .. m : Take(Take(b, n), m)[k] = Take(b, m)[k]
  <2> TAKE k \in 1 .. m
  <2>1. k \in 1 .. n BY <1>1
  <2> QED BY <1>3, <1>4, <1>5, <2>1
<1> QED BY <1>4, <1>5, <1>6, BitsEqual

\* Taking all the bits.
LEMMA TakeAll ==
  ASSUME NEW b \in Bits
  PROVE  Take(b, Len(b)) = b
BY SubSeqFull DEF Bits, Take

\* The first n bits and the rest make the whole.
LEMMA TakeDropEqual ==
  ASSUME NEW a \in Bits, NEW b \in Bits, Len(a) = Len(b),
         NEW n \in 0 .. Len(a),
         Take(a, n) = Take(b, n), Drop(a, n) = Drop(b, n)
  PROVE  a = b
<1>1. Len(a) \in Nat /\ n \in Nat BY BitsLen
<1>2. /\ \A k \in 1 .. n : Take(a, n)[k] = a[k]
      /\ \A k \in 1 .. n : Take(b, n)[k] = b[k]
  BY TakeBits
<1>3. /\ \A k \in 1 .. Len(a) - n : Drop(a, n)[k] = a[n + k]
      /\ \A k \in 1 .. Len(a) - n : Drop(b, n)[k] = b[n + k]
  BY DropBits
<1>4. ASSUME NEW k \in 1 .. Len(a) PROVE a[k] = b[k]
  <2>1. CASE k <= n
    <3>1. k \in 1 .. n BY <2>1, <1>1
    <3> QED BY <1>2, <3>1
  <2>2. CASE k > n
    <3>1. k - n \in 1 .. Len(a) - n /\ n + (k - n) = k BY <2>2, <1>1
    <3> QED BY <1>3, <3>1
  <2> QED BY <2>1, <2>2, <1>1
<1> QED BY <1>4, BitsEqual

\* Leading bits of what is left after the first n.
LEMMA TakeOfDrop ==
  ASSUME NEW b \in Bits, NEW n \in 0 .. Len(b), NEW m \in 0 .. Len(b) - n
  PROVE  Take(Drop(b, n), m) = Drop(Take(b, n + m), n)
<1>1. Len(b) \in Nat /\ n \in Nat /\ m \in Nat BY BitsLen
<1>2. n + m \in 0 .. Len(b) /\ n \in 0 .. n + m /\ (n + m) - n = m BY <1>1
<1>3. /\ Drop(b, n) \in Bits
      /\ Len(Drop(b, n)) = Len(b) - n
      /\ \A k \in 1 .. Len(b) - n : Drop(b, n)[k] = b[n + k]
  BY DropBits
<1>4. /\ Take(Drop(b, n), m) \in Bits
      /\ Len(Take(Drop(b, n), m)) = m
      /\ \A k \in 1 .. m : Take(Drop(b, n), m)[k] = Drop(b, n)[k]
  BY <1>3, TakeBits
<1>5. /\ Take(b, n + m) \in Bits
      /\ Len(Take(b, n + m)) = n + m
      /\ \A k \in 1 .. n + m : Take(b, n + m)[k] = b[k]
  BY <1>2, TakeBits
<1>6. /\ Drop(Take(b, n + m), n) \in Bits
      /\ Len(Drop(Take(b, n + m), n)) = m
      /\ \A k \in 1 .. m : Drop(Take(b, n + m), n)[k] = Take(b, n + m)[n + k]
  <2>1. n \in 0 .. Len(Take(b, n + m)) /\ Len(Take(b, n + m)) - n = m
    BY <1>2, <1>5
  <2> QED BY <1>5, <2>1, DropBits
<1>7. \A k \in 1 .. m : Take(Drop(b, n), m)[k] = Drop(Take(b, n + m), n)[k]
  <2> TAKE k \in 1 .. m
  <2>1. n + k \in 1 .. n + m /\ k \in 1 .. Len(b) - n BY <1>1
  <2> QED BY <1>3, <1>4, <1>5, <1>6, <2>1
<1> QED BY <1>4, <1>6, <1>7, BitsEqual

\* The first bits and the rest, put together and taken apart.
LEMMA JoinBits ==
  ASSUME NEW s \in Bits, NEW q \in Bits
  PROVE  /\ s \o q \in Bits
         /\ Len(s \o q) = Len(s) + Len(q)
         /\ \A m \in 0 .. Len(s) : Take(s \o q, m) = Take(s, m)
         /\ Take(s \o q, Len(s)) = s
         /\ Drop(s \o q, Len(s)) = q
<1> DEFINE b == s \o q
<1>1. Len(s) \in Nat /\ Len(q) \in Nat BY BitsLen
<1>2. /\ b \in Bits
      /\ Len(b) = Len(s) + Len(q)
      /\ \A k \in 1 .. Len(b) :
           b[k] = IF k <= Len(s) THEN s[k] ELSE q[k - Len(s)]
  BY ConcatProperties DEF Bits
<1> HIDE DEF b
<1>3. ASSUME NEW m \in 0 .. Len(s) PROVE Take(b, m) = Take(s, m)
  <2>1. m \in 0 .. Len(b) BY <1>1, <1>2
  <2>2. /\ Take(b, m) \in Bits
        /\ Len(Take(b, m)) = m
        /\ \A k \in 1 .. m : Take(b, m)[k] = b[k]
    BY <1>2, <2>1, TakeBits
  <2>3. /\ Take(s, m) \in Bits
        /\ Len(Take(s, m)) = m
        /\ \A k \in 1 .. m : Take(s, m)[k] = s[k]
    BY TakeBits
  <2>4. \A k \in 1 .. m : k \in 1 .. Len(b) /\ k <= Len(s) BY <1>1, <1>2
  <2>5. \A k \in 1 .. m : Take(b, m)[k] = Take(s, m)[k]
    BY <1>2, <2>2, <2>3, <2>4
  <2> QED BY <2>2, <2>3, <2>5, BitsEqual
<1>4. Take(b, Len(s)) = s BY <1>1, <1>3, TakeAll
<1>5. Drop(b, Len(s)) = q
  <2>1. Len(s) \in 0 .. Len(b) BY <1>1, <1>2
  <2>2. /\ Drop(b, Len(s)) \in Bits
        /\ Len(Drop(b, Len(s))) = Len(b) - Len(s)
        /\ \A k \in 1 .. Len(b) - Len(s) :
             Drop(b, Len(s))[k] = b[Len(s) + k]
    BY <1>2, <2>1, DropBits
  <2>3. ASSUME NEW k \in 1 .. Len(q) PROVE Drop(b, Len(s))[k] = q[k]
    <3>1. /\ k \in 1 .. Len(b) - Len(s)
          /\ Len(s) + k \in 1 .. Len(b)
          /\ ~ (Len(s) + k <= Len(s))
          /\ (Len(s) + k) - Len(s) = k
      BY <1>1, <1>2
    <3> QED BY <1>2, <2>2, <3>1
  <2>4. Len(b) - Len(s) = Len(q) BY <1>1, <1>2
  <2> QED BY <2>2, <2>3, <2>4, BitsEqual
<1> QED BY <1>2, <1>3, <1>4, <1>5 DEF b

\* A string is its first n bits and the others.
LEMMA SplitBits ==
  ASSUME NEW b \in Bits, NEW n \in 0 .. Len(b)
  PROVE  Take(b, n) \o Drop(b, n) = b
<1>1. Take(b, n) \in Bits /\ Len(Take(b, n)) = n BY TakeBits
<1>2. Drop(b, n) \in Bits /\ Len(Drop(b, n)) = Len(b) - n BY DropBits
<1> DEFINE c == Take(b, n) \o Drop(b, n)
<1>3. c \in Bits /\ Len(c) = n + (Len(b) - n) /\ Take(c, n) = Take(b, n)
      /\ Drop(c, n) = Drop(b, n)
  BY <1>1, <1>2, JoinBits
<1> HIDE DEF c
<1>4. Len(c) = Len(b) /\ n \in 0 .. Len(c) BY <1>3, BitsLen
<1>5. c = b BY <1>3, <1>4, TakeDropEqual
<1> QED BY <1>5 DEF c

-----------------------------------------------------------------------------
\* The nodes below the root are those on the way to a rule.
Trim(t) == t.enl = UNION {Branch(p) : p \in DOMAIN t.inl}

-----------------------------------------------------------------------------
\* Whole strides.
LEMMA ModUnique ==
  ASSUME NEW n \in Nat, NEW q \in Nat, NEW r \in 0 .. STRIDE - 1,
         n = STRIDE * q + r
  PROVE  n % STRIDE = r
BY StrideAssumption

\* n rounded down to a stride.
LEMMA StrideFloor ==
  ASSUME NEW n \in Nat
  PROVE  /\ n % STRIDE \in Nat
         /\ n - (n % STRIDE) \in 0 .. n
         /\ (n - (n % STRIDE)) % STRIDE = 0
         /\ n < (n - (n % STRIDE)) + STRIDE
<1> DEFINE q == n \div STRIDE
<1>1. q \in Nat /\ n % STRIDE \in 0 .. STRIDE - 1 /\ n = STRIDE * q + (n % STRIDE)
  BY StrideAssumption
<1>2. n - (n % STRIDE) = STRIDE * q + 0 /\ n - (n % STRIDE) \in 0 .. n
  BY StrideAssumption
<1>3. 0 \in 0 .. STRIDE - 1 BY StrideAssumption
<1> HIDE DEF q
<1>4. (n - (n % STRIDE)) % STRIDE = 0
  BY <1>1, <1>2, <1>3, ModUnique
<1> QED BY <1>1, <1>2, <1>4, StrideAssumption

\* The stride after a stride.
LEMMA StrideNext ==
  ASSUME NEW k \in Nat, k % STRIDE = 0
  PROVE  (k + STRIDE) % STRIDE = 0
<1> DEFINE q == k \div STRIDE
<1>1. q \in Nat /\ k = STRIDE * q + 0 BY StrideAssumption
<1>2. k + STRIDE = STRIDE * (q + 1) + 0 BY <1>1, StrideAssumption
<1>3. 0 \in 0 .. STRIDE - 1 /\ k + STRIDE \in Nat BY StrideAssumption
<1> HIDE DEF q
<1> QED BY <1>1, <1>2, <1>3, ModUnique

\* The stride n is in is where it is rounded down to.
LEMMA StrideBelow ==
  ASSUME NEW n \in Nat, NEW k \in Nat, k % STRIDE = 0, k <= n, n < k + STRIDE
  PROVE  n - (n % STRIDE) = k
BY StrideAssumption

\* No bit is a whole number of strides.
LEMMA StrideZero == 0 % STRIDE = 0
BY StrideAssumption

-----------------------------------------------------------------------------
\* An address with zeros below the prefix.
LEMMA IpBits ==
  ASSUME NEW p \in Prefix
  PROVE  /\ p \in Bits /\ Len(p) \in 0 .. LENGTH
         /\ IpOf(p) \in Bits /\ Len(IpOf(p)) = LENGTH
         /\ DOMAIN IpOf(p) = 1 .. LENGTH
         /\ \A k \in 1 .. LENGTH :
              IpOf(p)[k] = IF k <= Len(p) THEN p[k] ELSE 0
<1>1. p \in Bits /\ Len(p) \in 0 .. LENGTH
  BY PrefixIsBits, BitsLen, LengthAssumption
<1>2. \A k \in 1 .. LENGTH : (IF k <= Len(p) THEN p[k] ELSE 0) \in Bit
  <2> TAKE k \in 1 .. LENGTH
  <2>1. CASE k <= Len(p)
    <3>1. k \in 1 .. Len(p) BY <1>1, <2>1
    <3> QED BY <1>1, <2>1, <3>1, ElementOfSeq DEF Bits
  <2> QED BY <2>1 DEF Bit
<1>3. IpOf(p) \in [1 .. LENGTH -> Bit] BY <1>2 DEF IpOf
<1>4. IpOf(p) \in Bits /\ Len(IpOf(p)) = LENGTH
  <2>1. LENGTH \in Nat BY LengthAssumption
  <2> QED BY <1>3, <2>1, BitStringsIsBits DEF BitStrings
<1> QED BY <1>1, <1>4 DEF IpOf

\* The leading bits of the address that belong to the prefix are its own.
LEMMA IpTake ==
  ASSUME NEW p \in Prefix, NEW n \in 0 .. Len(p)
  PROVE  Take(IpOf(p), n) = Take(p, n)
<1>1. /\ p \in Bits /\ Len(p) \in 0 .. LENGTH
      /\ IpOf(p) \in Bits /\ Len(IpOf(p)) = LENGTH
      /\ \A k \in 1 .. LENGTH :
           IpOf(p)[k] = IF k <= Len(p) THEN p[k] ELSE 0
  BY IpBits
<1>2. LENGTH \in Nat /\ n \in 0 .. LENGTH BY <1>1, LengthAssumption
<1>3. /\ Take(IpOf(p), n) \in Bits /\ Len(Take(IpOf(p), n)) = n
      /\ \A k \in 1 .. n : Take(IpOf(p), n)[k] = IpOf(p)[k]
  BY <1>1, <1>2, TakeBits
<1>4. /\ Take(p, n) \in Bits /\ Len(Take(p, n)) = n
      /\ \A k \in 1 .. n : Take(p, n)[k] = p[k]
  BY <1>1, TakeBits
<1>5. \A k \in 1 .. n : IpOf(p)[k] = p[k]
  <2> TAKE k \in 1 .. n
  <2>1. k \in 1 .. LENGTH /\ k <= Len(p) BY <1>1, <1>2
  <2> QED BY <1>1, <2>1
<1> QED BY <1>3, <1>4, <1>5, BitsEqual

-----------------------------------------------------------------------------
\* The path to p.
LEMMA BranchTake ==
  ASSUME NEW p \in Prefix, NEW m \in 1 .. Len(p), m % STRIDE = 0
  PROVE  /\ Take(p, m) \in Branch(p)
         /\ Take(p, m) \in Prefix
         /\ Len(Take(p, m)) = m
<1>1. p \in Bits /\ Len(p) <= LENGTH /\ Len(p) \in Nat
  BY PrefixIsBits, BitsLen
<1>2. Take(p, m) \in Bits /\ Len(Take(p, m)) = m
  BY <1>1, TakeBits
<1>3. Take(p, m) \in Prefix BY <1>1, <1>2, PrefixIsBits, LengthAssumption
<1> QED BY <1>2, <1>3 DEF Branch

\* The nodes of that path, which all cover p.
LEMMA BranchNodes ==
  ASSUME NEW p \in Prefix, NEW c \in Branch(p)
  PROVE  /\ c \in Prefix
         /\ Len(c) \in 1 .. Len(p)
         /\ Len(c) % STRIDE = 0
         /\ c = Take(p, Len(c))
         /\ Covers(c, p)
<1>1. PICK m \in 1 .. Len(p) : m % STRIDE = 0 /\ c = Take(p, m)
  BY DEF Branch
<1>2. c \in Prefix /\ Len(c) = m BY <1>1, BranchTake
<1>3. Len(c) <= Len(p)
  <2>1. Len(p) \in Nat BY PrefixIsBits, BitsLen
  <2> QED BY <1>2, <2>1
<1> QED BY <1>1, <1>2, <1>3 DEF Covers

\* The empty trie is a trim trie without rules.
LEMMA EmptyTrieOK ==
  /\ IsTrie(EmptyTrie)
  /\ Trim(EmptyTrie)
  /\ DOMAIN EmptyTrie.inl = {}
  /\ IsTable(EmptyTable)
<1>1. DOMAIN EmptyTable = {} BY DEF EmptyTable
<1>2. EmptyTable = [p \in DOMAIN EmptyTable |-> EmptyTable[p]]
  BY DEF EmptyTable
<1>3. IsTable(EmptyTable)
  BY <1>1, <1>2, FS_EmptySet DEF IsTable, NextHops
<1> QED BY <1>1, <1>3 DEF EmptyTrie, IsTrie, Trim

\* Put keeps a table a table.
LEMMA PutTable ==
  ASSUME NEW t, IsTable(t), NEW p \in Prefix, NEW nhi \in NHI
  PROVE  /\ IsTable(Put(t, p, nhi))
         /\ DOMAIN Put(t, p, nhi) = DOMAIN t \cup {p}
         /\ Put(t, p, nhi)[p] = nhi
         /\ \A q \in DOMAIN t \ {p} : Put(t, p, nhi)[q] = t[q]
<1> DEFINE u == Put(t, p, nhi)
<1>1. /\ DOMAIN u = DOMAIN t \cup {p}
      /\ u = [q \in DOMAIN u |-> u[q]]
      /\ u[p] = nhi
      /\ \A q \in DOMAIN t \ {p} : u[q] = t[q]
  BY DEF Put
<1>2. IsFiniteSet(DOMAIN t) /\ DOMAIN t \subseteq Prefix
  BY DEF IsTable
<1>3. IsFiniteSet(DOMAIN u) BY <1>1, <1>2, FS_AddElement
<1>4. \A q \in DOMAIN u : u[q] \in NHI
  BY <1>1 DEF IsTable, NextHops
<1> HIDE DEF u
<1>5. IsTable(u) BY <1>1, <1>2, <1>3, <1>4 DEF IsTable, NextHops
<1> QED BY <1>1, <1>5 DEF u

\* And Remove does.
LEMMA RemoveTable ==
  ASSUME NEW t, IsTable(t), NEW p
  PROVE  /\ IsTable(Remove(t, p))
         /\ DOMAIN Remove(t, p) = DOMAIN t \ {p}
         /\ \A q \in DOMAIN t \ {p} : Remove(t, p)[q] = t[q]
<1> DEFINE u == Remove(t, p)
<1>1. /\ DOMAIN u = DOMAIN t \ {p}
      /\ u = [q \in DOMAIN u |-> u[q]]
      /\ \A q \in DOMAIN t \ {p} : u[q] = t[q]
  BY DEF Remove
<1>2. IsFiniteSet(DOMAIN t) /\ DOMAIN t \subseteq Prefix
  BY DEF IsTable
<1>3. IsFiniteSet(DOMAIN u) BY <1>1, <1>2, FS_RemoveElement
<1>4. \A q \in DOMAIN u : u[q] \in NHI
  BY <1>1 DEF IsTable, NextHops
<1> HIDE DEF u
<1>5. IsTable(u) BY <1>1, <1>2, <1>3, <1>4 DEF IsTable, NextHops
<1> QED BY <1>1, <1>5 DEF u

\* The keys and the values of a table.
LEMMA TableEntry ==
  ASSUME NEW t, IsTable(t), NEW p \in DOMAIN t
  PROVE  p \in Prefix /\ t[p] \in NHI
BY DEF IsTable, NextHops

-----------------------------------------------------------------------------
\* The walk to a rule of a trim trie is never cut short, so that a search
\* meets every rule that matches.
LEMMA MatchesAreMet ==
  ASSUME NEW t, IsTrie(t), Trim(t), NEW a \in Prefix
  PROVE  RulesMet(t, a) = MatchLengths(t.inl, a)
<1>1. a \in Bits /\ Len(a) \in Nat BY PrefixIsBits, BitsLen
<1>2. ASSUME NEW n \in MatchLengths(t.inl, a) PROVE Reached(t, a, n)
  <2>1. n \in 0 .. Len(a) /\ Take(a, n) \in DOMAIN t.inl
    BY DEF MatchLengths
  <2>2. Take(a, n) \in Prefix /\ Len(Take(a, n)) = n
    BY <1>1, <2>1, TakeBits, TableEntry DEF IsTrie
  <2>3. ASSUME NEW m \in 1 .. n, m % STRIDE = 0 PROVE Take(a, m) \in t.enl
    <3>1. m \in 0 .. n /\ m \in 1 .. Len(Take(a, n)) BY <2>1, <2>2
    <3>2. Take(Take(a, n), m) = Take(a, m) BY <1>1, <2>1, <3>1, TakeTake
    <3>3. Take(Take(a, n), m) \in Branch(Take(a, n))
      BY <2>2, <2>3, <3>1, BranchTake
    <3> QED BY <2>1, <3>2, <3>3 DEF Trim
  <2> QED BY <2>3 DEF Reached
<1> QED BY <1>2 DEF RulesMet

\* bitmap_do_search on a trim trie is the longest match of its rules.
THEOREM SearchIsLongestMatch ==
  ASSUME NEW t, IsTrie(t), Trim(t), NEW a \in Prefix
  PROVE  Search(t, a) = LongestMatch(t.inl, a)
BY MatchesAreMet DEF Search, LongestMatch

\* bitmap_prefix_exist on a trim trie finds its rules and nothing else.
THEOREM ExistIsRule ==
  ASSUME NEW t, IsTrie(t), Trim(t), NEW p \in Prefix
  PROVE  PrefixExist(t, p) <=> p \in DOMAIN t.inl
<1>1. p \in Bits /\ Len(p) \in Nat /\ Take(p, Len(p)) = p
  BY PrefixIsBits, BitsLen, TakeAll
<1>2. p \in DOMAIN t.inl => Len(p) \in MatchLengths(t.inl, p)
  BY <1>1 DEF MatchLengths
<1>3. p \in DOMAIN t.inl => Reached(t, p, Len(p))
  BY <1>2, MatchesAreMet DEF RulesMet
<1> QED BY <1>3 DEF PrefixExist

\* An insertion adds the rule and the nodes it needs.
THEOREM InsertKeepsTrim ==
  ASSUME NEW t, IsTrie(t), Trim(t), NEW p \in Prefix, NEW nhi \in NHI
  PROVE  /\ IsTrie(InsertPrefix(t, p, nhi))
         /\ Trim(InsertPrefix(t, p, nhi))
         /\ InsertPrefix(t, p, nhi).inl = Put(t.inl, p, nhi)
<1> DEFINE u == InsertPrefix(t, p, nhi)
<1>1. u.inl = Put(t.inl, p, nhi) /\ u.enl = t.enl \cup Branch(p)
      /\ u = [inl |-> u.inl, enl |-> u.enl]
  BY DEF InsertPrefix
<1>2. IsTable(u.inl) /\ DOMAIN u.inl = DOMAIN t.inl \cup {p}
  <2>1. IsTable(t.inl) BY DEF IsTrie
  <2>2. /\ IsTable(Put(t.inl, p, nhi))
        /\ DOMAIN Put(t.inl, p, nhi) = DOMAIN t.inl \cup {p}
    BY <2>1, PutTable
  <2> HIDE DEF u
  <2> QED BY <1>1, <2>2
<1>3. u.enl \subseteq Prefix BY <1>1, BranchNodes DEF IsTrie
<1>4. Trim(u) BY <1>1, <1>2 DEF Trim
<1> HIDE DEF u
<1>5. IsTrie(u) BY <1>1, <1>2, <1>3 DEF IsTrie
<1> QED BY <1>1, <1>4, <1>5 DEF u

-----------------------------------------------------------------------------
\* Two rules that share a node part ways in some node below: the other one is
\* left there, or a child that leads to it, so that neither that node nor one
\* above it empties.
LEMMA OtherRuleKeepsNode ==
  ASSUME NEW t, IsTrie(t), Trim(t), NEW p \in Prefix,
         NEW q \in Prefix, q # p,
         q \in DOMAIN t.inl,
         NEW m \in 0 .. Len(p), m % STRIDE = 0, m <= Len(q),
         Take(q, m) = Take(p, m)
  PROVE  m \notin NeedToDel(t, p)
<1> DEFINE S == {k \in 0 .. Len(p) : /\ k % STRIDE = 0
                                     /\ k <= Len(q)
                                     /\ Take(q, k) = Take(p, k)}
           k == Max(S)
<1>1. /\ p \in Bits /\ Len(p) \in Nat /\ Len(p) <= LENGTH
      /\ q \in Bits /\ Len(q) \in Nat /\ Len(q) <= LENGTH
  BY PrefixIsBits, BitsLen
<1>2. k \in S /\ \A x \in S : x <= k
  <2>1. m \in S OBVIOUS
  <2>2. S \in SUBSET (0 .. Len(p)) OBVIOUS
  <2> HIDE DEF S
  <2> QED BY <1>1, <2>1, <2>2, MaxOfNats
<1>3. /\ k \in 0 .. Len(p) /\ k % STRIDE = 0 /\ k <= Len(q)
      /\ Take(q, k) = Take(p, k) /\ m <= k
  <2>1. m \in S OBVIOUS
  <2>2. m <= k BY <1>2, <2>1
  <2> QED BY <1>2, <2>2
<1>4. \A x \in 0 .. Len(p) :
        x % STRIDE = 0 /\ x <= Len(q) /\ Take(q, x) = Take(p, x) => x <= k
  BY <1>2
<1> HIDE DEF S, k
<1>5. ~ Emptied(t, p, k)
  <2>1. CASE Len(q) < k + STRIDE
    <3>1. NodeOf(q) = Take(q, k)
      BY <1>1, <1>3, <2>1, StrideBelow DEF NodeOf
    <3> QED BY <1>3, <3>1 DEF Emptied, RulesLeft
  <2>2. CASE Len(q) >= k + STRIDE
    <3> DEFINE n == k + STRIDE
               d == Take(q, n)
    <3>1. n \in 1 .. Len(q) /\ n % STRIDE = 0 /\ k \in Nat
      BY <1>1, <1>3, <2>2, StrideNext, StrideAssumption
    <3>2. d \in Branch(q) /\ d \in Prefix /\ Len(d) = n
      BY <3>1, BranchTake
    <3>3. d \in t.enl BY <3>2 DEF Trim
    <3>4. Covers(Take(p, k), d)
      <4>1. k \in 0 .. n /\ n \in 0 .. Len(q) BY <1>1, <3>1, StrideAssumption
      <4>2. Take(d, k) = Take(q, k) BY <1>1, <4>1, TakeTake
      <4>3. Len(Take(p, k)) = k BY <1>1, <1>3, TakeBits
      <4> HIDE DEF d, n
      <4> QED BY <1>3, <3>2, <4>1, <4>2, <4>3 DEF Covers
    <3>5. ~ Covers(d, p)
      <4>1. SUFFICES ASSUME Covers(d, p) PROVE FALSE OBVIOUS
      <4>2. n <= Len(p) /\ Take(p, n) = Take(q, n)
        BY <3>2, <4>1 DEF Covers
      <4>3. n \in 0 .. Len(p) /\ n <= Len(q) BY <1>1, <3>1, <4>2
      <4>4. n <= k BY <1>4, <3>1, <4>2, <4>3
      <4> QED BY <3>1, <4>4, StrideAssumption
    <3>6. d \in ChildrenLeft(t, p, k)
      BY <3>2, <3>3, <3>4, <3>5 DEF ChildrenLeft
    <3> QED BY <3>6 DEF Emptied
  <2> QED BY <1>1, <1>3, <2>1, <2>2, StrideAssumption
<1> QED
  <2>1. k \in m .. Len(p) BY <1>1, <1>3
  <2> QED BY <1>3, <1>5, <2>1 DEF NeedToDel

\* A node of the path to p that does not empty is on the way to another rule.
LEMMA KeptNodeHasRule ==
  ASSUME NEW t, IsTrie(t), Trim(t), NEW p \in Prefix,
         NEW m \in 1 .. Len(p), m % STRIDE = 0, m \notin NeedToDel(t, p)
  PROVE  \E q \in DOMAIN t.inl \ {p} : Take(p, m) \in Branch(q)
<1>1. p \in Bits /\ Len(p) \in Nat BY PrefixIsBits, BitsLen
<1>2. PICK k \in m .. Len(p) : k % STRIDE = 0 /\ ~ Emptied(t, p, k)
  BY <1>1 DEF NeedToDel
<1>3. k \in 1 .. Len(p) /\ k \in 0 .. Len(p) /\ m \in 0 .. k BY <1>1, <1>2
<1>4. Len(Take(p, k)) = k /\ Take(Take(p, k), m) = Take(p, m)
  BY <1>1, <1>3, TakeBits, TakeTake
<1>5. ASSUME NEW q \in DOMAIN t.inl, NEW c \in Prefix,
             Len(c) \in k .. Len(q), c = Take(q, Len(c)),
             Take(c, k) = Take(p, k)
      PROVE  Take(p, m) \in Branch(q)
  <2>1. q \in Prefix BY TableEntry DEF IsTrie
  <2>2. q \in Bits /\ Len(q) \in Nat BY <2>1, PrefixIsBits, BitsLen
  <2>3. k \in 0 .. Len(q) /\ m \in 1 .. Len(q) /\ m \in 0 .. Len(q)
        /\ k \in 0 .. Len(c) /\ Len(c) \in 0 .. Len(q)
    BY <1>3, <1>5, <2>2
  <2>4. Take(c, k) = Take(q, k) BY <1>5, <2>2, <2>3, TakeTake
  <2>5. Take(Take(q, k), m) = Take(q, m) BY <1>3, <2>2, <2>3, TakeTake
  <2>6. Take(p, m) = Take(q, m) BY <1>4, <1>5, <2>4, <2>5
  <2> QED BY <2>1, <2>3, <2>6, BranchTake
<1>6. CASE RulesLeft(t, p, k) # {}
  <2>1. PICK q \in DOMAIN t.inl \ {p} : NodeOf(q) = Take(p, k)
    BY <1>6 DEF RulesLeft
  <2>2. q \in Prefix BY TableEntry DEF IsTrie
  <2>3. q \in Bits /\ Len(q) \in Nat BY <2>2, PrefixIsBits, BitsLen
  <2> DEFINE j == Len(q) - (Len(q) % STRIDE)
  <2>4. j \in 0 .. Len(q) BY <2>3, StrideFloor
  <2>5. Len(Take(q, j)) = j BY <2>3, <2>4, TakeBits
  <2>6. Take(q, j) = Take(p, k) BY <2>1 DEF NodeOf
  <2>7. j = k BY <1>4, <2>5, <2>6
  <2>8. Take(p, k) \in Prefix
    BY <1>2, <1>3, BranchTake
  <2>9. Take(Take(p, k), k) = Take(p, k)
    BY <1>1, <1>3, TakeTake
  <2>10. k \in k .. Len(q) BY <1>3, <2>3, <2>4, <2>7
  <2> HIDE DEF j
  <2>11. Take(p, m) \in Branch(q)
    BY <1>4, <1>5, <2>6, <2>7, <2>8, <2>9, <2>10
  <2> QED BY <2>11
<1>7. CASE ChildrenLeft(t, p, k) # {}
  <2>1. PICK d \in t.enl : /\ Len(d) = k + STRIDE
                           /\ Covers(Take(p, k), d)
                           /\ ~ Covers(d, p)
    BY <1>7 DEF ChildrenLeft
  <2>2. PICK q \in DOMAIN t.inl : d \in Branch(q) BY DEF Trim
  <2>3. q \in Prefix BY TableEntry DEF IsTrie
  <2>4. d \in Prefix /\ d = Take(q, Len(d)) /\ Len(d) \in 1 .. Len(q)
        /\ Covers(d, q)
    BY <2>2, <2>3, BranchNodes
  <2>5. Len(q) \in Nat BY <2>3, PrefixIsBits, BitsLen
  <2>6. Len(d) \in k .. Len(q) BY <1>3, <2>1, <2>4, <2>5, StrideAssumption
  <2>7. Take(d, k) = Take(p, k) BY <1>4, <2>1 DEF Covers
  <2>8. Take(p, m) \in Branch(q) BY <1>5, <2>4, <2>6, <2>7
  <2> QED BY <2>1, <2>4, <2>8
<1> QED BY <1>2, <1>6, <1>7 DEF Emptied

\* A deletion takes the rule away and the nodes no other rule needs; it
\* returns 1 exactly when no rule is left, and then no node is either.
THEOREM DeleteKeepsTrim ==
  ASSUME NEW t, IsTrie(t), Trim(t), NEW p \in DOMAIN t.inl
  PROVE  LET del == DeletePrefix(t, p)
         IN  /\ IsTrie(del.trie)
             /\ Trim(del.trie)
             /\ del.trie.inl = Remove(t.inl, p)
             /\ del.empty <=> DOMAIN t.inl = {p}
             /\ del.empty => del.trie = EmptyTrie
<1> DEFINE u == DeletePrefix(t, p).trie
           empty == DeletePrefix(t, p).empty
           gone == {Take(p, m) : m \in NeedToDel(t, p) \ {0}}
<1>1. /\ u = [inl |-> u.inl, enl |-> u.enl]
      /\ u.inl = Remove(t.inl, p)
      /\ u.enl = t.enl \ gone
      /\ empty <=> 0 \in NeedToDel(t, p)
  <2>1. u = [inl |-> Remove(t.inl, p), enl |-> t.enl \ gone]
    BY Zenon DEF DeletePrefix
  <2>2. empty <=> 0 \in NeedToDel(t, p) BY Zenon DEF DeletePrefix
  <2> HIDE DEF u, empty, gone
  <2>3. /\ u = [inl |-> u.inl, enl |-> u.enl]
        /\ u.inl = Remove(t.inl, p)
        /\ u.enl = t.enl \ gone
    BY <2>1
  <2> QED BY <2>2, <2>3, Zenon
<1> HIDE DEF u, empty
<1>2. p \in Prefix BY TableEntry DEF IsTrie
<1>3. p \in Bits /\ Len(p) \in Nat BY <1>2, PrefixIsBits, BitsLen
<1>4. IsTable(u.inl) /\ DOMAIN u.inl = DOMAIN t.inl \ {p}
  <2>1. IsTable(t.inl) BY DEF IsTrie
  <2>2. IsTable(Remove(t.inl, p)) /\ DOMAIN Remove(t.inl, p) = DOMAIN t.inl \ {p}
    BY <2>1, RemoveTable
  <2> QED BY <1>1, <2>2
<1>5. IsTrie(u)
  <2>1. u.enl \subseteq Prefix BY <1>1 DEF IsTrie
  <2> QED BY <1>1, <1>4, <2>1 DEF IsTrie
<1>6. ASSUME NEW q \in DOMAIN t.inl \ {p}, NEW c \in Branch(q)
      PROVE  c \in t.enl \ gone
  <2>1. c \in t.enl BY DEF Trim
  <2>2. q \in Prefix BY TableEntry DEF IsTrie
  <2>3. Len(c) \in 1 .. Len(q) /\ Len(c) % STRIDE = 0 /\ c = Take(q, Len(c))
    BY <2>2, BranchNodes
  <2>4. ASSUME NEW m \in NeedToDel(t, p), m # 0, c = Take(p, m) PROVE FALSE
    <3>1. m \in 0 .. Len(p) BY DEF NeedToDel
    <3>2. Len(c) = m BY <1>3, <2>4, <3>1, TakeBits
    <3>3. m <= Len(q) BY <2>3, <3>2
    <3>4. Take(q, m) = Take(p, m) /\ m % STRIDE = 0 BY <2>3, <2>4, <3>2
    <3>5. m \notin NeedToDel(t, p)
      BY <1>2, <2>2, <3>1, <3>3, <3>4, OtherRuleKeepsNode
    <3> QED BY <3>5
  <2> QED BY <2>1, <2>4
<1>7. ASSUME NEW c \in t.enl \ gone
      PROVE  \E q \in DOMAIN t.inl \ {p} : c \in Branch(q)
  <2>1. PICK r \in DOMAIN t.inl : c \in Branch(r) BY DEF Trim
  <2>2. CASE r # p BY <2>1, <2>2
  <2>3. CASE r = p
    <3>1. Len(c) \in 1 .. Len(p) /\ Len(c) % STRIDE = 0 /\ c = Take(p, Len(c))
      BY <1>2, <2>1, <2>3, BranchNodes
    <3>2. Len(c) \notin NeedToDel(t, p)
      <4>1. Len(c) # 0 BY <3>1
      <4> QED BY <3>1, <4>1
    <3> QED BY <1>2, <3>1, <3>2, KeptNodeHasRule
  <2> QED BY <2>2, <2>3
<1>8. Trim(u) BY <1>1, <1>4, <1>6, <1>7 DEF Trim
<1>9. empty => DOMAIN t.inl = {p}
  <2>1. SUFFICES ASSUME 0 \in NeedToDel(t, p), NEW q \in DOMAIN t.inl, q # p
                 PROVE  FALSE
    BY <1>1
  <2>2. q \in Prefix BY TableEntry DEF IsTrie
  <2>3. q \in Bits /\ Len(q) \in Nat BY <2>2, PrefixIsBits, BitsLen
  <2>4. 0 \in 0 .. Len(p) /\ 0 <= Len(q) BY <1>3, <2>3
  <2>5. Take(q, 0) = Take(p, 0)
    <3>1. Take(q, 0) = << >> /\ Take(p, 0) = << >> BY SubSeqEmpty DEF Take
    <3> QED BY <3>1
  <2>6. 0 \notin NeedToDel(t, p)
    BY <1>2, <2>1, <2>2, <2>4, <2>5, StrideZero, OtherRuleKeepsNode
  <2> QED BY <2>1, <2>6
<1>10. ASSUME DOMAIN t.inl = {p} PROVE empty
  <2>1. ASSUME NEW k \in 0 .. Len(p) PROVE Emptied(t, p, k)
    <3>1. RulesLeft(t, p, k) = {} BY <1>10 DEF RulesLeft
    <3>2. \A c \in t.enl : Covers(c, p)
      BY <1>2, <1>10, BranchNodes DEF Trim
    <3>3. ChildrenLeft(t, p, k) = {} BY <3>2 DEF ChildrenLeft
    <3> QED BY <3>1, <3>3 DEF Emptied
  <2>2. 0 \in 0 .. Len(p) BY <1>3
  <2> QED BY <1>1, <2>1, <2>2, StrideZero DEF NeedToDel
<1>11. empty => u = EmptyTrie
  <2>1. SUFFICES ASSUME DOMAIN t.inl = {p} PROVE u = EmptyTrie BY <1>9
  <2>2. DOMAIN u.inl = {} BY <1>4, <2>1
  <2>3. u.inl = EmptyTable
    BY <1>4, <2>2 DEF EmptyTable, IsTable
  <2>4. u.enl = {} BY <1>8, <2>2 DEF Trim
  <2> QED BY <1>1, <2>3, <2>4 DEF EmptyTrie
<1> QED BY <1>1, <1>5, <1>8, <1>9, <1>10, <1>11 DEF u, empty

-----------------------------------------------------------------------------
(***************************************************************************)
(* The walk of a lookup, for every function that walks: it is on the path  *)
(* of its address, and each node has its share of the matches.             *)
(***************************************************************************)

\* The node is on the path of a.
OnPath(a, node) ==
  /\ Len(node) \in 0 .. LENGTH
  /\ Len(node) % STRIDE = 0
  /\ node = Take(a, Len(node))

\* What is left of a after the bits that lead to a node, as a stride: zeros
\* follow the last bit.
BitsAt(a, node) ==
  [k \in 1 .. STRIDE |->
     IF Len(node) + k <= LENGTH THEN a[Len(node) + k] ELSE 0]

\* The longest rule of the node that matches the stride s, among those of fewer
\* than `limit' bits in the node.
RuleIn(t, node, s, limit) ==
  LET found == {m \in 0 .. limit - 1 : node \o Take(s, m) \in DOMAIN t.inl}
  IN  IF found = {} THEN NULL ELSE node \o Take(s, Max(found))

\* rule is the longest of t that matches a among those of length lo .. hi - 1,
\* or NULL where none does.
FoundIn(t, rule, a, lo, hi) ==
  LET lens == {k \in MatchLengths(t.inl, a) : lo <= k /\ k < hi}
  IN  \/ rule = NULL /\ lens = {}
      \/ \E k \in lens : rule = Take(a, k) /\ \A x \in lens : x <= k

\* Beyond the last bit.
All == LENGTH + 1

-----------------------------------------------------------------------------
\* d strides and one more.
LEMMA StrideSteps ==
  ASSUME NEW d \in Nat
  PROVE  /\ d * STRIDE \in Nat
         /\ (d * STRIDE) % STRIDE = 0
         /\ (d + 1) * STRIDE = d * STRIDE + STRIDE
         /\ d * STRIDE <= LENGTH => d <= LENGTH \div STRIDE
<1>1. d * STRIDE \in Nat /\ d * STRIDE = STRIDE * d + 0 /\ 0 \in 0 .. STRIDE - 1
  BY StrideAssumption
<1>2. (d * STRIDE) % STRIDE = 0 BY <1>1, ModUnique
<1>3. ASSUME d * STRIDE <= LENGTH PROVE d <= LENGTH \div STRIDE
  BY <1>3, StrideAssumption, LengthAssumption
<1> QED BY <1>1, <1>2, <1>3, StrideAssumption

\* The stride a length is in.
LEMMA StrideOf ==
  ASSUME NEW m \in Nat
  PROVE  \E d \in Nat : d * STRIDE <= m /\ m < (d + 1) * STRIDE
<1> DEFINE q == m \div STRIDE
<1>1. q \in Nat /\ q * STRIDE <= m /\ m < q * STRIDE + STRIDE
  BY StrideAssumption
<1> HIDE DEF q
<1> QED BY <1>1, StrideSteps

\* Fewer strides are fewer bits.
LEMMA StridesOrder ==
  ASSUME NEW d \in Nat, NEW e \in Nat
  PROVE  d < e => (d + 1) * STRIDE <= e * STRIDE
<1>1. ASSUME d < e PROVE (e - (d + 1)) * STRIDE >= 0
  <2>1. e - (d + 1) \in Nat BY <1>1
  <2> QED BY <2>1, StrideAssumption
<1> QED BY <1>1, StrideAssumption

\* Addresses.
LEMMA AddressIs ==
  ASSUME NEW a \in Address
  PROVE  a \in Bits /\ Len(a) = LENGTH /\ a \in Prefix
BY LengthAssumption, BitStringsIsBits, PrefixIsBits DEF Address

\* The bits of one node.
LEMMA BitsAtIs ==
  ASSUME NEW a \in Address, NEW node, Len(node) \in 0 .. LENGTH
  PROVE  /\ BitsAt(a, node) \in BitStrings(STRIDE)
         /\ BitsAt(a, node) \in Bits
         /\ Len(BitsAt(a, node)) = STRIDE
         /\ \A k \in 1 .. STRIDE :
              Len(node) + k <= LENGTH => BitsAt(a, node)[k] = a[Len(node) + k]
<1>1. \A k \in 1 .. LENGTH : a[k] \in Bit BY DEF Address, BitStrings
<1>2. \A k \in 1 .. STRIDE :
        (IF Len(node) + k <= LENGTH THEN a[Len(node) + k] ELSE 0) \in Bit
  BY <1>1, StrideAssumption, LengthAssumption DEF Bit
<1>3. BitsAt(a, node) \in BitStrings(STRIDE)
  BY <1>2 DEF BitsAt, BitStrings
<1> QED BY <1>3, StrideAssumption, BitStringsIsBits DEF BitsAt

\* A node of the path and the next m bits of it, where there are as many: the
\* path itself.
LEMMA BitsOnPath ==
  ASSUME NEW a \in Address, NEW node, OnPath(a, node), NEW m \in 0 .. STRIDE
  PROVE  LET p == node \o Take(BitsAt(a, node), m)
         IN  /\ p \in Bits
             /\ Len(p) = Len(node) + m
             /\ Len(node) + m <= LENGTH => p = Take(a, Len(node) + m)
<1> DEFINE s == BitsAt(a, node)
           t == Take(s, m)
           l == Len(node)
           p == node \o t
<1>1. a \in Bits /\ Len(a) = LENGTH /\ l \in 0 .. Len(a) /\ node = Take(a, l)
      /\ l \in Nat /\ m \in Nat /\ LENGTH \in Nat
  BY AddressIs, StrideAssumption, LengthAssumption DEF OnPath
<1>2. s \in Bits /\ Len(s) = STRIDE
      /\ \A k \in 1 .. STRIDE : l + k <= LENGTH => s[k] = a[l + k]
  BY BitsAtIs DEF OnPath
<1> HIDE DEF s
<1>3. t \in Bits /\ Len(t) = m /\ \A k \in 1 .. m : t[k] = s[k]
  BY <1>2, TakeBits
<1>4. node \in Bits
  <2>1. Take(a, l) \in Bits BY <1>1, TakeBits
  <2> QED BY <1>1, <2>1
<1> HIDE DEF t
<1>5. p \in Bits /\ Len(p) = l + m /\ Take(p, l) = node /\ Drop(p, l) = t
  BY <1>3, <1>4, JoinBits
<1> HIDE DEF p, l
<1>6. ASSUME l + m <= LENGTH PROVE p = Take(a, l + m)
  <2> DEFINE q == Take(a, l + m)
             r == Take(Drop(a, l), m)
  <2>1. l + m \in 0 .. Len(a) /\ l \in 0 .. l + m /\ m \in 0 .. Len(a) - l
    BY <1>1, <1>6
  <2>2. q \in Bits /\ Len(q) = l + m /\ Take(q, l) = node
    BY <1>1, <2>1, TakeBits, TakeTake
  <2>3. Drop(q, l) = r BY <1>1, <2>1, TakeOfDrop
  <2>4. Drop(a, l) \in Bits /\ Len(Drop(a, l)) = Len(a) - l
        /\ \A k \in 1 .. Len(a) - l : Drop(a, l)[k] = a[l + k]
    BY <1>1, DropBits
  <2>5. r \in Bits /\ Len(r) = m /\ \A k \in 1 .. m : r[k] = Drop(a, l)[k]
    BY <2>1, <2>4, TakeBits
  <2> HIDE DEF q, r
  <2>6. ASSUME NEW k \in 1 .. m PROVE r[k] = t[k]
    <3>1. k \in 1 .. STRIDE /\ l + k <= LENGTH /\ k \in 1 .. Len(a) - l
      BY <1>1, <1>6, StrideAssumption
    <3>2. t[k] = a[l + k] BY <1>2, <1>3, <3>1
    <3>3. r[k] = a[l + k] BY <2>4, <2>5, <3>1
    <3> QED BY <3>2, <3>3
  <2>7. r = t BY <1>3, <2>5, <2>6, BitsEqual
  <2>8. l \in 0 .. Len(p) BY <1>1, <1>5
  <2> QED BY <1>5, <2>2, <2>3, <2>7, <2>8, TakeDropEqual DEF q
<1> QED BY <1>5, <1>6 DEF p, t, s, l

\* The child of a node of the path, where there is one, is the next node of it.
LEMMA NextOnPath ==
  ASSUME NEW t, IsTrie(t), NEW a \in Address, NEW node, OnPath(a, node),
         node \o BitsAt(a, node) \in t.enl
  PROVE  /\ OnPath(a, node \o BitsAt(a, node))
         /\ node \o BitsAt(a, node) \in Prefix
         /\ Len(node \o BitsAt(a, node)) = Len(node) + STRIDE
<1> DEFINE s == BitsAt(a, node)
           c == node \o s
<1>1. STRIDE \in 0 .. STRIDE /\ STRIDE \in Nat BY StrideAssumption
<1>2. s \in Bits /\ Len(s) = STRIDE BY BitsAtIs DEF OnPath
<1>3. Take(s, STRIDE) = s BY <1>2, TakeAll
<1>4. /\ c \in Bits /\ Len(c) = Len(node) + STRIDE
      /\ Len(node) + STRIDE <= LENGTH => c = Take(a, Len(node) + STRIDE)
  BY <1>1, <1>3, BitsOnPath
<1>5. c \in Prefix BY DEF IsTrie
<1>6. Len(c) <= LENGTH BY <1>5, PrefixIsBits
<1>7. Len(node) \in Nat /\ (Len(node) + STRIDE) % STRIDE = 0
  BY StrideNext, LengthAssumption DEF OnPath
<1> HIDE DEF c
<1>8. OnPath(a, c) BY <1>1, <1>4, <1>6, <1>7, LengthAssumption DEF OnPath
<1> QED BY <1>4, <1>5, <1>8 DEF c

\* The match of length k is that of the address.
LEMMA MatchLength ==
  ASSUME NEW t, IsTrie(t), NEW a \in Address, NEW k \in MatchLengths(t.inl, a)
  PROVE  /\ k \in 0 .. LENGTH /\ k \in Nat
         /\ Take(a, k) \in DOMAIN t.inl
         /\ Take(a, k) \in Prefix
         /\ Take(a, k) # NULL
BY AddressIs, TableEntry, RuleAssumption, LengthAssumption DEF MatchLengths, IsTrie

\* It is the longest match of the lengths it is asked for.
LEMMA RuleInIs ==
  ASSUME NEW t, IsTrie(t), NEW a \in Address, NEW node, OnPath(a, node),
         NEW limit \in 0 .. STRIDE
  PROVE  FoundIn(t, RuleIn(t, node, BitsAt(a, node), limit), a,
                 Len(node), Len(node) + limit)
<1> DEFINE s == BitsAt(a, node)
           l == Len(node)
           found == {m \in 0 .. limit - 1 : node \o Take(s, m) \in DOMAIN t.inl}
           lens == {k \in MatchLengths(t.inl, a) : l <= k /\ k < l + limit}
<1>1. l \in 0 .. LENGTH /\ l \in Nat /\ STRIDE \in Nat /\ limit \in Nat /\ limit <= STRIDE
      /\ LENGTH \in Nat /\ Len(a) = LENGTH
  BY AddressIs, StrideAssumption, LengthAssumption DEF OnPath
<1>2. ASSUME NEW m \in 0 .. limit - 1
      PROVE  /\ m \in found <=> l + m \in lens
             /\ m \in found => node \o Take(s, m) = Take(a, l + m)
  <2>1. m \in 0 .. STRIDE BY <1>1
  <2>2. /\ Len(node \o Take(s, m)) = l + m
        /\ l + m <= LENGTH => node \o Take(s, m) = Take(a, l + m)
    BY <2>1, BitsOnPath
  <2> DEFINE p == node \o Take(s, m)
  <2> HIDE DEF p, s, l
  <2>3. p \in DOMAIN t.inl => l + m <= LENGTH
    BY <2>2, TableEntry, PrefixIsBits DEF IsTrie, p
  <2>4. l + m \in MatchLengths(t.inl, a)
          <=> l + m <= LENGTH /\ Take(a, l + m) \in DOMAIN t.inl
    BY <1>1 DEF MatchLengths
  <2>5. l <= l + m /\ l + m < l + limit BY <1>1
  <2>6. p \in DOMAIN t.inl <=> l + m \in MatchLengths(t.inl, a)
    BY <2>2, <2>3, <2>4 DEF p
  <2>7. p \in DOMAIN t.inl => p = Take(a, l + m) BY <2>2, <2>3 DEF p
  <2> QED BY <2>5, <2>6, <2>7 DEF p
<1>3. ASSUME NEW k \in lens PROVE k - l \in found /\ k \in Nat /\ l + (k - l) = k
  <2>1. k \in Nat /\ k - l \in 0 .. limit - 1 /\ l + (k - l) = k
    BY <1>1 DEF MatchLengths
  <2> QED BY <1>2, <2>1
<1>4. RuleIn(t, node, s, limit) =
        IF found = {} THEN NULL ELSE node \o Take(s, Max(found))
  BY DEF RuleIn
<1>5. found \subseteq 0 .. limit - 1 OBVIOUS
<1>6. FoundIn(t, RuleIn(t, node, s, limit), a, l, l + limit)
        <=> \/ RuleIn(t, node, s, limit) = NULL /\ lens = {}
            \/ \E k \in lens : RuleIn(t, node, s, limit) = Take(a, k)
                                /\ \A x \in lens : x <= k
  BY DEF FoundIn
<1> HIDE DEF found, lens, s, l
<1>7. CASE found = {} BY <1>3, <1>4, <1>6, <1>7 DEF s, l
<1>8. CASE found # {}
  <2> DEFINE m == Max(found)
  <2>1. limit - 1 \in Nat
    <3>1. PICK x \in found : x \in 0 .. limit - 1 BY <1>5, <1>8
    <3> QED BY <1>1, <3>1
  <2>2. m \in found /\ \A x \in found : x <= m BY <1>5, <1>8, <2>1, MaxOfNats
  <2> HIDE DEF m
  <2>3. m \in 0 .. limit - 1 BY <1>5, <2>2
  <2>4. l + m \in lens /\ RuleIn(t, node, s, limit) = Take(a, l + m)
    BY <1>2, <1>4, <1>8, <2>2, <2>3 DEF m
  <2>5. \A x \in lens : x <= l + m
    BY <1>1, <1>3, <2>2, <2>3
  <2> QED BY <1>6, <2>4, <2>5 DEF s, l
<1> QED BY <1>7, <1>8

\* Where the path ends there is nothing left to match.
LEMMA NothingLonger ==
  ASSUME NEW t, IsTrie(t), Trim(t), NEW a \in Address, NEW node, OnPath(a, node),
         node \o BitsAt(a, node) \notin t.enl, NEW k \in MatchLengths(t.inl, a)
  PROVE  k < Len(node) + STRIDE
<1> DEFINE s == BitsAt(a, node)
           l == Len(node)
<1>1. /\ STRIDE \in 0 .. STRIDE /\ STRIDE \in Nat /\ l \in Nat /\ l % STRIDE = 0
      /\ LENGTH \in Nat /\ STRIDE > 0
  BY StrideAssumption, LengthAssumption DEF OnPath
<1>2. k \in 0 .. LENGTH /\ k \in Nat /\ Take(a, k) \in DOMAIN t.inl
      /\ Take(a, k) \in Prefix
  BY MatchLength
<1>3. SUFFICES ASSUME k >= l + STRIDE PROVE FALSE BY <1>1, <1>2
<1>4. Take(s, STRIDE) = s
  <2>1. s \in Bits /\ Len(s) = STRIDE BY BitsAtIs DEF OnPath
  <2> QED BY <2>1, TakeAll
<1>5. node \o s = Take(a, l + STRIDE)
  <2>1. l + STRIDE <= LENGTH BY <1>1, <1>2, <1>3
  <2>2. PICK m \in 0 .. STRIDE : m = STRIDE BY <1>1
  <2>3. node \o Take(s, m) = Take(a, l + m)
    BY <2>1, <2>2, BitsOnPath
  <2> QED BY <1>4, <2>2, <2>3
<1> HIDE DEF s
<1>6. a \in Bits /\ Len(a) = LENGTH BY AddressIs
<1>7. Len(Take(a, k)) = k BY <1>2, <1>6, TakeBits
<1>8. l + STRIDE \in 0 .. k /\ l + STRIDE \in 1 .. k BY <1>1, <1>2, <1>3
<1>9. Take(Take(a, k), l + STRIDE) = Take(a, l + STRIDE)
  BY <1>2, <1>6, <1>8, TakeTake
<1>10. Take(Take(a, k), l + STRIDE) \in Branch(Take(a, k))
  BY <1>1, <1>2, <1>7, <1>8, StrideNext, BranchTake
<1>11. node \o s \in t.enl BY <1>2, <1>5, <1>9, <1>10 DEF Trim
<1> QED BY <1>11 DEF s

\* Two rules, one for the lengths below mid and one for those from mid: the
\* second goes before the first.
LEMMA LongerFirst ==
  ASSUME NEW t, IsTrie(t), NEW a \in Address, NEW r, NEW s,
         NEW lo \in Nat, NEW mid \in Nat, NEW hi \in Nat, lo <= mid, mid <= hi,
         FoundIn(t, r, a, lo, mid), FoundIn(t, s, a, mid, hi)
  PROVE  FoundIn(t, IF s # NULL THEN s ELSE r, a, lo, hi)
<1> DEFINE M == MatchLengths(t.inl, a)
<1>1. \A k \in M : k \in Nat /\ Take(a, k) # NULL BY MatchLength
<1>2. \/ r = NULL /\ \A k \in M : ~ (lo <= k /\ k < mid)
      \/ \E k \in M : /\ lo <= k /\ k < mid /\ r = Take(a, k)
                      /\ \A x \in M : lo <= x /\ x < mid => x <= k
  BY DEF FoundIn
<1>3. \/ s = NULL /\ \A k \in M : ~ (mid <= k /\ k < hi)
      \/ \E k \in M : /\ mid <= k /\ k < hi /\ s = Take(a, k)
                      /\ \A x \in M : mid <= x /\ x < hi => x <= k
  BY DEF FoundIn
<1> SUFFICES LET q == IF s # NULL THEN s ELSE r
             IN  \/ q = NULL /\ \A k \in M : ~ (lo <= k /\ k < hi)
                 \/ \E k \in M : /\ lo <= k /\ k < hi /\ q = Take(a, k)
                                 /\ \A x \in M : lo <= x /\ x < hi => x <= k
  BY DEF FoundIn
<1> HIDE DEF M
<1>4. CASE s = NULL
  <2>1. \A k \in M : lo <= k /\ k < hi => k < mid BY <1>1, <1>3, <1>4
  <2> QED BY <1>1, <1>2, <1>4, <2>1
<1>5. CASE s # NULL
  <2>1. PICK k \in M : /\ mid <= k /\ k < hi /\ s = Take(a, k)
                       /\ \A x \in M : mid <= x /\ x < hi => x <= k
    BY <1>3, <1>5
  <2>2. \A x \in M : lo <= x /\ x < hi => x <= k BY <1>1, <2>1
  <2>3. lo <= k BY <1>1, <2>1
  <2> QED BY <1>5, <2>1, <2>2, <2>3
<1> QED BY <1>4, <1>5

\* Where no match is longer, that is all.
LEMMA FoundAll ==
  ASSUME NEW t, IsTrie(t), NEW a \in Address, NEW r, NEW lo \in Nat, NEW hi \in Nat,
         FoundIn(t, r, a, lo, hi), \A k \in MatchLengths(t.inl, a) : k < hi
  PROVE  FoundIn(t, r, a, lo, All)
<1>1. \A k \in MatchLengths(t.inl, a) : k \in Nat /\ k < All
  BY MatchLength, LengthAssumption DEF All
<1>2. {k \in MatchLengths(t.inl, a) : lo <= k /\ k < hi} =
        {k \in MatchLengths(t.inl, a) : lo <= k /\ k < All}
  BY <1>1
<1> QED BY <1>2 DEF FoundIn

\* A rule that is found is the longest of the shorter ones too.
LEMMA FoundIsLongest ==
  ASSUME NEW t, IsTrie(t), NEW a \in Address, NEW r, NEW lo \in Nat, NEW hi,
         FoundIn(t, r, a, lo, hi), r # NULL
  PROVE  FoundIn(t, r, a, 0, hi)
<1> DEFINE M == MatchLengths(t.inl, a)
<1>1. PICK k \in M : /\ lo <= k /\ k < hi /\ r = Take(a, k)
                     /\ \A x \in M : lo <= x /\ x < hi => x <= k
  BY DEF FoundIn
<1>2. \A x \in M : x \in Nat BY MatchLength
<1> HIDE DEF M
<1>3. 0 <= k /\ \A x \in M : 0 <= x /\ x < hi => x <= k BY <1>1, <1>2
<1> QED BY <1>1, <1>3 DEF FoundIn, M

\* Nothing is found where there is nothing.
LEMMA FoundNone ==
  ASSUME NEW t, IsTrie(t), NEW a \in Address, NEW lo \in Nat
  PROVE  FoundIn(t, NULL, a, lo, lo)
<1>1. \A k \in MatchLengths(t.inl, a) : ~ (lo <= k /\ k < lo) BY MatchLength
<1> QED BY <1>1 DEF FoundIn

\* What is found is NULL or a rule.
LEMMA FoundRule ==
  ASSUME NEW t, IsTrie(t), NEW a \in Address, NEW r, NEW lo, NEW hi,
         FoundIn(t, r, a, lo, hi)
  PROVE  r \in Prefix \cup {NULL}
BY MatchLength DEF FoundIn

\* The caller gets the next hop of the longest match.
LEMMA FoundIsAnswer ==
  ASSUME NEW t, IsTrie(t), NEW a \in Address, NEW r, FoundIn(t, r, a, 0, All)
  PROVE  (IF r = NULL THEN NULL ELSE t.inl[r]) = LongestMatch(t.inl, a)
<1> DEFINE M == MatchLengths(t.inl, a)
<1>1. \A k \in M : k \in 0 .. LENGTH /\ k \in Nat /\ Take(a, k) # NULL
  BY MatchLength
<1>2. {k \in M : 0 <= k /\ k < All} = M BY <1>1, LengthAssumption DEF All
<1>3. \/ r = NULL /\ M = {}
      \/ \E k \in M : r = Take(a, k) /\ \A x \in M : x <= k
  BY <1>2 DEF FoundIn
<1>4. LongestMatch(t.inl, a) = IF M = {} THEN NULL ELSE t.inl[Take(a, Max(M))]
  BY DEF LongestMatch, NextHopAt
<1>5. M \in SUBSET (0 .. LENGTH) /\ LENGTH \in Nat BY <1>1, LengthAssumption
<1> HIDE DEF M
<1>6. ASSUME NEW k \in M, \A x \in M : x <= k PROVE Max(M) = k /\ Take(a, k) # NULL
  BY <1>1, <1>5, <1>6, MaxIs
<1> QED BY <1>3, <1>4, <1>6

-----------------------------------------------------------------------------
\* The recursion of Value.
LEMMA ValueTurns ==
  ASSUME NEW b \in Bits
  PROVE  \E v : /\ v \in [0 .. Len(b) -> Nat]
                /\ Value(b) = v[Len(b)]
                /\ v[0] = 0
                /\ \A k \in 1 .. Len(b) : v[k] = 2 * v[k - 1] + b[k]
<1> DEFINE n == Len(b)
           At(k) == IF k \in 1 .. n THEN b[k] ELSE 0
           step == [x \in Nat \X Nat |-> 2 * x[1] + At(x[2])]
           w == CHOOSE g : g = [k \in 0 .. Len(b) |->
                                  IF k = 0 THEN 0 ELSE 2 * g[k - 1] + b[k]]
<1>1. n \in Nat /\ \A k \in 1 .. n : b[k] \in Nat
  <2>1. \A k \in 1 .. n : b[k] \in Bit
    BY ElementOfSeq DEF Bits
  <2> QED BY <2>1, BitsLen DEF Bit
<1> HIDE DEF n
<1>2. \A k : At(k) \in Nat
  BY <1>1
<1> HIDE DEF At
<1>3. step \in [Nat \X Nat -> Nat]
  BY <1>2
<1>4. PICK f : GoesOn(f, Nat, 0, step)
  <2>1. 0 \in Nat
    OBVIOUS
  <2> HIDE DEF step
  <2> QED BY <1>3, <2>1, RecursionOnNat
<1>5. /\ f \in [Nat -> Nat] /\ f[0] = 0
      /\ \A k \in Nat : f[k + 1] = 2 * f[k] + At(k + 1)
  <2>1. /\ f \in [Nat -> Nat] /\ f[0] = 0
        /\ \A k \in Nat : f[k + 1] = step[<<f[k], k + 1>>]
    BY <1>4 DEF GoesOn
  <2>2. ASSUME NEW k \in Nat PROVE f[k + 1] = 2 * f[k] + At(k + 1)
    <3>1. f[k] \in Nat /\ k + 1 \in Nat
      BY <2>1
    <3>2. <<f[k], k + 1>> \in Nat \X Nat
      BY <3>1
    <3> QED BY <2>1, <3>1, <3>2
  <2> QED BY <2>1, <2>2
<1> HIDE DEF step
<1> DEFINE g == [k \in 0 .. n |-> f[k]]
<1>6. \A k \in 1 .. n : g[k] = 2 * g[k - 1] + b[k]
  <2> TAKE k \in 1 .. n
  <2>1. k - 1 \in Nat /\ (k - 1) + 1 = k /\ k - 1 \in 0 .. n /\ k \in 0 .. n
    BY <1>1
  <2>2. f[(k - 1) + 1] = 2 * f[k - 1] + At((k - 1) + 1)
    BY <1>5, <2>1
  <2> QED BY <2>1, <2>2 DEF At
<1>7. g[0] = 0 /\ g \in [0 .. n -> Nat]
  BY <1>1, <1>5
<1> HIDE DEF g
<1>8. g = [k \in 0 .. n |-> IF k = 0 THEN 0 ELSE 2 * g[k - 1] + b[k]]
  <2>1. \A k \in 0 .. n : g[k] = IF k = 0 THEN 0 ELSE 2 * g[k - 1] + b[k]
    <3> TAKE k \in 0 .. n
    <3>1. k # 0 => k \in 1 .. n
      BY <1>1
    <3> QED BY <1>6, <1>7, <3>1
  <2>2. g = [k \in 0 .. n |-> g[k]]
    BY <1>7
  <2> QED BY <2>1, <2>2, Zenon
<1>9. w = [k \in 0 .. n |-> IF k = 0 THEN 0 ELSE 2 * w[k - 1] + b[k]]
  BY <1>8, Zenon DEF n
<1>10. Value(b) = w[n]
  BY Zenon DEF Value, n
<1> HIDE DEF w
<1>11. w[0] = 0 /\ \A k \in 1 .. n : w[k] = 2 * w[k - 1] + b[k]
  BY <1>1, <1>9
<1>12. \A k \in 0 .. n : w[k] = g[k]
  <2> DEFINE S == {k \in Nat : k <= n => w[k] = g[k]}
  <2>1. 0 \in S
    BY <1>7, <1>11
  <2>2. ASSUME NEW k \in S PROVE k + 1 \in S
    <3>1. k \in Nat
      OBVIOUS
    <3> SUFFICES ASSUME k + 1 <= n PROVE w[k + 1] = g[k + 1]
      BY <3>1
    <3>2. w[k] = g[k] /\ k + 1 \in 1 .. n /\ (k + 1) - 1 = k
      BY <1>1, <3>1
    <3> QED BY <1>6, <1>11, <3>2
  <2>3. S \subseteq Nat
    OBVIOUS
  <2> HIDE DEF S
  <2>4. S = Nat
    BY <2>1, <2>2, <2>3, NatIsClosure
  <2> QED BY <1>1, <2>4 DEF S
<1>13. w = g
  BY <1>7, <1>9, <1>12
<1> QED BY <1>6, <1>7, <1>10, <1>13 DEF n

\* A string with a bit more.
LEMMA ValueIs ==
  /\ Value(<<>>) = 0
  /\ \A b \in Bits : Value(b) \in Nat
  /\ \A b \in Bits :
       Len(b) >= 1 =>
         Value(b) = 2 * Value(Take(b, Len(b) - 1)) + b[Len(b)]
<1>1. Value(<<>>) = 0
  <2>1. <<>> \in Bits /\ Len(<<>>) = 0
    BY DEF Bits
  <2> QED BY <2>1, ValueTurns
<1>2. ASSUME NEW b \in Bits PROVE Value(b) \in Nat
  <2>1. Len(b) \in 0 .. Len(b)
    BY BitsLen
  <2> QED BY <2>1, ValueTurns
<1>3. ASSUME NEW b \in Bits, Len(b) >= 1
      PROVE  Value(b) = 2 * Value(Take(b, Len(b) - 1)) + b[Len(b)]
  <2> DEFINE n == Len(b) - 1
             c == Take(b, n)
  <2>1. n \in Nat /\ Len(b) = n + 1 /\ n \in 0 .. Len(b)
    BY <1>3, BitsLen
  <2>2. c \in Bits /\ Len(c) = n /\ \A k \in 1 .. n : c[k] = b[k]
    BY <2>1, TakeBits
  <2> HIDE DEF n, c
  <2>3. PICK v : /\ v \in [0 .. n + 1 -> Nat] /\ Value(b) = v[n + 1] /\ v[0] = 0
                 /\ \A k \in 1 .. n + 1 : v[k] = 2 * v[k - 1] + b[k]
    <3>1. PICK v : /\ v \in [0 .. Len(b) -> Nat] /\ Value(b) = v[Len(b)] /\ v[0] = 0
                   /\ \A k \in 1 .. Len(b) : v[k] = 2 * v[k - 1] + b[k]
      BY ValueTurns
    <3>2. /\ v \in [0 .. n + 1 -> Nat] /\ Value(b) = v[n + 1] /\ v[0] = 0
          /\ \A k \in 1 .. n + 1 : v[k] = 2 * v[k - 1] + b[k]
      BY <2>1, <3>1
    <3> QED BY <3>2, Zenon
  <2>4. PICK u : /\ u \in [0 .. n -> Nat] /\ Value(c) = u[n] /\ u[0] = 0
                 /\ \A k \in 1 .. n : u[k] = 2 * u[k - 1] + c[k]
    BY <2>2, ValueTurns
  <2> DEFINE S == {k \in Nat : k <= n => u[k] = v[k]}
  <2>5. 0 \in S
    BY <2>3, <2>4
  <2>6. ASSUME NEW k \in S PROVE k + 1 \in S
    <3>1. k \in Nat
      OBVIOUS
    <3> SUFFICES ASSUME k + 1 <= n PROVE u[k + 1] = v[k + 1]
      BY <3>1
    <3>2. u[k] = v[k] /\ k + 1 \in 1 .. n /\ k + 1 \in 1 .. n + 1 /\ (k + 1) - 1 = k
      BY <2>1, <3>1
    <3>3. u[k + 1] = 2 * u[(k + 1) - 1] + c[k + 1]
      BY <2>4, <3>2
    <3>4. v[k + 1] = 2 * v[(k + 1) - 1] + b[k + 1]
      BY <2>3, <3>2
    <3>5. c[k + 1] = b[k + 1]
      BY <2>2, <3>2
    <3> QED BY <3>2, <3>3, <3>4, <3>5
  <2>7. S \subseteq Nat
    OBVIOUS
  <2> HIDE DEF S
  <2>8. n \in S
    BY <2>1, <2>5, <2>6, <2>7, NatIsClosure
  <2>9. u[n] = v[n]
    BY <2>1, <2>8 DEF S
  <2>10. n + 1 \in 1 .. n + 1 /\ (n + 1) - 1 = n
    BY <2>1
  <2>11. v[n + 1] = 2 * v[n] + b[n + 1]
    BY <2>3, <2>10
  <2> QED BY <2>1, <2>3, <2>4, <2>9, <2>11 DEF n, c
<1> QED BY <1>1, <1>2, <1>3

\* The leading bits weigh more by as many powers of two as bits follow.
LEMMA ValueSplit ==
  ASSUME NEW b \in Bits, NEW n \in 0 .. Len(b)
  PROVE  Value(b) = Value(Take(b, n)) * Pow2[Len(b) - n] + Value(Drop(b, n))
<1>0. n \in Nat /\ Len(b) \in Nat
  BY BitsLen
<1> DEFINE Splits(c, m) ==
             Value(c) = Value(Take(c, n)) * Pow2[m] + Value(Drop(c, n))
           S == {m \in Nat : \A c \in Bits : Len(c) = n + m => Splits(c, m)}
<1>1. 0 \in S
  <2> SUFFICES ASSUME NEW c \in Bits, Len(c) = n + 0 PROVE Splits(c, 0)
    OBVIOUS
  <2>1. Take(c, n) = c
    BY <1>0, TakeAll
  <2>2. Drop(c, n) \in Bits /\ Len(Drop(c, n)) = 0
    BY <1>0, DropBits
  <2>3. <<>> \in Bits /\ Len(<<>>) = 0
    BY DEF Bits
  <2>4. Drop(c, n) = <<>>
    BY <2>2, <2>3, BitsEqual
  <2>5. Value(c) \in Nat /\ Value(<<>>) = 0 /\ Pow2[0] = 1
    BY ValueIs, Pow2Is
  <2> QED BY <2>1, <2>4, <2>5
<1>2. ASSUME NEW m \in S PROVE m + 1 \in S
  <2>1. m \in Nat
    OBVIOUS
  <2> SUFFICES ASSUME NEW c \in Bits, Len(c) = n + (m + 1)
               PROVE  Splits(c, m + 1)
    BY <2>1
  <2> DEFINE d == Take(c, n + m)
             e == Drop(c, n)
             x == Value(Take(c, n))
             y == Value(Take(e, m))
             p == Pow2[m]
  <2>2. /\ n + m \in 0 .. Len(c) /\ n \in 0 .. Len(c) /\ n \in 0 .. n + m
        /\ Len(c) >= 1 /\ Len(c) - 1 = n + m /\ Len(c) - n = m + 1
        /\ m \in 0 .. Len(c) - n /\ m + 1 \in 1 .. Len(c) - n
        /\ n + (m + 1) = Len(c)
    BY <1>0, <2>1
  <2>3. d \in Bits /\ Len(d) = n + m /\ Take(d, n) = Take(c, n)
    BY <2>2, TakeBits, TakeTake
  <2>4. e \in Bits /\ Len(e) = m + 1 /\ e[m + 1] = c[Len(c)] /\ Take(e, m) \in Bits
    <3>1. e \in Bits /\ Len(e) = m + 1 /\ e[m + 1] = c[n + (m + 1)]
      BY <2>2, DropBits
    <3>2. m \in 0 .. Len(e)
      BY <2>1, <3>1
    <3> HIDE DEF e
    <3> QED BY <2>2, <3>1, <3>2, TakeBits
  <2>5. Take(e, m) = Drop(d, n)
    BY <2>2, TakeOfDrop
  <2>6. Splits(d, m)
    BY <2>3
  <2>7. Value(d) = x * p + y
    BY <2>3, <2>5, <2>6
  <2>8. Value(c) = 2 * Value(d) + c[Len(c)]
    BY <2>2, ValueIs
  <2>9. Value(e) = 2 * y + c[Len(c)]
    <3>1. Len(e) >= 1 /\ Len(e) - 1 = m
      BY <2>1, <2>4
    <3> HIDE DEF e
    <3> QED BY <2>4, <3>1, ValueIs DEF y
  <2>10. Pow2[m + 1] = 2 * p /\ p \in Nat
    BY <2>1, Pow2Is
  <2>11. x \in Nat /\ y \in Nat /\ c[Len(c)] \in Nat
    <3>1. Take(c, n) \in Bits
      BY <2>2, TakeBits
    <3>2. c[Len(c)] \in Bit
      BY <2>2, ElementOfSeq, BitsLen DEF Bits
    <3> QED BY <2>4, <3>1, <3>2, ValueIs DEF Bit
  <2> DEFINE z == c[Len(c)]
  <2>12. Value(c) = 2 * (x * p + y) + z /\ Value(e) = 2 * y + z /\ z \in Nat
    BY <2>7, <2>8, <2>9, <2>11
  <2> SUFFICES Value(c) = x * Pow2[m + 1] + Value(e)
    OBVIOUS
  <2> HIDE DEF x, y, p, z, e, d
  <2>13. 2 * (x * p + y) + z = x * (2 * p) + (2 * y + z)
    BY <2>10, <2>11, <2>12
  <2> QED BY <2>10, <2>12, <2>13
<1>3. S \subseteq Nat
  OBVIOUS
<1> HIDE DEF S
<1>4. S = Nat
  BY <1>1, <1>2, <1>3, NatIsClosure
<1>5. Len(b) - n \in Nat /\ n + (Len(b) - n) = Len(b)
  BY <1>0
<1>6. Splits(b, Len(b) - n)
  BY <1>4, <1>5 DEF S
<1> QED BY <1>6

\* n bits make a number below 2^n.
LEMMA ValueRange ==
  ASSUME NEW b \in Bits
  PROVE  Value(b) \in 0 .. Pow2[Len(b)] - 1
<1> DEFINE S == {n \in Nat : \A c \in Bits : Len(c) = n => Value(c) < Pow2[n]}
<1>1. 0 \in S
  <2> SUFFICES ASSUME NEW c \in Bits, Len(c) = 0 PROVE Value(c) < Pow2[0]
    OBVIOUS
  <2>1. <<>> \in Bits /\ Len(<<>>) = 0
    BY DEF Bits
  <2>2. c = <<>>
    BY <2>1, BitsEqual
  <2> QED BY <2>2, ValueIs, Pow2Is
<1>2. ASSUME NEW n \in S PROVE n + 1 \in S
  <2>1. n \in Nat
    OBVIOUS
  <2> SUFFICES ASSUME NEW c \in Bits, Len(c) = n + 1 PROVE Value(c) < Pow2[n + 1]
    BY <2>1
  <2> DEFINE d == Take(c, n)
  <2>2. n \in 0 .. Len(c) /\ Len(c) >= 1 /\ Len(c) - 1 = n
    BY <2>1
  <2>3. d \in Bits /\ Len(d) = n
    BY <2>2, TakeBits
  <2>4. Value(d) < Pow2[n]
    BY <2>3
  <2>5. Value(c) = 2 * Value(d) + c[Len(c)]
    BY <2>2, ValueIs
  <2>6. c[Len(c)] \in {0, 1}
    BY <2>2, ElementOfSeq, BitsLen DEF Bits, Bit
  <2>7. Value(d) \in Nat /\ Pow2[n] \in Nat /\ Pow2[n + 1] = 2 * Pow2[n]
    BY <2>1, <2>3, ValueIs, Pow2Is
  <2> HIDE DEF d
  <2> QED BY <2>4, <2>5, <2>6, <2>7
<1>3. S \subseteq Nat
  OBVIOUS
<1> HIDE DEF S
<1>4. S = Nat
  BY <1>1, <1>2, <1>3, NatIsClosure
<1>5. Len(b) \in Nat /\ Value(b) \in Nat /\ Pow2[Len(b)] \in Nat
  BY BitsLen, ValueIs, Pow2Positive
<1>6. Value(b) < Pow2[Len(b)]
  BY <1>4, <1>5 DEF S
<1> QED BY <1>5, <1>6

\* Zeros make zero.
LEMMA ValueZero ==
  ASSUME NEW b \in Bits, \A k \in 1 .. Len(b) : b[k] = 0
  PROVE  Value(b) = 0
<1>1. PICK v : /\ v \in [0 .. Len(b) -> Nat] /\ Value(b) = v[Len(b)] /\ v[0] = 0
               /\ \A k \in 1 .. Len(b) : v[k] = 2 * v[k - 1] + b[k]
  BY ValueTurns
<1> DEFINE S == {k \in Nat : k <= Len(b) => v[k] = 0}
<1>2. 0 \in S
  BY <1>1
<1>3. ASSUME NEW k \in S PROVE k + 1 \in S
  <2>1. k \in Nat /\ Len(b) \in Nat
    BY BitsLen
  <2> SUFFICES ASSUME k + 1 <= Len(b) PROVE v[k + 1] = 0
    BY <2>1
  <2>2. v[k] = 0 /\ k + 1 \in 1 .. Len(b) /\ (k + 1) - 1 = k
    BY <2>1
  <2>3. v[k + 1] = 2 * v[(k + 1) - 1] + b[k + 1] /\ b[k + 1] = 0
    BY <1>1, <2>2
  <2> QED BY <2>2, <2>3
<1>4. S \subseteq Nat
  OBVIOUS
<1> HIDE DEF S
<1>5. Len(b) \in S
  BY <1>2, <1>3, <1>4, BitsLen, NatIsClosure
<1>6. v[Len(b)] = 0
  BY <1>5, BitsLen DEF S
<1> QED BY <1>1, <1>6

\* The bits of a value are the bits it was made of, and so no two strings of
\* one length have the same.
LEMMA BitsOfValue ==
  ASSUME NEW b \in Bits
  PROVE  BitsOf(Value(b), Len(b)) = b
<1> DEFINE n == Len(b)
           c == BitsOf(Value(b), n)
<1>1. n \in Nat
  BY BitsLen
<1>2. ASSUME NEW k \in 1 .. n
      PROVE  (Value(b) \div Pow2[n - k]) % 2 = b[k] /\ b[k] \in Bit
  <2> DEFINE d == Take(b, k)
             x == Value(Take(d, k - 1))
             y == Value(Drop(b, k))
             p == Pow2[n - k]
  <2>1. /\ k \in 0 .. n /\ k - 1 \in 0 .. k /\ n - k \in Nat /\ k >= 1
        /\ k \in 1 .. k
    BY <1>1
  <2>2. d \in Bits /\ Len(d) = k /\ d[k] = b[k] /\ Take(d, k - 1) \in Bits
    <3>1. d \in Bits /\ Len(d) = k /\ d[k] = b[k]
      BY <2>1, TakeBits
    <3>2. k - 1 \in 0 .. Len(d)
      BY <2>1, <3>1
    <3> HIDE DEF d
    <3> QED BY <3>1, <3>2, TakeBits
  <2>3. Drop(b, k) \in Bits /\ Len(Drop(b, k)) = n - k
    BY <2>1, DropBits
  <2>4. Value(b) = Value(d) * p + y
    BY <2>1, ValueSplit
  <2>5. y \in 0 .. p - 1 /\ p \in Nat /\ p > 0
    <3>1. y \in 0 .. Pow2[Len(Drop(b, k))] - 1
      BY <2>3, ValueRange
    <3>2. p \in Nat /\ p >= 1
      BY <2>1, Pow2Positive
    <3> HIDE DEF y
    <3> QED BY <2>3, <3>1, <3>2
  <2>6. Value(d) = 2 * x + b[k]
    <3> HIDE DEF d
    <3> QED BY <2>1, <2>2, ValueIs
  <2>7. x \in Nat /\ Value(d) \in Int
    BY <2>2, ValueIs
  <2>8. b[k] \in 0 .. 2 - 1 /\ b[k] \in Bit
    BY <1>1, ElementOfSeq DEF Bits, Bit
  <2> HIDE DEF x, y, p, d
  <2>9. Value(b) \div p = Value(d)
    BY <2>4, <2>5, <2>7, DivModIs
  <2> DEFINE z == b[k]
  <2>10. z \in 0 .. 2 - 1 /\ x \in Int /\ x * 2 + z = 2 * x + z
    BY <2>7, <2>8
  <2> HIDE DEF z
  <2>11. (x * 2 + z) % 2 = z
    BY <2>10, DivModIs
  <2> QED BY <2>6, <2>8, <2>9, <2>10, <2>11 DEF p, z
<1>3. c \in [1 .. n -> Bit] /\ \A k \in 1 .. n : c[k] = b[k]
  BY <1>2 DEF BitsOf
<1> HIDE DEF c
<1>4. c \in Bits /\ Len(c) = n
  BY <1>1, <1>3, BitStringsIsBits DEF BitStrings
<1> QED BY <1>3, <1>4, BitsEqual DEF c

-----------------------------------------------------------------------------
-----------------------------------------------------------------------------
\* The bits of internal.
LEMMA StrideFacts ==
  /\ STRIDE \in Nat /\ STRIDE - 1 \in Nat
  /\ \A n \in 0 .. STRIDE : n \in Nat /\ STRIDE - n \in Nat /\ STRIDE - n \in 0 .. STRIDE
  /\ \A n \in Nat : Pow2[n] \in Nat
BY StrideAssumption, Pow2Positive

\* The rules of one length have positions of their own, below those of the
\* longer ones.
LEMMA PosRange ==
  ASSUME NEW c \in 0 .. STRIDE - 1, NEW b \in 0 .. Pow2[c] - 1
  PROVE  /\ count_inl_bitmap(b, c) \in Pow2[c] - 1 .. Pow2[c + 1] - 2
         /\ count_inl_bitmap(b, c) \in 0 .. Pow2[STRIDE] - 2
<1> DEFINE p == Pow2[c]
           q == Pow2[STRIDE]
           z == Pow2[c + 1]
<1>1. c \in Nat /\ c + 1 \in Nat /\ c + 1 <= STRIDE /\ STRIDE \in Nat
  BY StrideFacts
<1>2. p \in Nat /\ p >= 1 /\ z = 2 * p /\ q \in Nat
  BY <1>1, Pow2Is, Pow2Positive
<1>3. z <= q
  BY <1>1, Pow2Order
<1>4. b \in 0 .. p - 1
  OBVIOUS
<1> HIDE DEF p, q, z
<1>5. p + b - 1 \in p - 1 .. z - 2 /\ p + b - 1 \in 0 .. q - 2
  BY <1>2, <1>3, <1>4
<1> QED BY <1>5 DEF count_inl_bitmap, p, q, z

\* A longer rule has a higher position.
LEMMA PosOrder ==
  ASSUME NEW c \in 0 .. STRIDE - 1, NEW b \in 0 .. Pow2[c] - 1,
         NEW d \in 0 .. STRIDE - 1, NEW e \in 0 .. Pow2[d] - 1, c < d
  PROVE  count_inl_bitmap(b, c) < count_inl_bitmap(e, d)
<1> DEFINE x == count_inl_bitmap(b, c)
           y == count_inl_bitmap(e, d)
<1>1. x \in Pow2[c] - 1 .. Pow2[c + 1] - 2 /\ y \in Pow2[d] - 1 .. Pow2[d + 1] - 2
  BY PosRange
<1>2. c \in Nat /\ d \in Nat /\ c + 1 \in Nat /\ d + 1 \in Nat /\ c + 1 <= d
  OBVIOUS
<1>3. Pow2[c + 1] <= Pow2[d]
  BY <1>2, Pow2Order
<1>4. /\ Pow2[c] \in Nat /\ Pow2[d] \in Nat
      /\ Pow2[c + 1] \in Nat /\ Pow2[d + 1] \in Nat
  BY <1>2, Pow2Positive
<1> HIDE DEF x, y
<1>5. x < y
  BY <1>1, <1>3, <1>4
<1> QED BY <1>5 DEF x, y

=============================================================================
