----------------------------- MODULE AddressV6 -----------------------------
(***************************************************************************)
(* An IPv6 address as the code holds it: struct ip_v6, two words of WORD   *)
(* bits, and the two shifts of lib/bitmap_v6.c by which everything else    *)
(* reads it.                                                               *)
(*                                                                         *)
(* C leaves a shift of a word by its width or more undefined.  Where the   *)
(* code does that, a function here returns every outcome the build can     *)
(* produce: x86 takes the count modulo the width, a compiler that folds    *)
(* the shift makes it zero.                                                *)
(***************************************************************************)
EXTENDS Powers

CONSTANT WORD       \* bits of a word: 64

ASSUME WordAssumption == WORD \in Nat \ {0}

Word == 0 .. Pow2[WORD] - 1
ip_v6 == [iphi : Word, iplo : Word]

\* Mutant: bits shifted out at the top are kept.
ShiftLeftWordUnbounded(x, n) == {x * Pow2[n]}

\* x >> n and x << n on one word: the set of outcomes.
ShiftRightWord(x, n) ==
  IF n < WORD THEN {x \div Pow2[n]} ELSE {x \div Pow2[n % WORD], 0}

ShiftLeftWord(x, n) ==
  LET Shifted(k) == (x * Pow2[k]) % Pow2[WORD]
  IN  IF n < WORD THEN {Shifted(n)} ELSE {Shifted(n % WORD), 0}

\* Mutant: the bits that cross from the low word to the high one are lost.
lshift_ipv6_without_head(ip, bits) ==
  IF bits < WORD
  THEN {[iphi |-> hi, iplo |-> lo] : hi \in ShiftLeftWord(ip.iphi, bits),
                                     lo \in ShiftLeftWord(ip.iplo, bits)}
  ELSE {[iphi |-> head, iplo |-> 0] :
          head \in ShiftLeftWord(ip.iplo, bits - WORD)}

\* lshift_ipv6, for 1 to 2 * WORD - 1 bits.  The bits `head' that move up come
\* where the shift has left zeros, so that |= is a sum.
lshift_ipv6(ip, bits) ==
  IF bits < WORD
  THEN {[iphi |-> hi + head, iplo |-> lo] :
          head \in ShiftRightWord(ip.iplo, WORD - bits),
          hi   \in ShiftLeftWord(ip.iphi, bits),
          lo   \in ShiftLeftWord(ip.iplo, bits)}
  ELSE {[iphi |-> head, iplo |-> 0] :
          head \in ShiftLeftWord(ip.iplo, bits - WORD)}

\* Mutant: the bits that move down are shifted by the wrong amount.
rshift_ipv6_tail_by_bits(ip, bits) ==
  IF bits < WORD
  THEN {[iphi |-> hi, iplo |-> lo + tail] :
          tail \in ShiftLeftWord(ip.iphi, bits),
          hi   \in ShiftRightWord(ip.iphi, bits),
          lo   \in ShiftRightWord(ip.iplo, bits)}
  ELSE {[iphi |-> 0, iplo |-> tail] :
          tail \in ShiftRightWord(ip.iphi, bits - WORD)}

\* rshift_ipv6.  Callers shift by as much as 2 * WORD, for a prefix of length 0.
rshift_ipv6(ip, bits) ==
  IF bits < WORD
  THEN {[iphi |-> hi, iplo |-> lo + tail] :
          tail \in ShiftLeftWord(ip.iphi, WORD - bits),
          hi   \in ShiftRightWord(ip.iphi, bits),
          lo   \in ShiftRightWord(ip.iplo, bits)}
  ELSE {[iphi |-> 0, iplo |-> tail] :
          tail \in ShiftRightWord(ip.iphi, bits - WORD)}

-----------------------------------------------------------------------------
\* The address whose leading bits are b, all others being zero.
WordsOf(b) ==
  LET At(k) == IF k <= Len(b) THEN b[k] ELSE 0
  IN  [iphi |-> Value([k \in 1 .. WORD |-> At(k)]),
       iplo |-> Value([k \in 1 .. WORD |-> At(k + WORD)])]

=============================================================================
