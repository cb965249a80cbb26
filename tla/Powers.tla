------------------------------- MODULE Powers -------------------------------
(***************************************************************************)
(* Powers of two, which the code writes as shifts of 1, and the numbers    *)
(* that strings of bits stand for, the most significant bit first.         *)
(***************************************************************************)
EXTENDS Integers, Sequences

\* 1 << n
Pow2[n \in Nat] == IF n = 0 THEN 1 ELSE 2 * Pow2[n - 1]

\* The value of a bit string, and the string of n bits that has a value.
Value(b) ==
  LET v[k \in 0 .. Len(b)] == IF k = 0 THEN 0 ELSE 2 * v[k - 1] + b[k]
  IN  v[Len(b)]

BitsOf(x, n) == [k \in 1 .. n |-> (x \div Pow2[n - k]) % 2]

=============================================================================
