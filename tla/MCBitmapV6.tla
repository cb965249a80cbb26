----------------------------- MODULE MCBitmapV6 -----------------------------
(***************************************************************************)
(* A small instance of BitmapV6 for TLC: words of four bits.               *)
(***************************************************************************)
EXTENDS BitmapV6

\* The rule of length 0; prefixes that end inside a node and with a stride,
\* with bits in one word and across both, up to the whole length.  The zeros
\* behind <<1,0>> lead to a child.
WordInputs ==
  {<<>>, <<1,0>>, <<1,0,0>>, <<1,0,0,1,0,1>>, <<1,0,0,1,0,1,1,1>>}

\* Addresses that leave the longest path at each of its nodes, one beside it,
\* and one whose bits are all set.
WordKeys ==
  {<<1,0,0,1,0,1,1,1>>, <<1,0,0,1,0,1,0,1>>, <<1,0,0,1,1,1,0,0>>,
   <<0,1,0,1,0,1,0,1>>, <<1,1,1,1,1,1,1,1>>}

=============================================================================
