----------------------------- MODULE MCBitmapV4 -----------------------------
(***************************************************************************)
(* Small instances of BitmapV4 for TLC.                                    *)
(***************************************************************************)
EXTENDS BitmapV4

\* Rules in the root, in a child on either side and two nodes down; the nodes
\* between them can be without rules, and there is the rule of length 0.
DeepInputs == {<<>>, <<0>>, <<0,1>>, <<0,1,1,0,0>>, <<1,0,0>>}

\* An address that ends in the deepest node, one that leaves its path half way,
\* one on the other side.
DeepKeys == {<<0,1,1,0,0>>, <<0,1,1,1,0>>, <<1,0,1,0,1>>}

=============================================================================
