------------------------------- MODULE MCTbm -------------------------------
(***************************************************************************)
(* Small instances of Tbm for TLC, with the updates of TbmV6 beside them.  *)
(***************************************************************************)
EXTENDS TbmV6, TLC

CONSTANT MaxRoutes      \* bound on the routes a table holds

\* One entry (010) with nested short prefixes above it, long ones in three
\* levels of its trie, and its neighbour 011 below the same short ones.
NestedInputs ==
  {<<0>>, <<0,1>>, <<0,1,0>>, <<0,1,1>>,
   <<0,1,0,0>>, <<0,1,0,1>>, <<0,1,1,0>>, <<0,1,0,1,0>>,
   <<0,1,0,0,1>>, <<0,1,0,0,1,1>>}

\* Batches of up to three, of addresses below 010 that differ in the depth of
\* their longest match, and one below 011.
NestedBatches ==
  UNION {[1 .. cnt -> {<<0,1,0,0,1,1>>, <<0,1,0,1,0,0>>, <<0,1,1,0,0,0>>}] :
           cnt \in 0 .. 3}

\* State constraint: the table never outgrows MaxRoutes.
FewRoutes == Cardinality(DOMAIN Routes) <= MaxRoutes

NhiSymmetry == Permutations(NHI)

=============================================================================
