-------------------------------- MODULE Trie --------------------------------
(***************************************************************************)
(* A multi-bit trie as its callers see it: the value that the operators of *)
(* BitmapTrie compute, one call a step.  TrieHeap is shown to implement    *)
(* this specification with nodes in memory blocks and loops over them.     *)
(***************************************************************************)
EXTENDS BitmapTrie

CONSTANT Inputs     \* the prefixes callers insert

VARIABLE trie

Init == trie = EmptyTrie

Insert(p, nhi) == trie' = InsertPrefix(trie, p, nhi)

\* For a prefix that bitmap_prefix_exist has found.
Delete(p) ==
  /\ PrefixExist(trie, p)
  /\ trie' = DeletePrefix(trie, p).trie

Destroy == trie' = EmptyTrie

Next ==
  \/ \E p \in Inputs, nhi \in NHI : Insert(p, nhi)
  \/ \E p \in Inputs : Delete(p)
  \/ Destroy

Spec == Init /\ [][Next]_trie

=============================================================================
