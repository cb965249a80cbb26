----------------------------- MODULE NodeReader -----------------------------
(***************************************************************************)
(* One node, the thread that changes its rules and a thread that looks up. *)
(*                                                                         *)
(* Lookups are written for several threads (lazy_mark is __thread), and    *)
(* each rebuild of a block carries the comment "need to be atomic".  Here  *)
(* extend_rule and reduce_rule take one step per store that a lookup can   *)
(* see, in the order of the program, and bitmap_do_search one per load.    *)
(* Stores that become visible in another order are left out.               *)
(***************************************************************************)
EXTENDS NodeBlock

CONSTANTS
  Pos,       \* bits of internal: 0 .. 62
  NHI,       \* next hop pointers
  Block      \* names of the blocks the allocator hands out

VARIABLES
  internal, child_ptr,   \* the node
  heap,                  \* the blocks in use
  wpc, new,              \* the writer: where it is, and its `n'
  rpc, pos, longest      \* the reader: where it is, the rule, the pointer to it

vars == <<internal, child_ptr, heap, wpc, new, rpc, pos, longest>>
writer == <<internal, child_ptr, heap, wpc, new>>
reader == <<rpc, pos, longest>>

Init ==
  /\ internal = {}
  /\ child_ptr = NULL
  /\ heap = [b \in {} |-> NewBlock(0, 0)]
  /\ wpc = "idle" /\ new = NULL
  /\ rpc = "idle" /\ pos = NULL /\ longest = NULL

Rules == Cardinality(internal)
Old == IF child_ptr = NULL THEN NewBlock(0, 0) ELSE heap[child_ptr]

-----------------------------------------------------------------------------
\* update_inl_bitmap of extend_rule, clear_bitmap of reduce_rule; and the new
\* block, which no lookup can see yet, with the copies of the rules.
WriteBitmap(p, nhi) ==
  /\ wpc = "idle"
  /\ \E b \in Block \ DOMAIN heap :
       /\ new' = b
       /\ \/ /\ p \notin internal
             /\ internal' = internal \cup {p}
             /\ heap' = [c \in DOMAIN heap \cup {b} |-> IF c # b THEN heap[c]
                  ELSE RulesWith(NewBlock(0, Rules + 1), Old, Rules,
                                 CountOnes(internal', p) + 1, nhi)]
          \/ /\ p \in internal
             /\ internal' = internal \ {p}
             /\ heap' = [c \in DOMAIN heap \cup {b} |-> IF c # b THEN heap[c]
                  ELSE RulesWithout(NewBlock(0, Rules - 1), Old, Rules,
                                    CountOnes(internal, p) + 1)]
  /\ wpc' = "free"
  /\ UNCHANGED <<child_ptr, reader>>

\* free_node of the old block.
FreeOld ==
  /\ wpc = "free"
  /\ heap' = [b \in DOMAIN heap \ {child_ptr} |-> heap[b]]
  /\ wpc' = "publish"
  /\ UNCHANGED <<internal, child_ptr, new, reader>>

\* node->child_ptr = n
Publish ==
  /\ wpc = "publish"
  /\ child_ptr' = new
  /\ new' = NULL
  /\ wpc' = "idle"
  /\ UNCHANGED <<internal, heap, reader>>

-----------------------------------------------------------------------------
\* tree_function(n->internal, stride) finds a rule.
ReadBitmap ==
  /\ rpc = "idle"
  /\ pos' \in internal
  /\ rpc' = "locate"
  /\ UNCHANGED <<writer, longest>>

\* pointer_to_nhi(n, pos): the block, and the word in it.
ReadChildPtr ==
  /\ rpc = "locate"
  /\ longest' = <<child_ptr, CountOnes(internal, pos) + 1>>
  /\ rpc' = "load"
  /\ UNCHANGED <<writer, pos>>

\* *longest
ReadNhi ==
  /\ rpc = "load"
  /\ rpc' = "idle"
  /\ pos' = NULL
  /\ longest' = NULL
  /\ UNCHANGED writer

Next ==
  \/ \E p \in Pos, nhi \in NHI : WriteBitmap(p, nhi)
  \/ FreeOld
  \/ Publish
  \/ ReadBitmap
  \/ ReadChildPtr
  \/ ReadNhi

Spec == Init /\ [][Next]_vars

-----------------------------------------------------------------------------
\* "need to be atomic" (lib/mb_node.c:132 and :320): a lookup finds either the
\* block of before the update or the one of after it, both with the next hops
\* the bitmap tells.  What it loads is a next hop, in a block in use.
LookupLoadsNhi ==
  rpc = "load" =>
    /\ longest[1] \in DOMAIN heap
    /\ longest[2] \in DOMAIN heap[longest[1]].rule
    /\ heap[longest[1]].rule[longest[2]] \in NHI

=============================================================================
