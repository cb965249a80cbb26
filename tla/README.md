# Verification of prefix_lookup_mc

This directory holds TLA+ models of the IP lookup engine in `src/`, the TLC
configurations that check them on small instances, and TLAPS proofs about them
for instances of every size. Paths and line numbers below are relative to
`src/`.

The engine forwards packets by longest prefix match. A **route** is a prefix
(`ip`, `cidr`) with a pointer to the caller's next hop. The table is a Tree
Bitmap: a trie whose nodes each consume STRIDE = 6 address bits and are
described by two 64-bit bitmaps, below an initial array indexed by the first 13
bits of the address. What makes it fast also makes it delicate: the memory of a
node has no index of its own beside the bitmaps, a short route is copied to
thousands of entries of the array, and a union saves one word per entry. A
lookup is only right if every update has kept all of these consistent, in every
order in which routes can come and go. This is what the project checks.

## The system

| part | code | state | operations | status |
|---|---|---|---|---|
| IPv4 table | `tbm/tbmv4.c`, `tbm/tbm.h` | `init`: 2^13 entries (`prefix_hi` and `INIT_HAS_A_CHILD` in `flags`, a union of next hop and trie node); `up_aux`: a trie of all routes | init, insert, delete, destroy, search, batch search, prefix_exist | modelled |
| trie operations, IPv4 | `lib/bitmap_v4.c`, `lib/bitmap.c` | a root node; two static arrays per thread, `lazy_mark` | insert, delete (`update_nodes`), destroy, three searches, prefix_exist, overlap detection | modelled |
| multi-bit node | `lib/mb_node.c`, `lib/mb_node.h` | `internal`, `external`, `child_ptr` and the block it points into | `extend_rule`, `extend_child`, `reduce_rule`, `reduce_child`, `destroy_subtrie`, overwriting in place | modelled |
| search inside a node | `lib/mb_node.c:334-407` | the masks `fct` made at start-up | `tree_function` (two builds), `find_overlap_in_node` | modelled |
| IPv6 table | `tbm/tbmv6.c` | as IPv4 | as IPv4, with shifts of a 128-bit struct; a search and a destroy of its own | modelled |
| trie operations, IPv6 | `lib/bitmap_v6.c` | as IPv4; addresses of two 64-bit words | as IPv4, without batches | modelled |
| allocator interface | `lib/mm.c` | registry of allocators, statistics `ms` | `mm_init`, `alloc_node`, `dealloc_node`, `mm_profile`, `mm_uinit` | partly |
| cache colouring allocator | `lib/mm_color.c` | areas, free lists, page colours | `mc_init`, `mc_alloc_node`, `mc_dealloc_node`, `mc_uinit` | partly |
| compressed next hops | `lib/mb_node.c` under `COMPRESS_NHI` | | | compiled out (`lib/mb_node.h:23`) |
| lists, tests, data, build | `lib/list.h`, `lib/test.c`, `tbm/test.c`, ... | | | not modelled: vendored, drivers, scripts |

**Interaction.** The table calls the trie operations on the node of one entry
and, for every update, on `up_aux`. Before a delete it asks `up_aux` for the
longest shorter route (`bitmap_detect_overlap_generic`), and puts that one in
the place of the deleted route. The trie operations call the node operations on
each node of a path; each of these allocates a block, copies, and frees the old
block with an address and a size computed from the bitmaps. The caller is called
back through `destroy_nhi` when one of its next hops leaves the table.

**What is hard here.** Updates and lookups are sequential: there are no locks
between them, and only lookups have state per thread (`lazy_mark` is
`__thread`), so that threads may look up at the same time, but not during an
update. The comments "need to be atomic"
(`lib/mb_node.c:132`, `:182`, `:236`, `:320`) say that concurrent readers were
thought of and not provided for (finding 5). So the hard behaviours are

- long sequences of legal updates: what an entry held before a short route
  covered it has to come back when that route goes, and only `up_aux` knows it;
- memory that two things share (the union of an entry) and copies that must
  agree (an entry, its trie, `up_aux`; `ms.node` and the blocks);
- lifetimes: a next hop in up to 2^12 entries is destroyed once and must not
  stay behind in any of them;
- state that outlives a call (`lazy_mark` is static and never cleared);
- pointers to nodes kept across turns of a loop, while every turn moves nodes
  to another block;
- an allocator whose areas are placed without looking at one another, and that
  is told the size of a block by whoever frees it;
- an address that is shifted in two halves, in place, by counts C leaves
  undefined at the ends of the range;
- loops that end only when all elements of a batch have arrived;
- positions and sizes computed from bitmaps before and after they change.

`PROJECT.json` lists each of these as a hazard, at its line, with the property
that covers it or the reason why none does yet.

## The modules

```
Prefixes ── RouteTable                     what is promised of a table
   └── BitmapTrie                          one trie, as a value
          ├── Tbm ── MCTbm                 the IPv4 table
          │    └── TbmV6 ── MCTbmV6        where IPv6 differs
          ├── Trie                         what is promised of a trie in memory
          ├── TrieHeap ── MCTrieHeap       the trie in memory blocks, turn by turn
          ├── BitmapV4 ── MCBitmapV4       the IPv4 searches, turn by turn
          └── BitmapV6 ── MCBitmapV6       the IPv6 functions, turn by turn
                 └── AddressV6             an address in two words, its shifts
NodeBlock ── MbNode ── MCMbNode            one node and its block
     │  └── NodeReader                     one node and a second thread
     └── (TrieHeap, an instance)
Powers ── NodeBits ── NodeSearch           inside a node
   │         └── BitmapTrie
   └── AddressV6
MmColor ── MCMmColor                       the colouring allocator
TrieProofs ── TbmProofs                    of Tbm and TbmV6
     ├── TrieHeapProofs
     ├── BitmapV4Proofs
     ├── BitmapV6Proofs
     └── NodeSearchProofs
MbNode ── MbNodeProofs
MmColor ── MmColorProofs
```

- **Prefixes.** Addresses and prefixes as sequences of bits, most significant
  first. The code demands that the bits below `cidr` are zero
  (`tbm/tbmv4.c:55-61`), so (`ip`, `cidr`) and the sequence of the `cidr`
  leading bits determine each other. `LongestMatch` is the reference every
  search is held to.
- **RouteTable.** The abstract specification: `routes`, and the forwarding
  decision `fib` for every address. Every step changes `routes` and makes `fib`
  the longest match of it.
- **BitmapTrie.** The trie operations as operators on a value `[inl, enl]`: the
  rules with their next hops, and the nodes below the root. A node is named by
  the bits that lead to it. `Reached` is the walk along `external`, so a rule
  that is cut off is not found; `NeedToDel` is the walk of `update_nodes` back up,
  node by node as long as each empties.
- **Tbm.** One action per public operation: `InitTrie`, `Insert`, `Delete`,
  `Destroy`; the lookups are operators. An entry is a record `[hi, child, ptr,
  node]`: the two parts of `flags` and the two members of the union. The union
  is kept honest by `SetPtr` and `NodeIn`: a pointer left in it reads as a bitmap
  full of children. `calls` counts the calls of `destroy_nhi` that the last
  operation made. `ExpandInto`, `PushDown`, `InsertBelow`, `Uncover` and
  `DeleteBelow` are the bodies of the loops and branches of
  `tbm_insert_prefix` and `tbm_delete_prefix`. The turns of one loop touch
  different entries, so that the loop is one function of the array; only the call
  of `destroy_nhi` depends on the order, and `DestroyShort` picks the lowest entry
  that is not skipped.
- **TbmV6.** The functions of `tbm/tbmv6.c`, which cut the index of an entry and
  the rest of a prefix from copies of a 128-bit address. `InsertV6` and `DeleteV6`
  have the shifts (`Index`, `Expanded`, `Rest`) in the places where `Insert` and
  `Delete` of Tbm have slots and rests of prefixes, and share the bodies of the
  loops; TbmProofs shows that they are the same actions. `UpdatesAreV6Updates` says that they are the same,
  and `tbm_nested` checks it. Different are the search, which shifts an address it
  has already shifted (`tbm/tbmv6.c:302-316`), and the destroy, which takes every
  entry with a flag for a node (finding 3). What comes of a next hop taken for
  a node is undefined. The model has the outcomes in which the function returns
  and the table is gone (`DestroyV6`), or the process has ended and takes no
  further step.
- **AddressV6.** `struct ip_v6` as two words, and `lshift_ipv6` and
  `rshift_ipv6` on them. A shift of a word by its width or more is undefined in
  C, so that the functions return sets: what a build can produce (x86 counts
  modulo the width; a compiler may fold it to zero).
- **BitmapV6.** One action for a turn of each loop of `lib/bitmap_v6.c`. The only
  thing that tells which child is taken or which rule is meant is what the
  shifts make of the two words. `lazy_mark` persists from call to call.
- **BitmapV4.** One trie with its three lookups as loops: a step is one turn,
  `lazy_mark` persists from call to call, and updates come between calls. The
  batch follows the code's rounds: an element that has arrived goes on taking
  turns, and the loop ends where a round begins with all arrived.
- **NodeBlock.** A block as the code lays it out: next hops counted down from
  `child_ptr`, children counted up, its size in units of a node, and the copies
  of a rebuild: the `memcpy`s of the code, index by index.
- **MbNode.** One node, with its block. `rules` and `kids` are history
  variables: what was last stored for each bit. A free with an address that is no
  block's start frees nothing, so a wrong address shows as a block left over.
- **Trie.** The abstract specification of a trie in memory: one step per call,
  on the value of BitmapTrie.
- **TrieHeap.** The root and the blocks, and in each block the nodes below. A
  pointer to a node is a block and an index in it, and is no longer valid when
  that block is freed. `node`, `trace_node` and the frames of
  `destroy_subtrie` are such pointers, kept across turns of the loops;
  each turn is an action. `op` is the allocator that `mm_init` found:
  `calloc(0)` returns a block of size 0, `mc_alloc_node(0)` returns NULL, and so
  the nodes below come to have a NULL `child_ptr` or not. `lnode` are the
  statistics per level. Which free block an allocator hands out is of no
  consequence to the code; a block is named here by the path it is allocated for
  and a number, and `Copies` bounds how many of one path are in use at a time.
- **MmColor.** A share of the cache has a list of areas and a free list for each
  number of nodes. The colour of the first page of each huge page is arbitrary,
  which covers what `/proc/self/pagemap` may say, and that `addr_pfn` may
  fail (then `pfnbuf` is as `malloc` returned it). `MEMORY_SIZE` bytes are mapped,
  and `lma_init` does not look at that: an area may come to lie past them. There
  reading `pfnbuf`, past its end, gives any colour, and clearing a block
  (`HandOut`) either ends the process (`status`) or overwrites whatever else is mapped
  there, and the caller gets the block all the same. Where no area has room and
  `malloc` gives no descriptor for another, a request returns NULL (`AllocFails`);
  where a free finds no descriptor, `mc_dealloc_node` exits (`DeallocFails`). `used` are the
  blocks callers hold; they may give a block back with too small a size, because
  `destroy_subtrie` does (finding 4).
- **NodeReader.** A node with rules, a thread that runs `extend_rule` or
  `reduce_rule` with one step per store that another thread can see, and
  a thread that looks up with one step per load.
- **Powers**, **NodeBits.** Shifts of 1, the numbers that strings of bits stand
  for, and the bit of `internal` that a rule has (`count_inl_bitmap`).
- **NodeSearch.** `internal` as a set of bit positions, with both builds of
  `tree_function` and `find_overlap_in_node` in the arithmetic of the code. The
  fast `tree_function` takes the highest bit with `__builtin_clzll`
  (`lib/mb_node.c:361-362`), whatever the width of a bitmap: that is the highest
  bit in the 64-bit build (STRIDE 6), which is modelled here, and not in the one with
  32-bit bitmaps (STRIDE 5), which is out of scope.

What a caller may do follows the code's own demands. A prefix to be deleted is
in the table (`tbm_delete_prefix` requires it; the tests ask `tbm_prefix_exist`
first). The table refuses `cidr == 0`, for insertion and
deletion; a trie used by itself accepts it. With `DestroyNhi`
a caller hands its next hops over, and so stores each of them once.

## The runs

| run | question | bounds |
|---|---|---|
| `tbm_nested` | Do lookups, batches, entries, tries and destroyed next hops stay right in every order of updates of nested routes, does the table implement `RouteTable`, and are its updates those of IPv6? | LENGTH 6, INITIAL_BITS 3, STRIDE 2; 10 prefixes around one entry, at most 5 at a time, 5 next hops (symmetric), DestroyNhi |
| `bitmap_v4` | Do all three searches answer with the longest match and return, with what earlier calls left in `lazy_mark`? | LENGTH 5, STRIDE 2 (the last node is partial, as 32 = 5·6 + 2); 5 rules, 3 addresses, batches of up to 2 |
| `mb_node` | Does every rebuild of a block keep each next hop and child, free the block it replaces, and count right? | 6-bit bitmaps, 3 words per node; at most 4 rules, 3 children, 2 blocks |
| `node_search` | Do both builds of `tree_function` and `find_overlap_in_node` find the longest rule? | all 128 sets of rules of a 3-bit node, all strides, all limits |
| `bitmap_v6` | Do the shifts of two halves keep every walk on its path, and does each function answer, update and return as it should? | LENGTH 8 in two words of 4, STRIDE 3; 5 rules, 5 addresses, 2 next hops |
| `trie_heap` | Do pointers survive the rebuilds, has every block one owner, and does each operation come to what BitmapTrie says? | LENGTH 4, STRIDE 2 (three levels), 2 words per node; 5 prefixes, 2 next hops (symmetric), both allocators, 3 blocks per path |
| `mm_color` | Are blocks disjoint, areas coloured and disjoint, and is the memory used up before it is left behind? | pages of 5 bytes, nodes of 2, 4 colours, 2 huge pages of 8 pages in every colouring, shares of 1, 2 and 1 pages; blocks of 1 and 2 nodes |
| `tbm_covered`, `tbm_v6`, `tbm_v6_destroy`, `mb_node_total`, `node_reader` | the findings below | as the runs above |

**Why the bounds are enough to mean something.** `tbm_nested` has three short
routes nested over one entry, a neighbour entry under the same routes, and long
routes in the root of the entry's trie, in its child, and at the boundary of a
stride (where a prefix ends at depth 0 of the next node). Each case of the code
occurs: an entry with a longer route that a loop skips, a next hop pushed into
a trie, a short route deleted with and without another one under it, a trie that
empties and one that keeps the rule of length 0. Five routes are more than any
single operation looks at. The bound on routes is a state constraint
(`FewRoutes`).
`bitmap_v4` has a node without rules between two that have some, which is what
makes the way back up take more than one turn. `mb_node` needs four rules for
the rules to cross a unit of three (`NODE_SIZE` / pointer size) and three
children to add or remove one between two others. Two blocks are all the code
ever has at a time: the new one and the one it frees. `MaxUncounted` bounds the
nodes by which the statistics drift (a finding).

`bitmap_v6` has a word that is no multiple of the stride, as 64 = 10·6 + 4, and a
last node of two bits, as 128 = 21·6 + 2: bits of one stride come from both
words, and shifts occur by less than a word, a word, and more. One of its
rules ends at a stride, so that the shift by the whole length happens; the
longest is as long as the address. `ShiftsAreExact` tries every count on every
address that a walk leaves. `trie_heap` has two words to a node where the code
has three, so that two rules more already make a block larger; its five prefixes
put two rules in the root and two in a node below it, and a node under that and
one beside it, so that
children are moved and unlinked one and two at a time. Three blocks per path are
the old and the new one and one of size 0 that has been lost (`MaxLost`);
`MaxUncounted` is as in `mb_node`. `mm_color` has pages whose size
is no multiple of a node's (4096 = 170·24 + 16), so that areas end with a
rest; room for as many blocks as fill two areas of the large share, so that its
third area is placed in the next huge page, at any shift of colours; and up to five
areas in all. The two huge pages have one area each for that share at least, so
that its areas come to lie past the memory and its requests end the process. `MaxBlocks` bounds the blocks once any has been freed. Its
assumptions on the constants hold for the numbers of the code.

The `SYMMETRY` declarations
are used only in runs without liveness properties, and permute values the
definitions only compare.

**Properties.** Besides a type invariant in each module:

- `LookupIsLongestMatch`, `BatchMatchesSearch`, `AnswersAreLongestMatch`,
  `TreeFunctionIsLongestMatch`, `OverlapInNodeIsLongest`,
  `OverlapIsLongestShorter`: answers against the reference;
- `EntryHoldsBestShort`, `EntryMirrorsLong`, `EntryDiscipline`,
  `TriesArePruned`: the entries, their tries and `up_aux`
  against each other;
- `NoDestroyedNhiIsStored`, `DestroyedOnce`: lifetimes of next hops;
- `EmptiedEntryIsUncovered`: the fallback of `tbm/tbmv4.c:291-295` is never
  needed, because the rule of length 0 keeps the trie from emptying. No unit
  test can show that a branch is dead;
- `MarksAreFresh`: a search reads back from `lazy_mark` only what it has
  itself noted, and stays within the array;
- `LookupsReturn`: the loops end;
- `RulesInPlace`, `KidsInPlace`, `BlockFitsBitmaps`, `RebuildKeepsCount`: the
  block of a node, which is the only one in use;
- `WalkIsOnPath`: every pointer an operation keeps across turns is the one the
  trie has to that node now; `BlocksAreOwned`: every block is the block of one
  node and of its shape, also between turns. The one leak it admits is that of
  blocks of size 0 with `calloc`; `StatisticsFollowMemory`: a
  level's count changes by what its nodes gain and lose;
- `ShiftsAreExact`, `WalkFollowsArgument`: the shifts of two halves are shifts
  of the address, and every walk is on the path of its argument;
  `ReturnsAreRight`, `UpdatesItsRule`, `CallsReturn`: what the IPv6 functions
  return and change, and that they return;
- `UpdatesAreV6Updates`: the two tables cut the same index and rest from a prefix,
  in every branch of insertion and deletion;
- `BlocksAreDisjoint`, `AreasAreWellPlaced`, `MemoryIsUsedUp`: the colouring
  allocator. The code never checks whether memory is left, so that it cannot
  promise a block for every request. `MemoryIsUsedUp` is what it does keep:
  an area is added only when the others have no room, the request that it was
  added for gets its block from it, and before the process faults a share has had an
  area in each of the places that the huge pages are sure to have for it (16 of
  them with 63 each, by the numbers of the code);
- `ImplementsRouteTable`, `ImplementsTrie`: the refinements.

Each has a mutant: a definition changed the way a plausible bug would change
it, kept beside the original under the comment "Mutant", under which TLC finds
the property violated.

**Fairness.** `BitmapV4` has `WF_vars(Step)` and `BitmapV6` has `WF_vars(Turn)`:
the next turn of a loop that the caller's own thread is executing. Nothing it
waits for is done by anyone else, so it is taken. No update or new call is
assumed to happen. All other modules state safety properties only.

**Deadlock** is checked in all runs but `mm_color`, where the process may end, by a
fault or by `exit`: elsewhere some operation is always possible.

## What the runs found

1. `tbm_covered`: deleting a short route whose entries all hold longer routes
   skips every entry and never calls `destroy_nhi`, and `up_aux` is deleted
   from with NULL. The next hop is lost to its owner. (`tbm/tbmv4.c:212`,
   against the comments "we only delete the nhi once !!!!!" in line 238.)
2. `tbm_v6`: `tbmv6_search` shifts its copy of the address right to index the
   table and then shifts the result, not the address, left for the trie: routes
   longer than the index are not found. (`tbm/tbmv6.c:306`)
3. `tbm_v6_destroy`: `tbmv6_destroy_trie` skips only entries with `flags == 0` and
   hands every other to `destroy_subtrie` as a node, also one that holds a
   next hop alone, whose pointer is then read as a bitmap of children. So no table with a
   short route can be destroyed safely. `tbm_destroy_trie` tests for
   `INIT_HAS_A_CHILD`. (`tbm/tbmv6.c:338`, against `tbm/tbmv4.c:368` and the comment
   "it could be a child node and a ptr node or an empty node", `tbm/tbmv6.c:56`)
4. `mb_node_total`: `destroy_subtrie` zeroes `external` before it counts the
   children for the size it frees, so `ms.node` keeps them for ever.
   (`lib/mb_node.c:462`)
5. `node_reader`: `extend_rule` and `reduce_rule` change the bitmap, free the old
   block and only then store `child_ptr`, where a comment says "need to be
   atomic". A lookup of another thread in between takes a position from the new
   bitmap in the old block, or loads from a block that is freed. Only
   the program order of the stores is modelled; a real machine may add to it.
   (`lib/mb_node.c:134`)

Overlap detection does not report a rule of length 0, because its mask 0 also
says "none" (`lib/bitmap_v4.c:355`; the comment in lines 302-303 has no such
exception). No table is affected, as none stores one in `up_aux`;
`OverlapIsLongestShorter` speaks of the longer ones.

## What is proved

`tlapm` checks eight modules of proofs to the last leaf. The constants are
arbitrary, under the assumptions the modules name, each of which the numbers of
the code satisfy:

| proofs | about | assumptions |
|---|---|---|
| `TrieProofs` | Powers, Prefixes, BitmapTrie | addresses have at least one bit and a stride at least one (`LengthAssumption`, `StrideAssumption`); NULL is no next hop and no rule (`NullAssumption`, `RuleAssumption`) |
| `TbmProofs` | Tbm, TbmV6 | also `0 < INITIAL_BITS < LENGTH`, NULL is no next hop, callers insert non-empty prefixes of at most LENGTH bits (`InputsAssumption`) and pass lists of addresses (`BatchesAssumption`), `DestroyNhi` is a Boolean |
| `TrieHeapProofs` | TrieHeap, NodeBlock | those of TrieProofs; a node has at least one word (`HeapWordsAssumption`); blocks of one path are told apart by numbers (`CopiesAssumption`), and NULL is none of them (`NullPointerAssumption`); callers insert prefixes of at most LENGTH bits (`HeapInputsAssumption`) |
| `BitmapV4Proofs` | BitmapV4 | callers insert prefixes and look up addresses; a batch has at least one element |
| `BitmapV6Proofs` | BitmapV6, AddressV6 | callers insert prefixes and look up addresses; an address is two words (`LengthV6Assumption`); a stride has at most 8 bits and fits a word (`StrideV6Assumption`) |
| `NodeSearchProofs` | NodeSearch | those of TrieProofs, of which it needs only that a stride has at least one bit (`StrideAssumption`) |
| `MbNodeProofs` | MbNode | a bitmap has at least one bit, a node at least one word; NULL is no next hop and no block; there is an empty child |
| `MmColorProofs` | MmColor | the pages of the shares add up to the colours, a huge page is a multiple of a colour period, and at least two of them; the largest request is smaller than an area |

Nothing bounds the number of routes, of blocks or of areas.

- **TrieProofs**: first numbers: quotients and remainders, `Max` of a bounded set,
  powers of two, and two tools that the library does not offer in a form the
  provers can use: induction on a set of numbers (`NatIsClosure`), and that a
  function defined by recursion exists (`RecursionOnNat`). Then `Take`, `Drop` and concatenation of bit strings: a prefix is
  determined by its length and its bits. And tries: one is `Trim` when its nodes are exactly those on the way
  to a rule. Insertion and deletion keep it trim (`InsertKeepsTrim`,
  `DeleteKeepsTrim`; the latter says that `update_nodes` unlinks every node that
  empties and no other), and on a trim trie the walk is never cut short, so
  that `bitmap_do_search` is the longest match (`SearchIsLongestMatch`) and
  `bitmap_prefix_exist` is membership (`ExistIsRule`). Then walks, for every
  function that walks: where a node is on the path of an address (`OnPath`), what
  is known of the rules on it (`FoundIn`), and how a turn adds to that.
- **TbmProofs**: all the properties of the table that hold, and the refinement.
  For IPv6, `V6ImplementsTbm`: every behaviour of the IPv6 table is one of Tbm;
  so `V6TableHolds`. `UpdatesAgree` adds the other direction: the updates of either
  table are those of the other (`UpdatesAreV6Updates`). The lemmas say what the shifts cut
  from the address of a prefix: `Index` is the slot, `Rest` is the rest of the prefix,
  `Expanded` are the entries the prefix covers. The lookup of IPv6 is not part
  of it: it is wrong (finding 2). The shifts here are those of one word of 128
  bits; that two halves amount to the same is `ShiftsExact` in BitmapV6Proofs.
- **TrieHeapProofs**: all the properties of `trie_heap`, and its refinement.
- **BitmapV4Proofs**: all the safety properties of the three searches and of
  overlap detection.
- **BitmapV6Proofs**: all the safety properties of the IPv6 functions.
- **NodeSearchProofs**: all the properties of `node_search`.
- **MbNodeProofs**: all the properties of `mb_node` but the finding.
- **MmColorProofs**: all the properties of `mm_color`.

**The table.** That lookups are longest matches is not inductive: a deletion
puts back what `up_aux` remembers, so the entries have to agree with `up_aux`,
and so have their tries. `Inv` says this entry by entry (`EntryFits`): `prefix_hi` is
the length of the longest short route that covers the entry; with a child, the
union holds no pointer and a trim, non-empty trie with exactly the long routes
through the entry and, as the rule of length 0, the next hop of that short
route; without a child, the pointer is that next hop, the node is empty and no
long route goes through the entry. Besides, `up_aux` is trim, has no rule of
length 0, and is empty while the table is not in use.

For each of the loop bodies one lemma shows that it takes an entry that fits the
old routes to one that fits the new (`ExpandFits`, `PushDownFits`,
`InsertBelowFits`, `UncoverFits`, `DeleteBelowFits`); `InsertInv`, `DeleteInv`
and `DestroyInv` put them together over the array. In `DeleteBelowFits` the
invariant shows why an emptied entry is right: its trie would still have the
rule of length 0 if a short route covered it. `InvAlways` is the induction. From
`Inv` follow `TypeCorrect`, `DisciplineHolds`, `BestShortHolds`,
`ExistCorrect`, `MirrorHolds`, `PrunedHolds`, `LookupHolds`. For the last one
(`LookupCorrect`) the matches of an address are divided at INITIAL_BITS: the
long ones are those the trie finds for the rest of the address, and if there is
none, the longest short one is what the entry holds. `Refinement` maps `routes`
to the rules of `up_aux` and `fib` to the answers of `tbm_search`: `InitTrie`
and a step that changes neither are stutters, `Insert`, `Delete` and `Destroy`
are `Insert`, `Delete` and `Clear`.

`Inv` quantifies over all bit strings, which TLC cannot enumerate; its
consequences listed above are what the runs check, and they say about
prefixes of at most LENGTH bits what `Inv` says.

**Next hops.** That a destroyed next hop is nowhere left is not inductive
either. `NhiInv` adds what is missing to `Inv`: with `DestroyNhi` no two routes
share a next hop (`OwnNextHops`), and none that a route stores was destroyed by
the last operation (`RoutesAreAlive`). `StoredAreRoutes` carries this to the
entries and their tries: they hold no next hop that `up_aux` does not have.
`DestroyedOnce` is then a fact about one step: a deletion destroys the next hop
of its route or, where every entry is skipped (finding 1), nothing. That the
fallback of `tbm/tbmv4.c:291-295` is never needed follows from `Inv` alone.

**Batches.** `PackedTurn` unfolds the packing loop of `tbm_search_batch`, and
`PackedAtRank` shows by induction on its turns that an address whose entry has a
child is packed at the place that the counter `j` of the last loop has when it
comes to it; so `BatchIsSearch`, for batches of any length.

**Searches.** An element of a search is on the path of its address; in a lazy
search it has noted exactly the nodes of that path above it (`Walks`). What it
knows of the rules is the longest match among certain lengths (`FoundIn`): for
`bitmap_do_search` those above its node, for the way back up of
`bitmap_do_search_lazy` those below the last node noted, of which there is none.
`RuleInIs` says that `tree_function` finds the longest match of one node,
also in the last one, where an address ends inside a stride. `LongerFirst` joins
two such ranges, and is the step of all searches, IPv4 and IPv6. `NothingLonger` ends
them: in a trim trie no rule lies beyond a node without the child that
the address asks for. In a batch, elements that have arrived have such a node,
those before the turn in the second stage have their answer. `Spec`'s fairness
plays no part.

**Two words.** `ValueSplit` says what the value of a string of bits is in terms of
its parts, and `BitsOfValue` that the value determines the bits. So a shift of
one word is a matter of quotients and remainders (`ShiftedRightWord`,
`ShiftedLeftWord`), and in `LeftIsDrop` and `RightIsTake` the bits that cross
from one half to the other come where zeros are. The undefined shift by
the whole length happens when a prefix ends at a stride, and both of its outcomes are 0,
because nothing but zeros is left then (`StridesOfRest`).

The invariant of BitmapV6Proofs says that node, words and remaining length agree
(`Walks`): the node is on the path of the address that the argument stands for,
the words hold what is left of that address. Thus what a stride names is the child
on the path (`StrideBits`), and in the last turn the rule is the argument
itself (`RuleHere`). An overlap may walk on, along the zeros behind its
prefix, up to the end of the stride; its limit keeps the rules there out.
`Finds` says what is known of the rules, as for IPv4, and `Updates` that the
nodes are those of the rules, and while a rule is inserted those on the way so far.

**Inside a node.** The rules of one length have the positions from
`(1 << cidr) - 1` on, below those of the longer ones (`PosRange`, `PosOrder`), so
that no two rules share a position and the highest bit is the longest rule.
`BitsDetermine` shows by induction on the bits that two values with the same bits
are the same, whence a rule matches, bit by bit, exactly when its value is that
of the stride shifted right (`MatchesIsShift`). So the lengths the loop finds are
those of the rules that match (`FoundAreMatching`), also under the mask of
`fast_lookup_init` and below a limit, where strides are shifted twice (`ShiftShift`).
`BitmapV4` and `MbNode` take rules and positions for what these theorems say.

**A node's block.** `Inv` of MbNodeProofs is the conjunction of the invariants
checked and that the statistics count at least what is in use, which
`destroy_subtrie` needs to stay a natural number. The core is how a bit that is
set or cleared moves the indices of the others (`CountAdd`, `CountOrder`): the
`memcpy`s of the four rebuilds move next hops and children by just that
(`RulesAdded`, `RulesRemoved`, `KidsAdded`, `KidsRemoved`), and `UnitsHoldRules`
shows that the words of a block suffice where the rules cross a unit.

**A trie in memory.** The invariant of TrieHeapProofs says that the memory is a
trie of values: there is a `t` with a set of paths and, for each path, a node and
its next hops (`IsShape`), such that `root` is the node of the empty path and every
other lies in the block of the one above, at the index that the bitmap of that
one tells (`InMemory`). `HasBlock` is the link between the two: the block of a node
has the shape its bitmaps tell and holds its next hops and its children. Nothing
else is in use but blocks of size 0. What the turns of the loops rely on is
`Walk`: the pointers the operation keeps are those to the nodes of its path
(`PtrTo`), and `TrieOf(t)` is the trie that the operation found with what it
has done so far: with the nodes it has made, if it inserts, without the rule and
the nodes it has dropped, if it deletes.

None of the properties checked is inductive by itself. That pointers stay valid
needs that a rebuild frees only the block of its own node, hence that blocks have
one owner; that they have needs the indices, and these that `update_nodes` and
`destroy_subtrie` are where the trie says they are.

The argument goes in three steps. First one block: the copies of each rebuild put
each next hop and each child at the index that the new bitmap tells (`RuleAdded`,
`RuleRemoved`, `ChildAdded`, `ChildRemoved`), which is the argument of MbNodeProofs
with nodes for children. Then the whole memory: a rebuild turns `t` into `Changed`,
the trie that differs in one node (`ExtendRule`, `ReduceRule`, `ExtendChild`,
`ReduceChild`, `DropNode`). Every node but the children of the one rebuilt keeps
its pointer (`ChangedPtr`), and in the walks those come only below, or at the
place that the code computes again. Then the operations: one lemma for each action
(`InsertRuleOK` to `DestroyNodeOK`), with `NeedToDelStep` for the turns of
`update_nodes`: a node is dropped just when `DeletePrefix` says so. `InvAlways` is
the induction. `ReachableAre` and `TrieInMemoryIs` connect it to what the run
checks: the nodes that can be reached from the root are those of `t`, with their
pointers, and `TrieInMemory` is `TrieOf(t)`. From there `WalkStaysOnPath`,
`EachBlockHasItsNode` and `HeapImplementsTrie` follow: a step that returns is
`Insert`, `Delete` or `Destroy` of Trie, every other a stutter.

For the statistics, `UnitsInUse` of a level is a sum over blocks. `SumsAre` makes
`SumFunction` of the community modules an ordinary sum, without regard to the
order in which it picks, and `UnitsChange` says that a level changes by what the
one node needs more or less. So every rebuild keeps the difference between the
two (`StatisticsHold`). Only `destroy_subtrie` subtracts less than it frees (finding
4), and thus the statistics are never below what is in use
(`StatisticsAreEnough`), which `TypeCorrect` needs for `lnode` to be natural.

**The colouring allocator.** `Inv` of MmColorProofs says of each share that its
areas are filled from their start, that each begins at a page whose colour is the
first of the share, reached from the place of the one before as `lma_init` does
(`AreasFit`), and that the blocks on its free lists and those callers hold lie
in what its areas have handed out, apart from one another (`ShareFits`). A block
given back with too small a size stays within the old one, so that this is
kept. Across shares, areas are apart because their colours are (`ApartInPage`), although
each share places its areas alone. `FoundIsTaken` shows that an area that
`find_lma` returns has room by the test of `lma_alloc`. For `UsedUpFirst` a second
invariant, `UsedUpInv`, says that every area but the first has served a request, and
every one but the last has no room for the largest. The rest is a matter of where areas
lie: `AreasFit` bounds the huge page of the k-th area of a share, so that a
block past the memory (`PastTheEnd`) is in an area with `NR * PerPage` before it.
Nothing is proved of what callers do with a NULL, or after a fault.

TLC has checked these invariants on the instances of the runs before they were
proved: some as they stand, such as `NhiInv` and those of BitmapV4Proofs and
BitmapV6Proofs, the others by the properties they consist of. That of
TrieHeapProofs, which begins with "there is a trie", is of the second kind:
`BlocksAreOwned`, `WalkIsOnPath` and `ImplementsTrie` say of the trie that can be
read from memory what it says.

**Only model-checked**:

- termination of the search loops and of the IPv6 functions (`LookupsReturn`,
  `CallsReturn`), because liveness is out of the prover's reach. Every safety
  property of a passing run is a theorem.

## What is not modelled

- What callers do when an allocation fails: `new_node` returns NULL and they
  copy into it, which is undefined. MbNode and TrieHeap are about runs in which
  every allocation of a block with at least one node succeeds. Neither allocator
  guarantees that: `calloc` may fail, and MmColor has the ways in which the colouring
  allocator fails.
- Of `lib/mm.c`: the registry, which the constructors of the two allocators fill
  before `main` and nothing changes afterwards; `mm_uinit`, which no table calls;
  `ms.mem` and `ms.lmem`, which are `NODE_SIZE` times `ms.node` and `ms.lnode`.
  The state of an allocator is shared by all `mm`s of its type (`lib/mm.c:58`),
  which matters only to the colouring one, and no caller has two of those.
- Of `lib/mm_color.c`: `mc_init`'s file, mapping and page map, which are input and
  output (their results are arbitrary in MmColor); what else lies behind
  `MEMORY_SIZE`, should touching it not end the process; a fault in reading `pfnbuf`
  far behind its end, which is not told apart from the fault of the `memset` that
  follows; `mc_uinit` and `mc_profile`.
- Concurrency beyond NodeReader. The code has no synchronisation, so nothing more
  can be expected of two threads than that run shows.
- `COMPRESS_NHI`, compiled out; printing, iterating and counting functions
  (`bitmap_mb_node_iter`, `bitmap_redund_rule`, the `print_all_prefix` functions,
  `mm_profile`), which change nothing; prefetches, which change nothing.
- What `destroy_subtrie` does to the memory it reaches through a next hop that
  `tbmv6_destroy_trie` takes for a node (finding 3).
- The 32-bit build (`STRIDE` 5), where the fast `tree_function` counts bits that
  the bitmap does not have.
- `lib/list.h`, vendored; its lists are sequences in MmColor.

## Plan

All modules of the plan are written, and the safety properties and refinements
of Tbm, TbmV6, TrieHeap, BitmapV4, BitmapV6, NodeSearch, MbNode and MmColor are
proved. What could come next: what a repaired code should promise, should the
findings be fixed (the lookup of IPv6 would then come under `LookupCorrect`, the
statistics under an equation), and `mc_uinit`, should a table ever call it.
