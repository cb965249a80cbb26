------------------------------ MODULE MmColor ------------------------------
(***************************************************************************)
(* The cache colouring allocator (lib/mm_color.c).                         *)
(*                                                                         *)
(* The nodes of level 0, of level 1 and of all levels below get a share of *)
(* the cache each: a run of page colours.  A share hands out blocks from   *)
(* areas, pieces of memory whose pages have the colours of the share, in   *)
(* the order of a list to whose end a new area is added when no other has  *)
(* room.  Freed blocks go to a list per share and size, and come back from *)
(* there first.                                                            *)
(*                                                                         *)
(* Memory is made of huge pages, and `addr' is address 0 here.  The colour *)
(* of a small page is its physical page number modulo PAGE_COLORS; inside  *)
(* a huge page these are consecutive, across two of them they are not.     *)
(* MEMORY_SIZE bytes are mapped.  The code places areas without comparing  *)
(* with that, so that a share can go on past the end, where nothing is     *)
(* known of colours, and clearing a block may end the process.             *)
(***************************************************************************)
EXTENDS Integers, Sequences, FiniteSets

CONSTANTS
  PAGE_SIZE,       \* 4096
  PAGE_COLORS,     \* 8
  CACHE_OVERLAP,   \* 32 * 1024, the memory after which the colours repeat
  HPAGE_SIZE,      \* 2 * 1024 * 1024
  NR,              \* the huge pages of the memory: 16
  NODE_SIZE,       \* sizeof(struct mb_node): 24
  Pages,           \* the pages of each share: 2, 5 and 1
  MaxNodes         \* the nodes of the largest block: 64 children, 63 rules

Share == {0, 1, 2}
Color == 0 .. PAGE_COLORS - 1

\* m->cs[i].size
Size(s) == Pages[s] * PAGE_SIZE

MEMORY_SIZE == NR * HPAGE_SIZE

ASSUME ColorAssumption ==
  /\ PAGE_SIZE \in Nat \ {0} /\ PAGE_COLORS \in Nat \ {0} /\ NR \in Nat \ {0}
  /\ CACHE_OVERLAP = PAGE_COLORS * PAGE_SIZE
  /\ HPAGE_SIZE \in Nat /\ HPAGE_SIZE % CACHE_OVERLAP = 0
  /\ HPAGE_SIZE >= 2 * CACHE_OVERLAP
ASSUME ShareAssumption ==
  /\ Pages \in [Share -> Nat \ {0}]
  /\ Pages[0] + Pages[1] + Pages[2] = PAGE_COLORS
ASSUME NodeAssumption ==
  /\ NODE_SIZE \in Nat \ {0} /\ MaxNodes \in Nat
  /\ \A s \in Share : MaxNodes * NODE_SIZE < Size(s)

VARIABLES
  pfnbuf,      \* the colour of the first page of each huge page
  page_color,  \* the first colour of each share
  lm,          \* the areas of each share
  free_head,   \* the blocks freed, by share and number of nodes
  used,        \* the blocks callers hold: not in the code
  status       \* whether the process runs, or how it has ended

vars == <<pfnbuf, page_color, lm, free_head, used, status>>

Count == 0 .. MaxNodes
Area == [start : Nat, alloc : Nat, left : Nat]

TypeOK ==
  /\ pfnbuf \in [0 .. NR - 1 -> Color]
  /\ page_color \in [Share -> Color]
  /\ \A s \in Share :
       /\ Len(lm[s]) >= 1
       /\ \A k \in DOMAIN lm[s] :
            LET area == lm[s][k]
            IN  area \in Area /\ area.alloc + area.left = area.start + Size(s)
       /\ \A n \in Count : \A k \in DOMAIN free_head[s][n] :
            free_head[s][n][k] \in Nat
  /\ \A b \in used : b.p \in Nat /\ b.nodes \in 1 .. MaxNodes /\ b.share \in Share
  /\ status \in {"running", "faulted", "exited"}

-----------------------------------------------------------------------------
\* switch(level): the share of a level.
ShareOf(level) == IF level \in {0, 1} THEN level ELSE 2

\* The pages of the shares before s.
PagesBefore(s) == CASE s = 0 -> 0 [] s = 1 -> Pages[0] [] s = 2 -> Pages[0] + Pages[1]

NewArea(start, s) == [start |-> start, alloc |-> start, left |-> Size(s)]

\* mc_init: the first areas lie one after another at the start of the memory.
\* Where addr_pfn fails pfnbuf is left as malloc returns it.
Init ==
  /\ pfnbuf \in [0 .. NR - 1 -> Color]
  /\ page_color = [s \in Share |-> (pfnbuf[0] + PagesBefore(s)) % PAGE_COLORS]
  /\ lm = [s \in Share |-> <<NewArea(PagesBefore(s) * PAGE_SIZE, s)>>]
  /\ free_head = [s \in Share |-> [n \in Count |-> <<>>]]
  /\ used = {}
  /\ status = "running"

\* pfnbuf[page] % PAGE_COLORS: whatever lies behind the buffer past its end.
StartPageColor(page) ==
  IF page < NR THEN {pfnbuf[page]} ELSE Color

\* Mutant: the colours are taken from one another the wrong way round.
lma_init_swapped(s) ==
  LET last      == lm[s][Len(lm[s])]
      last_page == last.start \div HPAGE_SIZE
      new_page  == (last.start + CACHE_OVERLAP + Size(s)) \div HPAGE_SIZE
  IN  IF new_page = last_page THEN {NewArea(last.start + CACHE_OVERLAP, s)}
      ELSE {NewArea(new_page * HPAGE_SIZE
                      + ((PAGE_COLORS + c - page_color[s]) % PAGE_COLORS) * PAGE_SIZE, s) :
              c \in StartPageColor(new_page)}

\* lma_init: the next place of the same colours, in the huge page of the last
\* area if a whole area still ends in it, or from the start of the next one,
\* which may lie past the end of the memory.  (That reading past pfnbuf may end
\* the process is not told apart from the memset of HandOut doing so.)
lma_init(s) ==
  LET last      == lm[s][Len(lm[s])]
      last_page == last.start \div HPAGE_SIZE
      new_page  == (last.start + CACHE_OVERLAP + Size(s)) \div HPAGE_SIZE
  IN  IF new_page = last_page THEN {NewArea(last.start + CACHE_OVERLAP, s)}
      ELSE {NewArea(new_page * HPAGE_SIZE
                      + ((PAGE_COLORS + page_color[s] - c) % PAGE_COLORS) * PAGE_SIZE, s) :
              c \in StartPageColor(new_page)}

HasRoom(area, node_num) == area.left > node_num * NODE_SIZE

\* Mutant: only the first area of the list is looked at.
find_lma_first(s, node_num) ==
  IF HasRoom(lm[s][1], node_num) THEN {[k |-> 1, areas |-> lm[s]]}
  ELSE {[k |-> Len(lm[s]) + 1, areas |-> Append(lm[s], new)] : new \in lma_init(s)}

\* find_lma: the index of the first area with room, and the list it is in, to
\* which an area has been added if there was none and malloc gave a descriptor.
find_lma(s, node_num) ==
  LET room == {k \in DOMAIN lm[s] : HasRoom(lm[s][k], node_num)}
  IN  IF room # {} THEN {[k |-> CHOOSE k \in room : \A j \in room : k <= j, areas |-> lm[s]]}
      ELSE {[k |-> Len(lm[s]) + 1, areas |-> Append(lm[s], new)] : new \in lma_init(s)}

Block(p, node_num, s) == [p |-> p, nodes |-> node_num, share |-> s]

\* Mutant: the block stays in the list.
AllocFreedWithoutDel(node_num, s) ==
  /\ free_head[s][node_num] # <<>>
  /\ used' = used \cup {Block(Head(free_head[s][node_num]), node_num, s)}
  /\ UNCHANGED <<pfnbuf, page_color, lm, free_head, status>>

\* mc_alloc_node takes a freed block of this size.
AllocFreed(node_num, s) ==
  /\ free_head[s][node_num] # <<>>
  /\ free_head' = [free_head EXCEPT ![s][node_num] = Tail(@)]
  /\ used' = used \cup {Block(Head(free_head[s][node_num]), node_num, s)}
  /\ UNCHANGED <<pfnbuf, page_color, lm, status>>

\* The memset of a new block, which is then the caller's.  Past the end of the
\* memory it ends the process, unless something else is mapped there: then that
\* is overwritten and the caller gets the block all the same.
HandOut(p, node_num, s) ==
  \/ /\ used' = used \cup {Block(p, node_num, s)}
     /\ UNCHANGED status
  \/ /\ p + node_num * NODE_SIZE > MEMORY_SIZE
     /\ status' = "faulted"
     /\ UNCHANGED used

\* Mutant: the room of the area is not counted down.
AllocFromAreaKeepingLeft(node_num, s) ==
  /\ free_head[s][node_num] = <<>>
  /\ \E found \in find_lma(s, node_num) :
       /\ lm' = [lm EXCEPT ![s] =
                   [found.areas EXCEPT ![found.k].alloc = @ + node_num * NODE_SIZE]]
       /\ HandOut(found.areas[found.k].alloc, node_num, s)
  /\ UNCHANGED <<pfnbuf, page_color, free_head>>

\* There is none: lma_alloc takes it from an area, or gives NULL.
AllocFromArea(node_num, s) ==
  /\ free_head[s][node_num] = <<>>
  /\ \E found \in find_lma(s, node_num) :
       LET area == found.areas[found.k]
       IN  IF HasRoom(area, node_num)
           THEN /\ lm' = [lm EXCEPT ![s] =
                     [found.areas EXCEPT ![found.k] =
                        [area EXCEPT !.alloc = @ + node_num * NODE_SIZE,
                                     !.left  = @ - node_num * NODE_SIZE]]]
                /\ HandOut(area.alloc, node_num, s)
           ELSE lm' = [lm EXCEPT ![s] = found.areas] /\ UNCHANGED <<used, status>>
  /\ UNCHANGED <<pfnbuf, page_color, free_head>>

\* No area has room and malloc gives no descriptor for another: find_lma, and
\* with it mc_alloc_node, returns NULL.
AllocFails(node_num, s) ==
  /\ free_head[s][node_num] = <<>>
  /\ \A k \in DOMAIN lm[s] : ~ HasRoom(lm[s][k], node_num)
  /\ UNCHANGED vars

\* mc_alloc_node for one node or more; for none it returns NULL.
Alloc(node_num, level) ==
  \/ AllocFreed(node_num, ShareOf(level))
  \/ AllocFromArea(node_num, ShareOf(level))
  \/ AllocFails(node_num, ShareOf(level))

\* mc_dealloc_node.  The caller gives the size, which destroy_subtrie gets wrong
\* for a node with children: it may be smaller than the block, even 0.
Dealloc(b, node_num) ==
  /\ node_num <= b.nodes
  /\ free_head' = [free_head EXCEPT ![b.share][node_num] = <<b.p>> \o @]
  /\ used' = used \ {b}
  /\ UNCHANGED <<pfnbuf, page_color, lm, status>>

\* mc_dealloc_node ends the process when malloc fails.
DeallocFails ==
  /\ used # {}
  /\ status' = "exited"
  /\ UNCHANGED <<pfnbuf, page_color, lm, free_head, used>>

Next ==
  /\ status = "running"
  /\ \/ \E node_num \in 1 .. MaxNodes, level \in Share : Alloc(node_num, level)
     \/ \E b \in used, node_num \in Count : Dealloc(b, node_num)
     \/ DeallocFails

Spec == Init /\ [][Next]_vars

-----------------------------------------------------------------------------
Disjoint(p, m, q, n) == p + m <= q \/ q + n <= p

\* The blocks of a share, in use or waiting in a list of freed ones, as they
\* are handed out: list, index in it, address and number of nodes.
FreedBlocks(s) ==
  UNION {{[p |-> free_head[s][n][k], nodes |-> n, at |-> <<n, k>>] :
            k \in DOMAIN free_head[s][n]} : n \in Count}
UsedBlocks(s) ==
  {[p |-> b.p, nodes |-> b.nodes, at |-> <<>>] : b \in {c \in used : c.share = s}}

\* No two blocks of a share have memory in common, and each lies in the part of
\* an area that has been handed out: a block that was freed with too small a
\* size only loses its rest.
BlocksAreDisjoint ==
  \A s \in Share :
    LET blocks == FreedBlocks(s) \cup UsedBlocks(s)
    IN  /\ \A a, b \in blocks :
             a # b => Disjoint(a.p, a.nodes * NODE_SIZE, b.p, b.nodes * NODE_SIZE)
        /\ \A b \in blocks : \E k \in DOMAIN lm[s] :
             /\ lm[s][k].start <= b.p
             /\ b.p + b.nodes * NODE_SIZE <= lm[s][k].alloc

\* An area begins at a page of the first colour of its share and ends in the
\* same huge page, so that all its pages have the colours of the share.
Colored(area, s) ==
  LET page == area.start \div HPAGE_SIZE
  IN  /\ area.start % PAGE_SIZE = 0
      /\ (area.start + Size(s) - 1) \div HPAGE_SIZE = page
      /\ page < NR =>
           (pfnbuf[page] + area.start \div PAGE_SIZE) % PAGE_COLORS = page_color[s]

\* The areas of a huge page, at least: the last CACHE_OVERLAP of it may be too
\* short for one.
PerPage == HPAGE_SIZE \div CACHE_OVERLAP - 1

\* Areas have the colours of their share and no memory in common, within a
\* share and across; and the huge pages are used up one after another, although
\* each share places its areas without looking at the others.  Past the end of
\* the memory, which lma_init does not look for either, nothing is promised.
AreasAreWellPlaced ==
  \A s \in Share : \A k \in DOMAIN lm[s] :
    LET area == lm[s][k]
    IN  /\ Colored(area, s)
        /\ area.start \div HPAGE_SIZE <= (k - 1) \div PerPage
        /\ area.start < MEMORY_SIZE =>
             \A t \in Share : \A j \in DOMAIN lm[t] :
               <<s, k>> # <<t, j>> =>
                 Disjoint(area.start, Size(s), lm[t][j].start, Size(t))

\* The memory is not wasted before it runs out, which nothing in mm_color.c
\* checks.  Each area after the first was added for a request that then got its
\* block from it: lma_alloc, which tests for room again, does not give NULL.
\* Another was added only when no more than a request was left in it.  And
\* clearing a block ends the process only when a share has had as many areas as
\* the huge pages of the memory are sure to have room for.
MemoryIsUsedUp ==
  /\ \A s \in Share : \A k \in DOMAIN lm[s] :
       /\ k > 1 => lm[s][k].alloc > lm[s][k].start
       /\ k < Len(lm[s]) => lm[s][k].left <= MaxNodes * NODE_SIZE
  /\ status = "faulted" => \E s \in Share : Len(lm[s]) > NR * PerPage

=============================================================================
