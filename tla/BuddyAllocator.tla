--------------------------- MODULE BuddyAllocator ---------------------------
(***************************************************************************)
(* The page allocator (kernel/alloc.cc): a pool of NumBlocks pages, one    *)
(* doubly linked free list per order, and for each page an order and a     *)
(* free bit of which only those of the first page of a block mean          *)
(* anything. Every page starts with its free bit set.                      *)
(*                                                                         *)
(* Addresses are page numbers. A request is a size in bytes, from which    *)
(* kalloc computes the order, its list_idx. The allocator runs to its end  *)
(* each time: no interrupt handler calls it.                               *)
(***************************************************************************)
EXTENDS Integers, Sequences

CONSTANTS
  NumBlocks,   \* NUM_BLOCKS: the pages of the pool, a power of two
  NumLists,    \* NUM_LISTS: the orders
  SmallestBits,  \* SMALLEST_BLOCK_SIZE: a page has 2^SmallestBits bytes
  WordBits,    \* the width of a size
  Requests,    \* the sizes the clients ask for
  Disciplines  \* the orders in which clients may free: "lifo", "batch", "any"

Blocks == 0..NumBlocks - 1
Orders == 0..NumLists - 1
NULL_BLOCK == -1

\* The pages of a block of an order: 1 << order.
Size[l \in Orders] == IF l = 0 THEN 1 ELSE 2 * Size[l - 1]

\* round_up_pow2: the least power of two that is no less than num, modulo the
\* width of a word, so that of what exceeds the largest power nothing is left.
RoundUpPow2(num) ==
  LET below == (num - 1) % 2^WordBits
      Fits(e) == below < 2^e
      least == CHOOSE e \in 0..WordBits : Fits(e) /\ \A d \in 0..e - 1 : ~Fits(d)
  IN 2^least % 2^WordBits

\* log2 counts from u8(-1).
Log2(num) ==
  IF num = 0 THEN 255 ELSE CHOOSE e \in 0..WordBits - 1 : 2^e <= num /\ num < 2^(e + 1)

\* kalloc's list_idx.
ListIndex(size) ==
  LET adjusted_size == IF size < 2^SmallestBits THEN 2^SmallestBits ELSE size
  IN Log2(RoundUpPow2(adjusted_size)) - SmallestBits

ASSUME ListsAssumption == NumLists \in Nat \ {0}
ASSUME PoolAssumption == \E l \in Orders : NumBlocks = Size[l]
\* No client asks for a size that passes the test of list_idx against NUM_BLOCKS
\* and has no list.
ASSUME RequestsAssumption ==
  \A size \in Requests :
    ListIndex(size) \in Orders \/ (ListIndex(size) \in Nat /\ ListIndex(size) >= NumBlocks)
ASSUME DisciplineAssumption == Disciplines \subseteq {"lifo", "batch", "any"}

VARIABLES
  free_lists,   \* the head of each list
  blocks,       \* next, prev, order and free bit of each page
  live,         \* history: the blocks the clients hold, oldest first
  freeing,      \* history: whether a batch is being freed
  discipline    \* the order the clients keep to

vars == <<free_lists, blocks, live, freeing, discipline>>

FreshBlock == [next |-> NULL_BLOCK, prev |-> NULL_BLOCK, order |-> 0, free |-> TRUE]

Init ==
  /\ free_lists = [l \in Orders |-> IF l = NumLists - 1 THEN 0 ELSE NULL_BLOCK]
  /\ blocks = [b \in Blocks |-> FreshBlock]
  /\ live = << >>
  /\ freeing = FALSE
  /\ discipline \in Disciplines

-----------------------------------------------------------------------------
\* The list operations, on a heap h = [lists, blocks].

\* pop_free_list of a list that has a head. The new head's next is cut, where
\* its prev should be.
PopFreeList(h, l) ==
  LET head == h.lists[l]
      next == h.blocks[head].next
      cut  == IF next = NULL_BLOCK THEN h.blocks
              ELSE [h.blocks EXCEPT ![next].next = NULL_BLOCK]
  IN [lists  |-> [h.lists EXCEPT ![l] = next],
      blocks |-> [cut EXCEPT ![head] = [next |-> NULL_BLOCK, prev |-> NULL_BLOCK,
                                        order |-> l, free |-> FALSE]]]

PushFreeList(h, l, b) ==
  LET head  == h.lists[l]
      entry == [next |-> head, prev |-> NULL_BLOCK, order |-> l, free |-> TRUE]
      linked == IF head = NULL_BLOCK THEN h.blocks
                ELSE [h.blocks EXCEPT ![head].prev = b]
  IN [lists  |-> [h.lists EXCEPT ![l] = b],
      blocks |-> [linked EXCEPT ![b] = entry]]

\* remove_from_list: the following block keeps its prev, and the removed one
\* its free bit.
RemoveFromList(h, b) ==
  LET block == h.blocks[b]
  IN [lists  |-> IF h.lists[block.order] = b
                   THEN [h.lists EXCEPT ![block.order] = block.next] ELSE h.lists,
      blocks |-> IF block.prev = NULL_BLOCK THEN h.blocks
                 ELSE [h.blocks EXCEPT ![block.prev].next = block.next]]

\* buddy_index: a block on a boundary of the next order comes first of the
\* two. Past the end of the pool there is no buddy.
BuddyIndex(h, b) ==
  LET size  == Size[h.blocks[b].order]
      buddy == IF b % (2 * size) = 0 THEN b + size ELSE b - size
  IN IF buddy \in Blocks THEN buddy ELSE NULL_BLOCK

\* Mutant: a lone block is put back without looking for its buddy.
NoBuddy(h, b) == FALSE

\* Mutant: the buddy is taken without looking at its free bit.
BuddyExists(h, b) == BuddyIndex(h, b) # NULL_BLOCK

BuddyIsFree(h, b) ==
  LET buddy == BuddyIndex(h, b)
  IN buddy # NULL_BLOCK /\ h.blocks[buddy].free

\* Mutant: the middle of a split block is computed one order too low, so that
\* the upper half overlaps the lower one.
MiddleTooLow(head, l) == head + Size[l] \div 2

\* Where the upper half of a block starts that is split into two of order l.
Middle(head, l) == head + Size[l]

\* Mutant: the split stops one order early.
SplitOrdersTooFew(i, l) == l + 1..i - 1

\* The orders of the upper halves that a split of order i down to l leaves.
SplitOrders(i, l) == l..i - 1

\* The splits of a block of order i down to order l. The lists in between
\* were just found empty, so each upper half becomes the head of its list.
Split(h, head, i, l) ==
  LET uppers == {j \in SplitOrders(i, l) : Middle(head, j) \in Blocks}
      OrderOf(b) == CHOOSE j \in uppers : Middle(head, j) = b
  IN [lists  |-> [j \in Orders |-> IF j \in uppers THEN Middle(head, j) ELSE h.lists[j]],
      blocks |-> [b \in Blocks |->
         IF b = head THEN [h.blocks[b] EXCEPT !.order = l, !.free = FALSE]
         ELSE IF \E j \in uppers : Middle(head, j) = b
              THEN [next |-> NULL_BLOCK, prev |-> NULL_BLOCK,
                    order |-> OrderOf(b), free |-> TRUE]
              ELSE h.blocks[b]]]

\* A turn of kfree's loop: the block, and new_list_idx, while its buddy is free.
Turn(c) ==
  LET buddy   == BuddyIndex(c.heap, c.block)
      lower   == IF c.block > buddy THEN buddy ELSE c.block
      removed == RemoveFromList(c.heap, buddy)
  IN IF ~BuddyIsFree(c.heap, c.block) THEN c
     ELSE [heap  |-> [removed EXCEPT !.blocks[lower].order = c.order + 1],
           block |-> lower,
           order |-> c.order + 1]

\* The loop: every turn that merges raises the order, and a block of the last
\* order has no buddy. The block it ends with is put into its list.
Coalesce(h, b, n) ==
  LET turn[i \in 0..NumLists] ==
        IF i = 0 THEN [heap |-> h, block |-> b, order |-> n] ELSE Turn(turn[i - 1])
      last == turn[NumLists]
  IN PushFreeList(last.heap, last.order, last.block)

-----------------------------------------------------------------------------
Heap == [lists |-> free_lists, blocks |-> blocks]
SetHeap(h) == free_lists' = h.lists /\ blocks' = h.blocks

\* The lists kalloc can serve a request of order l from.
Candidates(l) == {i \in Orders : i >= l /\ free_lists[i] # NULL_BLOCK}

\* What the discipline lets the clients do: blocks freed in the reverse order
\* of their allocation (DynArray's scopes, try_map's error path); blocks of
\* one size allocated, then all freed in the order they were allocated (the
\* tests); or anything legal.
MayAllocate(l) ==
  discipline = "batch" => ~freeing /\ \A k \in DOMAIN live : live[k].order = l
MayFree(k) ==
  CASE discipline = "lifo"  -> k = Len(live)
    [] discipline = "batch" -> k = 1
    [] discipline = "any"   -> TRUE

\* kalloc takes the first list at or above the order that has a block.
Kalloc(l) ==
  /\ MayAllocate(l)
  /\ l < NumBlocks
  /\ Candidates(l) # {}
  /\ LET i    == CHOOSE c \in Candidates(l) : \A d \in Candidates(l) : c <= d
         head == free_lists[i]
         h    == PopFreeList(Heap, i)
     IN /\ SetHeap(IF i = l THEN h ELSE Split(h, head, i, l))
        /\ live' = Append(live, [block |-> head, order |-> l])
  /\ UNCHANGED <<freeing, discipline>>

\* A request that no list can serve, or whose order is out of the range that
\* kalloc looks at, returns null and changes nothing.
KallocNone(l) ==
  /\ MayAllocate(l)
  /\ l >= NumBlocks \/ Candidates(l) = {}
  /\ UNCHANGED vars

\* kfree of the k-th live block; the assertion on its free bit has passed.
Kfree(k) ==
  /\ MayFree(k)
  /\ LET b == live[k].block
     IN /\ ~blocks[b].free
        /\ SetHeap(Coalesce(Heap, b, blocks[b].order))
  /\ live' = SubSeq(live, 1, k - 1) \o SubSeq(live, k + 1, Len(live))
  /\ freeing' = (discipline = "batch" /\ live' # << >>)
  /\ UNCHANGED discipline

Next ==
  \/ \E size \in Requests : Kalloc(ListIndex(size)) \/ KallocNone(ListIndex(size))
  \/ \E k \in DOMAIN live : Kfree(k)

Spec == Init /\ [][Next]_vars

-----------------------------------------------------------------------------
\* The pages of a block that lie in the pool.
Pages(b, l) == (b..b + Size[l] - 1) \intersect Blocks

\* The blocks in a list: what its head leads to, in a step per page at most.
InList(l) ==
  LET reach[n \in 0..NumBlocks] ==
        IF n = 0 THEN {free_lists[l]}
                 ELSE LET before == reach[n - 1]
                      IN  before \union {blocks[b].next : b \in before \ {NULL_BLOCK}}
  IN reach[NumBlocks] \ {NULL_BLOCK}

Free == UNION {InList(l) \X {l} : l \in {i \in Orders : free_lists[i] # NULL_BLOCK}}
Held == {<<live[k].block, live[k].order>> : k \in DOMAIN live}

\* No page belongs to two blocks: kalloc never hands out memory that a client
\* holds, and no free list holds any of it.
NoOverlap ==
  /\ \A j, k \in DOMAIN live : j # k => live[j].block # live[k].block
  /\ LET owners == Held \union Free
     IN \A x, y \in owners :
          x # y => Pages(x[1], x[2]) \intersect Pages(y[1], y[2]) = {}

\* Every page can still be allocated or is held: kfree loses none.
NoLeak ==
  UNION {Pages(x[1], x[2]) : x \in Held \union Free} = Blocks

\* kfree's assertion "Attempted to free an already-freed block" fails for no
\* block that a client holds and has not freed.
LegalFreePasses ==
  \A k \in DOMAIN live : ~blocks[live[k].block].free

\* When all is freed the pool is one block again, of all the pages.
FullyCoalesced ==
  live = << >> => \E l \in Orders : Free = {<<0, l>>} /\ Size[l] >= NumBlocks
=============================================================================
