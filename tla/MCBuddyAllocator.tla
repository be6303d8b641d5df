-------------------------- MODULE MCBuddyAllocator --------------------------
(* Instances of BuddyAllocator for TLC. NUM_BLOCKS is 64 and NUM_LISTS 9,   *)
(* two lists more than the pool's order asks for; the smaller pools keep    *)
(* that difference. A page has four bytes: the sizes ask for every order    *)
(* of the pool, most of them without being a power of two, and the last one *)
(* exceeds the largest power of two in a word.                              *)
EXTENDS BuddyAllocator
Sizes == {s \in {3, 8, 13, 32, 57} : s <= 4 * NumBlocks} \union {300}
Orderly  == {"lifo", "batch"}
AnyOrder == {"any"}
=============================================================================
