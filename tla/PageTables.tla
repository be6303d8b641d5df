----------------------------- MODULE PageTables -----------------------------
(***************************************************************************)
(* The kernel's page directory and its tables (klib/pagetables.hh,         *)
(* kernel/pagetables.cc), set up by setup_pagedir (kernel/kernel.cc). A    *)
(* page number is a pair: the index into the directory and the index into  *)
(* a table. A directory entry holds the page of its table; an entry that   *)
(* is not present, None. Permissions other than presence are left out.     *)
(***************************************************************************)
EXTENDS Integers

CONSTANTS
  DirEntries, TableEntries,  \* NUM_ENTRIES of a directory and of a table
  IoEntry,                   \* the directory entry of io_pt, 1019
  starter_pt, io_pt,         \* the pages of the two static tables
  Pool,                      \* the pages of the allocator
  Leftovers                  \* what they may hold at power-on, read as tables

NoPage == << >>
Pages  == (0..DirEntries - 1) \X (0..TableEntries - 1)
Null   == <<0, 0>>

\* The kernel and the allocator's pool lie below 4 MB, and not at 0.
KernelPages == {p \in Pages : p[1] = 0} \ {Null}
Tables      == Pool \union {starter_pt, io_pt}

ASSUME EntriesAssumption ==
  DirEntries \in Nat \ {0} /\ TableEntries \in Nat \ {0}
ASSUME LayoutAssumption ==
  /\ IoEntry \in 1..DirEntries - 1
  /\ Tables \subseteq KernelPages
  /\ starter_pt # io_pt /\ {starter_pt, io_pt} \intersect Pool = {}

VARIABLES
  dir,         \* kernel_pagedir: the table of each entry
  tables,      \* what the pages that may serve as tables hold
  free_pages,  \* the allocator, by its contract: it gives out one of these
               \* pages, or nothing
  paging       \* whether the processor translates through dir

EmptyTable == [i \in 0..TableEntries - 1 |-> NoPage]
TableType  == [0..TableEntries - 1 -> Pages \union {NoPage}]

ASSUME LeftoversAssumption == Leftovers \subseteq TableType

MemoryInit ==
  /\ dir = [d \in 0..DirEntries - 1 |-> NoPage]
  /\ \E held \in Leftovers :
       tables = [t \in Tables |-> IF t \in Pool THEN held ELSE EmptyTable]
  /\ free_pages = Pool
  /\ paging = FALSE

\* What the processor makes of an access to page p.
Translate(p) ==
  IF dir[p[1]] = NoPage THEN NoPage ELSE tables[dir[p[1]]][p[2]]

\* Whether an access to page p reaches page p.
Reachable(p) == paging => Translate(p) = p

\* add_pt(): an entry that has a table keeps it.
AddPagetable(directory, d, table) ==
  IF directory[d] # NoPage THEN directory ELSE [directory EXCEPT ![d] = table]

\* try_map(0, 0, 0), then the loop from 0x1000 to 4 MB.
IdentityTable ==
  [i \in 0..TableEntries - 1 |-> IF i = 0 THEN NoPage ELSE <<0, i>>]

SetupPagedir ==
  /\ dir' = AddPagetable(AddPagetable(dir, 0, starter_pt), IoEntry, io_pt)
  /\ tables' = [tables EXCEPT ![starter_pt] = IdentityTable]
  /\ paging' = TRUE
  /\ UNCHANGED free_pages

\* Mutant: the new table keeps what was in memory.
FreshTableUnzeroed(t) == tables[t]

\* "Need to zero out pages, or else weird bugs start to occur."
FreshTable(t) == EmptyTable

MapInTable(table, va, pa) == [table EXCEPT ![va[2]] = pa]

Kalloc == CHOOSE p \in free_pages : TRUE

\* PageDirectory::try_map() with the present bit: the entry's table is made
\* when it is missing.
TryMap(va, pa) ==
  IF dir[va[1]] # NoPage
    THEN /\ tables' = [tables EXCEPT ![dir[va[1]]] = MapInTable(@, va, pa)]
         /\ UNCHANGED <<dir, free_pages, paging>>
    ELSE LET t == Kalloc
         IN /\ free_pages # {}
            /\ dir' = AddPagetable(dir, va[1], t)
            /\ tables' = [tables EXCEPT ![t] = MapInTable(FreshTable(t), va, pa)]
            /\ free_pages' = free_pages \ {t}
            /\ UNCHANGED paging

\* The error of try_map(): no page for the table.
TryMapFails(va) == dir[va[1]] = NoPage
=============================================================================
