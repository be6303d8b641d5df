----------------------------- MODULE AhciCache -----------------------------
(***************************************************************************)
(* The buffer cache inside the AHCI driver: BufferCache                    *)
(* (src/src/klib/ahci/cache.hh) and the operations of AHCIState on it      *)
(* (ahci.hh, ahci.cc). It starts as its initialisers say.                  *)
(*                                                                         *)
(* What a client may do is the first conjunct of the actions of Borrower:  *)
(* it has one buffer at a time, since a buffer that is found again is not  *)
(* marked taken and would be given to the next; it does not read a sector  *)
(* it has released unwritten, since read_sector reads over what a buffer   *)
(* holds; and it fills a buffer from get_buffer, which is not read at all. *)
(* No code of the kernel is a client yet.                                  *)
(***************************************************************************)
EXTENDS Integers, FiniteSetsExt

CONSTANTS
  Offsets, Contents,
  FirstOffset,    \* 0, where every location starts
  NUM_ENTRIES

ASSUME OffsetsAssumption == FirstOffset \in Offsets
ASSUME EntriesAssumption == NUM_ENTRIES \in Nat \ {0}

Entries == 0..(NUM_ENTRIES - 1)

VARIABLES
  cells,       \* _cache, one value per buffer
  locations,   \* _buffer_locations
  taken_map, dirty_map,
  medium,      \* the disk
  lent,        \* the buffer the client has, if any
  latest       \* history: what the client last stored in each sector

driverVars == <<cells, locations, taken_map, dirty_map, medium, lent, latest>>

NoLoan == [entry |-> -1]

DriverInit ==
  /\ cells \in [Entries -> Contents]
  /\ locations = [e \in Entries |-> FirstOffset]
  /\ taken_map = {} /\ dirty_map = {}
  /\ medium \in [Offsets -> Contents]
  /\ lent = NoLoan
  /\ latest = medium

-----------------------------------------------------------------------------
\* buffer_with_offset: the first of these.
WithOffset(o) == {e \in Entries : locations[e] = o}

\* The entry get_buffer returns.
EntryFor(o) == Min(IF WithOffset(o) # {} THEN WithOffset(o) ELSE Entries \ taken_map)

CacheFull(o) == WithOffset(o) = {} /\ taken_map = Entries

\* sync: the buffer is made clean and written to its location.
SyncEntry(e) ==
  /\ dirty_map' = dirty_map \ {e}
  /\ medium' = [medium EXCEPT ![locations[e]] = cells[e]]

\* Mutant: the buffer is taken over as it is.
TakeBufferUnsynced(e) ==
  taken_map' = taken_map \union {e} /\ dirty_map' = dirty_map \ {e} /\ UNCHANGED medium

\* take_buffer: a dirty buffer is written before it gets another location.
TakeBuffer(e) ==
  /\ taken_map' = taken_map \union {e}
  /\ IF e \in dirty_map THEN SyncEntry(e) ELSE UNCHANGED <<dirty_map, medium>>

GetBuffer(o) ==
  /\ ~CacheFull(o)
  /\ IF WithOffset(o) # {}
       THEN UNCHANGED <<locations, taken_map, dirty_map, medium>>
       ELSE /\ TakeBuffer(EntryFor(o))
            /\ locations' = [locations EXCEPT ![EntryFor(o)] = o]

\* Mutant: a sector that is found is not read again.
ReadIntoOnMiss(o) ==
  cells' = IF WithOffset(o) # {} THEN cells ELSE [cells EXCEPT ![EntryFor(o)] = medium'[o]]

\* What read_sector reads, found or not, comes from the disk.
ReadInto(o) == cells' = [cells EXCEPT ![EntryFor(o)] = medium'[o]]

Lend(o, filled) == lent' = [entry |-> EntryFor(o), offset |-> o, filled |-> filled]

\* Mutant: the bit stays set.
ReleaseEntryKept(e) == taken_map' = taken_map /\ lent' = NoLoan

ReleaseEntry(e) == taken_map' = taken_map \ {e} /\ lent' = NoLoan

-----------------------------------------------------------------------------
ReadSector(o) ==
  /\ lent = NoLoan /\ WithOffset(o) \intersect dirty_map = {}
  /\ GetBuffer(o)
  /\ ReadInto(o)
  /\ Lend(o, TRUE)
  /\ UNCHANGED latest

GetBufferUnread(o) ==
  /\ lent = NoLoan
  /\ GetBuffer(o)
  /\ Lend(o, FALSE)
  /\ UNCHANGED <<cells, latest>>

\* The client fills the buffer and calls mark_dirty.
MarkDirty(v) ==
  /\ lent # NoLoan
  /\ cells' = [cells EXCEPT ![lent.entry] = v]
  /\ dirty_map' = dirty_map \union {lent.entry}
  /\ lent' = [lent EXCEPT !.filled = TRUE]
  /\ latest' = [latest EXCEPT ![lent.offset] = v]
  /\ UNCHANGED <<locations, taken_map, medium>>

ReleaseBuffer ==
  /\ lent # NoLoan /\ lent.filled
  /\ ReleaseEntry(lent.entry)
  /\ UNCHANGED <<cells, locations, dirty_map, medium, latest>>

Sync ==
  /\ lent # NoLoan /\ lent.filled
  /\ SyncEntry(lent.entry)
  /\ UNCHANGED <<cells, locations, taken_map, lent, latest>>

\* flush releases the buffer first and writes it then, dirty or not.
FlushBuffer ==
  /\ lent # NoLoan /\ lent.filled
  /\ ReleaseEntry(lent.entry)
  /\ SyncEntry(lent.entry)
  /\ UNCHANGED <<cells, locations, latest>>

\* flush_dirty.
FlushDirty ==
  IF lent # NoLoan /\ lent.entry \in dirty_map THEN FlushBuffer ELSE ReleaseBuffer

Borrower ==
  \/ \E o \in Offsets : ReadSector(o) \/ GetBufferUnread(o)
  \/ \E v \in Contents : MarkDirty(v)
  \/ ReleaseBuffer \/ Sync \/ FlushBuffer \/ FlushDirty

DriverSpec == DriverInit /\ [][Borrower]_driverVars

-----------------------------------------------------------------------------
\* Types of the state.
DriverTypeOK ==
  /\ cells \in [Entries -> Contents]
  /\ locations \in [Entries -> Offsets]
  /\ taken_map \subseteq Entries /\ dirty_map \subseteq Entries
  /\ medium \in [Offsets -> Contents] /\ latest \in [Offsets -> Contents]
  /\ lent = NoLoan \/ lent \in [entry : Entries, offset : Offsets, filled : BOOLEAN]

\* The cache never runs full: the one buffer marked taken is the one lent, and
\* that is the buffer its sector is looked for in, so that whatever is written
\* goes to the sector it was stored for.
TakenIsLent ==
  /\ taken_map \subseteq {lent.entry}
  /\ lent # NoLoan => lent.offset \in Offsets /\ lent.entry = Min(WithOffset(lent.offset))

\* What was stored in a sector is on the disk, or in the dirty buffer of that
\* sector, through any eviction and any way of giving the buffer back.
NothingLost ==
  \A o \in Offsets :
    latest[o] = LET dirty == WithOffset(o) \intersect dirty_map
                IN  IF dirty = {} THEN medium[o] ELSE cells[Min(dirty)]

\* A buffer the client has read or filled holds what was last stored in its
\* sector, though every location starts as that of the first sector.
LentIsLatest == lent # NoLoan /\ lent.filled => cells[lent.entry] = latest[lent.offset]
=============================================================================
