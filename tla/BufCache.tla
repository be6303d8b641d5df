------------------------------ MODULE BufCache ------------------------------
(***************************************************************************)
(* The buffer cache of the file system (src/src/wnfs/cache.hh): NUM_BUFS   *)
(* sector buffers in front of the disk, handed out as BufCacheRef objects  *)
(* whose destructor gives the buffer back and writes it if it is dirty.    *)
(*                                                                         *)
(* Each operation is an action on the cache's state.  The kernel has one   *)
(* thread and no handler uses the cache, so operations do not overlap;     *)
(* power may fail between any two of them.  A sector write is atomic and   *)
(* does not fail (Ahci.tla shows what the driver makes of a failure).      *)
(*                                                                         *)
(* What clients may call is the first conjunct of the actions of Client;   *)
(* Wnfs.tla shows that the file system keeps to it.                        *)
(***************************************************************************)
EXTENDS Integers, SequencesExt

CONSTANTS
  Sectors, Values,
  Zeros,     \* the value of a buffer of zeros
  NumBufs,   \* NUM_BUFS
  NoSector,  \* u32(-1): the buffer has held no sector yet
  MaxRefs    \* bound: references a client holds at once

ASSUME NumBufsAssumption  == NumBufs \in Nat \ {0}
ASSUME NoSectorAssumption == NoSector \notin Sectors
ASSUME ZerosAssumption    == Zeros \in Values

Bufs == 0..(NumBufs - 1)

VARIABLES
  buf_sectors,  \* _buf_sectors
  buffer,       \* _buffer, one value per sector buffer
  dirty_mask,   \* _buffer_dirty_mask
  free_mask,    \* _buffer_free_mask
  disk,
  held          \* the buffers of the live BufCacheRefs, the newest last

cacheVars == <<buf_sectors, buffer, dirty_mask, free_mask, disk, held>>

CacheInit ==
  /\ buf_sectors = [b \in Bufs |-> NoSector]
  /\ buffer = [b \in Bufs |-> Zeros]
  /\ dirty_mask = {}
  /\ free_mask = Bufs
  /\ held = <<>>

-----------------------------------------------------------------------------
Held  == {held[i] : i \in DOMAIN held}

\* The sectors in use.
Users == {buf_sectors[b] : b \in Held}

\* buf_with_sector(): the buffers tagged with the sector, of which the first
\* is taken. The mutant never finds one.
WithSectorNone(s) == {b \in {} : buf_sectors[b] = s}
WithSector(s) == {b \in Bufs : buf_sectors[b] = s}

\* Mutant: the buffer handed out stays in the free mask.
GrabUnmasked(s, b) ==
  /\ buf_sectors' = [buf_sectors EXCEPT ![b] = s]
  /\ free_mask' = free_mask
  /\ held' = Append(held, b)

\* The constructor of BufCacheRef: tag the buffer and take it.
Grab(s, b) ==
  /\ buf_sectors' = [buf_sectors EXCEPT ![b] = s]
  /\ free_mask' = free_mask \ {b}
  /\ held' = Append(held, b)

Hit(s) ==
  /\ WithSector(s) # {}
  /\ Grab(s, Min(WithSector(s)))
  /\ UNCHANGED <<buffer, dirty_mask, disk>>

\* The lowest free buffer takes the sector, whatever it held.
Miss(s) ==
  /\ WithSector(s) = {} /\ free_mask # {}
  /\ Grab(s, Min(free_mask))
  /\ buffer' = [buffer EXCEPT ![Min(free_mask)] = disk[s]]
  /\ UNCHANGED <<dirty_mask, disk>>

\* read_buf_sector(s), and the error it returns when every buffer is taken.
ReadBufSector(s) == Hit(s) \/ Miss(s)
NoBuffer(s)      == WithSector(s) = {} /\ free_mask = {}

\* write() and as_ptr(): get_val() marks the buffer dirty for the bytes the
\* caller stores through the reference or the pointer it returns.
Store(b, v) ==
  /\ buffer' = [buffer EXCEPT ![b] = v]
  /\ dirty_mask' = dirty_mask \union {b}
  /\ UNCHANGED <<buf_sectors, free_mask, disk, held>>

\* A later store through the pointer as_ptr() returned: no mark.
StoreThroughPtr(b, v) ==
  /\ buffer' = [buffer EXCEPT ![b] = v]
  /\ UNCHANGED <<buf_sectors, dirty_mask, free_mask, disk, held>>

\* flush(): the mark goes, the sector is written.
Flush(b) ==
  /\ dirty_mask' = dirty_mask \ {b}
  /\ disk' = [disk EXCEPT ![buf_sectors[b]] = buffer[b]]
  /\ UNCHANGED <<buf_sectors, buffer, free_mask, held>>

\* Mutant: the destructor gives the buffer back and leaves it dirty.
WriteIfDirtyNever(b) == UNCHANGED <<dirty_mask, disk>>

WriteIfDirty(b) ==
  IF b \in dirty_mask
    THEN /\ dirty_mask' = dirty_mask \ {b}
         /\ disk' = [disk EXCEPT ![buf_sectors[b]] = buffer[b]]
    ELSE UNCHANGED <<dirty_mask, disk>>

\* The destructor of the newest reference: its bit of the free mask is
\* toggled, not set. References are locals, destroyed newest first.
Release ==
  LET b == Last(held) IN
  /\ held # <<>>
  /\ held' = Front(held)
  /\ free_mask' = (free_mask \ {b}) \union ({b} \ free_mask)
  /\ WriteIfDirty(b)
  /\ UNCHANGED <<buf_sectors, buffer>>

\* A sector written with AHCIState::write, past the cache.
WritePast(s, v) ==
  /\ disk' = [disk EXCEPT ![s] = v]
  /\ UNCHANGED <<buf_sectors, buffer, dirty_mask, free_mask, held>>

\* Power fails: memory is lost, and the kernel starts with an empty cache.
CacheLost ==
  /\ buf_sectors' = [b \in Bufs |-> NoSector]
  /\ buffer' = [b \in Bufs |-> Zeros]
  /\ dirty_mask' = {}
  /\ free_mask' = Bufs
  /\ held' = <<>>
  /\ disk' = disk

-----------------------------------------------------------------------------
\* A client that holds a sector once at a time, stores through a pointer only
\* until it flushes, and writes past the cache only what is not in it.
Client ==
  \/ \E s \in Sectors :
       /\ s \notin Users /\ Len(held) < MaxRefs
       /\ ReadBufSector(s)
  \/ \E b \in Held, v \in Values : Store(b, v)
  \/ \E b \in Held \intersect dirty_mask, v \in Values : StoreThroughPtr(b, v)
  \/ \E b \in Held : Flush(b)
  \/ \E s \in Sectors, v \in Values : WithSector(s) = {} /\ WritePast(s, v)
  \/ Release
  \/ CacheLost

ClientInit == CacheInit /\ disk \in [Sectors -> Values]

CacheSpec == ClientInit /\ [][Client]_cacheVars
-----------------------------------------------------------------------------
\* Types of the state; the buffers are those the array has room for.
CacheTypeOK ==
  /\ buf_sectors \in [Bufs -> Sectors \union {NoSector}]
  /\ buffer \in [Bufs -> Values]
  /\ dirty_mask \subseteq Bufs
  /\ free_mask \subseteq Bufs
  /\ held \in Seq(Bufs)
  /\ disk \in [Sectors -> Values]

\* The free mask, cleared by grab and toggled by release, says exactly which
\* buffers no reference is held to: none is handed out twice, none is lost.
FreeMaskExact ==
  /\ free_mask = Bufs \ Held
  /\ \A i, j \in DOMAIN held : i # j => held[i] # held[j]

\* A sector has one buffer at most, a buffer nobody holds is clean, and a
\* clean buffer holds what the disk holds: evicting one loses nothing.
Coherent ==
  /\ \A s \in Sectors, b, c \in Bufs :
       b # c => ~(buf_sectors[b] = s /\ buf_sectors[c] = s)
  /\ dirty_mask \subseteq Held
  /\ \A b \in Bufs \ dirty_mask :
       buf_sectors[b] # NoSector => buffer[b] = disk[buf_sectors[b]]

\* What a reader sees of each sector.
Seen == [s \in Sectors |->
           IF WithSector(s) = {} THEN disk[s] ELSE buffer[Min(WithSector(s))]]

SeenStore == INSTANCE SectorStore WITH
  current <- Seen, stable <- disk, users <- Users

\* The cache implements the sector store: what a client stored is seen until
\* overwritten, through any eviction, and reaches the disk unchanged.
ImplementsStore == SeenStore!Spec
=============================================================================
