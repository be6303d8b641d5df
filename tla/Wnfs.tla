-------------------------------- MODULE Wnfs --------------------------------
(***************************************************************************)
(* The WNFS file system under the kernel's file handles (src/src/wnfs,     *)
(* src/src/kernel/vfs), composed with its buffer cache.  One call runs at  *)
(* a time, a step for each call it makes on the cache or the disk, and     *)
(* power may fail between any two steps.                                   *)
(*                                                                         *)
(* A byte is Data once a file has written it and Junk before; an inode     *)
(* keeps its size, its nine block numbers with the word that follows them  *)
(* (indirect_block), and its name.                                         *)
(***************************************************************************)
EXTENDS Integers, SequencesExt

CONSTANTS
  NumInodes, InodesPerSector, InodeSectors,
  SectorSize, BlockSectors, Direct,   \* bytes, sectors per block, direct_blocks
  ByteBits, BitmapBytes,              \* of the block bitmap's first sector
  NumBufs, Data, Junk, Names, TooLong,      \* TooLong: the names over 63 characters
  MaxLen                              \* bound: bytes in a caller's buffer

ASSUME LayoutAssumption ==
  /\ NumInodes \in Nat \ {0} /\ InodesPerSector \in Nat \ {0} /\ InodeSectors \in Nat
  /\ NumInodes <= InodesPerSector * InodeSectors
  /\ SectorSize \in Nat \ {0} /\ BlockSectors \in Nat \ {0} /\ Direct \in Nat \ {0}
  /\ ByteBits \in Nat \ {0} /\ BitmapBytes \in Nat \ {0}
  /\ BlockSectors <= ByteBits          \* two, and eight
  /\ NumBufs \in Nat \ {0} /\ MaxLen \in Nat
  /\ TooLong \subseteq Names

\* The disk's sectors: the block bitmap, the inode bitmap, inodes, data.
BlockBitmap  == 0
InodeBitmap  == 1
InodesStart  == 2
BlockStart   == InodesStart + InodeSectors
DataSectors  == BlockStart..(BlockStart + ByteBits * BitmapBytes - 1)
Sectors      == 0..(BlockStart + ByteBits * BitmapBytes - 1)
NoSector     == -1

Inodes  == 0..(NumInodes - 1)

VARIABLES
  buf_sectors, buffer, dirty_mask, free_mask, disk, held,   \* see BufCache
  pc,
  call,      \* the call under way: what, on which file, with what argument
  local,     \* its locals
  file,      \* the shell's FileHandle
  temp,      \* the one in the Result that FileHandle::create returned
  \* history
  created,   \* the files whose creation was reported
  acked,     \* the size each had when its last write was reported
  counted    \* the bytes past the end of each that reads counted and no write
             \* has reached since

cacheVars == <<buf_sectors, buffer, dirty_mask, free_mask, disk, held>>
vars == <<cacheVars, pc, call, local, file, temp, created, acked, counted>>

\* Values and MaxRefs bound only the clients of BufCache's own specification.
Cache == INSTANCE BufCache WITH
  Values <- {Junk}, Zeros <- Junk, MaxRefs <- 2

-----------------------------------------------------------------------------
\* Where things are (wnfs.hh).
InodeSector(i) == InodesStart + i \div InodesPerSector
Slot(i)        == i % InodesPerSector
BlockSize      == BlockSectors * SectorSize

\* The words a block index may reach: direct_blocks and the one after it.
BlockWords == 0..Direct

\* An inode that was ever cleared: an inode of Junk, or a byte, is none.
InodeRecords == [size : Nat, blocks : [BlockWords -> Nat], name : Names \union {Junk}]

ASSUME JunkAssumption == Junk \notin InodeRecords /\ Data # Junk

SectorOf(ino, pos) ==
  ino.blocks[pos \div SectorSize] + (pos % BlockSize) \div SectorSize

OnDisk(i) == disk[InodeSector(i)][Slot(i)]
Marks     == disk[InodeBitmap]

NullHandle == [drive |-> FALSE, id |-> 0, pos |-> 0]
NoFile     == -1        \* u32(-1), the id of a handle that was moved from
NoCall     == [op |-> "none"]
NoLocal    == [flush |-> FALSE, sector |-> 0, n |-> 0, ok |-> TRUE]

\* format_disk: both bitmaps cleared, everything else as it was.
Formatted ==
  [s \in Sectors |->
     CASE s \in {BlockBitmap, InodeBitmap} -> {}
       [] s \in InodesStart..(BlockStart - 1) -> [k \in 0..(InodesPerSector - 1) |-> Junk]
       [] OTHER -> [k \in 0..(SectorSize - 1) |-> Junk]]

Init ==
  /\ Cache!CacheInit
  /\ disk = Formatted
  /\ pc = "idle"
  /\ call = NoCall
  /\ local = NoLocal
  /\ file = NullHandle
  /\ temp = NullHandle
  /\ created = {}
  /\ acked = [i \in Inodes |-> 0]
  /\ counted = [i \in Inodes |-> {}]

-----------------------------------------------------------------------------
\* allocate_sectors. The bits of byte k of the block bitmap that are set.
SetBits(used, k) == {j \in 0..(ByteBits - 1) : k * ByteBits + j \in used}

\* lzcnt_16 of a byte less the 8 bits it is widened by; the mutant forgets them.
ZerosAbove16(bits) == IF bits = {} THEN 2 * ByteBits ELSE 2 * ByteBits - 1 - Max(bits)
ZerosAbove(bits)   == IF bits = {} THEN ByteBits ELSE ByteBits - 1 - Max(bits)

\* tzcnt_16 of a byte: an empty one has 16.
ZerosBelow(bits) == IF bits = {} THEN 2 * ByteBits ELSE Min(bits)

\* One byte of the search: the run found so far and its start. Zeros at a
\* byte's low end extend a run, zeros at its high end start one.
SearchByte(used, amount, st, k) ==
  LET bits == SetBits(used, k)
      low  == ZerosBelow(bits)
      high == ZerosAbove(bits)
  IN CASE st.count >= amount -> st
       [] st.count < amount /\ bits = 0..(ByteBits - 1) -> [st EXCEPT !.count = 0]
       [] st.count \in 1..(amount - 1) /\ bits # 0..(ByteBits - 1) ->
            [st EXCEPT !.count = IF low = 0 THEN 0 ELSE @ + low]
       [] OTHER -> IF high = 0 THEN st
                   ELSE [pos |-> k, bit |-> ByteBits - high, count |-> high]

\* The search after the first k bytes, and after them all.
Search(used, amount) ==
  LET after[k \in 0..BitmapBytes] ==
        IF k = 0 THEN [pos |-> 0, bit |-> 0, count |-> 0]
        ELSE SearchByte(used, amount, after[k - 1], k - 1)
  IN after[BitmapBytes]

\* The bits it marks: from the first of the byte, not from the run's start.
Marked(st, amount) == {st.pos * ByteBits + k : k \in 0..(amount - 1)}

\* The sector it returns.
FirstSector(st) == st.pos * ByteBits + st.bit + BlockStart

-----------------------------------------------------------------------------
\* The steps of a call. The references it takes are held[1] and held[2], and
\* its end destroys them in reverse.
Quiet == UNCHANGED <<call, file, temp, created, acked, counted>>

Fail == pc' = "unwind" /\ local' = [local EXCEPT !.ok = FALSE]
GoTo(p) == pc' = p /\ local' = local

\* One read_buf_sector of the call.
Take(from, s, next) ==
  /\ pc = from
  /\ \/ Cache!ReadBufSector(s) /\ GoTo(next)
     \/ Cache!NoBuffer(s) /\ UNCHANGED cacheVars /\ Fail
  /\ Quiet

Start(c) ==
  /\ pc = "idle"
  /\ pc' = c.op
  /\ call' = c
  /\ local' = NoLocal
  /\ UNCHANGED <<cacheVars, file, temp, created, acked, counted>>

\* mkfile, and write, read and seek on the shell's file. A caller opens only
\* a file that was created.
Create(name) == Start([op |-> "create", name |-> name])
Open(i)      == i \in created /\ Start([op |-> "open", id |-> i])
Write(len)   == file.drive /\ Start([op |-> "write", id |-> file.id, pos |-> file.pos, len |-> len])
Read(len)    == file.drive /\ Start([op |-> "read", id |-> file.id, pos |-> file.pos, len |-> len])
Seek(pos)    == file.drive /\ Start([op |-> "seek", id |-> file.id, pos |-> pos])

\* Mutant: the sector is written with this inode alone.
WithInodeAlone(b, i, ino) ==
  [k \in DOMAIN buffer[b] |-> IF k = Slot(i) THEN ino ELSE Junk]

\* The inode of file i as its held buffer b has it, and b with it changed.
InodeIn(b, i)        == buffer[b][Slot(i)]
WithInode(b, i, ino) == [buffer[b] EXCEPT ![Slot(i)] = ino]

\* create_file: take the inode bitmap; take the sector of the first inode
\* that is free; clear the inode and write it; only then set its bit.
FreeInodes == Inodes \ buffer[held[1]]

TakeInodeBitmap == Take("create", InodeBitmap, "choose")

ChooseInode ==
  /\ pc = "choose"
  /\ \/ FreeInodes # {} /\ Take("choose", InodeSector(Min(FreeInodes)), "clear")
     \/ FreeInodes = {} /\ Fail /\ UNCHANGED cacheVars /\ Quiet

\* Mutant: the name is not set.
ClearedInodeUnnamed(old, name) ==
  [size   |-> 0,
   blocks |-> [k \in BlockWords |-> 0],
   name   |-> IF old = Junk THEN Junk ELSE old.name]

\* A name over 63 characters is refused by set_name(), which nobody asks.
ClearedInode(old, name) ==
  [size   |-> 0,
   blocks |-> [k \in BlockWords |-> 0],
   name   |-> CASE name \notin TooLong -> name
                [] name \in TooLong -> IF old = Junk THEN Junk ELSE old.name]

ClearInode ==
  /\ pc = "clear"
  /\ LET i == Min(FreeInodes) b == held[2] IN
       Cache!Store(b, WithInode(b, i, ClearedInode(InodeIn(b, i), call.name)))
  /\ GoTo("flush_clear")
  /\ Quiet

\* Mutant: the cleared inode is left for the destructor to write.
FlushClearLate ==
  /\ pc = "flush_clear"
  /\ UNCHANGED cacheVars
  /\ pc' = "mark"
  /\ local' = [local EXCEPT !.n = Min(FreeInodes)]
  /\ Quiet

FlushClear ==
  /\ pc = "flush_clear"
  /\ Cache!Flush(held[2])
  /\ pc' = "mark"
  /\ local' = [local EXCEPT !.n = Min(FreeInodes)]
  /\ Quiet

\* Mutant: the bit after the inode's is set.
MarkInodeNext ==
  /\ pc = "mark"
  /\ Cache!Store(held[1], buffer[held[1]] \union {local.n + 1})
  /\ GoTo("flush_mark")
  /\ Quiet

MarkInode ==
  /\ pc = "mark"
  /\ Cache!Store(held[1], buffer[held[1]] \union {local.n})
  /\ GoTo("flush_mark")
  /\ Quiet

FlushMark ==
  /\ pc = "flush_mark"
  /\ Cache!Flush(held[1])
  /\ GoTo("unwind")
  /\ Quiet

-----------------------------------------------------------------------------
\* write_to_file.
TakeInodeToWrite == Take("write", InodeSector(call.id), "find")

\* Mutant: the inode is reached through as_const_ptr(), which leaves no mark.
FindBlockConst ==
  /\ pc = "find"
  /\ UNCHANGED cacheVars
  /\ LET blk == call.pos \div SectorSize IN
     IF blk > Direct THEN Fail
     ELSE LET at == InodeIn(held[1], call.id).blocks[blk] IN
          /\ pc' = IF at = 0 THEN "allocate" ELSE "block"
          /\ local' = local
  /\ Quiet

\* as_ptr() marks the inode's buffer dirty. The index is compared with > .
FindBlock ==
  /\ pc = "find"
  /\ Cache!Store(held[1], buffer[held[1]])
  /\ LET blk == call.pos \div SectorSize IN
     IF blk > Direct THEN Fail
     ELSE LET at == InodeIn(held[1], call.id).blocks[blk] IN
          /\ pc' = IF at = 0 THEN "allocate" ELSE "block"
          /\ local' = local
  /\ Quiet

\* allocate_sectors reads and writes the block bitmap past the cache.
Allocate ==
  LET st == Search(disk[BlockBitmap], BlockSectors) IN
  /\ pc = "allocate"
  /\ IF st.count < BlockSectors THEN UNCHANGED cacheVars /\ Fail
     ELSE /\ Cache!WritePast(BlockBitmap, disk[BlockBitmap] \union Marked(st, BlockSectors))
          /\ local' = [local EXCEPT !.sector = FirstSector(st), !.flush = TRUE]
          /\ pc' = "link"
  /\ Quiet

LinkBlock ==
  LET b == held[1] blk == call.pos \div SectorSize IN
  /\ pc = "link"
  /\ Cache!StoreThroughPtr(b, WithInode(b, call.id,
       [InodeIn(b, call.id) EXCEPT !.blocks[blk] = local.sector]))
  /\ GoTo("block")
  /\ Quiet

TakeBlockToWrite ==
  pc = "block" /\ Take("block", SectorOf(InodeIn(held[1], call.id), call.pos), "copy")

\* One sector at most: up to its end, or to the end of the buffer.
CopyIn ==
  LET from == call.pos % SectorSize
      n    == Min({call.len, SectorSize - from})
  IN
  /\ pc = "copy"
  /\ IF n = 0 THEN UNCHANGED cacheVars
     ELSE Cache!Store(held[2], [k \in 0..(SectorSize - 1) |->
            IF k \in from..(from + n - 1) THEN Data ELSE buffer[held[2]][k]])
  /\ local' = [local EXCEPT !.n = n]
  /\ pc' = "flush_data"
  /\ Quiet

\* Mutant: the data is left for the destructor to write.
FlushDataLate ==
  /\ pc = "flush_data"
  /\ UNCHANGED cacheVars
  /\ GoTo("grow")
  /\ Quiet

FlushData ==
  /\ pc = "flush_data"
  /\ Cache!Flush(held[2])
  /\ GoTo("grow")
  /\ Quiet

\* Mutant: the comparison of the sizes is reversed.
GrowReversed ==
  LET b == held[1] i == call.id IN
  /\ pc = "grow"
  /\ pc' = "flush_inode"
  /\ IF InodeIn(b, i).size > call.pos + local.n
       THEN /\ Cache!StoreThroughPtr(b,
                 WithInode(b, i, [InodeIn(b, i) EXCEPT !.size = call.pos + local.n]))
            /\ local' = [local EXCEPT !.flush = TRUE]
       ELSE UNCHANGED <<cacheVars, local>>
  /\ Quiet

Grow ==
  LET b == held[1] i == call.id IN
  /\ pc = "grow"
  /\ pc' = "flush_inode"
  /\ IF InodeIn(b, i).size < call.pos + local.n
       THEN /\ Cache!StoreThroughPtr(b,
                 WithInode(b, i, [InodeIn(b, i) EXCEPT !.size = call.pos + local.n]))
            /\ local' = [local EXCEPT !.flush = TRUE]
       ELSE UNCHANGED <<cacheVars, local>>
  /\ Quiet

FlushInode ==
  /\ pc = "flush_inode"
  /\ IF local.flush THEN Cache!Flush(held[1]) ELSE UNCHANGED cacheVars
  /\ GoTo("unwind")
  /\ Quiet

-----------------------------------------------------------------------------
\* read_from_file.
TakeInodeToRead == Take("read", InodeSector(call.id), "locate")

LocateBlock ==
  /\ pc = "locate"
  /\ LET ino == InodeIn(held[1], call.id) blk == call.pos \div SectorSize IN
     IF call.pos >= ino.size \/ blk > Direct THEN Fail
     ELSE IF ino.blocks[blk] = 0 THEN Fail ELSE GoTo("fetch")
  /\ UNCHANGED cacheVars
  /\ Quiet

TakeBlockToRead ==
  pc = "fetch" /\ Take("fetch", SectorOf(InodeIn(held[1], call.id), call.pos), "count")

\* The bytes it takes to be left in the sector: unsigned, so that a negative
\* difference is more than any buffer holds.
BytesLeft(size, pos) == (size % SectorSize) - (pos % SectorSize) + 1

CountBytes ==
  LET left == BytesLeft(InodeIn(held[1], call.id).size, call.pos) IN
  /\ pc = "count"
  /\ local' = [local EXCEPT !.n = IF left < 0 THEN call.len ELSE Min({left, call.len})]
  /\ pc' = "unwind"
  /\ UNCHANGED cacheVars
  /\ Quiet

-----------------------------------------------------------------------------
\* FileHandle::open reads the inode's size, and seek takes it (vfs_metadata).
TakeInodeToOpen == Take("open", InodeSector(call.id), "size")
TakeInodeToSeek == Take("seek", InodeSector(call.id), "size")

GetSize ==
  /\ pc = "size"
  /\ local' = [local EXCEPT !.n = InodeIn(held[1], call.id).size]
  /\ pc' = "unwind"
  /\ UNCHANGED cacheVars
  /\ Quiet

\* The end of the call: its references are destroyed, newest first.
Unwind ==
  /\ pc = "unwind" /\ held # <<>>
  /\ Cache!Release
  /\ UNCHANGED <<pc, local, call, file, temp, created, acked, counted>>

Finish == pc' = "idle" /\ call' = NoCall /\ local' = NoLocal

Done(op) == pc = "unwind" /\ held = <<>> /\ (call.op = op)

ReturnFailed ==
  /\ pc = "unwind" /\ held = <<>> /\ ~local.ok
  /\ Finish
  /\ UNCHANGED <<cacheVars, file, temp, created, acked, counted>>

\* FileHandle::create puts a handle in the Result it returns.
ReturnCreated ==
  /\ Done("create") /\ local.ok
  /\ pc' = "move"
  /\ temp' = [drive |-> TRUE, id |-> local.n, pos |-> 0]
  /\ created' = created \union {local.n}
  /\ UNCHANGED <<cacheVars, call, local, file, acked, counted>>

\* file = util::move(result.as_ok()), and the end of the Result.
MoveHandle ==
  /\ pc = "move"
  /\ pc' = "drop"
  /\ file' = temp
  /\ temp' = [temp EXCEPT !.id = NoFile]
  /\ UNCHANGED <<cacheVars, call, local, created, acked, counted>>

DropHandle ==
  /\ pc = "drop"
  /\ Finish
  /\ temp' = NullHandle
  /\ UNCHANGED <<cacheVars, file, created, acked, counted>>

ReturnOpened ==
  /\ Done("open") /\ local.ok
  /\ Finish
  /\ file' = [drive |-> TRUE, id |-> call.id, pos |-> 0]
  /\ UNCHANGED <<cacheVars, temp, created, acked, counted>>

ReturnWritten ==
  /\ Done("write") /\ local.ok
  /\ Finish
  /\ file' = [file EXCEPT !.pos = @ + local.n]
  /\ acked' = [acked EXCEPT ![call.id] = Max({@, call.pos + local.n})]
  /\ counted' = [counted EXCEPT ![call.id] = @ \ (call.pos..(call.pos + local.n - 1))]
  /\ UNCHANGED <<cacheVars, temp, created>>

ReturnRead ==
  /\ Done("read") /\ local.ok
  /\ Finish
  /\ file' = [file EXCEPT !.pos = @ + local.n]
  /\ counted' = [counted EXCEPT ![call.id] =
       @ \union (OnDisk(call.id).size..(call.pos + local.n - 1))]
  /\ UNCHANGED <<cacheVars, temp, created, acked>>

\* Mutant: a seek goes wherever it was asked to.
ReturnSoughtAnywhere ==
  /\ Done("seek") /\ local.ok
  /\ Finish
  /\ file' = [file EXCEPT !.pos = call.pos]
  /\ UNCHANGED <<cacheVars, temp, created, acked, counted>>

\* A seek at or past the end goes to the end.
ReturnSought ==
  /\ Done("seek") /\ local.ok
  /\ Finish
  /\ file' = [file EXCEPT !.pos = IF call.pos < local.n THEN call.pos ELSE local.n]
  /\ UNCHANGED <<cacheVars, temp, created, acked, counted>>

\* Power fails and the kernel starts again, with no file.
Crash ==
  /\ Cache!CacheLost
  /\ Finish
  /\ file' = NullHandle
  /\ temp' = NullHandle
  /\ UNCHANGED <<created, acked, counted>>

-----------------------------------------------------------------------------
Steps ==
  \/ TakeInodeBitmap \/ ChooseInode \/ ClearInode \/ FlushClear
  \/ MarkInode \/ FlushMark
  \/ TakeInodeToWrite \/ FindBlock \/ Allocate \/ LinkBlock
  \/ TakeBlockToWrite \/ CopyIn \/ FlushData \/ Grow \/ FlushInode
  \/ TakeInodeToRead \/ LocateBlock \/ TakeBlockToRead \/ CountBytes
  \/ TakeInodeToOpen \/ TakeInodeToSeek \/ GetSize
  \/ Unwind \/ ReturnFailed \/ ReturnCreated \/ MoveHandle \/ DropHandle
  \/ ReturnOpened \/ ReturnWritten \/ ReturnRead \/ ReturnSought

Calls ==
  \/ \E name \in Names : Create(name)
  \/ \E i \in Inodes : Open(i)
  \/ \E len \in 0..MaxLen : Write(len)
  \/ \E len \in 1..MaxLen : Read(len)
  \/ \E pos \in 0..((Direct + 1) * SectorSize) : Seek(pos)

Next == Steps \/ Calls \/ Crash

Spec == Init /\ [][Next]_vars
-----------------------------------------------------------------------------
\* Types of the state outside the cache and the disk; a sector that was
\* allocated is one of the data area's.
TypeOK ==
  /\ file \in [drive : BOOLEAN, id : Inodes, pos : Nat]
  /\ temp \in [drive : BOOLEAN, id : Inodes \union {NoFile}, pos : {0}]
  /\ local \in [flush : BOOLEAN, sector : {0} \union DataSectors, n : Nat, ok : BOOLEAN]
  /\ Len(held) <= 2
  /\ created \subseteq Inodes
  /\ acked \in [Inodes -> 0..((Direct + 1) * SectorSize)]
  /\ counted \in [Inodes -> SUBSET Nat]

\* No path through the file system, error returns included, leaks a buffer,
\* takes one twice, evicts what is not on disk or leaves a clean buffer with
\* bytes the disk has not, which a late store through a raw pointer would.
CacheKept ==
  /\ Cache!FreeMaskExact
  /\ Cache!Coherent
  /\ pc = "idle" => held = <<>>

\* "Only now should we try writing to the bitmap": wherever power fails, an
\* inode marked in the bitmap on disk has been cleared on disk.
MarkedAreClear == \A i \in Marks : OnDisk(i) # Junk

\* What a caller was told survives: a file whose creation was reported stays
\* marked, and it stays as long as the writes that were reported made it.
ReportedSurvives ==
  \A i \in created : i \in Marks /\ OnDisk(i).size >= acked[i]

\* An inode number is reported by create_file once, restarts included.
CreateIsFresh == [][\A i \in created : ~(pc = "unwind" /\ pc' = "move" /\ temp'.id = i)]_vars

\* Of an inode sector a call changes its own file's inode only.
NeighboursKept ==
  [][\A i \in Marks :
       OnDisk(i)' # OnDisk(i) => call.op = "write" /\ call.id = i]_vars

\* Wherever power fails, every byte that the size on disk covers is in a block
\* and was written: data goes out before the inode that makes it part of the
\* file. The hole that a file may have is one that read_from_file made, counting
\* bytes past the end, over which the handle went on to the next write.
SizeIsBacked ==
  \A i \in Marks : \A p \in 0..(OnDisk(i).size - 1) \ counted[i] :
    /\ OnDisk(i).blocks[p \div SectorSize] # 0
    /\ disk[SectorOf(OnDisk(i), p)][p % SectorSize] # Junk

\* Nothing but such a read takes a handle past the end of its file: a write has
\* grown the file before the handle moves, and a seek stops at the size.
HandleInFile ==
  pc = "idle" /\ file.drive =>
    OnDisk(file.id).size..(file.pos - 1) \subseteq counted[file.id]

\* "Returns the first sector where the sectors were allocated": no two blocks
\* of files share a sector.
BlocksDisjoint ==
  LET Blocks == {x \in Marks \X BlockWords : OnDisk(x[1]).blocks[x[2]] # 0}
      Span(x) == OnDisk(x[1]).blocks[x[2]]..(OnDisk(x[1]).blocks[x[2]] + BlockSectors - 1)
  IN \A x, y \in Blocks : x # y => Span(x) \intersect Span(y) = {}

\* A file created with a name that fits has that name on disk when its creation
\* is reported, whatever its inode's slot held; a longer one is refused by
\* set_name(), which leaves the slot's old name, and the creation is reported.
NameIsKept ==
  pc = "move" /\ call.name \notin TooLong => OnDisk(temp.id).name = call.name
=============================================================================
