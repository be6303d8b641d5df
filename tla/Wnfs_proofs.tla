----------------------------- MODULE Wnfs_proofs -----------------------------
(***************************************************************************)
(* The file system's safety properties, proved for every layout, number of *)
(* inodes, buffers and bytes.                                              *)
(***************************************************************************)
EXTENDS Wnfs, SequenceTheorems, WellFoundedInduction, TLAPS

-----------------------------------------------------------------------------
\* Quotient and remainder.
LEMMA DivMod ==
  ASSUME NEW a \in Nat, NEW d \in Nat \ {0}
  PROVE  /\ a \div d \in Nat /\ a % d \in 0..(d - 1)
         /\ a = d * (a \div d) + (a % d)
<1>1. a \div d \in Nat /\ a % d \in 0..(d - 1)
  OBVIOUS
<1>2. ASSUME NEW q \in Int, NEW r \in Int, q = a \div d, r = a % d
      PROVE  a = d * q + r
  <2>1. a = q * d + r
    BY <1>2, Z3
  <2> QED
    BY <2>1
<1> QED
  BY <1>1, <1>2

LEMMA QuotientBound ==
  ASSUME NEW a \in Nat, NEW d \in Nat \ {0}, NEW m \in Nat, a < d * m
  PROVE  a \div d < m
<1> DEFINE q == a \div d
<1>1. q \in Nat /\ d * q <= a
  BY DivMod
<1> HIDE DEF q
<1>2. ASSUME q >= m PROVE FALSE
  <2>1. d * q >= d * m
    BY <1>1, <1>2
  <2> QED
    BY <1>1, <2>1
<1> QED
  BY <1>1, <1>2 DEF q

\* A set of numbers that is not empty has a least one, and Min finds it.
LEMMA MinOfNats ==
  ASSUME NEW S \in SUBSET Nat, S # {}
  PROVE  Min(S) \in S /\ \A y \in S : Min(S) <= y
<1>1. PICK x \in S : \A y \in S : <<y, x>> \notin OpToRel(<, Nat)
  BY NatLessThanWellFounded, WFMin, Zenon
<1>2. \A y \in S : x <= y
  <2> SUFFICES ASSUME NEW y \in S, ~(x <= y) PROVE FALSE
    OBVIOUS
  <2>1. <<y, x>> \in Nat \X Nat /\ y < x
    BY SMT
  <2> QED
    BY <2>1, <1>1 DEF OpToRel
<1> QED
  BY <1>2 DEF Min

\* A bounded one has a greatest, and Max finds it.
LEMMA MaxOfNats ==
  ASSUME NEW n \in Nat, NEW S \in SUBSET (0..n), S # {}
  PROVE  Max(S) \in S
<1> DEFINE T == {n - x : x \in S}
<1>1. T \in SUBSET Nat /\ T # {}
  <2>1. \A x \in S : x \in 0..n
    OBVIOUS
  <2>2. \A x \in S : n - x \in Nat
    BY <2>1
  <2> QED
    BY <2>2
<1>2. Min(T) \in T /\ \A y \in T : Min(T) <= y
  BY <1>1, MinOfNats
<1>3. PICK x \in S : n - x = Min(T)
  BY <1>2
<1>4. \A y \in S : x >= y
  <2> SUFFICES ASSUME NEW y \in S PROVE x >= y
    OBVIOUS
  <2>1. n - x <= n - y
    BY <1>2, <1>3
  <2> QED
    BY <2>1
<1> QED
  BY <1>4 DEF Max

LEMMA MinOfTwo ==
  ASSUME NEW a \in Int, NEW b \in Int
  PROVE  Min({a, b}) = IF a <= b THEN a ELSE b
BY DEF Min

LEMMA MaxOfTwo ==
  ASSUME NEW a \in Int, NEW b \in Int
  PROVE  Max({a, b}) = IF a >= b THEN a ELSE b
BY DEF Max

-----------------------------------------------------------------------------
(***************************************************************************)
(* allocate_sectors: wherever the bits are, a run it accepts lies inside   *)
(* the bitmap, though it may hold sectors that are taken.                  *)
(***************************************************************************)
Runs == [pos : Nat, bit : Nat, count : Nat]

\* After k bytes: a run too short is within them, and so are the sectors
\* asked for of a run that is long enough.
RunWithin(st, amount, k) ==
  /\ st \in Runs
  /\ st.count > 0 => st.pos * ByteBits + st.bit + (IF st.count < amount THEN st.count ELSE amount)
                       <= k * ByteBits

LEMMA ZeroCounts ==
  ASSUME NEW used, NEW k \in Nat
  PROVE  LET bits == SetBits(used, k) IN
         /\ ZerosBelow(bits) \in 0..(ByteBits - 1) \union {2 * ByteBits}
         /\ ZerosAbove(bits) \in 0..ByteBits
<1> DEFINE bits == SetBits(used, k)
<1>1. bits \in SUBSET (0..(ByteBits - 1)) /\ ByteBits - 1 \in Nat
  BY LayoutAssumption DEF SetBits
<1>2. CASE bits = {}
  BY <1>2, LayoutAssumption DEF ZerosBelow, ZerosAbove
<1>3. CASE bits # {}
  <2>1. Min(bits) \in 0..(ByteBits - 1)
    <3>1. bits \in SUBSET Nat
      BY <1>1
    <3> QED
      BY <1>1, <1>3, <3>1, MinOfNats
  <2>2. Max(bits) \in 0..(ByteBits - 1)
    BY <1>1, <1>3, MaxOfNats
  <2> QED
    BY <1>3, <2>1, <2>2, LayoutAssumption DEF ZerosBelow, ZerosAbove
<1> QED
  BY <1>2, <1>3

LEMMA SearchByteStays ==
  ASSUME NEW used, NEW amount \in 1..ByteBits, NEW k \in Nat, NEW st \in Runs
  PROVE  /\ SearchByte(used, amount, st, k) \in Runs
         /\ RunWithin(st, amount, k) => RunWithin(SearchByte(used, amount, st, k), amount, k + 1)
<1> DEFINE bits == SetBits(used, k)
           low  == ZerosBelow(bits)
           high == ZerosAbove(bits)
           base == k * ByteBits
           next == SearchByte(used, amount, st, k)
<1>1. low \in 0..(ByteBits - 1) \union {2 * ByteBits} /\ high \in 0..ByteBits
  BY ZeroCounts
<1>2. base \in Nat /\ (k + 1) * ByteBits = base + ByteBits /\ ByteBits \in Nat \ {0}
  BY LayoutAssumption
<1>3. st.pos * ByteBits \in Nat
  BY LayoutAssumption DEF Runs
<1> HIDE DEF bits, low, high
<1>4. \/ st.count >= amount /\ next = st
      \/ st.count < amount /\ next = [st EXCEPT !.count = 0]
      \/ /\ st.count \in 1..(amount - 1) /\ low # 0
         /\ next = [st EXCEPT !.count = st.count + low]
      \/ st.count = 0 /\ next = st
      \/ /\ st.count = 0 /\ high # 0
         /\ next = [pos |-> k, bit |-> ByteBits - high, count |-> high]
  <2> DEFINE full == bits = 0..(ByteBits - 1)
  <2>1. st.count \in Nat /\ amount \in Nat
    BY DEF Runs
  <2>2. next = CASE st.count >= amount -> st
                 [] st.count < amount /\ full -> [st EXCEPT !.count = 0]
                 [] st.count \in 1..(amount - 1) /\ ~full ->
                      [st EXCEPT !.count = IF low = 0 THEN 0 ELSE st.count + low]
                 [] OTHER -> IF high = 0 THEN st
                             ELSE [pos |-> k, bit |-> ByteBits - high, count |-> high]
    BY DEF SearchByte, bits, low, high
  <2> HIDE DEF full, next
  <2>3. CASE st.count >= amount
    BY <2>1, <2>2, <2>3
  <2>4. CASE st.count < amount /\ full
    BY <2>1, <2>2, <2>4
  <2>5. CASE st.count \in 1..(amount - 1) /\ ~full
    BY <2>1, <2>2, <2>5
  <2>6. CASE st.count = 0 /\ ~full
    BY <2>1, <2>2, <2>6
  <2> QED
    BY <2>1, <2>3, <2>4, <2>5, <2>6
<1> HIDE DEF next
<1>5. next \in Runs
  BY <1>1, <1>2, <1>4 DEF Runs
<1>6. ASSUME RunWithin(st, amount, k) PROVE RunWithin(next, amount, k + 1)
  BY <1>1, <1>2, <1>3, <1>4, <1>5, <1>6 DEF RunWithin, Runs
<1> QED
  BY <1>5, <1>6 DEF next

\* The recursive definition has a value: were there a least n for which there
\* is none over 0..n, the one over 0..n - 1 would extend to it.
NoRun == [pos |-> 0, bit |-> 0, count |-> 0]

LEMMA SearchHasValue ==
  ASSUME NEW used, NEW amount \in 1..ByteBits
  PROVE  \E f \in [0..BitmapBytes -> Runs] :
           /\ f[0] = NoRun
           /\ \A k \in 1..BitmapBytes : f[k] = SearchByte(used, amount, f[k - 1], k - 1)
<1> DEFINE Upto(n, f) ==
             /\ f \in [0..n -> Runs]
             /\ f[0] = NoRun
             /\ \A k \in 1..n : f[k] = SearchByte(used, amount, f[k - 1], k - 1)
           T == {n \in Nat : ~\E f : Upto(n, f)}
<1>1. T = {}
  <2> SUFFICES ASSUME T # {} PROVE FALSE
    OBVIOUS
  <2>1. T \in SUBSET Nat
    OBVIOUS
  <2>2. Min(T) \in T /\ \A y \in T : Min(T) <= y
    BY <2>1, MinOfNats
  <2> DEFINE n == Min(T)
  <2>3. n \in Nat /\ ~\E f : Upto(n, f)
    BY <2>2
  <2>4. n # 0
    <3>1. Upto(0, [k \in 0..0 |-> NoRun])
      BY DEF NoRun, Runs
    <3> QED
      BY <2>3, <3>1
  <2>5. n - 1 \in Nat /\ n - 1 \notin T
    <3>1. n - 1 \in Nat /\ ~(n <= n - 1)
      BY <2>3, <2>4
    <3> QED
      BY <2>2, <3>1
  <2> HIDE DEF n
  <2>6. PICK f : Upto(n - 1, f)
    BY <2>5
  <2> DEFINE last == SearchByte(used, amount, f[n - 1], n - 1)
             g    == [k \in 0..n |-> IF k = n THEN last ELSE f[k]]
  <2>7. f[n - 1] \in Runs /\ last \in Runs
    BY <2>5, <2>6, SearchByteStays
  <2>8. g \in [0..n -> Runs]
    BY <2>3, <2>6, <2>7
  <2>9. g[0] = NoRun
    BY <2>3, <2>4, <2>6
  <2>10. ASSUME NEW k \in 1..n PROVE g[k] = SearchByte(used, amount, g[k - 1], k - 1)
    <3>1. g[k - 1] = f[k - 1]
      BY <2>3
    <3>2. CASE k = n
      BY <3>1, <3>2, <2>3
    <3>3. CASE k # n
      BY <3>1, <3>3, <2>3, <2>6
    <3> QED
      BY <3>2, <3>3
  <2> QED
    BY <2>3, <2>8, <2>9, <2>10
<1>2. PICK f : Upto(BitmapBytes, f)
  BY <1>1, LayoutAssumption
<1> QED
  BY <1>2

LEMMA SearchWithin ==
  ASSUME NEW used, NEW amount \in 1..ByteBits
  PROVE  RunWithin(Search(used, amount), amount, BitmapBytes)
<1> DEFINE IsSearch(f) == f = [k \in 0..BitmapBytes |->
                                 IF k = 0 THEN [pos |-> 0, bit |-> 0, count |-> 0]
                                 ELSE SearchByte(used, amount, f[k - 1], k - 1)]
           after == CHOOSE f : IsSearch(f)
<1>1. BitmapBytes \in Nat /\ NoRun \in Runs
  BY LayoutAssumption DEF Runs, NoRun
<1>2. \E f : IsSearch(f)
  <2>1. PICK f \in [0..BitmapBytes -> Runs] :
          /\ f[0] = NoRun
          /\ \A k \in 1..BitmapBytes : f[k] = SearchByte(used, amount, f[k - 1], k - 1)
    BY SearchHasValue
  <2> QED
    BY <1>1, <2>1 DEF NoRun
<1>3. IsSearch(after)
  BY <1>2
<1>4. Search(used, amount) = after[BitmapBytes]
  BY DEF Search
<1> HIDE DEF after
<1> DEFINE T == {k \in 0..BitmapBytes : ~RunWithin(after[k], amount, k)}
<1>5. T = {}
  <2> SUFFICES ASSUME T # {} PROVE FALSE
    OBVIOUS
  <2> DEFINE k == Min(T)
  <2>1. k \in T /\ \A y \in T : k <= y
    <3>1. T \in SUBSET Nat
      BY <1>1
    <3> QED
      BY <3>1, MinOfNats
  <2> HIDE DEF k
  <2>2. k \in 0..BitmapBytes /\ ~RunWithin(after[k], amount, k)
    BY <2>1
  <2>3. k # 0
    <3>1. RunWithin(NoRun, amount, 0)
      BY <1>1 DEF RunWithin, NoRun
    <3>2. after[0] = NoRun
      BY <1>1, <1>3 DEF NoRun
    <3> QED
      BY <2>2, <3>1, <3>2
  <2>4. k - 1 \in 0..BitmapBytes /\ k - 1 \in Nat /\ ~(k <= k - 1) /\ (k - 1) + 1 = k
    BY <1>1, <2>2, <2>3
  <2>5. RunWithin(after[k - 1], amount, k - 1)
    BY <2>1, <2>4
  <2>6. after[k] = SearchByte(used, amount, after[k - 1], k - 1)
    BY <1>3, <2>2, <2>3
  <2>7. RunWithin(after[k], amount, (k - 1) + 1)
    BY <2>4, <2>5, <2>6, SearchByteStays DEF RunWithin
  <2> QED
    BY <2>2, <2>4, <2>7
<1> QED
  BY <1>1, <1>4, <1>5
-----------------------------------------------------------------------------
(***************************************************************************)
(* What each sector holds: a bitmap is a set of numbers, an inode sector a *)
(* table of inodes, any other sector bytes. A block number is 0 or that of *)
(* a block inside the data area.                                           *)
(***************************************************************************)
BlockStarts == {b \in DataSectors : b + BlockSectors - 1 \in DataSectors}

FileInodes ==
  {ino \in InodeRecords :
     /\ ino.size <= (Direct + 1) * SectorSize
     /\ \A k \in BlockWords : ino.blocks[k] \in {0} \union BlockStarts}

InodeTables == [0..(InodesPerSector - 1) -> FileInodes \union {Junk}]
DataBytes   == [0..(SectorSize - 1) -> {Data, Junk}]

Shape(s) == IF s = BlockBitmap THEN SUBSET Nat
            ELSE IF s = InodeBitmap THEN SUBSET Inodes
            ELSE IF s < BlockStart THEN InodeTables ELSE DataBytes

SectorValues == (SUBSET Nat) \union InodeTables \union DataBytes \union {Junk}

\* Where the sectors are, and that no two kinds of them meet.
LEMMA SectorLayout ==
  /\ BlockStart \in Nat /\ BlockStart >= 2
  /\ DataSectors \subseteq Sectors /\ Sectors \subseteq Nat
  /\ BlockBitmap \in Sectors /\ InodeBitmap \in Sectors /\ NoSector \notin Sectors
  /\ \A s \in DataSectors : s >= BlockStart
  /\ \A s \in 0..BlockStart : s \in Sectors
<1>1. ByteBits * BitmapBytes \in Nat \ {0}
  BY LayoutAssumption
<1> QED
  BY <1>1, LayoutAssumption
     DEF BlockStart, InodesStart, DataSectors, Sectors, BlockBitmap, InodeBitmap, NoSector

LEMMA InodePlace ==
  ASSUME NEW i \in Inodes
  PROVE  /\ i \in Nat
         /\ InodeSector(i) \in Sectors /\ InodeSector(i) \notin DataSectors
         /\ InodeSector(i) \in 2..(BlockStart - 1)
         /\ Slot(i) \in 0..(InodesPerSector - 1)
<1>1. i \in Nat /\ i < InodesPerSector * InodeSectors
  BY LayoutAssumption DEF Inodes
<1>2. i \div InodesPerSector \in Nat /\ i % InodesPerSector \in 0..(InodesPerSector - 1)
  BY <1>1, DivMod, LayoutAssumption
<1>3. i \div InodesPerSector < InodeSectors
  BY <1>1, QuotientBound, LayoutAssumption
<1> QED
  BY <1>1, <1>2, <1>3, SectorLayout, LayoutAssumption
     DEF InodeSector, Slot, BlockStart, InodesStart

\* Two inodes in one slot of one sector are one.
LEMMA InodePlaceUnique ==
  ASSUME NEW i \in Inodes, NEW j \in Inodes,
         InodeSector(i) = InodeSector(j), Slot(i) = Slot(j)
  PROVE  i = j
<1>1. i \in Nat /\ j \in Nat
  BY InodePlace
<1>2. /\ i = InodesPerSector * (i \div InodesPerSector) + (i % InodesPerSector)
      /\ j = InodesPerSector * (j \div InodesPerSector) + (j % InodesPerSector)
      /\ i \div InodesPerSector \in Nat /\ j \div InodesPerSector \in Nat
  BY <1>1, DivMod, LayoutAssumption
<1>3. i \div InodesPerSector = j \div InodesPerSector
  BY <1>2 DEF InodeSector, InodesStart
<1>4. i % InodesPerSector = j % InodesPerSector
  BY DEF Slot
<1> QED
  BY <1>2, <1>3, <1>4

\* The sector of a position of a file is one of the data area's.
LEMMA SectorOfInArea ==
  ASSUME NEW ino \in FileInodes, NEW pos \in Nat, pos \div SectorSize \in BlockWords,
         ino.blocks[pos \div SectorSize] # 0
  PROVE  SectorOf(ino, pos) \in DataSectors
<1> DEFINE b == ino.blocks[pos \div SectorSize]
           r == pos % BlockSize
<1>1. b \in DataSectors /\ b + BlockSectors - 1 \in DataSectors
  BY DEF FileInodes, BlockStarts
<1>2. BlockSize \in Nat \ {0} /\ BlockSize = SectorSize * BlockSectors
  BY LayoutAssumption DEF BlockSize
<1>3. r \in Nat /\ r < BlockSize
  BY <1>2
<1>4. r \div SectorSize \in Nat /\ r \div SectorSize < BlockSectors
  <2> HIDE DEF r
  <2> QED
    BY <1>2, <1>3, DivMod, QuotientBound, LayoutAssumption
<1> HIDE DEF b, r
<1>5. SectorOf(ino, pos) = b + r \div SectorSize
  BY DEF SectorOf, b, r
<1> QED
  BY <1>1, <1>4, <1>5, LayoutAssumption, SectorLayout DEF DataSectors

\* What allocate_sectors returns is a block of the data area.
LEMMA AllocatedBlock ==
  ASSUME NEW used, Search(used, BlockSectors).count >= BlockSectors
  PROVE  /\ FirstSector(Search(used, BlockSectors)) \in BlockStarts
         /\ Marked(Search(used, BlockSectors), BlockSectors) \subseteq Nat
<1> DEFINE st == Search(used, BlockSectors)
<1>1. BlockSectors \in 1..ByteBits
  BY LayoutAssumption
<1>2. RunWithin(st, BlockSectors, BitmapBytes)
  BY <1>1, SearchWithin
<1> HIDE DEF st
<1>3. st \in Runs /\ st.pos * ByteBits \in Nat
      /\ st.pos * ByteBits + st.bit + BlockSectors <= BitmapBytes * ByteBits
  BY <1>2, LayoutAssumption DEF RunWithin, Runs, st
<1>4. BitmapBytes * ByteBits = ByteBits * BitmapBytes /\ BitmapBytes * ByteBits \in Nat
  BY LayoutAssumption
<1>5. FirstSector(st) \in BlockStarts
  BY <1>1, <1>3, <1>4, SectorLayout, LayoutAssumption DEF FirstSector, BlockStarts, DataSectors, Runs
<1>6. Marked(st, BlockSectors) \subseteq Nat
  BY <1>3, LayoutAssumption DEF Marked
<1> QED
  BY <1>5, <1>6 DEF st
-----------------------------------------------------------------------------
(***************************************************************************)
(* The buffer cache under the file system. What BufCache_proofs shows of   *)
(* its operations is restated in terms of what the file system sees: the   *)
(* sectors its references are to, and what their buffers hold.             *)
(***************************************************************************)
Kept == INSTANCE BufCache_proofs WITH
  Values <- SectorValues, Zeros <- Junk, MaxRefs <- 2

\* The bitmap that is written past the cache is never in it.
CacheInv ==
  /\ Kept!Inv
  /\ \A b \in Cache!Bufs : buf_sectors[b] # BlockBitmap

Refs   == Len(held)
Tag(k) == buf_sectors[held[k]]
Val(k) == buffer[held[k]]

LEMMA CacheAssumptions ==
  Kept!NumBufsAssumption /\ Kept!NoSectorAssumption /\ Kept!ZerosAssumption
BY LayoutAssumption, SectorLayout
   DEF Kept!NumBufsAssumption, Kept!NoSectorAssumption, Kept!ZerosAssumption, SectorValues

LEMMA SameCache ==
  /\ Cache!Bufs = Kept!Bufs /\ Cache!Held = Kept!Held
  /\ (Cache!CacheInit <=> Kept!CacheInit)
  /\ \A s : Cache!ReadBufSector(s) <=> Kept!ReadBufSector(s)
  /\ \A b, v : Cache!Store(b, v) <=> Kept!Store(b, v)
  /\ \A b, v : Cache!StoreThroughPtr(b, v) <=> Kept!StoreThroughPtr(b, v)
  /\ \A b : Cache!Flush(b) <=> Kept!Flush(b)
  /\ \A s, v : Cache!WritePast(s, v) <=> Kept!WritePast(s, v)
  /\ (Cache!Release <=> Kept!Release)
  /\ (Cache!CacheLost <=> Kept!CacheLost)
<1>1. Cache!Bufs = Kept!Bufs /\ Cache!Held = Kept!Held
  BY DEF Cache!Bufs, Kept!Bufs, Cache!Held, Kept!Held
<1>2. Cache!CacheInit <=> Kept!CacheInit
  BY <1>1 DEF Cache!CacheInit, Kept!CacheInit
<1>3. ASSUME NEW s PROVE Cache!ReadBufSector(s) <=> Kept!ReadBufSector(s)
  <2>1. \A S : Cache!Min(S) = Kept!Min(S)
    BY DEF Cache!Min, Kept!Min
  <2> QED
    BY <1>1, <2>1 DEF Cache!ReadBufSector, Kept!ReadBufSector, Cache!Hit, Kept!Hit, Cache!Miss,
                      Kept!Miss, Cache!Grab, Kept!Grab, Cache!WithSector, Kept!WithSector
<1>4. ASSUME NEW b, NEW v
      PROVE  /\ Cache!Store(b, v) <=> Kept!Store(b, v)
             /\ Cache!StoreThroughPtr(b, v) <=> Kept!StoreThroughPtr(b, v)
             /\ Cache!Flush(b) <=> Kept!Flush(b)
             /\ Cache!WritePast(b, v) <=> Kept!WritePast(b, v)
  BY DEF Cache!Store, Kept!Store, Cache!StoreThroughPtr, Kept!StoreThroughPtr,
         Cache!Flush, Kept!Flush, Cache!WritePast, Kept!WritePast
<1>5. Cache!Release <=> Kept!Release
  <2>1. Cache!Last(held) = Kept!Last(held) /\ Cache!Front(held) = Kept!Front(held)
    BY DEF Cache!Last, Kept!Last, Cache!Front, Kept!Front
  <2> QED
    BY <2>1 DEF Cache!Release, Kept!Release, Cache!WriteIfDirty, Kept!WriteIfDirty
<1>6. Cache!CacheLost <=> Kept!CacheLost
  BY <1>1 DEF Cache!CacheLost, Kept!CacheLost
<1> QED
  BY <1>1, <1>2, <1>3, <1>4, <1>5, <1>6
\* The references are to buffers, and to distinct ones of distinct sectors.
LEMMA RefsOfCache ==
  ASSUME CacheInv
  PROVE  /\ Refs \in Nat /\ DOMAIN held = 1..Refs /\ held \in Seq(Cache!Bufs)
         /\ (Refs = 0 <=> held = <<>>)
         /\ \A k \in 1..Refs : /\ held[k] \in Cache!Held /\ held[k] \in Cache!Bufs
                              /\ Tag(k) \in Sectors
         /\ \A j, k \in 1..Refs : j # k => held[j] # held[k] /\ Tag(j) # Tag(k)
         /\ Cache!Users = {Tag(k) : k \in 1..Refs}
<1>1. held \in Seq(Cache!Bufs) /\ DOMAIN held = 1..Refs /\ Refs \in Nat
  BY SameCache, LenProperties DEF CacheInv, Kept!Inv, Kept!CacheTypeOK, Refs
<1>2. Refs = 0 <=> held = <<>>
  BY <1>1, EmptySeq DEF Refs
<1>3. \A k \in 1..Refs : held[k] \in Cache!Held /\ held[k] \in Cache!Bufs
  BY <1>1, ElementOfSeq DEF Cache!Held, Refs
<1>4. \A k \in 1..Refs : Tag(k) \in Sectors
  BY <1>3, SameCache DEF CacheInv, Kept!Inv, Kept!HeldTagged, Tag
<1>5. \A j, k \in 1..Refs : j # k => held[j] # held[k] /\ Tag(j) # Tag(k)
  BY <1>1, <1>3, <1>4, SameCache
     DEF CacheInv, Kept!Inv, Kept!FreeMaskExact, Kept!Coherent, Tag
<1>6. Cache!Users = {Tag(k) : k \in 1..Refs}
  BY <1>1 DEF Cache!Users, Cache!Held, Tag
<1> QED
  BY <1>1, <1>2, <1>3, <1>4, <1>5, <1>6

\* Taking a sector it has no reference to.
LEMMA ReadRefs ==
  ASSUME CacheInv, NEW s \in Sectors, s # BlockBitmap, Cache!ReadBufSector(s),
         NEW n, n = Refs + 1,
         \A k \in 1..Refs : Tag(k) # s
  PROVE  /\ CacheInv'
         /\ Refs' = n /\ Tag(n)' = s /\ Val(n)' = disk[s]
         /\ \A k \in 1..Refs : /\ held'[k] = held[k]
                              /\ Tag(k)' = Tag(k) /\ Val(k)' = Val(k)
         /\ UNCHANGED <<disk, dirty_mask>>
<1> USE CacheAssumptions
<1>1. Kept!Inv /\ Kept!ReadBufSector(s) /\ s \notin Kept!Users
  <2>1. s \notin Cache!Users
    BY RefsOfCache
  <2> QED
    BY <2>1, SameCache DEF CacheInv, Cache!Users, Kept!Users
<1>2. PICK b \in Kept!Bufs \ Kept!Held :
        /\ Kept!Grab(s, b)
        /\ \A c \in Kept!Bufs \ {b} : buf_sectors[c] # s
        /\ buffer' = [buffer EXCEPT ![b] = disk[s]]
        /\ UNCHANGED <<dirty_mask, disk>>
  BY <1>1, Kept!ReadGrabs
<1>3. Kept!Inv'
  BY <1>1, Kept!ReadInv
<1>4. /\ held' = Append(held, b) /\ held \in Seq(Kept!Bufs) /\ b \in Kept!Bufs
      /\ buf_sectors' = [buf_sectors EXCEPT ![b] = s]
      /\ buf_sectors \in [Kept!Bufs -> Sectors \union {NoSector}]
      /\ buffer \in [Kept!Bufs -> SectorValues]
  BY <1>1, <1>2 DEF Kept!Grab, Kept!Inv, Kept!CacheTypeOK
<1>5. /\ Refs' = n /\ held'[n] = b
      /\ \A k \in 1..Refs : held'[k] = held[k]
  BY <1>4, AppendProperties DEF Refs
<1>6. \A k \in 1..Refs : held[k] # b /\ held[k] \in Kept!Bufs
  BY <1>2, RefsOfCache, SameCache
<1>7. Tag(n)' = s /\ Val(n)' = disk[s]
  BY <1>2, <1>4, <1>5, RefsOfCache DEF Tag, Val
<1>8. \A k \in 1..Refs : Tag(k)' = Tag(k) /\ Val(k)' = Val(k)
  BY <1>2, <1>4, <1>5, <1>6 DEF Tag, Val
<1>9. CacheInv'
  BY <1>3, <1>4, SameCache DEF CacheInv, Cache!Bufs
<1> QED
  BY <1>2, <1>5, <1>7, <1>8, <1>9
\* Storing into a buffer, or through a pointer into one that is marked.
LEMMA StoreRefs ==
  ASSUME CacheInv, NEW k \in 1..Refs, NEW v \in SectorValues,
         \/ Cache!Store(held[k], v)
         \/ held[k] \in dirty_mask /\ Cache!StoreThroughPtr(held[k], v)
  PROVE  /\ CacheInv'
         /\ Val(k)' = v
         /\ \A j \in 1..Refs : j # k => Val(j)' = Val(j)
         /\ \A j \in 1..Refs : Tag(j)' = Tag(j)
         /\ Refs' = Refs
         /\ UNCHANGED <<disk, held, buf_sectors>>
         /\ dirty_mask' = dirty_mask \union {held[k]}
<1> USE CacheAssumptions
<1>1. Kept!Inv /\ held[k] \in Kept!Held /\ held[k] \in Kept!Bufs
  BY RefsOfCache, SameCache DEF CacheInv
<1>2. Kept!Inv'
  BY <1>1, SameCache, Kept!StoreInv
<1>3. /\ buffer' = [buffer EXCEPT ![held[k]] = v]
      /\ dirty_mask' = dirty_mask \union {held[k]}
      /\ UNCHANGED <<buf_sectors, disk, held>>
      /\ buffer \in [Kept!Bufs -> SectorValues]
  BY <1>1 DEF Cache!Store, Cache!StoreThroughPtr, Kept!Inv, Kept!CacheTypeOK
<1>4. \A j \in 1..Refs : j # k => held[j] # held[k]
  BY RefsOfCache
<1> QED
  BY <1>1, <1>2, <1>3, <1>4 DEF CacheInv, Refs, Tag, Val, Cache!Bufs

\* Writing a buffer to its sector.
LEMMA FlushRefs ==
  ASSUME CacheInv, NEW k \in 1..Refs, Cache!Flush(held[k])
  PROVE  /\ CacheInv'
         /\ disk' = [disk EXCEPT ![Tag(k)] = Val(k)]
         /\ \A j \in 1..Refs : Tag(j)' = Tag(j) /\ Val(j)' = Val(j)
         /\ Refs' = Refs
         /\ UNCHANGED <<held, buf_sectors, buffer>>
         /\ dirty_mask' = dirty_mask \ {held[k]}
<1> USE CacheAssumptions
<1>1. Kept!Inv /\ held[k] \in Kept!Held
  BY RefsOfCache, SameCache DEF CacheInv
<1>2. Kept!Inv'
  BY <1>1, SameCache, Kept!FlushInv
<1> QED
  BY <1>1, <1>2 DEF CacheInv, Refs, Tag, Val, Cache!Flush, Cache!Bufs

\* A destructor leaves on the disk what its buffer holds: the buffer is
\* written, or it was clean and holds what the disk holds.
LEMMA ReleaseRefs ==
  ASSUME CacheInv, Cache!Release, NEW n, n = Refs
  PROVE  /\ CacheInv'
         /\ n \in Nat \ {0} /\ Refs' = n - 1
         /\ disk' = [disk EXCEPT ![Tag(n)] = Val(n)]
         /\ \A j \in 1..(n - 1) : Tag(j)' = Tag(j) /\ Val(j)' = Val(j)
<1> USE CacheAssumptions
<1>1. Kept!Inv /\ Kept!Release
  BY SameCache DEF CacheInv
<1>2. Kept!Inv'
  BY <1>1, Kept!ReleaseInv
<1>3. n \in Nat \ {0} /\ held # <<>> /\ n \in 1..Refs /\ DOMAIN held = 1..n
  BY RefsOfCache DEF Cache!Release
<1>4. Cache!Last(held) = held[n] /\ Cache!Front(held) = SubSeq(held, 1, n - 1)
  BY DEF Cache!Last, Cache!Front, Refs
<1>5. /\ held' = SubSeq(held, 1, n - 1) /\ UNCHANGED <<buf_sectors, buffer>>
      /\ disk' = IF held[n] \in dirty_mask THEN [disk EXCEPT ![Tag(n)] = Val(n)] ELSE disk
  BY <1>4 DEF Cache!Release, Cache!WriteIfDirty, Tag, Val
<1>6. Refs' = n - 1 /\ \A j \in 1..(n - 1) : held'[j] = held[j]
  <2>1. held \in Seq(Cache!Bufs) /\ n = Len(held)
    BY RefsOfCache DEF Refs
  <2>2. \A i \in 1..(n - 1) : held[i] \in Cache!Bufs
    BY <1>3, RefsOfCache
  <2> QED
    BY <1>3, <1>5, <2>1, <2>2, SubSeqProperties DEF Refs
<1>7. disk' = [disk EXCEPT ![Tag(n)] = Val(n)]
  <2>1. CASE held[n] \in dirty_mask
    BY <1>5, <2>1
  <2>2. CASE held[n] \notin dirty_mask
    <3>1. Tag(n) \in Sectors /\ Tag(n) # NoSector /\ held[n] \in Kept!Bufs
      BY <1>3, RefsOfCache, SectorLayout, SameCache
    <3>2. Val(n) = disk[Tag(n)] /\ disk \in [Sectors -> SectorValues]
      BY <1>1, <2>2, <3>1 DEF Kept!Inv, Kept!Coherent, Kept!CacheTypeOK, Tag, Val
    <3> QED
      BY <1>5, <2>2, <3>1, <3>2
  <2> QED
    BY <2>1, <2>2
<1> QED
  BY <1>2, <1>3, <1>5, <1>6, <1>7 DEF CacheInv, Tag, Val, Cache!Bufs

\* The bitmap goes past the cache, which never holds it.
LEMMA WritePastRefs ==
  ASSUME CacheInv, NEW v \in SectorValues, Cache!WritePast(BlockBitmap, v)
  PROVE  CacheInv'
<1> USE CacheAssumptions
<1>1. Kept!WithSector(BlockBitmap) = {}
  BY SameCache DEF CacheInv, Kept!WithSector
<1>2. Kept!Inv'
  BY <1>1, SectorLayout, SameCache, Kept!WritePastInv DEF CacheInv
<1> QED
  BY <1>2 DEF CacheInv, Cache!WritePast, Cache!Bufs

\* A cache that is empty, at the start and after power failed.
LEMMA EmptyRefs ==
  ASSUME Cache!CacheInit, disk \in [Sectors -> SectorValues]
  PROVE  CacheInv /\ Refs = 0
<1>1. Kept!Inv
  BY SameCache, CacheAssumptions, Kept!EmptyCacheInv
<1>2. \A b \in Cache!Bufs : buf_sectors[b] # BlockBitmap
  BY DEF Cache!CacheInit, NoSector, BlockBitmap
<1> QED
  BY <1>1, <1>2, RefsOfCache DEF CacheInv, Cache!CacheInit

LEMMA LostRefs ==
  ASSUME CacheInv, Cache!CacheLost
  PROVE  CacheInv' /\ Refs' = 0 /\ disk' = disk
<1>1. Kept!Inv'
  BY SameCache, CacheAssumptions, Kept!CacheLostInv DEF CacheInv
<1>2. CacheInv'
  BY <1>1 DEF CacheInv, Cache!CacheLost, Cache!Bufs, NoSector, BlockBitmap
<1> QED
  BY <1>2, EmptySeq DEF Cache!CacheLost, Refs

-----------------------------------------------------------------------------
(***************************************************************************)
(* The inductive invariant.                                                *)
(***************************************************************************)
\* What the disk holds.
DiskInv == disk \in [Sectors -> SectorValues] /\ \A s \in Sectors : disk[s] \in Shape(s)

\* The places of each call.
CreatePlaces == {"create", "choose", "clear", "flush_clear", "mark", "flush_mark", "unwind",
                 "move", "drop"}
WritePlaces  == {"write", "find", "allocate", "link", "block", "copy", "flush_data", "grow",
                 "flush_inode", "unwind"}
ReadPlaces   == {"read", "locate", "fetch", "count", "unwind"}

\* What a call is about: its file is one whose creation was reported, and the
\* shell's own unless it is being opened.
CallInv ==
  \/ pc = "idle" /\ call = NoCall
  \/ call.op = "create" /\ pc \in CreatePlaces /\ call.name \in Names
  \/ call.op = "open" /\ pc \in {"open", "size", "unwind"} /\ call.id \in created
  \/ /\ call.op = "seek" /\ pc \in {"seek", "size", "unwind"}
     /\ file.drive /\ call.id = file.id /\ call.pos \in Nat
  \/ /\ call.op = "write" /\ pc \in WritePlaces
     /\ file.drive /\ call.id = file.id /\ call.pos = file.pos /\ call.len \in Nat
  \/ /\ call.op = "read" /\ pc \in ReadPlaces
     /\ file.drive /\ call.id = file.id /\ call.pos = file.pos /\ call.len \in Nat

\* The inode create_file works on: the first that is free, which it keeps in a
\* local once it is cleared; the inode and the block index of the other calls.
Chosen == IF pc \in {"clear", "flush_clear"} THEN Min(FreeInodes) ELSE local.n
Mine   == Val(1)[Slot(call.id)]
Index  == call.pos \div SectorSize

\* The references held at each place, and to which sectors.
PlaceInv ==
  /\ pc \in {"idle", "create", "write", "read", "open", "seek", "move", "drop"} => Refs = 0
  /\ pc \in {"choose", "find", "allocate", "link", "block", "locate", "fetch", "size"} => Refs = 1
  /\ pc \in {"clear", "flush_clear", "mark", "flush_mark", "copy", "flush_data", "grow",
             "flush_inode", "count"} => Refs = 2
  /\ Refs >= 1 => Tag(1) = IF call.op = "create" THEN InodeBitmap ELSE InodeSector(call.id)
  /\ Refs = 2 => IF call.op = "create" THEN Tag(2) = InodeSector(Chosen) ELSE Tag(2) \in DataSectors
  /\ pc \in {"allocate", "link", "block", "copy", "flush_data", "grow"} => held[1] \in dirty_mask

\* An inode as create_file leaves it.
Cleared(ino) ==
  ino \in FileInodes /\ ino.size = 0 /\ (call.name \notin TooLong => ino.name = call.name)

\* What the buffers of create_file hold: what the disk does, but for the inode
\* between its clearing and its flush and the bit between the same two.
CreateVals ==
  /\ Refs >= 1 => Val(1) = IF pc = "flush_mark" THEN Marks \union {local.n} ELSE Marks
  /\ Refs = 2 =>
       /\ Val(2) \in InodeTables
       /\ IF pc # "flush_clear" THEN Val(2) = disk[Tag(2)]
          ELSE /\ \A k \in 0..(InodesPerSector - 1) :
                    k # Slot(Chosen) => Val(2)[k] = disk[Tag(2)][k]
               /\ Cleared(Val(2)[Slot(Chosen)])

\* And those of the others: their own file's inode may be ahead of the disk's,
\* in a write that will flush it.
FileVals ==
  /\ Refs >= 1 =>
       /\ Val(1) \in InodeTables
       /\ \A k \in 0..(InodesPerSector - 1) : k # Slot(call.id) => Val(1)[k] = disk[Tag(1)][k]
       /\ Mine \in FileInodes /\ Mine.size >= OnDisk(call.id).size
       /\ call.op # "write" \/ ~local.flush => Val(1) = disk[Tag(1)]
  /\ Refs = 2 =>
       /\ Val(2) \in DataBytes
       /\ call.op # "write" => Val(2) = disk[Tag(2)]

ValInv == IF call.op = "create" THEN CreateVals ELSE FileVals

\* The files on disk and what their owner was told.
FileInv ==
  /\ \A i \in Marks : OnDisk(i) \in FileInodes
  /\ created \subseteq Marks
  /\ \A i \in created : acked[i] <= OnDisk(i).size
  /\ \A i \in Inodes \ created : acked[i] = 0
  /\ file.drive => file.id \in created

\* What a call knows at its places.
CreateLocals ==
  /\ pc \in {"clear", "flush_clear"} => FreeInodes # {}
  /\ pc \in {"mark", "flush_mark"} => local.n \in Inodes \ Marks /\ Cleared(OnDisk(local.n))
  /\ pc = "unwind" /\ call.op = "create" /\ local.ok =>
       local.n \in Marks \ created /\ Cleared(OnDisk(local.n))
  /\ pc = "move" => temp.id \in created /\ Cleared(OnDisk(temp.id))

FileLocals ==
  /\ pc \in {"allocate", "link", "block", "copy", "fetch"} => Index \in BlockWords
  /\ pc = "link" => local.sector \in BlockStarts /\ local.flush
  /\ pc \in {"block", "fetch"} => Mine.blocks[Index] # 0
  /\ pc \in {"flush_data", "grow", "flush_inode"} =>
       call.pos + local.n <= (Direct + 1) * SectorSize
  /\ pc = "flush_inode" => Mine.size >= call.pos + local.n
  /\ pc = "unwind" /\ call.op = "write" /\ local.ok =>
       OnDisk(call.id).size >= call.pos + local.n

IInv ==
  /\ CacheInv /\ DiskInv /\ TypeOK /\ CallInv /\ PlaceInv /\ ValInv
  /\ FileInv /\ CreateLocals /\ FileLocals

\* What no step undoes: files stay marked, an inode that is marked is a file's,
\* and of the files only the one that is written changes, which does not shrink.
FilesKept ==
  /\ Marks \subseteq Marks'
  /\ \A i \in Marks' \ Marks : OnDisk(i)' \in FileInodes
  /\ \A i \in Marks : OnDisk(i)' # OnDisk(i) =>
       /\ call.op = "write" /\ call.id = i
       /\ OnDisk(i)' \in FileInodes /\ OnDisk(i)'.size >= OnDisk(i).size

-----------------------------------------------------------------------------
\* What a write of each kind of sector does to the files.
LEMMA DiskTyped ==
  ASSUME DiskInv
  PROVE  /\ Marks \subseteq Inodes
         /\ \A i \in Inodes : /\ disk[InodeSector(i)] \in InodeTables
                              /\ OnDisk(i) \in FileInodes \union {Junk}
         /\ \A s \in DataSectors : disk[s] \in DataBytes
         /\ disk[BlockBitmap] \subseteq Nat
<1>1. Marks \in SUBSET Inodes /\ disk[BlockBitmap] \in SUBSET Nat
  BY SectorLayout DEF DiskInv, Shape, Marks, BlockBitmap, InodeBitmap
<1>2. \A i \in Inodes : disk[InodeSector(i)] \in InodeTables
  <2> SUFFICES ASSUME NEW i \in Inodes PROVE disk[InodeSector(i)] \in InodeTables
    OBVIOUS
  <2>1. InodeSector(i) \in Sectors /\ InodeSector(i) \in 2..(BlockStart - 1)
    BY InodePlace
  <2> QED
    BY <2>1, SectorLayout DEF DiskInv, Shape, BlockBitmap, InodeBitmap
<1>3. \A i \in Inodes : OnDisk(i) \in FileInodes \union {Junk}
  BY <1>2, InodePlace DEF InodeTables, OnDisk
<1>4. \A s \in DataSectors : disk[s] \in DataBytes
  BY SectorLayout DEF DiskInv, Shape, BlockBitmap, InodeBitmap
<1> QED
  BY <1>1, <1>2, <1>3, <1>4

LEMMA SectorWritten ==
  ASSUME DiskInv, NEW s \in Sectors, NEW v \in Shape(s), disk' = [disk EXCEPT ![s] = v]
  PROVE  /\ DiskInv' /\ disk'[s] = v
         /\ \A r \in Sectors : r # s => disk'[r] = disk[r]
<1>1. v \in SectorValues
  <2>1. Inodes \subseteq Nat
    BY LayoutAssumption DEF Inodes
  <2> QED
    BY <2>1 DEF Shape, SectorValues
<1>2. disk' \in [Sectors -> SectorValues] /\ disk'[s] = v
      /\ \A r \in Sectors : r # s => disk'[r] = disk[r]
  BY <1>1 DEF DiskInv
<1>3. \A r \in Sectors : disk'[r] \in Shape(r)
  BY <1>2 DEF DiskInv
<1> QED
  BY <1>2, <1>3 DEF DiskInv

LEMMA TableWritten ==
  ASSUME DiskInv, NEW i \in Inodes, NEW T \in InodeTables,
         \A k \in 0..(InodesPerSector - 1) : k # Slot(i) => T[k] = disk[InodeSector(i)][k],
         disk' = [disk EXCEPT ![InodeSector(i)] = T]
  PROVE  /\ DiskInv' /\ Marks' = Marks /\ OnDisk(i)' = T[Slot(i)]
         /\ disk'[InodeSector(i)] = T
         /\ \A s \in Sectors : s # InodeSector(i) => disk'[s] = disk[s]
         /\ \A j \in Inodes : j # i => OnDisk(j)' = OnDisk(j)
<1> DEFINE s == InodeSector(i)
<1>1. s \in Sectors /\ s \in 2..(BlockStart - 1) /\ T \in Shape(s)
  BY InodePlace, SectorLayout DEF Shape, BlockBitmap, InodeBitmap
<1>2. DiskInv' /\ disk'[s] = T /\ \A r \in Sectors : r # s => disk'[r] = disk[r]
  <2> HIDE DEF s
  <2> QED
    BY <1>1, SectorWritten DEF s
<1>3. Marks' = Marks
  BY <1>1, <1>2, SectorLayout DEF Marks, InodeBitmap
<1>4. ASSUME NEW j \in Inodes, j # i PROVE OnDisk(j)' = OnDisk(j)
  <2>1. CASE InodeSector(j) # s
    BY <1>2, <2>1, InodePlace DEF OnDisk
  <2>2. CASE InodeSector(j) = s
    BY <1>2, <1>4, <2>2, InodePlace, InodePlaceUnique DEF OnDisk
  <2> QED
    BY <2>1, <2>2
<1> QED
  BY <1>2, <1>3, <1>4 DEF OnDisk

LEMMA BytesWritten ==
  ASSUME DiskInv, NEW s \in DataSectors \union {BlockBitmap}, NEW v \in Shape(s),
         disk' = [disk EXCEPT ![s] = v]
  PROVE  /\ DiskInv' /\ Marks' = Marks /\ disk'[s] = v
         /\ \A r \in Sectors : r # s => disk'[r] = disk[r]
         /\ \A j \in Inodes : /\ OnDisk(j)' = OnDisk(j)
                              /\ disk'[InodeSector(j)] = disk[InodeSector(j)]
<1>1. s \in Sectors /\ s # InodeBitmap /\ s \notin 2..(BlockStart - 1)
  BY SectorLayout DEF BlockBitmap, InodeBitmap
<1>2. DiskInv' /\ disk'[s] = v /\ \A r \in Sectors : r # s => disk'[r] = disk[r]
  BY <1>1, SectorWritten
<1>3. \A j \in Inodes : disk'[InodeSector(j)] = disk[InodeSector(j)]
  BY <1>1, <1>2, InodePlace
<1> QED
  BY <1>1, <1>2, <1>3, SectorLayout DEF Marks, OnDisk

LEMMA BitmapWritten ==
  ASSUME DiskInv, NEW S \in SUBSET Inodes, disk' = [disk EXCEPT ![InodeBitmap] = S]
  PROVE  /\ DiskInv' /\ Marks' = S
         /\ \A s \in Sectors : s # InodeBitmap => disk'[s] = disk[s]
         /\ \A j \in Inodes : OnDisk(j)' = OnDisk(j)
<1>1. InodeBitmap \in Sectors /\ S \in Shape(InodeBitmap)
  BY SectorLayout DEF Shape, BlockBitmap, InodeBitmap
<1>2. DiskInv' /\ disk'[InodeBitmap] = S /\ \A s \in Sectors : s # InodeBitmap => disk'[s] = disk[s]
  BY <1>1, SectorWritten
<1>3. \A j \in Inodes : InodeSector(j) \in Sectors /\ InodeSector(j) # InodeBitmap
  BY InodePlace DEF InodeBitmap
<1> QED
  BY <1>2, <1>3 DEF Marks, OnDisk

\* Two tables that agree everywhere are one.
LEMMA SameTable ==
  ASSUME NEW S \in InodeTables, NEW T \in InodeTables,
         \A k \in 0..(InodesPerSector - 1) : S[k] = T[k]
  PROVE  S = T
<1>1. /\ S = [k \in 0..(InodesPerSector - 1) |-> S[k]]
      /\ T = [k \in 0..(InodesPerSector - 1) |-> T[k]]
  BY DEF InodeTables
<1> QED
  BY <1>1, Zenon

-----------------------------------------------------------------------------
Locals == [flush : BOOLEAN, sector : {0} \union DataSectors, n : Nat, ok : BOOLEAN]

LEMMA NoMarks == Init => Marks = {}
<1>1. InodeBitmap \in Sectors /\ InodeBitmap \notin InodesStart..(BlockStart - 1)
  BY SectorLayout DEF InodesStart, InodeBitmap
<1> QED
  BY <1>1 DEF Init, Marks, Formatted

LEMMA InitIInv == Init => IInv
<1> SUFFICES ASSUME Init PROVE IInv
  OBVIOUS
<1> USE DEF Init
<1>1. ASSUME NEW s \in Sectors PROVE disk[s] \in Shape(s)
  <2>1. disk[s] = CASE s \in {BlockBitmap, InodeBitmap} -> {}
                    [] s \in InodesStart..(BlockStart - 1) -> [k \in 0..(InodesPerSector - 1) |-> Junk]
                    [] OTHER -> [k \in 0..(SectorSize - 1) |-> Junk]
    BY DEF Formatted
  <2>2. CASE s \in {BlockBitmap, InodeBitmap}
    <3>1. disk[s] = {}
      <4>1. s \notin InodesStart..(BlockStart - 1)
        BY <2>2, SectorLayout DEF InodesStart, BlockBitmap, InodeBitmap
      <4> HIDE DEF Init
      <4> QED
        BY <2>1, <2>2, <4>1
    <3>2. {} \in SUBSET Nat /\ {} \in SUBSET Inodes
      OBVIOUS
    <3> QED
      <4> HIDE DEF Init
      <4> QED
        BY <2>2, <3>1, <3>2 DEF Shape
  <2>3. CASE s \in InodesStart..(BlockStart - 1)
    BY <2>1, <2>3, SectorLayout
       DEF Shape, InodeTables, InodesStart, BlockBitmap, InodeBitmap
  <2>4. CASE s \notin {BlockBitmap, InodeBitmap} /\ s \notin InodesStart..(BlockStart - 1)
    <3>1. s >= BlockStart
      BY <2>4, SectorLayout DEF InodesStart, BlockBitmap, InodeBitmap, Sectors
    <3>2. disk[s] \in DataBytes
      BY <2>1, <2>4 DEF DataBytes
    <3> QED
      BY <2>4, <3>1, <3>2, SectorLayout DEF Shape
  <2> QED
    BY <2>2, <2>3, <2>4
<1>2. DiskInv
  <2>1. DOMAIN disk = Sectors /\ disk = [s \in Sectors |-> disk[s]]
    BY DEF Formatted
  <2>2. \A s \in Sectors : disk[s] \in SectorValues
    <3>1. Inodes \subseteq Nat
      BY LayoutAssumption DEF Inodes
    <3> QED
      BY <1>1, <3>1 DEF Shape, SectorValues
  <2> QED
    BY <1>1, <2>1, <2>2 DEF DiskInv
<1>3. CacheInv /\ Refs = 0
  BY <1>2, EmptyRefs DEF DiskInv
<1>4. Marks = {}
  BY NoMarks
<1>5. TypeOK
  <2>1. 0 \in Inodes /\ (Direct + 1) * SectorSize \in Nat
    BY LayoutAssumption DEF Inodes
  <2> QED
    BY <1>3, <2>1 DEF TypeOK, NullHandle, NoLocal, Refs
<1>6. CallInv /\ PlaceInv /\ ValInv /\ CreateLocals /\ FileLocals
  BY <1>3 DEF CallInv, NoCall, PlaceInv, ValInv, FileVals, CreateVals, CreateLocals, FileLocals
<1>7. FileInv
  BY <1>4 DEF FileInv, NullHandle
<1> QED
  BY <1>2, <1>3, <1>5, <1>6, <1>7 DEF IInv

-----------------------------------------------------------------------------
\* The file a call is about.
LEMMA FileOfCall ==
  ASSUME IInv, call.op \in {"open", "seek", "write", "read"}
  PROVE  /\ call.id \in created /\ call.id \in Marks /\ call.id \in Inodes
         /\ OnDisk(call.id) \in FileInodes
         /\ disk[InodeSector(call.id)] \in InodeTables
         /\ InodeSector(call.id) \in Sectors /\ InodeSector(call.id) \notin DataSectors
         /\ InodeSector(call.id) # BlockBitmap
         /\ Slot(call.id) \in 0..(InodesPerSector - 1)
<1>1. call.id \in created
  BY DEF IInv, CallInv, FileInv, NoCall
<1>2. call.id \in Marks /\ call.id \in Inodes
  BY <1>1, DiskTyped DEF IInv, FileInv
<1> QED
  BY <1>1, <1>2, DiskTyped, InodePlace DEF IInv, FileInv, BlockBitmap

\* What a step leaves as it was, when it keeps the files.
LEMMA FilesStep ==
  ASSUME IInv, FilesKept, UNCHANGED <<file, created, acked, counted>>
  PROVE  FileInv'
<1>1. ASSUME NEW i \in Marks' PROVE OnDisk(i)' \in FileInodes
  BY DEF IInv, FileInv, FilesKept
<1>2. created' \subseteq Marks'
  BY DEF IInv, FileInv, FilesKept
<1>3. ASSUME NEW i \in created PROVE acked[i] <= OnDisk(i)'.size
  <2>1. i \in Marks /\ i \in Inodes /\ acked[i] <= OnDisk(i).size
    BY DiskTyped DEF IInv, FileInv
  <2>2. OnDisk(i) \in FileInodes /\ OnDisk(i).size \in Nat /\ acked[i] \in Nat
    BY <2>1, LayoutAssumption DEF IInv, FileInv, TypeOK, FileInodes, InodeRecords
  <2>3. CASE OnDisk(i)' = OnDisk(i)
    BY <2>1, <2>3
  <2>4. CASE OnDisk(i)' # OnDisk(i)
    <3>1. OnDisk(i)' \in FileInodes /\ OnDisk(i)'.size >= OnDisk(i).size
      BY <2>1, <2>4 DEF FilesKept
    <3>2. OnDisk(i)'.size \in Nat
      BY <3>1 DEF FileInodes, InodeRecords
    <3> QED
      BY <2>1, <2>2, <3>1, <3>2
  <2> QED
    BY <2>3, <2>4
<1> QED
  BY <1>1, <1>2, <1>3 DEF IInv, FileInv

LEMMA DiskUnchanged ==
  ASSUME IInv, disk' = disk
  PROVE  /\ DiskInv' /\ FilesKept /\ Marks' = Marks
         /\ \A i : OnDisk(i)' = OnDisk(i)
BY DEF IInv, DiskInv, FilesKept, Marks, OnDisk

LEMMA QuietStep ==
  ASSUME IInv, Quiet, FilesKept, DiskInv', CacheInv', Refs' \in 0..2, local' \in Locals
  PROVE  TypeOK' /\ FileInv'
<1>1. FileInv'
  BY FilesStep DEF Quiet
<1>2. UNCHANGED <<file, temp, created, acked, counted>> /\ Len(held)' <= 2
  <2>1. UNCHANGED <<file, temp, created, acked, counted>>
    BY DEF Quiet
  <2>2. Len(held)' <= 2
    <3>1. Len(held)' = Refs'
      BY Zenon DEF Refs
    <3>2. Refs' <= 2
      OBVIOUS
    <3> QED
      BY <3>1, <3>2, Zenon
  <2> QED
    BY <2>1, <2>2
<1>3. /\ file' \in [drive : BOOLEAN, id : Inodes, pos : Nat]
      /\ temp' \in [drive : BOOLEAN, id : Inodes \union {NoFile}, pos : {0}]
      /\ created' \subseteq Inodes
      /\ acked' \in [Inodes -> 0..((Direct + 1) * SectorSize)]
      /\ counted' \in [Inodes -> SUBSET Nat]
  <2>1. TypeOK
    BY DEF IInv
  <2> DEFINE bound == (Direct + 1) * SectorSize
  <2>2. /\ file \in [drive : BOOLEAN, id : Inodes, pos : Nat]
        /\ temp \in [drive : BOOLEAN, id : Inodes \union {NoFile}, pos : {0}]
        /\ created \subseteq Inodes
        /\ acked \in [Inodes -> 0..bound]
        /\ counted \in [Inodes -> SUBSET Nat]
    BY <2>1, Zenon DEF TypeOK
  <2> QED
    BY <1>2, <2>2, Zenon
<1> QED
  BY <1>1, <1>2, <1>3, Zenon DEF TypeOK, Locals

\* Every call may fail where it asks for a buffer, a file's block or sectors.
LEMMA FailStep ==
  ASSUME IInv, Quiet, Fail, UNCHANGED cacheVars,
         pc \in {"create", "choose", "write", "find", "allocate", "block", "read", "locate",
                 "fetch", "open", "seek"}
  PROVE  /\ IInv' /\ FilesKept
         /\ disk' = disk /\ Refs' = Refs /\ Mine' = Mine
         /\ Tag(2)' = Tag(2) /\ Val(2)' = Val(2) /\ pc' = "unwind" /\ ~local'.ok
<1>1. /\ UNCHANGED <<disk, held, buf_sectors, buffer, dirty_mask, free_mask>>
      /\ pc' = "unwind" /\ local' = [local EXCEPT !.ok = FALSE]
      /\ UNCHANGED <<call, file, temp, created, acked, counted>>
  BY DEF cacheVars, Fail, Quiet
<1>2. DiskInv' /\ FilesKept /\ Marks' = Marks /\ \A i : OnDisk(i)' = OnDisk(i)
  BY <1>1, DiskUnchanged
<1>3. CacheInv'
  BY <1>1 DEF IInv, CacheInv, Kept!Inv, Kept!CacheTypeOK, Kept!FreeMaskExact, Kept!Coherent,
              Kept!HeldTagged, Kept!Held
<1>4. local \in Locals /\ local' \in Locals /\ local'.ok = FALSE
      /\ local'.n = local.n /\ local'.flush = local.flush
  BY <1>1 DEF IInv, TypeOK, Locals
<1>5. /\ Refs' = Refs /\ Refs \in 0..2 /\ \A k : Tag(k)' = Tag(k) /\ Val(k)' = Val(k)
      /\ Mine' = Mine
  BY <1>1, RefsOfCache DEF IInv, TypeOK, Refs, Tag, Val, Mine
<1>6. TypeOK' /\ FileInv'
  BY <1>2, <1>3, <1>4, <1>5, QuietStep
<1>7. CallInv'
  BY <1>1 DEF IInv, CallInv, CreatePlaces, WritePlaces, ReadPlaces
<1>8. PlaceInv'
  BY <1>1, <1>5 DEF IInv, PlaceInv
<1>9. ValInv'
  BY <1>1, <1>2, <1>4, <1>5 DEF IInv, ValInv, CreateVals, FileVals, PlaceInv
<1>10. CreateLocals' /\ FileLocals'
  BY <1>1, <1>4 DEF CreateLocals, FileLocals
<1> QED
  BY <1>1, <1>2, <1>3, <1>4, <1>5, <1>6, <1>7, <1>8, <1>9, <1>10 DEF IInv

-----------------------------------------------------------------------------
(***************************************************************************)
(* The steps that take a reference.                                        *)
(***************************************************************************)
LEMMA FirstTaken ==
  ASSUME IInv, Quiet, NEW s, NEW p, Cache!ReadBufSector(s), GoTo(p),
         \/ pc = "create" /\ p = "choose" /\ s = InodeBitmap
         \/ /\ \/ pc = "write" /\ p = "find"
               \/ pc = "read" /\ p = "locate"
               \/ pc \in {"open", "seek"} /\ p = "size"
            /\ s = InodeSector(call.id)
  PROVE  /\ IInv' /\ FilesKept
         /\ disk' = disk /\ Refs' = 1
         /\ call.op # "create" => Mine' = OnDisk(call.id)
<1>1. UNCHANGED <<call, file, temp, created, acked, counted, local>> /\ pc' = p /\ local \in Locals
  BY DEF Quiet, GoTo, IInv, TypeOK, Locals
<1>2. Refs = 0 /\ CacheInv
  BY DEF IInv, PlaceInv
<1>3. \/ pc = "create" /\ call.op = "create"
      \/ pc # "create" /\ call.op \in {"open", "seek", "write", "read"}
  BY DEF IInv, CallInv, CreatePlaces, WritePlaces, ReadPlaces
<1>4. s \in Sectors /\ s # BlockBitmap
  BY <1>3, FileOfCall, SectorLayout DEF InodeBitmap, BlockBitmap
<1>5. /\ CacheInv' /\ Refs' = 1 /\ Tag(1)' = s /\ Val(1)' = disk[s]
      /\ UNCHANGED <<disk, dirty_mask>>
  <2>1. 1 = Refs + 1 /\ \A k \in 1..Refs : Tag(k) # s
    BY <1>2
  <2> QED
    BY <1>2, <1>4, <2>1, ReadRefs
<1>6. DiskInv' /\ FilesKept /\ Marks' = Marks /\ \A i : OnDisk(i)' = OnDisk(i)
  BY <1>5, DiskUnchanged
<1>7. TypeOK' /\ FileInv'
  BY <1>1, <1>5, <1>6, QuietStep
<1>8. CallInv' /\ PlaceInv'
  BY <1>1, <1>3, <1>5
     DEF IInv, CallInv, CreatePlaces, WritePlaces, ReadPlaces, PlaceInv
<1>9. ValInv' /\ (call.op # "create" => Mine' = OnDisk(call.id))
  <2>1. CASE call.op = "create"
    BY <1>1, <1>3, <1>5, <1>6, <2>1 DEF ValInv, CreateVals, Marks
  <2>2. CASE call.op # "create"
    <3>1. s = InodeSector(call.id) /\ disk[s] \in InodeTables
          /\ OnDisk(call.id) \in FileInodes /\ OnDisk(call.id).size \in Nat
      BY <1>3, <2>2, FileOfCall DEF FileInodes, InodeRecords
    <3>2. Mine' = OnDisk(call.id)
      BY <1>1, <1>5, <3>1 DEF Mine, OnDisk
    <3> QED
      BY <1>1, <1>5, <1>6, <2>2, <3>1, <3>2 DEF ValInv, FileVals
  <2> QED
    BY <2>1, <2>2
<1>10. CreateLocals' /\ FileLocals'
  BY <1>1 DEF CreateLocals, FileLocals
<1> QED
  BY <1>5, <1>6, <1>7, <1>8, <1>9, <1>10 DEF IInv

\* A call that has one reference takes another.
LEMMA SecondTaken ==
  ASSUME IInv, Quiet, NEW s \in Sectors, NEW p, Cache!ReadBufSector(s), GoTo(p),
         \/ /\ pc = "choose" /\ p = "clear"
            /\ FreeInodes # {} /\ s = InodeSector(Min(FreeInodes))
         \/ /\ \/ pc = "block" /\ p = "copy"
               \/ pc = "fetch" /\ p = "count"
            /\ s \in DataSectors
  PROVE  /\ IInv' /\ FilesKept
         /\ disk' = disk /\ Refs' = 2 /\ Mine' = Mine /\ Tag(2)' = s /\ Val(2)' = disk[s]
<1>1. UNCHANGED <<call, file, temp, created, acked, counted, local>> /\ pc' = p /\ local \in Locals
  BY DEF Quiet, GoTo, IInv, TypeOK, Locals
<1>2. Refs = 1 /\ CacheInv /\ DiskInv
  BY DEF IInv, PlaceInv
<1>3. \/ pc = "choose" /\ call.op = "create"
      \/ pc = "block" /\ call.op = "write"
      \/ pc = "fetch" /\ call.op = "read"
  BY DEF IInv, CallInv, CreatePlaces, WritePlaces, ReadPlaces
<1>4. pc = "choose" => /\ FreeInodes \subseteq Inodes /\ Min(FreeInodes) \in FreeInodes
                       /\ Min(FreeInodes) \in Inodes
  <2>1. FreeInodes \subseteq Inodes /\ FreeInodes \in SUBSET Nat
    BY LayoutAssumption DEF FreeInodes, Inodes
  <2> QED
    BY <2>1, MinOfNats
<1>5. /\ Tag(1) = IF pc = "choose" THEN InodeBitmap ELSE InodeSector(call.id)
      /\ s # BlockBitmap /\ s # Tag(1)
  <2>1. CASE pc = "choose"
    <3>1. Tag(1) = InodeBitmap
      BY <1>2, <1>3, <2>1 DEF IInv, PlaceInv
    <3>2. s \in 2..(BlockStart - 1)
      BY <1>4, <2>1, InodePlace
    <3> QED
      BY <2>1, <3>1, <3>2 DEF InodeBitmap, BlockBitmap
  <2>2. CASE pc # "choose"
    <3>1. Tag(1) = InodeSector(call.id)
      BY <1>2, <1>3, <2>2 DEF IInv, PlaceInv
    <3>2. s # BlockBitmap /\ InodeSector(call.id) \notin DataSectors
      BY <1>3, <2>2, SectorLayout, FileOfCall DEF BlockBitmap
    <3> QED
      BY <2>2, <3>1, <3>2
  <2> QED
    BY <2>1, <2>2
<1>6. /\ CacheInv' /\ Refs' = 2 /\ Tag(2)' = s /\ Val(2)' = disk[s]
      /\ held'[1] = held[1] /\ Tag(1)' = Tag(1) /\ Val(1)' = Val(1)
      /\ UNCHANGED <<disk, dirty_mask>>
  <2>1. 2 = Refs + 1 /\ 1 \in 1..Refs /\ \A k \in 1..Refs : k = 1
    BY <1>2
  <2>2. \A k \in 1..Refs : Tag(k) # s
    BY <1>5, <2>1
  <2> HIDE DEF IInv
  <2> QED
    BY <1>2, <1>5, <2>1, <2>2, ReadRefs
<1>7. DiskInv' /\ FilesKept /\ Marks' = Marks /\ \A i : OnDisk(i)' = OnDisk(i)
  BY <1>6, DiskUnchanged
<1>8. TypeOK' /\ FileInv'
  BY <1>1, <1>6, <1>7, QuietStep
<1>9. CallInv'
  BY <1>1 DEF IInv, CallInv, CreatePlaces, WritePlaces, ReadPlaces
<1>10. FreeInodes' = FreeInodes /\ Mine' = Mine
  BY <1>1, <1>6 DEF FreeInodes, Mine, Val
<1>11. PlaceInv'
  BY <1>1, <1>3, <1>5, <1>6, <1>10 DEF IInv, PlaceInv, Chosen
<1>12. ValInv'
  <2>1. CASE call.op = "create"
    <3>1. Val(1) = Marks /\ s = InodeSector(Min(FreeInodes))
      BY <1>2, <1>3, <2>1 DEF IInv, ValInv, CreateVals
    <3>2. disk[s] \in InodeTables
      BY <1>2, <1>3, <1>4, <2>1, <3>1, DiskTyped
    <3> QED
      BY <1>1, <1>3, <1>6, <1>7, <2>1, <3>1, <3>2 DEF ValInv, CreateVals
  <2>2. CASE call.op # "create"
    <3>1. s \in DataSectors /\ disk[s] \in DataBytes
      BY <1>2, <1>3, <2>2, DiskTyped
    <3>2. FileVals
      BY <2>2 DEF IInv, ValInv
    <3> QED
      BY <1>1, <1>2, <1>6, <1>7, <1>10, <2>2, <3>1, <3>2 DEF ValInv, FileVals
  <2> QED
    BY <2>1, <2>2
<1>13. CreateLocals' /\ FileLocals'
  BY <1>1, <1>10 DEF IInv, CreateLocals, FileLocals, Index
<1> QED
  BY <1>6, <1>7, <1>8, <1>9, <1>10, <1>11, <1>12, <1>13 DEF IInv

-----------------------------------------------------------------------------
(***************************************************************************)
(* create_file.                                                            *)
(***************************************************************************)
\* While create_file has the bitmap, the buffer holds what the disk does.
LEMMA Choosing ==
  ASSUME IInv, pc \in {"clear", "flush_clear"}
  PROVE  /\ call.op = "create" /\ call.name \in Names /\ Refs = 2
         /\ Val(1) = Marks /\ buffer[held[1]] = Marks /\ FreeInodes = Inodes \ Marks
         /\ Min(FreeInodes) \in Inodes \ Marks /\ Min(FreeInodes) \in Nat
         /\ Tag(1) = InodeBitmap /\ Tag(2) = InodeSector(Min(FreeInodes))
<1>1. call.op = "create" /\ call.name \in Names
  BY DEF IInv, CallInv, WritePlaces, ReadPlaces
<1>2. Refs = 2 /\ Tag(1) = InodeBitmap /\ Tag(2) = InodeSector(Min(FreeInodes))
  BY <1>1 DEF IInv, PlaceInv, Chosen
<1>3. Val(1) = Marks
  BY <1>1, <1>2 DEF IInv, ValInv, CreateVals
<1>4. buffer[held[1]] = Marks /\ FreeInodes = Inodes \ Marks /\ FreeInodes # {}
  BY <1>3 DEF IInv, CreateLocals, FreeInodes, Val
<1>5. FreeInodes \in SUBSET Nat
  BY <1>4, LayoutAssumption DEF Inodes
<1> QED
  BY <1>1, <1>2, <1>3, <1>4, <1>5, MinOfNats

LEMMA ClearStep == ASSUME IInv, ClearInode PROVE IInv' /\ FilesKept
<1>0. PICK i, ino, T : /\ i = Min(FreeInodes)
                       /\ ino = ClearedInode(InodeIn(held[2], i), call.name)
                       /\ T = WithInode(held[2], i, ino)
  OBVIOUS
<1>1. /\ pc = "clear" /\ pc' = "flush_clear"
      /\ Cache!Store(held[2], T)
      /\ UNCHANGED <<call, file, temp, created, acked, counted, local>> /\ local \in Locals
  BY <1>0 DEF ClearInode, GoTo, Quiet, IInv, TypeOK, Locals
<1>2. /\ call.op = "create" /\ call.name \in Names /\ Refs = 2
      /\ Val(1) = Marks /\ FreeInodes = Inodes \ Marks
      /\ i \in Inodes \ Marks /\ Tag(1) = InodeBitmap /\ Tag(2) = InodeSector(i)
  BY <1>0, <1>1, Choosing
<1>3. Val(2) = buffer[held[2]] /\ Val(2) \in InodeTables
  BY <1>2 DEF IInv, ValInv, CreateVals, Val
<1>4. Slot(i) \in 0..(InodesPerSector - 1)
  BY <1>2, InodePlace
<1>5. ino \in FileInodes /\ Cleared(ino)
  <2>1. Val(2)[Slot(i)] \in FileInodes \union {Junk}
    BY <1>3, <1>4 DEF InodeTables
  <2>2. 0 <= (Direct + 1) * SectorSize
    BY LayoutAssumption
  <2>3. /\ ino.size = 0 /\ ino.blocks = [k \in BlockWords |-> 0]
        /\ ino.name \in Names \union {Junk}
        /\ call.name \notin TooLong => ino.name = call.name
        /\ ino = [size |-> ino.size, blocks |-> ino.blocks, name |-> ino.name]
    BY <1>0, <1>2, <1>3, <2>1 DEF ClearedInode, InodeIn, FileInodes, InodeRecords
  <2>4. ino \in InodeRecords
    BY <2>3 DEF InodeRecords
  <2>5. ino \in FileInodes
    BY <2>2, <2>3, <2>4 DEF FileInodes
  <2> QED
    BY <2>3, <2>5 DEF Cleared
<1>6. /\ T \in InodeTables /\ T[Slot(i)] = ino
      /\ \A k \in 0..(InodesPerSector - 1) : k # Slot(i) => T[k] = Val(2)[k]
  BY <1>0, <1>3, <1>4, <1>5 DEF WithInode, InodeTables
<1>7. /\ CacheInv' /\ Refs' = 2 /\ Val(2)' = T /\ Val(1)' = Val(1)
      /\ Tag(1)' = Tag(1) /\ Tag(2)' = Tag(2)
      /\ UNCHANGED <<disk, held>>
  <2>1. T \in SectorValues /\ 1 \in 1..Refs /\ 2 \in 1..Refs /\ CacheInv
    BY <1>2, <1>6 DEF SectorValues, IInv
  <2> HIDE DEF IInv
  <2> QED
    BY <1>1, <1>2, <2>1, StoreRefs
<1>8. DiskInv' /\ FilesKept /\ Marks' = Marks /\ \A j : OnDisk(j)' = OnDisk(j)
  BY <1>7, DiskUnchanged
<1>9. TypeOK' /\ FileInv'
  BY <1>1, <1>7, <1>8, QuietStep DEF Quiet
<1>10. FreeInodes' = FreeInodes
  BY <1>7, <1>2 DEF FreeInodes, Val
<1>11. CallInv' /\ PlaceInv'
  BY <1>0, <1>1, <1>2, <1>7, <1>10 DEF CallInv, CreatePlaces, PlaceInv, Chosen
<1>12. Chosen' = i /\ Cleared(ino)'
  BY <1>0, <1>1, <1>5, <1>10 DEF Chosen, Cleared
<1>13. ValInv'
  <2>1. Val(2) = disk[Tag(2)]
    BY <1>1, <1>2 DEF IInv, ValInv, CreateVals
  <2> QED
    BY <1>1, <1>2, <1>6, <1>7, <1>8, <1>12, <2>1 DEF ValInv, CreateVals
<1>14. CreateLocals' /\ FileLocals'
  BY <1>1, <1>2, <1>10 DEF CreateLocals, FileLocals
<1> QED
  BY <1>7, <1>8, <1>9, <1>11, <1>13, <1>14 DEF IInv

LEMMA FlushClearStep == ASSUME IInv, FlushClear PROVE IInv' /\ FilesKept
<1>0. PICK i, T : i = Min(FreeInodes) /\ T = Val(2)
  OBVIOUS
<1>1. /\ pc = "flush_clear" /\ pc' = "mark"
      /\ Cache!Flush(held[2])
      /\ UNCHANGED <<call, file, temp, created, acked, counted>>
      /\ local' = [local EXCEPT !.n = i]
  BY <1>0 DEF FlushClear, Quiet
<1>2. /\ call.op = "create" /\ call.name \in Names /\ Refs = 2
      /\ Val(1) = Marks /\ FreeInodes = Inodes \ Marks
      /\ i \in Inodes \ Marks /\ i \in Nat /\ Tag(1) = InodeBitmap /\ Tag(2) = InodeSector(i)
  BY <1>0, <1>1, Choosing
<1>3. /\ T \in InodeTables /\ Cleared(T[Slot(i)])
      /\ \A k \in 0..(InodesPerSector - 1) : k # Slot(i) => T[k] = disk[InodeSector(i)][k]
  BY <1>0, <1>1, <1>2 DEF IInv, ValInv, CreateVals, Chosen
<1>4. local' \in Locals /\ local'.n = i /\ local'.ok = local.ok
  BY <1>1, <1>2 DEF IInv, TypeOK, Locals
<1>5. /\ CacheInv' /\ Refs' = 2
      /\ disk' = [disk EXCEPT ![InodeSector(i)] = T]
      /\ Val(2)' = T /\ Val(1)' = Val(1) /\ Tag(1)' = Tag(1) /\ Tag(2)' = Tag(2)
  <2>1. 1 \in 1..Refs /\ 2 \in 1..Refs /\ CacheInv
    BY <1>2 DEF IInv
  <2> HIDE DEF IInv
  <2> QED
    BY <1>0, <1>1, <1>2, <2>1, FlushRefs
<1>6. /\ DiskInv' /\ Marks' = Marks /\ OnDisk(i)' = T[Slot(i)] /\ disk'[InodeSector(i)] = T
      /\ \A j \in Inodes : j # i => OnDisk(j)' = OnDisk(j)
  BY <1>2, <1>3, <1>5, TableWritten DEF IInv
<1>7. FilesKept
  <2>1. \A j \in Marks : j \in Inodes /\ j # i
    BY <1>2, DiskTyped DEF IInv
  <2> QED
    BY <1>6, <2>1 DEF FilesKept
<1>8. TypeOK' /\ FileInv'
  BY <1>1, <1>4, <1>5, <1>6, <1>7, QuietStep DEF Quiet
<1>9. CallInv' /\ PlaceInv'
  BY <1>1, <1>2, <1>4, <1>5 DEF CallInv, CreatePlaces, PlaceInv, Chosen
<1>10. OnDisk(local.n)' = T[Slot(i)] /\ Cleared(T[Slot(i)])'
  BY <1>1, <1>3, <1>4, <1>6 DEF OnDisk, Cleared
<1>11. ValInv' /\ CreateLocals' /\ FileLocals'
  <2>1. CreateVals'
    BY <1>1, <1>2, <1>3, <1>5, <1>6 DEF CreateVals
  <2>2. Cleared(OnDisk(local.n))'
    BY <1>1, <1>10 DEF Cleared
  <2> QED
    BY <1>1, <1>2, <1>4, <1>6, <2>1, <2>2 DEF ValInv, CreateLocals, FileLocals
<1> QED
  BY <1>5, <1>6, <1>7, <1>8, <1>9, <1>11 DEF IInv

\* Once its inode is cleared on disk, create_file knows which it is.
LEMMA Marking ==
  ASSUME IInv, pc \in {"mark", "flush_mark"}
  PROVE  /\ call.op = "create" /\ call.name \in Names /\ Refs = 2
         /\ local.n \in Inodes \ Marks /\ Cleared(OnDisk(local.n)) /\ Marks \subseteq Inodes
         /\ Tag(1) = InodeBitmap /\ Tag(2) = InodeSector(local.n)
         /\ Val(1) = IF pc = "flush_mark" THEN Marks \union {local.n} ELSE Marks
         /\ Val(2) = disk[Tag(2)]
<1>1. call.op = "create" /\ call.name \in Names
  BY DEF IInv, CallInv, WritePlaces, ReadPlaces
<1>2. local.n \in Inodes \ Marks /\ Cleared(OnDisk(local.n)) /\ Marks \subseteq Inodes
  BY DiskTyped DEF IInv, CreateLocals
<1>3. Refs = 2 /\ Tag(1) = InodeBitmap /\ Tag(2) = InodeSector(local.n)
  BY <1>1 DEF IInv, PlaceInv, Chosen
<1>4. /\ Val(1) = IF pc = "flush_mark" THEN Marks \union {local.n} ELSE Marks
      /\ Val(2) = disk[Tag(2)]
  BY <1>1, <1>3 DEF IInv, ValInv, CreateVals
<1> QED
  BY <1>1, <1>2, <1>3, <1>4

LEMMA MarkStep == ASSUME IInv, MarkInode PROVE IInv' /\ FilesKept
<1>0. PICK i, S : i = local.n /\ S = Marks \union {i}
  OBVIOUS
<1>1. /\ call.op = "create" /\ call.name \in Names /\ Refs = 2
      /\ i \in Inodes \ Marks /\ Cleared(OnDisk(i)) /\ Marks \subseteq Inodes
      /\ Tag(1) = InodeBitmap /\ Tag(2) = InodeSector(i)
      /\ Val(1) = Marks /\ Val(2) = disk[Tag(2)]
  BY <1>0, Marking DEF MarkInode
<1>2. /\ pc = "mark" /\ pc' = "flush_mark"
      /\ Cache!Store(held[1], S)
      /\ UNCHANGED <<call, file, temp, created, acked, counted, local>> /\ local \in Locals
  BY <1>0, <1>1 DEF MarkInode, GoTo, Quiet, IInv, TypeOK, Locals, Val
<1>3. S \in SUBSET Inodes /\ S \in SectorValues
  <2>1. Inodes \subseteq Nat
    BY LayoutAssumption DEF Inodes
  <2> QED
    BY <1>0, <1>1, <2>1 DEF SectorValues
<1>4. /\ CacheInv' /\ Refs' = 2 /\ Val(1)' = S /\ Val(2)' = Val(2)
      /\ Tag(1)' = Tag(1) /\ Tag(2)' = Tag(2)
      /\ disk' = disk
  <2>1. 1 \in 1..Refs /\ 2 \in 1..Refs /\ CacheInv
    BY <1>1 DEF IInv
  <2> HIDE DEF IInv
  <2> QED
    BY <1>1, <1>2, <1>3, <2>1, StoreRefs
<1>5. DiskInv' /\ FilesKept /\ Marks' = Marks /\ \A j : OnDisk(j)' = OnDisk(j)
  BY <1>4, DiskUnchanged
<1>6. TypeOK' /\ FileInv'
  BY <1>2, <1>4, <1>5, QuietStep DEF Quiet
<1>7. CallInv' /\ PlaceInv'
  BY <1>0, <1>1, <1>2, <1>4 DEF CallInv, CreatePlaces, PlaceInv, Chosen
<1>8. ValInv' /\ CreateLocals' /\ FileLocals'
  <2>1. CreateVals'
    <3>1. Val(2) \in InodeTables
      BY <1>1, DiskTyped DEF IInv
    <3> QED
      BY <1>0, <1>1, <1>2, <1>4, <1>5, <3>1 DEF CreateVals
  <2>2. Cleared(OnDisk(local.n))'
    BY <1>0, <1>1, <1>2, <1>4 DEF Cleared, OnDisk
  <2> QED
    BY <1>0, <1>1, <1>2, <1>5, <2>1, <2>2 DEF ValInv, CreateLocals, FileLocals
<1> QED
  BY <1>4, <1>5, <1>6, <1>7, <1>8 DEF IInv

LEMMA FlushMarkStep == ASSUME IInv, FlushMark PROVE IInv' /\ FilesKept
<1>0. PICK i, S : i = local.n /\ S = Marks \union {i}
  OBVIOUS
<1>1. /\ call.op = "create" /\ call.name \in Names /\ Refs = 2
      /\ i \in Inodes \ Marks /\ Cleared(OnDisk(i)) /\ Marks \subseteq Inodes
      /\ Tag(1) = InodeBitmap /\ Tag(2) = InodeSector(i)
      /\ Val(1) = S /\ Val(2) = disk[Tag(2)]
  BY <1>0, Marking DEF FlushMark
<1>2. /\ pc = "flush_mark" /\ pc' = "unwind"
      /\ Cache!Flush(held[1])
      /\ UNCHANGED <<call, file, temp, created, acked, counted, local>> /\ local \in Locals
  BY DEF FlushMark, GoTo, Quiet, IInv, TypeOK, Locals
<1>3. /\ CacheInv' /\ Refs' = 2 /\ Val(1)' = S /\ Val(2)' = Val(2)
      /\ Tag(1)' = Tag(1) /\ Tag(2)' = Tag(2)
      /\ disk' = [disk EXCEPT ![InodeBitmap] = S]
  <2>1. 1 \in 1..Refs /\ 2 \in 1..Refs /\ CacheInv
    BY <1>1 DEF IInv
  <2> HIDE DEF IInv
  <2> QED
    BY <1>1, <1>2, <2>1, FlushRefs
<1>4. /\ DiskInv' /\ Marks' = S
      /\ \A s \in Sectors : s # InodeBitmap => disk'[s] = disk[s]
      /\ \A j \in Inodes : OnDisk(j)' = OnDisk(j)
  <2>1. S \in SUBSET Inodes
    BY <1>0, <1>1
  <2> QED
    BY <1>3, <2>1, BitmapWritten DEF IInv
<1>5. FilesKept
  BY <1>0, <1>1, <1>4 DEF FilesKept, Cleared
<1>6. TypeOK' /\ FileInv'
  BY <1>2, <1>3, <1>4, <1>5, QuietStep DEF Quiet
<1>7. CallInv' /\ PlaceInv'
  BY <1>0, <1>1, <1>2, <1>3 DEF CallInv, CreatePlaces, PlaceInv, Chosen
<1>8. ValInv' /\ CreateLocals' /\ FileLocals'
  <2>1. CreateVals'
    <3>1. Val(2) \in InodeTables /\ Tag(2) \in Sectors /\ Tag(2) # InodeBitmap
      BY <1>1, DiskTyped, InodePlace DEF IInv, InodeBitmap
    <3> QED
      BY <1>1, <1>2, <1>3, <1>4, <3>1 DEF CreateVals
  <2>2. i \notin created
    BY <1>1 DEF IInv, FileInv
  <2>3. Cleared(OnDisk(local.n))' /\ local.n' \in Marks' \ created'
    <3>1. OnDisk(local.n)' = OnDisk(i)
      BY <1>0, <1>1, <1>2, <1>4 DEF OnDisk
    <3> QED
      BY <1>0, <1>1, <1>2, <1>4, <2>2, <3>1 DEF Cleared
  <2> QED
    BY <1>1, <1>2, <2>1, <2>3 DEF ValInv, CreateLocals, FileLocals
<1> QED
  BY <1>3, <1>4, <1>5, <1>6, <1>7, <1>8 DEF IInv

-----------------------------------------------------------------------------
(***************************************************************************)
(* write_to_file.                                                          *)
(***************************************************************************)
\* A call on a file that has its inode.
LEMMA Working ==
  ASSUME IInv, call.op \in {"open", "seek", "write", "read"}, Refs >= 1
  PROVE  /\ call.id \in Marks /\ call.id \in Inodes /\ InodeSector(call.id) \in Sectors
         /\ InodeSector(call.id) \notin DataSectors
         /\ Slot(call.id) \in 0..(InodesPerSector - 1)
         /\ Refs \in 1..2 /\ Tag(1) = InodeSector(call.id)
         /\ Val(1) \in InodeTables /\ FileVals
         /\ Mine = InodeIn(held[1], call.id) /\ Mine \in FileInodes
         /\ Mine.size \in Nat /\ OnDisk(call.id).size \in Nat
         /\ Mine.size >= OnDisk(call.id).size
         /\ Refs = 2 => Tag(2) \in DataSectors /\ Val(2) \in DataBytes
         /\ call.op \in {"write", "read"} => call.pos \in Nat /\ call.len \in Nat /\ Index \in Nat
<1>1. Refs \in 1..2 /\ CacheInv
  BY RefsOfCache DEF IInv, TypeOK, Refs
<1>2. FileVals /\ call.op # "create"
  BY DEF IInv, ValInv
<1>3. /\ call.id \in Marks /\ call.id \in Inodes /\ InodeSector(call.id) \in Sectors
      /\ InodeSector(call.id) \notin DataSectors
      /\ Slot(call.id) \in 0..(InodesPerSector - 1)
      /\ OnDisk(call.id).size \in Nat
  BY FileOfCall DEF FileInodes, InodeRecords
<1>4. Tag(1) = InodeSector(call.id) /\ (Refs = 2 => Tag(2) \in DataSectors)
  BY <1>1, <1>2 DEF IInv, PlaceInv
<1>5. /\ Val(1) \in InodeTables /\ Mine \in FileInodes /\ Mine.size >= OnDisk(call.id).size
      /\ Refs = 2 => Val(2) \in DataBytes
  BY <1>1, <1>2 DEF FileVals
<1>6. Mine = InodeIn(held[1], call.id) /\ Mine.size \in Nat
  BY <1>5 DEF Mine, InodeIn, Val, FileInodes, InodeRecords
<1>7. ASSUME call.op \in {"write", "read"} PROVE call.pos \in Nat /\ call.len \in Nat /\ Index \in Nat
  <2>1. call.pos \in Nat /\ call.len \in Nat
    BY <1>7 DEF IInv, CallInv, TypeOK, NoCall
  <2> QED
    BY <2>1, DivMod, LayoutAssumption DEF Index
<1> QED
  BY <1>1, <1>2, <1>3, <1>4, <1>5, <1>6, <1>7

\* The inode of the file is stored into its buffer.
LEMMA InodeStored ==
  ASSUME IInv, call.op = "write", Refs >= 1, NEW T, NEW ino \in FileInodes,
         T = WithInode(held[1], call.id, ino), ino.size >= Mine.size,
         \/ Cache!Store(held[1], T)
         \/ held[1] \in dirty_mask /\ Cache!StoreThroughPtr(held[1], T),
         UNCHANGED <<call, file, temp, created, acked, counted>>, local' \in Locals,
         \/ local'.flush
         \/ ino = Mine /\ local'.flush = local.flush
  PROVE  /\ CacheInv' /\ DiskInv' /\ TypeOK' /\ FileInv' /\ FilesKept
         /\ FileVals' /\ Mine' = ino
         /\ Refs' = Refs /\ Tag(1)' = Tag(1) /\ held'[1] \in dirty_mask'
         /\ Refs = 2 => Tag(2)' = Tag(2) /\ Val(2)' = Val(2)
         /\ disk' = disk /\ held' = held
<1>1. /\ Slot(call.id) \in 0..(InodesPerSector - 1)
      /\ Refs \in 1..2 /\ Tag(1) = InodeSector(call.id)
      /\ Val(1) \in InodeTables /\ FileVals
      /\ Mine \in FileInodes /\ Mine.size \in Nat /\ OnDisk(call.id).size \in Nat
      /\ Mine.size >= OnDisk(call.id).size
      /\ Refs = 2 => Tag(2) \in DataSectors /\ Val(2) \in DataBytes
  BY Working
<1>2. /\ T \in InodeTables /\ T[Slot(call.id)] = ino
      /\ \A k \in 0..(InodesPerSector - 1) : k # Slot(call.id) => T[k] = Val(1)[k]
  BY <1>1 DEF WithInode, InodeTables, Val
<1>3. ino = Mine => T = Val(1)
  BY <1>1, <1>2, SameTable DEF Mine
<1>4. /\ CacheInv' /\ Refs' = Refs /\ Val(1)' = T /\ Tag(1)' = Tag(1)
      /\ Refs = 2 => Tag(2)' = Tag(2) /\ Val(2)' = Val(2)
      /\ disk' = disk /\ held' = held /\ dirty_mask' = dirty_mask \union {held[1]}
  <2>1. 1 \in 1..Refs /\ (Refs = 2 => 2 \in 1..Refs) /\ CacheInv /\ T \in SectorValues
    BY <1>1, <1>2 DEF IInv, SectorValues
  <2> HIDE DEF IInv
  <2> QED
    BY <1>1, <2>1, StoreRefs
<1>5. DiskInv' /\ FilesKept /\ \A j : OnDisk(j)' = OnDisk(j)
  BY <1>4, DiskUnchanged
<1>6. TypeOK' /\ FileInv'
  BY <1>1, <1>4, <1>5, QuietStep DEF Quiet
<1>7. Mine' = ino
  BY <1>2, <1>4 DEF Mine
<1>8. FileVals'
  <2>1. ino.size \in Nat /\ ino.size >= OnDisk(call.id).size
    BY <1>1 DEF FileInodes, InodeRecords
  <2>2. \A k \in 0..(InodesPerSector - 1) : k # Slot(call.id) => T[k] = disk[Tag(1)][k]
    BY <1>1, <1>2 DEF FileVals
  <2>3. ~local'.flush => T = disk[Tag(1)]
    BY <1>1, <1>3 DEF FileVals
  <2> QED
    BY <1>1, <1>2, <1>4, <1>5, <1>7, <2>1, <2>2, <2>3 DEF FileVals
<1> QED
  BY <1>4, <1>5, <1>6, <1>7, <1>8

LEMMA FindStep ==
  ASSUME IInv, FindBlock
  PROVE  /\ IInv' /\ FilesKept
         /\ disk' = disk /\ Refs' = 1 /\ Mine' = Mine
         /\ pc' \in {"unwind", "allocate", "block"}
         /\ pc' = "allocate" => Mine.blocks[Index] = 0
         /\ pc' = "unwind" => ~local'.ok
<1>1. /\ pc = "find" /\ call.op = "write" /\ Refs = 1
      /\ UNCHANGED <<call, file, temp, created, acked, counted>> /\ local \in Locals
  BY DEF FindBlock, Quiet, IInv, TypeOK, Locals, CallInv, CreatePlaces, ReadPlaces, PlaceInv
<1>2. /\ Index \in Nat /\ Mine = InodeIn(held[1], call.id) /\ Mine \in FileInodes
      /\ Mine.size \in Nat /\ Val(1) \in InodeTables
      /\ Slot(call.id) \in 0..(InodesPerSector - 1)
  BY <1>1, Working
<1>3. \/ pc' = "unwind" /\ local' = [local EXCEPT !.ok = FALSE]
      \/ /\ Index \in BlockWords /\ local' = local
         /\ pc' = IF Mine.blocks[Index] = 0 THEN "allocate" ELSE "block"
  <2>1. \/ Index > Direct /\ Fail
        \/ /\ ~(Index > Direct) /\ local' = local
           /\ pc' = IF Mine.blocks[Index] = 0 THEN "allocate" ELSE "block"
    BY <1>2 DEF FindBlock, Index
  <2> QED
    BY <1>2, <2>1, LayoutAssumption DEF Fail, BlockWords
<1>4. local' \in Locals /\ local'.flush = local.flush
      /\ (pc' = "unwind" => ~local'.ok)
  BY <1>1, <1>3 DEF Locals
<1>5. /\ CacheInv' /\ DiskInv' /\ TypeOK' /\ FileInv' /\ FilesKept
      /\ FileVals' /\ Mine' = Mine /\ disk' = disk
      /\ Refs' = Refs /\ Tag(1)' = Tag(1) /\ held'[1] \in dirty_mask'
  <2>1. buffer[held[1]] = WithInode(held[1], call.id, Mine)
    BY <1>2 DEF WithInode, Mine, Val, InodeTables
  <2>2. Cache!Store(held[1], WithInode(held[1], call.id, Mine))
    BY <2>1 DEF FindBlock
  <2> QED
    BY <1>1, <1>2, <1>4, <2>2, InodeStored
<1>6. CallInv' /\ PlaceInv'
  BY <1>1, <1>3, <1>5 DEF IInv, CallInv, WritePlaces, PlaceInv
<1>7. ValInv' /\ CreateLocals' /\ FileLocals'
  BY <1>1, <1>3, <1>4, <1>5 DEF ValInv, CreateLocals, FileLocals, Index
<1> QED
  BY <1>1, <1>3, <1>4, <1>5, <1>6, <1>7 DEF IInv

LEMMA AllocateStep ==
  ASSUME IInv, Allocate
  PROVE  /\ IInv' /\ FilesKept /\ pc' \in {"unwind", "link"}
         /\ Refs' = 1 /\ Mine' = Mine /\ Marks' = Marks
         /\ \A i \in Inodes : OnDisk(i)' = OnDisk(i)
         /\ \A s \in DataSectors : disk'[s] = disk[s]
         /\ pc' = "unwind" => ~local'.ok
<1>0. PICK st, v : /\ st = Search(disk[BlockBitmap], BlockSectors)
                   /\ v = disk[BlockBitmap] \union Marked(st, BlockSectors)
  OBVIOUS
<1>1. /\ pc = "allocate" /\ call.op = "write" /\ Refs = 1 /\ Quiet
      /\ UNCHANGED <<call, file, temp, created, acked, counted>> /\ local \in Locals
  BY DEF Allocate, Quiet, IInv, TypeOK, Locals, CallInv, CreatePlaces, ReadPlaces, PlaceInv
<1>2. CASE st.count < BlockSectors
  <2>1. UNCHANGED cacheVars /\ Fail
    BY <1>0, <1>2 DEF Allocate
  <2> QED
    BY <1>1, <2>1, FailStep DEF OnDisk, Marks
<1>3. CASE ~(st.count < BlockSectors)
  <2>1. /\ Cache!WritePast(BlockBitmap, v) /\ pc' = "link"
        /\ local' = [local EXCEPT !.sector = FirstSector(st), !.flush = TRUE]
    BY <1>0, <1>3 DEF Allocate
  <2>2. FirstSector(st) \in BlockStarts /\ Marked(st, BlockSectors) \subseteq Nat
    <3>1. st.count >= BlockSectors
      <4>1. BlockSectors \in 1..ByteBits
        BY LayoutAssumption
      <4>2. st.count \in Nat
        BY <1>0, <4>1, SearchWithin DEF RunWithin, Runs
      <4> QED
        BY <1>3, <4>1, <4>2
    <3> QED
      BY <1>0, <3>1, AllocatedBlock
  <2>3. v \in Shape(BlockBitmap) /\ v \in SectorValues
    BY <1>0, <2>2, DiskTyped DEF IInv, Shape, SectorValues
  <2>4. /\ UNCHANGED <<buf_sectors, buffer, dirty_mask, held>>
        /\ disk' = [disk EXCEPT ![BlockBitmap] = v]
    BY <2>1 DEF Cache!WritePast
  <2>5. CacheInv'
    BY <2>1, <2>3, WritePastRefs DEF IInv
  <2>6. /\ DiskInv' /\ Marks' = Marks
        /\ \A j \in Inodes : /\ OnDisk(j)' = OnDisk(j)
                             /\ disk'[InodeSector(j)] = disk[InodeSector(j)]
        /\ \A s \in Sectors : s # BlockBitmap => disk'[s] = disk[s]
    BY <2>3, <2>4, BytesWritten DEF IInv
  <2>7. /\ Refs' = Refs /\ Tag(1)' = Tag(1) /\ Val(1)' = Val(1) /\ Mine' = Mine
    BY <1>1, <2>4 DEF Refs, Tag, Val, Mine
  <2>8. FilesKept
    BY <2>6, DiskTyped DEF FilesKept, IInv
  <2>9. /\ local' \in Locals /\ local'.flush = TRUE /\ local'.sector \in BlockStarts
        /\ local'.n = local.n
    BY <1>1, <2>1, <2>2 DEF Locals, BlockStarts
  <2>10. TypeOK' /\ FileInv'
    BY <1>1, <2>5, <2>6, <2>7, <2>8, <2>9, QuietStep
  <2>11. CallInv' /\ PlaceInv'
    BY <1>1, <2>1, <2>4, <2>7 DEF IInv, CallInv, WritePlaces, PlaceInv
  <2>12. FileVals'
    <3>1. FileVals /\ call.id \in Inodes /\ Tag(1) = InodeSector(call.id)
      BY <1>1, Working
    <3> QED
      BY <1>1, <2>6, <2>7, <2>9, <3>1 DEF FileVals
  <2>13. ValInv' /\ CreateLocals' /\ FileLocals'
    BY <1>1, <2>1, <2>9, <2>12 DEF IInv, ValInv, CreateLocals, FileLocals, Index
  <2>14. \A s \in DataSectors : disk'[s] = disk[s]
    <3>1. \A s \in DataSectors : s \in Sectors /\ s # BlockBitmap
      BY SectorLayout DEF BlockBitmap
    <3> QED
      BY <2>6, <3>1
  <2> QED
    BY <1>1, <2>1, <2>5, <2>6, <2>7, <2>8, <2>10, <2>11, <2>13, <2>14 DEF IInv
<1> QED
  BY <1>2, <1>3

LEMMA LinkStep ==
  ASSUME IInv, LinkBlock
  PROVE  /\ IInv' /\ FilesKept /\ pc' = "block"
         /\ disk' = disk /\ Refs' = 1
         /\ Mine \in FileInodes /\ Index \in BlockWords
         /\ Mine' = [Mine EXCEPT !.blocks[Index] = local.sector]
<1>0. PICK ino : ino = [InodeIn(held[1], call.id) EXCEPT !.blocks[Index] = local.sector]
  OBVIOUS
<1>1. /\ pc = "link" /\ pc' = "block" /\ call.op = "write" /\ Refs = 1
      /\ UNCHANGED <<call, file, temp, created, acked, counted, local>> /\ local \in Locals
  BY DEF LinkBlock, GoTo, Quiet, IInv, TypeOK, Locals, CallInv, CreatePlaces, ReadPlaces, PlaceInv
<1>2. Mine = InodeIn(held[1], call.id) /\ Mine \in FileInodes /\ Mine.size \in Nat
  BY <1>1, Working
<1>3. /\ Index \in BlockWords /\ local.sector \in BlockStarts /\ local.flush
      /\ held[1] \in dirty_mask
  BY <1>1 DEF IInv, FileLocals, PlaceInv
<1>4. ino \in FileInodes /\ ino.size = Mine.size /\ ino.blocks[Index] # 0
  <2>1. local.sector \in Nat \ {0}
    <3>1. local.sector \in DataSectors
      BY <1>3 DEF BlockStarts
    <3>2. local.sector \in Nat /\ local.sector >= BlockStart
      BY <3>1, SectorLayout
    <3> QED
      BY <3>2, SectorLayout
  <2>2. /\ ino = [Mine EXCEPT !.blocks = [Mine.blocks EXCEPT ![Index] = local.sector]]
    BY <1>0, <1>2
  <2> DEFINE blocks == [Mine.blocks EXCEPT ![Index] = local.sector]
  <2>3. /\ Mine \in InodeRecords /\ Mine.size <= (Direct + 1) * SectorSize
        /\ \A k \in BlockWords : Mine.blocks[k] \in {0} \union BlockStarts
    BY <1>2 DEF FileInodes
  <2>4. /\ blocks \in [BlockWords -> Nat] /\ blocks[Index] = local.sector
        /\ \A k \in BlockWords : blocks[k] \in {0} \union BlockStarts
    BY <1>3, <2>1, <2>3 DEF InodeRecords
  <2> HIDE DEF blocks
  <2>5. /\ ino \in InodeRecords /\ ino.size = Mine.size /\ ino.blocks = blocks
    BY <2>2, <2>3, <2>4 DEF InodeRecords, blocks
  <2> QED
    BY <2>1, <2>3, <2>4, <2>5 DEF FileInodes
<1>5. /\ CacheInv' /\ DiskInv' /\ TypeOK' /\ FileInv' /\ FilesKept
      /\ FileVals' /\ Mine' = ino /\ disk' = disk
      /\ Refs' = Refs /\ Tag(1)' = Tag(1) /\ held'[1] \in dirty_mask'
  <2>1. Cache!StoreThroughPtr(held[1], WithInode(held[1], call.id, ino))
    BY <1>0 DEF LinkBlock, Index
  <2>2. ino.size >= Mine.size
    BY <1>2, <1>4
  <2> QED
    BY <1>1, <1>3, <1>4, <2>1, <2>2, InodeStored
<1>6. CallInv' /\ PlaceInv'
  BY <1>1, <1>5 DEF IInv, CallInv, WritePlaces, PlaceInv
<1>7. ValInv' /\ CreateLocals' /\ FileLocals'
  BY <1>1, <1>3, <1>4, <1>5 DEF ValInv, CreateLocals, FileLocals, Index
<1> QED
  BY <1>0, <1>1, <1>2, <1>3, <1>5, <1>6, <1>7 DEF IInv

\* A position in the last block that a file may have is not past its end.
LEMMA WithinFile ==
  ASSUME NEW pos \in Nat, NEW n \in Nat, pos \div SectorSize \in BlockWords,
         n <= SectorSize - (pos % SectorSize)
  PROVE  pos + n <= (Direct + 1) * SectorSize
<1>1. PICK q, r : q = pos \div SectorSize /\ r = pos % SectorSize
  OBVIOUS
<1>2. q \in Nat /\ q + 1 <= Direct + 1 /\ r \in Nat /\ pos = SectorSize * q + r
  BY <1>1, DivMod, LayoutAssumption DEF BlockWords
<1>3. SectorSize * q + SectorSize = (q + 1) * SectorSize
  BY <1>2, LayoutAssumption
<1>4. (q + 1) * SectorSize <= (Direct + 1) * SectorSize
  BY <1>2, LayoutAssumption
<1>5. SectorSize * q \in Nat /\ (q + 1) * SectorSize \in Nat /\ (Direct + 1) * SectorSize \in Nat
  BY <1>2, LayoutAssumption
<1>6. n <= SectorSize - r
  BY <1>1
<1> QED
  BY <1>2, <1>3, <1>4, <1>5, <1>6, LayoutAssumption

LEMMA CopyStep ==
  ASSUME IInv, CopyIn, NEW from, from = call.pos % SectorSize
  PROVE  /\ IInv' /\ FilesKept /\ pc' = "flush_data"
         /\ disk' = disk /\ Refs' = 2 /\ Mine' = Mine /\ Tag(2)' = Tag(2)
         /\ from \in 0..(SectorSize - 1) /\ local'.n \in Nat /\ local'.n <= SectorSize - from
         /\ \A k \in 0..(SectorSize - 1) :
              Val(2)'[k] = IF k \in from..(from + local'.n - 1) THEN Data ELSE Val(2)[k]
<1>0. PICK n, v :
        /\ from = call.pos % SectorSize
        /\ n = Min({call.len, SectorSize - from})
        /\ v = [k \in 0..(SectorSize - 1) |->
                  IF k \in from..(from + n - 1) THEN Data ELSE buffer[held[2]][k]]
  OBVIOUS
<1>1. /\ pc = "copy" /\ pc' = "flush_data" /\ call.op = "write" /\ Refs = 2
      /\ n = 0 \/ Cache!Store(held[2], v)
      /\ n = 0 => UNCHANGED cacheVars
      /\ local' = [local EXCEPT !.n = n]
      /\ UNCHANGED <<call, file, temp, created, acked, counted>> /\ local \in Locals
  BY <1>0 DEF CopyIn, Quiet, IInv, TypeOK, Locals, CallInv, CreatePlaces, ReadPlaces, PlaceInv
<1>2. /\ call.pos \in Nat /\ call.len \in Nat /\ FileVals /\ Val(2) \in DataBytes
      /\ Tag(2) \in DataSectors
  BY <1>1, Working
<1>3. /\ from \in 0..(SectorSize - 1) /\ n \in Nat /\ n <= SectorSize - from
      /\ call.pos + n <= (Direct + 1) * SectorSize
  <2>1. from \in 0..(SectorSize - 1)
    BY <1>0, <1>2, DivMod, LayoutAssumption
  <2>2. n = IF call.len <= SectorSize - from THEN call.len ELSE SectorSize - from
    <3>1. call.len \in Int /\ SectorSize - from \in Int
      BY <1>2, <2>1, LayoutAssumption
    <3>2. n = Min({call.len, SectorSize - from})
      BY <1>0
    <3> QED
      BY <3>1, <3>2, MinOfTwo
  <2>3. n \in Nat /\ n <= SectorSize - from
    BY <1>2, <2>1, <2>2, LayoutAssumption
  <2>4. call.pos \div SectorSize \in BlockWords
    BY <1>1 DEF IInv, FileLocals, Index
  <2> QED
    BY <1>0, <1>2, <2>1, <2>3, <2>4, WithinFile
<1>4. v \in DataBytes
  BY <1>0, <1>2 DEF DataBytes, Val
<1>5. local' \in Locals /\ local'.n = n /\ local'.flush = local.flush
  BY <1>1, <1>3 DEF Locals
<1>6. /\ CacheInv' /\ Refs' = 2 /\ Val(1)' = Val(1)
      /\ Val(2)' = IF n = 0 THEN Val(2) ELSE v
      /\ Tag(1)' = Tag(1) /\ Tag(2)' = Tag(2)
      /\ disk' = disk /\ held' = held
      /\ dirty_mask \subseteq dirty_mask'
  <2>1. CASE n = 0
    <3>1. /\ UNCHANGED <<disk, held, buf_sectors, buffer, dirty_mask, free_mask>>
      BY <1>1, <2>1 DEF cacheVars
    <3>2. CacheInv'
      BY <3>1 DEF IInv, CacheInv, Kept!Inv, Kept!CacheTypeOK, Kept!FreeMaskExact, Kept!Coherent,
                  Kept!HeldTagged, Kept!Held
    <3> QED
      BY <1>1, <2>1, <3>1, <3>2 DEF Refs, Val, Tag
  <2>2. CASE n # 0
    <3>1. 1 \in 1..Refs /\ 2 \in 1..Refs /\ CacheInv /\ v \in SectorValues
      BY <1>1, <1>4 DEF IInv, SectorValues
    <3> HIDE DEF IInv
    <3> QED
      BY <1>1, <1>4, <2>2, <3>1, StoreRefs
  <2> QED
    BY <2>1, <2>2
<1>7. DiskInv' /\ FilesKept /\ \A j : OnDisk(j)' = OnDisk(j)
  BY <1>6, DiskUnchanged
<1>8. TypeOK' /\ FileInv'
  BY <1>1, <1>5, <1>6, <1>7, QuietStep DEF Quiet
<1>9. CallInv' /\ PlaceInv'
  BY <1>1, <1>2, <1>6 DEF IInv, CallInv, WritePlaces, PlaceInv
<1>10. Mine' = Mine
  BY <1>1, <1>6 DEF Mine
<1>11. ValInv' /\ CreateLocals' /\ FileLocals'
  <2>1. Val(2)' \in DataBytes
    BY <1>2, <1>4, <1>6
  <2> QED
    BY <1>1, <1>2, <1>3, <1>5, <1>6, <1>7, <1>10, <2>1 DEF ValInv, FileVals, CreateLocals, FileLocals
<1>12. \A k \in 0..(SectorSize - 1) :
         Val(2)'[k] = IF k \in from..(from + n - 1) THEN Data ELSE Val(2)[k]
  BY <1>0, <1>3, <1>6 DEF Val
<1> QED
  BY <1>1, <1>3, <1>5, <1>6, <1>7, <1>8, <1>9, <1>10, <1>11, <1>12 DEF IInv

LEMMA FlushDataStep ==
  ASSUME IInv, FlushData, NEW s, s = Tag(2)
  PROVE  /\ IInv' /\ FilesKept /\ pc' = "grow"
         /\ Refs' = 2 /\ Mine' = Mine /\ Tag(2)' = s /\ Val(2)' = Val(2)
         /\ s \in DataSectors /\ disk'[s] = Val(2) /\ Marks' = Marks
         /\ \A i \in Inodes : OnDisk(i)' = OnDisk(i)
         /\ \A r \in DataSectors : r # s => disk'[r] = disk[r]
<1>1. /\ pc = "flush_data" /\ pc' = "grow" /\ call.op = "write" /\ Refs = 2
      /\ Cache!Flush(held[2]) /\ held[1] \in dirty_mask
      /\ UNCHANGED <<call, file, temp, created, acked, counted, local>> /\ local \in Locals
  BY DEF FlushData, GoTo, Quiet, IInv, TypeOK, Locals, CallInv, CreatePlaces, ReadPlaces, PlaceInv
<1>2. PICK v : v = Val(2)
  OBVIOUS
<1>3. /\ s \in DataSectors /\ v \in DataBytes /\ FileVals
      /\ call.id \in Inodes /\ Tag(1) = InodeSector(call.id)
  BY <1>1, <1>2, Working
<1>4. /\ CacheInv' /\ Refs' = 2 /\ Val(2)' = v /\ Val(1)' = Val(1)
      /\ Tag(1)' = Tag(1) /\ Tag(2)' = s /\ held' = held
      /\ disk' = [disk EXCEPT ![s] = v]
      /\ dirty_mask' = dirty_mask \ {held[2]} /\ held[1] # held[2]
  <2>1. 1 \in 1..Refs /\ 2 \in 1..Refs /\ CacheInv
    BY <1>1 DEF IInv
  <2>2. held[1] # held[2]
    BY <2>1, RefsOfCache
  <2> HIDE DEF IInv
  <2> QED
    BY <1>1, <1>2, <2>1, <2>2, FlushRefs
<1>5. /\ DiskInv' /\ Marks' = Marks
      /\ \A j \in Inodes : /\ OnDisk(j)' = OnDisk(j)
                           /\ disk'[InodeSector(j)] = disk[InodeSector(j)]
      /\ disk'[s] = v /\ \A r \in Sectors : r # s => disk'[r] = disk[r]
  <2>1. v \in Shape(s)
    BY <1>3, SectorLayout DEF Shape, BlockBitmap, InodeBitmap
  <2> QED
    BY <1>3, <1>4, <2>1, BytesWritten DEF IInv
<1>6. FilesKept
  BY <1>5, DiskTyped DEF FilesKept, IInv
<1>7. TypeOK' /\ FileInv'
  BY <1>1, <1>4, <1>5, <1>6, QuietStep DEF Quiet
<1>8. CallInv' /\ PlaceInv'
  BY <1>1, <1>3, <1>4 DEF IInv, CallInv, WritePlaces, PlaceInv
<1>9. Mine' = Mine
  BY <1>1, <1>4 DEF Mine
<1>10. ValInv' /\ CreateLocals' /\ FileLocals'
  <2>1. FileVals'
    BY <1>1, <1>3, <1>4, <1>5, <1>9 DEF FileVals
  <2> QED
    BY <1>1, <2>1 DEF IInv, ValInv, CreateLocals, FileLocals
<1> QED
  BY <1>1, <1>2, <1>3, <1>4, <1>5, <1>6, <1>7, <1>8, <1>9, <1>10, SectorLayout DEF IInv

\* A step of a call that leaves the cache and the disk alone.
LEMMA CacheUnchanged ==
  ASSUME IInv, UNCHANGED cacheVars, UNCHANGED <<call, file, temp, created, acked, counted>>,
         local' \in Locals
  PROVE  /\ CacheInv' /\ DiskInv' /\ TypeOK' /\ FileInv' /\ FilesKept
         /\ Marks' = Marks /\ \A j : OnDisk(j)' = OnDisk(j)
         /\ Refs' = Refs /\ Refs \in 0..2
         /\ \A k : Tag(k)' = Tag(k) /\ Val(k)' = Val(k)
         /\ Mine' = Mine /\ disk' = disk
<1>1. UNCHANGED <<disk, held, buf_sectors, buffer, dirty_mask, free_mask>>
  BY DEF cacheVars
<1>2. DiskInv' /\ FilesKept /\ Marks' = Marks /\ \A j : OnDisk(j)' = OnDisk(j)
  BY <1>1, DiskUnchanged
<1>3. CacheInv'
  BY <1>1 DEF IInv, CacheInv, Kept!Inv, Kept!CacheTypeOK, Kept!FreeMaskExact, Kept!Coherent,
              Kept!HeldTagged, Kept!Held
<1>4. /\ Refs' = Refs /\ Refs \in 0..2
      /\ \A k : Tag(k)' = Tag(k) /\ Val(k)' = Val(k)
      /\ Mine' = Mine
  BY <1>1, RefsOfCache DEF IInv, TypeOK, Refs, Tag, Val, Mine
<1>5. TypeOK' /\ FileInv'
  BY <1>2, <1>3, <1>4, QuietStep DEF Quiet
<1> QED
  BY <1>1, <1>2, <1>3, <1>4, <1>5

LEMMA GrowStep ==
  ASSUME IInv, Grow
  PROVE  /\ IInv' /\ FilesKept /\ pc' = "flush_inode"
         /\ disk' = disk /\ Refs' = 2 /\ Tag(2)' = Tag(2) /\ Val(2)' = Val(2)
         /\ Mine' = IF Mine.size < call.pos + local.n
                      THEN [Mine EXCEPT !.size = call.pos + local.n] ELSE Mine
<1>1. /\ pc = "grow" /\ pc' = "flush_inode" /\ call.op = "write" /\ Refs = 2
      /\ UNCHANGED <<call, file, temp, created, acked, counted>> /\ local \in Locals
      /\ local.n \in Nat
  BY DEF Grow, Quiet, IInv, TypeOK, Locals, CallInv, CreatePlaces, ReadPlaces, PlaceInv
<1>2. /\ Mine = InodeIn(held[1], call.id) /\ Mine \in FileInodes /\ Mine.size \in Nat
      /\ call.pos \in Nat /\ FileVals
      /\ Tag(1) = InodeSector(call.id) /\ Tag(2) \in DataSectors /\ Val(2) \in DataBytes
  BY <1>1, Working
<1>3. call.pos + local.n <= (Direct + 1) * SectorSize /\ held[1] \in dirty_mask
  BY <1>1 DEF IInv, FileLocals, PlaceInv
<1>4. PICK ino : ino = [Mine EXCEPT !.size = call.pos + local.n]
  OBVIOUS
<1>5. CASE Mine.size < call.pos + local.n
  <2>1. /\ Cache!StoreThroughPtr(held[1], WithInode(held[1], call.id, ino))
        /\ local' = [local EXCEPT !.flush = TRUE]
    BY <1>2, <1>4, <1>5 DEF Grow
  <2>2. local' \in Locals /\ local'.flush /\ local'.n = local.n
    BY <1>1, <2>1 DEF Locals
  <2>3. /\ ino \in FileInodes /\ ino.size = call.pos + local.n
        /\ ino.size >= Mine.size
    <3>1. call.pos + local.n \in Nat
      BY <1>1, <1>2
    <3>2. /\ Mine \in InodeRecords
          /\ \A k \in BlockWords : Mine.blocks[k] \in {0} \union BlockStarts
      BY <1>2 DEF FileInodes
    <3>3. /\ ino \in InodeRecords /\ ino.size = call.pos + local.n /\ ino.blocks = Mine.blocks
      BY <1>4, <3>1, <3>2 DEF InodeRecords
    <3> QED
      BY <1>2, <1>3, <1>5, <3>1, <3>2, <3>3 DEF FileInodes
  <2>4. /\ CacheInv' /\ DiskInv' /\ TypeOK' /\ FileInv' /\ FilesKept
        /\ FileVals' /\ Mine' = ino /\ disk' = disk /\ Val(2)' = Val(2)
        /\ Refs' = 2 /\ Tag(1)' = Tag(1) /\ Tag(2)' = Tag(2)
    <3>1. Refs >= 1 /\ ino.size >= Mine.size /\ ino \in FileInodes
      BY <1>1, <2>3
    <3>2. PICK T : T = WithInode(held[1], call.id, ino)
      OBVIOUS
    <3>3. held[1] \in dirty_mask /\ Cache!StoreThroughPtr(held[1], T)
      BY <1>3, <2>1, <3>2
    <3> QED
      BY <1>1, <2>2, <3>1, <3>2, <3>3, InodeStored
  <2>5. CallInv' /\ PlaceInv'
    BY <1>1, <1>2, <2>4 DEF IInv, CallInv, WritePlaces, PlaceInv
  <2>6. ValInv' /\ CreateLocals' /\ FileLocals'
    BY <1>1, <1>2, <1>3, <2>2, <2>3, <2>4 DEF ValInv, CreateLocals, FileLocals
  <2> QED
    BY <1>1, <1>4, <1>5, <2>4, <2>5, <2>6 DEF IInv
<1>6. CASE ~(Mine.size < call.pos + local.n)
  <2>1. UNCHANGED cacheVars /\ local' = local
    BY <1>2, <1>6 DEF Grow
  <2>2. /\ CacheInv' /\ DiskInv' /\ TypeOK' /\ FileInv' /\ FilesKept
        /\ \A j : OnDisk(j)' = OnDisk(j)
        /\ Refs' = Refs
        /\ \A k : Tag(k)' = Tag(k) /\ Val(k)' = Val(k)
        /\ Mine' = Mine /\ disk' = disk
    BY <1>1, <2>1, CacheUnchanged
  <2>3. CallInv' /\ PlaceInv'
    BY <1>1, <1>2, <2>2 DEF IInv, CallInv, WritePlaces, PlaceInv
  <2>4. ValInv' /\ CreateLocals' /\ FileLocals'
    BY <1>1, <1>2, <1>3, <1>6, <2>1, <2>2 DEF ValInv, FileVals, CreateLocals, FileLocals
  <2> QED
    BY <1>1, <1>6, <2>2, <2>3, <2>4 DEF IInv
<1> QED
  BY <1>5, <1>6

\* The buffer of the file's inode is written: the inode on disk is the buffer's.
LEMMA InodeFlushed ==
  ASSUME IInv, call.op \in {"open", "seek", "write", "read"}, Refs >= 1,
         UNCHANGED call, disk' = [disk EXCEPT ![Tag(1)] = Val(1)]
  PROVE  /\ DiskInv' /\ FilesKept /\ Marks' = Marks
         /\ OnDisk(call.id)' = Mine
         /\ disk'[Tag(1)] = Val(1)
         /\ \A s \in Sectors : s # Tag(1) => disk'[s] = disk[s]
<1>1. PICK i, T, ino : i = call.id /\ T = Val(1) /\ ino = Mine
  OBVIOUS
<1>2. /\ i \in Marks /\ i \in Inodes /\ Tag(1) = InodeSector(i) /\ T \in InodeTables /\ FileVals
      /\ ino \in FileInodes /\ ino.size \in Nat /\ ino.size >= OnDisk(i).size /\ ino = T[Slot(i)]
  BY <1>1, Working DEF Mine
<1>3. \A k \in 0..(InodesPerSector - 1) : k # Slot(i) => T[k] = disk[InodeSector(i)][k]
  BY <1>1, <1>2 DEF FileVals
<1>4. /\ DiskInv' /\ Marks' = Marks /\ OnDisk(i)' = ino /\ disk'[InodeSector(i)] = T
      /\ \A s \in Sectors : s # InodeSector(i) => disk'[s] = disk[s]
      /\ \A j \in Inodes : j # i => OnDisk(j)' = OnDisk(j)
  <2>1. DiskInv /\ disk' = [disk EXCEPT ![InodeSector(i)] = T]
    BY <1>1, <1>2 DEF IInv
  <2>2. /\ DiskInv' /\ Marks' = Marks /\ OnDisk(i)' = T[Slot(i)] /\ disk'[InodeSector(i)] = T
        /\ \A s \in Sectors : s # InodeSector(i) => disk'[s] = disk[s]
        /\ \A j \in Inodes : j # i => OnDisk(j)' = OnDisk(j)
    BY <1>2, <1>3, <2>1, TableWritten
  <2> QED
    BY <1>2, <2>2
<1>5. OnDisk(call.id)' = ino
  BY <1>1, <1>4 DEF OnDisk
<1>6. FilesKept
  <2>1. call.op # "write" => OnDisk(i)' = OnDisk(i)
    <3>1. call.op # "write" => T = disk[Tag(1)]
      BY <1>1, <1>2 DEF FileVals
    <3>2. T = disk[Tag(1)] => ino = OnDisk(i)
      BY <1>2 DEF OnDisk
    <3> QED
      BY <1>4, <3>1, <3>2
  <2>2. \A j \in Marks : j \in Inodes
    BY DiskTyped DEF IInv
  <2> QED
    BY <1>1, <1>2, <1>4, <2>1, <2>2 DEF FilesKept
<1> QED
  BY <1>1, <1>2, <1>4, <1>5, <1>6

LEMMA FlushInodeStep ==
  ASSUME IInv, FlushInode
  PROVE  /\ IInv' /\ FilesKept /\ pc' = "unwind"
         /\ Refs' = 2 /\ Mine' = Mine /\ Tag(2)' = Tag(2) /\ Val(2)' = Val(2)
         /\ Marks' = Marks /\ OnDisk(call.id)' = Mine
         /\ \A s \in DataSectors : disk'[s] = disk[s]
<1>1. /\ pc = "flush_inode" /\ pc' = "unwind" /\ call.op = "write" /\ Refs = 2
      /\ UNCHANGED <<call, file, temp, created, acked, counted, local>> /\ local \in Locals
  BY DEF FlushInode, GoTo, Quiet, IInv, TypeOK, Locals, CallInv, CreatePlaces, ReadPlaces, PlaceInv
<1>2. /\ Mine \in FileInodes /\ Mine.size \in Nat /\ FileVals
      /\ Tag(1) = InodeSector(call.id) /\ Tag(1) \in Sectors
      /\ Tag(1) \notin DataSectors /\ Tag(2) \in DataSectors /\ Val(2) \in DataBytes
      /\ Val(1) \in InodeTables
  BY <1>1, Working
<1>3. Mine.size >= call.pos + local.n
  BY <1>1 DEF IInv, FileLocals
<1>4. CASE local.flush
  <2>1. /\ CacheInv' /\ Refs' = 2 /\ Val(2)' = Val(2) /\ Val(1)' = Val(1)
        /\ Tag(1)' = Tag(1) /\ Tag(2)' = Tag(2)
        /\ disk' = [disk EXCEPT ![Tag(1)] = Val(1)]
    <3>1. 1 \in 1..Refs /\ 2 \in 1..Refs /\ CacheInv /\ Cache!Flush(held[1])
      BY <1>1, <1>4 DEF IInv, FlushInode
    <3> HIDE DEF IInv
    <3> QED
      BY <1>1, <3>1, FlushRefs
  <2>2. /\ DiskInv' /\ FilesKept /\ Marks' = Marks
        /\ OnDisk(call.id)' = Mine /\ disk'[Tag(1)] = Val(1)
        /\ \A s \in Sectors : s # Tag(1) => disk'[s] = disk[s]
    BY <1>1, <2>1, InodeFlushed
  <2>3. TypeOK' /\ FileInv' /\ Mine' = Mine
    <3>1. Mine' = Mine
      BY <1>1, <2>1 DEF Mine
    <3> QED
      BY <1>1, <2>1, <2>2, <3>1, QuietStep DEF Quiet
  <2>4. CallInv' /\ PlaceInv'
    BY <1>1, <1>2, <2>1 DEF IInv, CallInv, WritePlaces, PlaceInv
  <2>5. ValInv' /\ CreateLocals' /\ FileLocals'
    BY <1>1, <1>2, <1>3, <2>1, <2>2, <2>3 DEF ValInv, FileVals, CreateLocals, FileLocals
  <2> QED
    BY <1>1, <1>2, <2>1, <2>2, <2>3, <2>4, <2>5, SectorLayout DEF IInv
<1>5. CASE ~local.flush
  <2>1. UNCHANGED cacheVars
    BY <1>5 DEF FlushInode
  <2>2. /\ CacheInv' /\ DiskInv' /\ TypeOK' /\ FileInv' /\ FilesKept
        /\ Marks' = Marks /\ (\A j : OnDisk(j)' = OnDisk(j))
        /\ Refs' = Refs
        /\ \A k : Tag(k)' = Tag(k) /\ Val(k)' = Val(k)
        /\ Mine' = Mine /\ disk' = disk
    BY <1>1, <2>1, CacheUnchanged
  <2>3. CallInv' /\ PlaceInv'
    BY <1>1, <1>2, <2>2 DEF IInv, CallInv, WritePlaces, PlaceInv
  <2>4. Mine = OnDisk(call.id)
    <3>1. Val(1) = disk[Tag(1)]
      BY <1>1, <1>2, <1>5 DEF FileVals
    <3> QED
      BY <1>2, <3>1 DEF Mine, OnDisk
  <2>5. ValInv' /\ CreateLocals' /\ FileLocals'
    BY <1>1, <1>2, <1>3, <2>2, <2>4 DEF ValInv, FileVals, CreateLocals, FileLocals
  <2>6. OnDisk(call.id)' = Mine
    BY <1>1, <2>2, <2>4 DEF OnDisk
  <2> QED
    BY <1>1, <2>2, <2>3, <2>5, <2>6 DEF IInv
<1> QED
  BY <1>4, <1>5

-----------------------------------------------------------------------------
(***************************************************************************)
(* read_from_file, and the size that open and seek take.                   *)
(***************************************************************************)
LEMMA LookStep ==
  ASSUME IInv, LocateBlock \/ CountBytes \/ GetSize
  PROVE  IInv' /\ FilesKept /\ disk' = disk
<1>1. /\ pc \in {"locate", "count", "size"} /\ UNCHANGED cacheVars
      /\ UNCHANGED <<call, file, temp, created, acked, counted>> /\ local \in Locals
  BY DEF LocateBlock, CountBytes, GetSize, Quiet, IInv, TypeOK, Locals
<1>2. /\ call.op \in {"read", "open", "seek"} /\ Refs >= 1
      /\ pc = "locate" => call.op = "read" /\ Refs = 1
      /\ pc = "count" => call.op = "read"
  BY <1>1 DEF IInv, CallInv, CreatePlaces, WritePlaces, ReadPlaces, PlaceInv
<1>3. /\ Mine = InodeIn(held[1], call.id) /\ Mine \in FileInodes /\ Mine.size \in Nat
      /\ Tag(1) = InodeSector(call.id) /\ FileVals
      /\ pc # "size" => call.pos \in Nat /\ call.len \in Nat /\ Index \in Nat
  BY <1>1, <1>2, Working
<1>4. \/ pc' = "unwind" /\ \E n \in Nat : local' = [local EXCEPT !.n = n]
      \/ pc' = "unwind" /\ local' = [local EXCEPT !.ok = FALSE]
      \/ /\ pc = "locate" /\ pc' = "fetch" /\ local' = local
         /\ Index \in BlockWords /\ Mine.blocks[Index] # 0
  <2>1. CASE LocateBlock
    BY <1>3, <2>1, LayoutAssumption DEF LocateBlock, Index, Fail, GoTo, BlockWords
  <2>2. CASE CountBytes
    <3>1. PICK left : left = BytesLeft(InodeIn(held[1], call.id).size, call.pos)
      OBVIOUS
    <3>2. left \in Int
      <4>1. /\ InodeIn(held[1], call.id).size \in Nat /\ call.pos \in Nat
            /\ SectorSize \in Nat \ {0}
        BY <1>3, <2>2, LayoutAssumption DEF CountBytes
      <4>2. PICK a, b : /\ a = InodeIn(held[1], call.id).size % SectorSize
                        /\ b = call.pos % SectorSize
        OBVIOUS
      <4>3. a \in Int /\ b \in Int
        BY <4>1, <4>2, DivMod
      <4>4. left = a - b + 1
        BY <3>1, <4>2 DEF BytesLeft
      <4> QED
        BY <4>3, <4>4
    <3>3. (IF left < 0 THEN call.len ELSE Min({left, call.len})) \in Nat
      <4>1. call.len \in Nat
        BY <1>3, <2>2 DEF CountBytes
      <4>2. Min({left, call.len}) = IF left <= call.len THEN left ELSE call.len
        BY <3>2, <4>1, MinOfTwo
      <4> QED
        BY <3>2, <4>1, <4>2
    <3> QED
      BY <2>2, <3>1, <3>3 DEF CountBytes
  <2>3. CASE GetSize
    BY <1>3, <2>3 DEF GetSize
  <2> QED
    BY <2>1, <2>2, <2>3
<1>5. local' \in Locals
  BY <1>1, <1>4 DEF Locals
<1>6. /\ CacheInv' /\ DiskInv' /\ TypeOK' /\ FileInv' /\ FilesKept
      /\ \A j : OnDisk(j)' = OnDisk(j)
      /\ Refs' = Refs
      /\ \A k : Tag(k)' = Tag(k) /\ Val(k)' = Val(k)
      /\ Mine' = Mine /\ disk' = disk
  BY <1>1, <1>5, CacheUnchanged
<1>7. CallInv'
  BY <1>1, <1>2, <1>4 DEF IInv, CallInv, ReadPlaces
<1>8. PlaceInv'
  BY <1>1, <1>2, <1>3, <1>4, <1>6 DEF IInv, PlaceInv
<1>9. ValInv' /\ CreateLocals' /\ FileLocals'
  BY <1>1, <1>2, <1>3, <1>4, <1>6 DEF ValInv, FileVals, CreateLocals, FileLocals, Index
<1> QED
  BY <1>6, <1>7, <1>8, <1>9 DEF IInv

-----------------------------------------------------------------------------
(***************************************************************************)
(* The end of a call, the next one, and the loss of power.                 *)
(***************************************************************************)
LEMMA UnwindCreate ==
  ASSUME IInv, Unwind, call.op = "create"
  PROVE  IInv' /\ FilesKept /\ disk' = disk
<1>0. PICK n : n = Refs
  OBVIOUS
<1>1. /\ pc = "unwind" /\ Cache!Release /\ CacheInv /\ DiskInv
      /\ UNCHANGED <<pc, call, file, temp, created, acked, counted, local>> /\ local \in Locals
  BY DEF Unwind, IInv, TypeOK, Locals
<1>2. /\ CacheInv' /\ n \in Nat \ {0} /\ Refs' = n - 1
      /\ disk' = [disk EXCEPT ![Tag(n)] = Val(n)]
      /\ \A j \in 1..(n - 1) : Tag(j)' = Tag(j) /\ Val(j)' = Val(j)
  BY <1>0, <1>1, ReleaseRefs
<1>3. n \in 1..2
  BY <1>0, <1>2 DEF IInv, TypeOK, Refs
<1>4. Tag(1) = InodeBitmap /\ Val(1) = Marks /\ (n = 2 => Val(2) = disk[Tag(2)])
  BY <1>0, <1>1, <1>3 DEF IInv, PlaceInv, ValInv, CreateVals
<1>5. disk' = disk
  <2>1. Tag(n) \in Sectors /\ disk \in [Sectors -> SectorValues]
    BY <1>0, <1>1, <1>3, RefsOfCache DEF DiskInv
  <2>2. Val(n) = disk[Tag(n)]
    BY <1>3, <1>4 DEF Marks
  <2> QED
    BY <1>2, <2>1, <2>2
<1>6. DiskInv' /\ FilesKept /\ Marks' = Marks /\ \A j : OnDisk(j)' = OnDisk(j)
  BY <1>5, DiskUnchanged
<1>7. TypeOK' /\ FileInv'
  BY <1>1, <1>2, <1>3, <1>6, QuietStep DEF Quiet
<1>8. /\ Refs' \in 0..1
      /\ Refs' = 1 => Tag(1)' = Tag(1) /\ Val(1)' = Val(1)
  BY <1>2, <1>3
<1>9. CallInv' /\ PlaceInv'
  BY <1>1, <1>4, <1>8 DEF IInv, CallInv, PlaceInv
<1>10. ValInv' /\ CreateLocals' /\ FileLocals'
  <2>1. CreateVals'
    BY <1>1, <1>4, <1>6, <1>8 DEF CreateVals
  <2>2. local.ok => local.n \in Marks' \ created' /\ Cleared(OnDisk(local.n))'
    BY <1>1, <1>5, <1>6 DEF IInv, CreateLocals, Cleared, OnDisk
  <2> QED
    BY <1>1, <2>1, <2>2 DEF ValInv, CreateLocals, FileLocals
<1> QED
  BY <1>2, <1>5, <1>6, <1>7, <1>9, <1>10 DEF IInv

LEMMA UnwindFile ==
  ASSUME IInv, Unwind, call.op # "create", NEW n, n = Refs
  PROVE  /\ IInv' /\ FilesKept /\ Marks' = Marks
         /\ n \in 1..2 /\ Refs' = n - 1
         /\ n = 1 => /\ OnDisk(call.id)' = Mine
                     /\ \A r \in DataSectors : disk'[r] = disk[r]
         /\ n = 2 => /\ Mine' = Mine /\ disk' = [disk EXCEPT ![Tag(2)] = Val(2)]
                     /\ \A i \in Inodes : OnDisk(i)' = OnDisk(i)
<1>0. PICK i, s, v : i = call.id /\ s = Tag(n) /\ v = Val(n)
  OBVIOUS
<1>1. /\ pc = "unwind" /\ Cache!Release /\ CacheInv /\ DiskInv
      /\ UNCHANGED <<pc, call, file, temp, created, acked, counted, local>> /\ local \in Locals
      /\ call.op \in {"open", "seek", "write", "read"}
  BY DEF Unwind, IInv, TypeOK, Locals, CallInv
<1>2. /\ CacheInv' /\ n \in Nat \ {0} /\ Refs' = n - 1
      /\ disk' = [disk EXCEPT ![s] = v]
      /\ \A j \in 1..(n - 1) : Tag(j)' = Tag(j) /\ Val(j)' = Val(j)
  BY <1>0, <1>1, ReleaseRefs
<1>3. /\ n \in 1..2 /\ Tag(1) = InodeSector(i) /\ i \in Inodes /\ FileVals
      /\ Mine.size \in Nat /\ OnDisk(i).size \in Nat /\ Mine.size >= OnDisk(i).size
      /\ Mine \in FileInodes
      /\ n = 2 => s \in DataSectors /\ v \in DataBytes
  BY <1>0, <1>1, <1>2, Working
<1>4. /\ DiskInv' /\ FilesKept /\ Marks' = Marks
      /\ n = 1 => /\ OnDisk(i)' = Mine
                  /\ \A r \in DataSectors : disk'[r] = disk[r]
      /\ n = 2 => /\ \A j \in Inodes : OnDisk(j)' = OnDisk(j)
                  /\ disk'[InodeSector(i)] = disk[InodeSector(i)]
  <2>1. CASE n = 1
    <3>1. OnDisk(i)' = OnDisk(call.id)'
      BY <1>0, <1>1 DEF OnDisk
    <3>2. Refs >= 1 /\ UNCHANGED call /\ disk' = [disk EXCEPT ![Tag(1)] = Val(1)]
      BY <1>0, <1>1, <1>2, <2>1
    <3>3. /\ DiskInv' /\ FilesKept /\ Marks' = Marks /\ OnDisk(call.id)' = Mine
          /\ \A r \in Sectors : r # Tag(1) => disk'[r] = disk[r]
      BY <1>1, <3>2, InodeFlushed
    <3>4. \A r \in DataSectors : r \in Sectors /\ r # Tag(1)
      BY <1>1, <3>2, Working, SectorLayout
    <3> QED
      BY <2>1, <3>1, <3>3, <3>4
  <2>2. CASE n = 2
    <3>1. v \in Shape(s)
      <4>1. s \in DataSectors /\ v \in DataBytes
        BY <1>3, <2>2
      <4> QED
        BY <4>1, SectorLayout DEF Shape, BlockBitmap, InodeBitmap
    <3>2. /\ DiskInv' /\ Marks' = Marks
          /\ \A j \in Inodes : /\ OnDisk(j)' = OnDisk(j)
                               /\ disk'[InodeSector(j)] = disk[InodeSector(j)]
      BY <1>1, <1>2, <1>3, <2>2, <3>1, BytesWritten
    <3>3. FilesKept
      BY <1>1, <3>2, DiskTyped DEF FilesKept
    <3> QED
      BY <1>3, <2>2, <3>2, <3>3
  <2> QED
    BY <1>3, <2>1, <2>2
<1>5. TypeOK' /\ FileInv'
  BY <1>1, <1>2, <1>3, <1>4, QuietStep DEF Quiet
<1>6. /\ Refs' \in 0..1
      /\ Refs' = 1 => n = 2 /\ Tag(1)' = Tag(1) /\ Val(1)' = Val(1)
  BY <1>2, <1>3
<1>7. CallInv' /\ PlaceInv'
  BY <1>0, <1>1, <1>3, <1>6 DEF IInv, CallInv, PlaceInv
<1>8. FileVals'
  <2>1. OnDisk(call.id)' = OnDisk(i)'
    BY <1>0, <1>1 DEF OnDisk
  <2>2. Refs' = 1 => Mine' = Mine
    BY <1>1, <1>6 DEF Mine
  <2>3. n = 2 => OnDisk(i)' = OnDisk(i)
    BY <1>3, <1>4
  <2> QED
    BY <1>0, <1>1, <1>3, <1>4, <1>6, <2>1, <2>2, <2>3 DEF FileVals
<1>9. ValInv' /\ CreateLocals' /\ FileLocals'
  <2>1. OnDisk(call.id)' = OnDisk(i)'
    BY <1>0, <1>1 DEF OnDisk
  <2>2. ASSUME call.op = "write", local.ok PROVE OnDisk(i)'.size >= call.pos + local.n
    <3>1. OnDisk(i).size >= call.pos + local.n /\ call.pos \in Nat /\ local.n \in Nat
      BY <1>0, <1>1, <1>2, <1>3, <2>2, Working DEF IInv, FileLocals, Locals
    <3> QED
      BY <1>3, <1>4, <3>1
  <2> QED
    BY <1>0, <1>1, <1>8, <2>1, <2>2 DEF ValInv, CreateLocals, FileLocals
<1>10. OnDisk(call.id)' = OnDisk(i)' /\ (n = 2 => Mine' = Mine)
  BY <1>0, <1>1, <1>2 DEF OnDisk, Mine
<1> QED
  BY <1>0, <1>2, <1>3, <1>4, <1>5, <1>7, <1>9, <1>10 DEF IInv

LEMMA NothingHeld ==
  ASSUME IInv, UNCHANGED cacheVars, Refs = 0
  PROVE  /\ CacheInv' /\ DiskInv' /\ FilesKept /\ Refs' = 0 /\ disk' = disk
         /\ Marks' = Marks /\ \A j : OnDisk(j)' = OnDisk(j)
         /\ Len(held)' <= 2
<1>1. UNCHANGED <<disk, held, buf_sectors, buffer, dirty_mask, free_mask>>
  BY DEF cacheVars
<1>2. DiskInv' /\ FilesKept /\ Marks' = Marks /\ \A j : OnDisk(j)' = OnDisk(j)
  BY <1>1, DiskUnchanged
<1>3. CacheInv'
  BY <1>1 DEF IInv, CacheInv, Kept!Inv, Kept!CacheTypeOK, Kept!FreeMaskExact, Kept!Coherent,
              Kept!HeldTagged, Kept!Held
<1> QED
  BY <1>1, <1>2, <1>3 DEF Refs

\* The step that ends a call, with whatever it does to the files' owner.
LEMMA CallOver ==
  ASSUME IInv, Finish, UNCHANGED cacheVars, Refs = 0, TypeOK', FileInv'
  PROVE  IInv' /\ FilesKept /\ disk' = disk
<1>1. /\ CacheInv' /\ DiskInv' /\ FilesKept /\ Refs' = 0 /\ disk' = disk
  BY NothingHeld
<1>2. pc' = "idle" /\ call' = NoCall /\ local' = NoLocal
  BY DEF Finish
<1>3. CallInv' /\ PlaceInv' /\ ValInv' /\ CreateLocals' /\ FileLocals'
  BY <1>1, <1>2
     DEF CallInv, PlaceInv, ValInv, CreateVals, FileVals, CreateLocals, FileLocals
<1> QED
  BY <1>1, <1>3 DEF IInv

\* What the type invariant says, one variable at a time.
LEMMA TypesOf ==
  ASSUME TypeOK
  PROVE  /\ file \in [drive : BOOLEAN, id : Inodes, pos : Nat]
         /\ temp \in [drive : BOOLEAN, id : Inodes \union {NoFile}, pos : {0}]
         /\ local \in Locals /\ Len(held) <= 2
         /\ created \subseteq Inodes /\ acked \in [Inodes -> 0..((Direct + 1) * SectorSize)]
         /\ counted \in [Inodes -> SUBSET Nat]
BY Zenon DEF TypeOK, Locals

LEMMA TypesStep ==
  ASSUME file' \in [drive : BOOLEAN, id : Inodes, pos : Nat],
         temp' \in [drive : BOOLEAN, id : Inodes \union {NoFile}, pos : {0}],
         local' \in Locals, Len(held)' <= 2, created' \subseteq Inodes,
         acked' \in [Inodes -> 0..((Direct + 1) * SectorSize)],
         counted' \in [Inodes -> SUBSET Nat]
  PROVE  TypeOK'
BY Zenon DEF TypeOK, Locals

LEMMA NothingTyped ==
  /\ NullHandle \in [drive : BOOLEAN, id : Inodes, pos : Nat]
  /\ NullHandle \in [drive : BOOLEAN, id : Inodes \union {NoFile}, pos : {0}]
  /\ ~NullHandle.drive
  /\ NoLocal \in Locals
<1>1. 0 \in Inodes
  BY LayoutAssumption DEF Inodes
<1> QED
  BY <1>1 DEF NullHandle, NoLocal, Locals

LEMMA ReturnStep ==
  ASSUME IInv, ReturnFailed \/ ReturnOpened \/ ReturnWritten \/ ReturnRead \/ ReturnSought
  PROVE  IInv' /\ FilesKept /\ disk' = disk
<1>1. /\ pc = "unwind" /\ held = <<>> /\ Finish /\ UNCHANGED <<cacheVars, temp, created>>
  BY DEF ReturnFailed, ReturnOpened, ReturnWritten, ReturnRead, ReturnSought, Done
<1>2. Refs = 0
  BY <1>1, RefsOfCache DEF IInv
<1>3. /\ Marks' = Marks /\ (\A j : OnDisk(j)' = OnDisk(j)) /\ Len(held)' <= 2
  BY <1>1, <1>2, NothingHeld
<1>4. /\ file \in [drive : BOOLEAN, id : Inodes, pos : Nat]
      /\ temp \in [drive : BOOLEAN, id : Inodes \union {NoFile}, pos : {0}]
      /\ local.n \in Nat /\ created \subseteq Inodes
      /\ acked \in [Inodes -> 0..((Direct + 1) * SectorSize)]
      /\ counted \in [Inodes -> SUBSET Nat]
  BY TypesOf DEF IInv, Locals
<1>5. /\ file' \in [drive : BOOLEAN, id : Inodes, pos : Nat]
      /\ file'.drive => file'.id \in created
  <2>1. CASE ReturnFailed
    BY <1>4, <2>1 DEF ReturnFailed, IInv, FileInv
  <2>2. CASE ReturnOpened
    <3>1. call.id \in created
      BY <1>1, <2>2 DEF ReturnOpened, Done, IInv, CallInv
    <3> QED
      BY <1>4, <2>2, <3>1 DEF ReturnOpened
  <2>3. CASE ReturnWritten \/ ReturnRead
    BY <1>4, <2>3 DEF ReturnWritten, ReturnRead, IInv, FileInv
  <2>4. CASE ReturnSought
    <3>1. call.pos \in Nat
      BY <1>1, <2>4 DEF ReturnSought, Done, IInv, CallInv
    <3> QED
      BY <1>4, <2>4, <3>1 DEF ReturnSought, IInv, FileInv
  <2> QED
    BY <2>1, <2>2, <2>3, <2>4
<1>6. /\ acked' \in [Inodes -> 0..((Direct + 1) * SectorSize)]
      /\ \A i \in created : acked'[i] <= OnDisk(i).size
      /\ \A i \in Inodes \ created : acked'[i] = 0
  <2>1. CASE ~ReturnWritten
    BY <1>1, <1>4, <2>1
       DEF ReturnFailed, ReturnOpened, ReturnRead, ReturnSought, IInv, FileInv
  <2>2. CASE ReturnWritten
    <3>1. PICK i, m, bound : /\ i = call.id /\ m = call.pos + local.n
                             /\ bound = (Direct + 1) * SectorSize
      OBVIOUS
    <3>2. /\ i \in created /\ i \in Inodes /\ OnDisk(i) \in FileInodes
          /\ m \in Nat /\ OnDisk(i).size >= m /\ bound \in Nat
      <4>1. call.op = "write" /\ local.ok
        BY <2>2 DEF ReturnWritten, Done
      <4>2. i \in created /\ i \in Inodes /\ OnDisk(i) \in FileInodes
        BY <3>1, <4>1, FileOfCall
      <4>3. call.pos \in Nat
        BY <1>1, <1>4, <4>1 DEF IInv, CallInv, NoCall
      <4>4. OnDisk(i).size >= m
        BY <1>1, <3>1, <4>1 DEF IInv, FileLocals
      <4> QED
        BY <1>4, <3>1, <4>2, <4>3, <4>4, LayoutAssumption
    <3>3. OnDisk(i).size \in Nat /\ OnDisk(i).size <= bound
      BY <3>1, <3>2 DEF FileInodes, InodeRecords
    <3>4. acked[i] \in 0..bound /\ acked[i] <= OnDisk(i).size
      BY <1>4, <3>1, <3>2 DEF IInv, FileInv
    <3>5. PICK x : x = Max({acked[i], m})
      OBVIOUS
    <3>6. x \in 0..bound /\ x <= OnDisk(i).size
      <4>1. x = IF acked[i] >= m THEN acked[i] ELSE m
        BY <3>2, <3>4, <3>5, MaxOfTwo
      <4> QED
        BY <3>2, <3>3, <3>4, <4>1
    <3>7. acked' = [acked EXCEPT ![i] = x]
      BY <2>2, <3>1, <3>5 DEF ReturnWritten
    <3>8. /\ acked \in [Inodes -> 0..bound]
          /\ \A j \in created : acked[j] <= OnDisk(j).size
          /\ \A j \in Inodes \ created : acked[j] = 0
      BY <1>4, <3>1 DEF IInv, FileInv
    <3>9. /\ acked' \in [Inodes -> 0..bound]
          /\ \A j \in Inodes : acked'[j] = IF j = i THEN x ELSE acked[j]
      BY <3>2, <3>6, <3>7, <3>8
    <3> QED
      BY <1>4, <3>1, <3>2, <3>6, <3>8, <3>9
  <2> QED
    BY <2>1, <2>2
<1>7. counted' \in [Inodes -> SUBSET Nat]
  <2>1. CASE ReturnFailed \/ ReturnOpened \/ ReturnSought
    BY <1>4, <2>1 DEF ReturnFailed, ReturnOpened, ReturnSought
  <2>2. CASE ReturnWritten
    BY <1>4, <2>2 DEF ReturnWritten
  <2>3. CASE ReturnRead
    <3>1. call.op = "read" /\ call.pos \in Nat
      BY <1>1, <1>4, <2>3 DEF ReturnRead, Done, IInv, CallInv, NoCall
    <3>2. OnDisk(call.id).size \in Nat
      BY <3>1, FileOfCall DEF FileInodes, InodeRecords
    <3>3. OnDisk(call.id).size..(call.pos + local.n - 1) \subseteq Nat
      BY <1>4, <3>1, <3>2
    <3> QED
      BY <1>4, <2>3, <3>3 DEF ReturnRead
  <2> QED
    BY <2>1, <2>2, <2>3
<1>8. TypeOK'
  BY <1>1, <1>3, <1>4, <1>5, <1>6, <1>7, NothingTyped, TypesStep DEF Finish
<1>9. FileInv'
  BY <1>1, <1>3, <1>5, <1>6 DEF IInv, FileInv
<1> QED
  BY <1>1, <1>2, <1>8, <1>9, CallOver

\* A creation is reported: its file is a new one.
LEMMA CreatedStep ==
  ASSUME IInv, ReturnCreated
  PROVE  IInv' /\ FilesKept /\ disk' = disk
<1>1. /\ pc = "unwind" /\ held = <<>> /\ call.op = "create" /\ local.ok /\ pc' = "move"
      /\ temp' = [drive |-> TRUE, id |-> local.n, pos |-> 0]
      /\ created' = created \union {local.n}
      /\ UNCHANGED <<cacheVars, call, local, file, acked, counted>>
  BY DEF ReturnCreated, Done
<1>2. Refs = 0
  BY <1>1, RefsOfCache DEF IInv
<1>3. /\ CacheInv' /\ DiskInv' /\ FilesKept /\ Refs' = 0
      /\ Marks' = Marks /\ (\A j : OnDisk(j)' = OnDisk(j)) /\ disk' = disk /\ Len(held)' <= 2
  BY <1>2, <1>1, NothingHeld
<1>4. local.n \in Marks \ created /\ Cleared(OnDisk(local.n)) /\ Marks \subseteq Inodes
  BY <1>1, DiskTyped DEF IInv, CreateLocals
<1>5. TypeOK'
  <2>1. temp' \in [drive : BOOLEAN, id : Inodes \union {NoFile}, pos : {0}]
    BY <1>1, <1>4
  <2>2. /\ file \in [drive : BOOLEAN, id : Inodes, pos : Nat] /\ local \in Locals
        /\ created \subseteq Inodes
        /\ acked \in [Inodes -> 0..((Direct + 1) * SectorSize)]
        /\ counted \in [Inodes -> SUBSET Nat]
    BY TypesOf DEF IInv
  <2> QED
    BY <1>1, <1>3, <1>4, <2>1, <2>2, TypesStep
<1>6. FileInv'
  <2>1. OnDisk(local.n).size \in Nat /\ local.n \in Inodes /\ acked[local.n] = 0
    BY <1>4 DEF IInv, FileInv, Cleared
  <2> QED
    BY <1>1, <1>3, <1>4, <2>1 DEF IInv, FileInv
<1>7. CallInv' /\ PlaceInv' /\ ValInv' /\ FileLocals'
  BY <1>1, <1>3 DEF IInv, CallInv, CreatePlaces, PlaceInv, ValInv, CreateVals, FileLocals
<1>8. CreateLocals'
  <2>1. Cleared(OnDisk(temp.id))' /\ temp'.id \in created'
    BY <1>1, <1>3, <1>4 DEF Cleared, OnDisk
  <2> QED
    BY <1>1, <2>1 DEF CreateLocals
<1> QED
  BY <1>3, <1>5, <1>6, <1>7, <1>8 DEF IInv

\* The handle moves from the Result to the shell.
LEMMA MoveStep ==
  ASSUME IInv, MoveHandle \/ DropHandle
  PROVE  IInv' /\ FilesKept /\ disk' = disk
<1>1. pc \in {"move", "drop"} /\ UNCHANGED <<cacheVars, created, acked, counted>>
  BY DEF MoveHandle, DropHandle
<1>2. Refs = 0
  BY <1>1 DEF IInv, PlaceInv
<1>3. /\ CacheInv' /\ DiskInv' /\ FilesKept /\ Refs' = 0 /\ disk' = disk
      /\ Marks' = Marks /\ (\A j : OnDisk(j)' = OnDisk(j)) /\ Len(held)' <= 2
  BY <1>1, <1>2, NothingHeld
<1>4. /\ file \in [drive : BOOLEAN, id : Inodes, pos : Nat] /\ local \in Locals
      /\ temp \in [drive : BOOLEAN, id : Inodes \union {NoFile}, pos : {0}]
      /\ created \subseteq Inodes
      /\ acked \in [Inodes -> 0..((Direct + 1) * SectorSize)]
      /\ counted \in [Inodes -> SUBSET Nat]
  BY TypesOf DEF IInv
<1>5. CASE MoveHandle
  <2>1. /\ pc = "move" /\ pc' = "drop" /\ file' = temp /\ temp' = [temp EXCEPT !.id = NoFile]
        /\ UNCHANGED <<call, local>>
    BY <1>5 DEF MoveHandle
  <2>2. temp.id \in created
    BY <2>1 DEF IInv, CreateLocals
  <2>3. /\ file' \in [drive : BOOLEAN, id : Inodes, pos : Nat] /\ file'.id \in created
        /\ temp' \in [drive : BOOLEAN, id : Inodes \union {NoFile}, pos : {0}]
    BY <1>4, <2>1, <2>2
  <2>4. TypeOK' /\ FileInv'
    <3>1. TypeOK'
      BY <1>1, <1>3, <1>4, <2>1, <2>3, TypesStep
    <3> QED
      BY <1>1, <1>3, <2>3, <3>1 DEF IInv, FileInv
  <2>5. CallInv' /\ PlaceInv' /\ ValInv' /\ CreateLocals' /\ FileLocals'
    BY <1>3, <2>1
       DEF IInv, CallInv, CreatePlaces, WritePlaces, ReadPlaces, PlaceInv, ValInv, CreateVals,
           FileVals, CreateLocals, FileLocals
  <2> QED
    BY <1>3, <2>4, <2>5 DEF IInv
<1>6. CASE DropHandle
  <2>1. Finish /\ temp' = NullHandle /\ UNCHANGED file
    BY <1>6 DEF DropHandle
  <2>2. TypeOK'
    BY <1>1, <1>3, <1>4, <2>1, NothingTyped, TypesStep DEF Finish
  <2>3. FileInv'
    BY <1>1, <1>3, <2>1 DEF IInv, FileInv
  <2> QED
    BY <1>1, <1>2, <2>1, <2>2, <2>3, CallOver
<1> QED
  BY <1>5, <1>6

LEMMA CallsStep ==
  ASSUME IInv, Calls
  PROVE  IInv' /\ FilesKept /\ disk' = disk
<1>1. PICK c :
        /\ Start(c)
        /\ \/ \E name \in Names : c = [op |-> "create", name |-> name]
           \/ \E i \in created : c = [op |-> "open", id |-> i]
           \/ /\ file.drive
              /\ \/ \E len \in Nat : c = [op |-> "write", id |-> file.id, pos |-> file.pos, len |-> len]
                 \/ \E len \in Nat : c = [op |-> "read", id |-> file.id, pos |-> file.pos, len |-> len]
                 \/ \E pos \in Nat : c = [op |-> "seek", id |-> file.id, pos |-> pos]
  <2>1. CASE \E name \in Names : Create(name)
    BY <2>1 DEF Create
  <2>2. CASE \E i \in Inodes : Open(i)
    BY <2>2 DEF Open
  <2>3. CASE \E len \in 0..MaxLen : Write(len)
    <3>1. PICK len \in 0..MaxLen : Write(len)
      BY <2>3
    <3>2. len \in Nat
      BY LayoutAssumption
    <3> QED
      BY <3>1, <3>2 DEF Write
  <2>4. CASE \E len \in 1..MaxLen : Read(len)
    <3>1. PICK len \in 1..MaxLen : Read(len)
      BY <2>4
    <3>2. len \in Nat
      BY LayoutAssumption
    <3> QED
      BY <3>1, <3>2 DEF Read
  <2>5. CASE \E pos \in 0..((Direct + 1) * SectorSize) : Seek(pos)
    <3>1. PICK pos \in 0..((Direct + 1) * SectorSize) : Seek(pos)
      BY <2>5
    <3>2. pos \in Nat
      OBVIOUS
    <3> QED
      BY <3>1, <3>2 DEF Seek
  <2> QED
    BY <2>1, <2>2, <2>3, <2>4, <2>5 DEF Calls
<1>2. /\ pc = "idle" /\ pc' = c.op /\ call' = c /\ local' = NoLocal
      /\ UNCHANGED <<cacheVars, file, temp, created, acked, counted>>
  BY <1>1 DEF Start
<1>3. Refs = 0
  BY <1>2 DEF IInv, PlaceInv
<1>4. /\ CacheInv' /\ DiskInv' /\ FilesKept /\ Refs' = 0 /\ disk' = disk
      /\ Marks' = Marks /\ (\A j : OnDisk(j)' = OnDisk(j)) /\ Len(held)' <= 2
  BY <1>2, <1>3, NothingHeld
<1>5. TypeOK'
  <2>1. /\ file \in [drive : BOOLEAN, id : Inodes, pos : Nat]
        /\ temp \in [drive : BOOLEAN, id : Inodes \union {NoFile}, pos : {0}]
        /\ created \subseteq Inodes
        /\ acked \in [Inodes -> 0..((Direct + 1) * SectorSize)]
        /\ counted \in [Inodes -> SUBSET Nat]
    BY TypesOf DEF IInv
  <2> QED
    BY <1>2, <1>4, <2>1, NothingTyped, TypesStep
<1>6. FileInv'
  BY <1>2, <1>4 DEF IInv, FileInv
<1>7. CallInv'
  <2>1. file.drive => file.pos \in Nat
    BY TypesOf DEF IInv
  <2> QED
    BY <1>1, <1>2, <2>1 DEF CallInv, CreatePlaces, WritePlaces, ReadPlaces
<1>8. PlaceInv' /\ ValInv' /\ CreateLocals' /\ FileLocals'
  BY <1>1, <1>2, <1>4
     DEF PlaceInv, ValInv, CreateVals, FileVals, CreateLocals, FileLocals
<1> QED
  BY <1>4, <1>5, <1>6, <1>7, <1>8 DEF IInv

LEMMA CrashStep ==
  ASSUME IInv, Crash
  PROVE  IInv' /\ FilesKept /\ disk' = disk
<1>1. /\ Cache!CacheLost /\ Finish /\ file' = NullHandle /\ temp' = NullHandle
      /\ UNCHANGED <<created, acked, counted>>
  BY DEF Crash
<1>2. CacheInv' /\ Refs' = 0 /\ disk' = disk
  BY <1>1, LostRefs DEF IInv
<1>3. DiskInv' /\ FilesKept /\ Marks' = Marks /\ \A j : OnDisk(j)' = OnDisk(j)
  BY <1>2, DiskUnchanged
<1>4. TypeOK'
  <2>1. Len(held)' <= 2
    <3>1. Len(held)' = Refs'
      BY Zenon DEF Refs
    <3> QED
      BY <1>2, <3>1
  <2>2. created \subseteq Inodes /\ acked \in [Inodes -> 0..((Direct + 1) * SectorSize)]
        /\ counted \in [Inodes -> SUBSET Nat]
    BY TypesOf DEF IInv
  <2> QED
    BY <1>1, <2>1, <2>2, NothingTyped, TypesStep DEF Finish
<1>5. FileInv'
  BY <1>1, <1>3, NothingTyped DEF IInv, FileInv
<1>6. CallInv' /\ PlaceInv' /\ ValInv' /\ CreateLocals' /\ FileLocals'
  BY <1>1, <1>2
     DEF Finish, CallInv, PlaceInv, ValInv, CreateVals, FileVals, CreateLocals, FileLocals
<1> QED
  BY <1>2, <1>3, <1>4, <1>5, <1>6 DEF IInv

-----------------------------------------------------------------------------
LEMMA TakeStep ==
  ASSUME IInv,
         \/ TakeInodeBitmap \/ ChooseInode \/ TakeInodeToWrite \/ TakeBlockToWrite
         \/ TakeInodeToRead \/ TakeBlockToRead \/ TakeInodeToOpen \/ TakeInodeToSeek
  PROVE  IInv' /\ FilesKept
<1>1. CASE TakeInodeBitmap
  <2>1. /\ pc = "create" /\ Quiet
        /\ \/ Cache!ReadBufSector(InodeBitmap) /\ GoTo("choose")
           \/ UNCHANGED cacheVars /\ Fail
    BY <1>1 DEF TakeInodeBitmap, Take
  <2> QED
    BY <2>1, FirstTaken, FailStep
<1>2. CASE TakeInodeToWrite \/ TakeInodeToRead \/ TakeInodeToOpen \/ TakeInodeToSeek
  <2>1. PICK s, p :
          /\ Quiet /\ s = InodeSector(call.id)
          /\ \/ pc = "write" /\ p = "find"
             \/ pc = "read" /\ p = "locate"
             \/ pc \in {"open", "seek"} /\ p = "size"
          /\ \/ Cache!ReadBufSector(s) /\ GoTo(p)
             \/ UNCHANGED cacheVars /\ Fail
    BY <1>2 DEF TakeInodeToWrite, TakeInodeToRead, TakeInodeToOpen, TakeInodeToSeek, Take
  <2> QED
    BY <2>1, FirstTaken, FailStep
<1>3. CASE ChooseInode
  <2>1. CASE FreeInodes # {} /\ Take("choose", InodeSector(Min(FreeInodes)), "clear")
    <3>1. PICK s : s = InodeSector(Min(FreeInodes))
      OBVIOUS
    <3>2. /\ pc = "choose" /\ Quiet
          /\ \/ Cache!ReadBufSector(s) /\ GoTo("clear")
             \/ UNCHANGED cacheVars /\ Fail
      BY <2>1, <3>1 DEF Take
    <3>3. s \in Sectors
      <4>1. FreeInodes \in SUBSET Nat /\ FreeInodes \subseteq Inodes
        BY LayoutAssumption DEF FreeInodes, Inodes
      <4> QED
        BY <2>1, <3>1, <4>1, MinOfNats, InodePlace
    <3> QED
      BY <2>1, <3>1, <3>2, <3>3, SecondTaken, FailStep
  <2>2. CASE FreeInodes = {} /\ Fail /\ UNCHANGED cacheVars /\ Quiet
    <3>1. pc = "choose"
      BY <1>3 DEF ChooseInode
    <3> QED
      BY <2>2, <3>1, FailStep
  <2> QED
    BY <1>3, <2>1, <2>2 DEF ChooseInode
<1>4. CASE TakeBlockToWrite \/ TakeBlockToRead
  <2>1. PICK s, p :
          /\ Quiet /\ s = SectorOf(InodeIn(held[1], call.id), call.pos)
          /\ \/ pc = "block" /\ p = "copy"
             \/ pc = "fetch" /\ p = "count"
          /\ \/ Cache!ReadBufSector(s) /\ GoTo(p)
             \/ UNCHANGED cacheVars /\ Fail
    BY <1>4 DEF TakeBlockToWrite, TakeBlockToRead, Take
  <2>2. call.op \in {"write", "read"} /\ Refs = 1
    BY <2>1 DEF IInv, CallInv, CreatePlaces, WritePlaces, ReadPlaces, PlaceInv
  <2>3. Mine = InodeIn(held[1], call.id) /\ Mine \in FileInodes /\ call.pos \in Nat
    BY <2>2, Working
  <2>4. Index \in BlockWords /\ Mine.blocks[Index] # 0
    BY <2>1 DEF IInv, FileLocals
  <2>5. s \in DataSectors /\ s \in Sectors
    <3>1. SectorOf(Mine, call.pos) \in DataSectors
      BY <2>3, <2>4, SectorOfInArea DEF Index
    <3> QED
      BY <2>1, <2>3, <3>1, SectorLayout
  <2> QED
    BY <2>1, <2>5, SecondTaken, FailStep
<1> QED
  BY <1>1, <1>2, <1>3, <1>4

\* Every step keeps the invariant and the files.
LEMMA NextStep ==
  ASSUME IInv, Next
  PROVE  IInv' /\ FilesKept
<1>1. CASE Calls
  BY <1>1, CallsStep
<1>2. CASE Crash
  BY <1>2, CrashStep
<1>3. CASE Steps
  <2>1. CASE \/ TakeInodeBitmap \/ ChooseInode \/ TakeInodeToWrite \/ TakeBlockToWrite
             \/ TakeInodeToRead \/ TakeBlockToRead \/ TakeInodeToOpen \/ TakeInodeToSeek
    BY <2>1, TakeStep
  <2>2. CASE ClearInode \/ FlushClear \/ MarkInode \/ FlushMark
    BY <2>2, ClearStep, FlushClearStep, MarkStep, FlushMarkStep
  <2>3. CASE FindBlock \/ Allocate \/ LinkBlock \/ CopyIn \/ FlushData \/ Grow \/ FlushInode
    BY <2>3, FindStep, AllocateStep, LinkStep, CopyStep, FlushDataStep, GrowStep, FlushInodeStep
  <2>4. CASE LocateBlock \/ CountBytes \/ GetSize
    BY <2>4, LookStep
  <2>5. CASE Unwind
    BY <2>5, UnwindCreate, UnwindFile
  <2>6. CASE ReturnFailed \/ ReturnOpened \/ ReturnWritten \/ ReturnRead \/ ReturnSought
    BY <2>6, ReturnStep
  <2>7. CASE ReturnCreated \/ MoveHandle \/ DropHandle
    BY <2>7, CreatedStep, MoveStep
  <2> QED
    BY <1>3, <2>1, <2>2, <2>3, <2>4, <2>5, <2>6, <2>7 DEF Steps
<1> QED
  BY <1>1, <1>2, <1>3 DEF Next

LEMMA StutterStep ==
  ASSUME IInv, UNCHANGED vars
  PROVE  IInv' /\ FilesKept
<1>1. /\ UNCHANGED cacheVars
      /\ UNCHANGED <<pc, call, file, temp, created, acked, counted, local>> /\ local' \in Locals
  BY TypesOf DEF vars, IInv
<1>2. /\ UNCHANGED <<disk, held, buf_sectors, buffer, dirty_mask, free_mask>>
      /\ CacheInv' /\ DiskInv' /\ TypeOK' /\ FileInv' /\ FilesKept
  BY <1>1, CacheUnchanged DEF cacheVars
<1>3. /\ Refs' = Refs /\ Mine' = Mine /\ Chosen' = Chosen /\ FreeInodes' = FreeInodes
      /\ Marks' = Marks /\ Index' = Index
      /\ \A k : Tag(k)' = Tag(k) /\ Val(k)' = Val(k)
      /\ \A i : OnDisk(i)' = OnDisk(i)
  BY <1>1, <1>2
     DEF Refs, Mine, Chosen, FreeInodes, Marks, Index, Tag, Val, OnDisk
<1>4. CallInv' /\ PlaceInv'
  BY <1>1, <1>2, <1>3 DEF IInv, CallInv, PlaceInv
<1>5. CreateVals' <=> CreateVals
  <2>1. Cleared(Val(2)[Slot(Chosen)])' <=> Cleared(Val(2)[Slot(Chosen)])
    BY <1>1, <1>3 DEF Cleared
  <2> QED
    BY <1>1, <1>2, <1>3, <2>1 DEF CreateVals
<1>6. FileVals' <=> FileVals
  BY <1>1, <1>2, <1>3 DEF FileVals
<1>7. ValInv'
  BY <1>1, <1>5, <1>6 DEF IInv, ValInv
<1>8. CreateLocals'
  <2>1. Cleared(OnDisk(local.n))' <=> Cleared(OnDisk(local.n))
    BY <1>1, <1>2 DEF Cleared, OnDisk
  <2>2. Cleared(OnDisk(temp.id))' <=> Cleared(OnDisk(temp.id))
    BY <1>1, <1>2 DEF Cleared, OnDisk
  <2> QED
    BY <1>1, <1>3, <2>1, <2>2 DEF IInv, CreateLocals
<1>9. FileLocals'
  BY <1>1, <1>3 DEF IInv, FileLocals
<1> QED
  BY <1>2, <1>4, <1>7, <1>8, <1>9 DEF IInv

LEMMA Invariance == Spec => []IInv
<1>1. IInv /\ [Next]_vars => IInv'
  BY NextStep, StutterStep
<1> QED
  BY <1>1, InitIInv, PTL DEF Spec

-----------------------------------------------------------------------------
(***************************************************************************)
(* What holds of the file system, whatever its callers do.                 *)
(***************************************************************************)
\* The variables have their types, a call holds two buffers at most, and what
\* allocate_sectors returned is a sector of the data area.
THEOREM TypeCorrect == Spec => []TypeOK
<1>1. IInv => TypeOK
  BY DEF IInv
<1> QED
  BY <1>1, Invariance, PTL

\* The cache under the file system stays exact and coherent through every path
\* of every call, and a call that is over holds no buffer.
THEOREM CacheIsKept == Spec => []CacheKept
<1>1. ASSUME IInv PROVE CacheKept
  <2>1. /\ Kept!FreeMaskExact /\ Kept!Coherent
        /\ Cache!Bufs = Kept!Bufs /\ Cache!Held = Kept!Held
    BY <1>1, SameCache DEF IInv, CacheInv, Kept!Inv
  <2>2. Cache!FreeMaskExact
    BY <2>1 DEF Kept!FreeMaskExact, Cache!FreeMaskExact
  <2>3. Cache!Coherent
    BY <2>1 DEF Kept!Coherent, Cache!Coherent
  <2>4. pc = "idle" => held = <<>>
    BY <1>1, RefsOfCache DEF IInv, PlaceInv
  <2> QED
    BY <2>2, <2>3, <2>4 DEF CacheKept
<1> QED
  BY <1>1, Invariance, PTL

\* Wherever power fails, an inode that is marked was cleared: create_file
\* flushes the inode before the bitmap.
THEOREM MarkedInodesAreClear == Spec => []MarkedAreClear
<1>1. ASSUME IInv PROVE MarkedAreClear
  BY <1>1, JunkAssumption DEF IInv, FileInv, FileInodes, MarkedAreClear
<1> QED
  BY <1>1, Invariance, PTL

\* A file whose creation was reported, and the size its writes were reported to
\* make it, survive every later call and every loss of power.
THEOREM ReportsSurvive == Spec => []ReportedSurvives
<1>1. ASSUME IInv, NEW i \in created PROVE i \in Marks /\ OnDisk(i).size >= acked[i]
  <2>1. i \in Marks /\ OnDisk(i) \in FileInodes /\ acked[i] <= OnDisk(i).size /\ i \in Inodes
    BY <1>1, DiskTyped DEF IInv, FileInv
  <2>2. OnDisk(i).size \in Nat /\ acked[i] \in Int
    <3>1. PICK bound \in Nat : acked \in [Inodes -> 0..bound]
      BY <1>1, TypesOf, LayoutAssumption DEF IInv
    <3> QED
      BY <2>1, <3>1 DEF FileInodes, InodeRecords
  <2> QED
    BY <2>1, <2>2
<1>2. IInv => ReportedSurvives
  BY <1>1 DEF ReportedSurvives
<1> QED
  BY <1>2, Invariance, PTL

\* A file created with a name that fits has that name on disk when its creation
\* is reported.
THEOREM NamesAreKept == Spec => []NameIsKept
<1>1. ASSUME IInv PROVE NameIsKept
  BY <1>1 DEF IInv, CreateLocals, Cleared, NameIsKept
<1> QED
  BY <1>1, Invariance, PTL

\* create_file never reports an inode it reported before: the first free bit it
\* finds is of an inode that no report has named, restarts included.
THEOREM CreatesAreFresh == Spec => CreateIsFresh
<1> DEFINE Fresh == \A i \in created : ~(pc = "unwind" /\ pc' = "move" /\ temp'.id = i)
<1>1. ASSUME IInv, Next, pc = "unwind", pc' = "move" PROVE ReturnCreated
  <2>1. ~Calls /\ ~Crash
    BY <1>1 DEF Calls, Create, Open, Write, Read, Seek, Start, Crash, Finish
  <2>2. ~ \/ TakeInodeBitmap \/ ChooseInode \/ TakeInodeToWrite \/ TakeBlockToWrite
          \/ TakeInodeToRead \/ TakeBlockToRead \/ TakeInodeToOpen \/ TakeInodeToSeek
    BY <1>1 DEF TakeInodeBitmap, ChooseInode, TakeInodeToWrite, TakeBlockToWrite,
                TakeInodeToRead, TakeBlockToRead, TakeInodeToOpen, TakeInodeToSeek, Take
  <2>3. ~ \/ ClearInode \/ FlushClear \/ MarkInode \/ FlushMark
          \/ FindBlock \/ Allocate \/ LinkBlock \/ CopyIn \/ FlushData \/ Grow \/ FlushInode
          \/ LocateBlock \/ CountBytes \/ GetSize
    BY <1>1 DEF ClearInode, FlushClear, MarkInode, FlushMark, FindBlock, Allocate, LinkBlock,
                CopyIn, FlushData, Grow, FlushInode, LocateBlock, CountBytes, GetSize
  <2>4. ~ \/ Unwind \/ ReturnFailed \/ ReturnOpened \/ ReturnWritten \/ ReturnRead
          \/ ReturnSought \/ MoveHandle \/ DropHandle
    BY <1>1 DEF Unwind, ReturnFailed, ReturnOpened, ReturnWritten, ReturnRead, ReturnSought,
                MoveHandle, DropHandle, Finish
  <2> QED
    BY <1>1, <2>1, <2>2, <2>3, <2>4 DEF Next, Steps
<1>2. ASSUME IInv, ReturnCreated PROVE Fresh
  <2>1. local.n \notin created /\ temp'.id = local.n
    BY <1>2 DEF ReturnCreated, Done, IInv, CreateLocals
  <2> QED
    BY <2>1
<1>3. IInv /\ [Next]_vars => [Fresh]_vars
  BY <1>1, <1>2
<1> QED
  BY <1>3, Invariance, PTL DEF Spec, CreateIsFresh

\* A call changes no inode of another file: the sector it writes holds the
\* neighbours as the disk has them.
THEOREM NeighboursAreKept == Spec => NeighboursKept
<1>1. IInv /\ [Next]_vars =>
        [\A i \in Marks : OnDisk(i)' # OnDisk(i) => call.op = "write" /\ call.id = i]_vars
  BY NextStep DEF FilesKept
<1> QED
  BY <1>1, Invariance, PTL DEF Spec, NeighboursKept

-----------------------------------------------------------------------------
(***************************************************************************)
(* What holds besides when nobody reads: a read goes on past the end of    *)
(* its file (BytesLeft), and a write after it leaves a gap.                *)
(***************************************************************************)
LEMMA DivUnique ==
  ASSUME NEW a \in Nat, NEW d \in Nat \ {0}, NEW q \in Nat, NEW r \in 0..(d - 1), a = d * q + r
  PROVE  a \div d = q /\ a % d = r
<1>1. PICK x, y : x = a \div d /\ y = a % d
  OBVIOUS
<1>2. x \in Nat /\ y \in 0..(d - 1) /\ a = d * x + y
  BY <1>1, DivMod
<1>3. ASSUME NEW u \in Nat, NEW v \in Nat, u < v PROVE d * u + d <= d * v
  <2>1. d * (u + 1) <= d * v
    BY <1>3
  <2>2. d * (u + 1) = d * u + d
    OBVIOUS
  <2> QED
    BY <2>1, <2>2
<1>4. d * q \in Nat /\ d * x \in Nat
  BY <1>2
<1>5. ~(x < q)
  <2> SUFFICES ASSUME x < q PROVE FALSE
    OBVIOUS
  <2>1. d * x + d <= d * q
    BY <1>2, <1>3
  <2> QED
    BY <1>2, <1>4, <2>1
<1>6. ~(q < x)
  <2> SUFFICES ASSUME q < x PROVE FALSE
    OBVIOUS
  <2>1. d * q + d <= d * x
    BY <1>2, <1>3
  <2> QED
    BY <1>2, <1>4, <2>1
<1>7. x = q
  BY <1>2, <1>5, <1>6
<1> QED
  BY <1>1, <1>2, <1>4, <1>7

\* The sector of a position within its block.
LEMMA SectorInBlock ==
  ASSUME NEW x \in Nat
  PROVE  (x % BlockSize) \div SectorSize = (x \div SectorSize) % BlockSectors
<1>1. PICK q, r, a, b : /\ q = x \div SectorSize /\ r = x % SectorSize
                        /\ a = q \div BlockSectors /\ b = q % BlockSectors
  OBVIOUS
<1>2. SectorSize \in Nat \ {0} /\ BlockSectors \in Nat \ {0}
  BY LayoutAssumption
<1>3. q \in Nat /\ r \in 0..(SectorSize - 1) /\ x = SectorSize * q + r
  BY <1>1, <1>2, DivMod
<1>4. a \in Nat /\ b \in 0..(BlockSectors - 1) /\ q = BlockSectors * a + b
  BY <1>1, <1>2, <1>3, DivMod
<1>5. PICK m, n : m = SectorSize * b + r /\ n = SectorSize * BlockSectors
  OBVIOUS
<1>6. n \in Nat \ {0} /\ BlockSize = n
  BY <1>2, <1>5 DEF BlockSize
<1>7. x = n * a + m
  <2>1. SectorSize * (BlockSectors * a + b) = SectorSize * BlockSectors * a + SectorSize * b
    BY <1>2, <1>4
  <2> QED
    BY <1>2, <1>3, <1>4, <1>5, <2>1
<1>8. m \in 0..(n - 1)
  <2>1. SectorSize * (b + 1) <= SectorSize * BlockSectors
    BY <1>2, <1>4
  <2>2. SectorSize * (b + 1) = SectorSize * b + SectorSize /\ SectorSize * b \in Nat
    BY <1>2, <1>4
  <2> QED
    BY <1>2, <1>3, <1>5, <2>1, <2>2
<1>9. x % n = m
  BY <1>4, <1>6, <1>7, <1>8, DivUnique
<1>10. m \div SectorSize = b
  <2>1. m \in Nat
    BY <1>6, <1>8
  <2> QED
    BY <1>2, <1>3, <1>4, <1>5, <2>1, DivUnique
<1> QED
  BY <1>1, <1>6, <1>9, <1>10

\* The bytes ps of an inode are in blocks, and were written.
Backed(d, ino, ps) ==
  \A p \in ps :
    ino.blocks[p \div SectorSize] # 0 /\ d[SectorOf(ino, p)][p % SectorSize] # Junk

\* Every byte up to the inode's size is, but for the gaps.
BackedBy(d, gaps, ino) == Backed(d, ino, 0..(ino.size - 1) \ gaps)

\* Between the end of the file and the shell's handle there are only bytes that
\* reads counted.
HandleBack ==
  file.drive => OnDisk(file.id).size..(file.pos - 1) \subseteq counted[file.id]

FilesBack == \A i \in Marks : BackedBy(disk, counted[i], OnDisk(i))

\* The bytes of the write under way, and its inode: in its buffer, until that is
\* given back.
New == call.pos..(call.pos + local.n - 1)
Own == IF Refs >= 1 THEN Mine ELSE OnDisk(call.id)

\* In a write, the inode in its buffer is backed already, and the buffer of the
\* data has what the disk has; the block it writes is the position's.
WriteBack == call.op = "write" =>
  /\ Refs >= 1 => BackedBy(disk, counted[call.id], Mine)
  /\ Refs = 2 => \A k \in 0..(SectorSize - 1) : disk[Tag(2)][k] # Junk => Val(2)[k] # Junk
  /\ pc \in {"allocate", "link"} => Mine.blocks[Index] = 0
  /\ pc \in {"copy", "flush_data", "grow"} =>
       Index \in BlockWords /\ Mine.blocks[Index] # 0 /\ Tag(2) = SectorOf(Mine, call.pos)
  /\ pc \in {"flush_data", "grow"} =>
       /\ (call.pos % SectorSize) + local.n <= SectorSize
       /\ \A k \in (call.pos % SectorSize)..((call.pos % SectorSize) + local.n - 1) :
            IF pc = "flush_data" THEN Val(2)[k] # Junk ELSE disk[Tag(2)][k] # Junk
  /\ pc \in {"flush_inode", "unwind"} /\ local.ok => Backed(disk, Own, New)

SeekBack ==
  pc = "unwind" /\ call.op = "seek" /\ local.ok => local.n <= OnDisk(call.id).size

BackInv == HandleBack /\ FilesBack /\ WriteBack /\ SeekBack

\* No step takes back what was written to the data area.
DataKept ==
  \A s \in DataSectors : \A k \in 0..(SectorSize - 1) : disk[s][k] # Junk => disk'[s][k] # Junk

\* A position inside a file is in one of its block words.
LEMMA InWords ==
  ASSUME NEW ino \in FileInodes, NEW p \in 0..(ino.size - 1)
  PROVE  /\ p \in Nat /\ p \div SectorSize \in BlockWords
         /\ p % SectorSize \in 0..(SectorSize - 1)
         /\ ino.blocks[p \div SectorSize] # 0 => SectorOf(ino, p) \in DataSectors
<1>1. p \in Nat /\ p < (Direct + 1) * SectorSize
  <2>1. ino.size \in Nat /\ ino.size <= (Direct + 1) * SectorSize
    BY DEF FileInodes, InodeRecords
  <2>2. (Direct + 1) * SectorSize \in Nat
    BY LayoutAssumption
  <2> QED
    BY <2>1, <2>2
<1>2. PICK m : m = Direct + 1
  OBVIOUS
<1>3. m \in Nat /\ p < SectorSize * m
  BY <1>1, <1>2, LayoutAssumption
<1>4. p \div SectorSize < m /\ p \div SectorSize \in Nat /\ p % SectorSize \in 0..(SectorSize - 1)
  BY <1>1, <1>3, DivMod, QuotientBound, LayoutAssumption
<1>5. p \div SectorSize \in BlockWords
  BY <1>2, <1>4, LayoutAssumption DEF BlockWords
<1> QED
  BY <1>1, <1>4, <1>5, SectorOfInArea

LEMMA BytesStay ==
  ASSUME NEW ino \in FileInodes, NEW ps \in SUBSET (0..(ino.size - 1)),
         Backed(disk, ino, ps), DataKept
  PROVE  Backed(disk', ino, ps)
<1> SUFFICES ASSUME NEW p \in ps
             PROVE  /\ ino.blocks[p \div SectorSize] # 0
                    /\ disk'[SectorOf(ino, p)][p % SectorSize] # Junk
  BY DEF Backed
<1>1. /\ ino.blocks[p \div SectorSize] # 0
      /\ disk[SectorOf(ino, p)][p % SectorSize] # Junk
  BY DEF Backed
<1>2. SectorOf(ino, p) \in DataSectors /\ p % SectorSize \in 0..(SectorSize - 1)
  BY <1>1, InWords
<1> QED
  BY <1>1, <1>2 DEF DataKept

LEMMA BackedStays ==
  ASSUME NEW ino \in FileInodes, NEW gaps, BackedBy(disk, gaps, ino), DataKept
  PROVE  BackedBy(disk', gaps, ino)
BY BytesStay DEF BackedBy

\* Files that are as they were, or backed, after a step that leaves the handle.
LEMMA FilesStayBack ==
  ASSUME IInv, BackInv, FilesKept, DataKept, UNCHANGED <<file, counted>>,
         \A i \in Marks' : \/ i \in Marks /\ OnDisk(i)' = OnDisk(i)
                           \/ BackedBy(disk', counted[i], OnDisk(i)')
  PROVE  HandleBack' /\ FilesBack'
<1>1. FilesBack'
  <2> SUFFICES ASSUME NEW i \in Marks' PROVE BackedBy(disk', counted[i], OnDisk(i)')
    BY DEF FilesBack
  <2>1. CASE i \in Marks /\ OnDisk(i)' = OnDisk(i)
    <3>1. OnDisk(i) \in FileInodes /\ BackedBy(disk, counted[i], OnDisk(i))
      BY <2>1 DEF IInv, FileInv, BackInv, FilesBack
    <3> QED
      BY <2>1, <3>1, BackedStays
  <2> QED
    BY <2>1
<1>2. ASSUME file.drive
      PROVE  OnDisk(file.id)'.size..(file.pos - 1) \subseteq counted[file.id]
  <2>1. PICK i : i = file.id
    OBVIOUS
  <2>2. /\ i \in created /\ i \in Marks /\ OnDisk(i) \in FileInodes
        /\ file.pos \in Nat /\ OnDisk(i).size..(file.pos - 1) \subseteq counted[i]
    BY <1>2, <2>1, TypesOf DEF IInv, FileInv, BackInv, HandleBack
  <2>3. OnDisk(file.id)' = OnDisk(i)'
    BY <2>1 DEF OnDisk
  <2>4. \/ OnDisk(i)' = OnDisk(i)
        \/ OnDisk(i)' \in FileInodes /\ OnDisk(i)'.size >= OnDisk(i).size
    BY <2>2 DEF FilesKept
  <2>5. OnDisk(i).size \in Nat /\ OnDisk(i)'.size \in Nat /\ OnDisk(i)'.size >= OnDisk(i).size
    BY <2>2, <2>4 DEF FileInodes, InodeRecords
  <2>6. file.id = i /\ OnDisk(i).size..(file.pos - 1) \subseteq counted[i]
    BY <2>1, <2>2
  <2>7. OnDisk(i)'.size..(file.pos - 1) \subseteq OnDisk(i).size..(file.pos - 1)
    BY <2>2, <2>5
  <2> QED
    BY <2>6, <2>3, <2>7
<1> QED
  BY <1>1, <1>2 DEF HandleBack

LEMMA SameDiskStaysBack ==
  ASSUME IInv, BackInv, FilesKept, disk' = disk, UNCHANGED <<file, counted>>
  PROVE  HandleBack' /\ FilesBack' /\ DataKept
<1>1. DataKept /\ Marks' = Marks /\ \A i : OnDisk(i)' = OnDisk(i)
  BY DEF DataKept, Marks, OnDisk
<1> QED
  BY <1>1, FilesStayBack

\* A step outside a write, that keeps the files and the handle.
LEMMA OutsideWrite ==
  ASSUME IInv, BackInv, FilesKept, DataKept, UNCHANGED <<file, counted>>, SeekBack',
         call'.op # "write",
         \A i \in Marks' : \/ i \in Marks /\ OnDisk(i)' = OnDisk(i)
                           \/ BackedBy(disk', counted[i], OnDisk(i)')
  PROVE  BackInv'
BY FilesStayBack DEF BackInv, WriteBack

LEMMA OutsideWriteSame ==
  ASSUME IInv, BackInv, FilesKept, UNCHANGED <<disk, file, counted>>, SeekBack', call'.op # "write"
  PROVE  BackInv'
BY SameDiskStaysBack DEF BackInv, WriteBack

\* The steps of create_file.
LEMMA CreateBack ==
  ASSUME IInv, BackInv,
         \/ TakeInodeBitmap \/ ChooseInode \/ ClearInode \/ FlushClear \/ MarkInode \/ FlushMark
  PROVE  BackInv'
<1>1. /\ call.op = "create" /\ FilesKept /\ UNCHANGED <<call, file, counted>>
  <2>1. pc \in {"create", "choose", "clear", "flush_clear", "mark", "flush_mark"} /\ Quiet
    BY DEF TakeInodeBitmap, ChooseInode, ClearInode, FlushClear, MarkInode, FlushMark, Take
  <2>2. FilesKept
    BY TakeStep, ClearStep, FlushClearStep, MarkStep, FlushMarkStep
  <2> QED
    BY <2>1, <2>2 DEF Quiet, IInv, CallInv, WritePlaces, ReadPlaces
<1>2. SeekBack' /\ call'.op # "write"
  BY <1>1 DEF SeekBack
<1>3. CASE TakeInodeBitmap \/ ChooseInode \/ ClearInode \/ MarkInode
  <2>1. disk' = disk
    BY <1>3 DEF TakeInodeBitmap, ChooseInode, ClearInode, MarkInode, Take, Cache!ReadBufSector,
                Cache!Hit, Cache!Miss, Cache!Store, cacheVars
  <2> QED
    BY <1>1, <1>2, <2>1, OutsideWriteSame
<1>4. CASE FlushClear
  <2>1. PICK i, v : i = Min(FreeInodes) /\ v = Val(2)
    OBVIOUS
  <2>2. Refs = 2 /\ i \in Inodes \ Marks /\ Tag(2) = InodeSector(i)
    BY <1>4, <2>1, Choosing DEF FlushClear
  <2>3. disk' = [disk EXCEPT ![InodeSector(i)] = v]
    <3>1. 2 \in 1..Refs /\ Cache!Flush(held[2])
      BY <1>4, <2>2 DEF FlushClear
    <3> QED
      BY <2>1, <2>2, <3>1, FlushRefs DEF IInv
  <2>4. InodeSector(i) \in Sectors /\ InodeSector(i) \notin DataSectors /\ InodeSector(i) # InodeBitmap
    BY <2>2, InodePlace DEF InodeBitmap
  <2>5. Marks' = Marks /\ DataKept
    BY <2>3, <2>4, SectorLayout DEF IInv, DiskInv, Marks, DataKept
  <2>6. \A j \in Marks : OnDisk(j)' = OnDisk(j)
    BY <1>1 DEF FilesKept
  <2> QED
    BY <1>1, <1>2, <2>5, <2>6, OutsideWrite
<1>5. CASE FlushMark
  <2>1. PICK i, S : i = local.n /\ S = Marks \union {i}
    OBVIOUS
  <2>2. /\ Refs = 2 /\ i \in Inodes \ Marks /\ Tag(1) = InodeBitmap /\ Val(1) = S
        /\ Cleared(OnDisk(i)) /\ S \in SUBSET Inodes
    BY <1>5, <2>1, Marking DEF FlushMark
  <2>3. disk' = [disk EXCEPT ![InodeBitmap] = S]
    <3>1. 1 \in 1..Refs /\ Cache!Flush(held[1])
      BY <1>5, <2>2 DEF FlushMark
    <3> QED
      BY <2>2, <3>1, FlushRefs DEF IInv
  <2>4. /\ Marks' = S
        /\ \A s \in Sectors : s # InodeBitmap => disk'[s] = disk[s]
        /\ \A j \in Inodes : OnDisk(j)' = OnDisk(j)
    BY <2>2, <2>3, BitmapWritten DEF IInv
  <2>5. DataKept
    <3>1. \A s \in DataSectors : s \in Sectors /\ s # InodeBitmap
      BY SectorLayout DEF InodeBitmap
    <3> QED
      BY <2>4, <3>1 DEF DataKept
  <2>6. BackedBy(disk', counted[i], OnDisk(i)')
    BY <2>2, <2>4 DEF Cleared, Backed, BackedBy
  <2>7. \A j \in Marks : OnDisk(j)' = OnDisk(j)
    BY <1>1 DEF FilesKept
  <2> QED
    BY <1>1, <1>2, <2>1, <2>4, <2>5, <2>6, <2>7, OutsideWrite
<1> QED
  BY <1>3, <1>4, <1>5

\* The steps of open, seek and a read.
LEMMA LookBack ==
  ASSUME IInv, BackInv,
         \/ TakeInodeToRead \/ TakeBlockToRead \/ TakeInodeToOpen \/ TakeInodeToSeek
         \/ LocateBlock \/ CountBytes \/ GetSize
  PROVE  BackInv'
<1>1. /\ call.op \in {"read", "open", "seek"} /\ FilesKept /\ UNCHANGED <<call, file, counted>>
  <2>1. pc \in {"read", "fetch", "open", "seek", "locate", "count", "size"} /\ Quiet
    BY DEF TakeInodeToRead, TakeBlockToRead, TakeInodeToOpen, TakeInodeToSeek, Take,
           LocateBlock, CountBytes, GetSize
  <2>2. FilesKept
    BY TakeStep, LookStep
  <2> QED
    BY <2>1, <2>2 DEF Quiet, IInv, CallInv, CreatePlaces, WritePlaces
<1>2. disk' = disk
  BY DEF TakeInodeToRead, TakeBlockToRead, TakeInodeToOpen, TakeInodeToSeek, Take,
         LocateBlock, CountBytes, GetSize, Cache!ReadBufSector, Cache!Hit, Cache!Miss, cacheVars
<1>3. SeekBack'
  <2> SUFFICES ASSUME pc' = "unwind", call.op = "seek", local'.ok
               PROVE  local'.n <= OnDisk(call.id)'.size
    BY <1>1 DEF SeekBack
  <2>1. CASE GetSize
    <3>1. pc = "size" /\ Refs = 1
      BY <2>1 DEF GetSize, IInv, PlaceInv
    <3>2. /\ Mine = InodeIn(held[1], call.id) /\ Mine.size \in Nat /\ Val(1) = disk[Tag(1)]
          /\ Tag(1) = InodeSector(call.id)
      BY <3>1, Working DEF FileVals
    <3>3. Mine = OnDisk(call.id)
      BY <3>2 DEF Mine, OnDisk
    <3>4. local'.n = Mine.size
      BY <2>1, <3>2, TypesOf DEF GetSize, IInv, Locals
    <3>5. OnDisk(call.id)' = OnDisk(call.id)
      BY <1>1, <1>2 DEF OnDisk
    <3> QED
      BY <3>2, <3>3, <3>4, <3>5
  <2>2. CASE ~GetSize
    <3>1. call.op = "read" \/ pc' # "unwind" \/ ~local'.ok
      BY <2>2, TypesOf
         DEF TakeInodeToRead, TakeBlockToRead, TakeInodeToOpen, TakeInodeToSeek, Take,
             LocateBlock, CountBytes, Fail, GoTo, IInv, Locals, CallInv, CreatePlaces, WritePlaces
    <3> QED
      BY <3>1
  <2> QED
    BY <2>1, <2>2
<1> QED
  BY <1>1, <1>2, <1>3, OutsideWriteSame

LEMMA SectorOfWord ==
  ASSUME NEW ino, NEW p \in Nat
  PROVE  SectorOf(ino, p) = ino.blocks[p \div SectorSize] + ((p \div SectorSize) % BlockSectors)
BY SectorInBlock DEF SectorOf

-----------------------------------------------------------------------------
\* The steps of write_to_file. The first take its references, or fail.
LEMMA WriteSame ==
  ASSUME IInv, BackInv, FilesKept, UNCHANGED <<disk, file, counted, call>>, call.op = "write", WriteBack'
  PROVE  BackInv'
<1>1. HandleBack' /\ FilesBack'
  BY SameDiskStaysBack
<1>2. SeekBack'
  BY DEF SeekBack
<1> QED
  BY <1>1, <1>2 DEF BackInv

LEMMA FailBack ==
  ASSUME IInv, BackInv, FilesKept, UNCHANGED <<disk, file, counted, call>>, call.op = "write",
         pc' = "unwind", ~local'.ok,
         Refs' = Refs, Mine' = Mine, Tag(2)' = Tag(2), Val(2)' = Val(2)
  PROVE  BackInv'
<1>1. WriteBack'
  BY DEF BackInv, WriteBack
<1> QED
  BY <1>1, WriteSame

LEMMA TakeBack ==
  ASSUME IInv, BackInv, TakeInodeToWrite \/ TakeBlockToWrite
  PROVE  BackInv'
<1>1. /\ pc \in {"write", "block"} /\ Quiet /\ FilesKept
      /\ call.op = "write" /\ UNCHANGED <<file, counted, call>>
  BY TakeStep
     DEF TakeInodeToWrite, TakeBlockToWrite, Take, Quiet, IInv, CallInv, CreatePlaces, ReadPlaces
<1>2. CASE UNCHANGED cacheVars /\ Fail
  <2>1. /\ disk' = disk /\ Refs' = Refs /\ Mine' = Mine
        /\ Tag(2)' = Tag(2) /\ Val(2)' = Val(2) /\ pc' = "unwind" /\ ~local'.ok
    BY <1>1, <1>2, FailStep
  <2> QED
    BY <1>1, <2>1, FailBack
<1>3. CASE TakeInodeToWrite /\ ~(UNCHANGED cacheVars /\ Fail)
  <2>1. PICK s, p : /\ Quiet /\ s = InodeSector(call.id) /\ pc = "write" /\ p = "find"
                    /\ Cache!ReadBufSector(s) /\ GoTo(p)
    BY <1>3 DEF TakeInodeToWrite, Take
  <2>2. disk' = disk /\ Refs' = 1 /\ Mine' = OnDisk(call.id) /\ pc' = "find"
    BY <1>1, <2>1, FirstTaken DEF GoTo
  <2>3. BackedBy(disk, counted[call.id], OnDisk(call.id))
    BY <1>1, FileOfCall DEF BackInv, FilesBack
  <2>4. WriteBack'
    BY <1>1, <2>2, <2>3 DEF WriteBack
  <2> QED
    BY <1>1, <2>2, <2>4, WriteSame
<1>4. CASE TakeBlockToWrite /\ ~(UNCHANGED cacheVars /\ Fail)
  <2>1. PICK s, p : /\ Quiet /\ s = SectorOf(InodeIn(held[1], call.id), call.pos)
                    /\ pc = "block" /\ p = "copy"
                    /\ Cache!ReadBufSector(s) /\ GoTo(p)
    BY <1>4 DEF TakeBlockToWrite, Take
  <2>2. Refs = 1 /\ Index \in BlockWords /\ Mine.blocks[Index] # 0
    BY <2>1 DEF IInv, PlaceInv, FileLocals
  <2>3. /\ Mine = InodeIn(held[1], call.id) /\ Mine \in FileInodes /\ call.pos \in Nat
    BY <1>1, <2>2, Working
  <2>4. s \in DataSectors /\ s \in Sectors
    <3>1. SectorOf(Mine, call.pos) \in DataSectors
      BY <2>2, <2>3, SectorOfInArea DEF Index
    <3> QED
      BY <2>1, <2>3, <3>1, SectorLayout
  <2>5. /\ disk' = disk /\ Refs' = 2 /\ Mine' = Mine /\ Tag(2)' = s /\ Val(2)' = disk[s]
        /\ pc' = "copy" /\ Index' = Index
    <3>1. pc' = "copy" /\ Index' = Index
      BY <1>1, <2>1 DEF GoTo, Index
    <3> QED
      BY <2>1, <2>4, <3>1, SecondTaken
  <2>6. s = SectorOf(Mine, call.pos) /\ BackedBy(disk, counted[call.id], Mine)
    BY <1>1, <2>1, <2>2, <2>3 DEF BackInv, WriteBack
  <2>7. WriteBack'
    BY <1>1, <2>2, <2>5, <2>6 DEF WriteBack
  <2> QED
    BY <1>1, <2>5, <2>7, WriteSame
<1> QED
  BY <1>2, <1>3, <1>4

\* The index is looked up and a block is found for it, or the call fails.
LEMMA FindBack ==
  ASSUME IInv, BackInv, FindBlock
  PROVE  BackInv'
<1>1. /\ pc = "find" /\ call.op = "write" /\ Refs = 1 /\ UNCHANGED <<call, file, counted>>
  BY DEF FindBlock, Quiet, IInv, CallInv, CreatePlaces, ReadPlaces, PlaceInv
<1>2. /\ FilesKept /\ disk' = disk /\ Refs' = 1 /\ Mine' = Mine
      /\ pc' \in {"unwind", "allocate", "block"}
      /\ pc' = "allocate" => Mine.blocks[Index] = 0
      /\ pc' = "unwind" => ~local'.ok
  BY FindStep
<1>3. BackedBy(disk, counted[call.id], Mine) /\ Index' = Index
  BY <1>1 DEF BackInv, WriteBack, Index
<1>4. WriteBack'
  BY <1>1, <1>2, <1>3 DEF WriteBack
<1> QED
  BY <1>1, <1>2, <1>4, WriteSame

LEMMA AllocateBack ==
  ASSUME IInv, BackInv, Allocate
  PROVE  BackInv'
<1>1. /\ pc = "allocate" /\ call.op = "write" /\ Refs = 1 /\ UNCHANGED <<call, file, counted>>
  BY DEF Allocate, Quiet, IInv, CallInv, CreatePlaces, ReadPlaces, PlaceInv
<1>2. /\ FilesKept /\ pc' \in {"unwind", "link"}
      /\ Refs' = 1 /\ Mine' = Mine /\ Marks' = Marks
      /\ \A i \in Inodes : OnDisk(i)' = OnDisk(i)
      /\ \A s \in DataSectors : disk'[s] = disk[s]
      /\ pc' = "unwind" => ~local'.ok
  BY AllocateStep
<1>3. DataKept
  BY <1>2 DEF DataKept
<1>4. HandleBack' /\ FilesBack'
  <2>1. Marks \subseteq Inodes
    BY DiskTyped DEF IInv
  <2> QED
    BY <1>1, <1>2, <1>3, <2>1, FilesStayBack
<1>5. BackedBy(disk', counted[call.id], Mine) /\ Index' = Index /\ Mine.blocks[Index] = 0
  BY <1>1, <1>3, BackedStays, Working DEF BackInv, WriteBack, Index
<1>6. WriteBack' /\ SeekBack'
  BY <1>1, <1>2, <1>5 DEF WriteBack, SeekBack
<1> QED
  BY <1>4, <1>6 DEF BackInv

\* The block word that is set was 0, so that no byte of the file was in it.
LEMMA LinkBack ==
  ASSUME IInv, BackInv, LinkBlock
  PROVE  BackInv'
<1>1. /\ pc = "link" /\ call.op = "write" /\ Refs = 1 /\ UNCHANGED <<call, file, counted>>
  BY DEF LinkBlock, Quiet, IInv, CallInv, CreatePlaces, ReadPlaces, PlaceInv
<1>2. PICK ino, new, m : ino = Mine /\ m = Index /\ new = [ino EXCEPT !.blocks[m] = local.sector]
  OBVIOUS
<1>3. /\ FilesKept /\ pc' = "block" /\ disk' = disk /\ Refs' = 1
      /\ ino \in FileInodes /\ m \in BlockWords /\ Mine' = new
  BY <1>2, LinkStep
<1>4. BackedBy(disk, counted[call.id], ino) /\ ino.blocks[m] = 0
  BY <1>1, <1>2 DEF BackInv, WriteBack
<1>5. BackedBy(disk, counted[call.id], new)
  <2> SUFFICES ASSUME NEW p \in 0..(new.size - 1) \ counted[call.id]
               PROVE  /\ new.blocks[p \div SectorSize] # 0
                      /\ disk[SectorOf(new, p)][p % SectorSize] # Junk
    BY DEF Backed, BackedBy
  <2>1. /\ ino \in InodeRecords
    BY <1>3 DEF FileInodes
  <2>2. /\ new.size = ino.size /\ \A k \in BlockWords : k # m => new.blocks[k] = ino.blocks[k]
    BY <1>2, <2>1 DEF InodeRecords
  <2>3. /\ ino.blocks[p \div SectorSize] # 0
        /\ disk[SectorOf(ino, p)][p % SectorSize] # Junk
        /\ p \in Nat /\ p \div SectorSize \in BlockWords
    BY <1>3, <1>4, <2>2, InWords DEF Backed, BackedBy
  <2>4. p \div SectorSize # m
    BY <1>4, <2>3
  <2>5. SectorOf(new, p) = SectorOf(ino, p)
    BY <2>2, <2>3, <2>4, SectorOfWord
  <2> QED
    BY <2>2, <2>3, <2>4, <2>5
<1>6. WriteBack'
  BY <1>1, <1>3, <1>5 DEF WriteBack
<1> QED
  BY <1>1, <1>3, <1>6, WriteSame

LEMMA CopyBack ==
  ASSUME IInv, BackInv, CopyIn
  PROVE  BackInv'
<1>0. PICK from, s, m : from = call.pos % SectorSize /\ s = Tag(2) /\ m = local'.n
  OBVIOUS
<1>1. /\ pc = "copy" /\ call.op = "write" /\ Refs = 2 /\ UNCHANGED <<call, file, counted>>
  BY DEF CopyIn, Quiet, IInv, CallInv, CreatePlaces, ReadPlaces, PlaceInv
<1>2. /\ FilesKept /\ pc' = "flush_data"
      /\ disk' = disk /\ Refs' = 2 /\ Mine' = Mine /\ Tag(2)' = s
      /\ from \in 0..(SectorSize - 1) /\ m \in Nat /\ m <= SectorSize - from
      /\ \A k \in 0..(SectorSize - 1) :
           Val(2)'[k] = IF k \in from..(from + m - 1) THEN Data ELSE Val(2)[k]
  BY <1>0, CopyStep
<1>3. /\ BackedBy(disk, counted[call.id], Mine) /\ Index' = Index
      /\ Index \in BlockWords /\ Mine.blocks[Index] # 0 /\ s = SectorOf(Mine, call.pos)
      /\ \A k \in 0..(SectorSize - 1) : disk[s][k] # Junk => Val(2)[k] # Junk
  BY <1>0, <1>1 DEF BackInv, WriteBack, Index
<1>4. \A k \in 0..(SectorSize - 1) : disk[s][k] # Junk => Val(2)'[k] # Junk
  BY <1>2, <1>3, JunkAssumption
<1>5. /\ from + m <= SectorSize
      /\ \A k \in from..(from + m - 1) : Val(2)'[k] # Junk
  <2>1. from + m <= SectorSize
    BY <1>2, LayoutAssumption
  <2>2. \A k \in from..(from + m - 1) : k \in 0..(SectorSize - 1)
    BY <1>2, <2>1, LayoutAssumption
  <2> QED
    BY <1>2, <2>1, <2>2, JunkAssumption
<1>6. WriteBack'
  BY <1>0, <1>1, <1>2, <1>3, <1>4, <1>5 DEF WriteBack
<1> QED
  BY <1>1, <1>2, <1>6, WriteSame

\* The data goes out: nothing that was written is taken back.
LEMMA FlushDataBack ==
  ASSUME IInv, BackInv, FlushData
  PROVE  BackInv'
<1>0. PICK from, s, v : from = call.pos % SectorSize /\ s = Tag(2) /\ v = Val(2)
  OBVIOUS
<1>1. /\ pc = "flush_data" /\ call.op = "write" /\ Refs = 2 /\ UNCHANGED <<call, file, counted, local>>
  BY DEF FlushData, GoTo, Quiet, IInv, CallInv, CreatePlaces, ReadPlaces, PlaceInv
<1>2. /\ FilesKept /\ pc' = "grow"
      /\ Refs' = 2 /\ Mine' = Mine /\ Tag(2)' = s /\ Val(2)' = v
      /\ s \in DataSectors /\ disk'[s] = v /\ Marks' = Marks
      /\ \A i \in Inodes : OnDisk(i)' = OnDisk(i)
      /\ \A r \in DataSectors : r # s => disk'[r] = disk[r]
  BY <1>0, FlushDataStep
<1>3. /\ BackedBy(disk, counted[call.id], Mine) /\ Index' = Index
      /\ Index \in BlockWords /\ Mine.blocks[Index] # 0 /\ s = SectorOf(Mine, call.pos)
      /\ \A k \in 0..(SectorSize - 1) : disk[s][k] # Junk => v[k] # Junk
      /\ from + local.n <= SectorSize
      /\ \A k \in from..(from + local.n - 1) : v[k] # Junk
  BY <1>0, <1>1 DEF BackInv, WriteBack, Index
<1>4. DataKept
  BY <1>2, <1>3 DEF DataKept
<1>5. HandleBack' /\ FilesBack'
  <2>1. Marks \subseteq Inodes
    BY DiskTyped DEF IInv
  <2> QED
    BY <1>1, <1>2, <1>4, <2>1, FilesStayBack
<1>6. BackedBy(disk', counted[call.id], Mine)
  BY <1>1, <1>3, <1>4, BackedStays, Working
<1>7. WriteBack' /\ SeekBack'
  BY <1>0, <1>1, <1>2, <1>3, <1>6 DEF WriteBack, SeekBack
<1> QED
  BY <1>5, <1>7 DEF BackInv

\* The bytes of the write are on disk, where its inode says.
LEMMA NewIsBacked ==
  ASSUME IInv, BackInv, pc = "grow", call.op = "write", Refs = 2
  PROVE  Backed(disk, Mine, New)
<1>0. PICK from, s, m, old : /\ from = call.pos % SectorSize /\ s = Tag(2) /\ m = local.n
                             /\ old = Mine
  OBVIOUS
<1>1. old \in FileInodes /\ call.pos \in Nat /\ Index \in Nat
  BY <1>0, Working
<1>2. m \in Nat
  BY <1>0, TypesOf DEF IInv, Locals
<1>3. /\ Index \in BlockWords /\ old.blocks[Index] # 0 /\ s = SectorOf(old, call.pos)
      /\ from + m <= SectorSize
      /\ \A k \in from..(from + m - 1) : disk[s][k] # Junk
  BY <1>0 DEF BackInv, WriteBack
<1>4. /\ from \in 0..(SectorSize - 1) /\ call.pos = SectorSize * Index + from
      /\ SectorSize \in Nat \ {0}
  BY <1>0, <1>1, DivMod, LayoutAssumption DEF Index
<1>5. ASSUME NEW p \in New
      PROVE  /\ old.blocks[p \div SectorSize] # 0
             /\ disk[SectorOf(old, p)][p % SectorSize] # Junk
  <2>1. p \in Nat /\ call.pos <= p /\ p < call.pos + m
    BY <1>0, <1>1, <1>2 DEF New
  <2>2. PICK k : k = from + (p - call.pos)
    OBVIOUS
  <2>3. k \in from..(from + m - 1) /\ k \in 0..(SectorSize - 1)
    BY <1>1, <1>2, <1>3, <1>4, <2>1, <2>2
  <2>4. p = SectorSize * Index + k
    <3>1. PICK b : b = SectorSize * Index
      OBVIOUS
    <3>2. b \in Nat
      BY <1>1, <1>4, <3>1
    <3> QED
      BY <1>1, <1>4, <2>1, <2>2, <3>1, <3>2
  <2>5. p \div SectorSize = Index /\ p % SectorSize = k
    BY <1>1, <1>4, <2>1, <2>3, <2>4, DivUnique
  <2>6. SectorOf(old, p) = s
    <3>1. SectorOf(old, p) = old.blocks[Index] + (Index % BlockSectors)
      BY <2>1, <2>5, SectorOfWord
    <3>2. s = old.blocks[Index] + (Index % BlockSectors)
      BY <1>1, <1>3, SectorOfWord DEF Index
    <3> QED
      BY <3>1, <3>2
  <2> QED
    BY <1>3, <2>3, <2>5, <2>6
<1> QED
  BY <1>0, <1>5 DEF Backed

\* The bytes that a write adds to its file are those it has just written, and
\* before them such as reads had counted.
LEMMA GrownIsBacked ==
  ASSUME IInv, BackInv, pc = "grow", call.op = "write", Refs = 2,
         NEW ino, ino = [Mine EXCEPT !.size = call.pos + local.n],
         Mine.size < call.pos + local.n
  PROVE  BackedBy(disk, counted[call.id], ino) /\ Backed(disk, ino, New)
<1>0. PICK m, old : m = local.n /\ old = Mine
  OBVIOUS
<1>1. /\ old \in FileInodes /\ old.size \in Nat /\ call.pos \in Nat
      /\ old.size >= OnDisk(call.id).size /\ OnDisk(call.id).size \in Nat
  BY <1>0, Working
<1>2. m \in Nat
  BY <1>0, TypesOf DEF IInv, Locals
<1>3. BackedBy(disk, counted[call.id], old) /\ Backed(disk, old, New)
  BY <1>0, NewIsBacked DEF BackInv, WriteBack
<1>4. OnDisk(call.id).size..(call.pos - 1) \subseteq counted[call.id]
  <2>1. file.drive /\ call.id = file.id /\ call.pos = file.pos
    BY DEF IInv, CallInv, NoCall
  <2> QED
    BY <2>1 DEF BackInv, HandleBack
<1>5. /\ ino.size = call.pos + m /\ ino.blocks = old.blocks
  BY <1>0, <1>1 DEF FileInodes, InodeRecords
<1>6. \A p : SectorOf(ino, p) = SectorOf(old, p)
  BY <1>5 DEF SectorOf
<1>7. Backed(disk, ino, New)
  BY <1>3, <1>5, <1>6 DEF Backed
<1>8. ASSUME NEW p \in 0..(ino.size - 1) \ counted[call.id]
      PROVE  /\ ino.blocks[p \div SectorSize] # 0
             /\ disk[SectorOf(ino, p)][p % SectorSize] # Junk
  <2>1. p \in Nat /\ p < call.pos + m
    BY <1>1, <1>2, <1>5
  <2>2. CASE p < old.size
    <3>1. p \in 0..(old.size - 1) \ counted[call.id]
      BY <1>1, <2>1, <2>2
    <3> QED
      BY <1>3, <1>5, <1>6, <3>1 DEF Backed, BackedBy
  <2>3. CASE ~(p < old.size)
    <3>1. ~(p < call.pos)
      BY <1>1, <1>4, <2>1, <2>3
    <3>2. p \in New
      BY <1>0, <1>1, <1>2, <2>1, <3>1 DEF New
    <3> QED
      BY <1>7, <3>2 DEF Backed
  <2> QED
    BY <2>2, <2>3
<1> QED
  BY <1>7, <1>8 DEF Backed, BackedBy

LEMMA GrowBack ==
  ASSUME IInv, BackInv, Grow
  PROVE  BackInv'
<1>0. PICK s, v, ino : /\ s = Tag(2) /\ v = Val(2)
                       /\ ino = IF Mine.size < call.pos + local.n
                                  THEN [Mine EXCEPT !.size = call.pos + local.n] ELSE Mine
  OBVIOUS
<1>1. /\ pc = "grow" /\ call.op = "write" /\ Refs = 2 /\ UNCHANGED <<call, file, counted>>
      /\ local'.n = local.n
  BY DEF Grow, Quiet, IInv, TypeOK, CallInv, CreatePlaces, ReadPlaces, PlaceInv
<1>2. /\ FilesKept /\ pc' = "flush_inode"
      /\ disk' = disk /\ Refs' = 2 /\ Tag(2)' = s /\ Val(2)' = v /\ Mine' = ino
  BY <1>0, GrowStep
<1>3. /\ BackedBy(disk, counted[call.id], Mine) /\ Backed(disk, Mine, New)
      /\ \A k \in 0..(SectorSize - 1) : disk[s][k] # Junk => v[k] # Junk
  BY <1>0, <1>1, NewIsBacked DEF BackInv, WriteBack
<1>4. BackedBy(disk, counted[call.id], ino) /\ Backed(disk, ino, New)
  BY <1>0, <1>1, <1>3, GrownIsBacked
<1>5. New' = New /\ Own' = ino
  BY <1>1, <1>2 DEF New, Own
<1>6. WriteBack'
  BY <1>1, <1>2, <1>3, <1>4, <1>5 DEF WriteBack
<1> QED
  BY <1>1, <1>2, <1>6, WriteSame

\* The inode goes out after the data.
LEMMA FlushInodeBack ==
  ASSUME IInv, BackInv, FlushInode
  PROVE  BackInv'
<1>0. PICK s, v : s = Tag(2) /\ v = Val(2)
  OBVIOUS
<1>1. /\ pc = "flush_inode" /\ call.op = "write" /\ Refs = 2 /\ UNCHANGED <<call, file, counted, local>>
  BY DEF FlushInode, GoTo, Quiet, IInv, CallInv, CreatePlaces, ReadPlaces, PlaceInv
<1>2. /\ FilesKept /\ pc' = "unwind"
      /\ Refs' = 2 /\ Mine' = Mine /\ Tag(2)' = s /\ Val(2)' = v
      /\ Marks' = Marks /\ OnDisk(call.id)' = Mine
      /\ \A r \in DataSectors : disk'[r] = disk[r]
  BY <1>0, FlushInodeStep
<1>3. /\ BackedBy(disk, counted[call.id], Mine) /\ s \in DataSectors
      /\ \A k \in 0..(SectorSize - 1) : disk[s][k] # Junk => v[k] # Junk
  BY <1>0, <1>1, Working DEF BackInv, WriteBack
<1>4. DataKept
  BY <1>2 DEF DataKept
<1>5. BackedBy(disk', counted[call.id], Mine) /\ (local.ok => Backed(disk', Mine, New))
  <2>1. /\ Mine \in FileInodes /\ Mine.size \in Nat /\ call.pos \in Nat /\ local.n \in Nat
        /\ Mine.size >= call.pos + local.n
    BY <1>1, Working, TypesOf DEF IInv, FileLocals, Locals
  <2>2. New \in SUBSET (0..(Mine.size - 1))
    BY <2>1 DEF New
  <2>3. local.ok => Backed(disk, Mine, New)
    BY <1>1 DEF BackInv, WriteBack, Own
  <2> QED
    BY <1>3, <1>4, <2>1, <2>2, <2>3, BackedStays, BytesStay
<1>6. \A i \in Marks' : \/ i \in Marks /\ OnDisk(i)' = OnDisk(i)
                        \/ BackedBy(disk', counted[i], OnDisk(i)')
  <2> TAKE i \in Marks'
  <2>1. CASE i = call.id
    <3>1. OnDisk(i)' = Mine
      BY <1>1, <1>2, <2>1 DEF OnDisk
    <3> QED
      BY <1>5, <2>1, <3>1
  <2>2. CASE i # call.id
    BY <1>2, <2>2 DEF FilesKept
  <2> QED
    BY <2>1, <2>2
<1>7. HandleBack' /\ FilesBack'
  BY <1>1, <1>2, <1>4, <1>6, FilesStayBack
<1>8. New' = New /\ Own' = Mine
  BY <1>1, <1>2 DEF New, Own
<1>9. WriteBack' /\ SeekBack'
  BY <1>1, <1>2, <1>3, <1>5, <1>8 DEF WriteBack, SeekBack
<1> QED
  BY <1>7, <1>9 DEF BackInv

\* The end of a call: a destructor writes what a flush has not.
LEMMA UnwindBack ==
  ASSUME IInv, BackInv, Unwind
  PROVE  BackInv'
<1>1. pc = "unwind" /\ pc' = pc /\ UNCHANGED <<call, file, counted, local>>
  BY DEF Unwind
<1>2. CASE call.op = "create"
  <2>1. FilesKept /\ disk' = disk
    BY <1>2, UnwindCreate
  <2> QED
    BY <1>1, <1>2, <2>1, OutsideWriteSame DEF SeekBack
<1>3. CASE call.op # "create"
  <2>0. PICK n, s, v, ino : n = Refs /\ s = Tag(2) /\ v = Val(2) /\ ino = Mine
    OBVIOUS
  <2>1. /\ FilesKept /\ Marks' = Marks
        /\ n \in 1..2 /\ Refs' = n - 1
        /\ n = 1 => /\ OnDisk(call.id)' = ino
                    /\ \A r \in DataSectors : disk'[r] = disk[r]
        /\ n = 2 => /\ Mine' = ino /\ disk' = [disk EXCEPT ![s] = v]
                    /\ \A i \in Inodes : OnDisk(i)' = OnDisk(i)
    BY <1>3, <2>0, UnwindFile
  <2>2. call.op \in {"open", "seek", "write", "read"}
    BY <1>1, <1>3 DEF IInv, CallInv
  <2>3. /\ call.id \in Marks /\ call.id \in Inodes /\ ino \in FileInodes /\ FileVals
        /\ n = 2 => s \in DataSectors
    BY <2>0, <2>1, <2>2, Working
  <2>4. call.op = "write" =>
          /\ BackedBy(disk, counted[call.id], ino)
          /\ local.ok => Backed(disk, ino, New)
    BY <1>1, <2>0, <2>1 DEF BackInv, WriteBack, Own
  <2>5. DataKept
    <3>1. CASE n = 1
      BY <2>1, <3>1 DEF DataKept
    <3>2. CASE n = 2
      <4>1. \A k \in 0..(SectorSize - 1) : disk[s][k] # Junk => v[k] # Junk
        BY <2>0, <2>3, <3>2 DEF BackInv, WriteBack, FileVals
      <4>2. \A r \in DataSectors : disk'[r] = IF r = s THEN v ELSE disk[r]
        BY <2>1, <3>2, SectorLayout DEF IInv, DiskInv
      <4> QED
        BY <4>1, <4>2 DEF DataKept
    <3> QED
      BY <2>1, <3>1, <3>2
  <2>6. call.op = "write" =>
          /\ BackedBy(disk', counted[call.id], ino)
          /\ local.ok => Backed(disk', ino, New)
    <3>1. call.op = "write" /\ local.ok => New \in SUBSET (0..(ino.size - 1))
      <4> SUFFICES ASSUME call.op = "write", local.ok
                   PROVE  New \in SUBSET (0..(ino.size - 1))
        OBVIOUS
      <4>1. OnDisk(call.id).size >= call.pos + local.n /\ local.n \in Nat
        BY <1>1, TypesOf DEF IInv, FileLocals, Locals
      <4>2. ino.size \in Nat /\ ino.size >= OnDisk(call.id).size
            /\ OnDisk(call.id).size \in Nat /\ call.pos \in Nat
        BY <2>0, <2>1, Working
      <4> QED
        BY <4>1, <4>2 DEF New
    <3> QED
      BY <2>3, <2>4, <2>5, <3>1, BackedStays, BytesStay
  <2>7. \A i \in Marks' : \/ i \in Marks /\ OnDisk(i)' = OnDisk(i)
                          \/ BackedBy(disk', counted[i], OnDisk(i)')
    <3> TAKE i \in Marks'
    <3>1. CASE call.op = "write" /\ call.id = i /\ n = 1
      <4>1. OnDisk(i)' = ino
        BY <1>1, <2>1, <3>1 DEF OnDisk
      <4> QED
        BY <2>6, <3>1, <4>1
    <3>2. CASE ~(call.op = "write" /\ call.id = i)
      BY <2>1, <3>2 DEF FilesKept
    <3>3. CASE n = 2
      BY <2>1, <3>3, DiskTyped DEF IInv
    <3> QED
      BY <2>1, <3>1, <3>2, <3>3
  <2>8. HandleBack' /\ FilesBack'
    BY <1>1, <2>1, <2>5, <2>7, FilesStayBack
  <2>9. WriteBack'
    <3>1. New' = New
      BY <1>1 DEF New
    <3>2. Own' = ino
      BY <2>1 DEF Own
    <3> QED
      BY <1>1, <2>1, <2>6, <3>1, <3>2 DEF WriteBack
  <2>10. SeekBack'
    <3> SUFFICES ASSUME call.op = "seek", local.ok PROVE local.n <= OnDisk(call.id)'.size
      BY <1>1 DEF SeekBack
    <3>1. OnDisk(call.id)' = OnDisk(call.id)
      <4>1. PICK i : i = call.id
        OBVIOUS
      <4>2. OnDisk(i)' = OnDisk(i)
        BY <2>1, <2>3, <4>1 DEF FilesKept
      <4>3. OnDisk(call.id)' = OnDisk(i)'
        BY <1>1, <4>1 DEF OnDisk
      <4> QED
        BY <4>1, <4>2, <4>3
    <3> QED
      BY <1>1, <3>1 DEF BackInv, SeekBack
  <2> QED
    BY <2>8, <2>9, <2>10 DEF BackInv
<1> QED
  BY <1>2, <1>3

\* Steps that leave the disk alone and may give the shell another handle.
LEMMA SameFiles ==
  ASSUME BackInv, UNCHANGED <<disk, counted>>
  PROVE  FilesBack'
<1>1. Marks' = Marks /\ \A i : OnDisk(i)' = OnDisk(i)
  BY DEF Marks, OnDisk
<1> QED
  BY <1>1 DEF BackInv, FilesBack

LEMMA HandleStep ==
  ASSUME HandleBack', FilesBack',
         call'.op # "write" \/ (pc' = "write" /\ Refs' = 0),
         pc' # "unwind"
  PROVE  BackInv'
<1>1. WriteBack' /\ SeekBack'
  BY DEF WriteBack, SeekBack
<1> QED
  BY <1>1 DEF BackInv

\* A read lets its file have gaps where it counted bytes past the end; a write
\* closes those it reaches.
LEMMA ReturnFiles ==
  ASSUME IInv, BackInv,
         ReturnFailed \/ ReturnOpened \/ ReturnWritten \/ ReturnRead \/ ReturnSought
  PROVE  FilesBack'
<1>1. pc = "unwind" /\ disk' = disk /\ held = <<>>
  BY ReturnStep DEF ReturnFailed, ReturnOpened, ReturnWritten, ReturnRead, ReturnSought, Done
<1>2. CASE ReturnFailed \/ ReturnOpened \/ ReturnSought
  BY <1>1, <1>2, SameFiles DEF ReturnFailed, ReturnOpened, ReturnSought
<1>3. Marks' = Marks /\ (\A i : OnDisk(i)' = OnDisk(i)) /\ Marks \subseteq Inodes
  BY <1>1, DiskTyped DEF Marks, OnDisk, IInv
<1>4. counted \in [Inodes -> SUBSET Nat]
  BY TypesOf DEF IInv
<1>5. CASE ReturnRead
  <2>1. \A i \in Inodes : counted[i] \subseteq counted'[i]
    BY <1>4, <1>5 DEF ReturnRead
  <2> SUFFICES ASSUME NEW i \in Marks PROVE BackedBy(disk, counted'[i], OnDisk(i))
    BY <1>1, <1>3 DEF FilesBack
  <2>2. BackedBy(disk, counted[i], OnDisk(i)) /\ counted[i] \subseteq counted'[i]
    BY <1>3, <2>1 DEF BackInv, FilesBack
  <2> QED
    BY <2>2 DEF Backed, BackedBy
<1>6. CASE ReturnWritten
  <2>1. call.op = "write" /\ local.ok /\ counted' = [counted EXCEPT ![call.id] = @ \ New]
    BY <1>6 DEF ReturnWritten, Done, New
  <2>2. Backed(disk, OnDisk(call.id), New)
    <3>1. ~(Refs >= 1)
      BY <1>1, RefsOfCache DEF IInv
    <3> QED
      BY <1>1, <2>1, <3>1 DEF BackInv, WriteBack, Own
  <2> SUFFICES ASSUME NEW i \in Marks PROVE BackedBy(disk, counted'[i], OnDisk(i))
    BY <1>1, <1>3 DEF FilesBack
  <2>3. BackedBy(disk, counted[i], OnDisk(i))
    BY DEF BackInv, FilesBack
  <2>4. CASE i = call.id
    <3>1. counted'[i] = counted[i] \ New
      BY <1>3, <1>4, <2>1, <2>4
    <3>2. Backed(disk, OnDisk(i), New)
      BY <2>2, <2>4
    <3> QED
      BY <2>3, <3>1, <3>2 DEF Backed, BackedBy
  <2>5. CASE i # call.id
    <3>1. counted'[i] = counted[i]
      BY <1>3, <1>4, <2>1, <2>5
    <3> QED
      BY <2>3, <3>1
  <2> QED
    BY <2>4, <2>5
<1> QED
  BY <1>2, <1>5, <1>6

LEMMA ReturnBack ==
  ASSUME IInv, BackInv,
         ReturnFailed \/ ReturnOpened \/ ReturnWritten \/ ReturnRead \/ ReturnSought
  PROVE  BackInv'
<1>1. /\ pc = "unwind" /\ pc' = "idle" /\ call' = NoCall /\ disk' = disk
  BY ReturnStep DEF ReturnFailed, ReturnOpened, ReturnWritten, ReturnRead, ReturnSought, Done, Finish
<1>2. \A i : OnDisk(i)' = OnDisk(i)
  BY <1>1 DEF OnDisk
<1>3. /\ file \in [drive : BOOLEAN, id : Inodes, pos : Nat] /\ local.n \in Nat
      /\ counted \in [Inodes -> SUBSET Nat]
  BY TypesOf DEF IInv, Locals
<1>4. file'.drive => OnDisk(file'.id).size..(file'.pos - 1) \subseteq counted'[file'.id]
  <2>1. CASE ReturnFailed
    BY <2>1 DEF ReturnFailed, BackInv, HandleBack
  <2>2. CASE ReturnOpened
    <3>1. call.op = "open"
      BY <2>2 DEF ReturnOpened, Done
    <3>2. OnDisk(call.id).size \in Nat
      BY <3>1, FileOfCall DEF FileInodes, InodeRecords
    <3>3. OnDisk(call.id).size..(0 - 1) = {}
      BY <3>2
    <3> QED
      BY <2>2, <3>3 DEF ReturnOpened
  <2>3. CASE ReturnWritten
    <3>1. call.op = "write" /\ local.ok /\ file' = [file EXCEPT !.pos = @ + local.n]
      BY <2>3 DEF ReturnWritten, Done
    <3>2. file.id = call.id /\ file.pos = call.pos
      BY <1>1, <3>1 DEF IInv, CallInv, NoCall
    <3>3. OnDisk(call.id).size >= call.pos + local.n /\ OnDisk(call.id).size \in Nat
      BY <1>1, <3>1, FileOfCall DEF IInv, FileLocals, FileInodes, InodeRecords
    <3>4. file'.id = call.id /\ file'.pos = call.pos + local.n /\ file'.pos \in Nat
      BY <1>3, <3>1, <3>2
    <3>5. OnDisk(call.id).size..(file'.pos - 1) = {}
      BY <3>3, <3>4
    <3> QED
      BY <3>4, <3>5
  <2>4. CASE ReturnRead
    <3>1. /\ call.op = "read" /\ file' = [file EXCEPT !.pos = @ + local.n]
          /\ counted' = [counted EXCEPT ![call.id] =
               @ \union (OnDisk(call.id).size..(call.pos + local.n - 1))]
      BY <2>4 DEF ReturnRead, Done
    <3>2. file.id = call.id /\ file.pos = call.pos /\ call.id \in Inodes
      BY <1>1, <1>3, <3>1 DEF IInv, CallInv, NoCall
    <3>3. file'.id = call.id /\ file'.pos = call.pos + local.n
      BY <1>3, <3>1, <3>2
    <3> QED
      BY <1>3, <3>1, <3>2, <3>3
  <2>5. CASE ReturnSought
    <3>1. /\ call.op = "seek" /\ local.ok
          /\ file' = [file EXCEPT !.pos = IF call.pos < local.n THEN call.pos ELSE local.n]
      BY <2>5 DEF ReturnSought, Done
    <3>2. file.id = call.id /\ call.pos \in Nat
      BY <1>1, <3>1 DEF IInv, CallInv, NoCall
    <3>3. local.n <= OnDisk(call.id).size /\ OnDisk(call.id).size \in Nat
      BY <1>1, <3>1, FileOfCall DEF BackInv, SeekBack, FileInodes, InodeRecords
    <3>4. file'.id = call.id /\ file'.pos \in Nat /\ file'.pos <= local.n
      BY <1>3, <3>1, <3>2
    <3>5. OnDisk(call.id).size..(file'.pos - 1) = {}
      BY <1>3, <3>3, <3>4
    <3> QED
      BY <3>4, <3>5
  <2> QED
    BY <2>1, <2>2, <2>3, <2>4, <2>5
<1>5. HandleBack'
  <2>1. OnDisk(file.id)' = OnDisk(file'.id)
    BY <1>1 DEF OnDisk
  <2> QED
    BY <1>4, <2>1 DEF HandleBack
<1> QED
  BY <1>1, <1>5, ReturnFiles, HandleStep DEF NoCall

LEMMA MoveBack ==
  ASSUME IInv, BackInv, ReturnCreated \/ MoveHandle \/ DropHandle
  PROVE  BackInv'
<1>1. /\ pc' \in {"move", "drop", "idle"} /\ call'.op # "write" /\ disk' = disk
      /\ UNCHANGED file \/ (pc = "move" /\ file' = temp)
      /\ UNCHANGED counted
  <2>1. CASE ReturnCreated
    BY <2>1, CreatedStep DEF ReturnCreated, Done
  <2>2. CASE MoveHandle
    BY <2>2, MoveStep DEF MoveHandle, IInv, CallInv, WritePlaces
  <2>3. CASE DropHandle
    BY <2>3, MoveStep DEF DropHandle, Finish, NoCall
  <2> QED
    BY <2>1, <2>2, <2>3
<1>2. file'.drive => OnDisk(file'.id).size..(file'.pos - 1) \subseteq counted[file'.id]
  <2>1. CASE UNCHANGED file
    BY <2>1 DEF BackInv, HandleBack
  <2>2. CASE pc = "move" /\ file' = temp
    <3>1. temp.pos = 0 /\ temp.id \in created
      BY <2>2, TypesOf DEF IInv, CreateLocals
    <3>2. OnDisk(temp.id).size \in Nat
      BY <3>1 DEF IInv, FileInv, FileInodes, InodeRecords
    <3> QED
      BY <2>2, <3>1, <3>2
  <2> QED
    BY <1>1, <2>1, <2>2
<1>3. HandleBack'
  <2>1. OnDisk(file.id)' = OnDisk(file'.id)
    BY <1>1 DEF OnDisk
  <2> QED
    BY <1>1, <1>2, <2>1 DEF HandleBack
<1> QED
  BY <1>1, <1>3, SameFiles, HandleStep

LEMMA CallsBack ==
  ASSUME IInv, BackInv, Calls
  PROVE  BackInv'
<1>1. IInv' /\ disk' = disk
  BY CallsStep
<1>2. /\ pc' = call'.op /\ UNCHANGED <<file, counted>>
      /\ call'.op \in {"create", "open", "write", "read", "seek"}
  BY DEF Calls, Create, Open, Write, Read, Seek, Start
<1>3. HandleBack'
  <2>1. OnDisk(file.id)' = OnDisk(file.id)
    BY <1>1, <1>2 DEF OnDisk
  <2> QED
    BY <1>2, <2>1 DEF BackInv, HandleBack
<1>4. pc' = "write" => Refs' = 0
  BY <1>1 DEF IInv, PlaceInv
<1> QED
  BY <1>1, <1>2, <1>3, <1>4, SameFiles, HandleStep

LEMMA CrashBack ==
  ASSUME IInv, BackInv, Crash
  PROVE  BackInv'
<1>1. /\ disk' = disk /\ file' = NullHandle /\ pc' = "idle" /\ call' = NoCall
      /\ UNCHANGED counted
  BY CrashStep DEF Crash, Finish
<1>2. HandleBack'
  BY <1>1, NothingTyped DEF HandleBack
<1> QED
  BY <1>1, <1>2, SameFiles, HandleStep DEF NoCall

\* Every step keeps it.
LEMMA NextBack ==
  ASSUME IInv, BackInv, Next
  PROVE  BackInv'
<1>1. CASE Calls
  BY <1>1, CallsBack
<1>2. CASE Crash
  BY <1>2, CrashBack
<1>3. CASE Steps
  <2>1. CASE \/ TakeInodeBitmap \/ ChooseInode \/ ClearInode \/ FlushClear
             \/ MarkInode \/ FlushMark
    BY <2>1, CreateBack
  <2>2. CASE \/ TakeInodeToWrite \/ TakeBlockToWrite \/ FindBlock \/ Allocate \/ LinkBlock
             \/ CopyIn \/ FlushData \/ Grow \/ FlushInode
    BY <2>2, TakeBack, FindBack, AllocateBack, LinkBack, CopyBack, FlushDataBack, GrowBack,
       FlushInodeBack
  <2>3. CASE \/ TakeInodeToRead \/ TakeBlockToRead \/ TakeInodeToOpen \/ TakeInodeToSeek
             \/ LocateBlock \/ CountBytes \/ GetSize
    BY <2>3, LookBack
  <2>4. CASE Unwind
    BY <2>4, UnwindBack
  <2>5. CASE ReturnFailed \/ ReturnOpened \/ ReturnWritten \/ ReturnRead \/ ReturnSought
    BY <2>5, ReturnBack
  <2>6. CASE ReturnCreated \/ MoveHandle \/ DropHandle
    BY <2>6, MoveBack
  <2> QED
    BY <1>3, <2>1, <2>2, <2>3, <2>4, <2>5, <2>6 DEF Steps
<1> QED
  BY <1>1, <1>2, <1>3 DEF Next

LEMMA StutterBack ==
  ASSUME IInv, BackInv, UNCHANGED vars
  PROVE  BackInv'
<1>1. /\ UNCHANGED <<pc, call, file, local, counted, disk, held, buf_sectors, buffer>>
  BY DEF vars, cacheVars
<1>2. FilesKept
  BY StutterStep
<1>3. HandleBack' /\ FilesBack'
  BY <1>1, <1>2, SameDiskStaysBack
<1>4. /\ Refs' = Refs /\ Mine' = Mine /\ Index' = Index
      /\ Tag(2)' = Tag(2) /\ Val(2)' = Val(2) /\ New' = New /\ Own' = Own
  BY <1>1 DEF Refs, Mine, Index, Tag, Val, New, Own, OnDisk
<1>5. WriteBack'
  BY <1>1, <1>4 DEF BackInv, WriteBack
<1>6. SeekBack'
  <2>1. OnDisk(call.id)' = OnDisk(call.id)
    BY <1>1 DEF OnDisk
  <2> QED
    BY <1>1, <2>1 DEF BackInv, SeekBack
<1> QED
  BY <1>3, <1>5, <1>6 DEF BackInv

LEMMA InitBack == Init => BackInv
<1> SUFFICES ASSUME Init PROVE BackInv
  OBVIOUS
<1>1. file = NullHandle /\ call = NoCall /\ pc = "idle" /\ disk = Formatted
  BY DEF Init
<1>2. Marks = {}
  BY NoMarks
<1>3. HandleBack
  <2>1. ~file.drive
    BY <1>1, NothingTyped
  <2> QED
    BY <2>1 DEF HandleBack
<1>4. FilesBack
  BY <1>2 DEF FilesBack
<1>5. WriteBack
  BY <1>1 DEF WriteBack, NoCall
<1>6. SeekBack
  BY <1>1 DEF SeekBack
<1> QED
  BY <1>3, <1>4, <1>5, <1>6 DEF BackInv

LEMMA BackInvariance == Spec => [](IInv /\ BackInv)
<1>1. Init => IInv /\ BackInv
  BY InitIInv, InitBack
<1>2. IInv /\ BackInv /\ [Next]_vars => (IInv /\ BackInv)'
  BY NextStep, StutterStep, NextBack, StutterBack
<1> QED
  BY <1>1, <1>2, PTL DEF Spec

\* Wherever power fails, the size on disk covers no byte that nobody wrote, but
\* those that a read past the end of the file had counted (read_from_file, and
\* FileHandle::read): the block is linked in memory only, the data goes out, and
\* the inode with the size and the link after it (write_to_file).
THEOREM SizesAreBacked == Spec => []SizeIsBacked
<1>1. IInv /\ BackInv => SizeIsBacked
  BY DEF BackInv, FilesBack, Backed, BackedBy, SizeIsBacked
<1> QED
  BY <1>1, BackInvariance, PTL

\* And only such a read takes a handle past the end of its file: a write has
\* grown the file on disk before the handle moves (FileHandle::write), and a seek
\* stops at the size it read (FileHandle::seek).
THEOREM HandlesStayInFile == Spec => []HandleInFile
<1>1. IInv /\ BackInv => HandleInFile
  BY DEF BackInv, HandleBack, HandleInFile
<1> QED
  BY <1>1, BackInvariance, PTL
=============================================================================
