--------------------------- MODULE BufCache_proofs ---------------------------
(***************************************************************************)
(* The buffer cache, proved for any number of buffers, sectors, values and *)
(* references. The type invariant, the exactness of the free mask and the  *)
(* coherence of the buffers with the disk are inductive together; that the *)
(* cache implements the sector store follows from them.                    *)
(***************************************************************************)
EXTENDS BufCache, SequenceTheorems, WellFoundedInduction, TLAPS

\* A buffer in use has been given a sector.
HeldTagged == \A b \in Held : buf_sectors[b] \in Sectors

Inv == CacheTypeOK /\ FreeMaskExact /\ Coherent /\ HeldTagged

-----------------------------------------------------------------------------
\* The scans of the cache end at a buffer of the set they scan for.
LEMMA MinIsMember ==
  ASSUME NEW S \in SUBSET Bufs, S # {}
  PROVE  Min(S) \in S
<1>1. S \subseteq Nat
  BY DEF Bufs
<1>2. PICK x \in S : \A y \in S : <<y, x>> \notin OpToRel(<, Nat)
  BY <1>1, NatLessThanWellFounded, WFMin, Zenon
<1>3. \A y \in S : x <= y
  <2> SUFFICES ASSUME NEW y \in S, ~(x <= y) PROVE FALSE
    OBVIOUS
  <2>1. <<y, x>> \in Nat \X Nat /\ y < x
    BY <1>1, SMT
  <2> QED
    BY <2>1, <1>2 DEF OpToRel
<1> QED
  BY <1>3 DEF Min

\* The buffers held are those of the sequence.
LEMMA HeldBufs ==
  ASSUME held \in Seq(Bufs)
  PROVE  /\ Held \subseteq Bufs
         /\ \A i \in 1..Len(held) : held[i] \in Held
         /\ DOMAIN held = 1..Len(held) /\ Len(held) \in Nat
BY LenProperties, ElementOfSeq DEF Held

\* Grabbing a buffer adds it to those held.
LEMMA HeldAfterGrab ==
  ASSUME held \in Seq(Bufs), NEW b \in Bufs, held' = Append(held, b)
  PROVE  /\ held' \in Seq(Bufs)
         /\ Held' = Held \union {b}
         /\ DOMAIN held' = 1..(Len(held) + 1)
         /\ \A i \in 1..Len(held) : held'[i] = held[i]
         /\ held'[Len(held) + 1] = b
<1>1. /\ held' \in Seq(Bufs) /\ Len(held') = Len(held) + 1
      /\ \A i \in 1..Len(held) : held'[i] = held[i]
      /\ held'[Len(held) + 1] = b
  BY AppendProperties
<1>2. DOMAIN held' = 1..(Len(held) + 1) /\ DOMAIN held = 1..Len(held) /\ Len(held) \in Nat
  BY <1>1, LenProperties
<1>3. 1..(Len(held) + 1) = 1..Len(held) \union {Len(held) + 1}
  BY <1>2
<1>4. {held'[i] : i \in 1..(Len(held) + 1)} = {held[i] : i \in 1..Len(held)} \union {b}
  BY <1>1, <1>3
<1> QED
  BY <1>1, <1>2, <1>4 DEF Held

\* The destructor of the newest reference removes its buffer, and no other.
LEMMA HeldAfterRelease ==
  ASSUME held \in Seq(Bufs), held # <<>>, held' = Front(held),
         \A i, j \in DOMAIN held : i # j => held[i] # held[j]
  PROVE  /\ held' \in Seq(Bufs)
         /\ Last(held) \in Held
         /\ Held' = Held \ {Last(held)}
         /\ \A i, j \in DOMAIN held' : i # j => held'[i] # held'[j]
<1>1. Len(held) \in Nat \ {0} /\ DOMAIN held = 1..Len(held)
  BY EmptySeq, LenProperties
<1>2. /\ held' \in Seq(Bufs) /\ Len(held') = Len(held) - 1
      /\ \A i \in 1..(Len(held) - 1) : held'[i] = held[i]
  <2>1. \A i \in 1..(Len(held) - 1) : held[i] \in Bufs
    BY <1>1, ElementOfSeq
  <2> QED
    BY <1>1, <2>1, SubSeqProperties DEF Front
<1>3. DOMAIN held' = 1..(Len(held) - 1)
  BY <1>2, LenProperties
<1>4. 1..Len(held) = 1..(Len(held) - 1) \union {Len(held)} /\ Len(held) \notin 1..(Len(held) - 1)
  BY <1>1
<1>5. {held'[i] : i \in 1..(Len(held) - 1)} = {held[i] : i \in 1..Len(held)} \ {held[Len(held)]}
  BY <1>1, <1>2, <1>4
<1> QED
  BY <1>1, <1>2, <1>3, <1>4, <1>5 DEF Held, Last

-----------------------------------------------------------------------------
\* The invariant holds of an empty cache, at the start and after a power loss.
LEMMA EmptyCacheInv ==
  ASSUME CacheInit, disk \in [Sectors -> Values]
  PROVE  Inv
<1>1. Held = {} /\ held \in Seq(Bufs) /\ DOMAIN held = {}
  BY EmptySeq DEF CacheInit, Held
<1> QED
  BY <1>1, ZerosAssumption, NoSectorAssumption
     DEF CacheInit, Inv, CacheTypeOK, FreeMaskExact, Coherent, HeldTagged, Bufs

\* Grabbing a buffer nobody holds, for a sector no other buffer has, once its
\* contents are the sector's or it already was the sector's.
LEMMA GrabInv ==
  ASSUME Inv, NEW s \in Sectors, NEW b \in Bufs \ Held, Grab(s, b),
         \A c \in Bufs \ {b} : buf_sectors[c] # s,
         buffer' = [buffer EXCEPT ![b] = disk[s]],
         UNCHANGED <<dirty_mask, disk>>
  PROVE  Inv'
<1> USE DEF Inv, CacheTypeOK
<1>1. /\ held' \in Seq(Bufs) /\ Held' = Held \union {b}
      /\ DOMAIN held' = 1..(Len(held) + 1) /\ DOMAIN held = 1..Len(held) /\ Len(held) \in Nat
      /\ \A i \in 1..Len(held) : held'[i] = held[i] /\ held[i] \in Held
      /\ held'[Len(held) + 1] = b
  BY HeldAfterGrab, HeldBufs DEF Grab
<1>2. CacheTypeOK'
  BY <1>1 DEF Grab, Bufs
<1>3. FreeMaskExact'
  <2>1. free_mask' = Bufs \ Held'
    BY <1>1 DEF FreeMaskExact, Grab
  <2>2. ASSUME NEW i \in DOMAIN held', NEW j \in DOMAIN held', i # j
        PROVE  held'[i] # held'[j]
    <3>1. CASE i \in 1..Len(held) /\ j \in 1..Len(held)
      BY <1>1, <2>2, <3>1 DEF FreeMaskExact
    <3>2. CASE i = Len(held) + 1 \/ j = Len(held) + 1
      BY <1>1, <2>2, <3>2
    <3> QED
      BY <1>1, <2>2, <3>1, <3>2
  <2> QED
    BY <2>1, <2>2 DEF FreeMaskExact
<1>4. Coherent'
  BY <1>1, NoSectorAssumption DEF Coherent, Grab
<1>5. HeldTagged'
  BY <1>1 DEF HeldTagged, Grab
<1> QED
  BY <1>2, <1>3, <1>4, <1>5

\* A sector nobody holds is read into, or found in, a buffer nobody holds.
LEMMA ReadGrabs ==
  ASSUME Inv, NEW s \in Sectors, ReadBufSector(s), s \notin Users
  PROVE  \E b \in Bufs \ Held :
           /\ Grab(s, b)
           /\ \A c \in Bufs \ {b} : buf_sectors[c] # s
           /\ buffer' = [buffer EXCEPT ![b] = disk[s]]
           /\ UNCHANGED <<dirty_mask, disk>>
<1>1. CASE Hit(s)
  <2> DEFINE b == Min(WithSector(s))
  <2>1. b \in WithSector(s)
    <3>1. WithSector(s) \in SUBSET Bufs /\ WithSector(s) # {}
      BY <1>1 DEF Hit, WithSector
    <3> QED
      BY <3>1, MinIsMember
  <2>2. b \in Bufs \ Held /\ buf_sectors[b] = s
    BY <2>1 DEF WithSector, Users
  <2>3. \A c \in Bufs \ {b} : buf_sectors[c] # s
    BY <2>2 DEF Inv, Coherent
  <2>4. buffer' = [buffer EXCEPT ![b] = disk[s]]
    BY <1>1, <2>2, NoSectorAssumption DEF Hit, Inv, CacheTypeOK, Coherent
  <2> QED
    BY <1>1, <2>2, <2>3, <2>4 DEF Hit
<1>2. CASE Miss(s)
  <2> DEFINE b == Min(free_mask)
  <2>1. b \in free_mask
    BY <1>2, MinIsMember DEF Miss, Inv, CacheTypeOK
  <2>2. b \in Bufs \ Held
    BY <2>1 DEF Inv, FreeMaskExact
  <2>3. \A c \in Bufs \ {b} : buf_sectors[c] # s
    BY <1>2 DEF Miss, WithSector
  <2> QED
    BY <1>2, <2>2, <2>3 DEF Miss
<1> QED
  BY <1>1, <1>2 DEF ReadBufSector

LEMMA ReadInv ==
  ASSUME Inv, NEW s \in Sectors, ReadBufSector(s), s \notin Users
  PROVE  Inv'
<1>1. PICK b \in Bufs \ Held :
        /\ Grab(s, b)
        /\ \A c \in Bufs \ {b} : buf_sectors[c] # s
        /\ buffer' = [buffer EXCEPT ![b] = disk[s]]
        /\ UNCHANGED <<dirty_mask, disk>>
  BY ReadGrabs
<1> QED
  BY <1>1, GrabInv

\* A store marks its buffer, or the buffer was marked.
LEMMA StoreInv ==
  ASSUME Inv, NEW b \in Held, NEW v \in Values,
         Store(b, v) \/ (b \in dirty_mask /\ StoreThroughPtr(b, v))
  PROVE  Inv'
<1> USE DEF Inv, CacheTypeOK
<1>1. b \in Bufs
  BY HeldBufs
<1>2. /\ UNCHANGED <<buf_sectors, free_mask, disk, held>>
      /\ buffer' = [buffer EXCEPT ![b] = v]
      /\ dirty_mask' = dirty_mask \union {b}
  BY DEF Store, StoreThroughPtr
<1>3. Held' = Held
  BY <1>2 DEF Held
<1>4. CacheTypeOK' /\ FreeMaskExact'
  BY <1>1, <1>2, <1>3 DEF FreeMaskExact
<1>5. Coherent'
  BY <1>1, <1>2, <1>3 DEF Coherent
<1>6. HeldTagged'
  BY <1>2, <1>3 DEF HeldTagged
<1> QED
  BY <1>4, <1>5, <1>6

\* Writing a buffer to its sector disturbs no other buffer.
LEMMA WriteBackCoherent ==
  ASSUME Inv, NEW b \in Held,
         UNCHANGED <<buf_sectors, buffer>>,
         dirty_mask' = dirty_mask \ {b},
         disk' = [disk EXCEPT ![buf_sectors[b]] = buffer[b]]
  PROVE  /\ disk' \in [Sectors -> Values]
         /\ \A c \in Bufs \ dirty_mask' :
              buf_sectors'[c] # NoSector => buffer'[c] = disk'[buf_sectors'[c]]
<1> USE DEF Inv, CacheTypeOK
<1>1. b \in Bufs
  BY HeldBufs
<1>2. disk' \in [Sectors -> Values]
  BY <1>1
<1>3. ASSUME NEW c \in Bufs \ dirty_mask', buf_sectors[c] # NoSector
      PROVE  buffer[c] = disk'[buf_sectors[c]]
  <2>1. buf_sectors[c] \in Sectors
    BY <1>3
  <2>2. CASE c = b
    BY <2>1, <2>2
  <2>3. CASE c # b
    <3>1. buf_sectors[c] # buf_sectors[b]
      BY <1>1, <2>1, <2>3 DEF Coherent
    <3> QED
      BY <1>3, <2>1, <2>3, <3>1 DEF Coherent
  <2> QED
    BY <2>2, <2>3
<1> QED
  BY <1>2, <1>3

LEMMA FlushInv ==
  ASSUME Inv, NEW b \in Held, Flush(b)
  PROVE  Inv'
<1>1. Held' = Held
  BY DEF Flush, Held
<1>2. /\ UNCHANGED <<buf_sectors, buffer, free_mask, held>>
      /\ dirty_mask' = dirty_mask \ {b}
      /\ disk' = [disk EXCEPT ![buf_sectors[b]] = buffer[b]]
  BY DEF Flush
<1>3. /\ disk' \in [Sectors -> Values]
      /\ \A c \in Bufs \ dirty_mask' :
           buf_sectors'[c] # NoSector => buffer'[c] = disk'[buf_sectors'[c]]
  BY <1>2, WriteBackCoherent
<1>4. CacheTypeOK' /\ FreeMaskExact' /\ HeldTagged'
  BY <1>1, <1>2, <1>3 DEF Inv, CacheTypeOK, FreeMaskExact, HeldTagged
<1>5. Coherent'
  BY <1>1, <1>2, <1>3 DEF Inv, Coherent
<1> QED
  BY <1>4, <1>5 DEF Inv

\* The destructor: toggling the bit of a held buffer sets it.
LEMMA ReleaseInv ==
  ASSUME Inv, Release
  PROVE  Inv'
<1> DEFINE b == Last(held)
<1>1. /\ held' \in Seq(Bufs) /\ b \in Held /\ Held' = Held \ {b}
      /\ \A i, j \in DOMAIN held' : i # j => held'[i] # held'[j]
  BY HeldAfterRelease DEF Release, Inv, CacheTypeOK, FreeMaskExact
<1>2. b \in Bufs
  BY <1>1, HeldBufs DEF Inv, CacheTypeOK
<1>3. free_mask' = Bufs \ Held'
  BY <1>1, <1>2 DEF Release, Inv, FreeMaskExact
<1>4. UNCHANGED <<buf_sectors, buffer>> /\ dirty_mask' = dirty_mask \ {b}
  BY DEF Release, WriteIfDirty
<1>5. /\ disk' \in [Sectors -> Values]
      /\ \A c \in Bufs \ dirty_mask' :
           buf_sectors'[c] # NoSector => buffer'[c] = disk'[buf_sectors'[c]]
  <2>1. CASE b \in dirty_mask
    BY <1>1, <1>4, <2>1, WriteBackCoherent DEF Release, WriteIfDirty
  <2>2. CASE b \notin dirty_mask
    BY <1>4, <2>2 DEF Release, WriteIfDirty, Inv, CacheTypeOK, Coherent
  <2> QED
    BY <2>1, <2>2
<1>6. CacheTypeOK' /\ FreeMaskExact'
  BY <1>1, <1>3, <1>4, <1>5 DEF Inv, CacheTypeOK, FreeMaskExact
<1>7. Coherent' /\ HeldTagged'
  BY <1>1, <1>4, <1>5 DEF Inv, Coherent, HeldTagged
<1> QED
  BY <1>6, <1>7 DEF Inv

LEMMA WritePastInv ==
  ASSUME Inv, NEW s \in Sectors, NEW v \in Values, WithSector(s) = {}, WritePast(s, v)
  PROVE  Inv'
<1>1. Held' = Held
  BY DEF WritePast, Held
<1>2. \A b \in Bufs : buf_sectors[b] # s
  BY DEF WithSector
<1> QED
  BY <1>1, <1>2 DEF Inv, CacheTypeOK, FreeMaskExact, Coherent, HeldTagged, WritePast

LEMMA CacheLostInv ==
  ASSUME Inv, CacheLost
  PROVE  Inv'
<1>1. Held' = {} /\ held' \in Seq(Bufs) /\ DOMAIN held' = {}
  BY EmptySeq DEF CacheLost, Held
<1> QED
  BY <1>1, ZerosAssumption, NoSectorAssumption
     DEF CacheLost, Inv, CacheTypeOK, FreeMaskExact, Coherent, HeldTagged, Bufs

LEMMA ClientInv == Inv /\ [Client]_cacheVars => Inv'
<1> SUFFICES ASSUME Inv, [Client]_cacheVars PROVE Inv'
  OBVIOUS
<1>1. ASSUME NEW s \in Sectors, s \notin Users, ReadBufSector(s)
      PROVE  Inv'
  BY <1>1, ReadInv
<1>2. ASSUME NEW b \in Held, NEW v \in Values, Store(b, v)
      PROVE  Inv'
  BY <1>2, StoreInv
<1>3. ASSUME NEW b \in Held \intersect dirty_mask, NEW v \in Values, StoreThroughPtr(b, v)
      PROVE  Inv'
  BY <1>3, StoreInv
<1>4. ASSUME NEW b \in Held, Flush(b)
      PROVE  Inv'
  BY <1>4, FlushInv
<1>5. ASSUME NEW s \in Sectors, NEW v \in Values, WithSector(s) = {}, WritePast(s, v)
      PROVE  Inv'
  BY <1>5, WritePastInv
<1>6. CASE UNCHANGED cacheVars
  <2>1. Held' = Held
    BY <1>6 DEF cacheVars, Held
  <2> QED
    BY <1>6, <2>1 DEF cacheVars, Inv, CacheTypeOK, FreeMaskExact, Coherent, HeldTagged
<1> QED
  BY <1>1, <1>2, <1>3, <1>4, <1>5, <1>6, ReleaseInv, CacheLostInv DEF Client

-----------------------------------------------------------------------------
\* The invariant of the cache, and its three parts.
THEOREM Invariant == CacheSpec => []Inv
<1>1. ClientInit => Inv
  BY EmptyCacheInv DEF ClientInit
<1> QED
  BY <1>1, ClientInv, PTL DEF CacheSpec

\* The state keeps its types: no index leaves the arrays.
THEOREM TypeCorrect == CacheSpec => []CacheTypeOK
<1>1. Inv => CacheTypeOK
  BY DEF Inv
<1> QED
  BY <1>1, Invariant, PTL

\* grab clears a bit and release toggles it; the free mask stays exact.
THEOREM FreeMaskIsExact == CacheSpec => []FreeMaskExact
<1>1. Inv => FreeMaskExact
  BY DEF Inv
<1> QED
  BY <1>1, Invariant, PTL

\* Evicting a free buffer, whatever it held, loses nothing.
THEOREM CacheIsCoherent == CacheSpec => []Coherent
<1>1. Inv => Coherent
  BY DEF Inv
<1> QED
  BY <1>1, Invariant, PTL

-----------------------------------------------------------------------------
\* What a reader sees: the sector's buffer if it has one, else the disk.
SeenFacts ==
  /\ Seen \in [Sectors -> Values]
  /\ \A s \in Sectors, b \in Bufs : buf_sectors[b] = s => Seen[s] = buffer[b]
  /\ \A s \in Sectors : (\A b \in Bufs : buf_sectors[b] # s) => Seen[s] = disk[s]

LEMMA SeenIs == Inv => SeenFacts
<1> SUFFICES ASSUME Inv PROVE SeenFacts
  OBVIOUS
<1> USE DEF Inv, CacheTypeOK
<1>1. ASSUME NEW s \in Sectors, WithSector(s) # {}
      PROVE  Min(WithSector(s)) \in Bufs /\ buf_sectors[Min(WithSector(s))] = s
  <2>1. WithSector(s) \in SUBSET Bufs
    BY DEF WithSector
  <2>2. Min(WithSector(s)) \in WithSector(s)
    BY <1>1, <2>1, MinIsMember
  <2> QED
    BY <2>2 DEF WithSector
<1>2. Seen \in [Sectors -> Values]
  BY <1>1 DEF Seen
<1>3. ASSUME NEW s \in Sectors, NEW b \in Bufs, buf_sectors[b] = s
      PROVE  Seen[s] = buffer[b]
  <2>1. b \in WithSector(s)
    BY <1>3 DEF WithSector
  <2>2. Min(WithSector(s)) = b
    BY <1>1, <1>3, <2>1 DEF Coherent
  <2> QED
    BY <2>1, <2>2 DEF Seen
<1>4. ASSUME NEW s \in Sectors, \A b \in Bufs : buf_sectors[b] # s
      PROVE  Seen[s] = disk[s]
  BY <1>4 DEF Seen, WithSector
<1> QED
  BY <1>2, <1>3, <1>4 DEF SeenFacts

LEMMA SeenIsNext == Inv' => SeenFacts'
BY SeenIs, PTL

\* Every operation of the cache is one of the sector store.
LEMMA AcquireStep ==
  ASSUME Inv, Inv', NEW s \in Sectors, ReadBufSector(s), s \notin Users
  PROVE  SeenStore!Acquire(s)
<1>1. PICK b \in Bufs \ Held :
        /\ Grab(s, b)
        /\ \A c \in Bufs \ {b} : buf_sectors[c] # s
        /\ buffer' = [buffer EXCEPT ![b] = disk[s]]
        /\ UNCHANGED <<dirty_mask, disk>>
  BY ReadGrabs
<1>2. /\ buf_sectors' = [buf_sectors EXCEPT ![b] = s]
      /\ buf_sectors \in [Bufs -> Sectors \union {NoSector}] /\ buffer \in [Bufs -> Values]
      /\ held \in Seq(Bufs)
  BY <1>1 DEF Grab, Inv, CacheTypeOK
<1>3. Users' = Users \union {s}
  <2>1. Held' = Held \union {b} /\ Held \subseteq Bufs
    BY <1>1, <1>2, HeldAfterGrab, HeldBufs DEF Grab
  <2>2. buf_sectors'[b] = s /\ \A c \in Held : buf_sectors'[c] = buf_sectors[c]
    BY <1>1, <1>2, <2>1
  <2> QED
    BY <2>1, <2>2 DEF Users
<1>4. ASSUME NEW t \in Sectors PROVE Seen'[t] = Seen[t]
  <2>1. SeenFacts /\ SeenFacts'
    BY SeenIs, SeenIsNext
  <2>2. CASE t = s
    <3>1. Seen'[t] = disk[s]
      BY <1>1, <1>2, <2>1, <2>2 DEF SeenFacts
    <3>2. CASE buf_sectors[b] = s
      BY <1>1, <2>1, <2>2, <3>1, <3>2, NoSectorAssumption DEF SeenFacts, Inv, Coherent
    <3>3. CASE buf_sectors[b] # s
      BY <1>1, <2>1, <2>2, <3>1, <3>3 DEF SeenFacts
    <3> QED
      BY <3>2, <3>3
  <2>3. CASE t # s /\ buf_sectors[b] = t
    <3>1. Seen[t] = disk[t]
      BY <1>1, <2>1, <2>3, NoSectorAssumption DEF SeenFacts, Inv, Coherent
    <3>2. ASSUME NEW c \in Bufs PROVE buf_sectors'[c] # t
      BY <1>1, <1>2, <2>3 DEF Inv, Coherent
    <3> QED
      BY <1>1, <2>1, <3>1, <3>2 DEF SeenFacts
  <2>4. CASE t # s /\ buf_sectors[b] # t
    <3>1. \A c \in Bufs : buf_sectors'[c] = t => c # b /\ buf_sectors[c] = t
      BY <1>2, <2>4
    <3>2. \A c \in Bufs : buf_sectors[c] = t =>
            c # b /\ buf_sectors'[c] = t /\ buffer'[c] = buffer[c]
      BY <1>1, <1>2, <2>4
    <3>3. CASE \E c \in Bufs : buf_sectors[c] = t
      BY <2>1, <3>2, <3>3 DEF SeenFacts
    <3>4. CASE \A c \in Bufs : buf_sectors[c] # t
      BY <1>1, <2>1, <3>1, <3>4 DEF SeenFacts
    <3> QED
      BY <3>3, <3>4
  <2> QED
    BY <2>2, <2>3, <2>4
<1>5. Seen' = Seen
  <2>1. Seen \in [Sectors -> Values] /\ Seen' \in [Sectors -> Values]
    BY SeenIs, SeenIsNext DEF SeenFacts
  <2> QED
    BY <1>4, <2>1
<1> QED
  BY <1>1, <1>3, <1>5 DEF SeenStore!Acquire

\* Two states with the same tags, of which one sector's buffer differs.
LEMMA StoreStep ==
  ASSUME Inv, Inv', NEW b \in Held, NEW v \in Values,
         Store(b, v) \/ StoreThroughPtr(b, v)
  PROVE  SeenStore!Write(buf_sectors[b], v)
<1> DEFINE s == buf_sectors[b]
<1>1. /\ UNCHANGED <<buf_sectors, disk, held>> /\ buffer' = [buffer EXCEPT ![b] = v]
  BY DEF Store, StoreThroughPtr
<1>2. b \in Bufs /\ s \in Sectors /\ s \in Users /\ Users' = Users
  BY <1>1, HeldBufs DEF Users, Held, Inv, CacheTypeOK, HeldTagged
<1>3. SeenFacts /\ SeenFacts' /\ buffer \in [Bufs -> Values]
  BY SeenIs, SeenIsNext DEF Inv, CacheTypeOK
<1>4. ASSUME NEW t \in Sectors PROVE Seen'[t] = IF t = s THEN v ELSE Seen[t]
  <2>1. CASE t = s
    BY <1>1, <1>2, <1>3, <2>1 DEF SeenFacts
  <2>2. CASE t # s /\ \E c \in Bufs : buf_sectors[c] = t
    <3>1. PICK c \in Bufs : buf_sectors[c] = t
      BY <2>2
    <3>2. buffer'[c] = buffer[c]
      BY <1>1, <1>2, <1>3, <2>2, <3>1
    <3> QED
      BY <1>1, <1>3, <2>2, <3>1, <3>2 DEF SeenFacts
  <2>3. CASE t # s /\ \A c \in Bufs : buf_sectors[c] # t
    BY <1>1, <1>3, <2>3 DEF SeenFacts
  <2> QED
    BY <2>1, <2>2, <2>3
<1>5. Seen' = [Seen EXCEPT ![s] = v]
  BY <1>3, <1>4 DEF SeenFacts
<1> QED
  BY <1>1, <1>2, <1>5 DEF SeenStore!Write

\* Writing a used buffer to the disk changes what is stable, not what is seen.
LEMMA WrittenBack ==
  ASSUME Inv, Inv', NEW b \in Held, UNCHANGED <<buf_sectors, buffer>>,
         disk' = [disk EXCEPT ![buf_sectors[b]] = buffer[b]]
  PROVE  /\ disk' = [disk EXCEPT ![buf_sectors[b]] = Seen[buf_sectors[b]]]
         /\ Seen' = Seen
<1> DEFINE s == buf_sectors[b]
<1>1. b \in Bufs /\ s \in Sectors
  BY HeldBufs DEF Inv, CacheTypeOK, HeldTagged
<1>2. SeenFacts /\ SeenFacts' /\ disk \in [Sectors -> Values]
  BY SeenIs, SeenIsNext DEF Inv, CacheTypeOK
<1>3. Seen[s] = buffer[b]
  BY <1>1, <1>2 DEF SeenFacts
<1>4. ASSUME NEW t \in Sectors PROVE Seen'[t] = Seen[t]
  <2>1. CASE \E c \in Bufs : buf_sectors[c] = t
    BY <1>2, <2>1 DEF SeenFacts
  <2>2. CASE \A c \in Bufs : buf_sectors[c] # t
    <3>1. disk'[t] = disk[t]
      BY <1>1, <1>2, <2>2
    <3> QED
      BY <1>2, <2>2, <3>1 DEF SeenFacts
  <2> QED
    BY <2>1, <2>2
<1> QED
  BY <1>2, <1>3, <1>4 DEF SeenFacts

LEMMA FlushStep ==
  ASSUME Inv, Inv', NEW b \in Held, Flush(b)
  PROVE  SeenStore!WriteBack(buf_sectors[b])
<1>1. Users' = Users /\ buf_sectors[b] \in Users
  BY DEF Flush, Users, Held
<1> QED
  BY <1>1, WrittenBack DEF Flush, SeenStore!WriteBack

LEMMA ReleaseStep ==
  ASSUME Inv, Inv', Release
  PROVE  SeenStore!Drop(buf_sectors[Last(held)])
<1> DEFINE b == Last(held)
           s == buf_sectors[b]
<1>1. b \in Held /\ Held' = Held \ {b} /\ Held \subseteq Bufs
  BY HeldAfterRelease, HeldBufs DEF Release, Inv, CacheTypeOK, FreeMaskExact
<1>2. UNCHANGED <<buf_sectors, buffer>> /\ s \in Sectors
  BY <1>1 DEF Release, Inv, HeldTagged
<1>3. s \in Users /\ Users' = Users \ {s}
  <2>1. \A c \in Held : buf_sectors[c] = s => c = b
    BY <1>1, <1>2 DEF Inv, Coherent
  <2> QED
    BY <1>1, <1>2, <2>1 DEF Users
<1>4. disk' = [disk EXCEPT ![s] = buffer[b]]
  <2>1. CASE b \in dirty_mask
    BY <2>1 DEF Release, WriteIfDirty
  <2>2. CASE b \notin dirty_mask
    <3>1. disk' = disk /\ disk \in [Sectors -> Values]
      BY <2>2 DEF Release, WriteIfDirty, Inv, CacheTypeOK
    <3>2. buffer[b] = disk[s]
      BY <1>1, <1>2, <2>2, NoSectorAssumption DEF Inv, Coherent
    <3> QED
      BY <1>2, <3>1, <3>2
  <2> QED
    BY <2>1, <2>2
<1> QED
  BY <1>1, <1>2, <1>3, <1>4, WrittenBack DEF SeenStore!Drop

LEMMA WritePastStep ==
  ASSUME Inv, Inv', NEW s \in Sectors, NEW v \in Values, WithSector(s) = {}, WritePast(s, v)
  PROVE  SeenStore!WritePast(s, v)
<1>1. UNCHANGED <<buf_sectors, buffer, held>> /\ disk' = [disk EXCEPT ![s] = v]
  BY DEF WritePast
<1>2. \A c \in Bufs : buf_sectors[c] # s
  BY DEF WithSector
<1>3. Users' = Users /\ s \notin Users
  BY <1>1, <1>2, HeldBufs DEF Users, Held, Inv, CacheTypeOK
<1>4. SeenFacts /\ SeenFacts' /\ disk \in [Sectors -> Values]
  BY SeenIs, SeenIsNext DEF Inv, CacheTypeOK
<1>5. ASSUME NEW t \in Sectors PROVE Seen'[t] = IF t = s THEN v ELSE Seen[t]
  <2>1. CASE \E c \in Bufs : buf_sectors[c] = t
    BY <1>1, <1>2, <1>4, <2>1 DEF SeenFacts
  <2>2. CASE \A c \in Bufs : buf_sectors[c] # t
    BY <1>1, <1>4, <2>2 DEF SeenFacts
  <2> QED
    BY <2>1, <2>2
<1>6. Seen' = [Seen EXCEPT ![s] = v]
  BY <1>4, <1>5 DEF SeenFacts
<1> QED
  BY <1>1, <1>3, <1>6 DEF SeenStore!WritePast

LEMMA CacheLostStep ==
  ASSUME Inv, Inv', CacheLost
  PROVE  SeenStore!PowerLoss
<1>1. disk' = disk /\ Users' = {}
  BY DEF CacheLost, Users, Held
<1>2. \A s \in Sectors, b \in Bufs : buf_sectors'[b] # s
  BY NoSectorAssumption DEF CacheLost
<1>3. SeenFacts' /\ disk' \in [Sectors -> Values]
  BY SeenIsNext DEF Inv, CacheTypeOK
<1>4. Seen' = disk
  BY <1>1, <1>2, <1>3 DEF SeenFacts
<1> QED
  BY <1>1, <1>4 DEF SeenStore!PowerLoss

LEMMA ClientStep == Inv /\ Inv' /\ [Client]_cacheVars => [SeenStore!Next]_(SeenStore!vars)
<1> SUFFICES ASSUME Inv, Inv', [Client]_cacheVars PROVE [SeenStore!Next]_(SeenStore!vars)
  OBVIOUS
<1> USE DEF SeenStore!Next
<1>1. ASSUME NEW s \in Sectors, s \notin Users, ReadBufSector(s)
      PROVE  SeenStore!Next
  BY <1>1, AcquireStep
<1>2. ASSUME NEW b \in Held, NEW v \in Values, Store(b, v) \/ StoreThroughPtr(b, v)
      PROVE  SeenStore!Next
  BY <1>2, StoreStep DEF Inv, HeldTagged
<1>3. ASSUME NEW b \in Held, Flush(b)
      PROVE  SeenStore!Next
  BY <1>3, FlushStep DEF Inv, HeldTagged
<1>4. ASSUME Release
      PROVE  SeenStore!Next
  <2>1. Last(held) \in Held
    BY <1>4, HeldAfterRelease DEF Release, Inv, CacheTypeOK, FreeMaskExact
  <2> QED
    BY <1>4, <2>1, ReleaseStep DEF Inv, HeldTagged
<1>5. ASSUME NEW s \in Sectors, NEW v \in Values, WithSector(s) = {}, WritePast(s, v)
      PROVE  SeenStore!Next
  BY <1>5, WritePastStep
<1>6. CASE CacheLost
  BY <1>6, CacheLostStep
<1>7. CASE UNCHANGED cacheVars
  BY <1>7 DEF cacheVars, SeenStore!vars, Seen, Users, Held, WithSector
<1> QED
  BY <1>1, <1>2, <1>3, <1>4, <1>5, <1>6, <1>7 DEF Client

\* The cache implements the sector store: what a client stored is seen until
\* overwritten, through any eviction, and reaches the disk unchanged.
THEOREM StoreImplemented == CacheSpec => ImplementsStore
<1>1. ClientInit => SeenStore!Init
  <2> SUFFICES ASSUME CacheInit, disk \in [Sectors -> Values] PROVE SeenStore!Init
    BY DEF ClientInit
  <2>1. \A s \in Sectors, b \in Bufs : buf_sectors[b] # s
    BY NoSectorAssumption DEF CacheInit
  <2>2. Users = {}
    BY DEF CacheInit, Users, Held
  <2>3. Seen = disk
    BY <2>1, EmptyCacheInv, SeenIs DEF SeenFacts
  <2> QED
    BY <2>2, <2>3 DEF SeenStore!Init
<1> QED
  BY <1>1, ClientStep, Invariant, PTL DEF CacheSpec, ImplementsStore, SeenStore!Spec
=============================================================================
