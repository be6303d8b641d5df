---------------------------- MODULE Boot_proofs ----------------------------
(***************************************************************************)
(* Proofs about Boot, for every machine, every memory and every number of  *)
(* buses, slots, functions, ports and pages. The inductive invariant has a *)
(* part for each concern: where the walk is, what the tables hold, whose   *)
(* memory the port uses, who handles an interrupt, how far the port's      *)
(* start has come, and which controllers find() has passed.                *)
(***************************************************************************)
EXTENDS Boot, FiniteSetTheorems, TLAPS

\* The walk stands on an address, and has looked at the controller it stays at.
WalkInv ==
  /\ pc \in {"paging", "interrupts", "probe", "ports"} => addr \in bus_slot_addr
  /\ pc = "ports" => IsHba(addr) /\ Target(addr) \in probed
  /\ WalkComplete

\* A table belongs to one entry of the directory, and is not free.
TablesInv ==
  /\ pc = "paging" => ~paging
  /\ pc \in {"interrupts", "probe", "ports"} => paging
  /\ ~paging =>
       /\ \A d \in 0..DirEntries - 1 : dir[d] = NoPage
       /\ tables[starter_pt] = EmptyTable /\ tables[io_pt] = EmptyTable
       /\ mapped = {}
  /\ \A d, e \in 0..DirEntries - 1 : dir[d] # NoPage /\ dir[d] = dir[e] => d = e
  /\ \A d \in 0..DirEntries - 1 : dir[d] \notin free_pages
  /\ MapIsExact

\* A command of firmware's is under way while the command engine runs, which
\* has stopped when the port is given the AHCIState's addresses; no transfer is
\* counted before that.
DmaInv ==
  /\ dmaBase \in [low : {"firmware", "kernel"}, high : {"zero", "firmware"}]
  /\ pc \in {"paging", "interrupts", "probe", "ports", "stop", "stopping"} => ~given
  /\ pc \in {"receive", "ready", "interface", "issue", "await"} => given
  /\ pc \in {"paging", "interrupts", "probe", "ports"} => inherited = {}
  /\ ~given => ~wild
  /\ given => inherited = {} /\ dmaBase.low = "kernel"
  /\ inherited # {} => commandRunning
  /\ DmaInState

\* Interrupts are enabled by firmware, or when there is a disk.
HandlerInv ==
  /\ pc \in {"enable", "superblock"} => sata_disk0
  /\ "InterruptEnable" \in global_hba_control => handedOver \/ sata_disk0
  /\ InterruptsHaveHandler

\* What the constructor has waited for stays so.
PortInv ==
  /\ pc \in {"ready", "interface"} => rfisEnable
  /\ pc = "interface" => ~busy /\ link = "up"
  /\ pc = "await" => meta < MetaCommands

\* The steps at which the constructor of AHCIState stands.
Building == {"stop", "stopping", "receive", "ready", "interface", "issue", "await", "found"}

NoneBefore == \A a \in Functions : Before(a, addr) => ~Usable(a)

FirstOfFirst ==
  /\ slot \in Hba(addr).devices \intersect Hba(addr).ports
  /\ \A p \in Hba(addr).devices \intersect Hba(addr).ports : slot <= p
  /\ NoneBefore

\* The loop over the ports starts at the first, or behind the last once a
\* controller without a disk has been passed: then no port is looked at. While it
\* starts at the first, no controller has been passed at all.
FindInv ==
  /\ \A a \in probed : Target(a) = a
  /\ pc \in {"paging", "interrupts"} => probed = {} /\ slot = 0
  /\ pc \in {"probe", "ports", "no disk"} =>
       slot \in {0, PortLimit} /\ (slot # 0 => \E b \in probed : Without(b))
  /\ pc \in {"probe", "no disk"} /\ (\E a \in probed : Usable(a)) =>
       slot = PortLimit /\ \E b \in probed : Without(b)
  /\ pc = "ports" =>
       Usable(addr) /\ Hba(addr).bar \in mapped /\ (slot # PortLimit => NoneBefore)
  /\ sata_disk0 => pc \notin {"paging", "interrupts", "probe", "ports"}
  /\ pc \in Building \/ sata_disk0 => FirstOfFirst
  /\ FindsFirstDisk

IInv == TypeOK /\ WalkInv /\ TablesInv /\ DmaInv /\ HandlerInv /\ PortInv /\ FindInv

-----------------------------------------------------------------------------
\* The addresses.

LEMMA SlotInByte ==
  ASSUME NEW x \in Nat
  PROVE  x % SlotValues \in 0..SlotValues - 1
<1>1. SlotValues \in Nat \ {0}
  BY ScanAssumption DEF SlotValues
<1> QED BY <1>1

LEMMA NextSlotType ==
  ASSUME NEW a \in bus_slot_addr
  PROVE  /\ NextSlot(a) \in [bus : 0..MAX_BUSES, slot : 0..SlotValues - 1, func : 0..MAX_FUNCS - 1]
         /\ NextSlot(a).bus = a.bus + 1 => NextSlot(a).slot = 0
<1> DEFINE slot_ == (a.slot + 1) % SlotValues
<1>1. slot_ \in 0..SlotValues - 1
  BY SlotInByte DEF bus_slot_addr
<1>2. SlotValues \in Nat \ {0}
  BY ScanAssumption DEF SlotValues
<1> QED BY <1>1, <1>2, ScanAssumption DEF NextSlot, bus_slot_addr

LEMMA NextFunctionType ==
  ASSUME NEW a \in bus_slot_addr
  PROVE  NextFunction(a) \in bus_slot_addr
<1> DEFINE slot_ == (a.slot + 1) % SlotValues
<1>1. slot_ \in 0..SlotValues - 1
  BY SlotInByte DEF bus_slot_addr
<1> QED BY <1>1, ScanAssumption DEF NextFunction, bus_slot_addr

LEMMA NextAddrType ==
  ASSUME NEW a \in bus_slot_addr, NEW multi \in BOOLEAN
  PROVE  NextAddr(a, multi) \in bus_slot_addr \union {None}
<1>1. CASE SkipsFunctions(a, multi)
  BY <1>1, NextSlotType, ScanAssumption DEF NextAddr, bus_slot_addr
<1>2. CASE ~SkipsFunctions(a, multi)
  BY <1>2, NextFunctionType, ScanAssumption DEF NextAddr, bus_slot_addr
<1> QED BY <1>1, <1>2

\* There is an address after every one, and none of bus_slot_addr is None.
LEMMA NoneIsNoAddress == None \notin bus_slot_addr
BY ScanAssumption DEF None, bus_slot_addr

LEMMA OrType ==
  ASSUME NEW x \in Nat, NEW y \in Nat
  PROVE  Or(x, y) \in Nat
BY DEF Or

LEMMA DivMod ==
  ASSUME NEW x \in Nat, NEW y \in Nat \ {0}
  PROVE  x \div y \in Nat /\ x % y \in Nat
OBVIOUS

LEMMA TargetType ==
  ASSUME NEW a \in bus_slot_addr
  PROVE  Target(a) \in [bus : Nat, slot : Nat, func : Nat]
<1>1. CASE a.slot < MAX_SLOTS
  BY <1>1, ScanAssumption DEF Target, bus_slot_addr, SlotValues
<1>2. CASE a.slot >= MAX_SLOTS
  <2>1. a.slot \in Nat /\ MAX_SLOTS \in Nat \ {0} /\ a.bus \in Nat /\ a.func \in Nat
    <3>1. /\ a.slot \in 0..8 * MAX_SLOTS - 1 /\ a.bus \in 0..MAX_BUSES - 1
          /\ a.func \in 0..MAX_FUNCS - 1
      BY DEF bus_slot_addr, SlotValues
    <3> QED BY <3>1, ScanAssumption
  <2>2. a.slot \div MAX_SLOTS \in Nat /\ a.slot % MAX_SLOTS \in Nat
    BY <2>1, DivMod
  <2>3. Or(a.bus, a.slot \div MAX_SLOTS) \in Nat
    BY <2>1, <2>2, OrType
  <2>4. Target(a) = [bus  |-> Or(a.bus, a.slot \div MAX_SLOTS),
                     slot |-> a.slot % MAX_SLOTS, func |-> a.func]
    BY <1>2, <2>1 DEF Target
  <2> HIDE DEF Or
  <2> QED BY <2>1, <2>2, <2>3, <2>4
<1>3. a.slot \in Int /\ MAX_SLOTS \in Int
  BY ScanAssumption DEF bus_slot_addr, SlotValues
<1> QED BY <1>1, <1>2, <1>3

\* A slot is counted on until it no longer fits its byte.
LEMMA SlotCounts ==
  ASSUME NEW a \in bus_slot_addr
  PROVE  (a.slot + 1) % SlotValues = IF a.slot + 1 = SlotValues THEN 0 ELSE a.slot + 1
<1>1. SlotValues \in Nat \ {0} /\ a.slot \in 0..SlotValues - 1
  BY ScanAssumption DEF SlotValues, bus_slot_addr
<1> QED BY <1>1

\* What may be present, of a machine the code may find.
LEMMA PresentFunctions ==
  ASSUME machine \in Machines, NEW a \in machine.present
  PROVE  /\ a \in [bus : 0..MAX_BUSES - 1, slot : 0..MAX_SLOTS - 1, func : 0..MAX_FUNCS - 1]
         /\ a.func # 0 => [bus |-> a.bus, slot |-> a.slot, func |-> 0] \in machine.multi
<1>1. a \in bus_slot_addr /\ a.slot < MAX_SLOTS
  BY MachinesAssumption DEF IsMachine, Functions
<1>2. a.func # 0 => [a EXCEPT !.func = 0] \in machine.multi
  BY MachinesAssumption DEF IsMachine
<1>3. [a EXCEPT !.func = 0] = [bus |-> a.bus, slot |-> a.slot, func |-> 0]
  BY <1>1 DEF bus_slot_addr
<1>4. a.slot \in 0..MAX_SLOTS - 1
  BY <1>1, ScanAssumption DEF bus_slot_addr, SlotValues
<1> QED BY <1>1, <1>2, <1>3, <1>4 DEF bus_slot_addr

\* Between an address and the next one, nothing is present: the functions that
\* are skipped do not answer, and the slots that do not exist come after all
\* those of the bus that do.
LEMMA NothingSkipped ==
  ASSUME machine \in Machines, addr \in bus_slot_addr,
         NEW a \in machine.present, Before(a, NextAddr(addr, Multi(addr)))
  PROVE  Before(a, addr) \/ a = Target(addr)
<1> DEFINE next == IF SkipsFunctions(addr, Multi(addr)) THEN NextSlot(addr)
                   ELSE NextFunction(addr)
<1>1. /\ a = [bus |-> a.bus, slot |-> a.slot, func |-> a.func]
      /\ a.bus \in 0..MAX_BUSES - 1 /\ a.slot \in 0..MAX_SLOTS - 1
      /\ a.func \in 0..MAX_FUNCS - 1
  BY PresentFunctions
<1>2. /\ addr = [bus |-> addr.bus, slot |-> addr.slot, func |-> addr.func]
      /\ addr.bus \in 0..MAX_BUSES - 1 /\ addr.slot \in Nat
      /\ addr.func \in 0..MAX_FUNCS - 1
  BY ScanAssumption DEF bus_slot_addr, SlotValues
<1>3. next.bus >= MAX_BUSES \/ Before(a, next)
  BY DEF NextAddr
<1>4. addr.slot < MAX_SLOTS => Target(addr) = addr
  BY DEF Target
<1>5. (addr.slot + 1) % SlotValues \in {0, addr.slot + 1}
  BY SlotCounts
<1>6. CASE SkipsFunctions(addr, Multi(addr))
  <2>1. addr.func = 0 /\ Target(addr) \notin machine.multi
    BY <1>6 DEF SkipsFunctions, Multi
  <2>2. a.bus < addr.bus \/ (a.bus = addr.bus /\ a.slot <= addr.slot)
    <3> DEFINE slot_ == (addr.slot + 1) % SlotValues
    <3>1. /\ next.bus  = IF slot_ >= MAX_SLOTS THEN addr.bus + 1 ELSE addr.bus
          /\ next.slot = IF slot_ >= MAX_SLOTS THEN 0 ELSE slot_
          /\ next.func = 0
      BY <1>6, <2>1 DEF NextSlot
    <3>2. next.bus >= MAX_BUSES \/ a.bus < next.bus
            \/ (a.bus = next.bus /\ a.slot < next.slot)
      BY <1>1, <1>3, <3>1 DEF Before
    <3>3. slot_ = 0 \/ slot_ = addr.slot + 1
      BY <1>5
    <3> HIDE DEF slot_, next
    <3> QED BY <1>1, <1>2, <3>1, <3>2, <3>3, ScanAssumption
  <2>3. CASE a.bus = addr.bus /\ a.slot = addr.slot
    <3>1. Target(addr) = addr
      BY <1>1, <1>2, <1>4, <2>3, ScanAssumption
    <3>2. a.func = 0
      BY <1>1, <1>2, <2>1, <2>3, <3>1, PresentFunctions
    <3> QED BY <1>1, <1>2, <2>1, <2>3, <3>1, <3>2
  <2> QED BY <1>1, <1>2, <2>2, <2>3, ScanAssumption DEF Before
<1>7. CASE ~SkipsFunctions(addr, Multi(addr))
  <2>1. CASE addr.slot >= MAX_SLOTS
    BY <1>1, <1>2, <1>3, <1>5, <1>7, <2>1, ScanAssumption DEF NextFunction, Before
  <2>2. CASE addr.slot < MAX_SLOTS
    <3>1. Before(a, addr) \/ (a.bus = addr.bus /\ a.slot = addr.slot /\ a.func = addr.func)
      <4> DEFINE slot_ == (addr.slot + 1) % SlotValues
      <4>1. /\ next.bus  = addr.bus
            /\ next.slot = IF addr.func + 1 >= MAX_FUNCS THEN slot_ ELSE addr.slot
            /\ next.func = IF addr.func + 1 >= MAX_FUNCS THEN 0 ELSE addr.func + 1
        BY <1>7 DEF NextFunction
      <4>2. slot_ = 0 \/ slot_ = addr.slot + 1
        BY <1>5
      <4>3. Before(a, next)
        BY <1>2, <1>3, <4>1, ScanAssumption
      <4> HIDE DEF slot_, next
      <4> QED BY <1>1, <1>2, <4>1, <4>2, <4>3, ScanAssumption DEF Before
    <3> QED BY <1>1, <1>2, <1>4, <2>2, <3>1
  <2> QED BY <1>2, <2>1, <2>2, ScanAssumption
<1> QED BY <1>6, <1>7

-----------------------------------------------------------------------------
\* The tables.

LEMMA PageIsPair ==
  ASSUME NEW p \in Pages
  PROVE  /\ p = <<p[1], p[2]>> /\ p # NoPage
         /\ p[1] \in 0..DirEntries - 1 /\ p[2] \in 0..TableEntries - 1
BY DEF Pages, NoPage

LEMMA TablesArePages ==
  /\ Tables \subseteq Pages /\ NoPage \notin Tables /\ Pool \subseteq Tables
  /\ starter_pt \in Tables \ Pool /\ io_pt \in Tables \ Pool
<1>1. Tables \subseteq Pages
  BY LayoutAssumption DEF KernelPages
<1>2. NoPage \notin Tables
  BY <1>1, PageIsPair
<1> QED BY <1>1, <1>2, LayoutAssumption DEF Tables

LEMMA TableTypes ==
  /\ EmptyTable \in TableType /\ IdentityTable \in TableType
  /\ \A i \in 0..TableEntries - 1 :
       /\ EmptyTable[i] = NoPage
       /\ IdentityTable[i] = IF i = 0 THEN NoPage ELSE <<0, i>>
<1>1. \A i \in 0..TableEntries - 1 : <<0, i>> \in Pages
  BY EntriesAssumption DEF Pages
<1> QED BY <1>1 DEF EmptyTable, IdentityTable, TableType

LEMMA MapInTableType ==
  ASSUME NEW table \in TableType, NEW va \in Pages, NEW pa \in Pages
  PROVE  /\ MapInTable(table, va, pa) \in TableType
         /\ \A i \in 0..TableEntries - 1 :
              MapInTable(table, va, pa)[i] = IF i = va[2] THEN pa ELSE table[i]
BY PageIsPair DEF MapInTable, TableType

\* The page that the allocator gives out is one of the free ones.
LEMMA KallocFree ==
  ASSUME free_pages # {}
  PROVE  Kalloc \in free_pages
BY DEF Kalloc

\* setup_pagedir() maps the pages of the kernel, and only these.
LEMMA SetupMapsKernel ==
  ASSUME TypeOK, TablesInv, pc = "paging", SetupPagedir, mapped' = mapped
  PROVE  /\ dir' \in [0..DirEntries - 1 -> Tables \union {NoPage}]
         /\ tables' \in [Tables -> TableType] /\ paging'
         /\ \A d, e \in 0..DirEntries - 1 :
              dir'[d] # NoPage /\ dir'[d] = dir'[e] => d = e
         /\ \A d \in 0..DirEntries - 1 : dir'[d] \notin free_pages'
         /\ MapIsExact'
<1>1. ~paging /\ mapped = {} /\ \A d \in 0..DirEntries - 1 : dir[d] = NoPage
  BY DEF TablesInv
<1>2. /\ 0 \in 0..DirEntries - 1 /\ IoEntry \in 0..DirEntries - 1 /\ IoEntry # 0
  BY EntriesAssumption, LayoutAssumption
<1>3. dir' = [d \in 0..DirEntries - 1 |->
                IF d = 0 THEN starter_pt ELSE IF d = IoEntry THEN io_pt ELSE NoPage]
  <2>1. AddPagetable(dir, 0, starter_pt) = [dir EXCEPT ![0] = starter_pt]
    BY <1>1, <1>2 DEF AddPagetable
  <2>2. [dir EXCEPT ![0] = starter_pt][IoEntry] = NoPage
    BY <1>1, <1>2 DEF TypeOK
  <2>3. dir' = [[dir EXCEPT ![0] = starter_pt] EXCEPT ![IoEntry] = io_pt]
    BY <2>1, <2>2 DEF SetupPagedir, AddPagetable
  <2> QED BY <1>1, <1>2, <2>3 DEF TypeOK
<1>4. tables' = [tables EXCEPT ![starter_pt] = IdentityTable] /\ paging'
      /\ free_pages' = free_pages
  BY DEF SetupPagedir
<1>5. tables'[starter_pt] = IdentityTable /\ tables'[io_pt] = EmptyTable
  BY <1>1, <1>4, TablesArePages, LayoutAssumption DEF TypeOK, TablesInv
<1>6. /\ dir' \in [0..DirEntries - 1 -> Tables \union {NoPage}]
      /\ \A d, e \in 0..DirEntries - 1 : dir'[d] # NoPage /\ dir'[d] = dir'[e] => d = e
  BY <1>2, <1>3, TablesArePages, LayoutAssumption
<1>7. \A d \in 0..DirEntries - 1 : dir'[d] \notin free_pages'
  BY <1>3, <1>4, TablesArePages DEF TypeOK
<1>8. tables' \in [Tables -> TableType]
  BY <1>4, TableTypes DEF TypeOK
<1>9. ASSUME NEW p \in Pages
      PROVE  Translate(p)' = IF p \in KernelPages \union mapped' THEN p ELSE NoPage
  <2>1. p = <<p[1], p[2]>> /\ p[1] \in 0..DirEntries - 1 /\ p[2] \in 0..TableEntries - 1
    BY PageIsPair
  <2>2. p \in KernelPages <=> p[1] = 0 /\ p[2] # 0
    BY <2>1 DEF KernelPages, Null
  <2>3. mapped' = {}
    BY <1>1
  <2>4. CASE p[1] = 0
    BY <1>2, <1>3, <1>5, <2>1, <2>2, <2>3, <2>4, TableTypes, TablesArePages DEF Translate
  <2>5. CASE p[1] = IoEntry
    BY <1>2, <1>3, <1>5, <2>1, <2>2, <2>3, <2>5, TableTypes, TablesArePages DEF Translate
  <2>6. CASE p[1] # 0 /\ p[1] # IoEntry
    BY <1>3, <2>1, <2>2, <2>3, <2>6 DEF Translate
  <2> QED BY <2>4, <2>5, <2>6
<1> QED BY <1>4, <1>6, <1>7, <1>8, <1>9 DEF MapIsExact

\* try_map() adds one page to those that are mapped, whatever the page that
\* becomes a table held: no other entry shares the table.
LEMMA TryMapAddsPage ==
  ASSUME TypeOK, TablesInv, paging, NEW bar \in Pages, bar # Null,
         TryMap(bar, bar), mapped' = mapped \union {bar}
  PROVE  /\ dir' \in [0..DirEntries - 1 -> Tables \union {NoPage}]
         /\ tables' \in [Tables -> TableType] /\ paging' = paging
         /\ free_pages' \subseteq Pool
         /\ \A d, e \in 0..DirEntries - 1 :
              dir'[d] # NoPage /\ dir'[d] = dir'[e] => d = e
         /\ \A d \in 0..DirEntries - 1 : dir'[d] \notin free_pages'
         /\ MapIsExact'
<1>1. bar = <<bar[1], bar[2]>> /\ bar[1] \in 0..DirEntries - 1
      /\ bar[2] \in 0..TableEntries - 1
  BY PageIsPair
<1>2. \A p \in Pages :
        Translate(p) = IF p \in KernelPages \union mapped THEN p ELSE NoPage
  BY DEF TablesInv, MapIsExact
<1>3. CASE dir[bar[1]] # NoPage
  <2> DEFINE t == dir[bar[1]]
  <2>1. t \in Tables /\ tables[t] \in TableType
    BY <1>1, <1>3 DEF TypeOK
  <2>2. /\ dir' = dir /\ free_pages' = free_pages /\ paging' = paging
        /\ tables' = [tables EXCEPT ![t] = MapInTable(tables[t], bar, bar)]
    BY <1>3 DEF TryMap
  <2>3. tables' \in [Tables -> TableType]
    BY <2>1, <2>2, MapInTableType DEF TypeOK
  <2>4. ASSUME NEW p \in Pages
        PROVE  Translate(p)' = IF p \in KernelPages \union mapped' THEN p ELSE NoPage
    <3>1. p = <<p[1], p[2]>> /\ p[1] \in 0..DirEntries - 1 /\ p[2] \in 0..TableEntries - 1
      BY PageIsPair
    <3>2. CASE p = bar
      BY <1>3, <2>1, <2>2, <3>1, <3>2, MapInTableType DEF Translate, TypeOK
    <3>3. CASE p # bar
      <4>1. p[1] # bar[1] => dir[p[1]] # t
        BY <1>1, <1>3, <3>1 DEF TablesInv
      <4>2. p[1] = bar[1] => p[2] # bar[2]
        BY <1>1, <3>1, <3>3
      <4>3. Translate(p)' = Translate(p)
        <5>1. CASE p[1] = bar[1]
          BY <1>3, <2>1, <2>2, <3>1, <4>2, <5>1, MapInTableType DEF Translate, TypeOK
        <5>2. CASE p[1] # bar[1]
          BY <2>2, <3>1, <4>1, <5>2 DEF Translate, TypeOK
        <5> QED BY <5>1, <5>2
      <4> QED BY <1>2, <3>3, <4>3
    <3> QED BY <3>2, <3>3
  <2> QED BY <2>2, <2>3, <2>4 DEF TypeOK, TablesInv, MapIsExact
<1>4. CASE dir[bar[1]] = NoPage
  <2> DEFINE t == Kalloc
  <2>1. t \in free_pages /\ t \in Tables
    BY <1>4, KallocFree, TablesArePages DEF TryMap, TypeOK
  <2>2. /\ dir' = [dir EXCEPT ![bar[1]] = t] /\ free_pages' = free_pages \ {t}
        /\ tables' = [tables EXCEPT ![t] = MapInTable(EmptyTable, bar, bar)]
        /\ paging' = paging
    BY <1>4 DEF TryMap, AddPagetable, FreshTable
  <2> HIDE DEF t
  <2>3. tables' \in [Tables -> TableType]
    BY <2>1, <2>2, MapInTableType, TableTypes DEF TypeOK
  <2>4. \A d \in 0..DirEntries - 1 : dir[d] # t
    BY <2>1 DEF TablesInv
  <2>5. dir' \in [0..DirEntries - 1 -> Tables \union {NoPage}]
    BY <1>1, <2>1, <2>2 DEF TypeOK
  <2>6. \A d \in 0..DirEntries - 1 : dir'[d] = IF d = bar[1] THEN t ELSE dir[d]
    BY <1>1, <2>2 DEF TypeOK
  <2>7. \A d, e \in 0..DirEntries - 1 : dir'[d] # NoPage /\ dir'[d] = dir'[e] => d = e
    BY <2>4, <2>6 DEF TablesInv
  <2>8. \A d \in 0..DirEntries - 1 : dir'[d] \notin free_pages'
    BY <2>2, <2>6 DEF TablesInv
  <2>9. ASSUME NEW p \in Pages
        PROVE  Translate(p)' = IF p \in KernelPages \union mapped' THEN p ELSE NoPage
    <3>1. p = <<p[1], p[2]>> /\ p[1] \in 0..DirEntries - 1 /\ p[2] \in 0..TableEntries - 1
      BY PageIsPair
    <3>2. t # NoPage /\ tables'[t] = MapInTable(EmptyTable, bar, bar)
      BY <2>1, <2>2, TablesArePages DEF TypeOK
    <3>3. CASE p[1] = bar[1]
      <4>1. Translate(p)' = IF p[2] = bar[2] THEN bar ELSE NoPage
        <5>1. dir'[p[1]] = t
          BY <2>6, <3>1, <3>3
        <5>2. Translate(p)' = tables'[t][p[2]]
          BY <3>2, <5>1 DEF Translate
        <5>3. MapInTable(EmptyTable, bar, bar)[p[2]] =
                IF p[2] = bar[2] THEN bar ELSE EmptyTable[p[2]]
          BY <3>1, MapInTableType, TableTypes, SMTT(30)
        <5>4. EmptyTable[p[2]] = NoPage
          BY <3>1, TableTypes
        <5> QED BY <3>2, <5>2, <5>3, <5>4
      <4>2. p[2] = bar[2] <=> p = bar
        BY <1>1, <3>1, <3>3
      <4>3. p \notin KernelPages \union mapped
        <5>1. Translate(p) = NoPage
          BY <1>4, <3>3 DEF Translate
        <5> QED BY <1>2, <5>1, PageIsPair
      <4> QED BY <4>1, <4>2, <4>3
    <3>4. CASE p[1] # bar[1]
      <4>1. Translate(p)' = Translate(p)
        BY <2>2, <2>4, <2>6, <3>1, <3>4 DEF Translate, TypeOK
      <4> QED BY <1>1, <1>2, <3>1, <3>4, <4>1
    <3> QED BY <3>3, <3>4
  <2> QED BY <2>2, <2>3, <2>5, <2>7, <2>8, <2>9 DEF TypeOK, MapIsExact
<1> QED BY <1>3, <1>4

-----------------------------------------------------------------------------
\* The steps of the controller and its disk change nothing of the kernel's.
LEMMA DiskLeavesKernel ==
  ASSUME Disk
  PROVE  /\ UNCHANGED <<pc, walk, memory, sata_disk0, meta, ghc>>
         /\ dmaBase' = dmaBase /\ rfisEnable' = rfisEnable
         /\ busy' => busy
         /\ link = "up" => link' = "up"
<1> USE DEF ghc, control, engines, status, device
<1>1. CASE Engines
  BY <1>1 DEF Engines
<1>2. CASE DiskReady
  BY <1>2 DEF DiskReady
<1>3. CASE LinkUp
  BY <1>3 DEF LinkUp
<1>4. CASE InterfaceUp
  BY <1>4 DEF InterfaceUp
<1>5. ASSUME NEW s \in command_mask, Complete(s)
      PROVE  /\ UNCHANGED <<pc, walk, memory, sata_disk0, meta, ghc>>
             /\ UNCHANGED <<dmaBase, rfisEnable, busy, link>>
  BY <1>5 DEF Complete
<1>6. CASE Fail
  BY <1>6 DEF Fail
<1>7. CASE Signal
  BY <1>7 DEF Signal
<1> QED BY <1>1, <1>2, <1>3, <1>4, <1>5, <1>6, <1>7 DEF Disk

\* The steps of the constructor, of kernel_main after it, and of the handler
\* leave the walk and the tables alone.
Constructor ==
  \/ StopPort \/ ProgramPort \/ EnableReceive \/ ActivateInterface \/ StartPort
  \/ IssueMeta \/ AwaitBasic \/ ClearPending
  \/ Found \/ EnableInterrupts \/ ReadSuperblock

LEMMA ConstructorLeavesWalk ==
  ASSUME Constructor
  PROVE  /\ UNCHANGED <<walk, memory>>
         /\ pc \in {"stop", "stopping", "receive", "ready", "interface", "issue",
                   "await", "found", "enable", "superblock"}
         /\ pc' \in {"stopping", "receive", "ready", "interface", "issue", "await",
                    "found", "enable", "superblock", "shell", "no file system"}
<1>1. CASE StopPort
  BY <1>1 DEF StopPort
<1>2. CASE ProgramPort
  BY <1>2 DEF ProgramPort
<1>3. CASE EnableReceive
  BY <1>3 DEF EnableReceive
<1>4. CASE ActivateInterface
  BY <1>4 DEF ActivateInterface
<1>5. CASE StartPort
  BY <1>5 DEF StartPort
<1>6. CASE IssueMeta
  BY <1>6 DEF IssueMeta
<1>7. CASE AwaitBasic
  BY <1>7 DEF AwaitBasic
<1>8. CASE ClearPending
  BY <1>8 DEF ClearPending
<1>9. CASE Found
  BY <1>9 DEF Found
<1>10. CASE EnableInterrupts
  BY <1>10 DEF EnableInterrupts
<1>11. CASE ReadSuperblock
  BY <1>11 DEF ReadSuperblock
<1> QED BY <1>1, <1>2, <1>3, <1>4, <1>5, <1>6, <1>7, <1>8, <1>9, <1>10, <1>11
        DEF Constructor

\* The controller found at an address has registers, unless it has no BAR 5.
LEMMA HbaType ==
  ASSUME machine \in Machines, NEW a, IsHba(a)
  PROVE  Hba(a) \in Controllers
<1>1. PICK fs \in SUBSET machine.present : machine.hba \in [fs -> Controllers]
  BY MachinesAssumption DEF IsMachine
<1> QED BY <1>1 DEF Hba, IsHba

LEMMA AdvanceType ==
  ASSUME addr \in bus_slot_addr, Advance
  PROVE  /\ addr' \in bus_slot_addr \union {None}
         /\ pc' \in {"probe", "no disk"}
         /\ pc' = "probe" => addr' \in bus_slot_addr
         /\ addr' = NextAddr(addr, Multi(addr))
<1>1. Multi(addr) \in BOOLEAN
  BY DEF Multi
<1> QED BY <1>1, NextAddrType DEF Advance

LEMMA PortCount == Cardinality(Ports) \in Nat
BY PortsAssumption, FS_CardinalityType

-----------------------------------------------------------------------------
\* Every step keeps the types.
LEMMA TypeStep ==
  ASSUME IInv, [Next]_vars
  PROVE  TypeOK'
<1> USE DEF IInv
<1>1. CASE StartPaging
  BY <1>1, SetupMapsKernel, PortCount DEF StartPaging, SetupPagedir, TypeOK, walk
<1>2. CASE InterruptsOn
  BY <1>2 DEF InterruptsOn, TypeOK, walk, memory
<1>3. CASE Skip
  <2>1. addr \in bus_slot_addr /\ Advance /\ probed' = probed \union {Target(addr)}
    BY <1>3 DEF Skip, Probe, WalkInv
  <2>2. Target(addr) \in [bus : Nat, slot : Nat, func : Nat]
    BY <2>1, TargetType
  <2>3. UNCHANGED <<machine, slot, mapped, memory, sata_disk0, meta>>
    BY <1>3 DEF Skip
  <2> QED BY <2>1, <2>2, <2>3, AdvanceType DEF TypeOK, memory, Ended
<1>4. CASE MapRegisters
  <2>1. /\ addr \in bus_slot_addr /\ probed' = probed \union {Target(addr)}
        /\ Hba(addr).bar \in Pages /\ Hba(addr).bar # Null /\ paging
        /\ TryMap(Hba(addr).bar, Hba(addr).bar) /\ mapped' = mapped \union {Hba(addr).bar}
    BY <1>4, HbaType DEF MapRegisters, Probe, WalkInv, TablesInv, TypeOK, Usable, Controllers
  <2>2. Target(addr) \in [bus : Nat, slot : Nat, func : Nat]
    BY <2>1, TargetType
  <2>3. UNCHANGED <<machine, addr, slot, ahci_ptr, sata_disk0, meta>> /\ pc' = "ports"
    BY <1>4 DEF MapRegisters
  <2>4. /\ dir' \in [0..DirEntries - 1 -> Tables \union {NoPage}]
        /\ tables' \in [Tables -> TableType] /\ paging' = paging
        /\ free_pages' \subseteq Pool
    BY <2>1, TryMapAddsPage
  <2> QED BY <2>1, <2>2, <2>3, <2>4 DEF TypeOK
<1>5. CASE MapFails
  <2>1. Target(addr) \in [bus : Nat, slot : Nat, func : Nat]
    BY <1>5, TargetType DEF MapFails, WalkInv
  <2> QED BY <1>5, <2>1 DEF MapFails, Probe, TypeOK, memory, Ended
<1>6. CASE NoDevice
  <2>1. addr \in bus_slot_addr /\ Advance /\ slot' = Cardinality(Ports)
    BY <1>6 DEF NoDevice, PortLimit, WalkInv
  <2>2. UNCHANGED <<machine, probed, mapped, memory, sata_disk0, meta>>
    BY <1>6 DEF NoDevice
  <2>3. slot' \in 0..Cardinality(Ports)
    BY <2>1, PortCount
  <2>4. addr' \in bus_slot_addr \union {None} /\ pc' \in {"probe", "no disk"}
    BY <2>1, AdvanceType
  <2> QED BY <2>2, <2>3, <2>4 DEF TypeOK, memory, Ended
<1>7. CASE PageFault
  BY <1>7 DEF PageFault, TypeOK, walk, memory, Ended
<1>8. CASE TakePort
  <2>1. free_pages # {}
    <3>1. Cardinality({}) = 0
      BY FS_EmptySet
    <3> QED BY <1>8, <3>1 DEF TakePort
  <2>2. slot' \in 0..Cardinality(Ports)
    BY <1>8, PortsAssumption, PortCount DEF TakePort
  <2>3. ahci_ptr' \in Pool /\ free_pages' \subseteq Pool
    BY <1>8, <2>1, KallocFree DEF TakePort, TypeOK
  <2>4. /\ UNCHANGED <<machine, addr, probed, mapped, dir, tables, paging, sata_disk0, meta>>
        /\ pc' = "stop"
    BY <1>8 DEF TakePort
  <2> QED BY <2>2, <2>3, <2>4 DEF TypeOK
<1>9. CASE KallocFails
  BY <1>9 DEF KallocFails, TypeOK, walk, memory, Ended
<1>10. CASE Constructor
  <2>1. meta' \in 0..MetaCommands /\ sata_disk0' \in BOOLEAN
    <3>1. CASE AwaitBasic
      BY <3>1 DEF AwaitBasic, TypeOK, PortInv, MetaCommands
    <3>2. CASE Found
      BY <3>2 DEF Found, TypeOK
    <3>3. CASE Constructor /\ ~AwaitBasic /\ ~Found
      BY <3>3 DEF Constructor, TypeOK, StopPort, ProgramPort, EnableReceive,
         ActivateInterface, StartPort, IssueMeta, ClearPending, EnableInterrupts,
         ReadSuperblock
    <3> QED BY <1>10, <3>1, <3>2, <3>3
  <2> QED BY <1>10, <2>1, ConstructorLeavesWalk DEF TypeOK, walk, memory, Ended
<1>11. CASE Interrupt
  BY <1>11 DEF Interrupt, TypeOK, walk, memory, Ended
<1>12. CASE Disk
  BY <1>12, DiskLeavesKernel DEF TypeOK, walk, memory
<1>13. CASE UNCHANGED vars
  BY <1>13 DEF vars, TypeOK, walk, memory
<1> QED BY <1>1, <1>2, <1>3, <1>4, <1>5, <1>6, <1>7, <1>8, <1>9, <1>10, <1>11,
           <1>12, <1>13 DEF Next, Kernel, Constructor

\* Every step of the walk passes only over what was looked at.
LEMMA WalkStep ==
  ASSUME IInv, [Next]_vars
  PROVE  WalkInv'
<1>0. machine \in Machines
  BY DEF IInv, TypeOK
<1> USE DEF IInv
<1>1. CASE Skip \/ NoDevice
  <2>1. /\ addr \in bus_slot_addr /\ Advance /\ machine' = machine
        /\ probed \subseteq probed' /\ Target(addr) \in probed'
    BY <1>1 DEF Skip, NoDevice, Probe, WalkInv
  <2>2. WalkComplete'
    <3> SUFFICES ASSUME NEW a \in machine.present, Before(a, addr')
                 PROVE  a \in probed'
      BY <2>1 DEF WalkComplete
    <3>1. Before(a, addr) \/ a = Target(addr)
      BY <1>0, <2>1, AdvanceType, NothingSkipped
    <3> QED BY <2>1, <3>1 DEF WalkInv, WalkComplete
  <2> QED BY <2>1, <2>2, AdvanceType DEF WalkInv
<1>2. CASE MapRegisters
  BY <1>2 DEF MapRegisters, Probe, Usable, IsHba, Target, WalkInv, WalkComplete
<1>3. CASE MapFails
  BY <1>3 DEF MapFails, Probe, WalkInv, WalkComplete
<1>4. CASE PageFault \/ KallocFails \/ TakePort
  BY <1>4 DEF PageFault, KallocFails, TakePort, walk, WalkInv, WalkComplete
<1>5. CASE StartPaging
  BY <1>5 DEF StartPaging, walk, WalkInv, WalkComplete
<1>6. CASE InterruptsOn
  BY <1>6 DEF InterruptsOn, walk, WalkInv, WalkComplete
<1>7. CASE Constructor
  BY <1>7, ConstructorLeavesWalk DEF walk, WalkInv, WalkComplete
<1>8. CASE Interrupt
  BY <1>8 DEF Interrupt, walk, WalkInv, WalkComplete, IsHba
<1>9. CASE Disk
  BY <1>9, DiskLeavesKernel DEF walk, WalkInv, WalkComplete, IsHba
<1>10. CASE UNCHANGED vars
  BY <1>10 DEF vars, walk, WalkInv, WalkComplete, IsHba
<1> QED BY <1>1, <1>2, <1>3, <1>4, <1>5, <1>6, <1>7, <1>8, <1>9, <1>10
        DEF Next, Kernel, Constructor

\* A step that leaves the memory and what was mapped leaves TablesInv.
LEMMA TablesKept ==
  ASSUME TablesInv, UNCHANGED <<dir, tables, paging, mapped>>,
         free_pages' \subseteq free_pages,
         pc' = "paging" => ~paging,
         pc' \in {"interrupts", "probe", "ports"} => paging
  PROVE  TablesInv'
BY DEF TablesInv, MapIsExact, Translate

LEMMA TablesStep ==
  ASSUME IInv, [Next]_vars
  PROVE  TablesInv'
<1> USE DEF IInv
<1>1. CASE StartPaging
  <2>1. pc = "paging" /\ SetupPagedir /\ mapped' = mapped /\ pc' = "interrupts"
    BY <1>1 DEF StartPaging, walk
  <2> QED BY <2>1, SetupMapsKernel DEF TablesInv
<1>2. CASE MapRegisters
  <2>1. /\ Hba(addr).bar \in Pages /\ Hba(addr).bar # Null /\ paging /\ pc' = "ports"
        /\ TryMap(Hba(addr).bar, Hba(addr).bar) /\ mapped' = mapped \union {Hba(addr).bar}
    BY <1>2, HbaType DEF MapRegisters, TablesInv, TypeOK, Usable, Controllers
  <2> QED BY <2>1, TryMapAddsPage DEF TablesInv
<1>3. CASE InterruptsOn \/ Skip \/ MapFails \/ NoDevice \/ PageFault \/ KallocFails
  <2>1. UNCHANGED <<dir, tables, paging, mapped, free_pages>>
    BY <1>3 DEF InterruptsOn, Skip, MapFails, NoDevice, PageFault, KallocFails, walk, memory
  <2>2. pc' # "paging" /\ (pc' \in {"interrupts", "probe", "ports"} => paging)
    BY <1>3 DEF InterruptsOn, Skip, MapFails, NoDevice, PageFault, KallocFails,
       Advance, TablesInv
  <2> QED BY <2>1, <2>2, TablesKept
<1>4. CASE TakePort
  BY <1>4, TablesKept DEF TakePort
<1>5. CASE Constructor
  BY <1>5, ConstructorLeavesWalk, TablesKept DEF walk, memory
<1>6. CASE Interrupt
  <2>1. UNCHANGED <<dir, tables, paging, mapped, free_pages>> /\ pc' \in {pc, "exception"}
    BY <1>6 DEF Interrupt, walk, memory
  <2> QED BY <2>1, TablesKept DEF TablesInv
<1>7. CASE Disk
  <2>1. UNCHANGED <<pc, dir, tables, paging, mapped, free_pages>>
    BY <1>7, DiskLeavesKernel DEF walk, memory
  <2> QED BY <2>1, TablesKept DEF TablesInv
<1>8. CASE UNCHANGED vars
  <2>1. UNCHANGED <<pc, dir, tables, paging, mapped, free_pages>>
    BY <1>8 DEF vars, walk, memory
  <2> QED BY <2>1, TablesKept DEF TablesInv
<1> QED BY <1>1, <1>2, <1>3, <1>4, <1>5, <1>6, <1>7, <1>8 DEF Next, Kernel, Constructor

\* What the walk's steps leave to the port.
Walking ==
  \/ StartPaging \/ InterruptsOn \/ Skip \/ MapRegisters \/ MapFails
  \/ NoDevice \/ PageFault \/ KallocFails

LEMMA WalkingLeavesPort ==
  ASSUME Walking
  PROVE  /\ UNCHANGED <<sata_disk0, meta, port, device>>
         /\ pc \in {"paging", "interrupts", "probe", "ports"}
         /\ pc' \in {"interrupts", "probe", "ports", "no disk", "no memory", "page fault"}
<1>1. CASE StartPaging
  BY <1>1 DEF StartPaging
<1>2. CASE InterruptsOn
  BY <1>2 DEF InterruptsOn
<1>3. CASE Skip
  BY <1>3 DEF Skip, Advance
<1>4. CASE MapRegisters
  BY <1>4 DEF MapRegisters
<1>5. CASE MapFails
  BY <1>5 DEF MapFails
<1>6. CASE NoDevice
  BY <1>6 DEF NoDevice, Advance
<1>7. CASE PageFault
  BY <1>7 DEF PageFault
<1>8. CASE KallocFails
  BY <1>8 DEF KallocFails
<1> QED BY <1>1, <1>2, <1>3, <1>4, <1>5, <1>6, <1>7, <1>8 DEF Walking

\* A transfer that counts takes place with the kernel's addresses.
LEMMA DmaStep ==
  ASSUME IInv, [Next]_vars
  PROVE  DmaInv'
<1> USE DEF IInv
<1>1. CASE Walking
  <2>1. UNCHANGED <<dmaBase, commandRunning, inherited, given, wild>>
    BY <1>1, WalkingLeavesPort DEF port, engines, device
  <2>2. ~given /\ ~wild /\ inherited = {}
    BY <1>1, WalkingLeavesPort DEF DmaInv
  <2>3. pc' \notin {"receive", "ready", "interface", "issue", "await"}
    BY <1>1, WalkingLeavesPort
  <2> QED BY <2>1, <2>2, <2>3 DEF DmaInv, DmaInState
<1>2. CASE TakePort
  <2>1. PICK left \in FirmwarePorts :
          /\ commandRunning' = left.running /\ dmaBase' = [dmaBase EXCEPT !.high = left.high]
          /\ inherited' = left.commands
    BY <1>2 DEF TakePort
  <2>2. left.high \in {"zero", "firmware"} /\ (left.commands # {} => left.running)
    BY FirmwareAssumption
  <2>3. pc = "ports" /\ pc' = "stop" /\ UNCHANGED <<given, wild>>
    BY <1>2 DEF TakePort
  <2> QED BY <2>1, <2>2, <2>3 DEF DmaInv, DmaInState
<1>3. CASE Constructor
  <2>1. tables' = tables /\ ahci_ptr' = ahci_ptr
    BY <1>3, ConstructorLeavesWalk DEF memory
  <2>2. CASE ProgramPort
    <3>1. /\ pc = "stopping" /\ pc' = "receive" /\ ~commandRunning /\ given'
          /\ UNCHANGED <<commandRunning, inherited, wild>>
          /\ dmaBase' = [dmaBase EXCEPT !.low = "kernel"]
      BY <2>2 DEF ProgramPort, PortStopped, KernelDma, engines
    <3>2. inherited = {} /\ ~wild /\ dmaBase'.low = "kernel"
          /\ dmaBase' \in [low : {"firmware", "kernel"}, high : {"zero", "firmware"}]
      BY <3>1 DEF DmaInv
    <3> QED BY <3>1, <3>2 DEF DmaInv, DmaInState
  <2>3. CASE Constructor /\ ~ProgramPort
    <3>1. /\ UNCHANGED <<dmaBase, commandRunning, inherited, given, wild>>
          /\ pc' \in {"stop", "stopping"} => pc = "stop"
          /\ pc' \in {"receive", "ready", "interface", "issue", "await"} =>
               pc \in {"receive", "ready", "interface", "issue", "await"}
      BY <2>3 DEF Constructor, StopPort, EnableReceive, ActivateInterface, StartPort,
         IssueMeta, AwaitBasic, ClearPending, Found, EnableInterrupts, ReadSuperblock,
         port, engines, device
    <3> QED BY <1>3, <2>1, <3>1, ConstructorLeavesWalk DEF DmaInv, DmaInState
  <2> QED BY <1>3, <2>2, <2>3
<1>4. CASE Interrupt
  BY <1>4 DEF Interrupt, memory, engines, device, DmaInv, DmaInState
<1>5. CASE Disk
  <2>1. UNCHANGED <<pc, tables, ahci_ptr, dmaBase>>
    BY <1>5, DiskLeavesKernel DEF memory
  <2>2. ASSUME NEW s \in command_mask, Complete(s)
        PROVE  DmaInv'
    <3>1. /\ inherited' = inherited \ {s} /\ UNCHANGED <<commandRunning, given>>
          /\ wild' \in IF ~given THEN {wild}
                      ELSE IF s \in inherited \/ ~AtState THEN {TRUE}
                      ELSE {wild, wild \/ tables[ahci_ptr] # EmptyTable}
      BY <2>2 DEF Complete, engines
    <3>2. CASE ~given
      BY <2>1, <3>1, <3>2 DEF DmaInv, DmaInState
    <3>3. CASE given
      <4>1. inherited = {} /\ dmaBase.low = "kernel"
        BY <3>3 DEF DmaInv
      <4>2. ~AtState => dmaBase.high # "zero"
        BY <4>1 DEF DmaInv, AtState
      <4>3. wild' => tables[ahci_ptr] # EmptyTable \/ dmaBase.high # "zero"
        BY <3>1, <3>3, <4>1, <4>2 DEF DmaInv, DmaInState
      <4> QED BY <2>1, <3>1, <3>3, <4>1, <4>3 DEF DmaInv, DmaInState
    <3> QED BY <3>2, <3>3
  <2>3. CASE DiskReady
    <3>1. /\ wild' = (wild \/ (given /\ ~AtState))
          /\ UNCHANGED <<commandRunning, inherited, given>>
      BY <2>3 DEF DiskReady, engines
    <3>2. given /\ ~AtState => dmaBase.high # "zero"
      BY DEF DmaInv, AtState
    <3> QED BY <2>1, <3>1, <3>2 DEF DmaInv, DmaInState
  <2>4. CASE Engines
    <3>1. /\ UNCHANGED <<given, wild>>
          /\ inherited' \in {inherited, {}}
          /\ commandRunning /\ ~commandRunning' => inherited' = {}
      BY <2>4 DEF Engines
    <3>2. inherited' # {} => commandRunning'
      <4>1. commandRunning' \/ commandRunning' = commandRunning \/ inherited' = {}
        BY <2>4 DEF Engines
      <4> QED BY <3>1, <4>1 DEF DmaInv
    <3> QED BY <2>1, <3>1, <3>2 DEF DmaInv, DmaInState
  <2>5. CASE LinkUp \/ InterfaceUp \/ Fail \/ Signal
    <3>1. UNCHANGED <<commandRunning, inherited, given, wild>>
      BY <2>5 DEF LinkUp, InterfaceUp, Fail, Signal, engines, device
    <3> QED BY <2>1, <3>1 DEF DmaInv, DmaInState
  <2> QED BY <1>5, <2>2, <2>3, <2>4, <2>5 DEF Disk
<1>6. CASE UNCHANGED vars
  BY <1>6 DEF vars, memory, port, engines, device, DmaInv, DmaInState
<1> QED BY <1>1, <1>2, <1>3, <1>4, <1>5, <1>6 DEF Next, Kernel, Walking, Constructor

\* Interrupts are on because firmware left them on, or after there is a disk.
LEMMA HandlerStep ==
  ASSUME IInv, [Next]_vars
  PROVE  HandlerInv'
<1> USE DEF IInv
<1>1. CASE MapRegisters
  BY <1>1 DEF MapRegisters, GlobalControl, HandlerInv, InterruptsHaveHandler
<1>2. CASE Walking /\ ~MapRegisters
  <2>1. UNCHANGED ghc
    BY <1>2 DEF Walking, StartPaging, InterruptsOn, Skip, MapFails, NoDevice, PageFault,
       KallocFails
  <2> QED BY <1>2, <2>1, WalkingLeavesPort DEF ghc, HandlerInv, InterruptsHaveHandler
<1>3. CASE TakePort
  BY <1>3 DEF TakePort, ghc, HandlerInv, InterruptsHaveHandler
<1>4. CASE Constructor
  <2>1. CASE EnableInterrupts
    BY <2>1 DEF EnableInterrupts, HandlerInv, InterruptsHaveHandler
  <2>2. CASE Found
    BY <2>2 DEF Found, ghc, HandlerInv, InterruptsHaveHandler
  <2>3. CASE Constructor /\ ~EnableInterrupts /\ ~Found
    <3>1. UNCHANGED <<ghc, sata_disk0>> /\ pc' \notin {"enable", "superblock", "exception"}
      BY <2>3 DEF Constructor, StopPort, ProgramPort, EnableReceive, ActivateInterface,
         StartPort, IssueMeta, AwaitBasic, ClearPending, ReadSuperblock
    <3> QED BY <3>1 DEF ghc, HandlerInv, InterruptsHaveHandler
  <2> QED BY <1>4, <2>1, <2>2, <2>3
<1>5. CASE Interrupt
  BY <1>5 DEF Interrupt, ghc, HandlerInv, InterruptsHaveHandler
<1>6. CASE Disk
  BY <1>6, DiskLeavesKernel DEF ghc, HandlerInv, InterruptsHaveHandler
<1>7. CASE UNCHANGED vars
  BY <1>7 DEF vars, ghc, HandlerInv, InterruptsHaveHandler
<1> QED BY <1>1, <1>2, <1>3, <1>4, <1>5, <1>6, <1>7
        DEF Next, Kernel, Walking, Constructor

\* The link stays up, the disk ready and frames received, once waited for.
LEMMA PortStep ==
  ASSUME IInv, [Next]_vars
  PROVE  PortInv'
<1> USE DEF IInv
<1>1. CASE Walking
  BY <1>1, WalkingLeavesPort DEF PortInv
<1>2. CASE TakePort
  BY <1>2 DEF TakePort, PortInv
<1>3. CASE Constructor
  <2>1. CASE EnableReceive
    BY <2>1 DEF EnableReceive, PortInv
  <2>2. CASE ActivateInterface
    BY <2>2 DEF ActivateInterface, PortReady, status, PortInv
  <2>3. CASE IssueMeta
    BY <2>3 DEF IssueMeta, PortInv
  <2>4. CASE Constructor /\ ~EnableReceive /\ ~ActivateInterface /\ ~IssueMeta
    <3>1. pc' \notin {"ready", "interface", "await"}
      BY <2>4 DEF Constructor, StopPort, ProgramPort, StartPort, AwaitBasic,
         ClearPending, Found, EnableInterrupts, ReadSuperblock
    <3> QED BY <3>1 DEF PortInv
  <2> QED BY <1>3, <2>1, <2>2, <2>3, <2>4
<1>4. CASE Interrupt
  BY <1>4 DEF Interrupt, control, status, PortInv
<1>5. CASE Disk
  BY <1>5, DiskLeavesKernel DEF PortInv
<1>6. CASE UNCHANGED vars
  BY <1>6 DEF vars, port, control, status, PortInv
<1> QED BY <1>1, <1>2, <1>3, <1>4, <1>5, <1>6 DEF Next, Kernel, Walking, Constructor

-----------------------------------------------------------------------------
\* The function whose registers an address reaches reaches itself.
LEMMA TargetTwice ==
  ASSUME NEW a \in bus_slot_addr
  PROVE  Target(Target(a)) = Target(a)
<1>1. a.slot \in Nat /\ MAX_SLOTS \in Nat \ {0}
  BY ScanAssumption DEF bus_slot_addr, SlotValues
<1>2. CASE a.slot < MAX_SLOTS
  BY <1>2 DEF Target
<1>3. CASE ~(a.slot < MAX_SLOTS)
  <2>1. Target(a).slot = a.slot % MAX_SLOTS
    BY <1>3 DEF Target
  <2>2. Target(a).slot < MAX_SLOTS
    BY <1>1, <2>1
  <2> QED BY <2>2 DEF Target
<1> QED BY <1>2, <1>3

LEMMA SameController ==
  ASSUME NEW a, NEW b, Target(a) = Target(b)
  PROVE  /\ Usable(a) <=> Usable(b)
         /\ With(a) <=> With(b)
         /\ Without(a) <=> Without(b)
BY Zenon DEF Usable, IsHba, Hba, With, Without

\* While the machine stays the same, so do its controllers.
LEMMA SameMachine ==
  ASSUME machine' = machine
  PROVE  /\ \A a : Usable(a)' <=> Usable(a)
         /\ \A a : With(a)' <=> With(a)
         /\ \A a : Without(a)' <=> Without(a)
         /\ addr' = addr => Hba(addr)' = Hba(addr)
BY Zenon DEF Usable, IsHba, Hba, With, Without

\* What find() looks at is what answers, and the ports of a controller are
\* numbers below the limit of its loop.
LEMMA ControllerPorts ==
  ASSUME machine \in Machines, Usable(addr)
  PROVE  /\ \A p \in Hba(addr).ports : p \in Nat /\ p < PortLimit
         /\ Hba(addr).bar \in Pages
         /\ PortLimit \in Nat
<1>1. Hba(addr) \in Controllers
  BY HbaType DEF Usable
<1>2. PortLimit \in Nat /\ Ports = 0..PortLimit - 1
  BY PortCount, PortsAssumption DEF PortLimit
<1> QED BY <1>1, <1>2 DEF Controllers

LEMMA UsableAnswers ==
  ASSUME machine \in Machines, NEW a \in Functions, Usable(a)
  PROVE  a \in machine.present
<1>1. PICK fs \in SUBSET machine.present : machine.hba \in [fs -> Controllers]
  BY MachinesAssumption DEF IsMachine
<1>2. Target(a) = a
  BY DEF Functions, Target
<1> QED BY <1>1, <1>2 DEF Usable, IsHba

\* Where find() has not come to a port, its state stays what it is.
LEMMA FindKept ==
  ASSUME IInv, UNCHANGED walk,
         sata_disk0' = sata_disk0 \/ (sata_disk0' = TRUE /\ pc = "found"),
         \/ pc' = pc
         \/ pc = "paging" /\ pc' = "interrupts"
         \/ pc = "interrupts" /\ pc' = "probe"
         \/ pc' \in {"no memory", "exception"} /\ sata_disk0' = sata_disk0
         \/ pc \in Building /\ pc' \in Building
         \/ pc \in Building \union {"enable", "superblock"}
              /\ pc' \in {"enable", "superblock", "shell", "no file system"}
  PROVE  FindInv'
<1>1. machine' = machine /\ addr' = addr /\ slot' = slot /\ probed' = probed /\ mapped' = mapped
  BY DEF walk
<1>2. /\ \A a : (Usable(a)' <=> Usable(a)) /\ (With(a)' <=> With(a)) /\ (Without(a)' <=> Without(a))
      /\ Hba(addr)' = Hba(addr)
  BY <1>1, SameMachine
<1>3. NoneBefore' <=> NoneBefore
  BY <1>1, <1>2 DEF NoneBefore
<1>4. FirstOfFirst' <=> FirstOfFirst
  BY <1>1, <1>2, <1>3 DEF FirstOfFirst
<1>5. \A a \in probed' : Target(a) = a
  BY <1>1 DEF IInv, FindInv
<1>6. /\ pc' \in {"paging", "interrupts"} => probed' = {} /\ slot' = 0
      /\ pc' \in {"probe", "ports", "no disk"} =>
           slot' \in {0, PortLimit} /\ (slot' # 0 => \E b \in probed' : Without(b)')
      /\ pc' \in {"probe", "no disk"} /\ (\E a \in probed' : Usable(a)') =>
           slot' = PortLimit /\ \E b \in probed' : Without(b)'
  BY <1>1, <1>2 DEF IInv, FindInv, Building
<1>7. pc' = "ports" =>
        Usable(addr)' /\ Hba(addr)'.bar \in mapped' /\ (slot' # PortLimit => NoneBefore')
  BY <1>1, <1>2, <1>3 DEF IInv, FindInv, Building
<1>8. sata_disk0' => pc' \notin {"paging", "interrupts", "probe", "ports"}
  BY DEF IInv, FindInv, Building
<1>9. pc' \in Building \/ sata_disk0' => FirstOfFirst'
  BY <1>4 DEF IInv, FindInv, Building
<1>10. FindsFirstDisk'
  <2>1. sata_disk0' =>
          /\ slot' \in (Hba(addr).devices \intersect Hba(addr).ports)'
          /\ \A p \in (Hba(addr).devices \intersect Hba(addr).ports)' : slot' <= p
          /\ \A a \in Functions : Before(a, addr') => ~Usable(a)'
    BY <1>9, Zenon DEF FirstOfFirst, NoneBefore
  <2>2. pc' \in {"probe", "no disk"} /\ (\E a \in probed' : With(a)') =>
          \E b \in probed' : Without(b)'
    BY <1>6 DEF With
  <2>3. pc' = "page fault" =>
          \E p \in Hba(addr)'.ports :
            /\ p >= PortsPerPage
            /\ \A q \in Hba(addr)'.devices \intersect Hba(addr)'.ports : p <= q
    BY <1>1, <1>2 DEF IInv, FindInv, FindsFirstDisk, Building
  <2> QED BY <2>1, <2>2, <2>3 DEF FindsFirstDisk
<1> QED BY <1>5, <1>6, <1>7, <1>8, <1>9, <1>10 DEF FindInv

\* Every step of find() keeps to the rule of its loops.
LEMMA FindStep ==
  ASSUME IInv, [Next]_vars
  PROVE  FindInv'
<1>0. machine \in Machines
  BY DEF IInv, TypeOK
<1>1. CASE Skip
  <2>1. /\ pc = "probe" /\ pc' \in {"probe", "no disk"} /\ ~Usable(addr)
        /\ probed' = probed \union {Target(addr)}
        /\ machine' = machine /\ slot' = slot /\ sata_disk0' = sata_disk0
        /\ addr \in bus_slot_addr
    BY <1>1 DEF Skip, Probe, Advance, IInv, WalkInv
  <2>2. /\ \A a \in probed' : Target(a) = a
        /\ ~Usable(Target(addr))
    BY <2>1, TargetTwice, SameController DEF IInv, FindInv
  <2>3. \A a : (Usable(a)' <=> Usable(a)) /\ (With(a)' <=> With(a)) /\ (Without(a)' <=> Without(a))
    BY <2>1, SameMachine
  <2>4. /\ ~sata_disk0 /\ slot \in {0, PortLimit} /\ (slot # 0 => \E b \in probed : Without(b))
        /\ (\E a \in probed : Usable(a)) => slot = PortLimit /\ \E b \in probed : Without(b)
    BY <2>1 DEF IInv, FindInv
  <2>5. /\ slot' # 0 => \E b \in probed' : Without(b)'
        /\ (\E a \in probed' : Usable(a)') => slot' = PortLimit /\ \E b \in probed' : Without(b)'
    BY <2>1, <2>2, <2>3, <2>4
  <2>6. (\E a \in probed' : With(a)') => \E b \in probed' : Without(b)'
    BY <2>5 DEF With
  <2>7. FindsFirstDisk'
    BY <2>1, <2>4, <2>6 DEF FindsFirstDisk
  <2> QED BY <2>1, <2>2, <2>4, <2>5, <2>7 DEF FindInv, Building
<1>2. CASE MapRegisters
  <2>1. /\ pc = "probe" /\ pc' = "ports" /\ Usable(addr)
        /\ probed' = probed \union {Target(addr)}
        /\ mapped' = mapped \union {Hba(addr).bar}
        /\ machine' = machine /\ addr' = addr /\ slot' = slot /\ sata_disk0' = sata_disk0
        /\ addr \in bus_slot_addr
    BY <1>2 DEF MapRegisters, Probe, IInv, WalkInv
  <2>2. \A a \in probed' : Target(a) = a
    BY <2>1, TargetTwice DEF IInv, FindInv
  <2>3. /\ \A a : (Usable(a)' <=> Usable(a)) /\ (Without(a)' <=> Without(a))
        /\ Hba(addr)' = Hba(addr)
    BY <2>1, SameMachine
  <2>4. /\ ~sata_disk0 /\ slot \in {0, PortLimit} /\ (slot # 0 => \E b \in probed : Without(b))
        /\ (\E a \in probed : Usable(a)) => slot = PortLimit
    BY <2>1 DEF IInv, FindInv
  <2>5. slot # PortLimit => NoneBefore
    <3> SUFFICES ASSUME slot # PortLimit, NEW a \in Functions, Before(a, addr), Usable(a)
                 PROVE  FALSE
      BY DEF NoneBefore
    <3>1. a \in probed
      BY <1>0, UsableAnswers DEF IInv, WalkInv, WalkComplete
    <3> QED BY <2>4, <3>1
  <2>6. NoneBefore' <=> NoneBefore
    BY <2>1, <2>3 DEF NoneBefore
  <2>7. /\ Usable(addr)' /\ Hba(addr)'.bar \in mapped' /\ (slot' # PortLimit => NoneBefore')
        /\ slot' # 0 => \E b \in probed' : Without(b)'
    BY <2>1, <2>3, <2>4, <2>5, <2>6
  <2>8. FindsFirstDisk'
    BY <2>1, <2>4 DEF FindsFirstDisk
  <2> QED BY <2>1, <2>2, <2>4, <2>7, <2>8 DEF FindInv, Building
<1>3. CASE NoDevice
  <2>1. /\ pc = "ports" /\ pc' \in {"probe", "no disk"}
        /\ probed' = probed /\ slot' = PortLimit
        /\ machine' = machine /\ sata_disk0' = sata_disk0
        /\ \A q \in LookedAt(PortLimit - 1) : q \notin Hba(addr).devices
        /\ addr \in bus_slot_addr /\ Target(addr) \in probed
    BY <1>3 DEF NoDevice, Advance, IInv, WalkInv
  <2>2. /\ Usable(addr) /\ ~sata_disk0 /\ slot \in {0, PortLimit}
        /\ slot # 0 => \E b \in probed : Without(b)
        /\ \A a \in probed : Target(a) = a
    BY <2>1 DEF IInv, FindInv
  <2>3. \A a : (Usable(a)' <=> Usable(a)) /\ (With(a)' <=> With(a)) /\ (Without(a)' <=> Without(a))
    BY <2>1, SameMachine
  <2>4. \E b \in probed : Without(b)
    <3>1. CASE slot # 0
      BY <2>2, <3>1
    <3>2. CASE slot = 0
      <4>1. ASSUME NEW p \in Hba(addr).ports
            PROVE  p \notin Hba(addr).devices
        <5>1. p \in Nat /\ p <= PortLimit - 1
          BY <1>0, <2>2, ControllerPorts
        <5>2. p \in LookedAt(PortLimit - 1)
          BY <3>2, <5>1 DEF LookedAt
        <5> QED BY <2>1, <5>2
      <4>2. Without(addr)
        BY <2>2, <4>1 DEF Without
      <4>3. Without(Target(addr))
        BY <2>1, <4>2, TargetTwice, SameController
      <4> QED BY <2>1, <4>3
    <3> QED BY <3>1, <3>2
  <2>5. \E b \in probed' : Without(b)'
    BY <2>1, <2>3, <2>4
  <2>6. FindsFirstDisk'
    BY <2>1, <2>2, <2>5 DEF FindsFirstDisk
  <2> QED BY <2>1, <2>2, <2>5, <2>6 DEF FindInv, Building
<1>4. CASE PageFault
  <2>1. /\ pc = "ports" /\ pc' = "page fault" /\ UNCHANGED <<walk, sata_disk0>>
    BY <1>4 DEF PageFault
  <2>2. PICK p \in LookedAt(PortLimit - 1) :
          /\ ~Reachable(RegisterPage(p))
          /\ \A q \in LookedAt(p - 1) : q \notin Hba(addr).devices
    BY <1>4 DEF PageFault
  <2>3. /\ Usable(addr) /\ Hba(addr).bar \in mapped /\ ~sata_disk0 /\ slot \in {0, PortLimit}
        /\ \A a \in probed : Target(a) = a
    BY <2>1 DEF IInv, FindInv
  <2>4. /\ p \in Hba(addr).ports /\ slot <= p /\ p <= PortLimit - 1
        /\ PortLimit \in Nat
        /\ \A q \in Hba(addr).ports : q \in Nat
    BY <1>0, <2>2, <2>3, ControllerPorts DEF LookedAt
  <2>5. slot = 0
    BY <2>3, <2>4
  <2>6. p >= PortsPerPage
    <3>1. Reachable(Hba(addr).bar)
      <4>1. Hba(addr).bar \in Pages
        BY <1>0, <2>3, ControllerPorts
      <4>2. paging => \A q \in Pages :
              Translate(q) = IF q \in KernelPages \union mapped THEN q ELSE NoPage
        BY Zenon DEF IInv, TablesInv, MapIsExact
      <4> QED BY <2>3, <4>1, <4>2 DEF Reachable
    <3>2. ~(p < PortsPerPage)
      BY <2>2, <3>1 DEF RegisterPage
    <3> QED BY <2>4, <3>2, PortsAssumption
  <2>7. ASSUME NEW q \in Hba(addr).devices \intersect Hba(addr).ports
        PROVE  p <= q
    <3>1. q \notin LookedAt(p - 1)
      BY <2>2
    <3> QED BY <2>4, <2>5, <3>1 DEF LookedAt
  <2>8. Hba(addr)' = Hba(addr) /\ probed' = probed
    BY <2>1, SameMachine DEF walk
  <2>9. FindsFirstDisk'
    BY <2>1, <2>3, <2>4, <2>6, <2>7, <2>8 DEF FindsFirstDisk
  <2> QED BY <2>1, <2>3, <2>8, <2>9 DEF FindInv, Building
<1>5. CASE TakePort
  <2>1. PICK p \in Ports : FirstDevice(p) /\ slot' = p
    BY <1>5 DEF TakePort
  <2>2. /\ pc = "ports" /\ pc' = "stop"
        /\ UNCHANGED <<machine, addr, probed, sata_disk0>>
    BY <1>5 DEF TakePort
  <2>3. /\ Usable(addr) /\ ~sata_disk0 /\ slot \in {0, PortLimit}
        /\ slot # PortLimit => NoneBefore
        /\ \A a \in probed : Target(a) = a
    BY <2>2 DEF IInv, FindInv
  <2>4. /\ p \in Hba(addr).devices \intersect Hba(addr).ports /\ slot <= p
        /\ p \in Nat /\ p < PortLimit /\ PortLimit \in Nat
        /\ \A q \in Hba(addr).ports : q \in Nat
    BY <1>0, <2>1, <2>3, ControllerPorts DEF FirstDevice, LookedAt
  <2>5. slot = 0 /\ NoneBefore
    BY <2>3, <2>4
  <2>6. ASSUME NEW q \in Hba(addr).devices \intersect Hba(addr).ports
        PROVE  p <= q
    <3>1. q < p => q \in LookedAt(p)
      BY <2>4, <2>5 DEF LookedAt
    <3> QED BY <2>1, <2>4, <3>1 DEF FirstDevice
  <2>7. (\A a : Usable(a)' <=> Usable(a)) /\ Hba(addr)' = Hba(addr)
    BY <2>2, SameMachine
  <2>8. NoneBefore'
    BY <2>2, <2>5, <2>7 DEF NoneBefore
  <2>9. FirstOfFirst'
    BY <2>1, <2>4, <2>6, <2>7, <2>8 DEF FirstOfFirst
  <2>10. FindsFirstDisk'
    BY <2>2, <2>3 DEF FindsFirstDisk
  <2> QED BY <2>2, <2>3, <2>9, <2>10 DEF FindInv
<1>6. CASE MapFails
  <2>1. /\ pc = "probe" /\ pc' = "no memory" /\ sata_disk0' = sata_disk0
        /\ probed' = probed \union {Target(addr)} /\ addr \in bus_slot_addr
    BY <1>6 DEF MapFails, Probe, IInv, WalkInv
  <2>2. ~sata_disk0 /\ \A a \in probed' : Target(a) = a
    BY <2>1, TargetTwice DEF IInv, FindInv
  <2>3. FindsFirstDisk'
    BY <2>1, <2>2 DEF FindsFirstDisk
  <2> QED BY <2>1, <2>2, <2>3 DEF FindInv, Building
<1>7. CASE StartPaging \/ InterruptsOn \/ KallocFails
  BY <1>7, FindKept DEF StartPaging, InterruptsOn, KallocFails
<1>8. CASE Constructor
  <2>1. UNCHANGED walk
    BY <1>8, ConstructorLeavesWalk
  <2>2. CASE Found
    BY <2>1, <2>2, FindKept DEF Found, Building
  <2>3. CASE EnableInterrupts \/ ReadSuperblock
    BY <2>1, <2>3, FindKept DEF EnableInterrupts, ReadSuperblock
  <2>4. CASE Constructor /\ ~Found /\ ~EnableInterrupts /\ ~ReadSuperblock
    <3>1. sata_disk0' = sata_disk0 /\ pc \in Building /\ pc' \in Building
      BY <2>4 DEF Constructor, StopPort, ProgramPort, EnableReceive, ActivateInterface,
         StartPort, IssueMeta, AwaitBasic, ClearPending, Building
    <3> QED BY <2>1, <3>1, FindKept
  <2> QED BY <1>8, <2>2, <2>3, <2>4
<1>9. CASE Interrupt
  BY <1>9, FindKept DEF Interrupt
<1>10. CASE Disk \/ UNCHANGED vars
  <2>1. UNCHANGED <<pc, walk, sata_disk0>>
    BY <1>10, DiskLeavesKernel DEF vars
  <2> QED BY <2>1, FindKept
<1> QED BY <1>1, <1>2, <1>3, <1>4, <1>5, <1>6, <1>7, <1>8, <1>9, <1>10
        DEF Next, Kernel, Constructor

-----------------------------------------------------------------------------
LEMMA InitInvariant == Init => IInv
<1> SUFFICES ASSUME Init PROVE IInv
  OBVIOUS
<1> USE DEF Init
<1>1. First \in bus_slot_addr
  BY ScanAssumption DEF First, bus_slot_addr, SlotValues
<1>2. /\ dir = [d \in 0..DirEntries - 1 |-> NoPage] /\ free_pages = Pool /\ ~paging
      /\ paging \in BOOLEAN
      /\ tables \in [Tables -> TableType]
      /\ tables[starter_pt] = EmptyTable /\ tables[io_pt] = EmptyTable
  <2>1. PICK held \in Leftovers :
          tables = [t \in Tables |-> IF t \in Pool THEN held ELSE EmptyTable]
    BY DEF MemoryInit
  <2>2. held \in TableType /\ EmptyTable \in TableType
    BY LeftoversAssumption, TableTypes
  <2>3. starter_pt \in Tables \ Pool /\ io_pt \in Tables \ Pool
    BY TablesArePages
  <2> QED BY <2>1, <2>2, <2>3 DEF MemoryInit
<1>3. TypeOK
  <2>1. slot \in 0..Cardinality(Ports) /\ meta \in 0..MetaCommands
    BY PortCount DEF MetaCommands
  <2>2. dir \in [0..DirEntries - 1 -> Tables \union {NoPage}]
    BY <1>2
  <2>3. addr \in bus_slot_addr \union {None} /\ machine \in Machines
    BY <1>1
  <2>4. probed \subseteq [bus : Nat, slot : Nat, func : Nat] /\ mapped \subseteq Pages
    OBVIOUS
  <2>5. ahci_ptr \in Pool \union {NoPage} /\ sata_disk0 \in BOOLEAN
    OBVIOUS
  <2> HIDE DEF Init
  <2>6. pc = "paging"
    BY DEF Init
  <2> QED BY <1>2, <2>1, <2>2, <2>3, <2>4, <2>5, <2>6 DEF TypeOK
<1>4. WalkInv
  <2>1. ASSUME NEW a \in machine.present
        PROVE  ~Before(a, First)
    <3>1. a \in [bus : 0..MAX_BUSES - 1, slot : 0..MAX_SLOTS - 1, func : 0..MAX_FUNCS - 1]
      BY PresentFunctions
    <3> HIDE DEF Init
    <3> QED BY <3>1, ScanAssumption DEF Before, First
  <2> QED BY <1>1, <2>1 DEF WalkInv, WalkComplete
<1>5. TablesInv
  <2>1. \A d \in 0..DirEntries - 1 : dir[d] = NoPage /\ dir[d] \notin free_pages
    BY <1>2, TablesArePages
  <2> QED BY <1>2, <2>1 DEF TablesInv, MapIsExact
<1>6. DmaInv /\ HandlerInv /\ PortInv
  BY DEF DmaInv, DmaInState, HandlerInv, InterruptsHaveHandler, PortInv
<1>7. FindInv
  <2>1. pc = "paging" /\ ~sata_disk0 /\ probed = {} /\ slot = 0
    OBVIOUS
  <2> HIDE DEF Init
  <2> QED BY <2>1 DEF FindInv, FindsFirstDisk, Building
<1> QED BY <1>3, <1>4, <1>5, <1>6, <1>7 DEF IInv

\* The inductive invariant of the boot.
THEOREM Invariant == Spec => []IInv
<1>1. IInv /\ [Next]_vars => IInv'
  BY TypeStep, WalkStep, TablesStep, DmaStep, HandlerStep, PortStep, FindStep DEF IInv
<1> QED BY <1>1, InitInvariant, PTL DEF Spec

\* The state keeps its types: in particular the walk stays within the bytes of
\* an address (next_addr), and the tables are pages (try_map).
THEOREM TypeCorrect == Spec => []TypeOK
<1>1. IInv => TypeOK
  BY DEF IInv
<1> QED BY <1>1, Invariant, PTL

\* Whatever answers on the buses, next_addr() leaves no function that answers
\* behind it unread.
THEOREM WalkMissesNothing == Spec => []WalkComplete
<1>1. IInv => WalkComplete
  BY DEF IInv, WalkInv
<1> QED BY <1>1, Invariant, PTL

\* On every machine find() takes the first disk of its controller, with no
\* controller before that one, and misses a disk only after a controller without.
THEOREM FirstDiskFound == Spec => []FindsFirstDisk
<1>1. IInv => FindsFirstDisk
  BY DEF IInv, FindInv
<1> QED BY <1>1, Invariant, PTL

\* Whatever memory held and whichever BARs are mapped, the tables map the
\* kernel's pages and the BARs' to themselves, and nothing else (try_map).
THEOREM MapExact == Spec => []MapIsExact
<1>1. IInv => MapIsExact
  BY DEF IInv, TablesInv
<1> QED BY <1>1, Invariant, PTL

\* An interrupt before there is a disk was enabled by firmware (find, and
\* enable_interrupts in kernel_main).
THEOREM InterruptsHandled == Spec => []InterruptsHaveHandler
<1>1. IInv => InterruptsHaveHandler
  BY DEF IInv, HandlerInv
<1> QED BY <1>1, Invariant, PTL

\* Whatever commands firmware left under way, no transfer uses memory outside
\* the AHCIState once the port has its addresses, unless its page held something
\* that the constructor's memset leaves in place, or firmware left an upper word
\* in the addresses, which the constructor does not write.
THEOREM DmaStaysInState == Spec => []DmaInState
<1>1. IInv => DmaInState
  BY DEF IInv, DmaInv
<1> QED BY <1>1, Invariant, PTL

\* Whatever state firmware left the port in, its addresses are set while it is
\* stopped, and it is started when they are set, frames are received, the link
\* is up and the disk is ready (the constructor of AHCIState).
THEOREM PortProtocol == Spec => PortRulesKept
<1> DEFINE Rule ==
      pc # "ports" =>
        /\ dmaBase' # dmaBase => ~commandRunning /\ ~rfisRunning
        /\ started' /\ ~started =>
             dmaBase.low = "kernel" /\ rfisEnable /\ link = "up" /\ ~busy
<1>1. IInv /\ [Next]_vars => [Rule]_vars
  <2> SUFFICES ASSUME IInv, [Next]_vars
               PROVE  Rule
    OBVIOUS
  <2>1. CASE ProgramPort
    BY <2>1 DEF ProgramPort, PortStopped, control
  <2>2. CASE StartPort
    BY <2>2 DEF StartPort, IInv, DmaInv, PortInv
  <2>3. CASE TakePort
    BY <2>3 DEF TakePort
  <2>4. CASE Disk
    <3>1. dmaBase' = dmaBase
      BY <2>4, DiskLeavesKernel
    <3>2. started' = started
      BY <2>4 DEF Disk, Engines, DiskReady, LinkUp, InterfaceUp, Complete, Fail, Signal,
         control
    <3> QED BY <3>1, <3>2
  <2>5. CASE Walking
    <3>1. dmaBase' = dmaBase /\ started' = started
      BY <2>5, WalkingLeavesPort DEF port, control
    <3> QED BY <3>1
  <2>6. CASE Constructor /\ ~ProgramPort /\ ~StartPort
    <3>1. dmaBase' = dmaBase
      BY <2>6 DEF Constructor, StopPort, EnableReceive, ActivateInterface, IssueMeta,
         AwaitBasic, ClearPending, Found, EnableInterrupts, ReadSuperblock, port
    <3>2. started' = FALSE \/ started' = started
      BY <2>6 DEF Constructor, StopPort, EnableReceive, ActivateInterface, IssueMeta,
         AwaitBasic, ClearPending, Found, EnableInterrupts, ReadSuperblock, port, control
    <3> QED BY <3>1, <3>2
  <2>7. CASE Interrupt
    BY <2>7 DEF Interrupt, control
  <2>8. CASE UNCHANGED vars
    BY <2>8 DEF vars, port, control
  <2> QED BY <2>1, <2>2, <2>3, <2>4, <2>5, <2>6, <2>7, <2>8
          DEF Next, Kernel, Walking, Constructor
<1> QED BY <1>1, Invariant, PTL DEF Spec, PortRulesKept
=============================================================================
