-------------------------------- MODULE Boot --------------------------------
(***************************************************************************)
(* The kernel's way from kernel_main (kernel/kernel.cc) to the shell: it   *)
(* sets up paging, enables interrupts, walks configuration space for the   *)
(* first AHCI controller with a disk (AHCIState::find, klib/ahci/ahci.cc), *)
(* maps the controller's registers, brings the disk's port up (the         *)
(* constructor of AHCIState) and looks for a file system.                  *)
(*                                                                         *)
(* The port (external) runs on its own: its engines start and stop, its    *)
(* link comes up, and its commands end while the kernel polls. Firmware    *)
(* left it in any state, its own commands still under way and any upper    *)
(* words in its addresses; it is read for the first time, and so chosen,   *)
(* when find() accepts the port.                                           *)
(***************************************************************************)
EXTENDS PciScan, PageTables, FiniteSets

CONSTANTS
  Ports,         \* the ports a controller may have, 0 to 31
  PortsPerPage,  \* the ports whose registers lie in the page of BAR 5, 30
  Machines,      \* what may be found on the buses
  FirmwarePorts  \* how firmware may leave a port

MetaCommands == 3   \* Identify and two SetFeatures
Slots == 0..31

\* A controller has registers at the page bar, or, when firmware gave it none,
\* at Null; some ports, and a device on some of these.
Controllers == [bar : Pages, ports : SUBSET Ports, devices : SUBSET Ports]

\* The functions that answer, those of them that are AHCI controllers, and the
\* functions 0 with the multi-function bit, without which the other functions
\* of a device do not answer.
IsMachine(m) ==
  /\ m.present \subseteq Functions
  /\ \E fs \in SUBSET m.present : m.hba \in [fs -> Controllers]
  /\ m.multi \subseteq {a \in m.present : a.func = 0}
  /\ \A a \in m.present : a.func # 0 => [a EXCEPT !.func = 0] \in m.multi

ASSUME PortsAssumption ==
  IsFiniteSet(Ports) /\ Ports = 0..Cardinality(Ports) - 1 /\ PortsPerPage \in Nat
ASSUME MachinesAssumption == \A m \in Machines : IsMachine(m)
ASSUME FirmwareAssumption ==
  \A left \in FirmwarePorts :
    /\ left \in [running : BOOLEAN, busy : BOOLEAN, commands : SUBSET Slots,
                 link : {"up", "training", "unpowered"}, high : {"zero", "firmware"}]
    /\ left.commands # {} => left.running

VARIABLES
  pc,
  \* find()
  machine,
  addr,          \* addr_opt
  slot,          \* the parameter slot: the next port to look at
  probed,        \* history: the functions whose subclass was read
  mapped,        \* history: the register pages mapped
  ahci_ptr,      \* the page of the AHCIState
  sata_disk0,    \* whether kernel_main's sata_disk0 is set
  meta,          \* the meta commands done
  \* the controller
  global_hba_control, handedOver,  \* GHC, and whether firmware left interrupts on
  \* the port: PxCMD, PxTFD and PxSSTS, PxCLB and PxFB, PxCI, PxIS
  started, commandRunning, rfisEnable, rfisRunning, interfaceActive,
  busy, link, dmaBase, command_mask, interrupt_status,
  \* the disk
  owed,          \* an interrupt for a command that is done
  failed,        \* a command failed, and no other is carried out
  inherited,     \* history: the commands of firmware's that are under way
  given,         \* history: the port was given the AHCIState's addresses
  wild           \* a transfer since then used memory outside it

walk     == <<machine, addr, slot, probed, mapped>>
memory   == <<dir, tables, free_pages, paging, ahci_ptr>>
ghc      == <<global_hba_control, handedOver>>
control  == <<started, rfisEnable, interfaceActive>>
engines  == <<commandRunning, rfisRunning>>
status   == <<busy, link>>
port     == <<control, engines, status, dmaBase, command_mask, interrupt_status>>
device   == <<owed, failed, inherited, given, wild>>
vars     == <<pc, walk, memory, sata_disk0, meta, ghc, port, device>>

Init ==
  /\ pc = "paging"
  /\ machine \in Machines
  /\ addr = First /\ slot = 0 /\ probed = {} /\ mapped = {}
  /\ MemoryInit
  /\ ahci_ptr = NoPage /\ sata_disk0 = FALSE /\ meta = 0
  /\ global_hba_control = {} /\ handedOver = FALSE
  /\ started = FALSE /\ commandRunning = FALSE
  /\ rfisEnable = FALSE /\ rfisRunning = FALSE
  /\ interfaceActive = FALSE /\ busy = FALSE /\ link = "up"
  /\ dmaBase = [low |-> "firmware", high |-> "zero"]
  /\ command_mask = {} /\ interrupt_status = FALSE
  /\ owed = FALSE /\ failed = FALSE
  /\ inherited = {} /\ given = FALSE /\ wild = FALSE

-----------------------------------------------------------------------------
\* The walk.

Multi(a) == Target(a) \in machine.multi
IsHba(a) == Target(a) \in DOMAIN machine.hba
Hba(a)   == machine.hba[Target(a)]

\* Class 1, subclass 6, and BAR 5 set.
Usable(a) == IsHba(a) /\ Hba(a).bar # Null

StartPaging ==
  /\ pc = "paging"
  /\ pc' = "interrupts"
  /\ SetupPagedir
  /\ UNCHANGED <<walk, ahci_ptr, sata_disk0, meta, ghc, port, device>>

\* The interrupt controllers and the descriptor table are set up before this.
InterruptsOn ==
  /\ pc = "interrupts"
  /\ pc' = "probe"
  /\ UNCHANGED <<walk, memory, sata_disk0, meta, ghc,
                 port, device>>

\* The loop's next round, or the None after its last one, which kernel_main
\* does not survive ("Unable to find hard disk").
Advance ==
  /\ addr' = NextAddr(addr, Multi(addr))
  /\ pc' = IF addr' = None THEN "no disk" ELSE "probe"

Probe == probed' = probed \union {Target(addr)}

Skip ==
  /\ pc = "probe" /\ ~Usable(addr)
  /\ Probe
  /\ Advance
  /\ UNCHANGED <<machine, slot, mapped, memory, sata_disk0, meta, ghc, port, device>>

\* Mutant: interrupts are enabled together with AHCI mode.
GlobalControlWithInterrupts(value) ==
  value \union {"AHCIEnable", "InterruptEnable"}

\* A controller in AHCI mode keeps its global control.
GlobalControl(value) ==
  IF "AHCIEnable" \in value THEN value ELSE {"AHCIEnable"}

MapRegisters ==
  /\ pc = "probe" /\ Usable(addr)
  /\ Probe
  /\ TryMap(Hba(addr).bar, Hba(addr).bar)
  /\ mapped' = mapped \union {Hba(addr).bar}
  /\ \E left \in {{}, {"AHCIEnable"}, {"AHCIEnable", "InterruptEnable"}} :
       /\ global_hba_control' = GlobalControl(left)
       /\ handedOver' = ("InterruptEnable" \in left)
  /\ pc' = "ports"
  /\ UNCHANGED <<machine, addr, slot, ahci_ptr, sata_disk0, meta, port, device>>

\* "Couldn't map AHCI address in pagetable!"
MapFails ==
  /\ pc = "probe" /\ Usable(addr) /\ TryMapFails(Hba(addr).bar)
  /\ Probe
  /\ pc' = "no memory"
  /\ UNCHANGED <<machine, addr, slot, mapped, memory, sata_disk0, meta, ghc,
                 port, device>>

\* The page of a port's registers; only the page of bar was mapped.
NextPage(p) == IF p[2] + 1 < TableEntries THEN <<p[1], p[2] + 1>> ELSE <<p[1] + 1, 0>>
RegisterPage(p) ==
  IF p < PortsPerPage THEN Hba(addr).bar ELSE NextPage(Hba(addr).bar)

\* Mutant: the last port is left out.
PortLimitShort == Cardinality(Ports) - 1

PortLimit == Cardinality(Ports)

\* The implemented ports the loop comes to, up to p.
LookedAt(p) == {q \in Hba(addr).ports : slot <= q /\ q <= p}

\* A port is taken when its status is not 0.
FirstDevice(p) ==
  /\ p \in LookedAt(p) \intersect Hba(addr).devices
  /\ \A q \in LookedAt(p) : Reachable(RegisterPage(q)) /\ (q < p => q \notin Hba(addr).devices)

NoDevice ==
  /\ pc = "ports"
  /\ \A q \in LookedAt(PortLimit - 1) :
       q \notin Hba(addr).devices /\ Reachable(RegisterPage(q))
  /\ slot' = PortLimit
  /\ Advance
  /\ UNCHANGED <<machine, probed, mapped, memory, sata_disk0, meta, ghc, port, device>>

\* The registers of a port lie beyond the page that was mapped.
PageFault ==
  /\ pc = "ports"
  /\ \E p \in LookedAt(PortLimit - 1) :
       /\ ~Reachable(RegisterPage(p))
       /\ \A q \in LookedAt(p - 1) : q \notin Hba(addr).devices
  /\ pc' = "page fault"
  /\ UNCHANGED <<walk, memory, sata_disk0, meta, ghc, port, device>>

\* kalloc() of the AHCIState and of its cache; a block is its first page.
TakePort ==
  /\ pc = "ports"
  /\ \E p \in Ports : FirstDevice(p) /\ slot' = p
  /\ Cardinality(free_pages) >= 2
  /\ ahci_ptr' = Kalloc
  /\ \E cache \in free_pages \ {Kalloc} : free_pages' = free_pages \ {Kalloc, cache}
  /\ \E left \in FirmwarePorts :
       /\ started' = left.running /\ commandRunning' = left.running
       /\ rfisEnable' = left.running /\ rfisRunning' = left.running
       /\ busy' = left.busy
       /\ link' = left.link
       /\ dmaBase' = [dmaBase EXCEPT !.high = left.high]
       /\ command_mask' = left.commands /\ inherited' = left.commands
  /\ pc' = "stop"
  /\ UNCHANGED <<machine, addr, probed, mapped, dir, tables, paging, sata_disk0,
                 meta, ghc, interfaceActive, interrupt_status, owed, failed,
                 given, wild>>

\* "Could not allocate enough space for AHCI metadata", or for its cache.
KallocFails ==
  /\ pc = "ports"
  /\ \E p \in Ports : FirstDevice(p)
  /\ pc' = "no memory"
  /\ UNCHANGED <<walk, memory, sata_disk0, meta, ghc, port, device>>

-----------------------------------------------------------------------------
\* The constructor of AHCIState. The memset in it stores every byte at the
\* first address (klib/util.hh), so _dma keeps what its page held.

\* The controller may use the bus from here on.
StopPort ==
  /\ pc = "stop"
  /\ pc' = "stopping"
  /\ started' = FALSE /\ rfisEnable' = FALSE
  /\ UNCHANGED <<walk, memory, sata_disk0, meta, ghc, interfaceActive, engines,
                 status, dmaBase, command_mask, interrupt_status, device>>

\* Mutant: only the command engine is waited for.
PortStoppedCommands == ~commandRunning
\* Mutant: only the frames are waited for, and firmware's commands go on.
PortStoppedFrames == ~rfisRunning

PortStopped == ~commandRunning /\ ~rfisRunning

\* The lower words of the addresses of the command list and of received frames;
\* the upper words are "reserved", and keep what firmware wrote there.
KernelDma == [dmaBase EXCEPT !.low = "kernel"]

\* The bits "power up" are written to the register of issued commands, where
\* they are slots 1 and 2; a stopped port may drop them.
ProgramPort ==
  /\ pc = "stopping" /\ PortStopped
  /\ pc' = "receive"
  /\ dmaBase' = KernelDma /\ given' = TRUE
  /\ command_mask' \in {command_mask, command_mask \union {1, 2}}
  /\ interrupt_status' = FALSE
  /\ UNCHANGED <<walk, memory, sata_disk0, meta, ghc, control, engines, status,
                 owed, failed, inherited, wild>>

EnableReceive ==
  /\ pc = "receive"
  /\ pc' = "ready"
  /\ rfisEnable' = TRUE
  /\ UNCHANGED <<walk, memory, sata_disk0, meta, ghc, started, interfaceActive,
                 engines, status, dmaBase, command_mask, interrupt_status,
                 device>>

PortReady == ~busy /\ link = "up"

ActivateInterface ==
  /\ pc = "ready" /\ PortReady
  /\ pc' = "interface"
  /\ interfaceActive' = TRUE
  /\ UNCHANGED <<walk, memory, sata_disk0, meta, ghc, started, rfisEnable,
                 engines, status, dmaBase, command_mask, interrupt_status,
                 device>>

StartPort ==
  /\ pc = "interface" /\ ~interfaceActive
  /\ pc' = "issue"
  /\ started' = TRUE
  /\ UNCHANGED <<walk, memory, sata_disk0, meta, ghc, rfisEnable,
                 interfaceActive, engines, status, dmaBase, command_mask,
                 interrupt_status, device>>

IssueMeta ==
  /\ pc = "issue" /\ meta < MetaCommands
  /\ pc' = "await"
  /\ command_mask' = command_mask \union {0}
  /\ UNCHANGED <<walk, memory, sata_disk0, meta, ghc, control, engines, status,
                 dmaBase, interrupt_status, device>>

AwaitBasic ==
  /\ pc = "await" /\ 0 \notin command_mask
  /\ pc' = "issue"
  /\ meta' = meta + 1
  /\ UNCHANGED <<walk, memory, sata_disk0, ghc, port, device>>

\* "Finally, clear pending interrupts again."
ClearPending ==
  /\ pc = "issue" /\ meta = MetaCommands
  /\ pc' = "found"
  /\ interrupt_status' = FALSE
  /\ UNCHANGED <<walk, memory, sata_disk0, meta, ghc, control, engines, status,
                 dmaBase, command_mask, device>>

\* kernel_main again.
Found ==
  /\ pc = "found"
  /\ pc' = "enable"
  /\ sata_disk0' = TRUE
  /\ UNCHANGED <<walk, memory, meta, ghc, port, device>>

EnableInterrupts ==
  /\ pc = "enable"
  /\ pc' = "superblock"
  /\ global_hba_control' = global_hba_control \union {"InterruptEnable"}
  /\ UNCHANGED <<walk, memory, sata_disk0, meta, handedOver, port, device>>

\* The read itself is module Ahci's; the disk may hold anything, and
\* kernel_main does not go on without the signature of ext2.
ReadSuperblock ==
  /\ pc = "superblock"
  /\ pc' \in {"shell", "no file system"}
  /\ UNCHANGED <<walk, memory, sata_disk0, meta, ghc, port, device>>

\* Where the kernel stays: the shell, a failed assertion, or a fault.
Ended == {"shell", "no disk", "no memory", "page fault", "no file system",
          "exception"}

\* exception_handler(): the disk's handler, module Ahci's, clears the status;
\* while there is no disk the interrupt is an exception nobody expects.
Interrupt ==
  /\ "InterruptEnable" \in global_hba_control /\ interrupt_status
  /\ pc \notin Ended
  /\ IF sata_disk0
       THEN interrupt_status' = FALSE /\ pc' = pc
       ELSE pc' = "exception" /\ UNCHANGED interrupt_status
  /\ UNCHANGED <<walk, memory, sata_disk0, meta, ghc, control, engines, status,
                 dmaBase, command_mask, device>>

-----------------------------------------------------------------------------
\* The port and its disk (external).

\* A port that stops forgets its commands, and that one of them failed.
Engines ==
  /\ \/ /\ started /\ ~commandRunning
        /\ commandRunning' = TRUE
        /\ UNCHANGED <<rfisRunning, command_mask, failed, inherited>>
     \/ /\ ~started /\ commandRunning
        /\ commandRunning' = FALSE
        /\ command_mask' = {} /\ inherited' = {} /\ failed' = FALSE
        /\ UNCHANGED rfisRunning
     \/ /\ rfisEnable # rfisRunning
        /\ rfisRunning' = rfisEnable
        /\ UNCHANGED <<commandRunning, command_mask, failed, inherited>>
  /\ UNCHANGED <<pc, walk, memory, sata_disk0, meta, ghc, control, status,
                 dmaBase, interrupt_status, owed, given, wild>>

\* Both words of the addresses lead to the AHCIState.
AtState == dmaBase = [low |-> "kernel", high |-> "zero"]

\* The frame that reports the disk ready is received.
DiskReady ==
  /\ busy /\ rfisRunning
  /\ busy' = FALSE
  /\ wild' = (wild \/ (given /\ ~AtState))
  /\ UNCHANGED <<pc, walk, memory, sata_disk0, meta, ghc, control, engines, link,
                 dmaBase, command_mask, interrupt_status, owed, failed,
                 inherited, given>>

LinkUp ==
  /\ link = "training"
  /\ link' = "up"
  /\ UNCHANGED <<pc, walk, memory, sata_disk0, meta, ghc, control, engines, busy,
                 dmaBase, command_mask, interrupt_status, device>>

InterfaceUp ==
  /\ interfaceActive
  /\ interfaceActive' = FALSE
  /\ UNCHANGED <<pc, walk, memory, sata_disk0, meta, ghc, started, rfisEnable,
                 engines, status, dmaBase, command_mask, interrupt_status, device>>

\* A command is carried out with the list and the tables that the addresses lead
\* to. The tables of the AHCIState have an entry for a command of its own, and
\* for any other only what its page held.
Complete(s) ==
  /\ s \in command_mask /\ commandRunning /\ ~failed
  /\ command_mask' = command_mask \ {s} /\ inherited' = inherited \ {s}
  /\ owed' = TRUE
  /\ wild' \in IF ~given THEN {wild}
              ELSE IF s \in inherited \/ ~AtState THEN {TRUE}
              ELSE {wild, wild \/ tables[ahci_ptr] # EmptyTable}
  /\ UNCHANGED <<pc, walk, memory, sata_disk0, meta, ghc, control, engines,
                 status, dmaBase, interrupt_status, failed, given>>

\* A command fails, and the port carries out no other until it is stopped.
Fail ==
  /\ command_mask # {} /\ commandRunning /\ ~failed
  /\ failed' = TRUE
  /\ owed' = TRUE
  /\ UNCHANGED <<pc, walk, memory, sata_disk0, meta, ghc, control, engines,
                 status, dmaBase, command_mask, interrupt_status, inherited,
                 given, wild>>

Signal ==
  /\ owed
  /\ owed' = FALSE
  /\ interrupt_status' = TRUE
  /\ UNCHANGED <<pc, walk, memory, sata_disk0, meta, ghc, control, engines,
                 status, dmaBase, command_mask, failed, inherited, given, wild>>

-----------------------------------------------------------------------------
Kernel ==
  \/ StartPaging \/ InterruptsOn
  \/ Skip \/ MapRegisters \/ MapFails \/ NoDevice \/ PageFault
  \/ TakePort \/ KallocFails
  \/ StopPort \/ ProgramPort \/ EnableReceive \/ ActivateInterface \/ StartPort
  \/ IssueMeta \/ AwaitBasic \/ ClearPending
  \/ Found \/ EnableInterrupts \/ ReadSuperblock

Disk ==
  \/ Engines \/ DiskReady \/ LinkUp \/ InterfaceUp
  \/ \E s \in command_mask : Complete(s)
  \/ Fail \/ Signal

Next == Kernel \/ Interrupt \/ Disk

\* The processor goes on, and the port carries out what it was told.
Fairness ==
  /\ WF_vars(Kernel) /\ WF_vars(Interrupt)
  /\ WF_vars(Engines) /\ WF_vars(DiskReady) /\ WF_vars(LinkUp)
  /\ WF_vars(InterfaceUp) /\ WF_vars(Complete(0)) /\ WF_vars(Signal)

Spec == Init /\ [][Next]_vars /\ Fairness
-----------------------------------------------------------------------------
\* Types of the state.
TypeOK ==
  /\ pc \in {"paging", "interrupts", "probe", "ports", "stop", "stopping",
            "receive", "ready", "interface", "issue", "await", "found",
            "enable", "superblock"} \union Ended
  /\ machine \in Machines
  /\ addr \in bus_slot_addr \union {None}
  /\ slot \in 0..Cardinality(Ports)
  /\ probed \subseteq [bus : Nat, slot : Nat, func : Nat] /\ mapped \subseteq Pages
  /\ dir \in [0..DirEntries - 1 -> Tables \union {NoPage}]
  /\ tables \in [Tables -> TableType]
  /\ free_pages \subseteq Pool /\ paging \in BOOLEAN
  /\ ahci_ptr \in Pool \union {NoPage}
  /\ meta \in 0..MetaCommands /\ sata_disk0 \in BOOLEAN

\* The walk misses nothing: what find() has left behind it was looked at, and
\* "Unable to find hard disk" is said of all functions of all buses, although
\* the slot after a multi-function device in the last slot does not exist.
WalkComplete ==
  \A a \in machine.present : Before(a, addr) => a \in probed

\* With paging on, address 0 is not mapped, the pages of the kernel and those
\* of registers that were mapped are mapped to themselves, and nothing else is,
\* whatever the pages that became tables held.
MapIsExact ==
  paging =>
    \A p \in Pages :
      Translate(p) = IF p \in KernelPages \union mapped THEN p ELSE NoPage

\* A controller with a disk, and one without.
With(a)    == Usable(a) /\ Hba(a).devices \intersect Hba(a).ports # {}
Without(a) == Usable(a) /\ Hba(a).devices \intersect Hba(a).ports = {}

\* The disk that find() takes is the first of its controller, and no controller
\* stands before that. The walk passes by a controller with a disk only after
\* one without ("slot" goes on where that left it), and faults only on a port
\* beyond the page that it mapped, before it comes to a device.
FindsFirstDisk ==
  /\ sata_disk0 =>
       /\ slot \in Hba(addr).devices \intersect Hba(addr).ports
       /\ \A p \in Hba(addr).devices \intersect Hba(addr).ports : slot <= p
       /\ \A a \in Functions : Before(a, addr) => ~Usable(a)
  /\ pc \in {"probe", "no disk"} /\ (\E a \in probed : With(a)) =>
       \E b \in probed : Without(b)
  /\ pc = "page fault" =>
       \E p \in Hba(addr).ports :
         /\ p >= PortsPerPage
         /\ \A q \in Hba(addr).devices \intersect Hba(addr).ports : p <= q

\* The controller raises no interrupt before the kernel has a disk to handle it
\* with, unless firmware handed it over with interrupts enabled, which find()
\* does not look at: interrupts are on from before the walk.
InterruptsHaveHandler == pc = "exception" => handedOver

\* Once the port has the addresses of the AHCIState, no transfer uses memory
\* outside it, and none carries out a command of firmware's: unless the page of
\* the AHCIState held something, which the memset of _dma does not clear, or the
\* upper words of the addresses did, which the constructor does not write.
DmaInState == wild => tables[ahci_ptr] # EmptyTable \/ dmaBase.high # "zero"

\* The rules of the adapter, for the port that find() has taken: the addresses
\* of its structures change while both engines stand still, and it is started
\* once they are the kernel's, frames are received, the link is up and the disk
\* is ready.
PortRulesKept ==
  [][pc # "ports" =>
       /\ dmaBase' # dmaBase => ~commandRunning /\ ~rfisRunning
       /\ started' /\ ~started =>
            dmaBase.low = "kernel" /\ rfisEnable /\ link = "up" /\ ~busy]_vars

=============================================================================
