-------------------------------- MODULE Ahci --------------------------------
(***************************************************************************)
(* The AHCI disk driver (src/src/klib/ahci): the kernel's only thread      *)
(* issues a command and polls a word on its stack; the interrupt handler   *)
(* writes that word when the disk reports the command done; the disk runs  *)
(* on its own and is seen through memory-mapped registers.                 *)
(*                                                                         *)
(* Three processes interleave, one step per access to a shared register or *)
(* to state two of them use:                                               *)
(*   - the thread: AHCIState::AHCIState, enable_interrupts, read_or_write; *)
(*   - the interrupt handler, which the single CPU runs to its end before  *)
(*     the thread goes on, but which the disk does not wait for;           *)
(*   - the host bus adapter with its disk (external), which stores through *)
(*     DMA whenever it holds a command.                                    *)
(*                                                                         *)
(* The driver uses command slot 0 only, so ncq_active and command_mask are *)
(* sets of slots that hold slot 0 or nothing.                              *)
(***************************************************************************)
EXTENDS Integers, FiniteSets

CONSTANTS
  Sectors, Buffers, Values,
  NcqSlots,   \* the slots controller and disk have, 1 to 32
  MayFail,    \* whether the disk may fail a command
  MaxNotices  \* bound: non-fatal error interrupts while one command runs

ASSUME NcqSlotsAssumption == NcqSlots \in 1..32
ASSUME MayFailAssumption  == MayFail \in BOOLEAN
ASSUME NoticesAssumption  == MaxNotices \in Nat

Slots     == 0..31
Interrupts == {"DeviceToHost", "NCQComplete", "NonFatal", "Fatal"}
Requests  == [op : {"read", "write"}, sector : Sectors, buf : Buffers]
Meta      == [op |-> "meta"]

\* The three commands of the constructor: Identify and two SetFeatures.
MetaCommands == 3

VARIABLES
  \* AHCIState
  outstanding,   \* _slots_outstanding_mask
  available,     \* _num_slots_available
  ncq_slots,     \* _num_ncq_slots
  hooked,        \* the slots with a non-null _slot_status entry
  \* the thread
  pc, metaDone, command, r, result,
  interruptsOn,  \* the CPU's interrupt flag while the thread runs
  \* the interrupt handler
  isr, isError,
  \* registers of the port and of the adapter
  command_mask, ncq_active, interrupt_status, tfdError,
  started, commandRunning, global_enable,
  \* the disk
  dev, moved, notices, disk, mem

driver   == <<outstanding, available, ncq_slots, hooked>>
thread   == <<pc, metaDone, command, result, interruptsOn>>
handler  == <<isr, isError>>
ports    == <<command_mask, ncq_active, interrupt_status, tfdError,
              started, commandRunning, global_enable>>
device   == <<dev, moved, notices, disk, mem>>
vars     == <<driver, thread, r, handler, ports, device>>

-----------------------------------------------------------------------------
\* Where the thread is inside read_or_write.
InCall == {"prepare", "active", "issue", "account", "poll", "unhook"}

Init ==
  /\ outstanding = {}
  /\ available = 1
  /\ ncq_slots = 1
  /\ hooked = {}
  /\ pc = "boot"
  /\ metaDone = 0
  /\ command = Meta
  /\ r = "ok"
  /\ result = "none"
  /\ interruptsOn = TRUE       \* kernel_main enables them before find()
  /\ isr = "off"
  /\ isError = FALSE
  /\ command_mask = {}
  /\ ncq_active = {}
  /\ interrupt_status = {}
  /\ tfdError = FALSE
  /\ started = TRUE
  /\ commandRunning = TRUE
  /\ global_enable = FALSE
  /\ dev = "idle"
  /\ moved = FALSE
  /\ notices = 0
  /\ disk \in [Sectors -> Values]
  /\ mem \in [Buffers -> Values]

-----------------------------------------------------------------------------
\* Mutant: the freed slot is not counted back.
AcknowledgeUncounted(acks, status) ==
  /\ outstanding' = outstanding \ acks
  /\ available' = available
  /\ hooked' = hooked \ acks
  /\ r' = IF 0 \in acks \intersect hooked THEN status ELSE r

\* acknowledge() of each slot of acks: the mask is toggled, not cleared.
Acknowledge(acks, status) ==
  /\ outstanding' = (outstanding \ acks) \union (acks \ outstanding)
  /\ available' = available + Cardinality(acks)
  /\ hooked' = hooked \ acks
  /\ r' = IF 0 \in acks \intersect hooked THEN status ELSE r

\* What issue_ncq and issue_meta do to the accounts after the command.
Account ==
  /\ outstanding' = outstanding \union {0}
  /\ available' = available - 1

-----------------------------------------------------------------------------
\* The thread. It moves only when no interrupt handler is running.

\* issue_meta(0, ...): the adapter raises no interrupt yet, and the disk does
\* not see the accounts, so the doorbell and the accounts are one step.
IssueMeta ==
  /\ pc = "boot" /\ metaDone < MetaCommands
  /\ pc' = "await"
  /\ command' = Meta
  /\ command_mask' = command_mask \union {0}
  /\ Account
  /\ UNCHANGED <<ncq_slots, hooked, metaDone, result, interruptsOn, r, handler,
                 ncq_active, interrupt_status, tfdError, started,
                 commandRunning, global_enable, device>>

\* await_basic(0), then, after Identify, the slot count it reported.
AwaitBasic ==
  /\ pc = "await" /\ isr = "off"
  /\ 0 \notin command_mask
  /\ pc' = "boot"
  /\ metaDone' = metaDone + 1
  /\ outstanding' = outstanding \ {0}
  /\ IF metaDone = 0
       THEN available' = NcqSlots /\ ncq_slots' = NcqSlots
       ELSE available' = available + 1 /\ ncq_slots' = ncq_slots
  /\ UNCHANGED <<hooked, command, result, interruptsOn, r, handler, ports, device>>

\* The constructor's last statement: interrupts raised so far are dropped.
ClearPending ==
  /\ pc = "boot" /\ metaDone = MetaCommands
  /\ pc' = "ready"
  /\ interrupt_status' = {}
  /\ UNCHANGED <<driver, metaDone, command, result, interruptsOn, r, handler,
                 command_mask, ncq_active, tfdError, started, commandRunning,
                 global_enable, device>>

EnableInterrupts ==
  /\ pc = "ready"
  /\ pc' = "idle"
  /\ global_enable' = TRUE
  /\ UNCHANGED <<driver, metaDone, command, result, interruptsOn, r, handler,
                 command_mask, ncq_active, interrupt_status, tfdError, started,
                 commandRunning, device>>

\* Between calls the caller writes its own buffers.
Fill(b, v) ==
  /\ pc = "idle" /\ isr = "off"
  /\ mem' = [mem EXCEPT ![b] = v]
  /\ UNCHANGED <<driver, thread, r, handler, ports, dev, moved, notices, disk>>

Call(q) ==
  /\ pc = "idle" /\ isr = "off"
  /\ pc' = "prepare"
  /\ command' = q
  /\ moved' = FALSE
  /\ notices' = 0
  /\ UNCHANGED <<driver, metaDone, result, interruptsOn, r, handler, ports,
                 dev, disk, mem>>

\* Mutant: the command is issued with interrupts still enabled.
LeaveInterruptsOn == interruptsOn' = interruptsOn

\* InterruptGuard: cli, then sti at the end of its scope.
GuardInterrupts == interruptsOn' = FALSE
EndGuard        == interruptsOn' = TRUE

\* The InterruptGuard, r = TryAgain, _slot_status[0] = &r, and the command
\* table of slot 0, which the disk does not read before the doorbell.
Prepare ==
  /\ pc = "prepare" /\ isr = "off"
  /\ pc' = "active"
  /\ GuardInterrupts
  /\ r' = "TryAgain"
  /\ hooked' = hooked \union {0}
  /\ UNCHANGED <<outstanding, available, ncq_slots, metaDone, command, result,
                 handler, ports, device>>

WriteActive ==
  /\ pc = "active" /\ isr = "off"
  /\ pc' = "issue"
  /\ ncq_active' = ncq_active \union {0}
  /\ UNCHANGED <<driver, metaDone, command, result, interruptsOn, r, handler,
                 command_mask, interrupt_status, tfdError, started,
                 commandRunning, global_enable, device>>

WriteIssue ==
  /\ pc = "issue" /\ isr = "off"
  /\ pc' = "account"
  /\ command_mask' = command_mask \union {0}
  /\ UNCHANGED <<driver, metaDone, command, result, interruptsOn, r, handler,
                 ncq_active, interrupt_status, tfdError, started,
                 commandRunning, global_enable, device>>

\* The end of issue_ncq and of the guard's scope.
AccountIssued ==
  /\ pc = "account" /\ isr = "off"
  /\ pc' = "poll"
  /\ Account
  /\ EndGuard
  /\ UNCHANGED <<ncq_slots, hooked, metaDone, command, result, r, handler,
                 ports, device>>

\* Mutant: the thread does not wait for the handler.
PollOnce ==
  /\ pc = "poll" /\ isr = "off"
  /\ pc' = "unhook"
  /\ UNCHANGED <<driver, metaDone, command, result, interruptsOn, r, handler,
                 ports, device>>

Poll ==
  /\ pc = "poll" /\ isr = "off"
  /\ r # "TryAgain"
  /\ pc' = "unhook"
  /\ UNCHANGED <<driver, metaDone, command, result, interruptsOn, r, handler,
                 ports, device>>

\* _slot_status[0] = nullptr; return Ok, whatever r says.
Return ==
  /\ pc = "unhook" /\ isr = "off"
  /\ pc' = "idle"
  /\ hooked' = hooked \ {0}
  /\ result' = "Ok"
  /\ UNCHANGED <<outstanding, available, ncq_slots, metaDone, command,
                 interruptsOn, r, handler, ports, device>>

ThreadRuns ==
  \/ IssueMeta \/ AwaitBasic \/ ClearPending \/ EnableInterrupts
  \/ Prepare \/ WriteActive \/ WriteIssue \/ AccountIssued \/ Poll \/ Return

-----------------------------------------------------------------------------
\* The interrupt handler. The line is level-triggered: it stays raised while
\* the port has an interrupt to report.

EnterHandler ==
  /\ isr = "off" /\ interruptsOn /\ global_enable
  /\ interrupt_status # {}
  /\ isr' = "sample"
  /\ UNCHANGED <<driver, thread, r, isError, ports, device>>

\* The two reads that decide is_error.
SampleError ==
  /\ isr = "sample"
  /\ isr' = "clear"
  /\ isError' = ("Fatal" \in interrupt_status \/ tfdError)
  /\ UNCHANGED <<driver, thread, r, ports, device>>

\* interrupt_status = ~0U, of the port and then of the adapter.
ClearStatus ==
  /\ isr = "clear"
  /\ isr' = "acknowledge"
  /\ interrupt_status' = {}
  /\ UNCHANGED <<driver, thread, r, isError, command_mask, ncq_active, tfdError,
                 started, commandRunning, global_enable, device>>

\* Mutant: the slots the disk has not finished are acknowledged too.
AcksUnfinished == outstanding

\* The slots the disk has finished.
Acks == outstanding \ ncq_active

AcknowledgeDone ==
  /\ isr = "acknowledge"
  /\ isr' = IF isError THEN "abort" ELSE "off"
  /\ Acknowledge(Acks, "ok")
  /\ UNCHANGED <<ncq_slots, thread, isError, ports, device>>

\* handle_error_interrupt: fail what is left, then stop the port.
AbortRest ==
  /\ isr = "abort"
  /\ isr' = "drain"
  /\ Acknowledge(outstanding, "DeviceError")
  /\ started' = FALSE
  /\ UNCHANGED <<ncq_slots, thread, isError, command_mask, ncq_active,
                 interrupt_status, tfdError, commandRunning, global_enable, device>>

\* Mutant: the port is started again without waiting for it to stop.
PortStoppedUnchecked == TRUE

PortStopped == ~commandRunning

\* Wait until the port has stopped, clear serror, start it again.
Restart ==
  /\ isr = "drain"
  /\ PortStopped
  /\ isr' = "off"
  /\ started' = TRUE
  /\ commandRunning' = TRUE
  /\ UNCHANGED <<driver, thread, r, isError, command_mask, ncq_active,
                 interrupt_status, tfdError, global_enable, device>>

HandlerRuns == SampleError \/ ClearStatus \/ AcknowledgeDone \/ AbortRest \/ Restart

-----------------------------------------------------------------------------
\* The adapter and its disk (external).

\* The disk takes the command: a queued one leaves the doorbell at once, a
\* meta command when it is done. The status of an earlier error goes.
Accept ==
  /\ dev = "idle" /\ commandRunning /\ 0 \in command_mask
  /\ dev' = "busy"
  /\ tfdError' = FALSE
  /\ command_mask' = IF command = Meta THEN command_mask ELSE command_mask \ {0}
  /\ UNCHANGED <<driver, thread, r, handler, ncq_active, interrupt_status, started,
                 commandRunning, global_enable, moved, notices, disk, mem>>

\* The DMA transfer of the command.
Move ==
  IF command = Meta
    THEN UNCHANGED <<disk, mem, moved>>
    ELSE /\ moved' = TRUE
         /\ IF command.op = "read"
              THEN /\ mem' = [mem EXCEPT ![command.buf] = disk[command.sector]]
                   /\ disk' = disk
              ELSE /\ disk' = [disk EXCEPT ![command.sector] = mem[command.buf]]
                   /\ mem' = mem

Transfer ==
  /\ dev = "busy"
  /\ dev' = "moved"
  /\ Move
  /\ UNCHANGED <<driver, thread, r, handler, ports, notices>>

\* The registers show the command done, and then the interrupt is raised.
Finish ==
  /\ dev = "moved"
  /\ dev' = "signal"
  /\ ncq_active' = ncq_active \ {0}
  /\ command_mask' = IF command = Meta THEN command_mask \ {0} ELSE command_mask
  /\ UNCHANGED <<driver, thread, r, handler, interrupt_status, tfdError, started,
                 commandRunning, global_enable, moved, notices, disk, mem>>

Signal ==
  /\ dev = "signal"
  /\ dev' = "idle"
  /\ interrupt_status' = interrupt_status \union
       {IF command = Meta THEN "DeviceToHost" ELSE "NCQComplete"}
  /\ UNCHANGED <<driver, thread, r, handler, command_mask, ncq_active, tfdError,
                 started, commandRunning, global_enable, moved, notices, disk, mem>>

\* An error the adapter recovers from: the command goes on.
Notice ==
  /\ dev \in {"busy", "moved"} /\ notices < MaxNotices
  /\ notices' = notices + 1
  /\ interrupt_status' = interrupt_status \union {"NonFatal"}
  /\ UNCHANGED <<driver, thread, r, handler, command_mask, ncq_active, tfdError,
                 started, commandRunning, global_enable, dev, moved, disk, mem>>

\* The command fails; it stays in ncq_active until the port is stopped.
Fail ==
  /\ MayFail
  /\ dev \in {"busy", "moved"}
  /\ dev' = "failing"
  /\ tfdError' = TRUE
  /\ interrupt_status' = interrupt_status \union {"Fatal"}
  /\ UNCHANGED <<driver, thread, r, handler, command_mask, ncq_active, started,
                 commandRunning, global_enable, moved, notices, disk, mem>>

\* CommandRunning is what says that no more DMA comes: a transfer under way
\* when the command failed may still land before that.
LateTransfer ==
  /\ dev = "failing" /\ ~moved /\ commandRunning
  /\ Move
  /\ UNCHANGED <<driver, thread, r, handler, ports, dev, notices>>

\* Start was cleared: the adapter forgets its commands and stops running.
Stop ==
  /\ ~started /\ commandRunning
  /\ commandRunning' = FALSE
  /\ command_mask' = {}
  /\ ncq_active' = {}
  /\ dev' = "idle"
  /\ UNCHANGED <<driver, thread, r, handler, interrupt_status, tfdError, started,
                 global_enable, moved, notices, disk, mem>>

DeviceRuns == Accept \/ Transfer \/ Finish \/ Signal \/ Stop

-----------------------------------------------------------------------------
Next ==
  \/ ThreadRuns
  \/ \E b \in Buffers, v \in Values : Fill(b, v)
  \/ \E q \in Requests : Call(q)
  \/ EnterHandler \/ HandlerRuns
  \/ DeviceRuns \/ Notice \/ Fail \/ LateTransfer

SafeSpec == Init /\ [][Next]_vars

\* The CPU keeps executing, an interrupt that stays raised is delivered, and
\* the disk makes progress with what it was given.
Fairness ==
  /\ WF_vars(ThreadRuns)
  /\ WF_vars(EnterHandler)
  /\ WF_vars(HandlerRuns)
  /\ WF_vars(DeviceRuns)

Spec == SafeSpec /\ Fairness
-----------------------------------------------------------------------------
\* Types of the state, and the range of the count of free slots, which a
\* spurious acknowledgement would leave.
TypeOK ==
  /\ outstanding \in SUBSET {0}
  /\ available \in 0..NcqSlots
  /\ ncq_slots \in {1, NcqSlots}
  /\ hooked \in SUBSET {0}
  /\ pc \in InCall \union {"boot", "await", "ready", "idle"}
  /\ metaDone \in 0..MetaCommands
  /\ command \in Requests \union {Meta}
  /\ r \in {"TryAgain", "ok", "DeviceError"}
  /\ result \in {"none", "Ok"}
  /\ interruptsOn \in BOOLEAN
  /\ isr \in {"off", "sample", "clear", "acknowledge", "abort", "drain"}
  /\ isError \in BOOLEAN
  /\ command_mask \in SUBSET {0}
  /\ ncq_active \in SUBSET {0}
  /\ interrupt_status \in SUBSET Interrupts
  /\ tfdError \in BOOLEAN
  /\ started \in BOOLEAN
  /\ commandRunning \in BOOLEAN
  /\ global_enable \in BOOLEAN
  /\ dev \in {"idle", "busy", "moved", "signal", "failing"}
  /\ moved \in BOOLEAN
  /\ notices \in 0..MaxNotices
  /\ disk \in [Sectors -> Values]
  /\ mem \in [Buffers -> Values]

\* The free-slot count and the outstanding mask, which acknowledge() and
\* issue_ncq() update separately (one of them by xor), always agree, and no
\* slot is still outstanding when the thread is between calls.
SlotAccounting ==
  /\ available + Cardinality(outstanding) = ncq_slots
  /\ pc = "idle" => outstanding = {}

\* The disk holds a command that may still store to or load from memory.
MayDma ==
  0 \in command_mask \/ dev = "busy" \/ (dev = "failing" /\ ~moved)

\* Nothing outlives the call it belongs to: while the disk may touch the
\* caller's buffer the call has not seen its answer, and _slot_status points
\* at the local variable r only inside the call.
NothingDangles ==
  /\ MayDma => pc \in (IF command = Meta THEN {"await"} ELSE {"account", "poll"})
  /\ hooked # {} => pc \in InCall \ {"prepare"}

\* The handler reports a command done (acknowledge(slot, 0)) only after the
\* disk has moved that command's data, whatever interrupts came before.
CompletionIsReal ==
  pc \in {"poll", "unhook"} /\ r = "ok" => moved

\* Every read or write that is called returns.
CallReturns ==
  pc = "prepare" ~> pc = "idle"

-----------------------------------------------------------------------------
\* Seen from its callers the driver is a DiskService.
ServicePhase ==
  IF pc \notin InCall THEN "idle" ELSE IF moved THEN "done" ELSE "asked"

Service == INSTANCE DiskService WITH
  phase   <- ServicePhase,
  request <- IF command = Meta THEN CHOOSE q \in Requests : TRUE ELSE command

\* With a disk that does not fail, the driver implements the service: each
\* transfer happens once, between call and return, and every call returns.
ImplementsService == Service!Spec
=============================================================================
