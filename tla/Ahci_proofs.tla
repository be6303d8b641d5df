----------------------------- MODULE Ahci_proofs -----------------------------
(***************************************************************************)
(* The driver's safety properties, proved for every disk, any number of    *)
(* slots and any number of error interrupts. The four of them rest on one  *)
(* inductive invariant, which says at each place of the thread what the    *)
(* handler and the disk can be doing.                                      *)
(*                                                                         *)
(* Then those of its buffer cache (AhciCache), which shares no state with  *)
(* the rest of the driver and has an invariant of its own.                 *)
(***************************************************************************)
EXTENDS Ahci, AhciCache, FiniteSetTheorems, WellFoundedInduction, TLAPS

\* Where the thread is while it boots, and while interrupts are disabled.
Booting == pc \in {"boot", "await", "ready"}
Guarded == pc \in {"active", "issue", "account"}

\* The disk has started the command, or has been asked to.
Busy   == dev \in {"busy", "moved", "failing"}
Asked  == 0 \in command_mask \/ Busy

\* What each place of the thread says of the slot's accounts and of r.
SlotInv ==
  /\ available + (IF 0 \in outstanding THEN 1 ELSE 0) = ncq_slots
  /\ pc = "await" => 0 \in outstanding /\ metaDone < MetaCommands
  /\ pc \notin {"await", "poll"} => 0 \notin outstanding
  /\ pc = "poll" => (0 \in outstanding <=> r = "TryAgain")
  /\ Guarded => r = "TryAgain"

\* The entry of _slot_status is there while the slot is outstanding.
HookInv ==
  /\ Guarded => 0 \in hooked
  /\ pc = "poll" /\ 0 \in outstanding => 0 \in hooked
  /\ 0 \in hooked => pc \in InCall \ {"prepare"}

\* When the handler can run, and what it does to the port.
HandlerInv ==
  /\ global_enable <=> ~Booting
  /\ interruptsOn <=> ~Guarded
  /\ isr # "off" => ~Booting /\ ~Guarded
  /\ started <=> isr # "drain"
  /\ isr = "drain" => 0 \notin outstanding
  /\ ~commandRunning => isr = "drain" /\ 0 \notin ncq_active /\ ~Asked

\* What the disk can hold, for the constructor's commands and for queued ones.
MetaInv ==
  /\ Booting => command = Meta
  /\ pc \in InCall => command # Meta
  /\ command = Meta =>
       /\ 0 \notin ncq_active
       /\ Busy => 0 \in command_mask
       /\ 0 \in command_mask => pc = "await"

QueuedInv ==
  command # Meta =>
    /\ Asked => 0 \in ncq_active /\ pc \in {"account", "poll"}
    /\ Busy => 0 \notin command_mask
    /\ pc = "issue" => 0 \in ncq_active
    /\ 0 \in ncq_active => pc \in {"issue", "account", "poll"}
    /\ pc = "poll" /\ 0 \notin outstanding /\ isr # "drain" => 0 \notin ncq_active

\* When the data has moved.
MovedInv ==
  /\ command # Meta /\ dev = "moved" => moved
  /\ pc = "account" /\ 0 \notin ncq_active => moved
  /\ pc = "poll" /\ 0 \in outstanding /\ 0 \notin ncq_active => moved
  /\ pc \in {"poll", "unhook"} /\ r = "ok" => moved

IInv == /\ TypeOK /\ SlotInv /\ HookInv /\ HandlerInv
        /\ MetaInv /\ QueuedInv /\ MovedInv
-----------------------------------------------------------------------------
\* The driver uses one slot, so the size of a set of slots is 0 or 1.
LEMMA OneSlot ==
  ASSUME NEW S \in SUBSET {0}
  PROVE  Cardinality(S) = (IF 0 \in S THEN 1 ELSE 0)
<1>1. CASE S = {}
  BY <1>1, FS_EmptySet
<1>2. CASE S = {0}
  BY <1>2, FS_Singleton
<1> QED
  BY <1>1, <1>2

\* What the transfer of a queued command needs to know of a request.
LEMMA RequestFields ==
  ASSUME NEW q \in Requests
  PROVE  q # Meta /\ q.op \in {"read", "write"} /\ q.sector \in Sectors /\ q.buf \in Buffers
BY DEF Requests, Meta

\* A transfer keeps the types of disk and memory.
LEMMA MoveTypes ==
  ASSUME TypeOK, Move
  PROVE  /\ disk' \in [Sectors -> Values]
         /\ mem' \in [Buffers -> Values]
         /\ moved' = (IF command = Meta THEN moved ELSE TRUE)
<1>1. CASE command = Meta
  BY <1>1 DEF Move, TypeOK
<1>2. CASE command # Meta
  <2>1. command \in Requests
    BY <1>2 DEF TypeOK
  <2> QED
    BY <1>2, <2>1, RequestFields DEF Move, TypeOK
<1> QED
  BY <1>1, <1>2

\* The invariant holds initially.
LEMMA InitIInv == Init => IInv
<1> SUFFICES ASSUME Init PROVE IInv
  OBVIOUS
<1> USE NcqSlotsAssumption, NoticesAssumption
<1>1. TypeOK
  <2>1. available \in 0..NcqSlots /\ notices \in 0..MaxNotices /\ metaDone \in 0..MetaCommands
    BY DEF Init, MetaCommands
  <2> QED
    BY <2>1 DEF Init, TypeOK, InCall
<1>2. SlotInv /\ HookInv /\ HandlerInv
  BY DEF Init, SlotInv, HookInv, HandlerInv, Booting, Guarded, Asked, Busy, InCall
<1>3. MetaInv /\ QueuedInv /\ MovedInv
  BY DEF Init, MetaInv, QueuedInv, MovedInv, Booting, Busy, Asked, InCall
<1> QED
  BY <1>1, <1>2, <1>3 DEF IInv

\* Every step preserves the invariant.
LEMMA NextIInv == IInv /\ [Next]_vars => IInv'
<1> SUFFICES ASSUME IInv, [Next]_vars PROVE IInv'
  OBVIOUS
<1> USE NcqSlotsAssumption, NoticesAssumption
<1> USE DEF IInv, TypeOK, SlotInv, HookInv, HandlerInv, MetaInv, QueuedInv,
            MovedInv, Booting, Guarded, Busy, Asked, InCall, MetaCommands,
            driver, thread, handler, ports, device, Interrupts
<1>1. CASE IssueMeta
  BY <1>1, OneSlot DEF IssueMeta, Account
<1>2. CASE AwaitBasic
  BY <1>2, OneSlot DEF AwaitBasic
<1>3. CASE ClearPending
  BY <1>3, OneSlot DEF ClearPending
<1>4. CASE EnableInterrupts
  BY <1>4, OneSlot DEF EnableInterrupts
<1>5. CASE Prepare
  BY <1>5, OneSlot DEF Prepare, GuardInterrupts
<1>6. CASE WriteActive
  BY <1>6, OneSlot DEF WriteActive
<1>7. CASE WriteIssue
  <2>1. TypeOK'
    BY <1>7 DEF WriteIssue
  <2>2. SlotInv' /\ HookInv'
    BY <1>7 DEF WriteIssue
  <2>3. HandlerInv'
    BY <1>7 DEF WriteIssue
  <2>0. ~Busy /\ command # Meta /\ 0 \in ncq_active
    BY <1>7 DEF WriteIssue
  <2>4. MetaInv' /\ QueuedInv'
    BY <1>7, <2>0 DEF WriteIssue
  <2>5. MovedInv'
    BY <1>7, <2>0 DEF WriteIssue
  <2> QED
    BY <2>1, <2>2, <2>3, <2>4, <2>5 DEF IInv
<1>8. CASE AccountIssued
  BY <1>8, OneSlot DEF AccountIssued, Account, EndGuard
<1>9. CASE Poll
  BY <1>9, OneSlot DEF Poll
<1>10. CASE Return
  BY <1>10, OneSlot DEF Return
<1>11. CASE EnterHandler
  BY <1>11, OneSlot DEF EnterHandler
<1>12. CASE SampleError
  BY <1>12, OneSlot DEF SampleError
<1>13. CASE ClearStatus
  BY <1>13, OneSlot DEF ClearStatus
<1>14. CASE AcknowledgeDone
  BY <1>14, OneSlot DEF AcknowledgeDone, Acknowledge, Acks
<1>15. CASE AbortRest
  <2>0. available' \in 0..NcqSlots /\ outstanding' = {} /\ hooked' \in SUBSET {0}
    BY <1>15, OneSlot DEF AbortRest, Acknowledge
  <2>1. TypeOK'
    BY <1>15, <2>0 DEF AbortRest, Acknowledge
  <2>2. SlotInv' /\ HookInv'
    BY <1>15, OneSlot DEF AbortRest, Acknowledge
  <2>3. HandlerInv'
    BY <1>15 DEF AbortRest, Acknowledge
  <2>4. MetaInv' /\ QueuedInv'
    BY <1>15, OneSlot DEF AbortRest, Acknowledge
  <2>5. MovedInv'
    BY <1>15, OneSlot DEF AbortRest, Acknowledge
  <2> QED
    BY <2>1, <2>2, <2>3, <2>4, <2>5 DEF IInv
<1>16. CASE Restart
  BY <1>16, OneSlot DEF Restart, PortStopped
<1>17. CASE Accept
  <2>1. TypeOK'
    BY <1>17 DEF Accept
  <2>2. SlotInv' /\ HookInv'
    BY <1>17 DEF Accept
  <2>3. HandlerInv'
    BY <1>17 DEF Accept
  <2>4. MetaInv' /\ QueuedInv'
    BY <1>17 DEF Accept
  <2>5. MovedInv'
    BY <1>17 DEF Accept
  <2> QED
    BY <2>1, <2>2, <2>3, <2>4, <2>5 DEF IInv
<1>18. CASE Transfer
  <2>0. disk' \in [Sectors -> Values] /\ mem' \in [Buffers -> Values] /\ moved' \in BOOLEAN
    BY <1>18, MoveTypes DEF Transfer
  <2>1. TypeOK'
    BY <1>18, <2>0 DEF Transfer
  <2>2. SlotInv' /\ HookInv'
    BY <1>18, MoveTypes DEF Transfer
  <2>3. HandlerInv'
    BY <1>18 DEF Transfer
  <2>4. MetaInv' /\ QueuedInv'
    BY <1>18, MoveTypes DEF Transfer
  <2>5. MovedInv'
    BY <1>18, MoveTypes DEF Transfer
  <2> QED
    BY <2>1, <2>2, <2>3, <2>4, <2>5 DEF IInv
<1>19. CASE Finish
  BY <1>19, OneSlot DEF Finish
<1>20. CASE Signal
  BY <1>20, OneSlot DEF Signal
<1>21. CASE Stop
  <2>1. TypeOK'
    BY <1>21 DEF Stop
  <2>2. SlotInv' /\ HookInv'
    BY <1>21 DEF Stop
  <2>3. HandlerInv'
    BY <1>21 DEF Stop
  <2>4. MetaInv' /\ QueuedInv'
    BY <1>21 DEF Stop
  <2>5. MovedInv'
    BY <1>21 DEF Stop
  <2> QED
    BY <2>1, <2>2, <2>3, <2>4, <2>5 DEF IInv
<1>22. CASE Notice
  BY <1>22, OneSlot DEF Notice
<1>23. CASE Fail
  BY <1>23, OneSlot DEF Fail
<1>24. CASE LateTransfer
  <2>0. disk' \in [Sectors -> Values] /\ mem' \in [Buffers -> Values] /\ moved' \in BOOLEAN
    BY <1>24, MoveTypes DEF LateTransfer
  <2>1. TypeOK'
    BY <1>24, <2>0 DEF LateTransfer
  <2>2. SlotInv' /\ HookInv'
    BY <1>24, MoveTypes DEF LateTransfer
  <2>3. HandlerInv'
    BY <1>24 DEF LateTransfer
  <2>4. MetaInv' /\ QueuedInv'
    BY <1>24, MoveTypes DEF LateTransfer
  <2>5. MovedInv'
    BY <1>24, MoveTypes DEF LateTransfer
  <2> QED
    BY <2>1, <2>2, <2>3, <2>4, <2>5 DEF IInv
<1>25. ASSUME NEW b \in Buffers, NEW v \in Values, Fill(b, v) PROVE IInv'
  BY <1>25 DEF Fill
<1>26. ASSUME NEW q \in Requests, Call(q) PROVE IInv'
  <2>0. notices' \in 0..MaxNotices
    BY <1>26 DEF Call
  <2>1. TypeOK'
    BY <1>26, <2>0 DEF Call
  <2>2. SlotInv' /\ HookInv'
    BY <1>26, RequestFields DEF Call
  <2>3. HandlerInv'
    BY <1>26 DEF Call
  <2>4. MetaInv' /\ QueuedInv'
    BY <1>26, RequestFields DEF Call
  <2>5. MovedInv'
    BY <1>26, RequestFields DEF Call
  <2> QED
    BY <2>1, <2>2, <2>3, <2>4, <2>5 DEF IInv
<1>27. CASE UNCHANGED vars
  BY <1>27 DEF vars
<1> QED
  BY <1>1, <1>2, <1>3, <1>4, <1>5, <1>6, <1>7, <1>8, <1>9, <1>10, <1>11, <1>12, <1>13, <1>14, <1>15, <1>16, <1>17, <1>18, <1>19, <1>20, <1>21, <1>22, <1>23, <1>24, <1>25, <1>26, <1>27
     DEF Next, ThreadRuns, HandlerRuns, DeviceRuns

-----------------------------------------------------------------------------
\* The invariant, and so each property below, holds in every reachable state.
THEOREM Invariant == SafeSpec => []IInv
BY InitIInv, NextIInv, PTL DEF SafeSpec

\* The state keeps its types: above all the count of free slots stays between
\* none and all, so no acknowledgement is counted twice.
THEOREM TypeCorrect == SafeSpec => []TypeOK
BY Invariant, PTL DEF IInv

\* Whatever the disk reports, and however often, the xor in acknowledge() only
\* ever clears a bit that is set, and the two accounts agree.
THEOREM AccountsAgree == SafeSpec => []SlotAccounting
<1>1. IInv => SlotAccounting
  BY OneSlot DEF IInv, TypeOK, SlotInv, SlotAccounting
<1> QED
  BY <1>1, Invariant, PTL

\* When a call returns, failed commands included, the disk no longer touches
\* the caller's buffer and the handler no longer holds the address of r.
THEOREM NothingOutlivesTheCall == SafeSpec => []NothingDangles
<1>1. IInv => NothingDangles
  BY DEF IInv, TypeOK, HookInv, MetaInv, QueuedInv, Busy, Asked, InCall,
         NothingDangles, MayDma
<1> QED
  BY <1>1, Invariant, PTL

\* A command is acknowledged as done only after its data has moved.
THEOREM DoneMeansMoved == SafeSpec => []CompletionIsReal
<1>1. IInv => CompletionIsReal
  BY DEF IInv, MovedInv, CompletionIsReal
<1> QED
  BY <1>1, Invariant, PTL

-----------------------------------------------------------------------------
(***************************************************************************)
(* The driver as a DiskService. Two more facts are inductive: a command    *)
(* that the disk may still carry out has not moved its data, and a disk    *)
(* that never fails never takes the handler down its error path.           *)
(***************************************************************************)
OnceInv ==
  /\ pc \in {"prepare", "active", "issue"} => ~moved
  /\ command # Meta /\ (0 \in command_mask \/ dev = "busy") => ~moved
  /\ pc = "unhook" => r # "TryAgain"

NoErrorInv ==
  /\ dev # "failing" /\ ~tfdError /\ "Fatal" \notin interrupt_status
  /\ ~isError /\ isr \notin {"abort", "drain"} /\ r # "DeviceError"

LEMMA InitOnce == Init => OnceInv /\ NoErrorInv
BY DEF Init, OnceInv, NoErrorInv

LEMMA OnceStep ==
  ASSUME IInv, OnceInv, [Next]_vars
  PROVE  OnceInv'
<1> USE DEF IInv, TypeOK, MetaInv, QueuedInv, SlotInv, OnceInv, Booting, Busy, Asked, InCall,
            driver, thread, handler, ports, device
<1>1. CASE ThreadRuns
  BY <1>1 DEF ThreadRuns, IssueMeta, AwaitBasic, ClearPending, EnableInterrupts, Prepare,
              WriteActive, WriteIssue, AccountIssued, Poll, Return, GuardInterrupts, EndGuard
<1>2. CASE HandlerRuns \/ EnterHandler
  BY <1>2 DEF HandlerRuns, EnterHandler, SampleError, ClearStatus, AcknowledgeDone, AbortRest,
              Restart, Acknowledge
<1>3. CASE Accept \/ Finish \/ Signal \/ Stop \/ Notice \/ Fail
  BY <1>3 DEF Accept, Finish, Signal, Stop, Notice, Fail
<1>4. CASE Transfer \/ LateTransfer
  BY <1>4, MoveTypes DEF Transfer, LateTransfer
<1>5. ASSUME NEW b \in Buffers, NEW v \in Values, Fill(b, v) PROVE OnceInv'
  BY <1>5 DEF Fill
<1>6. ASSUME NEW q \in Requests, Call(q) PROVE OnceInv'
  BY <1>6 DEF Call
<1>7. CASE UNCHANGED vars
  BY <1>7 DEF vars
<1> QED
  BY <1>1, <1>2, <1>3, <1>4, <1>5, <1>6, <1>7 DEF Next, DeviceRuns

LEMMA NoErrorStep ==
  ASSUME ~MayFail, IInv, NoErrorInv, [Next]_vars
  PROVE  NoErrorInv'
<1> USE DEF NoErrorInv, driver, thread, handler, ports, device
<1>1. CASE ThreadRuns
  BY <1>1 DEF ThreadRuns, IssueMeta, AwaitBasic, ClearPending, EnableInterrupts, Prepare,
              WriteActive, WriteIssue, AccountIssued, Poll, Return
<1>2. CASE HandlerRuns \/ EnterHandler
  <2>1. CASE SampleError
    BY <2>1 DEF SampleError
  <2>2. CASE ClearStatus \/ EnterHandler
    BY <2>2 DEF ClearStatus, EnterHandler
  <2>3. CASE AcknowledgeDone
    BY <2>3 DEF AcknowledgeDone, Acknowledge
  <2>4. ~AbortRest /\ ~Restart
    BY DEF AbortRest, Restart
  <2> QED
    BY <1>2, <2>1, <2>2, <2>3, <2>4 DEF HandlerRuns
<1>3. CASE Accept \/ Finish \/ Signal \/ Stop \/ Notice \/ Fail
  BY <1>3 DEF Accept, Finish, Signal, Stop, Notice, Fail
<1>4. CASE Transfer \/ LateTransfer
  BY <1>4 DEF Transfer, LateTransfer
<1>5. ASSUME NEW b \in Buffers, NEW v \in Values, Fill(b, v) PROVE NoErrorInv'
  BY <1>5 DEF Fill
<1>6. ASSUME NEW q \in Requests, Call(q) PROVE NoErrorInv'
  BY <1>6 DEF Call
<1>7. CASE UNCHANGED vars
  BY <1>7 DEF vars
<1> QED
  BY <1>1, <1>2, <1>3, <1>4, <1>5, <1>6, <1>7 DEF Next, DeviceRuns

\* The service's phase, place by place.
LEMMA ReturnStep ==
  ASSUME IInv, OnceInv, NoErrorInv, Return
  PROVE  Service!Reply
<1>1. moved
  BY DEF Return, IInv, TypeOK, MovedInv, OnceInv, NoErrorInv
<1> QED
  BY <1>1 DEF Return, Service!Reply, ServicePhase, InCall, ports, handler, device

LEMMA TransferStep ==
  ASSUME IInv, OnceInv, Transfer
  PROVE  Service!Transfer \/ UNCHANGED Service!vars
<1> USE DEF Transfer, Move, ServicePhase, driver, thread
<1>1. CASE command = Meta
  BY <1>1 DEF Service!vars
<1>2. CASE command # Meta
  <2>1. pc \in InCall /\ ~moved
    BY <1>2 DEF IInv, QueuedInv, OnceInv, Busy, Asked, InCall
  <2> QED
    BY <1>2, <2>1 DEF Service!Transfer
<1> QED
  BY <1>1, <1>2

\* Every step of the driver is a step of the service, or one it does not see.
LEMMA ServiceStep ==
  ASSUME IInv, OnceInv, NoErrorInv, [Next]_vars
  PROVE  [Service!Next]_(Service!vars)
<1> USE DEF Service!vars, driver, thread, handler, ports, device
<1>1. CASE IssueMeta
  BY <1>1 DEF IssueMeta, IInv, MetaInv, Booting, ServicePhase, InCall
<1>2. CASE AwaitBasic \/ ClearPending \/ EnableInterrupts
  BY <1>2 DEF AwaitBasic, ClearPending, EnableInterrupts, ServicePhase, InCall
<1>3. CASE Prepare \/ WriteActive \/ WriteIssue \/ AccountIssued \/ Poll
  BY <1>3 DEF Prepare, WriteActive, WriteIssue, AccountIssued, Poll, ServicePhase, InCall
<1>4. CASE Return
  BY <1>4, ReturnStep DEF Service!Next
<1>5. ASSUME NEW b \in Buffers, NEW v \in Values, Fill(b, v)
      PROVE  Service!Next
  <2>1. Service!Fill(b, v)
    BY <1>5 DEF Fill, Service!Fill, ServicePhase, InCall
  <2> QED
    BY <2>1 DEF Service!Next
<1>6. ASSUME NEW q \in Requests, Call(q)
      PROVE  Service!Next
  <2>1. q # Meta /\ q \in Service!Requests
    BY RequestFields DEF Requests, Service!Requests
  <2>2. Service!Ask(q)
    BY <1>6, <2>1 DEF Call, Service!Ask, ServicePhase, InCall
  <2> QED
    BY <2>1, <2>2 DEF Service!Next
<1>7. CASE HandlerRuns \/ EnterHandler
  BY <1>7 DEF HandlerRuns, EnterHandler, SampleError, ClearStatus, AcknowledgeDone, AbortRest,
              Restart, ServicePhase
<1>8. CASE Accept \/ Finish \/ Signal \/ Stop \/ Notice \/ Fail
  BY <1>8 DEF Accept, Finish, Signal, Stop, Notice, Fail, ServicePhase
<1>9. CASE Transfer
  BY <1>9, TransferStep DEF Service!Next
<1>10. ~LateTransfer
  BY DEF LateTransfer, NoErrorInv
<1>11. CASE UNCHANGED vars
  BY <1>11 DEF vars, ServicePhase
<1> QED
  BY <1>1, <1>2, <1>3, <1>4, <1>5, <1>6, <1>7, <1>8, <1>9, <1>10, <1>11
     DEF Next, ThreadRuns, DeviceRuns

\* Over a disk that does not fail, a read or write transfers its sector once,
\* between its call and its return, and nothing else touches the caller's
\* buffers or the disk: the safety half of ImplementsService.
THEOREM ServiceImplemented ==
  ASSUME ~MayFail, Sectors # {}, Buffers # {}
  PROVE  SafeSpec => Service!SafeSpec
<1>1. Init => Service!Init
  <2> SUFFICES ASSUME Init PROVE Service!Init
    OBVIOUS
  <2>1. \E q \in Requests : TRUE
    <3>1. PICK s \in Sectors, b \in Buffers : TRUE
      OBVIOUS
    <3>2. [op |-> "read", sector |-> s, buf |-> b] \in Requests
      BY DEF Requests
    <3> QED
      BY <3>2
  <2> QED
    BY <2>1 DEF Init, Service!Init, Service!Requests, Requests, ServicePhase, InCall
<1>2. SafeSpec => [](OnceInv /\ NoErrorInv)
  <2>1. IInv /\ OnceInv /\ NoErrorInv /\ [Next]_vars => (OnceInv /\ NoErrorInv)'
    BY OnceStep, NoErrorStep
  <2> QED
    BY <2>1, InitOnce, Invariant, PTL DEF SafeSpec
<1>3. IInv /\ OnceInv /\ NoErrorInv /\ [Next]_vars => [Service!Next]_(Service!vars)
  BY ServiceStep
<1> QED
  BY <1>1, <1>2, <1>3, Invariant, PTL DEF SafeSpec, Service!SafeSpec
-----------------------------------------------------------------------------
(***************************************************************************)
(* The driver's buffer cache, for caches of every size, all sectors and    *)
(* all contents. The invariant says in place of the minimum of a set which *)
(* entry is the first with a location, and that only such an entry is ever *)
(* dirty: were another one with the same location dirty,                   *)
(* buffer_with_offset would not find it and what it holds would be lost.   *)
(***************************************************************************)
USE OffsetsAssumption, EntriesAssumption

\* The minimum of a set of natural numbers that is not empty.
LEMMA LeastMember ==
  ASSUME NEW S, S \subseteq Nat, S # {}
  PROVE  Min(S) \in S /\ \A y \in S : Min(S) <= y
<1>1. PICK x \in S : \A y \in S : ~(<<y, x>> \in OpToRel(<, Nat))
  BY NatLessThanWellFounded, WFMin, Zenon
<1>2. \A y \in S : x <= y
  <2> SUFFICES ASSUME NEW y \in S, ~(x <= y) PROVE FALSE
    OBVIOUS
  <2>1. <<y, x>> \in Nat \X Nat /\ y < x
    BY SMT
  <2> QED
    BY <2>1, <1>1 DEF OpToRel
<1> QED
  BY <1>2 DEF Min

LEMMA LeastIsMin ==
  ASSUME NEW S, S \subseteq Nat, NEW x \in S, \A y \in S : x <= y
  PROVE  Min(S) = x
<1> DEFINE m == Min(S)
<1>1. m \in S /\ m <= x
  BY LeastMember
<1> HIDE DEF m
<1>2. x <= m /\ m \in Nat /\ x \in Nat
  BY <1>1
<1>3. m = x
  BY <1>1, <1>2
<1> QED
  BY <1>3 DEF m

LEMMA EntriesAreNat == Entries \subseteq Nat /\ -1 \notin Entries
BY DEF Entries

-----------------------------------------------------------------------------
First(e, o) ==
  /\ e \in Entries /\ locations[e] = o
  /\ \A d \in Entries : locations[d] = o => e <= d

\* Every write-back is owed by a first entry, and every other sector is on
\* the disk as it was last stored.
StoredOrDirty ==
  /\ \A e \in dirty_map : First(e, locations[e]) /\ cells[e] = latest[locations[e]]
  /\ \A o \in Offsets : (\A e \in dirty_map : locations[e] # o) => medium[o] = latest[o]

LoanKept ==
  /\ taken_map \subseteq {lent.entry}
  /\ lent # NoLoan => First(lent.entry, lent.offset)

DriverInv == DriverTypeOK /\ StoredOrDirty /\ LoanKept /\ LentIsLatest

LEMMA InitInv == DriverInit => DriverInv
<1> SUFFICES ASSUME DriverInit PROVE DriverInv
  OBVIOUS
<1>1. DriverTypeOK
  BY DEF DriverInit, DriverTypeOK, Entries
<1>2. StoredOrDirty /\ LoanKept /\ LentIsLatest
  BY DEF DriverInit, StoredOrDirty, LoanKept, LentIsLatest
<1> QED
  BY <1>1, <1>2 DEF DriverInv

\* Which entry get_buffer returns.
LEMMA EntryForIs ==
  ASSUME DriverTypeOK, NEW o \in Offsets, ~CacheFull(o)
  PROVE  /\ EntryFor(o) \in Entries
         /\ WithOffset(o) # {} => First(EntryFor(o), o)
         /\ WithOffset(o) = {} => EntryFor(o) \notin taken_map
<1>1. CASE WithOffset(o) # {}
  <2>1. WithOffset(o) \subseteq Nat
    BY EntriesAreNat DEF WithOffset
  <2>2. Min(WithOffset(o)) \in WithOffset(o) /\ \A d \in WithOffset(o) : Min(WithOffset(o)) <= d
    BY <1>1, <2>1, LeastMember
  <2>3. EntryFor(o) = Min(WithOffset(o))
    BY <1>1 DEF EntryFor
  <2> QED
    BY <1>1, <2>2, <2>3 DEF WithOffset, First
<1>2. CASE WithOffset(o) = {}
  <2> DEFINE S == Entries \ taken_map
  <2>1. S \subseteq Nat /\ S # {}
    BY <1>2, EntriesAreNat DEF CacheFull, DriverTypeOK
  <2>2. Min(S) \in S
    <3> HIDE DEF S
    <3> QED
      BY <2>1, LeastMember
  <2>3. EntryFor(o) = Min(S)
    BY <1>2 DEF EntryFor
  <2> QED
    BY <1>2, <2>2, <2>3
<1> QED
  BY <1>1, <1>2

-----------------------------------------------------------------------------
\* What get_buffer leaves: the entry it returns is the first of its sector, is
\* the only one marked taken if any is, and no store is lost when it changes
\* hands. What happens to its contents is the caller's.
LEMMA GetBufferKeeps ==
  ASSUME DriverInv, lent = NoLoan, NEW o \in Offsets, GetBuffer(o), NEW e, e = EntryFor(o)
  PROVE  /\ e \in Entries
         /\ locations' \in [Entries -> Offsets]
         /\ medium' \in [Offsets -> Contents]
         /\ taken_map' \subseteq {e}
         /\ dirty_map' \subseteq dirty_map
         /\ WithOffset(o) = {} => e \notin dirty_map'
         /\ First(e, o)'
         /\ \A d \in dirty_map' : First(d, locations[d])' /\ locations'[d] = locations[d]
         /\ \A p \in Offsets :
              (\A d \in dirty_map' : locations'[d] # p) => medium'[p] = latest[p]
<1>1. /\ DriverTypeOK /\ StoredOrDirty
      /\ taken_map = {}
  <2>1. taken_map \subseteq Entries /\ taken_map \subseteq {-1}
    BY DEF DriverInv, LoanKept, DriverTypeOK, NoLoan
  <2> QED
    BY <2>1, EntriesAreNat DEF DriverInv
<1>2. ~CacheFull(o)
  BY DEF GetBuffer
<1>3. /\ e \in Entries
      /\ WithOffset(o) # {} => First(e, o)
  BY <1>1, <1>2, EntryForIs
<1>4. CASE WithOffset(o) # {}
  <2>1. UNCHANGED <<locations, taken_map, dirty_map, medium>>
    BY <1>4 DEF GetBuffer
  <2>2. First(e, o)'
    BY <1>3, <1>4, <2>1 DEF First
  <2>3. \A d \in dirty_map' : First(d, locations[d])' /\ locations'[d] = locations[d]
    BY <1>1, <2>1 DEF StoredOrDirty, First
  <2>4. \A p \in Offsets : (\A d \in dirty_map' : locations'[d] # p) => medium'[p] = latest[p]
    BY <1>1, <2>1 DEF StoredOrDirty
  <2> QED
    BY <1>1, <1>3, <1>4, <2>1, <2>2, <2>3, <2>4 DEF DriverTypeOK
<1>5. CASE WithOffset(o) = {}
  <2>1. /\ taken_map' = taken_map \union {e}
        /\ IF e \in dirty_map THEN SyncEntry(e) ELSE UNCHANGED <<dirty_map, medium>>
        /\ locations' = [locations EXCEPT ![e] = o]
    BY <1>5 DEF GetBuffer, TakeBuffer
  <2>2. /\ dirty_map' = dirty_map \ {e}
        /\ medium' = IF e \in dirty_map THEN [medium EXCEPT ![locations[e]] = cells[e]] ELSE medium
    BY <2>1 DEF SyncEntry
  <2>3. /\ locations \in [Entries -> Offsets] /\ medium \in [Offsets -> Contents]
        /\ cells \in [Entries -> Contents] /\ dirty_map \subseteq Entries
    BY <1>1 DEF DriverTypeOK
  <2>4. /\ locations' \in [Entries -> Offsets] /\ locations'[e] = o
        /\ \A d \in Entries \ {e} : locations'[d] = locations[d]
        /\ \A d \in Entries : locations[d] # o
    BY <1>3, <1>5, <2>1, <2>3 DEF WithOffset
  <2>5. medium' \in [Offsets -> Contents]
    BY <1>3, <2>2, <2>3
  <2>6. First(e, o)'
    <3>1. \A d \in Entries : locations'[d] = o => d = e
      BY <2>4
    <3> QED
      BY <1>3, <2>4, <3>1, EntriesAreNat DEF First
  <2>7. ASSUME NEW d \in dirty_map'
        PROVE  First(d, locations[d])' /\ locations'[d] = locations[d]
    <3>1. d \in dirty_map /\ d # e /\ d \in Entries /\ locations'[d] = locations[d]
      BY <2>2, <2>3, <2>4, <2>7
    <3>2. First(d, locations[d])
      BY <1>1, <3>1 DEF StoredOrDirty
    <3>3. \A c \in Entries : locations'[c] = locations[d] => c # e /\ locations[c] = locations[d]
      BY <2>4, <3>1
    <3> QED
      BY <3>1, <3>2, <3>3 DEF First
  <2>8. ASSUME NEW p \in Offsets, \A d \in dirty_map' : locations'[d] # p
        PROVE  medium'[p] = latest[p]
    <3>1. \A d \in dirty_map \ {e} : locations[d] # p
      BY <2>2, <2>3, <2>4, <2>8
    <3>2. CASE e \in dirty_map /\ locations[e] = p
      <4>1. medium'[p] = cells[e]
        BY <2>2, <2>3, <3>2
      <4> QED
        BY <1>1, <3>2, <4>1 DEF StoredOrDirty
    <3>3. CASE ~(e \in dirty_map /\ locations[e] = p)
      <4>1. \A d \in dirty_map : locations[d] # p
        BY <3>1, <3>3
      <4>2. medium'[p] = medium[p]
        BY <2>2, <2>3, <3>3
      <4> QED
        BY <1>1, <4>1, <4>2 DEF StoredOrDirty
    <3> QED
      BY <3>2, <3>3
  <2> QED
    BY <1>1, <1>3, <2>1, <2>2, <2>4, <2>5, <2>6, <2>7, <2>8
<1> QED
  BY <1>4, <1>5

\* The fields of the loan that get_buffer and read_sector start.
LEMMA LendIs ==
  ASSUME NEW o \in Offsets, NEW filled \in BOOLEAN, Lend(o, filled), EntryFor(o) \in Entries
  PROVE  /\ lent' \in [entry : Entries, offset : Offsets, filled : BOOLEAN]
         /\ lent'.entry = EntryFor(o) /\ lent'.offset = o /\ lent'.filled = filled
BY DEF Lend

\* The part of the invariant a lent buffer does not change by being lent.
LEMMA StoredAfterGet ==
  ASSUME DriverInv, lent = NoLoan, NEW o \in Offsets, GetBuffer(o), NEW e, e = EntryFor(o),
         latest' = latest, \A d \in dirty_map' : cells'[d] = cells[d]
  PROVE  StoredOrDirty'
<1>1. /\ dirty_map' \subseteq dirty_map
      /\ \A d \in dirty_map' : First(d, locations[d])' /\ locations'[d] = locations[d]
      /\ \A p \in Offsets : (\A d \in dirty_map' : locations'[d] # p) => medium'[p] = latest[p]
  BY GetBufferKeeps, Zenon
<1>2. \A d \in dirty_map' : cells'[d] = latest'[locations'[d]]
  BY <1>1 DEF DriverInv, StoredOrDirty
<1> QED
  BY <1>1, <1>2 DEF StoredOrDirty

LEMMA TypesAfterGet ==
  ASSUME DriverInv, lent = NoLoan, NEW o \in Offsets, GetBuffer(o), NEW e, e = EntryFor(o),
         NEW filled \in BOOLEAN, Lend(o, filled),
         latest' = latest, cells' \in [Entries -> Contents]
  PROVE  /\ DriverTypeOK' /\ LoanKept'
         /\ lent'.entry = e /\ lent'.offset = o /\ lent'.filled = filled
<1>1. /\ e \in Entries
      /\ locations' \in [Entries -> Offsets]
      /\ medium' \in [Offsets -> Contents]
      /\ taken_map' \subseteq {e}
      /\ dirty_map' \subseteq dirty_map
      /\ First(e, o)'
  BY GetBufferKeeps, Zenon
<1>2. /\ lent' \in [entry : Entries, offset : Offsets, filled : BOOLEAN]
      /\ lent'.entry = e /\ lent'.offset = o /\ lent'.filled = filled
  BY <1>1, LendIs
<1>3. DriverTypeOK'
  BY <1>1, <1>2 DEF DriverInv, DriverTypeOK
<1>4. LoanKept'
  BY <1>1, <1>2 DEF LoanKept
<1> QED
  BY <1>2, <1>3, <1>4

LEMMA ReadSectorInv ==
  ASSUME DriverInv, NEW o \in Offsets, ReadSector(o) PROVE DriverInv'
<1>1. PICK e : e = EntryFor(o)
  OBVIOUS
<1>2. /\ lent = NoLoan /\ GetBuffer(o) /\ Lend(o, TRUE) /\ latest' = latest
      /\ WithOffset(o) \intersect dirty_map = {}
      /\ cells' = [cells EXCEPT ![e] = medium'[o]]
  BY <1>1 DEF ReadSector, ReadInto
<1>3. /\ e \in Entries
      /\ medium' \in [Offsets -> Contents]
      /\ dirty_map' \subseteq dirty_map
      /\ WithOffset(o) = {} => e \notin dirty_map'
      /\ First(e, o)'
      /\ \A d \in dirty_map' : First(d, locations[d])' /\ locations'[d] = locations[d]
      /\ \A p \in Offsets : (\A d \in dirty_map' : locations'[d] # p) => medium'[p] = latest[p]
  BY <1>1, <1>2, GetBufferKeeps, Zenon
<1>4. cells \in [Entries -> Contents] /\ dirty_map \subseteq Entries
  BY DEF DriverInv, DriverTypeOK
<1>5. cells' \in [Entries -> Contents] /\ cells'[e] = medium'[o]
      /\ \A d \in Entries \ {e} : cells'[d] = cells[d]
  BY <1>2, <1>3, <1>4
<1>6. \A d \in dirty_map' : locations'[d] # o
  <2> SUFFICES ASSUME NEW d \in dirty_map', locations'[d] = o PROVE FALSE
    OBVIOUS
  <2>1. d \in WithOffset(o)
    BY <1>3, <1>4 DEF WithOffset
  <2> QED
    BY <2>1, <1>2, <1>3
<1>7. e \notin dirty_map'
  BY <1>3, <1>6 DEF First
<1>8. DriverTypeOK' /\ LoanKept' /\ lent'.entry = e /\ lent'.offset = o
  BY <1>1, <1>2, <1>5, TypesAfterGet
<1>9. StoredOrDirty'
  BY <1>1, <1>2, <1>3, <1>4, <1>5, <1>7, StoredAfterGet
<1>10. LentIsLatest'
  BY <1>2, <1>3, <1>5, <1>6, <1>8 DEF LentIsLatest
<1> QED
  BY <1>8, <1>9, <1>10 DEF DriverInv

LEMMA GetBufferUnreadInv ==
  ASSUME DriverInv, NEW o \in Offsets, GetBufferUnread(o) PROVE DriverInv'
<1>1. PICK e : e = EntryFor(o)
  OBVIOUS
<1>2. /\ lent = NoLoan /\ GetBuffer(o) /\ Lend(o, FALSE) /\ latest' = latest /\ cells' = cells
  BY DEF GetBufferUnread
<1>3. cells' \in [Entries -> Contents]
  BY <1>2 DEF DriverInv, DriverTypeOK
<1>4. DriverTypeOK' /\ LoanKept' /\ lent'.filled = FALSE
  BY <1>1, <1>2, <1>3, TypesAfterGet
<1>5. StoredOrDirty'
  BY <1>1, <1>2, StoredAfterGet
<1>6. LentIsLatest'
  BY <1>4 DEF LentIsLatest
<1> QED
  BY <1>4, <1>5, <1>6 DEF DriverInv

-----------------------------------------------------------------------------
\* What holds while a buffer is lent.
LEMMA Lent ==
  ASSUME DriverInv, lent # NoLoan
  PROVE  /\ lent \in [entry : Entries, offset : Offsets, filled : BOOLEAN]
         /\ lent.entry \in Entries /\ lent.offset \in Offsets
         /\ locations[lent.entry] = lent.offset
         /\ \A d \in dirty_map : locations[d] = lent.offset => d = lent.entry
         /\ lent.filled => cells[lent.entry] = latest[lent.offset]
<1>1. /\ lent \in [entry : Entries, offset : Offsets, filled : BOOLEAN]
      /\ First(lent.entry, lent.offset)
      /\ lent.filled => cells[lent.entry] = latest[lent.offset]
      /\ \A d \in dirty_map : First(d, locations[d])
  BY DEF DriverInv, DriverTypeOK, LoanKept, LentIsLatest, StoredOrDirty
<1>2. ASSUME NEW d \in dirty_map, locations[d] = lent.offset PROVE d = lent.entry
  <2>1. d \in Nat /\ lent.entry \in Nat
    BY <1>1, EntriesAreNat DEF First
  <2>2. d <= lent.entry /\ lent.entry <= d
    BY <1>1, <1>2 DEF First
  <2> QED
    BY <2>1, <2>2
<1> QED
  BY <1>1, <1>2 DEF First

LEMMA MarkDirtyInv ==
  ASSUME DriverInv, NEW v \in Contents, MarkDirty(v) PROVE DriverInv'
<1>1. PICK e, o : e = lent.entry /\ o = lent.offset
  OBVIOUS
<1>2. /\ lent # NoLoan
      /\ cells' = [cells EXCEPT ![e] = v]
      /\ dirty_map' = dirty_map \union {e}
      /\ lent' = [lent EXCEPT !.filled = TRUE]
      /\ latest' = [latest EXCEPT ![o] = v]
      /\ UNCHANGED <<locations, taken_map, medium>>
  BY <1>1 DEF MarkDirty
<1>3. /\ lent \in [entry : Entries, offset : Offsets, filled : BOOLEAN]
      /\ e \in Entries /\ o \in Offsets /\ locations[e] = o
      /\ \A d \in dirty_map : locations[d] = o => d = e
  BY <1>1, <1>2, Lent
<1>4. /\ lent' \in [entry : Entries, offset : Offsets, filled : BOOLEAN]
      /\ lent'.entry = e /\ lent'.offset = o
  BY <1>1, <1>2, <1>3
<1>5. /\ cells \in [Entries -> Contents] /\ latest \in [Offsets -> Contents]
      /\ locations \in [Entries -> Offsets] /\ dirty_map \subseteq Entries
  BY DEF DriverInv, DriverTypeOK
<1>6. DriverTypeOK'
  BY <1>2, <1>3, <1>4, <1>5 DEF DriverInv, DriverTypeOK
<1>7. First(e, o) /\ taken_map \subseteq {e}
  BY <1>1, <1>2 DEF DriverInv, LoanKept
<1>8. LoanKept'
  BY <1>2, <1>4, <1>7 DEF LoanKept, First
<1>9. cells'[e] = v /\ latest'[o] = v
  BY <1>2, <1>3, <1>5
<1>10. LentIsLatest'
  BY <1>4, <1>9 DEF LentIsLatest
<1>11. StoredOrDirty'
  <2>1. ASSUME NEW d \in dirty_map'
        PROVE  First(d, locations[d])' /\ cells'[d] = latest'[locations'[d]]
    <3>1. CASE d = e
      BY <1>2, <1>3, <1>7, <1>9, <3>1 DEF First
    <3>2. CASE d # e
      <4>1. d \in dirty_map /\ locations[d] # o
        BY <1>2, <1>3, <3>2
      <4>2. First(d, locations[d]) /\ cells[d] = latest[locations[d]]
        BY <4>1 DEF DriverInv, StoredOrDirty
      <4>3. cells'[d] = cells[d] /\ latest'[locations[d]] = latest[locations[d]]
        BY <1>2, <1>5, <3>2, <4>1
      <4> QED
        BY <1>2, <4>2, <4>3 DEF First
    <3> QED
      BY <3>1, <3>2
  <2>2. ASSUME NEW p \in Offsets, \A d \in dirty_map' : locations'[d] # p
        PROVE  medium'[p] = latest'[p]
    <3>1. p # o /\ \A d \in dirty_map : locations[d] # p
      BY <1>2, <1>3, <2>2
    <3> QED
      BY <1>2, <1>5, <3>1 DEF DriverInv, StoredOrDirty
  <2> QED
    BY <2>1, <2>2 DEF StoredOrDirty
<1> QED
  BY <1>6, <1>8, <1>10, <1>11 DEF DriverInv

\* Writing the lent buffer, as sync and flush do.
LEMMA SyncKeeps ==
  ASSUME DriverInv, lent # NoLoan, lent.filled, SyncEntry(lent.entry),
         UNCHANGED <<cells, locations, latest>>
  PROVE  StoredOrDirty' /\ dirty_map' \subseteq dirty_map /\ medium' \in [Offsets -> Contents]
<1>1. PICK e, o : e = lent.entry /\ o = lent.offset
  OBVIOUS
<1>2. /\ e \in Entries /\ o \in Offsets /\ locations[e] = o
      /\ cells[e] = latest[o]
      /\ \A d \in dirty_map : locations[d] = o => d = e
  BY <1>1, Lent
<1>3. /\ dirty_map' = dirty_map \ {e}
      /\ medium' = [medium EXCEPT ![o] = cells[e]]
  BY <1>1, <1>2 DEF SyncEntry
<1>4. /\ medium \in [Offsets -> Contents] /\ cells \in [Entries -> Contents]
      /\ dirty_map \subseteq Entries
  BY DEF DriverInv, DriverTypeOK
<1>5. medium' \in [Offsets -> Contents] /\ medium'[o] = latest[o]
  BY <1>2, <1>3, <1>4
<1>6. ASSUME NEW p \in Offsets, \A d \in dirty_map' : locations[d] # p
      PROVE  medium'[p] = latest[p]
  <2>1. CASE p = o
    BY <1>5, <2>1
  <2>2. CASE p # o
    <3>1. \A d \in dirty_map : locations[d] # p
      BY <1>2, <1>3, <1>6, <2>2
    <3>2. medium'[p] = medium[p]
      BY <1>3, <1>4, <2>2
    <3> QED
      BY <3>1, <3>2 DEF DriverInv, StoredOrDirty
  <2> QED
    BY <2>1, <2>2
<1>7. \A d \in dirty_map' : First(d, locations[d]) /\ cells[d] = latest[locations[d]]
  BY <1>3 DEF DriverInv, StoredOrDirty
<1> QED
  BY <1>3, <1>5, <1>6, <1>7 DEF StoredOrDirty, First

LEMMA SyncInv ==
  ASSUME DriverInv, Sync PROVE DriverInv'
<1>1. /\ lent # NoLoan /\ lent.filled /\ SyncEntry(lent.entry)
      /\ UNCHANGED <<cells, locations, latest, taken_map, lent>>
  BY DEF Sync
<1>2. StoredOrDirty' /\ dirty_map' \subseteq dirty_map /\ medium' \in [Offsets -> Contents]
  BY <1>1, SyncKeeps
<1>3. DriverTypeOK'
  BY <1>1, <1>2 DEF DriverInv, DriverTypeOK
<1>4. LoanKept' /\ LentIsLatest'
  BY <1>1 DEF DriverInv, LoanKept, LentIsLatest, First
<1> QED
  BY <1>2, <1>3, <1>4 DEF DriverInv

LEMMA GivenBack ==
  ASSUME DriverInv, ReleaseEntry(lent.entry)
  PROVE  taken_map' = {} /\ LoanKept' /\ LentIsLatest'
<1>1. taken_map' = {} /\ lent' = NoLoan
  BY DEF ReleaseEntry, DriverInv, LoanKept
<1> QED
  BY <1>1 DEF LoanKept, LentIsLatest

LEMMA ReleaseBufferInv ==
  ASSUME DriverInv, ReleaseBuffer PROVE DriverInv'
<1>1. /\ ReleaseEntry(lent.entry)
      /\ UNCHANGED <<cells, locations, dirty_map, medium, latest>>
  BY DEF ReleaseBuffer
<1>2. taken_map' = {} /\ LoanKept' /\ LentIsLatest'
  BY <1>1, GivenBack
<1>3. DriverTypeOK'
  BY <1>1, <1>2 DEF DriverInv, DriverTypeOK, ReleaseEntry
<1>4. StoredOrDirty'
  BY <1>1 DEF DriverInv, StoredOrDirty, First
<1> QED
  BY <1>2, <1>3, <1>4 DEF DriverInv

LEMMA FlushBufferInv ==
  ASSUME DriverInv, FlushBuffer PROVE DriverInv'
<1>1. /\ lent # NoLoan /\ lent.filled /\ ReleaseEntry(lent.entry) /\ SyncEntry(lent.entry)
      /\ UNCHANGED <<cells, locations, latest>>
  BY DEF FlushBuffer
<1>2. taken_map' = {} /\ LoanKept' /\ LentIsLatest'
  BY <1>1, GivenBack
<1>3. StoredOrDirty' /\ dirty_map' \subseteq dirty_map /\ medium' \in [Offsets -> Contents]
  BY <1>1, SyncKeeps
<1>4. DriverTypeOK'
  BY <1>1, <1>2, <1>3 DEF DriverInv, DriverTypeOK, ReleaseEntry
<1> QED
  BY <1>2, <1>3, <1>4 DEF DriverInv

LEMMA StutterInv ==
  ASSUME DriverInv, UNCHANGED driverVars PROVE DriverInv'
BY DEF DriverInv, driverVars, DriverTypeOK, StoredOrDirty, LoanKept, LentIsLatest, First

LEMMA NextInv == DriverInv /\ [Borrower]_driverVars => DriverInv'
BY ReadSectorInv, GetBufferUnreadInv, MarkDirtyInv, ReleaseBufferInv, SyncInv, FlushBufferInv,
   StutterInv DEF Borrower, FlushDirty

-----------------------------------------------------------------------------
\* The invariant holds in every state of the driver's cache.
THEOREM CacheInvariant == DriverSpec => []DriverInv
<1> QED
  BY InitInv, NextInv, PTL DEF DriverSpec

\* The state keeps its types, for caches of every size.
THEOREM CacheTypeCorrect == DriverSpec => []DriverTypeOK
<1>1. DriverInv => DriverTypeOK
  BY DEF DriverInv
<1> QED
  BY <1>1, CacheInvariant, PTL

LEMMA FirstIsMin ==
  ASSUME NEW e, NEW o, First(e, o) PROVE e \in WithOffset(o) /\ Min(WithOffset(o)) = e
<1>1. WithOffset(o) \subseteq Nat /\ e \in WithOffset(o) /\ \A y \in WithOffset(o) : e <= y
  BY EntriesAreNat DEF First, WithOffset
<1> QED
  BY <1>1, LeastIsMin

\* The only buffer marked taken is the one lent, and its sector is looked for
\* in it.
THEOREM LentWhereLookedFor == DriverSpec => []TakenIsLent
<1>1. DriverInv => TakenIsLent
  <2> SUFFICES ASSUME DriverInv PROVE TakenIsLent
    OBVIOUS
  <2>1. taken_map \subseteq {lent.entry}
    BY DEF DriverInv, LoanKept
  <2>2. ASSUME lent # NoLoan PROVE lent.offset \in Offsets /\ lent.entry = Min(WithOffset(lent.offset))
    <3>1. First(lent.entry, lent.offset)
      BY <2>2 DEF DriverInv, LoanKept
    <3>2. Min(WithOffset(lent.offset)) = lent.entry
      BY <3>1, FirstIsMin
    <3> QED
      BY <2>2, <3>2, Lent
  <2> QED
    BY <2>1, <2>2 DEF TakenIsLent
<1> QED
  BY <1>1, CacheInvariant, PTL

\* What was stored in a sector is on the disk or in its dirty buffer.
THEOREM NoStoreIsLost == DriverSpec => []NothingLost
<1>1. DriverInv => NothingLost
  <2> SUFFICES ASSUME DriverInv, NEW o \in Offsets
               PROVE  latest[o] = LET dirty == WithOffset(o) \intersect dirty_map
                                  IN  IF dirty = {} THEN medium[o] ELSE cells[Min(dirty)]
    BY DEF NothingLost
  <2> DEFINE dirty == WithOffset(o) \intersect dirty_map
  <2>1. dirty_map \subseteq Entries /\ StoredOrDirty
    BY DEF DriverInv, DriverTypeOK
  <2>2. CASE dirty = {}
    <3>1. \A d \in dirty_map : locations[d] # o
      BY <2>1, <2>2 DEF WithOffset
    <3> QED
      BY <2>1, <2>2, <3>1 DEF StoredOrDirty
  <2>3. CASE dirty # {}
    <3>1. PICK d \in dirty : TRUE
      BY <2>3
    <3>2. d \in dirty_map /\ locations[d] = o /\ First(d, o) /\ cells[d] = latest[o]
      BY <2>1 DEF StoredOrDirty, WithOffset
    <3>3. dirty \subseteq Nat /\ d \in dirty /\ \A y \in dirty : d <= y
      BY <3>2, EntriesAreNat DEF First, WithOffset
    <3>4. Min(dirty) = d
      <4> HIDE DEF dirty
      <4> QED
        BY <3>3, LeastIsMin
    <3> QED
      BY <2>3, <3>2, <3>4
  <2> QED
    BY <2>2, <2>3
<1> QED
  BY <1>1, CacheInvariant, PTL

\* A buffer lent and read or filled holds what its sector was last given.
THEOREM LentHoldsLatest == DriverSpec => []LentIsLatest
<1>1. DriverInv => LentIsLatest
  BY DEF DriverInv
<1> QED
  BY <1>1, CacheInvariant, PTL
=============================================================================
