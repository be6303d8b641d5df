---------------------------- MODULE DiskService ----------------------------
(***************************************************************************)
(* What AHCIState::read and AHCIState::write promise their callers: a      *)
(* request made by the kernel's only thread transfers one sector between   *)
(* the disk and the caller's buffer, exactly once, at some moment between  *)
(* the call and the return, and the buffer is left alone at every other    *)
(* moment.                                                                 *)
(***************************************************************************)
CONSTANTS
  Sectors,   \* the sectors of the disk
  Buffers,   \* the buffers the callers hand over
  Values     \* what a sector can hold

VARIABLES
  disk,      \* the disk's sectors
  mem,       \* the contents of the buffers
  phase,     \* "idle", "asked" (called) or "done" (transferred)
  request    \* the request being served, or the last one

vars == <<disk, mem, phase, request>>

Requests == [op : {"read", "write"}, sector : Sectors, buf : Buffers]

Init ==
  /\ disk \in [Sectors -> Values]
  /\ mem \in [Buffers -> Values]
  /\ phase = "idle"
  /\ request \in Requests

\* Between calls the caller owns its buffers and writes them as it likes.
Fill(b, v) ==
  /\ phase = "idle"
  /\ mem' = [mem EXCEPT ![b] = v]
  /\ UNCHANGED <<disk, phase, request>>

Ask(q) ==
  /\ phase = "idle"
  /\ phase' = "asked"
  /\ request' = q
  /\ UNCHANGED <<disk, mem>>

Transfer ==
  /\ phase = "asked"
  /\ phase' = "done"
  /\ IF request.op = "read"
       THEN /\ mem' = [mem EXCEPT ![request.buf] = disk[request.sector]]
            /\ disk' = disk
       ELSE /\ disk' = [disk EXCEPT ![request.sector] = mem[request.buf]]
            /\ mem' = mem
  /\ UNCHANGED request

Reply ==
  /\ phase = "done"
  /\ phase' = "idle"
  /\ UNCHANGED <<disk, mem, request>>

Next ==
  \/ \E b \in Buffers, v \in Values : Fill(b, v)
  \/ \E q \in Requests : Ask(q)
  \/ Transfer
  \/ Reply

SafeSpec == Init /\ [][Next]_vars

\* A request once made is served and answered.
Spec == SafeSpec /\ WF_vars(Transfer) /\ WF_vars(Reply)
=============================================================================
