----------------------------- MODULE SectorStore -----------------------------
(***************************************************************************)
(* What the buffer cache promises those who use it: a store of sectors     *)
(* with what they see now (current) and what a power loss leaves (stable). *)
(* A sector changes only while somebody uses it, what is written back is   *)
(* what is seen, and it has been written back once nobody uses it.         *)
(***************************************************************************)
CONSTANTS Sectors, Values

VARIABLES current, stable, users

vars == <<current, stable, users>>

Init ==
  /\ stable \in [Sectors -> Values]
  /\ current = stable
  /\ users = {}

Acquire(s) ==
  /\ s \notin users
  /\ users' = users \union {s}
  /\ UNCHANGED <<current, stable>>

Write(s, v) ==
  /\ s \in users
  /\ current' = [current EXCEPT ![s] = v]
  /\ UNCHANGED <<stable, users>>

WriteBack(s) ==
  /\ s \in users
  /\ stable' = [stable EXCEPT ![s] = current[s]]
  /\ UNCHANGED <<current, users>>

Drop(s) ==
  /\ s \in users
  /\ stable' = [stable EXCEPT ![s] = current[s]]
  /\ users' = users \ {s}
  /\ current' = current

\* A write that does not go through the cache.
WritePast(s, v) ==
  /\ s \notin users
  /\ current' = [current EXCEPT ![s] = v]
  /\ stable' = [stable EXCEPT ![s] = v]
  /\ users' = users

PowerLoss ==
  /\ current' = stable
  /\ users' = {}
  /\ stable' = stable

Next ==
  \/ \E s \in Sectors : Acquire(s) \/ WriteBack(s) \/ Drop(s)
  \/ \E s \in Sectors, v \in Values : Write(s, v) \/ WritePast(s, v)
  \/ PowerLoss

Spec == Init /\ [][Next]_vars
=============================================================================
