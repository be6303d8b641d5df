--------------------------- MODULE CircularBuffer ---------------------------
(***************************************************************************)
(* CircularBuffer<T, S> (klib/circular_buffer.hh): a ring with a read and  *)
(* a write index. The array has S + 1 cells but the indices run modulo S,  *)
(* so a ring that tells full from empty holds S - 1 elements.              *)
(***************************************************************************)
EXTENDS Integers, Sequences

CONSTANTS
  S,          \* the template argument
  Elements,
  Zero        \* what the cells of a ring in static storage hold at first

\* What the proofs assume of the size (Keyboard_proofs).
SizeAssumption == S \in Nat \ {0, 1}

VARIABLES m_buffer, m_read_end, m_write_end

ring == <<m_buffer, m_read_end, m_write_end>>

Init ==
  /\ m_buffer = [i \in 0..S |-> Zero]
  /\ m_read_end = 0
  /\ m_write_end = 0

Advance(i) == (i + 1) % S

\* len()
Length ==
  IF m_read_end <= m_write_end
    THEN m_write_end - m_read_end
    ELSE m_write_end + (S - m_read_end)

Empty == m_read_end = m_write_end

\* As written: the successor of the write index is not reduced modulo S, so with
\* the read index 0 the push that should be refused empties the ring.
Full == m_read_end = m_write_end + 1

\* push() returns an error, and changes nothing, when the ring is full.
Push(e) ==
  /\ ~Full
  /\ m_buffer' = [m_buffer EXCEPT ![m_write_end] = e]
  /\ m_write_end' = Advance(m_write_end)
  /\ UNCHANGED m_read_end

PushRefused ==
  /\ Full
  /\ UNCHANGED ring

Front == m_buffer[m_read_end]

Pop ==
  /\ ~Empty
  /\ m_read_end' = Advance(m_read_end)
  /\ UNCHANGED <<m_buffer, m_write_end>>

Next ==
  \/ \E e \in Elements : Push(e)
  \/ PushRefused
  \/ Pop

Spec == Init /\ [][Next]_ring

-----------------------------------------------------------------------------
\* The elements held, oldest first.
Contents ==
  [i \in 1..Length |-> m_buffer[(m_read_end + i - 1) % S]]

Queue == INSTANCE Fifo WITH
  queue <- Contents, Capacity <- S - 1

\* For any client the ring is a first-in first-out queue of S - 1 elements
\* (push, pop, front of klib/circular_buffer.hh) that loses nothing but, at its
\* capacity, everything.
ImplementsFifo == Queue!Spec

\* Types of the state; the last cell of the array is never used.
TypeOK ==
  /\ m_buffer \in [0..S -> Elements \union {Zero}]
  /\ m_read_end \in 0..S - 1
  /\ m_write_end \in 0..S - 1
=============================================================================
