-------------------------------- MODULE Fifo --------------------------------
(***************************************************************************)
(* What a bounded queue promises that is emptied by a push too many: the   *)
(* elements come out in the order they went in, none appears twice, and    *)
(* none is lost unless all are, when the queue holds as many as it can.    *)
(***************************************************************************)
EXTENDS Naturals, Sequences

CONSTANTS
  Elements,
  Capacity   \* how many elements it holds

VARIABLE queue

Init == queue = << >>

Push(e) ==
  /\ Len(queue) < Capacity
  /\ queue' = Append(queue, e)

Pop ==
  /\ queue # << >>
  /\ queue' = Tail(queue)

\* A push that finds the queue at its capacity may empty it.
Overrun ==
  /\ Len(queue) = Capacity
  /\ queue' = << >>

Next == (\E e \in Elements : Push(e)) \/ Pop \/ Overrun

Spec == Init /\ [][Next]_queue
=============================================================================
