-------------------------- MODULE Keyboard_proofs --------------------------
(***************************************************************************)
(* Proofs about CircularBuffer and about Keyboard, for every ring, line and *)
(* set of keys. The ring comes first: its indices, and that for any client *)
(* it is a queue that loses all or nothing. The queue at read index r takes *)
(* the cells (r + i - 1) % RingSize, and the write index is the first cell *)
(* after these. What Keyboard adds is the shell between the steps of its   *)
(* pop, the handler that pushes in between, and the codes counted on either *)
(* side. The cells behind the write index hold the latest codes, as many as *)
(* there are cells (CellsInv), and the codes gone from the ring are those  *)
(* handled and whole rounds of the ring (OrderInv).                        *)
(***************************************************************************)
EXTENDS Keyboard, SequenceTheorems, TLAPS

\* The codes the ring took and no longer holds.
Gone == Len(accepted) - Responses!Length

\* The cell written j pushes ago.
Back(j) == IF j <= m_write_end THEN m_write_end - j ELSE m_write_end + RingSize - j

CellsInv ==
  \A j \in 1..RingSize :
    j <= Len(accepted) => m_buffer[Back(j)] = accepted[Len(accepted) + 1 - j]

\* The code in the shell's hands, and the one it is about to take.
InHand(lost) ==
  /\ pc = "advance" =>
       \E k \in 0..lost :
         /\ handled + 1 + k * RingSize <= Len(accepted)
         /\ key_code = accepted[handled + 1 + k * RingSize]
  /\ pc = "handle" =>
       \E k \in 0..lost : key_code = accepted[handled + k * RingSize]

OrderInv ==
  \E lost \in Nat :
    /\ Gone = handled + lost * RingSize
    /\ ~overfilled => lost = 0
    /\ InHand(lost)

\* A pop under way has something to pop.
PopInv ==
  /\ pc = "take" => handled < Len(accepted)
  /\ pc = "handle" => handled >= 1

IInv == TypeOK /\ CellsInv /\ OrderInv /\ PopInv

-----------------------------------------------------------------------------
\* The ring of CircularBuffer, by its indices.

LEMMA RingSizeOK == Responses!SizeAssumption
BY SizesAssumption DEF Responses!SizeAssumption

\* What the indices do at the end of the array.
LEMMA BelowRing ==
  ASSUME NEW s \in Nat \ {0}, NEW x \in 0..s - 1
  PROVE  x % s = x
BY SMT

LEMMA Wrapped ==
  ASSUME NEW s \in Nat \ {0}, NEW x \in s..2 * s - 1
  PROVE  x % s = x - s
BY SMT

LEMMA Successor ==
  ASSUME Responses!SizeAssumption, NEW x \in 0..RingSize - 1
  PROVE  Responses!Advance(x) = IF x = RingSize - 1 THEN 0 ELSE x + 1
<1>1. CASE x = RingSize - 1
  BY <1>1, Wrapped DEF Responses!SizeAssumption, Responses!Advance
<1>2. CASE x # RingSize - 1
  BY <1>2, BelowRing DEF Responses!SizeAssumption, Responses!Advance
<1> QED BY <1>1, <1>2

\* The cell of the i-th element held.
Cell(r, i) == (r + i - 1) % RingSize

LEMMA CellValue ==
  ASSUME Responses!SizeAssumption, NEW r \in 0..RingSize - 1, NEW i \in 1..RingSize
  PROVE  Cell(r, i) = IF r + i - 1 < RingSize THEN r + i - 1 ELSE r + i - 1 - RingSize
<1>1. CASE r + i - 1 < RingSize
  BY <1>1, BelowRing DEF Responses!SizeAssumption, Cell
<1>2. CASE r + i - 1 >= RingSize
  BY <1>2, Wrapped DEF Responses!SizeAssumption, Cell
<1> QED BY <1>1, <1>2 DEF Responses!SizeAssumption

LEMMA CellInRing ==
  ASSUME Responses!SizeAssumption, NEW r \in 0..RingSize - 1, NEW i \in 1..RingSize
  PROVE  Cell(r, i) \in 0..RingSize
<1> HIDE DEF Cell
<1> QED BY CellValue DEF Responses!SizeAssumption

LEMMA LengthBounded ==
  ASSUME Responses!SizeAssumption, Responses!TypeOK
  PROVE  Responses!Length \in 0..RingSize - 1
BY DEF Responses!SizeAssumption, Responses!TypeOK, Responses!Length

\* The elements held are a sequence of that length.
LEMMA ContentsIsSequence ==
  ASSUME Responses!SizeAssumption, Responses!TypeOK
  PROVE  /\ Responses!Contents \in Seq(Codes \union {"zero"})
         /\ Len(Responses!Contents) = Responses!Length
         /\ \A i \in 1..Responses!Length : Responses!Contents[i] = m_buffer[Cell(m_read_end, i)]
<1>1. Responses!Length \in Nat
  BY LengthBounded DEF Responses!SizeAssumption
<1>2. ASSUME NEW i \in 1..Responses!Length
      PROVE  m_buffer[Cell(m_read_end, i)] \in Codes \union {"zero"}
  <2>1. i \in 1..RingSize
    BY LengthBounded DEF Responses!SizeAssumption
  <2>2. Cell(m_read_end, i) \in 0..RingSize
    BY <2>1, CellInRing DEF Responses!TypeOK
  <2> QED BY <2>2 DEF Responses!TypeOK
<1>3. Responses!Contents = [i \in 1..Responses!Length |-> m_buffer[Cell(m_read_end, i)]]
  BY DEF Responses!Contents, Cell
<1> QED BY <1>1, <1>2, <1>3

LEMMA RingTypeStep ==
  ASSUME Responses!SizeAssumption, Responses!TypeOK, [Responses!Next]_Responses!ring
  PROVE  Responses!TypeOK'
<1>1. ASSUME NEW e \in Codes, Responses!Push(e)
      PROVE  Responses!TypeOK'
  BY <1>1, Successor DEF Responses!SizeAssumption, Responses!TypeOK, Responses!Push
<1>2. CASE Responses!PushRefused
  BY <1>2 DEF Responses!PushRefused, Responses!TypeOK, Responses!ring
<1>3. CASE Responses!Pop
  BY <1>3, Successor DEF Responses!SizeAssumption, Responses!TypeOK, Responses!Pop
<1>4. CASE UNCHANGED Responses!ring
  BY <1>4 DEF Responses!TypeOK, Responses!ring
<1> QED BY <1>1, <1>2, <1>3, <1>4 DEF Responses!Next

\* Types of the state, whatever the client pushes (klib/circular_buffer.hh).
THEOREM RingTypeCorrect == Responses!Spec => []Responses!TypeOK
<1>1. Responses!Init => Responses!TypeOK
  BY RingSizeOK DEF Responses!SizeAssumption, Responses!Init, Responses!TypeOK
<1>2. Responses!TypeOK /\ [Responses!Next]_Responses!ring => Responses!TypeOK'
  BY RingSizeOK, RingTypeStep
<1> QED BY <1>1, <1>2, PTL DEF Responses!Spec

-----------------------------------------------------------------------------
\* A push behind the last element, and a pop of the first.
LEMMA PushAppends ==
  ASSUME Responses!SizeAssumption, Responses!TypeOK, NEW e \in Codes, Responses!Push(e),
         ~(m_read_end = 0 /\ m_write_end = RingSize - 1)
  PROVE  Responses!Length < RingSize - 1 /\ Responses!Contents' = Append(Responses!Contents, e)
<1>1. m_write_end' = IF m_write_end = RingSize - 1 THEN 0 ELSE m_write_end + 1
  BY Successor DEF Responses!TypeOK, Responses!Push
<1>2. Responses!Length < RingSize - 1 /\ Responses!Length' = Responses!Length + 1
  BY <1>1 DEF Responses!SizeAssumption, Responses!TypeOK, Responses!Push, Responses!Full,
              Responses!Length
<1>3. Responses!TypeOK'
  BY RingTypeStep DEF Responses!Next
<1>4. ASSUME NEW i \in 1..Responses!Length + 1
      PROVE  Responses!Contents'[i] = IF i = Responses!Length + 1 THEN e ELSE Responses!Contents[i]
  <2>1. i \in 1..RingSize
    BY <1>2, LengthBounded DEF Responses!SizeAssumption
  <2>2. Cell(m_read_end, i) = m_write_end <=> i = Responses!Length + 1
    <3>1. Cell(m_read_end, i) = IF m_read_end + i - 1 < RingSize THEN m_read_end + i - 1
                                ELSE m_read_end + i - 1 - RingSize
      BY <2>1, CellValue DEF Responses!TypeOK
    <3> QED BY <2>1, <3>1, <1>2 DEF Responses!SizeAssumption, Responses!TypeOK, Responses!Length
  <2>3. Cell(m_read_end, i) \in 0..RingSize
    BY <2>1, CellInRing DEF Responses!TypeOK
  <2>4. Responses!Contents'[i] = m_buffer'[Cell(m_read_end, i)]
    <3>1. i \in 1..Responses!Length'
      BY <1>2
    <3> QED BY <3>1 DEF Responses!Contents, Cell, Responses!Push
  <2>5. i # Responses!Length + 1 => Responses!Contents[i] = m_buffer[Cell(m_read_end, i)]
    BY LengthBounded, ContentsIsSequence DEF Responses!SizeAssumption
  <2> QED BY <2>2, <2>3, <2>4, <2>5 DEF Responses!TypeOK, Responses!Push
<1>5. /\ Responses!Contents' \in Seq((Codes \union {"zero"}))
      /\ Len(Responses!Contents') = Responses!Length + 1
  <2>1. Responses!Contents' = [i \in 1..Responses!Length' |-> m_buffer'[Cell(m_read_end', i)]]
    BY DEF Responses!Contents, Cell
  <2>2. ASSUME NEW i \in 1..Responses!Length'
        PROVE  m_buffer'[Cell(m_read_end', i)] \in Codes \union {"zero"}
    <3>1. i \in 1..RingSize /\ m_read_end' \in 0..RingSize - 1
      BY <1>2, <1>3, LengthBounded DEF Responses!SizeAssumption, Responses!TypeOK
    <3>2. Cell(m_read_end', i) \in 0..RingSize
      BY <3>1, CellInRing
    <3> QED BY <1>3, <3>2 DEF Responses!TypeOK
  <2>3. Responses!Length' \in Nat
    BY <1>2, LengthBounded DEF Responses!SizeAssumption
  <2> QED BY <1>2, <2>1, <2>2, <2>3
<1>6. Responses!Contents' = Append(Responses!Contents, e)
  <2>1. /\ Responses!Contents \in Seq(Codes \union {"zero"})
        /\ Len(Responses!Contents) = Responses!Length
    BY ContentsIsSequence
  <2>2. Responses!Length \in Nat
    BY LengthBounded DEF Responses!SizeAssumption
  <2>3. Append(Responses!Contents, e) \in Seq(Codes \union {"zero"})
        /\ Len(Append(Responses!Contents, e)) = Responses!Length + 1
    BY <2>1
  <2>4. ASSUME NEW i \in 1..Responses!Length + 1
        PROVE  Append(Responses!Contents, e)[i] =
                 IF i = Responses!Length + 1 THEN e ELSE Responses!Contents[i]
    BY <2>1, <2>2
  <2> HIDE DEF Responses!Contents
  <2> QED BY <1>4, <1>5, <2>2, <2>3, <2>4
<1> QED BY <1>2, <1>6

LEMMA TailOf ==
  ASSUME NEW T, NEW q \in Seq(T), q # << >>
  PROVE  Tail(q) = [i \in 1..Len(q) - 1 |-> q[i + 1]]
<1> DEFINE rest == [i \in 1..Len(q) - 1 |-> q[i + 1]]
<1>1. Len(q) \in Nat /\ Len(q) > 0
  OBVIOUS
<1>2. /\ Tail(q) \in Seq(T) /\ Len(Tail(q)) = Len(q) - 1
      /\ \A i \in 1..Len(Tail(q)) : Tail(q)[i] = q[i + 1]
  BY HeadTailProperties
<1>3. rest \in Seq(T) /\ Len(rest) = Len(q) - 1
  BY <1>1
<1>4. \A i \in 1..Len(Tail(q)) : Tail(q)[i] = rest[i]
  BY <1>2
<1> HIDE DEF rest
<1>5. Tail(q) = rest
  BY <1>2, <1>3, <1>4, SeqEqual
<1> QED BY <1>5 DEF rest

LEMMA PopDrops ==
  ASSUME Responses!SizeAssumption, Responses!TypeOK, Responses!Pop
  PROVE  Responses!Contents # << >> /\ Responses!Contents' = Tail(Responses!Contents)
<1>1. m_read_end' = IF m_read_end = RingSize - 1 THEN 0 ELSE m_read_end + 1
  BY Successor DEF Responses!TypeOK, Responses!Pop
<1>2. Responses!Length > 0 /\ Responses!Length' = Responses!Length - 1
  BY <1>1 DEF Responses!SizeAssumption, Responses!TypeOK, Responses!Pop, Responses!Empty,
              Responses!Length
<1>3. Responses!TypeOK'
  BY RingTypeStep DEF Responses!Next
<1>4. ASSUME NEW i \in 1..Responses!Length - 1
      PROVE  m_buffer'[Cell(m_read_end', i)] = Responses!Contents[i + 1]
  <2>1. i \in 1..RingSize /\ i + 1 \in 1..RingSize /\ i + 1 \in 1..Responses!Length
    BY LengthBounded DEF Responses!SizeAssumption
  <2>2. m_read_end' \in 0..RingSize - 1
    BY <1>3 DEF Responses!TypeOK
  <2>3. Cell(m_read_end', i) = Cell(m_read_end, i + 1)
    <3>1. Cell(m_read_end, i + 1) =
            IF m_read_end + i < RingSize THEN m_read_end + i ELSE m_read_end + i - RingSize
      BY <2>1, CellValue DEF Responses!TypeOK
    <3>2. Cell(m_read_end', i) =
            IF m_read_end' + i - 1 < RingSize THEN m_read_end' + i - 1
            ELSE m_read_end' + i - 1 - RingSize
      BY <2>1, <2>2, CellValue
    <3> QED BY <1>1, <2>1, <2>2, <3>1, <3>2 DEF Responses!SizeAssumption, Responses!TypeOK
  <2> QED BY <2>1, <2>3, ContentsIsSequence DEF Responses!Pop
<1>5. /\ Responses!Contents \in Seq(Codes \union {"zero"})
      /\ Len(Responses!Contents) = Responses!Length
  BY ContentsIsSequence
<1>6. Responses!Contents' = [i \in 1..Responses!Length - 1 |-> m_buffer'[Cell(m_read_end', i)]]
  BY <1>2 DEF Responses!Contents, Cell
<1>7. Responses!Contents' = [i \in 1..Responses!Length - 1 |-> Responses!Contents[i + 1]]
  BY <1>4, <1>6
<1>8. Responses!Contents # << >>
  BY <1>2, <1>5
<1>9. Tail(Responses!Contents) = [i \in 1..Responses!Length - 1 |-> Responses!Contents[i + 1]]
  BY <1>5, <1>8, TailOf
<1> QED BY <1>7, <1>8, <1>9

\* The push that should be refused and is not: with the read index 0 the ring
\* holds all it can, and nothing afterwards.
LEMMA PushOverruns ==
  ASSUME Responses!SizeAssumption, Responses!TypeOK, NEW e \in Codes, Responses!Push(e),
         m_read_end = 0 /\ m_write_end = RingSize - 1
  PROVE  Responses!Length = RingSize - 1 /\ Responses!Contents' = << >>
<1>1. m_write_end' = 0 /\ m_read_end' = 0
  BY Successor DEF Responses!TypeOK, Responses!Push
<1>2. Responses!Length = RingSize - 1 /\ Responses!Length' = 0
  BY <1>1 DEF Responses!SizeAssumption, Responses!Length
<1>3. Responses!Contents' = [i \in 1..Responses!Length' |-> m_buffer'[Cell(m_read_end', i)]]
  BY DEF Responses!Contents, Cell
<1> QED BY <1>2, <1>3

\* The ring of any size is a queue for any client, keyboard_handler included:
\* nothing is repeated or reordered at any wrap-around, the ring holds all
\* RingSize - 1 elements it says it can, and when one push too many loses
\* elements, it loses all that the ring held, at its capacity.
THEOREM QueueImplemented == Responses!Spec => Responses!ImplementsFifo
<1>1. Responses!SizeAssumption
  BY RingSizeOK
<1>2. Responses!Init => Responses!Queue!Init
  BY <1>1 DEF Responses!SizeAssumption, Responses!Init, Responses!Queue!Init,
              Responses!Contents, Responses!Length
<1>3. Responses!TypeOK /\ [Responses!Next]_Responses!ring
        => [Responses!Queue!Next]_Responses!Contents
  <2> SUFFICES ASSUME Responses!TypeOK, [Responses!Next]_Responses!ring
               PROVE  Responses!Queue!Next \/ Responses!Contents' = Responses!Contents
    OBVIOUS
  <2>1. ASSUME NEW e \in Codes, Responses!Push(e)
        PROVE  Responses!Queue!Next
    <3>1. Len(Responses!Contents) = Responses!Length
      BY <1>1, ContentsIsSequence
    <3>2. CASE m_read_end = 0 /\ m_write_end = RingSize - 1
      <4>1. Responses!Length = RingSize - 1 /\ Responses!Contents' = << >>
        BY <1>1, <2>1, <3>2, PushOverruns
      <4> QED BY <3>1, <4>1 DEF Responses!Queue!Next, Responses!Queue!Overrun
    <3>3. CASE ~(m_read_end = 0 /\ m_write_end = RingSize - 1)
      BY <1>1, <2>1, <3>1, <3>3, PushAppends DEF Responses!Queue!Next, Responses!Queue!Push
    <3> QED BY <3>2, <3>3
  <2>2. CASE Responses!Pop
    BY <1>1, <2>2, PopDrops DEF Responses!Queue!Next, Responses!Queue!Pop
  <2>3. CASE Responses!PushRefused \/ UNCHANGED Responses!ring
    BY <2>3 DEF Responses!PushRefused, Responses!ring, Responses!Contents, Responses!Length
  <2> QED BY <2>1, <2>2, <2>3 DEF Responses!Next
<1> QED BY <1>2, <1>3, RingTypeCorrect, PTL
        DEF Responses!Spec, Responses!Queue!Spec, Responses!ImplementsFifo

-----------------------------------------------------------------------------
\* The ring of Keyboard.

LEMMA RingLength ==
  ASSUME Responses!TypeOK
  PROVE  Responses!Length \in 0..RingSize - 1
BY SizesAssumption DEF Responses!TypeOK, Responses!Length

\* A push makes the ring one longer, or, overfilling it, empty.
LEMMA PushLength ==
  ASSUME Responses!TypeOK, NEW code \in Codes, Responses!Push(code)
  PROVE  /\ Responses!TypeOK'
         /\ Responses!Length' = IF Responses!Length = RingSize - 1 THEN 0
                                ELSE Responses!Length + 1
<1>1. m_write_end' = IF m_write_end = RingSize - 1 THEN 0 ELSE m_write_end + 1
  BY RingSizeOK, Successor DEF Responses!TypeOK, Responses!Push
<1>2. Responses!TypeOK'
  BY <1>1, SizesAssumption DEF Responses!TypeOK, Responses!Push
<1>3. m_read_end' = m_read_end /\ m_read_end # m_write_end + 1
  BY DEF Responses!Push, Responses!Full
<1> QED BY <1>1, <1>2, <1>3, SizesAssumption DEF Responses!TypeOK, Responses!Length

\* Moving the read index on makes it one shorter, or, empty as it was, full.
LEMMA AdvanceLength ==
  ASSUME Responses!TypeOK, AdvanceRead
  PROVE  /\ Responses!TypeOK'
         /\ Responses!Length' = IF Responses!Length = 0 THEN RingSize - 1
                                ELSE Responses!Length - 1
<1>1. m_read_end' = IF m_read_end = RingSize - 1 THEN 0 ELSE m_read_end + 1
  BY RingSizeOK, Successor DEF Responses!TypeOK, AdvanceRead
<1>2. Responses!TypeOK'
  BY <1>1, SizesAssumption DEF Responses!TypeOK, AdvanceRead
<1>3. m_write_end' = m_write_end
  BY DEF AdvanceRead
<1> QED BY <1>1, <1>2, <1>3, SizesAssumption DEF Responses!TypeOK, Responses!Length

\* Seen from the write index: the i-th element held was pushed so long ago, and
\* so was the front, which in an empty ring is the cell about to be written.
LEMMA CellsBehind ==
  ASSUME Responses!TypeOK
  PROVE  /\ \A i \in 1..Responses!Length :
              Cell(m_read_end, i) = Back(Responses!Length + 1 - i)
         /\ m_read_end = Back(IF Responses!Length = 0 THEN RingSize ELSE Responses!Length)
<1>1. RingSize \in Nat \ {0, 1} /\ m_read_end \in 0..RingSize - 1
      /\ m_write_end \in 0..RingSize - 1
  BY SizesAssumption DEF Responses!TypeOK
<1>2. ASSUME NEW i \in 1..Responses!Length
      PROVE  Cell(m_read_end, i) = Back(Responses!Length + 1 - i)
  <2>1. i \in 1..RingSize
    BY <1>1, RingLength
  <2>2. Cell(m_read_end, i) = IF m_read_end + i - 1 < RingSize THEN m_read_end + i - 1
                              ELSE m_read_end + i - 1 - RingSize
    BY <1>1, <2>1, CellValue, RingSizeOK
  <2> QED BY <1>1, <2>1, <2>2 DEF Back, Responses!Length
<1>3. m_read_end = Back(IF Responses!Length = 0 THEN RingSize ELSE Responses!Length)
  BY <1>1 DEF Back, Responses!Length
<1> QED BY <1>2, <1>3

\* The codes gone were pushed, and the ring holds the rest in order.
LEMMA ContentsAreLatest ==
  ASSUME TypeOK, CellsInv, Gone >= 0
  PROVE  Responses!Contents = SubSeq(accepted, Gone + 1, Len(accepted))
<1> DEFINE rest == SubSeq(accepted, Gone + 1, Len(accepted))
<1>1. accepted \in Seq(Codes) /\ Len(accepted) \in Nat /\ Responses!TypeOK
  BY DEF TypeOK
<1>2. /\ Responses!Length \in 0..RingSize - 1 /\ RingSize \in Nat
      /\ Gone \in 0..Len(accepted) /\ Len(accepted) - Gone = Responses!Length
  BY <1>1, RingLength, SizesAssumption DEF Gone
<1>3. /\ rest \in Seq(Codes \union {"zero"}) /\ Len(rest) = Responses!Length
      /\ \A i \in 1..Responses!Length : rest[i] = accepted[Gone + i]
  <2>1. accepted \in Seq(Codes \union {"zero"})
    BY <1>1
  <2> HIDE DEF Gone
  <2> QED BY <1>1, <1>2, <2>1
<1>4. /\ Responses!Contents \in Seq(Codes \union {"zero"})
      /\ Len(Responses!Contents) = Responses!Length
      /\ \A i \in 1..Responses!Length :
           Responses!Contents[i] = m_buffer[Cell(m_read_end, i)]
  BY <1>1, RingSizeOK, ContentsIsSequence
<1>5. ASSUME NEW i \in 1..Responses!Length
      PROVE  Responses!Contents[i] = rest[i]
  <2> DEFINE j == Responses!Length + 1 - i
  <2>1. j \in 1..RingSize /\ j <= Len(accepted) /\ Len(accepted) + 1 - j = Gone + i
    BY <1>1, <1>2
  <2>2. m_buffer[Back(j)] = accepted[Gone + i]
    <3> HIDE DEF j
    <3> QED BY <2>1 DEF CellsInv
  <2>3. Cell(m_read_end, i) = Back(j)
    BY <1>1, CellsBehind
  <2> QED BY <1>3, <1>4, <2>2, <2>3
<1> HIDE DEF rest
<1>6. Responses!Contents = rest
  <2> HIDE DEF Responses!Contents
  <2> QED BY <1>3, <1>4, <1>5, SeqEqual
<1> QED BY <1>6 DEF rest

\* A push writes the latest cell, and the others are one push older.
LEMMA PushCells ==
  ASSUME TypeOK, CellsInv, NEW code \in Codes, Responses!Push(code),
         accepted' = Append(accepted, code)
  PROVE  CellsInv'
<1>1. /\ RingSize \in Nat \ {0, 1} /\ m_write_end \in 0..RingSize - 1
      /\ m_buffer \in [0..RingSize -> Codes \union {"zero"}]
      /\ accepted \in Seq(Codes) /\ Len(accepted) \in Nat
  BY SizesAssumption DEF TypeOK, Responses!TypeOK
<1>2. /\ m_write_end' = IF m_write_end = RingSize - 1 THEN 0 ELSE m_write_end + 1
      /\ m_buffer' = [m_buffer EXCEPT ![m_write_end] = code]
  BY <1>1, RingSizeOK, Successor DEF Responses!Push
<1>3. /\ Len(accepted') = Len(accepted) + 1 /\ accepted'[Len(accepted) + 1] = code
      /\ \A i \in 1..Len(accepted) : accepted'[i] = accepted[i]
  BY <1>1
<1>4. ASSUME NEW j \in 1..RingSize, j <= Len(accepted')
      PROVE  m_buffer'[Back(j)'] = accepted'[Len(accepted') + 1 - j]
  <2>1. CASE j = 1
    <3>1. Back(j)' = m_write_end
      BY <1>1, <1>2, <2>1 DEF Back
    <3>2. Len(accepted') + 1 - j = Len(accepted) + 1
      BY <1>1, <1>3, <2>1
    <3> QED BY <1>1, <1>2, <1>3, <3>1, <3>2
  <2>2. CASE j # 1
    <3> DEFINE older == j - 1
    <3>1. older \in 1..RingSize /\ older <= Len(accepted)
          /\ Len(accepted') + 1 - j = Len(accepted) + 1 - older
          /\ Len(accepted) + 1 - older \in 1..Len(accepted)
      BY <1>1, <1>3, <1>4, <2>2
    <3>2. Back(j)' = Back(older) /\ Back(older) # m_write_end /\ Back(older) \in 0..RingSize
      BY <1>1, <1>2, <1>4, <2>2 DEF Back
    <3>3. m_buffer[Back(older)] = accepted[Len(accepted) + 1 - older]
      <4> HIDE DEF older
      <4> QED BY <3>1 DEF CellsInv
    <3> QED BY <1>1, <1>2, <1>3, <3>1, <3>2, <3>3
  <2> QED BY <2>1, <2>2
<1> QED BY <1>4 DEF CellsInv

-----------------------------------------------------------------------------
\* Products and sequences.

LEMMA Rounds ==
  ASSUME NEW k \in Nat, NEW s \in Nat
  PROVE  k * s \in Nat /\ (k + 1) * s = k * s + s /\ (k # 0 => (k - 1) * s = k * s - s)
OBVIOUS

\* More rounds are more codes.
LEMMA RoundsOrdered ==
  ASSUME NEW k \in Nat, NEW m \in Nat, NEW s \in Nat, k >= m
  PROVE  k * s >= m * s
<1>1. k - m \in Nat
  OBVIOUS
<1>2. (k - m) * s \in Nat
  BY <1>1, Rounds
<1>3. k * s = m * s + (k - m) * s
  OBVIOUS
<1>4. m * s \in Nat
  BY Rounds
<1> QED BY <1>2, <1>3, <1>4

LEMMA RoundsBounded ==
  ASSUME NEW k \in Nat, NEW s \in Nat \ {0}
  PROVE  k <= k * s
<1>1. s - 1 \in Nat
  OBVIOUS
<1>2. k * (s - 1) \in Nat
  BY <1>1, Rounds
<1>3. k * s = k * (s - 1) + k
  OBVIOUS
<1> QED BY <1>2, <1>3

LEMMA DropLast ==
  ASSUME NEW T, NEW q \in Seq(T), q # << >>
  PROVE  SubSeq(q, 1, Len(q) - 1) \in Seq(T) /\ Len(SubSeq(q, 1, Len(q) - 1)) = Len(q) - 1
<1>1. Len(q) \in Nat /\ Len(q) # 0
  OBVIOUS
<1>2. \A i \in 1..Len(q) - 1 : q[i] \in T
  <2>1. \A i \in 1..Len(q) : q[i] \in T
    OBVIOUS
  <2> QED BY <1>1, <2>1
<1> DEFINE less == SubSeq(q, 1, Len(q) - 1)
<1>3. less \in Seq(T)
  BY <1>1, <1>2, SubSeqProperties
<1>4. Len(less) = IF 1 <= Len(q) - 1 THEN Len(q) - 1 - 1 + 1 ELSE 0
  BY <1>1, <1>2, SubSeqProperties
<1> HIDE DEF less
<1>5. Len(less) = Len(q) - 1
  BY <1>1, <1>4
<1> QED BY <1>3, <1>5 DEF less

-----------------------------------------------------------------------------
\* Steps that touch neither the ring nor the counts.

LEMMA Quiet ==
  ASSUME IInv, UNCHANGED <<ring, history>>,
         pc' \in {"advance", "handle"} => pc' = pc /\ key_code' = key_code
  PROVE  CellsInv' /\ OrderInv'
<1>1. Responses!Length' = Responses!Length /\ Gone' = Gone
      /\ UNCHANGED <<accepted, handled, overfilled>>
  BY DEF ring, Responses!Length, Gone, history
<1>2. CellsInv'
  BY <1>1 DEF IInv, CellsInv, Back, ring
<1>3. PICK lost \in Nat : Gone = handled + lost * RingSize /\ (~overfilled => lost = 0)
                          /\ InHand(lost)
  BY DEF IInv, OrderInv
<1>4. InHand(lost)'
  BY <1>1, <1>3 DEF InHand
<1> QED BY <1>1, <1>2, <1>3, <1>4 DEF OrderInv

LEMMA QuietTypes ==
  ASSUME IInv, UNCHANGED <<ring, history>>
  PROVE  /\ Responses!TypeOK'
         /\ accepted' \in Seq(Codes) /\ handled' \in 0..Len(accepted') /\ overfilled' \in BOOLEAN
BY DEF IInv, TypeOK, Responses!TypeOK, ring, history

\* A push: it comes in at any step of the shell, whose place in the pop it keeps.
LEMMA PushStep ==
  ASSUME IInv, NEW code \in Codes, Respond(code), handled' = handled, key_code' = key_code,
         pc' = pc \/ pc' = "check" \/ pc' = "off"
  PROVE  /\ CellsInv' /\ OrderInv' /\ PopInv'
         /\ Responses!TypeOK'
         /\ accepted' \in Seq(Codes) /\ handled' \in 0..Len(accepted') /\ overfilled' \in BOOLEAN
<1>1. /\ Responses!TypeOK /\ accepted \in Seq(Codes) /\ handled \in 0..Len(accepted)
      /\ overfilled \in BOOLEAN /\ Len(accepted) \in Nat
  BY DEF IInv, TypeOK
<1>2. CASE Responses!PushRefused /\ UNCHANGED <<accepted, overfilled>>
  <2>1. UNCHANGED <<ring, history>>
    BY <1>2 DEF Responses!PushRefused, Responses!ring, ring, history
  <2>2. PopInv'
    BY <1>2 DEF IInv, PopInv
  <2>3. pc' \in {"advance", "handle"} => pc' = pc /\ key_code' = key_code
    OBVIOUS
  <2> QED BY <2>1, <2>2, <2>3, Quiet, QuietTypes
<1>3. CASE /\ Responses!Push(code)
           /\ accepted' = Append(accepted, code)
           /\ overfilled' = (overfilled \/ Responses!Length = RingSize - 1)
  <2>1. /\ accepted' \in Seq(Codes) /\ Len(accepted') = Len(accepted) + 1
        /\ \A i \in 1..Len(accepted) : accepted'[i] = accepted[i]
    BY <1>1, <1>3
  <2>2. /\ Responses!TypeOK'
        /\ Responses!Length' = IF Responses!Length = RingSize - 1 THEN 0
                               ELSE Responses!Length + 1
    BY <1>1, <1>3, PushLength
  <2>3. OrderInv'
    <3>1. PICK lost \in Nat : Gone = handled + lost * RingSize /\ (~overfilled => lost = 0)
                              /\ InHand(lost)
      BY DEF IInv, OrderInv
    <3>2. /\ lost * RingSize \in Nat /\ (lost + 1) * RingSize = lost * RingSize + RingSize
          /\ RingSize \in Nat /\ Responses!Length \in Nat
      BY <1>1, Rounds, RingLength, SizesAssumption
    \* The code in hand stays where it is in the list, the list being longer.
    <3>3. ASSUME NEW more \in Nat, more >= lost
          PROVE  InHand(more)'
      <4>1. ASSUME pc' = "advance"
            PROVE  \E k \in 0..more : /\ handled' + 1 + k * RingSize <= Len(accepted')
                                       /\ key_code' = accepted'[handled' + 1 + k * RingSize]
        <5>1. PICK k \in 0..lost : /\ handled + 1 + k * RingSize <= Len(accepted)
                                   /\ key_code = accepted[handled + 1 + k * RingSize]
          BY <3>1, <4>1 DEF InHand
        <5>2. k * RingSize \in Nat /\ k \in 0..more
          BY <3>2, <3>3, Rounds
        <5>3. handled + 1 + k * RingSize \in 1..Len(accepted)
          BY <1>1, <5>1, <5>2
        <5> QED BY <1>1, <2>1, <5>1, <5>2, <5>3
      <4>2. ASSUME pc' = "handle"
            PROVE  \E k \in 0..more : key_code' = accepted'[handled' + k * RingSize]
        <5>1. PICK k \in 0..lost : key_code = accepted[handled + k * RingSize]
          BY <3>1, <4>2 DEF InHand
        <5>2. k * RingSize \in Nat /\ k \in 0..more /\ k \in Nat
          BY <3>2, <3>3, Rounds
        <5>3. handled >= 1
          BY <1>1, <4>2 DEF IInv, PopInv
        <5>4. handled + k * RingSize \in 1..Len(accepted)
          <6>1. k * RingSize <= lost * RingSize
            BY <3>2, <5>2, RoundsOrdered
          <6> QED BY <1>1, <3>1, <3>2, <5>2, <5>3, <6>1 DEF Gone
        <5> QED BY <2>1, <5>1, <5>2, <5>4
      <4> QED BY <4>1, <4>2 DEF InHand
    <3>4. CASE Responses!Length = RingSize - 1
      <4>1. Gone' = handled' + (lost + 1) * RingSize
        BY <1>1, <2>1, <2>2, <3>1, <3>2, <3>4 DEF Gone
      <4>2. overfilled'
        BY <1>3, <3>4
      <4>3. lost + 1 \in Nat /\ lost + 1 >= lost
        BY <3>1
      <4>4. InHand(lost + 1)'
        BY <3>3, <4>3
      <4> QED BY <4>1, <4>2, <4>3, <4>4 DEF OrderInv
    <3>5. CASE Responses!Length # RingSize - 1
      <4>1. Gone' = handled' + lost * RingSize
        BY <1>1, <2>1, <2>2, <3>1, <3>2, <3>5 DEF Gone
      <4>2. ~overfilled' => lost = 0
        BY <1>3, <3>1
      <4>3. lost \in Nat /\ lost >= lost
        BY <3>1
      <4>4. InHand(lost)'
        BY <3>3, <4>3
      <4> QED BY <4>1, <4>2, <4>3, <4>4 DEF OrderInv
    <3> QED BY <3>4, <3>5
  <2>4. CellsInv'
    BY <1>3, PushCells DEF IInv
  <2>5. PopInv'
    <3>1. pc' = "take" => pc = "take"
      OBVIOUS
    <3>2. pc' = "handle" => pc = "handle"
      OBVIOUS
    <3> QED BY <1>1, <2>1, <3>1, <3>2 DEF IInv, PopInv
  <2> QED BY <1>1, <1>3, <2>1, <2>2, <2>3, <2>4, <2>5
<1> QED BY <1>2, <1>3 DEF Respond

-----------------------------------------------------------------------------
LEMMA InitInv == Init => IInv
<1> SUFFICES ASSUME Init PROVE IInv
  OBVIOUS
<1>1. TypeOK
  BY SizesAssumption, BoundAssumption DEF Init, TypeOK, Responses!Init, Responses!TypeOK
<1>2. CellsInv
  BY SizesAssumption DEF Init, CellsInv
<1>3. OrderInv
  <2>1. Responses!Length = 0
    BY SizesAssumption DEF Init, Responses!Init, Responses!Length
  <2>2. Gone = handled + 0 * RingSize
    BY <2>1, SizesAssumption DEF Init, Gone
  <2>3. InHand(0)
    BY DEF Init, InHand
  <2> QED BY <2>2, <2>3 DEF OrderInv
<1> QED BY <1>1, <1>2, <1>3 DEF IInv, PopInv, Init

\* The type invariant outside the ring and the counts.
OtherTypes ==
  /\ wire \in Seq(Codes)
  /\ inputLatch \in Commands \union {"none"}
  /\ pressed \in 0..MaxKeys
  /\ m_cmd_queue \in Seq(Commands)
  /\ offset \in {8, 32} /\ mask \in SUBSET Irqs /\ in_service \in SUBSET Irqs
  /\ idt \in [Vectors -> Handlers \union {"none"}] /\ interrupts_on \in BOOLEAN
  /\ pc \in {"remap", "unmask", "install", "sti", "reset", "echo",
             "check", "take", "advance", "handle", "parse", "halt", "halted", "off"}
  /\ key_code \in Codes \union {"zero"}
  /\ left_shift_pressed \in BOOLEAN /\ right_shift_pressed \in BOOLEAN
  /\ extended \in BOOLEAN
  /\ line \in Seq([code : Printable, shifted : BOOLEAN]) /\ Len(line) <= LineSize

LEMMA QuietStep ==
  ASSUME IInv, UNCHANGED <<ring, history>>, OtherTypes', PopInv',
         pc' \in {"advance", "handle"} => pc' = pc /\ key_code' = key_code
  PROVE  IInv'
BY Quiet, QuietTypes DEF IInv, TypeOK, OtherTypes

LEMMA PressStep ==
  ASSUME IInv, NEW c \in Keys, Press(c)
  PROVE  IInv'
<1>1. OtherTypes'
  BY CodesAssumption, BoundAssumption DEF IInv, TypeOK, OtherTypes, Press, modifiers, interrupts
<1>2. PopInv'
  BY DEF IInv, PopInv, Press, history
<1> QED BY <1>1, <1>2, QuietStep DEF Press

LEMMA AnswerStep ==
  ASSUME IInv, Answer
  PROVE  IInv'
<1>1. OtherTypes'
  <2>1. <<"Echo">> \in Seq(Codes) /\ <<"CommandAcknowledged", "LeftShiftUp">> \in Seq(Codes)
    BY DEF Codes, Special
  <2>2. wire' \in Seq(Codes)
    BY <2>1 DEF IInv, TypeOK, Answer
  <2> QED BY <2>2 DEF IInv, TypeOK, OtherTypes, Answer, modifiers, interrupts
<1>2. PopInv'
  BY DEF IInv, PopInv, Answer, history
<1> QED BY <1>1, <1>2, QuietStep DEF Answer

LEMMA EnqueueStep ==
  ASSUME IInv, Reset \/ Echo
  PROVE  IInv'
<1>1. /\ UNCHANGED <<wire, pressed, ring, interrupts, key_code, modifiers, line, history>>
      /\ pc' \in {"echo", "check"}
  BY DEF Reset, Echo, EnqueueCommand
<1>2. inputLatch' \in Commands \union {"none"} /\ m_cmd_queue' \in Seq(Commands)
  <2>1. PICK command \in Commands :
          IF m_cmd_queue = << >>
            THEN PollingWrite(command) /\ m_cmd_queue' = m_cmd_queue
            ELSE m_cmd_queue' = Append(m_cmd_queue, command) /\ UNCHANGED inputLatch
    BY DEF Reset, Echo, EnqueueCommand, Commands
  <2>2. m_cmd_queue' \in Seq(Commands)
    BY <2>1 DEF IInv, TypeOK
  <2>3. inputLatch' = inputLatch \/ inputLatch' = command
    BY <2>1 DEF PollingWrite
  <2> QED BY <2>2, <2>3 DEF IInv, TypeOK
<1>3. OtherTypes'
  BY <1>1, <1>2 DEF IInv, TypeOK, OtherTypes, modifiers, interrupts
<1>4. PopInv'
  BY <1>1 DEF PopInv
<1> QED BY <1>1, <1>3, <1>4, QuietStep

\* kernel_main's steps before interrupts are on.
LEMMA BootStep ==
  ASSUME IInv, Remap \/ ClearMasks \/ InitIdt \/ EnableInterrupts
  PROVE  IInv'
<1>1. /\ UNCHANGED <<keyboard, ring, m_cmd_queue, in_service, key_code, modifiers, line,
                     history>>
      /\ pc' \in {"unmask", "install", "sti", "reset"}
  BY DEF Remap, ClearMasks, InitIdt, EnableInterrupts
<1>2. offset' \in {8, 32} /\ mask' \in SUBSET Irqs /\ interrupts_on' \in BOOLEAN
  BY DEF Remap, ClearMasks, InitIdt, EnableInterrupts, IInv, TypeOK
<1>3. idt' \in [Vectors -> Handlers \union {"none"}]
  <2>1. \A v \in Vectors : Stub(v) \in Handlers
    BY DEF Stub, Handlers
  <2> QED BY <2>1 DEF Remap, ClearMasks, InitIdt, EnableInterrupts, IInv, TypeOK
<1>4. OtherTypes'
  BY <1>1, <1>2, <1>3 DEF IInv, TypeOK, OtherTypes, keyboard, modifiers
<1>5. PopInv'
  BY <1>1 DEF PopInv
<1> QED BY <1>1, <1>4, <1>5, QuietStep

LEMMA ServedTypes ==
  ASSUME TypeOK, NEW irq \in Irqs, Served(irq)
  PROVE  /\ offset' \in {8, 32} /\ mask' \in SUBSET Irqs /\ in_service' \in SUBSET Irqs
         /\ idt' \in [Vectors -> Handlers \union {"none"}] /\ interrupts_on' \in BOOLEAN
BY DEF TypeOK, Served, EndOfInterrupt

\* The handler, at any step of the shell.
LEMMA HandlerStep ==
  ASSUME IInv, KeyboardHandler
  PROVE  IInv'
<1> DEFINE scan_code == Head(wire)
<1>1. wire \in Seq(Codes) /\ wire # << >> /\ scan_code \in Codes /\ wire' \in Seq(Codes)
  BY DEF IInv, TypeOK, KeyboardHandler
<1>0. /\ offset' \in {8, 32} /\ mask' \in SUBSET Irqs /\ in_service' \in SUBSET Irqs
      /\ idt' \in [Vectors -> Handlers \union {"none"}] /\ interrupts_on' \in BOOLEAN
  BY ServedTypes DEF KeyboardHandler, IInv, KeyboardIrq, Irqs
<1>2. /\ UNCHANGED <<pressed, key_code, modifiers, line, handled>>
      /\ pc' = pc \/ pc' = "check" \/ pc' = "off"
  BY DEF KeyboardHandler, Wake
<1>3. m_cmd_queue' \in Seq(Commands)
  BY DEF IInv, TypeOK, KeyboardHandler, PopCommand
<1>4. inputLatch' \in Commands \union {"none"}
  <2>1. m_cmd_queue' # << >> => Head(m_cmd_queue') \in Commands
    BY <1>3
  <2> QED BY <2>1 DEF IInv, TypeOK, KeyboardHandler, PollingWrite
<1>5. OtherTypes'
  BY <1>0, <1>1, <1>2, <1>3, <1>4 DEF IInv, TypeOK, OtherTypes, modifiers
<1>6. CASE UNCHANGED <<ring, accepted, overfilled>>
  <2>1. UNCHANGED <<ring, history>>
    BY <1>2, <1>6 DEF history
  <2>2. PopInv'
    BY <1>2, <2>1 DEF IInv, PopInv, history
  <2>3. pc' \in {"advance", "handle"} => pc' = pc /\ key_code' = key_code
    BY <1>2
  <2> QED BY <1>5, <2>1, <2>2, <2>3, QuietStep
<1>7. CASE Respond(scan_code)
  <2>1. /\ CellsInv' /\ OrderInv' /\ PopInv' /\ Responses!TypeOK'
        /\ accepted' \in Seq(Codes) /\ handled' \in 0..Len(accepted')
        /\ overfilled' \in BOOLEAN
    <3> HIDE DEF scan_code
    <3> QED BY <1>1, <1>2, <1>7, PushStep
  <2> QED BY <1>5, <2>1 DEF IInv, TypeOK, OtherTypes
<1> QED BY <1>6, <1>7 DEF KeyboardHandler, ReadByte

LEMMA TimerStep ==
  ASSUME IInv, TimerHandler
  PROVE  IInv'
<1>1. OtherTypes'
  <2>1. /\ offset' \in {8, 32} /\ mask' \in SUBSET Irqs /\ in_service' \in SUBSET Irqs
        /\ idt' \in [Vectors -> Handlers \union {"none"}] /\ interrupts_on' \in BOOLEAN
    BY ServedTypes DEF TimerHandler, IInv, Irqs
  <2> QED BY <2>1 DEF IInv, TypeOK, OtherTypes, TimerHandler, Wake, keyboard, modifiers
<1>2. PopInv'
  BY DEF IInv, PopInv, TimerHandler, Wake, history
<1>3. pc' \in {"advance", "handle"} => pc' = pc /\ key_code' = key_code
  BY DEF TimerHandler, Wake
<1> QED BY <1>1, <1>2, <1>3, QuietStep DEF TimerHandler

LEMMA CheckStep ==
  ASSUME IInv, CheckEmpty
  PROVE  IInv'
<1>1. OtherTypes'
  BY DEF IInv, TypeOK, OtherTypes, CheckEmpty, keyboard, modifiers, interrupts
<1>2. pc' = "take" => handled < Len(accepted)
  <2> SUFFICES ASSUME ~Responses!Empty PROVE handled < Len(accepted)
    BY DEF CheckEmpty
  <2>1. Responses!Length \in Nat /\ Responses!Length # 0
    BY SizesAssumption DEF IInv, TypeOK, Responses!TypeOK, Responses!Empty, Responses!Length
  <2>2. PICK lost \in Nat : Gone = handled + lost * RingSize
    BY DEF IInv, OrderInv
  <2>3. lost * RingSize \in Nat
    BY Rounds, SizesAssumption
  <2>4. handled \in Nat /\ Len(accepted) \in Nat
    BY DEF IInv, TypeOK
  <2> QED BY <2>1, <2>2, <2>3, <2>4 DEF Gone
<1>3. PopInv'
  BY <1>2 DEF PopInv, CheckEmpty, history
<1>4. pc' \in {"halt", "take"}
  BY DEF CheckEmpty
<1> QED BY <1>1, <1>3, <1>4, QuietStep DEF CheckEmpty

\* The code at the front is the next one. When a push has just emptied the ring,
\* behind the shell's check, it is the oldest that the cells still hold.
LEMMA TakeStep ==
  ASSUME IInv, Take
  PROVE  IInv'
<1>1. /\ Responses!TypeOK /\ accepted \in Seq(Codes) /\ handled \in Nat
      /\ Len(accepted) \in Nat /\ handled < Len(accepted)
      /\ Responses!Length \in Nat /\ RingSize \in Nat \ {0} /\ Responses!Length < RingSize
  BY RingLength, SizesAssumption DEF IInv, TypeOK, PopInv, Take
<1>2. UNCHANGED <<keyboard, ring, m_cmd_queue, interrupts, modifiers, line, history>>
      /\ pc' = "advance" /\ key_code' = Responses!Front
  BY DEF Take
<1>3. Responses!Length' = Responses!Length /\ Gone' = Gone
      /\ UNCHANGED <<accepted, handled, overfilled>>
  BY <1>2 DEF ring, Responses!Length, Gone, history
<1>4. PICK lost \in Nat : Gone = handled + lost * RingSize /\ (~overfilled => lost = 0)
  BY DEF IInv, OrderInv
<1>5. lost * RingSize \in Nat /\ (lost # 0 => (lost - 1) * RingSize = lost * RingSize - RingSize)
  BY <1>1, Rounds
<1>6. \E k \in 0..lost : /\ handled + 1 + k * RingSize <= Len(accepted)
                         /\ key_code' = accepted[handled + 1 + k * RingSize]
  <2> DEFINE j == IF Responses!Length = 0 THEN RingSize ELSE Responses!Length
  <2>1. key_code' = m_buffer[Back(j)]
    BY <1>1, <1>2, CellsBehind DEF Responses!Front
  <2>2. CASE Responses!Length = 0
    <3>1. lost # 0 /\ lost - 1 \in 0..lost
      <4>1. 0 * RingSize = 0
        BY <1>1
      <4> QED BY <1>1, <1>4, <2>2, <4>1 DEF Gone
    <3>2. /\ handled + 1 + (lost - 1) * RingSize = Len(accepted) + 1 - j
          /\ j \in 1..RingSize /\ j <= Len(accepted)
          /\ handled + 1 + (lost - 1) * RingSize <= Len(accepted)
      BY <1>1, <1>4, <1>5, <2>2, <3>1 DEF Gone
    <3>3. m_buffer[Back(j)] = accepted[Len(accepted) + 1 - j]
      <4> HIDE DEF j
      <4> QED BY <3>2 DEF IInv, CellsInv
    <3> QED BY <2>1, <3>1, <3>2, <3>3
  <2>3. CASE Responses!Length # 0
    <3>1. /\ handled + 1 + lost * RingSize = Len(accepted) + 1 - j
          /\ j \in 1..RingSize /\ j <= Len(accepted)
          /\ handled + 1 + lost * RingSize <= Len(accepted) /\ lost \in 0..lost
      BY <1>1, <1>4, <1>5, <2>3 DEF Gone
    <3>2. m_buffer[Back(j)] = accepted[Len(accepted) + 1 - j]
      <4> HIDE DEF j
      <4> QED BY <3>1 DEF IInv, CellsInv
    <3> QED BY <2>1, <3>1, <3>2
  <2> QED BY <2>2, <2>3
<1>7. OrderInv'
  <2>1. InHand(lost)'
    BY <1>2, <1>3, <1>6 DEF InHand
  <2> QED BY <1>3, <1>4, <2>1 DEF OrderInv
<1>8. CellsInv'
  BY <1>2, <1>3 DEF IInv, CellsInv, Back, ring
<1>9. key_code' \in Codes \union {"zero"}
  BY <1>1, <1>2 DEF Responses!TypeOK, Responses!Front
<1>10. OtherTypes'
  BY <1>2, <1>9 DEF IInv, TypeOK, OtherTypes, keyboard, modifiers, interrupts
<1>11. PopInv'
  BY <1>2 DEF PopInv
<1> QED BY <1>2, <1>7, <1>8, <1>10, <1>11, QuietTypes DEF IInv, TypeOK, OtherTypes

LEMMA AdvanceStep ==
  ASSUME IInv, Advance
  PROVE  IInv'
<1>1. /\ Responses!TypeOK /\ accepted \in Seq(Codes) /\ handled \in Nat
      /\ Len(accepted) \in Nat /\ RingSize \in Nat \ {0} /\ Responses!Length \in Nat
  BY RingLength, SizesAssumption DEF IInv, TypeOK
<1>2. /\ AdvanceRead /\ handled' = handled + 1 /\ pc' = "handle"
      /\ UNCHANGED <<keyboard, m_cmd_queue, interrupts, key_code, modifiers, line,
                     accepted, overfilled>>
  BY DEF Advance
<1>3. /\ Responses!TypeOK'
      /\ Responses!Length' = IF Responses!Length = 0 THEN RingSize - 1
                             ELSE Responses!Length - 1
  BY <1>1, <1>2, AdvanceLength
<1>4. PICK lost \in Nat : Gone = handled + lost * RingSize /\ (~overfilled => lost = 0)
                          /\ InHand(lost)
  BY DEF IInv, OrderInv
<1>5. PICK k \in 0..lost : /\ handled + 1 + k * RingSize <= Len(accepted)
                           /\ key_code = accepted[handled + 1 + k * RingSize]
  BY <1>4 DEF InHand, Advance
<1>6. /\ k * RingSize \in Nat /\ lost * RingSize \in Nat
      /\ lost # 0 => (lost - 1) * RingSize = lost * RingSize - RingSize
  BY <1>1, Rounds
<1>7. handled < Len(accepted)
  BY <1>1, <1>5, <1>6
<1>8. OrderInv'
  <2>1. key_code' = accepted'[handled' + k * RingSize]
    BY <1>2, <1>5
  <2>2. CASE Responses!Length = 0
    <3>1. k # lost
      BY <1>1, <1>4, <1>5, <1>6, <2>2 DEF Gone
    <3>2. lost # 0 /\ lost - 1 \in Nat /\ k \in 0..lost - 1
      BY <3>1
    <3>3. InHand(lost - 1)'
      BY <1>2, <2>1, <3>2 DEF InHand
    <3>4. Gone' = handled' + (lost - 1) * RingSize
      BY <1>1, <1>2, <1>3, <1>4, <1>6, <2>2, <3>2 DEF Gone
    <3>5. overfilled'
      BY <1>2, <1>4, <3>2 DEF IInv, TypeOK
    <3> QED BY <3>2, <3>3, <3>4, <3>5 DEF OrderInv
  <2>3. CASE Responses!Length # 0
    <3>1. InHand(lost)'
      BY <1>2, <2>1 DEF InHand
    <3>2. Gone' = handled' + lost * RingSize
      BY <1>1, <1>2, <1>3, <1>4, <1>6, <2>3 DEF Gone
    <3> QED BY <1>2, <1>4, <3>1, <3>2 DEF OrderInv
  <2> QED BY <2>2, <2>3
<1>9. CellsInv'
  BY <1>2 DEF IInv, CellsInv, Back, AdvanceRead
<1>10. PopInv'
  BY <1>1, <1>2 DEF PopInv
<1>11. OtherTypes'
  BY <1>2 DEF IInv, TypeOK, OtherTypes, keyboard, modifiers, interrupts
<1>12. accepted' \in Seq(Codes) /\ handled' \in 0..Len(accepted') /\ overfilled' \in BOOLEAN
  BY <1>1, <1>2, <1>7 DEF IInv, TypeOK
<1> QED BY <1>3, <1>8, <1>9, <1>10, <1>11, <1>12 DEF IInv, TypeOK, OtherTypes

\* A key handled: the line is edited within its buffer.
LEMMA HandleStep ==
  ASSUME IInv, HandleCharacter \/ HandleEnter \/ ParseDone \/ HandlePlain \/ HandleExtended
  PROVE  IInv'
<1> DEFINE Lines == Seq([code : Printable, shifted : BOOLEAN])
<1>1. /\ UNCHANGED <<keyboard, ring, m_cmd_queue, interrupts, key_code, history>>
      /\ pc' \in {"check", "parse"}
  BY DEF HandleCharacter, HandleEnter, ParseDone, HandlePlain, HandleExtended
<1>2. line \in Lines /\ Len(line) \in Nat /\ Len(line) <= LineSize
  BY DEF IInv, TypeOK
<1>3. line' \in Lines /\ Len(line') <= LineSize
  <2>1. CASE HandleCharacter
    <3>1. Character \in [code : Printable, shifted : BOOLEAN]
      BY <2>1 DEF HandleCharacter, Character, Shifted
    <3>2. CASE RoomLeft
      <4>1. line' = Append(line, Character) /\ Len(line) < LineSize
        BY <2>1, <3>2 DEF HandleCharacter, RoomLeft
      <4> QED BY <1>2, <3>1, <4>1, SizesAssumption
    <3>3. CASE ~RoomLeft
      BY <1>2, <2>1, <3>3 DEF HandleCharacter
    <3> QED BY <3>2, <3>3
  <2>2. CASE HandlePlain
    <3>1. CASE line' = line
      BY <1>2, <3>1
    <3>2. CASE line # << >> /\ line' = SubSeq(line, 1, Len(line) - 1)
      <4>1. Len(line) - 1 \in Nat /\ Len(line) - 1 <= Len(line)
        BY <1>2, <3>2
      <4>2. line' \in Lines /\ Len(line') = Len(line) - 1
        BY <1>2, <3>2, DropLast
      <4> QED BY <1>2, <4>1, <4>2, SizesAssumption
    <3> QED BY <2>2, <3>1, <3>2 DEF HandlePlain, NewLine
  <2>3. CASE ParseDone
    BY <2>3, SizesAssumption DEF ParseDone
  <2>4. CASE HandleEnter \/ HandleExtended
    BY <1>2, <2>4 DEF HandleEnter, HandleExtended
  <2> QED BY <2>1, <2>2, <2>3, <2>4
<1>4. /\ left_shift_pressed' \in BOOLEAN /\ right_shift_pressed' \in BOOLEAN
      /\ extended' \in BOOLEAN
  BY DEF IInv, TypeOK, HandleCharacter, HandleEnter, ParseDone, HandlePlain, HandleExtended,
         Held, modifiers
<1>5. OtherTypes'
  BY <1>1, <1>3, <1>4 DEF IInv, TypeOK, OtherTypes, keyboard, interrupts
<1>6. PopInv'
  BY <1>1 DEF PopInv
<1> QED BY <1>1, <1>5, <1>6, QuietStep

LEMMA HaltStep ==
  ASSUME IInv, Halt
  PROVE  IInv'
<1>1. OtherTypes'
  BY DEF IInv, TypeOK, OtherTypes, Halt, keyboard, modifiers, interrupts
<1>2. PopInv'
  BY DEF PopInv, Halt
<1> QED BY <1>1, <1>2, QuietStep DEF Halt

LEMMA StutterStep ==
  ASSUME IInv, UNCHANGED vars
  PROVE  IInv'
<1>1. OtherTypes'
  BY DEF IInv, TypeOK, OtherTypes, vars, keyboard, modifiers, interrupts
<1>2. PopInv'
  BY DEF IInv, PopInv, vars, history
<1>3. pc' = pc /\ key_code' = key_code
  BY DEF vars
<1> QED BY <1>1, <1>2, <1>3, QuietStep DEF vars

LEMMA NextInv == IInv /\ [Next]_vars => IInv'
<1> SUFFICES ASSUME IInv, [Next]_vars PROVE IInv'
  OBVIOUS
<1>1. CASE KernelRuns
  BY <1>1, BootStep, EnqueueStep, CheckStep, TakeStep, AdvanceStep, HandleStep, HaltStep
     DEF KernelRuns
<1>2. CASE UNCHANGED vars
  BY <1>2, StutterStep
<1>3. CASE (\E c \in Keys : Press(c)) \/ Answer \/ KeyboardHandler \/ TimerHandler
  BY <1>3, PressStep, AnswerStep, HandlerStep, TimerStep
<1> QED BY <1>1, <1>2, <1>3 DEF Next

-----------------------------------------------------------------------------
\* What holds in every state of the keyboard path.
THEOREM Invariant == Spec => []IInv
BY InitInv, NextInv, PTL DEF Spec, SafeSpec

\* Types of the state; above all the shell's line never outgrows its buffer
\* (shell_main, userspace/shell/shell.cc), and the shell handles no more codes
\* than the ring took.
THEOREM TypeCorrect == Spec => []TypeOK
<1>1. IInv => TypeOK
  BY DEF IInv
<1> QED BY <1>1, Invariant, PTL

\* For a ring of any size, wherever in the shell's pop the interrupt comes: the
\* ring holds the latest codes in order, those gone were handled except for whole
\* rounds lost by pushes into the full ring, none as long as there was no such
\* push, and the code in the shell's hands is the next in order (push_response,
\* pop_response, klib/ps2/keyboard.hh).
THEOREM NoCodeOvertaken == Spec => []TakenInOrder
<1>1. IInv => TakenInOrder
  <2> SUFFICES ASSUME IInv PROVE TakenInOrder
    OBVIOUS
  <2>1. PICK lost \in Nat : Gone = handled + lost * RingSize /\ (~overfilled => lost = 0)
                            /\ InHand(lost)
    BY DEF IInv, OrderInv
  <2>2. /\ handled \in Nat /\ Len(accepted) \in Nat /\ Responses!Length \in Nat
        /\ lost * RingSize \in Nat /\ lost <= lost * RingSize
    BY SizesAssumption, RingLength, Rounds, RoundsBounded DEF IInv, TypeOK
  <2>3. Gone >= 0 /\ lost \in 0..Len(accepted)
    BY <2>1, <2>2 DEF Gone
  <2>4. Responses!Contents = SubSeq(accepted, Gone + 1, Len(accepted))
    BY <2>3, ContentsAreLatest DEF IInv
  <2> QED BY <2>1, <2>3, <2>4 DEF TakenInOrder, Gone, InHand
<1> QED BY <1>1, Invariant, PTL
=============================================================================
