--------------------------- MODULE Console_proofs ---------------------------
(***************************************************************************)
(* Proofs about Console, for pages of every size, every alphabet, all the  *)
(* texts and numbers that the kernel prints and lines of every length: the *)
(* position stays on the page, the page shows the end of the paper, and    *)
(* the line that is edited stands where the shell thinks it does.          *)
(***************************************************************************)
EXTENDS Console, SequenceTheorems, WellFoundedInduction, TLAPS

USE SizeAssumption

\* A console whose position is on its page.
Screens == [page : [Cells -> Chars], row : 0..LastRow, col : 0..(MAX_COLS - 1)]

\* A piece of paper as long as the page: no row is longer than the page is wide.
Rolls ==
  {p \in Seq(Seq(Chars)) : Len(p) \in 1..MAX_ROWS /\ \A r \in 1..Len(p) : Len(p[r]) <= MAX_COLS}

\* After a character is printed its last row has room for another.
Papers == {p \in Rolls : Len(p[Len(p)]) < MAX_COLS}

CellOf(row, col) == col + row * MAX_COLS

ShownAt(p, row, col) ==
  IF row < Len(p) /\ col < Len(p[row + 1]) THEN p[row + 1][col + 1] ELSE Blank

PageShows(page, p) ==
  \A row \in 0..LastRow, col \in 0..(MAX_COLS - 1) :
    page[CellOf(row, col)] = ShownAt(p, row, col)

Shows(s, p) ==
  /\ p \in Papers
  /\ s.row = Len(p) - 1 /\ s.col = Len(p[Len(p)])
  /\ PageShows(s.page, p)

\* The prompt and the line start a row of the page, and the rows of paper that
\* they fill, up to the one with the position, are full.
LineFrom(top, s, p, l) ==
  /\ At(s) = CellOf(top, Len(l) + 1)
  /\ s.page[CellOf(top, 0)] = Prompt
  /\ \A i \in 1..Len(l) : s.page[CellOf(top, i)] = l[i]
  /\ \A r \in (top + 1)..(Len(p) - 1) : Len(p[r]) = MAX_COLS

IInv ==
  /\ screen \in Screens
  /\ phase \in {"boot", "editing", "command"} /\ moved \in BOOLEAN
  /\ line \in Seq(Typed) /\ Len(line) <= LineSize
  /\ phase # "editing" => screen.col = 0
  /\ ~moved => Shows(screen, paper)
  /\ ~moved /\ phase = "editing" => \E top \in 0..LastRow : LineFrom(top, screen, paper, line)

-----------------------------------------------------------------------------
\* The cells of the page, by row and column.

LEMMA ConstantTypes ==
  /\ MAX_ROWS \in Nat /\ MAX_ROWS >= 2 /\ MAX_COLS \in Nat /\ MAX_COLS >= 2
  /\ LastRow \in Nat /\ LastRow = MAX_ROWS - 1
BY DEF LastRow

LEMMA CellsAre == Cells = 0..(CellOf(LastRow, 0) + MAX_COLS - 1)
<1>1. PICK m : m = MAX_ROWS * MAX_COLS
  OBVIOUS
<1>2. LastRow * MAX_COLS = MAX_ROWS * MAX_COLS - MAX_COLS
  BY DEF LastRow
<1>3. m \in Nat
  BY <1>1
<1> QED
  BY <1>1, <1>2, <1>3 DEF CellOf, Cells

LEMMA RowBelow ==
  ASSUME NEW row \in Nat, NEW col \in Nat
  PROVE  /\ CellOf(row, col) \in Nat
         /\ CellOf(row + 1, col) = CellOf(row, col) + MAX_COLS
         /\ CellOf(row, col + 1) = CellOf(row, col) + 1
         /\ CellOf(row, MAX_COLS) = CellOf(row + 1, 0)
         /\ CellOf(row, col) = CellOf(row, 0) + col
<1>1. PICK m \in Nat : m = row * MAX_COLS
  OBVIOUS
<1>2. (row + 1) * MAX_COLS = m + MAX_COLS
  BY <1>1
<1> QED
  BY <1>1, <1>2 DEF CellOf

\* Rows start after each other.
LEMMA RowsInOrder ==
  ASSUME NEW row \in Nat, NEW later \in Nat, row < later
  PROVE  CellOf(row, 0) + MAX_COLS <= CellOf(later, 0)
<1>1. PICK d \in Nat : later = row + 1 + d
  <2>1. later - row - 1 \in Nat /\ later = row + 1 + (later - row - 1)
    OBVIOUS
  <2> QED
    BY <2>1
<1>2. (row + 1 + d) * MAX_COLS = (row + 1) * MAX_COLS + d * MAX_COLS
  OBVIOUS
<1>3. d * MAX_COLS \in Nat /\ (row + 1) * MAX_COLS = row * MAX_COLS + MAX_COLS
      /\ row * MAX_COLS \in Nat
  OBVIOUS
<1> QED
  BY <1>1, <1>2, <1>3 DEF CellOf

LEMMA CellInPage ==
  ASSUME NEW row \in 0..LastRow, NEW col \in 0..(MAX_COLS - 1)
  PROVE  /\ CellOf(row, col) \in Cells
         /\ CellOf(row, col) < CellOf(LastRow, 0) <=> row < LastRow
<1>1. row \in Nat /\ col \in Nat /\ col < MAX_COLS /\ row <= LastRow /\ LastRow \in Nat
  BY ConstantTypes
<1>2. CellOf(row, col) = CellOf(row, 0) + col /\ CellOf(row, col) \in Nat
  BY <1>1, RowBelow
<1>3. CellOf(row, 0) \in Nat /\ CellOf(LastRow, 0) \in Nat
  BY <1>1, RowBelow
<1>4. row < LastRow => CellOf(row, 0) + MAX_COLS <= CellOf(LastRow, 0)
  BY <1>1, RowsInOrder
<1>5. CellOf(row, col) < CellOf(LastRow, 0) <=> row < LastRow
  BY <1>1, <1>2, <1>3, <1>4, ConstantTypes
<1>6. CellOf(row, col) < CellOf(LastRow, 0) + MAX_COLS
  BY <1>1, <1>2, <1>3, <1>4, ConstantTypes
<1> QED
  BY <1>2, <1>3, <1>5, <1>6, CellsAre, ConstantTypes

LEMMA CellsDistinct ==
  ASSUME NEW row \in Nat, NEW col \in 0..(MAX_COLS - 1),
         NEW row2 \in Nat, NEW col2 \in 0..(MAX_COLS - 1),
         CellOf(row, col) = CellOf(row2, col2)
  PROVE  row = row2 /\ col = col2
<1>1. /\ CellOf(row, col) = CellOf(row, 0) + col /\ CellOf(row, 0) \in Nat
      /\ CellOf(row2, col2) = CellOf(row2, 0) + col2 /\ CellOf(row2, 0) \in Nat
  BY ConstantTypes, RowBelow
<1>2. row < row2 => CellOf(row, 0) + MAX_COLS <= CellOf(row2, 0)
  BY RowsInOrder
<1>3. row2 < row => CellOf(row2, 0) + MAX_COLS <= CellOf(row, 0)
  BY RowsInOrder
<1>4. PICK a \in Nat, b \in Nat : a = CellOf(row, 0) /\ b = CellOf(row2, 0)
  BY <1>1
<1>5. a + col = b + col2
  BY <1>1, <1>4
<1>6. (row < row2 => a + MAX_COLS <= b) /\ (row2 < row => b + MAX_COLS <= a)
  BY <1>2, <1>3, <1>4
<1>7. row = row2
  BY <1>5, <1>6
<1>8. a = b
  BY <1>4, <1>7
<1> QED
  BY <1>5, <1>7, <1>8

LEMMA EveryCell ==
  ASSUME NEW i \in Cells
  PROVE  \E row \in 0..LastRow, col \in 0..(MAX_COLS - 1) : i = CellOf(row, col)
<1>1. PICK row, col : row = i \div MAX_COLS /\ col = i % MAX_COLS
  OBVIOUS
<1>2. i \in Nat /\ i < CellOf(LastRow, 0) + MAX_COLS /\ CellOf(LastRow, 0) \in Nat
  <2>1. CellOf(LastRow, 0) \in Nat
    BY ConstantTypes, RowBelow
  <2>2. PICK n \in Nat : n = CellOf(LastRow, 0)
    BY <2>1
  <2>3. i \in 0..(n + MAX_COLS - 1)
    BY <2>2, CellsAre
  <2> QED
    BY <2>2, <2>3
<1>3. row \in Nat /\ col \in 0..(MAX_COLS - 1) /\ i = MAX_COLS * row + col
  BY <1>1, <1>2, ConstantTypes
<1>4. i = CellOf(row, col)
  BY <1>3, ConstantTypes DEF CellOf
<1>5. i = CellOf(row, 0) + col /\ CellOf(row, 0) \in Nat
  <2>1. col \in Nat
    BY <1>3, ConstantTypes
  <2> QED
    BY <1>3, <1>4, <2>1, RowBelow
<1>6. LastRow < row => CellOf(LastRow, 0) + MAX_COLS <= CellOf(row, 0)
  BY <1>3, ConstantTypes, RowsInOrder
<1>7. row <= LastRow
  BY <1>2, <1>3, <1>5, <1>6, ConstantTypes
<1> QED
  BY <1>3, <1>4, <1>7, ConstantTypes

-----------------------------------------------------------------------------
\* The operations, as the records they return.

Scrolled(page) ==
  [i \in Cells |-> IF i < LastRow * MAX_COLS THEN page[i + MAX_COLS] ELSE Blank]

\* Where the position goes when the row is full or ended.
Below(page, row) ==
  IF row = LastRow THEN [page |-> Scrolled(page), row |-> row, col |-> 0]
                   ELSE [page |-> page, row |-> row + 1, col |-> 0]

LEMMA NewLineIs ==
  ASSUME NEW page, NEW row, NEW col
  PROVE  NewLine([page |-> page, row |-> row, col |-> col]) = Below(page, row)
<1> DEFINE s == [page |-> page, row |-> row, col |-> col]
<1>1. s.row = row
  OBVIOUS
<1>2. [s EXCEPT !.col = 0] = [page |-> page, row |-> row, col |-> 0]
  OBVIOUS
<1>3. [s EXCEPT !.col = 0, !.row = @ + 1] = [page |-> page, row |-> row + 1, col |-> 0]
  <2>1. PICK r : r = [s EXCEPT !.col = 0]
    OBVIOUS
  <2>2. r = [page |-> page, row |-> row, col |-> 0]
    BY <1>2, <2>1
  <2>3. [r EXCEPT !.row = row + 1] = [page |-> page, row |-> row + 1, col |-> 0]
    BY <2>2
  <2>4. [s EXCEPT !.col = 0, !.row = @ + 1] = [r EXCEPT !.row = row + 1]
    BY <1>1, <2>1
  <2> QED
    BY <2>3, <2>4
<1>4. Scroll([page |-> page, row |-> row, col |-> 0]) =
        [page |-> Scrolled(page), row |-> row, col |-> 0]
  BY DEF Scroll, Scrolled
<1> QED
  BY <1>1, <1>2, <1>3, <1>4 DEF NewLine, Below

LEMMA ScreenIs ==
  ASSUME NEW s \in Screens
  PROVE  /\ s = [page |-> s.page, row |-> s.row, col |-> s.col]
         /\ s.page \in [Cells -> Chars]
         /\ s.row \in 0..LastRow /\ s.col \in 0..(MAX_COLS - 1)
         /\ At(s) = CellOf(s.row, s.col) /\ At(s) \in Cells
<1>1. /\ s = [page |-> s.page, row |-> s.row, col |-> s.col]
      /\ s.page \in [Cells -> Chars]
      /\ s.row \in 0..LastRow /\ s.col \in 0..(MAX_COLS - 1)
  BY DEF Screens
<1>2. At(s) = CellOf(s.row, s.col)
  BY DEF At, CellOf
<1> QED
  BY <1>1, <1>2, CellInPage

LEMMA ScreenMade ==
  ASSUME NEW page \in [Cells -> Chars], NEW row \in 0..LastRow, NEW col \in 0..(MAX_COLS - 1)
  PROVE  /\ [page |-> page, row |-> row, col |-> col] \in Screens
         /\ At([page |-> page, row |-> row, col |-> col]) = CellOf(row, col)
BY DEF Screens, At, CellOf

LEMMA ScrolledRows ==
  ASSUME NEW page \in [Cells -> Chars]
  PROVE  /\ Scrolled(page) \in [Cells -> Chars]
         /\ \A row \in 0..(LastRow - 1), col \in 0..(MAX_COLS - 1) :
              Scrolled(page)[CellOf(row, col)] = page[CellOf(row + 1, col)]
         /\ \A col \in 0..(MAX_COLS - 1) : Scrolled(page)[CellOf(LastRow, col)] = Blank
<1>1. LastRow * MAX_COLS = CellOf(LastRow, 0)
  <2>1. PICK m : m = LastRow * MAX_COLS
    OBVIOUS
  <2>2. m \in Nat
    BY <2>1, ConstantTypes
  <2> QED
    BY <2>1, <2>2 DEF CellOf
<1>2. \A i \in Cells : Scrolled(page)[i] =
         IF i < CellOf(LastRow, 0) THEN page[i + MAX_COLS] ELSE Blank
  BY <1>1 DEF Scrolled
<1>3. ASSUME NEW row \in 0..(LastRow - 1), NEW col \in 0..(MAX_COLS - 1)
      PROVE  /\ CellOf(row, col) \in Cells /\ CellOf(row, col) < CellOf(LastRow, 0)
             /\ CellOf(row, col) + MAX_COLS = CellOf(row + 1, col) /\ CellOf(row + 1, col) \in Cells
  <2>1. row \in Nat /\ col \in Nat /\ row < LastRow /\ row \in 0..LastRow /\ row + 1 \in 0..LastRow
    BY ConstantTypes
  <2> QED
    BY <2>1, CellInPage, RowBelow
<1>4. ASSUME NEW col \in 0..(MAX_COLS - 1)
      PROVE  CellOf(LastRow, col) \in Cells /\ ~(CellOf(LastRow, col) < CellOf(LastRow, 0))
  <2>1. LastRow \in 0..LastRow /\ ~(LastRow < LastRow)
    BY ConstantTypes
  <2> QED
    BY <2>1, CellInPage
<1>5. ASSUME NEW i \in Cells PROVE Scrolled(page)[i] \in Chars
  <2>1. PICK row \in 0..LastRow, col \in 0..(MAX_COLS - 1) : i = CellOf(row, col)
    BY EveryCell
  <2>2. CASE row = LastRow
    BY <1>2, <1>4, <2>1, <2>2 DEF Chars
  <2>3. CASE row # LastRow
    <3>1. row \in 0..(LastRow - 1)
      BY <2>3, ConstantTypes
    <3> QED
      BY <1>2, <1>3, <2>1, <3>1
  <2> QED
    BY <2>2, <2>3
<1>6. Scrolled(page) \in [Cells -> Chars]
  BY <1>5 DEF Scrolled
<1> QED
  BY <1>2, <1>3, <1>4, <1>6

LEMMA BelowIs ==
  ASSUME NEW page \in [Cells -> Chars], NEW row \in 0..LastRow
  PROVE  Below(page, row) \in Screens /\ Below(page, row).col = 0
<1>1. 0 \in 0..(MAX_COLS - 1) /\ (row # LastRow => row + 1 \in 0..LastRow)
  BY ConstantTypes
<1> QED
  BY <1>1, ScrolledRows, ScreenMade DEF Below

LEMMA NewLineKept ==
  ASSUME NEW s \in Screens
  PROVE  NewLine(s) = Below(s.page, s.row) /\ NewLine(s) \in Screens /\ NewLine(s).col = 0
<1>1. NewLine(s) = Below(s.page, s.row)
  BY ScreenIs, NewLineIs
<1> QED
  BY <1>1, ScreenIs, BelowIs

LEMMA PutCharIs ==
  ASSUME NEW s \in Screens, NEW ch \in Chars
  PROVE  LET page == [s.page EXCEPT ![At(s)] = ch]
         IN  /\ page \in [Cells -> Chars]
             /\ PutChar(s, ch) = IF s.col + 1 = MAX_COLS THEN Below(page, s.row)
                                 ELSE [page |-> page, row |-> s.row, col |-> s.col + 1]
             /\ PutChar(s, ch) \in Screens
<1>1. PICK page : page = [s.page EXCEPT ![At(s)] = ch]
  OBVIOUS
<1>2. page \in [Cells -> Chars]
  BY <1>1, ScreenIs
<1>3. [Write(s, ch) EXCEPT !.col = @ + 1] = [page |-> page, row |-> s.row, col |-> s.col + 1]
  <2>1. PICK r : r = [page |-> page, row |-> s.row, col |-> s.col]
    OBVIOUS
  <2>2. Write(s, ch) = r
    <3>1. s = [page |-> s.page, row |-> s.row, col |-> s.col]
      BY ScreenIs
    <3>2. [s EXCEPT !.page = page] = r
      BY <2>1, <3>1
    <3> QED
      BY <1>1, <3>2 DEF Write
  <2>3. [r EXCEPT !.col = @ + 1] = [page |-> page, row |-> s.row, col |-> s.col + 1]
    BY <2>1
  <2> QED
    BY <2>2, <2>3
<1>4. PutChar(s, ch) = IF s.col + 1 = MAX_COLS THEN Below(page, s.row)
                       ELSE [page |-> page, row |-> s.row, col |-> s.col + 1]
  <2>1. ch # LineFeed
    BY LineFeedAssumption
  <2>2. PICK next : next = [Write(s, ch) EXCEPT !.col = @ + 1]
    OBVIOUS
  <2>3. PutChar(s, ch) = IF next.col = MAX_COLS THEN NewLine(next) ELSE next
    BY <2>1, <2>2 DEF PutChar
  <2>4. next = [page |-> page, row |-> s.row, col |-> s.col + 1]
    BY <1>3, <2>2
  <2>5. next.col = s.col + 1 /\ NewLine(next) = Below(page, s.row)
    BY <2>4, NewLineIs
  <2> QED
    BY <2>3, <2>4, <2>5
<1>5. PutChar(s, ch) \in Screens
  <2>1. s.col + 1 # MAX_COLS => s.col + 1 \in 0..(MAX_COLS - 1)
    BY ScreenIs, ConstantTypes
  <2> QED
    BY <1>2, <1>4, <2>1, ScreenIs, ScreenMade, BelowIs
<1> QED
  BY <1>1, <1>2, <1>4, <1>5

LEMMA PutCharKept ==
  ASSUME NEW s \in Screens, NEW ch \in Chars \union {LineFeed}
  PROVE  PutChar(s, ch) \in Screens
<1>1. CASE ch = LineFeed
  BY <1>1, NewLineKept DEF PutChar
<1> QED
  BY <1>1, PutCharIs

-----------------------------------------------------------------------------
\* The paper, and the page that shows it.

LEMMA RollIs ==
  ASSUME NEW p \in Rolls
  PROVE  /\ p \in Seq(Seq(Chars)) /\ Len(p) \in 1..MAX_ROWS
         /\ \A r \in 1..Len(p) : p[r] \in Seq(Chars) /\ Len(p[r]) \in 0..MAX_COLS
<1>1. p \in Seq(Seq(Chars)) /\ Len(p) \in 1..MAX_ROWS
  BY DEF Rolls
<1>2. ASSUME NEW r \in 1..Len(p) PROVE p[r] \in Seq(Chars) /\ Len(p[r]) \in 0..MAX_COLS
  <2>1. p[r] \in Seq(Chars)
    BY <1>1, ElementOfSeq
  <2>2. Len(p[r]) \in Nat /\ Len(p[r]) <= MAX_COLS
    BY <2>1 DEF Rolls
  <2> QED
    BY <2>1, <2>2, ConstantTypes
<1> QED
  BY <1>1, <1>2

LEMMA FeedIs ==
  ASSUME NEW p \in Rolls
  PROVE  /\ Feed(p) \in Papers
         /\ Len(Feed(p)) = IF Len(p) = MAX_ROWS THEN MAX_ROWS ELSE Len(p) + 1
         /\ Feed(p)[Len(Feed(p))] = << >>
         /\ \A r \in 1..(Len(Feed(p)) - 1) :
              Feed(p)[r] = p[IF Len(p) = MAX_ROWS THEN r + 1 ELSE r]
<1>1. PICK q, n : q = Append(p, << >>) /\ n = Len(p)
  OBVIOUS
<1>2. p \in Seq(Seq(Chars)) /\ n \in 1..MAX_ROWS
  BY <1>1, RollIs
<1>3. /\ q \in Seq(Seq(Chars)) /\ Len(q) = n + 1 /\ q[n + 1] = << >>
      /\ \A r \in 1..n : q[r] = p[r]
  <2>1. << >> \in Seq(Chars)
    BY EmptySeq
  <2> QED
    BY <1>1, <1>2, <2>1
<1>4. PICK d : d = IF n = MAX_ROWS THEN 2 ELSE 1
  OBVIOUS
<1>5. Feed(p) = SubSeq(q, d, n + 1)
  <2>1. n + 1 > MAX_ROWS <=> n = MAX_ROWS
    BY <1>2, ConstantTypes
  <2> QED
    BY <1>1, <1>3, <1>4, <2>1 DEF Feed
<1>6. d \in 1..2 /\ d <= n + 1
  BY <1>2, <1>4, ConstantTypes
<1>7. /\ Feed(p) \in Seq(Seq(Chars)) /\ Len(Feed(p)) = n + 2 - d
      /\ \A r \in 1..(n + 2 - d) : Feed(p)[r] = q[r + d - 1]
  <2>1. \A i \in d..(n + 1) : q[i] \in Seq(Chars)
    BY <1>2, <1>3, <1>6, ElementOfSeq
  <2>2. PICK f : f = SubSeq(q, d, n + 1)
    OBVIOUS
  <2>3. d \in Int /\ n + 1 \in Int
    BY <1>2, <1>6
  <2>4. PICK last : last = n + 1
    OBVIOUS
  <2>7. /\ f \in Seq(Seq(Chars)) /\ Len(f) = IF d <= last THEN last - d + 1 ELSE 0
        /\ \A r \in 1..(last - d + 1) : f[r] = q[d + r - 1]
    <3>1. d \in Int /\ last \in Int /\ \A i \in d..last : q[i] \in Seq(Chars)
      BY <2>1, <2>3, <2>4
    <3>2. f = SubSeq(q, d, last)
      BY <2>2, <2>4
    <3>3. /\ SubSeq(q, d, last) \in Seq(Seq(Chars))
          /\ Len(SubSeq(q, d, last)) = IF d <= last THEN last - d + 1 ELSE 0
          /\ \A r \in 1..(last - d + 1) : SubSeq(q, d, last)[r] = q[d + r - 1]
      BY <3>1, SubSeqProperties
    <3> QED
      BY <3>2, <3>3
  <2>5. last - d + 1 = n + 2 - d /\ d <= last
    BY <1>2, <1>6, <2>4
  <2>6. ASSUME NEW r \in 1..(n + 2 - d) PROVE f[r] = q[r + d - 1]
    <3>1. d + r - 1 = r + d - 1
      BY <1>6
    <3> QED
      BY <2>5, <2>7, <3>1
  <2> QED
    BY <1>5, <1>6, <2>2, <2>5, <2>6, <2>7
<1>8. ASSUME NEW r \in 1..(Len(Feed(p)) - 1)
      PROVE  Feed(p)[r] = p[IF n = MAX_ROWS THEN r + 1 ELSE r] /\ Len(Feed(p)[r]) <= MAX_COLS
  <2>1. r \in 1..(n + 2 - d) /\ r + d - 1 \in 1..n
    BY <1>2, <1>6, <1>7
  <2>2. Feed(p)[r] = p[r + d - 1]
    BY <1>3, <1>7, <2>1
  <2>3. r + d - 1 = IF n = MAX_ROWS THEN r + 1 ELSE r
    BY <1>4, <2>1
  <2>4. Len(p[r + d - 1]) <= MAX_COLS
    BY <1>1, <2>1, RollIs, ConstantTypes
  <2> QED
    BY <2>2, <2>3, <2>4
<1>9. Feed(p)[Len(Feed(p))] = << >>
  <2>1. n + 2 - d \in 1..(n + 2 - d) /\ n + 2 - d + d - 1 = n + 1
    BY <1>2, <1>6
  <2> QED
    BY <1>3, <1>7, <2>1
<1>10. Len(Feed(p)) \in 1..MAX_ROWS /\ Len(Feed(p)) = IF n = MAX_ROWS THEN MAX_ROWS ELSE n + 1
  BY <1>2, <1>4, <1>7, ConstantTypes
<1>11. Len(<< >>) = 0
  BY EmptySeq
<1>12. \A r \in 1..Len(Feed(p)) : Len(Feed(p)[r]) <= MAX_COLS
  <2> SUFFICES ASSUME NEW r \in 1..Len(Feed(p)) PROVE Len(Feed(p)[r]) <= MAX_COLS
    OBVIOUS
  <2>1. CASE r = Len(Feed(p))
    BY <1>9, <1>11, <2>1, ConstantTypes
  <2>2. CASE r # Len(Feed(p))
    <3>1. r \in 1..(Len(Feed(p)) - 1)
      BY <1>10, <2>2
    <3> QED
      BY <1>8, <3>1
  <2> QED
    BY <2>1, <2>2
<1>13. Feed(p) \in Papers
  BY <1>7, <1>9, <1>10, <1>11, <1>12, ConstantTypes DEF Papers, Rolls
<1> QED
  BY <1>1, <1>8, <1>9, <1>10, <1>13

\* A line feed.
LEMMA FeedShown ==
  ASSUME NEW p \in Rolls, NEW page \in [Cells -> Chars], PageShows(page, p)
  PROVE  Shows(Below(page, Len(p) - 1), Feed(p))
<1>1. PICK n, f : n = Len(p) /\ f = Feed(p)
  OBVIOUS
<1>2. n \in 1..MAX_ROWS
  BY <1>1, RollIs
<1>3. /\ f \in Papers
      /\ Len(f) = IF n = MAX_ROWS THEN MAX_ROWS ELSE n + 1
      /\ f[Len(f)] = << >>
      /\ \A r \in 1..(Len(f) - 1) : f[r] = p[IF n = MAX_ROWS THEN r + 1 ELSE r]
  BY <1>1, FeedIs
<1>4. Len(<< >>) = 0
  BY EmptySeq
<1>5. CASE n = MAX_ROWS
  <2>1. n - 1 = LastRow /\ Below(page, n - 1) = [page |-> Scrolled(page), row |-> LastRow, col |-> 0]
    BY <1>5, ConstantTypes DEF Below
  <2>2. ASSUME NEW row \in 0..LastRow, NEW col \in 0..(MAX_COLS - 1)
        PROVE  Scrolled(page)[CellOf(row, col)] = ShownAt(f, row, col)
    <3>1. CASE row = LastRow
      <4>1. Scrolled(page)[CellOf(row, col)] = Blank
        BY <3>1, ScrolledRows
      <4>2. row + 1 = Len(f)
        BY <1>3, <1>5, <3>1, ConstantTypes
      <4>3. ~(col < Len(f[row + 1]))
        BY <1>3, <1>4, <4>2
      <4> QED
        BY <4>1, <4>3 DEF ShownAt
    <3>2. CASE row # LastRow
      <4>1. row \in 0..(LastRow - 1) /\ row + 1 \in 0..LastRow
        BY <3>2, ConstantTypes
      <4>2. Scrolled(page)[CellOf(row, col)] = ShownAt(p, row + 1, col)
        BY <4>1, ScrolledRows DEF PageShows
      <4>3. row + 1 \in 1..(Len(f) - 1) /\ row < Len(f) /\ row + 1 < n
        BY <1>3, <1>5, <4>1, ConstantTypes
      <4>4. f[row + 1] = p[row + 1 + 1]
        BY <1>3, <1>5, <4>3
      <4> QED
        BY <1>1, <4>2, <4>3, <4>4 DEF ShownAt
    <3> QED
      BY <3>1, <3>2
  <2>3. Len(f) - 1 = LastRow
    BY <1>3, <1>5, ConstantTypes
  <2> QED
    BY <1>1, <1>3, <1>4, <2>1, <2>2, <2>3 DEF Shows, PageShows
<1>6. CASE n # MAX_ROWS
  <2>1. n - 1 # LastRow /\ Below(page, n - 1) = [page |-> page, row |-> n, col |-> 0]
    BY <1>2, <1>6, ConstantTypes DEF Below
  <2>2. ASSUME NEW row \in 0..LastRow, NEW col \in 0..(MAX_COLS - 1)
        PROVE  page[CellOf(row, col)] = ShownAt(f, row, col)
    <3>1. page[CellOf(row, col)] = ShownAt(p, row, col)
      BY DEF PageShows
    <3>2. Len(f) = n + 1
      BY <1>3, <1>6
    <3>3. CASE row < n
      <4>1. row + 1 \in 1..(Len(f) - 1) /\ row < Len(f)
        BY <1>2, <3>2, <3>3
      <4>2. f[row + 1] = p[row + 1]
        BY <1>3, <1>6, <4>1
      <4> QED
        BY <1>1, <3>1, <3>3, <4>1, <4>2 DEF ShownAt
    <3>4. CASE ~(row < n)
      <4>1. row < Len(f) => row + 1 = Len(f)
        BY <1>2, <3>2, <3>4
      <4>2. row < Len(f) => ~(col < Len(f[row + 1]))
        BY <1>3, <1>4, <4>1
      <4> QED
        BY <1>1, <3>1, <3>4, <4>2 DEF ShownAt
    <3> QED
      BY <3>3, <3>4
  <2>3. Len(f) - 1 = n
    BY <1>2, <1>3, <1>6
  <2> QED
    BY <1>1, <1>3, <1>4, <2>1, <2>2, <2>3 DEF Shows, PageShows
<1> QED
  BY <1>5, <1>6

\* A character at the end of the last row.
Struck(p, ch) == [p EXCEPT ![Len(p)] = Append(@, ch)]

LEMMA StruckIs ==
  ASSUME NEW p \in Papers, NEW ch \in Chars
  PROVE  /\ Struck(p, ch) \in Rolls /\ Len(Struck(p, ch)) = Len(p)
         /\ Len(Struck(p, ch)[Len(p)]) = Len(p[Len(p)]) + 1
         /\ Struck(p, ch)[Len(p)][Len(p[Len(p)]) + 1] = ch
         /\ \A i \in 1..Len(p[Len(p)]) : Struck(p, ch)[Len(p)][i] = p[Len(p)][i]
         /\ \A r \in 1..Len(p) : r # Len(p) => Struck(p, ch)[r] = p[r]
<1>1. PICK n, w, q : n = Len(p) /\ w = Append(p[n], ch) /\ q = Struck(p, ch)
  OBVIOUS
<1>2. p \in Rolls /\ Len(p[n]) < MAX_COLS
  BY <1>1 DEF Papers
<1>3. p \in Seq(Seq(Chars)) /\ n \in 1..MAX_ROWS /\ n \in 1..Len(p)
  BY <1>1, <1>2, RollIs
<1>4. p[n] \in Seq(Chars) /\ Len(p[n]) \in 0..MAX_COLS
  BY <1>2, <1>3, RollIs
<1>5. /\ w \in Seq(Chars) /\ Len(w) = Len(p[n]) + 1 /\ w[Len(p[n]) + 1] = ch
      /\ \A i \in 1..Len(p[n]) : w[i] = p[n][i]
  BY <1>1, <1>4
<1>6. q = [p EXCEPT ![n] = w]
  BY <1>1 DEF Struck
<1>7. /\ q \in Seq(Seq(Chars)) /\ Len(q) = Len(p)
      /\ \A r \in 1..Len(p) : q[r] = IF r = n THEN w ELSE p[r]
  <2>1. /\ [p EXCEPT ![n] = w] \in Seq(Seq(Chars)) /\ Len([p EXCEPT ![n] = w]) = Len(p)
        /\ \A r \in 1..Len(p) : [p EXCEPT ![n] = w][r] = IF r = n THEN w ELSE p[r]
    BY <1>3, <1>5, ExceptSeq
  <2> QED
    BY <1>6, <2>1
<1>8. Len(w) <= MAX_COLS
  BY <1>2, <1>4, <1>5, ConstantTypes
<1>9. \A r \in 1..Len(q) : Len(q[r]) <= MAX_COLS
  BY <1>2, <1>7, <1>8 DEF Rolls
<1>10. q \in Rolls
  BY <1>1, <1>3, <1>7, <1>9 DEF Rolls
<1> QED
  BY <1>1, <1>3, <1>5, <1>7, <1>10

LEMMA CharShown ==
  ASSUME NEW p \in Papers, NEW ch \in Chars, NEW page \in [Cells -> Chars], PageShows(page, p)
  PROVE  PageShows([page EXCEPT ![CellOf(Len(p) - 1, Len(p[Len(p)]))] = ch],
                   Struck(p, ch))
<1>1. PICK n, c, q, new : /\ n = Len(p) /\ c = Len(p[n])
                          /\ q = Struck(p, ch)
                          /\ new = [page EXCEPT ![CellOf(n - 1, c)] = ch]
  OBVIOUS
<1>2. p \in Rolls /\ n \in 1..MAX_ROWS /\ c \in 0..(MAX_COLS - 1)
  <2>1. p \in Rolls /\ c < MAX_COLS
    BY <1>1 DEF Papers
  <2>2. n \in 1..MAX_ROWS /\ n \in 1..Len(p)
    BY <1>1, <2>1, RollIs
  <2>3. c \in 0..MAX_COLS
    BY <1>1, <2>1, <2>2, RollIs
  <2> QED
    BY <2>1, <2>2, <2>3, ConstantTypes
<1>3. /\ Len(q) = n /\ Len(q[n]) = c + 1 /\ q[n][c + 1] = ch
      /\ \A i \in 1..c : q[n][i] = p[n][i]
      /\ \A r \in 1..n : r # n => q[r] = p[r]
  BY <1>1, StruckIs
<1>4. n - 1 \in 0..LastRow /\ n - 1 \in Nat
  BY <1>2, ConstantTypes
<1>5. ASSUME NEW row \in 0..LastRow, NEW col \in 0..(MAX_COLS - 1)
      PROVE  new[CellOf(row, col)] = ShownAt(q, row, col)
  <2>1. CellOf(row, col) \in Cells
    BY CellInPage
  <2>2. page[CellOf(row, col)] = ShownAt(p, row, col)
    BY DEF PageShows
  <2>3. CASE row = n - 1 /\ col = c
    <3>1. new[CellOf(row, col)] = ch
      BY <1>1, <2>1, <2>3
    <3>2. row < Len(q) /\ row + 1 = n /\ col < Len(q[row + 1]) /\ q[row + 1][col + 1] = ch
      BY <1>2, <1>3, <2>3
    <3> QED
      BY <3>1, <3>2 DEF ShownAt
  <2>4. CASE row = n - 1 /\ col # c
    <3>1. CellOf(row, col) # CellOf(n - 1, c)
      BY <1>2, <1>4, <2>4, CellsDistinct
    <3>2. new[CellOf(row, col)] = page[CellOf(row, col)]
      BY <1>1, <2>1, <3>1
    <3>3. row < n /\ row + 1 = n
      BY <1>2, <2>4
    <3>4. col < c + 1 <=> col < c
      BY <1>2, <2>4, ConstantTypes
    <3>5. col < c => q[n][col + 1] = p[n][col + 1]
      <4>1. col < c => col + 1 \in 1..c
        BY <1>2, ConstantTypes
      <4> QED
        BY <1>3, <4>1
    <3> QED
      BY <1>1, <1>3, <2>2, <3>2, <3>3, <3>4, <3>5 DEF ShownAt
  <2>5. CASE row # n - 1
    <3>1. CellOf(row, col) # CellOf(n - 1, c)
      <4>1. row \in Nat
        BY ConstantTypes
      <4> QED
        BY <1>2, <1>4, <2>5, <4>1, CellsDistinct
    <3>2. new[CellOf(row, col)] = page[CellOf(row, col)]
      BY <1>1, <2>1, <3>1
    <3>3. row < n => row + 1 \in 1..n /\ row + 1 # n
      BY <1>2, <2>5, ConstantTypes
    <3>4. row < n => q[row + 1] = p[row + 1]
      BY <1>3, <3>3
    <3> QED
      BY <1>1, <1>3, <2>2, <3>2, <3>4 DEF ShownAt
  <2> QED
    BY <2>3, <2>4, <2>5
<1> QED
  BY <1>1, <1>5 DEF PageShows

\* What the console prints, the teletype prints.
LEMMA StrikeShown ==
  ASSUME NEW s \in Screens, NEW p, Shows(s, p), NEW ch \in Chars \union {LineFeed}
  PROVE  Shows(PutChar(s, ch), Strike(p, ch))
<1>1. /\ p \in Papers /\ p \in Rolls /\ PageShows(s.page, p)
      /\ s.row = Len(p) - 1 /\ s.col = Len(p[Len(p)])
  BY DEF Shows, Papers
<1>2. CASE ch = LineFeed
  <2>1. PutChar(s, ch) = Below(s.page, Len(p) - 1)
    BY <1>1, <1>2, NewLineKept DEF PutChar
  <2>2. Strike(p, ch) = Feed(p)
    BY <1>2 DEF Strike
  <2>3. s.page \in [Cells -> Chars]
    BY ScreenIs
  <2>4. Shows(Below(s.page, Len(p) - 1), Feed(p))
    BY <1>1, <2>3, FeedShown
  <2> QED
    BY <2>1, <2>2, <2>4
<1>3. CASE ch \in Chars
  <2>1. PICK q, page : /\ q = Struck(p, ch)
                       /\ page = [s.page EXCEPT ![At(s)] = ch]
    OBVIOUS
  <2>2. /\ page \in [Cells -> Chars]
        /\ PutChar(s, ch) = IF s.col + 1 = MAX_COLS THEN Below(page, s.row)
                            ELSE [page |-> page, row |-> s.row, col |-> s.col + 1]
    BY <1>3, <2>1, PutCharIs
  <2>3. q \in Rolls /\ Len(q) = Len(p) /\ Len(q[Len(p)]) = s.col + 1
    BY <1>1, <1>3, <2>1, StruckIs
  <2>4. PageShows(page, q)
    <3>1. At(s) = CellOf(Len(p) - 1, Len(p[Len(p)])) /\ s.page \in [Cells -> Chars]
      BY <1>1, ScreenIs
    <3> QED
      BY <1>1, <1>3, <2>1, <3>1, CharShown
  <2>5. Strike(p, ch) = IF s.col + 1 = MAX_COLS THEN Feed(q) ELSE q
    <3>1. ch # LineFeed
      BY <1>3, LineFeedAssumption
    <3>2. Strike(p, ch) = IF Len(q[Len(p)]) = MAX_COLS THEN Feed(q) ELSE q
      BY <2>1, <3>1 DEF Strike, Struck
    <3> QED
      BY <2>3, <3>2
  <2>6. CASE s.col + 1 = MAX_COLS
    BY <1>1, <2>2, <2>3, <2>4, <2>5, <2>6, FeedShown
  <2>7. CASE s.col + 1 # MAX_COLS
    <3>1. s.col + 1 < MAX_COLS
      BY <2>7, ScreenIs, ConstantTypes
    <3>2. q \in Papers
      BY <2>3, <3>1 DEF Papers
    <3> QED
      BY <1>1, <2>2, <2>3, <2>4, <2>5, <2>7, <3>2 DEF Shows
  <2> QED
    BY <2>6, <2>7
<1> QED
  BY <1>2, <1>3


-----------------------------------------------------------------------------
(***************************************************************************)
(* What is printed character by character. PutString, PutNumber and        *)
(* StrikeAll are functions defined by recursion; that they have values, and *)
(* what holds of each of these, follows from the least place where it would *)
(* fail.                                                                    *)
(***************************************************************************)
\* A set of natural numbers that is not empty has a least member.
LEMMA LeastMember ==
  ASSUME NEW S, S \subseteq Nat, S # {}
  PROVE  \E x \in S : \A y \in S : x <= y
<1>1. PICK x \in S : \A y \in S : ~(<<y, x>> \in OpToRel(<, Nat))
  BY NatLessThanWellFounded, WFMin, Zenon
<1>2. \A y \in S : x <= y
  <2> SUFFICES ASSUME NEW y \in S, ~(x <= y) PROVE FALSE
    OBVIOUS
  <2>1. <<y, x>> \in Nat \X Nat /\ y < x
    BY SMT
  <2> QED
    BY <2>1, <1>1 DEF OpToRel
<1> QED
  BY <1>2

\* What holds of 0, and of n when it does of n - 1, holds up to N.
LEMMA Upwards ==
  ASSUME NEW N \in Nat, NEW T, 0 \in T, \A n \in 1..N : n - 1 \in T => n \in T
  PROVE  \A n \in 0..N : n \in T
<1> DEFINE F == {n \in 0..N : n \notin T}
<1> SUFFICES ASSUME F # {} PROVE FALSE
  OBVIOUS
<1>1. PICK n \in F : \A m \in F : n <= m
  <2>1. F \subseteq Nat
    OBVIOUS
  <2> HIDE DEF F
  <2> QED
    BY <2>1, LeastMember
<1>2. n \in 1..N /\ n - 1 \in 0..N /\ ~(n <= n - 1)
  OBVIOUS
<1>3. n - 1 \in T
  BY <1>1, <1>2
<1> QED
  BY <1>2, <1>3

Follows(N, S, first, next, f) ==
  /\ f \in [0..N -> S]
  /\ f[0] = first
  /\ \A n \in 1..N : f[n] = next[n][f[n - 1]]

LEMMA Recursion ==
  ASSUME NEW N \in Nat, NEW S, NEW first \in S, NEW next \in [1..N -> [S -> S]]
  PROVE  \E f : Follows(N, S, first, next, f)
<1> DEFINE Upto(m, f) == /\ f \in [0..m -> S]
                         /\ f[0] = first
                         /\ \A n \in 1..m : f[n] = next[n][f[n - 1]]
           T == {m \in 0..N : ~\E f : Upto(m, f)}
<1>1. T = {}
  <2> SUFFICES ASSUME T # {} PROVE FALSE
    OBVIOUS
  <2>1. PICK m \in T : \A y \in T : m <= y
    <3>1. T \subseteq Nat
      OBVIOUS
    <3> HIDE DEF T
    <3> QED
      BY <3>1, LeastMember
  <2>2. m \in 0..N /\ ~\E f : Upto(m, f)
    OBVIOUS
  <2>3. m # 0
    <3>1. Upto(0, [n \in 0..0 |-> first])
      OBVIOUS
    <3> QED
      BY <2>2, <3>1
  <2>4. m - 1 \in 0..N /\ ~(m <= m - 1)
    BY <2>2, <2>3
  <2>5. PICK f : Upto(m - 1, f)
    BY <2>1, <2>4
  <2> DEFINE g == [n \in 0..m |-> IF n = m THEN next[m][f[m - 1]] ELSE f[n]]
  <2>6. next[m][f[m - 1]] \in S
    <3>1. f[m - 1] \in S /\ m \in 1..N
      BY <2>2, <2>3, <2>5
    <3> QED
      BY <3>1
  <2>7. g \in [0..m -> S] /\ g[0] = first
    BY <2>2, <2>3, <2>5, <2>6
  <2>8. ASSUME NEW n \in 1..m PROVE g[n] = next[n][g[n - 1]]
    <3>1. g[n - 1] = f[n - 1]
      BY <2>2
    <3>2. CASE n = m
      BY <3>1, <3>2, <2>2
    <3>3. CASE n # m
      BY <3>1, <3>3, <2>2, <2>5
    <3> QED
      BY <3>2, <3>3
  <2> QED
    BY <2>2, <2>7, <2>8
<1>2. \E f : Upto(N, f)
  <2>1. N \in 0..N
    OBVIOUS
  <2> HIDE DEF Upto
  <2> QED
    BY <1>1, <2>1
<1>3. PICK f : Upto(N, f)
  BY <1>2
<1> QED
  BY <1>3 DEF Follows

\* A function that keeps to the recursion takes its values in S.
LEMMA RecursionIn ==
  ASSUME NEW N \in Nat, NEW S, NEW g, g = [n \in 0..N |-> g[n]], g[0] \in S,
         \A n \in 1..N : g[n - 1] \in S => g[n] \in S
  PROVE  g \in [0..N -> S]
<1> DEFINE T == {n \in 0..N : g[n] \in S}
<1>1. 0 \in T /\ \A n \in 1..N : n - 1 \in T => n \in T
  OBVIOUS
<1> HIDE DEF T
<1>2. \A n \in 0..N : n \in T
  BY <1>1, Upwards
<1> QED
  BY <1>2 DEF T

\* The steps of PutString.
IsPut(s, string, f) ==
  /\ f \in [0..Len(string) -> Screens]
  /\ f[0] = s
  /\ \A n \in 1..Len(string) : f[n] = PutChar(f[n - 1], string[n])

LEMMA PutStringIs ==
  ASSUME NEW s \in Screens, NEW string \in Seq(Chars \union {LineFeed})
  PROVE  \E f : IsPut(s, string, f) /\ PutString(s, string) = f[Len(string)]
<1> DEFINE N == Len(string)
           next == [n \in 1..N |-> [r \in Screens |-> PutChar(r, string[n])]]
           P(f) == f = [n \in 0..N |-> IF n = 0 THEN s ELSE PutChar(f[n - 1], string[n])]
           put == CHOOSE f : P(f)
<1>1. N \in Nat /\ \A n \in 1..N : string[n] \in Chars \union {LineFeed}
  OBVIOUS
<1>2. \A n \in 1..N, r \in Screens : PutChar(r, string[n]) \in Screens
  BY <1>1, PutCharKept
<1>3. next \in [1..N -> [Screens -> Screens]]
  BY <1>2
<1>4. \A n \in 1..N, r \in Screens : next[n][r] = PutChar(r, string[n])
  OBVIOUS
<1> HIDE DEF next
<1>5. PICK f : Follows(N, Screens, s, next, f)
  BY <1>1, <1>3, Recursion
<1>6. P(f)
  <2>1. \A n \in 1..N : f[n] = PutChar(f[n - 1], string[n])
    <3> SUFFICES ASSUME NEW n \in 1..N PROVE f[n] = PutChar(f[n - 1], string[n])
      OBVIOUS
    <3>1. f[n - 1] \in Screens /\ f[n] = next[n][f[n - 1]]
      BY <1>1, <1>5 DEF Follows
    <3> QED
      BY <1>4, <3>1
  <2>2. \A n \in 0..N : n # 0 => n \in 1..N
    BY <1>1
  <2> QED
    BY <1>5, <2>1, <2>2 DEF Follows
<1>7. P(put)
  BY <1>6
<1>8. PutString(s, string) = put[N]
  BY Zenon DEF PutString
<1> HIDE DEF put
<1>9. put = [n \in 0..N |-> put[n]] /\ put[0] = s
  <2>1. put = [n \in 0..N |-> put[n]]
    BY <1>7
  <2> QED
    BY <1>1, <1>7, <2>1
<1>10. \A n \in 1..N : put[n] = PutChar(put[n - 1], string[n])
  BY <1>1, <1>7
<1>11. put \in [0..N -> Screens]
  <2>1. \A n \in 1..N : put[n - 1] \in Screens => put[n] \in Screens
    BY <1>2, <1>10
  <2> QED
    BY <1>1, <1>9, <2>1, RecursionIn
<1> QED
  BY <1>8, <1>9, <1>10, <1>11 DEF IsPut


LEMMA StrikeKept ==
  ASSUME NEW p \in Papers, NEW ch \in Chars \union {LineFeed}
  PROVE  Strike(p, ch) \in Papers
<1>1. p \in Rolls
  BY DEF Papers
<1>2. CASE ch = LineFeed
  BY <1>1, <1>2, FeedIs DEF Strike
<1>3. CASE ch \in Chars
  <2>1. PICK q : q = Struck(p, ch)
    OBVIOUS
  <2>2. Strike(p, ch) = IF Len(q[Len(p)]) = MAX_COLS THEN Feed(q) ELSE q
    BY <1>3, <2>1, LineFeedAssumption DEF Strike, Struck
  <2>3. q \in Rolls /\ Len(q) = Len(p)
    BY <1>3, <2>1, StruckIs
  <2>4. Len(q[Len(p)]) \in 0..MAX_COLS
    <3>1. Len(p) \in 1..Len(q)
      BY <1>1, <2>3, RollIs
    <3> QED
      BY <2>3, <3>1, RollIs
  <2>5. Len(q[Len(p)]) # MAX_COLS => q \in Papers
    BY <2>3, <2>4, ConstantTypes DEF Papers
  <2> QED
    BY <2>2, <2>3, <2>5, FeedIs
<1> QED
  BY <1>2, <1>3

IsStrike(p, string, f) ==
  /\ f \in [0..Len(string) -> Papers]
  /\ f[0] = p
  /\ \A n \in 1..Len(string) : f[n] = Strike(f[n - 1], string[n])

LEMMA StrikeAllIs ==
  ASSUME NEW p \in Papers, NEW string \in Seq(Chars \union {LineFeed})
  PROVE  \E f : IsStrike(p, string, f) /\ StrikeAll(p, string) = f[Len(string)]
<1> DEFINE N == Len(string)
           next == [n \in 1..N |-> [r \in Papers |-> Strike(r, string[n])]]
           P(f) == f = [n \in 0..N |-> IF n = 0 THEN p ELSE Strike(f[n - 1], string[n])]
           struck == CHOOSE f : P(f)
<1>1. N \in Nat /\ \A n \in 1..N : string[n] \in Chars \union {LineFeed}
  OBVIOUS
<1>2. \A n \in 1..N, r \in Papers : Strike(r, string[n]) \in Papers
  BY <1>1, StrikeKept
<1>3. next \in [1..N -> [Papers -> Papers]]
  BY <1>2
<1>4. \A n \in 1..N, r \in Papers : next[n][r] = Strike(r, string[n])
  OBVIOUS
<1> HIDE DEF next
<1>5. PICK f : Follows(N, Papers, p, next, f)
  BY <1>1, <1>3, Recursion
<1>6. P(f)
  <2>1. \A n \in 1..N : f[n] = Strike(f[n - 1], string[n])
    <3> SUFFICES ASSUME NEW n \in 1..N PROVE f[n] = Strike(f[n - 1], string[n])
      OBVIOUS
    <3>1. f[n - 1] \in Papers /\ f[n] = next[n][f[n - 1]]
      BY <1>1, <1>5 DEF Follows
    <3> QED
      BY <1>4, <3>1
  <2>2. \A n \in 0..N : n # 0 => n \in 1..N
    BY <1>1
  <2> QED
    BY <1>5, <2>1, <2>2 DEF Follows
<1>7. P(struck)
  BY <1>6
<1>8. StrikeAll(p, string) = struck[N]
  BY Zenon DEF StrikeAll
<1> HIDE DEF struck
<1>9. struck = [n \in 0..N |-> struck[n]] /\ struck[0] = p
  <2>1. struck = [n \in 0..N |-> struck[n]]
    BY <1>7
  <2> QED
    BY <1>1, <1>7, <2>1
<1>10. \A n \in 1..N : struck[n] = Strike(struck[n - 1], string[n])
  BY <1>1, <1>7
<1>11. struck \in [0..N -> Papers]
  <2>1. \A n \in 1..N : struck[n - 1] \in Papers => struck[n] \in Papers
    BY <1>2, <1>10
  <2> QED
    BY <1>1, <1>9, <2>1, RecursionIn
<1> QED
  BY <1>8, <1>9, <1>10, <1>11 DEF IsStrike

\* A string comes out as it does on the teletype.
LEMMA StringShown ==
  ASSUME NEW s \in Screens, NEW string \in Seq(Chars \union {LineFeed})
  PROVE  /\ PutString(s, string) \in Screens
         /\ \A p : Shows(s, p) => Shows(PutString(s, string), StrikeAll(p, string))
<1>1. Len(string) \in Nat /\ \A n \in 1..Len(string) : string[n] \in Chars \union {LineFeed}
  OBVIOUS
<1>2. PICK f : IsPut(s, string, f) /\ PutString(s, string) = f[Len(string)]
  BY PutStringIs
<1>3. PutString(s, string) \in Screens
  BY <1>1, <1>2 DEF IsPut
<1>4. ASSUME NEW p, Shows(s, p) PROVE Shows(PutString(s, string), StrikeAll(p, string))
  <2>1. p \in Papers
    BY <1>4 DEF Shows
  <2>2. PICK g : IsStrike(p, string, g) /\ StrikeAll(p, string) = g[Len(string)]
    BY <2>1, StrikeAllIs
  <2> DEFINE T == {n \in 0..Len(string) : Shows(f[n], g[n])}
  <2>3. 0 \in T
    BY <1>1, <1>2, <1>4, <2>2 DEF IsPut, IsStrike
  <2>4. ASSUME NEW n \in 1..Len(string), n - 1 \in T PROVE n \in T
    <3>1. n - 1 \in 0..Len(string) /\ n \in 0..Len(string)
      BY <1>1
    <3>2. f[n - 1] \in Screens /\ f[n] = PutChar(f[n - 1], string[n])
      BY <1>2, <3>1 DEF IsPut
    <3>3. g[n] = Strike(g[n - 1], string[n])
      BY <2>2 DEF IsStrike
    <3>4. Shows(f[n - 1], g[n - 1])
      BY <2>4
    <3>5. Shows(f[n], g[n])
      BY <1>1, <3>2, <3>3, <3>4, StrikeShown
    <3> QED
      BY <3>1, <3>5
  <2> HIDE DEF T
  <2>5. \A n \in 0..Len(string) : n \in T
    BY <1>1, <2>3, <2>4, Upwards
  <2>6. Len(string) \in 0..Len(string)
    BY <1>1
  <2> QED
    BY <1>2, <2>2, <2>5, <2>6 DEF T
<1> QED
  BY <1>3, <1>4


-----------------------------------------------------------------------------
(***************************************************************************)
(* A number that fits its place: the cells of the page counted in a row, as *)
(* At does, one step on is one more and one back one less, so that the      *)
(* digits from the last to the first leave what they would in order.       *)
(***************************************************************************)
LEMMA SameScreen ==
  ASSUME NEW s \in Screens, NEW t \in Screens, s.page = t.page, At(s) = At(t)
  PROVE  s = t
<1>1. /\ s.row \in Nat /\ s.col \in 0..(MAX_COLS - 1)
      /\ t.row \in Nat /\ t.col \in 0..(MAX_COLS - 1)
      /\ CellOf(s.row, s.col) = CellOf(t.row, t.col)
  BY ScreenIs, ConstantTypes
<1>2. s.row = t.row /\ s.col = t.col
  BY <1>1, CellsDistinct
<1>3. /\ s = [page |-> s.page, row |-> s.row, col |-> s.col]
      /\ t = [page |-> t.page, row |-> t.row, col |-> t.col]
  BY ScreenIs
<1> QED
  BY <1>2, <1>3

\* Where a row and the page end.
LEMMA AtIs ==
  ASSUME NEW s \in Screens
  PROVE  /\ At(s) \in Nat /\ CellOf(s.row, 0) \in Nat /\ CellOf(LastRow, 0) \in Nat
         /\ At(s) = CellOf(s.row, 0) + s.col
         /\ CellOf(s.row + 1, 0) = CellOf(s.row, 0) + MAX_COLS
         /\ s.row < LastRow => CellOf(s.row, 0) + MAX_COLS <= CellOf(LastRow, 0)
         /\ \A i \in Nat : i \in Cells <=> i < CellOf(LastRow, 0) + MAX_COLS
<1>1. s.row \in Nat /\ s.col \in Nat /\ LastRow \in Nat
  BY ScreenIs, ConstantTypes
<1>2. /\ At(s) = CellOf(s.row, s.col) /\ CellOf(s.row, 0) \in Nat /\ CellOf(LastRow, 0) \in Nat
      /\ CellOf(s.row, s.col) = CellOf(s.row, 0) + s.col /\ CellOf(s.row, s.col) \in Nat
      /\ CellOf(s.row + 1, 0) = CellOf(s.row, 0) + MAX_COLS
  BY <1>1, ScreenIs, RowBelow
<1>3. s.row < LastRow => CellOf(s.row, 0) + MAX_COLS <= CellOf(LastRow, 0)
  BY <1>1, RowsInOrder
<1>4. \A i \in Nat : i \in Cells <=> i < CellOf(LastRow, 0) + MAX_COLS
  <2>1. PICK n \in Nat : n = CellOf(LastRow, 0)
    BY <1>2
  <2>2. \A i \in Nat : i \in 0..(n + MAX_COLS - 1) <=> i < n + MAX_COLS
    BY ConstantTypes
  <2> QED
    BY <2>1, <2>2, CellsAre
<1> QED
  BY <1>2, <1>3, <1>4

\* A position amt cells further, no more than a row's length away.
Onwards(page, row, col) ==
  IF col >= MAX_COLS THEN [page |-> page, row |-> row + 1, col |-> col - MAX_COLS]
                     ELSE [page |-> page, row |-> row, col |-> col]

LEMMA OnwardsIs ==
  ASSUME NEW s \in Screens, NEW page \in [Cells -> Chars], NEW amt \in 0..MAX_COLS,
         At(s) + amt \in Cells
  PROVE  /\ s.col + amt >= MAX_COLS => s.row < LastRow
         /\ Onwards(page, s.row, s.col + amt) \in Screens
         /\ Onwards(page, s.row, s.col + amt).page = page
         /\ At(Onwards(page, s.row, s.col + amt)) = At(s) + amt
<1>1. PICK a \in Nat, b \in Nat, d \in Nat :
        /\ a = At(s) /\ b = CellOf(s.row, 0) /\ d = CellOf(LastRow, 0)
        /\ a = b + s.col /\ CellOf(s.row + 1, 0) = b + MAX_COLS
        /\ a + amt < d + MAX_COLS
  <2>1. At(s) + amt \in Nat
    BY AtIs, ConstantTypes
  <2> QED
    BY <2>1, AtIs
<1>2. s.row \in 0..LastRow /\ s.col \in 0..(MAX_COLS - 1) /\ LastRow \in Nat
  BY ScreenIs, ConstantTypes
<1>3. CASE s.col + amt >= MAX_COLS
  <2>1. s.row < LastRow
    <3>1. s.row = LastRow => b = d
      BY <1>1
    <3>2. b # d
      BY <1>1, <1>2, <1>3, ConstantTypes
    <3> QED
      BY <1>2, <3>1, <3>2
  <2>2. PICK col \in 0..(MAX_COLS - 1) : col = s.col + amt - MAX_COLS
    BY <1>2, <1>3, ConstantTypes
  <2>3. s.row + 1 \in 0..LastRow
    BY <1>2, <2>1
  <2>4. PICK t : t = [page |-> page, row |-> s.row + 1, col |-> col]
    OBVIOUS
  <2>5. t \in Screens /\ At(t) = CellOf(s.row + 1, col) /\ t.page = page
    BY <2>3, <2>4, ScreenMade
  <2>6. CellOf(s.row + 1, col) = CellOf(s.row + 1, 0) + col
    <3>1. s.row + 1 \in Nat /\ col \in Nat
      BY <2>3, ConstantTypes
    <3> QED
      BY <3>1, RowBelow
  <2>7. At(t) = a + amt
    BY <1>1, <1>2, <2>2, <2>5, <2>6, ConstantTypes
  <2>8. Onwards(page, s.row, s.col + amt) = t
    BY <1>2, <1>3, <2>2, <2>4, ConstantTypes DEF Onwards
  <2> QED
    BY <1>1, <2>1, <2>5, <2>7, <2>8
<1>4. CASE ~(s.col + amt >= MAX_COLS)
  <2>1. PICK col \in 0..(MAX_COLS - 1) : col = s.col + amt
    BY <1>2, <1>4, ConstantTypes
  <2>2. PICK t : t = [page |-> page, row |-> s.row, col |-> col]
    OBVIOUS
  <2>3. t \in Screens /\ At(t) = CellOf(s.row, col) /\ t.page = page
    BY <1>2, <2>2, ScreenMade
  <2>4. CellOf(s.row, col) = CellOf(s.row, 0) + col
    <3>1. s.row \in Nat /\ col \in Nat
      BY <1>2, ConstantTypes
    <3> QED
      BY <3>1, RowBelow
  <2>5. At(t) = a + amt
    BY <1>1, <1>2, <2>1, <2>3, <2>4
  <2>6. Onwards(page, s.row, s.col + amt) = t
    BY <1>4, <2>1, <2>2 DEF Onwards
  <2> QED
    BY <1>1, <1>4, <2>3, <2>5, <2>6
<1> QED
  BY <1>3, <1>4

LEMMA MoveIs ==
  ASSUME NEW s \in Screens, NEW amt \in 0..MAX_COLS, At(s) + amt \in Cells
  PROVE  Move(s, amt) \in Screens /\ Move(s, amt).page = s.page /\ At(Move(s, amt)) = At(s) + amt
<1>1. /\ s = [page |-> s.page, row |-> s.row, col |-> s.col] /\ s.page \in [Cells -> Chars]
      /\ s.row \in 0..LastRow /\ s.col \in 0..(MAX_COLS - 1)
  BY ScreenIs
<1>2. s.col + amt \in Nat
  BY <1>1, ConstantTypes
<1> DEFINE up   == [s EXCEPT !.col = 0, !.row = IF @ > 0 THEN @ - 1 ELSE @]
           down == [s EXCEPT !.col = (s.col + amt) - MAX_COLS, !.row = @ + 1]
           on   == [s EXCEPT !.col = s.col + amt]
<1>3. Move(s, amt) =
        CASE s.col + amt < 0         -> up
          [] s.col + amt >= MAX_COLS -> IF down.row = MAX_ROWS THEN Scroll(down) ELSE down
          [] OTHER                   -> on
  BY Zenon DEF Move
<1>4. down = [s EXCEPT !.col = (s.col + amt) - MAX_COLS, !.row = @ + 1]
  OBVIOUS
<1>5. on = [s EXCEPT !.col = s.col + amt]
  OBVIOUS
<1> HIDE DEF up, down, on
<1>6. down = [page |-> s.page, row |-> s.row + 1, col |-> (s.col + amt) - MAX_COLS]
  <2>1. PICK r : r = [s EXCEPT !.col = (s.col + amt) - MAX_COLS]
    OBVIOUS
  <2>2. r = [page |-> s.page, row |-> s.row, col |-> (s.col + amt) - MAX_COLS]
    BY <1>1, <2>1
  <2>3. [r EXCEPT !.row = s.row + 1] =
          [page |-> s.page, row |-> s.row + 1, col |-> (s.col + amt) - MAX_COLS]
    BY <2>2
  <2>4. down = [r EXCEPT !.row = s.row + 1]
    BY <1>4, <2>1
  <2> QED
    BY <2>3, <2>4
<1>7. on = [page |-> s.page, row |-> s.row, col |-> s.col + amt]
  BY <1>1, <1>5
<1>8. s.col + amt >= MAX_COLS => s.row < LastRow
  BY <1>1, OnwardsIs
<1>9. Move(s, amt) = Onwards(s.page, s.row, s.col + amt)
  <2>1. CASE s.col + amt >= MAX_COLS
    <3>1. down.row # MAX_ROWS
      BY <1>1, <1>6, <1>8, <2>1, ConstantTypes
    <3>2. ~(s.col + amt < 0)
      BY <1>2
    <3>3. Move(s, amt) = IF down.row = MAX_ROWS THEN Scroll(down) ELSE down
      BY <1>3, <2>1, <3>2
    <3>4. down = Onwards(s.page, s.row, s.col + amt)
      BY <1>1, <1>2, <1>6, <2>1, ConstantTypes DEF Onwards
    <3> QED
      BY <3>1, <3>3, <3>4
  <2>2. CASE ~(s.col + amt >= MAX_COLS)
    <3>1. ~(s.col + amt < 0)
      BY <1>2
    <3>2. Move(s, amt) = on
      BY <1>3, <2>2, <3>1
    <3> QED
      BY <1>7, <2>2, <3>2 DEF Onwards
  <2> QED
    BY <2>1, <2>2
<1> QED
  BY <1>1, <1>9, OnwardsIs

LEMMA ForwardIs ==
  ASSUME NEW s \in Screens, NEW ch \in Chars, At(s) + 1 \in Cells
  PROVE  /\ PutChar(s, ch) \in Screens /\ At(PutChar(s, ch)) = At(s) + 1
         /\ PutChar(s, ch).page = [s.page EXCEPT ![At(s)] = ch]
<1>1. PICK page : page = [s.page EXCEPT ![At(s)] = ch]
  OBVIOUS
<1>2. /\ page \in [Cells -> Chars]
      /\ PutChar(s, ch) = IF s.col + 1 = MAX_COLS THEN Below(page, s.row)
                          ELSE [page |-> page, row |-> s.row, col |-> s.col + 1]
  BY <1>1, PutCharIs
<1>3. s.col \in 0..(MAX_COLS - 1) /\ s.row \in 0..LastRow /\ 1 \in 0..MAX_COLS
  BY ScreenIs, ConstantTypes
<1>4. s.col + 1 >= MAX_COLS <=> s.col + 1 = MAX_COLS
  BY <1>3, ConstantTypes
<1>5. PutChar(s, ch) = Onwards(page, s.row, s.col + 1)
  <2>1. s.col + 1 = MAX_COLS => s.row # LastRow
    BY <1>2, <1>3, <1>4, OnwardsIs, ConstantTypes
  <2>2. s.col + 1 = MAX_COLS => s.col + 1 - MAX_COLS = 0
    BY <1>3, ConstantTypes
  <2> QED
    BY <1>2, <1>4, <2>1, <2>2 DEF Below, Onwards
<1> QED
  BY <1>1, <1>2, <1>3, <1>5, OnwardsIs

LEMMA StepBackIs ==
  ASSUME NEW s \in Screens
  PROVE  /\ StepBack(s) \in Screens /\ StepBack(s).page = s.page
         /\ At(s) # 0 => At(StepBack(s)) = At(s) - 1
         /\ s.col > 0 => StepBack(s) = [page |-> s.page, row |-> s.row, col |-> s.col - 1]
         /\ s.col = 0 /\ s.row > 0 =>
              StepBack(s) = [page |-> s.page, row |-> s.row - 1, col |-> MAX_COLS - 1]
<1>1. /\ s = [page |-> s.page, row |-> s.row, col |-> s.col] /\ s.page \in [Cells -> Chars]
      /\ s.row \in 0..LastRow /\ s.col \in 0..(MAX_COLS - 1)
  BY ScreenIs
<1>2. PICK a \in Nat, b \in Nat : a = At(s) /\ b = CellOf(s.row, 0) /\ a = b + s.col
  BY AtIs
<1>3. CASE s.col > 0
  <2>1. PICK t : t = [page |-> s.page, row |-> s.row, col |-> s.col - 1]
    OBVIOUS
  <2>2. StepBack(s) = t
    <3>1. [s EXCEPT !.col = s.col - 1] = t
      BY <1>1, <2>1
    <3> QED
      BY <1>3, <3>1 DEF StepBack
  <2>3. s.col - 1 \in 0..(MAX_COLS - 1) /\ s.col - 1 \in Nat /\ s.row \in Nat
    BY <1>1, <1>3, ConstantTypes
  <2>4. t \in Screens /\ t.page = s.page /\ At(t) = CellOf(s.row, s.col - 1)
    BY <1>1, <2>1, <2>3, ScreenMade
  <2>5. CellOf(s.row, s.col - 1) = CellOf(s.row, 0) + (s.col - 1)
    BY <2>3, RowBelow
  <2>6. At(t) = a - 1
    BY <1>1, <1>2, <2>4, <2>5, ConstantTypes
  <2>7. ~(s.col = 0)
    BY <1>3
  <2> QED
    BY <1>2, <2>1, <2>2, <2>4, <2>6, <2>7
<1>4. CASE s.col = 0 /\ s.row > 0
  <2>1. PICK t : t = [page |-> s.page, row |-> s.row - 1, col |-> MAX_COLS - 1]
    OBVIOUS
  <2>2. StepBack(s) = t
    <3>1. PICK r : r = [s EXCEPT !.col = MAX_COLS - 1]
      OBVIOUS
    <3>2. r = [page |-> s.page, row |-> s.row, col |-> MAX_COLS - 1]
      BY <1>1, <3>1
    <3>3. [r EXCEPT !.row = s.row - 1] = t
      BY <2>1, <3>2
    <3>4. [s EXCEPT !.col = MAX_COLS - 1, !.row = @ - 1] = [r EXCEPT !.row = s.row - 1]
      BY <3>1
    <3>5. ~(s.col > 0)
      BY <1>4
    <3> QED
      BY <1>4, <3>3, <3>4, <3>5 DEF StepBack
  <2>3. /\ s.row - 1 \in 0..LastRow /\ s.row - 1 \in Nat
        /\ MAX_COLS - 1 \in 0..(MAX_COLS - 1) /\ MAX_COLS - 1 \in Nat
    BY <1>1, <1>4, ConstantTypes
  <2>4. t \in Screens /\ t.page = s.page /\ At(t) = CellOf(s.row - 1, MAX_COLS - 1)
    BY <1>1, <2>1, <2>3, ScreenMade
  <2>5. /\ CellOf(s.row - 1, MAX_COLS - 1) = CellOf(s.row - 1, 0) + (MAX_COLS - 1)
        /\ CellOf(s.row - 1 + 1, 0) = CellOf(s.row - 1, 0) + MAX_COLS
        /\ CellOf(s.row - 1, 0) \in Nat
    BY <2>3, RowBelow
  <2>6. s.row - 1 + 1 = s.row
    BY <1>1, ConstantTypes
  <2>7. PICK c \in Nat : c = CellOf(s.row - 1, 0)
    BY <2>5
  <2>8. At(t) = a - 1
    BY <1>2, <1>4, <2>4, <2>5, <2>6, <2>7, ConstantTypes
  <2>9. ~(s.col > 0)
    BY <1>4
  <2> QED
    BY <1>2, <2>1, <2>2, <2>4, <2>8, <2>9
<1>5. CASE ~(s.col > 0) /\ ~(s.row > 0)
  <2>1. StepBack(s) = s
    BY <1>5 DEF StepBack
  <2>2. s.col = 0 /\ s.row = 0
    BY <1>1, <1>5, ConstantTypes
  <2>3. At(s) = 0
    BY <2>2, ConstantTypes DEF At
  <2> QED
    BY <1>5, <2>1, <2>3
<1>6. s.col > 0 \/ s.col = 0
  BY <1>1
<1> QED
  BY <1>3, <1>4, <1>5, <1>6

LEMMA WriteIs ==
  ASSUME NEW s \in Screens, NEW ch \in Chars
  PROVE  /\ Write(s, ch) \in Screens
         /\ Write(s, ch) = [page |-> [s.page EXCEPT ![At(s)] = ch], row |-> s.row, col |-> s.col]
         /\ At(Write(s, ch)) = At(s)
<1>1. /\ s = [page |-> s.page, row |-> s.row, col |-> s.col] /\ s.page \in [Cells -> Chars]
      /\ s.row \in 0..LastRow /\ s.col \in 0..(MAX_COLS - 1)
      /\ At(s) = CellOf(s.row, s.col)
  BY ScreenIs
<1>2. PICK page : page = [s.page EXCEPT ![At(s)] = ch]
  OBVIOUS
<1>3. page \in [Cells -> Chars]
  BY <1>1, <1>2
<1>4. Write(s, ch) = [page |-> page, row |-> s.row, col |-> s.col]
  <2>1. [s EXCEPT !.page = page] = [page |-> page, row |-> s.row, col |-> s.col]
    BY <1>1
  <2> QED
    BY <1>2, <2>1 DEF Write
<1> QED
  BY <1>1, <1>2, <1>3, <1>4, ScreenMade

LEMMA BackwardIs ==
  ASSUME NEW s \in Screens, NEW ch \in Chars
  PROVE  /\ PutCharBack(s, ch) \in Screens
         /\ PutCharBack(s, ch).page = [s.page EXCEPT ![At(s)] = ch]
         /\ At(s) # 0 => At(PutCharBack(s, ch)) = At(s) - 1
<1>1. PICK w : w = Write(s, ch)
  OBVIOUS
<1>2. w \in Screens /\ w.page = [s.page EXCEPT ![At(s)] = ch] /\ At(w) = At(s)
  BY <1>1, WriteIs
<1>3. PutCharBack(s, ch) = StepBack(w)
  BY <1>1 DEF PutCharBack
<1> QED
  BY <1>2, <1>3, StepBackIs


\* The page with some of the digits of a number in its cells from a on.
WithDigits(page, a, number, lo, hi) ==
  [i \in Cells |-> IF (i - a) + 1 \in lo..hi THEN number[(i - a) + 1] ELSE page[i]]

WithChar(page, i, ch) == [page EXCEPT ![i] = ch]

LEMMA DigitWritten ==
  ASSUME NEW page, NEW a \in Nat, NEW number, NEW hi \in Nat
  PROVE  WithChar(WithDigits(page, a, number, 1, hi), a + hi, number[hi + 1])
           = WithDigits(page, a, number, 1, hi + 1)
<1>1. \A i \in Cells : i \in Int
  BY CellsAre
<1>2. PICK next : next = hi + 1
  OBVIOUS
<1>3. \A i \in Cells : i = a + hi => (i - a) + 1 = next
  BY <1>1, <1>2
<1>4. \A i \in Cells : (i - a) + 1 \in 1..next <=> (i - a) + 1 \in 1..hi \/ i = a + hi
  BY <1>1, <1>2
<1>5. WithChar(WithDigits(page, a, number, 1, hi), a + hi, number[next])
        = WithDigits(page, a, number, 1, next)
  BY <1>3, <1>4 DEF WithDigits, WithChar
<1> QED
  BY <1>2, <1>5

LEMMA DigitWrittenBefore ==
  ASSUME NEW page, NEW a \in Nat, NEW number, NEW lo \in Nat, NEW hi \in Nat, lo <= hi,
         NEW next, next = lo + 1, NEW at, at = (a + lo) - 1
  PROVE  WithChar(WithDigits(page, a, number, next, hi), at, number[lo])
           = WithDigits(page, a, number, lo, hi)
<1>1. \A i \in Cells : i \in Int
  BY CellsAre
<1>2. \A i \in Cells : i = at => (i - a) + 1 = lo
  BY <1>1
<1>3. \A i \in Cells : (i - a) + 1 \in lo..hi <=> (i - a) + 1 \in next..hi \/ i = at
  BY <1>1
<1> QED
  BY <1>2, <1>3 DEF WithDigits, WithChar

LEMMA CellsBefore ==
  ASSUME NEW i \in Cells, NEW j \in Nat, j <= i
  PROVE  i \in Nat /\ j \in Cells
<1>1. CellOf(LastRow, 0) \in Nat
  BY ConstantTypes, RowBelow
<1>2. PICK n \in Nat : n = CellOf(LastRow, 0)
  BY <1>1
<1>3. Cells = 0..(n + MAX_COLS - 1)
  BY <1>2, CellsAre
<1> QED
  BY <1>3, ConstantTypes

\* Room for a number before the end of the page, and something before it.
HasRoom(s, number) ==
  /\ number \in Seq(Digits) /\ Len(number) \in 1..(MAX_COLS - 1)
  /\ At(s) # 0 /\ At(s) + Len(number) \in Cells

LEMMA FitsIsRoom ==
  ASSUME NEW s \in Screens, NEW number \in Numbers, number # << >>, NumberFits(s, number)
  PROVE  HasRoom(s, number)
<1>1. number \in Seq(Digits) /\ Len(number) < MAX_COLS
  BY NumbersAssumption
<1>2. Len(number) \in Nat /\ Len(number) # 0
  BY <1>1, EmptySeq
<1>3. PICK n \in Nat : n = Len(number) /\ n >= 1 /\ n < MAX_COLS
  BY <1>1, <1>2
<1>4. At(s) # 0 /\ (s.row = LastRow => s.col + n < MAX_COLS)
  BY <1>3 DEF NumberFits
<1>5. PICK a \in Nat, b \in Nat, d \in Nat :
        /\ a = At(s) /\ b = CellOf(s.row, 0) /\ d = CellOf(LastRow, 0)
        /\ a = b + s.col /\ (s.row < LastRow => b + MAX_COLS <= d)
  BY AtIs
<1>6. s.row \in 0..LastRow /\ s.col \in 0..(MAX_COLS - 1) /\ LastRow \in Nat
  BY ScreenIs, ConstantTypes
<1>7. a + n < d + MAX_COLS
  <2>1. CASE s.row = LastRow
    BY <1>3, <1>4, <1>5, <1>6, <2>1, ConstantTypes, SMTT(30)
  <2>2. CASE s.row < LastRow
    BY <1>3, <1>5, <1>6, <2>2, ConstantTypes, SMTT(30)
  <2> QED
    BY <1>6, <2>1, <2>2
<1>8. a + n \in Nat
  OBVIOUS
<1>9. a + n \in Cells
  BY <1>5, <1>7, <1>8, AtIs
<1> QED
  BY <1>1, <1>3, <1>4, <1>5, <1>9, ConstantTypes DEF HasRoom

\* The digits in order.
LEMMA DigitsForward ==
  ASSUME NEW s \in Screens, NEW number, HasRoom(s, number)
  PROVE  /\ PutString(s, number) \in Screens
         /\ At(PutString(s, number)) = At(s) + Len(number)
         /\ PutString(s, number).page = WithDigits(s.page, At(s), number, 1, Len(number))
<1>1. /\ number \in Seq(Digits) /\ Len(number) \in 1..(MAX_COLS - 1)
      /\ At(s) + Len(number) \in Cells
  BY DEF HasRoom
<1>2. number \in Seq(Chars \union {LineFeed}) /\ \A n \in 1..Len(number) : number[n] \in Chars
  <2>1. \A n \in 1..Len(number) : number[n] \in Digits
    BY <1>1
  <2>2. Digits \subseteq Chars
    BY DEF Chars
  <2> QED
    BY <1>1, <2>1, <2>2
<1>3. PICK f : IsPut(s, number, f) /\ PutString(s, number) = f[Len(number)]
  BY <1>2, PutStringIs
<1>4. PICK a \in Nat, N \in Nat : a = At(s) /\ N = Len(number)
  BY <1>1, AtIs
<1>5. /\ f \in [0..N -> Screens] /\ f[0] = s
      /\ \A n \in 1..N : f[n] = PutChar(f[n - 1], number[n])
  BY <1>3, <1>4 DEF IsPut
<1> DEFINE T == {n \in 0..N : /\ At(f[n]) = a + n
                              /\ f[n].page = WithDigits(s.page, a, number, 1, n)}
<1>6. 0 \in T
  <2>1. s.page = WithDigits(s.page, a, number, 1, 0)
    <3>1. s.page \in [Cells -> Chars]
      BY ScreenIs
    <3> QED
      BY <3>1 DEF WithDigits
  <2> QED
    BY <1>4, <1>5, <2>1
<1>7. ASSUME NEW n \in 1..N, n - 1 \in T PROVE n \in T
  <2>1. PICK m \in Nat : m = n - 1 /\ n = m + 1 /\ m \in 0..N
    OBVIOUS
  <2>2. PICK r, ch : r = f[m] /\ ch = number[n]
    OBVIOUS
  <2>3. r \in Screens /\ ch \in Chars /\ f[n] = PutChar(r, ch)
    BY <1>2, <1>4, <1>5, <2>1, <2>2
  <2>4. At(r) = a + m /\ r.page = WithDigits(s.page, a, number, 1, m)
    BY <1>7, <2>1, <2>2
  <2>5. At(r) + 1 \in Cells
    <3>1. a + n \in Nat /\ a + n <= a + N /\ a + N \in Cells
      BY <1>1, <1>4
    <3>2. a + n \in Cells
      BY <3>1, CellsBefore
    <3>3. At(r) + 1 = a + n
      BY <2>1, <2>4
    <3> QED
      BY <3>2, <3>3
  <2>6. At(f[n]) = At(r) + 1 /\ f[n].page = [r.page EXCEPT ![At(r)] = ch]
    BY <2>3, <2>5, ForwardIs
  <2>7. WithChar(WithDigits(s.page, a, number, 1, m), a + m, number[m + 1])
          = WithDigits(s.page, a, number, 1, m + 1)
    BY DigitWritten
  <2>8. f[n].page = WithDigits(s.page, a, number, 1, n)
    BY <2>1, <2>2, <2>4, <2>6, <2>7 DEF WithChar
  <2> QED
    BY <2>1, <2>4, <2>6, <2>8
<1> HIDE DEF T
<1>8. \A n \in 0..N : n \in T
  BY <1>6, <1>7, Upwards
<1>9. N \in 0..N /\ f[N] \in Screens
  BY <1>5
<1> QED
  BY <1>3, <1>4, <1>8, <1>9 DEF T

\* The steps of PutNumber.
IsBack(s, number, f) ==
  /\ f \in [0..Len(number) -> Screens]
  /\ f[0] = Move(s, Len(number) - 1)
  /\ \A n \in 1..Len(number) : f[n] = PutCharBack(f[n - 1], number[Len(number) + 1 - n])

LEMMA PutNumberIs ==
  ASSUME NEW s \in Screens, NEW number, HasRoom(s, number)
  PROVE  \E f : /\ IsBack(s, number, f)
                /\ PutNumber(s, number) = Move(f[Len(number)], Len(number) + 1)
<1> DEFINE N == Len(number)
           first == Move(s, N - 1)
           next == [n \in 1..N |-> [r \in Screens |-> PutCharBack(r, number[N + 1 - n])]]
           P(f) == f = [n \in 0..N |-> IF n = 0 THEN Move(s, N - 1)
                                       ELSE PutCharBack(f[n - 1], number[N + 1 - n])]
           back == CHOOSE f : P(f)
<1>1. N \in Nat /\ \A n \in 1..N : number[N + 1 - n] \in Chars
  <2>1. number \in Seq(Digits)
    BY DEF HasRoom
  <2>2. \A n \in 1..N : number[N + 1 - n] \in Digits
    BY <2>1
  <2> QED
    BY <2>1, <2>2 DEF Chars
<1>2. \A n \in 1..N, r \in Screens : PutCharBack(r, number[N + 1 - n]) \in Screens
  BY <1>1, BackwardIs
<1>3. next \in [1..N -> [Screens -> Screens]]
  BY <1>2
<1>4. \A n \in 1..N, r \in Screens : next[n][r] = PutCharBack(r, number[N + 1 - n])
  OBVIOUS
<1>5. first \in Screens
  <2>1. N \in 1..(MAX_COLS - 1) /\ At(s) + N \in Cells /\ At(s) \in Nat
    BY AtIs DEF HasRoom
  <2>2. PICK a \in Nat : a = At(s) /\ a + N \in Cells
    BY <2>1
  <2>3. N - 1 \in 0..MAX_COLS /\ a + (N - 1) \in Nat /\ a + (N - 1) <= a + N
    BY <2>1, ConstantTypes
  <2>4. At(s) + (N - 1) \in Cells
    BY <2>2, <2>3, CellsBefore
  <2> QED
    BY <2>3, <2>4, MoveIs
<1> HIDE DEF next, first
<1>6. PICK f : Follows(N, Screens, first, next, f)
  BY <1>1, <1>3, <1>5, Recursion
<1>7. P(f)
  <2>1. \A n \in 1..N : f[n] = PutCharBack(f[n - 1], number[N + 1 - n])
    <3> SUFFICES ASSUME NEW n \in 1..N PROVE f[n] = PutCharBack(f[n - 1], number[N + 1 - n])
      OBVIOUS
    <3>1. f[n - 1] \in Screens /\ f[n] = next[n][f[n - 1]]
      BY <1>1, <1>6 DEF Follows
    <3> QED
      BY <1>4, <3>1
  <2>2. \A n \in 0..N : n # 0 => n \in 1..N
    BY <1>1
  <2>3. f[0] = Move(s, N - 1) /\ f = [n \in 0..N |-> f[n]]
    BY <1>6 DEF Follows, first
  <2> QED
    BY <2>1, <2>2, <2>3
<1>8. P(back)
  BY <1>7
<1>9. PutNumber(s, number) = Move(back[N], N + 1)
  BY Zenon DEF PutNumber
<1> HIDE DEF back
<1>10. back = [n \in 0..N |-> back[n]] /\ back[0] = first
  <2>1. back = [n \in 0..N |-> back[n]]
    BY <1>8
  <2>2. 0 \in 0..N
    BY <1>1
  <2>3. back[0] = Move(s, N - 1)
    BY <1>8, <2>2
  <2> QED
    BY <2>1, <2>3 DEF first
<1>11. \A n \in 1..N : back[n] = PutCharBack(back[n - 1], number[N + 1 - n])
  BY <1>1, <1>8
<1>12. back \in [0..N -> Screens]
  <2>1. \A n \in 1..N : back[n - 1] \in Screens => back[n] \in Screens
    BY <1>2, <1>11
  <2> QED
    BY <1>1, <1>5, <1>10, <2>1, RecursionIn
<1> QED
  BY <1>9, <1>10, <1>11, <1>12 DEF IsBack, first


\* A number comes out as its digits.
LEMMA NumberPrinted ==
  ASSUME NEW s \in Screens, NEW number, HasRoom(s, number)
  PROVE  PutNumber(s, number) = PutString(s, number) /\ PutString(s, number) \in Screens
<1>1. /\ number \in Seq(Digits) /\ Len(number) \in 1..(MAX_COLS - 1)
      /\ At(s) # 0 /\ At(s) + Len(number) \in Cells
  BY DEF HasRoom
<1>2. \A n \in 1..Len(number) : number[n] \in Chars
  <2>1. \A n \in 1..Len(number) : number[n] \in Digits
    BY <1>1
  <2>2. Digits \subseteq Chars
    BY DEF Chars
  <2> QED
    BY <2>1, <2>2
<1>3. PICK a \in Nat, N \in Nat : a = At(s) /\ N = Len(number)
  BY <1>1, AtIs
<1>4. a >= 1 /\ N >= 1 /\ N < MAX_COLS /\ a + N \in Cells
  BY <1>1, <1>3, ConstantTypes
<1>5. PICK f : /\ IsBack(s, number, f)
               /\ PutNumber(s, number) = Move(f[N], N + 1)
  BY <1>3, PutNumberIs
<1>6. /\ f \in [0..N -> Screens] /\ f[0] = Move(s, N - 1)
      /\ \A n \in 1..N : f[n] = PutCharBack(f[n - 1], number[N + 1 - n])
  BY <1>3, <1>5 DEF IsBack
<1> DEFINE T == {n \in 0..N : /\ At(f[n]) = (a + N) - (n + 1)
                              /\ f[n].page = WithDigits(s.page, a, number, (N - n) + 1, N)}
<1>7. 0 \in T
  <2>1. s.page = WithDigits(s.page, a, number, (N - 0) + 1, N)
    <3>1. s.page \in [Cells -> Chars]
      BY ScreenIs
    <3>2. (N - 0) + 1 = N + 1 /\ (N + 1)..N = {}
      OBVIOUS
    <3> QED
      BY <3>1, <3>2 DEF WithDigits
  <2>2. N - 1 \in 0..MAX_COLS /\ a + (N - 1) \in Nat /\ a + (N - 1) <= a + N
    BY <1>4, ConstantTypes
  <2>3. At(s) + (N - 1) \in Cells
    BY <1>3, <1>4, <2>2, CellsBefore
  <2>4. f[0].page = s.page /\ At(f[0]) = At(s) + (N - 1)
    BY <1>6, <2>2, <2>3, MoveIs
  <2>5. a + (N - 1) = (a + N) - (0 + 1)
    OBVIOUS
  <2> QED
    BY <1>3, <2>1, <2>4, <2>5
<1>8. ASSUME NEW n \in 1..N, n - 1 \in T PROVE n \in T
  <2>1. PICK m \in Nat : m = n - 1 /\ n = m + 1 /\ m \in 0..N
    OBVIOUS
  <2>2. PICK k \in Nat : k = (N + 1) - n /\ k \in 1..N /\ k + n = N + 1
    <3>1. (N + 1) - n \in Nat /\ (N + 1) - n \in 1..N /\ ((N + 1) - n) + n = N + 1
      OBVIOUS
    <3> QED
      BY <3>1
  <2>3. PICK r, ch : r = f[m] /\ ch = number[k]
    OBVIOUS
  <2>4. r \in Screens /\ ch \in Chars /\ f[n] = PutCharBack(r, ch)
    <3>1. N + 1 - n = k
      BY <2>2
    <3>2. f[n] = PutCharBack(f[n - 1], number[N + 1 - n])
      BY <1>6
    <3> QED
      BY <1>2, <1>3, <1>6, <2>1, <2>2, <2>3, <3>1, <3>2
  <2>5. At(r) = (a + N) - (m + 1) /\ r.page = WithDigits(s.page, a, number, (N - m) + 1, N)
    BY <1>8, <2>1, <2>3
  <2>6. (a + N) - (m + 1) = (a + k) - 1 /\ (N - m) + 1 = k + 1
    BY <2>1, <2>2
  <2>7. (a + k) - 1 \in Nat /\ (a + k) - 1 # 0
    BY <1>4, <2>2
  <2>8. At(f[n]) = At(r) - 1 /\ f[n].page = WithChar(r.page, At(r), ch)
    BY <2>4, <2>5, <2>6, <2>7, BackwardIs DEF WithChar
  <2>9. WithChar(WithDigits(s.page, a, number, k + 1, N), (a + k) - 1, number[k])
          = WithDigits(s.page, a, number, k, N)
    <3>1. k <= N
      BY <2>2
    <3>2. PICK next, at : next = k + 1 /\ at = (a + k) - 1
      OBVIOUS
    <3>3. WithChar(WithDigits(s.page, a, number, next, N), at, number[k])
            = WithDigits(s.page, a, number, k, N)
      BY <3>1, <3>2, DigitWrittenBefore
    <3> QED
      BY <3>2, <3>3
  <2>10. f[n].page = WithDigits(s.page, a, number, k, N)
    BY <2>3, <2>5, <2>6, <2>8, <2>9
  <2>11. k = (N - n) + 1 /\ ((a + N) - (m + 1)) - 1 = (a + N) - (n + 1) /\ n \in 0..N
    BY <2>1, <2>2
  <2>12. At(f[n]) = (a + N) - (n + 1)
    BY <2>5, <2>8, <2>11
  <2> QED
    BY <2>10, <2>11, <2>12
<1> HIDE DEF T
<1>9. \A n \in 0..N : n \in T
  BY <1>7, <1>8, Upwards
<1>10. /\ f[N] \in Screens /\ At(f[N]) = a - 1
       /\ f[N].page = WithDigits(s.page, a, number, 1, N)
  <2>1. N \in 0..N /\ (a + N) - (N + 1) = a - 1 /\ (N - N) + 1 = 1
    OBVIOUS
  <2>2. N \in T
    BY <1>9, <2>1
  <2>3. At(f[N]) = (a + N) - (N + 1) /\ f[N].page = WithDigits(s.page, a, number, (N - N) + 1, N)
    BY <2>2 DEF T
  <2> QED
    BY <1>6, <2>1, <2>3
<1>11. PICK t : t = PutNumber(s, number)
  OBVIOUS
<1>12. t \in Screens /\ t.page = WithDigits(s.page, a, number, 1, N) /\ At(t) = a + N
  <2>1. N + 1 \in 0..MAX_COLS /\ (a - 1) + (N + 1) = a + N
    BY <1>4, ConstantTypes
  <2>2. At(f[N]) + (N + 1) = a + N
    BY <1>10, <2>1
  <2>3. /\ Move(f[N], N + 1) \in Screens /\ Move(f[N], N + 1).page = f[N].page
        /\ At(Move(f[N], N + 1)) = At(f[N]) + (N + 1)
    BY <1>4, <1>10, <2>1, <2>2, MoveIs
  <2> QED
    BY <1>5, <1>10, <1>11, <2>2, <2>3
<1>13. /\ PutString(s, number) \in Screens /\ At(PutString(s, number)) = a + N
       /\ PutString(s, number).page = WithDigits(s.page, a, number, 1, N)
  BY <1>3, DigitsForward
<1>14. t = PutString(s, number)
  BY <1>12, <1>13, SameScreen
<1> QED
  BY <1>11, <1>13, <1>14

\* A line of output is on the page what it is on the paper.
LEMMA LinePrinted ==
  ASSUME NEW s \in Screens, NEW text \in Texts, NEW number \in Numbers,
         NumberFits(PutString(s, text), number)
  PROVE  LET printed == PutString(s, text)
             new == NewLine(IF number = << >> THEN printed ELSE PutNumber(printed, number))
         IN  /\ new \in Screens /\ new.col = 0
             /\ \A p : Shows(s, p) => Shows(new, Feed(StrikeAll(StrikeAll(p, text), number)))
<1>1. PICK printed : printed = PutString(s, text)
  OBVIOUS
<1>2. PICK whole : whole = IF number = << >> THEN printed ELSE PutNumber(printed, number)
  OBVIOUS
<1>3. text \in Seq(Chars \union {LineFeed}) /\ number \in Seq(Chars \union {LineFeed})
  <2>1. number \in Seq(Digits)
    BY NumbersAssumption
  <2>2. \A n \in 1..Len(number) : number[n] \in Chars \union {LineFeed}
    BY <2>1 DEF Chars
  <2> QED
    BY <2>1, <2>2, TextsAssumption
<1>4. printed \in Screens
  BY <1>1, <1>3, StringShown
<1>5. whole \in Screens /\ whole = PutString(printed, number)
  <2>1. CASE number = << >>
    <3>1. PICK f : IsPut(printed, number, f) /\ PutString(printed, number) = f[Len(number)]
      BY <1>3, <1>4, PutStringIs
    <3>2. Len(number) = 0
      BY <2>1, EmptySeq
    <3>3. PutString(printed, number) = printed
      BY <3>1, <3>2 DEF IsPut
    <3> QED
      BY <1>2, <1>4, <2>1, <3>3
  <2>2. CASE number # << >>
    <3>1. HasRoom(printed, number)
      BY <1>1, <1>4, <2>2, FitsIsRoom
    <3> QED
      BY <1>2, <1>4, <2>2, <3>1, NumberPrinted
  <2> QED
    BY <2>1, <2>2
<1>6. NewLine(whole) \in Screens /\ NewLine(whole).col = 0
  BY <1>5, NewLineKept
<1>7. ASSUME NEW p, Shows(s, p)
      PROVE  Shows(NewLine(whole), Feed(StrikeAll(StrikeAll(p, text), number)))
  <2>1. PICK q : q = StrikeAll(StrikeAll(p, text), number)
    OBVIOUS
  <2>2. Shows(printed, StrikeAll(p, text))
    BY <1>1, <1>3, <1>7, StringShown
  <2>3. Shows(whole, q)
    BY <1>3, <1>4, <1>5, <2>1, <2>2, StringShown
  <2>4. Shows(PutChar(whole, LineFeed), Strike(q, LineFeed))
    BY <1>5, <2>3, StrikeShown
  <2>5. PutChar(whole, LineFeed) = NewLine(whole) /\ Strike(q, LineFeed) = Feed(q)
    BY DEF PutChar, Strike
  <2> QED
    BY <2>1, <2>4, <2>5
<1> QED
  BY <1>1, <1>2, <1>6, <1>7


-----------------------------------------------------------------------------
\* Erasing.

LEMMA FrontIs ==
  ASSUME NEW S, NEW t \in Seq(S), t # << >>
  PROVE  /\ Front(t) \in Seq(S) /\ Len(t) \in Nat \ {0} /\ Len(Front(t)) = Len(t) - 1
         /\ \A i \in 1..(Len(t) - 1) : Front(t)[i] = t[i]
<1>1. Len(t) \in Nat \ {0}
  BY EmptySeq
<1>2. PICK last \in Nat : last = Len(t) - 1
  BY <1>1
<1>3. \A i \in 1..last : t[i] \in S
  BY <1>1, <1>2, ElementOfSeq
<1>4. /\ SubSeq(t, 1, last) \in Seq(S)
      /\ Len(SubSeq(t, 1, last)) = IF 1 <= last THEN last - 1 + 1 ELSE 0
      /\ \A i \in 1..(last - 1 + 1) : SubSeq(t, 1, last)[i] = t[1 + i - 1]
  BY <1>3, SubSeqProperties
<1>5. Front(t) = SubSeq(t, 1, last)
  BY <1>2 DEF Front
<1>6. last - 1 + 1 = last /\ \A i \in 1..last : 1 + i - 1 = i
  OBVIOUS
<1>7. Len(Front(t)) = last
  BY <1>4, <1>5, <1>6
<1> QED
  BY <1>1, <1>2, <1>4, <1>5, <1>6, <1>7

\* One piece of paper without the last character of the other, and without the
\* row behind it if there is nothing on that.
OneLess(p, q) ==
  /\ Len(q) \in 1..Len(p)
  /\ Len(p[Len(q)]) = Len(q[Len(q)]) + 1
  /\ \A i \in 1..Len(q[Len(q)]) : q[Len(q)][i] = p[Len(q)][i]
  /\ \A r \in 1..(Len(q) - 1) : q[r] = p[r]
  /\ \A r \in (Len(q) + 1)..Len(p) : p[r] = << >>

LEMMA ErasedShown ==
  ASSUME NEW p \in Papers, NEW q \in Papers, OneLess(p, q),
         NEW page \in [Cells -> Chars], PageShows(page, p)
  PROVE  PageShows(WithChar(page, CellOf(Len(q) - 1, Len(q[Len(q)])), Blank), q)
<1>1. PICK m, c, new : /\ m = Len(q) /\ c = Len(q[m])
                       /\ new = WithChar(page, CellOf(m - 1, c), Blank)
  OBVIOUS
<1>2. p \in Rolls /\ q \in Rolls /\ c < MAX_COLS
  BY <1>1 DEF Papers
<1>3. m \in 1..MAX_ROWS /\ m \in 1..Len(q) /\ Len(p) \in 1..MAX_ROWS
  BY <1>1, <1>2, RollIs
<1>4. c \in 0..(MAX_COLS - 1)
  <2>1. c \in 0..MAX_COLS
    BY <1>1, <1>2, <1>3, RollIs
  <2> QED
    BY <1>2, <2>1, ConstantTypes
<1>5. /\ m <= Len(p) /\ Len(p[m]) = c + 1
      /\ \A i \in 1..c : q[m][i] = p[m][i]
      /\ \A r \in 1..(m - 1) : q[r] = p[r]
      /\ \A r \in (m + 1)..Len(p) : p[r] = << >>
  BY <1>1, <1>3 DEF OneLess
<1>6. m - 1 \in 0..LastRow /\ m - 1 \in Nat
  BY <1>3, ConstantTypes
<1>7. ASSUME NEW row \in 0..LastRow, NEW col \in 0..(MAX_COLS - 1)
      PROVE  new[CellOf(row, col)] = ShownAt(q, row, col)
  <2>1. CellOf(row, col) \in Cells /\ row \in Nat
    BY CellInPage, ConstantTypes
  <2>2. page[CellOf(row, col)] = ShownAt(p, row, col)
    BY DEF PageShows
  <2>3. CASE row = m - 1 /\ col = c
    <3>1. new[CellOf(row, col)] = Blank
      BY <1>1, <2>1, <2>3 DEF WithChar
    <3>2. row + 1 = m /\ ~(col < Len(q[row + 1]))
      BY <1>1, <1>3, <1>4, <2>3
    <3> QED
      BY <3>1, <3>2 DEF ShownAt
  <2>4. CASE row = m - 1 /\ col # c
    <3>1. CellOf(row, col) # CellOf(m - 1, c)
      BY <1>4, <1>6, <2>4, CellsDistinct
    <3>2. new[CellOf(row, col)] = page[CellOf(row, col)]
      BY <1>1, <2>1, <3>1 DEF WithChar
    <3>3. row < m /\ row + 1 = m /\ row < Len(p)
      BY <1>3, <1>5, <2>4
    <3>4. col < c + 1 <=> col < c
      BY <1>4, <2>4, ConstantTypes
    <3>5. col < c => q[m][col + 1] = p[m][col + 1]
      <4>1. col < c => col + 1 \in 1..c
        BY <1>4, ConstantTypes
      <4> QED
        BY <1>5, <4>1
    <3> QED
      BY <1>1, <1>5, <2>2, <3>2, <3>3, <3>4, <3>5 DEF ShownAt
  <2>5. CASE row < m - 1
    <3>1. CellOf(row, col) # CellOf(m - 1, c)
      BY <1>4, <1>6, <2>1, <2>5, CellsDistinct
    <3>2. new[CellOf(row, col)] = page[CellOf(row, col)]
      BY <1>1, <2>1, <3>1 DEF WithChar
    <3>3. row + 1 \in 1..(m - 1) /\ row < m /\ row < Len(p)
      BY <1>3, <1>5, <2>1, <2>5
    <3>4. q[row + 1] = p[row + 1]
      BY <1>5, <3>3
    <3> QED
      BY <1>1, <2>2, <3>2, <3>3, <3>4 DEF ShownAt
  <2>6. CASE row > m - 1
    <3>1. CellOf(row, col) # CellOf(m - 1, c)
      BY <1>4, <1>6, <2>1, <2>6, CellsDistinct
    <3>2. new[CellOf(row, col)] = page[CellOf(row, col)]
      BY <1>1, <2>1, <3>1 DEF WithChar
    <3>3. ~(row < m) /\ (row < Len(p) => row + 1 \in (m + 1)..Len(p))
      BY <1>3, <2>1, <2>6
    <3>4. row < Len(p) => ~(col < Len(p[row + 1]))
      <4>1. Len(<< >>) = 0 /\ ~(col < 0)
        BY EmptySeq
      <4> QED
        BY <1>5, <3>3, <4>1
    <3> QED
      BY <1>1, <2>2, <3>2, <3>3, <3>4 DEF ShownAt
  <2> QED
    BY <1>6, <2>1, <2>3, <2>4, <2>5, <2>6
<1> QED
  BY <1>1, <1>7 DEF PageShows

\* The paper with its r-th row one character shorter.
Shortened(p, r) == [p EXCEPT ![r] = Front(@)]

LEMMA ShortenedIs ==
  ASSUME NEW p \in Rolls, NEW r \in 1..Len(p), p[r] # << >>
  PROVE  /\ Shortened(p, r) \in Rolls /\ Len(Shortened(p, r)) = Len(p)
         /\ Len(p[r]) = Len(Shortened(p, r)[r]) + 1
         /\ \A i \in 1..Len(Shortened(p, r)[r]) : Shortened(p, r)[r][i] = p[r][i]
         /\ \A k \in 1..Len(p) : k # r => Shortened(p, r)[k] = p[k]
<1>1. PICK w, q : w = Front(p[r]) /\ q = Shortened(p, r)
  OBVIOUS
<1>2. /\ p \in Seq(Seq(Chars)) /\ Len(p) \in 1..MAX_ROWS
      /\ p[r] \in Seq(Chars) /\ Len(p[r]) \in 0..MAX_COLS
  BY RollIs
<1>3. /\ w \in Seq(Chars) /\ Len(p[r]) \in Nat \ {0} /\ Len(w) = Len(p[r]) - 1
      /\ \A i \in 1..(Len(p[r]) - 1) : w[i] = p[r][i]
  BY <1>1, <1>2, FrontIs
<1>4. /\ [p EXCEPT ![r] = w] \in Seq(Seq(Chars)) /\ Len([p EXCEPT ![r] = w]) = Len(p)
      /\ \A k \in 1..Len(p) : [p EXCEPT ![r] = w][k] = IF k = r THEN w ELSE p[k]
  BY <1>2, <1>3, ExceptSeq
<1>5. q = [p EXCEPT ![r] = w]
  BY <1>1 DEF Shortened
<1>6. /\ q \in Seq(Seq(Chars)) /\ Len(q) = Len(p)
      /\ \A k \in 1..Len(p) : q[k] = IF k = r THEN w ELSE p[k]
  BY <1>4, <1>5
<1>7. Len(w) <= MAX_COLS
  BY <1>2, <1>3, ConstantTypes
<1>8. \A k \in 1..Len(q) : Len(q[k]) <= MAX_COLS
  BY <1>6, <1>7 DEF Rolls
<1>9. q \in Rolls
  BY <1>2, <1>6, <1>8 DEF Rolls
<1>10. q[r] = w /\ Len(p[r]) = Len(w) + 1
  BY <1>3, <1>6
<1> QED
  BY <1>1, <1>3, <1>6, <1>9, <1>10

\* There is something to erase before the position.
CanErase(p) ==
  p[Len(p)] = << >> => Len(p) > 1 /\ Len(p[Len(p) - 1]) = MAX_COLS

LEMMA UnstrikeIs ==
  ASSUME NEW p \in Papers, CanErase(p)
  PROVE  /\ Unstrike(p) \in Papers /\ OneLess(p, Unstrike(p))
         /\ p[Len(p)] # << >> => Len(Unstrike(p)) = Len(p)
         /\ p[Len(p)] = << >> => Len(Unstrike(p)) = Len(p) - 1 /\ Len(p) > 1
<1>1. PICK n : n = Len(p)
  OBVIOUS
<1>2. p \in Rolls /\ n \in 1..MAX_ROWS /\ n \in 1..Len(p) /\ Len(p[n]) < MAX_COLS
  <2>1. p \in Rolls /\ Len(p[n]) < MAX_COLS
    BY <1>1 DEF Papers
  <2> QED
    BY <1>1, <2>1, RollIs
<1>3. CASE p[n] # << >>
  <2>1. PICK q : q = Shortened(p, n)
    OBVIOUS
  <2>2. Unstrike(p) = q
    BY <1>1, <1>3, <2>1 DEF Unstrike, Shortened
  <2>3. /\ q \in Rolls /\ Len(q) = n /\ Len(p[n]) = Len(q[n]) + 1
        /\ \A i \in 1..Len(q[n]) : q[n][i] = p[n][i]
        /\ \A k \in 1..n : k # n => q[k] = p[k]
    BY <1>1, <1>2, <1>3, <2>1, ShortenedIs
  <2>4. Len(q[n]) \in 0..MAX_COLS
    BY <1>2, <2>3, RollIs
  <2>5. q \in Papers
    BY <1>2, <2>3, <2>4, ConstantTypes DEF Papers
  <2>6. /\ (n + 1)..Len(p) = {} /\ n \in 1..Len(p)
        /\ \A k \in 1..(n - 1) : k \in 1..n /\ k # n
    BY <1>1, <1>2
  <2>7. OneLess(p, q)
    BY <2>3, <2>6 DEF OneLess
  <2> QED
    BY <1>1, <1>3, <2>2, <2>3, <2>5, <2>7
<1>4. CASE p[n] = << >>
  <2>1. n > 1 /\ Len(p[n - 1]) = MAX_COLS
    BY <1>1, <1>4 DEF CanErase
  <2>2. PICK f, q : f = Front(p) /\ q = Shortened(f, n - 1)
    OBVIOUS
  <2>3. p \in Seq(Seq(Chars)) /\ p # << >> /\ \A r \in 1..Len(p) : Len(p[r]) <= MAX_COLS
    <3>1. p \in Seq(Seq(Chars))
      BY <1>2, RollIs
    <3>2. p # << >>
      BY <1>1, <1>2, EmptySeq
    <3> QED
      BY <1>2, <3>1, <3>2 DEF Rolls
  <2>4. /\ f \in Seq(Seq(Chars)) /\ Len(f) = n - 1
        /\ \A r \in 1..(n - 1) : f[r] = p[r]
    BY <1>1, <2>2, <2>3, FrontIs
  <2>5. PICK m \in Nat : m = n - 1 /\ m \in 1..MAX_ROWS /\ m \in 1..Len(f) /\ m < n
    <3>1. /\ n - 1 \in Nat /\ n - 1 \in 1..MAX_ROWS /\ n - 1 \in 1..Len(f) /\ n - 1 < n
      BY <1>2, <2>1, <2>4, ConstantTypes
    <3> QED
      BY <3>1
  <2>6. f \in Rolls
    <3>1. \A r \in 1..Len(f) : r \in 1..Len(p) /\ f[r] = p[r]
      BY <1>1, <1>2, <2>4, <2>5
    <3>2. \A r \in 1..Len(f) : Len(f[r]) <= MAX_COLS
      BY <2>3, <3>1
    <3> QED
      BY <2>4, <2>5, <3>2 DEF Rolls
  <2>7. f[m] # << >> /\ f[m] = p[m] /\ Len(f[m]) = MAX_COLS
    <3>1. f[m] = p[m] /\ Len(f[m]) = MAX_COLS
      BY <2>1, <2>4, <2>5
    <3>2. Len(<< >>) # MAX_COLS
      BY EmptySeq, ConstantTypes
    <3> QED
      BY <3>1, <3>2
  <2>8. /\ q \in Rolls /\ Len(q) = m /\ Len(f[m]) = Len(q[m]) + 1
        /\ \A i \in 1..Len(q[m]) : q[m][i] = f[m][i]
        /\ \A k \in 1..m : k # m => q[k] = f[k]
    <3>1. q = Shortened(f, m) /\ Len(f) = m
      BY <2>2, <2>4, <2>5
    <3> QED
      BY <2>5, <2>6, <2>7, <3>1, ShortenedIs
  <2>9. Unstrike(p) = q
    BY <1>1, <1>4, <2>1, <2>2 DEF Unstrike, Shortened
  <2>10. Len(q[m]) \in 0..MAX_COLS
    <3>1. m \in 1..Len(q)
      BY <2>5, <2>8
    <3> QED
      BY <2>8, <3>1, RollIs
  <2>11. q \in Papers
    BY <2>7, <2>8, <2>10, ConstantTypes DEF Papers
  <2>12. OneLess(p, q)
    <3>1. m \in 1..Len(p) /\ \A r \in (m + 1)..Len(p) : r = n
      BY <1>1, <1>2, <2>5
    <3>2. \A k \in 1..(m - 1) : q[k] = p[k]
      <4>1. \A k \in 1..(m - 1) : k \in 1..m /\ k # m /\ k \in 1..(n - 1)
        BY <2>5
      <4> QED
        BY <2>4, <2>8, <4>1
    <3> QED
      BY <1>4, <2>7, <2>8, <3>1, <3>2 DEF OneLess
  <2> QED
    BY <1>1, <1>4, <2>1, <2>5, <2>8, <2>9, <2>11, <2>12
<1> QED
  BY <1>1, <1>3, <1>4


LEMMA BackCharIs ==
  ASSUME NEW s \in Screens, NEW ch \in Chars
  PROVE  /\ PrintBackChar(s, ch) \in Screens
         /\ At(s) # 0 => At(PrintBackChar(s, ch)) = At(s) - 1
         /\ PrintBackChar(s, ch).page = WithChar(s.page, At(PrintBackChar(s, ch)), ch)
         /\ PrintBackChar(s, ch).row = StepBack(s).row
         /\ PrintBackChar(s, ch).col = StepBack(s).col
<1>1. PICK b, t : b = StepBack(s) /\ t = Write(b, ch)
  OBVIOUS
<1>2. b \in Screens /\ b.page = s.page /\ (At(s) # 0 => At(b) = At(s) - 1)
  BY <1>1, StepBackIs
<1>3. /\ t \in Screens /\ At(t) = At(b)
      /\ t = [page |-> [b.page EXCEPT ![At(b)] = ch], row |-> b.row, col |-> b.col]
  BY <1>1, <1>2, WriteIs
<1>4. t.page = WithChar(s.page, At(t), ch) /\ t.row = b.row /\ t.col = b.col
  BY <1>2, <1>3 DEF WithChar
<1>5. PrintBackChar(s, ch) = t
  BY <1>1 DEF PrintBackChar
<1> QED
  BY <1>1, <1>2, <1>3, <1>4, <1>5

\* What the console erases, the teletype takes back.
LEMMA EraseShown ==
  ASSUME NEW s \in Screens, NEW p, Shows(s, p), CanErase(p)
  PROVE  Shows(PrintBackChar(s, Blank), Unstrike(p))
<1>1. /\ p \in Papers /\ p \in Rolls /\ PageShows(s.page, p)
      /\ s.row = Len(p) - 1 /\ s.col = Len(p[Len(p)])
  BY DEF Shows, Papers
<1>2. PICK q, t : q = Unstrike(p) /\ t = PrintBackChar(s, Blank)
  OBVIOUS
<1>3. /\ q \in Papers /\ OneLess(p, q)
      /\ p[Len(p)] # << >> => Len(q) = Len(p)
      /\ p[Len(p)] = << >> => Len(q) = Len(p) - 1 /\ Len(p) > 1
  BY <1>1, <1>2, UnstrikeIs
<1>4. /\ t \in Screens /\ t.page = WithChar(s.page, At(t), Blank)
      /\ t.row = StepBack(s).row /\ t.col = StepBack(s).col
  BY <1>2, BackCharIs DEF Chars
<1>5. Len(p[Len(q)]) = Len(q[Len(q)]) + 1 /\ Len(q) \in 1..Len(p)
  BY <1>3 DEF OneLess
<1>6. Len(p) \in 1..MAX_ROWS /\ \A r \in 1..Len(p) : Len(p[r]) \in 0..MAX_COLS /\ p[r] \in Seq(Chars)
  BY <1>1, RollIs
<1>7. q \in Rolls /\ Len(q) \in 1..Len(q)
  <2>1. q \in Rolls
    BY <1>3 DEF Papers
  <2> QED
    BY <2>1, RollIs
<1>8. PICK c \in Nat : c = Len(q[Len(q)])
  <2>1. Len(q[Len(q)]) \in 0..MAX_COLS
    BY <1>7, RollIs
  <2> QED
    BY <2>1, ConstantTypes
<1>9. t.row = Len(q) - 1 /\ t.col = c
  <2>1. CASE p[Len(p)] # << >>
    <3>1. Len(q) = Len(p) /\ s.col = c + 1 /\ s.col > 0
      BY <1>1, <1>3, <1>5, <1>8, <2>1
    <3>2. StepBack(s) = [page |-> s.page, row |-> s.row, col |-> s.col - 1]
      BY <3>1, StepBackIs
    <3> QED
      BY <1>1, <1>4, <3>1, <3>2
  <2>2. CASE p[Len(p)] = << >>
    <3>1. Len(q) = Len(p) - 1 /\ Len(p) > 1 /\ Len(p[Len(p) - 1]) = MAX_COLS
      BY <1>3, <2>2 DEF CanErase
    <3>2. s.col = 0 /\ s.row > 0 /\ c = MAX_COLS - 1
      <4>1. Len(<< >>) = 0
        BY EmptySeq
      <4>2. MAX_COLS = c + 1
        BY <1>5, <1>8, <3>1
      <4> QED
        BY <1>1, <1>6, <2>2, <3>1, <4>1, <4>2
    <3>3. StepBack(s) = [page |-> s.page, row |-> s.row - 1, col |-> MAX_COLS - 1]
      BY <3>2, StepBackIs
    <3> QED
      BY <1>1, <1>4, <1>6, <3>1, <3>2, <3>3
  <2> QED
    BY <2>1, <2>2
<1>10. At(t) = CellOf(Len(q) - 1, Len(q[Len(q)]))
  BY <1>4, <1>8, <1>9, ScreenIs
<1>11. PageShows(t.page, q)
  <2>1. s.page \in [Cells -> Chars]
    BY ScreenIs
  <2> QED
    BY <1>1, <1>3, <1>4, <1>10, <2>1, ErasedShown
<1> QED
  BY <1>2, <1>3, <1>8, <1>9, <1>11 DEF Shows

-----------------------------------------------------------------------------
\* The line that is edited.

\* The cells of a line: they are counted from the first one.
LEMMA LineCells ==
  ASSUME NEW top \in Nat
  PROVE  /\ CellOf(top, 0) \in Nat
         /\ \A i \in Nat : CellOf(top, i) = CellOf(top, 0) + i
  BY ConstantTypes, RowBelow

\* The row of the position is that of the line's start, or below it.
LEMMA LineRows ==
  ASSUME NEW s \in Screens, NEW top \in 0..LastRow, NEW n \in Nat, At(s) = CellOf(top, n), n > 0
  PROVE  top <= s.row /\ (s.col = 0 => top < s.row) /\ At(s) # 0
<1>1. PICK a \in Nat, b \in Nat, d \in Nat :
        /\ a = At(s) /\ b = CellOf(s.row, 0) /\ d = CellOf(top, 0)
        /\ a = b + s.col /\ a = d + n
  <2>1. top \in Nat
    BY ConstantTypes
  <2>2. CellOf(top, 0) \in Nat /\ CellOf(top, n) = CellOf(top, 0) + n
    BY <2>1, LineCells
  <2> QED
    BY <2>2, AtIs
<1>2. s.row \in Nat /\ top \in Nat /\ s.col \in 0..(MAX_COLS - 1)
  BY ScreenIs, ConstantTypes
<1>3. s.row < top => b + MAX_COLS <= d
  BY <1>1, <1>2, RowsInOrder
<1>4. s.row = top => b = d
  BY <1>1
<1>5. ~(s.row < top)
  BY <1>1, <1>2, <1>3, ConstantTypes
<1>6. s.col = 0 => s.row # top
  BY <1>1, <1>4
<1>7. a # 0
  BY <1>1
<1> QED
  BY <1>1, <1>2, <1>5, <1>6, <1>7

LEMMA PromptLine ==
  ASSUME NEW s \in Screens, NEW p, Shows(s, p), s.col = 0
  PROVE  LineFrom(s.row, PutChar(s, Prompt), Strike(p, Prompt), << >>)
<1>1. PICK t, page : t = PutChar(s, Prompt) /\ page = [s.page EXCEPT ![At(s)] = Prompt]
  OBVIOUS
<1>2. Prompt \in Chars /\ 0 + 1 # MAX_COLS
  BY ConstantTypes DEF Chars
<1>3. t = [page |-> page, row |-> s.row, col |-> 1] /\ t \in Screens /\ page \in [Cells -> Chars]
  BY <1>1, <1>2, PutCharIs
<1>4. s.page \in [Cells -> Chars] /\ At(s) = CellOf(s.row, 0) /\ At(s) \in Cells
  BY ScreenIs
<1>5. page[CellOf(s.row, 0)] = Prompt
  BY <1>1, <1>4
<1>6. At(t) = CellOf(s.row, 1)
  BY <1>3, ScreenIs
<1>7. Len(<< >>) = 0
  BY EmptySeq
<1>8. PICK q : q = Strike(p, Prompt)
  OBVIOUS
<1>9. Shows(t, q)
  BY <1>1, <1>2, <1>8, StrikeShown
<1>10. (s.row + 1)..(Len(q) - 1) = {}
  <2>1. t.row = Len(q) - 1 /\ t.row = s.row /\ s.row \in Nat
    BY <1>3, <1>9, ScreenIs, ConstantTypes DEF Shows
  <2> QED
    BY <2>1
<1> QED
  BY <1>1, <1>3, <1>5, <1>6, <1>7, <1>8, <1>10 DEF LineFrom

LEMMA ErasedLine ==
  ASSUME NEW s \in Screens, NEW p, Shows(s, p), NEW top \in 0..LastRow,
         NEW l \in Seq(Typed), l # << >>, LineFrom(top, s, p, l)
  PROVE  CanErase(p) /\ LineFrom(top, PrintBackChar(s, Blank), Unstrike(p), Front(l))
<1>1. /\ p \in Papers /\ p \in Rolls /\ s.row = Len(p) - 1 /\ s.col = Len(p[Len(p)])
  BY DEF Shows, Papers
<1>2. Len(p) \in 1..MAX_ROWS /\ Len(<< >>) = 0
  BY <1>1, RollIs, EmptySeq
<1>3. /\ At(s) = CellOf(top, Len(l) + 1)
      /\ s.page[CellOf(top, 0)] = Prompt
      /\ \A i \in 1..Len(l) : s.page[CellOf(top, i)] = l[i]
      /\ \A r \in (top + 1)..(Len(p) - 1) : Len(p[r]) = MAX_COLS
  BY DEF LineFrom
<1>4. PICK k, n : /\ k = Front(l) /\ n = Len(l) /\ n \in Nat /\ n > 0 /\ Len(k) = n - 1
                  /\ \A i \in 1..(n - 1) : k[i] = l[i]
  BY FrontIs
<1>5. top \in Nat /\ top <= LastRow
  BY ConstantTypes
<1>6. top <= s.row /\ (s.col = 0 => top < s.row) /\ At(s) # 0
  BY <1>3, <1>4, LineRows
<1>7. CanErase(p)
  <2> SUFFICES ASSUME p[Len(p)] = << >>
               PROVE  Len(p) > 1 /\ Len(p[Len(p) - 1]) = MAX_COLS
    BY DEF CanErase
  <2>1. top < Len(p) - 1
    BY <1>1, <1>2, <1>6
  <2>2. Len(p) > 1 /\ Len(p) - 1 \in (top + 1)..(Len(p) - 1)
    BY <1>2, <1>5, <2>1
  <2> QED
    BY <1>3, <2>2
<1>8. PICK q, t : q = Unstrike(p) /\ t = PrintBackChar(s, Blank)
  OBVIOUS
<1>9. /\ t \in Screens /\ At(t) = At(s) - 1
      /\ t.page = WithChar(s.page, At(t), Blank)
  BY <1>6, <1>8, BackCharIs DEF Chars
<1>10. PICK d \in Nat : /\ d = CellOf(top, 0) /\ \A i \in Nat : CellOf(top, i) = d + i
  BY <1>5, LineCells
<1>11. At(s) = d + (n + 1) /\ At(t) = d + n /\ At(t) \in Cells
  <2>1. PICK m \in Nat : m = n + 1
    BY <1>4
  <2>2. At(s) = d + (n + 1)
    BY <1>3, <1>4, <1>10, <2>1
  <2>3. At(t) = d + n
    <3>1. (d + (n + 1)) - 1 = d + n
      BY <1>4
    <3> QED
      BY <1>9, <2>2, <3>1
  <2>4. At(t) \in Cells
    BY <1>9, ScreenIs
  <2> QED
    BY <2>2, <2>3, <2>4
<1>12. \A i \in Nat : i < n => t.page[CellOf(top, i)] = s.page[CellOf(top, i)]
  <2> SUFFICES ASSUME NEW i \in Nat, i < n
               PROVE  t.page[CellOf(top, i)] = s.page[CellOf(top, i)]
    OBVIOUS
  <2>1. CellOf(top, i) = d + i /\ d + i # d + n
    BY <1>4, <1>10
  <2>2. d + i \in Cells
    <3>1. d + i \in Nat /\ d + i <= d + n /\ d + n \in Cells
      BY <1>4, <1>11
    <3> QED
      BY <3>1, CellsBefore
  <2>3. s.page \in [Cells -> Chars]
    BY ScreenIs
  <2> QED
    BY <1>9, <1>11, <2>1, <2>2, <2>3 DEF WithChar
<1>13. \A i \in 1..(n - 1) : t.page[CellOf(top, i)] = k[i]
  BY <1>3, <1>4, <1>12
<1>14. t.page[CellOf(top, 0)] = Prompt
  BY <1>3, <1>4, <1>12
<1>15. At(t) = CellOf(top, (n - 1) + 1)
  BY <1>4, <1>10, <1>11
<1>16. \A r \in (top + 1)..(Len(q) - 1) : Len(q[r]) = MAX_COLS
  <2>1. /\ Len(q) \in 1..Len(p) /\ \A r \in 1..(Len(q) - 1) : q[r] = p[r]
    BY <1>1, <1>7, <1>8, UnstrikeIs DEF OneLess
  <2>2. \A r \in (top + 1)..(Len(q) - 1) : r \in 1..(Len(q) - 1) /\ r \in (top + 1)..(Len(p) - 1)
    BY <1>2, <1>5, <2>1
  <2> QED
    BY <1>3, <2>1, <2>2
<1> QED
  BY <1>4, <1>7, <1>8, <1>13, <1>14, <1>15, <1>16 DEF LineFrom

\* The paper when a character fills its last row, or does not.
LEMMA StrikeRows ==
  ASSUME NEW p \in Papers, NEW ch \in Chars, NEW top \in Nat,
         \A r \in (top + 1)..(Len(p) - 1) : Len(p[r]) = MAX_COLS
  PROVE  LET first == IF Len(p[Len(p)]) + 1 = MAX_COLS /\ Len(p) = MAX_ROWS THEN top - 1 ELSE top
         IN  first >= 0 => \A r \in (first + 1)..(Len(Strike(p, ch)) - 1) :
                             Len(Strike(p, ch)[r]) = MAX_COLS
<1>1. PICK n, q, w : n = Len(p) /\ q = Struck(p, ch) /\ w = Strike(p, ch)
  OBVIOUS
<1>2. p \in Rolls /\ n \in 1..MAX_ROWS
  <2>1. p \in Rolls
    BY DEF Papers
  <2> QED
    BY <1>1, <2>1, RollIs
<1>3. /\ q \in Rolls /\ Len(q) = n /\ Len(q[n]) = Len(p[n]) + 1
      /\ \A r \in 1..n : r # n => q[r] = p[r]
  BY <1>1, StruckIs
<1>4. w = IF Len(p[n]) + 1 = MAX_COLS THEN Feed(q) ELSE q
  <2>1. ch # LineFeed
    BY LineFeedAssumption
  <2>2. w = IF Len(q[n]) = MAX_COLS THEN Feed(q) ELSE q
    BY <1>1, <2>1 DEF Strike, Struck
  <2> QED
    BY <1>3, <2>2
<1>5. CASE Len(p[n]) + 1 # MAX_COLS
  <2>1. w = q
    BY <1>4, <1>5
  <2>2. \A r \in (top + 1)..(n - 1) : r \in 1..n /\ r # n
    BY <1>2
  <2> QED
    BY <1>1, <1>3, <1>5, <2>1, <2>2
<1>6. CASE Len(p[n]) + 1 = MAX_COLS
  <2>1. w = Feed(q)
    BY <1>4, <1>6
  <2>2. \A r \in (top + 1)..n : r \in 1..n /\ Len(q[r]) = MAX_COLS
    <3> SUFFICES ASSUME NEW r \in (top + 1)..n PROVE r \in 1..n /\ Len(q[r]) = MAX_COLS
      OBVIOUS
    <3>1. r \in 1..n /\ (r # n => r \in (top + 1)..(n - 1))
      BY <1>2
    <3>2. CASE r = n
      BY <1>3, <1>6, <3>1, <3>2
    <3>3. CASE r # n
      BY <1>1, <1>3, <3>1, <3>3
    <3> QED
      BY <3>1, <3>2, <3>3
  <2>3. /\ Len(w) = IF n = MAX_ROWS THEN MAX_ROWS ELSE n + 1
        /\ \A r \in 1..(Len(w) - 1) : w[r] = q[IF n = MAX_ROWS THEN r + 1 ELSE r]
    BY <1>3, <2>1, FeedIs
  <2>4. CASE n = MAX_ROWS
    <3> SUFFICES ASSUME top - 1 >= 0, NEW r \in (top - 1 + 1)..(Len(w) - 1)
                 PROVE  Len(w[r]) = MAX_COLS
      BY <1>1, <1>6, <2>4
    <3>1. r \in 1..(Len(w) - 1) /\ r + 1 \in (top + 1)..n
      BY <1>2, <2>3, <2>4
    <3> QED
      BY <2>2, <2>3, <2>4, <3>1
  <2>5. CASE n # MAX_ROWS
    <3>1. \A r \in (top + 1)..(Len(w) - 1) : r \in 1..(Len(w) - 1) /\ r \in (top + 1)..n
      BY <1>2, <2>3, <2>5
    <3>2. \A r \in (top + 1)..(Len(w) - 1) : Len(w[r]) = MAX_COLS
      BY <2>2, <2>3, <2>5, <3>1
    <3> QED
      BY <1>1, <2>5, <3>2
  <2> QED
    BY <2>4, <2>5
<1> QED
  BY <1>5, <1>6


\* A line that fits the shell's buffer never pushes its prompt off the page.
LEMMA TypedLine ==
  ASSUME NEW s \in Screens, NEW p, Shows(s, p), NEW top \in 0..LastRow,
         NEW l \in Seq(Typed), Len(l) < LineSize, NEW ch \in Typed, LineFrom(top, s, p, l)
  PROVE  \E first \in 0..LastRow :
            LineFrom(first, PutChar(s, ch), Strike(p, ch), Append(l, ch))
<1>1. /\ p \in Papers /\ p \in Rolls /\ s.row = Len(p) - 1 /\ s.col = Len(p[Len(p)])
  BY DEF Shows, Papers
<1>2. ch \in Chars
  BY DEF Chars
<1>3. /\ At(s) = CellOf(top, Len(l) + 1)
      /\ s.page[CellOf(top, 0)] = Prompt
      /\ \A i \in 1..Len(l) : s.page[CellOf(top, i)] = l[i]
      /\ \A r \in (top + 1)..(Len(p) - 1) : Len(p[r]) = MAX_COLS
  BY DEF LineFrom
<1>4. PICK k, n : /\ k = Append(l, ch) /\ n = Len(l) /\ n \in Nat /\ Len(k) = n + 1
                  /\ k[n + 1] = ch /\ \A i \in 1..n : k[i] = l[i]
  <2>1. Len(l) \in Nat /\ Len(Append(l, ch)) = Len(l) + 1 /\ Append(l, ch)[Len(l) + 1] = ch
        /\ \A i \in 1..Len(l) : Append(l, ch)[i] = l[i]
    OBVIOUS
  <2> QED
    BY <2>1
<1>5. top \in Nat /\ LastRow \in Nat /\ top <= LastRow
  BY ConstantTypes
<1>6. PICK page, q, t : /\ page = [s.page EXCEPT ![At(s)] = ch]
                        /\ q = Strike(p, ch) /\ t = PutChar(s, ch)
  OBVIOUS
<1>7. /\ page \in [Cells -> Chars] /\ t \in Screens
      /\ t = IF s.col + 1 = MAX_COLS THEN Below(page, s.row)
             ELSE [page |-> page, row |-> s.row, col |-> s.col + 1]
  BY <1>2, <1>6, PutCharIs
<1>8. /\ s.page \in [Cells -> Chars] /\ At(s) \in Cells
      /\ s.row \in 0..LastRow /\ s.col \in 0..(MAX_COLS - 1)
  BY ScreenIs
<1>9. PICK a \in Nat, b \in Nat, d \in Nat, e \in Nat :
        /\ a = At(s) /\ b = CellOf(s.row, 0) /\ d = CellOf(top, 0) /\ e = CellOf(LastRow, 0)
        /\ a = b + s.col /\ CellOf(s.row + 1, 0) = b + MAX_COLS
        /\ \A i \in Nat : CellOf(top, i) = d + i
  <2>1. CellOf(top, 0) \in Nat /\ \A i \in Nat : CellOf(top, i) = CellOf(top, 0) + i
    BY <1>5, LineCells
  <2> QED
    BY <2>1, AtIs, ZenonT(30)
<1>10. PICK x \in Nat : x = s.col /\ x < MAX_COLS /\ a = b + x
  <2>1. s.col \in Nat /\ s.col < MAX_COLS
    BY <1>8, ConstantTypes
  <2>2. a = b + s.col
    BY <1>9
  <2> QED
    BY <2>1, <2>2
<1>11. a = d + (n + 1)
  <2>1. PICK m \in Nat : m = n + 1
    BY <1>4
  <2>2. a = CellOf(top, m)
    BY <1>3, <1>4, <1>9, <2>1
  <2>3. CellOf(top, m) = d + m
    BY <1>9
  <2> QED
    BY <2>1, <2>2, <2>3
<1>12. \A i \in 0..(n + 1) :
         d + i \in Cells /\ page[d + i] = IF i = 0 THEN Prompt ELSE k[i]
  <2> SUFFICES ASSUME NEW i \in 0..(n + 1)
               PROVE  d + i \in Cells /\ page[d + i] = IF i = 0 THEN Prompt ELSE k[i]
    OBVIOUS
  <2>1. d + i \in Cells
    <3>1. d + i \in Nat /\ d + i <= a
      BY <1>4, <1>11
    <3>2. a \in Cells
      BY <1>8, <1>9
    <3> QED
      BY <3>1, <3>2, CellsBefore
  <2>2. CASE i = n + 1
    <3>1. d + i = a /\ i # 0
      BY <1>4, <1>11, <2>2
    <3> QED
      BY <1>4, <1>6, <1>8, <1>9, <2>1, <2>2, <3>1
  <2>3. CASE i # n + 1
    <3>1. d + i # a /\ i \in Nat /\ (i # 0 => i \in 1..n)
      BY <1>4, <1>11, <2>3
    <3>2. page[d + i] = s.page[CellOf(top, i)]
      BY <1>6, <1>8, <1>9, <2>1, <3>1
    <3> QED
      BY <1>3, <1>4, <2>1, <3>1, <3>2
  <2> QED
    BY <2>2, <2>3
<1>13. CASE ~(s.col + 1 = MAX_COLS /\ s.row = LastRow)
  <2>1. t.page = page /\ At(t) = a + 1
    <3>1. CASE s.col + 1 = MAX_COLS
      <4>1. t = [page |-> page, row |-> s.row + 1, col |-> 0]
        BY <1>7, <1>13, <3>1 DEF Below
      <4>2. At(t) = CellOf(s.row + 1, 0)
        BY <1>7, <4>1, ScreenIs
      <4>3. b + MAX_COLS = a + 1
        BY <1>10, <3>1, ConstantTypes
      <4> QED
        BY <1>9, <4>1, <4>2, <4>3
    <3>2. CASE s.col + 1 # MAX_COLS
      <4>1. t = [page |-> page, row |-> s.row, col |-> s.col + 1]
        BY <1>7, <3>2
      <4>2. At(t) = CellOf(s.row, s.col + 1)
        BY <1>7, <4>1, ScreenIs
      <4>3. CellOf(s.row, s.col + 1) = CellOf(s.row, s.col) + 1
        <5>1. s.row \in Nat /\ s.col \in Nat
          BY <1>8, ConstantTypes
        <5> QED
          BY <5>1, RowBelow
      <4> QED
        BY <1>9, <4>1, <4>2, <4>3, ScreenIs
    <3> QED
      BY <3>1, <3>2
  <2>2. At(t) = CellOf(top, (n + 1) + 1)
    <3>1. PICK m \in Nat : m = (n + 1) + 1
      BY <1>4
    <3>2. CellOf(top, m) = d + m
      BY <1>9
    <3>3. a + 1 = d + m
      BY <1>4, <1>11, <3>1
    <3> QED
      BY <2>1, <3>1, <3>2, <3>3
  <2>3. t.page[CellOf(top, 0)] = Prompt
    <3>1. 0 \in 0..(n + 1) /\ d + 0 = d
      BY <1>4
    <3> QED
      BY <1>9, <1>12, <2>1, <3>1
  <2>4. ASSUME NEW i \in 1..Len(k) PROVE t.page[CellOf(top, i)] = k[i]
    <3>1. i \in 0..(n + 1) /\ i # 0 /\ i \in Nat
      BY <1>4
    <3> QED
      BY <1>9, <1>12, <2>1, <3>1
  <2>5. \A r \in (top + 1)..(Len(q) - 1) : Len(q[r]) = MAX_COLS
    <3>1. ~(Len(p[Len(p)]) + 1 = MAX_COLS /\ Len(p) = MAX_ROWS)
      BY <1>1, <1>13, ConstantTypes
    <3>2. \A r \in (top + 1)..(Len(Strike(p, ch)) - 1) : Len(Strike(p, ch)[r]) = MAX_COLS
      <4>1. PICK first : first = IF Len(p[Len(p)]) + 1 = MAX_COLS /\ Len(p) = MAX_ROWS
                                 THEN top - 1 ELSE top
        OBVIOUS
      <4>2. first = top /\ first >= 0
        BY <1>5, <3>1, <4>1
      <4>3. first >= 0 => \A r \in (first + 1)..(Len(Strike(p, ch)) - 1) :
                             Len(Strike(p, ch)[r]) = MAX_COLS
        BY <1>1, <1>2, <1>3, <1>5, <4>1, StrikeRows
      <4> QED
        BY <4>2, <4>3
    <3> QED
      BY <1>6, <3>2
  <2>6. LineFrom(top, t, q, k)
    BY <1>4, <2>2, <2>3, <2>4, <2>5 DEF LineFrom
  <2> QED
    BY <1>4, <1>6, <2>6
<1>14. CASE s.col + 1 = MAX_COLS /\ s.row = LastRow
  <2>1. b = e
    BY <1>9, <1>14
  <2>2. top # 0
    <3>1. SUFFICES ASSUME top = 0 PROVE FALSE
      OBVIOUS
    <3>2. d = 0
      BY <1>9, <3>1, ConstantTypes DEF CellOf
    <3>3. n + 2 <= LineSize + 1 /\ LineSize \in Nat
      BY <1>4, LineAssumption
    <3>4. a + 1 = n + 2
      BY <1>4, <1>11, <3>2
    <3>5. a + 1 = e + MAX_COLS
      BY <1>10, <1>14, <2>1, ConstantTypes, SMTT(30)
    <3>6. e + MAX_COLS = MAX_ROWS * MAX_COLS
      <4>1. PICK m : m = MAX_ROWS * MAX_COLS
        OBVIOUS
      <4>2. LastRow * MAX_COLS = MAX_ROWS * MAX_COLS - MAX_COLS
        BY DEF LastRow
      <4>3. m \in Nat
        BY <4>1
      <4> QED
        BY <1>9, <4>1, <4>2, <4>3 DEF CellOf
    <3> QED
      BY <1>4, <3>3, <3>4, <3>5, <3>6, LineAssumption
  <2>3. PICK first \in Nat : first = top - 1 /\ first \in 0..LastRow /\ first + 1 = top
    <3>1. top - 1 \in Nat /\ top - 1 \in 0..LastRow /\ (top - 1) + 1 = top
      BY <1>5, <2>2
    <3> QED
      BY <3>1
  <2>4. PICK c \in Nat : /\ c = CellOf(first, 0) /\ d = c + MAX_COLS
                         /\ \A i \in Nat : CellOf(first, i) = c + i
    <3>1. CellOf(first, 0) \in Nat /\ CellOf(first + 1, 0) = CellOf(first, 0) + MAX_COLS
      BY <2>3, RowBelow
    <3>2. \A i \in Nat : CellOf(first, i) = CellOf(first, 0) + i
      BY <2>3, LineCells
    <3> QED
      BY <1>9, <2>3, <3>1, <3>2
  <2>5. t = [page |-> Scrolled(page), row |-> LastRow, col |-> 0]
    BY <1>7, <1>14 DEF Below
  <2>6. At(t) = e
    BY <1>7, <1>9, <2>5, ScreenIs, ZenonT(30)
  <2>7. a + 1 = e + MAX_COLS
    BY <1>10, <1>14, <2>1, ConstantTypes, SMTT(30)
  <2>8. d = c + MAX_COLS /\ e = c + ((n + 1) + 1)
    <3>1. d = c + MAX_COLS
      BY <2>4
    <3> QED
      BY <1>4, <1>11, <2>7, <3>1, ConstantTypes
  <2>9. At(t) = CellOf(first, (n + 1) + 1)
    <3>1. PICK m \in Nat : m = (n + 1) + 1
      BY <1>4
    <3>2. CellOf(first, m) = c + m
      BY <2>4
    <3> QED
      BY <2>6, <2>8, <3>1, <3>2
  <2>10. ASSUME NEW i \in 0..(n + 1) PROVE t.page[CellOf(first, i)] = page[d + i]
    <3>1. i \in Nat /\ CellOf(first, i) = c + i
      BY <1>4, <2>4
    <3>2. c + i < e /\ c + i + MAX_COLS = d + i /\ c + i \in Nat
      BY <1>4, <2>8, ConstantTypes
    <3>3. c + i \in Cells
      <4>1. d + i \in Cells /\ c + i <= d + i
        BY <1>12, <3>2, ConstantTypes
      <4> QED
        BY <3>2, <4>1, CellsBefore
    <3>4. Scrolled(page)[c + i] = IF c + i < LastRow * MAX_COLS THEN page[c + i + MAX_COLS] ELSE Blank
      BY <3>3 DEF Scrolled
    <3>5. LastRow * MAX_COLS = e
      <4>1. PICK m : m = LastRow * MAX_COLS
        OBVIOUS
      <4>2. m \in Nat
        BY <1>5, <4>1
      <4> QED
        BY <1>9, <4>1, <4>2 DEF CellOf
    <3> QED
      BY <2>5, <3>1, <3>2, <3>4, <3>5
  <2>11. t.page[CellOf(first, 0)] = Prompt
    <3>1. 0 \in 0..(n + 1)
      BY <1>4
    <3> QED
      BY <1>12, <2>10, <3>1
  <2>12. ASSUME NEW i \in 1..Len(k) PROVE t.page[CellOf(first, i)] = k[i]
    <3>1. i \in 0..(n + 1) /\ i # 0
      BY <1>4
    <3> QED
      BY <1>12, <2>10, <3>1
  <2>13. \A r \in (first + 1)..(Len(q) - 1) : Len(q[r]) = MAX_COLS
    <3>1. Len(p[Len(p)]) + 1 = MAX_COLS /\ Len(p) = MAX_ROWS
      <4>1. Len(p) \in 1..MAX_ROWS
        BY <1>1, RollIs
      <4> QED
        BY <1>1, <1>14, <4>1, ConstantTypes
    <3>2. top - 1 >= 0 => \A r \in (top - 1 + 1)..(Len(Strike(p, ch)) - 1) : Len(Strike(p, ch)[r]) = MAX_COLS
      BY <1>1, <1>2, <1>3, <1>5, <3>1, StrikeRows
    <3>3. top - 1 + 1 = first + 1
      BY <1>5, <2>3
    <3> QED
      BY <1>6, <2>3, <3>2, <3>3
  <2>14. LineFrom(first, t, q, k)
    BY <1>4, <2>9, <2>11, <2>12, <2>13 DEF LineFrom
  <2> QED
    BY <1>4, <1>6, <2>3, <2>14
<1> QED
  BY <1>13, <1>14


-----------------------------------------------------------------------------
\* The invariant.

LEMMA ClearedShown == Cleared \in Screens /\ Cleared.col = 0 /\ Shows(Cleared, << << >> >>)
<1>1. PICK page, p, e : page = [i \in Cells |-> Blank] /\ p = << << >> >> /\ e = << >>
  OBVIOUS
<1>2. Cleared = [page |-> page, row |-> 0, col |-> 0]
  BY <1>1 DEF Cleared
<1>3. page \in [Cells -> Chars] /\ 0 \in 0..LastRow /\ 0 \in 0..(MAX_COLS - 1)
  BY <1>1, ConstantTypes DEF Chars
<1>4. Cleared \in Screens
  BY <1>2, <1>3, ScreenMade
<1>5. e \in Seq(Chars) /\ Len(e) = 0 /\ p = <<e>> /\ Len(p) = 1 /\ p[1] = e
  BY <1>1
<1>6. p \in Seq(Seq(Chars))
  BY <1>5
<1>7. p \in Papers
  BY <1>5, <1>6, ConstantTypes DEF Papers, Rolls
<1>8. PageShows(page, p)
  <2> SUFFICES ASSUME NEW row \in 0..LastRow, NEW col \in 0..(MAX_COLS - 1)
               PROVE  page[CellOf(row, col)] = ShownAt(p, row, col)
    BY DEF PageShows
  <2>1. page[CellOf(row, col)] = Blank
    BY <1>1, CellInPage
  <2>2. row < 1 => row = 0
    BY ConstantTypes
  <2>3. ~(row < Len(p) /\ col < Len(p[row + 1]))
    BY <1>5, <2>2
  <2> QED
    BY <2>1, <2>3 DEF ShownAt
<1> QED
  BY <1>1, <1>2, <1>4, <1>5, <1>7, <1>8 DEF Shows

LEMMA InitInv == Init => IInv
<1> SUFFICES ASSUME Init PROVE IInv
  OBVIOUS
<1>1. << >> \in Seq(Typed) /\ Len(<< >>) = 0
  OBVIOUS
<1>2. /\ screen = Cleared /\ phase = "boot" /\ line = << >> /\ paper = << << >> >>
      /\ moved = FALSE
  BY DEF Init
<1>3. screen \in Screens /\ screen.col = 0 /\ Shows(screen, paper)
  BY <1>2, ClearedShown
<1>4. 0 <= LineSize
  BY LineAssumption
<1> QED
  BY <1>1, <1>2, <1>3, <1>4 DEF IInv

\* Which parts of the invariant an operation has to bring about.
LEMMA InvFrom ==
  ASSUME screen' \in Screens, phase' \in {"boot", "editing", "command"}, moved' \in BOOLEAN,
         line' \in Seq(Typed), Len(line') <= LineSize,
         phase' # "editing" => screen'.col = 0,
         ~moved' => Shows(screen', paper'),
         ~moved' /\ phase' = "editing" =>
           \E top \in 0..LastRow : LineFrom(top, screen', paper', line')
  PROVE  IInv'
BY DEF IInv

LEMMA PrintLineInv ==
  ASSUME IInv, NEW text \in Texts, NEW number \in Numbers, PrintLine(text, number)
  PROVE  IInv'
<1>1. /\ screen \in Screens /\ phase \in {"boot", "editing", "command"} /\ moved \in BOOLEAN
      /\ line \in Seq(Typed) /\ Len(line) <= LineSize /\ (~moved => Shows(screen, paper))
  BY DEF IInv
<1>2. PICK printed, new :
        /\ printed = PutString(screen, text)
        /\ new = NewLine(IF number = << >> THEN printed ELSE PutNumber(printed, number))
  OBVIOUS
<1>3. /\ phase # "editing" /\ NumberFits(printed, number) /\ screen' = new
      /\ paper' = IF moved THEN paper ELSE Feed(StrikeAll(StrikeAll(paper, text), number))
      /\ phase' = phase /\ line' = line /\ moved' = moved
  BY <1>2 DEF PrintLine, OnPaper
<1>4. /\ new \in Screens /\ new.col = 0
      /\ \A p : Shows(screen, p) => Shows(new, Feed(StrikeAll(StrikeAll(p, text), number)))
  BY <1>1, <1>2, <1>3, LinePrinted
<1>5. ~moved' => Shows(screen', paper')
  BY <1>1, <1>3, <1>4
<1> QED
  BY <1>1, <1>3, <1>4, <1>5, InvFrom

LEMMA ClearInv ==
  ASSUME IInv, Clear
  PROVE  IInv'
<1>1. /\ phase = "boot" /\ moved \in BOOLEAN
      /\ line \in Seq(Typed) /\ Len(line) <= LineSize
  BY DEF IInv, Clear
<1>2. /\ screen' = Cleared /\ paper' = << << >> >>
      /\ phase' = phase /\ line' = line /\ moved' = moved
  BY DEF Clear
<1>3. screen' \in Screens /\ screen'.col = 0 /\ Shows(screen', paper')
  BY <1>2, ClearedShown
<1> QED
  BY <1>1, <1>2, <1>3, InvFrom

LEMMA PrintPromptInv ==
  ASSUME IInv, PrintPrompt
  PROVE  IInv'
<1>1. /\ screen \in Screens /\ moved \in BOOLEAN
      /\ ~moved => Shows(screen, paper)
      /\ phase # "editing" => screen.col = 0
  BY DEF IInv
<1>2. /\ phase # "editing" /\ phase' = "editing" /\ line' = << >>
      /\ screen' = PutChar(screen, Prompt)
      /\ paper' = IF moved THEN paper ELSE Strike(paper, Prompt)
      /\ moved' = moved
  BY DEF PrintPrompt, OnPaper
<1>3. Prompt \in Chars \union {LineFeed} /\ screen.row \in 0..LastRow
  BY <1>1, ScreenIs DEF Chars
<1>4. screen' \in Screens
  BY <1>1, <1>2, <1>3, PutCharKept
<1>5. ~moved' => Shows(screen', paper')
  BY <1>1, <1>2, <1>3, StrikeShown
<1>6. ~moved' => \E top \in 0..LastRow : LineFrom(top, screen', paper', line')
  <2> SUFFICES ASSUME ~moved' PROVE LineFrom(screen.row, screen', paper', line')
    BY <1>3
  <2>1. LineFrom(screen.row, PutChar(screen, Prompt), Strike(paper, Prompt), << >>)
    BY <1>1, <1>2, PromptLine
  <2> QED
    BY <1>2, <2>1
<1>7. << >> \in Seq(Typed) /\ Len(<< >>) = 0 /\ 0 <= LineSize
  BY LineAssumption
<1> QED
  BY <1>1, <1>2, <1>4, <1>5, <1>6, <1>7, InvFrom

LEMMA TypeKeyInv ==
  ASSUME IInv, NEW ch \in Typed, TypeKey(ch)
  PROVE  IInv'
<1>1. /\ screen \in Screens /\ moved \in BOOLEAN /\ line \in Seq(Typed)
      /\ ~moved => Shows(screen, paper)
      /\ ~moved /\ phase = "editing" =>
           \E top \in 0..LastRow : LineFrom(top, screen, paper, line)
  BY DEF IInv
<1>2. /\ phase = "editing" /\ Len(line) < LineSize
      /\ line' = Append(line, ch) /\ screen' = PutChar(screen, ch)
      /\ paper' = IF moved THEN paper ELSE Strike(paper, ch)
      /\ phase' = phase /\ moved' = moved
  BY DEF TypeKey, OnPaper
<1>3. ch \in Chars \union {LineFeed}
  BY DEF Chars
<1>4. screen' \in Screens
  BY <1>1, <1>2, <1>3, PutCharKept
<1>5. ~moved' => Shows(screen', paper')
  BY <1>1, <1>2, <1>3, StrikeShown
<1>6. ~moved' => \E top \in 0..LastRow : LineFrom(top, screen', paper', line')
  <2> SUFFICES ASSUME ~moved'
               PROVE  \E top \in 0..LastRow : LineFrom(top, screen', paper', line')
    OBVIOUS
  <2>1. PICK top \in 0..LastRow : LineFrom(top, screen, paper, line)
    BY <1>1, <1>2
  <2>2. \E first \in 0..LastRow :
           LineFrom(first, PutChar(screen, ch), Strike(paper, ch), Append(line, ch))
    BY <1>1, <1>2, <2>1, TypedLine
  <2> QED
    BY <1>2, <2>2
<1>7. Append(line, ch) \in Seq(Typed) /\ Len(Append(line, ch)) <= LineSize
  <2>1. Len(line) \in Nat /\ Append(line, ch) \in Seq(Typed) /\ Len(Append(line, ch)) = Len(line) + 1
    BY <1>1
  <2> QED
    BY <1>2, <2>1, LineAssumption
<1> QED
  BY <1>1, <1>2, <1>4, <1>5, <1>6, <1>7, InvFrom

LEMMA BackspaceInv ==
  ASSUME IInv, Backspace
  PROVE  IInv'
<1>1. /\ screen \in Screens /\ moved \in BOOLEAN /\ line \in Seq(Typed) /\ Len(line) <= LineSize
      /\ ~moved => Shows(screen, paper)
      /\ ~moved /\ phase = "editing" =>
           \E top \in 0..LastRow : LineFrom(top, screen, paper, line)
  BY DEF IInv
<1>2. /\ phase = "editing" /\ line # << >>
      /\ line' = Front(line) /\ screen' = PrintBackChar(screen, Blank)
      /\ paper' = IF moved THEN paper ELSE Unstrike(paper)
      /\ phase' = phase /\ moved' = moved
  BY DEF Backspace, OnPaper
<1>3. screen' \in Screens
  BY <1>1, <1>2, BackCharIs DEF Chars
<1>4. ASSUME ~moved'
      PROVE  /\ Shows(screen', paper')
             /\ \E top \in 0..LastRow : LineFrom(top, screen', paper', line')
  <2>1. Shows(screen, paper)
    BY <1>1, <1>2, <1>4
  <2>2. PICK top \in 0..LastRow : LineFrom(top, screen, paper, line)
    BY <1>1, <1>2, <1>4
  <2>3. /\ CanErase(paper)
        /\ LineFrom(top, PrintBackChar(screen, Blank), Unstrike(paper), Front(line))
    BY <1>1, <1>2, <2>1, <2>2, ErasedLine
  <2>4. Shows(PrintBackChar(screen, Blank), Unstrike(paper))
    BY <1>1, <2>1, <2>3, EraseShown
  <2> QED
    BY <1>2, <1>4, <2>3, <2>4
<1>5. Front(line) \in Seq(Typed) /\ Len(Front(line)) <= LineSize
  <2>1. /\ Front(line) \in Seq(Typed) /\ Len(line) \in Nat \ {0}
        /\ Len(Front(line)) = Len(line) - 1
    BY <1>1, <1>2, FrontIs
  <2> QED
    BY <1>1, <2>1, LineAssumption
<1> QED
  BY <1>1, <1>2, <1>3, <1>4, <1>5, InvFrom

LEMMA EnterInv ==
  ASSUME IInv, Enter
  PROVE  IInv'
<1>1. /\ screen \in Screens /\ moved \in BOOLEAN /\ line \in Seq(Typed) /\ Len(line) <= LineSize
      /\ ~moved => Shows(screen, paper)
  BY DEF IInv
<1>2. /\ phase' = "command" /\ screen' = NewLine(screen)
      /\ paper' = IF moved THEN paper ELSE Feed(paper)
      /\ line' = line /\ moved' = moved
  BY DEF Enter, OnPaper
<1>3. screen' \in Screens /\ screen'.col = 0
  BY <1>1, <1>2, NewLineKept
<1>4. ~moved' => Shows(screen', paper')
  <2>1. PutChar(screen, LineFeed) = NewLine(screen) /\ Strike(paper, LineFeed) = Feed(paper)
    BY DEF PutChar, Strike
  <2> QED
    BY <1>1, <1>2, <2>1, StrikeShown
<1> QED
  BY <1>1, <1>2, <1>3, <1>4, InvFrom

LEMMA MoveCursorInv ==
  ASSUME IInv, NEW row, NEW col, MoveCursor(row, col)
  PROVE  IInv'
<1>1. screen \in Screens /\ line \in Seq(Typed) /\ Len(line) <= LineSize
  BY DEF IInv
<1>2. /\ phase = "editing" /\ row \in 0..LastRow /\ col \in 0..(MAX_COLS - 1)
      /\ screen' = [screen EXCEPT !.row = row, !.col = col]
      /\ moved' = TRUE /\ phase' = phase /\ line' = line
  BY DEF MoveCursor
<1>3. screen' \in Screens
  <2>1. PICK r : r = [screen EXCEPT !.row = row]
    OBVIOUS
  <2>2. r \in Screens
    BY <1>1, <1>2, <2>1 DEF Screens
  <2>3. [r EXCEPT !.col = col] \in Screens
    BY <1>2, <2>2 DEF Screens
  <2> QED
    BY <1>2, <2>1, <2>3
<1> QED
  BY <1>1, <1>2, <1>3, InvFrom

LEMMA NextInv == IInv /\ [Next]_vars => IInv'
<1> SUFFICES ASSUME IInv, [Next]_vars PROVE IInv'
  OBVIOUS
<1>1. CASE \E text \in Texts, number \in Numbers : PrintLine(text, number)
  BY <1>1, PrintLineInv
<1>2. CASE Clear
  BY <1>2, ClearInv
<1>3. CASE PrintPrompt
  BY <1>3, PrintPromptInv
<1>4. CASE \E ch \in Typed : TypeKey(ch)
  BY <1>4, TypeKeyInv
<1>5. CASE Backspace
  BY <1>5, BackspaceInv
<1>6. CASE Enter
  BY <1>6, EnterInv
<1>7. CASE RowUp \/ RowDown \/ ColBack \/ ColForward
  BY <1>7, MoveCursorInv DEF RowUp, RowDown, ColBack, ColForward
<1>8. CASE UNCHANGED vars
  BY <1>8 DEF vars, IInv
<1> QED
  BY <1>1, <1>2, <1>3, <1>4, <1>5, <1>6, <1>7, <1>8 DEF Next

\* The console keeps to its page, shows the end of the paper, and holds the
\* shell's line in the row where it was begun: print_line, print_back_char and
\* the shell's loop keep the invariant.
THEOREM Invariant == Spec => []IInv
<1>1. Init => IInv
  BY InitInv
<1>2. IInv /\ [Next]_vars => IInv'
  BY NextInv
<1> QED
  BY <1>1, <1>2, PTL DEF Spec

\* Nothing is ever written past the page, and the shell's line fits its buffer.
THEOREM TypeCorrect == Spec => []TypeOK
<1>1. IInv => TypeOK
  <2> SUFFICES ASSUME IInv PROVE TypeOK
    OBVIOUS
  <2>1. screen \in Screens
    BY DEF IInv
  <2> QED
    BY <2>1, ScreenIs DEF IInv, TypeOK
<1> QED
  BY <1>1, Invariant, PTL

\* Wrapping, scrolling, erasing and printing numbers from their last digit look
\* like a teletype's paper, on a page of any size and whatever is printed.
THEOREM ScreenIsPaper == Spec => []ScreenShowsPaper
<1>1. IInv => ScreenShowsPaper
  <2> SUFFICES ASSUME IInv, ~moved PROVE ScreenShowsPaper
    BY DEF ScreenShowsPaper
  <2>1. Shows(screen, paper)
    BY DEF IInv
  <2> QED
    BY <2>1 DEF Shows, PageShows, ShownAt, CellOf, ScreenShowsPaper
<1> QED
  BY <1>1, Invariant, PTL

\* What the user sees of the line is what the shell's buffer holds: its prompt
\* and its characters stand in front of the position, however the line has
\* wrapped, scrolled and been erased over the end of a row.
THEOREM LineIsOnScreen == Spec => []LineOnScreen
<1>1. IInv => LineOnScreen
  <2> SUFFICES ASSUME IInv, ~moved, phase = "editing" PROVE LineOnScreen
    BY DEF LineOnScreen
  <2>1. line \in Seq(Typed)
    BY DEF IInv
  <2>2. PICK top \in 0..LastRow : LineFrom(top, screen, paper, line)
    BY DEF IInv
  <2>3. PICK n, shown, at : n = Len(line) /\ shown = <<Prompt>> \o line /\ at = At(screen)
    OBVIOUS
  <2>4. n \in Nat
    BY <2>1, <2>3
  <2>5. top \in Nat
    BY ConstantTypes
  <2>6. PICK d \in Nat : d = CellOf(top, 0) /\ \A i \in Nat : CellOf(top, i) = d + i
    BY <2>5, LineCells
  <2>7. /\ Len(shown) = n + 1 /\ shown[1] = Prompt
        /\ \A i \in 1..n : shown[i + 1] = line[i]
    <3>1. PICK head : head = <<Prompt>>
      OBVIOUS
    <3>2. head \in Seq({Prompt}) /\ Len(head) = 1 /\ head[1] = Prompt
      BY <3>1
    <3>3. shown = head \o line /\ head \in Seq({Prompt} \union Typed) /\ line \in Seq({Prompt} \union Typed)
      BY <2>1, <2>3, <3>1, <3>2
    <3>4. /\ Len(head \o line) = Len(head) + Len(line)
          /\ \A i \in 1..(Len(head) + Len(line)) :
               (head \o line)[i] = IF i <= Len(head) THEN head[i] ELSE line[i - Len(head)]
      BY <3>3, ConcatProperties
    <3>5. \A i \in 1..(n + 1) : shown[i] = IF i <= 1 THEN head[i] ELSE line[i - 1]
      BY <2>3, <2>4, <3>2, <3>3, <3>4
    <3>6. ASSUME NEW i \in 1..n PROVE shown[i + 1] = line[i]
      <4>1. i + 1 \in 1..(n + 1) /\ ~(i + 1 <= 1) /\ (i + 1) - 1 = i
        BY <2>4
      <4> QED
        BY <3>5, <4>1
    <3>7. 1 \in 1..(n + 1)
      BY <2>4
    <3> QED
      BY <2>3, <2>4, <3>2, <3>3, <3>4, <3>5, <3>6, <3>7
  <2>8. at = d + (n + 1)
    <3>1. PICK m \in Nat : m = n + 1
      BY <2>4
    <3>2. at = CellOf(top, m) /\ CellOf(top, m) = d + m
      BY <2>2, <2>3, <2>6, <3>1 DEF LineFrom
    <3> QED
      BY <3>1, <3>2
  <2>9. ASSUME NEW i \in 1..(n + 1) PROVE screen.page[(d + i) - 1] = shown[i]
    <3>1. PICK j \in Nat : j = i - 1 /\ i = j + 1 /\ (d + i) - 1 = d + j
      <4>1. i - 1 \in Nat /\ i = (i - 1) + 1 /\ (d + i) - 1 = d + (i - 1)
        BY <2>4
      <4> QED
        BY <4>1
    <3>2. CellOf(top, j) = d + j
      BY <2>6
    <3>3. CASE j = 0
      BY <2>2, <2>7, <3>1, <3>2, <3>3 DEF LineFrom
    <3>4. CASE j # 0
      <4>1. j \in 1..n
        BY <2>4, <3>1, <3>4
      <4> QED
        BY <2>2, <2>3, <2>7, <3>1, <3>2, <4>1 DEF LineFrom
    <3> QED
      BY <3>3, <3>4
  <2>10. PICK first : first = at - Len(shown)
    OBVIOUS
  <2>11. first = d
    BY <2>4, <2>7, <2>8, <2>10
  <2>12. first >= 0 /\ \A i \in 1..Len(shown) : screen.page[first + i - 1] = shown[i]
    <3>1. \A i \in 1..(n + 1) : d + i - 1 = (d + i) - 1
      BY <2>4
    <3> QED
      BY <2>7, <2>9, <2>11, <3>1
  <2> QED
    BY <2>3, <2>10, <2>12 DEF LineOnScreen
<1> QED
  BY <1>1, Invariant, PTL
=============================================================================
