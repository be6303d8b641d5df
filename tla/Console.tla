------------------------------ MODULE Console ------------------------------
(***************************************************************************)
(* The console (klib/console.hh, .cc) writes into the VGA text page, wraps  *)
(* and scrolls it, and prints a number from its last digit to its first.    *)
(* Its users are here what the kernel is: lines printed at boot, the shell  *)
(* echoing and erasing what is typed (userspace/shell/shell.cc), and the    *)
(* output of commands.                                                      *)
(*                                                                          *)
(* Colours are left out, and so is the hardware cursor, which each printing *)
(* operation puts at the end of what it printed.                            *)
(***************************************************************************)
EXTENDS Integers, SequencesExt

CONSTANTS
  MAX_ROWS, MAX_COLS,
  Typed,      \* characters the keyboard types
  Blank,      \* the character ' '
  Prompt,     \* the character '>'
  LineFeed,   \* the character '\n'
  Digits,     \* characters of numbers
  Texts,      \* strings that the kernel and its commands print
  Numbers,    \* numbers they print, each the sequence of its digits; none is << >>
  LineSize    \* the length of the shell's input buffer

Chars == Typed \union {Blank, Prompt} \union Digits

ASSUME SizeAssumption == MAX_ROWS \in Nat \ {0, 1} /\ MAX_COLS \in Nat \ {0, 1}
ASSUME LineAssumption == LineSize \in Nat /\ LineSize + 2 <= MAX_ROWS * MAX_COLS
ASSUME LineFeedAssumption == LineFeed \notin Chars
ASSUME TextsAssumption == Texts \subseteq Seq(Chars \union {LineFeed})
ASSUME NumbersAssumption == \A n \in Numbers : n \in Seq(Digits) /\ Len(n) < MAX_COLS

VARIABLES
  screen,   \* console_page, m_row, m_col
  phase,    \* "boot", "editing" a line, or running a "command"
  line,     \* the shell's input_buffer up to buf_ptr
  paper,    \* history: the last MAX_ROWS rows of what has been printed
  moved     \* history: whether cursor keys have moved the console's position

vars == <<screen, phase, line, paper, moved>>

-----------------------------------------------------------------------------
\* The operations of Console, as functions of its state.

LastRow == MAX_ROWS - 1
Cells   == 0..(MAX_ROWS * MAX_COLS - 1)
At(s)   == s.col + s.row * MAX_COLS

\* A write past the page is memory that is not modelled; TypeOK excludes it.
Write(s, ch) == [s EXCEPT !.page[At(s)] = ch]

\* Mutant: the row that comes in keeps its old characters.
ScrollUncleared(s) ==
  [s EXCEPT !.page = [i \in Cells |-> IF i < LastRow * MAX_COLS THEN @[i + MAX_COLS] ELSE @[i]]]

Scroll(s) ==
  [s EXCEPT !.page = [i \in Cells |-> IF i < LastRow * MAX_COLS THEN @[i + MAX_COLS] ELSE Blank]]

\* Mutant: the row is not taken back when the page scrolls, as in move.
NewLineBelow(s) ==
  LET down == [s EXCEPT !.col = 0, !.row = @ + 1]
  IN  IF down.row = MAX_ROWS THEN Scroll(down) ELSE down

NewLine(s) ==
  IF s.row = LastRow THEN Scroll([s EXCEPT !.col = 0])
                     ELSE [s EXCEPT !.col = 0, !.row = @ + 1]

PutChar(s, ch) ==
  IF ch = LineFeed
    THEN NewLine(s)
    ELSE LET next == [Write(s, ch) EXCEPT !.col = @ + 1]
         IN  IF next.col = MAX_COLS THEN NewLine(next) ELSE next

PutString(s, string) ==
  LET put[n \in 0..Len(string)] == IF n = 0 THEN s ELSE PutChar(put[n - 1], string[n])
  IN  put[Len(string)]

\* Unlike new_line, move leaves m_row past the page when it scrolls.
Move(s, amt) ==
  LET new_col == s.col + amt
      down    == [s EXCEPT !.col = new_col - MAX_COLS, !.row = @ + 1]
  IN  CASE new_col < 0         -> [s EXCEPT !.col = 0, !.row = IF @ > 0 THEN @ - 1 ELSE @]
        [] new_col >= MAX_COLS -> IF down.row = MAX_ROWS THEN Scroll(down) ELSE down
        [] OTHER               -> [s EXCEPT !.col = new_col]

StepBack(s) ==
  IF s.col > 0 THEN [s EXCEPT !.col = @ - 1]
  ELSE IF s.row > 0 THEN [s EXCEPT !.col = MAX_COLS - 1, !.row = @ - 1]
  ELSE s

PutCharBack(s, ch) == StepBack(Write(s, ch))

\* Mutant: erasing stops at the start of the row.
PrintBackCharInRow(s, ch) == Write([s EXCEPT !.col = IF @ > 0 THEN @ - 1 ELSE @], ch)

PrintBackChar(s, ch) == Write(StepBack(s), ch)

\* The digits are written from the last to the first, moving backwards.
PutNumber(s, number) ==
  LET back[n \in 0..Len(number)] ==
        IF n = 0 THEN Move(s, Len(number) - 1)
                 ELSE PutCharBack(back[n - 1], number[Len(number) + 1 - n])
  IN  Move(back[Len(number)], Len(number) + 1)

Cleared == [page |-> [i \in Cells |-> Blank], row |-> 0, col |-> 0]

-----------------------------------------------------------------------------
\* A teletype, which prints on paper without an end: what the console should
\* look like is the last rows of it.

Feed(p) == LET q == Append(p, << >>) IN SubSeq(q, IF Len(q) > MAX_ROWS THEN 2 ELSE 1, Len(q))

Strike(p, ch) ==
  IF ch = LineFeed
    THEN Feed(p)
    ELSE LET q == [p EXCEPT ![Len(p)] = Append(@, ch)]
         IN  IF Len(q[Len(p)]) = MAX_COLS THEN Feed(q) ELSE q

StrikeAll(p, string) ==
  LET struck[n \in 0..Len(string)] == IF n = 0 THEN p ELSE Strike(struck[n - 1], string[n])
  IN  struck[Len(string)]

Unstrike(p) ==
  LET n == Len(p) IN
  IF p[n] # << >> THEN [p EXCEPT ![n] = Front(@)]
  ELSE IF n > 1 THEN [Front(p) EXCEPT ![n - 1] = Front(@)]
  ELSE p

\* After a cursor key the paper no longer says what the screen shows.
OnPaper(p) == paper' = IF moved THEN paper ELSE p

-----------------------------------------------------------------------------
Init ==
  /\ screen = Cleared
  /\ phase = "boot"
  /\ line = << >>
  /\ paper = << << >> >>
  /\ moved = FALSE

\* A number is printed as its digits in a row unless it reaches the end of the
\* page (move does not take back m_row) or starts it (there is no way back
\* from its first digit). No number in a line the kernel prints does either: it
\* stands behind some text, and ends well before the last column.
NumberFits(s, number) ==
  \/ number = << >>
  \/ /\ s.row = LastRow => s.col + Len(number) < MAX_COLS
     /\ At(s) # 0

\* print_line of a string and a number, by the kernel or by a command.
PrintLine(text, number) ==
  /\ phase # "editing"
  /\ LET printed == PutString(screen, text)
     IN  /\ NumberFits(printed, number)
         /\ screen' = NewLine(IF number = << >> THEN printed ELSE PutNumber(printed, number))
  /\ OnPaper(Feed(StrikeAll(StrikeAll(paper, text), number)))
  /\ UNCHANGED <<phase, line, moved>>

Clear ==
  /\ phase = "boot"
  /\ screen' = Cleared
  /\ paper' = << << >> >>
  /\ UNCHANGED <<phase, line, moved>>

\* The shell starts, or has run a command: it prompts for a line.
PrintPrompt ==
  /\ phase # "editing"
  /\ phase' = "editing"
  /\ line' = << >>
  /\ screen' = PutChar(screen, Prompt)
  /\ OnPaper(Strike(paper, Prompt))
  /\ UNCHANGED moved

TypeKey(ch) ==
  /\ phase = "editing" /\ Len(line) < LineSize
  /\ line' = Append(line, ch)
  /\ screen' = PutChar(screen, ch)
  /\ OnPaper(Strike(paper, ch))
  /\ UNCHANGED <<phase, moved>>

Backspace ==
  /\ phase = "editing" /\ line # << >>
  /\ line' = Front(line)
  /\ screen' = PrintBackChar(screen, Blank)
  /\ OnPaper(Unstrike(paper))
  /\ UNCHANGED <<phase, moved>>

Enter ==
  /\ phase = "editing"
  /\ phase' = "command"
  /\ screen' = NewLine(screen)
  /\ OnPaper(Feed(paper))
  /\ UNCHANGED <<line, moved>>

\* The cursor keys: row_up, row_down, col_back and col_forward.
MoveCursor(row, col) ==
  /\ phase = "editing"
  /\ row \in 0..LastRow /\ col \in 0..(MAX_COLS - 1)
  /\ screen' = [screen EXCEPT !.row = row, !.col = col]
  /\ moved' = TRUE
  /\ paper' = << << >> >>
  /\ UNCHANGED <<phase, line>>

RowUp      == MoveCursor(screen.row - 1, screen.col)
RowDown    == MoveCursor(screen.row + 1, screen.col)
ColBack    == MoveCursor(screen.row, screen.col - 1)
ColForward == MoveCursor(screen.row, screen.col + 1)

Next ==
  \/ \E text \in Texts, number \in Numbers : PrintLine(text, number)
  \/ Clear
  \/ PrintPrompt
  \/ \E ch \in Typed : TypeKey(ch)
  \/ Backspace \/ Enter
  \/ RowUp \/ RowDown \/ ColBack \/ ColForward

Spec == Init /\ [][Next]_vars

-----------------------------------------------------------------------------
\* Types of the state: the position never leaves the page, so that nothing is
\* written past it, whatever is typed, erased, printed or moved over.
TypeOK ==
  /\ screen.page \in [Cells -> Chars]
  /\ screen.row \in 0..LastRow
  /\ screen.col \in 0..(MAX_COLS - 1)
  /\ phase \in {"boot", "editing", "command"}
  /\ line \in Seq(Typed) /\ Len(line) <= LineSize
  /\ moved \in BOOLEAN

\* Wrapping, scrolling, erasing over the end of a row and printing numbers
\* backwards come out as if the console were a teletype: its page shows the last
\* rows of what has been printed, in order and with nothing left over, until a
\* cursor key moves the position.
ScreenShowsPaper ==
  ~moved =>
    /\ screen.row = Len(paper) - 1
    /\ screen.col = Len(paper[Len(paper)])
    /\ \A row \in 0..LastRow, col \in 0..(MAX_COLS - 1) :
         screen.page[col + row * MAX_COLS] =
           IF row < Len(paper) /\ col < Len(paper[row + 1]) THEN paper[row + 1][col + 1] ELSE Blank

\* The shell keeps its line and the console what it shows of it, each by its own
\* rules; the two agree: in front of the position stand the prompt and the
\* line, across row ends and scrolls, so that what Enter takes is what the user
\* sees, and erasing never takes the prompt.
LineOnScreen ==
  (~moved /\ phase = "editing") =>
    LET shown == <<Prompt>> \o line
        first == At(screen) - Len(shown)
    IN  first >= 0 /\ \A i \in 1..Len(shown) : screen.page[first + i - 1] = shown[i]
=============================================================================
