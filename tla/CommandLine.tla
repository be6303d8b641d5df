---------------------------- MODULE CommandLine ----------------------------
(***************************************************************************)
(* parse_input of the shell (src/src/userspace/shell/shell.cc): one call,  *)
(* on any line. The shell never clears its buffer: behind the line are the *)
(* characters of earlier, longer lines, or those the stack held at first.  *)
(* What the commands do with the file is modelled in Wnfs; here it matters *)
(* only what they are given.                                               *)
(***************************************************************************)
EXTENDS Strings

CONSTANTS
  Chars,      \* the characters the keyboard types, and digits
  LineSize,   \* the length of the input buffer
  SeekName, WriteName, MkfileName   \* "seek", "write", "mkfile", as literals

IsLiteral(w) ==
  /\ w.size \in Nat \ {0}
  /\ w.chars \in [0..(w.size - 1) -> Chars \ {Delimiter}]

ASSUME CharsAssumption  == Digits \union {Delimiter} \subseteq Chars
ASSUME LengthAssumption == LineSize \in Nat /\ LineSize + 1 < WordSize
ASSUME NamesAssumption  == \A w \in {SeekName, WriteName, MkfileName} : IsLiteral(w)

VARIABLES
  input_buffer, end,  \* the arguments: the buffer and the length of the line
  space_split,
  step,               \* "split", "command", "run" or "returned"
  command,
  given               \* what the command that ran was given, and how

lineVars == <<input_buffer, end, space_split, step, command, given>>

Nothing == [how |-> "nothing"]

LineInit ==
  /\ input_buffer \in [0..(LineSize - 1) -> Chars]
  /\ end \in 0..LineSize
  /\ space_split = [pos |-> 0, end |-> 0]
  /\ step = "split"
  /\ command = None
  /\ given = Nothing

SplitLine ==
  /\ step = "split"
  /\ space_split' = MakeSplit(input_buffer, end)
  /\ step' = IF Done(space_split') THEN "returned" ELSE "command"
  /\ UNCHANGED <<input_buffer, end, command, given>>

TakeCommand ==
  /\ step = "command"
  /\ command' = NextWord(input_buffer, space_split)
  /\ space_split' = AfterNext(input_buffer, space_split)
  /\ step' = "run"
  /\ UNCHANGED <<input_buffer, end, given>>

Is(name) == step = "run" /\ Equal(input_buffer, command, name)

Give(what) ==
  /\ step' = "returned"
  /\ given' = what
  /\ UNCHANGED <<input_buffer, end, command>>

SeekFile ==
  /\ Is(SeekName)
  /\ Give([how |-> "number", number |-> IntoU32(input_buffer, Remainder(space_split))])
  /\ UNCHANGED space_split

WriteFile ==
  /\ Is(WriteName)
  /\ Give([how |-> "bytes", bytes |-> Remainder(space_split)])
  /\ UNCHANGED space_split

MakeFile ==
  /\ Is(MkfileName)
  /\ Give([how |-> "name", name |-> NextWord(input_buffer, space_split)])
  /\ space_split' = AfterNext(input_buffer, space_split)

\* No file is open, or the command takes nothing or is unknown.
NothingGiven ==
  /\ step = "run" /\ ~Is(MkfileName)
  /\ step' = "returned"
  /\ UNCHANGED <<input_buffer, end, space_split, command, given>>

LineNext == SplitLine \/ TakeCommand \/ SeekFile \/ WriteFile \/ MakeFile \/ NothingGiven

LineSpec == LineInit /\ [][LineNext]_lineVars

-----------------------------------------------------------------------------
\* What a line means, said without the split.

Blank(from, to) == \A i \in from..(to - 1) : input_buffer[i] = Delimiter

\* The string is a word of the line: no delimiter is in it, and it goes as far
\* as it can without leaving the line.
IsWord(s) ==
  /\ s.at \in 0..end /\ s.size \in 1..(end - s.at)
  /\ \A i \in s.at..(s.at + s.size - 1) : input_buffer[i] # Delimiter
  /\ s.at > 0 => input_buffer[s.at - 1] = Delimiter
  /\ s.at + s.size < end => input_buffer[s.at + s.size] = Delimiter

\* The command ends where the line does.
CommandIsAll == command.at + command.size = end

\* What stands behind the command and one delimiter.
Rest == LET from == command.at + command.size + 1 IN [at |-> from, size |-> end - from]

IsNumber(s) ==
  s.size \in 1..MaxDigits /\ \A i \in s.at..(s.at + s.size - 1) : input_buffer[i] \in Digits

\* The number the digits of a string stand for, from the first to the last.
NumberOf(chars, s) ==
  LET number[n \in 0..s.size] ==
        IF n = 0 THEN 0 ELSE number[n - 1] * Base + chars[s.at + n - 1]
  IN  number[s.size]

\* Types of the state; the position is one past the end at most, as the size of
\* the remainder and the test for the last word need.
LineTypeOK ==
  /\ input_buffer \in [0..(LineSize - 1) -> Chars]
  /\ end \in 0..LineSize
  /\ space_split.end \in {0, end}
  /\ space_split.pos \in 0..(end + 1)
  /\ step \in {"split", "command", "run", "returned"}
  /\ given.how \in {"nothing", "number", "bytes", "name"}

\* The command that runs is the first word of the line, found whatever stands
\* behind the line in the buffer, and only a line without a word runs none: the
\* option that parse_input unwraps unasked is never empty.
FirstWordRuns ==
  /\ step = "run" => IsWord(command) /\ Blank(0, command.at)
  /\ step = "returned" =>
       IF command = None THEN Blank(0, end) ELSE IsWord(command) /\ Blank(0, command.at)

\* write is given what stands behind the command and one blank, to the end of
\* the line, further blanks included. (If nothing stands there, not even a blank,
\* it is given the whole of memory: the size wraps.)
WriteGetsRest ==
  given.how = "bytes" =>
    given.bytes = IF CommandIsAll THEN [at |-> end + 1, size |-> WordSize - 1] ELSE Rest

\* seek is given the number the rest of the line says if that fits a word, and
\* nothing if it is no number, above all if there is none: the size that wraps
\* is more than a number may have. (A number that does not fit may be misread.)
SeekGetsNumber ==
  given.how = "number" =>
    IF CommandIsAll \/ ~IsNumber(Rest)
      THEN given.number = Error
      ELSE LET number == NumberOf(input_buffer, Rest)
           IN  number < WordSize => given.number = number

\* mkfile is given the second word of the line, or none if there is no second,
\* though the split may then stand behind the end of the line.
MkfileGetsWord ==
  given.how = "name" =>
    IF given.name = None
      THEN Blank(command.at + command.size, end)
      ELSE IsWord(given.name) /\ Blank(command.at + command.size, given.name.at)
=============================================================================
