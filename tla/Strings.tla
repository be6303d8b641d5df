------------------------------ MODULE Strings ------------------------------
(***************************************************************************)
(* str, Split and into_u32 (src/src/klib/strings.hh). A str is a pointer   *)
(* and a size, here the position of its first character in the array it    *)
(* points into, and its size: nothing keeps it inside the array.           *)
(***************************************************************************)
EXTENDS Integers

CONSTANTS
  Base,       \* 10: the digits are 0..(Base - 1)
  MaxDigits,  \* 10: a longer string is no number
  WordSize,   \* 2^32, of u32 and of usize
  Delimiter   \* ' '

ASSUME BaseAssumption == Base \in Nat \ {0, 1}
\* Taken as a size, usize(-1) is more than a number may have.
ASSUME WordAssumption == MaxDigits \in Nat /\ WordSize \in Nat /\ MaxDigits + 1 < WordSize
Digits == 0..(Base - 1)

ASSUME DelimiterAssumption == Delimiter \notin Digits

None   == [at |-> 0, size |-> -1]   \* Option<str>::None
Error  == -1                        \* ErrInPlace of into_u32

-----------------------------------------------------------------------------
\* Mutant: the places are counted from the first digit.
DigitFromFirst(chars, s, place) == chars[s.at + place]

\* The digit of a place, counted from the last.
Digit(chars, s, place) == chars[s.at + s.size - 1 - place]

\* The loop of into_u32: value and mult after so many places, with u32's width.
Value(chars, s) ==
  LET mult[n \in 0..s.size] == IF n = 0 THEN 1 ELSE (mult[n - 1] * Base) % WordSize
      value[n \in 0..s.size] ==
        IF n = 0 THEN 0
        ELSE (value[n - 1] + Digit(chars, s, n - 1) * mult[n - 1]) % WordSize
  IN  value

\* A sum that wraps past what it was is an error; one that wraps further is not.
IntoU32(chars, s) ==
  IF \/ s.size = 0 \/ s.size > MaxDigits
     \/ \E place \in 0..(s.size - 1) : Digit(chars, s, place) \notin Digits
     \/ \E n \in 1..s.size : Value(chars, s)[n] < Value(chars, s)[n - 1]
    THEN Error
    ELSE Value(chars, s)[s.size]

\* operator==, with a literal.
Equal(chars, s, literal) ==
  /\ s.size = literal.size
  /\ \A i \in 0..(s.size - 1) : chars[s.at + i] = literal.chars[i]

-----------------------------------------------------------------------------
\* Mutant: no delimiter is skipped.
PastDelimitersNone(chars, from, end) == from

\* The first position from one on that is no delimiter, or is the end.
PastDelimiters(chars, from, end) ==
  CHOOSE q \in from..(end + 1) :
    /\ q >= end \/ chars[q] # Delimiter
    /\ \A r \in from..(q - 1) : r < end /\ chars[r] = Delimiter

\* The first position from one on that is a delimiter, or is the end.
WordEnd(chars, from, end) ==
  CHOOSE q \in from..(end + 1) :
    /\ q >= end \/ chars[q] = Delimiter
    /\ \A r \in from..(q - 1) : r < end /\ chars[r] # Delimiter

\* A Split is a position and the end of the string it splits.
MakeSplit(chars, size) == [pos |-> PastDelimiters(chars, 0, size), end |-> size]

Done(split) == split.pos >= split.end

\* The position is one past the delimiter behind the last word, and so past the
\* end if that word ended the string: the size then is that of usize(-1).
Remainder(split) == [at |-> split.pos, size |-> (split.end - split.pos) % WordSize]

\* Mutant: next() compares the position with the end once, before the loop.
LastWordUnchecked(chars, split) == split.pos = split.end

\* next() returns None: the string has been split, or ends in delimiters.
LastWord(chars, split) ==
  Done(split) \/ PastDelimiters(chars, split.pos, split.end) = split.end

WordStart(chars, split) == PastDelimiters(chars, split.pos, split.end)

NextWord(chars, split) ==
  LET start == WordStart(chars, split)
  IN  IF LastWord(chars, split) THEN None
      ELSE [at |-> start, size |-> WordEnd(chars, start, split.end) - start]

\* Mutant: the delimiter is left to be the first character of the remainder.
AfterNextAtDelimiter(chars, split) ==
  IF LastWord(chars, split) THEN [split EXCEPT !.pos = IF Done(split) THEN @ ELSE split.end]
  ELSE [split EXCEPT !.pos = WordEnd(chars, WordStart(chars, split), split.end)]

AfterNext(chars, split) ==
  IF LastWord(chars, split) THEN [split EXCEPT !.pos = IF Done(split) THEN @ ELSE split.end]
  ELSE [split EXCEPT !.pos = WordEnd(chars, WordStart(chars, split), split.end) + 1]
=============================================================================
