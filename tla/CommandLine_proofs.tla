------------------------- MODULE CommandLine_proofs -------------------------
(***************************************************************************)
(* Proofs about CommandLine, for lines and buffers of every length, every  *)
(* alphabet and every width: what a line means to parse_input.             *)
(***************************************************************************)
EXTENDS CommandLine, WellFoundedInduction, TLAPS

USE BaseAssumption, WordAssumption, DelimiterAssumption, CharsAssumption,
    LengthAssumption, NamesAssumption

\* A set of natural numbers that is not empty has a least member.
LEMMA LeastMember ==
  ASSUME NEW S, S \subseteq Nat, S # {}
  PROVE  \E x \in S : \A y \in S : x <= y
<1>1. PICK x \in S : \A y \in S : ~(<<y, x>> \in OpToRel(<, Nat))
  BY NatLessThanWellFounded, WFMin, Zenon
<1>2. \A y \in S : x <= y
  <2> SUFFICES ASSUME NEW y \in S, ~(x <= y) PROVE FALSE
    OBVIOUS
  <2>1. <<y, x>> \in Nat \X Nat /\ y < x
    BY SMT
  <2> QED
    BY <2>1, <1>1 DEF OpToRel
<1> QED
  BY <1>2

\* The loops over delimiters and over a word stop where their definitions say.
LEMMA PastDelimitersIs ==
  ASSUME NEW chars, NEW from \in Nat, NEW last \in Nat, from <= last
  PROVE  LET q == PastDelimiters(chars, from, last)
         IN  /\ q \in from..last
             /\ q = last \/ chars[q] # Delimiter
             /\ \A r \in from..(q - 1) : chars[r] = Delimiter
<1> DEFINE S == {q \in from..(last + 1) : q >= last \/ chars[q] # Delimiter}
           P(q) == /\ q >= last \/ chars[q] # Delimiter
                   /\ \A r \in from..(q - 1) : r < last /\ chars[r] = Delimiter
<1>1. S \subseteq Nat /\ last \in S
  OBVIOUS
<1>2. PICK x \in S : \A y \in S : x <= y
  <2> HIDE DEF S
  <2> QED
    BY <1>1, LeastMember
<1>3. x \in from..(last + 1) /\ P(x)
  <2>1. x \in from..(last + 1) /\ (x >= last \/ chars[x] # Delimiter)
    OBVIOUS
  <2>2. ASSUME NEW r \in from..(x - 1) PROVE r < last /\ chars[r] = Delimiter
    <3>1. r \in from..(last + 1) /\ ~(x <= r)
      BY <2>1
    <3>2. r \notin S
      BY <3>1, <1>2
    <3> QED
      BY <3>1, <3>2
  <2> QED
    BY <2>1, <2>2
<1> DEFINE q == PastDelimiters(chars, from, last)
<1>4. q = CHOOSE y \in from..(last + 1) : P(y)
  BY DEF PastDelimiters
<1>5. q \in from..(last + 1) /\ P(q)
  <2> HIDE DEF P
  <2> QED
    BY <1>3, <1>4
<1>6. q <= last
  <2> SUFFICES ASSUME q = last + 1 PROVE FALSE
    BY <1>5
  <2>1. last \in from..(q - 1)
    OBVIOUS
  <2> QED
    BY <2>1, <1>5
<1> QED
  BY <1>5, <1>6

LEMMA WordEndIs ==
  ASSUME NEW chars, NEW from \in Nat, NEW last \in Nat, from <= last
  PROVE  LET q == WordEnd(chars, from, last)
         IN  /\ q \in from..last
             /\ q = last \/ chars[q] = Delimiter
             /\ \A r \in from..(q - 1) : chars[r] # Delimiter
<1> DEFINE S == {q \in from..(last + 1) : q >= last \/ chars[q] = Delimiter}
           P(q) == /\ q >= last \/ chars[q] = Delimiter
                   /\ \A r \in from..(q - 1) : r < last /\ chars[r] # Delimiter
<1>1. S \subseteq Nat /\ last \in S
  OBVIOUS
<1>2. PICK x \in S : \A y \in S : x <= y
  <2> HIDE DEF S
  <2> QED
    BY <1>1, LeastMember
<1>3. x \in from..(last + 1) /\ P(x)
  <2>1. x \in from..(last + 1) /\ (x >= last \/ chars[x] = Delimiter)
    OBVIOUS
  <2>2. ASSUME NEW r \in from..(x - 1) PROVE r < last /\ chars[r] # Delimiter
    <3>1. r \in from..(last + 1) /\ ~(x <= r)
      BY <2>1
    <3>2. r \notin S
      BY <3>1, <1>2
    <3> QED
      BY <3>1, <3>2
  <2> QED
    BY <2>1, <2>2
<1> DEFINE q == WordEnd(chars, from, last)
<1>4. q = CHOOSE y \in from..(last + 1) : P(y)
  BY DEF WordEnd
<1>5. q \in from..(last + 1) /\ P(q)
  <2> HIDE DEF P
  <2> QED
    BY <1>3, <1>4
<1>6. q <= last
  <2> SUFFICES ASSUME q = last + 1 PROVE FALSE
    BY <1>5
  <2>1. last \in from..(q - 1)
    OBVIOUS
  <2> QED
    BY <2>1, <1>5
<1> QED
  BY <1>5, <1>6

-----------------------------------------------------------------------------
\* The invariant: where the split stands at each step, relative to the command.
AtCommand ==
  /\ step \in {"split", "command"} => command = None
  /\ step # "returned" => given = Nothing
  /\ step = "command" =>
       /\ space_split = [pos |-> space_split.pos, end |-> end]
       /\ space_split.pos \in 0..(end - 1)
       /\ input_buffer[space_split.pos] # Delimiter
       /\ Blank(0, space_split.pos)
  /\ step = "run" =>
       space_split = [pos |-> command.at + command.size + 1, end |-> end]
  /\ given.how # "nothing" => IsWord(command)

LineInv ==
  /\ LineTypeOK /\ AtCommand /\ FirstWordRuns
  /\ WriteGetsRest /\ MkfileGetsWord /\ SeekGetsNumber

\* The remainder after the command, as the commands get it.
LEMMA RemainderIs ==
  ASSUME LineTypeOK, IsWord(command),
         space_split = [pos |-> command.at + command.size + 1, end |-> end]
  PROVE  Remainder(space_split) =
           IF CommandIsAll THEN [at |-> end + 1, size |-> WordSize - 1] ELSE Rest
<1> DEFINE from == command.at + command.size + 1
<1>1. end \in Nat /\ end <= LineSize /\ LineSize \in Nat /\ WordSize \in Nat /\ LineSize + 1 < WordSize
  BY DEF LineTypeOK
<1>2. command.at \in Nat /\ command.size \in Nat /\ from <= end + 1 /\ from \in Nat
  BY <1>1 DEF IsWord
<1>3. space_split.pos = from /\ space_split.end = end
  OBVIOUS
<1> HIDE DEF from
<1>4. CASE CommandIsAll
  <2>1. from = end + 1
    BY <1>4, <1>1, <1>2 DEF CommandIsAll, from
  <2>2. (end - from) % WordSize = WordSize - 1
    <3>1. end - from = -1
      BY <2>1, <1>1
    <3>2. (-1) % WordSize = WordSize - 1
      BY <1>1
    <3> QED
      BY <3>1, <3>2
  <2> QED
    BY <1>3, <1>4, <2>1, <2>2 DEF Remainder
<1>5. CASE ~CommandIsAll
  <2>1. from <= end
    BY <1>5, <1>1, <1>2 DEF CommandIsAll, from
  <2>2. (end - from) % WordSize = end - from
    <3> DEFINE d == end - from
    <3>1. d \in Nat /\ d < WordSize
      BY <2>1, <1>1, <1>2
    <3> HIDE DEF d
    <3>2. d % WordSize = d
      BY <3>1, <1>1
    <3> QED
      BY <3>2 DEF d
  <2> QED
    BY <1>3, <1>5, <2>2 DEF Remainder, Rest, from
<1> QED
  BY <1>4, <1>5

\* into_u32 refuses what is no number, and a size that has wrapped.
LEMMA NoNumberIsError ==
  ASSUME NEW s, s.at \in Nat, s.size \in Nat,
         s.size > MaxDigits \/ ~IsNumber(s)
  PROVE  IntoU32(input_buffer, s) = Error
<1>1. CASE s.size = 0 \/ s.size > MaxDigits
  BY <1>1 DEF IntoU32
<1>2. CASE ~(s.size = 0 \/ s.size > MaxDigits)
  <2>1. PICK i \in s.at..(s.at + s.size - 1) : input_buffer[i] \notin Digits
    BY <1>2 DEF IsNumber
  <2>2. /\ s.at + s.size - 1 - i \in 0..(s.size - 1)
        /\ s.at + s.size - 1 - (s.at + s.size - 1 - i) = i
    OBVIOUS
  <2>3. Digit(input_buffer, s, s.at + s.size - 1 - i) \notin Digits
    BY <2>1, <2>2 DEF Digit
  <2> QED
    BY <2>2, <2>3 DEF IntoU32
<1> QED
  BY <1>1, <1>2

-----------------------------------------------------------------------------
(***************************************************************************)
(* What into_u32 computes. A function defined by recursion over 0..N has a *)
(* value: were there a least n with none over 0..n, the one over 0..n - 1  *)
(* would extend to it. The facts about the values follow in the same way,  *)
(* from the least place at which one would fail.                           *)
(***************************************************************************)
Follows(N, S, first, next, f) ==
  /\ f \in [0..N -> S]
  /\ f[0] = first
  /\ \A n \in 1..N : f[n] = next[n][f[n - 1]]

LEMMA Recursion ==
  ASSUME NEW N \in Nat, NEW S, NEW first \in S, NEW next \in [1..N -> [S -> S]]
  PROVE  \E f : Follows(N, S, first, next, f)
<1> DEFINE Upto(m, f) == /\ f \in [0..m -> S]
                         /\ f[0] = first
                         /\ \A n \in 1..m : f[n] = next[n][f[n - 1]]
           T == {m \in 0..N : ~\E f : Upto(m, f)}
<1>1. T = {}
  <2> SUFFICES ASSUME T # {} PROVE FALSE
    OBVIOUS
  <2>1. PICK m \in T : \A y \in T : m <= y
    <3>1. T \subseteq Nat
      OBVIOUS
    <3> HIDE DEF T
    <3> QED
      BY <3>1, LeastMember
  <2>2. m \in 0..N /\ ~\E f : Upto(m, f)
    OBVIOUS
  <2>3. m # 0
    <3>1. Upto(0, [n \in 0..0 |-> first])
      OBVIOUS
    <3> QED
      BY <2>2, <3>1
  <2>4. m - 1 \in 0..N /\ ~(m <= m - 1)
    BY <2>2, <2>3
  <2>5. PICK f : Upto(m - 1, f)
    BY <2>1, <2>4
  <2> DEFINE g == [n \in 0..m |-> IF n = m THEN next[m][f[m - 1]] ELSE f[n]]
  <2>6. next[m][f[m - 1]] \in S
    <3>1. f[m - 1] \in S /\ m \in 1..N
      BY <2>2, <2>3, <2>5
    <3> QED
      BY <3>1
  <2>7. g \in [0..m -> S] /\ g[0] = first
    BY <2>2, <2>3, <2>5, <2>6
  <2>8. ASSUME NEW n \in 1..m PROVE g[n] = next[n][g[n - 1]]
    <3>1. g[n - 1] = f[n - 1]
      BY <2>2
    <3>2. CASE n = m
      BY <3>1, <3>2, <2>2
    <3>3. CASE n # m
      BY <3>1, <3>3, <2>2, <2>5
    <3> QED
      BY <3>2, <3>3
  <2> QED
    BY <2>2, <2>7, <2>8
<1>2. \E f : Upto(N, f)
  <2>1. N \in 0..N
    OBVIOUS
  <2> HIDE DEF Upto
  <2> QED
    BY <1>1, <2>1
<1>3. PICK f : Upto(N, f)
  BY <1>2
<1> QED
  BY <1>3 DEF Follows

\* The two forms of it here: what there was times a number, and more; and that
\* with the width of a word.
IsSum(N, a, b, first, f) ==
  /\ f \in [0..N -> Nat]
  /\ f[0] = first
  /\ \A n \in 1..N : f[n] = f[n - 1] * a + b[n]

IsSumInWord(N, a, b, first, f) ==
  /\ f \in [0..N -> Nat]
  /\ f[0] = first
  /\ \A n \in 1..N : f[n] = (f[n - 1] * a + b[n]) % WordSize

LEMMA Sums ==
  ASSUME NEW N \in Nat, NEW a \in Nat, NEW b \in [1..N -> Nat], NEW first \in Nat
  PROVE  \E f : IsSum(N, a, b, first, f)
<1> DEFINE next == [n \in 1..N |-> [x \in Nat |-> x * a + b[n]]]
<1>1. ASSUME NEW n \in 1..N, NEW x \in Nat PROVE x * a + b[n] \in Nat
  <2>1. b[n] \in Nat
    OBVIOUS
  <2>2. x * a \in Nat
    OBVIOUS
  <2> QED
    BY <2>1, <2>2
<1>2. next \in [1..N -> [Nat -> Nat]]
  BY <1>1
<1>3. ASSUME NEW n \in 1..N, NEW x \in Nat PROVE next[n][x] = x * a + b[n]
  OBVIOUS
<1> HIDE DEF next
<1>4. PICK f : Follows(N, Nat, first, next, f)
  BY <1>2, Recursion
<1>5. ASSUME NEW n \in 1..N PROVE f[n] = f[n - 1] * a + b[n]
  <2>1. f[n - 1] \in Nat /\ f[n] = next[n][f[n - 1]]
    BY <1>4 DEF Follows
  <2> QED
    BY <1>3, <2>1
<1> QED
  BY <1>4, <1>5 DEF Follows, IsSum

LEMMA SumsInWord ==
  ASSUME NEW N \in Nat, NEW a \in Nat, NEW b \in [1..N -> Nat], NEW first \in Nat
  PROVE  \E f : IsSumInWord(N, a, b, first, f)
<1> DEFINE next == [n \in 1..N |-> [x \in Nat |-> (x * a + b[n]) % WordSize]]
<1>1. ASSUME NEW n \in 1..N, NEW x \in Nat PROVE (x * a + b[n]) % WordSize \in Nat
  <2>1. b[n] \in Nat
    OBVIOUS
  <2>2. x * a \in Nat
    OBVIOUS
  <2>3. x * a + b[n] \in Nat
    BY <2>1, <2>2
  <2>4. \A y \in Nat : y % WordSize \in Nat
    OBVIOUS
  <2> QED
    BY <2>3, <2>4
<1>2. next \in [1..N -> [Nat -> Nat]]
  BY <1>1
<1>3. ASSUME NEW n \in 1..N, NEW x \in Nat PROVE next[n][x] = (x * a + b[n]) % WordSize
  OBVIOUS
<1> HIDE DEF next
<1>4. PICK f : Follows(N, Nat, first, next, f)
  BY <1>2, Recursion
<1>5. ASSUME NEW n \in 1..N PROVE f[n] = (f[n - 1] * a + b[n]) % WordSize
  <2>1. f[n - 1] \in Nat /\ f[n] = next[n][f[n - 1]]
    BY <1>4 DEF Follows
  <2> QED
    BY <1>3, <2>1
<1> QED
  BY <1>4, <1>5 DEF Follows, IsSumInWord

\* What keeps to one of these forms while it is a number is a number all the way.
LEMMA SumIs ==
  ASSUME NEW N \in Nat, NEW a \in Nat, NEW b \in [1..N -> Nat], NEW first \in Nat,
         NEW g, g = [n \in 0..N |-> g[n]], g[0] = first,
         \A n \in 1..N : g[n - 1] \in Nat => g[n] = g[n - 1] * a + b[n]
  PROVE  IsSum(N, a, b, first, g)
<1> DEFINE T == {n \in 0..N : g[n] \notin Nat}
<1>1. T = {}
  <2> SUFFICES ASSUME T # {} PROVE FALSE
    OBVIOUS
  <2>1. PICK n \in T : \A y \in T : n <= y
    <3>1. T \subseteq Nat
      OBVIOUS
    <3> HIDE DEF T
    <3> QED
      BY <3>1, LeastMember
  <2>2. n \in 0..N /\ g[n] \notin Nat /\ n # 0
    OBVIOUS
  <2>3. n - 1 \in 0..N /\ ~(n <= n - 1) /\ n \in 1..N
    BY <2>2
  <2>4. g[n - 1] \in Nat
    BY <2>1, <2>3
  <2>5. PICK x \in Nat, y \in Nat : x = g[n - 1] * a /\ y = b[n]
    <3>1. g[n - 1] * a \in Nat /\ b[n] \in Nat
      BY <2>3, <2>4
    <3> QED
      BY <3>1
  <2>6. g[n] = g[n - 1] * a + b[n]
    BY <2>3, <2>4
  <2> QED
    BY <2>2, <2>5, <2>6
<1>2. \A n \in 0..N : g[n] \in Nat
  BY <1>1
<1>3. g \in [0..N -> Nat]
  BY <1>2
<1>4. ASSUME NEW n \in 1..N PROVE g[n] = g[n - 1] * a + b[n]
  <2>1. n - 1 \in 0..N
    OBVIOUS
  <2> QED
    BY <1>2, <2>1
<1> QED
  BY <1>3, <1>4 DEF IsSum

LEMMA SumInWordIs ==
  ASSUME NEW N \in Nat, NEW a \in Nat, NEW b \in [1..N -> Nat], NEW first \in Nat,
         NEW g, g = [n \in 0..N |-> g[n]], g[0] = first,
         \A n \in 1..N : g[n - 1] \in Nat => g[n] = (g[n - 1] * a + b[n]) % WordSize
  PROVE  IsSumInWord(N, a, b, first, g)
<1> DEFINE T == {n \in 0..N : g[n] \notin Nat}
<1>1. T = {}
  <2> SUFFICES ASSUME T # {} PROVE FALSE
    OBVIOUS
  <2>1. PICK n \in T : \A y \in T : n <= y
    <3>1. T \subseteq Nat
      OBVIOUS
    <3> HIDE DEF T
    <3> QED
      BY <3>1, LeastMember
  <2>2. n \in 0..N /\ g[n] \notin Nat /\ n # 0
    OBVIOUS
  <2>3. n - 1 \in 0..N /\ ~(n <= n - 1) /\ n \in 1..N
    BY <2>2
  <2>4. g[n - 1] \in Nat
    BY <2>1, <2>3
  <2>5. PICK x \in Nat, y \in Nat : x = g[n - 1] * a /\ y = b[n]
    <3>1. g[n - 1] * a \in Nat /\ b[n] \in Nat
      BY <2>3, <2>4
    <3> QED
      BY <3>1
  <2>6. g[n] = (g[n - 1] * a + b[n]) % WordSize
    BY <2>3, <2>4
  <2>7. x + y \in Nat /\ \A z \in Nat : z % WordSize \in Nat
    OBVIOUS
  <2>8. g[n] = (x + y) % WordSize
    BY <2>5, <2>6
  <2> QED
    BY <2>2, <2>7, <2>8
<1>2. \A n \in 0..N : g[n] \in Nat
  BY <1>1
<1>3. g \in [0..N -> Nat]
  BY <1>2
<1>4. ASSUME NEW n \in 1..N PROVE g[n] = (g[n - 1] * a + b[n]) % WordSize
  <2>1. n - 1 \in 0..N
    OBVIOUS
  <2> QED
    BY <1>2, <2>1
<1> QED
  BY <1>3, <1>4 DEF IsSumInWord

\* The digits of a number of N places, the last first, and what is made of them
\* from the first digit to the last (num) and from the last to the first (low),
\* with the values of the places (place).
Digitwise(N, d, num, place, low) ==
  /\ d \in [0..(N - 1) -> Digits]
  /\ num \in [0..N -> Nat] /\ num[0] = 0
  /\ \A n \in 1..N : num[n] = num[n - 1] * Base + d[N - n]
  /\ place \in [0..N -> Nat] /\ place[0] = 1
  /\ \A n \in 1..N : place[n] = place[n - 1] * Base
  /\ low \in [0..N -> Nat] /\ low[0] = 0
  /\ \A n \in 1..N : low[n] = low[n - 1] + d[n - 1] * place[n - 1]

\* One round, on both sides of the place it is about.
LEMMA OneRound ==
  ASSUME NEW b \in Nat, NEW x \in Nat, NEW c \in Nat, NEW p \in Nat, NEW l \in Nat
  PROVE  (x * b + c) * p + l = x * (p * b) + (l + c * p)
<1>1. (x * b + c) * p = (x * b) * p + c * p
  OBVIOUS
<1>2. (x * b) * p = x * (p * b)
  OBVIOUS
<1> QED
  BY <1>1, <1>2

LEMMA TimesGrows ==
  ASSUME NEW p \in Nat, NEW b \in Nat, b # 0 PROVE p * b \in Nat /\ p <= p * b
<1>1. PICK c \in Nat : b = c + 1
  OBVIOUS
<1>2. p * c \in Nat
  OBVIOUS
<1>3. p * (c + 1) = p * c + p
  OBVIOUS
<1>4. p * b = p * c + p
  BY <1>1, <1>3
<1> QED
  BY <1>2, <1>4

\* The parts of one round, named.
LEMMA Round ==
  ASSUME NEW N \in Nat, NEW d, NEW num, NEW place, NEW low,
         Digitwise(N, d, num, place, low), NEW n \in 1..N
  PROVE  /\ d[n - 1] \in Nat /\ place[n - 1] \in Nat /\ low[n - 1] \in Nat
         /\ place[n] \in Nat /\ low[n] \in Nat
         /\ low[n] = low[n - 1] + d[n - 1] * place[n - 1]
         /\ place[n] = place[n - 1] * Base
<1>1. n - 1 \in 0..(N - 1) /\ n - 1 \in 0..N /\ n \in 0..N
  OBVIOUS
<1>2. /\ d \in [0..(N - 1) -> Digits] /\ place \in [0..N -> Nat] /\ low \in [0..N -> Nat]
      /\ \A m \in 1..N : low[m] = low[m - 1] + d[m - 1] * place[m - 1]
      /\ \A m \in 1..N : place[m] = place[m - 1] * Base
  BY Zenon DEF Digitwise
<1>3. low[n] = low[n - 1] + d[n - 1] * place[n - 1] /\ place[n] = place[n - 1] * Base
  BY <1>2, Zenon
<1>4. /\ d[n - 1] \in Digits /\ place[n - 1] \in Nat /\ low[n - 1] \in Nat
      /\ place[n] \in Nat /\ low[n] \in Nat
  BY <1>1, <1>2, Zenon
<1>5. d[n - 1] \in Nat
  BY <1>4 DEF Digits
<1> QED
  BY <1>3, <1>4, <1>5

\* What is left of the number before a place, and what stands behind it.
LEMMA BothWays ==
  ASSUME NEW N \in Nat, NEW d, NEW num, NEW place, NEW low,
         Digitwise(N, d, num, place, low)
  PROVE  \A n \in 0..N : num[N] = num[N - n] * place[n] + low[n]
<1> DEFINE T == {n \in 0..N : num[N] # num[N - n] * place[n] + low[n]}
<1> SUFFICES ASSUME T # {} PROVE FALSE
  OBVIOUS
<1>1. PICK n \in T : \A y \in T : n <= y
  <2>1. T \subseteq Nat
    OBVIOUS
  <2> HIDE DEF T
  <2> QED
    BY <2>1, LeastMember
<1>2. n \in 0..N /\ num[N] # num[N - n] * place[n] + low[n]
  OBVIOUS
<1>3. n # 0
  <2>1. num[N] \in Nat /\ place[0] = 1 /\ low[0] = 0 /\ N - 0 = N
    BY DEF Digitwise
  <2>2. num[N] = num[N] * 1 + 0
    BY <2>1
  <2> QED
    BY <1>2, <2>1, <2>2
<1>4. n - 1 \in 0..N /\ ~(n <= n - 1) /\ n \in 1..N
  BY <1>2, <1>3
<1> DEFINE m == N - n
<1>5. /\ m \in 0..N /\ m + 1 \in 1..N /\ (m + 1) - 1 = m
      /\ N - (n - 1) = m + 1 /\ N - (m + 1) = n - 1 /\ n - 1 \in 0..(N - 1)
  BY <1>4
<1> HIDE DEF m
<1>6. num[N] = num[m + 1] * place[n - 1] + low[n - 1]
  BY <1>1, <1>4, <1>5
<1>7. /\ num[m + 1] = num[m] * Base + d[n - 1]
      /\ place[n] = place[n - 1] * Base
      /\ low[n] = low[n - 1] + d[n - 1] * place[n - 1]
  BY <1>4, <1>5 DEF Digitwise
<1>8. num[m] \in Nat /\ d[n - 1] \in Nat /\ place[n - 1] \in Nat /\ low[n - 1] \in Nat
  BY <1>4, <1>5 DEF Digitwise, Digits
<1>9. num[N] = num[m] * place[n] + low[n]
  BY <1>6, <1>7, <1>8, OneRound
<1> QED
  BY <1>2, <1>9 DEF m

\* What the loop of into_u32 computes of the digits.
Rounds(N, d, mult, value) ==
  /\ mult \in [0..N -> Nat] /\ mult[0] = 1
  /\ \A n \in 1..N : mult[n] = (mult[n - 1] * Base) % WordSize
  /\ value[0] = 0
  /\ \A n \in 1..N : value[n] = (value[n - 1] + d[n - 1] * mult[n - 1]) % WordSize

LEMMA SmallRemainder ==
  ASSUME NEW x \in Nat, x < WordSize PROVE x % WordSize = x
OBVIOUS

\* A place adds to what stands behind it, and no more than the number has.
LEMMA LowGrows ==
  ASSUME NEW N \in Nat, NEW d, NEW num, NEW place, NEW low,
         Digitwise(N, d, num, place, low)
  PROVE  /\ \A n \in 0..N : low[n] <= num[N]
         /\ low[N] = num[N]
         /\ \A n \in 1..N : /\ d[n - 1] \in Nat /\ place[n - 1] \in Nat
                            /\ d[n - 1] * place[n - 1] \in Nat
                            /\ low[n - 1] <= low[n]
                            /\ d[n - 1] * place[n - 1] <= low[n]
<1>1. ASSUME NEW n \in 0..N PROVE low[n] <= num[N]
  <2>1. num[N - n] \in Nat /\ place[n] \in Nat /\ low[n] \in Nat /\ num[N] \in Nat
    BY DEF Digitwise
  <2>2. num[N - n] * place[n] \in Nat
    BY <2>1
  <2>3. num[N] = num[N - n] * place[n] + low[n]
    BY BothWays
  <2> QED
    BY <2>1, <2>2, <2>3
<1>2. low[N] = num[N]
  <2>1. num[0] = 0 /\ place[N] \in Nat /\ low[N] \in Nat /\ N - N = 0
    BY DEF Digitwise
  <2>2. num[N] = num[N - N] * place[N] + low[N]
    BY BothWays
  <2>3. num[N - N] * place[N] = 0
    BY <2>1
  <2> QED
    BY <2>1, <2>2, <2>3
<1>3. ASSUME NEW n \in 1..N
      PROVE  /\ d[n - 1] \in Nat /\ place[n - 1] \in Nat
             /\ d[n - 1] * place[n - 1] \in Nat
             /\ low[n - 1] <= low[n]
             /\ d[n - 1] * place[n - 1] <= low[n]
  <2>1. /\ d[n - 1] \in Nat /\ place[n - 1] \in Nat /\ low[n - 1] \in Nat
        /\ low[n] = low[n - 1] + d[n - 1] * place[n - 1]
    BY Round
  <2>2. PICK x : x = d[n - 1] * place[n - 1]
    OBVIOUS
  <2>3. x \in Nat
    BY <2>1, <2>2
  <2> QED
    BY <2>1, <2>2, <2>3
<1> QED
  BY <1>1, <1>2, <1>3

\* mult is the value of its place, or that is more than any digit of the number
\* stands at.
LEMMA MultIsPlace ==
  ASSUME NEW N \in Nat, NEW d, NEW num, NEW place, NEW low,
         Digitwise(N, d, num, place, low),
         NEW mult, NEW value, Rounds(N, d, mult, value)
  PROVE  \A n \in 0..N : place[n] >= WordSize \/ mult[n] = place[n]
<1> DEFINE T == {n \in 0..N : ~(place[n] >= WordSize \/ mult[n] = place[n])}
<1> SUFFICES ASSUME T # {} PROVE FALSE
  OBVIOUS
<1>1. PICK n \in T : \A y \in T : n <= y
  <2>1. T \subseteq Nat
    OBVIOUS
  <2> HIDE DEF T
  <2> QED
    BY <2>1, LeastMember
<1>2. n \in 0..N /\ place[n] \in Nat /\ place[n] < WordSize /\ mult[n] # place[n]
  BY DEF Digitwise
<1>3. n # 0
  BY <1>2 DEF Digitwise, Rounds
<1>4. n - 1 \in 0..N /\ ~(n <= n - 1) /\ n \in 1..N
  BY <1>2, <1>3
<1>5. place[n] = place[n - 1] * Base /\ place[n - 1] \in Nat
  BY <1>4, Round
<1>6. place[n - 1] <= place[n]
  <2>1. PICK p \in Nat : p = place[n - 1]
    BY <1>5
  <2>2. p <= p * Base
    BY TimesGrows
  <2> QED
    BY <1>5, <2>1, <2>2
<1>7. mult[n - 1] = place[n - 1]
  <2>1. n - 1 \notin T
    BY <1>1, <1>4
  <2>2. place[n - 1] >= WordSize \/ mult[n - 1] = place[n - 1]
    BY <1>4, <2>1
  <2>3. ~(place[n - 1] >= WordSize)
    BY <1>2, <1>5, <1>6
  <2> QED
    BY <2>2, <2>3
<1>8. mult[n] = place[n] % WordSize
  <2>1. mult[n] = (mult[n - 1] * Base) % WordSize
    BY <1>4, Zenon DEF Rounds
  <2> QED
    BY <1>5, <1>7, <2>1
<1> QED
  BY <1>2, <1>8, SmallRemainder

\* The sums of the loop are the exact ones if the number fits a word.
LEMMA SumsAreExact ==
  ASSUME NEW N \in Nat, NEW d, NEW num, NEW place, NEW low,
         Digitwise(N, d, num, place, low), num[N] < WordSize,
         NEW mult, NEW value, Rounds(N, d, mult, value)
  PROVE  \A n \in 0..N : value[n] = low[n]
<1> DEFINE T == {n \in 0..N : value[n] # low[n]}
<1> SUFFICES ASSUME T # {} PROVE FALSE
  OBVIOUS
<1>1. PICK n \in T : \A y \in T : n <= y
  <2>1. T \subseteq Nat
    OBVIOUS
  <2> HIDE DEF T
  <2> QED
    BY <2>1, LeastMember
<1>2. n \in 0..N /\ value[n] # low[n]
  OBVIOUS
<1>3. n # 0
  BY <1>2 DEF Digitwise, Rounds
<1>4. n - 1 \in 0..N /\ ~(n <= n - 1) /\ n \in 1..N
  BY <1>2, <1>3
<1>5. value[n - 1] = low[n - 1]
  BY <1>1, <1>4
<1>6. /\ d[n - 1] \in Nat /\ place[n - 1] \in Nat /\ mult[n - 1] \in Nat
      /\ low[n] \in Nat /\ low[n] < WordSize
      /\ d[n - 1] * place[n - 1] <= low[n]
      /\ low[n] = low[n - 1] + d[n - 1] * place[n - 1]
  <2>1. /\ d[n - 1] \in Nat /\ place[n - 1] \in Nat /\ low[n] \in Nat
        /\ low[n] = low[n - 1] + d[n - 1] * place[n - 1]
    BY <1>4, Round
  <2>2. d[n - 1] * place[n - 1] <= low[n] /\ low[n] <= num[N]
    BY <1>4, LowGrows
  <2>3. mult[n - 1] \in Nat /\ num[N] \in Nat
    <3>1. num \in [0..N -> Nat] /\ mult \in [0..N -> Nat]
      BY Zenon DEF Digitwise, Rounds
    <3> QED
      BY <1>4, <3>1
  <2>4. low[n] < WordSize
    BY <2>1, <2>2, <2>3
  <2> QED
    BY <2>1, <2>2, <2>3, <2>4
<1>7. d[n - 1] * mult[n - 1] = d[n - 1] * place[n - 1]
  <2>1. CASE mult[n - 1] = place[n - 1]
    BY <2>1
  <2>2. CASE mult[n - 1] # place[n - 1]
    <3>1. PICK p \in Nat, c \in Nat, m \in Nat :
            p = place[n - 1] /\ c = d[n - 1] /\ m = mult[n - 1]
      BY <1>6
    <3>2. p >= WordSize
      <4>1. place[n - 1] >= WordSize \/ mult[n - 1] = place[n - 1]
        BY <1>4, MultIsPlace
      <4> QED
        BY <2>2, <3>1, <4>1
    <3>3. c = 0
      <4> SUFFICES ASSUME c # 0 PROVE FALSE
        OBVIOUS
      <4>1. p <= p * c /\ p * c = c * p
        BY TimesGrows
      <4>2. PICK x \in Nat : x = c * p
        OBVIOUS
      <4>3. x <= low[n]
        BY <1>6, <3>1, <4>2
      <4>4. p <= x
        BY <4>1, <4>2
      <4> QED
        BY <1>6, <3>2, <4>3, <4>4
    <3>4. c * m = 0 /\ c * p = 0
      BY <3>3
    <3> QED
      BY <3>1, <3>4
  <2> QED
    BY <2>1, <2>2
<1>8. value[n] = low[n] % WordSize
  <2>1. value[n] = (value[n - 1] + d[n - 1] * mult[n - 1]) % WordSize
    BY <1>4, Zenon DEF Rounds
  <2> QED
    BY <1>5, <1>6, <1>7, <2>1
<1> QED
  BY <1>2, <1>6, <1>8, SmallRemainder

\* into_u32 reads the number its digits say, from the first to the last, if that
\* fits a word.
LEMMA NumberIsRead ==
  ASSUME NEW s, s.at \in Nat, s.size \in Nat, IsNumber(s),
         NumberOf(input_buffer, s) < WordSize
  PROVE  IntoU32(input_buffer, s) = NumberOf(input_buffer, s)
<1> DEFINE N == s.size
           d == [n \in 0..(N - 1) |-> Digit(input_buffer, s, n)]
<1>1. N \in Nat /\ N # 0 /\ N <= MaxDigits
  BY DEF IsNumber
<1>2. d \in [0..(N - 1) -> Digits]
  <2>1. ASSUME NEW n \in 0..(N - 1) PROVE Digit(input_buffer, s, n) \in Digits
    <3>1. s.at + s.size - 1 - n \in s.at..(s.at + s.size - 1)
      OBVIOUS
    <3> QED
      BY <3>1 DEF Digit, IsNumber
  <2> QED
    BY <2>1
<1>3. ASSUME NEW n \in 1..N PROVE input_buffer[s.at + n - 1] = d[N - n]
  <2>1. N - n \in 0..(N - 1) /\ s.at + s.size - 1 - (N - n) = s.at + n - 1
    BY <1>1
  <2> QED
    BY <2>1 DEF Digit
<1>4. ASSUME NEW n \in 1..N PROVE Digit(input_buffer, s, n - 1) = d[n - 1]
  BY <1>1
<1> HIDE DEF d
<1> DEFINE IsNum(f)   == f = [n \in 0..N |-> IF n = 0 THEN 0
                                ELSE f[n - 1] * Base + input_buffer[s.at + n - 1]]
           IsMult(f)  == f = [n \in 0..N |-> IF n = 0 THEN 1 ELSE (f[n - 1] * Base) % WordSize]
           mult == CHOOSE f : IsMult(f)
           IsValue(f) == f = [n \in 0..N |-> IF n = 0 THEN 0
                                ELSE (f[n - 1] + Digit(input_buffer, s, n - 1) * mult[n - 1])
                                       % WordSize]
           num   == CHOOSE f : IsNum(f)
           value == CHOOSE f : IsValue(f)
<1>5. NumberOf(input_buffer, s) = num[N] /\ Value(input_buffer, s) = value
  BY Zenon DEF NumberOf, Value
<1>6. /\ num \in [0..N -> Nat] /\ num[0] = 0
      /\ \A n \in 1..N : num[n] = num[n - 1] * Base + d[N - n]
  <2> DEFINE b == [n \in 1..N |-> d[N - n]]
  <2>1. ASSUME NEW n \in 1..N PROVE d[N - n] \in Nat
    <3>1. N - n \in 0..(N - 1)
      BY <1>1
    <3> QED
      BY <3>1, <1>2 DEF Digits
  <2>2. b \in [1..N -> Nat] /\ \A n \in 1..N : b[n] = input_buffer[s.at + n - 1]
    BY <2>1, <1>3
  <2>3. \A n \in 1..N : b[n] = d[N - n]
    OBVIOUS
  <2> HIDE DEF b
  <2>4. PICK f : IsSum(N, Base, b, 0, f)
    BY <1>1, <2>2, Sums
  <2>5. IsNum(f)
    BY <1>1, <2>2, <2>4 DEF IsSum
  <2>6. IsNum(num)
    BY <2>5
  <2> HIDE DEF num
  <2>7. num = [n \in 0..N |-> num[n]] /\ num[0] = 0
    <3>1. num = [n \in 0..N |-> num[n]]
      BY <2>6
    <3>2. 0 \in 0..N
      BY <1>1
    <3>3. num[0] = 0
      BY <2>6, <3>2
    <3> QED
      BY <3>1, <3>3
  <2>8. \A n \in 1..N : num[n] = num[n - 1] * Base + b[n]
    BY <1>1, <2>2, <2>6
  <2>9. IsSum(N, Base, b, 0, num)
    BY <1>1, <2>2, <2>7, <2>8, SumIs
  <2> QED
    BY <2>3, <2>9 DEF IsSum
<1>7. /\ mult \in [0..N -> Nat] /\ mult[0] = 1
      /\ \A n \in 1..N : mult[n] = (mult[n - 1] * Base) % WordSize
  <2> DEFINE b == [n \in 1..N |-> 0]
  <2>1. b \in [1..N -> Nat] /\ \A n \in 1..N : b[n] = 0
    OBVIOUS
  <2> HIDE DEF b
  <2>2. \A x \in Nat : x * Base + 0 = x * Base
    OBVIOUS
  <2>3. PICK f : IsSumInWord(N, Base, b, 1, f)
    BY <1>1, <2>1, SumsInWord
  <2>4. f \in [0..N -> Nat] /\ f[0] = 1 /\ \A n \in 1..N : f[n] = (f[n - 1] * Base) % WordSize
    <3>1. f \in [0..N -> Nat] /\ f[0] = 1
      BY <2>3, Zenon DEF IsSumInWord
    <3>2. ASSUME NEW n \in 1..N PROVE f[n] = (f[n - 1] * Base) % WordSize
      <4>1. f[n] = (f[n - 1] * Base + b[n]) % WordSize /\ b[n] = 0
        BY <2>1, <2>3, Zenon DEF IsSumInWord
      <4>2. f[n - 1] \in Nat
        BY <1>1, <3>1
      <4> QED
        BY <2>2, <4>1, <4>2
    <3> QED
      BY <3>1, <3>2
  <2>5. IsMult(f)
    BY <1>1, <2>4
  <2>6. IsMult(mult)
    BY <2>5
  <2> HIDE DEF mult
  <2>7. mult = [n \in 0..N |-> mult[n]] /\ mult[0] = 1
    <3>1. mult = [n \in 0..N |-> mult[n]]
      BY <2>6
    <3>2. 0 \in 0..N
      BY <1>1
    <3>3. mult[0] = 1
      BY <2>6, <3>2
    <3> QED
      BY <3>1, <3>3
  <2>8. \A n \in 1..N : mult[n] = (mult[n - 1] * Base) % WordSize
    BY <1>1, <2>6
  <2>9. \A n \in 1..N : mult[n - 1] \in Nat => mult[n] = (mult[n - 1] * Base + b[n]) % WordSize
    BY <2>1, <2>2, <2>8
  <2>10. IsSumInWord(N, Base, b, 1, mult)
    BY <1>1, <2>1, <2>7, <2>9, SumInWordIs
  <2> QED
    BY <2>8, <2>10 DEF IsSumInWord
<1> HIDE DEF num, mult
<1>8. /\ value \in [0..N -> Nat] /\ value[0] = 0
      /\ \A n \in 1..N : value[n] = (value[n - 1] + d[n - 1] * mult[n - 1]) % WordSize
  <2> DEFINE b == [n \in 1..N |-> d[n - 1] * mult[n - 1]]
  <2>1. ASSUME NEW n \in 1..N PROVE d[n - 1] * mult[n - 1] \in Nat
    <3>1. n - 1 \in 0..(N - 1) /\ n - 1 \in 0..N
      BY <1>1
    <3>2. mult \in [0..N -> Nat]
      BY <1>7
    <3>3. d[n - 1] \in Nat /\ mult[n - 1] \in Nat
      BY <3>1, <1>2, <3>2 DEF Digits
    <3> QED
      BY <3>3
  <2>2. b \in [1..N -> Nat]
    BY <2>1
  <2>3. \A n \in 1..N : b[n] = d[n - 1] * mult[n - 1]
    OBVIOUS
  <2>4. \A n \in 1..N : b[n] = Digit(input_buffer, s, n - 1) * mult[n - 1]
    BY <1>4, <2>3
  <2> HIDE DEF b
  <2>5. \A x \in Nat : x * 1 = x
    OBVIOUS
  <2>6. PICK f : IsSumInWord(N, 1, b, 0, f)
    BY <1>1, <2>2, SumsInWord
  <2>7. f \in [0..N -> Nat] /\ f[0] = 0 /\ \A n \in 1..N : f[n] = (f[n - 1] + b[n]) % WordSize
    <3>1. f \in [0..N -> Nat] /\ f[0] = 0
      BY <2>6, Zenon DEF IsSumInWord
    <3>2. ASSUME NEW n \in 1..N PROVE f[n] = (f[n - 1] + b[n]) % WordSize
      <4>1. f[n] = (f[n - 1] * 1 + b[n]) % WordSize
        BY <2>6, Zenon DEF IsSumInWord
      <4>2. f[n - 1] \in Nat
        BY <1>1, <3>1
      <4> QED
        BY <2>5, <4>1, <4>2
    <3> QED
      BY <3>1, <3>2
  <2>8. IsValue(f)
    BY <1>1, <2>4, <2>7
  <2>9. IsValue(value)
    BY <2>8
  <2> HIDE DEF value
  <2>10. value = [n \in 0..N |-> value[n]] /\ value[0] = 0
    <3>1. value = [n \in 0..N |-> value[n]]
      BY <2>9
    <3>2. 0 \in 0..N
      BY <1>1
    <3>3. value[0] = 0
      BY <2>9, <3>2
    <3> QED
      BY <3>1, <3>3
  <2>11. \A n \in 1..N : value[n] = (value[n - 1] + b[n]) % WordSize
    BY <1>1, <2>4, <2>9
  <2>12. \A n \in 1..N : value[n - 1] \in Nat => value[n] = (value[n - 1] * 1 + b[n]) % WordSize
    BY <2>5, <2>11
  <2>13. IsSumInWord(N, 1, b, 0, value)
    BY <1>1, <2>2, <2>10, <2>12, SumInWordIs
  <2> QED
    BY <2>3, <2>11, <2>13 DEF IsSumInWord
<1> HIDE DEF value, N
<1>9. \E place :
        /\ place \in [0..N -> Nat] /\ place[0] = 1
        /\ \A n \in 1..N : place[n] = place[n - 1] * Base
  <2> DEFINE b == [n \in 1..N |-> 0]
  <2>1. b \in [1..N -> Nat] /\ \A n \in 1..N : b[n] = 0
    OBVIOUS
  <2> HIDE DEF b
  <2>2. \A x \in Nat : x * Base + 0 = x * Base
    OBVIOUS
  <2>3. PICK place : IsSum(N, Base, b, 1, place)
    BY <1>1, <2>1, Sums
  <2>4. /\ place \in [0..N -> Nat] /\ place[0] = 1
        /\ \A n \in 1..N : place[n] = place[n - 1] * Base
    <3>1. place \in [0..N -> Nat] /\ place[0] = 1
      BY <2>3, Zenon DEF IsSum
    <3>2. ASSUME NEW n \in 1..N PROVE place[n] = place[n - 1] * Base
      <4>1. place[n] = place[n - 1] * Base + b[n] /\ b[n] = 0
        BY <2>1, <2>3, Zenon DEF IsSum
      <4>2. place[n - 1] \in Nat
        BY <1>1, <3>1
      <4> QED
        BY <2>2, <4>1, <4>2
    <3> QED
      BY <3>1, <3>2
  <2> QED
    BY <2>4
<1>10. PICK place :
         /\ place \in [0..N -> Nat] /\ place[0] = 1
         /\ \A n \in 1..N : place[n] = place[n - 1] * Base
  BY <1>9
<1>11. \E low :
         /\ low \in [0..N -> Nat] /\ low[0] = 0
         /\ \A n \in 1..N : low[n] = low[n - 1] + d[n - 1] * place[n - 1]
  <2> DEFINE b == [n \in 1..N |-> d[n - 1] * place[n - 1]]
  <2>1. ASSUME NEW n \in 1..N PROVE d[n - 1] * place[n - 1] \in Nat
    <3>1. n - 1 \in 0..(N - 1) /\ n - 1 \in 0..N
      BY <1>1
    <3>2. d[n - 1] \in Nat /\ place[n - 1] \in Nat
      BY <3>1, <1>2, <1>10 DEF Digits
    <3> QED
      BY <3>2
  <2>2. b \in [1..N -> Nat]
    BY <2>1
  <2>3. \A n \in 1..N : b[n] = d[n - 1] * place[n - 1]
    OBVIOUS
  <2> HIDE DEF b
  <2>4. \A x \in Nat : x * 1 = x
    OBVIOUS
  <2>5. PICK low : IsSum(N, 1, b, 0, low)
    BY <1>1, <2>2, Sums
  <2>6. /\ low \in [0..N -> Nat] /\ low[0] = 0
        /\ \A n \in 1..N : low[n] = low[n - 1] + b[n]
    <3>1. low \in [0..N -> Nat] /\ low[0] = 0
      BY <2>5, Zenon DEF IsSum
    <3>2. ASSUME NEW n \in 1..N PROVE low[n] = low[n - 1] + b[n]
      <4>1. low[n] = low[n - 1] * 1 + b[n]
        BY <2>5, Zenon DEF IsSum
      <4>2. low[n - 1] \in Nat
        BY <1>1, <3>1
      <4> QED
        BY <2>4, <4>1, <4>2
    <3> QED
      BY <3>1, <3>2
  <2> QED
    BY <2>3, <2>6
<1>12. PICK low :
         /\ low \in [0..N -> Nat] /\ low[0] = 0
         /\ \A n \in 1..N : low[n] = low[n - 1] + d[n - 1] * place[n - 1]
  BY <1>11
<1>13. Digitwise(N, d, num, place, low)
  BY <1>2, <1>6, <1>10, <1>12, Zenon DEF Digitwise
<1>14. Rounds(N, d, mult, value)
  BY <1>7, <1>8, Zenon DEF Rounds
<1>15. num[N] < WordSize
  BY <1>5
<1>16. \A n \in 0..N : value[n] = low[n]
  BY <1>1, <1>13, <1>14, <1>15, SumsAreExact
<1>17. ~(N = 0 \/ N > MaxDigits)
  BY <1>1
<1>18. ASSUME NEW n \in 0..(N - 1) PROVE Digit(input_buffer, s, n) \in Digits
  <2>1. s.at + s.size - 1 - n \in s.at..(s.at + s.size - 1)
    BY DEF N
  <2> QED
    BY <2>1 DEF Digit, IsNumber
<1>19. ASSUME NEW n \in 1..N PROVE ~(value[n] < value[n - 1])
  <2>1. low[n] \in Nat /\ low[n - 1] \in Nat
    BY <1>1, <1>13, Round
  <2>2. low[n - 1] <= low[n]
    BY <1>1, <1>13, LowGrows
  <2>3. value[n] = low[n] /\ value[n - 1] = low[n - 1]
    BY <1>1, <1>16
  <2> QED
    BY <2>1, <2>2, <2>3
<1>20. value[N] = num[N]
  <2>1. low[N] = num[N]
    BY <1>1, <1>13, LowGrows
  <2> QED
    BY <1>1, <1>16, <2>1
<1>21. IntoU32(input_buffer, s) = value[N]
  <2>1. IntoU32(input_buffer, s) = IF \/ N = 0 \/ N > MaxDigits
                                      \/ \E n \in 0..(N - 1) : Digit(input_buffer, s, n) \notin Digits
                                      \/ \E n \in 1..N : value[n] < value[n - 1]
                                     THEN Error ELSE value[N]
    BY <1>5, Zenon DEF IntoU32, N
  <2> QED
    BY <2>1, <1>17, <1>18, <1>19
<1> QED
  BY <1>5, <1>20, <1>21

-----------------------------------------------------------------------------
LEMMA InitInv == LineInit => LineInv
<1> SUFFICES ASSUME LineInit PROVE LineInv
  OBVIOUS
<1>1. LineTypeOK
  BY DEF LineInit, LineTypeOK, Nothing
<1>2. AtCommand /\ FirstWordRuns
  BY DEF LineInit, AtCommand, FirstWordRuns, Nothing
<1>3. WriteGetsRest /\ MkfileGetsWord /\ SeekGetsNumber
  BY DEF LineInit, WriteGetsRest, MkfileGetsWord, SeekGetsNumber, Nothing
<1> QED
  BY <1>1, <1>2, <1>3 DEF LineInv

\* While nothing has been given, the properties of what is given say nothing.
LEMMA NothingYet ==
  ASSUME given = Nothing
  PROVE  WriteGetsRest /\ MkfileGetsWord /\ SeekGetsNumber
BY DEF Nothing, WriteGetsRest, MkfileGetsWord, SeekGetsNumber

LEMMA SplitLineInv ==
  ASSUME LineInv, SplitLine PROVE LineInv'
<1> DEFINE q == PastDelimiters(input_buffer, 0, end)
<1>1. /\ end \in Nat /\ end <= LineSize
      /\ input_buffer' = input_buffer /\ end' = end /\ command' = command /\ given' = given
      /\ command = None /\ given = Nothing
      /\ LineTypeOK
  BY DEF LineInv, LineTypeOK, SplitLine, AtCommand
<1>2. /\ q \in 0..end
      /\ q = end \/ input_buffer[q] # Delimiter
      /\ \A r \in 0..(q - 1) : input_buffer[r] = Delimiter
  <2>1. 0 \in Nat /\ 0 <= end
    BY <1>1
  <2> QED
    BY <1>1, <2>1, PastDelimitersIs, Zenon
<1>3. /\ space_split' = [pos |-> q, end |-> end]
      /\ step' = IF q >= end THEN "returned" ELSE "command"
  BY DEF SplitLine, MakeSplit, Done
<1> HIDE DEF q
<1>4. LineTypeOK'
  BY <1>1, <1>2, <1>3 DEF LineTypeOK
<1>5. AtCommand'
  BY <1>1, <1>2, <1>3 DEF AtCommand, Blank, Nothing
<1>6. FirstWordRuns'
  BY <1>1, <1>2, <1>3 DEF FirstWordRuns, Blank
<1>7. (WriteGetsRest /\ MkfileGetsWord /\ SeekGetsNumber)'
  <2>1. given' = Nothing
    BY <1>1
  <2> QED
    BY <2>1 DEF Nothing, WriteGetsRest, MkfileGetsWord, SeekGetsNumber
<1> QED
  BY <1>4, <1>5, <1>6, <1>7 DEF LineInv

LEMMA TakeCommandInv ==
  ASSUME LineInv, TakeCommand PROVE LineInv'
<1> DEFINE p == space_split.pos
           e == WordEnd(input_buffer, p, end)
<1>1. /\ end \in Nat /\ end <= LineSize
      /\ space_split = [pos |-> p, end |-> end]
      /\ p \in 0..(end - 1) /\ input_buffer[p] # Delimiter /\ Blank(0, p)
      /\ input_buffer' = input_buffer /\ end' = end /\ given' = given
      /\ given = Nothing /\ step' = "run"
      /\ LineTypeOK
  BY DEF LineInv, LineTypeOK, TakeCommand, AtCommand
<1>2. PastDelimiters(input_buffer, p, end) = p
  <2> DEFINE q == PastDelimiters(input_buffer, p, end)
  <2>1. q \in p..end /\ \A r \in p..(q - 1) : input_buffer[r] = Delimiter
    BY <1>1, PastDelimitersIs
  <2> HIDE DEF q
  <2>2. q = p
    <3> SUFFICES ASSUME q # p PROVE FALSE
      OBVIOUS
    <3>1. p \in p..(q - 1)
      BY <2>1, <1>1
    <3> QED
      BY <3>1, <2>1, <1>1
  <2> QED
    BY <2>2 DEF q
<1>3. /\ e \in p..end
      /\ e = end \/ input_buffer[e] = Delimiter
      /\ \A r \in p..(e - 1) : input_buffer[r] # Delimiter
  BY <1>1, WordEndIs
<1> HIDE DEF e
<1>4. e > p
  BY <1>1, <1>3
<1>5. space_split.end = end
  BY <1>1
<1>6. ~LastWord(input_buffer, space_split) /\ WordStart(input_buffer, space_split) = p
  BY <1>1, <1>2, <1>5 DEF LastWord, WordStart, Done
<1>7. /\ command' = [at |-> p, size |-> e - p]
      /\ space_split' = [space_split EXCEPT !.pos = e + 1]
  BY <1>5, <1>6 DEF TakeCommand, NextWord, AfterNext, e
<1>8. space_split' = [pos |-> e + 1, end |-> end]
  BY <1>1, <1>7
<1>9. command'.at = p /\ command'.size = e - p
  BY <1>7
<1> HIDE DEF p
<1>10. IsWord(command)' /\ Blank(0, command.at)'
  BY <1>1, <1>3, <1>4, <1>9 DEF IsWord, Blank
<1>11. LineTypeOK'
  BY <1>1, <1>3, <1>8 DEF LineTypeOK
<1>12. AtCommand'
  <2>1. command'.at + command'.size + 1 = e + 1
    BY <1>1, <1>3, <1>9
  <2> QED
    BY <1>1, <1>8, <2>1 DEF AtCommand, Nothing
<1>13. FirstWordRuns'
  BY <1>1, <1>10 DEF FirstWordRuns
<1>14. (WriteGetsRest /\ MkfileGetsWord /\ SeekGetsNumber)'
  <2>1. given' = Nothing
    BY <1>1
  <2> QED
    BY <2>1 DEF Nothing, WriteGetsRest, MkfileGetsWord, SeekGetsNumber
<1> QED
  BY <1>11, <1>12, <1>13, <1>14 DEF LineInv

-----------------------------------------------------------------------------
\* What holds while a command runs, and what is left to show when it returns.
LEMMA Running ==
  ASSUME LineInv, step = "run"
  PROVE  /\ end \in Nat /\ end <= LineSize /\ LineTypeOK
         /\ given = Nothing
         /\ space_split = [pos |-> command.at + command.size + 1, end |-> end]
         /\ IsWord(command) /\ Blank(0, command.at)
         /\ command.at \in Nat /\ command.size \in Nat \ {0}
         /\ command.at + command.size <= end
         /\ command # None
<1>1. /\ end \in Nat /\ end <= LineSize /\ LineTypeOK
      /\ given = Nothing
      /\ space_split = [pos |-> command.at + command.size + 1, end |-> end]
      /\ IsWord(command) /\ Blank(0, command.at)
  BY DEF LineInv, LineTypeOK, AtCommand, FirstWordRuns
<1>2. /\ command.at \in Nat /\ command.size \in Nat \ {0}
      /\ command.at + command.size <= end
  BY <1>1 DEF IsWord
<1>3. command # None
  BY <1>2 DEF None
<1> QED
  BY <1>1, <1>2, <1>3

LEMMA Returned ==
  ASSUME LineInv, step = "run", step' = "returned",
         UNCHANGED <<input_buffer, end, command>>,
         space_split'.end = end, space_split'.pos \in 0..(end + 1),
         given'.how \in {"nothing", "number", "bytes", "name"}
  PROVE  LineTypeOK' /\ AtCommand' /\ FirstWordRuns'
<1>1. LineTypeOK'
  BY Running DEF LineTypeOK
<1>2. IsWord(command)' /\ Blank(0, command.at)'
  BY Running DEF IsWord, Blank
<1>3. AtCommand' /\ FirstWordRuns'
  BY <1>2, Running DEF AtCommand, FirstWordRuns
<1> QED
  BY <1>1, <1>3

LEMMA SeekFileInv ==
  ASSUME LineInv, SeekFile PROVE LineInv'
<1> DEFINE r == Remainder(space_split)
<1>1. /\ step = "run" /\ step' = "returned"
      /\ UNCHANGED <<input_buffer, end, command, space_split>>
      /\ given' = [how |-> "number", number |-> IntoU32(input_buffer, r)]
  BY DEF SeekFile, Is, Give
<1>2. LineTypeOK' /\ AtCommand' /\ FirstWordRuns'
  BY <1>1, Running, Returned
<1>3. WriteGetsRest' /\ MkfileGetsWord'
  BY <1>1 DEF WriteGetsRest, MkfileGetsWord
<1>4. CommandIsAll' = CommandIsAll /\ Rest' = Rest /\ IsNumber(Rest)' = IsNumber(Rest)
  BY <1>1 DEF CommandIsAll, Rest, IsNumber
<1>5. given'.number = IntoU32(input_buffer, r)
  BY <1>1
<1>6. r = IF CommandIsAll THEN [at |-> end + 1, size |-> WordSize - 1] ELSE Rest
  BY <1>1, Running, RemainderIs
<1>7. r.at \in Nat /\ r.size \in Nat /\ (CommandIsAll => r.size > MaxDigits)
  BY <1>1, <1>6, Running DEF Rest, CommandIsAll
<1> HIDE DEF r
<1>8. CASE CommandIsAll \/ ~IsNumber(Rest)
  <2>1. IntoU32(input_buffer, r) = Error
    BY <1>6, <1>7, <1>8, NoNumberIsError
  <2> QED
    BY <1>2, <1>3, <1>4, <1>5, <1>8, <2>1 DEF LineInv, SeekGetsNumber
<1>9. CASE ~(CommandIsAll \/ ~IsNumber(Rest))
  <2>1. r = Rest
    BY <1>6, <1>9
  <2>2. NumberOf(input_buffer, r) < WordSize =>
          IntoU32(input_buffer, r) = NumberOf(input_buffer, r)
    BY <1>7, <1>9, <2>1, NumberIsRead
  <2>3. NumberOf(input_buffer, Rest)' = NumberOf(input_buffer, Rest)
    BY <1>1, <1>4
  <2>4. SeekGetsNumber'
    BY <1>4, <1>5, <1>9, <2>1, <2>2, <2>3 DEF SeekGetsNumber
  <2> QED
    BY <1>2, <1>3, <2>4 DEF LineInv
<1> QED
  BY <1>8, <1>9

LEMMA WriteFileInv ==
  ASSUME LineInv, WriteFile PROVE LineInv'
<1>1. /\ step = "run" /\ step' = "returned"
      /\ UNCHANGED <<input_buffer, end, command, space_split>>
      /\ given' = [how |-> "bytes", bytes |-> Remainder(space_split)]
  BY DEF WriteFile, Is, Give
<1>2. LineTypeOK' /\ AtCommand' /\ FirstWordRuns'
  BY <1>1, Running, Returned
<1>3. MkfileGetsWord' /\ SeekGetsNumber'
  BY <1>1 DEF MkfileGetsWord, SeekGetsNumber
<1>4. WriteGetsRest'
  <2>1. Remainder(space_split) =
          IF CommandIsAll THEN [at |-> end + 1, size |-> WordSize - 1] ELSE Rest
    BY <1>1, Running, RemainderIs
  <2> QED
    BY <1>1, <2>1 DEF WriteGetsRest, CommandIsAll, Rest
<1> QED
  BY <1>2, <1>3, <1>4 DEF LineInv

\* The second word is found where it is, or nothing is left but delimiters.
LEMMA SecondWord ==
  ASSUME LineInv, step = "run"
  PROVE  LET name == NextWord(input_buffer, space_split)
             after == AfterNext(input_buffer, space_split)
         IN  /\ after.end = end /\ after.pos \in 0..(end + 1)
             /\ IF name = None THEN Blank(command.at + command.size, end)
                ELSE IsWord(name) /\ Blank(command.at + command.size, name.at)
<1> DEFINE name == NextWord(input_buffer, space_split)
           after == AfterNext(input_buffer, space_split)
           stop == command.at + command.size
           q == PastDelimiters(input_buffer, stop + 1, end)
           e == WordEnd(input_buffer, q, end)
<1>1. /\ end \in Nat /\ stop \in Nat /\ stop <= end /\ stop > 0
      /\ space_split = [pos |-> stop + 1, end |-> end]
      /\ stop < end => input_buffer[stop] = Delimiter
  BY Running DEF IsWord
<1>2. space_split.pos = stop + 1 /\ space_split.end = end
  BY <1>1
<1> HIDE DEF stop
<1>3. CASE Done(space_split)
  <2>1. name = None /\ after.pos = stop + 1 /\ after.end = end
    BY <1>3, <1>1, <1>2 DEF LastWord, NextWord, AfterNext
  <2>2. stop + 1 >= end
    BY <1>2, <1>3 DEF Done
  <2>3. Blank(stop, end)
    BY <1>1, <2>2 DEF Blank
  <2> QED
    BY <1>1, <2>1, <2>3 DEF stop
<1>4. CASE ~Done(space_split)
  <2>1. stop + 1 < end
    BY <1>1, <1>2, <1>4 DEF Done
  <2>2. /\ q \in (stop + 1)..end
        /\ q = end \/ input_buffer[q] # Delimiter
        /\ \A r \in (stop + 1)..(q - 1) : input_buffer[r] = Delimiter
    BY <1>1, <2>1, PastDelimitersIs
  <2>3. Blank(stop, q)
    BY <1>1, <2>1, <2>2 DEF Blank
  <2>4. LastWord(input_buffer, space_split) <=> q = end
    BY <1>2, <1>4 DEF LastWord
  <2>5. WordStart(input_buffer, space_split) = q
    BY <1>2 DEF WordStart
  <2> HIDE DEF q
  <2>6. CASE q = end
    <3>1. name = None /\ after = [space_split EXCEPT !.pos = end]
      BY <1>2, <1>4, <2>4, <2>6 DEF NextWord, AfterNext
    <3>2. after.pos = end /\ after.end = end
      BY <3>1, <1>1
    <3> QED
      BY <1>1, <2>3, <2>6, <3>1, <3>2 DEF stop
  <2>7. CASE q # end
    <3>1. /\ e \in q..end
          /\ e = end \/ input_buffer[e] = Delimiter
          /\ \A r \in q..(e - 1) : input_buffer[r] # Delimiter
      <4>1. q \in Nat /\ q <= end
        BY <1>1, <2>2
      <4> QED
        BY <1>1, <4>1, WordEndIs, Zenon
    <3>2. name = [at |-> q, size |-> e - q] /\ after = [space_split EXCEPT !.pos = e + 1]
      BY <1>2, <2>4, <2>5, <2>7 DEF NextWord, AfterNext
    <3> HIDE DEF e
    <3>3. after.pos = e + 1 /\ after.end = end /\ name.at = q /\ name.size = e - q
      BY <3>2, <1>1
    <3> HIDE DEF name, after
    <3>4. e > q
      BY <1>1, <2>2, <2>7, <3>1
    <3>5. name # None
      BY <1>1, <2>2, <3>1, <3>3, <3>4 DEF None
    <3>6. input_buffer[q - 1] = Delimiter
      BY <1>1, <2>1, <2>2
    <3>7. IsWord(name)
      <4>1. name.at \in 0..end /\ name.size \in 1..(end - name.at) /\ name.at + name.size = e
        BY <1>1, <2>2, <3>1, <3>3, <3>4
      <4> QED
        BY <4>1, <3>1, <3>3, <3>6 DEF IsWord
    <3>8. after.pos \in 0..(end + 1)
      BY <1>1, <2>2, <3>1, <3>3
    <3> QED
      BY <2>3, <3>3, <3>5, <3>7, <3>8 DEF stop, name, after
  <2> QED
    BY <2>6, <2>7
<1> QED
  BY <1>3, <1>4

LEMMA MakeFileInv ==
  ASSUME LineInv, MakeFile PROVE LineInv'
<1>1. /\ step = "run" /\ step' = "returned"
      /\ UNCHANGED <<input_buffer, end, command>>
      /\ space_split' = AfterNext(input_buffer, space_split)
      /\ given' = [how |-> "name", name |-> NextWord(input_buffer, space_split)]
  BY DEF MakeFile, Is, Give
<1>2. LineTypeOK' /\ AtCommand' /\ FirstWordRuns'
  BY <1>1, SecondWord, Returned
<1>3. WriteGetsRest' /\ SeekGetsNumber'
  BY <1>1 DEF WriteGetsRest, SeekGetsNumber
<1>4. MkfileGetsWord'
  BY <1>1, SecondWord DEF MkfileGetsWord, IsWord, Blank
<1> QED
  BY <1>2, <1>3, <1>4 DEF LineInv

LEMMA NothingGivenInv ==
  ASSUME LineInv, NothingGiven PROVE LineInv'
<1>1. /\ step = "run" /\ step' = "returned"
      /\ UNCHANGED <<input_buffer, end, space_split, command, given>>
  BY DEF NothingGiven
<1>2. given' = Nothing
  BY <1>1, Running
<1>3. LineTypeOK' /\ AtCommand' /\ FirstWordRuns'
  BY <1>1, <1>2, Running, Returned DEF Nothing
<1>4. (WriteGetsRest /\ MkfileGetsWord /\ SeekGetsNumber)'
  BY <1>2 DEF Nothing, WriteGetsRest, MkfileGetsWord, SeekGetsNumber
<1> QED
  BY <1>3, <1>4 DEF LineInv

LEMMA StutterInv ==
  ASSUME LineInv, UNCHANGED lineVars PROVE LineInv'
BY DEF LineInv, lineVars, LineTypeOK, AtCommand, FirstWordRuns, WriteGetsRest, MkfileGetsWord,
       SeekGetsNumber, IsWord, Blank, CommandIsAll, Rest, IsNumber

LEMMA NextInv == LineInv /\ [LineNext]_lineVars => LineInv'
BY SplitLineInv, TakeCommandInv, SeekFileInv, WriteFileInv, MakeFileInv, NothingGivenInv,
   StutterInv DEF LineNext

-----------------------------------------------------------------------------
\* The invariant holds in every state of parse_input, for every line.
THEOREM Invariant == LineSpec => []LineInv
<1> QED
  BY InitInv, NextInv, PTL DEF LineSpec

\* The state keeps its types: the split never moves further than one position
\* past the end of the line.
THEOREM TypeCorrect == LineSpec => []LineTypeOK
<1>1. LineInv => LineTypeOK
  BY DEF LineInv
<1> QED
  BY <1>1, Invariant, PTL

\* The command that runs is the first word of the line, whatever the buffer
\* holds behind it, and parse_input unwraps no empty option.
THEOREM CommandIsFirstWord == LineSpec => []FirstWordRuns
<1>1. LineInv => FirstWordRuns
  BY DEF LineInv
<1> QED
  BY <1>1, Invariant, PTL

\* write is given the rest of the line, and all of memory if there is none.
THEOREM WriteIsGivenRest == LineSpec => []WriteGetsRest
<1>1. LineInv => WriteGetsRest
  BY DEF LineInv
<1> QED
  BY <1>1, Invariant, PTL

\* mkfile is given the second word of the line, or none if there is none.
THEOREM MkfileIsGivenWord == LineSpec => []MkfileGetsWord
<1>1. LineInv => MkfileGetsWord
  BY DEF LineInv
<1> QED
  BY <1>1, Invariant, PTL

\* seek is given the number the rest of the line says, if that fits a word, and
\* is refused whatever is no number, a size that wrapped included.
THEOREM SeekIsGivenNumber == LineSpec => []SeekGetsNumber
<1>1. LineInv => SeekGetsNumber
  BY DEF LineInv
<1> QED
  BY <1>1, Invariant, PTL
=============================================================================
