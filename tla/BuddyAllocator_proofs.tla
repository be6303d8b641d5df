------------------------ MODULE BuddyAllocator_proofs ------------------------
(***************************************************************************)
(* Proofs about BuddyAllocator, for pools of every power of two and any    *)
(* requests, while blocks are freed in the reverse order of their          *)
(* allocation, or as rows of blocks of one size freed from their start. In *)
(* the first order the free lists go back, free by free, to what they were *)
(* before each allocation; in the second, what is freed and what was never *)
(* lent lie on either side of the row, a block of an order at most on each.*)
(***************************************************************************)
EXTENDS BuddyAllocator, WellFoundedInduction, TLAPS

USE ListsAssumption

-----------------------------------------------------------------------------
\* Functions that are defined by recursion on numbers up to a last one.

\* A set of natural numbers that is not empty has a least member.
LEMMA LeastMember ==
  ASSUME NEW S, S \subseteq Nat, S # {}
  PROVE  \E x \in S : \A y \in S : x <= y
<1>1. PICK x \in S : \A y \in S : ~(<<y, x>> \in OpToRel(<, Nat))
  BY NatLessThanWellFounded, WFMin, Zenon
<1>2. \A y \in S : x <= y
  <2> SUFFICES ASSUME NEW y \in S, ~(x <= y) PROVE FALSE
    OBVIOUS
  <2>1. <<y, x>> \in Nat \X Nat /\ y < x
    BY SMT
  <2> QED
    BY <2>1, <1>1 DEF OpToRel
<1> QED
  BY <1>2

\* What holds of 0, and of n when it does of n - 1, holds up to N.
LEMMA Upwards ==
  ASSUME NEW N \in Nat, NEW T, 0 \in T, \A n \in 1..N : n - 1 \in T => n \in T
  PROVE  \A n \in 0..N : n \in T
<1> DEFINE F == {n \in 0..N : n \notin T}
<1> SUFFICES ASSUME F # {} PROVE FALSE
  OBVIOUS
<1>1. PICK n \in F : \A m \in F : n <= m
  <2>1. F \subseteq Nat
    OBVIOUS
  <2> HIDE DEF F
  <2> QED
    BY <2>1, LeastMember
<1>2. n \in 1..N /\ n - 1 \in 0..N /\ ~(n <= n - 1)
  OBVIOUS
<1>3. n - 1 \in T
  BY <1>1, <1>2
<1> QED
  BY <1>2, <1>3

Follows(N, S, first, next, f) ==
  /\ f \in [0..N -> S]
  /\ f[0] = first
  /\ \A n \in 1..N : f[n] = next[n][f[n - 1]]

LEMMA Recursion ==
  ASSUME NEW N \in Nat, NEW S, NEW first \in S, NEW next \in [1..N -> [S -> S]]
  PROVE  \E f : Follows(N, S, first, next, f)
<1> DEFINE Upto(m, f) == /\ f \in [0..m -> S]
                         /\ f[0] = first
                         /\ \A n \in 1..m : f[n] = next[n][f[n - 1]]
           T == {m \in 0..N : ~\E f : Upto(m, f)}
<1>1. T = {}
  <2> SUFFICES ASSUME T # {} PROVE FALSE
    OBVIOUS
  <2>1. PICK m \in T : \A y \in T : m <= y
    <3>1. T \subseteq Nat
      OBVIOUS
    <3> HIDE DEF T
    <3> QED
      BY <3>1, LeastMember
  <2>2. m \in 0..N /\ ~\E f : Upto(m, f)
    OBVIOUS
  <2>3. m # 0
    <3>1. Upto(0, [n \in 0..0 |-> first])
      OBVIOUS
    <3> QED
      BY <2>2, <3>1
  <2>4. m - 1 \in 0..N /\ ~(m <= m - 1)
    BY <2>2, <2>3
  <2>5. PICK f : Upto(m - 1, f)
    BY <2>1, <2>4
  <2> DEFINE g == [n \in 0..m |-> IF n = m THEN next[m][f[m - 1]] ELSE f[n]]
  <2>6. next[m][f[m - 1]] \in S
    <3>1. f[m - 1] \in S /\ m \in 1..N
      BY <2>2, <2>3, <2>5
    <3> QED
      BY <3>1
  <2>7. g \in [0..m -> S] /\ g[0] = first
    BY <2>2, <2>3, <2>5, <2>6
  <2>8. ASSUME NEW n \in 1..m PROVE g[n] = next[n][g[n - 1]]
    <3>1. g[n - 1] = f[n - 1]
      BY <2>2
    <3>2. CASE n = m
      BY <3>1, <3>2, <2>2
    <3>3. CASE n # m
      BY <3>1, <3>3, <2>2, <2>5
    <3> QED
      BY <3>2, <3>3
  <2> QED
    BY <2>2, <2>7, <2>8
<1>2. \E f : Upto(N, f)
  <2>1. N \in 0..N
    OBVIOUS
  <2> HIDE DEF Upto
  <2> QED
    BY <1>1, <2>1
<1>3. PICK f : Upto(N, f)
  BY <1>2
<1> QED
  BY <1>3 DEF Follows

\* A function that keeps to the recursion takes its values in S.
LEMMA RecursionIn ==
  ASSUME NEW N \in Nat, NEW S, NEW g, g = [n \in 0..N |-> g[n]], g[0] \in S,
         \A n \in 1..N : g[n - 1] \in S => g[n] \in S
  PROVE  g \in [0..N -> S]
<1> DEFINE T == {n \in 0..N : g[n] \in S}
<1>1. 0 \in T /\ \A n \in 1..N : n - 1 \in T => n \in T
  BY SMTT(30)
<1> HIDE DEF T
<1>2. \A n \in 0..N : n \in T
  BY <1>1, Upwards
<1> QED
  BY <1>2 DEF T

-----------------------------------------------------------------------------
\* Sizes and alignments.

LEMMA OrdersAre ==
  /\ NumLists \in Nat /\ NumLists - 1 \in Nat /\ Orders = 0..(NumLists - 1)
  /\ 0 \in Orders /\ NumLists - 1 \in Orders
BY DEF Orders

LEMMA SizeIs ==
  /\ Size \in [Orders -> Nat \ {0}]
  /\ Size[0] = 1
  /\ \A n \in 1..(NumLists - 1) : Size[n] = 2 * Size[n - 1]
<1> DEFINE N == NumLists - 1
           S == Nat \ {0}
           next == [n \in 1..N |-> [x \in S |-> 2 * x]]
           P(f) == f = [n \in Orders |-> IF n = 0 THEN 1 ELSE 2 * f[n - 1]]
           size == CHOOSE f : P(f)
<1>1. N \in Nat /\ Orders = 0..N /\ 1 \in S
  BY OrdersAre
<1>2. next \in [1..N -> [S -> S]] /\ \A n \in 1..N, x \in S : next[n][x] = 2 * x
  OBVIOUS
<1> HIDE DEF next
<1>3. PICK f : Follows(N, S, 1, next, f)
  BY <1>1, <1>2, Recursion
<1>4. /\ f \in [Orders -> S] /\ f[0] = 1
      /\ \A n \in 1..N : f[n - 1] \in S /\ f[n] = 2 * f[n - 1]
  <2>1. \A n \in 1..N : n - 1 \in 0..N
    BY <1>1
  <2> QED
    BY <1>1, <1>2, <1>3, <2>1 DEF Follows
<1>5. P(f)
  <2>1. \A n \in Orders : n # 0 => n \in 1..N
    BY <1>1
  <2> QED
    BY <1>4, <2>1
<1>6. P(size)
  BY <1>5
<1>7. Size = size
  BY Zenon DEF Size
<1> HIDE DEF size
<1>8. size = [n \in 0..N |-> size[n]] /\ size[0] = 1 /\ \A n \in 1..N : size[n] = 2 * size[n - 1]
  <2>1. size = [n \in Orders |-> size[n]]
    BY <1>6
  <2>2. \A n \in Orders : size[n] = IF n = 0 THEN 1 ELSE 2 * size[n - 1]
    BY <1>6
  <2>3. \A n \in 1..N : n \in Orders /\ n # 0
    BY <1>1
  <2>4. size = [n \in 0..N |-> size[n]]
    BY <1>1, <2>1
  <2>5. size[0] = 1
    BY <1>1, <2>2, OrdersAre
  <2> QED
    BY <2>2, <2>3, <2>4, <2>5
<1>9. size \in [0..N -> S]
  <2>1. \A n \in 1..N : size[n - 1] \in S => size[n] \in S
    BY <1>8, SMTT(30)
  <2> QED
    BY <1>1, <1>8, <2>1, RecursionIn
<1> QED
  BY <1>1, <1>7, <1>8, <1>9

LEMMA SizeGrows ==
  ASSUME NEW n \in Orders, NEW m \in Orders, n < m
  PROVE  2 * Size[n] <= Size[m] /\ Size[n] \in Nat \ {0} /\ Size[m] \in Nat \ {0}
<1> DEFINE N == NumLists - 1
           T == {k \in 0..N : n < k => 2 * Size[n] <= Size[k]}
<1>1. N \in Nat /\ Orders = 0..N
  BY OrdersAre
<1>2. 0 \in T
  BY <1>1
<1>3. ASSUME NEW k \in 1..N, k - 1 \in T PROVE k \in T
  <2>1. Size[k] = 2 * Size[k - 1] /\ Size[k - 1] \in Nat /\ Size[n] \in Nat
    BY <1>1, SizeIs
  <2>2. n < k => n = k - 1 \/ n < k - 1
    BY <1>1
  <2> QED
    BY <1>3, <2>1, <2>2
<1> HIDE DEF T
<1>4. m \in T
  BY <1>1, <1>2, <1>3, Upwards
<1> QED
  BY <1>1, <1>4, SizeIs DEF T

LEMMA NextSize ==
  ASSUME NEW n \in Orders, NEW m \in Orders, n < m
  PROVE  n + 1 \in Orders /\ n + 1 <= m /\ Size[n + 1] = 2 * Size[n]
<1>1. PICK k \in Orders : k = n + 1
  BY OrdersAre
<1>2. k \in 1..(NumLists - 1) /\ k - 1 = n /\ k <= m
  BY <1>1, OrdersAre
<1>3. Size[k] = 2 * Size[k - 1]
  BY <1>2, SizeIs
<1> QED
  BY <1>1, <1>2, <1>3

Multiple(x, n) == \E q \in Nat : x = q * Size[n]

\* The upper half of an aligned block of the next order.
Upper(x, n) == \E q \in Nat : x = q * (2 * Size[n]) + Size[n]

LEMMA MultipleBelow ==
  ASSUME NEW x \in Nat, NEW m \in Orders, Multiple(x, m), NEW n \in Orders, n <= m
  PROVE  Multiple(x, n)
<1> DEFINE T == {k \in 0..m : Multiple(x, m - k)}
<1>1. m \in Nat /\ Orders = 0..(NumLists - 1) /\ NumLists \in Nat
  BY OrdersAre
<1>2. 0 \in T
  BY <1>1
<1>3. ASSUME NEW k \in 1..m, k - 1 \in T PROVE k \in T
  <2>1. PICK q \in Nat : x = q * Size[m - (k - 1)]
    BY <1>3 DEF Multiple
  <2>2. Size[m - (k - 1)] = 2 * Size[m - k] /\ Size[m - k] \in Nat
    <3>1. m - (k - 1) \in 1..(NumLists - 1) /\ m - (k - 1) - 1 = m - k /\ m - k \in Orders
      BY <1>1
    <3> QED
      BY <3>1, SizeIs
  <2>3. PICK s \in Nat : s = Size[m - k]
    BY <2>2
  <2>4. x = (2 * q) * s /\ 2 * q \in Nat
    BY <2>1, <2>2, <2>3
  <2> QED
    BY <2>3, <2>4 DEF Multiple
<1> HIDE DEF T
<1>4. m - n \in 0..m /\ m - (m - n) = n
  BY <1>1
<1>5. m - n \in T
  BY <1>1, <1>2, <1>3, <1>4, Upwards
<1> QED
  BY <1>4, <1>5 DEF T

\* A number that is none of 0 and the sizes' multiples has a remainder.
LEMMA Remainder ==
  ASSUME NEW q \in Nat, NEW m \in Nat \ {0}, NEW r \in 0..(m - 1)
  PROVE  (q * m + r) % m = r
OBVIOUS

LEMMA UpperIsMultiple ==
  ASSUME NEW x, NEW n \in Orders, Upper(x, n)
  PROVE  x \in Nat /\ Multiple(x, n)
<1>1. PICK q \in Nat : x = q * (2 * Size[n]) + Size[n]
  BY DEF Upper
<1>2. PICK s \in Nat : s = Size[n]
  BY SizeIs
<1>3. x = (2 * q + 1) * s /\ 2 * q + 1 \in Nat /\ x \in Nat
  BY <1>1, <1>2
<1> QED
  BY <1>2, <1>3 DEF Multiple

\* Where a split leaves its upper halves, and that a block which starts there
\* comes first of two in every smaller order.
LEMMA Halves ==
  ASSUME NEW x \in Nat, NEW n \in Orders, NEW j \in Orders, j < n,
         Multiple(x, n)
  PROVE  /\ Upper(x + Size[j], j)
         /\ x % (2 * Size[j]) = 0
<1>1. j + 1 \in Orders /\ j + 1 <= n /\ Size[j + 1] = 2 * Size[j]
  BY NextSize
<1>2. PICK q \in Nat : x = q * Size[j + 1]
  BY <1>1, MultipleBelow DEF Multiple
<1>3. PICK s \in Nat \ {0} : s = Size[j]
  BY SizeIs
<1>4. Size[j + 1] = 2 * s /\ 2 * s \in Nat \ {0}
  BY <1>1, <1>3
<1>5. x = q * (2 * s) + 0
  BY <1>2, <1>4
<1>6. x % (2 * s) = 0
  <2>1. (q * (2 * s) + 0) % (2 * s) = 0
    BY <1>4, Remainder
  <2> QED
    BY <1>5, <2>1
<1> QED
  BY <1>3, <1>5, <1>6 DEF Upper

\* A block that starts as an upper half comes second in its order.
LEMMA ComesSecond ==
  ASSUME NEW x, NEW n \in Orders, Upper(x, n)
  PROVE  x % (2 * Size[n]) # 0 /\ x - Size[n] \in Nat
<1>1. PICK q \in Nat : x = q * (2 * Size[n]) + Size[n]
  BY DEF Upper
<1>2. PICK s \in Nat \ {0} : s = Size[n]
  BY SizeIs
<1>3. x = q * (2 * s) + s /\ 2 * s \in Nat \ {0} /\ s \in 0..(2 * s - 1)
  BY <1>1, <1>2
<1>4. (q * (2 * s) + s) % (2 * s) = s
  BY <1>3, Remainder
<1>5. x - s = q * (2 * s) /\ q * (2 * s) \in Nat
  BY <1>3
<1> QED
  BY <1>2, <1>3, <1>4, <1>5

\* In a pool of a power of two an upper half ends within the pool.
LEMMA UpperFits ==
  ASSUME NEW x \in Blocks, NEW n \in Orders, Upper(x, n)
  PROVE  x + Size[n] <= NumBlocks
<1>1. PICK m \in Orders : NumBlocks = Size[m]
  BY PoolAssumption
<1>2. PICK q \in Nat : x = q * (2 * Size[n]) + Size[n]
  BY DEF Upper
<1>3. PICK s \in Nat \ {0} : s = Size[n]
  BY SizeIs
<1>4. x = q * (2 * s) + s /\ x < NumBlocks /\ NumBlocks \in Nat \ {0}
  BY <1>1, <1>2, <1>3, SizeIs DEF Blocks
<1>5. s <= x
  <2>1. q * (2 * s) \in Nat
    BY <1>3
  <2> QED
    BY <1>4, <2>1
<1>6. n < m
  <2> SUFFICES ASSUME ~(n < m) PROVE FALSE
    OBVIOUS
  <2>1. n = m \/ m < n
    BY OrdersAre
  <2>2. NumBlocks <= s
    BY <1>1, <1>3, <2>1, SizeGrows, SizeIs
  <2> QED
    BY <1>3, <1>4, <1>5, <2>2
<1>7. PICK c \in Nat : NumBlocks = c * (2 * s)
  <2>1. n + 1 \in Orders /\ n + 1 <= m /\ Size[n + 1] = 2 * s
    BY <1>3, <1>6, NextSize
  <2>2. Multiple(NumBlocks, m)
    <3>1. NumBlocks = 1 * Size[m] /\ 1 \in Nat
      BY <1>1, <1>4
    <3> QED
      BY <3>1 DEF Multiple
  <2>3. Multiple(NumBlocks, n + 1)
    BY <1>4, <2>1, <2>2, MultipleBelow
  <2> QED
    BY <2>1, <2>3 DEF Multiple
<1>8. q < c
  <2> SUFFICES ASSUME c <= q PROVE FALSE
    OBVIOUS
  <2>1. c * (2 * s) <= q * (2 * s)
    BY <1>3
  <2> QED
    BY <1>3, <1>4, <1>7, <2>1
<1>9. (q + 1) * (2 * s) <= c * (2 * s)
  BY <1>3, <1>8
<1>10. (q + 1) * (2 * s) = q * (2 * s) + s + s
  BY <1>3
<1> QED
  BY <1>3, <1>4, <1>7, <1>9, <1>10

\* A block that comes first of two.
Even(x, n) == \E q \in Nat : x = q * (2 * Size[n])

LEMMA EvenOrUpper ==
  ASSUME NEW x \in Nat, NEW n \in Orders
  PROVE  /\ Multiple(x, n) => Even(x, n) \/ Upper(x, n)
         /\ ~(Even(x, n) /\ Upper(x, n))
         /\ Even(x, n) => Multiple(x, n) /\ x % (2 * Size[n]) = 0
         /\ Even(x, n) => Upper(x + Size[n], n)
         /\ Upper(x, n) => Even(x + Size[n], n)
<1>1. PICK s \in Nat \ {0} : s = Size[n]
  BY SizeIs
<1>2. ASSUME Multiple(x, n) PROVE Even(x, n) \/ Upper(x, n)
  <2>1. PICK q \in Nat : x = q * s
    BY <1>1, <1>2 DEF Multiple
  <2>2. PICK d \in Nat : q = 2 * d \/ q = 2 * d + 1
    <3>1. q \div 2 \in Nat /\ (q = 2 * (q \div 2) \/ q = 2 * (q \div 2) + 1)
      OBVIOUS
    <3> QED
      BY <3>1
  <2>3. x = d * (2 * s) \/ x = d * (2 * s) + s
    BY <1>1, <2>1, <2>2
  <2> QED
    BY <1>1, <2>3 DEF Even, Upper
<1>3. ASSUME Even(x, n) PROVE Multiple(x, n) /\ x % (2 * s) = 0
  <2>1. PICK q \in Nat : x = q * (2 * s)
    BY <1>1, <1>3 DEF Even
  <2>2. x = (2 * q) * s /\ 2 * q \in Nat
    BY <1>1, <2>1
  <2>3. PICK w \in Nat \ {0} : w = 2 * s /\ x = q * w + 0
    BY <1>1, <2>1
  <2>4. (q * w + 0) % w = 0
    <3>1. 0 \in 0..(w - 1)
      OBVIOUS
    <3> QED
      BY <3>1, Remainder
  <2>5. Multiple(x, n)
    <3>1. PICK r \in Nat : r = 2 * q /\ x = r * s
      BY <2>2
    <3> QED
      BY <1>1, <3>1 DEF Multiple
  <2>6. x % (2 * s) = 0
    BY <2>3, <2>4
  <2> QED
    BY <2>5, <2>6
<1>4. ~(Even(x, n) /\ Upper(x, n))
  BY <1>1, <1>3, ComesSecond
<1>5. Even(x, n) => Upper(x + Size[n], n)
  BY DEF Even, Upper
<1>6. ASSUME Upper(x, n) PROVE Even(x + Size[n], n)
  <2>1. PICK q \in Nat : x = q * (2 * s) + s
    BY <1>1, <1>6 DEF Upper
  <2>2. PICK w \in Nat : w = 2 * s /\ x + s = q * w + w
    BY <1>1, <2>1
  <2>3. x + s = (q + 1) * w /\ q + 1 \in Nat
    BY <2>2
  <2> QED
    BY <1>1, <2>2, <2>3 DEF Even
<1> QED
  BY <1>1, <1>2, <1>3, <1>4, <1>5, <1>6

LEMMA EvenIsNext ==
  ASSUME NEW x \in Nat, NEW n \in Orders, NEW m \in Orders, n < m
  PROVE  /\ Even(x, n) => Multiple(x, n + 1)
         /\ Multiple(x, m) => Even(x, n)
         /\ Even(x, m) \/ Upper(x, m) => Even(x, n)
<1>1. n + 1 \in Orders /\ n + 1 <= m /\ Size[n + 1] = 2 * Size[n]
  BY NextSize
<1>2. Even(x, n) <=> Multiple(x, n + 1)
  BY <1>1 DEF Even, Multiple
<1>3. Multiple(x, m) => Even(x, n)
  BY <1>1, <1>2, MultipleBelow
<1>4. Even(x, m) \/ Upper(x, m) => Multiple(x, m)
  BY EvenOrUpper, UpperIsMultiple
<1> QED
  BY <1>2, <1>3, <1>4

\* A block that comes first of two and does not start the pool ends, with the
\* other one, within it.
LEMMA EvenFits ==
  ASSUME NEW x \in Blocks, NEW n \in Orders, Even(x, n), x # 0
  PROVE  x + 2 * Size[n] <= NumBlocks
<1>1. PICK m \in Orders : NumBlocks = Size[m]
  BY PoolAssumption
<1>2. PICK q \in Nat : x = q * (2 * Size[n])
  BY DEF Even
<1>3. PICK s \in Nat \ {0} : s = 2 * Size[n]
  BY SizeIs
<1>4. x = q * s /\ x < NumBlocks /\ NumBlocks \in Nat \ {0} /\ x \in Nat
  BY <1>1, <1>2, <1>3, SizeIs DEF Blocks
<1>5. s <= x
  <2>1. q # 0
    BY <1>3, <1>4
  <2>2. 1 * s <= q * s
    BY <1>3, <2>1
  <2> QED
    BY <1>3, <1>4, <2>2
<1>6. n < m
  <2> SUFFICES ASSUME ~(n < m) PROVE FALSE
    OBVIOUS
  <2>1. n = m \/ m < n
    BY OrdersAre
  <2>2. NumBlocks <= s
    BY <1>1, <1>3, <2>1, SizeGrows, SizeIs
  <2> QED
    BY <1>3, <1>4, <1>5, <2>2
<1>7. PICK c \in Nat : NumBlocks = c * s
  <2>1. n + 1 \in Orders /\ n + 1 <= m /\ Size[n + 1] = s
    BY <1>3, <1>6, NextSize
  <2>2. Multiple(NumBlocks, m)
    <3>1. NumBlocks = 1 * Size[m] /\ 1 \in Nat
      BY <1>1, <1>4
    <3> QED
      BY <3>1 DEF Multiple
  <2>3. Multiple(NumBlocks, n + 1)
    BY <1>4, <2>1, <2>2, MultipleBelow
  <2> QED
    BY <2>1, <2>3 DEF Multiple
<1>8. q < c
  <2> SUFFICES ASSUME c <= q PROVE FALSE
    OBVIOUS
  <2>1. c * s <= q * s
    BY <1>3
  <2> QED
    BY <1>3, <1>4, <1>7, <2>1
<1>9. (q + 1) * s <= c * s /\ (q + 1) * s = q * s + s
  BY <1>3, <1>8
<1> QED
  BY <1>3, <1>4, <1>7, <1>9

\* An upper half in the pool is not of the last order.
LEMMA UpperHasNext ==
  ASSUME NEW x \in Blocks, NEW n \in Orders, Upper(x, n)
  PROVE  n < NumLists - 1 /\ n + 1 \in Orders /\ Size[n + 1] = 2 * Size[n]
<1>1. PICK m \in Orders : NumBlocks = Size[m]
  BY PoolAssumption
<1>2. x - Size[n] \in Nat /\ x \in Nat /\ x < NumBlocks /\ Size[n] \in Nat \ {0}
  BY ComesSecond, UpperIsMultiple, SizeIs, <1>1 DEF Blocks
<1>3. Size[n] < NumBlocks /\ Size[m] \in Nat
  BY <1>1, <1>2, SizeIs
<1>4. n # NumLists - 1
  <2> SUFFICES ASSUME n = NumLists - 1 PROVE FALSE
    OBVIOUS
  <2>1. m = n \/ m < n
    BY OrdersAre
  <2> QED
    BY <1>1, <1>3, <2>1, SizeGrows
<1>5. n < NumLists - 1
  BY <1>4, OrdersAre
<1> QED
  BY <1>5, NextSize, OrdersAre

-----------------------------------------------------------------------------
\* Layouts: the blocks in the lists, of which each has one at most.

Layouts == [Orders -> Blocks \union {NULL_BLOCK}]
Loans   == [block : Blocks, order : Orders]
Entries == [next : Blocks \union {NULL_BLOCK}, prev : Blocks \union {NULL_BLOCK},
            order : Orders, free : BOOLEAN]

\* Page p lies in the block of order n that starts at b.
Covers(b, n, p) == b <= p /\ p < b + Size[n]

InHeld(h, k, p) == Covers(h[k].block, h[k].order, p)
InFree(L, n, p) == L[n] # NULL_BLOCK /\ Covers(L[n], n, p)

\* Every page lies in one of the first k loans or in one free block, once.
Tiled(L, h, k) ==
  \A p \in Blocks :
    /\ (\E i \in 1..k : InHeld(h, i, p)) \/ (\E n \in Orders : InFree(L, n, p))
    /\ \A i, j \in 1..k : InHeld(h, i, p) /\ InHeld(h, j, p) => i = j
    /\ \A n, m \in Orders : InFree(L, n, p) /\ InFree(L, m, p) => n = m
    /\ \A i \in 1..k, n \in Orders : ~(InHeld(h, i, p) /\ InFree(L, n, p))

\* A free block is the upper half of two, and the other one starts a loan.
Paired(L, h, k) ==
  \A n \in Orders :
    L[n] # NULL_BLOCK /\ L[n] # 0 =>
      Upper(L[n], n) /\ \E i \in 1..k : h[i].block = L[n] - Size[n]

FirstFrom(L, l, i) ==
  /\ i \in Orders /\ l <= i /\ L[i] # NULL_BLOCK
  /\ \A j \in Orders : l <= j /\ j < i => L[j] = NULL_BLOCK

\* The layout when a block of order l has been split off that of order i.
AfterTaking(L, i, l) ==
  [j \in Orders |->
     IF l <= j /\ j < i /\ L[i] + Size[j] \in Blocks THEN L[i] + Size[j]
     ELSE IF j = i THEN NULL_BLOCK ELSE L[j]]

Taken(L, M, b, l) == \E i \in Orders : FirstFrom(L, l, i) /\ b = L[i] /\ M = AfterTaking(L, i, l)

Alone(t)  == [j \in Orders |-> IF j = t THEN 0 ELSE NULL_BLOCK]
Whole(L)  == \E t \in Orders : NumBlocks <= Size[t] /\ L = Alone(t)

\* The layout before each loan, of which each follows from the one before.
History(was, h) ==
  /\ was \in [0..Len(h) -> Layouts]
  /\ Whole(was[0])
  /\ \A k \in 1..Len(h) : Taken(was[k - 1], was[k], h[k].block, h[k].order)
  /\ \A k \in 0..Len(h) : Tiled(was[k], h, k) /\ Paired(was[k], h, k)

Reached(L, h) == \E was : History(was, h) /\ L = was[Len(h)]

\* What the pages keep of the blocks that start at them.
Recorded(L, pages, h) ==
  /\ \A n \in Orders : L[n] # NULL_BLOCK =>
       /\ pages[L[n]].next = NULL_BLOCK /\ pages[L[n]].prev = NULL_BLOCK
       /\ pages[L[n]].free
       /\ L[n] # 0 => pages[L[n]].order = n
  /\ \A k \in 1..Len(h) :
       pages[h[k].block].order = h[k].order /\ ~pages[h[k].block].free

LifoInv ==
  /\ free_lists \in Layouts /\ blocks \in [Blocks -> Entries] /\ live \in Seq(Loans)
  /\ Reached(free_lists, live)
  /\ Recorded(free_lists, blocks, live)

LEMMA PoolIs ==
  /\ NumBlocks \in Nat \ {0} /\ Blocks = 0..(NumBlocks - 1) /\ Blocks \subseteq Nat
  /\ 0 \in Blocks /\ NULL_BLOCK \notin Blocks /\ NULL_BLOCK = -1
<1>1. PICK m \in Orders : NumBlocks = Size[m]
  BY PoolAssumption
<1>2. NumBlocks \in Nat \ {0}
  BY <1>1, SizeIs
<1> QED
  BY <1>2 DEF Blocks, NULL_BLOCK

LEMMA SplitCovers ==
  ASSUME NEW b \in Nat, NEW l \in Orders, NEW i \in Orders, l <= i, NEW p \in Nat
  PROVE  /\ Covers(b, l, p) => Covers(b, i, p)
         /\ \A j \in Orders : l <= j /\ j < i /\ Covers(b + Size[j], j, p) =>
              Covers(b, i, p) /\ ~Covers(b, l, p)
         /\ \A j, m \in Orders :
              j < i /\ m < i /\ Covers(b + Size[j], j, p) /\ Covers(b + Size[m], m, p) => j = m
         /\ Covers(b, i, p) =>
              Covers(b, l, p) \/ \E j \in Orders : l <= j /\ j < i /\ Covers(b + Size[j], j, p)
<1>1. Orders = 0..(NumLists - 1) /\ NumLists \in Nat /\ l \in Nat /\ i \in Nat
  BY OrdersAre
<1>2. \A j \in Orders : Size[j] \in Nat \ {0}
  BY SizeIs
<1>3. \A j, m \in Orders : j < m => 2 * Size[j] <= Size[m]
  BY SizeGrows
<1>4. Covers(b, l, p) => Covers(b, i, p)
  <2>1. l = i \/ l < i
    BY <1>1
  <2> QED
    BY <1>2, <1>3, <2>1 DEF Covers
<1>5. ASSUME NEW j \in Orders, l <= j, j < i, Covers(b + Size[j], j, p)
      PROVE  Covers(b, i, p) /\ ~Covers(b, l, p)
  <2>1. 2 * Size[j] <= Size[i] /\ Size[l] <= Size[j]
    <3>1. l = j \/ l < j
      BY <1>1, <1>5
    <3> QED
      BY <1>2, <1>3, <1>5, <3>1
  <2> QED
    BY <1>2, <1>5, <2>1 DEF Covers
<1>6. ASSUME NEW j \in Orders, NEW m \in Orders, j < m,
             Covers(b + Size[j], j, p), Covers(b + Size[m], m, p)
      PROVE  FALSE
  BY <1>2, <1>3, <1>6 DEF Covers
<1>7. ASSUME Covers(b, i, p), ~Covers(b, l, p)
      PROVE  \E j \in Orders : l <= j /\ j < i /\ Covers(b + Size[j], j, p)
  <2> DEFINE Q(k) == \E j \in Orders : l <= j /\ j < l + k /\ Covers(b + Size[j], j, p)
             T == {k \in 0..(i - l) : Covers(b, l + k, p) => Q(k)}
  <2>1. 0 \in T
    BY <1>1, <1>7
  <2>2. ASSUME NEW k \in 1..(i - l), k - 1 \in T PROVE k \in T
    <3> SUFFICES ASSUME Covers(b, l + k, p) PROVE Q(k)
      OBVIOUS
    <3>1. l + k - 1 \in Orders /\ l + k \in Orders /\ l + k - 1 < l + k
      BY <1>1
    <3>2. PICK m \in Orders : m = l + k - 1
      BY <3>1
    <3>3. Size[l + k] = 2 * Size[m]
      <4>1. m + 1 = l + k /\ m < l + k
        BY <1>1, <3>2
      <4> QED
        BY <3>1, <4>1, NextSize
    <3>4. CASE p < b + Size[m]
      <4>1. Covers(b, m, p)
        BY <3>4, <1>7 DEF Covers
      <4>2. l + (k - 1) = m
        BY <1>1, <3>2
      <4>3. Q(k - 1)
        BY <2>2, <4>1, <4>2
      <4> QED
        BY <1>1, <4>3
    <3>5. CASE ~(p < b + Size[m])
      <4>1. Covers(b + Size[m], m, p)
        BY <1>2, <3>3, <3>5 DEF Covers
      <4>2. l <= m /\ m < l + k
        BY <1>1, <3>2
      <4> QED
        BY <4>1, <4>2
    <3> QED
      BY <3>4, <3>5
  <2>3. i - l \in Nat /\ i - l \in 0..(i - l) /\ l + (i - l) = i
    BY <1>1
  <2> HIDE DEF T
  <2>4. i - l \in T
    BY <2>1, <2>2, <2>3, Upwards
  <2> QED
    BY <1>7, <2>3, <2>4 DEF T
<1>8. ASSUME NEW j \in Orders, NEW m \in Orders,
             Covers(b + Size[j], j, p), Covers(b + Size[m], m, p)
      PROVE  j = m
  <2>1. j < m \/ m < j \/ j = m
    BY <1>1
  <2> QED
    BY <1>6, <1>8, <2>1
<1> QED
  BY <1>4, <1>5, <1>7, <1>8

\* Taking a block of order l from the first list that has one.
LEMMA TakenIsLayout ==
  ASSUME NEW L \in Layouts, NEW l \in Orders, NEW i, FirstFrom(L, l, i)
  PROVE  /\ AfterTaking(L, i, l) \in Layouts
         /\ L[i] \in Blocks /\ i \in Orders /\ l <= i
<1>1. L[i] \in Blocks /\ i \in Orders /\ l <= i
  BY DEF FirstFrom, Layouts
<1> QED
  BY <1>1 DEF AfterTaking, Layouts

LEMMA TakenIsTiled ==
  ASSUME NEW h \in Seq(Loans), NEW L \in Layouts, Tiled(L, h, Len(h)),
         NEW l \in Orders, NEW i, FirstFrom(L, l, i),
         NEW g, g = Append(h, [block |-> L[i], order |-> l])
  PROVE  Tiled(AfterTaking(L, i, l), g, Len(h) + 1)
<1> DEFINE k == Len(h)
           M == AfterTaking(L, i, l)
           b == L[i]
<1>1. /\ k \in Nat /\ \A j \in 1..k : g[j] = h[j] /\ h[j] \in Loans
      /\ g[k + 1] = [block |-> b, order |-> l]
  OBVIOUS
<1>2. b \in Blocks /\ b \in Nat /\ i \in Orders /\ l <= i /\ b # NULL_BLOCK
  BY TakenIsLayout, PoolIs DEF FirstFrom
<1>3. Orders = 0..(NumLists - 1) /\ NumLists \in Nat /\ l \in Nat /\ i \in Nat
  BY <1>2, OrdersAre
<1> SUFFICES ASSUME NEW p \in Blocks
             PROVE  /\ (\E x \in 1..(k + 1) : InHeld(g, x, p)) \/ (\E n \in Orders : InFree(M, n, p))
                    /\ \A x, y \in 1..(k + 1) : InHeld(g, x, p) /\ InHeld(g, y, p) => x = y
                    /\ \A n, m \in Orders : InFree(M, n, p) /\ InFree(M, m, p) => n = m
                    /\ \A x \in 1..(k + 1), n \in Orders : ~(InHeld(g, x, p) /\ InFree(M, n, p))
  BY DEF Tiled
<1>4. p \in Nat
  BY PoolIs
<1>5. \A x \in 1..(k + 1) : x = k + 1 \/ x \in 1..k
  BY <1>1
<1>6. \A x \in 1..k : InHeld(g, x, p) <=> InHeld(h, x, p)
  BY <1>1 DEF InHeld
<1>7. InHeld(g, k + 1, p) <=> Covers(b, l, p)
  BY <1>1 DEF InHeld
<1>8. \A n \in Orders : l <= n /\ n < i =>
        (InFree(M, n, p) <=> b + Size[n] \in Blocks /\ Covers(b + Size[n], n, p))
  <2> SUFFICES ASSUME NEW n \in Orders, l <= n, n < i
               PROVE  InFree(M, n, p) <=> b + Size[n] \in Blocks /\ Covers(b + Size[n], n, p)
    OBVIOUS
  <2>1. L[n] = NULL_BLOCK /\ n # i
    BY <1>3 DEF FirstFrom
  <2>2. M[n] = IF b + Size[n] \in Blocks THEN b + Size[n] ELSE NULL_BLOCK
    BY <2>1 DEF AfterTaking
  <2> QED
    BY <2>2, PoolIs DEF InFree
<1>9. \A n \in Orders : ~(l <= n /\ n < i) => (InFree(M, n, p) <=> n # i /\ InFree(L, n, p))
  BY DEF AfterTaking, InFree
<1>10. InFree(L, i, p) <=> Covers(b, i, p)
  BY <1>2 DEF InFree
<1>11. \A n \in Orders : l <= n /\ n < i => ~InFree(L, n, p)
  BY DEF FirstFrom, InFree
<1>12. /\ (\E x \in 1..k : InHeld(h, x, p)) \/ (\E n \in Orders : InFree(L, n, p))
       /\ \A x, y \in 1..k : InHeld(h, x, p) /\ InHeld(h, y, p) => x = y
       /\ \A n, m \in Orders : InFree(L, n, p) /\ InFree(L, m, p) => n = m
       /\ \A x \in 1..k, n \in Orders : ~(InHeld(h, x, p) /\ InFree(L, n, p))
  BY DEF Tiled
<1>13. /\ Covers(b, l, p) => Covers(b, i, p)
       /\ \A j \in Orders : l <= j /\ j < i /\ Covers(b + Size[j], j, p) =>
            Covers(b, i, p) /\ ~Covers(b, l, p)
       /\ \A j, m \in Orders :
            j < i /\ m < i /\ Covers(b + Size[j], j, p) /\ Covers(b + Size[m], m, p) => j = m
       /\ Covers(b, i, p) =>
            Covers(b, l, p) \/ \E j \in Orders : l <= j /\ j < i /\ Covers(b + Size[j], j, p)
  BY <1>2, <1>4, SplitCovers
<1>14. \A j \in Orders : Covers(b + Size[j], j, p) => b + Size[j] \in Blocks
  <2> SUFFICES ASSUME NEW j \in Orders, Covers(b + Size[j], j, p) PROVE b + Size[j] \in Blocks
    OBVIOUS
  <2>1. b + Size[j] \in Nat /\ b + Size[j] <= p
    BY <1>2, SizeIs DEF Covers
  <2> QED
    BY <2>1, PoolIs
<1> HIDE DEF M, b, k
<1>15. CASE ~Covers(b, i, p)
  <2>1. \A n \in Orders : InFree(M, n, p) <=> InFree(L, n, p)
    BY <1>8, <1>9, <1>10, <1>11, <1>13, <1>15
  <2>2. ~InHeld(g, k + 1, p)
    BY <1>7, <1>13, <1>15
  <2>3. \A x \in 1..k : x \in 1..(k + 1)
    BY <1>1
  <2> QED
    BY <1>5, <1>6, <1>12, <2>1, <2>2, <2>3
<1>16. CASE Covers(b, i, p)
  <2>1. \A x \in 1..k : ~InHeld(g, x, p)
    BY <1>2, <1>6, <1>10, <1>12, <1>16
  <2>2. \A n \in Orders : InFree(M, n, p) <=> l <= n /\ n < i /\ Covers(b + Size[n], n, p)
    BY <1>2, <1>8, <1>9, <1>10, <1>12, <1>14, <1>16
  <2>3. k + 1 \in 1..(k + 1)
    BY <1>1
  <2> QED
    BY <1>5, <1>7, <1>13, <1>16, <2>1, <2>2, <2>3
<1> QED
  BY <1>15, <1>16

LEMMA TakenIsPaired ==
  ASSUME NEW h \in Seq(Loans), NEW L \in Layouts, Paired(L, h, Len(h)),
         NEW l \in Orders, NEW i, FirstFrom(L, l, i),
         NEW g, g = Append(h, [block |-> L[i], order |-> l])
  PROVE  Paired(AfterTaking(L, i, l), g, Len(h) + 1)
<1> DEFINE k == Len(h)
           M == AfterTaking(L, i, l)
           b == L[i]
<1>1. /\ k \in Nat /\ \A j \in 1..k : g[j] = h[j] /\ j \in 1..(k + 1)
      /\ k + 1 \in 1..(k + 1) /\ g[k + 1] = [block |-> b, order |-> l]
  OBVIOUS
<1>2. b \in Blocks /\ b \in Nat /\ i \in Orders /\ l <= i /\ b # NULL_BLOCK
  BY TakenIsLayout, PoolIs DEF FirstFrom
<1> SUFFICES ASSUME NEW n \in Orders, M[n] # NULL_BLOCK, M[n] # 0
             PROVE  Upper(M[n], n) /\ \E x \in 1..(k + 1) : g[x].block = M[n] - Size[n]
  BY DEF Paired
<1>3. CASE l <= n /\ n < i /\ b + Size[n] \in Blocks
  <2>1. M[n] = b + Size[n]
    BY <1>3 DEF AfterTaking
  <2>2. Multiple(b, i)
    <3>1. CASE b = 0
      <4>1. b = 0 * Size[i] /\ 0 \in Nat
        BY <1>2, <3>1, SizeIs
      <4> QED
        BY <4>1 DEF Multiple
    <3>2. CASE b # 0
      BY <1>2, <3>2, UpperIsMultiple DEF Paired
    <3> QED
      BY <3>1, <3>2
  <2>3. Upper(b + Size[n], n)
    BY <1>2, <1>3, <2>2, Halves
  <2>4. M[n] - Size[n] = b
    BY <1>2, <2>1, SizeIs
  <2> QED
    BY <1>1, <2>1, <2>3, <2>4
<1>4. CASE ~(l <= n /\ n < i /\ b + Size[n] \in Blocks)
  <2>1. M[n] = L[n]
    BY <1>4 DEF AfterTaking
  <2>2. Upper(L[n], n) /\ \E x \in 1..k : h[x].block = L[n] - Size[n]
    BY <2>1 DEF Paired
  <2> QED
    BY <1>1, <2>1, <2>2
<1> QED
  BY <1>3, <1>4

\* The blocks of a layout that cover a page, start there or not, are one.
LEMMA HeadsApart ==
  ASSUME NEW h \in Seq(Loans), NEW L \in Layouts, NEW k \in 0..Len(h), Tiled(L, h, k),
         NEW i \in Orders, NEW p \in Blocks, InFree(L, i, p)
  PROVE  /\ \A n \in Orders : L[n] = p => n = i
         /\ \A x \in 1..k : h[x].block # p
<1>1. \A n \in Orders : Covers(p, n, p)
  BY PoolIs, SizeIs DEF Covers
<1>2. ASSUME NEW n \in Orders, L[n] = p PROVE n = i
  <2>1. InFree(L, n, p)
    BY <1>1, <1>2, PoolIs DEF InFree
  <2> QED
    BY <2>1 DEF Tiled
<1>3. ASSUME NEW x \in 1..k, h[x].block = p PROVE FALSE
  <2>1. h[x] \in Loans
    OBVIOUS
  <2>2. InHeld(h, x, p)
    BY <1>1, <1>3, <2>1 DEF InHeld, Loans
  <2> QED
    BY <2>2 DEF Tiled
<1> QED
  BY <1>2, <1>3

\* Loans start at pages of their own.
LEMMA LoansApart ==
  ASSUME NEW h \in Seq(Loans), NEW L \in Layouts, Tiled(L, h, Len(h)),
         NEW x \in 1..Len(h), NEW y \in 1..Len(h), h[x].block = h[y].block
  PROVE  x = y
<1>1. h[x] \in Loans /\ h[y] \in Loans
  OBVIOUS
<1>2. PICK p \in Blocks : p = h[x].block
  BY <1>1 DEF Loans
<1>3. \A n \in Orders : Covers(p, n, p)
  BY PoolIs, SizeIs DEF Covers
<1>4. InHeld(h, x, p) /\ InHeld(h, y, p)
  BY <1>1, <1>2, <1>3 DEF InHeld, Loans
<1> QED
  BY <1>4 DEF Tiled

\* A layout looks at the loans before it only.
LEMMA SameLoans ==
  ASSUME NEW L, NEW h, NEW g, NEW k \in Nat, \A j \in 1..k : g[j] = h[j],
         Tiled(L, h, k), Paired(L, h, k)
  PROVE  Tiled(L, g, k) /\ Paired(L, g, k)
<1>1. Tiled(L, g, k)
  BY DEF Tiled, InHeld
<1>2. Paired(L, g, k)
  BY DEF Paired
<1> QED
  BY <1>1, <1>2

LEMMA WholeIs ==
  ASSUME NEW h, NEW t \in Orders, NumBlocks <= Size[t]
  PROVE  /\ Alone(t) \in Layouts /\ Whole(Alone(t))
         /\ Tiled(Alone(t), h, 0) /\ Paired(Alone(t), h, 0)
<1>1. Alone(t) \in Layouts
  BY PoolIs DEF Alone, Layouts
<1>2. Whole(Alone(t))
  BY DEF Whole
<1>3. Tiled(Alone(t), h, 0)
  <2> SUFFICES ASSUME NEW p \in Blocks
               PROVE  /\ InFree(Alone(t), t, p)
                      /\ \A n \in Orders : InFree(Alone(t), n, p) => n = t
    BY DEF Tiled
  <2>1. Covers(0, t, p)
    BY PoolIs, SizeIs DEF Covers
  <2> QED
    BY <2>1, PoolIs DEF InFree, Alone
<1>4. Paired(Alone(t), h, 0)
  BY DEF Paired, Alone
<1> QED
  BY <1>1, <1>2, <1>3, <1>4

LEMMA OneLayout ==
  ASSUME NEW h \in Seq(Loans), h = << >>, NEW t \in Orders, NumBlocks <= Size[t]
  PROVE  Reached(Alone(t), h)
<1> DEFINE was == [k \in 0..0 |-> Alone(t)]
<1>1. Len(h) = 0 /\ 1..Len(h) = {} /\ 0..Len(h) = {0}
  OBVIOUS
<1>2. History(was, h)
  BY <1>1, WholeIs DEF History
<1>3. was[Len(h)] = Alone(t)
  BY <1>1
<1> QED
  BY <1>2, <1>3 DEF Reached

LEMMA LargestIsWhole == NumBlocks <= Size[NumLists - 1]
<1>1. PICK m \in Orders : NumBlocks = Size[m]
  BY PoolAssumption
<1>2. m = NumLists - 1 \/ m < NumLists - 1
  BY OrdersAre
<1>3. Size[m] \in Nat
  BY SizeIs
<1> QED
  BY <1>1, <1>2, <1>3, SizeGrows, OrdersAre

-----------------------------------------------------------------------------
\* The steps.

LEMMA InitInv == Init => LifoInv
<1> SUFFICES ASSUME Init PROVE LifoInv
  OBVIOUS
<1> DEFINE last == NumLists - 1
<1>1. last \in Orders /\ NumBlocks <= Size[last]
  BY OrdersAre, LargestIsWhole
<1>2. free_lists = Alone(last) /\ live = << >> /\ free_lists \in Layouts
  BY <1>1, WholeIs DEF Init, Alone
<1>3. blocks \in [Blocks -> Entries] /\ live \in Seq(Loans)
  BY <1>2, PoolIs, OrdersAre DEF Init, FreshBlock, Entries
<1>4. Reached(free_lists, live)
  BY <1>1, <1>2, <1>3, OneLayout
<1>5. Recorded(free_lists, blocks, live)
  <2>1. \A n \in Orders : free_lists[n] # NULL_BLOCK => free_lists[n] = 0
    BY <1>2 DEF Alone
  <2>2. blocks[0].next = NULL_BLOCK /\ blocks[0].prev = NULL_BLOCK /\ blocks[0].free
    BY PoolIs DEF Init, FreshBlock
  <2>3. 1..Len(live) = {}
    BY <1>2
  <2> QED
    BY <2>1, <2>2, <2>3 DEF Recorded
<1> QED
  BY <1>2, <1>3, <1>4, <1>5 DEF LifoInv

\* What becomes of a page's record.
IsEntry(e, l, free) ==
  /\ e \in Entries /\ e.order = l /\ e.free = free
  /\ e.next = NULL_BLOCK /\ e.prev = NULL_BLOCK

LEMMA EntryMade ==
  ASSUME NEW l \in Orders, NEW free \in BOOLEAN, NEW e,
         e = [next |-> NULL_BLOCK, prev |-> NULL_BLOCK, order |-> l, free |-> free]
  PROVE  IsEntry(e, l, free)
BY DEF Entries, IsEntry

LEMMA EntryLent ==
  ASSUME NEW e \in Entries, NEW l \in Orders, NEW c, c = [e EXCEPT !.order = l, !.free = FALSE]
  PROVE  c \in Entries /\ c.order = l /\ ~c.free
BY DEF Entries

LEMMA OrderChanged ==
  ASSUME NEW e \in Entries, NEW l \in Orders, NEW c, c = [e EXCEPT !.order = l]
  PROVE  c \in Entries /\ c.order = l /\ c.free = e.free /\ c.next = e.next /\ c.prev = e.prev
BY DEF Entries

LEMMA SplitOrdersAre ==
  ASSUME NEW l \in Orders, NEW i \in Orders, NEW j
  PROVE  j \in SplitOrders(i, l) <=> j \in Orders /\ l <= j /\ j < i
BY OrdersAre DEF SplitOrders

\* The heap after kalloc takes a block of order l from list i.
HeapAfter(L, P, l, i) ==
  LET h == PopFreeList([lists |-> L, blocks |-> P], i)
  IN  IF i = l THEN h ELSE Split(h, L[i], i, l)

IsTaken(r, L, P, l, i) ==
  /\ r.lists = AfterTaking(L, i, l)
  /\ r.blocks \in [Blocks -> Entries]
  /\ r.blocks[L[i]].order = l /\ ~r.blocks[L[i]].free
  /\ \A j \in Orders : l <= j /\ j < i /\ L[i] + Size[j] \in Blocks =>
       IsEntry(r.blocks[L[i] + Size[j]], j, TRUE)
  /\ \A p \in Blocks :
       p # L[i] /\ ~(\E j \in Orders : l <= j /\ j < i /\ p = L[i] + Size[j]) =>
         r.blocks[p] = P[p]

LEMMA HeapTaken ==
  ASSUME NEW L \in Layouts, NEW P \in [Blocks -> Entries], NEW l \in Orders, NEW i,
         FirstFrom(L, l, i), P[L[i]].next = NULL_BLOCK
  PROVE  IsTaken(HeapAfter(L, P, l, i), L, P, l, i)
<1>20. PICK h, r : /\ h = PopFreeList([lists |-> L, blocks |-> P], i)
                   /\ r = IF i = l THEN h ELSE Split(h, L[i], i, l)
  OBVIOUS
<1>21. HeapAfter(L, P, l, i) = r
  BY <1>20 DEF HeapAfter
<1> DEFINE b == L[i]
           record == [next |-> NULL_BLOCK, prev |-> NULL_BLOCK, order |-> i, free |-> FALSE]
<1>1. b \in Blocks /\ i \in Orders /\ l <= i
  BY TakenIsLayout
<1>2. PICK lists, pages, taken :
        /\ taken = record /\ lists = [L EXCEPT ![i] = NULL_BLOCK]
        /\ pages = [P EXCEPT ![b] = taken]
  OBVIOUS
<1>3. h = [lists |-> lists, blocks |-> pages]
  BY <1>2, <1>20 DEF PopFreeList
<1>4. IsEntry(taken, i, FALSE)
  BY <1>1, <1>2, EntryMade
<1>5. h.lists = lists /\ h.blocks = pages
  BY <1>3
<1>6. /\ pages \in [Blocks -> Entries] /\ pages[b] = taken
      /\ \A p \in Blocks : p # b => pages[p] = P[p]
  BY <1>1, <1>2, <1>4 DEF IsEntry
<1>7. /\ lists = [j \in Orders |-> lists[j]]
      /\ \A j \in Orders : lists[j] = IF j = i THEN NULL_BLOCK ELSE L[j]
  BY <1>1, <1>2 DEF Layouts
<1>8. Orders = 0..(NumLists - 1) /\ NumLists \in Nat /\ l \in Nat /\ i \in Nat
  BY <1>1, OrdersAre
<1>9. PICK M : M = AfterTaking(L, i, l)
  OBVIOUS
<1>10. /\ M = [j \in Orders |-> M[j]]
       /\ \A j \in Orders : M[j] = IF l <= j /\ j < i /\ b + Size[j] \in Blocks THEN b + Size[j]
                                  ELSE IF j = i THEN NULL_BLOCK ELSE L[j]
  BY <1>9 DEF AfterTaking
<1> SUFFICES IsTaken(r, L, P, l, i)
  BY <1>21
<1>11. CASE i = l
  <2>1. \A j \in Orders : ~(l <= j /\ j < i)
    BY <1>8, <1>11
  <2>2. \A j \in Orders : lists[j] = M[j]
    BY <1>7, <1>10, <2>1
  <2>3. lists = M
    BY <1>7, <1>10, <2>2
  <2>4. r.lists = M /\ r.blocks = pages
    BY <1>5, <1>11, <1>20, <2>3
  <2> QED
    BY <1>1, <1>4, <1>6, <1>9, <1>11, <2>1, <2>4 DEF IsEntry, IsTaken
<1>12. CASE i # l
  <2> DEFINE uppers == {j \in SplitOrders(i, l) : Middle(b, j) \in Blocks}
             OrderOf(p) == CHOOSE j \in uppers : Middle(b, j) = p
             entry(p) == [next |-> NULL_BLOCK, prev |-> NULL_BLOCK, order |-> OrderOf(p), free |-> TRUE]
             lent == [pages[b] EXCEPT !.order = l, !.free = FALSE]
             listOf(j) == IF j \in uppers THEN Middle(b, j) ELSE h.lists[j]
             pageOf(p) == IF p = b THEN [h.blocks[p] EXCEPT !.order = l, !.free = FALSE]
                          ELSE IF \E j \in uppers : Middle(b, j) = p THEN entry(p) ELSE h.blocks[p]
  <2>1. r.lists = [j \in Orders |-> listOf(j)] /\ r.blocks = [p \in Blocks |-> pageOf(p)]
    BY <1>12, <1>20 DEF Split
  <2>2. \A j : j \in uppers <=> j \in Orders /\ l <= j /\ j < i /\ b + Size[j] \in Blocks
    <3>1. \A j : j \in SplitOrders(i, l) <=> j \in Orders /\ l <= j /\ j < i
      BY <1>1, SplitOrdersAre
    <3> QED
      BY <3>1 DEF Middle
  <2>3. \A j : Middle(b, j) = b + Size[j]
    BY DEF Middle
  <2>4. \A j \in Orders : b + Size[j] # b /\ b + Size[j] \in Nat
    BY <1>1, PoolIs, SizeIs
  <2>5. ASSUME NEW j \in uppers, NEW m \in uppers, b + Size[j] = b + Size[m] PROVE j = m
    <3>1. j \in Orders /\ m \in Orders /\ Size[j] = Size[m] /\ b \in Nat
      BY <1>1, <2>2, <2>5, PoolIs, SizeIs
    <3>2. j < m \/ m < j \/ j = m
      BY <1>8, <3>1
    <3>3. \A x, y \in Orders : x < y => Size[x] # Size[y]
      BY SizeGrows
    <3> QED
      BY <3>1, <3>2, <3>3
  <2>6. \A j \in uppers : OrderOf(b + Size[j]) = j
    BY <2>3, <2>5
  <2> HIDE DEF uppers
  <2>7. \A j \in uppers : IsEntry(entry(b + Size[j]), j, TRUE)
    <3> SUFFICES ASSUME NEW j \in uppers PROVE IsEntry(entry(b + Size[j]), j, TRUE)
      OBVIOUS
    <3>1. OrderOf(b + Size[j]) = j /\ j \in Orders
      BY <2>2, <2>6
    <3> HIDE DEF OrderOf
    <3> QED
      BY <3>1, EntryMade
  <2> HIDE DEF entry
  <2>8. \A j \in Orders : listOf(j) = M[j]
    BY <1>5, <1>7, <1>10, <2>2, <2>3
  <2>9. /\ pageOf(b) = lent
        /\ \A j \in uppers : pageOf(b + Size[j]) = entry(b + Size[j])
        /\ \A p \in Blocks : p # b /\ ~(\E j \in uppers : b + Size[j] = p) => pageOf(p) = P[p]
    <3>1. pageOf(b) = lent
      BY <1>5
    <3>2. \A j \in uppers : pageOf(b + Size[j]) = entry(b + Size[j])
      BY <2>2, <2>3, <2>4
    <3>3. \A p \in Blocks : p # b /\ ~(\E j \in uppers : b + Size[j] = p) => pageOf(p) = P[p]
      BY <1>5, <1>6, <2>3
    <3> QED
      BY <3>1, <3>2, <3>3
  <2>10. lent \in Entries /\ lent.order = l /\ ~lent.free
    BY <1>1, <1>6, EntryLent
  <2> HIDE DEF listOf, pageOf, lent
  <2>11. r.lists = M
    <3>1. r.lists = [j \in Orders |-> M[j]]
      BY <2>1, <2>8
    <3> QED
      BY <1>10, <3>1
  <2>12. \A p \in Blocks : r.blocks[p] = pageOf(p)
    BY <2>1
  <2>13. \A p \in Blocks : pageOf(p) \in Entries
    BY <2>2, <2>7, <2>9, <2>10 DEF IsEntry
  <2>14. r.blocks \in [Blocks -> Entries]
    <3>1. PICK R : R = r.blocks
      OBVIOUS
    <3>2. R = [p \in Blocks |-> R[p]] /\ \A p \in Blocks : R[p] \in Entries
      BY <2>1, <2>12, <2>13, <3>1
    <3> QED
      BY <3>1, <3>2
  <2> QED
    <3>1. r.lists = AfterTaking(L, i, l)
      BY <1>9, <2>11
    <3>2. r.blocks[b].order = l /\ ~r.blocks[b].free
      BY <1>1, <2>9, <2>10, <2>12
    <3>3. ASSUME NEW j \in Orders, l <= j, j < i, b + Size[j] \in Blocks
          PROVE  IsEntry(r.blocks[b + Size[j]], j, TRUE)
      <4>1. j \in uppers
        BY <2>2, <3>3
      <4>2. r.blocks[b + Size[j]] = entry(b + Size[j])
        BY <2>9, <2>12, <3>3, <4>1
      <4> QED
        BY <2>7, <4>1, <4>2
    <3>4. ASSUME NEW p \in Blocks, p # b, ~\E j \in Orders : l <= j /\ j < i /\ p = b + Size[j]
          PROVE  r.blocks[p] = P[p]
      <4>1. ~\E j \in uppers : b + Size[j] = p
        BY <2>2, <3>4
      <4> QED
        BY <2>9, <2>12, <3>4, <4>1
    <3> QED
      BY <2>14, <3>1, <3>2, <3>3, <3>4 DEF IsTaken
<1> QED
  BY <1>11, <1>12

LEMMA FirstCandidate ==
  ASSUME NEW l \in Orders, Candidates(l) # {},
         NEW i, i = CHOOSE c \in Candidates(l) : \A d \in Candidates(l) : c <= d
  PROVE  FirstFrom(free_lists, l, i)
<1>1. Candidates(l) \subseteq Nat /\ Candidates(l) \subseteq Orders
  BY OrdersAre DEF Candidates
<1>2. i \in Candidates(l) /\ \A d \in Candidates(l) : i <= d
  BY <1>1, LeastMember
<1>3. ASSUME NEW j \in Orders, l <= j, j < i PROVE free_lists[j] = NULL_BLOCK
  <2>1. j \in Nat /\ i \in Nat /\ ~(i <= j)
    BY <1>1, <1>2, <1>3, OrdersAre
  <2> QED
    BY <1>2, <1>3, <2>1 DEF Candidates
<1> QED
  BY <1>2, <1>3 DEF Candidates, FirstFrom

Lent(h, b, l) == Append(h, [block |-> b, order |-> l])

LEMMA ReachedLayout ==
  ASSUME NEW h \in Seq(Loans), NEW L, Reached(L, h)
  PROVE  L \in Layouts /\ Tiled(L, h, Len(h)) /\ Paired(L, h, Len(h))
<1>1. PICK was : History(was, h) /\ L = was[Len(h)]
  BY DEF Reached
<1>2. Len(h) \in 0..Len(h)
  OBVIOUS
<1> QED
  BY <1>1, <1>2 DEF History

LEMMA HistoryExtended ==
  ASSUME NEW h \in Seq(Loans), NEW L, Reached(L, h),
         NEW l \in Orders, NEW i, FirstFrom(L, l, i)
  PROVE  Lent(h, L[i], l) \in Seq(Loans) /\ Reached(AfterTaking(L, i, l), Lent(h, L[i], l))
<1>11. PICK was : History(was, h) /\ L = was[Len(h)]
  BY DEF Reached
<1>12. PICK g : g = Lent(h, L[i], l) /\ g = Append(h, [block |-> L[i], order |-> l])
  BY DEF Lent
<1> DEFINE k == Len(h)
           w == [j \in 0..(k + 1) |-> IF j = k + 1 THEN AfterTaking(L, i, l) ELSE was[j]]
<1>1. k \in Nat /\ k \in 0..k
  OBVIOUS
<1>2. L \in Layouts /\ Tiled(L, h, k) /\ Paired(L, h, k)
  BY ReachedLayout
<1>3. AfterTaking(L, i, l) \in Layouts /\ L[i] \in Blocks /\ i \in Orders
  BY <1>2, TakenIsLayout
<1>4. [block |-> L[i], order |-> l] \in Loans
  BY <1>3 DEF Loans
<1>5. /\ g \in Seq(Loans) /\ Len(g) = k + 1 /\ g[k + 1].block = L[i] /\ g[k + 1].order = l
      /\ \A j \in 1..k : g[j] = h[j]
  BY <1>4, <1>12
<1>6. /\ w[k + 1] = AfterTaking(L, i, l) /\ w[0] = was[0] /\ w[k] = L
      /\ \A j \in 0..k : w[j] = was[j]
  BY <1>1, <1>11
<1>7. w \in [0..Len(g) -> Layouts]
  BY <1>3, <1>5, <1>11 DEF History
<1> HIDE DEF w
<1>8. ASSUME NEW j \in 1..Len(g) PROVE Taken(w[j - 1], w[j], g[j].block, g[j].order)
  <2>1. CASE j = k + 1
    <3>1. w[j - 1] = L /\ w[j] = AfterTaking(L, i, l) /\ g[j].block = L[i] /\ g[j].order = l
      BY <1>1, <1>5, <1>6, <2>1
    <3> QED
      BY <1>3, <3>1 DEF Taken
  <2>2. CASE j # k + 1
    <3>1. j \in 1..k /\ j - 1 \in 0..k /\ j \in 0..k
      BY <1>1, <1>5, <2>2
    <3>2. Taken(was[j - 1], was[j], h[j].block, h[j].order)
      BY <1>11, <3>1 DEF History
    <3> QED
      BY <1>5, <1>6, <3>1, <3>2
  <2> QED
    BY <2>1, <2>2
<1>9. ASSUME NEW j \in 0..Len(g) PROVE Tiled(w[j], g, j) /\ Paired(w[j], g, j)
  <2>1. CASE j = k + 1
    BY <1>2, <1>6, <1>12, <2>1, TakenIsTiled, TakenIsPaired
  <2>2. CASE j # k + 1
    <3>1. j \in 0..k /\ j \in Nat /\ \A x \in 1..j : g[x] = h[x]
      BY <1>1, <1>5, <2>2
    <3>2. Tiled(was[j], h, j) /\ Paired(was[j], h, j)
      BY <1>11, <3>1 DEF History
    <3>3. Tiled(was[j], g, j) /\ Paired(was[j], g, j)
      BY <3>1, <3>2, SameLoans
    <3> QED
      BY <1>6, <3>1, <3>3
  <2> QED
    BY <2>1, <2>2
<1>10. History(w, g)
  BY <1>6, <1>7, <1>8, <1>9, <1>11 DEF History
<1>13. AfterTaking(L, i, l) = w[Len(g)]
  BY <1>5, <1>6
<1> QED
  BY <1>5, <1>10, <1>12, <1>13 DEF Reached

LEMMA RecordsTaken ==
  ASSUME NEW h \in Seq(Loans), NEW L \in Layouts, Tiled(L, h, Len(h)),
         NEW P \in [Blocks -> Entries], Recorded(L, P, h),
         NEW l \in Orders, NEW i, FirstFrom(L, l, i), NEW r, IsTaken(r, L, P, l, i)
  PROVE  Recorded(AfterTaking(L, i, l), r.blocks, Lent(h, L[i], l))
<1>10. PICK g, R : /\ g = Lent(h, L[i], l) /\ g = Append(h, [block |-> L[i], order |-> l])
                   /\ R = r.blocks
  BY DEF Lent
<1>11. /\ R[L[i]].order = l /\ ~R[L[i]].free
       /\ \A j \in Orders : l <= j /\ j < i /\ L[i] + Size[j] \in Blocks =>
            IsEntry(R[L[i] + Size[j]], j, TRUE)
       /\ \A p \in Blocks :
            p # L[i] /\ ~(\E j \in Orders : l <= j /\ j < i /\ p = L[i] + Size[j]) =>
              R[p] = P[p]
  BY <1>10 DEF IsTaken
<1> DEFINE k == Len(h)
           M == AfterTaking(L, i, l)
           b == L[i]
<1>1. /\ k \in Nat /\ \A j \in 1..k : g[j] = h[j] /\ h[j] \in Loans
      /\ Len(g) = k + 1 /\ g[k + 1].block = b /\ g[k + 1].order = l
      /\ \A j \in 1..(k + 1) : j = k + 1 \/ j \in 1..k
  BY <1>10
<1>2. b \in Blocks /\ b \in Nat /\ i \in Orders /\ l <= i /\ b # NULL_BLOCK
  BY TakenIsLayout, PoolIs DEF FirstFrom
<1>3. InFree(L, i, b)
  BY <1>2, SizeIs DEF InFree, Covers
<1>4. \A j \in Orders : l <= j /\ j < i /\ b + Size[j] \in Blocks => InFree(L, i, b + Size[j])
  <2> SUFFICES ASSUME NEW j \in Orders, j < i PROVE Covers(b, i, b + Size[j])
    BY <1>2 DEF InFree
  <2>1. 2 * Size[j] <= Size[i] /\ Size[j] \in Nat \ {0} /\ Size[i] \in Nat
    BY <1>2, SizeGrows
  <2> QED
    BY <1>2, <2>1 DEF Covers
<1>5. \A p \in Blocks : InFree(L, i, p) =>
        /\ \A n \in Orders : L[n] = p => n = i
        /\ \A x \in 1..k : h[x].block # p
  BY <1>1, <1>2, HeadsApart
<1>6. ASSUME NEW n \in Orders, n # i, L[n] # NULL_BLOCK PROVE R[L[n]] = P[L[n]]
  <2>1. L[n] \in Blocks /\ L[n] # b
    BY <1>2, <1>3, <1>5, <1>6 DEF Layouts
  <2>2. ~\E j \in Orders : l <= j /\ j < i /\ L[n] = b + Size[j]
    BY <1>4, <1>5, <1>6, <2>1
  <2> QED
    BY <1>11, <2>1, <2>2
<1>7. ASSUME NEW x \in 1..k PROVE R[h[x].block] = P[h[x].block]
  <2>1. h[x].block \in Blocks /\ h[x].block # b
    BY <1>1, <1>2, <1>3, <1>5 DEF Loans
  <2>2. ~\E j \in Orders : l <= j /\ j < i /\ h[x].block = b + Size[j]
    BY <1>4, <1>5, <2>1
  <2> QED
    BY <1>11, <2>1, <2>2
<1>8. ASSUME NEW n \in Orders, M[n] # NULL_BLOCK
      PROVE  /\ R[M[n]].next = NULL_BLOCK /\ R[M[n]].prev = NULL_BLOCK /\ R[M[n]].free
             /\ M[n] # 0 => R[M[n]].order = n
  <2>1. CASE l <= n /\ n < i /\ b + Size[n] \in Blocks
    <3>1. M[n] = b + Size[n]
      BY <2>1 DEF AfterTaking
    <3> QED
      BY <1>11, <2>1, <3>1 DEF IsEntry
  <2>2. CASE ~(l <= n /\ n < i /\ b + Size[n] \in Blocks)
    <3>1. n # i /\ M[n] = L[n]
      BY <1>8, <2>2 DEF AfterTaking
    <3> QED
      BY <1>6, <1>8, <3>1 DEF Recorded
  <2> QED
    BY <2>1, <2>2
<1>9. ASSUME NEW x \in 1..Len(g) PROVE R[g[x].block].order = g[x].order /\ ~R[g[x].block].free
  <2>1. CASE x = k + 1
    BY <1>1, <1>11, <2>1
  <2>2. CASE x \in 1..k
    BY <1>1, <1>7, <2>2 DEF Recorded
  <2> QED
    BY <1>1, <2>1, <2>2
<1> QED
  BY <1>8, <1>9, <1>10 DEF Recorded

LEMMA KallocInv ==
  ASSUME LifoInv, NEW l \in Orders, Kalloc(l)
  PROVE  LifoInv'
<1>1. l \in Orders
  OBVIOUS
<1>2. PICK i : /\ i = CHOOSE c \in Candidates(l) : \A d \in Candidates(l) : c <= d
               /\ Candidates(l) # {}
  BY DEF Kalloc
<1>3. FirstFrom(free_lists, l, i)
  BY <1>1, <1>2, FirstCandidate
<1>4. PICK r : r = HeapAfter(free_lists, blocks, l, i)
  OBVIOUS
<1>5. /\ free_lists' = r.lists /\ blocks' = r.blocks
      /\ live' = Lent(live, free_lists[i], l)
  BY <1>2, <1>4 DEF Kalloc, SetHeap, Heap, HeapAfter, Lent
<1>6. /\ free_lists \in Layouts /\ blocks \in [Blocks -> Entries] /\ live \in Seq(Loans)
      /\ Recorded(free_lists, blocks, live) /\ Reached(free_lists, live)
  BY DEF LifoInv
<1>7. blocks[free_lists[i]].next = NULL_BLOCK
  BY <1>3, <1>6 DEF FirstFrom, Recorded
<1>8. IsTaken(r, free_lists, blocks, l, i)
  BY <1>1, <1>3, <1>4, <1>6, <1>7, HeapTaken
<1>9. free_lists' = AfterTaking(free_lists, i, l) /\ blocks' \in [Blocks -> Entries]
  BY <1>5, <1>8 DEF IsTaken
<1>10. free_lists' \in Layouts
  BY <1>1, <1>3, <1>6, <1>9, TakenIsLayout
<1>11. live' \in Seq(Loans) /\ Reached(free_lists', live')
  BY <1>1, <1>3, <1>5, <1>6, <1>9, HistoryExtended
<1>12. Recorded(free_lists', blocks', live')
  <2>1. Tiled(free_lists, live, Len(live))
    BY <1>6, ReachedLayout
  <2> QED
    BY <1>1, <1>3, <1>5, <1>6, <1>8, <1>9, <2>1, RecordsTaken
<1> QED
  BY <1>9, <1>10, <1>11, <1>12 DEF LifoInv

-----------------------------------------------------------------------------
\* kfree's loop, while the buddies it meets are the heads of their lists.

Buddy(b, n) == IF b % (2 * Size[n]) = 0 THEN b + Size[n] ELSE b - Size[n]

\* Block b of order l merges with the only block of each list from l to e - 1,
\* and with no block of list e, which is empty.
Mergeable(L, P, b, l, e) ==
  /\ b \in Blocks /\ l \in Orders /\ e \in Orders /\ l <= e
  /\ P[b].order = l /\ L[e] = NULL_BLOCK
  /\ \A n \in Orders : l <= n /\ n < e =>
       /\ b % (2 * Size[n]) = 0 /\ b + Size[n] \in Blocks
       /\ L[n] = b + Size[n] /\ IsEntry(P[b + Size[n]], n, TRUE)
  /\ Buddy(b, e) \in Blocks => Buddy(b, e) # b /\ ~P[Buddy(b, e)].free

\* What the loop works on: the heap, the block and its order.
Works == [heap : [lists : Layouts, blocks : [Blocks -> Entries]], block : Blocks, order : Orders]

\* The loop has come to order n.
AtOrder(c, L, P, b, l, n) ==
  /\ c \in Works
  /\ c.block = b /\ c.order = n
  /\ \A j \in Orders : c.heap.lists[j] = IF l <= j /\ j < n THEN NULL_BLOCK ELSE L[j]
  /\ c.heap.blocks[b].order = n
  /\ \A p \in Blocks : p # b => c.heap.blocks[p] = P[p]

LEMMA BuddyIndexIs ==
  ASSUME NEW h, NEW b, NEW n, h.blocks[b].order = n
  PROVE  BuddyIndex(h, b) = IF Buddy(b, n) \in Blocks THEN Buddy(b, n) ELSE NULL_BLOCK
BY DEF BuddyIndex, Buddy

LEMMA TurnMerges ==
  ASSUME NEW L \in Layouts, NEW P \in [Blocks -> Entries], NEW b, NEW l, NEW e,
         Mergeable(L, P, b, l, e), NEW n \in Orders, l <= n, n < e,
         NEW c, AtOrder(c, L, P, b, l, n)
  PROVE  AtOrder(Turn(c), L, P, b, l, n + 1)
<1>1. PICK h, lists, pages : h = c.heap /\ lists = h.lists /\ pages = h.blocks
  OBVIOUS
<1>2. /\ c \in Works /\ c.block = b /\ c.order = n
      /\ lists \in Layouts /\ pages \in [Blocks -> Entries]
      /\ \A j \in Orders : lists[j] = IF l <= j /\ j < n THEN NULL_BLOCK ELSE L[j]
      /\ pages[b].order = n
      /\ \A p \in Blocks : p # b => pages[p] = P[p]
  BY <1>1 DEF AtOrder, Works
<1>3. /\ b \in Blocks /\ l \in Orders /\ e \in Orders
      /\ b % (2 * Size[n]) = 0 /\ b + Size[n] \in Blocks
      /\ L[n] = b + Size[n] /\ IsEntry(P[b + Size[n]], n, TRUE)
  BY DEF Mergeable
<1>4. PICK d : d = b + Size[n]
  OBVIOUS
<1>5. d \in Blocks /\ d # b /\ ~(b > d) /\ d # NULL_BLOCK
  BY <1>3, <1>4, PoolIs, SizeIs
<1>6. Buddy(b, n) = d
  BY <1>3, <1>4 DEF Buddy
<1>7. BuddyIndex(h, b) = d
  BY <1>1, <1>2, <1>5, <1>6, BuddyIndexIs
<1>8. lists[n] = d /\ IsEntry(pages[d], n, TRUE)
  <2>1. ~(n < n)
    BY OrdersAre
  <2> QED
    BY <1>2, <1>3, <1>4, <1>5, <2>1
<1>9. BuddyIsFree(h, b)
  BY <1>1, <1>5, <1>7, <1>8 DEF BuddyIsFree, IsEntry
<1>10. n + 1 \in Orders /\ n + 1 <= e
  BY <1>3, NextSize
<1>11. PICK emptied, entry, raised :
         /\ emptied = [lists EXCEPT ![n] = NULL_BLOCK]
         /\ entry = [pages[b] EXCEPT !.order = n + 1]
         /\ raised = [pages EXCEPT ![b] = entry]
  OBVIOUS
<1>12. RemoveFromList(h, d) = [lists |-> emptied, blocks |-> pages]
  BY <1>1, <1>8, <1>11 DEF RemoveFromList, IsEntry
<1>13. Turn(c) = [heap |-> [lists |-> emptied, blocks |-> raised], block |-> b, order |-> n + 1]
  <2>1. PICK removed : removed = [lists |-> emptied, blocks |-> pages]
    OBVIOUS
  <2>2. [removed EXCEPT !.blocks[b].order = n + 1] = [lists |-> emptied, blocks |-> raised]
    BY <1>11, <2>1
  <2>3. Turn(c) = [heap |-> [removed EXCEPT !.blocks[b].order = n + 1], block |-> b, order |-> n + 1]
    BY <1>1, <1>2, <1>5, <1>7, <1>9, <1>12, <2>1 DEF Turn
  <2> QED
    BY <2>2, <2>3
<1>14. entry \in Entries /\ entry.order = n + 1
  BY <1>2, <1>3, <1>10, <1>11, OrderChanged
<1>15. raised \in [Blocks -> Entries] /\ raised[b] = entry /\ \A p \in Blocks : p # b => raised[p] = pages[p]
  BY <1>2, <1>3, <1>11, <1>14
<1>16. emptied \in Layouts /\ \A j \in Orders : emptied[j] = IF j = n THEN NULL_BLOCK ELSE lists[j]
  BY <1>2, <1>11 DEF Layouts
<1>17. \A j \in Orders : emptied[j] = IF l <= j /\ j < n + 1 THEN NULL_BLOCK ELSE L[j]
  <2> SUFFICES ASSUME NEW j \in Orders
               PROVE  emptied[j] = IF l <= j /\ j < n + 1 THEN NULL_BLOCK ELSE L[j]
    OBVIOUS
  <2>1. (j < n + 1 <=> j = n \/ j < n)
    BY OrdersAre
  <2> QED
    BY <1>2, <1>16, <2>1
<1>18. PICK t : t = Turn(c)
  OBVIOUS
<1>19. t.heap.lists = emptied /\ t.heap.blocks = raised /\ t.block = b /\ t.order = n + 1
  BY <1>13, <1>18
<1>20. t \in Works
  BY <1>3, <1>10, <1>13, <1>15, <1>16, <1>18 DEF Works
<1> QED
  BY <1>2, <1>14, <1>15, <1>17, <1>18, <1>19, <1>20 DEF AtOrder

LEMMA TurnStops ==
  ASSUME NEW L \in Layouts, NEW P \in [Blocks -> Entries], NEW b, NEW l, NEW e,
         Mergeable(L, P, b, l, e), NEW c, AtOrder(c, L, P, b, l, e)
  PROVE  Turn(c) = c
<1>1. PICK h : h = c.heap
  OBVIOUS
<1>2. /\ c.block = b /\ h.blocks[b].order = e
      /\ \A p \in Blocks : p # b => h.blocks[p] = P[p]
  BY <1>1 DEF AtOrder
<1>3. Buddy(b, e) \in Blocks => Buddy(b, e) # b /\ ~P[Buddy(b, e)].free
  BY DEF Mergeable
<1>4. BuddyIndex(h, b) = IF Buddy(b, e) \in Blocks THEN Buddy(b, e) ELSE NULL_BLOCK
  BY <1>2, BuddyIndexIs
<1>5. ~BuddyIsFree(h, b)
  BY <1>2, <1>3, <1>4 DEF BuddyIsFree
<1> QED
  BY <1>1, <1>2, <1>5 DEF Turn

Merged(r, L, P, b, l, e) ==
  /\ r.lists \in Layouts
  /\ \A j \in Orders :
       r.lists[j] = IF j = e THEN b ELSE IF l <= j /\ j < e THEN NULL_BLOCK ELSE L[j]
  /\ r.blocks \in [Blocks -> Entries]
  /\ IsEntry(r.blocks[b], e, TRUE)
  /\ \A p \in Blocks : p # b => r.blocks[p] = P[p]

\* The loop ends with a block that cannot merge, since each merge raises the
\* order: a set of works that a turn does not leave has the last one in it.
LEMMA LoopEnds ==
  ASSUME NEW S, S \subseteq Works, NEW first \in S,
         \A c \in S : Turn(c) = c \/ (Turn(c) \in S /\ Turn(c).order = c.order + 1)
  PROVE  \E last \in S : /\ Turn(last) = last
                         /\ Coalesce(first.heap, first.block, first.order)
                              = PushFreeList(last.heap, last.order, last.block)
<1> DEFINE start == [heap |-> first.heap, block |-> first.block, order |-> first.order]
           next == [n \in 1..NumLists |-> [c \in S |-> Turn(c)]]
           R(f) == f = [i \in 0..NumLists |-> IF i = 0 THEN start ELSE Turn(f[i - 1])]
           turn == CHOOSE f : R(f)
<1>1. NumLists \in Nat \ {0} /\ \A c \in S : c.order \in Orders /\ c.order \in Nat /\ c.order < NumLists
  BY OrdersAre DEF Works
<1>2. start = first
  <2>1. first \in Works
    OBVIOUS
  <2> QED
    BY <2>1 DEF Works
<1> HIDE DEF start
<1>3. next \in [1..NumLists -> [S -> S]] /\ \A n \in 1..NumLists, c \in S : next[n][c] = Turn(c)
  <2>1. \A c \in S : Turn(c) \in S
    OBVIOUS
  <2> QED
    BY <2>1
<1> HIDE DEF next
<1>4. PICK f : Follows(NumLists, S, first, next, f)
  BY <1>1, <1>3, Recursion
<1>5. R(f)
  <2>1. f = [i \in 0..NumLists |-> f[i]] /\ f[0] = start
    BY <1>2, <1>4 DEF Follows
  <2>2. ASSUME NEW i \in 0..NumLists, i # 0 PROVE f[i] = Turn(f[i - 1])
    <3>1. i \in 1..NumLists /\ i - 1 \in 0..NumLists
      BY <1>1, <2>2
    <3>2. f[i - 1] \in S /\ f[i] = next[i][f[i - 1]]
      BY <1>4, <3>1 DEF Follows
    <3> QED
      BY <1>3, <3>1, <3>2
  <2>3. \A i \in 0..NumLists : f[i] = IF i = 0 THEN start ELSE Turn(f[i - 1])
    BY <2>1, <2>2
  <2> QED
    BY <2>1, <2>3
<1>6. R(turn)
  BY <1>5
<1>7. Coalesce(first.heap, first.block, first.order)
        = PushFreeList(turn[NumLists].heap, turn[NumLists].order, turn[NumLists].block)
  BY Zenon DEF Coalesce, start
<1> HIDE DEF turn
<1>8. turn[0] = first /\ \A i \in 1..NumLists : turn[i] = Turn(turn[i - 1])
  <2>1. \A i \in 0..NumLists : turn[i] = IF i = 0 THEN start ELSE Turn(turn[i - 1])
    BY <1>6
  <2>2. \A i \in 1..NumLists : i \in 0..NumLists /\ i # 0
    BY <1>1
  <2>3. 0 \in 0..NumLists
    BY <1>1
  <2> QED
    BY <1>2, <2>1, <2>2, <2>3
<1> HIDE DEF R
<1> DEFINE Going(i) == turn[i] \in S /\ (Turn(turn[i]) = turn[i] \/ turn[i].order >= i)
           T == {i \in 0..NumLists : Going(i)}
<1>9. 0 \in T
  <2>1. turn[0] \in S /\ turn[0].order >= 0 /\ 0 \in 0..NumLists
    BY <1>1, <1>8
  <2> QED
    BY <2>1
<1>10. ASSUME NEW i \in 1..NumLists, i - 1 \in T PROVE i \in T
  <2>1. PICK c \in S : c = turn[i - 1] /\ (Turn(c) = c \/ c.order >= i - 1)
    BY <1>10
  <2>2. turn[i] = Turn(c) /\ i \in 0..NumLists
    BY <1>1, <1>8, <2>1
  <2>3. CASE Turn(c) = c
    BY <2>1, <2>2, <2>3
  <2>4. CASE Turn(c) # c
    <3>1. Turn(c) \in S /\ Turn(c).order = c.order + 1 /\ c.order >= i - 1 /\ c.order \in Nat
      BY <1>1, <2>1, <2>4
    <3>2. Turn(c).order >= i
      BY <3>1
    <3> QED
      BY <2>2, <3>1, <3>2
  <2> QED
    BY <2>3, <2>4
<1>11. Going(NumLists)
  <2> HIDE DEF Going
  <2>1. 0 \in T /\ \A i \in 1..NumLists : i - 1 \in T => i \in T
    BY <1>9, <1>10
  <2> HIDE DEF T
  <2>2. \A i \in 0..NumLists : i \in T
    BY <1>1, <2>1, Upwards
  <2>3. NumLists \in T
    BY <1>1, <2>2
  <2> QED
    BY <2>3 DEF T
<1>12. PICK last \in S : last = turn[NumLists] /\ (Turn(last) = last \/ last.order >= NumLists)
  BY <1>11
<1>13. Turn(last) = last
  <2>1. ~(last.order >= NumLists)
    BY <1>1
  <2> QED
    BY <1>12, <2>1
<1> QED
  BY <1>7, <1>12, <1>13

LEMMA LoopMerges ==
  ASSUME NEW L \in Layouts, NEW P \in [Blocks -> Entries], NEW b, NEW l, NEW e,
         Mergeable(L, P, b, l, e)
  PROVE  \E last : /\ AtOrder(last, L, P, b, l, e)
                   /\ Coalesce([lists |-> L, blocks |-> P], b, l)
                        = PushFreeList(last.heap, last.order, last.block)
<1> DEFINE start == [heap |-> [lists |-> L, blocks |-> P], block |-> b, order |-> l]
           S == {c \in Works : \E n \in Orders : l <= n /\ n <= e /\ AtOrder(c, L, P, b, l, n)}
<1>1. /\ b \in Blocks /\ l \in Orders /\ e \in Orders /\ l <= e /\ P[b].order = l
  BY DEF Mergeable
<1>2. PICK first : first = start
  OBVIOUS
<1>3. first.heap = [lists |-> L, blocks |-> P] /\ first.block = b /\ first.order = l
  BY <1>2
<1>4. AtOrder(first, L, P, b, l, l)
  <2>1. first \in Works
    BY <1>1, <1>2 DEF Works
  <2>2. \A j \in Orders : ~(l <= j /\ j < l)
    BY <1>1, OrdersAre
  <2> QED
    BY <1>1, <1>3, <2>1, <2>2 DEF AtOrder
<1>5. first \in S
  <2>1. first \in Works /\ l <= l
    BY <1>1, <1>4, OrdersAre DEF AtOrder
  <2> QED
    BY <1>1, <1>4, <2>1
<1>6. ASSUME NEW c \in S
      PROVE  \/ Turn(c) = c /\ AtOrder(c, L, P, b, l, e)
             \/ Turn(c) \in S /\ Turn(c).order = c.order + 1
  <2>1. PICK n \in Orders : l <= n /\ n <= e /\ AtOrder(c, L, P, b, l, n)
    OBVIOUS
  <2>2. CASE n = e
    BY <2>1, <2>2, TurnStops
  <2>3. CASE n # e
    <3>1. n < e /\ n + 1 \in Orders /\ l <= n + 1 /\ n + 1 <= e
      BY <1>1, <2>1, <2>3, OrdersAre
    <3>2. AtOrder(Turn(c), L, P, b, l, n + 1)
      BY <2>1, <3>1, TurnMerges
    <3>3. Turn(c) \in Works /\ Turn(c).order = c.order + 1
      BY <2>1, <3>2 DEF AtOrder
    <3> QED
      BY <3>1, <3>2, <3>3
  <2> QED
    BY <2>2, <2>3
<1>7. S \subseteq Works
  OBVIOUS
<1> HIDE DEF S
<1>8. PICK last \in S : /\ Turn(last) = last
                        /\ Coalesce(first.heap, first.block, first.order)
                             = PushFreeList(last.heap, last.order, last.block)
  BY <1>5, <1>6, <1>7, LoopEnds
<1>9. AtOrder(last, L, P, b, l, e)
  <2>1. last.order \in Nat
    BY <1>7, OrdersAre DEF Works
  <2>2. last.order # last.order + 1
    BY <2>1
  <2> QED
    BY <1>6, <1>8, <2>2
<1> QED
  BY <1>3, <1>8, <1>9

LEMMA CoalesceIs ==
  ASSUME NEW L \in Layouts, NEW P \in [Blocks -> Entries], NEW b, NEW l, NEW e,
         Mergeable(L, P, b, l, e)
  PROVE  Merged(Coalesce([lists |-> L, blocks |-> P], b, l), L, P, b, l, e)
<1>1. PICK last : /\ AtOrder(last, L, P, b, l, e)
                  /\ Coalesce([lists |-> L, blocks |-> P], b, l)
                       = PushFreeList(last.heap, last.order, last.block)
  BY LoopMerges
<1>2. PICK h, lists, pages, r :
        /\ h = last.heap /\ lists = h.lists /\ pages = h.blocks
        /\ r = PushFreeList(h, e, b)
  OBVIOUS
<1>3. /\ last.block = b /\ last.order = e
      /\ lists \in Layouts /\ pages \in [Blocks -> Entries]
      /\ \A j \in Orders : lists[j] = IF l <= j /\ j < e THEN NULL_BLOCK ELSE L[j]
      /\ \A p \in Blocks : p # b => pages[p] = P[p]
  BY <1>1, <1>2 DEF AtOrder, Works
<1>4. b \in Blocks /\ e \in Orders /\ L[e] = NULL_BLOCK
  BY DEF Mergeable
<1>5. lists[e] = NULL_BLOCK
  <2>1. ~(e < e)
    BY <1>4, OrdersAre
  <2> QED
    BY <1>3, <1>4, <2>1
<1>6. PICK entry : entry = [next |-> NULL_BLOCK, prev |-> NULL_BLOCK, order |-> e, free |-> TRUE]
  OBVIOUS
<1>7. IsEntry(entry, e, TRUE) /\ entry \in Entries
  BY <1>4, <1>6, EntryMade DEF IsEntry
<1>8. r.lists = [lists EXCEPT ![e] = b] /\ r.blocks = [pages EXCEPT ![b] = entry]
  BY <1>2, <1>5, <1>6 DEF PushFreeList
<1>9. /\ r.lists \in Layouts
      /\ \A j \in Orders : r.lists[j] = IF j = e THEN b ELSE lists[j]
  BY <1>3, <1>4, <1>8 DEF Layouts
<1>10. /\ r.blocks \in [Blocks -> Entries] /\ r.blocks[b] = entry
       /\ \A p \in Blocks : p # b => r.blocks[p] = pages[p]
  BY <1>3, <1>4, <1>7, <1>8
<1>11. Merged(r, L, P, b, l, e)
  BY <1>3, <1>7, <1>9, <1>10 DEF Merged
<1> QED
  BY <1>1, <1>2, <1>3, <1>11

-----------------------------------------------------------------------------
\* A free of the last loan.

AllBut1(h) == SubSeq(h, 1, Len(h) - 1)

\* Layout M is L once block b has merged from order l up to e.
Gathered(M, L, b, l, e) ==
  /\ M \in Layouts
  /\ \A j \in Orders : M[j] = IF j = e THEN b ELSE IF l <= j /\ j < e THEN NULL_BLOCK ELSE L[j]

LEMMA AllBut1Is ==
  ASSUME NEW h \in Seq(Loans), h # << >>
  PROVE  /\ AllBut1(h) \in Seq(Loans) /\ Len(h) \in Nat \ {0}
         /\ Len(AllBut1(h)) = Len(h) - 1
         /\ \A j \in 1..(Len(h) - 1) : AllBut1(h)[j] = h[j]
<1>1. PICK k \in Nat : k = Len(h) - 1 /\ Len(h) = k + 1
  OBVIOUS
<1>2. PICK g : g = SubSeq(h, 1, k) /\ g = AllBut1(h)
  BY <1>1 DEF AllBut1
<1>3. /\ k \in Nat /\ 1..k \subseteq 1..Len(h) /\ \A j \in 1..k : h[j] \in Loans
  BY <1>1
<1>4. /\ g = [j \in 1..k |-> h[j]]
  BY <1>1, <1>2
<1>5. g \in Seq(Loans) /\ Len(g) = k /\ \A j \in 1..k : g[j] = h[j]
  <2>1. g \in [1..k -> Loans]
    BY <1>3, <1>4
  <2> QED
    BY <1>1, <1>4, <2>1
<1> QED
  BY <1>1, <1>2, <1>5

LEMMA HistoryShortened ==
  ASSUME NEW h \in Seq(Loans), h # << >>, NEW was, History(was, h)
  PROVE  Reached(was[Len(h) - 1], AllBut1(h))
<1> DEFINE k == Len(h) - 1
           w == [j \in 0..k |-> was[j]]
<1>1. PICK g : g = AllBut1(h)
  OBVIOUS
<1>2. /\ g \in Seq(Loans) /\ k \in Nat /\ Len(h) = k + 1
      /\ Len(g) = k /\ \A j \in 1..k : g[j] = h[j]
  BY <1>1, AllBut1Is
<1>3. /\ w \in [0..Len(g) -> Layouts] /\ w[0] = was[0] /\ w[k] = was[k]
      /\ \A j \in 0..k : w[j] = was[j]
  <2>1. \A j \in 0..k : j \in 0..Len(h)
    BY <1>2
  <2>2. \A j \in 0..k : was[j] \in Layouts
    BY <2>1 DEF History
  <2> QED
    BY <1>2, <2>2
<1> HIDE DEF w
<1>4. ASSUME NEW j \in 1..Len(g) PROVE Taken(w[j - 1], w[j], g[j].block, g[j].order)
  <2>1. j \in 1..Len(h) /\ j - 1 \in 0..k /\ j \in 0..k /\ j \in 1..k
    BY <1>2
  <2>2. Taken(was[j - 1], was[j], h[j].block, h[j].order)
    BY <2>1 DEF History
  <2> QED
    BY <1>2, <1>3, <2>1, <2>2
<1>5. ASSUME NEW j \in 0..Len(g) PROVE Tiled(w[j], g, j) /\ Paired(w[j], g, j)
  <2>1. j \in 0..Len(h) /\ j \in 0..k /\ j \in Nat /\ \A x \in 1..j : g[x] = h[x]
    BY <1>2
  <2>2. Tiled(was[j], h, j) /\ Paired(was[j], h, j)
    BY <2>1 DEF History
  <2>3. Tiled(was[j], g, j) /\ Paired(was[j], g, j)
    BY <2>1, <2>2, SameLoans
  <2> QED
    BY <1>3, <2>1, <2>3
<1>6. Whole(w[0])
  BY <1>3 DEF History
<1>7. History(w, g)
  BY <1>3, <1>4, <1>5, <1>6 DEF History
<1> QED
  BY <1>1, <1>2, <1>3, <1>7 DEF Reached

\* What the pages say of a free block and of a loan.
LEMMA FreeRecord ==
  ASSUME NEW L \in Layouts, NEW P \in [Blocks -> Entries], NEW h, Recorded(L, P, h),
         NEW n \in Orders, NEW d \in Blocks, L[n] = d, d # 0
  PROVE  IsEntry(P[d], n, TRUE)
<1>1. L[n] # NULL_BLOCK
  BY PoolIs
<1>2. P[d].next = NULL_BLOCK /\ P[d].prev = NULL_BLOCK /\ P[d].free /\ P[d].order = n
  BY <1>1 DEF Recorded
<1>3. P[d] \in Entries /\ P[d].free \in BOOLEAN
  BY DEF Entries
<1>4. P[d].free = TRUE
  BY <1>2, <1>3
<1> QED
  BY <1>2, <1>3, <1>4 DEF IsEntry

LEMMA ApartFromLoans ==
  ASSUME NEW h \in Seq(Loans), NEW L \in Layouts, Tiled(L, h, Len(h)),
         NEW x \in 1..Len(h), NEW n \in Orders
  PROVE  L[n] # h[x].block
<1> SUFFICES ASSUME L[n] = h[x].block PROVE FALSE
  OBVIOUS
<1>1. h[x] \in Loans
  OBVIOUS
<1>2. PICK p \in Blocks : p = h[x].block
  BY <1>1 DEF Loans
<1>3. InFree(L, n, p)
  BY <1>2, PoolIs, SizeIs DEF InFree, Covers
<1>4. Len(h) \in 0..Len(h)
  OBVIOUS
<1> QED
  BY <1>2, <1>3, <1>4, HeadsApart

\* A block that was split from an upper half goes back to where it was.
LEMMA UpperMerges ==
  ASSUME NEW h \in Seq(Loans), h # << >>, NEW W \in Layouts, Paired(W, h, Len(h) - 1),
         NEW b, NEW l \in Orders, NEW i, FirstFrom(W, l, i), b = W[i], b # 0,
         b = h[Len(h)].block, l = h[Len(h)].order,
         NEW L \in Layouts, L = AfterTaking(W, i, l),
         NEW P \in [Blocks -> Entries], Recorded(L, P, h)
  PROVE  Mergeable(L, P, b, l, i) /\ Gathered(W, L, b, l, i)
<1>1. b \in Blocks /\ b \in Nat /\ i \in Orders /\ l <= i /\ b # NULL_BLOCK
  BY TakenIsLayout, PoolIs DEF FirstFrom
<1>2. Len(h) \in Nat \ {0} /\ Len(h) \in 1..Len(h)
  OBVIOUS
<1>3. Upper(b, i) /\ \E x \in 1..(Len(h) - 1) : h[x].block = b - Size[i]
  BY <1>1 DEF Paired
<1>4. \A j \in Orders : L[j] = IF l <= j /\ j < i /\ b + Size[j] \in Blocks THEN b + Size[j]
                              ELSE IF j = i THEN NULL_BLOCK ELSE W[j]
  BY DEF AfterTaking
<1>5. ~(i < i)
  BY <1>1, OrdersAre
<1>6. \A x \in 1..Len(h) : P[h[x].block].order = h[x].order /\ ~P[h[x].block].free
  BY DEF Recorded
<1>7. ASSUME NEW n \in Orders, l <= n, n < i
      PROVE  /\ b % (2 * Size[n]) = 0 /\ b + Size[n] \in Blocks
             /\ L[n] = b + Size[n] /\ IsEntry(P[b + Size[n]], n, TRUE)
  <2>1. b % (2 * Size[n]) = 0
    BY <1>1, <1>3, <1>7, UpperIsMultiple, Halves
  <2>2. b + Size[n] \in Blocks /\ b + Size[n] # 0
    <3>1. b + Size[i] <= NumBlocks
      BY <1>1, <1>3, UpperFits
    <3>2. Size[n] \in Nat \ {0} /\ Size[i] \in Nat /\ Size[n] < Size[i]
      BY <1>1, <1>7, SizeGrows
    <3> QED
      BY <1>1, <3>1, <3>2, PoolIs, SMTT(30)
  <2>3. L[n] = b + Size[n]
    BY <1>4, <1>7, <2>2
  <2>4. PICK d \in Blocks : d = b + Size[n]
    BY <2>2
  <2>5. IsEntry(P[d], n, TRUE)
    BY <2>2, <2>3, <2>4, FreeRecord
  <2> QED
    BY <2>1, <2>2, <2>3, <2>4, <2>5
<1>8. Buddy(b, i) # b /\ ~P[Buddy(b, i)].free
  <2>1. b % (2 * Size[i]) # 0
    BY <1>1, <1>3, ComesSecond
  <2>2. Buddy(b, i) = b - Size[i]
    BY <2>1 DEF Buddy
  <2>3. PICK x \in 1..(Len(h) - 1) : h[x].block = b - Size[i]
    BY <1>3
  <2>4. x \in 1..Len(h)
    BY <1>2
  <2>5. b - Size[i] # b
    BY <1>1, SizeIs
  <2> QED
    BY <1>6, <2>2, <2>3, <2>4, <2>5
<1>9. L[i] = NULL_BLOCK
  BY <1>1, <1>4, <1>5
<1>10. Mergeable(L, P, b, l, i)
  BY <1>1, <1>2, <1>6, <1>7, <1>8, <1>9 DEF Mergeable
<1>11. Gathered(W, L, b, l, i)
  <2>1. \A j \in Orders : l <= j /\ j < i => W[j] = NULL_BLOCK
    BY DEF FirstFrom
  <2> QED
    BY <1>4, <2>1 DEF Gathered
<1> QED
  BY <1>10, <1>11

\* The block that starts the pool gathers all of it.
LEMMA WholeMerges ==
  ASSUME NEW h \in Seq(Loans), Len(h) = 1, NEW W \in Layouts, Whole(W),
         NEW b, NEW l \in Orders, NEW i, FirstFrom(W, l, i), b = W[i],
         b = h[1].block, l = h[1].order,
         NEW L \in Layouts, L = AfterTaking(W, i, l),
         NEW P \in [Blocks -> Entries], Recorded(L, P, h)
  PROVE  \E e \in Orders : /\ NumBlocks <= Size[e]
                           /\ Mergeable(L, P, b, l, e) /\ Gathered(Alone(e), L, b, l, e)
<1>1. PICK t \in Orders : NumBlocks <= Size[t] /\ W = Alone(t)
  BY DEF Whole
<1>2. b = 0 /\ i = t /\ l <= t /\ b \in Blocks
  <2>1. i \in Orders /\ l <= i /\ W[i] # NULL_BLOCK
    BY DEF FirstFrom
  <2> QED
    BY <1>1, <2>1, PoolIs DEF Alone
<1> DEFINE T == {n \in Orders : l <= n /\ NumBlocks <= Size[n]}
<1>3. PICK e \in T : \A n \in T : e <= n
  <2>1. T \subseteq Nat /\ t \in T
    BY <1>1, <1>2, OrdersAre
  <2> HIDE DEF T
  <2> QED
    BY <2>1, LeastMember
<1>4. e \in Orders /\ l <= e /\ NumBlocks <= Size[e] /\ e <= t
  BY <1>1, <1>2, <1>3
<1>5. \A n \in Orders : Size[n] \in Nat \ {0}
  BY SizeIs
<1>6. \A n \in Orders : l <= n /\ n < e => Size[n] \in Blocks /\ n < t
  <2> SUFFICES ASSUME NEW n \in Orders, l <= n, n < e PROVE Size[n] \in Blocks /\ n < t
    OBVIOUS
  <2>1. ~(e <= n) /\ n < t
    BY <1>4, OrdersAre
  <2>2. ~(NumBlocks <= Size[n])
    BY <1>3, <2>1
  <2> QED
    BY <1>5, <2>1, <2>2, PoolIs
<1>7. \A n \in Orders : e <= n => Size[n] \notin Blocks
  <2> SUFFICES ASSUME NEW n \in Orders, e <= n PROVE NumBlocks <= Size[n]
    BY <1>5, PoolIs
  <2>1. n = e \/ e < n
    BY <1>4, OrdersAre
  <2> QED
    BY <1>4, <1>5, <2>1, PoolIs, SizeGrows
<1>8. \A j \in Orders : L[j] = IF l <= j /\ j < t /\ Size[j] \in Blocks THEN Size[j] ELSE NULL_BLOCK
  <2>1. \A j \in Orders : 0 + Size[j] = Size[j]
    BY <1>5
  <2> QED
    BY <1>1, <1>2, <2>1 DEF AfterTaking, Alone
<1>9. \A n \in Orders : b % (2 * Size[n]) = 0 /\ b + Size[n] = Size[n]
  <2> SUFFICES ASSUME NEW n \in Orders PROVE 0 % (2 * Size[n]) = 0 /\ 0 + Size[n] = Size[n]
    BY <1>2
  <2>1. PICK s \in Nat \ {0} : s = 2 * Size[n]
    BY <1>5
  <2>2. (0 * s + 0) % s = 0
    BY <2>1, Remainder
  <2>3. 0 * s + 0 = 0
    BY <2>1
  <2> QED
    BY <1>5, <2>1, <2>2, <2>3
<1>10. ASSUME NEW n \in Orders, l <= n, n < e
       PROVE  L[n] = Size[n] /\ Size[n] \in Blocks /\ IsEntry(P[Size[n]], n, TRUE)
  <2>1. L[n] = Size[n] /\ Size[n] \in Blocks /\ Size[n] # 0
    BY <1>5, <1>6, <1>8, <1>10
  <2>2. PICK d \in Blocks : d = Size[n] /\ d # 0 /\ L[n] = d
    BY <2>1
  <2>3. IsEntry(P[d], n, TRUE)
    BY <2>2, FreeRecord
  <2>4. IsEntry(P[Size[n]], n, TRUE)
    <3>1. d = Size[n]
      BY <2>2
    <3> QED
      BY <2>3, <3>1
  <2> QED
    BY <2>1, <2>4
<1>11. Buddy(b, e) \notin Blocks
  <2>1. e <= e
    BY <1>4, OrdersAre
  <2>2. Size[e] \notin Blocks
    BY <1>4, <1>7, <2>1
  <2>3. b % (2 * Size[e]) = 0 /\ b + Size[e] = Size[e]
    BY <1>4, <1>9
  <2> QED
    BY <2>2, <2>3 DEF Buddy
<1>12. L[e] = NULL_BLOCK /\ P[b].order = l
  <2>1. 1 \in 1..Len(h)
    OBVIOUS
  <2>2. P[b].order = l
    BY <2>1 DEF Recorded
  <2>3. e <= e
    BY <1>4, OrdersAre
  <2> QED
    BY <1>4, <1>7, <1>8, <2>2, <2>3
<1>13. Mergeable(L, P, b, l, e)
  BY <1>2, <1>4, <1>9, <1>10, <1>11, <1>12 DEF Mergeable
<1>14. Gathered(Alone(e), L, b, l, e)
  <2>1. Alone(e) \in Layouts
    BY <1>4, WholeIs
  <2>2. ASSUME NEW j \in Orders, j # e, ~(l <= j /\ j < e) PROVE L[j] = NULL_BLOCK
    <3>1. ~(l <= j) \/ e <= j
      BY <1>4, <2>2, OrdersAre
    <3> QED
      BY <1>7, <1>8, <3>1
  <2> QED
    BY <1>2, <2>1, <2>2 DEF Alone, Gathered
<1> QED
  BY <1>4, <1>13, <1>14

LEMMA LastLoanMerges ==
  ASSUME NEW h \in Seq(Loans), h # << >>, NEW L \in Layouts, Reached(L, h),
         NEW P \in [Blocks -> Entries], Recorded(L, P, h)
  PROVE  \E M, e : /\ Mergeable(L, P, h[Len(h)].block, h[Len(h)].order, e)
                   /\ Gathered(M, L, h[Len(h)].block, h[Len(h)].order, e)
                   /\ Reached(M, AllBut1(h))
<1>1. PICK was : History(was, h) /\ L = was[Len(h)]
  BY DEF Reached
<1> DEFINE k == Len(h)
<1>2. PICK W, b, l : W = was[k - 1] /\ b = h[k].block /\ l = h[k].order
  OBVIOUS
<1>3. k \in Nat \ {0} /\ k \in 1..k /\ k - 1 \in 0..k /\ 0 \in 0..k /\ h[k] \in Loans
  OBVIOUS
<1>4. l \in Orders /\ b \in Blocks
  BY <1>2, <1>3 DEF Loans
<1>5. W \in Layouts /\ Paired(W, h, k - 1) /\ Taken(W, L, b, l)
  BY <1>1, <1>2, <1>3 DEF History
<1>6. PICK i : FirstFrom(W, l, i) /\ b = W[i] /\ L = AfterTaking(W, i, l)
  BY <1>5 DEF Taken
<1>7. Tiled(L, h, k)
  BY ReachedLayout
<1>8. CASE b # 0
  <2>1. Mergeable(L, P, b, l, i) /\ Gathered(W, L, b, l, i)
    BY <1>2, <1>4, <1>5, <1>6, <1>8, UpperMerges
  <2>2. Reached(W, AllBut1(h))
    BY <1>1, <1>2, HistoryShortened
  <2> QED
    BY <1>2, <2>1, <2>2
<1>9. CASE b = 0
  <2>1. h[1].block = 0 /\ 1 \in 1..k
    <3>1. PICK V : V = was[0] /\ Whole(V)
      BY <1>1 DEF History
    <3>2. 1 \in 1..k /\ 1 - 1 = 0
      BY <1>3
    <3>3. PICK j \in Orders : V[j] # NULL_BLOCK /\ h[1].block = V[j]
      BY <1>1, <3>1, <3>2 DEF History, Taken, FirstFrom
    <3> QED
      BY <3>1, <3>2, <3>3 DEF Whole, Alone
  <2>2. k = 1
    BY <1>2, <1>3, <1>7, <1>9, <2>1, LoansApart
  <2>3. Whole(W)
    BY <1>1, <1>2, <2>2 DEF History
  <2>4. PICK e \in Orders : /\ NumBlocks <= Size[e]
                            /\ Mergeable(L, P, b, l, e) /\ Gathered(Alone(e), L, b, l, e)
    BY <1>2, <1>4, <1>5, <1>6, <2>2, <2>3, WholeMerges
  <2>5. PICK g : g = AllBut1(h)
    OBVIOUS
  <2>6. g \in Seq(Loans) /\ Len(g) = 0
    BY <2>2, <2>5, AllBut1Is
  <2>7. g = << >>
    BY <2>6
  <2>8. Reached(Alone(e), AllBut1(h))
    BY <2>4, <2>5, <2>6, <2>7, OneLayout
  <2> QED
    BY <1>2, <2>4, <2>8
<1> QED
  BY <1>8, <1>9

LEMMA RecordsMerged ==
  ASSUME NEW h \in Seq(Loans), h # << >>, NEW L \in Layouts, Tiled(L, h, Len(h)),
         NEW P \in [Blocks -> Entries], Recorded(L, P, h),
         NEW b, NEW l, b = h[Len(h)].block, NEW e \in Orders,
         NEW M, Gathered(M, L, b, l, e), NEW r, Merged(r, L, P, b, l, e)
  PROVE  r.lists = M /\ Recorded(M, r.blocks, AllBut1(h))
<1>1. PICK g, R : g = AllBut1(h) /\ R = r.blocks
  OBVIOUS
<1>2. /\ Len(h) \in Nat \ {0} /\ Len(h) \in 1..Len(h)
      /\ Len(g) = Len(h) - 1 /\ \A j \in 1..(Len(h) - 1) : g[j] = h[j] /\ j \in 1..Len(h) /\ j # Len(h)
  BY <1>1, AllBut1Is
<1>3. /\ M \in Layouts
      /\ \A j \in Orders : M[j] = IF j = e THEN b ELSE IF l <= j /\ j < e THEN NULL_BLOCK ELSE L[j]
  BY DEF Gathered
<1>4. r.lists = M
  <2>1. /\ r.lists \in Layouts
        /\ \A j \in Orders :
             r.lists[j] = IF j = e THEN b ELSE IF l <= j /\ j < e THEN NULL_BLOCK ELSE L[j]
    BY DEF Merged
  <2>2. PICK N : N = r.lists
    OBVIOUS
  <2>3. N \in Layouts /\ \A j \in Orders : N[j] = M[j]
    BY <1>3, <2>1, <2>2
  <2>4. N = M
    BY <1>3, <2>3 DEF Layouts
  <2> QED
    BY <2>2, <2>4
<1>5. IsEntry(R[b], e, TRUE) /\ \A p \in Blocks : p # b => R[p] = P[p]
  BY <1>1 DEF Merged
<1>6. ASSUME NEW n \in Orders, M[n] # NULL_BLOCK
      PROVE  /\ R[M[n]].next = NULL_BLOCK /\ R[M[n]].prev = NULL_BLOCK /\ R[M[n]].free
             /\ M[n] # 0 => R[M[n]].order = n
  <2>1. CASE n = e
    BY <1>3, <1>5, <2>1 DEF IsEntry
  <2>2. CASE n # e
    <3>1. M[n] = L[n] /\ L[n] # NULL_BLOCK /\ L[n] \in Blocks
      BY <1>3, <1>6, <2>2 DEF Layouts
    <3>2. L[n] # b
      BY <1>2, ApartFromLoans
    <3>3. R[L[n]] = P[L[n]]
      BY <1>5, <3>1, <3>2
    <3> QED
      BY <3>1, <3>3 DEF Recorded
  <2> QED
    BY <2>1, <2>2
<1>7. ASSUME NEW x \in 1..Len(g) PROVE R[g[x].block].order = g[x].order /\ ~R[g[x].block].free
  <2>1. g[x] = h[x] /\ x \in 1..Len(h) /\ x # Len(h) /\ h[x] \in Loans
    BY <1>2
  <2>2. h[x].block \in Blocks /\ h[x].block # b
    BY <1>2, <2>1, LoansApart DEF Loans
  <2>3. R[h[x].block] = P[h[x].block]
    BY <1>5, <2>2
  <2> QED
    BY <2>1, <2>3 DEF Recorded
<1>8. Recorded(M, R, g)
  BY <1>6, <1>7 DEF Recorded
<1> QED
  BY <1>1, <1>4, <1>8

LEMMA KfreeInv ==
  ASSUME LifoInv, discipline = "lifo", NEW k \in DOMAIN live, Kfree(k)
  PROVE  LifoInv'
<1>1. /\ free_lists \in Layouts /\ blocks \in [Blocks -> Entries] /\ live \in Seq(Loans)
      /\ Recorded(free_lists, blocks, live) /\ Reached(free_lists, live)
  BY DEF LifoInv
<1>2. k = Len(live) /\ live # << >> /\ k \in 1..Len(live) /\ Len(live) \in Nat \ {0}
  <2>1. k = Len(live)
    BY DEF Kfree, MayFree
  <2> QED
    BY <1>1, <2>1
<1>3. PICK b, l : b = live[k].block /\ l = live[k].order
  OBVIOUS
<1>4. PICK M, e : /\ Mergeable(free_lists, blocks, b, l, e)
                  /\ Gathered(M, free_lists, b, l, e)
                  /\ Reached(M, AllBut1(live))
  BY <1>1, <1>2, <1>3, LastLoanMerges
<1>5. blocks[b].order = l /\ e \in Orders
  BY <1>4 DEF Mergeable
<1>6. PICK r : r = Coalesce([lists |-> free_lists, blocks |-> blocks], b, l)
  OBVIOUS
<1>7. free_lists' = r.lists /\ blocks' = r.blocks
  BY <1>3, <1>5, <1>6 DEF Kfree, SetHeap, Heap
<1>8. live' = AllBut1(live)
  <2>1. live' = SubSeq(live, 1, k - 1) \o SubSeq(live, k + 1, Len(live))
    BY DEF Kfree
  <2>2. SubSeq(live, k + 1, Len(live)) = << >>
    BY <1>1, <1>2
  <2>3. SubSeq(live, 1, k - 1) \in Seq(Loans)
    BY <1>1, <1>2
  <2>4. PICK s : s = SubSeq(live, 1, k - 1)
    OBVIOUS
  <2>5. s \o << >> = s
    BY <2>3, <2>4
  <2> QED
    BY <1>2, <2>1, <2>2, <2>4, <2>5 DEF AllBut1
<1>9. Merged(r, free_lists, blocks, b, l, e)
  BY <1>1, <1>4, <1>6, CoalesceIs
<1>10. Tiled(free_lists, live, Len(live))
  BY <1>1, ReachedLayout
<1>11. r.lists = M /\ Recorded(M, r.blocks, AllBut1(live))
  BY <1>1, <1>2, <1>3, <1>4, <1>5, <1>9, <1>10, RecordsMerged
<1>12. M \in Layouts /\ r.blocks \in [Blocks -> Entries]
  BY <1>4, <1>9 DEF Gathered, Merged
<1>13. AllBut1(live) \in Seq(Loans)
  BY <1>1, <1>2, AllBut1Is
<1> QED
  BY <1>4, <1>7, <1>8, <1>11, <1>12, <1>13 DEF LifoInv

-----------------------------------------------------------------------------
\* Blocks of one size freed in the order of their allocation. The loans are a
\* row in the pool. What has been freed lies below it, merged as far as it can
\* be, and what was never lent above it: one block of an order at most on
\* either side.

\* The pages of a layout below c, in blocks of order m and more, the larger
\* ones first.
LowerPart(V, m, c) ==
  /\ \A j \in Orders : m <= j /\ V[j] # NULL_BLOCK => Even(V[j], j) /\ V[j] + Size[j] <= c
  /\ \A j, k \in Orders : m <= j /\ j < k /\ V[j] # NULL_BLOCK /\ V[k] # NULL_BLOCK =>
       V[k] + Size[k] <= V[j]
  /\ \A p \in Nat : p < c => \E j \in Orders : m <= j /\ InFree(V, j, p)

\* The pages of a layout from c on, the larger blocks last.
Ascending(U, m, c) ==
  /\ \A j \in Orders : m <= j /\ U[j] # NULL_BLOCK => c <= U[j]
  /\ \A j, k \in Orders : m <= j /\ j < k /\ U[j] # NULL_BLOCK /\ U[k] # NULL_BLOCK =>
       U[j] + Size[j] <= U[k]
  /\ \A p \in Blocks : c <= p => \E j \in Orders : m <= j /\ InFree(U, j, p)

UpperPart(U, m, c) ==
  /\ Ascending(U, m, c)
  /\ \A j \in Orders : m <= j /\ U[j] # NULL_BLOCK => Upper(U[j], j)

LEMMA OddBelow ==
  ASSUME NEW V \in Layouts, NEW m \in Orders, NEW c \in Nat, LowerPart(V, m, c), Upper(c, m)
  PROVE  /\ V[m] # NULL_BLOCK /\ V[m] = c - Size[m] /\ Even(V[m], m)
         /\ LowerPart(V, m + 1, V[m])
<1>1. \A j \in Orders : Size[j] \in Nat \ {0} /\ j \in Nat
  BY SizeIs, OrdersAre
<1>2. c - Size[m] \in Nat
  BY ComesSecond
<1>3. c - 1 \in Nat /\ c - 1 < c
  BY <1>1, <1>2
<1>4. PICK j \in Orders : m <= j /\ InFree(V, j, c - 1)
  BY <1>3 DEF LowerPart
<1>5. V[j] # NULL_BLOCK /\ Even(V[j], j) /\ V[j] + Size[j] <= c /\ c - 1 < V[j] + Size[j]
  BY <1>4 DEF LowerPart, InFree, Covers
<1>6. V[j] \in Nat /\ V[j] + Size[j] = c
  <2>1. V[j] \in Nat
    BY <1>5, PoolIs DEF Layouts
  <2> QED
    BY <1>1, <1>5, <2>1
<1>7. j = m
  <2> SUFFICES ASSUME m < j PROVE FALSE
    BY <1>1, <1>4
  <2>1. Upper(c, j)
    BY <1>5, <1>6, EvenOrUpper
  <2>2. Even(c, m)
    BY <2>1, EvenIsNext
  <2> QED
    BY <2>2, EvenOrUpper
<1>8. \A k \in Orders : m + 1 <= k <=> m <= k /\ m < k
  BY <1>1
<1>9. \A p \in Nat : p < V[m] => ~InFree(V, m, p) /\ p < c
  BY <1>1, <1>6, <1>7 DEF InFree, Covers
<1>10. \A k \in Orders : m <= k /\ k # m => m < k
  BY <1>1
<1>12. m <= m
  BY <1>1
<1>11. LowerPart(V, m + 1, V[m])
  <2>1. \A k \in Orders : m + 1 <= k /\ V[k] # NULL_BLOCK => Even(V[k], k) /\ V[k] + Size[k] <= V[m]
    BY <1>12, <1>5, <1>7, <1>8 DEF LowerPart
  <2>2. \A i, k \in Orders : m + 1 <= i /\ i < k /\ V[i] # NULL_BLOCK /\ V[k] # NULL_BLOCK =>
          V[k] + Size[k] <= V[i]
    BY <1>8 DEF LowerPart
  <2>3. \A p \in Nat : p < V[m] => \E k \in Orders : m + 1 <= k /\ InFree(V, k, p)
    BY <1>8, <1>9, <1>10 DEF LowerPart
  <2> QED
    BY <2>1, <2>2, <2>3 DEF LowerPart
<1> QED
  BY <1>1, <1>5, <1>6, <1>7, <1>11

LEMMA EvenBelow ==
  ASSUME NEW V \in Layouts, NEW m \in Orders, NEW c \in Nat, LowerPart(V, m, c), Even(c, m)
  PROVE  V[m] = NULL_BLOCK /\ LowerPart(V, m + 1, c)
<1>1. \A j \in Orders : Size[j] \in Nat \ {0} /\ j \in Nat
  BY SizeIs, OrdersAre
<1>7. m <= m
  BY <1>1
<1>2. V[m] = NULL_BLOCK
  <2> SUFFICES ASSUME V[m] # NULL_BLOCK PROVE FALSE
    OBVIOUS
  <2>1. V[m] \in Nat /\ Even(V[m], m) /\ V[m] + Size[m] <= c
    BY <1>1, PoolIs DEF Layouts, LowerPart
  <2>2. PICK e \in Nat : e = V[m] + Size[m]
    BY <1>1, <2>1
  <2>3. Upper(e, m)
    BY <2>1, <2>2, EvenOrUpper
  <2>4. e < c
    <3>1. e # c
      BY <2>3, EvenOrUpper
    <3> QED
      BY <2>1, <2>2, <3>1
  <2>5. PICK j \in Orders : m <= j /\ InFree(V, j, e)
    BY <2>4 DEF LowerPart
  <2>6. V[j] # NULL_BLOCK /\ V[j] <= e /\ e < V[j] + Size[j]
    BY <2>5 DEF InFree, Covers
  <2>7. m < j
    BY <1>1, <2>2, <2>5, <2>6
  <2>8. V[j] + Size[j] <= V[m] /\ V[j] \in Nat
    BY <1>7, <2>6, <2>7, PoolIs DEF Layouts, LowerPart
  <2> QED
    BY <1>1, <2>1, <2>2, <2>6, <2>8
<1>3. \A k \in Orders : m + 1 <= k => m <= k
  BY <1>1
<1>4. \A k \in Orders : m <= k /\ k # m => m + 1 <= k
  BY <1>1
<1>5. \A p \in Nat : ~InFree(V, m, p)
  BY <1>2 DEF InFree
<1>6. LowerPart(V, m + 1, c)
  BY <1>3, <1>4, <1>5 DEF LowerPart
<1> QED
  BY <1>2, <1>6

LEMMA OddAbove ==
  ASSUME NEW U \in Layouts, NEW m \in Orders, NEW c \in Blocks, UpperPart(U, m, c), Upper(c, m)
  PROVE  U[m] = c /\ UpperPart(U, m + 1, c + Size[m])
<1>1. \A j \in Orders : Size[j] \in Nat \ {0} /\ j \in Nat
  BY SizeIs, OrdersAre
<1>2. c \in Nat /\ c <= c
  BY PoolIs
<1>3. PICK j \in Orders : m <= j /\ InFree(U, j, c)
  BY <1>2 DEF UpperPart, Ascending
<1>4. U[j] # NULL_BLOCK /\ U[j] <= c /\ c <= U[j] /\ Upper(U[j], j)
  BY <1>3 DEF UpperPart, Ascending, InFree, Covers
<1>5. U[j] = c
  <2>1. U[j] \in Nat
    BY <1>4, PoolIs DEF Layouts
  <2> QED
    BY <1>2, <1>4, <2>1
<1>6. j = m
  <2> SUFFICES ASSUME m < j PROVE FALSE
    BY <1>1, <1>3
  <2>1. Even(c, m)
    BY <1>2, <1>4, <1>5, EvenIsNext
  <2> QED
    BY <1>2, <2>1, EvenOrUpper
<1>7. \A k \in Orders : m + 1 <= k <=> m <= k /\ m < k
  BY <1>1
<1>8. \A k \in Orders : m <= k /\ k # m => m < k
  BY <1>1
<1>9. \A p \in Blocks : c + Size[m] <= p => ~InFree(U, m, p) /\ c <= p
  BY <1>1, <1>2, <1>5, <1>6, PoolIs DEF InFree, Covers
<1>11. m <= m
  BY <1>1
<1>10. Ascending(U, m + 1, c + Size[m])
  <2>1. \A k \in Orders : m + 1 <= k /\ U[k] # NULL_BLOCK => c + Size[m] <= U[k]
    BY <1>11, <1>4, <1>5, <1>6, <1>7 DEF UpperPart, Ascending
  <2>2. \A i, k \in Orders : m + 1 <= i /\ i < k /\ U[i] # NULL_BLOCK /\ U[k] # NULL_BLOCK =>
          U[i] + Size[i] <= U[k]
    BY <1>7 DEF UpperPart, Ascending
  <2>3. \A p \in Blocks : c + Size[m] <= p => \E k \in Orders : m + 1 <= k /\ InFree(U, k, p)
    BY <1>7, <1>8, <1>9 DEF UpperPart, Ascending
  <2> QED
    BY <2>1, <2>2, <2>3 DEF Ascending
<1> QED
  BY <1>5, <1>6, <1>7, <1>10 DEF UpperPart

LEMMA EvenAbove ==
  ASSUME NEW U \in Layouts, NEW m \in Orders, NEW c \in Nat, UpperPart(U, m, c), Even(c, m)
  PROVE  U[m] = NULL_BLOCK /\ UpperPart(U, m + 1, c)
<1>1. \A j \in Orders : Size[j] \in Nat \ {0} /\ j \in Nat
  BY SizeIs, OrdersAre
<1>7. m <= m
  BY <1>1
<1>2. U[m] = NULL_BLOCK
  <2> SUFFICES ASSUME U[m] # NULL_BLOCK PROVE FALSE
    OBVIOUS
  <2>1. U[m] \in Blocks /\ U[m] \in Nat /\ Upper(U[m], m) /\ c <= U[m]
    BY <1>1, PoolIs DEF Layouts, UpperPart, Ascending
  <2>2. c # U[m]
    BY <2>1, EvenOrUpper
  <2>3. c \in Blocks /\ c <= c
    BY <2>1, PoolIs
  <2>4. PICK j \in Orders : m <= j /\ InFree(U, j, c)
    BY <2>3 DEF UpperPart, Ascending
  <2>5. U[j] # NULL_BLOCK /\ U[j] <= c
    BY <2>4 DEF InFree, Covers
  <2>6. m < j
    BY <1>1, <2>1, <2>2, <2>4, <2>5
  <2>7. U[m] + Size[m] <= U[j] /\ U[j] \in Nat
    BY <1>7, <2>5, <2>6, PoolIs DEF Layouts, UpperPart, Ascending
  <2> QED
    BY <1>1, <2>1, <2>5, <2>7
<1>3. \A k \in Orders : m + 1 <= k => m <= k
  BY <1>1
<1>4. \A k \in Orders : m <= k /\ k # m => m + 1 <= k
  BY <1>1
<1>5. \A p \in Blocks : ~InFree(U, m, p)
  BY <1>2 DEF InFree
<1>6. Ascending(U, m + 1, c)
  BY <1>3, <1>4, <1>5 DEF UpperPart, Ascending
<1> QED
  BY <1>2, <1>3, <1>6 DEF UpperPart

\* The loans lie one after the other from page a on, all of order l.
Row(h, l, a) ==
  \A x \in 1..Len(h) : h[x].order = l /\ h[x].block = a + (x - 1) * Size[l]

\* While nothing has been freed the row starts the pool.
Lined(L, h, l) ==
  /\ Row(h, l, 0)
  /\ UpperPart(L, l, Len(h) * Size[l])
  /\ \A j \in Orders : j < l => L[j] = NULL_BLOCK

LEMMA TakenLeavesUpper ==
  ASSUME NEW L \in Layouts, NEW l \in Orders, NEW i, FirstFrom(L, l, i), NEW b, b = L[i],
         Multiple(b, i), Ascending(L, l, b),
         \A j \in Orders : l <= j /\ j # i /\ L[j] # NULL_BLOCK => Upper(L[j], j)
  PROVE  UpperPart(AfterTaking(L, i, l), l, b + Size[l])
<1>1. /\ b \in Blocks /\ b \in Nat /\ i \in Orders /\ l <= i /\ b # NULL_BLOCK
      /\ \A j \in Orders : l <= j /\ j < i => L[j] = NULL_BLOCK
  BY TakenIsLayout, PoolIs DEF FirstFrom
<1>2. \A j \in Orders : Size[j] \in Nat \ {0} /\ j \in Nat
  BY SizeIs, OrdersAre
<1>3. \A j, k \in Orders : j < k => 2 * Size[j] <= Size[k]
  BY SizeGrows
<1>4. PICK M : M = AfterTaking(L, i, l)
  OBVIOUS
<1> DEFINE IsNew(j) == l <= j /\ j < i /\ b + Size[j] \in Blocks
           IsOld(j) == i < j /\ L[j] # NULL_BLOCK
<1>5. \A j \in Orders : IsNew(j) => M[j] = b + Size[j] /\ M[j] # NULL_BLOCK
  BY <1>1, <1>2, <1>4, PoolIs DEF AfterTaking
<1>6. \A j \in Orders : IsOld(j) => M[j] = L[j]
  BY <1>1, <1>2, <1>4 DEF AfterTaking
<1>7. \A j \in Orders : l <= j /\ M[j] # NULL_BLOCK => IsNew(j) \/ IsOld(j)
  BY <1>1, <1>2, <1>4 DEF AfterTaking
<1> HIDE DEF IsNew, IsOld
<1>8. \A j \in Orders : IsOld(j) => L[j] \in Nat /\ b + Size[i] <= L[j] /\ Upper(L[j], j) /\ i < j
  <2> SUFFICES ASSUME NEW j \in Orders, IsOld(j)
               PROVE  L[j] \in Nat /\ b + Size[i] <= L[j] /\ Upper(L[j], j) /\ i < j
    OBVIOUS
  <2>1. i < j /\ L[j] # NULL_BLOCK /\ l <= j /\ j # i
    BY <1>1, <1>2 DEF IsOld
  <2>2. L[j] \in Nat
    BY <2>1, PoolIs DEF Layouts
  <2>3. L[i] + Size[i] <= L[j]
    BY <1>1, <2>1 DEF Ascending
  <2> QED
    BY <2>1, <2>2, <2>3
<1>9. \A j \in Orders : IsNew(j) => l <= j /\ j < i /\ Upper(b + Size[j], j)
  BY <1>1, Halves DEF IsNew
<1>10. \A j \in Orders : l <= j /\ M[j] # NULL_BLOCK => b + Size[l] <= M[j] /\ Upper(M[j], j)
  <2> SUFFICES ASSUME NEW j \in Orders, l <= j, M[j] # NULL_BLOCK
               PROVE  b + Size[l] <= M[j] /\ Upper(M[j], j)
    OBVIOUS
  <2>1. ASSUME NEW k \in Orders, l <= k PROVE Size[l] <= Size[k]
    <3>1. l = k \/ l < k
      BY <1>2, <2>1
    <3> QED
      BY <1>2, <1>3, <3>1
  <2>2. CASE IsNew(j)
    BY <1>1, <1>2, <1>5, <1>9, <2>1, <2>2
  <2>3. CASE IsOld(j)
    BY <1>1, <1>2, <1>6, <1>8, <2>1, <2>3
  <2> QED
    BY <1>7, <2>2, <2>3
<1>11. ASSUME NEW j \in Orders, NEW k \in Orders, l <= j, j < k,
              M[j] # NULL_BLOCK, M[k] # NULL_BLOCK
       PROVE  M[j] + Size[j] <= M[k]
  <2>1. l <= k
    BY <1>2, <1>11
  <2>2. CASE IsNew(j) /\ IsNew(k)
    BY <1>1, <1>2, <1>3, <1>5, <1>11, <2>2
  <2>3. CASE IsNew(j) /\ IsOld(k)
    <3>1. M[j] = b + Size[j] /\ M[k] = L[k] /\ b + Size[i] <= L[k] /\ L[k] \in Nat /\ j < i
      BY <1>5, <1>6, <1>8, <1>9, <2>3
    <3>2. 2 * Size[j] <= Size[i]
      BY <1>1, <1>3, <3>1
    <3> QED
      BY <1>1, <1>2, <3>1, <3>2
  <2>4. CASE IsOld(j) /\ IsOld(k)
    <3>1. M[j] = L[j] /\ M[k] = L[k]
      BY <1>6, <2>4
    <3> QED
      BY <1>11, <3>1 DEF Ascending
  <2>5. CASE IsOld(j) /\ IsNew(k)
    BY <1>1, <1>2, <1>8, <1>9, <1>11, <2>5
  <2> QED
    BY <1>7, <1>11, <2>1, <2>2, <2>3, <2>4, <2>5
<1>12. ASSUME NEW p \in Blocks, b + Size[l] <= p
       PROVE  \E j \in Orders : l <= j /\ InFree(M, j, p)
  <2>1. p \in Nat /\ b <= p
    BY <1>1, <1>2, <1>12, PoolIs
  <2>2. PICK j \in Orders : l <= j /\ InFree(L, j, p)
    BY <2>1 DEF Ascending
  <2>3. L[j] # NULL_BLOCK /\ Covers(L[j], j, p) /\ (j = i \/ i < j)
    BY <1>1, <1>2, <2>2 DEF InFree
  <2>4. CASE i < j
    <3>1. M[j] = L[j]
      BY <1>6, <2>3, <2>4 DEF IsOld
    <3> QED
      BY <2>2, <2>3, <3>1 DEF InFree
  <2>5. CASE j = i
    <3>1. Covers(b, i, p) /\ ~Covers(b, l, p)
      BY <1>1, <1>2, <1>12, <2>1, <2>3, <2>5 DEF Covers
    <3>2. PICK k \in Orders : l <= k /\ k < i /\ Covers(b + Size[k], k, p)
      BY <1>1, <2>1, <3>1, SplitCovers
    <3>3. b + Size[k] \in Blocks
      BY <1>1, <1>2, <2>1, <3>2, PoolIs DEF Covers
    <3>4. M[k] = b + Size[k] /\ M[k] # NULL_BLOCK
      BY <1>5, <3>2, <3>3 DEF IsNew
    <3> QED
      BY <3>2, <3>4 DEF InFree
  <2> QED
    BY <2>3, <2>4, <2>5
<1>13. Ascending(M, l, b + Size[l])
  BY <1>10, <1>11, <1>12 DEF Ascending
<1> QED
  BY <1>4, <1>10, <1>13 DEF UpperPart

\* The block that kalloc takes follows the row.
LEMMA RowGrows ==
  ASSUME NEW h \in Seq(Loans), h # << >>, NEW L \in Layouts, NEW l \in Orders, Lined(L, h, l),
         NEW i, FirstFrom(L, l, i)
  PROVE  /\ L[i] = Len(h) * Size[l] /\ Multiple(L[i], i) /\ Ascending(L, l, L[i])
         /\ \A j \in Orders : l <= j /\ L[j] # NULL_BLOCK => Upper(L[j], j)
<1>1. PICK c : c = Len(h) * Size[l]
  OBVIOUS
<1>2. Len(h) \in Nat /\ c \in Nat /\ i \in Orders /\ l <= i /\ L[i] # NULL_BLOCK
  BY <1>1, SizeIs DEF FirstFrom
<1>3. UpperPart(L, l, c)
  BY <1>1 DEF Lined
<1>4. \A j \in Orders : l <= j /\ L[j] # NULL_BLOCK => Upper(L[j], j) /\ c <= L[j]
  BY <1>3 DEF UpperPart, Ascending
<1>5. L[i] \in Blocks /\ L[i] \in Nat /\ Upper(L[i], i) /\ c <= L[i]
  BY <1>2, <1>4, PoolIs DEF Layouts
<1>6. c \in Blocks /\ c <= c
  BY <1>2, <1>5, PoolIs
<1>7. PICK j \in Orders : l <= j /\ InFree(L, j, c)
  BY <1>3, <1>6 DEF UpperPart, Ascending
<1>8. L[j] # NULL_BLOCK /\ L[j] <= c
  BY <1>7 DEF InFree, Covers
<1>9. L[i] = c
  <2>1. j = i \/ j < i \/ i < j
    BY <1>2, OrdersAre
  <2>2. ~(j < i)
    BY <1>7, <1>8 DEF FirstFrom
  <2>3. CASE j = i
    BY <1>2, <1>5, <1>8, <2>3
  <2>4. CASE i < j
    <3>1. L[i] + Size[i] <= L[j] /\ L[j] \in Nat /\ Size[i] \in Nat \ {0}
      BY <1>2, <1>3, <1>8, <2>4, PoolIs, SizeIs DEF Layouts, UpperPart, Ascending
    <3> QED
      BY <1>2, <1>5, <1>8, <3>1
  <2> QED
    BY <2>1, <2>2, <2>3, <2>4
<1>10. Multiple(L[i], i)
  BY <1>2, <1>5, UpperIsMultiple
<1> QED
  BY <1>1, <1>3, <1>4, <1>9, <1>10 DEF UpperPart

LEMMA WholeAscends ==
  ASSUME NEW t \in Orders, NumBlocks <= Size[t], NEW l \in Orders, NEW i,
         FirstFrom(Alone(t), l, i)
  PROVE  /\ i = t /\ Alone(t)[i] = 0 /\ Multiple(0, i) /\ Ascending(Alone(t), l, 0)
         /\ \A j \in Orders : j # i => Alone(t)[j] = NULL_BLOCK
<1>1. \A j \in Orders : Alone(t)[j] = IF j = t THEN 0 ELSE NULL_BLOCK
  BY DEF Alone
<1>2. i = t /\ l <= t
  BY <1>1 DEF FirstFrom
<1>3. Multiple(0, i)
  <2>1. 0 = 0 * Size[t] /\ 0 \in Nat
    BY SizeIs
  <2> QED
    BY <1>2, <2>1 DEF Multiple
<1>4. ASSUME NEW p \in Blocks PROVE InFree(Alone(t), t, p)
  <2>1. Covers(0, t, p)
    BY PoolIs, SizeIs DEF Covers
  <2> QED
    BY <1>1, <2>1, PoolIs DEF InFree
<1>5. Ascending(Alone(t), l, 0)
  <2>1. \A j \in Orders : Alone(t)[j] # NULL_BLOCK => 0 <= Alone(t)[j] /\ j = t
    BY <1>1
  <2>2. \A j, k \in Orders : j < k => ~(j = t /\ k = t)
    BY OrdersAre
  <2> QED
    BY <1>2, <1>4, <2>1, <2>2 DEF Ascending
<1> QED
  BY <1>1, <1>2, <1>3, <1>5

LEMMA LentIsLined ==
  ASSUME NEW h \in Seq(Loans), NEW L \in Layouts, NEW l \in Orders, NEW i, FirstFrom(L, l, i),
         Row(h, l, 0), L[i] = Len(h) * Size[l],
         Multiple(L[i], i), Ascending(L, l, L[i]),
         \A j \in Orders : l <= j /\ j # i /\ L[j] # NULL_BLOCK => Upper(L[j], j),
         \A j \in Orders : j < l => L[j] = NULL_BLOCK
  PROVE  Lined(AfterTaking(L, i, l), Lent(h, L[i], l), l)
<1>1. PICK g : g = Lent(h, L[i], l) /\ g = Append(h, [block |-> L[i], order |-> l])
  BY DEF Lent
<1>2. PICK n \in Nat : n = Len(h)
  OBVIOUS
<1>3. PICK s \in Nat : s = Size[l]
  BY SizeIs
<1>4. /\ Len(g) = n + 1 /\ g[n + 1].block = L[i] /\ g[n + 1].order = l
      /\ \A x \in 1..n : g[x] = h[x]
  BY <1>1, <1>2
<1>5. (n + 1) * s = n * s + s /\ (n + 1) - 1 = n
  <2>1. \A x, y \in Nat : (x + 1) * y = x * y + y /\ (x + 1) - 1 = x
    OBVIOUS
  <2> QED
    BY <2>1
<1>6. Row(g, l, 0)
  <2> SUFFICES ASSUME NEW x \in 1..(n + 1)
               PROVE  g[x].order = l /\ g[x].block = 0 + (x - 1) * Size[l]
    BY <1>4 DEF Row
  <2>1. CASE x = n + 1
    <3>1. 0 + n * s = n * s
      BY <1>2, <1>3
    <3>2. (x - 1) * Size[l] = n * s
      BY <1>3, <1>5, <2>1
    <3> QED
      BY <1>2, <1>3, <1>4, <2>1, <3>1, <3>2
  <2>2. CASE x # n + 1
    <3>1. x \in 1..n
      BY <2>2
    <3> QED
      BY <1>2, <1>4, <3>1 DEF Row
  <2> QED
    BY <2>1, <2>2
<1>7. UpperPart(AfterTaking(L, i, l), l, L[i] + Size[l])
  BY TakenLeavesUpper
<1>8. L[i] + Size[l] = Len(g) * Size[l]
  BY <1>2, <1>3, <1>4, <1>5
<1>9. \A j \in Orders : j < l => AfterTaking(L, i, l)[j] = NULL_BLOCK
  <2> SUFFICES ASSUME NEW j \in Orders, j < l PROVE AfterTaking(L, i, l)[j] = NULL_BLOCK
    OBVIOUS
  <2>1. ~(l <= j)
    BY OrdersAre
  <2> QED
    BY <2>1 DEF AfterTaking
<1> QED
  BY <1>1, <1>6, <1>7, <1>8, <1>9 DEF Lined

LEMMA KallocLined ==
  ASSUME LifoInv, NEW l \in Orders, Kalloc(l),
         live # << >> => Lined(free_lists, live, l)
  PROVE  live' # << >> /\ Lined(free_lists', live', l)
<1>1. l \in Orders
  OBVIOUS
<1>2. PICK i : /\ i = CHOOSE c \in Candidates(l) : \A d \in Candidates(l) : c <= d
               /\ Candidates(l) # {}
  BY DEF Kalloc
<1>3. FirstFrom(free_lists, l, i)
  BY <1>1, <1>2, FirstCandidate
<1>4. PICK r : r = HeapAfter(free_lists, blocks, l, i)
  OBVIOUS
<1>5. /\ free_lists' = r.lists
      /\ live' = Lent(live, free_lists[i], l)
  BY <1>2, <1>4 DEF Kalloc, SetHeap, Heap, HeapAfter, Lent
<1>6. /\ free_lists \in Layouts /\ blocks \in [Blocks -> Entries] /\ live \in Seq(Loans)
      /\ Recorded(free_lists, blocks, live) /\ Reached(free_lists, live)
  BY DEF LifoInv
<1>7. blocks[free_lists[i]].next = NULL_BLOCK
  BY <1>3, <1>6 DEF FirstFrom, Recorded
<1>8. IsTaken(r, free_lists, blocks, l, i)
  BY <1>1, <1>3, <1>4, <1>6, <1>7, HeapTaken
<1>9. free_lists' = AfterTaking(free_lists, i, l)
  BY <1>5, <1>8 DEF IsTaken
<1>10. live' # << >>
  <2>1. PICK h : h = live /\ h \in Seq(Loans)
    BY <1>6
  <2>2. PICK e : e = [block |-> free_lists[i], order |-> l]
    OBVIOUS
  <2>3. Len(Append(h, e)) = Len(h) + 1 /\ Len(h) \in Nat
    BY <2>1
  <2>4. Append(h, e) # << >>
    BY <2>3
  <2> QED
    BY <1>5, <2>1, <2>2, <2>4 DEF Lent
<1>11. CASE live # << >>
  <2>1. Lined(free_lists, live, l)
    BY <1>11
  <2>2. /\ free_lists[i] = Len(live) * Size[l] /\ Multiple(free_lists[i], i)
        /\ Ascending(free_lists, l, free_lists[i])
        /\ \A j \in Orders : l <= j /\ free_lists[j] # NULL_BLOCK => Upper(free_lists[j], j)
    BY <1>1, <1>3, <1>6, <1>11, <2>1, RowGrows
  <2>3. Row(live, l, 0) /\ \A j \in Orders : j < l => free_lists[j] = NULL_BLOCK
    BY <2>1 DEF Lined
  <2> QED
    BY <1>1, <1>3, <1>5, <1>6, <1>9, <1>10, <2>2, <2>3, LentIsLined
<1>12. CASE live = << >>
  <2>1. Len(live) = 0 /\ 1..Len(live) = {}
    BY <1>12
  <2>2. PICK was : History(was, live) /\ free_lists = was[0]
    BY <1>6, <2>1 DEF Reached
  <2>3. PICK t \in Orders : NumBlocks <= Size[t] /\ free_lists = Alone(t)
    BY <2>2 DEF History, Whole
  <2>4. /\ i = t /\ free_lists[i] = 0 /\ Multiple(0, i) /\ Ascending(free_lists, l, 0)
        /\ \A j \in Orders : j # i => free_lists[j] = NULL_BLOCK
    BY <1>1, <1>3, <2>3, WholeAscends
  <2>5. 0 = Len(live) * Size[l]
    <3>1. Size[l] \in Nat
      BY <1>1, SizeIs
    <3> QED
      BY <2>1, <3>1
  <2>6. Row(live, l, 0)
    BY <2>1 DEF Row
  <2>7. \A j \in Orders : j < l => free_lists[j] = NULL_BLOCK
    <3>1. \A j \in Orders : j < l => j # i
      BY <1>1, <1>3, OrdersAre DEF FirstFrom
    <3> QED
      BY <2>4, <3>1
  <2> QED
    BY <1>1, <1>3, <1>5, <1>6, <1>9, <1>10, <2>4, <2>5, <2>6, <2>7, LentIsLined
<1> QED
  BY <1>11, <1>12

\* What the pages of a free block of order n say: it is free, and leads to x.
Listed(e, n, x) == e.free /\ e.order = n /\ e.next = x

\* Each list has the block below the row, then the one above it.
Chained(L, P, l, V, U) ==
  /\ V \in Layouts /\ U \in Layouts
  /\ \A j \in Orders : j < l => V[j] = NULL_BLOCK /\ U[j] = NULL_BLOCK
  /\ \A j \in Orders : L[j] = IF V[j] # NULL_BLOCK THEN V[j] ELSE U[j]
  /\ \A j \in Orders : V[j] # NULL_BLOCK =>
       Listed(P[V[j]], j, U[j]) /\ P[V[j]].prev = NULL_BLOCK
  /\ \A j \in Orders : U[j] # NULL_BLOCK => Listed(P[U[j]], j, NULL_BLOCK)

Batch(L, P, h, l, a, V, U) ==
  /\ l \in Orders /\ a \in Nat /\ Multiple(a, l)
  /\ Row(h, l, a)
  /\ LowerPart(V, l, a) /\ UpperPart(U, l, a + Len(h) * Size[l])
  /\ Chained(L, P, l, V, U)
  /\ \A x \in 1..Len(h) : P[h[x].block].order = l /\ ~P[h[x].block].free

Nothing == [j \in Orders |-> NULL_BLOCK]

\* The row before anything of it is freed.
LEMMA LinedIsBatch ==
  ASSUME NEW L \in Layouts, NEW P \in [Blocks -> Entries], NEW h \in Seq(Loans),
         Recorded(L, P, h), NEW l \in Orders, Lined(L, h, l)
  PROVE  Batch(L, P, h, l, 0, Nothing, L)
<1>1. Nothing \in Layouts /\ \A j \in Orders : Nothing[j] = NULL_BLOCK
  BY DEF Nothing, Layouts
<1>2. Multiple(0, l)
  <2>1. 0 = 0 * Size[l] /\ 0 \in Nat
    BY SizeIs
  <2> QED
    BY <2>1 DEF Multiple
<1>3. LowerPart(Nothing, l, 0)
  BY <1>1 DEF LowerPart
<1>4. UpperPart(L, l, 0 + Len(h) * Size[l])
  <2>1. PICK c \in Nat : c = Len(h) * Size[l]
    BY SizeIs
  <2>2. 0 + c = c
    BY <2>1
  <2> QED
    BY <2>1, <2>2 DEF Lined
<1>5. \A j \in Orders : j < l => L[j] = NULL_BLOCK
  BY DEF Lined
<1>6. ASSUME NEW j \in Orders, L[j] # NULL_BLOCK PROVE Listed(P[L[j]], j, NULL_BLOCK)
  <2>1. l <= j
    BY <1>5, <1>6, OrdersAre
  <2>2. Upper(L[j], j)
    BY <1>6, <2>1 DEF Lined, UpperPart
  <2>3. L[j] # 0
    <3>1. PICK b : b = L[j]
      OBVIOUS
    <3>2. b - Size[j] \in Nat /\ Size[j] \in Nat \ {0}
      BY <2>2, <3>1, ComesSecond, SizeIs
    <3> QED
      BY <3>1, <3>2
  <2> QED
    BY <1>6, <2>3 DEF Recorded, Listed
<1>7. Chained(L, P, l, Nothing, L)
  BY <1>1, <1>5, <1>6 DEF Chained
<1>8. \A x \in 1..Len(h) : P[h[x].block].order = l /\ ~P[h[x].block].free
  BY DEF Recorded, Lined, Row
<1> QED
  BY <1>2, <1>3, <1>4, <1>7, <1>8 DEF Batch, Lined

\* A turn of the loop that merges block c.block with its buddy d, when d heads
\* its list: the list goes on with what d leads to. Where d has a previous
\* block, of a list it is no longer behind, that block is told so too.
Took(t, c, d) ==
  LET low == IF c.block > d THEN d ELSE c.block
      was == c.heap.blocks
      is  == t.heap.blocks
  IN /\ t \in Works /\ t.block = low /\ t.order = c.order + 1
     /\ \A j \in Orders : t.heap.lists[j] = IF j = c.order THEN was[d].next ELSE c.heap.lists[j]
     /\ \A p \in Blocks :
          /\ is[p].free = was[p].free /\ is[p].prev = was[p].prev
          /\ is[p].order = IF p = low THEN c.order + 1 ELSE was[p].order
          /\ is[p].next = was[p].next \/ (p = was[d].prev /\ is[p].next = was[d].next)

LEMMA NextChanged ==
  ASSUME NEW e \in Entries, NEW x \in Blocks \union {NULL_BLOCK}, NEW f, f = [e EXCEPT !.next = x]
  PROVE  f \in Entries /\ f.next = x /\ f.order = e.order /\ f.free = e.free /\ f.prev = e.prev
BY DEF Entries

LEMMA TurnTakes ==
  ASSUME NEW c \in Works, NEW d \in Blocks, Buddy(c.block, c.order) = d, d # c.block,
         c.heap.blocks[c.block].order = c.order,
         c.heap.blocks[d].free, c.heap.blocks[d].order = c.order,
         c.heap.lists[c.order] = d, c.order + 1 \in Orders
  PROVE  Took(Turn(c), c, d)
<1>1. PICK h, lists, pages, b, n : /\ h = c.heap /\ lists = h.lists /\ pages = h.blocks
                                   /\ b = c.block /\ n = c.order
  OBVIOUS
<1>2. lists \in Layouts /\ pages \in [Blocks -> Entries] /\ b \in Blocks /\ n \in Orders
  BY <1>1 DEF Works
<1>3. PICK x, prev, low : x = pages[d].next /\ prev = pages[d].prev /\ low = IF b > d THEN d ELSE b
  OBVIOUS
<1>4. x \in Blocks \union {NULL_BLOCK} /\ prev \in Blocks \union {NULL_BLOCK} /\ low \in Blocks
  BY <1>2, <1>3 DEF Entries
<1>5. BuddyIndex(h, b) = d /\ d # NULL_BLOCK
  BY <1>1, BuddyIndexIs, PoolIs
<1>6. BuddyIsFree(h, b)
  BY <1>1, <1>5 DEF BuddyIsFree
<1>7. PICK emptied, told, cut, entry, raised :
        /\ emptied = [lists EXCEPT ![n] = x]
        /\ told = [pages[prev] EXCEPT !.next = x]
        /\ cut = IF prev = NULL_BLOCK THEN pages ELSE [pages EXCEPT ![prev] = told]
        /\ entry = [cut[low] EXCEPT !.order = n + 1]
        /\ raised = [cut EXCEPT ![low] = entry]
  OBVIOUS
<1>8. RemoveFromList(h, d) = [lists |-> emptied, blocks |-> cut]
  BY <1>1, <1>3, <1>7 DEF RemoveFromList
<1>9. Turn(c) = [heap |-> [lists |-> emptied, blocks |-> raised], block |-> low, order |-> n + 1]
  <2>1. PICK removed : removed = [lists |-> emptied, blocks |-> cut]
    OBVIOUS
  <2>2. [removed EXCEPT !.blocks[low].order = n + 1] = [lists |-> emptied, blocks |-> raised]
    BY <1>7, <2>1, SMTT(30)
  <2>3. Turn(c) = [heap |-> [removed EXCEPT !.blocks[low].order = n + 1], block |-> low, order |-> n + 1]
    BY <1>1, <1>3, <1>5, <1>6, <1>8, <2>1 DEF Turn
  <2> QED
    BY <2>2, <2>3
<1>10. /\ cut \in [Blocks -> Entries]
       /\ \A p \in Blocks : /\ cut[p].free = pages[p].free /\ cut[p].prev = pages[p].prev
                            /\ cut[p].order = pages[p].order
                            /\ cut[p].next = pages[p].next \/ (p = prev /\ cut[p].next = x)
  <2>1. CASE prev = NULL_BLOCK
    BY <1>2, <1>7, <2>1
  <2>2. CASE prev # NULL_BLOCK
    <3>1. prev \in Blocks
      BY <1>4, <2>2
    <3>2. /\ told \in Entries /\ told.next = x /\ told.order = pages[prev].order
          /\ told.free = pages[prev].free /\ told.prev = pages[prev].prev
      <4>1. pages[prev] \in Entries
        BY <1>2, <3>1
      <4> QED
        BY <1>4, <1>7, <4>1, NextChanged
    <3>3. /\ cut \in [Blocks -> Entries] /\ cut[prev] = told
          /\ \A p \in Blocks : p # prev => cut[p] = pages[p]
      BY <1>2, <1>7, <2>2, <3>1, <3>2
    <3> QED
      BY <3>2, <3>3
  <2> QED
    BY <2>1, <2>2
<1>11. /\ entry \in Entries /\ entry.order = n + 1 /\ entry.free = cut[low].free
       /\ entry.next = cut[low].next /\ entry.prev = cut[low].prev
  <2>1. cut[low] \in Entries /\ n + 1 \in Orders
    BY <1>1, <1>4, <1>10
  <2> QED
    BY <1>7, <2>1, OrderChanged
<1>12. /\ raised \in [Blocks -> Entries] /\ raised[low] = entry
       /\ \A p \in Blocks : p # low => raised[p] = cut[p]
  BY <1>4, <1>7, <1>10, <1>11
<1>13. \A p \in Blocks :
         /\ raised[p].free = pages[p].free /\ raised[p].prev = pages[p].prev
         /\ raised[p].order = IF p = low THEN n + 1 ELSE pages[p].order
         /\ raised[p].next = pages[p].next \/ (p = prev /\ raised[p].next = x)
  BY <1>10, <1>11, <1>12
<1>14. emptied \in Layouts /\ \A j \in Orders : emptied[j] = IF j = n THEN x ELSE lists[j]
  BY <1>2, <1>4, <1>7 DEF Layouts
<1>15. PICK t : t = Turn(c)
  OBVIOUS
<1>16. t.heap.lists = emptied /\ t.heap.blocks = raised /\ t.block = low /\ t.order = n + 1
  BY <1>9, <1>15
<1>17. t \in Works
  BY <1>1, <1>4, <1>9, <1>12, <1>14, <1>15 DEF Works
<1>18. Took(t, c, d)
  BY <1>1, <1>3, <1>13, <1>14, <1>16, <1>17 DEF Took
<1> QED
  BY <1>15, <1>18

\* The loop stops at a buddy that is none of the pool's or not free.
LEMMA TurnIsLast ==
  ASSUME NEW c \in Works, c.heap.blocks[c.block].order = c.order,
         Buddy(c.block, c.order) \in Blocks => ~c.heap.blocks[Buddy(c.block, c.order)].free
  PROVE  Turn(c) = c
<1>1. PICK h, b, n : h = c.heap /\ b = c.block /\ n = c.order
  OBVIOUS
<1>2. BuddyIndex(h, b) = IF Buddy(b, n) \in Blocks THEN Buddy(b, n) ELSE NULL_BLOCK
  BY <1>1, BuddyIndexIs
<1>3. ~BuddyIsFree(h, b)
  BY <1>1, <1>2 DEF BuddyIsFree
<1> QED
  BY <1>1, <1>3 DEF Turn

Same(f, e) == f.free = e.free /\ f.order = e.order /\ f.next = e.next /\ f.prev = e.prev

\* A block of the row, while others follow it at g, has merged with the blocks
\* below it of smaller orders.
MergesBelow(c, L, P, l, V, U, g) ==
  /\ c \in Works /\ l <= c.order /\ Multiple(c.block, c.order)
  /\ LowerPart(V, c.order, c.block)
  /\ c.block + Size[c.order] = g
  /\ \A j \in Orders : c.heap.lists[j] = IF j < c.order THEN U[j] ELSE L[j]
  /\ c.heap.blocks[c.block].order = c.order
  /\ \A p \in Blocks : p < c.block \/ g <= p => Same(c.heap.blocks[p], P[p])

LEMMA BelowTurns ==
  ASSUME NEW L, NEW P \in [Blocks -> Entries], NEW l \in Orders, NEW V, NEW U,
         Chained(L, P, l, V, U), NEW g \in Blocks, ~P[g].free,
         NEW c, MergesBelow(c, L, P, l, V, U, g)
  PROVE  \/ Turn(c) = c /\ Even(c.block, c.order)
         \/ MergesBelow(Turn(c), L, P, l, V, U, g) /\ Turn(c).order = c.order + 1
<1>1. PICK b, n, lists, pages : /\ b = c.block /\ n = c.order
                                /\ lists = c.heap.lists /\ pages = c.heap.blocks
  OBVIOUS
<1>2. /\ c \in Works /\ l <= n /\ Multiple(b, n) /\ LowerPart(V, n, b) /\ b + Size[n] = g
      /\ \A j \in Orders : lists[j] = IF j < n THEN U[j] ELSE L[j]
      /\ pages[b].order = n
      /\ \A p \in Blocks : p < b \/ g <= p => Same(pages[p], P[p])
  BY <1>1 DEF MergesBelow
<1>3. b \in Blocks /\ b \in Nat /\ n \in Orders /\ Size[n] \in Nat \ {0} /\ g \in Nat
  BY <1>1, <1>2, PoolIs, SizeIs DEF Works
<1>4. Even(b, n) \/ Upper(b, n)
  BY <1>2, <1>3, EvenOrUpper
<1>5. CASE Even(b, n)
  <2>1. b % (2 * Size[n]) = 0
    BY <1>3, <1>5, EvenOrUpper
  <2>2. Buddy(b, n) = g
    BY <1>2, <2>1 DEF Buddy
  <2>3. ~pages[g].free
    <3>1. g <= g
      BY <1>3
    <3> QED
      BY <1>2, <3>1 DEF Same
  <2>4. Turn(c) = c
    BY <1>1, <1>2, <2>2, <2>3, TurnIsLast
  <2> QED
    BY <1>1, <1>5, <2>4
<1>6. CASE Upper(b, n)
  <2>1. PICK d : d = b - Size[n]
    OBVIOUS
  <2>2. V \in Layouts
    BY DEF Chained
  <2>3. V[n] # NULL_BLOCK /\ V[n] = d /\ Even(d, n) /\ LowerPart(V, n + 1, d)
    BY <1>2, <1>3, <1>6, <2>1, <2>2, OddBelow
  <2>4. d \in Blocks /\ d \in Nat /\ d < b
    BY <1>3, <2>1, <2>2, <2>3, PoolIs DEF Layouts
  <2>5. n + 1 \in Orders /\ Size[n + 1] = 2 * Size[n] /\ n < NumLists - 1
    BY <1>3, <1>6, UpperHasNext
  <2>6. Buddy(b, n) = d
    BY <1>3, <1>6, <2>1, ComesSecond DEF Buddy
  <2>7. Same(pages[d], P[d]) /\ Listed(P[d], n, U[n]) /\ P[d].prev = NULL_BLOCK /\ L[n] = d
    BY <1>2, <1>3, <2>3, <2>4 DEF Chained
  <2>8. /\ pages[d].free /\ pages[d].order = n /\ pages[d].next = U[n]
        /\ pages[d].prev = NULL_BLOCK
    BY <2>7 DEF Same, Listed
  <2>9. lists[n] = d
    <3>1. ~(n < n)
      BY OrdersAre, <1>3
    <3> QED
      BY <1>2, <1>3, <2>7, <3>1
  <2>10. Took(Turn(c), c, d)
    BY <1>1, <1>2, <2>4, <2>5, <2>6, <2>8, <2>9, TurnTakes
  <2>11. PICK t : t = Turn(c)
    OBVIOUS
  <2>12. PICK has, is : has = t.heap.lists /\ is = t.heap.blocks
    OBVIOUS
  <2>13. /\ t \in Works /\ t.block = d /\ t.order = n + 1
         /\ \A j \in Orders : has[j] = IF j = n THEN U[n] ELSE lists[j]
         /\ is[d].order = n + 1
         /\ \A p \in Blocks : p # d => Same(is[p], pages[p])
    <3>1. b > d
      BY <1>3, <2>4
    <3>2. \A p \in Blocks : p # NULL_BLOCK
      BY PoolIs
    <3> QED
      BY <1>1, <2>4, <2>8, <2>10, <2>11, <2>12, <3>1, <3>2 DEF Took, Same
  <2>14. d + Size[n + 1] = g /\ l <= n + 1
    <3>1. l \in Nat /\ n \in Nat
      BY <1>3, OrdersAre
    <3> QED
      BY <1>2, <1>3, <2>1, <2>5, <3>1
  <2>15. Multiple(d, n + 1)
    <3>1. NumLists - 1 \in Orders
      BY OrdersAre
    <3> QED
      BY <1>3, <2>3, <2>4, <2>5, <3>1, EvenIsNext
  <2>16. \A j \in Orders : has[j] = IF j < n + 1 THEN U[j] ELSE L[j]
    <3> SUFFICES ASSUME NEW j \in Orders PROVE has[j] = IF j < n + 1 THEN U[j] ELSE L[j]
      OBVIOUS
    <3>1. j < n + 1 <=> j = n \/ j < n
      BY <1>3, OrdersAre
    <3> QED
      BY <1>2, <2>13, <3>1
  <2>17. \A p \in Blocks : p < d \/ g <= p => Same(is[p], P[p])
    <3> SUFFICES ASSUME NEW p \in Blocks, p < d \/ g <= p PROVE Same(is[p], P[p])
      OBVIOUS
    <3>1. p \in Nat
      BY PoolIs
    <3>2. p # d /\ (p < b \/ g <= p)
      BY <1>2, <1>3, <2>4, <3>1
    <3> QED
      BY <1>2, <2>13, <3>2 DEF Same
  <2>18. MergesBelow(t, L, P, l, V, U, g)
    BY <2>3, <2>12, <2>13, <2>14, <2>15, <2>16, <2>17 DEF MergesBelow
  <2> QED
    BY <1>1, <2>11, <2>13, <2>18
<1> QED
  BY <1>4, <1>5, <1>6

\* The last block of the row has merged with the blocks of smaller orders on
\* either side.
MergesAll(c, L, l, V, U) ==
  /\ c \in Works /\ l <= c.order /\ Multiple(c.block, c.order)
  /\ LowerPart(V, c.order, c.block) /\ UpperPart(U, c.order, c.block + Size[c.order])
  /\ \A j \in Orders : c.heap.lists[j] = IF j < c.order THEN NULL_BLOCK ELSE L[j]
  /\ c.heap.blocks[c.block].order = c.order
  /\ \A j \in Orders : c.order <= j =>
       /\ V[j] # NULL_BLOCK =>
            /\ c.heap.blocks[V[j]].free /\ c.heap.blocks[V[j]].order = j
            /\ c.heap.blocks[V[j]].prev = NULL_BLOCK
            /\ c.heap.blocks[V[j]].next \in {NULL_BLOCK, U[j]}
       /\ U[j] # NULL_BLOCK => Listed(c.heap.blocks[U[j]], j, NULL_BLOCK)

\* A turn that keeps all but the block's own page, and what that leaves.
LEMMA AllTurns ==
  ASSUME NEW L \in Layouts, NEW l \in Orders, NEW V \in Layouts, NEW U \in Layouts,
         \A j \in Orders : L[j] = IF V[j] # NULL_BLOCK THEN V[j] ELSE U[j],
         NEW c, MergesAll(c, L, l, V, U), NEW d \in Blocks, Took(Turn(c), c, d),
         c.heap.blocks[d].next = NULL_BLOCK,
         NEW low, low = Turn(c).block, Multiple(low, c.order + 1), c.order + 1 \in Orders,
         LowerPart(V, c.order + 1, low), UpperPart(U, c.order + 1, low + Size[c.order + 1])
  PROVE  MergesAll(Turn(c), L, l, V, U) /\ Turn(c).order = c.order + 1
<1>1. PICK t, n, lists, pages, has, is :
        /\ t = Turn(c) /\ n = c.order /\ lists = c.heap.lists /\ pages = c.heap.blocks
        /\ has = t.heap.lists /\ is = t.heap.blocks
  OBVIOUS
<1>2. /\ c \in Works /\ l <= n
      /\ \A j \in Orders : lists[j] = IF j < n THEN NULL_BLOCK ELSE L[j]
      /\ \A j \in Orders : n <= j =>
           /\ V[j] # NULL_BLOCK =>
                /\ pages[V[j]].free /\ pages[V[j]].order = j /\ pages[V[j]].prev = NULL_BLOCK
                /\ pages[V[j]].next \in {NULL_BLOCK, U[j]}
           /\ U[j] # NULL_BLOCK => Listed(pages[U[j]], j, NULL_BLOCK)
  BY <1>1 DEF MergesAll
<1>3. n \in Orders /\ n \in Nat /\ l \in Nat /\ \A j \in Orders : j \in Nat /\ Size[j] \in Nat \ {0}
  BY <1>1, <1>2, OrdersAre, SizeIs DEF Works
<1>4. /\ t \in Works /\ t.order = n + 1 /\ t.block = low /\ low \in Blocks /\ low \in Nat
      /\ low = IF c.block > d THEN d ELSE c.block
      /\ \A j \in Orders : has[j] = IF j = n THEN NULL_BLOCK ELSE lists[j]
      /\ \A p \in Blocks :
           /\ is[p].free = pages[p].free /\ is[p].prev = pages[p].prev
           /\ is[p].order = IF p = low THEN n + 1 ELSE pages[p].order
           /\ is[p].next = pages[p].next \/ is[p].next = NULL_BLOCK
  <2>1. t \in Works /\ t.order = n + 1 /\ t.block = IF c.block > d THEN d ELSE c.block
    BY <1>1 DEF Took
  <2>2. low \in Blocks /\ low \in Nat
    BY <1>1, <2>1, PoolIs DEF Works
  <2>3. \A j \in Orders : has[j] = IF j = n THEN NULL_BLOCK ELSE lists[j]
    BY <1>1 DEF Took
  <2>4. \A p \in Blocks :
           /\ is[p].free = pages[p].free /\ is[p].prev = pages[p].prev
           /\ is[p].order = IF p = (IF c.block > d THEN d ELSE c.block) THEN n + 1 ELSE pages[p].order
           /\ is[p].next = pages[p].next \/ is[p].next = NULL_BLOCK
    BY <1>1 DEF Took
  <2> QED
    BY <1>1, <2>1, <2>2, <2>3, <2>4
<1>5. \A j \in Orders : has[j] = IF j < n + 1 THEN NULL_BLOCK ELSE L[j]
  <2> SUFFICES ASSUME NEW j \in Orders PROVE has[j] = IF j < n + 1 THEN NULL_BLOCK ELSE L[j]
    OBVIOUS
  <2>1. j < n + 1 <=> j = n \/ j < n
    BY <1>3
  <2> QED
    BY <1>2, <1>4, <2>1
<1>6. ASSUME NEW j \in Orders, n + 1 <= j, V[j] # NULL_BLOCK
      PROVE  /\ is[V[j]].free /\ is[V[j]].order = j /\ is[V[j]].prev = NULL_BLOCK
             /\ is[V[j]].next \in {NULL_BLOCK, U[j]}
  <2>1. V[j] \in Blocks /\ V[j] \in Nat /\ V[j] + Size[j] <= low
    BY <1>1, <1>6, PoolIs DEF Layouts, LowerPart
  <2>2. V[j] # low /\ n <= j
    BY <1>3, <1>4, <1>6, <2>1
  <2> QED
    BY <1>2, <1>4, <1>6, <2>1, <2>2
<1>7. ASSUME NEW j \in Orders, n + 1 <= j, U[j] # NULL_BLOCK
      PROVE  Listed(is[U[j]], j, NULL_BLOCK)
  <2>1. U[j] \in Blocks /\ U[j] \in Nat /\ low + Size[n + 1] <= U[j]
    BY <1>1, <1>7, PoolIs DEF Layouts, UpperPart, Ascending
  <2>2. U[j] # low /\ n <= j
    BY <1>1, <1>3, <1>4, <1>7, <2>1
  <2> QED
    BY <1>2, <1>4, <1>7, <2>1, <2>2 DEF Listed
<1>8. l <= n + 1 /\ is[low].order = n + 1
  BY <1>2, <1>3, <1>4
<1>9. MergesAll(t, L, l, V, U)
  <2>1. t \in Works /\ t.order = n + 1 /\ t.block = low
    BY <1>4
  <2>2. /\ l <= t.order /\ Multiple(t.block, t.order) /\ LowerPart(V, t.order, t.block)
        /\ UpperPart(U, t.order, t.block + Size[t.order])
    BY <1>1, <1>8, <2>1
  <2>3. \A j \in Orders : t.heap.lists[j] = IF j < t.order THEN NULL_BLOCK ELSE L[j]
    BY <1>1, <1>5, <2>1
  <2>4. t.heap.blocks[t.block].order = t.order
    BY <1>1, <1>8, <2>1
  <2>5. \A j \in Orders : t.order <= j =>
          /\ V[j] # NULL_BLOCK =>
               /\ t.heap.blocks[V[j]].free /\ t.heap.blocks[V[j]].order = j
               /\ t.heap.blocks[V[j]].prev = NULL_BLOCK
               /\ t.heap.blocks[V[j]].next \in {NULL_BLOCK, U[j]}
          /\ U[j] # NULL_BLOCK => Listed(t.heap.blocks[U[j]], j, NULL_BLOCK)
    BY <1>1, <1>6, <1>7, <2>1
  <2> QED
    BY <2>1, <2>2, <2>3, <2>4, <2>5 DEF MergesAll
<1> QED
  BY <1>1, <1>4, <1>9

LEMMA LastTurns ==
  ASSUME NEW L \in Layouts, NEW l \in Orders, NEW V \in Layouts, NEW U \in Layouts,
         \A j \in Orders : L[j] = IF V[j] # NULL_BLOCK THEN V[j] ELSE U[j],
         NEW c, MergesAll(c, L, l, V, U)
  PROVE  \/ Turn(c) = c /\ Even(c.block, c.order) /\ c.block + Size[c.order] \notin Blocks
         \/ MergesAll(Turn(c), L, l, V, U) /\ Turn(c).order = c.order + 1
<1>1. PICK b, n, lists, pages, e : /\ b = c.block /\ n = c.order
                                   /\ lists = c.heap.lists /\ pages = c.heap.blocks
                                   /\ e = b + Size[n]
  OBVIOUS
<1>2. /\ c \in Works /\ Multiple(b, n) /\ LowerPart(V, n, b) /\ UpperPart(U, n, e)
      /\ \A j \in Orders : lists[j] = IF j < n THEN NULL_BLOCK ELSE L[j]
      /\ pages[b].order = n
      /\ \A j \in Orders : n <= j =>
           /\ V[j] # NULL_BLOCK =>
                /\ pages[V[j]].free /\ pages[V[j]].order = j /\ pages[V[j]].prev = NULL_BLOCK
                /\ pages[V[j]].next \in {NULL_BLOCK, U[j]}
           /\ U[j] # NULL_BLOCK => Listed(pages[U[j]], j, NULL_BLOCK)
  BY <1>1 DEF MergesAll
<1>3. /\ b \in Blocks /\ b \in Nat /\ n \in Orders /\ n \in Nat /\ n <= n /\ ~(n < n)
      /\ Size[n] \in Nat \ {0} /\ e \in Nat
  BY <1>1, <1>2, PoolIs, SizeIs, OrdersAre DEF Works
<1>4. Even(b, n) \/ Upper(b, n)
  BY <1>2, <1>3, EvenOrUpper
<1>5. NumLists - 1 \in Orders
  BY OrdersAre
<1>6. CASE Upper(b, n)
  <2>1. PICK d : d = b - Size[n]
    OBVIOUS
  <2>2. V[n] # NULL_BLOCK /\ V[n] = d /\ Even(d, n) /\ LowerPart(V, n + 1, d)
    BY <1>2, <1>3, <1>6, <2>1, OddBelow
  <2>3. d \in Blocks /\ d \in Nat /\ d < b
    BY <1>3, <2>1, <2>2, PoolIs DEF Layouts
  <2>4. n + 1 \in Orders /\ Size[n + 1] = 2 * Size[n] /\ n < NumLists - 1
    BY <1>3, <1>6, UpperHasNext
  <2>5. Buddy(b, n) = d
    BY <1>3, <1>6, <2>1, ComesSecond DEF Buddy
  <2>6. Even(e, n)
    BY <1>1, <1>3, <1>6, EvenOrUpper
  <2>7. U[n] = NULL_BLOCK /\ UpperPart(U, n + 1, e)
    BY <1>2, <1>3, <2>6, EvenAbove
  <2>8. /\ pages[d].free /\ pages[d].order = n /\ pages[d].next = NULL_BLOCK /\ lists[n] = d
    BY <1>2, <1>3, <2>2, <2>7
  <2>9. Took(Turn(c), c, d)
    BY <1>1, <1>2, <2>3, <2>4, <2>5, <2>8, TurnTakes
  <2>10. Turn(c).block = d
    <3>1. b > d
      BY <1>3, <2>3
    <3> QED
      BY <1>1, <2>9, <3>1 DEF Took
  <2>11. Multiple(d, n + 1)
    BY <1>3, <1>5, <2>2, <2>3, <2>4, EvenIsNext
  <2>12. d + Size[n + 1] = e
    BY <1>1, <1>3, <2>1, <2>4
  <2> QED
    BY <1>1, <2>2, <2>3, <2>4, <2>7, <2>8, <2>9, <2>10, <2>11, <2>12, AllTurns, SMTT(30)
<1>7. CASE Even(b, n)
  <2>1. b % (2 * Size[n]) = 0
    BY <1>3, <1>7, EvenOrUpper
  <2>2. Buddy(b, n) = e
    BY <1>1, <2>1 DEF Buddy
  <2>3. CASE e \notin Blocks
    <3>1. Turn(c) = c
      BY <1>1, <1>2, <2>2, <2>3, TurnIsLast
    <3> QED
      BY <1>1, <1>7, <2>3, <3>1
  <2>4. CASE e \in Blocks
    <3>1. Upper(e, n)
      BY <1>1, <1>3, <1>7, EvenOrUpper
    <3>2. U[n] = e /\ UpperPart(U, n + 1, e + Size[n])
      BY <1>2, <1>3, <2>4, <3>1, OddAbove
    <3>3. V[n] = NULL_BLOCK /\ LowerPart(V, n + 1, b)
      BY <1>2, <1>3, <1>7, EvenBelow
    <3>4. n + 1 \in Orders /\ Size[n + 1] = 2 * Size[n] /\ n < NumLists - 1
      BY <1>3, <2>4, <3>1, UpperHasNext
    <3>5. e # NULL_BLOCK /\ e # b /\ ~(b > e)
      BY <1>1, <1>3, <2>4, PoolIs
    <3>6. Listed(pages[e], n, NULL_BLOCK) /\ lists[n] = e
      BY <1>2, <1>3, <3>2, <3>3, <3>5
    <3>7. Took(Turn(c), c, e)
      <4>1. /\ c \in Works /\ Buddy(c.block, c.order) = e /\ e # c.block
            /\ c.heap.blocks[c.block].order = c.order /\ c.order + 1 \in Orders
        BY <1>1, <1>2, <2>2, <3>4, <3>5
      <4>2. /\ c.heap.blocks[e].free /\ c.heap.blocks[e].order = c.order
            /\ c.heap.lists[c.order] = e
        BY <1>1, <3>6 DEF Listed
      <4> QED
        BY <2>4, <4>1, <4>2, TurnTakes
    <3>8. Turn(c).block = b
      BY <1>1, <3>5, <3>7 DEF Took
    <3>9. Multiple(b, n + 1)
      BY <1>3, <1>5, <1>7, <3>4, EvenIsNext
    <3>10. b + Size[n + 1] = e + Size[n]
      BY <1>1, <1>3, <3>4
    <3>11. pages[e].next = NULL_BLOCK
      BY <3>6 DEF Listed
    <3> QED
      BY <1>1, <2>4, <3>2, <3>3, <3>4, <3>7, <3>8, <3>9, <3>10, <3>11, AllTurns
  <2> QED
    BY <2>3, <2>4
<1> QED
  BY <1>4, <1>6, <1>7

\* What a push leaves.
Pushed(r, h, n, b) ==
  /\ r.lists \in Layouts /\ r.blocks \in [Blocks -> Entries]
  /\ \A j \in Orders : r.lists[j] = IF j = n THEN b ELSE h.lists[j]
  /\ Listed(r.blocks[b], n, h.lists[n]) /\ r.blocks[b].prev = NULL_BLOCK
  /\ \A p \in Blocks : p # b =>
       /\ r.blocks[p].free = h.blocks[p].free /\ r.blocks[p].order = h.blocks[p].order
       /\ r.blocks[p].next = h.blocks[p].next
       /\ p # h.lists[n] => r.blocks[p].prev = h.blocks[p].prev

LEMMA PushIs ==
  ASSUME NEW c \in Works, NEW b, b = c.block, NEW n, n = c.order
  PROVE  Pushed(PushFreeList(c.heap, n, b), c.heap, n, b)
<1>1. PICK h, lists, pages, head, r :
        /\ h = c.heap /\ lists = h.lists /\ pages = h.blocks /\ head = lists[n]
        /\ r = PushFreeList(h, n, b)
  OBVIOUS
<1>2. /\ lists \in Layouts /\ pages \in [Blocks -> Entries] /\ b \in Blocks /\ n \in Orders
      /\ head \in Blocks \union {NULL_BLOCK}
  BY <1>1 DEF Works, Layouts
<1>3. PICK entry, told, linked :
        /\ entry = [next |-> head, prev |-> NULL_BLOCK, order |-> n, free |-> TRUE]
        /\ told = [pages[head] EXCEPT !.prev = b]
        /\ linked = IF head = NULL_BLOCK THEN pages ELSE [pages EXCEPT ![head] = told]
  OBVIOUS
<1>4. r.lists = [lists EXCEPT ![n] = b] /\ r.blocks = [linked EXCEPT ![b] = entry]
  BY <1>1, <1>3 DEF PushFreeList
<1>5. entry \in Entries /\ Listed(entry, n, head) /\ entry.prev = NULL_BLOCK
  BY <1>2, <1>3 DEF Entries, Listed
<1>6. /\ linked \in [Blocks -> Entries]
      /\ \A p \in Blocks : /\ linked[p].free = pages[p].free /\ linked[p].order = pages[p].order
                           /\ linked[p].next = pages[p].next
                           /\ p # head => linked[p].prev = pages[p].prev
  <2>1. CASE head = NULL_BLOCK
    BY <1>2, <1>3, <2>1
  <2>2. CASE head # NULL_BLOCK
    <3>1. head \in Blocks /\ pages[head] \in Entries
      BY <1>2, <2>2
    <3>2. /\ told \in Entries /\ told.free = pages[head].free /\ told.order = pages[head].order
          /\ told.next = pages[head].next
      BY <1>2, <1>3, <3>1 DEF Entries
    <3>3. /\ linked \in [Blocks -> Entries] /\ linked[head] = told
          /\ \A p \in Blocks : p # head => linked[p] = pages[p]
      BY <1>2, <1>3, <2>2, <3>1, <3>2
    <3> QED
      BY <3>2, <3>3
  <2> QED
    BY <2>1, <2>2
<1>7. r.lists \in Layouts /\ \A j \in Orders : r.lists[j] = IF j = n THEN b ELSE lists[j]
  BY <1>2, <1>4 DEF Layouts
<1>8. /\ r.blocks \in [Blocks -> Entries] /\ r.blocks[b] = entry
      /\ \A p \in Blocks : p # b => r.blocks[p] = linked[p]
  BY <1>2, <1>4, <1>5, <1>6
<1>9. Pushed(r, h, n, b)
  BY <1>1, <1>5, <1>6, <1>7, <1>8 DEF Pushed
<1> QED
  BY <1>1, <1>9

LEMMA TailIs ==
  ASSUME NEW h \in Seq(Loans), h # << >>
  PROVE  /\ Tail(h) \in Seq(Loans) /\ Len(h) \in Nat \ {0} /\ Len(Tail(h)) = Len(h) - 1
         /\ \A x \in 1..(Len(h) - 1) : Tail(h)[x] = h[x + 1] /\ x + 1 \in 1..Len(h)
OBVIOUS

\* The row without its first block is a row from where that one ended.
LEMMA RowShrinks ==
  ASSUME NEW h \in Seq(Loans), h # << >>, NEW l \in Orders, NEW a \in Nat, Row(h, l, a)
  PROVE  /\ h[1].block = a /\ h[1].order = l /\ h[1] \in Loans
         /\ Row(Tail(h), l, a + Size[l])
         /\ a + Size[l] + Len(Tail(h)) * Size[l] = a + Len(h) * Size[l]
         /\ \A x \in 1..Len(Tail(h)) : h[x + 1].block \in Blocks /\ a + Size[l] <= h[x + 1].block
         /\ a + Size[l] <= a + Len(h) * Size[l]
<1>1. PICK n, s, g : n = Len(h) /\ s = Size[l] /\ g = Tail(h)
  OBVIOUS
<1>2. n \in Nat \ {0} /\ s \in Nat \ {0}
  BY <1>1, SizeIs
<1>3. /\ Len(g) = n - 1 /\ \A x \in 1..(n - 1) : g[x] = h[x + 1] /\ x + 1 \in 1..n
  BY <1>1, TailIs
<1>4. \A x \in 1..n : h[x].order = l /\ h[x].block = a + (x - 1) * s /\ h[x] \in Loans
  BY <1>1 DEF Row
<1>5. \A x \in Nat \ {0} : x * s = s + (x - 1) * s /\ (x - 1) * s \in Nat /\ (x + 1) - 1 = x
  <2>1. \A x, y \in Nat : x # 0 => x * y = y + (x - 1) * y /\ (x - 1) * y \in Nat /\ (x + 1) - 1 = x
    OBVIOUS
  <2> QED
    BY <1>2, <2>1
<1>6. h[1].block = a /\ h[1].order = l /\ h[1] \in Loans
  <2>1. 1 \in 1..n /\ (1 - 1) * s = 0
    BY <1>2
  <2>2. h[1].block = a + (1 - 1) * s /\ h[1].order = l /\ h[1] \in Loans
    BY <1>4, <2>1
  <2> QED
    BY <2>1, <2>2
<1>7. \A x \in 1..(n - 1) : /\ g[x].order = l /\ g[x].block = (a + s) + (x - 1) * s
                            /\ h[x + 1].block = g[x].block /\ h[x + 1].block \in Blocks
                            /\ a + s <= h[x + 1].block
  <2> SUFFICES ASSUME NEW x \in 1..(n - 1)
               PROVE  /\ g[x].order = l /\ g[x].block = (a + s) + (x - 1) * s
                      /\ h[x + 1].block = g[x].block /\ h[x + 1].block \in Blocks
                      /\ a + s <= h[x + 1].block
    OBVIOUS
  <2>1. g[x] = h[x + 1] /\ x + 1 \in 1..n /\ x \in Nat \ {0}
    BY <1>2, <1>3
  <2>2. h[x + 1].order = l /\ h[x + 1].block = a + ((x + 1) - 1) * s /\ h[x + 1] \in Loans
    BY <1>4, <2>1
  <2>3. ((x + 1) - 1) * s = s + (x - 1) * s /\ (x - 1) * s \in Nat
    BY <1>5, <2>1
  <2>4. PICK w \in Nat : w = (x - 1) * s
    BY <2>3
  <2>5. h[x + 1].block = a + (s + w) /\ g[x].block = a + (s + w)
    BY <2>1, <2>2, <2>3, <2>4
  <2>6. a + (s + w) = (a + s) + w /\ a + s <= a + (s + w)
    BY <1>2
  <2>7. h[x + 1].block \in Blocks
    BY <2>2 DEF Loans
  <2> QED
    BY <2>1, <2>2, <2>4, <2>5, <2>6, <2>7
<1>8. /\ a + s + Len(g) * s = a + n * s /\ a + s <= a + n * s
  <2>1. PICK w \in Nat : w = (n - 1) * s
    BY <1>2, <1>5
  <2>2. n * s = s + w
    BY <1>2, <1>5, <2>1
  <2>3. a + s + w = a + (s + w) /\ a + s <= a + (s + w)
    BY <1>2
  <2> QED
    BY <1>3, <2>1, <2>2, <2>3
<1>9. Row(g, l, a + s)
  BY <1>1, <1>3, <1>7 DEF Row
<1> QED
  BY <1>1, <1>3, <1>6, <1>7, <1>8, <1>9

\* The layout below the row, once block b of order n is the least in it.
Gained(V, n, b) ==
  [j \in Orders |-> IF j = n THEN b ELSE IF j < n THEN NULL_BLOCK ELSE V[j]]

LEMMA GainedIs ==
  ASSUME NEW V \in Layouts, NEW l \in Orders, NEW n \in Orders, l <= n,
         NEW b \in Blocks, LowerPart(V, n, b), Even(b, n)
  PROVE  /\ Gained(V, n, b) \in Layouts /\ LowerPart(Gained(V, n, b), l, b + Size[n])
         /\ \A j \in Orders : Gained(V, n, b)[j] =
              IF j = n THEN b ELSE IF j < n THEN NULL_BLOCK ELSE V[j]
<1>1. PICK W : W = Gained(V, n, b)
  OBVIOUS
<1>2. /\ W \in Layouts
      /\ \A j \in Orders : W[j] = IF j = n THEN b ELSE IF j < n THEN NULL_BLOCK ELSE V[j]
  BY <1>1 DEF Gained, Layouts
<1>3. /\ b \in Nat /\ b # NULL_BLOCK
      /\ \A j \in Orders : j \in Nat /\ Size[j] \in Nat \ {0} /\ (V[j] # NULL_BLOCK => V[j] \in Nat)
  BY PoolIs, SizeIs, OrdersAre DEF Layouts
<1>4. \A j \in Orders : W[j] # NULL_BLOCK => j = n \/ (n < j /\ n <= j /\ W[j] = V[j])
  BY <1>2, <1>3
<1>5. W[n] = b
  BY <1>2
<1>6. \A j \in Orders : W[j] # NULL_BLOCK => Even(W[j], j) /\ W[j] + Size[j] <= b + Size[n]
  <2> SUFFICES ASSUME NEW j \in Orders, W[j] # NULL_BLOCK
               PROVE  Even(W[j], j) /\ W[j] + Size[j] <= b + Size[n]
    OBVIOUS
  <2>1. CASE j = n
    BY <1>3, <1>5, <2>1
  <2>2. CASE j # n
    <3>1. n < j /\ n <= j /\ W[j] = V[j] /\ V[j] # NULL_BLOCK
      BY <1>4, <2>2
    <3>2. Even(V[j], j) /\ V[j] + Size[j] <= b /\ V[j] \in Nat
      BY <1>3, <3>1 DEF LowerPart
    <3> QED
      BY <1>3, <3>1, <3>2
  <2> QED
    BY <2>1, <2>2
<1>7. \A j, k \in Orders : j < k /\ W[j] # NULL_BLOCK /\ W[k] # NULL_BLOCK => W[k] + Size[k] <= W[j]
  <2> SUFFICES ASSUME NEW j \in Orders, NEW k \in Orders, j < k,
                      W[j] # NULL_BLOCK, W[k] # NULL_BLOCK
               PROVE  W[k] + Size[k] <= W[j]
    OBVIOUS
  <2>1. n < k /\ n <= k /\ W[k] = V[k]
    BY <1>3, <1>4
  <2>2. CASE j = n
    BY <1>5, <2>1, <2>2 DEF LowerPart
  <2>3. CASE j # n
    <3>1. n <= j /\ W[j] = V[j]
      BY <1>4, <2>3
    <3> QED
      BY <2>1, <3>1 DEF LowerPart
  <2> QED
    BY <2>2, <2>3
<1>8. \A p \in Nat : p < b + Size[n] => \E j \in Orders : l <= j /\ InFree(W, j, p)
  <2> SUFFICES ASSUME NEW p \in Nat, p < b + Size[n]
               PROVE  \E j \in Orders : l <= j /\ InFree(W, j, p)
    OBVIOUS
  <2>1. CASE b <= p
    <3>1. InFree(W, n, p)
      BY <1>3, <1>5, <2>1 DEF InFree, Covers
    <3> QED
      BY <3>1
  <2>2. CASE p < b
    <3>1. PICK j \in Orders : n <= j /\ InFree(V, j, p)
      BY <2>2 DEF LowerPart
    <3>2. j # n
      <4>1. V[n] = NULL_BLOCK
        BY <1>3, EvenBelow
      <4> QED
        BY <3>1, <4>1 DEF InFree
    <3>3. W[j] = V[j] /\ l <= j
      BY <1>2, <1>3, <3>1, <3>2
    <3> QED
      BY <3>1, <3>3 DEF InFree
  <2> QED
    BY <1>3, <2>1, <2>2
<1>9. LowerPart(W, l, b + Size[n])
  BY <1>6, <1>7, <1>8 DEF LowerPart
<1> QED
  BY <1>1, <1>2, <1>9

\* kfree of the first block of a row that has others.
LEMMA FirstIsFreed ==
  ASSUME NEW L \in Layouts, NEW P \in [Blocks -> Entries], NEW h \in Seq(Loans), h # << >>,
         Tail(h) # << >>, NEW l, NEW a, NEW V, NEW U, Batch(L, P, h, l, a, V, U),
         NEW r, r = Coalesce([lists |-> L, blocks |-> P], a, l)
  PROVE  /\ r.lists \in Layouts /\ r.blocks \in [Blocks -> Entries]
         /\ \E W : Batch(r.lists, r.blocks, Tail(h), l, a + Size[l], W, U)
<1>1. /\ l \in Orders /\ a \in Nat /\ Multiple(a, l) /\ Row(h, l, a) /\ LowerPart(V, l, a)
      /\ UpperPart(U, l, a + Len(h) * Size[l]) /\ Chained(L, P, l, V, U)
      /\ \A x \in 1..Len(h) : P[h[x].block].order = l /\ ~P[h[x].block].free
  BY DEF Batch
<1>2. PICK g, e, k : g = a + Size[l] /\ e = a + Len(h) * Size[l] /\ k = Tail(h)
  OBVIOUS
<1>3. /\ h[1].block = a /\ h[1].order = l /\ h[1] \in Loans
      /\ Row(k, l, g) /\ g + Len(k) * Size[l] = e
      /\ \A x \in 1..Len(k) : h[x + 1].block \in Blocks /\ g <= h[x + 1].block
      /\ g <= e
  BY <1>1, <1>2, RowShrinks
<1>4. /\ k \in Seq(Loans) /\ Len(h) \in Nat \ {0} /\ Len(k) = Len(h) - 1
      /\ \A x \in 1..Len(k) : k[x] = h[x + 1] /\ x + 1 \in 1..Len(h)
  BY <1>2, TailIs
<1>5. Len(k) \in Nat \ {0} /\ 1 \in 1..Len(k)
  BY <1>2, <1>4
<1>6. Size[l] \in Nat \ {0} /\ g \in Nat /\ e \in Nat /\ a \in Blocks
  <2>1. Size[l] \in Nat \ {0} /\ a \in Blocks
    BY <1>1, <1>3, SizeIs DEF Loans
  <2>2. Len(h) * Size[l] \in Nat
    BY <1>4, <2>1
  <2> QED
    BY <1>1, <1>2, <2>1, <2>2, SMTT(30)
<1>7. g \in Blocks /\ ~P[g].free
  <2>1. k[1].block = g
    <3>1. k # << >>
      BY <1>2
    <3>2. k[1].block = g
      BY <1>1, <1>3, <1>4, <1>6, <3>1, RowShrinks
    <3> QED
      BY <3>2
  <2>2. k[1] = h[1 + 1] /\ 1 + 1 \in 1..Len(h) /\ h[1 + 1].block \in Blocks
    BY <1>3, <1>4, <1>5
  <2> QED
    BY <1>1, <2>1, <2>2
<1> DEFINE start == [heap |-> [lists |-> L, blocks |-> P], block |-> a, order |-> l]
           S == {c \in Works : MergesBelow(c, L, P, l, V, U, g)}
<1>8. PICK first : first = start
  OBVIOUS
<1>9. first.heap = [lists |-> L, blocks |-> P] /\ first.block = a /\ first.order = l
  BY <1>8
<1>10. first \in S
  <2>1. first \in Works
    BY <1>1, <1>6, <1>8 DEF Works
  <2>2. l <= l
    BY <1>1, OrdersAre
  <2>3. \A j \in Orders : L[j] = IF j < l THEN U[j] ELSE L[j]
    BY <1>1 DEF Chained
  <2>4. P[a].order = l
    BY <1>1, <1>3, <1>4
  <2>5. \A p \in Blocks : Same(P[p], P[p])
    BY DEF Same
  <2>6. MergesBelow(first, L, P, l, V, U, g)
    BY <1>1, <1>2, <1>9, <2>1, <2>2, <2>3, <2>4, <2>5 DEF MergesBelow
  <2> QED
    BY <2>1, <2>6
<1>11. ASSUME NEW c \in S
       PROVE  \/ Turn(c) = c /\ Even(c.block, c.order)
              \/ Turn(c) \in S /\ Turn(c).order = c.order + 1
  <2>1. \/ Turn(c) = c /\ Even(c.block, c.order)
        \/ MergesBelow(Turn(c), L, P, l, V, U, g) /\ Turn(c).order = c.order + 1
    BY <1>1, <1>7, BelowTurns
  <2>2. MergesBelow(Turn(c), L, P, l, V, U, g) => Turn(c) \in Works
    BY DEF MergesBelow
  <2> QED
    BY <2>1, <2>2
<1>12. S \subseteq Works /\ \A c \in S : MergesBelow(c, L, P, l, V, U, g)
  OBVIOUS
<1> HIDE DEF S
<1>13. PICK c \in S : /\ Turn(c) = c
                      /\ Coalesce(first.heap, first.block, first.order)
                           = PushFreeList(c.heap, c.order, c.block)
  BY <1>10, <1>11, <1>12, LoopEnds
<1>14. c \in Works /\ MergesBelow(c, L, P, l, V, U, g)
  BY <1>12
<1>15. PICK b, n, lists, pages : /\ b = c.block /\ n = c.order
                                 /\ lists = c.heap.lists /\ pages = c.heap.blocks
  OBVIOUS
<1>16. Even(b, n)
  <2>1. c.order # c.order + 1
    BY <1>14, OrdersAre DEF Works
  <2> QED
    BY <1>11, <1>13, <1>15, <2>1
<1>17. /\ l <= n /\ LowerPart(V, n, b) /\ b + Size[n] = g
       /\ \A j \in Orders : lists[j] = IF j < n THEN U[j] ELSE L[j]
       /\ \A p \in Blocks : p < b \/ g <= p => Same(pages[p], P[p])
  BY <1>14, <1>15 DEF MergesBelow
<1>18. /\ b \in Blocks /\ b \in Nat /\ n \in Orders /\ b < g
       /\ \A j \in Orders : j \in Nat /\ Size[j] \in Nat \ {0}
  <2>1. b \in Blocks /\ b \in Nat /\ n \in Orders
    BY <1>14, <1>15, PoolIs DEF Works
  <2>2. \A j \in Orders : j \in Nat /\ Size[j] \in Nat \ {0}
    BY OrdersAre, SizeIs
  <2>3. b < g
    BY <1>17, <2>1, <2>2
  <2> QED
    BY <2>1, <2>2, <2>3
<1>19. V \in Layouts /\ U \in Layouts
  BY <1>1 DEF Chained
<1>20. V[n] = NULL_BLOCK /\ L[n] = U[n] /\ lists[n] = U[n]
  <2>1. V[n] = NULL_BLOCK
    BY <1>16, <1>17, <1>18, <1>19, EvenBelow
  <2>2. ~(n < n)
    BY <1>18
  <2> QED
    BY <1>1, <1>17, <1>18, <2>1, <2>2 DEF Chained
<1>21. Pushed(r, c.heap, n, b)
  <2>1. r = PushFreeList(c.heap, n, b)
    BY <1>9, <1>13, <1>15
  <2> QED
    BY <1>14, <1>15, <2>1, PushIs
<1>22. PICK has, is, W : has = r.lists /\ is = r.blocks /\ W = Gained(V, n, b)
  OBVIOUS
<1>23. /\ has \in Layouts /\ is \in [Blocks -> Entries]
       /\ \A j \in Orders : has[j] = IF j = n THEN b ELSE lists[j]
       /\ Listed(is[b], n, U[n]) /\ is[b].prev = NULL_BLOCK
       /\ \A p \in Blocks : p # b =>
            /\ is[p].free = pages[p].free /\ is[p].order = pages[p].order
            /\ is[p].next = pages[p].next /\ (p # U[n] => is[p].prev = pages[p].prev)
  BY <1>15, <1>20, <1>21, <1>22 DEF Pushed
<1>24. /\ W \in Layouts /\ LowerPart(W, l, g)
       /\ \A j \in Orders : W[j] = IF j = n THEN b ELSE IF j < n THEN NULL_BLOCK ELSE V[j]
  BY <1>1, <1>16, <1>17, <1>18, <1>19, <1>22, GainedIs
<1>25. \A p \in Blocks : p < b \/ g <= p =>
         /\ is[p].free = P[p].free /\ is[p].order = P[p].order
         /\ is[p].next = P[p].next /\ (p # U[n] => is[p].prev = P[p].prev)
  <2>1. \A p \in Blocks : p < b \/ g <= p => p # b
    BY <1>6, <1>18
  <2> QED
    BY <1>17, <1>23, <2>1 DEF Same
<1>26. \A j \in Orders : U[j] # NULL_BLOCK => U[j] \in Blocks /\ g <= U[j] /\ U[j] \in Nat
  <2> SUFFICES ASSUME NEW j \in Orders, U[j] # NULL_BLOCK
               PROVE  U[j] \in Blocks /\ g <= U[j] /\ U[j] \in Nat
    OBVIOUS
  <2>1. ~(j < l)
    BY <1>1 DEF Chained
  <2>2. l <= j
    BY <1>1, <1>18, <2>1
  <2>3. e <= U[j]
    BY <1>1, <1>2, <2>2 DEF UpperPart, Ascending
  <2>4. U[j] \in Blocks /\ U[j] \in Nat
    BY <1>19, PoolIs DEF Layouts
  <2> QED
    BY <1>3, <1>6, <2>3, <2>4
<1>27. \A j \in Orders : has[j] = IF W[j] # NULL_BLOCK THEN W[j] ELSE U[j]
  <2> SUFFICES ASSUME NEW j \in Orders PROVE has[j] = IF W[j] # NULL_BLOCK THEN W[j] ELSE U[j]
    OBVIOUS
  <2>1. b # NULL_BLOCK
    BY <1>18, PoolIs
  <2>2. L[j] = IF V[j] # NULL_BLOCK THEN V[j] ELSE U[j]
    BY <1>1 DEF Chained
  <2> QED
    BY <1>17, <1>23, <1>24, <2>1, <2>2
<1>28. ASSUME NEW j \in Orders, W[j] # NULL_BLOCK
       PROVE  Listed(is[W[j]], j, U[j]) /\ is[W[j]].prev = NULL_BLOCK
  <2>1. CASE j = n
    BY <1>23, <1>24, <2>1
  <2>2. CASE j # n
    <3>1. n <= j /\ W[j] = V[j] /\ V[j] # NULL_BLOCK
      BY <1>18, <1>24, <1>28, <2>2
    <3>2. V[j] + Size[j] <= b /\ V[j] \in Blocks /\ V[j] \in Nat
      BY <1>17, <1>19, <3>1, PoolIs DEF LowerPart, Layouts
    <3>3. V[j] < b
      BY <1>18, <3>2
    <3>4. V[j] # U[n]
      <4>1. CASE U[n] = NULL_BLOCK
        BY <3>1, <4>1
      <4>2. CASE U[n] # NULL_BLOCK
        BY <1>6, <1>18, <1>26, <3>2, <3>3, <4>2
      <4> QED
        BY <4>1, <4>2
    <3>5. Listed(P[V[j]], j, U[j]) /\ P[V[j]].prev = NULL_BLOCK
      BY <1>1, <3>1 DEF Chained
    <3> QED
      BY <1>25, <3>1, <3>2, <3>3, <3>4, <3>5 DEF Listed
  <2> QED
    BY <2>1, <2>2
<1>29. ASSUME NEW j \in Orders, U[j] # NULL_BLOCK PROVE Listed(is[U[j]], j, NULL_BLOCK)
  <2>1. Listed(P[U[j]], j, NULL_BLOCK)
    BY <1>1, <1>29 DEF Chained
  <2> QED
    BY <1>25, <1>26, <1>29, <2>1 DEF Listed
<1>30. \A j \in Orders : j < l => W[j] = NULL_BLOCK /\ U[j] = NULL_BLOCK
  <2> SUFFICES ASSUME NEW j \in Orders, j < l PROVE W[j] = NULL_BLOCK /\ U[j] = NULL_BLOCK
    OBVIOUS
  <2>1. j < n /\ j # n
    BY <1>1, <1>17, <1>18
  <2> QED
    BY <1>1, <1>24, <2>1 DEF Chained
<1>31. Chained(has, is, l, W, U)
  BY <1>19, <1>24, <1>27, <1>28, <1>29, <1>30 DEF Chained
<1>32. \A x \in 1..Len(k) : is[k[x].block].order = l /\ ~is[k[x].block].free
  <2> SUFFICES ASSUME NEW x \in 1..Len(k)
               PROVE  is[k[x].block].order = l /\ ~is[k[x].block].free
    OBVIOUS
  <2>1. PICK p : p = h[x + 1].block
    OBVIOUS
  <2>2. k[x].block = p /\ p \in Blocks /\ g <= p /\ P[p].order = l /\ ~P[p].free
    BY <1>1, <1>3, <1>4, <2>1
  <2> QED
    BY <1>25, <2>2
<1>33. Multiple(g, l)
  <2>1. PICK q \in Nat : a = q * Size[l]
    BY <1>1 DEF Multiple
  <2>2. PICK s \in Nat : s = Size[l]
    BY <1>6
  <2>3. (q + 1) * s = q * s + s
    <3>1. \A x, y \in Nat : (x + 1) * y = x * y + y
      OBVIOUS
    <3> QED
      BY <3>1
  <2>4. g = (q + 1) * Size[l] /\ q + 1 \in Nat
    BY <1>2, <2>1, <2>2, <2>3
  <2> QED
    BY <2>4 DEF Multiple
<1>34. UpperPart(U, l, g + Len(k) * Size[l])
  BY <1>1, <1>2, <1>3
<1>35. Batch(has, is, k, l, g, W, U)
  BY <1>1, <1>3, <1>6, <1>24, <1>31, <1>32, <1>33, <1>34 DEF Batch
<1> QED
  BY <1>2, <1>22, <1>23, <1>35

\* kfree of the last block of a row: the pool is one block again.
LEMMA LastIsFreed ==
  ASSUME NEW L \in Layouts, NEW P \in [Blocks -> Entries], NEW h \in Seq(Loans), h # << >>,
         Tail(h) = << >>, NEW l, NEW a, NEW V, NEW U, Batch(L, P, h, l, a, V, U),
         NEW r, r = Coalesce([lists |-> L, blocks |-> P], a, l)
  PROVE  /\ r.lists \in Layouts /\ r.blocks \in [Blocks -> Entries]
         /\ \E t \in Orders : NumBlocks <= Size[t] /\ r.lists = Alone(t)
         /\ Recorded(r.lists, r.blocks, << >>)
<1>1. /\ l \in Orders /\ a \in Nat /\ Multiple(a, l) /\ Row(h, l, a) /\ LowerPart(V, l, a)
      /\ UpperPart(U, l, a + Len(h) * Size[l]) /\ Chained(L, P, l, V, U)
      /\ \A x \in 1..Len(h) : P[h[x].block].order = l /\ ~P[h[x].block].free
  BY DEF Batch
<1>2. /\ h[1].block = a /\ h[1] \in Loans /\ Len(h) = 1 /\ 1 \in 1..Len(h)
  <2>1. Len(Tail(h)) = 0
    <3>1. Len(<< >>) = 0
      OBVIOUS
    <3> QED
      BY <3>1
  <2>2. Len(h) = 1
    BY <2>1, TailIs
  <2> QED
    BY <1>1, <2>2, RowShrinks
<1>3. Size[l] \in Nat \ {0} /\ a \in Blocks /\ UpperPart(U, l, a + Size[l])
  <2>1. Size[l] \in Nat \ {0} /\ a \in Blocks
    BY <1>1, <1>2, SizeIs DEF Loans
  <2>2. Len(h) * Size[l] = Size[l]
    BY <1>2, <2>1
  <2> QED
    BY <1>1, <2>1, <2>2
<1>4. /\ V \in Layouts /\ U \in Layouts
      /\ \A j \in Orders : L[j] = IF V[j] # NULL_BLOCK THEN V[j] ELSE U[j]
      /\ \A j \in Orders : j < l => V[j] = NULL_BLOCK /\ U[j] = NULL_BLOCK
  BY <1>1 DEF Chained
<1> DEFINE start == [heap |-> [lists |-> L, blocks |-> P], block |-> a, order |-> l]
           S == {c \in Works : MergesAll(c, L, l, V, U)}
<1>5. PICK first : first = start
  OBVIOUS
<1>6. first.heap = [lists |-> L, blocks |-> P] /\ first.block = a /\ first.order = l
  BY <1>5
<1>7. first \in S
  <2>1. first \in Works
    BY <1>1, <1>3, <1>5 DEF Works
  <2>2. l <= l
    BY <1>1, OrdersAre
  <2>3. \A j \in Orders : L[j] = IF j < l THEN NULL_BLOCK ELSE L[j]
    BY <1>4
  <2>4. P[a].order = l
    BY <1>1, <1>2
  <2>5. \A j \in Orders : V[j] # NULL_BLOCK =>
          /\ P[V[j]].free /\ P[V[j]].order = j /\ P[V[j]].prev = NULL_BLOCK
          /\ P[V[j]].next \in {NULL_BLOCK, U[j]}
    BY <1>1 DEF Chained, Listed
  <2>6. \A j \in Orders : U[j] # NULL_BLOCK => Listed(P[U[j]], j, NULL_BLOCK)
    BY <1>1 DEF Chained
  <2>7. MergesAll(first, L, l, V, U)
    BY <1>1, <1>3, <1>6, <2>1, <2>2, <2>3, <2>4, <2>5, <2>6 DEF MergesAll
  <2> QED
    BY <2>1, <2>7
<1>8. ASSUME NEW c \in S
      PROVE  \/ Turn(c) = c /\ Even(c.block, c.order) /\ c.block + Size[c.order] \notin Blocks
             \/ Turn(c) \in S /\ Turn(c).order = c.order + 1
  <2>1. \/ Turn(c) = c /\ Even(c.block, c.order) /\ c.block + Size[c.order] \notin Blocks
        \/ MergesAll(Turn(c), L, l, V, U) /\ Turn(c).order = c.order + 1
    BY <1>1, <1>4, LastTurns
  <2>2. MergesAll(Turn(c), L, l, V, U) => Turn(c) \in Works
    BY DEF MergesAll
  <2> QED
    BY <2>1, <2>2
<1>9. S \subseteq Works /\ \A c \in S : MergesAll(c, L, l, V, U)
  OBVIOUS
<1> HIDE DEF S
<1>10. PICK c \in S : /\ Turn(c) = c
                      /\ Coalesce(first.heap, first.block, first.order)
                           = PushFreeList(c.heap, c.order, c.block)
  BY <1>7, <1>8, <1>9, LoopEnds
<1>11. c \in Works /\ MergesAll(c, L, l, V, U)
  BY <1>9
<1>12. PICK b, n, lists, pages : /\ b = c.block /\ n = c.order
                                 /\ lists = c.heap.lists /\ pages = c.heap.blocks
  OBVIOUS
<1>13. Even(b, n) /\ b + Size[n] \notin Blocks
  <2>1. c.order # c.order + 1
    BY <1>11, OrdersAre DEF Works
  <2> QED
    BY <1>8, <1>10, <1>12, <2>1
<1>14. /\ LowerPart(V, n, b) /\ UpperPart(U, n, b + Size[n])
       /\ \A j \in Orders : lists[j] = IF j < n THEN NULL_BLOCK ELSE L[j]
  BY <1>11, <1>12 DEF MergesAll
<1>15. /\ b \in Blocks /\ b \in Nat /\ n \in Orders
       /\ \A j \in Orders : j \in Nat /\ Size[j] \in Nat \ {0}
  BY <1>11, <1>12, PoolIs, OrdersAre, SizeIs DEF Works
<1>16. b = 0 /\ NumBlocks <= Size[n]
  <2>1. NumBlocks <= b + Size[n]
    BY <1>13, <1>15, PoolIs
  <2>2. b = 0
    <3> SUFFICES ASSUME b # 0 PROVE FALSE
      OBVIOUS
    <3>1. b + 2 * Size[n] <= NumBlocks
      BY <1>13, <1>15, EvenFits
    <3> QED
      BY <1>15, <2>1, <3>1, PoolIs
  <2> QED
    BY <1>15, <2>1, <2>2
<1>17. \A j \in Orders : lists[j] = NULL_BLOCK
  <2> SUFFICES ASSUME NEW j \in Orders, ~(j < n), L[j] # NULL_BLOCK PROVE FALSE
    BY <1>14
  <2>1. n <= j
    BY <1>15
  <2>2. V[j] = NULL_BLOCK
    <3> SUFFICES ASSUME V[j] # NULL_BLOCK PROVE FALSE
      OBVIOUS
    <3>1. V[j] + Size[j] <= 0 /\ V[j] \in Nat
      BY <1>4, <1>14, <1>16, <2>1, PoolIs DEF LowerPart, Layouts
    <3> QED
      BY <1>15, <3>1
  <2>3. U[j] # NULL_BLOCK
    BY <1>4, <2>2
  <2>4. b + Size[n] <= U[j] /\ U[j] \in Blocks
    BY <1>4, <1>14, <2>1, <2>3 DEF UpperPart, Ascending, Layouts
  <2> QED
    BY <1>13, <1>15, <2>4, PoolIs
<1>18. Pushed(r, c.heap, n, b)
  <2>1. r = PushFreeList(c.heap, n, b)
    BY <1>6, <1>10, <1>12
  <2> QED
    BY <1>11, <1>12, <2>1, PushIs
<1>19. PICK has, is : has = r.lists /\ is = r.blocks
  OBVIOUS
<1>20. /\ has \in Layouts /\ is \in [Blocks -> Entries]
       /\ \A j \in Orders : has[j] = IF j = n THEN 0 ELSE NULL_BLOCK
       /\ Listed(is[0], n, NULL_BLOCK) /\ is[0].prev = NULL_BLOCK
  BY <1>12, <1>15, <1>16, <1>17, <1>18, <1>19 DEF Pushed
<1>21. has = Alone(n)
  BY <1>20 DEF Layouts, Alone
<1>22. Recorded(has, is, << >>)
  <2>1. 1..Len(<< >>) = {}
    OBVIOUS
  <2>2. \A j \in Orders : has[j] # NULL_BLOCK => j = n /\ has[j] = 0
    BY <1>20
  <2> QED
    BY <1>20, <2>1, <2>2 DEF Recorded, Listed
<1> QED
  BY <1>15, <1>16, <1>19, <1>20, <1>21, <1>22

-----------------------------------------------------------------------------
\* The invariant.

\* A row is allocated as any blocks are; then it is freed from its start.
BatchInv ==
  IF freeing
  THEN /\ free_lists \in Layouts /\ blocks \in [Blocks -> Entries] /\ live \in Seq(Loans)
       /\ live # << >>
       /\ \E l, a, V, U : Batch(free_lists, blocks, live, l, a, V, U)
  ELSE /\ LifoInv
       /\ live # << >> => \E l \in Orders : Lined(free_lists, live, l)

LEMMA KallocInBatch ==
  ASSUME BatchInv, discipline = "batch", NEW l \in Orders, Kalloc(l)
  PROVE  BatchInv'
<1>1. ~freeing /\ freeing' = freeing /\ \A k \in DOMAIN live : live[k].order = l
  BY DEF Kalloc, MayAllocate
<1>2. LifoInv /\ (live # << >> => \E m \in Orders : Lined(free_lists, live, m))
  BY <1>1 DEF BatchInv
<1>3. live # << >> => Lined(free_lists, live, l)
  <2> SUFFICES ASSUME live # << >> PROVE Lined(free_lists, live, l)
    OBVIOUS
  <2>1. PICK m \in Orders : Lined(free_lists, live, m)
    BY <1>2
  <2>2. live \in Seq(Loans)
    BY <1>2 DEF LifoInv
  <2>3. 1 \in DOMAIN live /\ 1 \in 1..Len(live)
    BY <2>2
  <2>4. m = l
    BY <1>1, <2>1, <2>3 DEF Lined, Row
  <2> QED
    BY <2>1, <2>4
<1>4. LifoInv'
  BY <1>2, KallocInv
<1>5. Lined(free_lists', live', l)
  BY <1>2, <1>3, KallocLined
<1>6. l \in Orders /\ ~freeing'
  BY <1>1
<1> QED
  BY <1>4, <1>5, <1>6 DEF BatchInv

LEMMA RestIsTail ==
  ASSUME NEW h \in Seq(Loans), h # << >>
  PROVE  SubSeq(h, 2, Len(h)) = Tail(h)
<1>1. PICK n \in Nat : n = Len(h) - 1 /\ Len(h) = n + 1
  OBVIOUS
<1>2. SubSeq(h, 2, n + 1) = [x \in 1..n |-> h[x + 1]]
  <2>1. PICK m : m = n + 1
    OBVIOUS
  <2>2. PICK f : f = SubSeq(h, 2, m)
    OBVIOUS
  <2>3. f \in Seq(Loans) /\ Len(f) = n
    BY <1>1, <2>1, <2>2
  <2>4. \A x \in 1..n : f[x] = h[x + 1]
    BY <1>1, <2>1, <2>2
  <2>5. f = [x \in 1..n |-> f[x]]
    BY <2>3
  <2> QED
    BY <2>1, <2>2, <2>4, <2>5
<1>3. Tail(h) = [x \in 1..n |-> h[x + 1]]
  <2>1. PICK f : f = Tail(h)
    OBVIOUS
  <2>2. f \in Seq(Loans) /\ Len(f) = n
    BY <1>1, <2>1
  <2>3. \A x \in 1..n : f[x] = h[x + 1]
    BY <1>1, <2>1
  <2>4. f = [x \in 1..n |-> f[x]]
    BY <2>2
  <2> QED
    BY <2>1, <2>3, <2>4
<1> QED
  BY <1>1, <1>2, <1>3

LEMMA KfreeInBatch ==
  ASSUME BatchInv, discipline = "batch", NEW k \in DOMAIN live, Kfree(k)
  PROVE  BatchInv'
<1>1. /\ free_lists \in Layouts /\ blocks \in [Blocks -> Entries] /\ live \in Seq(Loans)
  BY DEF BatchInv, LifoInv
<1>2. k = 1 /\ live # << >> /\ 1 \in 1..Len(live)
  <2>1. k = 1
    BY DEF Kfree, MayFree
  <2> QED
    BY <1>1, <2>1
<1>3. PICK l, a, V, U : Batch(free_lists, blocks, live, l, a, V, U)
  <2>1. CASE freeing
    BY <2>1 DEF BatchInv
  <2>2. CASE ~freeing
    <3>1. Recorded(free_lists, blocks, live) /\ \E m \in Orders : Lined(free_lists, live, m)
      BY <1>2, <2>2 DEF BatchInv, LifoInv
    <3> QED
      BY <1>1, <3>1, LinedIsBatch
  <2> QED
    BY <2>1, <2>2
<1>4. live[1].block = a /\ blocks[a].order = l
  <2>1. l \in Orders /\ a \in Nat /\ Row(live, l, a)
    BY <1>3 DEF Batch
  <2>2. live[1].block = a
    BY <1>1, <1>2, <2>1, RowShrinks
  <2> QED
    BY <1>2, <1>3, <2>2 DEF Batch
<1>5. PICK r : r = Coalesce([lists |-> free_lists, blocks |-> blocks], a, l)
  OBVIOUS
<1>6. free_lists' = r.lists /\ blocks' = r.blocks
  BY <1>2, <1>4, <1>5 DEF Kfree, SetHeap, Heap
<1>7. Tail(live) \in Seq(Loans)
  BY <1>1, <1>2
<1>8. live' = Tail(live)
  <2>1. live' = SubSeq(live, 1, 0) \o SubSeq(live, 2, Len(live))
    <3>1. k - 1 = 0 /\ k + 1 = 2
      BY <1>2
    <3>2. live' = SubSeq(live, 1, k - 1) \o SubSeq(live, k + 1, Len(live))
      BY DEF Kfree
    <3> QED
      BY <3>1, <3>2
  <2>2. PICK s : s = Tail(live) /\ s \in Seq(Loans)
    BY <1>7
  <2>3. SubSeq(live, 2, Len(live)) = s
    BY <1>1, <1>2, <2>2, RestIsTail
  <2>4. SubSeq(live, 1, 0) = << >>
    BY <1>1, <1>2
  <2>5. << >> \o s = s
    BY <2>2
  <2> QED
    BY <2>1, <2>2, <2>3, <2>4, <2>5
<1>9. freeing' = (live' # << >>)
  BY DEF Kfree
<1>10. CASE Tail(live) # << >>
  <2>1. /\ r.lists \in Layouts /\ r.blocks \in [Blocks -> Entries]
        /\ \E W : Batch(r.lists, r.blocks, Tail(live), l, a + Size[l], W, U)
    BY <1>1, <1>2, <1>3, <1>5, <1>10, FirstIsFreed
  <2>2. freeing'
    BY <1>8, <1>9, <1>10
  <2> QED
    BY <1>6, <1>8, <1>7, <1>10, <2>1, <2>2 DEF BatchInv
<1>11. CASE Tail(live) = << >>
  <2>1. /\ r.lists \in Layouts /\ r.blocks \in [Blocks -> Entries]
        /\ \E t \in Orders : NumBlocks <= Size[t] /\ r.lists = Alone(t)
        /\ Recorded(r.lists, r.blocks, << >>)
    BY <1>1, <1>2, <1>3, <1>5, <1>11, LastIsFreed
  <2>2. ~freeing' /\ live' = << >>
    BY <1>8, <1>9, <1>11
  <2>3. Reached(r.lists, live')
    BY <1>8, <1>7, <2>1, <2>2, OneLayout
  <2>4. LifoInv'
    BY <1>6, <1>8, <1>7, <2>1, <2>2, <2>3 DEF LifoInv
  <2> QED
    BY <2>2, <2>4 DEF BatchInv
<1> QED
  BY <1>10, <1>11

OrderlyInv ==
  /\ discipline = "lifo" => LifoInv
  /\ discipline = "batch" => BatchInv

LEMMA NextInv ==
  ASSUME OrderlyInv, [Next]_vars
  PROVE  OrderlyInv'
<1>1. discipline' = discipline
  BY DEF Next, vars, Kalloc, KallocNone, Kfree
<1>2. ASSUME NEW size \in Requests, Kalloc(ListIndex(size)) PROVE OrderlyInv'
  <2>1. PICK l \in Orders : Kalloc(l)
    <3>1. ListIndex(size) < NumBlocks
      BY <1>2 DEF Kalloc
    <3>2. ListIndex(size) \in Orders
      BY <3>1, PoolIs, RequestsAssumption
    <3> QED BY <1>2, <3>2
  <2> QED BY <1>1, <2>1, KallocInv, KallocInBatch DEF OrderlyInv
<1>3. ASSUME NEW k \in DOMAIN live, Kfree(k) PROVE OrderlyInv'
  BY <1>1, <1>3, KfreeInv, KfreeInBatch DEF OrderlyInv
<1>4. ASSUME UNCHANGED vars PROVE OrderlyInv'
  <2>1. free_lists' = free_lists /\ blocks' = blocks /\ live' = live /\ freeing' = freeing
    BY <1>4 DEF vars
  <2>2. LifoInv => LifoInv'
    BY <2>1 DEF LifoInv
  <2>3. BatchInv => BatchInv'
    BY <2>1, <2>2 DEF BatchInv
  <2> QED
    BY <1>1, <2>2, <2>3 DEF OrderlyInv
<1> QED
  BY <1>2, <1>3, <1>4 DEF Next, KallocNone

\* While the clients free in the reverse order of their allocation, or rows of
\* blocks of one size from their start, the layout of the free lists follows
\* from the loans that are out: kalloc's splits (kernel/alloc.cc) and kfree's
\* merges undo each other exactly.
THEOREM Invariant == Spec => []OrderlyInv
<1>1. Init => OrderlyInv
  <2> SUFFICES ASSUME Init PROVE OrderlyInv
    OBVIOUS
  <2>1. LifoInv
    BY InitInv
  <2>2. ~freeing /\ live = << >>
    BY DEF Init
  <2> QED
    BY <2>1, <2>2 DEF OrderlyInv, BatchInv
<1>2. OrderlyInv /\ [Next]_vars => OrderlyInv'
  BY NextInv
<1> QED
  BY <1>1, <1>2, PTL DEF Spec

-----------------------------------------------------------------------------
\* What the properties say of the lists, in terms of layouts.

\* The list of a head that one block follows at most.
LEMMA InListIs ==
  ASSUME free_lists \in Layouts, blocks \in [Blocks -> Entries],
         NEW l \in Orders, NEW head \in Blocks, free_lists[l] = head,
         NEW x, blocks[head].next = x,
         x # NULL_BLOCK => blocks[x].next = NULL_BLOCK
  PROVE  InList(l) = {head, x} \ {NULL_BLOCK}
<1> DEFINE S == SUBSET (Blocks \union {NULL_BLOCK})
           after(before) == before \union {blocks[b].next : b \in before \ {NULL_BLOCK}}
           next == [n \in 1..NumBlocks |-> [before \in S |-> after(before)]]
           R(f) == f = [n \in 0..NumBlocks |->
                          IF n = 0 THEN {free_lists[l]}
                          ELSE LET before == f[n - 1]
                               IN  before \union {blocks[b].next : b \in before \ {NULL_BLOCK}}]
           reach == CHOOSE f : R(f)
<1>1. head # NULL_BLOCK
  BY PoolIs
<1>2. NumBlocks \in Nat /\ NumBlocks \in 1..NumBlocks
  BY PoolIs
<1>3. \A before \in S : after(before) \in S
  <2>1. \A b \in Blocks : blocks[b].next \in Blocks \union {NULL_BLOCK}
    BY DEF Entries
  <2> QED
    BY <2>1
<1>4. {head} \in S
  OBVIOUS
<1>5. next \in [1..NumBlocks -> [S -> S]] /\ \A n \in 1..NumBlocks, X \in S : next[n][X] = after(X)
  BY <1>3
<1> HIDE DEF next, S
<1>6. PICK f : Follows(NumBlocks, S, {head}, next, f)
  BY <1>2, <1>4, <1>5, Recursion
<1>7. R(f)
  <2>1. f = [n \in 0..NumBlocks |-> f[n]] /\ f[0] = {head}
    BY <1>6 DEF Follows
  <2>2. ASSUME NEW n \in 0..NumBlocks, n # 0 PROVE f[n] = after(f[n - 1])
    <3>1. n \in 1..NumBlocks /\ n - 1 \in 0..NumBlocks
      BY <1>2, <2>2
    <3>2. f[n - 1] \in S /\ f[n] = next[n][f[n - 1]]
      BY <1>6, <3>1 DEF Follows
    <3> QED
      BY <1>5, <3>1, <3>2
  <2>3. \A n \in 0..NumBlocks : f[n] = IF n = 0 THEN {head} ELSE after(f[n - 1])
    BY <2>1, <2>2
  <2> QED
    BY <2>1, <2>3
<1>8. R(reach)
  BY <1>7
<1>9. InList(l) = reach[NumBlocks] \ {NULL_BLOCK}
  BY Zenon DEF InList
<1> HIDE DEF reach
<1>10. reach[0] = {head} /\ \A n \in 1..NumBlocks : reach[n] = after(reach[n - 1])
  <2>1. \A n \in 0..NumBlocks : reach[n] = IF n = 0 THEN {head} ELSE after(reach[n - 1])
    BY <1>8
  <2>2. \A n \in 1..NumBlocks : n \in 0..NumBlocks /\ n # 0
    BY <1>2
  <2>3. 0 \in 0..NumBlocks
    BY <1>2
  <2> QED
    BY <2>1, <2>2, <2>3
<1> HIDE DEF R
<1> DEFINE Two(X) == head \in X /\ X \subseteq {head, x, NULL_BLOCK}
           T == {n \in 0..NumBlocks : Two(reach[n])}
<1>11. ASSUME NEW X, Two(X) PROVE Two(after(X)) /\ x \in after(X)
  <2>1. \A b \in X \ {NULL_BLOCK} : blocks[b].next \in {x, NULL_BLOCK}
    BY <1>11
  <2>2. head \in X \ {NULL_BLOCK}
    BY <1>1, <1>11
  <2>3. x \in {blocks[b].next : b \in X \ {NULL_BLOCK}}
    BY <2>2
  <2> QED
    BY <1>11, <2>1, <2>3
<1> HIDE DEF Two
<1>12. 0 \in T
  <2>1. Two({head}) /\ 0 \in 0..NumBlocks
    BY <1>2 DEF Two
  <2> QED
    BY <1>10, <2>1
<1>13. ASSUME NEW n \in 1..NumBlocks, n - 1 \in T PROVE n \in T
  <2>1. n \in 0..NumBlocks
    BY <1>2
  <2>2. PICK X : X = reach[n - 1] /\ Two(X)
    BY <1>13
  <2>3. reach[n] = after(X)
    BY <1>10, <2>2
  <2> QED
    BY <1>11, <2>1, <2>2, <2>3
<1>14. NumBlocks - 1 \in T
  <2> HIDE DEF T
  <2>1. \A n \in 0..NumBlocks : n \in T
    BY <1>2, <1>12, <1>13, Upwards
  <2>2. NumBlocks - 1 \in 0..NumBlocks
    BY <1>2
  <2> QED
    BY <2>1, <2>2
<1>15. PICK X : X = reach[NumBlocks - 1] /\ Two(X)
  BY <1>14
<1>16. reach[NumBlocks] = after(X)
  BY <1>2, <1>10, <1>15
<1>17. head \in after(X) /\ after(X) \subseteq {head, x, NULL_BLOCK} /\ x \in after(X)
  BY <1>11, <1>15 DEF Two
<1> QED
  BY <1>1, <1>9, <1>16, <1>17

IsLoan(x, h)  == \E k \in 1..Len(h) : x = <<h[k].block, h[k].order>>
IsFree(x, L)  == \E n \in Orders : L[n] # NULL_BLOCK /\ x = <<L[n], n>>

\* Every page lies in one of the loans or in a block of one of two layouts,
\* and in no more than one of them all.
Parted(V, U, h) ==
  \A p \in Blocks :
    /\ \/ \E i \in 1..Len(h) : InHeld(h, i, p)
       \/ \E n \in Orders : InFree(V, n, p)
       \/ \E n \in Orders : InFree(U, n, p)
    /\ \A i, j \in 1..Len(h) : InHeld(h, i, p) /\ InHeld(h, j, p) => i = j
    /\ \A n, m \in Orders : InFree(V, n, p) /\ InFree(V, m, p) => n = m
    /\ \A n, m \in Orders : InFree(U, n, p) /\ InFree(U, m, p) => n = m
    /\ \A i \in 1..Len(h), n \in Orders :
         InHeld(h, i, p) => ~InFree(V, n, p) /\ ~InFree(U, n, p)
    /\ \A n, m \in Orders : ~(InFree(V, n, p) /\ InFree(U, m, p))

\* Who the pages belong to: the blocks in the lists are those of two layouts.
Owners(V, U) ==
  /\ V \in Layouts /\ U \in Layouts /\ live \in Seq(Loans)
  /\ \A x : x \in Free <=> IsFree(x, V) \/ IsFree(x, U)
  /\ Parted(V, U, live)

LEMMA LifoOwners == LifoInv => Owners(Nothing, free_lists)
<1> SUFFICES ASSUME LifoInv PROVE Owners(Nothing, free_lists)
  OBVIOUS
<1>1. /\ live \in Seq(Loans) /\ free_lists \in Layouts /\ blocks \in [Blocks -> Entries]
      /\ Tiled(free_lists, live, Len(live)) /\ Recorded(free_lists, blocks, live)
  BY ReachedLayout DEF LifoInv
<1>2. Nothing \in Layouts /\ \A j \in Orders : Nothing[j] = NULL_BLOCK
  BY DEF Nothing, Layouts
<1>3. \A n \in Orders : free_lists[n] # NULL_BLOCK => InList(n) \X {n} = {<<free_lists[n], n>>}
  <2> SUFFICES ASSUME NEW n \in Orders, free_lists[n] # NULL_BLOCK
               PROVE  InList(n) \X {n} = {<<free_lists[n], n>>}
    OBVIOUS
  <2>1. PICK head \in Blocks : head = free_lists[n]
    BY <1>1 DEF Layouts
  <2>2. blocks[head].next = NULL_BLOCK
    BY <1>1, <2>1 DEF Recorded
  <2>3. InList(n) = {head, NULL_BLOCK} \ {NULL_BLOCK}
    BY <1>1, <2>1, <2>2, InListIs
  <2>4. InList(n) = {head}
    BY <2>1, <2>3
  <2>5. \A b : {b} \X {n} = {<<b, n>>}
    OBVIOUS
  <2> QED
    BY <2>1, <2>4, <2>5
<1>4. ASSUME NEW x PROVE x \in Free <=> IsFree(x, Nothing) \/ IsFree(x, free_lists)
  <2>1. x \in Free <=> \E n \in Orders : free_lists[n] # NULL_BLOCK /\ x \in InList(n) \X {n}
    BY DEF Free
  <2>2. ~IsFree(x, Nothing)
    BY <1>2 DEF IsFree
  <2> QED
    BY <1>3, <2>1, <2>2 DEF IsFree
<1>5. \A n \in Orders, p \in Blocks : ~InFree(Nothing, n, p)
  BY <1>2 DEF InFree
<1>6. Parted(Nothing, free_lists, live)
  BY <1>1, <1>5 DEF Tiled, Parted
<1> QED
  BY <1>1, <1>2, <1>4, <1>6 DEF Owners

\* The pages of a row.
LEMMA RowCovers ==
  ASSUME NEW h \in Seq(Loans), NEW l \in Orders, NEW a \in Nat, Row(h, l, a), NEW p \in Nat
  PROVE  /\ \A x \in 1..Len(h) : InHeld(h, x, p) => a <= p /\ p < a + Len(h) * Size[l]
         /\ \A x, y \in 1..Len(h) : InHeld(h, x, p) /\ InHeld(h, y, p) => x = y
         /\ a <= p /\ p < a + Len(h) * Size[l] => \E x \in 1..Len(h) : InHeld(h, x, p)
<1>1. PICK n \in Nat : n = Len(h)
  OBVIOUS
<1>2. PICK s \in Nat \ {0} : s = Size[l]
  BY SizeIs
<1> DEFINE at == [x \in 0..n |-> x * s]
<1>3. \A x \in 0..n : at[x] = x * s /\ at[x] \in Nat
  <2>1. \A x, y \in Nat : x * y \in Nat
    OBVIOUS
  <2> QED
    BY <1>1, <1>2, <2>1
<1>4. \A x \in 1..n : x - 1 \in 0..n /\ x \in 0..n /\ at[x] = at[x - 1] + s
  <2> SUFFICES ASSUME NEW x \in 1..n
               PROVE  x - 1 \in 0..n /\ x \in 0..n /\ at[x] = at[x - 1] + s
    OBVIOUS
  <2>1. x - 1 \in 0..n /\ x \in 0..n
    OBVIOUS
  <2>2. \A u, v \in Nat : u # 0 => u * v = (u - 1) * v + v
    OBVIOUS
  <2>3. x * s = (x - 1) * s + s
    BY <2>2
  <2> QED
    BY <1>3, <2>1, <2>3
<1>5. \A x, y \in 0..n : x <= y => at[x] <= at[y]
  <2>1. \A u, v, w \in Nat : u <= v => u * w <= v * w
    OBVIOUS
  <2> QED
    BY <1>2, <1>3, <2>1
<1> HIDE DEF at
<1>6. \A x \in 1..n : InHeld(h, x, p) <=> a + at[x - 1] <= p /\ p < a + at[x - 1] + s
  <2> SUFFICES ASSUME NEW x \in 1..n
               PROVE  InHeld(h, x, p) <=> a + at[x - 1] <= p /\ p < a + at[x - 1] + s
    OBVIOUS
  <2>1. h[x].order = l /\ h[x].block = a + at[x - 1]
    BY <1>1, <1>2, <1>3, <1>4 DEF Row
  <2> QED
    BY <1>2, <2>1 DEF InHeld, Covers
<1>7. at[0] = 0 /\ at[n] = Len(h) * Size[l] /\ 0 \in 0..n /\ n \in 0..n
  BY <1>1, <1>2, <1>3
<1>8. \A x \in 1..n : InHeld(h, x, p) => a <= p /\ p < a + at[n]
  <2> SUFFICES ASSUME NEW x \in 1..n, InHeld(h, x, p) PROVE a <= p /\ p < a + at[n]
    OBVIOUS
  <2>1. at[x] <= at[n] /\ at[x] = at[x - 1] + s /\ at[x - 1] \in Nat /\ at[n] \in Nat
    BY <1>3, <1>4, <1>5, <1>7, SMTT(30)
  <2> QED
    BY <1>6, <2>1, SMTT(30)
<1>9. ASSUME NEW x \in 1..n, NEW y \in 1..n, x < y, InHeld(h, x, p), InHeld(h, y, p)
      PROVE  FALSE
  <2>1. x <= y - 1 /\ y - 1 \in 0..n
    BY <1>9
  <2>2. at[x] <= at[y - 1] /\ at[x] = at[x - 1] + s /\ at[x - 1] \in Nat /\ at[y - 1] \in Nat
    BY <1>3, <1>4, <1>5, <2>1
  <2> QED
    BY <1>6, <1>9, <2>2, SMTT(30)
<1>10. ASSUME a <= p, p < a + at[n] PROVE \E x \in 1..n : InHeld(h, x, p)
  <2> DEFINE T == {x \in 0..n : p < a + at[x]}
  <2>1. PICK x \in T : \A y \in T : x <= y
    <3>1. T \subseteq Nat /\ n \in T
      BY <1>7, <1>10
    <3> HIDE DEF T
    <3> QED
      BY <3>1, LeastMember
  <2>2. x \in 0..n /\ p < a + at[x]
    BY <2>1
  <2>3. x # 0
    BY <1>7, <1>10, <2>2
  <2>4. x \in 1..n /\ x - 1 \in 0..n /\ ~(x <= x - 1)
    BY <2>2, <2>3
  <2>5. ~(p < a + at[x - 1])
    BY <2>1, <2>4
  <2>6. a + at[x - 1] <= p /\ p < a + at[x - 1] + s
    BY <1>3, <1>4, <2>2, <2>4, <2>5, SMTT(30)
  <2> QED
    BY <1>6, <2>4, <2>6
<1>11. \A x, y \in 1..n : InHeld(h, x, p) /\ InHeld(h, y, p) => x = y
  <2>1. \A x, y \in 1..n : x < y \/ y < x \/ x = y
    OBVIOUS
  <2> QED
    BY <1>9, <2>1
<1> QED
  BY <1>1, <1>7, <1>8, <1>10, <1>11

LEMMA BatchOwners ==
  ASSUME free_lists \in Layouts, blocks \in [Blocks -> Entries], live \in Seq(Loans),
         NEW l, NEW a, NEW V, NEW U, Batch(free_lists, blocks, live, l, a, V, U)
  PROVE  Owners(V, U)
<1>1. /\ l \in Orders /\ a \in Nat /\ Row(live, l, a) /\ LowerPart(V, l, a)
      /\ UpperPart(U, l, a + Len(live) * Size[l]) /\ Chained(free_lists, blocks, l, V, U)
  BY DEF Batch
<1>2. /\ V \in Layouts /\ U \in Layouts
      /\ \A j \in Orders : j < l => V[j] = NULL_BLOCK /\ U[j] = NULL_BLOCK
      /\ \A j \in Orders : free_lists[j] = IF V[j] # NULL_BLOCK THEN V[j] ELSE U[j]
      /\ \A j \in Orders : V[j] # NULL_BLOCK => blocks[V[j]].next = U[j]
      /\ \A j \in Orders : U[j] # NULL_BLOCK => blocks[U[j]].next = NULL_BLOCK
  BY <1>1 DEF Chained, Listed
<1>3. \A n \in Orders : free_lists[n] # NULL_BLOCK => InList(n) = {V[n], U[n]} \ {NULL_BLOCK}
  <2> SUFFICES ASSUME NEW n \in Orders, free_lists[n] # NULL_BLOCK
               PROVE  InList(n) = {V[n], U[n]} \ {NULL_BLOCK}
    OBVIOUS
  <2>1. PICK head \in Blocks : head = free_lists[n]
    BY DEF Layouts
  <2>2. CASE V[n] # NULL_BLOCK
    <3>1. head = V[n] /\ blocks[head].next = U[n]
      BY <1>2, <2>1, <2>2
    <3>2. InList(n) = {head, U[n]} \ {NULL_BLOCK}
      BY <1>2, <2>1, <3>1, InListIs
    <3> QED
      BY <3>1, <3>2
  <2>3. CASE V[n] = NULL_BLOCK
    <3>1. head = U[n] /\ blocks[head].next = NULL_BLOCK
      BY <1>2, <2>1, <2>3
    <3>2. InList(n) = {head, NULL_BLOCK} \ {NULL_BLOCK}
      BY <2>1, <3>1, InListIs
    <3> QED
      BY <2>3, <3>1, <3>2
  <2> QED
    BY <2>2, <2>3
<1>4. ASSUME NEW x PROVE x \in Free <=> IsFree(x, V) \/ IsFree(x, U)
  <2>1. x \in Free <=> \E n \in Orders : free_lists[n] # NULL_BLOCK /\ x \in InList(n) \X {n}
    BY DEF Free
  <2>2. x \in Free <=> \E n \in Orders : free_lists[n] # NULL_BLOCK
                         /\ \E b \in {V[n], U[n]} \ {NULL_BLOCK} : x = <<b, n>>
    BY <1>3, <2>1
  <2>3. \A n \in Orders : V[n] # NULL_BLOCK \/ U[n] # NULL_BLOCK => free_lists[n] # NULL_BLOCK
    BY <1>2
  <2> QED
    BY <2>2, <2>3 DEF IsFree
<1>5. PICK e \in Nat : e = a + Len(live) * Size[l]
  <2>1. \A u, v, w \in Nat : u + v * w \in Nat
    OBVIOUS
  <2>2. Len(live) \in Nat /\ Size[l] \in Nat
    BY <1>1, SizeIs
  <2> QED
    BY <1>1, <2>1, <2>2
<1>6. \A n \in Orders : (V[n] # NULL_BLOCK \/ U[n] # NULL_BLOCK => l <= n) /\ n \in Nat
  BY <1>1, <1>2, OrdersAre
<1>7. \A n \in Orders : /\ Size[n] \in Nat \ {0}
                        /\ V[n] # NULL_BLOCK => V[n] \in Nat /\ V[n] + Size[n] <= a
                        /\ U[n] # NULL_BLOCK => U[n] \in Nat /\ e <= U[n]
  BY <1>1, <1>2, <1>5, <1>6, PoolIs, SizeIs DEF Layouts, LowerPart, UpperPart, Ascending
<1>8. \A n, m \in Orders :
        n < m => /\ V[n] # NULL_BLOCK /\ V[m] # NULL_BLOCK => V[m] + Size[m] <= V[n]
                 /\ U[n] # NULL_BLOCK /\ U[m] # NULL_BLOCK => U[n] + Size[n] <= U[m]
  BY <1>1, <1>6 DEF LowerPart, UpperPart, Ascending
<1>9. ASSUME NEW p \in Blocks
      PROVE  /\ \A n \in Orders : InFree(V, n, p) => p < a
             /\ \A n \in Orders : InFree(U, n, p) => e <= p
             /\ \A n, m \in Orders : InFree(V, n, p) /\ InFree(V, m, p) => n = m
             /\ \A n, m \in Orders : InFree(U, n, p) /\ InFree(U, m, p) => n = m
             /\ p < a => \E n \in Orders : InFree(V, n, p)
             /\ e <= p => \E n \in Orders : InFree(U, n, p)
             /\ \A x \in 1..Len(live) : InHeld(live, x, p) => a <= p /\ p < e
             /\ \A x, y \in 1..Len(live) : InHeld(live, x, p) /\ InHeld(live, y, p) => x = y
             /\ a <= p /\ p < e => \E x \in 1..Len(live) : InHeld(live, x, p)
  <2>1. p \in Nat
    BY PoolIs
  <2>2. \A n \in Orders : InFree(V, n, p) => p < a
    BY <1>1, <1>7, <2>1 DEF InFree, Covers
  <2>3. \A n \in Orders : InFree(U, n, p) => e <= p
    BY <1>7, <2>1 DEF InFree, Covers
  <2>4. ASSUME NEW n \in Orders, NEW m \in Orders, n < m
        PROVE  ~(InFree(V, n, p) /\ InFree(V, m, p)) /\ ~(InFree(U, n, p) /\ InFree(U, m, p))
    BY <1>7, <1>8, <2>1, <2>4 DEF InFree, Covers
  <2>5. \A n, m \in Orders : n < m \/ m < n \/ n = m
    BY <1>6
  <2>6. /\ \A n, m \in Orders : InFree(V, n, p) /\ InFree(V, m, p) => n = m
        /\ \A n, m \in Orders : InFree(U, n, p) /\ InFree(U, m, p) => n = m
    BY <2>4, <2>5
  <2>7. /\ p < a => \E n \in Orders : InFree(V, n, p)
        /\ e <= p => \E n \in Orders : InFree(U, n, p)
    BY <1>1, <1>5, <2>1 DEF LowerPart, UpperPart, Ascending
  <2>8. /\ \A x \in 1..Len(live) : InHeld(live, x, p) => a <= p /\ p < e
        /\ \A x, y \in 1..Len(live) : InHeld(live, x, p) /\ InHeld(live, y, p) => x = y
        /\ a <= p /\ p < e => \E x \in 1..Len(live) : InHeld(live, x, p)
    BY <1>1, <1>5, <2>1, RowCovers
  <2> QED
    BY <2>2, <2>3, <2>6, <2>7, <2>8
<1>10. Parted(V, U, live)
  <2> SUFFICES ASSUME NEW p \in Blocks
               PROVE  /\ \/ \E i \in 1..Len(live) : InHeld(live, i, p)
                         \/ \E n \in Orders : InFree(V, n, p)
                         \/ \E n \in Orders : InFree(U, n, p)
                      /\ \A i \in 1..Len(live), n \in Orders :
                           InHeld(live, i, p) => ~InFree(V, n, p) /\ ~InFree(U, n, p)
                      /\ \A n, m \in Orders : ~(InFree(V, n, p) /\ InFree(U, m, p))
    BY <1>9 DEF Parted
  <2>1. p \in Nat /\ a \in Nat /\ e \in Nat /\ a <= e
    <3>1. \A u, v, w \in Nat : u <= u + v * w
      OBVIOUS
    <3>2. Len(live) \in Nat /\ Size[l] \in Nat
      BY <1>1, SizeIs
    <3> QED
      BY <1>1, <1>5, <3>1, <3>2, PoolIs
  <2>2. (p < a \/ (a <= p /\ p < e) \/ e <= p) /\ ~(p < a /\ a <= p) /\ ~(p < e /\ e <= p)
        /\ ~(p < a /\ e <= p)
    BY <2>1
  <2> QED
    BY <1>9, <2>2
<1> QED
  BY <1>2, <1>4, <1>10 DEF Owners

LEMMA OrderlyOwners ==
  ASSUME OrderlyInv, discipline \in {"lifo", "batch"}
  PROVE  \E V, U : Owners(V, U)
<1>1. LifoInv \/ BatchInv
  BY DEF OrderlyInv
<1> QED
  BY <1>1, LifoOwners, BatchOwners DEF BatchInv

LEMMA PagesAre ==
  ASSUME NEW b \in Blocks, NEW l \in Orders, NEW p
  PROVE  p \in Pages(b, l) <=> p \in Blocks /\ Covers(b, l, p)
<1>1. Size[l] \in Nat \ {0} /\ b \in Nat /\ Blocks \subseteq Nat
  BY SizeIs, PoolIs
<1>2. p \in Blocks => (p \in b..(b + Size[l] - 1) <=> Covers(b, l, p))
  BY <1>1 DEF Covers
<1> QED
  BY <1>2 DEF Pages

LEMMA HeldIs ==
  ASSUME live \in Seq(Loans)
  PROVE  /\ DOMAIN live = 1..Len(live)
         /\ \A x : x \in Held <=> IsLoan(x, live)
<1>1. DOMAIN live = 1..Len(live)
  OBVIOUS
<1>2. \A x : x \in Held <=> IsLoan(x, live)
  BY <1>1 DEF Held, IsLoan
<1> QED
  BY <1>1, <1>2

\* Whose a page of an owner's block is.
LEMMA LoanPages ==
  ASSUME live \in Seq(Loans), NEW k \in 1..Len(live), NEW p
  PROVE  p \in Pages(live[k].block, live[k].order) <=> p \in Blocks /\ InHeld(live, k, p)
<1>1. live[k] \in Loans
  OBVIOUS
<1>2. live[k].block \in Blocks /\ live[k].order \in Orders
  BY <1>1 DEF Loans
<1> QED
  BY <1>2, PagesAre DEF InHeld

LEMMA FreePages ==
  ASSUME NEW L \in Layouts, NEW n \in Orders, L[n] # NULL_BLOCK, NEW p
  PROVE  p \in Pages(L[n], n) <=> p \in Blocks /\ InFree(L, n, p)
<1>1. L[n] \in Blocks
  BY DEF Layouts
<1> QED
  BY <1>1, PagesAre DEF InFree

LoanOf(z, p)    == \E k \in 1..Len(live) : z = <<live[k].block, live[k].order>> /\ InHeld(live, k, p)
FreeOf(z, L, p) == \E n \in Orders : z = <<L[n], n>> /\ InFree(L, n, p)

LEMMA OwnerOf ==
  ASSUME NEW V, NEW U, Owners(V, U), NEW z \in Held \union Free, NEW p \in Pages(z[1], z[2])
  PROVE  p \in Blocks /\ (LoanOf(z, p) \/ FreeOf(z, V, p) \/ FreeOf(z, U, p))
<1>1. live \in Seq(Loans) /\ V \in Layouts /\ U \in Layouts
  BY DEF Owners
<1>2. IsLoan(z, live) \/ IsFree(z, V) \/ IsFree(z, U)
  BY <1>1, HeldIs DEF Owners
<1>3. p \in Blocks
  BY DEF Pages
<1>4. ASSUME IsLoan(z, live) PROVE LoanOf(z, p)
  <2>1. PICK k \in 1..Len(live) : z = <<live[k].block, live[k].order>>
    BY <1>4 DEF IsLoan
  <2>2. p \in Pages(live[k].block, live[k].order)
    BY <2>1
  <2> QED
    BY <1>1, <2>1, <2>2, LoanPages DEF LoanOf
<1>5. ASSUME NEW L \in Layouts, IsFree(z, L) PROVE FreeOf(z, L, p)
  <2>1. PICK n \in Orders : L[n] # NULL_BLOCK /\ z = <<L[n], n>>
    BY <1>5 DEF IsFree
  <2>2. p \in Pages(L[n], n)
    BY <2>1
  <2> QED
    BY <2>1, <2>2, FreePages DEF FreeOf
<1> QED
  BY <1>1, <1>2, <1>3, <1>4, <1>5

LEMMA NoOverlapHolds ==
  ASSUME NEW V, NEW U, Owners(V, U)
  PROVE  NoOverlap
<1>1. live \in Seq(Loans) /\ V \in Layouts /\ U \in Layouts /\ Parted(V, U, live)
  BY DEF Owners
<1>2. ASSUME NEW j \in DOMAIN live, NEW k \in DOMAIN live, live[j].block = live[k].block
      PROVE  j = k
  <2>1. j \in 1..Len(live) /\ k \in 1..Len(live) /\ live[j] \in Loans /\ live[k] \in Loans
    BY <1>1
  <2>2. PICK p \in Blocks : p = live[j].block
    BY <2>1 DEF Loans
  <2>3. \A n \in Orders : Covers(p, n, p)
    BY PoolIs, SizeIs DEF Covers
  <2>4. InHeld(live, j, p) /\ InHeld(live, k, p)
    BY <1>2, <2>1, <2>2, <2>3 DEF InHeld, Loans
  <2> QED
    BY <1>1, <2>1, <2>4 DEF Parted
<1>3. ASSUME NEW x \in Held \union Free, NEW y \in Held \union Free, x # y,
             NEW p, p \in Pages(x[1], x[2]), p \in Pages(y[1], y[2])
      PROVE  FALSE
  <2>1. /\ p \in Blocks
        /\ LoanOf(x, p) \/ FreeOf(x, V, p) \/ FreeOf(x, U, p)
        /\ LoanOf(y, p) \/ FreeOf(y, V, p) \/ FreeOf(y, U, p)
    BY <1>3, OwnerOf
  <2>2. /\ \A i, j \in 1..Len(live) : InHeld(live, i, p) /\ InHeld(live, j, p) => i = j
        /\ \A n, m \in Orders : InFree(V, n, p) /\ InFree(V, m, p) => n = m
        /\ \A n, m \in Orders : InFree(U, n, p) /\ InFree(U, m, p) => n = m
        /\ \A i \in 1..Len(live), n \in Orders :
             InHeld(live, i, p) => ~InFree(V, n, p) /\ ~InFree(U, n, p)
        /\ \A n, m \in Orders : ~(InFree(V, n, p) /\ InFree(U, m, p))
    BY <1>1, <2>1 DEF Parted
  <2>3. ~(LoanOf(x, p) /\ LoanOf(y, p))
    BY <1>3, <2>2 DEF LoanOf
  <2>4. ~(FreeOf(x, V, p) /\ FreeOf(y, V, p)) /\ ~(FreeOf(x, U, p) /\ FreeOf(y, U, p))
    BY <1>3, <2>2 DEF FreeOf
  <2>5. /\ LoanOf(x, p) => ~FreeOf(y, V, p) /\ ~FreeOf(y, U, p)
        /\ LoanOf(y, p) => ~FreeOf(x, V, p) /\ ~FreeOf(x, U, p)
    BY <2>2 DEF LoanOf, FreeOf
  <2>6. ~(FreeOf(x, V, p) /\ FreeOf(y, U, p)) /\ ~(FreeOf(x, U, p) /\ FreeOf(y, V, p))
    BY <2>2 DEF FreeOf
  <2> QED
    BY <2>1, <2>3, <2>4, <2>5, <2>6
<1>4. \A x, y \in Held \union Free : x # y => Pages(x[1], x[2]) \intersect Pages(y[1], y[2]) = {}
  BY <1>3
<1> QED
  BY <1>2, <1>4 DEF NoOverlap

LEMMA NoLeakHolds ==
  ASSUME NEW V, NEW U, Owners(V, U)
  PROVE  NoLeak
<1>1. /\ live \in Seq(Loans) /\ V \in Layouts /\ U \in Layouts /\ Parted(V, U, live)
      /\ \A x : x \in Free <=> IsFree(x, V) \/ IsFree(x, U)
  BY DEF Owners
<1>2. ASSUME NEW p \in Blocks PROVE \E x \in Held \union Free : p \in Pages(x[1], x[2])
  <2>1. \/ \E i \in 1..Len(live) : InHeld(live, i, p)
        \/ \E n \in Orders : InFree(V, n, p)
        \/ \E n \in Orders : InFree(U, n, p)
    BY <1>1 DEF Parted
  <2>2. ASSUME NEW i \in 1..Len(live), InHeld(live, i, p)
        PROVE  \E x \in Held \union Free : p \in Pages(x[1], x[2])
    <3>1. PICK x : x = <<live[i].block, live[i].order>>
      OBVIOUS
    <3>2. x \in Held
      BY <1>1, <3>1, HeldIs DEF IsLoan
    <3>3. p \in Pages(x[1], x[2])
      BY <1>1, <2>2, <3>1, LoanPages
    <3> QED
      BY <3>2, <3>3
  <2>3. ASSUME NEW L \in {V, U}, NEW n \in Orders, InFree(L, n, p)
        PROVE  \E x \in Held \union Free : p \in Pages(x[1], x[2])
    <3>1. PICK x : x = <<L[n], n>>
      OBVIOUS
    <3>2. L[n] # NULL_BLOCK
      BY <2>3 DEF InFree
    <3>3. IsFree(x, L)
      BY <3>1, <3>2 DEF IsFree
    <3>4. x \in Free
      BY <1>1, <2>3, <3>3
    <3>5. p \in Pages(x[1], x[2])
      BY <1>1, <2>3, <3>1, <3>2, FreePages
    <3> QED
      BY <3>4, <3>5
  <2> QED
    BY <2>1, <2>2, <2>3
<1>3. \A x : Pages(x[1], x[2]) \subseteq Blocks
  BY DEF Pages
<1> QED
  BY <1>2, <1>3 DEF NoLeak

LEMMA FullyCoalescedHolds == LifoInv => FullyCoalesced
<1> SUFFICES ASSUME LifoInv, live = << >>
             PROVE  \E l \in Orders : Free = {<<0, l>>} /\ Size[l] >= NumBlocks
  BY DEF FullyCoalesced
<1>1. PICK was : History(was, live) /\ free_lists = was[Len(live)]
  BY DEF LifoInv, Reached
<1>2. Whole(free_lists)
  BY <1>1 DEF History
<1>3. PICK t \in Orders : NumBlocks <= Size[t] /\ free_lists = Alone(t)
  BY <1>2 DEF Whole
<1>4. \A n \in Orders : free_lists[n] = IF n = t THEN 0 ELSE NULL_BLOCK
  BY <1>3 DEF Alone
<1>5. \A x : x \in Free <=> x = <<0, t>>
  <2>1. \A x : IsFree(x, free_lists) <=> x = <<0, t>>
    BY <1>4, PoolIs DEF IsFree
  <2>2. \A x : ~IsFree(x, Nothing)
    BY DEF IsFree, Nothing
  <2>3. \A x : x \in Free <=> IsFree(x, Nothing) \/ IsFree(x, free_lists)
    BY LifoOwners DEF Owners
  <2> QED
    BY <2>1, <2>2, <2>3
<1>6. Free = {<<0, t>>}
  BY <1>5
<1>7. Size[t] >= NumBlocks
  BY <1>3, SizeIs, PoolIs
<1> QED
  BY <1>6, <1>7

LEMMA LegalFreeHolds ==
  ASSUME OrderlyInv, discipline \in {"lifo", "batch"}
  PROVE  LegalFreePasses
<1>1. ASSUME LifoInv PROVE LegalFreePasses
  <2>1. live \in Seq(Loans) /\ Recorded(free_lists, blocks, live)
    BY <1>1 DEF LifoInv
  <2> QED
    BY <2>1, HeldIs DEF Recorded, LegalFreePasses
<1>2. ASSUME BatchInv, freeing PROVE LegalFreePasses
  BY <1>2, HeldIs DEF BatchInv, Batch, LegalFreePasses
<1> QED
  BY <1>1, <1>2 DEF OrderlyInv, BatchInv

Orderly == discipline \in {"lifo", "batch"}

\* kalloc hands out no page twice, and none that a free list still holds
\* (kernel/alloc.cc), for every power of two and any requests, while blocks
\* are freed in the reverse order of their allocation, or in rows of blocks of
\* one size that are freed in the order of their allocation.
THEOREM OrderlyNoOverlap == Spec => [](Orderly => NoOverlap)
<1>1. OrderlyInv => (Orderly => NoOverlap)
  BY OrderlyOwners, NoOverlapHolds DEF Orderly
<1> QED
  BY <1>1, Invariant, PTL

\* In these orders kfree's merging loop loses no page: each is in a list or
\* with a client.
THEOREM OrderlyNoLeak == Spec => [](Orderly => NoLeak)
<1>1. OrderlyInv => (Orderly => NoLeak)
  BY OrderlyOwners, NoLeakHolds DEF Orderly
<1> QED
  BY <1>1, Invariant, PTL

\* In these orders kfree's assertion that the block is not free already fails
\* for no block that a client holds.
THEOREM OrderlyLegalFreePasses == Spec => [](Orderly => LegalFreePasses)
<1>1. OrderlyInv => (Orderly => LegalFreePasses)
  BY LegalFreeHolds DEF Orderly
<1> QED
  BY <1>1, Invariant, PTL

\* In these orders the last free leaves the pool as one block: the merges go
\* all the way up, and a largest block can be had again.
THEOREM OrderlyFullyCoalesced == Spec => [](Orderly => FullyCoalesced)
<1>1. OrderlyInv => (Orderly => FullyCoalesced)
  <2>1. BatchInv => LifoInv \/ live # << >>
    BY DEF BatchInv
  <2>2. live # << >> => FullyCoalesced
    BY DEF FullyCoalesced
  <2> QED
    BY <2>1, <2>2, FullyCoalescedHolds DEF OrderlyInv, Orderly
<1> QED
  BY <1>1, Invariant, PTL

=============================================================================
