--------------------------- MODULE ConsoleProofs ---------------------------
(***************************************************************************)
(* The console, for any number of readers, any INPUT_BUF, any width of the *)
(* indices and any screen.                                                 *)
(***************************************************************************)
EXTENDS MCConsole, Integers, Sequences, TLAPS

----------------------------------------------------------------------------
(* Remainders                                                              *)

LEMMA DivMod ==
  ASSUME NEW x \in Nat, NEW S \in Nat \ {0}
  PROVE  /\ x \div S \in Nat /\ x % S \in 0 .. S - 1
         /\ x = S * (x \div S) + (x % S)
  BY SMT

\* Between -S and S there is one multiple of S.
LEMMA OneMultiple ==
  ASSUME NEW S \in Nat \ {0}, NEW d \in Int, S * d < S, -S < S * d
  PROVE  d = 0
<1>1. d >= 1 => S * d >= S
  OBVIOUS
<1>2. d <= -1 => S * d <= -S
  OBVIOUS
<1> QED
  BY <1>1, <1>2

LEMMA Remainder ==
  ASSUME NEW S \in Nat \ {0}, NEW x \in Nat, NEW q \in Nat, NEW m \in 0 .. S - 1,
         x = S * q + m
  PROVE  x % S = m
<1>1. x = S * (x \div S) + (x % S) /\ x \div S \in Nat /\ x % S \in 0 .. S - 1
  BY DivMod, Zenon
<1>2. S * (q - (x \div S)) = (x % S) - m
  BY <1>1
<1>3. q - (x \div S) = 0
  BY <1>1, <1>2, OneMultiple
<1> QED
  BY <1>2, <1>3

\* Less than one turn, and less than two.
LEMMA Turns ==
  ASSUME NEW S \in Nat \ {0}, NEW x \in Nat
  PROVE  /\ x < S => x % S = x
         /\ S <= x /\ x < 2 * S => x % S = x - S
<1>1. ASSUME x < S PROVE x % S = x
  BY <1>1, Remainder, x = S * 0 + x
<1>2. ASSUME S <= x, x < 2 * S PROVE x % S = x - S
  BY <1>2, Remainder, x = S * 1 + (x - S)
<1> QED
  BY <1>1, <1>2

\* The indices of the ring, without remainders.
LEMMA MinusIs ==
  ASSUME NEW a \in 0 .. CWRAP - 1, NEW b \in 0 .. CWRAP
  PROVE  C!Minus(a, b) = IF b <= a THEN a - b ELSE a - b + CWRAP
<1> DEFINE x == a + CWRAP - b
<1>1. CWRAP \in Nat \ {0} /\ x \in Nat
  BY ConsoleConstants DEF C!ConsoleConstants
<1>2. /\ x < CWRAP => x % CWRAP = x
      /\ CWRAP <= x /\ x < 2 * CWRAP => x % CWRAP = x - CWRAP
  <2> HIDE DEF x
  <2> QED
    BY <1>1, Turns, Zenon
<1> QED
  BY <1>1, <1>2 DEF C!Minus

LEMMA PlusIs ==
  ASSUME NEW a \in 0 .. CWRAP - 1, NEW b \in 0 .. CWRAP
  PROVE  C!Plus(a, b) = IF a + b < CWRAP THEN a + b ELSE a + b - CWRAP
<1> DEFINE x == a + b
<1>1. CWRAP \in Nat \ {0} /\ x \in Nat
  BY ConsoleConstants DEF C!ConsoleConstants
<1>2. /\ x < CWRAP => x % CWRAP = x
      /\ CWRAP <= x /\ x < 2 * CWRAP => x % CWRAP = x - CWRAP
  <2> HIDE DEF x
  <2> QED
    BY <1>1, Turns, Zenon
<1> QED
  BY <1>1, <1>2 DEF C!Plus

LEMMA Below == CWRAP \in Nat \ {0, 1} /\ 0 .. CWRAP - 1 \subseteq 0 .. CWRAP
  BY ConsoleConstants DEF C!ConsoleConstants

\* Indices are added and subtracted as if they did not wrap around.
LEMMA PlusMinus ==
  ASSUME NEW a \in 0 .. CWRAP - 1, NEW b \in 0 .. CWRAP - 1
  PROVE  C!Minus(b, a) \in 0 .. CWRAP - 1 /\ C!Plus(a, C!Minus(b, a)) = b
<1>1. C!Minus(b, a) = IF a <= b THEN b - a ELSE b - a + CWRAP
  BY Below, MinusIs
<1>2. C!Minus(b, a) \in 0 .. CWRAP - 1 /\ CWRAP \in Nat
  BY <1>1, ConsoleConstants DEF C!ConsoleConstants
<1>3. C!Plus(a, C!Minus(b, a)) =
        IF a + C!Minus(b, a) < CWRAP THEN a + C!Minus(b, a) ELSE a + C!Minus(b, a) - CWRAP
  BY <1>2, PlusIs
<1> QED
  BY <1>1, <1>2, <1>3

LEMMA Forward ==
  ASSUME NEW a \in 0 .. CWRAP - 1, NEW k \in 0 .. CWRAP - 1
  PROVE  C!Plus(a, k) \in 0 .. CWRAP - 1 /\ C!Minus(C!Plus(a, k), a) = k
<1>1. C!Plus(a, k) = IF a + k < CWRAP THEN a + k ELSE a + k - CWRAP
  BY Below, PlusIs
<1>2. C!Plus(a, k) \in 0 .. CWRAP - 1 /\ CWRAP \in Nat
  BY <1>1, ConsoleConstants DEF C!ConsoleConstants
<1>3. C!Minus(C!Plus(a, k), a) =
        IF a <= C!Plus(a, k) THEN C!Plus(a, k) - a ELSE C!Plus(a, k) - a + CWRAP
  BY <1>2, MinusIs
<1> QED
  BY <1>1, <1>2, <1>3

\* The distance to b of what lies k behind a.
LEMMA Nearer ==
  ASSUME NEW a \in 0 .. CWRAP - 1, NEW b \in 0 .. CWRAP - 1, NEW k \in 0 .. C!Minus(b, a)
  PROVE  C!Minus(b, C!Plus(a, k)) = C!Minus(b, a) - k
<1>1. C!Minus(b, a) = IF a <= b THEN b - a ELSE b - a + CWRAP
  BY Below, MinusIs
<1>2. C!Minus(b, a) \in 0 .. CWRAP - 1 /\ CWRAP \in Nat /\ k \in 0 .. CWRAP - 1
  BY <1>1, ConsoleConstants DEF C!ConsoleConstants
<1>3. C!Plus(a, k) = IF a + k < CWRAP THEN a + k ELSE a + k - CWRAP
  BY <1>2, PlusIs
<1>4. C!Plus(a, k) \in 0 .. CWRAP - 1
  BY <1>2, <1>3
<1>5. C!Minus(b, C!Plus(a, k)) =
        IF C!Plus(a, k) <= b THEN b - C!Plus(a, k) ELSE b - C!Plus(a, k) + CWRAP
  BY <1>4, Below, MinusIs
<1> QED
  BY <1>1, <1>2, <1>3, <1>5

\* And of what lies k before b.
LEMMA Back ==
  ASSUME NEW a \in 0 .. CWRAP - 1, NEW b \in 0 .. CWRAP - 1, NEW k \in 0 .. C!Minus(b, a)
  PROVE  C!Minus(b, k) \in 0 .. CWRAP - 1 /\ C!Minus(C!Minus(b, k), a) = C!Minus(b, a) - k
<1>1. C!Minus(b, a) = IF a <= b THEN b - a ELSE b - a + CWRAP
  BY Below, MinusIs
<1>2. C!Minus(b, a) \in 0 .. CWRAP - 1 /\ CWRAP \in Nat /\ k \in 0 .. CWRAP - 1
  BY <1>1, ConsoleConstants DEF C!ConsoleConstants
<1>3. C!Minus(b, k) = IF k <= b THEN b - k ELSE b - k + CWRAP
  BY <1>2, MinusIs
<1>4. C!Minus(b, k) \in 0 .. CWRAP - 1
  BY <1>2, <1>3
<1>5. C!Minus(C!Minus(b, k), a) =
        IF a <= C!Minus(b, k) THEN C!Minus(b, k) - a ELSE C!Minus(b, k) - a + CWRAP
  BY <1>4, Below, MinusIs
<1> QED
  BY <1>1, <1>2, <1>3, <1>5

\* One index further on, as long as the way around is not closed.
LEMMA Further ==
  ASSUME NEW a \in 0 .. CWRAP - 1, NEW b \in 0 .. CWRAP - 1, C!Minus(b, a) + 1 < CWRAP
  PROVE  C!Plus(b, 1) \in 0 .. CWRAP - 1 /\ C!Minus(C!Plus(b, 1), a) = C!Minus(b, a) + 1
<1>1. C!Minus(b, a) = IF a <= b THEN b - a ELSE b - a + CWRAP
  BY Below, MinusIs
<1>2. CWRAP \in Nat /\ 1 < CWRAP
  BY ConsoleConstants DEF C!ConsoleConstants
<1>3. C!Plus(b, 1) = IF b + 1 < CWRAP THEN b + 1 ELSE b + 1 - CWRAP
  BY <1>2, PlusIs
<1>4. C!Plus(b, 1) \in 0 .. CWRAP - 1
  BY <1>2, <1>3
<1>5. C!Minus(C!Plus(b, 1), a) =
        IF a <= C!Plus(b, 1) THEN C!Plus(b, 1) - a ELSE C!Plus(b, 1) - a + CWRAP
  BY <1>4, Below, MinusIs
<1> QED
  BY <1>1, <1>2, <1>3, <1>5

\* Two steps are one.
LEMMA PlusPlus ==
  ASSUME NEW a \in 0 .. CWRAP - 1, NEW j \in Nat, NEW k \in Nat, j + k < CWRAP
  PROVE  C!Plus(C!Plus(a, j), k) = C!Plus(a, j + k)
<1>1. CWRAP \in Nat /\ j \in 0 .. CWRAP /\ k \in 0 .. CWRAP /\ j + k \in 0 .. CWRAP
  BY ConsoleConstants DEF C!ConsoleConstants
<1>2. C!Plus(a, j) = IF a + j < CWRAP THEN a + j ELSE a + j - CWRAP
  BY <1>1, PlusIs
<1>3. C!Plus(a, j) \in 0 .. CWRAP - 1
  BY <1>1, <1>2
<1>4. C!Plus(C!Plus(a, j), k) = IF C!Plus(a, j) + k < CWRAP THEN C!Plus(a, j) + k
                                ELSE C!Plus(a, j) + k - CWRAP
  BY <1>1, <1>3, PlusIs
<1>5. C!Plus(a, j + k) = IF a + (j + k) < CWRAP THEN a + (j + k) ELSE a + (j + k) - CWRAP
  BY <1>1, PlusIs
<1> QED
  BY <1>1, <1>2, <1>4, <1>5

----------------------------------------------------------------------------
(* Places in the ring                                                      *)

\* A whole turn of the indices does not move the place, for WRAP is a multiple
\* of INPUT_BUF.
LEMMA WholeTurn ==
  ASSUME NEW S \in Nat \ {0}, NEW W \in Nat, W % S = 0, NEW x \in Nat
  PROVE  (x + W) % S = x % S
<1>1. x = S * (x \div S) + (x % S) /\ x \div S \in Nat /\ x % S \in 0 .. S - 1
  BY DivMod, Zenon
<1>2. W = S * (W \div S) /\ W \div S \in Nat
  BY DivMod
<1> DEFINE q == (x \div S) + (W \div S)
           m == x % S
<1>3. x + W = S * q + m
  BY <1>1, <1>2
<1>4. x + W \in Nat /\ q \in Nat /\ m \in 0 .. S - 1
  BY <1>1, <1>2
<1> HIDE DEF q, m
<1>5. (x + W) % S = m
  BY <1>3, <1>4, Remainder, Zenon
<1> QED
  BY <1>5 DEF m

\* Less than a turn apart, the places differ.
LEMMA PlacesDiffer ==
  ASSUME NEW S \in Nat \ {0}, NEW x \in Nat, NEW y \in Nat, x < y, y < x + S
  PROVE  x % S # y % S
<1>1. x = S * (x \div S) + (x % S) /\ x \div S \in Nat /\ x % S \in 0 .. S - 1
  BY DivMod, Zenon
<1>2. y = S * (y \div S) + (y % S) /\ y \div S \in Nat /\ y % S \in 0 .. S - 1
  BY DivMod, Zenon
<1> SUFFICES ASSUME x % S = y % S PROVE FALSE
  OBVIOUS
<1>3. S * ((y \div S) - (x \div S)) = y - x
  BY <1>1, <1>2
<1>4. (y \div S) - (x \div S) = 0
  BY <1>1, <1>2, <1>3, OneMultiple
<1> QED
  BY <1>3, <1>4

\* The place of the k-th character after index a.
Slot(a, k) == C!Plus(a, k) % INPUT_BUF

LEMMA SlotIs ==
  ASSUME NEW a \in 0 .. CWRAP - 1, NEW k \in 0 .. CWRAP - 1
  PROVE  Slot(a, k) \in 0 .. INPUT_BUF - 1 /\ Slot(a, k) = (a + k) % INPUT_BUF
<1>1. INPUT_BUF \in Nat \ {0} /\ CWRAP \in Nat /\ CWRAP % INPUT_BUF = 0
  BY ConsoleConstants DEF C!ConsoleConstants
<1>2. C!Plus(a, k) = IF a + k < CWRAP THEN a + k ELSE a + k - CWRAP
  BY Below, PlusIs
<1>3. C!Plus(a, k) \in Nat /\ a + k \in Nat
  BY <1>1, <1>2
<1>4. Slot(a, k) \in 0 .. INPUT_BUF - 1
  BY <1>1, <1>3, DivMod, Zenon DEF Slot
<1>5. CASE a + k < CWRAP
  BY <1>2, <1>4, <1>5 DEF Slot
<1>6. CASE ~ (a + k < CWRAP)
  <2> DEFINE x == a + k - CWRAP
  <2>1. x \in Nat /\ C!Plus(a, k) = x /\ a + k = x + CWRAP
    BY <1>1, <1>2, <1>6
  <2> HIDE DEF x
  <2>2. (x + CWRAP) % INPUT_BUF = x % INPUT_BUF
    BY <1>1, <2>1, WholeTurn, Zenon
  <2> QED
    BY <1>4, <2>1, <2>2, Zenon DEF Slot
<1> QED
  BY <1>5, <1>6

LEMMA SlotsDiffer ==
  ASSUME NEW a \in 0 .. CWRAP - 1, NEW j \in Nat, NEW k \in Nat, j < k, k < INPUT_BUF
  PROVE  Slot(a, j) # Slot(a, k)
<1>1. INPUT_BUF \in Nat \ {0} /\ CWRAP \in Nat /\ INPUT_BUF < CWRAP
  BY ConsoleConstants DEF C!ConsoleConstants
<1>2. j \in 0 .. CWRAP - 1 /\ k \in 0 .. CWRAP - 1
  BY <1>1
<1>3. Slot(a, j) = (a + j) % INPUT_BUF /\ Slot(a, k) = (a + k) % INPUT_BUF
  BY <1>2, SlotIs, Zenon
<1> DEFINE x == a + j
           y == a + k
<1>4. x \in Nat /\ y \in Nat /\ x < y /\ y < x + INPUT_BUF
  BY <1>1
<1> HIDE DEF x, y
<1>5. x % INPUT_BUF # y % INPUT_BUF
  BY <1>1, <1>4, PlacesDiffer, Zenon
<1> QED
  BY <1>3, <1>5, Zenon DEF x, y

----------------------------------------------------------------------------
(* The cursor                                                              *)

\* cgaputc() scrolls before the cursor leaves the screen.
LEMMA CursorPut ==
  ASSUME C!CursorOnScreen, NEW c
  PROVE  C!cgaputc(pos, c) \in 0 .. COLS * (ROWS - 1) - 1
<1> DEFINE rows == ROWS - 1
           moved == IF c = "\n" THEN pos + COLS - (pos % COLS) ELSE pos + 1
           row == moved \div COLS
           col == moved % COLS
           size == COLS * rows
<1>1. COLS \in Nat \ {0} /\ rows \in Nat \ {0} /\ size \in Nat \ {0} /\ size >= COLS
  BY ConsoleConstants DEF C!ConsoleConstants
<1>2. pos \in 0 .. size - 1 /\ pos % COLS \in 0 .. COLS - 1
  BY <1>1, DivMod DEF C!CursorOnScreen
<1>3. moved \in Nat /\ moved < size + COLS
  BY <1>1, <1>2
<1> HIDE DEF moved
<1>4. row \in Nat /\ col \in 0 .. COLS - 1 /\ moved = COLS * row + col
  BY <1>1, <1>3, DivMod, Zenon
<1> HIDE DEF row, col
<1>5. ASSUME row >= rows PROVE moved - COLS \in 0 .. size - 1
  <2>1. COLS * row >= COLS * rows
    BY <1>1, <1>4, <1>5
  <2> QED
    BY <1>1, <1>3, <1>4, <2>1
<1>6. ASSUME ~ (row >= rows) PROVE moved \in 0 .. size - 1
  <2>1. row + 1 <= rows
    BY <1>1, <1>4, <1>6
  <2>2. COLS * (row + 1) <= COLS * rows
    BY <1>1, <1>4, <2>1
  <2> QED
    BY <1>1, <1>3, <1>4, <2>2
<1>7. C!cgaputc(pos, c) = IF row >= rows THEN moved - COLS ELSE moved
  BY DEF C!cgaputc, C!Scrolled, moved, row
<1> QED
  BY <1>5, <1>6, <1>7

LEMMA CursorErased ==
  ASSUME C!CursorOnScreen, NEW k \in Nat
  PROVE  C!Erase(pos, k) \in 0 .. COLS * (ROWS - 1) - 1
<1> DEFINE size == COLS * (ROWS - 1)
<1>1. COLS \in Nat \ {0} /\ ROWS - 1 \in Nat \ {0} /\ size \in Nat \ {0}
  BY ConsoleConstants DEF C!ConsoleConstants
<1>2. pos \in 0 .. size - 1
  BY DEF C!CursorOnScreen
<1> HIDE DEF size
<1>3. C!Erase(pos, k) \in 0 .. size - 1
  BY <1>1, <1>2 DEF C!Erase
<1> QED
  BY <1>3 DEF size

----------------------------------------------------------------------------
(* The inductive invariant                                                 *)

Places == {"user", "reading", "to_sleep", "asleep"}

CTypeOK ==
  /\ ring \in [0 .. INPUT_BUF - 1 -> C!Plain]
  /\ r \in 0 .. CWRAP - 1 /\ w \in 0 .. CWRAP - 1 /\ e \in 0 .. CWRAP - 1
  /\ cpc \in [CReaders -> Places]
  /\ cn \in [CReaders -> Nat] /\ got \in [CReaders -> Nat]

\* A call has taken at most what it asked for, there is no call in user mode, and
\* who has found the ring empty finds it empty until somebody types.
CallOf(p) ==
  /\ got[p] <= cn[p]
  /\ cpc[p] = "user" => got[p] = 0
  /\ cpc[p] \in {"to_sleep", "asleep"} => r = w

Calls == \A p \in CReaders : CallOf(p)

CInv == CTypeOK /\ C!RingInOrder /\ C!CursorOnScreen /\ Calls

LEMMA InitCInv == C!Init => CInv
<1> SUFFICES ASSUME C!Init PROVE CInv
  OBVIOUS
<1> USE DEF C!Init
<1>1. CWRAP \in Nat \ {0, 1} /\ 0 \in 0 .. CWRAP - 1
  BY Below
<1>2. CTypeOK
  BY <1>1 DEF CTypeOK, Places, C!Plain
<1>3. C!Minus(0, 0) = 0
  BY <1>1, MinusIs
<1>4. C!RingInOrder
  BY <1>3, ConsoleConstants DEF C!RingInOrder, C!ConsoleConstants
<1>5. COLS * (ROWS - 1) \in Nat \ {0}
  BY ConsoleConstants DEF C!ConsoleConstants
<1>6. C!CursorOnScreen
  BY <1>5 DEF C!CursorOnScreen
<1>7. Calls
  BY DEF Calls, CallOf
<1> QED
  BY <1>2, <1>4, <1>6, <1>7 DEF CInv

\* The ring as the actions see it: r, w and e in this order, at most INPUT_BUF
\* apart.
LEMMA RingFacts ==
  ASSUME CInv
  PROVE  /\ INPUT_BUF \in Nat \ {0} /\ INPUT_BUF < CWRAP /\ CWRAP \in Nat
         /\ C!Minus(w, r) \in 0 .. INPUT_BUF /\ C!Minus(e, r) \in 0 .. INPUT_BUF
         /\ C!Minus(w, r) <= C!Minus(e, r)
         /\ r = w <=> C!Minus(w, r) = 0
<1>1. INPUT_BUF \in Nat \ {0} /\ INPUT_BUF < CWRAP /\ CWRAP \in Nat
  BY ConsoleConstants DEF C!ConsoleConstants
<1>2. C!Minus(w, r) = IF r <= w THEN w - r ELSE w - r + CWRAP
  BY Below, MinusIs DEF CInv, CTypeOK
<1>3. C!Minus(e, r) = IF r <= e THEN e - r ELSE e - r + CWRAP
  BY Below, MinusIs DEF CInv, CTypeOK
<1> QED
  BY <1>1, <1>2, <1>3 DEF CInv, CTypeOK, C!RingInOrder

----------------------------------------------------------------------------
(* The first and the last of some positions                                *)

W == INSTANCE WellFoundedInduction

LEMMA Least ==
  ASSUME NEW S \in SUBSET Nat, S # {}
  PROVE  \E x \in S : \A y \in S : x <= y
<1> DEFINE R == W!OpToRel(<, Nat)
<1>1. PICK x \in S : \A y \in S : ~ (<<y, x>> \in R)
  BY W!NatLessThanWellFounded, W!WFMin, Zenon
<1>2. \A a, b \in Nat : a < b => <<a, b>> \in R
  BY DEF W!OpToRel
<1> HIDE DEF R
<1>3. ASSUME NEW y \in S PROVE ~ (y < x)
  BY <1>1, <1>2, Zenon
<1>4. \A y \in S : x <= y
  BY <1>3
<1> QED
  BY <1>4

LEMMA FirstIs ==
  ASSUME NEW S \in SUBSET Nat, S # {}
  PROVE  C!Min(S) \in S /\ \A k \in S : C!Min(S) <= k
<1>1. \E x \in S : \A y \in S : x <= y
  BY Least
<1> QED
  BY <1>1, Zenon DEF C!Min

LEMMA LastIs ==
  ASSUME NEW N \in Nat, NEW S \in SUBSET (0 .. N), S # {}
  PROVE  C!Max(S) \in S /\ \A k \in S : C!Max(S) >= k
<1> DEFINE T == {N - k : k \in S}
<1>0. \A k \in S : k \in Int /\ N - k \in Nat /\ N - k \in T
  OBVIOUS
<1>1. T \in SUBSET Nat /\ T # {}
  BY <1>0, Zenon
<1>2. PICK t \in T : \A y \in T : t <= y
  <2> HIDE DEF T
  <2> QED
    BY <1>1, Least, Zenon
<1>3. PICK x \in S : t = N - x
  BY <1>2, Zenon
<1> HIDE DEF T
<1>4. ASSUME NEW y \in S PROVE x >= y
  <2>1. x \in Int /\ y \in Int /\ N - x <= N - y
    BY <1>0, <1>2, <1>3, Zenon
  <2>2. \A a, b \in Int : N - a <= N - b => a >= b
    OBVIOUS
  <2> QED
    BY <2>1, <2>2, Zenon
<1>5. \E z \in S : \A y \in S : z >= y
  BY <1>4, Zenon
<1> QED
  BY <1>5, Zenon DEF C!Max

----------------------------------------------------------------------------
(* What consoleread() takes                                                *)

Ended(p) == /\ cpc' = [cpc EXCEPT ![p] = "user"]
            /\ cn' = [cn EXCEPT ![p] = 0] /\ got' = [got EXCEPT ![p] = 0]

Waits(p, j) == /\ cpc' = [cpc EXCEPT ![p] = "to_sleep"]
               /\ got' = [got EXCEPT ![p] = got[p] + j] /\ UNCHANGED cn
               /\ j = C!Minus(w, r) /\ got[p] + j <= cn[p]

LEMMA InputIs ==
  ASSUME CInv
  PROVE  /\ C!Input = [k \in 1 .. C!Minus(w, r) |-> ring[Slot(r, k - 1)]]
         /\ Len(C!Input) = C!Minus(w, r)
         /\ \A k \in 1 .. C!Minus(w, r) : C!Input[k] = ring[Slot(r, k - 1)]
<1>1. C!Minus(w, r) \in Nat
  BY RingFacts
<1> HIDE DEF C!Minus
<1>2. C!Input = [k \in 1 .. C!Minus(w, r) |-> ring[Slot(r, k - 1)]]
  BY Zenon DEF C!Input, C!Chars, Slot
<1> QED
  BY <1>1, <1>2

\* A read takes j of the characters handed over.  It returns, or has taken them
\* all and waits for more; a ^D it takes is the only one, and the call returns.
LEMMA ReadTakes ==
  ASSUME CInv, NEW p \in CReaders, C!Read(p)
  PROVE  \E j \in 0 .. C!Minus(w, r) :
           /\ r' = C!Plus(r, j)
           /\ Ended(p) \/ Waits(p, j)
           /\ \A k \in 1 .. j : C!Input[k] = "^D" =>
                j = 1 /\ got[p] = 0 /\ Ended(p)
<1> DEFINE N == C!Minus(w, r)
           K == {k \in DOMAIN C!Input : C!Input[k] \in {"\n", "^D"}}
           stop == C!Min({Len(C!Input) + 1} \union K)
           left == cn[p] - got[p]
           ends == stop <= Len(C!Input) /\ stop <= left
           eof  == ends /\ C!Input[stop] = "^D"
           copy == IF eof THEN stop - 1 ELSE IF ends THEN stop
                   ELSE IF left < Len(C!Input) THEN left ELSE Len(C!Input)
           skip == IF eof /\ C!TakesEOF(got[p] + copy) THEN 1 ELSE 0
           j == copy + skip
<1>1. N \in Nat /\ Len(C!Input) = N /\ DOMAIN C!Input = 1 .. N
  BY InputIs, RingFacts
<1>2. left \in Nat /\ got[p] \in Nat /\ cn[p] \in Nat
  BY DEF CInv, CTypeOK, Calls, CallOf
<1>3. /\ r' = C!Plus(r, j)
      /\ IF ends \/ copy = left \/ ckilled[p] THEN Ended(p)
         ELSE /\ cpc' = [cpc EXCEPT ![p] = "to_sleep"]
              /\ got' = [got EXCEPT ![p] = @ + copy]
              /\ UNCHANGED cn
  BY Zenon DEF C!Read, Ended
<1> DEFINE S == {Len(C!Input) + 1} \union K
<1>4. S \in SUBSET Nat /\ S # {}
  BY <1>1
<1>5. stop \in S /\ \A k \in S : stop <= k
  <2> HIDE DEF S
  <2>1. C!Min(S) \in S /\ \A k \in S : C!Min(S) <= k
    BY <1>4, FirstIs, Zenon
  <2> QED
    BY <2>1 DEF S
<1> HIDE DEF stop
<1>6. stop \in 1 .. N + 1 /\ \A k \in 1 .. N : k < stop => C!Input[k] # "^D"
  BY <1>1, <1>5
<1>7. stop <= N => C!Input[stop] \in {"\n", "^D"}
  BY <1>1, <1>5
<1> HIDE DEF K, S, N
<1>8. CASE eof
  <2>1. j \in 0 .. N /\ copy = stop - 1 /\ skip \in {0, 1} /\ Ended(p)
    BY <1>1, <1>3, <1>6, <1>8
  <2>2. skip = 1 => got[p] + copy = 0
    BY <1>8 DEF C!TakesEOF
  <2>3. ASSUME NEW k \in 1 .. j, C!Input[k] = "^D" PROVE j = 1 /\ got[p] = 0
    <3>1. ~ (k < stop) /\ k <= copy + skip
      BY <1>1, <1>6, <2>1, <2>3
    <3>2. skip = 1
      BY <1>6, <2>1, <3>1
    <3>3. copy \in Nat
      BY <1>6, <2>1
    <3> HIDE DEF copy, skip
    <3> QED
      BY <1>2, <2>2, <3>2, <3>3
  <2> HIDE DEF j
  <2> QED
    BY <1>3, <2>1, <2>3 DEF N
<1>9. CASE ~eof
  <2>1. skip = 0
    BY <1>9
  <2>2. CASE ends
    <3>1. j = stop /\ j \in 0 .. N /\ Ended(p)
      BY <1>1, <1>3, <1>6, <1>9, <2>1, <2>2
    <3>2. C!Input[stop] # "^D"
      BY <1>9, <2>2
    <3>3. ASSUME NEW k \in 1 .. j PROVE C!Input[k] # "^D"
      BY <1>1, <1>6, <3>1, <3>2
    <3> HIDE DEF j
    <3> QED
      BY <1>3, <3>1, <3>3 DEF N
  <2>3. CASE ~ends
    <3>1. j = copy /\ copy = IF left < N THEN left ELSE N
      BY <1>1, <1>2, <1>9, <2>1, <2>3
    <3>2. j \in 0 .. N /\ j < stop
      BY <1>1, <1>2, <1>6, <2>3, <3>1
    <3>3. ASSUME NEW k \in 1 .. j PROVE C!Input[k] # "^D"
      BY <1>1, <1>6, <3>2
    <3>4. CASE copy = left \/ ckilled[p]
      <4>1. Ended(p)
        BY <1>3, <3>4
      <4> HIDE DEF j
      <4> QED
        BY <1>3, <3>2, <3>3, <4>1 DEF N
    <3>5. CASE ~ (copy = left \/ ckilled[p])
      <4>1. copy = N /\ got[p] + copy <= cn[p]
        <5>1. left = cn[p] - got[p] /\ cn[p] \in Nat /\ got[p] \in Nat /\ N \in Nat
          BY <1>1, <1>2, ZenonT(30)
        <5> HIDE DEF left, copy
        <5> QED
          BY <3>1, <3>5, <5>1
      <4>2. Waits(p, j)
        BY <1>3, <2>3, <3>1, <3>5, <4>1 DEF Waits, N
      <4> HIDE DEF j
      <4> QED
        BY <1>3, <3>2, <3>3, <4>2 DEF N
    <3> QED
      BY <3>4, <3>5
  <2> QED
    BY <2>2, <2>3
<1> QED
  BY <1>8, <1>9

----------------------------------------------------------------------------
(* Every action keeps the invariant                                        *)

LEMMA TypeKeeps ==
  ASSUME CInv, NEW c, C!Type(c)
  PROVE  CInv'
<1>1. c \in C!Plain /\ C!Minus(e, r) < INPUT_BUF /\ e' = C!Plus(e, 1) /\ r' = r
  BY DEF C!Type, C!Room
<1>2. r \in 0 .. CWRAP - 1 /\ w \in 0 .. CWRAP - 1 /\ e \in 0 .. CWRAP - 1
  BY DEF CInv, CTypeOK
<1>3. e' \in 0 .. CWRAP - 1 /\ C!Minus(e', r) = C!Minus(e, r) + 1
  BY <1>1, <1>2, Further, RingFacts
<1>4. \/ w' = w /\ cpc' = cpc /\ e' # C!Plus(r, INPUT_BUF)
      \/ w' = e' /\ cpc' = C!WakeReaders
  BY DEF C!Type, C!EndsLine
<1>5. e % INPUT_BUF \in 0 .. INPUT_BUF - 1
  <2>1. e \in Nat /\ INPUT_BUF \in Nat \ {0}
    BY <1>2, RingFacts
  <2> QED
    BY <2>1, DivMod, Zenon
<1>6. CTypeOK'
  <2>1. ring' \in [0 .. INPUT_BUF - 1 -> C!Plain]
    BY <1>1, <1>5 DEF C!Type, CInv, CTypeOK
  <2>2. cpc' \in [CReaders -> Places]
    BY <1>4 DEF C!WakeReaders, CInv, CTypeOK, Places
  <2>3. cn' = cn /\ got' = got
    BY DEF C!Type
  <2> QED
    BY <1>1, <1>2, <1>3, <1>4, <2>1, <2>2, <2>3 DEF CInv, CTypeOK
<1>7. C!RingInOrder'
  <2>1. C!Minus(e', r) = INPUT_BUF => e' = C!Plus(r, INPUT_BUF)
    BY <1>2, <1>3, PlusMinus
  <2>2. C!Minus(w', r) <= C!Minus(e', r) /\ C!Minus(e', r) <= INPUT_BUF
    BY <1>1, <1>3, <1>4, RingFacts
  <2>3. C!Minus(e', r) = INPUT_BUF => w' = e'
    BY <1>4, <2>1
  <2>4. C!Minus(w, r)' = C!Minus(w', r) /\ C!Minus(e, r)' = C!Minus(e', r)
    BY <1>1 DEF C!Minus
  <2> QED
    BY <2>2, <2>3, <2>4 DEF C!RingInOrder
<1>8. C!CursorOnScreen'
  BY CursorPut DEF C!CursorOnScreen, C!Type, CInv
<1>9. Calls'
  <2> SUFFICES ASSUME NEW p \in CReaders PROVE CallOf(p)'
    BY DEF Calls
  <2>1. CallOf(p) /\ cpc[p] # "to_sleep" /\ cn' = cn /\ got' = got
    BY DEF CInv, Calls, C!Type, C!LockFree
  <2>2. CASE cpc' = cpc /\ w' = w
    BY <1>1, <2>1, <2>2 DEF CallOf
  <2>3. CASE cpc' = C!WakeReaders
    <3>1. cpc'[p] = IF cpc[p] = "asleep" THEN "reading" ELSE cpc[p]
      BY <2>3 DEF C!WakeReaders
    <3> QED
      BY <2>1, <3>1 DEF CallOf
  <2> QED
    BY <1>4, <2>2, <2>3
<1> QED
  BY <1>6, <1>7, <1>8, <1>9 DEF CInv

\* Backspace and kill line stay behind w.
LEMMA EditKeeps ==
  ASSUME CInv, NEW c, C!Edit(c)
  PROVE  CInv'
<1> DEFINE line == C!Chars(ring, w, e)
           K == {0} \union {k \in DOMAIN line : line[k] = "\n"}
           keep == C!Max(K)
           back == IF c = "^H" THEN 1 ELSE Len(line) - keep
           N == C!Minus(e, w)
<1>1. r \in 0 .. CWRAP - 1 /\ w \in 0 .. CWRAP - 1 /\ e \in 0 .. CWRAP - 1 /\ e # w
  BY DEF CInv, CTypeOK, C!Edit
<1>2. N = C!Minus(e, r) - C!Minus(w, r)
  <2>1. C!Plus(r, C!Minus(w, r)) = w
    BY <1>1, PlusMinus, Zenon
  <2>2. C!Minus(w, r) \in 0 .. C!Minus(e, r)
    BY RingFacts
  <2>3. C!Minus(e, C!Plus(r, C!Minus(w, r))) = C!Minus(e, r) - C!Minus(w, r)
    BY <1>1, <2>2, Nearer, Zenon
  <2> QED
    BY <2>1, <2>3, Zenon
<1>3. N \in Nat \ {0}
  <2>1. N = IF w <= e THEN e - w ELSE e - w + CWRAP
    BY <1>1, Below, MinusIs
  <2> QED
    BY <1>1, <2>1, Below
<1>4. e' = C!Minus(e, back) /\ pos' = C!Erase(pos, back)
  BY Zenon DEF C!Edit
<1>5. Len(line) = N /\ DOMAIN line = 1 .. N
  <2> HIDE DEF N
  <2>1. line = [k \in 1 .. N |-> ring[C!Plus(w, k - 1) % INPUT_BUF]]
    BY Zenon DEF C!Chars, N
  <2> QED
    BY <1>3, <2>1
<1> HIDE DEF line, N
<1>6. K \in SUBSET (0 .. N) /\ K # {}
  BY <1>3, <1>5
<1>7. keep \in K
  <2> HIDE DEF K
  <2> QED
    BY <1>3, <1>6, LastIs
<1> HIDE DEF keep
<1>8. keep \in 0 .. N
  BY <1>6, <1>7
<1>9. back \in 0 .. N
  BY <1>3, <1>5, <1>8
<1> HIDE DEF back
<1>10. e' \in 0 .. CWRAP - 1 /\ C!Minus(e', r) = C!Minus(e, r) - back
  <2>1. back \in 0 .. C!Minus(e, r)
    BY <1>2, <1>9, RingFacts
  <2> QED
    BY <1>1, <1>4, <2>1, Back
<1>11. r' = r /\ w' = w /\ ring' = ring /\ cpc' = cpc /\ cn' = cn /\ got' = got
  BY DEF C!Edit
<1>12. CTypeOK'
  BY <1>10, <1>11 DEF CInv, CTypeOK
<1>13. C!RingInOrder'
  <2>1. C!Minus(w, r)' = C!Minus(w, r) /\ C!Minus(e, r)' = C!Minus(e', r)
    BY <1>11 DEF C!Minus
  <2>2. C!Minus(e, r) < INPUT_BUF
    BY <1>1, RingFacts DEF CInv, C!RingInOrder
  <2> QED
    BY <1>2, <1>3, <1>9, <1>10, <2>1, <2>2, RingFacts DEF C!RingInOrder
<1>14. C!CursorOnScreen'
  <2>1. back \in Nat
    BY <1>3, <1>9
  <2> QED
    BY <1>4, <2>1, CursorErased DEF C!CursorOnScreen, CInv
<1>15. Calls'
  BY <1>11 DEF CInv, Calls, CallOf
<1> QED
  BY <1>12, <1>13, <1>14, <1>15 DEF CInv

LEMMA ReadKeeps ==
  ASSUME CInv, NEW p \in CReaders, C!Read(p)
  PROVE  CInv'
<1>1. PICK j \in 0 .. C!Minus(w, r) : r' = C!Plus(r, j) /\ (Ended(p) \/ Waits(p, j))
  BY ReadTakes, Zenon
<1>2. r \in 0 .. CWRAP - 1 /\ w \in 0 .. CWRAP - 1 /\ e \in 0 .. CWRAP - 1
  BY DEF CInv, CTypeOK
<1>3. ring' = ring /\ w' = w /\ e' = e /\ pos' = pos
  BY Zenon DEF C!Read
<1>4. j \in 0 .. CWRAP - 1 /\ j \in 0 .. C!Minus(e, r) /\ j \in Nat
  BY RingFacts
<1>5. r' \in 0 .. CWRAP - 1
  BY <1>1, <1>2, <1>4, Forward
<1>6. C!Minus(w, r)' = C!Minus(w, r) - j /\ C!Minus(e, r)' = C!Minus(e, r) - j
  <2>1. C!Minus(w, r') = C!Minus(w, r) - j /\ C!Minus(e, r') = C!Minus(e, r) - j
    BY <1>1, <1>2, <1>4, Nearer
  <2>2. C!Minus(w, r)' = C!Minus(w, r') /\ C!Minus(e, r)' = C!Minus(e, r')
    BY <1>3 DEF C!Minus
  <2> QED
    BY <2>1, <2>2
<1>7. C!RingInOrder'
  <2>1. C!Minus(w, r)' <= C!Minus(e, r)' /\ C!Minus(e, r)' <= INPUT_BUF
    BY <1>4, <1>6, RingFacts
  <2>2. C!Minus(e, r)' = INPUT_BUF => C!Minus(e, r) = INPUT_BUF
    BY <1>4, <1>6, RingFacts
  <2> QED
    BY <1>3, <2>1, <2>2 DEF C!RingInOrder, CInv
<1>8. C!CursorOnScreen'
  BY <1>3 DEF C!CursorOnScreen, CInv
<1>9. cpc' \in [CReaders -> Places] /\ cn' \in [CReaders -> Nat] /\ got' \in [CReaders -> Nat]
  <2>1. CASE Ended(p)
    BY <2>1 DEF Ended, CInv, CTypeOK, Places
  <2>2. CASE Waits(p, j)
    BY <1>4, <2>2 DEF Waits, CInv, CTypeOK, Places
  <2> QED
    BY <1>1, <2>1, <2>2
<1>10. CTypeOK'
  BY <1>2, <1>3, <1>5, <1>9 DEF CInv, CTypeOK
\* Who sleeps keeps finding nothing: there was nothing to take.
<1>11. r = w => r' = w'
  <2>1. ASSUME r = w PROVE j = 0
    BY <2>1, RingFacts
  <2>2. C!Plus(r, 0) = r
    BY <1>2, Below, PlusIs
  <2> QED
    BY <1>1, <1>3, <2>1, <2>2
<1>12. Calls'
  <2> SUFFICES ASSUME NEW q \in CReaders PROVE CallOf(q)'
    BY DEF Calls
  <2>1. CallOf(q) /\ CallOf(p)
    BY DEF CInv, Calls
  <2>2. CASE q # p
    <3>1. cpc'[q] = cpc[q] /\ got'[q] = got[q] /\ cn'[q] = cn[q]
      BY <1>1, <2>2 DEF Ended, Waits, CInv, CTypeOK
    <3> QED
      BY <1>11, <2>1, <3>1 DEF CallOf
  <2>3. CASE q = p /\ Ended(p)
    <3>1. cpc'[q] = "user" /\ got'[q] = 0 /\ cn'[q] = 0
      BY <2>3 DEF Ended, CInv, CTypeOK
    <3> QED
      BY <3>1 DEF CallOf
  <2>4. CASE q = p /\ Waits(p, j)
    <3>1. cpc'[q] = "to_sleep" /\ got'[q] = got[p] + j /\ cn'[q] = cn[p]
      BY <2>4 DEF Waits, CInv, CTypeOK
    <3>2. got[p] + j <= cn[p] /\ j = C!Minus(w, r)
      BY <2>4 DEF Waits
    <3>3. r' = w'
      BY <1>1, <1>2, <1>3, <3>2, PlusMinus
    <3> QED
      BY <3>1, <3>2, <3>3 DEF CallOf
  <2> QED
    BY <1>1, <2>2, <2>3, <2>4
<1> QED
  BY <1>7, <1>8, <1>10, <1>12 DEF CInv

LEMMA SameRing ==
  ASSUME CInv, UNCHANGED <<ring, r, w, e>>
  PROVE  /\ C!RingInOrder'
         /\ CTypeOK' <=> /\ cpc' \in [CReaders -> Places]
                         /\ cn' \in [CReaders -> Nat] /\ got' \in [CReaders -> Nat]
<1>1. C!Minus(w, r)' = C!Minus(w, r) /\ C!Minus(e, r)' = C!Minus(e, r)
  BY DEF C!Minus
<1> QED
  BY <1>1 DEF CInv, CTypeOK, C!RingInOrder

LEMMA WriteKeeps ==
  ASSUME CInv, NEW c, C!Write(c)
  PROVE  CInv'
<1>1. UNCHANGED <<ring, r, w, e>> /\ cpc' = cpc /\ cn' = cn /\ got' = got
  BY DEF C!Write
<1>2. C!RingInOrder' /\ CTypeOK'
  BY <1>1, SameRing DEF CInv, CTypeOK
<1>3. C!CursorOnScreen'
  BY CursorPut DEF C!CursorOnScreen, C!Write, CInv
<1>4. Calls'
  BY <1>1 DEF CInv, Calls, CallOf
<1> QED
  BY <1>2, <1>3, <1>4 DEF CInv

\* A reader moves on without touching the ring.
LEMMA ReaderKeeps ==
  ASSUME CInv, NEW p \in CReaders,
         (\E k \in CSizes : C!ReadCall(p, k)) \/ C!Sleep(p) \/ C!Kill(p)
  PROVE  CInv'
<1>1. UNCHANGED <<ring, r, w, e>> /\ pos' = pos /\ got' = got
  BY DEF C!ReadCall, C!Sleep, C!Kill, C!ring
<1>2. \A k \in CSizes : k \in Nat
  BY ConsoleConstants DEF C!ConsoleConstants
<1>3. cpc' \in [CReaders -> Places] /\ cn' \in [CReaders -> Nat] /\ got' \in [CReaders -> Nat]
  BY <1>1, <1>2, ZenonT(30) DEF C!ReadCall, C!Sleep, C!Kill, CInv, CTypeOK, Places
<1>4. CTypeOK' /\ C!RingInOrder'
  BY <1>1, <1>3, SameRing
<1>5. C!CursorOnScreen'
  BY <1>1 DEF C!CursorOnScreen, CInv
<1>6. Calls'
  <2> SUFFICES ASSUME NEW q \in CReaders PROVE CallOf(q)'
    BY DEF Calls
  <2>1. CallOf(q) /\ got[q] \in Nat /\ cpc \in [CReaders -> Places] /\ cn \in [CReaders -> Nat]
    BY DEF CInv, Calls, CTypeOK
  <2>2. CASE \E k \in CSizes : C!ReadCall(p, k)
    BY <1>1, <1>2, <2>1, <2>2 DEF C!ReadCall, CallOf
  <2>3. CASE C!Sleep(p)
    BY <1>1, <2>1, <2>3 DEF C!Sleep, CallOf
  <2>4. CASE C!Kill(p)
    BY <1>1, <2>1, <2>4 DEF C!Kill, CallOf
  <2> QED
    BY <2>2, <2>3, <2>4
<1> QED
  BY <1>4, <1>5, <1>6 DEF CInv

----------------------------------------------------------------------------
(* The invariant holds                                                     *)

LEMMA NextKeeps == CInv /\ [C!Next]_(C!vars) => CInv'
<1> SUFFICES ASSUME CInv, [C!Next]_(C!vars) PROVE CInv'
  OBVIOUS
<1>1. CASE UNCHANGED C!vars
  <2>1. UNCHANGED <<ring, r, w, e>> /\ pos' = pos /\ cpc' = cpc /\ cn' = cn /\ got' = got
    BY <1>1 DEF C!vars
  <2>2. C!RingInOrder' /\ CTypeOK'
    BY <2>1, SameRing DEF CInv, CTypeOK
  <2> QED
    BY <2>1, <2>2 DEF CInv, C!CursorOnScreen, Calls, CallOf
<1>2. CASE \E c \in C!Plain : C!Type(c)
  BY <1>2, TypeKeeps, Zenon
<1>3. CASE \E c \in C!Edits : C!Edit(c)
  BY <1>3, EditKeeps, Zenon
<1>4. CASE \E c \in C!Plain : C!Write(c)
  BY <1>4, WriteKeeps, Zenon
<1>5. CASE \E p \in CReaders : C!Read(p)
  BY <1>5, ReadKeeps, Zenon
<1>6. CASE \E p \in CReaders :
             (\E k \in CSizes : C!ReadCall(p, k)) \/ C!Sleep(p) \/ C!Kill(p)
  BY <1>6, ReaderKeeps, Zenon
<1> QED
  BY <1>1, <1>2, <1>3, <1>4, <1>5, <1>6, Zenon DEF C!Next

\* The indices, the cursor and the calls of consoleread() stay consistent.
THEOREM ConsoleInvariance == C!Spec => []CInv
  BY InitCInv, NextKeeps, PTL DEF C!Spec

\* For every ring and screen: consoleintr(), consoleread() and consolewrite()
\* keep the indices in order across the wrap-around, nobody sleeps while there
\* is input, and the cursor does not leave the screen.
THEOREM ConsoleStaysInOrder == C!Spec => []ConsoleInOrder
<1>1. CInv => ConsoleInOrder
  <2> SUFFICES ASSUME CInv PROVE ConsoleInOrder
    OBVIOUS
  <2>1. C!NoSleepOverInput
    BY DEF CInv, Calls, CallOf, C!NoSleepOverInput
  <2> QED
    BY <2>1 DEF CInv, ConsoleInOrder
<1> QED
  BY <1>1, ConsoleInvariance, PTL

----------------------------------------------------------------------------
(* Lines are kept                                                          *)

LEMMA PrefixIs ==
  ASSUME NEW A, NEW s \in Seq(A), NEW t \in Seq(A), Len(s) <= Len(t),
         \A k \in 1 .. Len(s) : s[k] = t[k]
  PROVE  C!IsPrefix(s, t)
<1>1. s = SubSeq(t, 1, Len(s))
  OBVIOUS
<1> QED
  BY <1>1, Zenon DEF C!IsPrefix

LEMMA SuffixIs ==
  ASSUME NEW A, NEW s \in Seq(A), NEW t \in Seq(A), NEW j \in 0 .. Len(t),
         Len(s) = Len(t) - j, \A k \in 1 .. Len(s) : s[k] = t[k + j]
  PROVE  C!IsSuffix(s, t)
<1>1. Len(s) <= Len(t) /\ (Len(t) - Len(s)) + 1 = j + 1
  OBVIOUS
<1>2. s = SubSeq(t, j + 1, Len(t))
  OBVIOUS
<1> QED
  BY <1>1, <1>2, Zenon DEF C!IsSuffix

LEMMA CharsAre ==
  ASSUME NEW bf \in [0 .. INPUT_BUF - 1 -> C!Plain],
         NEW a \in 0 .. CWRAP - 1, NEW b \in 0 .. CWRAP - 1
  PROVE  /\ C!Chars(bf, a, b) \in Seq(C!Plain) /\ Len(C!Chars(bf, a, b)) = C!Minus(b, a)
         /\ \A k \in 1 .. C!Minus(b, a) : C!Chars(bf, a, b)[k] = bf[Slot(a, k - 1)]
<1> DEFINE N == C!Minus(b, a)
           f(k) == bf[Slot(a, k - 1)]
<1>1. N \in 0 .. CWRAP - 1 /\ CWRAP \in Nat
  BY PlusMinus, Below, Zenon
<1> HIDE DEF N
<1>2. ASSUME NEW k \in 1 .. N PROVE f(k) \in C!Plain
  <2>1. k - 1 \in 0 .. CWRAP - 1
    BY <1>1
  <2>2. Slot(a, k - 1) \in 0 .. INPUT_BUF - 1
    BY <2>1, SlotIs, Zenon
  <2> QED
    BY <2>2
<1>3. C!Chars(bf, a, b) = [k \in 1 .. N |-> f(k)]
  BY Zenon DEF C!Chars, Slot, N
<1> HIDE DEF f
<1>4. /\ C!Chars(bf, a, b) \in Seq(C!Plain) /\ Len(C!Chars(bf, a, b)) = N
      /\ \A k \in 1 .. N : C!Chars(bf, a, b)[k] = f(k)
  BY <1>1, <1>2, <1>3
<1> QED
  BY <1>4, Zenon DEF N, f

\* A character is typed behind all that was handed over: INPUT_BUF keeps it off
\* the places of the others.
LEMMA TypeKeepsLines ==
  ASSUME CInv, CInv', NEW c, C!Type(c)
  PROVE  C!IsPrefix(C!Input, C!Input')
<1> DEFINE s == C!Chars(ring, r, w)
           t == C!Chars(ring', r', w')
           M == C!Minus(w, r)
           N == C!Minus(w', r)
           U == C!Minus(e, r)
<1>1. /\ ring \in [0 .. INPUT_BUF - 1 -> C!Plain] /\ ring' \in [0 .. INPUT_BUF - 1 -> C!Plain]
      /\ r \in 0 .. CWRAP - 1 /\ w \in 0 .. CWRAP - 1 /\ w' \in 0 .. CWRAP - 1
      /\ e \in 0 .. CWRAP - 1 /\ r' = r
  BY DEF CInv, CTypeOK, C!Type
<1>2. s \in Seq(C!Plain) /\ Len(s) = M /\ \A k \in 1 .. M : s[k] = ring[Slot(r, k - 1)]
  BY <1>1, CharsAre, Zenon
<1>3. t \in Seq(C!Plain) /\ Len(t) = N /\ \A k \in 1 .. N : t[k] = ring'[Slot(r, k - 1)]
  BY <1>1, CharsAre, Zenon
<1>4. M \in Nat /\ U \in Nat /\ M <= U /\ U < INPUT_BUF
      /\ INPUT_BUF \in Nat /\ INPUT_BUF < CWRAP /\ CWRAP \in Nat
  BY RingFacts DEF C!Type, C!Room
<1>5. N = M \/ N = U + 1
  <2>1. w' = w \/ w' = C!Plus(e, 1)
    BY DEF C!Type
  <2>2. C!Minus(C!Plus(e, 1), r) = U + 1
    BY <1>1, <1>4, Further, RingFacts
  <2> QED
    BY <2>1, <2>2
<1>6. ring' = [ring EXCEPT ![Slot(r, U)] = c]
  <2>1. e = C!Plus(r, U)
    BY <1>1, PlusMinus
  <2> QED
    BY <2>1, Zenon DEF C!Type, Slot
<1> HIDE DEF s, t, M, N, U
<1>7. ASSUME NEW k \in 1 .. M PROVE s[k] = t[k]
  <2>1. k \in 1 .. N /\ k - 1 \in Nat /\ k - 1 < U /\ U < INPUT_BUF /\ k - 1 \in 0 .. CWRAP - 1
    BY <1>4, <1>5
  <2>2. Slot(r, k - 1) # Slot(r, U)
    BY <1>1, <1>4, <2>1, SlotsDiffer, Zenon
  <2>3. Slot(r, k - 1) \in 0 .. INPUT_BUF - 1
    BY <1>1, <2>1, SlotIs, Zenon
  <2>4. ring'[Slot(r, k - 1)] = ring[Slot(r, k - 1)]
    BY <1>1, <1>6, <2>2, <2>3
  <2> QED
    BY <1>2, <1>3, <2>1, <2>4
<1>8. Len(s) <= Len(t)
  BY <1>2, <1>3, <1>4, <1>5
<1>9. C!IsPrefix(s, t)
  BY <1>2, <1>3, <1>7, <1>8, PrefixIs, Zenon
<1> QED
  BY <1>9, Zenon DEF C!Input, s, t

\* A read takes from the front.
LEMMA ReadKeepsLines ==
  ASSUME CInv, CInv', NEW p \in CReaders, C!Read(p)
  PROVE  C!IsSuffix(C!Input', C!Input)
<1> DEFINE s == C!Chars(ring', r', w')
           t == C!Chars(ring, r, w)
           M == C!Minus(w', r')
           N == C!Minus(w, r)
<1>1. PICK j \in 0 .. C!Minus(w, r) : r' = C!Plus(r, j)
  BY ReadTakes, Zenon
<1>2. /\ ring \in [0 .. INPUT_BUF - 1 -> C!Plain] /\ ring' = ring /\ w' = w
      /\ r \in 0 .. CWRAP - 1 /\ w \in 0 .. CWRAP - 1 /\ r' \in 0 .. CWRAP - 1
  <2>1. ring' = ring /\ w' = w
    BY Zenon DEF C!Read
  <2> QED
    BY <2>1 DEF CInv, CTypeOK
<1>3. s \in Seq(C!Plain) /\ Len(s) = M /\ \A k \in 1 .. M : s[k] = ring[Slot(r', k - 1)]
  BY <1>2, CharsAre, Zenon
<1>4. t \in Seq(C!Plain) /\ Len(t) = N /\ \A k \in 1 .. N : t[k] = ring[Slot(r, k - 1)]
  BY <1>2, CharsAre, Zenon
<1>5. M = N - j
  BY <1>1, <1>2, Nearer
<1>6. N \in Nat /\ N < CWRAP /\ j \in 0 .. N /\ CWRAP \in Nat
  BY RingFacts
<1> HIDE DEF s, t, M, N
<1>7. ASSUME NEW k \in 1 .. M PROVE s[k] = t[k + j]
  <2>1. k + j \in 1 .. N /\ k - 1 \in Nat /\ j \in Nat /\ j + (k - 1) < CWRAP
    BY <1>5, <1>6
  <2>2. C!Plus(C!Plus(r, j), k - 1) = C!Plus(r, j + (k - 1))
    BY <1>2, <2>1, PlusPlus, Zenon
  <2>3. j + (k - 1) = (k + j) - 1
    BY <1>6
  <2>4. Slot(r', k - 1) = Slot(r, (k + j) - 1)
    BY <1>1, <2>2, <2>3, Zenon DEF Slot
  <2> QED
    BY <1>3, <1>4, <2>1, <2>4, Zenon
<1>8. j \in 0 .. Len(t) /\ Len(s) = Len(t) - j /\ \A k \in 1 .. Len(s) : s[k] = t[k + j]
  BY <1>3, <1>4, <1>5, <1>6, <1>7
<1>9. C!IsSuffix(s, t)
  BY <1>3, <1>4, <1>8, SuffixIs, Zenon
<1> QED
  BY <1>9, Zenon DEF C!Input, s, t

LEMMA StepKeepsLines ==
  ASSUME CInv, CInv', C!Next
  PROVE  C!IsSuffix(C!Input', C!Input) \/ C!IsPrefix(C!Input, C!Input')
<1>1. CASE \E c \in C!Plain : C!Type(c)
  BY <1>1, TypeKeepsLines, Zenon
<1>2. CASE \E p \in CReaders : C!Read(p)
  BY <1>2, ReadKeepsLines, Zenon
<1>3. CASE UNCHANGED <<ring, r, w>>
  <2>1. C!Input' = C!Input
    BY <1>3 DEF C!Input, C!Chars, C!Minus, C!Plus
  <2>2. C!Input \in Seq(C!Plain)
    BY CharsAre, Zenon DEF CInv, CTypeOK, C!Input
  <2>3. C!IsPrefix(C!Input, C!Input)
    <3> DEFINE s == C!Input
    <3> HIDE DEF s
    <3>1. s \in Seq(C!Plain) /\ Len(s) <= Len(s)
      BY <2>2 DEF s
    <3>2. C!IsPrefix(s, s)
      BY <3>1, PrefixIs, Zenon
    <3> QED
      BY <3>2 DEF s
  <2> QED
    BY <2>1, <2>3
<1>4. CASE (\E c \in C!Edits : C!Edit(c)) \/ (\E c \in C!Plain : C!Write(c))
  <2>1. UNCHANGED <<ring, r, w>>
    BY <1>4, Zenon DEF C!Edit, C!Write
  <2> QED
    BY <1>3, <2>1
<1>5. CASE \E p \in CReaders :
             (\E k \in CSizes : C!ReadCall(p, k)) \/ C!Sleep(p) \/ C!Kill(p)
  <2>1. UNCHANGED <<ring, r, w>>
    BY <1>5 DEF C!ReadCall, C!Sleep, C!Kill, C!ring
  <2> QED
    BY <1>3, <2>1
<1> QED
  BY <1>1, <1>2, <1>4, <1>5, Zenon DEF C!Next

\* For every ring and every order of typing, editing and reading: what was handed
\* over to the readers is only taken from the front or extended at the back.
THEOREM HandedOverIsKept == C!Spec => LinesAreKept
<1>1. CInv /\ CInv' /\ [C!Next]_(C!vars)
        => [C!IsSuffix(C!Input', C!Input) \/ C!IsPrefix(C!Input, C!Input')]_<<ring, r, w, e>>
  <2>1. UNCHANGED C!vars => UNCHANGED <<ring, r, w, e>>
    BY DEF C!vars
  <2> QED
    BY <2>1, StepKeepsLines, Zenon
<1> QED
  BY <1>1, ConsoleInvariance, PTL DEF C!Spec, LinesAreKept, C!LinesAreKept

----------------------------------------------------------------------------
(* ^D                                                                      *)

\* The characters that a step takes.
Taken == SubSeq(C!Input, 1, C!Minus(r', r))

TakesAlone == "^D" \in C!Range(Taken) =>
                /\ Taken = <<"^D">>
                /\ \E p \in CReaders : cpc[p] = "reading" /\ cpc'[p] = "user" /\ got[p] = 0

LEMMA OneIs == \A k \in 1 .. 1 : k = 1
  OBVIOUS

LEMMA FrontIs ==
  ASSUME NEW A, NEW s \in Seq(A), NEW j \in 0 .. Len(s)
  PROVE  /\ \A c \in C!Range(SubSeq(s, 1, j)) : \E k \in 1 .. j : s[k] = c
         /\ j = 1 => SubSeq(s, 1, j) = <<s[1]>>
<1>1. Len(SubSeq(s, 1, j)) = j /\ \A k \in 1 .. j : SubSeq(s, 1, j)[k] = s[k]
  OBVIOUS
<1>2. DOMAIN SubSeq(s, 1, j) = 1 .. j
  OBVIOUS
<1> DEFINE f == SubSeq(s, 1, j)
<1>3. f = <<s[1]>> \/ j # 1
  <2>1. ASSUME j = 1 PROVE f = <<s[1]>>
    <3>1. f \in Seq(A) /\ Len(f) = 1 /\ f[1] = s[1]
      BY <1>1, <2>1
    <3> HIDE DEF f
    <3> QED
      BY <3>1
  <2> QED
    BY <2>1
<1>4. ASSUME NEW c \in C!Range(f) PROVE \E k \in 1 .. j : s[k] = c
  <2> HIDE DEF f
  <2>1. PICK k \in DOMAIN f : f[k] = c
    BY <1>4, Zenon DEF C!Range
  <2> QED
    BY <1>1, <1>2, <2>1, Zenon DEF f
<1> QED
  BY <1>3, <1>4, Zenon

LEMMA StepTakesAlone ==
  ASSUME CInv, C!Next
  PROVE  TakesAlone
<1>1. /\ C!Input \in Seq(C!Plain) /\ Len(C!Input) = C!Minus(w, r)
      /\ r \in 0 .. CWRAP - 1
  BY CharsAre, Zenon DEF CInv, CTypeOK, C!Input
<1>2. C!Minus(w, r) \in Nat /\ C!Minus(w, r) < CWRAP /\ CWRAP \in Nat
  BY RingFacts
<1>3. ASSUME r' = r PROVE TakesAlone
  <2>1. C!Minus(r', r) = 0
    BY <1>1, <1>3, Below, MinusIs
  <2> DEFINE s == C!Input
  <2>2. s \in Seq(C!Plain) /\ 0 \in 0 .. Len(s)
    BY <1>1, <1>2
  <2> HIDE DEF s
  <2>3. \A c \in C!Range(SubSeq(s, 1, 0)) : \E k \in 1 .. 0 : s[k] = c
    BY <2>2, FrontIs, Zenon
  <2>4. ~ ("^D" \in C!Range(SubSeq(s, 1, 0)))
    BY <2>3
  <2> QED
    BY <2>1, <2>4, Zenon DEF TakesAlone, Taken, s
<1>4. ASSUME NEW p \in CReaders, C!Read(p) PROVE TakesAlone
  <2>1. PICK j \in 0 .. C!Minus(w, r) :
          /\ r' = C!Plus(r, j)
          /\ \A k \in 1 .. j : C!Input[k] = "^D" => j = 1 /\ got[p] = 0 /\ Ended(p)
    BY <1>4, ReadTakes, Zenon
  <2>2. C!Minus(r', r) = j
    BY <1>1, <1>2, <2>1, Forward
  <2> SUFFICES ASSUME "^D" \in C!Range(SubSeq(C!Input, 1, j))
               PROVE  /\ SubSeq(C!Input, 1, j) = <<"^D">>
                      /\ \E q \in CReaders : cpc[q] = "reading" /\ cpc'[q] = "user" /\ got[q] = 0
    BY <2>2, Zenon DEF TakesAlone, Taken
  <2>3. /\ \A c \in C!Range(SubSeq(C!Input, 1, j)) : \E k \in 1 .. j : C!Input[k] = c
        /\ j = 1 => SubSeq(C!Input, 1, j) = <<C!Input[1]>>
    BY <1>1, FrontIs, Zenon
  <2>4. PICK k \in 1 .. j : C!Input[k] = "^D"
    BY <2>3, Zenon
  <2>5. j = 1 /\ got[p] = 0 /\ Ended(p)
    BY <2>1, <2>4, Zenon
  <2>6. k = 1
    BY <2>5, OneIs, Zenon
  <2>7. cpc[p] = "reading" /\ cpc'[p] = "user"
    BY <1>4, <2>5 DEF C!Read, Ended, CInv, CTypeOK
  <2> QED
    BY <2>3, <2>4, <2>5, <2>6, <2>7, Zenon
<1>5. CASE \E c \in C!Plain : C!Type(c)
  BY <1>3, <1>5, Zenon DEF C!Type
<1>6. CASE \E c \in C!Edits : C!Edit(c)
  BY <1>3, <1>6, Zenon DEF C!Edit
<1>7. CASE \E c \in C!Plain : C!Write(c)
  BY <1>3, <1>7, Zenon DEF C!Write
<1>8. CASE \E p \in CReaders :
             (\E k \in CSizes : C!ReadCall(p, k)) \/ C!Sleep(p) \/ C!Kill(p)
  <2>1. r' = r
    BY <1>8 DEF C!ReadCall, C!Sleep, C!Kill, C!ring
  <2> QED
    BY <1>3, <2>1
<1> QED
  BY <1>4, <1>5, <1>6, <1>7, <1>8, Zenon DEF C!Next

\* A ^D is taken by one read alone, which then returns 0.
THEOREM EOFIsAlone == C!Spec => EOFIsOneEmptyRead
<1>1. CInv /\ [C!Next]_(C!vars) => [TakesAlone]_(C!vars)
  BY StepTakesAlone, Zenon
<1> QED
  BY <1>1, ConsoleInvariance, PTL
  DEF C!Spec, EOFIsOneEmptyRead, C!EOFIsOneEmptyRead, TakesAlone, Taken
=============================================================================
