----------------------------- MODULE PipeProofs -----------------------------
(***************************************************************************)
(* A pipe is a stream of bytes, is freed when nobody can use it any more,  *)
(* and loses no wakeup: for any number of processes, any PIPESIZE, and any *)
(* width of the counters that PIPESIZE divides.                            *)
(***************************************************************************)
EXTENDS Pipe, Integers, TLAPS

\* Where a process holds p->lock.
LockHeld == {"writing", "write_sleep", "reading", "read_sleep", "copying", "closing"}

WriterAt == {"user", "write", "writing", "write_sleep", "write_asleep",
             "close", "closing"}
ReaderAt == {"user", "read", "reading", "read_sleep", "read_asleep", "copying",
             "close", "closing"}
Closing  == {"close", "closing"}

End(p) == IF p \in Writers THEN Writers ELSE Readers
Open(p) == IF p \in Writers THEN writeopen ELSE readopen

Places == /\ \A p \in Writers : pc[p] \in WriterAt
          /\ \A p \in Readers : pc[p] \in ReaderAt

\* p->lock is held exactly between acquire() and release() or sleep().
Locked == \A p \in Procs : pc[p] \in LockHeld <=> lock = p

\* A process inside pipewrite() or piperead() holds a reference to its end; in
\* pipeclose() is the one that gave up the last reference, once.
Referenced == \A p \in Procs :
  /\ pc[p] \notin Closing \union {"user"} => p \in fds
  /\ pc[p] \in Closing => /\ fds \intersect End(p) = {}
                          /\ Open(p)
                          /\ \A q \in End(p) : pc[q] \in Closing => q = p

\* An end is closed after all its references are gone, the page freed when
\* both ends are closed.
Closed == /\ \A p \in Procs : ~Open(p) => fds \intersect End(p) = {} /\ pc[p] \notin Closing
          /\ freed <=> ~readopen /\ ~writeopen

\* What a caller found out under p->lock still holds, and a reader has read
\* nothing before it saw that there is something to read.
FoundBy(p) ==
  /\ i[p] <= n[p]
  /\ pc[p] \in {"read", "reading", "read_sleep", "read_asleep"} => i[p] = 0
  /\ pc[p] = "read_sleep" => Empty /\ writeopen
  /\ pc[p] = "write_sleep" => Full /\ readopen
  /\ pc[p] = "copying" /\ i[p] = 0 => ~Empty \/ ~writeopen

Found == \A p \in Procs : FoundBy(p)

\* While somebody holds p->lock, the process that will call wakeup().
SleepersHaveWaker ==
  /\ (\E p \in Procs : pc[p] = "read_asleep") /\ ~(\E p \in Writers : killed[p]) =>
       writeopen /\ (Empty \/ \E q \in Writers : pc[q] \in {"writing", "write_sleep"})
  /\ (\E p \in Procs : pc[p] = "write_asleep") =>
       readopen /\ (Full \/ \E q \in Readers : pc[q] = "copying")

\* The inductive invariant.
IInv == TypeOK /\ Places /\ Locked /\ Referenced /\ Closed /\ Found /\ SleepersHaveWaker
----------------------------------------------------------------------------
(* Arithmetic of the counters                                              *)
\* Quotient and remainder of a counter.
LEMMA DivMod ==
  ASSUME NEW x \in Nat, NEW S \in Nat \ {0}
  PROVE  /\ x \div S \in Nat /\ x % S \in 0 .. S - 1
         /\ x = S * (x \div S) + (x % S)
  BY SMT

\* The only multiple of S between -S and S is 0.
LEMMA NoMultipleBetween ==
  ASSUME NEW S \in Nat \ {0}, NEW d \in Int, S * d < S, -S < S * d
  PROVE  d = 0
<1>1. CASE d >= 1
  <2>1. S * d >= S
    BY <1>1
  <2> QED BY <2>1
<1>2. CASE d <= -1
  <2>1. S * d <= -S
    BY <1>2
  <2> QED BY <2>1
<1> QED BY <1>1, <1>2

\* A remainder is known from any way to split off multiples of S.
LEMMA ModUnique ==
  ASSUME NEW S \in Nat \ {0}, NEW x \in Nat, NEW q \in Nat, NEW r \in 0 .. S - 1, x = S * q + r
  PROVE  x % S = r
<1>1. x = S * (x \div S) + (x % S) /\ x \div S \in Nat /\ x % S \in 0 .. S - 1
  BY DivMod, Zenon
<1>2. S * (q - (x \div S)) = (x % S) - r
  BY <1>1
<1>3. q - (x \div S) = 0
  BY <1>1, <1>2, NoMultipleBetween
<1> QED
  BY <1>2, <1>3

\* The remainder of what is less than two turns.
LEMMA ModSmall ==
  ASSUME NEW S \in Nat \ {0}, NEW x \in Nat
  PROVE  /\ x < S => x % S = x
         /\ S <= x /\ x < 2 * S => x % S = x - S
<1>1. ASSUME x < S PROVE x % S = x
  BY <1>1, ModUnique, x = S * 0 + x
<1>2. ASSUME S <= x, x < 2 * S PROVE x % S = x - S
  BY <1>2, ModUnique, x = S * 1 + (x - S)
<1> QED BY <1>1, <1>2

\* A whole turn of the counters does not move the index into the ring,
\* for WRAP is a multiple of PIPESIZE.
LEMMA ModShift ==
  ASSUME NEW S \in Nat \ {0}, NEW W \in Nat, W % S = 0, NEW x \in Nat
  PROVE  (x + W) % S = x % S
<1>1. x = S * (x \div S) + (x % S) /\ x \div S \in Nat /\ x % S \in 0 .. S - 1
  BY DivMod, Zenon
<1>2. W = S * (W \div S) /\ W \div S \in Nat
  BY DivMod
<1>3. x + W = S * ((x \div S) + (W \div S)) + (x % S)
  BY <1>1, <1>2
<1> DEFINE q == (x \div S) + (W \div S)
           r == x % S
<1>4. x + W \in Nat /\ q \in Nat /\ r \in 0 .. S - 1 /\ x + W = S * q + r
  BY <1>1, <1>2, <1>3
<1> HIDE DEF q, r
<1>5. (x + W) % S = r
  BY <1>4, ModUnique, Zenon
<1> QED
  BY <1>5 DEF r

\* Positions less than a turn apart fall into different places of the ring.
LEMMA ModDistinct ==
  ASSUME NEW S \in Nat \ {0}, NEW x \in Nat, NEW y \in Nat, x < y, y < x + S
  PROVE  x % S # y % S
<1>1. x = S * (x \div S) + (x % S) /\ x \div S \in Nat /\ x % S \in 0 .. S - 1
  BY DivMod, Zenon
<1>2. y = S * (y \div S) + (y % S) /\ y \div S \in Nat /\ y % S \in 0 .. S - 1
  BY DivMod, Zenon
<1> SUFFICES ASSUME x % S = y % S PROVE FALSE
  OBVIOUS
<1>3. S * ((y \div S) - (x \div S)) = y - x
  BY <1>1, <1>2
<1>4. (y \div S) - (x \div S) = 0
  BY <1>1, <1>2, <1>3, NoMultipleBetween
<1> QED
  BY <1>3, <1>4

\* The distance of two counters, across the wrap-around.
LEMMA DistanceIs ==
  ASSUME PipeConstants, NEW r \in 0 .. WRAP - 1, NEW w \in 0 .. WRAP - 1
  PROVE  (w + WRAP - r) % WRAP = IF r <= w THEN w - r ELSE w - r + WRAP
<1> DEFINE x == w + WRAP - r
<1>1. WRAP \in Nat \ {0} /\ x \in Nat
  BY DEF PipeConstants
<1>2. /\ x < WRAP => x % WRAP = x
      /\ WRAP <= x /\ x < 2 * WRAP => x % WRAP = x - WRAP
  <2> HIDE DEF x
  <2> QED
    BY <1>1, ModSmall, Zenon
<1> QED
  BY <1>1, <1>2

\* One more than a counter.
LEMMA NextCounter ==
  ASSUME PipeConstants, NEW c \in 0 .. WRAP - 1
  PROVE  (c + 1) % WRAP = IF c = WRAP - 1 THEN 0 ELSE c + 1
<1> DEFINE x == c + 1
<1>1. WRAP \in Nat \ {0, 1} /\ x \in Nat /\ x <= WRAP
  BY DEF PipeConstants
<1>2. /\ x < WRAP => x % WRAP = x
      /\ WRAP <= x /\ x < 2 * WRAP => x % WRAP = x - WRAP
  <2> HIDE DEF x
  <2> QED
    BY <1>1, ModSmall
<1> QED
  BY <1>1, <1>2

\* The tests of pipewrite() and piperead() say how many bytes there are.
LEMMA Tests ==
  ASSUME PipeConstants, TypeOK
  PROVE  /\ Used = IF nread <= nwrite THEN nwrite - nread ELSE nwrite - nread + WRAP
         /\ Used \in 0 .. PIPESIZE
         /\ Empty <=> Used = 0
         /\ Full <=> Used = PIPESIZE
<1> DEFINE x == nread + PIPESIZE
<1>1. Used = IF nread <= nwrite THEN nwrite - nread ELSE nwrite - nread + WRAP
  BY DistanceIs, Zenon DEF TypeOK, Used
<1>2. /\ PIPESIZE \in Nat \ {0} /\ WRAP \in Nat \ {0} /\ PIPESIZE < WRAP
      /\ nread \in 0 .. WRAP - 1 /\ nwrite \in 0 .. WRAP - 1 /\ Used <= PIPESIZE
      /\ x \in Nat
  BY DEF PipeConstants, TypeOK
<1>3. /\ x < WRAP => x % WRAP = x
      /\ WRAP <= x /\ x < 2 * WRAP => x % WRAP = x - WRAP
  <2> HIDE DEF x
  <2> QED
    BY <1>2, ModSmall, Zenon
<1>4. Empty <=> Used = 0
  BY <1>1, <1>2 DEF Empty
<1>5. Full <=> Used = PIPESIZE
  BY <1>1, <1>2, <1>3 DEF Full
<1> QED
  BY <1>1, <1>2, <1>4, <1>5

\* A byte goes into a pipe that is not full, or comes out of one that is not
\* empty, and the counters stay as far apart as they should.
LEMMA OneMore ==
  ASSUME PipeConstants, TypeOK, ~Full, nread' = nread, nwrite' = (nwrite + 1) % WRAP
  PROVE  Used' = Used + 1 /\ nwrite' \in 0 .. WRAP - 1
<1>1. /\ PIPESIZE \in Nat \ {0} /\ WRAP \in Nat \ {0} /\ PIPESIZE < WRAP
      /\ nread \in 0 .. WRAP - 1 /\ nwrite \in 0 .. WRAP - 1
  BY DEF PipeConstants, TypeOK
<1>2. nwrite' = IF nwrite = WRAP - 1 THEN 0 ELSE nwrite + 1
  BY <1>1, NextCounter
<1>3. nwrite' \in 0 .. WRAP - 1
  BY <1>1, <1>2
<1>4. Used' = IF nread <= nwrite' THEN nwrite' - nread ELSE nwrite' - nread + WRAP
  BY <1>1, <1>3, DistanceIs, Zenon DEF Used
<1>5. /\ Used = IF nread <= nwrite THEN nwrite - nread ELSE nwrite - nread + WRAP
      /\ Used < PIPESIZE
  BY <1>1, Tests
<1> QED
  BY <1>1, <1>2, <1>3, <1>4, <1>5

\* piperead() takes one byte: the ring holds one less.
LEMMA OneLess ==
  ASSUME PipeConstants, TypeOK, ~Empty, nwrite' = nwrite, nread' = (nread + 1) % WRAP
  PROVE  Used' = Used - 1 /\ nread' \in 0 .. WRAP - 1
<1>1. /\ PIPESIZE \in Nat \ {0} /\ WRAP \in Nat \ {0} /\ PIPESIZE < WRAP
      /\ nread \in 0 .. WRAP - 1 /\ nwrite \in 0 .. WRAP - 1
  BY DEF PipeConstants, TypeOK
<1>2. nread' = IF nread = WRAP - 1 THEN 0 ELSE nread + 1
  BY <1>1, NextCounter
<1>3. nread' \in 0 .. WRAP - 1
  BY <1>1, <1>2
<1>4. Used' = IF nread' <= nwrite THEN nwrite - nread' ELSE nwrite - nread' + WRAP
  BY <1>1, <1>3, DistanceIs, Zenon DEF Used
<1>5. /\ Used = IF nread <= nwrite THEN nwrite - nread ELSE nwrite - nread + WRAP
      /\ Used > 0
  BY <1>1, Tests
<1> QED
  BY <1>1, <1>2, <1>3, <1>4, <1>5

----------------------------------------------------------------------------
(* The invariant is inductive                                              *)

\* A step that leaves the ring alone leaves what is said of it alone.
LEMMA SameRing ==
  ASSUME UNCHANGED ring
  PROVE  /\ (Empty' <=> Empty) /\ (Full' <=> Full) /\ Used' = Used
         /\ data' = data /\ nread' = nread /\ nwrite' = nwrite
  BY DEF ring, Empty, Full, Used

\* Only the holder of p->lock is inside a critical section.
LEMMA Alone ==
  ASSUME IInv, NEW p \in Procs, lock = p
  PROVE  \A q \in Procs : q # p => pc[q] \notin LockHeld
  BY DEF IInv, Locked

\* acquire(&p->lock), on entry or after sleep(), preserves the invariant.

\* acquire(&p->lock), on entry or after sleep(), preserves the invariant.

\* acquire(&p->lock), on entry or after sleep(), preserves the invariant.

\* acquire(&p->lock), on entry or after sleep(), preserves the invariant.

\* acquire(&p->lock), on entry or after sleep(), preserves the invariant.

\* acquire(&p->lock), on entry or after sleep(), preserves the invariant.

\* acquire(&p->lock), on entry or after sleep(), preserves the invariant.

\* acquire(&p->lock), on entry or after sleep(), preserves the invariant.
LEMMA AcquireInv ==
  ASSUME PipeConstants, IInv, NEW p \in Procs, Acquire(p)
  PROVE  IInv'
<1> USE DEF IInv
<1> None \notin Procs /\ Writers \intersect Readers = {} /\ Sizes \subseteq Nat
  BY DEF PipeConstants, Procs
<1>0. /\ (Empty' <=> Empty) /\ (Full' <=> Full) /\ Used' = Used
      /\ data' = data /\ nread' = nread /\ nwrite' = nwrite
      /\ UNCHANGED <<readopen, writeopen, fds, freed, n, i, killed>>
  BY SameRing, Zenon DEF Acquire, ends
<1>1. PICK x \in {"writing", "reading", "closing"} :
        /\ pc' = [pc EXCEPT ![p] = x]
        /\ x = "writing" => pc[p] = "write"
        /\ x = "reading" => pc[p] = "read"
        /\ x = "closing" => pc[p] = "close"
  BY Zenon DEF Acquire, Goto
<1>2. lock = None /\ lock' = p
  BY Zenon DEF Acquire
<1>3. TypeOK'
  BY <1>0, <1>1, <1>2, Zenon DEF TypeOK
<1>4. Places'
  BY <1>0, <1>1, <1>2, Zenon DEF TypeOK, Places, WriterAt, ReaderAt, Procs
<1>5. Locked'
  BY <1>0, <1>1, <1>2, Zenon DEF TypeOK, Locked, LockHeld, Procs
<1>6. Referenced'
  BY <1>0, <1>1, <1>2, Zenon DEF TypeOK, Referenced, Closing, End, Open, Procs
<1>7. Closed'
  BY <1>0, <1>1, <1>2, Zenon DEF TypeOK, Closed, Closing, End, Open, Procs
<1>8. Found'
  BY <1>0, <1>1, <1>2, Zenon DEF TypeOK, Found, FoundBy
<1>9. SleepersHaveWaker'
  BY <1>0, <1>1, <1>2, Zenon DEF TypeOK, SleepersHaveWaker, Procs
<1> QED
  BY <1>3, <1>4, <1>5, <1>6, <1>7, <1>8, <1>9, Zenon

\* The start of write() or read().
LEMMA CallInv ==
  ASSUME PipeConstants, IInv, NEW p \in Procs, NEW k \in Sizes, WriteCall(p, k) \/ ReadCall(p, k)
  PROVE  IInv'
<1> USE DEF IInv
<1> None \notin Procs /\ Writers \intersect Readers = {} /\ Sizes \subseteq Nat
  BY Zenon DEF PipeConstants, Procs
<1>0. /\ (Empty' <=> Empty) /\ (Full' <=> Full) /\ Used' = Used
      /\ data' = data /\ nread' = nread /\ nwrite' = nwrite
      /\ UNCHANGED <<readopen, writeopen, fds, freed, lock, killed>>
  BY SameRing, Zenon DEF WriteCall, ReadCall, ends
<1>1. PICK x \in {"write", "read"} :
        /\ pc' = [pc EXCEPT ![p] = x]
        /\ x = "write" => p \in Writers
        /\ x = "read" => p \in Readers
  BY Zenon DEF WriteCall, ReadCall, Goto
<1>2. /\ pc[p] = "user" /\ p \in fds
      /\ n' = [n EXCEPT ![p] = k] /\ i' = [i EXCEPT ![p] = 0]
  BY Zenon DEF WriteCall, ReadCall
<1>3. TypeOK'
  BY <1>0, <1>1, <1>2, Zenon DEF TypeOK
<1>4. Places'
  BY <1>0, <1>1, <1>2, Zenon DEF TypeOK, Places, WriterAt, ReaderAt, Procs
<1>5. Locked'
  BY <1>0, <1>1, <1>2, Zenon DEF TypeOK, Locked, LockHeld, Procs
<1>6. Referenced'
  BY <1>0, <1>1, <1>2, Zenon DEF TypeOK, Referenced, Closing, End, Open, Procs
<1>7. Closed'
  BY <1>0, <1>1, <1>2, Zenon DEF TypeOK, Closed, Closing, End, Open, Procs
<1>8. Found'
  BY <1>0, <1>1, <1>2 DEF TypeOK, Found, FoundBy
<1>9. SleepersHaveWaker'
  BY <1>0, <1>1, <1>2, Zenon DEF TypeOK, SleepersHaveWaker, Procs
<1> QED
  BY <1>3, <1>4, <1>5, <1>6, <1>7, <1>8, <1>9, Zenon

\* pipewrite() finds the pipe full, and gives up or is about to sleep.
LEMMA WriteFullInv ==
  ASSUME PipeConstants, IInv, NEW p \in Procs, WriteFull(p)
  PROVE  IInv'
<1> USE DEF IInv
<1> None \notin Procs /\ Writers \intersect Readers = {} /\ Sizes \subseteq Nat
  BY Zenon DEF PipeConstants, Procs
<1>0. /\ (Empty' <=> Empty) /\ (Full' <=> Full) /\ Used' = Used
      /\ data' = data /\ nread' = nread /\ nwrite' = nwrite
      /\ UNCHANGED <<readopen, writeopen, fds, freed, killed>>
  BY SameRing, Zenon DEF WriteFull, ends
<1>1. /\ lock = p /\ pc[p] = "writing" /\ Full /\ p \in Writers
  BY Zenon DEF WriteFull, Holds, Places, ReaderAt, Procs
<1>2. PICK x \in {"user", "write_sleep"} :
        /\ pc' = [pc EXCEPT ![p] = x]
        /\ x = "user" => /\ lock' = None /\ (~readopen \/ killed[p])
                         /\ n' = [n EXCEPT ![p] = 0] /\ i' = [i EXCEPT ![p] = 0]
        /\ x = "write_sleep" => readopen /\ lock' = lock /\ n' = n /\ i' = i
  BY Zenon DEF WriteFull, Leave, Goto
<1>3. ~readopen => \A q \in Procs : pc[q] # "read_asleep"
  BY DEF Closed, Referenced, Closing, End, Open, Places, WriterAt, Procs
<1>4. lock' \in {None, p}
  BY <1>1, <1>2, Zenon
<1>5. n' \in [Procs -> Sizes \union {0}]
  <2>1. n \in [Procs -> Sizes \union {0}]
    BY Zenon DEF TypeOK
  <2> QED
    BY <1>2, <2>1, Zenon
<1>6. i' \in [Procs -> Nat]
  <2>1. i \in [Procs -> Nat] /\ 0 \in Nat
    BY Zenon DEF TypeOK
  <2> QED
    BY <1>2, <2>1, Zenon
<1>7. TypeOK'
  BY <1>0, <1>2, <1>4, <1>5, <1>6, Zenon DEF TypeOK
<1>8. Places'
  BY <1>0, <1>1, <1>2, Zenon DEF TypeOK, Places, WriterAt, ReaderAt, Procs
<1>9. Locked'
  BY <1>0, <1>1, <1>2 DEF TypeOK, Locked, LockHeld, Procs
<1>10. Referenced'
  BY <1>0, <1>1, <1>2, Zenon DEF TypeOK, Referenced, Closing, End, Open, Procs
<1>11. Closed'
  BY <1>0, <1>1, <1>2, Zenon DEF TypeOK, Closed, Closing, End, Open, Procs
<1>12. Found'
  <2> SUFFICES ASSUME NEW q \in Procs PROVE FoundBy(q)'
    BY Zenon DEF Found
  <2>1. CASE q = p
    <3>1. i'[p] <= n'[p]
      BY <1>1, <1>2 DEF TypeOK, Found, FoundBy
    <3> QED
      BY <1>0, <1>1, <1>2, <2>1, <3>1, Zenon DEF TypeOK, FoundBy
  <2>2. CASE q # p
    <3>1. i'[q] = i[q] /\ n'[q] = n[q] /\ FoundBy(q)
      BY <1>1, <1>2, <2>2, Zenon DEF TypeOK, Found
    <3> QED
      BY <1>0, <1>1, <1>2, <2>2, <3>1, Zenon DEF TypeOK, FoundBy
  <2> QED
    BY <2>1, <2>2
<1>13. SleepersHaveWaker'
  BY <1>0, <1>1, <1>2, <1>3, Zenon DEF TypeOK, SleepersHaveWaker, Procs
<1> QED
  BY <1>7, <1>8, <1>9, <1>10, <1>11, <1>12, <1>13

\* pipewrite() wakes the readers and sleeps.
LEMMA WriteSleepInv ==
  ASSUME PipeConstants, IInv, NEW p \in Procs, WriteSleep(p)
  PROVE  IInv'
<1> USE DEF IInv
<1> None \notin Procs /\ Writers \intersect Readers = {} /\ Sizes \subseteq Nat
  BY Zenon DEF PipeConstants, Procs
<1>0. /\ (Empty' <=> Empty) /\ (Full' <=> Full) /\ Used' = Used
      /\ data' = data /\ nread' = nread /\ nwrite' = nwrite
      /\ UNCHANGED <<readopen, writeopen, fds, freed, n, i, killed>>
  BY SameRing, Zenon DEF WriteSleep, ends
<1>1. /\ lock = p /\ pc[p] = "write_sleep" /\ p \in Writers
      /\ lock' = None /\ pc' = [WakeReaders(pc) EXCEPT ![p] = "write_asleep"]
  BY Zenon DEF WriteSleep, SleepAt, Holds, Places, ReaderAt, Procs
<1>2. pc' = [q \in Procs |-> IF q = p THEN "write_asleep" ELSE
                            IF pc[q] = "read_asleep" THEN "read" ELSE pc[q]]
  BY <1>1, Zenon DEF WakeReaders, Wake
<1>3. TypeOK'
  BY <1>0, <1>1, <1>2, ZenonT(30) DEF TypeOK
<1>4. Places'
  BY <1>0, <1>1, <1>2, Zenon DEF TypeOK, Places, WriterAt, ReaderAt, Procs
<1>5. Locked'
  BY <1>0, <1>1, <1>2 DEF TypeOK, Locked, LockHeld, Procs
<1>6. Referenced'
  BY <1>0, <1>1, <1>2 DEF TypeOK, Referenced, Closing, End, Open, Procs
<1>7. Closed'
  BY <1>0, <1>1, <1>2, Zenon DEF TypeOK, Closed, Closing, End, Open, Procs
<1>8. Found'
  BY <1>0, <1>1, <1>2, Zenon DEF TypeOK, Found, FoundBy
<1>9. SleepersHaveWaker'
  BY <1>0, <1>1, <1>2, SMTT(30) DEF TypeOK, SleepersHaveWaker, Found, FoundBy, Procs
<1> QED
  BY <1>3, <1>4, <1>5, <1>6, <1>7, <1>8, <1>9

\* pipewrite() returns and wakes the readers.
LEMMA WriteDoneInv ==
  ASSUME PipeConstants, IInv, NEW p \in Procs, WriteDone(p)
  PROVE  IInv'
<1> USE DEF IInv
<1> None \notin Procs /\ Writers \intersect Readers = {} /\ Sizes \subseteq Nat
  BY Zenon DEF PipeConstants, Procs
<1>0. /\ (Empty' <=> Empty) /\ (Full' <=> Full) /\ Used' = Used
      /\ data' = data /\ nread' = nread /\ nwrite' = nwrite
      /\ UNCHANGED <<readopen, writeopen, fds, freed, killed>>
  BY SameRing, Zenon DEF WriteDone, ends
<1>1. /\ lock = p /\ pc[p] = "writing" /\ p \in Writers
      /\ lock' = None /\ pc' = [WakeReaders(pc) EXCEPT ![p] = "user"]
      /\ n' = [n EXCEPT ![p] = 0] /\ i' = [i EXCEPT ![p] = 0]
  BY Zenon DEF WriteDone, Leave, Holds, Places, ReaderAt, Procs
<1>2. pc' = [q \in Procs |-> IF q = p THEN "user" ELSE
                            IF pc[q] = "read_asleep" THEN "read" ELSE pc[q]]
  BY <1>1, Zenon DEF WakeReaders, Wake
<1>3. TypeOK'
  BY <1>0, <1>1, <1>2, Zenon DEF TypeOK
<1>4. Places'
  BY <1>0, <1>1, <1>2, Zenon DEF TypeOK, Places, WriterAt, ReaderAt, Procs
<1>5. Locked'
  BY <1>0, <1>1, <1>2 DEF TypeOK, Locked, LockHeld, Procs
<1>6. Referenced'
  BY <1>0, <1>1, <1>2, Zenon DEF TypeOK, Referenced, Closing, End, Open, Procs
<1>7. Closed'
  BY <1>0, <1>1, <1>2, Zenon DEF TypeOK, Closed, Closing, End, Open, Procs
<1>8. Found'
  <2> SUFFICES ASSUME NEW q \in Procs PROVE FoundBy(q)'
    BY Zenon DEF Found
  <2>1. CASE q = p
    <3>1. i'[p] <= n'[p]
      BY <1>0, <1>1 DEF TypeOK, Found, FoundBy
    <3> QED
      BY <1>0, <1>1, <1>2, <2>1, <3>1, Zenon DEF TypeOK, FoundBy
  <2>2. CASE q # p
    <3>1. i'[q] = i[q] /\ n'[q] = n[q] /\ FoundBy(q)
      BY <1>0, <1>1, <2>2, Zenon DEF TypeOK, Found
    <3> QED
      BY <1>0, <1>1, <1>2, <2>2, <3>1, Zenon DEF TypeOK, FoundBy
  <2> QED
    BY <2>1, <2>2
<1>9. SleepersHaveWaker'
  BY <1>0, <1>1, <1>2, Zenon DEF TypeOK, SleepersHaveWaker, Procs
<1> QED
  BY <1>3, <1>4, <1>5, <1>6, <1>7, <1>8, <1>9

\* piperead() finds the pipe empty, and gives up or is about to sleep.
LEMMA ReadEmptyInv ==
  ASSUME PipeConstants, IInv, NEW p \in Procs, ReadEmpty(p)
  PROVE  IInv'
<1> USE DEF IInv
<1> None \notin Procs /\ Writers \intersect Readers = {} /\ Sizes \subseteq Nat
  BY Zenon DEF PipeConstants, Procs
<1>0. /\ (Empty' <=> Empty) /\ (Full' <=> Full) /\ Used' = Used
      /\ data' = data /\ nread' = nread /\ nwrite' = nwrite
      /\ UNCHANGED <<readopen, writeopen, fds, freed, killed>>
  BY SameRing, Zenon DEF ReadEmpty, ends
<1>1. /\ lock = p /\ pc[p] = "reading" /\ Empty /\ writeopen /\ p \in Readers
  BY Zenon DEF ReadEmpty, ReadBlocks, Holds, Places, WriterAt, Procs
<1>2. PICK x \in {"user", "read_sleep"} :
        /\ pc' = [pc EXCEPT ![p] = x]
        /\ x = "user" => /\ lock' = None
                         /\ n' = [n EXCEPT ![p] = 0] /\ i' = [i EXCEPT ![p] = 0]
        /\ x = "read_sleep" => lock' = lock /\ n' = n /\ i' = i
  BY Zenon DEF ReadEmpty, Leave, Goto
<1>3. lock' \in {None, p}
  BY <1>1, <1>2, Zenon
<1>4. n' \in [Procs -> Sizes \union {0}]
  <2>1. n \in [Procs -> Sizes \union {0}]
    BY Zenon DEF TypeOK
  <2> QED
    BY <1>2, <2>1, Zenon
<1>5. i' \in [Procs -> Nat]
  <2>1. i \in [Procs -> Nat] /\ 0 \in Nat
    BY Zenon DEF TypeOK
  <2> QED
    BY <1>2, <2>1, Zenon
<1>6. TypeOK'
  BY <1>0, <1>2, <1>3, <1>4, <1>5, ZenonT(30) DEF TypeOK
<1>7. Places'
  BY <1>0, <1>1, <1>2, Zenon DEF TypeOK, Places, WriterAt, ReaderAt, Procs
<1>8. Locked'
  BY <1>0, <1>1, <1>2, SMTT(30) DEF TypeOK, Locked, LockHeld, Procs
<1>9. Referenced'
  BY <1>0, <1>1, <1>2, Zenon DEF TypeOK, Referenced, Closing, End, Open, Procs
<1>10. Closed'
  BY <1>0, <1>1, <1>2, Zenon DEF TypeOK, Closed, Closing, End, Open, Procs
<1>11. Found'
  <2> SUFFICES ASSUME NEW q \in Procs PROVE FoundBy(q)'
    BY Zenon DEF Found
  <2>1. CASE q = p
    <3>1. i'[p] <= n'[p]
      BY <1>1, <1>2 DEF TypeOK, Found, FoundBy
    <3> QED
      BY <1>0, <1>1, <1>2, <2>1, <3>1, Zenon DEF TypeOK, Found, FoundBy
  <2>2. CASE q # p
    <3>1. i'[q] = i[q] /\ n'[q] = n[q] /\ FoundBy(q)
      BY <1>1, <1>2, <2>2, Zenon DEF TypeOK, Found
    <3> QED
      BY <1>0, <1>1, <1>2, <2>2, <3>1, Zenon DEF TypeOK, FoundBy
  <2> QED
    BY <2>1, <2>2
<1>12. SleepersHaveWaker'
  BY <1>0, <1>1, <1>2, Zenon DEF TypeOK, SleepersHaveWaker, Procs
<1> QED
  BY <1>6, <1>7, <1>8, <1>9, <1>10, <1>11, <1>12

\* piperead() sleeps.
LEMMA ReadSleepInv ==
  ASSUME PipeConstants, IInv, NEW p \in Procs, ReadSleep(p)
  PROVE  IInv'
<1> USE DEF IInv
<1> None \notin Procs /\ Writers \intersect Readers = {} /\ Sizes \subseteq Nat
  BY Zenon DEF PipeConstants, Procs
<1>0. /\ (Empty' <=> Empty) /\ (Full' <=> Full) /\ Used' = Used
      /\ data' = data /\ nread' = nread /\ nwrite' = nwrite
      /\ UNCHANGED <<readopen, writeopen, fds, freed, n, i, killed>>
  BY SameRing, Zenon DEF ReadSleep, ends
<1>1. /\ lock = p /\ pc[p] = "read_sleep" /\ p \in Readers /\ lock' = None
      /\ pc' = [pc EXCEPT ![p] = "read_asleep"]
  BY Zenon DEF ReadSleep, SleepAt, Holds, Places, WriterAt, Procs
<1>2. TypeOK'
  BY <1>0, <1>1, Zenon DEF TypeOK
<1>3. Places'
  BY <1>0, <1>1, Zenon DEF TypeOK, Places, WriterAt, ReaderAt, Procs
<1>4. Locked'
  BY <1>0, <1>1, Zenon DEF TypeOK, Locked, LockHeld, Procs
<1>5. Referenced'
  BY <1>0, <1>1, Zenon DEF TypeOK, Referenced, Closing, End, Open, Procs
<1>6. Closed'
  BY <1>0, <1>1, Zenon DEF TypeOK, Closed, Closing, End, Open, Procs
<1>7. Found'
  BY <1>0, <1>1, Zenon DEF TypeOK, Found, FoundBy
<1>8. SleepersHaveWaker'
  BY <1>0, <1>1, Zenon DEF TypeOK, SleepersHaveWaker, Found, FoundBy, Procs
<1> QED
  BY <1>2, <1>3, <1>4, <1>5, <1>6, <1>7, <1>8

\* piperead() has seen that it need not sleep.
LEMMA ReadReadyInv ==
  ASSUME PipeConstants, IInv, NEW p \in Procs, ReadReady(p)
  PROVE  IInv'
<1> USE DEF IInv
<1> None \notin Procs /\ Writers \intersect Readers = {} /\ Sizes \subseteq Nat
  BY DEF PipeConstants, Procs
<1>0. /\ (Empty' <=> Empty) /\ (Full' <=> Full) /\ Used' = Used
      /\ data' = data /\ nread' = nread /\ nwrite' = nwrite
      /\ UNCHANGED <<readopen, writeopen, fds, freed, lock, n, i, killed>>
  BY SameRing, Zenon DEF ReadReady, ends
<1>1. /\ lock = p /\ pc[p] = "reading" /\ p \in Readers /\ ~(Empty /\ writeopen)
      /\ pc' = [pc EXCEPT ![p] = "copying"]
  BY Zenon DEF ReadReady, ReadBlocks, Goto, Holds, Places, WriterAt, Procs
<1>2. TypeOK'
  BY <1>0, <1>1, Zenon DEF TypeOK
<1>3. Places'
  BY <1>0, <1>1, Zenon DEF TypeOK, Places, WriterAt, ReaderAt, Procs
<1>4. Locked'
  BY <1>0, <1>1, Zenon DEF TypeOK, Locked, LockHeld, Procs
<1>5. Referenced'
  BY <1>0, <1>1, Zenon DEF TypeOK, Referenced, Closing, End, Open, Procs
<1>6. Closed'
  BY <1>0, <1>1, Zenon DEF TypeOK, Closed, Closing, End, Open, Procs
<1>7. Found'
  BY <1>0, <1>1, Zenon DEF TypeOK, Found, FoundBy
<1>8. SleepersHaveWaker'
  BY <1>0, <1>1, Zenon DEF TypeOK, SleepersHaveWaker, Procs
<1> QED
  BY <1>2, <1>3, <1>4, <1>5, <1>6, <1>7, <1>8

\* piperead() returns and wakes the writers.
LEMMA ReadDoneInv ==
  ASSUME PipeConstants, IInv, NEW p \in Procs, ReadDone(p)
  PROVE  IInv'
<1> USE DEF IInv
<1> None \notin Procs /\ Writers \intersect Readers = {} /\ Sizes \subseteq Nat
  BY Zenon DEF PipeConstants, Procs
<1>0. /\ (Empty' <=> Empty) /\ (Full' <=> Full) /\ Used' = Used
      /\ data' = data /\ nread' = nread /\ nwrite' = nwrite
      /\ UNCHANGED <<readopen, writeopen, fds, freed, killed>>
  BY SameRing, Zenon DEF ReadDone, ends
<1>1. /\ lock = p /\ pc[p] = "copying" /\ p \in Readers
      /\ lock' = None /\ pc' = [WakeWriters(pc) EXCEPT ![p] = "user"]
      /\ n' = [n EXCEPT ![p] = 0] /\ i' = [i EXCEPT ![p] = 0]
  BY Zenon DEF ReadDone, Leave, Holds, Places, WriterAt, Procs
<1>2. pc' = [q \in Procs |-> IF q = p THEN "user" ELSE
                            IF pc[q] = "write_asleep" THEN "write" ELSE pc[q]]
  BY <1>1, Zenon DEF WakeWriters, Wake
<1>3. TypeOK'
  BY <1>0, <1>1, <1>2, ZenonT(30) DEF TypeOK
<1>4. Places'
  BY <1>0, <1>1, <1>2 DEF TypeOK, Places, WriterAt, ReaderAt, Procs
<1>5. Locked'
  BY <1>0, <1>1, <1>2, SMTT(30) DEF TypeOK, Locked, LockHeld, Procs
<1>6. Referenced'
  BY <1>0, <1>1, <1>2 DEF TypeOK, Referenced, Closing, End, Open, Procs
<1>7. Closed'
  BY <1>0, <1>1, <1>2, Zenon DEF TypeOK, Closed, Closing, End, Open, Procs
<1>8. Found'
  <2> SUFFICES ASSUME NEW q \in Procs PROVE FoundBy(q)'
    BY DEF Found
  <2>1. CASE q = p
    <3>1. i'[p] <= n'[p]
      BY <1>0, <1>1 DEF TypeOK, Found, FoundBy
    <3> QED
      BY <1>0, <1>1, <1>2, <2>1, <3>1, ZenonT(30) DEF TypeOK, FoundBy
  <2>2. CASE q # p
    <3>1. i'[q] = i[q] /\ n'[q] = n[q] /\ FoundBy(q)
      BY <1>0, <1>1, <2>2, Zenon DEF TypeOK, Found
    <3> QED
      BY <1>0, <1>1, <1>2, <2>2, <3>1, ZenonT(30) DEF TypeOK, FoundBy
  <2> QED
    BY <2>1, <2>2
<1>9. SleepersHaveWaker'
  BY <1>0, <1>1, <1>2, SMTT(30) DEF TypeOK, SleepersHaveWaker, Procs
<1> QED
  BY <1>3, <1>4, <1>5, <1>6, <1>7, <1>8, <1>9

\* fileclose(): the last reference to an end goes on to pipeclose().
LEMMA FileCloseInv ==
  ASSUME PipeConstants, IInv, NEW p \in Procs, FileClose(p)
  PROVE  IInv'
<1> USE DEF IInv
<1> None \notin Procs /\ Writers \intersect Readers = {} /\ Sizes \subseteq Nat
  BY Zenon DEF PipeConstants, Procs
<1>0. /\ (Empty' <=> Empty) /\ (Full' <=> Full) /\ Used' = Used
      /\ data' = data /\ nread' = nread /\ nwrite' = nwrite
      /\ UNCHANGED <<readopen, writeopen, freed, lock, n, i, killed>>
  BY SameRing, Zenon DEF FileClose
<1>1. /\ p \in fds /\ pc[p] = "user" /\ fds' = fds \ {p}
      /\ \/ pc' = pc
         \/ pc' = [pc EXCEPT ![p] = "close"] /\ fds' \intersect End(p) = {}
  BY Zenon DEF FileClose, Goto, End
<1>2. TypeOK'
  BY <1>0, <1>1, Zenon DEF TypeOK
<1>3. Places'
  BY <1>0, <1>1, Zenon DEF TypeOK, Places, WriterAt, ReaderAt, Procs
<1>4. Locked'
  BY <1>0, <1>1, SMTT(30) DEF TypeOK, Locked, LockHeld, Procs
<1>5. Referenced'
  BY <1>0, <1>1 DEF TypeOK, Closed, Referenced, Closing, End, Open, Procs
<1>6. Closed'
  BY <1>0, <1>1 DEF TypeOK, Closed, Closing, End, Open, Procs
<1>7. Found'
  BY <1>0, <1>1 DEF TypeOK, Found, FoundBy
<1>8. SleepersHaveWaker'
  BY <1>0, <1>1, SMTT(30) DEF TypeOK, SleepersHaveWaker, Procs
<1> QED
  BY <1>2, <1>3, <1>4, <1>5, <1>6, <1>7, <1>8

\* pipeclose() shuts an end, wakes the other one, and may free the page.
LEMMA PipeCloseInv ==
  ASSUME PipeConstants, IInv, NEW p \in Procs, PipeClose(p)
  PROVE  IInv'
<1> USE DEF IInv
<1> None \notin Procs /\ Writers \intersect Readers = {} /\ Sizes \subseteq Nat
  BY DEF PipeConstants, Procs
<1>0. /\ (Empty' <=> Empty) /\ (Full' <=> Full) /\ Used' = Used
      /\ data' = data /\ nread' = nread /\ nwrite' = nwrite
      /\ UNCHANGED <<fds, killed>>
  BY SameRing, Zenon DEF PipeClose
<1>1. /\ lock = p /\ pc[p] = "closing" /\ lock' = None
      /\ n' = [n EXCEPT ![p] = 0] /\ i' = [i EXCEPT ![p] = 0]
      /\ writeopen' = IF p \in Writers THEN FALSE ELSE writeopen
      /\ readopen' = IF p \in Writers THEN readopen ELSE FALSE
      /\ freed' = (~readopen' /\ ~writeopen') /\ freed' \in BOOLEAN
      /\ pc' = [IF p \in Writers THEN WakeReaders(pc) ELSE WakeWriters(pc) EXCEPT ![p] = "user"]
  BY Zenon DEF PipeClose, Leave, Holds, BothClosed
<1>2. pc' = [q \in Procs |-> IF q = p THEN "user" ELSE
                            IF p \in Writers /\ pc[q] = "read_asleep" THEN "read" ELSE
                            IF p \notin Writers /\ pc[q] = "write_asleep" THEN "write" ELSE pc[q]]
  BY <1>1, Zenon DEF WakeReaders, WakeWriters, Wake
<1>3. TypeOK'
  BY <1>0, <1>1, <1>2, Zenon DEF TypeOK
<1>4. Places'
  BY <1>0, <1>1, <1>2, ZenonT(30) DEF TypeOK, Places, WriterAt, ReaderAt, Procs
<1>5. Locked'
  BY <1>0, <1>1, <1>2, SMTT(30) DEF TypeOK, Locked, LockHeld, Procs
<1>6. Referenced'
  BY <1>0, <1>1, <1>2, SMTT(30) DEF TypeOK, Referenced, Closing, End, Open, Procs
<1>7. Closed'
  BY <1>0, <1>1, <1>2, Zenon DEF TypeOK, Closed, Referenced, Closing, End, Open, Procs
<1>8. Found'
  <2> SUFFICES ASSUME NEW q \in Procs PROVE FoundBy(q)'
    BY DEF Found
  <2>1. CASE q = p
    <3>1. i'[p] <= n'[p]
      BY <1>0, <1>1 DEF TypeOK, Found, FoundBy
    <3> QED
      BY <1>0, <1>1, <1>2, <2>1, <3>1, ZenonT(30) DEF TypeOK, FoundBy
  <2>2. CASE q # p
    <3>1. i'[q] = i[q] /\ n'[q] = n[q] /\ FoundBy(q)
      BY <1>0, <1>1, <2>2, Zenon DEF TypeOK, Found
    <3> QED
      BY <1>0, <1>1, <1>2, <2>2, <3>1, Alone, ZenonT(30) DEF TypeOK, FoundBy, LockHeld
  <2> QED
    BY <2>1, <2>2
<1>9. SleepersHaveWaker'
  BY <1>0, <1>1, <1>2, Zenon DEF TypeOK, SleepersHaveWaker, Procs
<1> QED
  BY <1>3, <1>4, <1>5, <1>6, <1>7, <1>8, <1>9

\* kill() marks a process and wakes it if it sleeps.
LEMMA KillInv ==
  ASSUME PipeConstants, IInv, NEW p \in Procs, Kill(p)
  PROVE  IInv'
<1> USE DEF IInv
<1> None \notin Procs /\ Writers \intersect Readers = {} /\ Sizes \subseteq Nat
  BY DEF PipeConstants, Procs
<1>0. /\ (Empty' <=> Empty) /\ (Full' <=> Full) /\ Used' = Used
      /\ data' = data /\ nread' = nread /\ nwrite' = nwrite
      /\ UNCHANGED <<readopen, writeopen, fds, freed, lock, n, i>>
  BY SameRing, Zenon DEF Kill, ends
<1>1. PICK x : /\ pc' = [pc EXCEPT ![p] = x]
               /\ x = CASE pc[p] = "write_asleep" -> "write"
                        [] pc[p] = "read_asleep"  -> "read"
                        [] OTHER                  -> pc[p]
  BY Zenon DEF Kill, TypeOK
<1>2. /\ killed' = [killed EXCEPT ![p] = TRUE]
      /\ pc[p] = "write_asleep" => x = "write"
      /\ pc[p] = "read_asleep" => x = "read"
      /\ pc[p] \notin {"write_asleep", "read_asleep"} => x = pc[p]
  BY <1>1, Zenon DEF Kill
<1>3. TypeOK'
  BY <1>0, <1>1, <1>2, Zenon DEF TypeOK
<1>4. Places'
  BY <1>0, <1>1, <1>2, Zenon DEF TypeOK, Places, WriterAt, ReaderAt, Procs
<1>5. Locked'
  BY <1>0, <1>1, <1>2, Zenon DEF TypeOK, Locked, LockHeld, Procs
<1>6. Referenced'
  BY <1>0, <1>1, <1>2, Zenon DEF TypeOK, Referenced, Closing, End, Open, Procs
<1>7. Closed'
  BY <1>0, <1>1, <1>2, Zenon DEF TypeOK, Closed, Closing, End, Open, Procs
<1>8. Found'
  BY <1>0, <1>1, <1>2, Zenon DEF TypeOK, Found, FoundBy
<1>9. SleepersHaveWaker'
  BY <1>0, <1>1, <1>2, Zenon DEF TypeOK, SleepersHaveWaker, Procs
<1> QED
  BY <1>3, <1>4, <1>5, <1>6, <1>7, <1>8, <1>9

\* pipewrite() puts a byte into the ring.
LEMMA WriteByteInv ==
  ASSUME PipeConstants, IInv, NEW p \in Procs, NEW b \in Bytes, WriteByte(p, b)
  PROVE  IInv'
<1> USE DEF IInv
<1> None \notin Procs /\ Writers \intersect Readers = {} /\ Sizes \subseteq Nat
  BY DEF PipeConstants, Procs
<1>0. /\ data' = [data EXCEPT ![nwrite % PIPESIZE] = b]
      /\ UNCHANGED <<nread, readopen, writeopen, fds, freed, lock, pc, n, killed>>
  BY Zenon DEF WriteByte, ends
<1>1. /\ lock = p /\ pc[p] = "writing" /\ p \in Writers /\ i[p] < n[p]
      /\ i' = [i EXCEPT ![p] = i[p] + 1]
  BY Zenon DEF WriteByte, Holds, Places, ReaderAt, Procs
<1>2. Used' = Used + 1 /\ nwrite' \in 0 .. WRAP - 1 /\ Used' <= PIPESIZE
  BY OneMore, Tests DEF WriteByte, ends, PipeConstants
<1>3. \A q \in Procs : q # p => pc[q] \notin LockHeld
  BY <1>1, Alone, Zenon
<1>4. i' \in [Procs -> Nat] /\ i'[p] <= n[p]
  <2>1. i[p] \in Nat /\ n[p] \in Sizes \union {0}
    BY Zenon DEF TypeOK
  <2>2. Sizes \union {0} \subseteq Nat
    OBVIOUS
  <2>3. n[p] \in Nat
    BY <2>1, <2>2, Zenon
  <2> QED
    BY <1>1, <2>1, <2>3 DEF TypeOK
<1>5. TypeOK'
  BY <1>0, <1>1, <1>2, <1>4, ZenonT(30) DEF TypeOK
<1>6. (Places /\ Locked /\ Referenced /\ Closed)'
  BY <1>0, Zenon DEF Places, Locked, Referenced, Closed, Open
<1>7. Found'
  <2> SUFFICES ASSUME NEW q \in Procs PROVE FoundBy(q)'
    BY Zenon DEF Found
  <2>1. CASE q = p
    BY <1>0, <1>1, <1>4, <2>1, Zenon DEF FoundBy
  <2>2. CASE q # p
    BY <1>0, <1>1, <1>3, <2>2, Zenon DEF TypeOK, Found, FoundBy, LockHeld
  <2> QED
    BY <2>1, <2>2
<1>8. SleepersHaveWaker'
  <2>1. ~Full
    BY Zenon DEF WriteByte
  <2>2. \A q \in Readers : pc[q] # "copying"
    BY <1>1, <1>3, Zenon DEF LockHeld, Procs
  <2> QED
    BY <1>0, <1>1, <2>1, <2>2, Zenon DEF SleepersHaveWaker
<1> QED
  BY <1>5, <1>6, <1>7, <1>8

\* piperead() takes a byte out of the ring.
LEMMA ReadByteInv ==
  ASSUME PipeConstants, IInv, NEW p \in Procs, ReadByte(p)
  PROVE  IInv'
<1> USE DEF IInv
<1> None \notin Procs /\ Writers \intersect Readers = {} /\ Sizes \subseteq Nat
  BY DEF PipeConstants, Procs
<1>0. UNCHANGED <<data, nwrite, readopen, writeopen, fds, freed, lock, pc, n, killed>>
  BY Zenon DEF ReadByte, ends
<1>1. /\ lock = p /\ pc[p] = "copying" /\ p \in Readers /\ i[p] < n[p]
      /\ i' = [i EXCEPT ![p] = i[p] + 1]
  BY Zenon DEF ReadByte, Holds, Places, WriterAt, Procs
<1>2. Used' = Used - 1 /\ nread' \in 0 .. WRAP - 1 /\ Used' <= PIPESIZE
  BY OneLess, Tests DEF ReadByte, ends, PipeConstants
<1>3. \A q \in Procs : q # p => pc[q] \notin LockHeld
  BY <1>1, Alone, Zenon
<1>4. i' \in [Procs -> Nat] /\ i'[p] <= n[p] /\ i'[p] # 0
  <2>1. i[p] \in Nat /\ n[p] \in Sizes \union {0}
    BY Zenon DEF TypeOK
  <2>2. Sizes \union {0} \subseteq Nat
    OBVIOUS
  <2>3. n[p] \in Nat
    BY <2>1, <2>2, ZenonT(30)
  <2> QED
    BY <1>1, <2>1, <2>3 DEF TypeOK
<1>5. TypeOK'
  BY <1>0, <1>1, <1>2, <1>4, Zenon DEF TypeOK
<1>6. (Places /\ Locked /\ Referenced /\ Closed)'
  BY <1>0, Zenon DEF Places, Locked, Referenced, Closed, Open
<1>7. Found'
  <2> SUFFICES ASSUME NEW q \in Procs PROVE FoundBy(q)'
    BY DEF Found
  <2>1. CASE q = p
    BY <1>0, <1>1, <1>4, <2>1, Zenon DEF FoundBy
  <2>2. CASE q # p
    BY <1>0, <1>1, <1>3, <2>2, Zenon DEF TypeOK, Found, FoundBy, LockHeld
  <2> QED
    BY <2>1, <2>2
<1>8. SleepersHaveWaker'
  <2>1. ~Empty
    BY Zenon DEF ReadByte
  <2>2. \A q \in Writers : pc[q] \notin {"writing", "write_sleep"}
    BY <1>1, <1>3, Zenon DEF LockHeld, Procs
  <2> QED
    BY <1>0, <1>1, <2>1, <2>2, Zenon DEF SleepersHaveWaker
<1> QED
  BY <1>5, <1>6, <1>7, <1>8

\* A new pipe satisfies the invariant.
LEMMA InitInv == PipeConstants /\ Init => IInv
<1> SUFFICES ASSUME PipeConstants, Init PROVE IInv
  OBVIOUS
<1>1. WRAP \in Nat \ {0} /\ PIPESIZE \in Nat \ {0} /\ None \notin Procs
  BY DEF PipeConstants, Procs
<1>2. Used = 0
  BY <1>1, DistanceIs DEF Init, Used
<1>3. (CHOOSE b \in Bytes : TRUE) \in Bytes
  BY DEF PipeConstants
<1>4. TypeOK
  <2>1. data \in [0 .. PIPESIZE - 1 -> Bytes]
    BY <1>3, Zenon DEF Init
  <2>2. nread \in 0 .. WRAP - 1 /\ nwrite \in 0 .. WRAP - 1 /\ Used <= PIPESIZE
    BY <1>1, <1>2 DEF Init
  <2>3. n \in [Procs -> Sizes \union {0}] /\ i \in [Procs -> Nat]
    BY Zenon DEF Init
  <2> QED
    BY <2>1, <2>2, <2>3, Zenon DEF Init, TypeOK
<1>5. Places /\ Locked /\ Referenced /\ Closed
  BY <1>1, Zenon DEF Init, Places, Locked, Referenced, Closed, WriterAt, ReaderAt, LockHeld,
              Closing, Open, Procs
<1>6. Found /\ SleepersHaveWaker
  BY DEF Init, Found, FoundBy, SleepersHaveWaker, Empty, Procs
<1> QED
  BY <1>4, <1>5, <1>6 DEF IInv

\* Every step preserves the invariant.
LEMMA NextInv == PipeConstants /\ IInv /\ [Next]_vars => IInv'
<1> SUFFICES ASSUME PipeConstants, IInv, [Next]_vars PROVE IInv'
  BY Zenon
<1>1. CASE UNCHANGED vars
  <2>1. UNCHANGED ring
    BY <1>1 DEF vars, ring
  <2> QED
    BY <1>1, <2>1, SameRing, Zenon
    DEF vars, IInv, TypeOK, Places, Locked, Referenced, Closed, Found, FoundBy,
        SleepersHaveWaker, Open
<1>2. ASSUME NEW p \in Procs, Inside(p) PROVE IInv'
  BY <1>2, AcquireInv, WriteByteInv, WriteFullInv, WriteSleepInv, WriteDoneInv, ReadEmptyInv,
     ReadSleepInv, ReadReadyInv, ReadByteInv, ReadDoneInv, PipeCloseInv, Zenon DEF Inside
<1>3. ASSUME NEW p \in Procs, Calls(p) PROVE IInv'
  BY <1>3, CallInv, FileCloseInv DEF Calls
<1> QED
  BY <1>1, <1>2, <1>3, KillInv DEF Next


----------------------------------------------------------------------------
(* Theorems                                                                *)

\* The invariant holds always.
THEOREM Invariance == ASSUME PipeConstants PROVE Spec => []IInv
<1>1. Init => IInv
  BY InitInv
<1>2. IInv /\ [Next]_vars => IInv'
  BY NextInv
<1> QED
  BY <1>1, <1>2, PTL DEF Spec

\* The counters of a pipe stay within PIPESIZE of each other, and pipeclose()
\* frees the page only when no process is inside a call or can start one.
THEOREM NeverFreedInUse == ASSUME PipeConstants PROVE Spec => []PipeIsKept
<1>1. IInv => PipeIsKept
  <2> SUFFICES ASSUME IInv PROVE TypeOK /\ NoUseAfterFree
    BY DEF PipeIsKept
  <2>1. ASSUME freed, NEW p \in Procs PROVE pc[p] = "user" /\ p \notin fds
    BY <2>1, Zenon DEF IInv, TypeOK, Closed, Referenced, End, Open, Procs
  <2>2. ASSUME freed PROVE lock = None
    BY <2>1, <2>2, Zenon DEF IInv, TypeOK, Locked, LockHeld
  <2> QED
    BY <2>1, <2>2 DEF IInv, NoUseAfterFree
<1> QED
  BY <1>1, Invariance, PTL

\* Nobody sleeps in pipewrite() or piperead() over what has already happened.
THEOREM NoWakeupIsLost == ASSUME PipeConstants PROVE Spec => []NoLostWakeup
<1>1. IInv => NoLostWakeup
  <2> SUFFICES ASSUME IInv, lock = None PROVE NoLostWakeup
    BY Zenon DEF NoLostWakeup
  <2>1. \A q \in Procs : pc[q] \notin LockHeld
    BY Zenon DEF IInv, Locked, PipeConstants, Procs
  <2>2. /\ \A q \in Writers : pc[q] \notin {"writing", "write_sleep"}
        /\ \A q \in Readers : pc[q] # "copying"
    BY <2>1 DEF LockHeld, Procs
  <2> QED
    BY <2>2, Zenon DEF IInv, SleepersHaveWaker, NoLostWakeup
<1> QED
  BY <1>1, Invariance, PTL

\* piperead() returns 0 for a positive n only when the writing end is closed:
\* what it saw before the copying loop still holds when the loop ends.
THEOREM EOFMeansClosed == ASSUME PipeConstants PROVE Spec => NoFalseEOF
<1> DEFINE Told == \A p \in Readers :
             pc[p] = "copying" /\ pc'[p] = "user" /\ i[p] = 0 /\ n[p] > 0 => ~writeopen
<1>1. IInv /\ [Next]_vars => [Told]_vars
  <2> SUFFICES ASSUME IInv, Next, NEW p \in Readers, pc[p] = "copying", pc'[p] = "user",
                      i[p] = 0, n[p] > 0
               PROVE  ~writeopen
    BY Zenon DEF vars
  <2>1. p \in Procs /\ lock = p /\ None # p
    BY Zenon DEF IInv, Locked, LockHeld, Procs, PipeConstants
  <2>2. PICK q \in Procs : Inside(q) \/ Calls(q) \/ Kill(q)
    BY DEF Next
  <2>3. ~Calls(q)
    BY <2>1, Zenon DEF Calls, WriteCall, ReadCall, FileClose, Goto, IInv, TypeOK
  <2>4. ~Kill(q)
    BY <2>1, Zenon DEF Kill, IInv, TypeOK
  <2>5. q = p
    BY <2>1, <2>2, <2>3, <2>4, Zenon
    DEF Inside, Acquire, WriteByte, WriteFull, WriteSleep, WriteDone, ReadEmpty, ReadSleep,
        ReadReady, ReadByte, ReadDone, PipeClose, Holds
  <2>6. ReadByte(p) \/ ReadDone(p)
    BY <2>1, <2>2, <2>3, <2>4, <2>5, ZenonT(30)
    DEF Inside, Acquire, WriteByte, WriteFull, WriteSleep, WriteDone, ReadEmpty, ReadSleep,
        ReadReady, PipeClose, Holds
  <2>7. ReadDone(p)
    BY <2>6, Zenon DEF ReadByte
  <2>8. Empty
    BY <2>7 DEF ReadDone
  <2> QED
    BY <2>1, <2>8, Zenon DEF IInv, Found, FoundBy
<1> QED
  BY <1>1, Invariance, PTL DEF NoFalseEOF, Spec

----------------------------------------------------------------------------
(* The ring implements the stream                                          *)

\* The bytes in the ring form a sequence of that many bytes.
BytesInRing == /\ Contents \in Seq(Bytes) /\ Len(Contents) = Used /\ Used \in Nat
               /\ \A k \in 1 .. Used : Contents[k] = data[(nread + k - 1) % PIPESIZE]

\* Two sequences of the same length with the same elements are the same.
LEMMA SeqEqual ==
  ASSUME NEW S, NEW s \in Seq(S), NEW t \in Seq(S), Len(s) = Len(t),
         \A k \in 1 .. Len(s) : s[k] = t[k]
  PROVE  s = t
OBVIOUS

\* The ring holds Used bytes, from the place of nread on.
LEMMA ContentsIs == PipeConstants /\ TypeOK => BytesInRing
<1> SUFFICES ASSUME PipeConstants, TypeOK PROVE BytesInRing
  OBVIOUS
<1>1. Used \in Nat
  BY Tests DEF PipeConstants
<1>2. ASSUME NEW k \in 1 .. Used PROVE data[(nread + k - 1) % PIPESIZE] \in Bytes
  <2> DEFINE x == nread + k - 1
  <2>1. x \in Nat /\ PIPESIZE \in Nat \ {0}
    BY <1>1 DEF TypeOK, PipeConstants
  <2>2. x % PIPESIZE \in 0 .. PIPESIZE - 1
    <3> HIDE DEF x
    <3> QED
      BY <2>1, DivMod
  <2> QED
    BY <2>2, Zenon DEF TypeOK
<1>3. Contents \in [1 .. Used -> Bytes]
  BY <1>2, Zenon DEF Contents
<1>4. Contents \in Seq(Bytes)
  BY <1>1, <1>3
<1>5. Len(Contents) = Used
  BY <1>1, <1>3, <1>4
<1> QED
  BY <1>1, <1>4, <1>5, Zenon DEF Contents, BytesInRing

\* The same in the next state.
LEMMA NextContentsIs == PipeConstants /\ TypeOK' => BytesInRing'
<1>1. PipeConstants => PipeConstants'
  BY DEF PipeConstants
<1> QED
  BY <1>1, ContentsIs, PTL

\* pipewrite() appends a byte: the slot it fills holds none of the others, and
\* is the one after the last of them, also where the counters wrap around.
LEMMA PutByte ==
  ASSUME PipeConstants, IInv, IInv', NEW p \in Procs, NEW b \in Bytes, WriteByte(p, b)
  PROVE  Contents' = Append(Contents, b) /\ Len(Contents) < PIPESIZE
<1>1. /\ PIPESIZE \in Nat \ {0} /\ WRAP \in Nat \ {0} /\ PIPESIZE < WRAP
      /\ WRAP % PIPESIZE = 0 /\ nread \in 0 .. WRAP - 1 /\ nwrite \in 0 .. WRAP - 1
      /\ nread' = nread /\ data' = [data EXCEPT ![nwrite % PIPESIZE] = b]
      /\ data \in [0 .. PIPESIZE - 1 -> Bytes]
  BY DEF PipeConstants, IInv, TypeOK, WriteByte
<1>2. Used' = Used + 1 /\ Used \in Nat /\ Used < PIPESIZE
  BY <1>1, OneMore, Tests DEF IInv, WriteByte, ends
<1>3. Used = IF nread <= nwrite THEN nwrite - nread ELSE nwrite - nread + WRAP
  BY Tests, Zenon DEF IInv
<1>4. nwrite % PIPESIZE = (nread + Used) % PIPESIZE
  <2>1. CASE nread <= nwrite
    BY <1>1, <1>3, <2>1
  <2>2. CASE ~(nread <= nwrite)
    <3>1. nread + Used = nwrite + WRAP
      BY <1>1, <1>3, <2>2
    <3>2. nwrite \in Nat /\ WRAP \in Nat
      BY <1>1
    <3>3. (nwrite + WRAP) % PIPESIZE = nwrite % PIPESIZE
      BY <1>1, <3>2, ModShift, Zenon
    <3> QED
      BY <3>1, <3>3
  <2> QED
    BY <2>1, <2>2
<1>5. nwrite % PIPESIZE \in 0 .. PIPESIZE - 1
  BY <1>1, DivMod
<1>6. /\ Contents \in Seq(Bytes) /\ Len(Contents) = Used
      /\ \A k \in 1 .. Used : Contents[k] = data[(nread + k - 1) % PIPESIZE]
  BY ContentsIs, Zenon DEF IInv, BytesInRing
<1>7. /\ Contents' \in Seq(Bytes) /\ Len(Contents') = Used + 1
      /\ \A k \in 1 .. Used + 1 : Contents'[k] = data'[(nread + k - 1) % PIPESIZE]
  <2>1. /\ Contents' \in Seq(Bytes) /\ Len(Contents') = Used'
        /\ \A k \in 1 .. Used' : Contents'[k] = data'[(nread' + k - 1) % PIPESIZE]
    BY NextContentsIs, Zenon DEF IInv, BytesInRing
  <2> QED
    BY <1>1, <1>2, <2>1, Zenon
<1>8. ASSUME NEW k \in 1 .. Used PROVE Contents'[k] = Contents[k]
  <2> DEFINE x == nread + k - 1
             y == nread + Used
  <2>1. x \in Nat /\ y \in Nat /\ x < y /\ y < x + PIPESIZE
    BY <1>1, <1>2
  <2>2. x % PIPESIZE # y % PIPESIZE /\ x % PIPESIZE \in 0 .. PIPESIZE - 1
    <3> HIDE DEF x, y
    <3> QED
      BY <1>1, <2>1, ModDistinct, DivMod, Zenon
  <2>3. data'[x % PIPESIZE] = data[x % PIPESIZE]
    BY <1>1, <1>4, <2>2, Zenon
  <2> QED
    BY <1>2, <1>6, <1>7, <2>3
<1>9. Contents'[Used + 1] = b
  BY <1>1, <1>2, <1>4, <1>5, <1>7, SMTT(30)
<1>10. Contents' = Append(Contents, b)
  <2>1. /\ Append(Contents, b) \in Seq(Bytes) /\ Len(Append(Contents, b)) = Used + 1
        /\ \A k \in 1 .. Used : Append(Contents, b)[k] = Contents[k]
        /\ Append(Contents, b)[Used + 1] = b
    BY <1>2, <1>6
  <2>2. \A k \in 1 .. Used + 1 : Contents'[k] = Append(Contents, b)[k]
    BY <1>2, <1>8, <1>9, <2>1, SMTT(30)
  <2> QED
    BY <1>7, <2>1, <2>2, SeqEqual, Zenon
<1> QED
  BY <1>2, <1>6, <1>10, Zenon

\* piperead() takes the first byte.
LEMMA GetByte ==
  ASSUME PipeConstants, IInv, IInv', NEW p \in Procs, ReadByte(p)
  PROVE  Contents' = Tail(Contents) /\ Contents # <<>>
<1>1. /\ PIPESIZE \in Nat \ {0} /\ WRAP \in Nat \ {0} /\ PIPESIZE < WRAP
      /\ WRAP % PIPESIZE = 0 /\ nread \in 0 .. WRAP - 1 /\ nwrite \in 0 .. WRAP - 1
      /\ data' = data /\ nread' = (nread + 1) % WRAP
  BY DEF PipeConstants, IInv, TypeOK, ReadByte
<1>2. Used' = Used - 1 /\ Used \in Nat \ {0}
  BY <1>1, OneLess, Tests DEF IInv, ReadByte, ends
<1>3. nread' = IF nread = WRAP - 1 THEN 0 ELSE nread + 1
  BY <1>1, NextCounter
<1>4. /\ Contents \in Seq(Bytes) /\ Len(Contents) = Used
      /\ \A k \in 1 .. Used : Contents[k] = data[(nread + k - 1) % PIPESIZE]
  BY ContentsIs, Zenon DEF IInv, BytesInRing
<1>5. /\ Contents' \in Seq(Bytes) /\ Len(Contents') = Used - 1
      /\ \A k \in 1 .. Used - 1 : Contents'[k] = data[(nread' + k - 1) % PIPESIZE]
  <2>1. /\ Contents' \in Seq(Bytes) /\ Len(Contents') = Used'
        /\ \A k \in 1 .. Used' : Contents'[k] = data'[(nread' + k - 1) % PIPESIZE]
    BY NextContentsIs, Zenon DEF IInv, BytesInRing
  <2> QED
    BY <1>1, <1>2, <2>1, Zenon
<1>6. Contents # <<>>
  BY <1>2, <1>4, Zenon
<1>7. ASSUME NEW k \in 1 .. Used - 1 PROVE Contents'[k] = Contents[k + 1]
  <2>1. (nread' + k - 1) % PIPESIZE = (nread + k) % PIPESIZE
    <3>1. CASE nread = WRAP - 1
      <4>1. nread' + k - 1 = k - 1 /\ nread + k = (k - 1) + WRAP /\ k - 1 \in Nat
        BY <1>1, <1>2, <1>3, <3>1
      <4> DEFINE x == k - 1
      <4>2. (x + WRAP) % PIPESIZE = x % PIPESIZE
        <5> HIDE DEF x
        <5> QED
          BY <1>1, <4>1, ModShift, Zenon DEF x
      <4> QED
        BY <4>1, <4>2
    <3>2. CASE nread # WRAP - 1
      <4>1. nread' + k - 1 = nread + k
        BY <1>1, <1>2, <1>3, <3>2
      <4> QED
        BY <4>1
    <3> QED
      BY <3>1, <3>2, Zenon
  <2>2. k + 1 \in 1 .. Used /\ nread + (k + 1) - 1 = nread + k
    BY <1>1, <1>2
  <2> QED
    BY <1>4, <1>5, <2>1, <2>2
<1>8. /\ Tail(Contents) \in Seq(Bytes) /\ Len(Tail(Contents)) = Used - 1
      /\ \A k \in 1 .. Used - 1 : Tail(Contents)[k] = Contents[k + 1]
  BY <1>4, <1>6
<1> QED
  BY <1>5, <1>6, <1>7, <1>8, SeqEqual, Zenon

\* Whoever is inside pipewrite() or piperead() has its end open.
LEMMA OpenInside ==
  ASSUME IInv, NEW p \in Procs, pc[p] \notin Closing \union {"user"}
  PROVE  Open(p)
  BY Zenon DEF IInv, Referenced, Closed, End, Procs

\* Every step of the pipe is a step of the stream or leaves it alone.
LEMMA StreamStep ==
  PipeConstants /\ IInv /\ IInv' /\ [Next]_vars => [Stream!BSNext]_(Stream!bsvars)
<1> SUFFICES ASSUME PipeConstants, IInv, IInv', [Next]_vars
             PROVE  [Stream!BSNext]_(Stream!bsvars)
  OBVIOUS
<1>1. ASSUME UNCHANGED ring, UNCHANGED <<readopen, writeopen>>
      PROVE  UNCHANGED Stream!bsvars
  BY <1>1 DEF ring, Stream!bsvars, Contents, Used
<1>2. ASSUME NEW p \in Procs, NEW b \in Bytes, WriteByte(p, b)
      PROVE  Stream!Put(b)
  <2>1. p \in Writers /\ writeopen
    BY <1>2, OpenInside, Zenon DEF IInv, Places, ReaderAt, Closing, Open, Procs, WriteByte, Holds
  <2>2. UNCHANGED <<readopen, writeopen>>
    BY <1>2, Zenon DEF WriteByte, ends
  <2> QED
    BY <1>2, <2>1, <2>2, PutByte, Zenon DEF Stream!Put
<1>3. ASSUME NEW p \in Procs, ReadByte(p)
      PROVE  Stream!Get
  <2>1. p \in Readers /\ p \notin Writers /\ readopen
    BY <1>3, OpenInside, Zenon DEF IInv, Places, WriterAt, Closing, Open, Procs, ReadByte, Holds
  <2>2. UNCHANGED <<readopen, writeopen>>
    BY <1>3, Zenon DEF ReadByte, ends
  <2> QED
    BY <1>3, <2>1, <2>2, GetByte, Zenon DEF Stream!Get
<1>4. ASSUME NEW p \in Procs, PipeClose(p)
      PROVE  Stream!CloseRead \/ Stream!CloseWrite
  <2>1. Open(p)
    BY <1>4, Zenon DEF IInv, Referenced, Closing, PipeClose, Holds
  <2>2. Contents' = Contents
    BY <1>4, Zenon DEF PipeClose, ring, Contents, Used
  <2> QED
    BY <1>4, <2>1, <2>2, Zenon DEF PipeClose, Open, Stream!CloseRead, Stream!CloseWrite
<1>5. ASSUME NEW p \in Procs, Inside(p)
      PROVE  Stream!BSNext \/ UNCHANGED Stream!bsvars
  <2>1. CASE (\E b \in Bytes : WriteByte(p, b)) \/ ReadByte(p) \/ PipeClose(p)
    BY <1>2, <1>3, <1>4, <2>1 DEF Stream!BSNext
  <2>2. CASE \/ Acquire(p) \/ WriteFull(p) \/ WriteSleep(p) \/ WriteDone(p)
             \/ ReadEmpty(p) \/ ReadSleep(p) \/ ReadReady(p) \/ ReadDone(p)
    <3>1. UNCHANGED ring /\ UNCHANGED <<readopen, writeopen>>
      BY <2>2, Zenon DEF Acquire, WriteFull, WriteSleep, WriteDone, ReadEmpty, ReadSleep, ReadReady,
                  ReadDone, ends
    <3> QED
      BY <1>1, <3>1, Zenon
  <2> QED
    BY <1>5, <2>1, <2>2, Zenon DEF Inside
<1>6. ASSUME NEW p \in Procs, Calls(p) \/ Kill(p)
      PROVE  UNCHANGED Stream!bsvars
  <2>1. UNCHANGED ring /\ UNCHANGED <<readopen, writeopen>>
    BY <1>6, Zenon DEF Calls, WriteCall, ReadCall, FileClose, Kill, ends
  <2> QED
    BY <1>1, <2>1
<1>7. CASE UNCHANGED vars
  <2>1. UNCHANGED ring /\ UNCHANGED <<readopen, writeopen>>
    BY <1>7 DEF vars, ring
  <2> QED
    BY <1>1, <2>1
<1> QED
  BY <1>5, <1>6, <1>7 DEF Next

\* A pipe implements the stream of ByteStream: nothing is lost, repeated,
\* reordered or overwritten unread, across the wrap-around of the indices and
\* of the counters.
THEOREM ImplementsStream == ASSUME PipeConstants PROVE Spec => PipeIsStream
<1>1. Init => Stream!BSInit
  <2> SUFFICES ASSUME Init PROVE Stream!BSInit
    OBVIOUS
  <2>1. TypeOK /\ nread = nwrite
    BY InitInv, Zenon DEF IInv, Init
  <2>2. Contents \in Seq(Bytes) /\ Len(Contents) = 0
    BY <2>1, ContentsIs, Tests, Zenon DEF BytesInRing, Empty
  <2>3. Contents = <<>>
    BY <2>2
  <2> QED
    BY <2>3 DEF Init, Stream!BSInit
<1>2. IInv /\ IInv' /\ [Next]_vars => [Stream!BSNext]_(Stream!bsvars)
  BY StreamStep
<1> QED
  BY <1>1, <1>2, Invariance, PTL DEF Spec, PipeIsStream, Stream!BSSpec

=============================================================================
