--------------------------- MODULE SpinlockProofs ---------------------------
(***************************************************************************)
(* The spin locks for any number of CPUs, any paths and any handlers: no   *)
(* panic in acquire(), release() or popcli(), interrupts come back as they *)
(* were, and no deadlock unless scheduler() prints with ptable.lock held.  *)
(*                                                                         *)
(* The argument has two halves.  Of each path the code takes, it is shown  *)
(* which locks are held before every operation (Nests); the invariant then *)
(* says that a CPU holds exactly the locks its place in the path tells, and *)
(* that ncli counts them.                                                  *)
(***************************************************************************)
EXTENDS MCSpinlock, TLAPS

LockOps == {"acquire", "release"} \X Locks

\* Operation op is right when the locks A are held, and leaves B held: no path
\* holds more than two.  In a strict path only ptable.lock is acquired while
\* another lock is held.
Fits(op, A, B, strict) == \E l \in Locks :
  \/ /\ op = acq(l)
     /\ l \notin A
     /\ B = A \union {l}
     /\ A = {} \/ \E m \in Locks : A = {m}
     /\ strict => A = {} \/ l = "ptable"
  \/ /\ op = rel(l)
     /\ l \in A
     /\ B = A \ {l}
     /\ \E m \in Locks : A \subseteq {l, m}

\* h[k] are the locks held before operation k.
Nests(ops, h, strict) ==
  /\ ops \in Seq(LockOps)
  /\ h \in [1 .. Len(ops) + 1 -> SUBSET Locks]
  /\ \A k \in 1 .. Len(ops) : Fits(ops[k], h[k], h[k + 1], strict)

\* The operations ops lead from the locks A to the locks B.
Leads(ops, A, B, strict) == \E h : Nests(ops, h, strict) /\ h[1] = A /\ h[Len(ops) + 1] = B

----------------------------------------------------------------------------
(* The paths of the code                                                   *)

\* One path after the other.
LEMMA Compose ==
  ASSUME NEW s, NEW t, NEW A, NEW B, NEW D, NEW strict \in BOOLEAN,
         Leads(s, A, B, strict), Leads(t, B, D, strict)
  PROVE  Leads(s \o t, A, D, strict)
<1>1. PICK g : Nests(s, g, strict) /\ g[1] = A /\ g[Len(s) + 1] = B
  BY Zenon DEF Leads
<1>2. PICK h : Nests(t, h, strict) /\ h[1] = B /\ h[Len(t) + 1] = D
  BY Zenon DEF Leads
<1>3. /\ s \in Seq(LockOps) /\ t \in Seq(LockOps) /\ s \o t \in Seq(LockOps)
      /\ Len(s) \in Nat /\ Len(t) \in Nat /\ Len(s \o t) = Len(s) + Len(t)
      /\ \A k \in 1 .. Len(s) : (s \o t)[k] = s[k]
      /\ \A k \in 1 .. Len(t) : (s \o t)[Len(s) + k] = t[k]
  BY <1>1, <1>2 DEF Nests
<1> DEFINE f == [k \in 1 .. Len(s \o t) + 1 |-> IF k <= Len(s) THEN g[k] ELSE h[k - Len(s)]]
<1>4. f \in [1 .. Len(s \o t) + 1 -> SUBSET Locks]
  BY <1>1, <1>2, <1>3 DEF Nests
<1>5. ASSUME NEW k \in 1 .. Len(s \o t)
      PROVE  Fits((s \o t)[k], f[k], f[k + 1], strict)
  <2>1. CASE k < Len(s)
    <3>1. f[k] = g[k] /\ f[k + 1] = g[k + 1] /\ (s \o t)[k] = s[k] /\ k \in 1 .. Len(s)
      BY <1>3, <2>1
    <3> QED BY <1>1, <3>1, Zenon DEF Nests
  <2>2. CASE k = Len(s)
    <3>1. /\ f[k] = g[k] /\ f[k + 1] = h[1] /\ h[1] = g[k + 1]
          /\ (s \o t)[k] = s[k] /\ k \in 1 .. Len(s)
      BY <1>1, <1>2, <1>3, <2>2
    <3> QED BY <1>1, <3>1, Zenon DEF Nests
  <2>3. CASE k > Len(s)
    <3>1. /\ f[k] = h[k - Len(s)] /\ f[k + 1] = h[(k - Len(s)) + 1]
          /\ (s \o t)[k] = t[k - Len(s)] /\ k - Len(s) \in 1 .. Len(t)
      BY <1>3, <2>3
    <3> QED BY <1>2, <3>1, Zenon DEF Nests
  <2> QED BY <1>3, <2>1, <2>2, <2>3
<1>6. f[1] = A /\ f[Len(s \o t) + 1] = D
  BY <1>1, <1>2, <1>3
<1>7. Nests(s \o t, f, strict)
  BY <1>3, <1>4, <1>5, Zenon DEF Nests
<1> QED BY <1>6, <1>7, Zenon DEF Leads

\* A single acquire() or release().
LEMMA Single ==
  ASSUME NEW op \in LockOps, NEW A \in SUBSET Locks, NEW B \in SUBSET Locks,
         NEW strict \in BOOLEAN, Fits(op, A, B, strict)
  PROVE  Leads(<<op>>, A, B, strict)
<1> DEFINE h == [k \in 1 .. 2 |-> IF k = 1 THEN A ELSE B]
<1>1. <<op>> \in Seq(LockOps) /\ Len(<<op>>) = 1 /\ <<op>>[1] = op
  OBVIOUS
<1>2. h \in [1 .. 2 -> SUBSET Locks] /\ h[1] = A /\ h[2] = B
  OBVIOUS
<1> HIDE DEF h
<1>3. Nests(<<op>>, h, strict)
  BY <1>1, <1>2 DEF Nests
<1> QED BY <1>1, <1>2, <1>3 DEF Leads


\* Every acquire() and release() of the code, as an operation that fits.
LEMMA Operations ==
  ASSUME NEW l \in Locks, NEW strict \in BOOLEAN
  PROVE  /\ acq(l) \in LockOps /\ rel(l) \in LockOps
         /\ Fits(acq(l), {}, {l}, strict)
         /\ l # "ptable" => Fits(acq("ptable"), {l}, {l, "ptable"}, strict)
<1>1. acq(l) \in LockOps /\ rel(l) \in LockOps
  BY DEF LockOps, acq, rel
<1>2. Fits(acq(l), {}, {l}, strict)
  BY Zenon DEF Fits
<1>3. l # "ptable" => Fits(acq("ptable"), {l}, {l, "ptable"}, strict)
  BY Zenon DEF Fits, Locks
<1> QED BY <1>1, <1>2, <1>3, Zenon

\* acquire() and release() one after the other.
LEMMA Pair ==
  ASSUME NEW o \in LockOps, NEW q \in LockOps, NEW A \in SUBSET Locks,
         NEW B \in SUBSET Locks, NEW D \in SUBSET Locks,
         NEW strict \in BOOLEAN, Fits(o, A, B, strict), Fits(q, B, D, strict)
  PROVE  Leads(<<o, q>>, A, D, strict)
<1> DEFINE h == [k \in 1 .. 3 |-> IF k = 1 THEN A ELSE IF k = 2 THEN B ELSE D]
<1>1. <<o, q>> \in Seq(LockOps) /\ Len(<<o, q>>) = 2 /\ <<o, q>>[1] = o /\ <<o, q>>[2] = q
  OBVIOUS
<1>2. h \in [1 .. 3 -> SUBSET Locks] /\ h[1] = A /\ h[2] = B /\ h[3] = D
  OBVIOUS
<1> HIDE DEF h
<1>3. \A k \in 1 .. 2 : Fits(<<o, q>>[k], h[k], h[k + 1], strict)
  BY <1>1, <1>2
<1>4. Nests(<<o, q>>, h, strict)
  BY <1>1, <1>2, <1>3 DEF Nests
<1> QED BY <1>1, <1>2, <1>4 DEF Leads

\* wakeup() with no lock held, or with one that is not ptable.lock.
LEMMA WakeupNests ==
  ASSUME NEW strict \in BOOLEAN
  PROVE  /\ Leads(wakeup, {}, {}, strict)
         /\ \A l \in Locks \ {"ptable"} : Leads(wakeup, {l}, {l}, strict)
<1>1. "ptable" \in Locks
  BY DEF Locks
<1>2. Leads(wakeup, {}, {}, strict)
  <2>1. Fits(acq("ptable"), {}, {"ptable"}, strict)
    BY <1>1, Operations, Zenon
  <2>2. Fits(rel("ptable"), {"ptable"}, {}, strict)
    BY <1>1 DEF Fits
  <2> QED BY <1>1, <2>1, <2>2, Pair, Operations, Zenon DEF wakeup
<1>3. ASSUME NEW l \in Locks, l # "ptable" PROVE Leads(wakeup, {l}, {l}, strict)
  <2>1. Fits(acq("ptable"), {l}, {l, "ptable"}, strict)
    BY <1>3, Operations, Zenon
  <2>2. Fits(rel("ptable"), {l, "ptable"}, {l}, strict)
    BY <1>1, <1>3 DEF Fits
  <2> QED BY <1>1, <2>1, <2>2, Pair, Operations, Zenon DEF wakeup
<1> QED BY <1>2, <1>3

\* sleep() called with lk held returns with lk held.
LEMMA SleepNests ==
  ASSUME NEW strict \in BOOLEAN, NEW l \in Locks, l # "ptable"
  PROVE  Leads(sleep(l), {l}, {l}, strict)
<1>0. "ptable" \in Locks
  BY DEF Locks
<1> DEFINE s == <<acq("ptable"), rel(l), rel("ptable"), acq("ptable"), rel("ptable"), acq(l)>>
           h == [k \in 1 .. 7 |-> CASE k \in {1, 7} -> {l}
                                    [] k = 2 -> {l, "ptable"}
                                    [] k \in {3, 5} -> {"ptable"}
                                    [] k \in {4, 6} -> {}]
<1>1. /\ Fits(acq("ptable"), {l}, {l, "ptable"}, strict)
      /\ Fits(rel(l), {l, "ptable"}, {"ptable"}, strict)
      /\ Fits(rel("ptable"), {"ptable"}, {}, strict)
      /\ Fits(acq("ptable"), {}, {"ptable"}, strict)
      /\ Fits(acq(l), {}, {l}, strict)
  BY <1>0 DEF Fits
<1>2. /\ s \in Seq(LockOps) /\ Len(s) = 6 /\ s[1] = acq("ptable") /\ s[2] = rel(l)
      /\ s[3] = rel("ptable") /\ s[4] = acq("ptable") /\ s[5] = rel("ptable") /\ s[6] = acq(l)
  <2>1. /\ acq("ptable") \in LockOps /\ rel("ptable") \in LockOps
        /\ acq(l) \in LockOps /\ rel(l) \in LockOps
    BY <1>0, Zenon DEF LockOps, acq, rel
  <2> QED BY <2>1
<1>3. /\ h \in [1 .. 7 -> SUBSET Locks] /\ h[1] = {l} /\ h[2] = {l, "ptable"}
      /\ h[3] = {"ptable"} /\ h[4] = {} /\ h[5] = {"ptable"} /\ h[6] = {} /\ h[7] = {l}
  BY <1>0
<1> HIDE DEF s, h
<1>4. \A k \in 1 .. 6 : Fits(s[k], h[k], h[k + 1], strict)
  <2>1. /\ Fits(s[1], h[1], h[2], strict) /\ Fits(s[2], h[2], h[3], strict)
        /\ Fits(s[3], h[3], h[4], strict) /\ Fits(s[4], h[4], h[5], strict)
        /\ Fits(s[5], h[5], h[6], strict) /\ Fits(s[6], h[6], h[7], strict)
    BY <1>1, <1>2, <1>3, Zenon
  <2> QED BY <2>1
<1>5. Nests(s, h, strict)
  BY <1>2, <1>3, <1>4 DEF Nests
<1>6. Leads(s, {l}, {l}, strict)
  BY <1>2, <1>3, <1>5 DEF Leads
<1> QED BY <1>6, Zenon DEF s, sleep


\* Four operations in a row, as in yield() and in scheduler().
LEMMA Four ==
  ASSUME NEW o \in [1 .. 4 -> LockOps], NEW h \in [1 .. 5 -> SUBSET Locks],
         NEW strict \in BOOLEAN,
         Fits(o[1], h[1], h[2], strict), Fits(o[2], h[2], h[3], strict),
         Fits(o[3], h[3], h[4], strict), Fits(o[4], h[4], h[5], strict)
  PROVE  Leads(<<o[1], o[2], o[3], o[4]>>, h[1], h[5], strict)
<1> DEFINE s == <<o[1], o[2], o[3], o[4]>>
<1>1. /\ s \in Seq(LockOps) /\ Len(s) = 4 /\ s[1] = o[1] /\ s[2] = o[2]
      /\ s[3] = o[3] /\ s[4] = o[4]
  OBVIOUS
<1> HIDE DEF s
<1>2. ASSUME NEW k \in 1 .. 4 PROVE Fits(s[k], h[k], h[k + 1], strict)
  <2>1. k = 1 \/ k = 2 \/ k = 3 \/ k = 4
    OBVIOUS
  <2>2. 1 + 1 = 2 /\ 2 + 1 = 3 /\ 3 + 1 = 4 /\ 4 + 1 = 5
    OBVIOUS
  <2> QED BY <1>1, <2>1, <2>2, Zenon
<1>3. Nests(s, h, strict)
  BY <1>1, <1>2 DEF Nests
<1>4. Leads(s, h[1], h[5], strict)
  BY <1>1, <1>3 DEF Leads
<1> QED BY <1>4, Zenon DEF s

\* acquire(l), something that keeps l, release(l).
LEMMA Bracket ==
  ASSUME NEW s, NEW l \in Locks, NEW strict \in BOOLEAN, Leads(s, {l}, {l}, strict)
  PROVE  Leads(<<acq(l)>> \o s \o <<rel(l)>>, {}, {}, strict)
<1>1. Leads(<<acq(l)>>, {}, {l}, strict)
  BY Single, Operations, Zenon
<1>2. Fits(rel(l), {l}, {}, strict)
  BY Zenon DEF Fits
<1>3. Leads(<<rel(l)>>, {l}, {}, strict)
  BY <1>2, Single, Operations, Zenon
<1>4. Leads(<<acq(l)>> \o s, {}, {l}, strict)
  BY <1>1, Compose, Zenon
<1> QED BY <1>3, <1>4, Compose, Zenon

\* A path that takes and gives back one lock.
LEMMA Briefly ==
  ASSUME NEW l \in Locks, NEW strict \in BOOLEAN
  PROVE  Leads(<<acq(l), rel(l)>>, {}, {}, strict)
<1>1. Fits(acq(l), {}, {l}, strict) /\ Fits(rel(l), {l}, {}, strict)
  BY Zenon DEF Fits
<1> QED BY <1>1, Pair, Operations, Zenon

\* Every path of the code starts and ends without locks, and every path but
\* that of the lottery scheduler is strict.
LEMMA PathsNest ==
  ASSUME NEW name
  PROVE  Leads(Ops(name), {}, {}, name # "scheduler_lottery")
<1>0. \A l \in {"ptable", "cons", "pipe", "tickslock", "idelock"} : l \in Locks
  BY DEF Locks
<1> DEFINE strict == name # "scheduler_lottery"
<1>1. strict \in BOOLEAN
  OBVIOUS
<1> HIDE DEF strict
<1>2. \A l \in {"cons", "pipe", "tickslock", "idelock"} :
        Leads(wakeup, {l}, {l}, strict) /\ Leads(sleep(l), {l}, {l}, strict)
  BY <1>0, <1>1, WakeupNests, SleepNests
<1>3. Leads(SchedulerOne, {}, {}, strict) /\ Leads(ConsoleWrite, {}, {}, strict)
  BY <1>0, <1>1, Briefly DEF SchedulerOne, ConsoleWrite
<1>4. Leads(ConsoleRead, {}, {}, strict)
  BY <1>0, <1>1, <1>2, Bracket, Zenon DEF ConsoleRead
<1>5. Leads(ConsoleIntr, {}, {}, strict)
  BY <1>0, <1>1, <1>2, Bracket, Zenon DEF ConsoleIntr
<1>6. Leads(DiskRequest, {}, {}, strict) /\ Leads(DiskIntr, {}, {}, strict)
  BY <1>0, <1>1, <1>2, Bracket DEF DiskRequest, DiskIntr
<1>7. Leads(SysSleep, {}, {}, strict) /\ Leads(Tick, {}, {}, strict)
  BY <1>0, <1>1, <1>2, Bracket DEF SysSleep, Tick
<1>8. Leads(PipeWrite, {}, {}, strict)
  <2>1. Leads(<<acq("pipe")>>, {}, {"pipe"}, strict)
    BY <1>0, <1>1, Single, Operations, Zenon
  <2>2. Fits(rel("pipe"), {"pipe"}, {}, strict)
    BY <1>0, Zenon DEF Fits
  <2>3. Leads(<<rel("pipe")>>, {"pipe"}, {}, strict)
    BY <1>0, <1>1, <2>2, Single, Operations, Zenon
  <2>4. Leads(<<acq("pipe")>> \o wakeup, {}, {"pipe"}, strict)
    BY <1>1, <1>2, <2>1, Compose
  <2>5. Leads(<<acq("pipe")>> \o wakeup \o sleep("pipe"), {}, {"pipe"}, strict)
    BY <1>1, <1>2, <2>4, Compose
  <2>6. Leads(<<acq("pipe")>> \o wakeup \o sleep("pipe") \o wakeup, {}, {"pipe"}, strict)
    BY <1>1, <1>2, <2>5, Compose
  <2> QED BY <1>1, <2>3, <2>6, Compose, Zenon DEF PipeWrite
<1>9. Leads(Yield, {}, {}, strict)
  <2> DEFINE o == [k \in 1 .. 4 |-> IF k \in {1, 3} THEN acq("ptable") ELSE rel("ptable")]
             h == [k \in 1 .. 5 |-> IF k \in {2, 4} THEN {"ptable"} ELSE {}]
  <2>1. acq("ptable") \in LockOps /\ rel("ptable") \in LockOps
    BY <1>0, Operations, Zenon
  <2>2. o \in [1 .. 4 -> LockOps] /\ h \in [1 .. 5 -> SUBSET Locks]
    BY <1>0, <2>1
  <2>3. /\ o[1] = acq("ptable") /\ o[2] = rel("ptable")
        /\ o[3] = acq("ptable") /\ o[4] = rel("ptable")
        /\ h[1] = {} /\ h[2] = {"ptable"} /\ h[3] = {} /\ h[4] = {"ptable"} /\ h[5] = {}
    OBVIOUS
  <2>4. Fits(acq("ptable"), {}, {"ptable"}, strict) /\ Fits(rel("ptable"), {"ptable"}, {}, strict)
    BY <1>0 DEF Fits
  <2> HIDE DEF o, h
  <2>5. Leads(<<o[1], o[2], o[3], o[4]>>, h[1], h[5], strict)
    BY <1>1, <2>2, <2>3, <2>4, Four, Zenon
  <2> QED BY <2>3, <2>5, Zenon DEF Yield
<1>10. ~strict => Leads(SchedulerLottery, {}, {}, strict)
  <2> DEFINE o == [k \in 1 .. 4 |-> CASE k = 1 -> acq("ptable") [] k = 2 -> acq("cons")
                                      [] k = 3 -> rel("cons") [] k = 4 -> rel("ptable")]
             h == [k \in 1 .. 5 |-> CASE k \in {1, 5} -> {} [] k \in {2, 4} -> {"ptable"}
                                      [] k = 3 -> {"cons", "ptable"}]
  <2>1. /\ acq("ptable") \in LockOps /\ rel("ptable") \in LockOps
        /\ acq("cons") \in LockOps /\ rel("cons") \in LockOps
    BY <1>0, Operations, Zenon
  <2>2. o \in [1 .. 4 -> LockOps] /\ h \in [1 .. 5 -> SUBSET Locks]
    BY <1>0, <2>1
  <2>3. /\ o[1] = acq("ptable") /\ o[2] = acq("cons")
        /\ o[3] = rel("cons") /\ o[4] = rel("ptable")
        /\ h[1] = {} /\ h[2] = {"ptable"} /\ h[3] = {"cons", "ptable"}
        /\ h[4] = {"ptable"} /\ h[5] = {}
    OBVIOUS
  <2>4. ~strict => /\ Fits(acq("ptable"), {}, {"ptable"}, strict)
                   /\ Fits(acq("cons"), {"ptable"}, {"cons", "ptable"}, strict)
                   /\ Fits(rel("cons"), {"cons", "ptable"}, {"ptable"}, strict)
                   /\ Fits(rel("ptable"), {"ptable"}, {}, strict)
    BY <1>0, Zenon DEF Fits
  <2> HIDE DEF o, h
  <2>5. ~strict => Leads(<<o[1], o[2], o[3], o[4]>>, h[1], h[5], strict)
    BY <1>1, <2>2, <2>3, <2>4, Four, Zenon
  <2> QED BY <2>3, <2>5, Zenon DEF SchedulerLottery
<1>11. Leads(Tick \o Yield, {}, {}, strict)
  BY <1>1, <1>7, <1>9, Compose, Zenon
<1>12. Leads(<<>>, {}, {}, strict)
  <2> DEFINE h == [k \in 1 .. 1 |-> {}]
  <2>1. h \in [1 .. 0 + 1 -> SUBSET Locks] /\ h[1] = {} /\ Len(<<>>) = 0 /\ <<>> \in Seq(LockOps)
    OBVIOUS
  <2> HIDE DEF h
  <2>2. Nests(<<>>, h, strict)
    BY <2>1 DEF Nests
  <2> QED BY <2>1, <2>2 DEF Leads
<1>13. Leads(Ops(name), {}, {}, strict)
  BY <1>3, <1>4, <1>5, <1>6, <1>7, <1>8, <1>9, <1>10, <1>11, <1>12, Zenon DEF Ops, strict
<1> QED BY <1>13, Zenon DEF strict


----------------------------------------------------------------------------
(* The invariant                                                           *)

\* The locks held at each place of a path.
Hold(name) == CHOOSE h : /\ Nests(Ops(name), h, name # "scheduler_lottery")
                         /\ h[1] = {}
                         /\ h[Len(Ops(name)) + 1] = {}

\* The locks c holds where it is, and the locks it holds one operation later.
Holding(c) == IF Current(c) = None THEN {} ELSE Hold(Current(c)[1])[Current(c)[2]]
After(c) == Hold(Current(c)[1])[Current(c)[2] + 1]

Size(A) == IF A = {} THEN 0 ELSE IF \E l \in Locks : A = {l} THEN 1 ELSE 2

\* A place is an operation of a path, or its end.
InPath(place, names) ==
  place # None => /\ place[1] \in names
                  /\ place[2] \in 1 .. Len(Ops(place[1])) + 1
                  /\ place = <<place[1], place[2]>>

Types ==
  /\ owner \in [Locks -> CPUs \union {None}]
  /\ FL_IF \in [CPUs -> BOOLEAN]
  /\ ncli \in [CPUs -> 0 .. 2]
  /\ intena \in [CPUs -> BOOLEAN]
  /\ stage \in [CPUs -> {"op", "spin", "popcli"}]
  /\ DOMAIN path = CPUs /\ path = [c \in CPUs |-> path[c]]
  /\ DOMAIN handler = CPUs /\ handler = [c \in CPUs |-> handler[c]]
  /\ panicked = FALSE

\* c holds the locks that its place tells, and ncli counts them; in the middle
\* of acquire() ncli counts one more, in the middle of release() the lock is
\* already free.
Counted(c) ==
  /\ InPath(path[c], Paths) /\ InPath(handler[c], Handlers)
  /\ stage[c] = "op" => Held(c) = Holding(c) /\ ncli[c] = Size(Holding(c))
  /\ stage[c] = "spin" => /\ \E l \in Locks : Does(c, "acquire", l)
                          /\ Held(c) = Holding(c)
                          /\ ncli[c] = Size(Holding(c)) + 1
  /\ stage[c] = "popcli" => \E l \in Locks : /\ Does(c, "release", l)
                                             /\ Held(c) = Holding(c) \ {l}
                                             /\ ncli[c] = Size(Holding(c))

\* A handler runs with interrupts off and interrupted a path without locks;
\* at process level interrupts are on exactly while ncli is 0, and the
\* outermost popcli() will turn them on again.
Flags(c) ==
  /\ handler[c] # None => /\ ~FL_IF[c]
                          /\ ncli[c] > 0 => ~intena[c]
                          /\ path[c] # None => Hold(path[c][1])[path[c][2]] = {}
  /\ handler[c] = None => /\ FL_IF[c] <=> ncli[c] = 0
                          /\ ncli[c] > 0 => intena[c]

\* The inductive invariant.
IInv == Types /\ \A c \in CPUs : Counted(c) /\ Flags(c)

\* What is known of the locks held along a path.
LEMMA HoldIs ==
  ASSUME NEW name
  PROVE  /\ Nests(Ops(name), Hold(name), name # "scheduler_lottery")
         /\ Hold(name)[1] = {}
         /\ Hold(name)[Len(Ops(name)) + 1] = {}
         /\ Len(Ops(name)) \in Nat
         /\ Ops(name) \in Seq(LockOps)
<1>1. \E h : /\ Nests(Ops(name), h, name # "scheduler_lottery")
             /\ h[1] = {}
             /\ h[Len(Ops(name)) + 1] = {}
  BY PathsNest, Zenon DEF Leads
<1>2. /\ Nests(Ops(name), Hold(name), name # "scheduler_lottery")
      /\ Hold(name)[1] = {}
      /\ Hold(name)[Len(Ops(name)) + 1] = {}
  BY <1>1, Zenon DEF Hold
<1>3. Ops(name) \in Seq(LockOps)
  BY <1>2, Zenon DEF Nests
<1> QED BY <1>2, <1>3

\* How many locks there are in a set of at most two.
LEMMA Sizes ==
  ASSUME NEW A \in SUBSET Locks
  PROVE  /\ Size({}) = 0
         /\ Size(A) = 0 <=> A = {}
         /\ Size(A) \in 0 .. 2
         /\ \A l \in Locks : Size({l}) = 1
         /\ \A l \in Locks : l \notin A /\ (A = {} \/ \E m \in Locks : A = {m}) =>
                             Size(A \union {l}) = Size(A) + 1
         /\ \A l \in A : (\E m \in Locks : A \subseteq {l, m}) => Size(A \ {l}) = Size(A) - 1
<1>1. Size({}) = 0 /\ (Size(A) = 0 <=> A = {}) /\ Size(A) \in 0 .. 2
  BY DEF Size
<1>2. ASSUME NEW l \in Locks PROVE Size({l}) = 1
  BY DEF Size
<1>3. ASSUME NEW l \in Locks, l \notin A, NEW m \in Locks, A = {m}
      PROVE  Size(A \union {l}) = Size(A) + 1
  <2>1. l # m /\ A \union {l} = {l, m}
    BY <1>3, Zenon
  <2>2. {l, m} # {} /\ \A k \in Locks : {l, m} # {k}
    BY <2>1
  <2> QED BY <1>2, <1>3, <2>1, <2>2 DEF Size
<1>4. ASSUME NEW l \in A, NEW m \in Locks, A \subseteq {l, m}
      PROVE  Size(A \ {l}) = Size(A) - 1
  <2>1. CASE A = {l}
    <3>1. A \ {l} = {}
      BY <2>1
    <3> QED BY <1>1, <1>2, <2>1, <3>1
  <2>2. CASE A # {l}
    <3>1. m \in A /\ m # l /\ A \ {l} = {m} /\ \A k \in Locks : A # {k}
      BY <1>4, <2>2
    <3> QED BY <1>2, <3>1 DEF Size
  <2> QED BY <2>1, <2>2
<1>5. \A l \in Locks : A = {} => A \union {l} = {l}
  OBVIOUS
<1> QED BY <1>1, <1>2, <1>3, <1>4, <1>5


----------------------------------------------------------------------------
(* Places and steps                                                        *)

\* c is about to acquire l: it holds at most one lock, which is not l.
LEMMA AtAcquire ==
  ASSUME IInv, NEW c \in CPUs, NEW l \in Locks, Does(c, "acquire", l)
  PROVE  /\ Holding(c) \in SUBSET Locks
         /\ l \notin Holding(c)
         /\ After(c) = Holding(c) \union {l}
         /\ Size(After(c)) = Size(Holding(c)) + 1
         /\ Size(Holding(c)) \in 0 .. 1
         /\ Current(c)[1] # "scheduler_lottery" => Holding(c) = {} \/ l = "ptable"
<1> DEFINE name == Current(c)[1]
           k == Current(c)[2]
           A == Holding(c)
<1>1. /\ Current(c) # None /\ k \in 1 .. Len(Ops(name)) + 1 /\ ~(k > Len(Ops(name)))
      /\ Ops(name)[k] = <<"acquire", l>>
  BY Zenon DEF Does, Executes, Ended, Op, IInv, Counted, InPath, Current
<1>2. k \in 1 .. Len(Ops(name))
  BY <1>1, HoldIs
<1>3. /\ Fits(Ops(name)[k], Hold(name)[k], Hold(name)[k + 1], name # "scheduler_lottery")
      /\ Hold(name) \in [1 .. Len(Ops(name)) + 1 -> SUBSET Locks]
  BY <1>2, HoldIs, Zenon DEF Nests
<1>4. A = Hold(name)[k] /\ After(c) = Hold(name)[k + 1] /\ A \in SUBSET Locks
  BY <1>1, <1>2, <1>3, Zenon DEF Holding, After
<1>5. /\ l \notin A /\ After(c) = A \union {l}
      /\ A = {} \/ \E m \in Locks : A = {m}
      /\ name # "scheduler_lottery" => A = {} \/ l = "ptable"
  BY <1>1, <1>3, <1>4 DEF Fits, acq, rel
<1> HIDE DEF A, name, k
<1>6. Size(After(c)) = Size(A) + 1 /\ Size(A) \in 0 .. 1
  BY <1>4, <1>5, Sizes
<1> QED BY <1>4, <1>5, <1>6, Zenon DEF A, name

\* c is about to release l, which it holds.
LEMMA AtRelease ==
  ASSUME IInv, NEW c \in CPUs, NEW l \in Locks, Does(c, "release", l)
  PROVE  /\ Holding(c) \in SUBSET Locks
         /\ l \in Holding(c)
         /\ After(c) = Holding(c) \ {l}
         /\ Size(After(c)) = Size(Holding(c)) - 1
         /\ Size(Holding(c)) \in 1 .. 2
<1> DEFINE name == Current(c)[1]
           k == Current(c)[2]
           A == Holding(c)
<1>1. /\ Current(c) # None /\ k \in 1 .. Len(Ops(name)) + 1 /\ ~(k > Len(Ops(name)))
      /\ Ops(name)[k] = <<"release", l>>
  BY Zenon DEF Does, Executes, Ended, Op, IInv, Counted, InPath, Current
<1>2. k \in 1 .. Len(Ops(name))
  BY <1>1, HoldIs
<1>3. /\ Fits(Ops(name)[k], Hold(name)[k], Hold(name)[k + 1], name # "scheduler_lottery")
      /\ Hold(name) \in [1 .. Len(Ops(name)) + 1 -> SUBSET Locks]
  BY <1>2, HoldIs, Zenon DEF Nests
<1>4. A = Hold(name)[k] /\ After(c) = Hold(name)[k + 1] /\ A \in SUBSET Locks
  BY <1>1, <1>2, <1>3, Zenon DEF Holding, After
<1>5. l \in A /\ After(c) = A \ {l} /\ \E m \in Locks : A \subseteq {l, m}
  BY <1>1, <1>3, <1>4 DEF Fits, acq, rel
<1> HIDE DEF A, name, k
<1>6. Size(After(c)) = Size(A) - 1 /\ Size(A) \in 1 .. 2
  <2>1. A # {}
    BY <1>5
  <2> QED BY <1>4, <1>5, <2>1, Sizes
<1> QED BY <1>4, <1>5, <1>6, Zenon DEF A

\* The step from one operation to the next, in the handler or in the path.
LEMMA Advanced ==
  ASSUME IInv, NEW c \in CPUs, Executes(c), ~Ended(c), Advance(c)
  PROVE  /\ InPath(path'[c], Paths) /\ InPath(handler'[c], Handlers)
         /\ Holding(c)' = After(c)
         /\ handler'[c] = None <=> handler[c] = None
         /\ handler[c] # None => path'[c] = path[c]
         /\ \A d \in CPUs : d # c => path'[d] = path[d] /\ handler'[d] = handler[d]
         /\ DOMAIN path' = CPUs /\ path' = [d \in CPUs |-> path'[d]]
         /\ DOMAIN handler' = CPUs /\ handler' = [d \in CPUs |-> handler'[d]]
<1>1. /\ Types /\ InPath(path[c], Paths) /\ InPath(handler[c], Handlers)
  BY Zenon DEF IInv, Counted
<1> DEFINE name == Current(c)[1]
           k == Current(c)[2]
<1>2. /\ Current(c) # None /\ name \in Paths \union Handlers
      /\ k \in 1 .. Len(Ops(name)) /\ k + 1 \in 1 .. Len(Ops(name)) + 1 /\ k + 1 \in Nat
  BY <1>1, HoldIs DEF Executes, Ended, InPath, Current
<1>3. <<name, k + 1>> # None /\ <<name, k + 1>>[1] = name /\ <<name, k + 1>>[2] = k + 1
  BY <1>2, SpinConstants
<1>4. CASE handler[c] # None
  <2>1. /\ name = handler[c][1] /\ k = handler[c][2] /\ path' = path
        /\ handler' = [handler EXCEPT ![c] = <<name, k + 1>>]
    BY <1>4, Zenon DEF Advance, Current
  <2>2. handler'[c] = <<name, k + 1>> /\ \A d \in CPUs : d # c => handler'[d] = handler[d]
    BY <1>1, <2>1, Zenon DEF Types
  <2>3. InPath(handler'[c], Handlers)
    BY <1>1, <1>2, <1>3, <1>4, <2>1, <2>2, Zenon DEF InPath
  <2>4. Holding(c)' = After(c)
    BY <1>3, <2>2, Zenon DEF Holding, After, Current
  <2> QED BY <1>1, <1>3, <1>4, <2>1, <2>2, <2>3, <2>4, Zenon DEF Types
<1>5. CASE handler[c] = None
  <2>1. /\ name = path[c][1] /\ k = path[c][2] /\ handler' = handler
        /\ path' = [path EXCEPT ![c] = <<name, k + 1>>]
    BY <1>5, Zenon DEF Advance, Current
  <2>2. path'[c] = <<name, k + 1>> /\ \A d \in CPUs : d # c => path'[d] = path[d]
    BY <1>1, <2>1, Zenon DEF Types
  <2>3. InPath(path'[c], Paths)
    BY <1>1, <1>2, <1>3, <1>5, <2>1, <2>2, Zenon DEF InPath, Current
  <2>4. Holding(c)' = After(c)
    BY <1>3, <1>5, <2>1, <2>2, Zenon DEF Holding, After, Current
  <2> QED BY <1>1, <1>5, <2>1, <2>2, <2>3, <2>4, Zenon DEF Types
<1> QED BY <1>4, <1>5, Zenon


\* A step of one CPU leaves what the invariant says of the others.
LEMMA Undisturbed ==
  ASSUME IInv, panicked' = FALSE, NEW d \in CPUs,
         path'[d] = path[d], handler'[d] = handler[d], stage'[d] = stage[d],
         ncli'[d] = ncli[d], FL_IF'[d] = FL_IF[d], intena'[d] = intena[d], Held(d)' = Held(d)
  PROVE  Counted(d)' /\ Flags(d)'
<1>1. Counted(d) /\ Flags(d) /\ panicked = FALSE
  BY Zenon DEF IInv, Types
<1>2. Current(d)' = Current(d) /\ Holding(d)' = Holding(d)
  BY Zenon DEF Current, Holding
<1>3. \A kind, l : Does(d, kind, l)' <=> Does(d, kind, l)
  BY <1>1, <1>2, Zenon DEF Does, Executes, Ended, Op
<1>4. Counted(d)'
  BY <1>1, <1>2, <1>3, Zenon DEF Counted
<1>5. Flags(d)'
  BY <1>1, Zenon DEF Flags
<1> QED BY <1>4, <1>5, Zenon

\* The invariant after a step of c.
LEMMA StepOf ==
  ASSUME IInv, NEW c \in CPUs, Types', Counted(c)', Flags(c)',
         \A d \in CPUs : d # c =>
           /\ path'[d] = path[d] /\ handler'[d] = handler[d] /\ stage'[d] = stage[d]
           /\ ncli'[d] = ncli[d] /\ FL_IF'[d] = FL_IF[d] /\ intena'[d] = intena[d]
           /\ Held(d)' = Held(d)
  PROVE  IInv'
<1>1. panicked' = FALSE
  BY Zenon DEF Types
<1>2. ASSUME NEW d \in CPUs, d # c PROVE Counted(d)' /\ Flags(d)'
  BY <1>1, <1>2, Undisturbed, Zenon
<1> QED BY <1>2, Zenon DEF IInv

\* At first nobody executes anything and interrupts are enabled.
LEMMA InitInv == Init => IInv
<1> SUFFICES ASSUME Init PROVE IInv
  OBVIOUS
<1>1. Types
  BY DEF Init, Types
<1>2. ASSUME NEW c \in CPUs PROVE Counted(c) /\ Flags(c)
  <2>1. Current(c) = None /\ Holding(c) = {} /\ path[c] = None /\ handler[c] = None
    BY Zenon DEF Init, Current, Holding
  <2>2. Held(c) = {}
    BY SpinConstants, Zenon DEF Init, Held
  <2>3. Size({}) = 0
    BY DEF Size
  <2> QED BY <2>1, <2>2, <2>3 DEF Init, Counted, Flags, InPath
<1> QED BY <1>1, <1>2 DEF IInv

\* A process or a scheduler starts a path.
LEMMA StartInv == ASSUME IInv, NEW c \in CPUs, NEW name \in Paths, Start(c, name) PROVE IInv'
<1>1. /\ Types /\ Counted(c) /\ Flags(c) /\ Current(c) = None
      /\ path[c] = None /\ handler[c] = None
      /\ path' = [path EXCEPT ![c] = <<name, 1>>]
      /\ UNCHANGED <<owner, FL_IF, ncli, intena, handler, stage, panicked>>
  BY Zenon DEF IInv, Start, Current
<1>2. path'[c] = <<name, 1>> /\ \A d \in CPUs : d # c => path'[d] = path[d]
  BY <1>1, Zenon DEF Types
<1>3. \A d \in CPUs : Held(d)' = Held(d)
  BY <1>1, Zenon DEF Held
<1>4. <<name, 1>> # None /\ <<name, 1>>[1] = name /\ <<name, 1>>[2] = 1
  BY SpinConstants, SMTT(30)
<1>5. Current(c)' = <<name, 1>> /\ Holding(c)' = {} /\ Holding(c) = {}
  BY <1>1, <1>2, <1>4, HoldIs, Zenon DEF Current, Holding
<1>6. stage[c] = "op"
  BY <1>1, Zenon DEF Counted, Does, Executes, Types
<1>7. Types'
  BY <1>1, Zenon DEF Types
<1>8. Counted(c)'
  BY <1>1, <1>2, <1>3, <1>4, <1>5, <1>6, HoldIs DEF Counted, InPath
<1>9. Flags(c)'
  BY <1>1, Zenon DEF Flags
<1> QED BY <1>1, <1>2, <1>3, <1>7, <1>8, <1>9, StepOf, Zenon

\* An interrupt is taken only where ncli is 0, so the path it interrupts
\* holds no lock and is not in the middle of acquire() or release().
LEMMA InterruptInv ==
  ASSUME IInv, NEW c \in CPUs, NEW name \in Handlers, Interrupt(c, name)
  PROVE  IInv'
<1>1. /\ Types /\ Counted(c) /\ Flags(c) /\ FL_IF[c] /\ handler[c] = None
      /\ handler' = [handler EXCEPT ![c] = <<name, 1>>]
      /\ FL_IF' = [FL_IF EXCEPT ![c] = FALSE]
      /\ UNCHANGED <<owner, ncli, intena, path, stage, panicked>>
  BY Zenon DEF IInv, Interrupt
<1>2. handler'[c] = <<name, 1>> /\ \A d \in CPUs : d # c => handler'[d] = handler[d]
  BY <1>1, Zenon DEF Types
<1>3. ~FL_IF'[c] /\ \A d \in CPUs : d # c => FL_IF'[d] = FL_IF[d]
  BY <1>1, Zenon DEF Types
<1>4. \A d \in CPUs : Held(d)' = Held(d)
  BY <1>1, Zenon DEF Held
<1>5. <<name, 1>> # None /\ <<name, 1>>[1] = name /\ <<name, 1>>[2] = 1
  BY SpinConstants, SMTT(30)
<1>6. Current(c)' = <<name, 1>> /\ Holding(c)' = {}
  BY <1>1, <1>2, <1>5, HoldIs, Zenon DEF Current, Holding
<1>7. ncli[c] = 0
  BY <1>1, Zenon DEF Flags
<1>8. stage[c] = "op" /\ Holding(c) = {}
  <2>1. Holding(c) \in SUBSET Locks
    <3>1. CASE path[c] = None
      BY <1>1, <3>1, Zenon DEF Holding, Current
    <3>2. CASE path[c] # None
      <4>1. /\ Holding(c) = Hold(path[c][1])[path[c][2]]
            /\ path[c][2] \in 1 .. Len(Ops(path[c][1])) + 1
        BY <1>1, <3>2, Zenon DEF Holding, Current, Counted, InPath
      <4>2. Hold(path[c][1]) \in [1 .. Len(Ops(path[c][1])) + 1 -> SUBSET Locks]
        BY HoldIs, Zenon DEF Nests
      <4> QED BY <4>1, <4>2, Zenon
    <3> QED BY <3>1, <3>2, Zenon
  <2>2. stage[c] # "spin"
    <3>1. SUFFICES ASSUME ncli[c] = Size(Holding(c)) + 1 PROVE FALSE
      BY <1>1, Zenon DEF Counted
    <3>2. Size(Holding(c)) \in 0 .. 2
      BY <2>1, Sizes, Zenon
    <3> QED BY <1>7, <3>1, <3>2
  <2>3. stage[c] # "popcli"
    <3>1. SUFFICES ASSUME NEW l \in Locks, Does(c, "release", l), ncli[c] = Size(Holding(c))
                   PROVE  FALSE
      BY <1>1, Zenon DEF Counted
    <3> QED BY <1>7, <3>1, AtRelease, SMTT(30)
  <2>4. stage[c] = "op"
    BY <1>1, <2>2, <2>3, Zenon DEF Types
  <2> QED BY <1>1, <1>7, <2>1, <2>4, Sizes, Zenon DEF Counted
<1>9. Types'
  BY <1>1, Zenon DEF Types
<1>10. Counted(c)'
  <2>1. InPath(path[c], Paths)' /\ stage'[c] = "op" /\ ncli'[c] = Size(Holding(c)')
        /\ Held(c)' = Holding(c)'
    BY <1>1, <1>4, <1>6, <1>8, Zenon DEF Counted, InPath
  <2>2. 1 \in 1 .. Len(Ops(name)) + 1
    BY HoldIs
  <2>3. InPath(handler[c], Handlers)'
    BY <1>2, <1>5, <2>2, Zenon DEF InPath
  <2> QED BY <2>1, <2>3 DEF Counted
<1>11. Flags(c)'
  <2>1. ~(ncli'[c] > 0)
    BY <1>1, <1>7
  <2>2. path[c] # None => Hold(path[c][1])[path[c][2]] = {}
    BY <1>1, <1>8, Zenon DEF Holding, Current
  <2> QED BY <1>1, <1>2, <1>3, <1>5, <2>1, <2>2, Zenon DEF Flags
<1> QED BY <1>1, <1>2, <1>3, <1>4, <1>9, <1>10, <1>11, StepOf, Zenon


\* A path or a handler ends without locks; iret enables interrupts again.
LEMMA FinishInv == ASSUME IInv, NEW c \in CPUs, Finish(c) PROVE IInv'
<1>1. /\ Types /\ Counted(c) /\ Flags(c) /\ Ended(c) /\ Current(c) # None
      /\ UNCHANGED <<owner, ncli, intena, stage, panicked>>
  BY Zenon DEF IInv, Finish, Ended, Executes
<1>2. \A d \in CPUs : Held(d)' = Held(d)
  BY <1>1 DEF Held
<1>3. Holding(c) = {}
  <2>1. /\ Current(c)[2] \in 1 .. Len(Ops(Current(c)[1])) + 1
        /\ Current(c)[2] > Len(Ops(Current(c)[1]))
    BY <1>1, Zenon DEF Counted, InPath, Current, Ended
  <2>2. Current(c)[2] = Len(Ops(Current(c)[1])) + 1
    <3>1. Len(Ops(Current(c)[1])) \in Nat
      BY HoldIs, Zenon
    <3> QED BY <2>1, <3>1
  <2> QED BY <1>1, <2>2, HoldIs, ZenonT(30) DEF Holding
<1>4. stage[c] = "op"
  BY <1>1, Zenon DEF Types, Counted, Does
<1>5. Held(c) = {} /\ ncli[c] = 0
  BY <1>1, <1>3, <1>4, Zenon DEF Counted, Size
<1>6. CASE handler[c] # None
  <2>1. /\ handler' = [handler EXCEPT ![c] = None]
        /\ FL_IF' = [FL_IF EXCEPT ![c] = TRUE] /\ path' = path
    BY <1>6, Zenon DEF Finish
  <2>2. handler'[c] = None /\ \A d \in CPUs : d # c => handler'[d] = handler[d]
    BY <1>1, <2>1, Zenon DEF Types
  <2>3. FL_IF'[c] /\ \A d \in CPUs : d # c => FL_IF'[d] = FL_IF[d]
    BY <1>1, <2>1, Zenon DEF Types
  <2>4. Holding(c)' = {}
    BY <1>1, <1>6, <2>1, <2>2, Zenon DEF Flags, Holding, Current
  <2>5. Types'
    BY <1>1, <2>1, Zenon DEF Types
  <2>6. Counted(c)'
    BY <1>1, <1>2, <1>4, <1>5, <2>1, <2>2, <2>4, Zenon DEF Counted, InPath, Size
  <2>7. ncli'[c] = 0 /\ ~(ncli'[c] > 0)
    BY <1>1, <1>5
  <2>8. Flags(c)'
    BY <2>2, <2>3, <2>7, ZenonT(30) DEF Flags
  <2> QED BY <1>1, <1>2, <2>1, <2>2, <2>3, <2>5, <2>6, <2>8, StepOf, Zenon
<1>7. CASE handler[c] = None
  <2>1. path' = [path EXCEPT ![c] = None] /\ handler' = handler /\ FL_IF' = FL_IF
    BY <1>7 DEF Finish
  <2>2. path'[c] = None /\ \A d \in CPUs : d # c => path'[d] = path[d]
    BY <1>1, <2>1, Zenon DEF Types
  <2>3. Holding(c)' = {}
    BY <1>7, <2>1, <2>2, Zenon DEF Holding, Current
  <2>4. Types'
    BY <1>1, <2>1, ZenonT(30) DEF Types
  <2>5. Counted(c)'
    BY <1>1, <1>2, <1>4, <1>5, <2>1, <2>2, <2>3, Zenon DEF Counted, InPath, Size
  <2>6. Flags(c)'
    BY <1>1, <1>7, <2>1, Zenon DEF Flags
  <2> QED BY <1>1, <1>2, <2>1, <2>2, <2>4, <2>5, <2>6, StepOf, Zenon
<1> QED BY <1>6, <1>7, Zenon

\* pushcli(), and the test of holding(): c does not hold l yet.
LEMMA AcquireBeginInv ==
  ASSUME IInv, NEW c \in CPUs, NEW l \in Locks, AcquireBegin(c, l)
  PROVE  IInv'
<1>1. /\ Types /\ Counted(c) /\ Flags(c) /\ Does(c, "acquire", l) /\ stage[c] = "op"
      /\ FL_IF' = [FL_IF EXCEPT ![c] = FALSE]
      /\ ncli' = [ncli EXCEPT ![c] = @ + 1]
      /\ intena' = IF ncli[c] = 0 THEN [intena EXCEPT ![c] = FL_IF[c]] ELSE intena
      /\ stage' = [stage EXCEPT ![c] = "spin"]
      /\ panicked' = (owner[l] = c)
      /\ UNCHANGED <<owner, path, handler>>
  BY Zenon DEF IInv, AcquireBegin, pushcli
<1>2. \A d \in CPUs : Held(d)' = Held(d)
  BY <1>1, Zenon DEF Held
<1>3. /\ Holding(c) \in SUBSET Locks /\ l \notin Holding(c) /\ Size(Holding(c)) \in 0 .. 1
      /\ Held(c) = Holding(c) /\ ncli[c] = Size(Holding(c))
  BY <1>1, AtAcquire, Zenon DEF Counted
<1>4. panicked' = FALSE
  BY <1>1, <1>3, ZenonT(30) DEF Held
<1>5. Current(c)' = Current(c) /\ Holding(c)' = Holding(c)
  BY <1>1, Zenon DEF Current, Holding
<1>6. Does(c, "acquire", l)'
  BY <1>1, <1>4, <1>5, Zenon DEF Does, Executes, Ended, Op
<1>7. /\ ncli'[c] = ncli[c] + 1 /\ stage'[c] = "spin" /\ ~FL_IF'[c]
      /\ ncli[c] = 0 => intena'[c] = FL_IF[c]
      /\ ncli[c] # 0 => intena'[c] = intena[c]
  BY <1>1, Zenon DEF Types
<1>8. Types'
  BY <1>1, <1>3, <1>4, SMTT(30) DEF Types
<1>9. Counted(c)'
  BY <1>1, <1>2, <1>3, <1>5, <1>6, <1>7, Zenon DEF Counted
<1>10. Flags(c)'
  <2>1. ncli[c] \in 0 .. 1
    BY <1>3
  <2> QED BY <1>1, <1>7, <2>1 DEF Flags
<1>11. \A d \in CPUs : d # c => /\ stage'[d] = stage[d] /\ ncli'[d] = ncli[d]
                                /\ FL_IF'[d] = FL_IF[d] /\ intena'[d] = intena[d]
  BY <1>1, Zenon DEF Types
<1> QED BY <1>1, <1>2, <1>8, <1>9, <1>10, <1>11, StepOf, Zenon

\* xchg() takes the lock, which is free.
LEMMA AcquireXchgInv ==
  ASSUME IInv, NEW c \in CPUs, NEW l \in Locks, AcquireXchg(c, l)
  PROVE  IInv'
<1>1. /\ Types /\ Counted(c) /\ Flags(c) /\ Does(c, "acquire", l) /\ stage[c] = "spin"
      /\ owner[l] = None /\ owner' = [owner EXCEPT ![l] = c]
      /\ stage' = [stage EXCEPT ![c] = "op"]
      /\ Advance(c) /\ Executes(c) /\ ~Ended(c)
      /\ UNCHANGED <<FL_IF, ncli, intena, panicked>>
  BY Zenon DEF IInv, AcquireXchg, Does
<1>2. /\ Holding(c) \in SUBSET Locks /\ After(c) = Holding(c) \union {l}
      /\ Size(After(c)) = Size(Holding(c)) + 1
      /\ Held(c) = Holding(c) /\ ncli[c] = Size(Holding(c)) + 1
  BY <1>1, AtAcquire, Zenon DEF Counted
<1>3. Held(c)' = Held(c) \union {l} /\ \A d \in CPUs : d # c => Held(d)' = Held(d)
  BY <1>1, SpinConstants DEF Held, Types
<1>4. stage'[c] = "op" /\ \A d \in CPUs : d # c => stage'[d] = stage[d]
  BY <1>1, Zenon DEF Types
<1>5. /\ InPath(path'[c], Paths) /\ InPath(handler'[c], Handlers)
      /\ Holding(c)' = After(c)
      /\ handler'[c] = None <=> handler[c] = None
      /\ handler[c] # None => path'[c] = path[c]
      /\ \A d \in CPUs : d # c => path'[d] = path[d] /\ handler'[d] = handler[d]
      /\ DOMAIN path' = CPUs /\ path' = [d \in CPUs |-> path'[d]]
      /\ DOMAIN handler' = CPUs /\ handler' = [d \in CPUs |-> handler'[d]]
  BY <1>1, Advanced, Zenon
<1>6. Types'
  BY <1>1, <1>5, ZenonT(30) DEF Types
<1>7. Counted(c)'
  BY <1>1, <1>2, <1>3, <1>4, <1>5, Zenon DEF Counted
<1>8. Flags(c)'
  BY <1>1, <1>5, Zenon DEF Flags
<1> QED BY <1>1, <1>3, <1>4, <1>5, <1>6, <1>7, <1>8, StepOf, Zenon


\* release() of a lock that c holds.
LEMMA ReleaseXchgInv ==
  ASSUME IInv, NEW c \in CPUs, NEW l \in Locks, ReleaseXchg(c, l)
  PROVE  IInv'
<1>1. /\ Types /\ Counted(c) /\ Flags(c) /\ Does(c, "release", l) /\ stage[c] = "op"
      /\ panicked' = (owner[l] # c)
      /\ owner' = [owner EXCEPT ![l] = None]
      /\ stage' = [stage EXCEPT ![c] = "popcli"]
      /\ UNCHANGED <<FL_IF, ncli, intena, path, handler>>
  BY Zenon DEF IInv, ReleaseXchg
<1>2. /\ Holding(c) \in SUBSET Locks /\ l \in Holding(c)
      /\ Held(c) = Holding(c) /\ ncli[c] = Size(Holding(c))
  BY <1>1, AtRelease, Zenon DEF Counted
<1>3. owner[l] = c
  BY <1>2 DEF Held
<1>4. panicked' = FALSE
  BY <1>1, <1>3, Zenon
<1>5. Held(c)' = Held(c) \ {l} /\ \A d \in CPUs : d # c => Held(d)' = Held(d)
  BY <1>1, <1>3, SpinConstants, SMTT(30) DEF Held, Types
<1>6. Current(c)' = Current(c) /\ Holding(c)' = Holding(c)
  BY <1>1, Zenon DEF Current, Holding
<1>7. Does(c, "release", l)'
  BY <1>1, <1>4, <1>6, Zenon DEF Does, Executes, Ended, Op
<1>8. stage'[c] = "popcli" /\ \A d \in CPUs : d # c => stage'[d] = stage[d]
  BY <1>1, Zenon DEF Types
<1>9. Types'
  BY <1>1, <1>4, Zenon DEF Types
<1>10. Counted(c)'
  BY <1>1, <1>2, <1>5, <1>6, <1>7, <1>8, Zenon DEF Counted
<1>11. Flags(c)'
  BY <1>1, Zenon DEF Flags
<1> QED BY <1>1, <1>5, <1>8, <1>9, <1>10, <1>11, StepOf, Zenon

\* popcli() finds interrupts off and ncli positive; the outermost one at
\* process level enables interrupts.
LEMMA ReleasePopcliInv ==
  ASSUME IInv, NEW c \in CPUs, NEW l \in Locks, ReleasePopcli(c, l)
  PROVE  IInv'
<1>1. /\ Types /\ Counted(c) /\ Flags(c) /\ Does(c, "release", l) /\ stage[c] = "popcli"
      /\ ncli' = [ncli EXCEPT ![c] = @ - 1]
      /\ FL_IF' = [FL_IF EXCEPT ![c] = @ \/ (ncli[c] = 1 /\ intena[c])]
      /\ panicked' = (FL_IF[c] \/ ncli[c] < 1)
      /\ stage' = [stage EXCEPT ![c] = "op"]
      /\ Advance(c) /\ Executes(c) /\ ~Ended(c)
      /\ UNCHANGED <<owner, intena>>
  BY Zenon DEF IInv, ReleasePopcli, popcli, Does
<1>2. /\ Holding(c) \in SUBSET Locks /\ After(c) = Holding(c) \ {l}
      /\ Size(After(c)) = Size(Holding(c)) - 1 /\ Size(Holding(c)) \in 1 .. 2
  BY <1>1, AtRelease, Zenon
<1>3. Held(c) = Holding(c) \ {l} /\ ncli[c] = Size(Holding(c))
  <2>1. PICK m \in Locks : /\ Does(c, "release", m) /\ Held(c) = Holding(c) \ {m}
                           /\ ncli[c] = Size(Holding(c))
    BY <1>1, Zenon DEF Counted
  <2>2. m = l
    BY <1>1, <2>1 DEF Does
  <2> QED BY <2>1, <2>2, Zenon
<1>4. \A d \in CPUs : Held(d)' = Held(d)
  BY <1>1, Zenon DEF Held
<1>5. ~FL_IF[c] /\ ncli[c] \in 1 .. 2 /\ ~(ncli[c] < 1)
  BY <1>1, <1>2, <1>3 DEF Flags
<1>6. panicked' = FALSE
  BY <1>1, <1>5, Zenon
<1>7. /\ stage'[c] = "op" /\ ncli'[c] = ncli[c] - 1
      /\ FL_IF'[c] <=> ncli[c] = 1 /\ intena[c]
  BY <1>1, <1>5, Zenon DEF Types
<1>8. \A d \in CPUs : d # c =>
        stage'[d] = stage[d] /\ ncli'[d] = ncli[d] /\ FL_IF'[d] = FL_IF[d]
  BY <1>1, Zenon DEF Types
<1>9. /\ InPath(path'[c], Paths) /\ InPath(handler'[c], Handlers)
      /\ Holding(c)' = After(c)
      /\ handler'[c] = None <=> handler[c] = None
      /\ handler[c] # None => path'[c] = path[c]
      /\ \A d \in CPUs : d # c => path'[d] = path[d] /\ handler'[d] = handler[d]
      /\ DOMAIN path' = CPUs /\ path' = [d \in CPUs |-> path'[d]]
      /\ DOMAIN handler' = CPUs /\ handler' = [d \in CPUs |-> handler'[d]]
  BY <1>1, Advanced, ZenonT(30)
<1>10. Types'
  <2>1. ncli' \in [CPUs -> 0 .. 2]
    BY <1>1, <1>5 DEF Types
  <2>2. FL_IF' \in [CPUs -> BOOLEAN]
    BY <1>1, Zenon DEF Types
  <2> QED BY <1>1, <1>6, <1>9, <2>1, <2>2, Zenon DEF Types
<1>11. Counted(c)'
  BY <1>2, <1>3, <1>4, <1>7, <1>9, Zenon DEF Counted
<1>12. Flags(c)'
  BY <1>1, <1>5, <1>7, <1>9 DEF Flags
<1> QED BY <1>1, <1>4, <1>8, <1>9, <1>10, <1>11, <1>12, StepOf, Zenon

----------------------------------------------------------------------------
(* The theorems                                                            *)

\* Every step keeps the invariant.
LEMMA NextInv == IInv /\ [Next]_vars => IInv'
<1> SUFFICES ASSUME IInv, [Next]_vars PROVE IInv'
  OBVIOUS
<1>1. CASE UNCHANGED vars
  <2>1. ASSUME NEW d \in CPUs PROVE Counted(d)' /\ Flags(d)'
    <3>1. Held(d)' = Held(d)
      BY <1>1 DEF vars, Held
    <3>2. panicked' = FALSE
      BY <1>1, Zenon DEF vars, IInv, Types
    <3> QED BY <1>1, <3>1, <3>2, Undisturbed, Zenon DEF vars
  <2>2. Types'
    BY <1>1, Zenon DEF vars, IInv, Types
  <2> QED BY <2>1, <2>2 DEF IInv
<1>2. ASSUME NEW c \in CPUs, Step(c) PROVE IInv'
  BY <1>2, FinishInv, AcquireBeginInv, AcquireXchgInv, ReleaseXchgInv, ReleasePopcliInv, Zenon
  DEF Step
<1>3. ASSUME NEW c \in CPUs, NEW name \in Paths, Start(c, name) PROVE IInv'
  BY <1>3, StartInv
<1>4. ASSUME NEW c \in CPUs, NEW name \in Handlers, Interrupt(c, name) PROVE IInv'
  BY <1>4, InterruptInv
<1> QED BY <1>1, <1>2, <1>3, <1>4 DEF Next

\* A CPU holds the locks that its place in the code tells, ncli counts them,
\* and interrupts are on exactly while it is 0 and no handler runs.
THEOREM Invariance == Spec => []IInv
  BY InitInv, NextInv, PTL DEF Spec

\* acquire(), release() and popcli() never panic, whatever interrupts come and
\* however many CPUs there are.
THEOREM NeverPanics == Spec => []NoPanic
<1>1. IInv => NoPanic
  BY Zenon DEF IInv, Types, NoPanic
<1> QED BY <1>1, Invariance, PTL

\* pushcli() and popcli() nest: outside all locks a process runs with
\* interrupts enabled, and ncli is never above 2.
THEOREM InterruptsComeBack == Spec => []InterruptsNest
<1>1. IInv => TypeOK
  BY Zenon DEF IInv, Types, TypeOK, Counted, Does, Executes
<1>2. IInv => InterruptsRestored
  <2> SUFFICES ASSUME IInv, NEW c \in CPUs, handler[c] = None, stage[c] = "op", Held(c) = {}
               PROVE  FL_IF[c] /\ ncli[c] = 0
    BY Zenon DEF InterruptsRestored
  <2>1. ncli[c] = 0
    BY Zenon DEF IInv, Counted, Size
  <2> QED BY <2>1, Zenon DEF IInv, Flags
<1> QED BY <1>1, <1>2, Invariance, PTL DEF InterruptsNest

\* No CPUs wait in a circle for each other's spin locks, whatever paths they
\* take and whatever interrupts come, unless scheduler() prints its candidates
\* with ptable.lock held: every other path acquires only ptable.lock while it
\* holds a lock.
THEOREM NoDeadlock ==
  ASSUME "scheduler_lottery" \notin Paths \union Handlers
  PROVE  Spec => []NoCircularWait
<1>1. IInv => NoCircularWait
  <2> SUFFICES ASSUME IInv, NEW S \in SUBSET CPUs, S # {},
                      \A c \in S : \E l \in Locks : SpinsFor(c, l) /\ owner[l] \in S
               PROVE  FALSE
    BY Zenon DEF NoCircularWait
  <2>1. ASSUME NEW c \in S, NEW l \in Locks, SpinsFor(c, l), NEW m \in Locks, owner[m] = c
        PROVE  l = "ptable" /\ m # "ptable"
    <3>1. /\ c \in CPUs /\ Counted(c) /\ stage[c] = "spin" /\ Does(c, "acquire", l)
      BY <2>1, Zenon DEF SpinsFor, IInv
    <3>2. m \in Held(c) /\ Held(c) = Holding(c)
      BY <2>1, <3>1, Zenon DEF Held, Counted
    <3>3. Current(c)[1] # "scheduler_lottery"
      BY <3>1, Zenon DEF Counted, InPath, Current, Does, Executes
    <3> QED BY <3>1, <3>2, <3>3, AtAcquire, SMTT(30)
  <2>2. PICK c \in S : TRUE
    OBVIOUS
  <2>3. PICK l \in Locks : owner[l] \in S
    BY <2>2
  <2>4. PICK m \in Locks : SpinsFor(owner[l], m) /\ owner[m] \in S
    BY <2>3, Zenon
  <2>5. PICK k \in Locks : SpinsFor(owner[m], k)
    BY <2>4
  <2> QED BY <2>1, <2>3, <2>4, <2>5, Zenon
<1> QED BY <1>1, Invariance, PTL

=============================================================================
