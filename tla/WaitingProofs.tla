--------------------------- MODULE WaitingProofs ---------------------------
(***************************************************************************)
(* Who waits is woken.  No wakeup is lost between sleep() and wakeup(),    *)
(* for any number of consumers and producers and both orders of            *)
(* release(lk) and wakeup(); and sys_sleep() neither returns early nor     *)
(* oversleeps, for any number of sleepers and any width of ticks.          *)
(***************************************************************************)
EXTENDS MCWaiting, TLAPS

----------------------------------------------------------------------------
(* SleepWakeup                                                             *)

\* Where p holds lk: wakeup() runs inside it or after it.
LkHeld(p) == {"test", "release", "sleeplock1", "sleep_release", "put", "put_release"}
             \union (IF p \in Late THEN {}
                     ELSE {"wakeup", "wakeup1", "wakeup_release", "put_end"})

\* Where a process holds ptable.lock.
PtableHeld == {"sleep_release", "asleep", "switch", "tidy", "wakeup1", "wakeup_release"}

ConsumerAt == {"start", "test", "release", "sleeplock1", "sleep_release",
               "asleep", "switch", "out", "tidy", "sleeplock2"}
ProducerAt(p) == {"start", "put", "wakeup", "wakeup1", "wakeup_release"}
                 \union (IF p \in Late THEN {"put_release"} ELSE {"put_end"})

\* The two locks are held exactly where the code is between acquire and
\* release.
LocksHeld == \A p \in Procs : /\ pc[p] \in LkHeld(p) <=> lk = p
                              /\ pc[p] \in PtableHeld <=> ptable = p

Places == /\ \A p \in Consumers : pc[p] \in ConsumerAt
          /\ \A p \in Producers : pc[p] \in ProducerAt(p)

\* Only a process that has been switched out is not RUNNING; between the
\* assignment of SLEEPING and the switch ptable.lock keeps wakeup1() away.
States == \A p \in Procs : state[p] # "RUNNING" => pc[p] \in {"switch", "out"}

\* Until lk is released the condition that made p sleep still holds.
Committed == \A p \in Consumers :
  pc[p] \in {"sleeplock1", "sleep_release"} => value = 0

\* The inductive invariant.
IInv == TypeOK /\ LocksHeld /\ Places /\ States /\ Committed /\ NoMissedWakeup

\* Every initial state satisfies the invariant: nobody holds a lock and
\* nobody sleeps.
LEMMA InitInv == Init => IInv
  BY SleepConstants, SMTT(30)
  DEF Init, IInv, TypeOK, LocksHeld, Places, States, Committed, NoMissedWakeup,
      Procs, LkHeld, PtableHeld, ConsumerAt, ProducerAt, Sleeper

\* A step of a consumer, in or out of sleep(), preserves the invariant.
LEMMA ConsumeInv ==
  ASSUME IInv, NEW p \in Consumers, Consume(p)
  PROVE  IInv'
<1> p \in Procs /\ p # None
  BY SleepConstants DEF Procs
<1> USE SleepConstants DEF IInv, TypeOK, LocksHeld, Places, States, Committed,
        NoMissedWakeup, Procs, LkHeld, PtableHeld, ConsumerAt, ProducerAt,
        Sleeper, WillWake, Goto
<1>1. CASE Lock(p)
  BY <1>1 DEF Lock, AcquireLk
<1>2. CASE Take(p)
  BY <1>2 DEF Take
<1>3. CASE Unlock(p)
  BY <1>3 DEF Unlock, ReleaseLk
<1>4. CASE CallSleep(p)
  BY <1>4 DEF CallSleep
<1>5. CASE SleepLocks(p)
  BY <1>5 DEF SleepLocks, AcquirePtable, ReleaseLk
<1>6. CASE GoToSleep(p)
  BY <1>6, Zenon DEF GoToSleep
<1>7. CASE SwitchOut(p)
  BY <1>7 DEF SwitchOut, ReleasePtable
<1>8. CASE SwitchIn(p)
  BY <1>8 DEF SwitchIn
<1>9. CASE TidyUp(p)
  BY <1>9 DEF TidyUp, ReleasePtable
<1>10. CASE Relock(p)
  BY <1>10, SMTT(30) DEF Relock, AcquireLk
<1> QED
  BY <1>1, <1>2, <1>3, <1>4, <1>5, <1>6, <1>7, <1>8, <1>9, <1>10, Zenon DEF Consume

\* A step of a producer, in or out of wakeup(), preserves the invariant.
LEMMA ProduceInv ==
  ASSUME IInv, NEW p \in Producers, Produce(p)
  PROVE  IInv'
<1> p \in Procs /\ p # None
  BY SleepConstants DEF Procs
<1> USE SleepConstants DEF IInv, TypeOK, LocksHeld, Places, States, Committed,
        NoMissedWakeup, Procs, LkHeld, PtableHeld, ConsumerAt, ProducerAt,
        Sleeper, WillWake, Goto
<1>1. CASE LockForPut(p)
  BY <1>1 DEF LockForPut, AcquireLk
<1>2. CASE Put(p)
  BY <1>2 DEF Put
<1>3. CASE Skip(p)
  BY <1>3 DEF Skip, ReleaseLk
<1>4. CASE ReleaseEarly(p)
  BY <1>4 DEF ReleaseEarly, ReleaseLk
<1>5. CASE WakeupAcquire(p)
  BY <1>5 DEF WakeupAcquire, AcquirePtable
<1>6. CASE Wakeup(p)
  BY <1>6 DEF Wakeup, wakeup1
<1>7. CASE WakeupRelease(p)
  BY <1>7 DEF WakeupRelease, ReleasePtable
<1>8. CASE ReleaseLate(p)
  BY <1>8 DEF ReleaseLate, ReleaseLk
<1> QED
  BY <1>1, <1>2, <1>3, <1>4, <1>5, <1>6, <1>7, <1>8, Zenon DEF Produce

\* The invariant holds always: sleep() and wakeup() hold the locks where
\* they should, and no wakeup is missed.
THEOREM Invariance == Spec => []IInv
<1>1. IInv /\ [Next]_vars => IInv'
  <2> SUFFICES ASSUME IInv, [Next]_vars PROVE IInv'
    OBVIOUS
  <2>1. CASE UNCHANGED vars
    BY <2>1, Zenon DEF vars, IInv, TypeOK, LocksHeld, Places, States, Committed,
                NoMissedWakeup, Sleeper, WillWake
  <2>2. CASE Next
    BY <2>2, ConsumeInv, ProduceInv, Zenon DEF Next
  <2> QED
    BY <2>1, <2>2
<1> QED
  BY InitInv, <1>1, PTL DEF Spec

\* Type correctness of the sleep/wakeup protocol.
THEOREM TypeCorrect == Spec => []TypeOK
<1>1. IInv => TypeOK
  BY DEF IInv
<1> QED
  BY <1>1, Invariance, PTL

\* While there is an item and somebody sleeps, or is bound to, in sleep(), a
\* producer is on its way to wakeup1().
THEOREM NoWakeupIsMissed == Spec => []NoMissedWakeup
<1>1. IInv => NoMissedWakeup
  BY DEF IInv
<1> QED
  BY <1>1, Invariance, PTL

----------------------------------------------------------------------------
(* Clock                                                                   *)

\* Remainders of numbers that are off by one turn at most.
LEMMA ModUnique ==
  ASSUME NEW W \in Nat \ {0}, NEW q \in Int, NEW r \in 0 .. W - 1
  PROVE  (W * q + r) % W = r
<1> DEFINE x == W * q + r
<1>1. /\ x \in Int /\ x \div W \in Int /\ x % W \in 0 .. W - 1
      /\ x = W * (x \div W) + (x % W)
  OBVIOUS
<1>2. W * (q - (x \div W)) = (x % W) - r
  BY <1>1
<1>3. CASE q - (x \div W) >= 1
  <2>1. W * (q - (x \div W)) >= W
    BY <1>1, <1>3
  <2> QED BY <1>1, <1>2, <2>1
<1>4. CASE q - (x \div W) <= -1
  <2>1. W * (q - (x \div W)) <= -W
    BY <1>1, <1>4
  <2> QED BY <1>1, <1>2, <2>1
<1>5. CASE q - (x \div W) = 0
  BY <1>1, <1>2, <1>5
<1> QED BY <1>1, <1>3, <1>4, <1>5

\* The remainder of what is less than a turn away from 0 .. W - 1.
LEMMA ModTurn ==
  ASSUME NEW W \in Nat \ {0}, NEW x \in Int, -W <= x, x < 2 * W
  PROVE  x % W = IF x < 0 THEN x + W ELSE IF x < W THEN x ELSE x - W
<1>1. CASE x < 0
  <2>1. x + W \in 0 .. W - 1 /\ x = W * (-1) + (x + W)
    BY <1>1
  <2> QED BY <1>1, <2>1, ModUnique
<1>2. CASE 0 <= x /\ x < W
  <2>1. x = W * 0 + x
    OBVIOUS
  <2> QED BY <1>2, <2>1, ModUnique
<1>3. CASE W <= x
  <2>1. x - W \in 0 .. W - 1 /\ x = W * 1 + (x - W)
    BY <1>3
  <2> QED BY <1>3, <2>1, ModUnique
<1> QED BY <1>1, <1>2, <1>3

\* Types of the variables of Clock.
ClockTypeOK ==
  /\ ticks \in 0 .. WRAP - 1
  /\ at \in [Sleepers -> {"user", "testing", "to_sleep", "asleep"}]
  /\ n \in [Sleepers -> Int]
  /\ ticks0 \in [Sleepers -> 0 .. WRAP - 1]
  /\ stop \in [Sleepers -> BOOLEAN]
  /\ elapsed \in [Sleepers -> 0 .. WRAP]

\* The difference of ticks and ticks0 is the time that has passed, until it
\* has passed a whole turn of the counter.
TimePassed == \A p \in Sleepers :
  at[p] # "user" => elapsed[p] = WRAP \/ C!Uint(ticks - ticks0[p]) = elapsed[p]

\* The inductive invariant of Clock.
ClockInv == ClockTypeOK /\ TimePassed /\ C!NobodyOversleeps

\* One more tick, across the wrap-around of ticks.
LEMMA OneMoreTick ==
  ASSUME ClockConstants, NEW t \in 0 .. WRAP - 1, NEW t0 \in 0 .. WRAP - 1
  PROVE  /\ C!Uint(t + 1) \in 0 .. WRAP - 1
         /\ C!Uint(t - t0) \in 0 .. WRAP - 1
         /\ C!Uint(t - t0) < WRAP - 1 => C!Uint(C!Uint(t + 1) - t0) = C!Uint(t - t0) + 1
         /\ C!Uint(t - t) = 0
<1> USE DEF C!Uint, C!ClockConstants
<1>1. WRAP \in Nat \ {0}
  BY ClockConstants
<1>2. (t + 1) % WRAP = IF t + 1 < WRAP THEN t + 1 ELSE 0
  BY <1>1, ModTurn
<1>3. ASSUME NEW s \in 0 .. WRAP - 1
      PROVE  (s - t0) % WRAP = IF s < t0 THEN s - t0 + WRAP ELSE s - t0
  <2> DEFINE x == s - t0
  <2>1. x \in Int /\ -WRAP <= x /\ x < WRAP /\ x < 2 * WRAP /\ (x < 0 <=> s < t0)
    BY <1>1
  <2> HIDE DEF x
  <2>2. x % WRAP = IF x < 0 THEN x + WRAP ELSE x
    BY <1>1, <2>1, ModTurn, Zenon
  <2> QED BY <2>1, <2>2, Zenon DEF x
<1>4. (t + 1) % WRAP \in 0 .. WRAP - 1
  BY <1>1, <1>2
<1>5. (t - t) % WRAP = 0
  BY <1>1, ModTurn
<1>6. (((t + 1) % WRAP) - t0) % WRAP = IF (t + 1) % WRAP < t0 THEN ((t + 1) % WRAP) - t0 + WRAP
                                       ELSE ((t + 1) % WRAP) - t0
  BY <1>3, <1>4, Zenon
<1>7. (t - t0) % WRAP = IF t < t0 THEN t - t0 + WRAP ELSE t - t0
  BY <1>3
<1> DEFINE u == (t + 1) % WRAP
           d == (t - t0) % WRAP
           e == (u - t0) % WRAP
<1> SUFFICES u \in 0 .. WRAP - 1 /\ d \in 0 .. WRAP - 1 /\ (d < WRAP - 1 => e = d + 1)
  BY <1>5, Zenon
<1> HIDE DEF u, d, e
<1> QED
  BY <1>1, <1>2, <1>4, <1>6, <1>7 DEF u, d, e

\* Nobody is inside sys_sleep() at first.
LEMMA ClockInit == C!Init => ClockInv
  BY ClockConstants DEF C!Init, ClockInv, ClockTypeOK, TimePassed, C!NobodyOversleeps, C!ClockConstants

\* The timer interrupt: who slept is awake again, and who is inside has been
\* there for one tick more.
LEMMA TickInv == ClockInv /\ C!Tick => ClockInv'
<1> SUFFICES ASSUME ClockInv, C!Tick PROVE ClockInv'
  OBVIOUS
<1> USE DEF ClockInv, C!Tick
<1>0. WRAP \in Nat \ {0}
  BY ClockConstants, Zenon DEF C!ClockConstants
<1>1. ClockTypeOK'
  <2>1. ticks' \in 0 .. WRAP - 1
    BY ClockConstants, OneMoreTick, Zenon DEF ClockTypeOK
  <2>2. at' \in [Sleepers -> {"user", "testing", "to_sleep", "asleep"}]
    BY Zenon DEF ClockTypeOK, C!WokenByTick
  <2>3. elapsed' \in [Sleepers -> 0 .. WRAP]
    BY <1>0 DEF ClockTypeOK
  <2> QED BY <2>1, <2>2, <2>3, Zenon DEF ClockTypeOK
<1>2. TimePassed'
  <2> SUFFICES ASSUME NEW p \in Sleepers, at'[p] # "user"
               PROVE  elapsed'[p] = WRAP \/ C!Uint(ticks' - ticks0'[p]) = elapsed'[p]
    BY Zenon DEF TimePassed
  <2>1. at[p] # "user"
    BY Zenon DEF C!WokenByTick, ClockTypeOK
  <2>2. /\ C!Uint(ticks - ticks0[p]) \in 0 .. WRAP - 1
        /\ C!Uint(ticks - ticks0[p]) < WRAP - 1 =>
             C!Uint(ticks' - ticks0[p]) = C!Uint(ticks - ticks0[p]) + 1
    BY ClockConstants, OneMoreTick, Zenon DEF ClockTypeOK
  <2>3. elapsed'[p] = IF elapsed[p] = WRAP THEN WRAP ELSE elapsed[p] + 1
    BY <2>1, Zenon DEF ClockTypeOK
  <2> QED BY <1>0, <2>1, <2>2, <2>3 DEF TimePassed, ClockTypeOK
<1>3. C!NobodyOversleeps'
  BY Zenon DEF C!NobodyOversleeps, C!LockFree, C!WokenByTick, ClockTypeOK
<1> QED BY <1>1, <1>2, <1>3, Zenon

\* The call, its loop, and kill(): a process goes to sleep only after it has
\* found that its time is not over, and the clock stands still meanwhile.
LEMMA SleeperInv ==
  ASSUME ClockInv, NEW p \in Sleepers,
         \/ \E k \in Args : C!SleepCall(p, k)
         \/ C!Test(p) \/ C!Sleep(p) \/ C!Kill(p)
  PROVE  ClockInv'
<1> USE DEF ClockInv
<1>0. WRAP \in Nat \ {0} /\ Args \subseteq Int
  BY ClockConstants DEF C!ClockConstants
<1>1. ASSUME NEW k \in Args, C!SleepCall(p, k) PROVE ClockInv'
  <2>1. ClockTypeOK'
    BY <1>0, <1>1 DEF C!SleepCall, ClockTypeOK
  <2>2. TimePassed'
    BY <1>0, <1>1, ClockConstants, OneMoreTick, Zenon DEF C!SleepCall, ClockTypeOK, TimePassed
  <2>3. C!NobodyOversleeps'
    BY <1>1, Zenon DEF C!SleepCall, ClockTypeOK, C!NobodyOversleeps, C!Slept
  <2> QED BY <2>1, <2>2, <2>3
<1>2. CASE C!Test(p)
  <2>1. ClockTypeOK'
    BY <1>0, <1>2 DEF C!Test, C!AfterTest, ClockTypeOK
  <2>2. TimePassed'
    BY <1>2, Zenon DEF C!Test, C!AfterTest, ClockTypeOK, TimePassed
  <2>3. C!NobodyOversleeps'
    BY <1>2, Zenon DEF C!Test, C!AfterTest, ClockTypeOK, C!NobodyOversleeps, C!Slept
  <2> QED BY <2>1, <2>2, <2>3
<1>3. CASE C!Sleep(p)
  BY <1>3, Zenon DEF C!Sleep, ClockTypeOK, TimePassed, C!NobodyOversleeps, C!Slept
<1>4. CASE C!Kill(p)
  BY <1>4, Zenon DEF C!Kill, ClockTypeOK, TimePassed, C!NobodyOversleeps, C!Slept
<1> QED BY <1>1, <1>2, <1>3, <1>4, Zenon

\* ticks - ticks0 is the time since the call of sys_sleep(), up to one turn of
\* ticks, and nobody sleeps whose time is over.
THEOREM ClockInvariance == C!Spec => []ClockInv
<1>1. ClockInv /\ [C!Next]_C!vars => ClockInv'
  <2> SUFFICES ASSUME ClockInv, [C!Next]_C!vars PROVE ClockInv'
    OBVIOUS
  <2>1. CASE UNCHANGED C!vars
    BY <2>1, Zenon DEF C!vars, ClockInv, ClockTypeOK, TimePassed, C!NobodyOversleeps, C!Slept
  <2>2. CASE C!Next
    BY <2>2, TickInv, SleeperInv, Zenon DEF C!Next
  <2> QED BY <2>1, <2>2
<1> QED BY <1>1, ClockInit, PTL DEF C!Spec


\* sys_sleep(n) of a process that is not killed returns after n ticks at
\* least, wherever ticks wraps around meanwhile, for any width of ticks.
THEOREM SleepsLongEnough == C!Spec => NeverReturnsEarly
<1>1. ASSUME ClockInv, [C!Next]_C!vars, NEW p \in Sleepers,
             at[p] = "testing", at'[p] = "user", ~stop[p]
      PROVE  elapsed[p] >= C!Uint(n[p])
  <2>0. WRAP \in Nat \ {0}
    BY ClockConstants DEF C!ClockConstants
  <2>1. C!Test(p)
    <3>1. ~UNCHANGED C!vars
      BY <1>1 DEF C!vars
    <3>2. ~C!Tick
      BY <1>1, Zenon DEF C!Tick, C!WokenByTick
    <3>3. ASSUME NEW q \in Sleepers, q # p \/ ~C!Test(q),
                 \/ \E k \in Args : C!SleepCall(q, k)
                 \/ C!Test(q) \/ C!Sleep(q) \/ C!Kill(q)
          PROVE  at'[p] # "user"
      BY <1>1, <3>3, Zenon
      DEF ClockInv, ClockTypeOK, C!SleepCall, C!Test, C!Sleep, C!Kill
    <3> QED BY <1>1, <3>1, <3>2, <3>3, Zenon DEF C!Next
  <2>2. C!Slept(p)
    BY <1>1, <2>1, Zenon DEF C!Test, C!AfterTest, ClockInv, ClockTypeOK
  <2>3. n[p] \in Int /\ C!Uint(n[p]) \in 0 .. WRAP - 1
    BY <1>1, <2>0 DEF ClockInv, ClockTypeOK, C!Uint
  <2> QED
    BY <1>1, <2>0, <2>2, <2>3 DEF ClockInv, ClockTypeOK, TimePassed, C!Slept
<1>2. ClockInv /\ [C!Next]_C!vars =>
        [\A p \in Sleepers : at[p] = "testing" /\ at'[p] = "user" /\ ~stop[p] =>
           elapsed[p] >= C!Uint(n[p])]_C!vars
  BY <1>1, Zenon
<1> QED
  BY <1>2, ClockInvariance, PTL DEF C!Spec, NeverReturnsEarly, C!NeverReturnsEarly

----------------------------------------------------------------------------
(* The three of them side by side, as they are model-checked               *)

\* A step of one component leaves the others alone.
LEMMA Components == MCSpec => Spec /\ P!Spec /\ C!Spec
<1>1. MCInit => Init /\ P!Init /\ C!Init
  BY DEF MCInit
<1>2. [MCNext]_<<part, vars, pipevars, clockvars>> =>
        [Next]_vars /\ [P!Next]_P!vars /\ [C!Next]_C!vars
  BY Zenon DEF MCNext, vars, pipevars, clockvars, P!vars, C!vars
<1> QED
  BY <1>1, <1>2, PTL DEF MCSpec, Spec, P!Spec, C!Spec


\* Module PipeProofs is about the same pipe.
PP == INSTANCE PipeProofs WITH pc <- place, n <- len, None <- Nobody

LEMMA SamePipe == PP!PipeConstants /\ (P!Spec => PP!Spec)
<1>1. PP!PipeConstants
  BY PipeConstants DEF P!PipeConstants, PP!PipeConstants, P!Procs, PP!Procs
<1>2. P!Init => PP!Init
  BY DEF P!Init, PP!Init, P!Procs, PP!Procs
<1>3. [P!Next]_P!vars => [PP!Next]_PP!vars
  BY Zenon DEF
      P!Procs, PP!Procs, P!ring, PP!ring, P!ends, PP!ends, P!vars, PP!vars,
      P!Empty, PP!Empty, P!Full, PP!Full, P!Wake, PP!Wake,
      P!WakeReaders, PP!WakeReaders, P!WakeWriters, PP!WakeWriters,
      P!Goto, PP!Goto, P!Holds, PP!Holds, P!Acquire, PP!Acquire,
      P!Leave, PP!Leave, P!SleepAt, PP!SleepAt, P!WriteCall, PP!WriteCall,
      P!WriteByte, PP!WriteByte, P!WriteFull, PP!WriteFull,
      P!WriteSleep, PP!WriteSleep, P!WriteDone, PP!WriteDone,
      P!ReadCall, PP!ReadCall, P!ReadBlocks, PP!ReadBlocks,
      P!ReadEmpty, PP!ReadEmpty, P!ReadSleep, PP!ReadSleep,
      P!ReadReady, PP!ReadReady, P!ReadByte, PP!ReadByte,
      P!ReadDone, PP!ReadDone, P!FileClose, PP!FileClose,
      P!BothClosed, PP!BothClosed, P!PipeClose, PP!PipeClose, P!Kill, PP!Kill,
      P!Inside, PP!Inside, P!Calls, PP!Calls, P!Next, PP!Next
<1> QED
  BY <1>1, <1>2, <1>3, PTL DEF P!Spec, PP!Spec

\* The clock tick wakes all sleepers, pipewrite(), piperead() and pipeclose()
\* wake the other end: nobody sleeps over what has already happened, for any
\* number of processes, any PIPESIZE and any width of ticks and counters.
THEOREM WhoWaitsIsWoken == MCSpec => []NobodyOversleeps
<1>1. ClockInv => C!NobodyOversleeps
  BY DEF ClockInv
<1>2. PP!Spec => []PP!NoLostWakeup
  BY SamePipe, PP!NoWakeupIsLost, PTL
<1>3. PP!NoLostWakeup <=> P!NoLostWakeup
  BY DEF P!NoLostWakeup, PP!NoLostWakeup, P!Procs, PP!Procs, P!Empty, PP!Empty,
         P!Full, PP!Full
<1> QED
  BY <1>1, <1>2, <1>3, SamePipe, Components, ClockInvariance, PTL DEF NobodyOversleeps

\* pipeclose() frees the page of a pipe when nobody is inside pipewrite() or
\* piperead() or can come back to them, and the counters of the ring stay
\* within PIPESIZE of each other while they wrap around.
THEOREM PipesAreKept == MCSpec => []PipeIsKept
<1>1. PP!Spec => []PP!PipeIsKept
  BY SamePipe, PP!NeverFreedInUse, PTL
<1>2. PP!PipeIsKept => PipeIsKept
  BY Zenon DEF PipeIsKept, P!PipeIsKept, PP!PipeIsKept, P!TypeOK, PP!TypeOK, P!Procs, PP!Procs,
         P!Used, PP!Used, P!NoUseAfterFree, PP!NoUseAfterFree
<1> QED
  BY <1>1, <1>2, SamePipe, Components, PTL

\* piperead() says end of file only when all writers are gone.
THEOREM NoEarlyEOF == MCSpec => NoFalseEOF
<1>1. PP!Spec => PP!NoFalseEOF
  BY SamePipe, PP!EOFMeansClosed, PTL
<1> QED
  BY <1>1, SamePipe, Components, PTL DEF NoFalseEOF, P!NoFalseEOF, PP!NoFalseEOF, P!vars, PP!vars

\* A pipe of pipe.c implements the stream of ByteStream.
THEOREM PipesAreStreams == MCSpec => PipeIsStream
<1>1. PP!Spec => PP!PipeIsStream
  BY SamePipe, PP!ImplementsStream, PTL
<1>2. PP!Contents = P!Contents
  BY Zenon DEF P!Contents, PP!Contents, P!Used, PP!Used
<1>3. PP!Stream!BSInit => P!Stream!BSInit
  BY <1>2, Zenon DEF PP!Stream!BSInit, P!Stream!BSInit
<1>4. [PP!Stream!BSNext]_(PP!Stream!bsvars) => [P!Stream!BSNext]_(P!Stream!bsvars)
  BY <1>2, Zenon DEF PP!Stream!BSNext, P!Stream!BSNext, PP!Stream!bsvars, P!Stream!bsvars,
     PP!Stream!Put, P!Stream!Put, PP!Stream!Get, P!Stream!Get, PP!Stream!CloseRead,
     P!Stream!CloseRead, PP!Stream!CloseWrite, P!Stream!CloseWrite,
     PP!Contents, P!Contents, PP!Used, P!Used
<1> QED
  BY <1>1, <1>3, <1>4, SamePipe, Components, PTL
  DEF PipeIsStream, PP!PipeIsStream, P!PipeIsStream, PP!Stream!BSSpec, P!Stream!BSSpec
=============================================================================
