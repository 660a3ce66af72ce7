---------------------------- MODULE SleepWakeup ----------------------------
(***************************************************************************)
(* sleep() and wakeup() of proc.c at the level of the two spin locks they  *)
(* juggle: the caller's lock lk, which protects the condition, and         *)
(* ptable.lock.  The clients are the producers and consumers of sleep1.p,  *)
(* the Promela model that is kept beside the code: `value' counts items.   *)
(*                                                                         *)
(* Every acquire and release is a step of its own.  A process that is      *)
(* switched out leaves ptable.lock to its scheduler, which releases it.    *)
(***************************************************************************)
EXTENDS Naturals

CONSTANTS Consumers, Producers,
          MaxValue,  \* bound: producers pause when value reaches it
          Late,      \* the producers that release lk before wakeup()
          None

Procs == Consumers \union Producers

ASSUME SleepConstants == /\ Consumers \intersect Producers = {}
                         /\ None \notin Procs
                         /\ MaxValue \in Nat \ {0}
                         /\ Late \subseteq Producers

VARIABLES value,
          lk,      \* who holds the caller's lock
          ptable,  \* who holds ptable.lock
          state,   \* p->state
          pc

vars == <<value, lk, ptable, state, pc>>

Init == /\ value = 0
        /\ lk = None
        /\ ptable = None
        /\ state = [p \in Procs |-> "RUNNING"]
        /\ pc = [p \in Procs |-> "start"]

Goto(p, from, to) == pc[p] = from /\ pc' = [pc EXCEPT ![p] = to]

AcquireLk(p, from, to) == /\ Goto(p, from, to)
                          /\ lk = None
                          /\ lk' = p
                          /\ UNCHANGED <<value, ptable, state>>

ReleaseLk(p, from, to) == /\ Goto(p, from, to)
                          /\ lk = p
                          /\ lk' = None
                          /\ UNCHANGED <<value, ptable, state>>

AcquirePtable(p, from, to) == /\ Goto(p, from, to)
                              /\ ptable = None
                              /\ ptable' = p
                              /\ UNCHANGED <<value, lk, state>>

ReleasePtable(p, from, to) == /\ Goto(p, from, to)
                              /\ ptable = p
                              /\ ptable' = None
                              /\ UNCHANGED <<value, lk, state>>

----------------------------------------------------------------------------
(* A consumer: acquire(lk); while(value == 0) sleep(chan, lk); value--;    *)
(* release(lk)                                                             *)

Lock(p) == AcquireLk(p, "start", "test")

Take(p) == /\ value > 0
           /\ Goto(p, "test", "release")
           /\ value' = value - 1
           /\ UNCHANGED <<lk, ptable, state>>

Unlock(p) == ReleaseLk(p, "release", "start")

CallSleep(p) == /\ value = 0
                /\ Goto(p, "test", "sleeplock1")
                /\ UNCHANGED <<value, lk, ptable, state>>

\* Mutant: the caller's lock is released before ptable.lock is acquired.
SleepReleaseFirst(p) == \/ ReleaseLk(p, "sleeplock1", "sleep_release")
                        \/ AcquirePtable(p, "sleep_release", "asleep")

\* acquire(&ptable.lock); release(lk)
SleepLocks(p) == \/ AcquirePtable(p, "sleeplock1", "sleep_release")
                 \/ ReleaseLk(p, "sleep_release", "asleep")

\* proc->chan = chan; proc->state = SLEEPING; sched()
GoToSleep(p) == /\ Goto(p, "asleep", "switch")
                /\ ptable = p
                /\ state' = [state EXCEPT ![p] = "SLEEPING"]
                /\ UNCHANGED <<value, lk, ptable>>

\* scheduler(), entered by sched(), releases ptable.lock.
SwitchOut(p) == ReleasePtable(p, "switch", "out")

\* scheduler() picks p again, which holds ptable.lock when it goes on.
SwitchIn(p) == /\ state[p] = "RUNNABLE"
               /\ Goto(p, "out", "tidy")
               /\ ptable = None
               /\ ptable' = p
               /\ state' = [state EXCEPT ![p] = "RUNNING"]
               /\ UNCHANGED <<value, lk>>

TidyUp(p) == ReleasePtable(p, "tidy", "sleeplock2")

Relock(p) == AcquireLk(p, "sleeplock2", "test")

Consume(p) == \/ Lock(p) \/ Take(p) \/ Unlock(p) \/ CallSleep(p)
              \/ SleepLocks(p) \/ GoToSleep(p)
              \/ SwitchOut(p) \/ SwitchIn(p) \/ TidyUp(p) \/ Relock(p)

----------------------------------------------------------------------------
(* A producer: acquire(lk); value++; wakeup(chan); release(lk), or with    *)
(* the last two swapped.                                                   *)

LockForPut(p) == AcquireLk(p, "start", "put")

Put(p) == /\ value < MaxValue
          /\ Goto(p, "put", IF p \in Late THEN "put_release" ELSE "wakeup")
          /\ value' = value + 1
          /\ UNCHANGED <<lk, ptable, state>>

\* Nothing to put now: the bound MaxValue.
Skip(p) == value = MaxValue /\ ReleaseLk(p, "put", "start")

ReleaseEarly(p) == ReleaseLk(p, "put_release", "wakeup")

WakeupAcquire(p) == AcquirePtable(p, "wakeup", "wakeup1")

\* Mutant: wakeup1() overlooks the process that is just switching out.
wakeup1Out == [q \in Procs |-> IF state[q] = "SLEEPING" /\ pc[q] # "out"
                               THEN "RUNNABLE" ELSE state[q]]

wakeup1 == [q \in Procs |-> IF state[q] = "SLEEPING" THEN "RUNNABLE" ELSE state[q]]

Wakeup(p) == /\ Goto(p, "wakeup1", "wakeup_release")
             /\ state' = wakeup1
             /\ UNCHANGED <<value, lk, ptable>>

WakeupRelease(p) ==
  ReleasePtable(p, "wakeup_release", IF p \in Late THEN "start" ELSE "put_end")

ReleaseLate(p) == ReleaseLk(p, "put_end", "start")

Produce(p) == \/ LockForPut(p) \/ Put(p) \/ Skip(p) \/ ReleaseEarly(p)
              \/ WakeupAcquire(p) \/ Wakeup(p) \/ WakeupRelease(p)
              \/ ReleaseLate(p)

----------------------------------------------------------------------------

Next == \/ \E p \in Consumers : Consume(p)
        \/ \E p \in Producers : Produce(p)

Spec == Init /\ [][Next]_vars

\* Every process that can take a step is run; nothing is assumed about who
\* gets a contended spin lock.
FairSpec == /\ Spec
            /\ \A p \in Consumers : WF_vars(Consume(p))
            /\ \A p \in Producers : WF_vars(Produce(p))

----------------------------------------------------------------------------
(* Properties                                                              *)

\* Every variable has its type.
TypeOK ==
  /\ value \in 0 .. MaxValue
  /\ lk \in Procs \union {None}
  /\ ptable \in Procs \union {None}
  /\ state \in [Procs -> {"RUNNING", "SLEEPING", "RUNNABLE"}]
  /\ pc \in [Procs -> {"start", "test", "release", "sleeplock1",
                       "sleep_release", "asleep", "switch", "out", "tidy",
                       "sleeplock2", "put", "put_release", "wakeup",
                       "wakeup1", "wakeup_release", "put_end"}]

\* p is asleep, or can no longer be kept from going to sleep.
Sleeper(p) == \/ pc[p] \in {"sleep_release", "asleep"}
              \/ pc[p] \in {"switch", "out"} /\ state[p] = "SLEEPING"

\* p has added an item and has still to call wakeup1().
WillWake(p) == pc[p] \in {"put_release", "wakeup", "wakeup1"}

\* "Once we hold ptable.lock, we can be guaranteed that we won't miss any
\* wakeup": while there is an item and somebody sleeps, a wakeup is coming,
\* whether wakeup() is called before or after release(lk).
NoMissedWakeup ==
  value > 0 /\ (\E p \in Consumers : Sleeper(p)) => \E p \in Producers : WillWake(p)

\* A consumer that sleeps is woken.
SleepersWake == \A p \in Consumers : Sleeper(p) ~> ~Sleeper(p)

=============================================================================
