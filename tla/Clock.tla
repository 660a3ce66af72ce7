------------------------------- MODULE Clock -------------------------------
(***************************************************************************)
(* The tick counter: the timer interrupt of trap.c, sys_sleep() of         *)
(* sysproc.c, and kill() of a sleeping process.  ticks is a uint and wraps *)
(* around, here at WRAP; n is an int that the comparison converts to uint. *)
(*                                                                         *)
(* What runs under tickslock is one step, but kill(), which does not take  *)
(* it, may fall between the test of proc->killed and sleep().              *)
(***************************************************************************)
EXTENDS Integers

CONSTANTS Sleepers, Args,   \* processes in sleep(), and their n
          WRAP

\* What is assumed of the constants.
ClockConstants == WRAP \in Nat \ {0} /\ Args \subseteq Int

VARIABLES ticks,
          pc, n, ticks0,    \* per process: place and variables of sys_sleep()
          killed,
          elapsed           \* the true number of ticks since the call, up to WRAP

vars == <<ticks, pc, n, ticks0, killed, elapsed>>

Uint(k) == k % WRAP

Init == /\ ticks = 0
        /\ pc = [p \in Sleepers |-> "user"]
        /\ n = [p \in Sleepers |-> 0]
        /\ ticks0 = [p \in Sleepers |-> 0]
        /\ killed = [p \in Sleepers |-> FALSE]
        /\ elapsed = [p \in Sleepers |-> 0]

LockFree == \A p \in Sleepers : pc[p] # "to_sleep"

\* wakeup(&ticks)
WokenByTick == [p \in Sleepers |-> IF pc[p] = "asleep" THEN "testing" ELSE pc[p]]

\* The timer interrupt on CPU 0.
Tick == /\ LockFree
        /\ ticks' = Uint(ticks + 1)
        /\ pc' = WokenByTick
        /\ elapsed' = [p \in Sleepers |->
                         IF pc[p] = "user" \/ elapsed[p] = WRAP THEN elapsed[p]
                         ELSE elapsed[p] + 1]
        /\ UNCHANGED <<n, ticks0, killed>>

SleepCall(p, k) ==
  /\ pc[p] = "user"
  /\ ~killed[p]
  /\ LockFree
  /\ pc' = [pc EXCEPT ![p] = "testing"]
  /\ n' = [n EXCEPT ![p] = k]
  /\ ticks0' = [ticks0 EXCEPT ![p] = ticks]
  /\ elapsed' = [elapsed EXCEPT ![p] = 0]
  /\ UNCHANGED <<ticks, killed>>

\* Mutant: the deadline is compared, which wraps around.
SleptUntil(p) == ticks >= Uint(ticks0[p] + Uint(n[p]))

\* ticks - ticks0 < n fails.
Slept(p) == Uint(ticks - ticks0[p]) >= Uint(n[p])

\* Mutant: a killed process goes on sleeping.
AfterTestGoesOn(p) == IF Slept(p) THEN "user" ELSE "to_sleep"

AfterTest(p) == IF Slept(p) \/ killed[p] THEN "user" ELSE "to_sleep"

Test(p) == /\ pc[p] = "testing"
           /\ LockFree
           /\ pc' = [pc EXCEPT ![p] = AfterTest(p)]
           /\ IF AfterTest(p) = "user"      \* the variables of the call are gone
              THEN /\ n' = [n EXCEPT ![p] = 0]
                   /\ ticks0' = [ticks0 EXCEPT ![p] = 0]
                   /\ elapsed' = [elapsed EXCEPT ![p] = 0]
              ELSE UNCHANGED <<n, ticks0, elapsed>>
           /\ UNCHANGED <<ticks, killed>>

\* sleep(&ticks, &tickslock)
Sleep(p) == /\ pc[p] = "to_sleep"
            /\ pc' = [pc EXCEPT ![p] = "asleep"]
            /\ UNCHANGED <<ticks, n, ticks0, killed, elapsed>>

\* kill() of a process inside the call.
Kill(p) == /\ pc[p] # "user"
           /\ ~killed[p]
           /\ killed' = [killed EXCEPT ![p] = TRUE]
           /\ pc' = [pc EXCEPT ![p] = IF @ = "asleep" THEN "testing" ELSE @]
           /\ UNCHANGED <<ticks, n, ticks0, elapsed>>

Next == \/ Tick
        \/ \E p \in Sleepers : \/ \E k \in Args : SleepCall(p, k)
                               \/ Test(p) \/ Sleep(p) \/ Kill(p)

Spec == Init /\ [][Next]_vars

\* The timer keeps interrupting, a process that can run does, and both get
\* tickslock, which nobody holds for more than a few instructions.
Fairness == /\ SF_vars(Tick)
            /\ \A p \in Sleepers : SF_vars(Test(p)) /\ WF_vars(Sleep(p))

FairSpec == Spec /\ Fairness

----------------------------------------------------------------------------
(* Properties                                                              *)

\* sleep(n) of a process that is not killed lasts n ticks at least, whenever
\* ticks wraps around meanwhile; a negative n counts as a uint.
NeverReturnsEarly ==
  [][\A p \in Sleepers : pc[p] = "testing" /\ pc'[p] = "user" /\ ~killed[p] =>
       elapsed[p] >= Uint(n[p])]_vars

\* Nobody is left asleep when its time is over: every tick wakes all sleepers.
NobodyOversleeps == \A p \in Sleepers : pc[p] \in {"to_sleep", "asleep"} => ~Slept(p)

\* A killed process leaves sleep(), even one that kill() reached between the
\* test of proc->killed and the sleep.
KilledSleeperReturns == \A p \in Sleepers : killed[p] ~> pc[p] = "user"
=============================================================================
