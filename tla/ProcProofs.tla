---------------------------- MODULE ProcProofs ----------------------------
(***************************************************************************)
(* Processes on any number of CPUs, for any number of slots: the inductive *)
(* invariant of module Proc, the proof that every step keeps it, and the   *)
(* properties it implies.                                                  *)
(*                                                                         *)
(* The properties of Proc are not inductive.  What holds them up is who    *)
(* holds ptable.lock across a switch (Scheduled), that initproc never dies *)
(* (Lineage), and that the child fork() is making belongs to one parent,   *)
(* which can neither exit nor wait meanwhile (Forks, Preempted).           *)
(***************************************************************************)
EXTENDS Proc, TLAPS

Alive == {"SLEEPING", "RUNNABLE", "RUNNING"}

\* sched() and scheduler() hand ptable.lock over with the CPU: who is in the
\* middle of a switch holds it, and a process being left is not RUNNING.
Scheduled == \A c \in CPUs :
  /\ (at[c] = "scheduler") <=> (proc[c] = None)
  /\ (at[c] \in {"switch_in", "switch_out"}) <=> (lock = c)
  /\ at[c] = "switch_out" => state[proc[c]] \in {"RUNNABLE", "SLEEPING", "ZOMBIE"}

\* initproc never exits and has no parent; no process is its own parent.
Lineage ==
  /\ state[initproc] \in Alive
  /\ parent[initproc] = None
  /\ \A s \in Slots : parent[s] # s

\* A process in the middle of fork() is not asleep and has not exited; the
\* child it is making is an EMBRYO that no other fork() is making.
Forks == \A p \in Slots :
  /\ (kpc[p] \in {"fork1", "fork2"}) <=> (np[p] # None)
  /\ np[p] # None =>
       /\ state[p] \in {"RUNNABLE", "RUNNING"}
       /\ state[np[p]] = "EMBRYO"
       /\ \A q \in Slots : np[q] = np[p] => q = p
       /\ kpc[p] = "fork2" => parent[np[p]] = p

\* A process in the middle of fork() left the CPU by yield() if it left it.
Preempted ==
  /\ \A p \in Slots : state[p] = "RUNNABLE" /\ np[p] # None => context[p] = "yield"
  /\ \A c \in CPUs : at[c] = "switch_in" /\ np[proc[c]] # None =>
                     context[proc[c]] = "yield"

\* The inductive invariant.
IInv ==
  /\ TypeOK
  /\ Scheduled
  /\ OneCPUPerProcess
  /\ Lineage
  /\ Forks
  /\ Preempted
  /\ UniquePids
  /\ ParentAlive
  /\ NoMissedExit
  /\ WaitIsKillable

----------------------------------------------------------------------------
(* What the actions have in common                                         *)

\* The type of state.
LEMMA StateType == IInv => state \in [Slots -> {"UNUSED", "EMBRYO", "SLEEPING", "RUNNABLE",
                                          "RUNNING", "ZOMBIE"}]
BY Zenon DEF IInv, TypeOK
\* The type of parent.
LEMMA ParentType == IInv => parent \in [Slots -> Slots \union {None}]
BY Zenon DEF IInv, TypeOK
\* The type of chan.
LEMMA ChanType == IInv => chan \in [Slots -> Slots \union Chans \union {None}]
BY Zenon DEF IInv, TypeOK
\* The type of proc.
LEMMA ProcType == IInv => proc \in [CPUs -> Slots \union {None}]
BY Zenon DEF IInv, TypeOK
\* The type of at.
LEMMA AtType == IInv => at \in [CPUs -> {"scheduler", "switch_in", "process", "switch_out"}]
BY Zenon DEF IInv, TypeOK
\* The type of context.
LEMMA ContextType == IInv => context \in [Slots -> {"forkret", "yield", "sleep", "wait", "exit"}]
BY Zenon DEF IInv, TypeOK
\* The type of kpc.
LEMMA KpcType == IInv => kpc \in [Slots -> {"user", "kernel", "fork1", "fork2"}]
BY Zenon DEF IInv, TypeOK
\* The type of np.
LEMMA NpType == IInv => np \in [Slots -> Slots \union {None}]
BY Zenon DEF IInv, TypeOK
\* The type of nextpid and pid.
LEMMA PidType == IInv => nextpid \in Nat /\ pid \in [Slots -> 0 .. nextpid - 1]
BY Zenon DEF IInv, TypeOK
\* The type of killed.
LEMMA KilledType == IInv => killed \in [Slots -> BOOLEAN]
BY Zenon DEF IInv, TypeOK

\* A CPU that executes code of a process has one, which is RUNNING; and if it
\* has just been entered, the CPU holds ptable.lock.
LEMMA Executing ==
  ASSUME IInv, NEW c \in CPUs, at[c] \in {"switch_in", "process"}
  PROVE  /\ proc[c] \in Slots
         /\ state[proc[c]] = "RUNNING"
         /\ (at[c] = "switch_in") <=> (lock = c)
<1>1. proc[c] \in Slots
  BY ProcType, Zenon DEF IInv, Scheduled
<1>2. state[proc[c]] = "RUNNING"
  BY <1>1 DEF IInv, OneCPUPerProcess
<1> QED
  BY <1>1, <1>2, Zenon DEF IInv, Scheduled

\* A process that is RUNNING and has not called sched() is on no other CPU.
LEMMA Alone ==
  ASSUME IInv, NEW c \in CPUs, proc[c] \in Slots, NEW d \in CPUs, d # c
  PROVE  proc[d] # proc[c]
BY ProcConstants DEF IInv, OneCPUPerProcess

\* wakeup1() turns SLEEPING into RUNNABLE and does nothing else.
LEMMA Woken ==
  ASSUME NEW st, NEW ch, NEW s \in Slots
  PROVE  wakeup1(st, ch)[s] = IF st[s] = "SLEEPING" /\ chan[s] = ch
                              THEN "RUNNABLE" ELSE st[s]
BY Zenon DEF wakeup1

\* Slots and CPUs are not the null pointer; userinit()'s slot exists.
LEMMA Constants ==
  /\ None \notin Slots /\ None \notin CPUs
  /\ initproc \in Slots
  /\ \A ch \in Chans : ch \notin Slots
BY ProcConstants DEF Slots, initproc

\* The steps that create and free no process and do not change fork(): they
\* keep IInv if processes stay alive or come alive, a process in fork() is not
\* put to sleep, and who goes to sleep in wait() has reason to.
LEMMA Keep ==
  ASSUME IInv, TypeOK', Scheduled', OneCPUPerProcess', Preempted',
         UNCHANGED <<pid, parent, kpc, np>>,
         \A s \in Slots : \/ state'[s] = state[s]
                          \/ /\ state[s] \in {"SLEEPING", "RUNNABLE", "RUNNING", "ZOMBIE"}
                             /\ state'[s] \in Alive
                             /\ np[s] # None => state'[s] # "SLEEPING",
         \A s \in Slots : state'[s] = "SLEEPING" /\ chan'[s] = s =>
                            \/ state[s] = "SLEEPING" /\ chan[s] = s /\ (killed'[s] => killed[s])
                            \/ ~killed'[s] /\ \A k \in Slots : parent[k] = s => state[k] # "ZOMBIE"
  PROVE  IInv'
<1>2. Lineage'
  BY Constants, Zenon DEF IInv, Lineage
<1>3. ParentAlive'
  BY ParentType DEF IInv, ParentAlive, Alive
<1>4. UniquePids'
  <2> QED BY DEF IInv, UniquePids
<1>5. Forks'
  <2>2. \A s \in Slots : np[s] # None => np[s] \in Slots /\ state'[s] \in {"RUNNABLE", "RUNNING"}
    BY NpType DEF IInv, Forks, Alive
  <2> QED BY <2>2 DEF IInv, Forks
<1>6. NoMissedExit' /\ WaitIsKillable'
  <2>1. \A k \in Slots : state'[k] = "ZOMBIE" => state[k] = "ZOMBIE"
    BY Zenon DEF Alive
  <2> QED BY <2>1 DEF IInv, NoMissedExit, WaitIsKillable
<1> QED
  BY <1>2, <1>3, <1>4, <1>5, <1>6, Zenon DEF IInv

\* The process of c calls sched(), as RUNNABLE, SLEEPING or ZOMBIE: nobody
\* else is in the middle of a switch.
LEMMA Leaves ==
  ASSUME IInv, NEW c \in CPUs, at[c] \in {"switch_in", "process"},
         lock \in {None, c}, lock' = c,
         at' = [at EXCEPT ![c] = "switch_out"], proc' = proc,
         state'[proc[c]] \in {"RUNNABLE", "SLEEPING", "ZOMBIE"},
         \A s \in Slots : s # proc[c] => (state'[s] = "RUNNING" <=> state[s] = "RUNNING")
  PROVE  Scheduled' /\ OneCPUPerProcess'
<1> USE Constants
<1>1. proc[c] \in Slots
  BY Executing, Zenon
<1>2. ASSUME NEW d \in CPUs, d # c
      PROVE  at[d] \in {"scheduler", "process"} /\ proc[d] # proc[c] /\ at'[d] = at[d]
  BY <1>1, <1>2, Alone, AtType DEF IInv, Scheduled
<1>3. at'[c] = "switch_out"
  BY AtType, Zenon
<1>4. Scheduled'
  BY <1>3 DEF IInv, Scheduled
<1>5. ASSUME NEW s \in Slots
      PROVE  state'[s] = "RUNNING" <=>
             \E d \in CPUs : proc[d] = s /\ at'[d] \in {"switch_in", "process"}
  <2>1. CASE s = proc[c]
    BY <2>1, <1>2, <1>3
  <2>2. CASE s # proc[c]
    BY <1>3 DEF IInv, OneCPUPerProcess
  <2> QED BY <2>1, <2>2, Zenon
<1> QED
  BY <1>4, <1>5 DEF IInv, OneCPUPerProcess

\* The process of c goes on and does not hold ptable.lock any more.
LEMMA GoesOn ==
  ASSUME IInv, NEW c \in CPUs, at[c] \in {"switch_in", "process"},
         lock \in {None, c}, lock' = None,
         at' = [at EXCEPT ![c] = "process"], proc' = proc,
         \A s \in Slots : state'[s] = "RUNNING" <=> state[s] = "RUNNING"
  PROVE  Scheduled' /\ OneCPUPerProcess'
<1> USE Constants
<1>2. at'[c] = "process"
  BY AtType, Zenon
<1>3. Scheduled'
  BY <1>2 DEF IInv, Scheduled
<1> QED
  BY <1>3 DEF IInv, OneCPUPerProcess

\* A step that moves no CPU and keeps RUNNING what is RUNNING.
LEMMA Stays ==
  ASSUME IInv, lock' = lock, at' = at, proc' = proc,
         \A s \in Slots : state'[s] = "RUNNING" <=> state[s] = "RUNNING",
         \/ lock = None
         \/ \A s \in Slots : state[s] \in {"RUNNABLE", "SLEEPING", "ZOMBIE"} =>
                             state'[s] \in {"RUNNABLE", "SLEEPING", "ZOMBIE"}
  PROVE  Scheduled' /\ OneCPUPerProcess'
<1> USE Constants
<1>1. ASSUME NEW d \in CPUs, at[d] = "switch_out"
      PROVE  state'[proc[d]] \in {"RUNNABLE", "SLEEPING", "ZOMBIE"}
  BY <1>1, ProcType DEF IInv, Scheduled
<1>2. Scheduled'
  BY <1>1 DEF IInv, Scheduled
<1> QED
  BY <1>2 DEF IInv, OneCPUPerProcess

----------------------------------------------------------------------------
(* Each action keeps IInv                                                  *)

\* main() sets up one process that no CPU runs yet.
LEMMA InitInv == Init => IInv
<1> SUFFICES ASSUME Init PROVE IInv
  OBVIOUS
<1> USE Constants
<1>1. TypeOK
  BY DEF Init, TypeOK
<1>2. Scheduled /\ OneCPUPerProcess
  BY Zenon DEF Init, Scheduled, OneCPUPerProcess
<1>3. Lineage /\ Forks
  BY Zenon DEF Init, Lineage, Forks, Alive
<1>4. UniquePids /\ ParentAlive
  BY Zenon DEF Init, UniquePids, ParentAlive
<1>5. NoMissedExit /\ WaitIsKillable
  BY Zenon DEF Init, NoMissedExit, WaitIsKillable
<1>6. Preempted
  BY Zenon DEF Init, Preempted
<1> QED
  BY <1>1, <1>2, <1>3, <1>4, <1>5, <1>6 DEF IInv

\* A step that only stops the machine.
LEMMA StoppedInv ==
  ASSUME IInv, oops' \in {"no", "panic", "wild"},
         run_p' \in [CPUs -> [Slots -> Slots \union {None}]],
         UNCHANGED <<table, lock, proc, at, local>>
  PROVE  IInv'
<1> USE DEF table, local
<1>1. TypeOK'
  BY Zenon DEF IInv, TypeOK
<1>2. Scheduled' /\ OneCPUPerProcess' /\ Preempted'
  BY DEF IInv, Scheduled, OneCPUPerProcess, Preempted
<1> QED
  BY <1>1, <1>2, Keep, Zenon

\* scheduler() enters q, which no CPU is on: ptable.lock is free, so every
\* other CPU is in its scheduler or executes a RUNNING process.
LEMMA SwitchInv ==
  ASSUME IInv, NEW c \in CPUs, In(c, "scheduler"), CanLock,
         NEW q \in Slots, Switch(c, q),
         run_p' \in [CPUs -> [Slots -> Slots \union {None}]],
         UNCHANGED <<pid, parent, killed, chan, nextpid, local>>
  PROVE  IInv'
<1> USE Constants DEF local
<1>1. CASE state[q] \in {"UNUSED", "EMBRYO", "RUNNING"}
  <2>1. /\ oops' = "wild"
        /\ UNCHANGED <<state, lock, proc, at>>
    BY <1>1, Zenon DEF Switch
  <2> QED BY <2>1, StoppedInv, Zenon DEF table
<1>2. CASE state[q] \notin {"UNUSED", "EMBRYO", "RUNNING"}
  <2>1. /\ proc' = [proc EXCEPT ![c] = q]
        /\ state' = [state EXCEPT ![q] = "RUNNING"]
        /\ lock' = c
        /\ at' = [at EXCEPT ![c] = "switch_in"]
        /\ oops' = oops
    BY <1>2, Zenon DEF Switch
  <2>2. state[q] \in {"SLEEPING", "RUNNABLE", "ZOMBIE"}
    BY <1>2, StateType, Zenon
  <2>3. at[c] = "scheduler" /\ lock = None /\ proc[c] = None
    BY Zenon DEF In, CanLock, IInv, Scheduled
  <2>4. \A d \in CPUs : at[d] \in {"scheduler", "process"} /\ proc[d] # q
    <3> TAKE d \in CPUs
    <3>1. at[d] \in {"scheduler", "process"}
      BY <2>3, AtType, Zenon DEF IInv, Scheduled
    <3>2. CASE at[d] = "process"
      BY <3>2, <2>2, Executing, Zenon
    <3>3. CASE at[d] = "scheduler"
      BY <3>3, Zenon DEF IInv, Scheduled
    <3> QED BY <3>1, <3>2, <3>3, Zenon
  <2>5. TypeOK'
    BY <2>1, Zenon DEF IInv, TypeOK
  <2>6. Scheduled'
    BY <2>1, <2>4 DEF IInv, TypeOK, Scheduled
  <2>7. OneCPUPerProcess'
    <3>1. \A d, e \in CPUs : proc'[d] = proc'[e] /\ proc'[d] # None => d = e
      BY <2>1, <2>4, SMTT(30) DEF IInv, OneCPUPerProcess
    <3>2. ASSUME NEW s \in Slots
          PROVE  state'[s] = "RUNNING" <=>
                 \E d \in CPUs : proc'[d] = s /\ at'[d] \in {"switch_in", "process"}
      <4>1. CASE s = q
        BY <4>1, <2>1, StateType, ProcType, AtType, Zenon
      <4>2. CASE s # q
        BY <4>2, <2>1, <2>3 DEF IInv, OneCPUPerProcess
      <4> QED BY <4>1, <4>2, Zenon
    <3> QED BY <3>1, <3>2, Zenon DEF OneCPUPerProcess
  <2>8. Preempted'
    BY <2>1, <2>2 DEF IInv, TypeOK, Forks, Preempted
  <2>9. state'[q] = "RUNNING" /\ \A s \in Slots : s # q => state'[s] = state[s]
    BY <2>1, StateType, Zenon
  <2> QED
    BY <2>2, <2>5, <2>6, <2>7, <2>8, <2>9, Keep, Zenon DEF Alive
<1> QED BY <1>1, <1>2, Zenon

\* The array of candidates holds slots and null pointers, whatever earlier
\* rounds left in it; a counted entry is a slot.
LEMMA SchedulerInv == ASSUME IInv, NEW c \in CPUs, Scheduler(c) PROVE IInv'
<1>1. In(c, "scheduler") /\ CanLock /\ UNCHANGED <<pid, parent, killed, chan, nextpid, local>>
  BY Zenon DEF Scheduler
<1>2. Runnable \subseteq Slots
  BY DEF Runnable
<1>3. Fill(c) \in [Slots -> Slots \union {None}]
  <2>1. run_p[c] \in [Slots -> Slots \union {None}]
    BY Zenon DEF IInv, TypeOK
  <2>2. ASSUME NEW i \in Slots, \E s \in Runnable : Rank(s) = i
        PROVE  (CHOOSE s \in Runnable : Rank(s) = i) \in Slots
    BY <2>2, <1>2
  <2> QED BY <2>1, <2>2, Zenon DEF Fill
<1>4. \A rp \in [Slots -> Slots \union {None}] : Dedup(rp) \in [Slots -> Slots \union {None}]
  BY Zenon DEF Dedup
<1>5. \A f \in [Slots -> Slots \union {None}] :
        [run_p EXCEPT ![c] = f] \in [CPUs -> [Slots -> Slots \union {None}]]
  BY Zenon DEF IInv, TypeOK
<1>6. CASE Cardinality(Runnable) = 1
  <2>1. PICK s \in Runnable : Switch(c, s)
    BY <1>6, Zenon DEF Scheduler
  <2>2. run_p' = [run_p EXCEPT ![c] = Fill(c)]
    BY <1>6, Zenon DEF Scheduler
  <2> QED BY <1>1, <1>2, <1>3, <1>5, <2>1, <2>2, SwitchInv, Zenon
<1>7. CASE Cardinality(Runnable) # 1
  <2> DEFINE rp == Dedup(Fill(c))
  <2>1. rp \in [Slots -> Slots \union {None}]
    BY <1>3, <1>4
  <2>2. PICK i \in Entrants(rp) : Switch(c, rp[i])
    BY <1>7, Zenon DEF Scheduler
  <2>3. run_p' = [run_p EXCEPT ![c] = rp]
    BY <1>7, Zenon DEF Scheduler
  <2> HIDE DEF rp
  <2>4. i \in Slots /\ i \in 1 .. i /\ \A j \in 1 .. i : rp[j] # None
    BY DEF Entrants, Slots
  <2>5. rp[i] \in Slots
    BY <2>1, <2>4
  <2> QED BY <1>1, <1>5, <2>1, <2>2, <2>3, <2>5, SwitchInv, Zenon
<1> QED BY <1>6, <1>7

\* The CPU is back in scheduler(); the process it leaves is not RUNNING.
LEMMA SwitchOutInv == ASSUME IInv, NEW c \in CPUs, SwitchOut(c) PROVE IInv'
<1> USE Constants DEF table, local
<1>1. /\ at[c] = "switch_out"
      /\ proc' = [proc EXCEPT ![c] = None]
      /\ at' = [at EXCEPT ![c] = "scheduler"]
      /\ lock' = None
      /\ UNCHANGED <<table, run_p, local, oops>>
  BY Zenon DEF SwitchOut, In
<1>2. lock = c
  BY <1>1, Zenon DEF IInv, Scheduled
<1>3. TypeOK'
  BY <1>1, Zenon DEF IInv, TypeOK
<1>4. Scheduled'
  BY <1>1, <1>2 DEF IInv, TypeOK, Scheduled
<1>5. OneCPUPerProcess'
  <2> QED BY <1>1 DEF IInv, OneCPUPerProcess
<1>6. Preempted'
  BY <1>1, SMTT(30) DEF IInv, Preempted
<1> QED
  BY <1>1, <1>3, <1>4, <1>5, <1>6, Keep, Zenon

\* forkret(), yield() and sleep() after the switch.
LEMMA ResumeInv == ASSUME IInv, NEW c \in CPUs, Resume(c) PROVE IInv'
<1> USE Constants DEF local
<1> DEFINE p == proc[c]
<1>1. /\ at[c] = "switch_in"
      /\ chan' = IF context[p] = "sleep" THEN [chan EXCEPT ![p] = None] ELSE chan
      /\ at' = [at EXCEPT ![c] = "process"]
      /\ lock' = None
      /\ UNCHANGED <<state, pid, parent, killed, nextpid, proc, run_p, local, oops>>
  BY Zenon DEF Resume, In
<1>2. p \in Slots /\ state[p] = "RUNNING" /\ lock = c
  BY <1>1, Executing, Zenon
<1>3. TypeOK'
  BY <1>1, <1>2, Zenon DEF IInv, TypeOK
<1>4. Scheduled' /\ OneCPUPerProcess'
  BY <1>1, <1>2, GoesOn, Zenon
<1>5. Preempted'
  BY <1>1 DEF IInv, Preempted
<1> QED
  BY <1>1, <1>3, <1>4, <1>5, Keep

\* The timer interrupt: the process stays alive, and in fork() if it was.
LEMMA YieldInv == ASSUME IInv, NEW c \in CPUs, Yield(c) PROVE IInv'
<1> USE Constants
<1> DEFINE p == proc[c]
<1>1. /\ at[c] = "process" /\ lock = None
      /\ state' = [state EXCEPT ![p] = "RUNNABLE"]
      /\ context' = [context EXCEPT ![p] = "yield"]
      /\ lock' = c
      /\ at' = [at EXCEPT ![c] = "switch_out"]
      /\ UNCHANGED <<pid, parent, killed, chan, nextpid, proc, run_p, kpc, np, oops>>
  BY Zenon DEF Yield, In, CanLock, Sched
<1>2. p \in Slots /\ state[p] = "RUNNING"
  BY <1>1, Executing, Zenon
<1>3. TypeOK'
  BY <1>1, <1>2, Zenon DEF IInv, TypeOK
<1>4. state'[p] = "RUNNABLE" /\ \A s \in Slots : s # p => state'[s] = state[s]
  BY <1>1, <1>2, StateType, Zenon
<1>5. Scheduled' /\ OneCPUPerProcess'
  BY <1>1, <1>4, Leaves, Zenon
<1>6. Preempted'
  BY <1>1, ContextType DEF IInv, Preempted
<1> QED
  BY <1>1, <1>2, <1>3, <1>5, <1>6, Keep DEF Alive

\* trap() enters and leaves a system call, or notes a fault.
LEMMA TrapInv ==
  ASSUME IInv, NEW c \in CPUs, Syscall(c) \/ Return(c) \/ Fault(c)
  PROVE  IInv'
<1> USE Constants DEF table, local
<1> DEFINE p == proc[c]
<1>1. at[c] = "process" /\ kpc[p] \in {"user", "kernel"}
  BY Zenon DEF Syscall, Return, Fault, Runs, In
<1>2. /\ UNCHANGED <<state, pid, parent, chan, nextpid, lock, proc, at, run_p, context, np, oops>>
      /\ \/ kpc' = [kpc EXCEPT ![p] = "kernel"]
         \/ kpc' = [kpc EXCEPT ![p] = "user"]
         \/ kpc' = kpc
      /\ killed' = killed \/ killed' = [killed EXCEPT ![p] = TRUE]
  BY Zenon DEF Syscall, Return, Fault
<1>3. p \in Slots /\ state[p] = "RUNNING"
  BY <1>1, Executing, Zenon
<1>4. TypeOK'
  BY <1>2, ZenonT(30) DEF IInv, TypeOK
<1>5. Scheduled' /\ OneCPUPerProcess'
  BY <1>2 DEF IInv, Scheduled, OneCPUPerProcess
<1>6. Lineage'
  BY <1>2, Zenon DEF IInv, Lineage
<1>7. Forks'
  <2>1. \A q \in Slots : kpc'[q] = kpc[q] \/ {kpc[q], kpc'[q]} \subseteq {"user", "kernel"}
    BY <1>1, <1>2, KpcType, Zenon
  <2> QED BY <1>2, <2>1, SMTT(30) DEF IInv, Forks
<1>8. UniquePids' /\ ParentAlive'
  BY <1>2, Zenon DEF IInv, UniquePids, ParentAlive
<1>9. NoMissedExit' /\ WaitIsKillable'
  BY <1>2, <1>3, KilledType, Zenon DEF IInv, NoMissedExit, WaitIsKillable
<1>10. Preempted'
  BY <1>2, Zenon DEF IInv, Preempted
<1> QED
  BY <1>4, <1>5, <1>6, <1>7, <1>8, <1>9, <1>10, Zenon DEF IInv

\* allocproc() takes an UNUSED slot, which no fork() is making, and a pid
\* that was never given out.
LEMMA AllocProcInv == ASSUME IInv, NEW c \in CPUs, AllocProc(c) PROVE IInv'
<1> USE Constants
<1> DEFINE p == proc[c]
<1>1. PICK n \in First({s \in Slots : state[s] = "UNUSED"}) :
      /\ at[c] = "process" /\ kpc[p] = "kernel" /\ lock = None
      /\ state' = [state EXCEPT ![n] = "EMBRYO"]
      /\ pid' = [pid EXCEPT ![n] = nextpid]
      /\ np' = [np EXCEPT ![p] = n]
      /\ nextpid' = nextpid + 1
      /\ kpc' = [kpc EXCEPT ![p] = "fork1"]
      /\ UNCHANGED <<parent, killed, chan, lock, proc, at, run_p, context, oops>>
  BY Zenon DEF AllocProc, Runs, In, CanLock, NewPid
<1>2. p \in Slots /\ state[p] = "RUNNING"
  BY <1>1, Executing, Zenon
<1>3. n \in Slots /\ state[n] = "UNUSED"
  BY Zenon DEF First
<1>4. TypeOK'
  <2>2. /\ state' \in [Slots -> {"UNUSED", "EMBRYO", "SLEEPING", "RUNNABLE",
                                 "RUNNING", "ZOMBIE"}]
        /\ nextpid' \in Nat
        /\ kpc' \in [Slots -> {"user", "kernel", "fork1", "fork2"}]
        /\ np' \in [Slots -> Slots \union {None}]
    BY <1>1, <1>2, <1>3, StateType, KpcType, NpType, PidType
  <2> QED BY <1>1, <2>2 DEF IInv, TypeOK
<1>5. state'[n] = "EMBRYO" /\ \A s \in Slots : s # n => state'[s] = state[s]
  BY <1>1, <1>3, StateType, Zenon
<1>6. Scheduled' /\ OneCPUPerProcess'
  BY <1>1, <1>3, Stays
<1>7. Lineage'
  BY <1>1, <1>3, SMTT(30) DEF IInv, Lineage, Alive
<1>8. Forks'
  <2>1. /\ kpc'[p] = "fork1" /\ np'[p] = n
        /\ \A q \in Slots : q # p => kpc'[q] = kpc[q] /\ np'[q] = np[q]
    BY <1>1, <1>2, KpcType, NpType, Zenon
  <2> QED BY <1>1, <1>2, <1>3, <1>5, <2>1 DEF IInv, Forks
<1>9. UniquePids'
  <2>1. pid'[n] = nextpid /\ \A s \in Slots : s # n => pid'[s] = pid[s] /\ pid[s] # nextpid
    BY <1>1, <1>3, PidType
  <2> QED BY <2>1 DEF IInv, UniquePids
<1>10. ParentAlive'
  BY <1>1, <1>3 DEF IInv, ParentAlive
<1>11. NoMissedExit' /\ WaitIsKillable'
  BY <1>1, SMTT(30) DEF IInv, NoMissedExit, WaitIsKillable
<1>12. Preempted'
  BY <1>1, <1>2, Alone, StateType, ParentType, SMTT(30) DEF IInv, Preempted
<1> QED
  BY <1>4, <1>6, <1>7, <1>8, <1>9, <1>10, <1>11, <1>12, Zenon DEF IInv

\* A process in fork(): its child is an EMBRYO, so it is nobody's parent and
\* not a process that any CPU executes.
LEMMA Making ==
  ASSUME IInv, NEW c \in CPUs, at[c] = "process", kpc[proc[c]] \in {"fork1", "fork2"}
  PROVE  /\ proc[c] \in Slots /\ state[proc[c]] = "RUNNING"
         /\ np[proc[c]] \in Slots /\ state[np[proc[c]]] = "EMBRYO"
         /\ \A q \in Slots : q # proc[c] => np[q] # np[proc[c]]
         /\ np[np[proc[c]]] = None
<1>1. proc[c] \in Slots /\ state[proc[c]] = "RUNNING"
  BY Executing, Zenon
<1>3. np[proc[c]] \in Slots /\ state[np[proc[c]]] = "EMBRYO"
  BY <1>1, NpType DEF IInv, Forks
<1> QED
  BY <1>1, <1>3 DEF IInv, Forks

\* fork() gives up: the slot is UNUSED again, written without ptable.lock.
LEMMA ForkFailInv == ASSUME IInv, NEW c \in CPUs, ForkFail(c) PROVE IInv'
<1> USE Constants
<1> DEFINE p == proc[c]
           n == np[p]
<1>1. /\ at[c] = "process" /\ kpc[p] = "fork1"
      /\ state' = [state EXCEPT ![n] = "UNUSED"]
      /\ kpc' = [kpc EXCEPT ![p] = "kernel"]
      /\ np' = [np EXCEPT ![p] = None]
      /\ UNCHANGED <<pid, parent, killed, chan, nextpid, lock, proc, at, run_p, context, oops>>
  BY Zenon DEF ForkFail, Runs, In
<1>2. /\ p \in Slots /\ state[p] = "RUNNING"
      /\ n \in Slots /\ state[n] = "EMBRYO"
      /\ \A q \in Slots : q # p => np[q] # n
  BY <1>1, Making, Zenon
<1> HIDE DEF n
<1>3. TypeOK'
  BY <1>1, <1>2, Zenon DEF IInv, TypeOK
<1>5. Scheduled' /\ OneCPUPerProcess'
  BY <1>1, <1>2, Stays
<1>6. Lineage'
  BY <1>1, <1>2, SMTT(30) DEF IInv, Lineage, Alive
<1>7. Forks'
  <2>1. /\ kpc'[p] = "kernel" /\ np'[p] = None
        /\ \A q \in Slots : q # p => kpc'[q] = kpc[q] /\ np'[q] = np[q]
    BY <1>1, <1>2, KpcType, NpType, Zenon
  <2> QED BY <1>1, <1>2, <2>1 DEF IInv, Forks
<1>8. UniquePids'
  BY <1>1 DEF IInv, UniquePids
<1>9. ParentAlive'
  BY <1>1, <1>2, SMTT(30) DEF IInv, ParentAlive
<1>10. NoMissedExit' /\ WaitIsKillable'
  BY <1>1, SMTT(30) DEF IInv, NoMissedExit, WaitIsKillable
<1>11. Preempted'
  BY <1>1, ParentType, SMTT(30) DEF IInv, Preempted
<1> QED
  BY <1>3, <1>5, <1>6, <1>7, <1>8, <1>9, <1>10, <1>11, Zenon DEF IInv

\* fork() fills in the child, which is still an EMBRYO, without ptable.lock.
LEMMA ForkCopyInv == ASSUME IInv, NEW c \in CPUs, ForkCopy(c) PROVE IInv'
<1> USE Constants
<1> DEFINE p == proc[c]
           n == np[p]
<1>1. /\ at[c] = "process" /\ kpc[p] = "fork1"
      /\ parent' = [parent EXCEPT ![n] = p]
      /\ context' = [context EXCEPT ![n] = "forkret"]
      /\ kpc' = [kpc EXCEPT ![p] = "fork2", ![n] = "user"]
      /\ UNCHANGED <<state, pid, killed, chan, nextpid, lock, proc, at, run_p, np, oops>>
  BY Zenon DEF ForkCopy, Runs, In
<1>2. /\ p \in Slots /\ state[p] = "RUNNING"
      /\ n \in Slots /\ state[n] = "EMBRYO"
      /\ \A q \in Slots : q # p => np[q] # n
      /\ np[n] = None
  BY <1>1, Making, Zenon
<1>3. n # p
  BY <1>2, Zenon
<1>4. np[p] = n
  BY Zenon
<1> HIDE DEF n
<1>5. TypeOK'
  BY <1>1, <1>2, Zenon DEF IInv, TypeOK
<1>6. Scheduled' /\ OneCPUPerProcess'
  BY <1>1, Stays, Zenon
<1>7. parent'[n] = p /\ \A s \in Slots : s # n => parent'[s] = parent[s]
  BY <1>1, <1>2, ParentType, Zenon
<1>8. Lineage'
  <2>1. n # initproc
    BY <1>2, Zenon DEF IInv, Lineage, Alive
  <2> QED BY <1>1, <1>3, <2>1 DEF IInv, Lineage
<1>9. Forks'
  <2>1. /\ kpc'[p] = "fork2" /\ kpc'[n] = "user"
        /\ \A q \in Slots : q # p /\ q # n => kpc'[q] = kpc[q]
    BY <1>1, <1>2, KpcType, Zenon
  <2>2. ASSUME NEW q \in Slots
        PROVE  /\ (kpc'[q] \in {"fork1", "fork2"}) <=> (np[q] # None)
               /\ kpc'[q] = "fork2" /\ np[q] # None => parent'[np[q]] = q
    <3>1. CASE q = p
      BY <3>1, <1>2, <1>4, <1>7, <2>1, Zenon
    <3>2. CASE q = n
      BY <3>2, <1>2, <2>1, Zenon
    <3>3. CASE q # p /\ q # n
      BY <3>3, <1>2, <1>7, <2>1, SMTT(30) DEF IInv, TypeOK, Forks
    <3> QED BY <3>1, <3>2, <3>3, Zenon
  <2>3. ASSUME NEW q \in Slots, np[q] # None
        PROVE  /\ state[q] \in {"RUNNABLE", "RUNNING"}
               /\ state[np[q]] = "EMBRYO"
               /\ \A r \in Slots : np[r] = np[q] => r = q
    BY <2>3, Zenon DEF IInv, Forks
  <2>4. state' = state /\ np' = np
    BY <1>1, Zenon
  <2> QED BY <2>2, <2>3, <2>4, SMTT(30) DEF Forks
<1>10. UniquePids'
  BY <1>1, Zenon DEF IInv, UniquePids
<1>11. ParentAlive'
  BY <1>1, <1>2, SMTT(30) DEF IInv, ParentAlive
<1>12. NoMissedExit' /\ WaitIsKillable'
  BY <1>1, <1>2, SMTT(30) DEF IInv, NoMissedExit, WaitIsKillable
<1>13. Preempted'
  BY <1>1, <1>2, SMTT(30) DEF IInv, Preempted
<1> QED
  BY <1>5, <1>6, <1>8, <1>9, <1>10, <1>11, <1>12, <1>13, Zenon DEF IInv

\* fork() makes the child RUNNABLE; its parent is the process that runs.
LEMMA ForkDoneInv == ASSUME IInv, NEW c \in CPUs, ForkDone(c) PROVE IInv'
<1> USE Constants
<1> DEFINE p == proc[c]
           n == np[p]
<1>1. /\ at[c] = "process" /\ kpc[p] = "fork2" /\ lock = None
      /\ state' = [state EXCEPT ![n] = "RUNNABLE"]
      /\ kpc' = [kpc EXCEPT ![p] = "kernel"]
      /\ np' = [np EXCEPT ![p] = None]
      /\ UNCHANGED <<pid, parent, killed, chan, nextpid, lock, proc, at, run_p, context, oops>>
  BY Zenon DEF ForkDone, Runs, In, CanLock
<1>2. /\ p \in Slots /\ state[p] = "RUNNING"
      /\ n \in Slots /\ state[n] = "EMBRYO"
      /\ \A q \in Slots : q # p => np[q] # n
      /\ np[n] = None
  BY <1>1, Making, Zenon
<1>3. parent[n] = p
  BY <1>1, <1>2, Zenon DEF IInv, Forks
<1> HIDE DEF n
<1>4. TypeOK'
  BY <1>1, <1>2, Zenon DEF IInv, TypeOK
<1>5. state'[n] = "RUNNABLE" /\ \A s \in Slots : s # n => state'[s] = state[s]
  BY <1>1, <1>2, StateType, Zenon
<1>6. Scheduled' /\ OneCPUPerProcess'
  BY <1>1, <1>2, Stays
<1>7. Lineage'
  BY <1>1, SMTT(30) DEF IInv, Lineage, Alive
<1>8. Forks'
  <2>1. /\ kpc'[p] = "kernel" /\ np'[p] = None
        /\ \A q \in Slots : q # p => kpc'[q] = kpc[q] /\ np'[q] = np[q]
    BY <1>1, <1>2, KpcType, NpType, Zenon
  <2> QED BY <1>1, <1>2, <2>1, SMTT(30) DEF IInv, Forks
<1>9. UniquePids'
  BY <1>1, SMTT(30) DEF IInv, UniquePids
<1>10. ParentAlive'
  <2>1. \A s \in Slots \ {initproc} : s # n /\ state'[s] \in {"SLEEPING", "RUNNABLE", "RUNNING", "ZOMBIE"} =>
          parent[s] # None /\ parent[s] # n /\ state[parent[s]] \in {"SLEEPING", "RUNNABLE", "RUNNING"}
    BY <1>2, <1>5, Zenon DEF IInv, ParentAlive
  <2> QED BY <1>1, <1>2, <1>3, <2>1, SMTT(30) DEF ParentAlive
<1>11. NoMissedExit' /\ WaitIsKillable'
  BY <1>1, SMTT(30) DEF IInv, NoMissedExit, WaitIsKillable
<1>12. Preempted'
  <2>1. \A q \in Slots : np'[q] # None => np[q] # None /\ q # n
    BY <1>1, <1>2
  <2> QED BY <1>1, <2>1, SMTT(30) DEF IInv, Preempted
<1> QED
  BY <1>4, <1>6, <1>7, <1>8, <1>9, <1>10, <1>11, <1>12, Zenon DEF IInv

\* sleep() on a channel that is not a process.
LEMMA SleepInv == ASSUME IInv, NEW c \in CPUs, NEW ch \in Chans, Sleep(c, ch) PROVE IInv'
<1> USE Constants
<1> DEFINE p == proc[c]
<1>1. /\ at[c] = "process" /\ kpc[p] = "kernel" /\ lock = None
      /\ chan' = [chan EXCEPT ![p] = ch]
      /\ state' = [state EXCEPT ![p] = "SLEEPING"]
      /\ context' = [context EXCEPT ![p] = "sleep"]
      /\ lock' = c
      /\ at' = [at EXCEPT ![c] = "switch_out"]
      /\ UNCHANGED <<pid, parent, killed, nextpid, proc, run_p, kpc, np, oops>>
  BY Zenon DEF Sleep, Runs, In, CanLock, Sched
<1>2. p \in Slots /\ state[p] = "RUNNING"
  BY <1>1, Executing, Zenon
<1>3. TypeOK'
  BY <1>1, <1>2, Zenon DEF IInv, TypeOK
<1>4. /\ state'[p] = "SLEEPING" /\ chan'[p] = ch
      /\ \A s \in Slots : s # p => state'[s] = state[s] /\ chan'[s] = chan[s]
  BY <1>1, <1>2, StateType, ChanType, Zenon
<1>5. Scheduled' /\ OneCPUPerProcess'
  BY <1>1, <1>4, Leaves, Zenon
<1>6. np[p] = None
  BY <1>1, <1>2, Zenon DEF IInv, Forks
<1>7. Preempted'
  BY <1>1, <1>6 DEF IInv, Preempted
<1> QED
  BY <1>1, <1>2, <1>3, <1>4, <1>5, <1>6, <1>7, Keep DEF Alive

\* Making some SLEEPING processes RUNNABLE, as wakeup1() and kill() do,
\* disturbs nothing.
LEMMA WakingInv ==
  ASSUME IInv, lock = None,
         \A s \in Slots : state'[s] = state[s] \/ (state[s] = "SLEEPING" /\ state'[s] = "RUNNABLE"),
         state' \in [Slots -> {"UNUSED", "EMBRYO", "SLEEPING", "RUNNABLE",
                               "RUNNING", "ZOMBIE"}],
         killed' \in [Slots -> BOOLEAN],
         \A s \in Slots : killed'[s] => killed[s] \/ state'[s] # "SLEEPING",
         UNCHANGED <<pid, parent, chan, nextpid, lock, proc, at, run_p, local, oops>>
  PROVE  IInv'
<1> USE Constants DEF local
<1>1. TypeOK'
  BY Zenon DEF IInv, TypeOK
<1>2. Scheduled' /\ OneCPUPerProcess'
  BY Stays, Zenon
<1>3. Preempted'
  BY Zenon DEF IInv, Forks, Preempted
<1> QED
  BY <1>1, <1>2, <1>3, Keep, Zenon DEF Alive

\* wakeup() from anywhere.
LEMMA WakeupInv == ASSUME IInv, NEW ch \in Chans, Wakeup(ch) PROVE IInv'
<1>1. /\ lock = None
      /\ state' = wakeup1(state, ch)
      /\ UNCHANGED <<pid, parent, killed, chan, nextpid, lock, proc, at, run_p, local, oops>>
  BY Zenon DEF Wakeup, CanLock
<1>2. state' \in [Slots -> {"UNUSED", "EMBRYO", "SLEEPING", "RUNNABLE", "RUNNING", "ZOMBIE"}]
  BY <1>1, StateType, Zenon DEF wakeup1
<1>3. \A s \in Slots : state'[s] = state[s] \/ (state[s] = "SLEEPING" /\ state'[s] = "RUNNABLE")
  BY <1>1, Woken
<1>4. killed' \in [Slots -> BOOLEAN] /\ \A s \in Slots : killed'[s] => killed[s] \/ state'[s] # "SLEEPING"
  BY <1>1, KilledType, Zenon
<1> QED
  BY <1>1, <1>2, <1>3, <1>4, WakingInv, Zenon

\* kill() marks a process and takes it out of any sleep.
LEMMA KillInv == ASSUME IInv, NEW c \in CPUs, NEW n, Kill(c, n) PROVE IInv'
<1>1. PICK s \in First({t \in Slots : pid[t] = n}) :
      /\ lock = None
      /\ killed' = [killed EXCEPT ![s] = TRUE]
      /\ state' = [state EXCEPT ![s] = IF @ = "SLEEPING" THEN "RUNNABLE" ELSE @]
      /\ UNCHANGED <<pid, parent, chan, nextpid, lock, proc, at, run_p, local, oops>>
  BY Zenon DEF Kill, CanLock
<1>2. s \in Slots
  BY DEF First
<1>3. state' \in [Slots -> {"UNUSED", "EMBRYO", "SLEEPING", "RUNNABLE", "RUNNING", "ZOMBIE"}]
  BY <1>1, <1>2, StateType, Zenon
<1>5. killed' \in [Slots -> BOOLEAN] /\ \A t \in Slots : killed'[t] => killed[t] \/ state'[t] # "SLEEPING"
  BY <1>1, <1>2, StateType, KilledType, Zenon
<1> QED
  BY <1>1, <1>3, <1>5, WakingInv, Zenon

\* exit() of a process other than initproc: whoever sleeps in wait() over the
\* process or over a zombie it leaves behind is woken, and its children
\* become children of initproc, which is alive.
LEMMA ExitInv == ASSUME IInv, NEW c \in CPUs, Exit(c) PROVE IInv'
<1> USE Constants
<1> DEFINE p == proc[c]
<1>1. /\ at[c] = "process" /\ kpc[p] \in {"kernel", "user"} /\ lock = None
      /\ UNCHANGED <<pid, killed, chan, nextpid, proc, run_p, kpc, np>>
  BY Zenon DEF Exit, In, CanLock
<1>2. p \in Slots /\ state[p] = "RUNNING" /\ np[p] = None
  <2>1. p \in Slots /\ state[p] = "RUNNING"
    BY <1>1, Executing, Zenon
  <2> QED BY <1>1, <2>1, Zenon DEF IInv, Forks
<1>3. CASE p = initproc
  <2>1. oops' = "panic" /\ UNCHANGED <<state, parent, context, lock, at>>
    BY <1>3, Zenon DEF Exit
  <2> QED BY <1>1, <2>1, StoppedInv, Zenon DEF table, local, IInv, TypeOK
<1>4. CASE p # initproc
  <2>1. /\ parent' = Reparent(p)
        /\ state' = [ExitWakes(p) EXCEPT ![p] = "ZOMBIE"]
        /\ context' = [context EXCEPT ![p] = "exit"]
        /\ lock' = c
        /\ at' = [at EXCEPT ![c] = "switch_out"]
        /\ oops' = oops
    BY <1>4, Zenon DEF Exit, Sched
  <2>2. /\ parent' \in [Slots -> Slots \union {None}]
        /\ \A s \in Slots : parent'[s] = IF parent[s] = p THEN initproc ELSE parent[s]
    BY <2>1, ParentType, Zenon DEF Reparent
  <2> DEFINE st == wakeup1(state, parent[p])
             inherits == \E s \in Slots : parent[s] = p /\ st[s] = "ZOMBIE"
  <2>3. ExitWakes(p) \in [Slots -> {"UNUSED", "EMBRYO", "SLEEPING", "RUNNABLE", "RUNNING", "ZOMBIE"}]
    <3>1. st \in [Slots -> {"UNUSED", "EMBRYO", "SLEEPING", "RUNNABLE", "RUNNING", "ZOMBIE"}]
      BY StateType, Zenon DEF wakeup1
    <3> HIDE DEF st
    <3>2. wakeup1(st, initproc) \in [Slots -> {"UNUSED", "EMBRYO", "SLEEPING", "RUNNABLE", "RUNNING", "ZOMBIE"}]
      BY <3>1 DEF wakeup1
    <3>3. ExitWakes(p) = IF inherits THEN wakeup1(st, initproc) ELSE st
      BY Zenon DEF ExitWakes, st
    <3> QED BY <3>1, <3>2, <3>3, Zenon
  <2>4. state' \in [Slots -> {"UNUSED", "EMBRYO", "SLEEPING", "RUNNABLE", "RUNNING", "ZOMBIE"}]
    BY <2>1, <2>3, <1>2, Zenon
  <2>5. state'[p] = "ZOMBIE" /\ \A s \in Slots : s # p => state'[s] = ExitWakes(p)[s]
    BY <2>1, <2>3, <1>2, Zenon
  <2>6. \A s \in Slots : st[s] = IF state[s] = "SLEEPING" /\ chan[s] = parent[p]
                                 THEN "RUNNABLE" ELSE state[s]
    BY Woken
  <2>7. \A s \in Slots : ExitWakes(p)[s] = IF inherits /\ st[s] = "SLEEPING" /\ chan[s] = initproc
                                           THEN "RUNNABLE" ELSE st[s]
    <3>1. ExitWakes(p) = IF inherits THEN wakeup1(st, initproc) ELSE st
      BY Zenon DEF ExitWakes
    <3> HIDE DEF st, inherits
    <3> QED BY <3>1, Woken
  <2>8. inherits <=> \E s \in Slots : parent[s] = p /\ state[s] = "ZOMBIE"
    <3> HIDE DEF st
    <3> QED BY <2>6, Zenon
  <2> HIDE DEF st, inherits
  <2>9. \A s \in Slots : s # p =>
          state'[s] = state[s] \/ (state[s] = "SLEEPING" /\ state'[s] = "RUNNABLE")
    BY <2>5, <2>6, <2>7
  <2>10. TypeOK'
    <3> QED BY <1>1, <2>1, <2>2, <2>4, Zenon DEF IInv, TypeOK
  <2>11. Scheduled' /\ OneCPUPerProcess'
    <3>1. \A s \in Slots : s # p => (state'[s] = "RUNNING" <=> state[s] = "RUNNING")
      BY <2>9, Zenon
    <3>2. at' = [at EXCEPT ![c] = "switch_out"] /\ lock' = c
      BY <2>1, Zenon
    <3> QED BY <1>1, <2>5, <3>1, <3>2, Leaves, Zenon
  <2>12. Lineage'
    <3>1. state'[initproc] \in Alive
      BY <1>4, <2>9, Zenon DEF IInv, Lineage, Alive
    <3> QED BY <3>1, <1>2, <2>2 DEF IInv, Lineage
  <2>13. Forks'
    <3>1. ASSUME NEW q \in Slots, np[q] # None
          PROVE  /\ q # p /\ np[q] \in Slots /\ np[q] # p
                 /\ state'[q] = state[q] /\ state'[np[q]] = state[np[q]]
                 /\ kpc[q] = "fork2" => parent'[np[q]] = q
      <4>1. q # p /\ np[q] \in Slots /\ np[q] # p
        BY <3>1, <1>2 DEF IInv, TypeOK, Forks
      <4>2. state[q] \in {"RUNNABLE", "RUNNING"} /\ state[np[q]] = "EMBRYO"
        BY <3>1, Zenon DEF IInv, Forks
      <4>3. kpc[q] = "fork2" => parent[np[q]] = q
        BY Zenon DEF IInv, Forks
      <4> QED BY <4>1, <4>2, <4>3, <2>2, <2>9, Zenon
    <3> QED BY <1>1, <3>1 DEF IInv, Forks
  <2>14. UniquePids'
    <3>1. UniquePids
      BY Zenon DEF IInv
    <3> QED BY <1>1, <3>1 DEF UniquePids
  <2>15. ParentAlive'
    <3> SUFFICES ASSUME NEW s \in Slots \ {initproc},
                        state'[s] \in {"SLEEPING", "RUNNABLE", "RUNNING", "ZOMBIE"}
                 PROVE  /\ parent'[s] # None
                        /\ state'[parent'[s]] \in {"SLEEPING", "RUNNABLE", "RUNNING"}
      BY Zenon DEF ParentAlive
    <3>1. state[s] \in {"SLEEPING", "RUNNABLE", "RUNNING", "ZOMBIE"}
      BY <2>9, <1>2, Zenon
    <3>2. /\ parent[s] \in Slots
          /\ state[parent[s]] \in {"SLEEPING", "RUNNABLE", "RUNNING"}
      BY <3>1, ParentType, Zenon DEF IInv, ParentAlive
    <3>3. CASE parent[s] = p
      BY <3>3, <2>2, <2>12, Zenon DEF Lineage, Alive
    <3>4. CASE parent[s] # p
      BY <3>2, <3>4, <2>2, <2>9
    <3> QED BY <3>3, <3>4, Zenon
  <2>16. NoMissedExit'
    <3> SUFFICES ASSUME NEW s \in Slots, NEW k \in Slots,
                        state'[s] = "SLEEPING", chan[s] = s, parent'[k] = s,
                        state'[k] = "ZOMBIE"
                 PROVE  FALSE
      BY <1>1, Zenon DEF NoMissedExit
    <3>1. s # p /\ state[s] = "SLEEPING"
      BY <2>5, <2>9, Zenon
    <3>2. CASE k = p
      <4>1. parent[p] # p /\ parent'[p] = parent[p]
        BY <1>2, <2>2, Zenon DEF IInv, Lineage
      <4> QED BY <3>2, <4>1, <2>5, <2>6, <2>7
    <3>3. CASE k # p
      <4>1. state[k] = "ZOMBIE"
        BY <3>3, <2>9, Zenon
      <4>2. parent[k] # s
        BY <3>1, <4>1, Zenon DEF IInv, NoMissedExit
      <4>3. parent[k] = p /\ s = initproc
        BY <4>2, <2>2, Zenon
      <4>4. inherits
        BY <4>1, <4>3, <2>8, Zenon
      <4> QED BY <4>3, <4>4, <2>5, <2>7
    <3> QED BY <3>2, <3>3
  <2>17. WaitIsKillable'
    BY <1>1, <2>5, <2>9 DEF IInv, WaitIsKillable
  <2>18. Preempted'
    <3>1. \A s \in Slots : s # p => context'[s] = context[s]
      BY <2>1
    <3>2. \A d \in CPUs : at'[d] = "switch_in" => at[d] = "switch_in"
      BY <2>1
    <3>3. \A s \in Slots : state'[s] = "RUNNABLE" /\ np[s] # None => state[s] = "RUNNABLE"
      BY <2>5, <2>9, Zenon DEF IInv, Forks
    <3>4. ASSUME NEW s \in Slots, state'[s] = "RUNNABLE", np[s] # None
          PROVE  context'[s] = "yield"
      BY <1>2, <3>1, <3>3, <3>4, Zenon DEF IInv, Preempted
    <3>5. ASSUME NEW d \in CPUs, at'[d] = "switch_in", np[proc[d]] # None
          PROVE  context'[proc[d]] = "yield"
      <4>1. at[d] = "switch_in" /\ proc[d] \in Slots
        BY <3>2, <3>5, Executing, Zenon
      <4> QED BY <1>2, <3>1, <3>5, <4>1, Zenon DEF IInv, Preempted
    <3> QED BY <1>1, <3>4, <3>5, Zenon DEF Preempted
  <2> QED
    BY <2>10, <2>11, <2>12, <2>13, <2>14, <2>15, <2>16, <2>17, <2>18, Zenon DEF IInv
<1> QED BY <1>3, <1>4

\* wait() reaps a zombie: nobody executes it, nobody is its child, and no
\* fork() is making it.
LEMMA ReapInv ==
  ASSUME IInv, NEW c \in CPUs, at[c] \in {"switch_in", "process"},
         lock \in {None, c}, lock' = None,
         at' = [at EXCEPT ![c] = "process"],
         chan' \in {chan, [chan EXCEPT ![proc[c]] = None]},
         NEW z \in Slots, state[z] = "ZOMBIE", Reap(z),
         UNCHANGED <<context, nextpid, proc, run_p, kpc, np, oops>>
  PROVE  IInv'
<1> USE Constants
<1> DEFINE p == proc[c]
<1>1. /\ state' = [state EXCEPT ![z] = "UNUSED"]
      /\ pid' = [pid EXCEPT ![z] = 0]
      /\ parent' = [parent EXCEPT ![z] = None]
      /\ killed' = [killed EXCEPT ![z] = FALSE]
  BY Zenon DEF Reap
<1>2. p \in Slots /\ state[p] = "RUNNING"
  BY Executing, Zenon
<1>3. TypeOK'
  <2> QED BY <1>1 DEF IInv, TypeOK
<1>4. /\ state'[z] = "UNUSED" /\ parent'[z] = None
      /\ \A s \in Slots : s # z => /\ state'[s] = state[s] /\ pid'[s] = pid[s]
                                   /\ parent'[s] = parent[s] /\ killed'[s] = killed[s]
  BY <1>1, StateType, ParentType
<1>5. Scheduled' /\ OneCPUPerProcess'
  BY <1>4, GoesOn, Zenon
<1>6. z # initproc
  BY Zenon DEF IInv, Lineage, Alive
<1>7. Lineage'
  BY <1>4, <1>6 DEF IInv, Lineage
<1>8. Forks'
  <2>1. ASSUME NEW q \in Slots, np[q] # None
        PROVE  q # z /\ np[q] \in Slots /\ np[q] # z
    BY <2>1, SMTT(30) DEF IInv, TypeOK, Forks
  <2> QED BY <1>4, <2>1 DEF IInv, Forks
<1>9. Preempted'
  <2>2. \A s \in Slots : state'[s] = "RUNNABLE" => state[s] = "RUNNABLE"
    BY <1>4, Zenon
  <2>3. Preempted
    BY Zenon DEF IInv
  <2> QED BY <2>2, <2>3, SMTT(30) DEF Preempted
<1>10. UniquePids'
  <2>1. \A s \in Slots : state'[s] # "UNUSED" => state[s] # "UNUSED" /\ pid'[s] = pid[s]
    BY <1>4, Zenon
  <2>2. \A s, t \in Slots : s # t /\ state[s] # "UNUSED" /\ state[t] # "UNUSED" => pid[s] # pid[t]
    BY DEF IInv, UniquePids
  <2>3. \A s, t \in Slots : s # t /\ state'[s] # "UNUSED" /\ state'[t] # "UNUSED" => pid'[s] # pid'[t]
    BY <2>1, <2>2
  <2> QED BY <2>3, Zenon DEF UniquePids
<1>11. ParentAlive'
  <2> SUFFICES ASSUME NEW s \in Slots \ {initproc},
                      state'[s] \in {"SLEEPING", "RUNNABLE", "RUNNING", "ZOMBIE"}
               PROVE  /\ parent'[s] # None
                      /\ state'[parent'[s]] \in {"SLEEPING", "RUNNABLE", "RUNNING"}
    BY Zenon DEF ParentAlive
  <2>1. s # z /\ state'[s] = state[s] /\ parent'[s] = parent[s]
    BY <1>4, Zenon
  <2>2. parent[s] \in Slots /\ state[parent[s]] \in {"SLEEPING", "RUNNABLE", "RUNNING"}
    BY <2>1, SMTT(30) DEF IInv, TypeOK, ParentAlive
  <2> QED BY <2>2, <1>4
<1>12. NoMissedExit' /\ WaitIsKillable'
  <2>1. \A s \in Slots : state'[s] = "SLEEPING" => s # z /\ s # p /\ state[s] = "SLEEPING" /\ chan'[s] = chan[s]
    BY <1>2, <1>4, ChanType
  <2>2. \A k \in Slots : \/ k # z /\ state'[k] = state[k] /\ parent'[k] = parent[k]
                         \/ state'[k] = "UNUSED"
    BY <1>4, Zenon
  <2>3. ASSUME NEW s \in Slots, NEW k \in Slots,
               state'[s] = "SLEEPING", chan'[s] = s, parent'[k] = s
        PROVE  state'[k] # "ZOMBIE"
    <3>1. CASE state'[k] = state[k] /\ parent'[k] = parent[k]
      <4>1. NoMissedExit
        BY Zenon DEF IInv
      <4>2. state[s] = "SLEEPING" /\ chan[s] = s /\ parent[k] = s
        BY <2>1, <2>3, <3>1, Zenon
      <4> QED BY <3>1, <4>1, <4>2, Zenon DEF NoMissedExit
    <3>2. CASE state'[k] = "UNUSED"
      BY <3>2, Zenon
    <3> QED BY <2>2, <3>1, <3>2, Zenon
  <2>4. NoMissedExit'
    BY <2>3, Zenon DEF NoMissedExit
  <2>5. WaitIsKillable
    BY Zenon DEF IInv
  <2>6. ASSUME NEW s \in Slots, state'[s] = "SLEEPING", chan'[s] = s PROVE ~killed'[s]
    <3>1. s # z /\ state[s] = "SLEEPING" /\ chan[s] = s
      BY <2>1, <2>6, Zenon
    <3>2. ~killed[s] /\ killed'[s] = killed[s]
      BY <1>4, <2>5, <3>1, Zenon DEF WaitIsKillable
    <3> QED BY <3>2, Zenon
  <2> QED BY <2>4, <2>6, Zenon DEF WaitIsKillable
<1> QED
  BY <1>3, <1>5, <1>7, <1>8, <1>9, <1>10, <1>11, <1>12, Zenon DEF IInv

\* wait() gives up: no children, or killed.
LEMMA GiveUpInv ==
  ASSUME IInv, NEW c \in CPUs, at[c] \in {"switch_in", "process"},
         lock \in {None, c}, lock' = None,
         at' = [at EXCEPT ![c] = "process"],
         chan' \in {chan, [chan EXCEPT ![proc[c]] = None]},
         UNCHANGED <<state, pid, parent, killed, context, nextpid, proc, run_p, kpc, np, oops>>
  PROVE  IInv'
<1> USE Constants
<1> DEFINE p == proc[c]
<1>1. p \in Slots /\ state[p] = "RUNNING"
  BY Executing, Zenon
<1>2. TypeOK'
  <2>1. chan' \in [Slots -> Slots \union Chans \union {None}]
    BY ChanType, Zenon
  <2> QED BY <2>1, Zenon DEF IInv, TypeOK
<1>3. Scheduled' /\ OneCPUPerProcess'
  BY GoesOn, Zenon
<1>4. Preempted'
  BY DEF IInv, Preempted
<1>5. \A s \in Slots : state[s] = "SLEEPING" => chan'[s] = chan[s]
  BY <1>1, ChanType, Zenon
<1> QED
  BY <1>2, <1>3, <1>4, <1>5, Keep, Zenon

\* wait() goes to sleep: none of its children has exited, and it has not been
\* killed.
LEMMA WaitSleepInv ==
  ASSUME IInv, NEW c \in CPUs, at[c] \in {"switch_in", "process"},
         lock \in {None, c}, np[proc[c]] = None,
         \A s \in Slots : parent[s] = proc[c] => state[s] # "ZOMBIE",
         ~killed[proc[c]],
         NEW ch \in {chan, [chan EXCEPT ![proc[c]] = None]},
         chan' = [ch EXCEPT ![proc[c]] = proc[c]],
         state' = [state EXCEPT ![proc[c]] = "SLEEPING"],
         Sched(c, "wait"),
         UNCHANGED <<pid, parent, killed, nextpid, proc, run_p, kpc, np, oops>>
  PROVE  IInv'
<1> USE Constants
<1> DEFINE p == proc[c]
<1>1. p \in Slots /\ state[p] = "RUNNING"
  BY Executing, Zenon
<1>2. /\ context' = [context EXCEPT ![p] = "wait"]
      /\ lock' = c
      /\ at' = [at EXCEPT ![c] = "switch_out"]
  BY Zenon DEF Sched
<1>3. chan' \in [Slots -> Slots \union Chans \union {None}]
  BY <1>1, ChanType, Zenon
<1>4. /\ state'[p] = "SLEEPING"
      /\ \A s \in Slots : s # p => state'[s] = state[s] /\ chan'[s] = chan[s]
  BY <1>1, StateType, ChanType, Zenon
<1>5. TypeOK'
  BY <1>2, <1>3, Zenon DEF IInv, TypeOK
<1>6. Scheduled' /\ OneCPUPerProcess'
  <2>1. state'[p] \in {"RUNNABLE", "SLEEPING", "ZOMBIE"}
    BY <1>4, Zenon
  <2>2. \A s \in Slots : s # p => (state'[s] = "RUNNING" <=> state[s] = "RUNNING")
    BY <1>4, Zenon
  <2> QED BY <1>2, <2>1, <2>2, Leaves, ZenonT(30)
<1>7. Preempted'
  <2>1. \A d \in CPUs : at'[d] = "switch_in" => at[d] = "switch_in" /\ proc[d] # p
    <3>1. at'[c] = "switch_out"
      BY <1>2, AtType, Zenon
    <3>2. ASSUME NEW d \in CPUs, d # c PROVE at'[d] = at[d] /\ proc[d] # p
      BY <1>1, <1>2, <3>2, Alone
    <3> QED BY <3>1, <3>2, Zenon
  <2>2. \A s \in Slots : s # p => context'[s] = context[s]
    BY <1>2, SMTT(30)
  <2>3. \A s \in Slots : state'[s] = "RUNNABLE" /\ np[s] # None => context'[s] = "yield"
    BY <1>4, <2>2, Zenon DEF IInv, Preempted
  <2>4. ASSUME NEW d \in CPUs, at'[d] = "switch_in", np[proc[d]] # None
        PROVE  context'[proc[d]] = "yield"
    <3>1. proc[d] \in Slots /\ proc[d] # p /\ context[proc[d]] = "yield"
      BY <2>1, <2>4, Executing, Zenon DEF IInv, Preempted
    <3> QED BY <2>2, <3>1, Zenon
  <2> QED BY <2>3, <2>4, Zenon DEF Preempted
<1>8. \A s \in Slots : \/ state'[s] = state[s]
                        \/ /\ state[s] \in {"SLEEPING", "RUNNABLE", "RUNNING", "ZOMBIE"}
                           /\ state'[s] \in Alive
                           /\ np[s] # None => state'[s] # "SLEEPING"
  BY <1>1, <1>4, Zenon DEF Alive
<1>9. \A s \in Slots : state'[s] = "SLEEPING" /\ chan'[s] = s =>
                         \/ state[s] = "SLEEPING" /\ chan[s] = s /\ (killed'[s] => killed[s])
                         \/ ~killed'[s] /\ \A k \in Slots : parent[k] = s => state[k] # "ZOMBIE"
  BY <1>4, Zenon
<1> QED
  BY <1>5, <1>6, <1>7, <1>8, <1>9, Keep, Zenon

\* One turn of the loop of wait().
LEMMA WaitTurnInv ==
  ASSUME IInv, NEW c \in CPUs, at[c] \in {"switch_in", "process"},
         lock \in {None, c}, np[proc[c]] = None,
         NEW ch \in {chan, [chan EXCEPT ![proc[c]] = None]}, WaitTurn(c, ch),
         UNCHANGED <<nextpid, proc, run_p, kpc, np, oops>>
  PROVE  IInv'
<1> DEFINE p == proc[c]
           kids == {s \in Slots : parent[s] = p}
           zombies == {s \in kids : state[s] = "ZOMBIE"}
           leave == /\ lock' = None
                    /\ at' = [at EXCEPT ![c] = "process"]
                    /\ chan' = ch
                    /\ UNCHANGED context
<1>1. CASE leave /\ \E z \in First(zombies) : Reap(z)
  <2>1. PICK z \in Slots : state[z] = "ZOMBIE" /\ Reap(z)
    BY <1>1, Zenon DEF First
  <2>2. /\ lock' = None /\ at' = [at EXCEPT ![c] = "process"] /\ context' = context
        /\ chan' \in {chan, [chan EXCEPT ![p] = None]}
    BY <1>1, Zenon
  <2> QED BY <2>1, <2>2, ReapInv, ZenonT(30)
<1>2. CASE leave /\ UNCHANGED <<state, pid, parent, killed>>
  BY <1>2, GiveUpInv, Zenon
<1>3. CASE /\ zombies = {} /\ ~GivesUp(p, kids)
           /\ chan' = [ch EXCEPT ![p] = p]
           /\ state' = [state EXCEPT ![p] = "SLEEPING"]
           /\ Sched(c, "wait")
           /\ UNCHANGED <<pid, parent, killed>>
  <2>1. \A s \in Slots : parent[s] = p => state[s] # "ZOMBIE"
    BY <1>3, Zenon
  <2>2. ~killed[p]
    BY <1>3, Zenon DEF GivesUp
  <2> QED BY <1>3, <2>1, <2>2, WaitSleepInv, ZenonT(30)
<1> QED
  BY <1>1, <1>2, <1>3, Zenon DEF WaitTurn

\* wait() as it is called, and after sleep() in it has returned: a process
\* that sleeps in wait() is not in fork().
LEMMA WaitInv == ASSUME IInv, NEW c \in CPUs, WaitCall(c) \/ WaitResume(c) PROVE IInv'
<1> USE Constants
<1>1. CASE WaitCall(c)
  <2>1. at[c] = "process" /\ kpc[proc[c]] = "kernel" /\ lock = None
    BY <1>1, Zenon DEF WaitCall, Runs, In, CanLock
  <2>2. np[proc[c]] = None
    BY <2>1, Executing, Zenon DEF IInv, Forks
  <2>3. WaitTurn(c, chan) /\ UNCHANGED <<nextpid, proc, run_p, kpc, np, oops>>
    BY <1>1, Zenon DEF WaitCall
  <2> QED BY <2>1, <2>2, <2>3, WaitTurnInv, ZenonT(30)
<1>2. CASE WaitResume(c)
  <2>1. at[c] = "switch_in" /\ context[proc[c]] = "wait"
    BY <1>2, Zenon DEF WaitResume, In
  <2>2. lock = c /\ np[proc[c]] = None
    BY <2>1, Zenon DEF IInv, Scheduled, Preempted
  <2>3. WaitTurn(c, [chan EXCEPT ![proc[c]] = None]) /\ UNCHANGED <<nextpid, proc, run_p, kpc, np, oops>>
    BY <1>2, Zenon DEF WaitResume
  <2> QED BY <2>1, <2>2, <2>3, WaitTurnInv, Zenon
<1> QED BY <1>1, <1>2

----------------------------------------------------------------------------
(* The theorems                                                            *)

\* Every step of Next keeps the inductive invariant.
LEMMA NextInv == IInv /\ [Next]_vars => IInv'
<1> SUFFICES ASSUME IInv, [Next]_vars PROVE IInv'
  BY Zenon
<1>1. CASE UNCHANGED vars
  BY <1>1, StoppedInv, Zenon DEF vars, table, local, IInv, TypeOK
<1>2. ASSUME NEW c \in CPUs, CPUStep(c) PROVE IInv'
  <2>1. CASE Scheduler(c) \/ SwitchOut(c) \/ Resume(c) \/ Yield(c)
    BY <2>1, SchedulerInv, SwitchOutInv, ResumeInv, YieldInv, Zenon
  <2>2. CASE ScanOverrun(c) \/ ZombieExit(c)
    BY <2>2, StoppedInv, Zenon DEF ScanOverrun, ZombieExit, IInv, TypeOK
  <2>3. CASE Syscall(c) \/ Return(c) \/ Fault(c)
    BY <2>3, TrapInv, Zenon
  <2>4. CASE AllocProc(c) \/ ForkFail(c) \/ ForkCopy(c) \/ ForkDone(c)
    BY <2>4, AllocProcInv, ForkFailInv, ForkCopyInv, ForkDoneInv, Zenon
  <2>5. CASE Exit(c) \/ WaitCall(c) \/ WaitResume(c)
    BY <2>5, ExitInv, WaitInv, Zenon
  <2>6. CASE \E ch \in Chans : Sleep(c, ch)
    BY <2>6, SleepInv
  <2>7. CASE \E n \in KillPids : Kill(c, n)
    BY <2>7, KillInv
  <2> QED
    BY <1>2, <2>1, <2>2, <2>3, <2>4, <2>5, <2>6, <2>7, Zenon DEF CPUStep
<1>3. CASE \E ch \in Chans : Wakeup(ch)
  BY <1>3, WakeupInv
<1>4. CASE Halted
  BY <1>1, <1>4 DEF Halted
<1> QED
  BY <1>1, <1>2, <1>3, <1>4 DEF Next

\* Scheduled, Lineage, Forks and Preempted hold in every reachable state,
\* together with the properties they support.
THEOREM Invariance == Spec => []IInv
BY InitInv, NextInv, PTL DEF Spec

\* scheduler(), sched(), exit() and wait(): no process is executed by two CPUs,
\* a process is RUNNING exactly while a CPU executes it, and wait() frees no
\* kernel stack that a CPU is on, for any number of CPUs and processes.
THEOREM OneCPUAtATime == Spec => []RunsOnOneCPU
<1>1. IInv => StackInUse
  <2> SUFFICES ASSUME IInv, NEW c \in CPUs, proc[c] # None
               PROVE  state[proc[c]] \notin {"UNUSED", "EMBRYO"}
    BY Zenon DEF StackInUse
  <2>1. at[c] \in {"switch_in", "process", "switch_out"}
    BY AtType, Zenon DEF IInv, Scheduled
  <2>2. CASE at[c] \in {"switch_in", "process"}
    BY <2>2, Executing, Zenon
  <2>3. CASE at[c] = "switch_out"
    BY <2>3, Zenon DEF IInv, Scheduled
  <2> QED BY <2>1, <2>2, <2>3, Zenon
<1>2. IInv => RunsOnOneCPU
  BY <1>1 DEF IInv, RunsOnOneCPU
<1> QED
  BY <1>2, Invariance, PTL

\* allocproc(), fork(), exit() and wait(): pids are unique among the slots in
\* use, and every process but initproc has a parent that is alive.
THEOREM TableKeptInOrder == Spec => []TableInOrder
<1>1. IInv => TableInOrder
  BY DEF IInv, TableInOrder
<1> QED
  BY <1>1, Invariance, PTL

\* exit(), wait() and kill(): no process sleeps in wait() while one of its
\* children is a zombie, or after it was killed.
THEOREM NoExitIsMissed == Spec => []WaitIsWoken
<1>1. IInv => WaitIsWoken
  BY DEF IInv, WaitIsWoken
<1> QED
  BY <1>1, Invariance, PTL

=============================================================================
