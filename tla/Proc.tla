-------------------------------- MODULE Proc --------------------------------
(***************************************************************************)
(* The process table of proc.c: fork, exit, wait, kill, sleep, wakeup, the *)
(* context switch through sched()/swtch() and the per-CPU lottery          *)
(* scheduler, together with the tests of proc->killed in trap.c.           *)
(*                                                                         *)
(* Steps.  What runs under ptable.lock is one step, except that the lock   *)
(* stays held over a context switch: `lock' is then the CPU that holds it. *)
(* Writes that the code makes without the lock are steps of their own.     *)
(* A timer interrupt may preempt a process between any two steps.          *)
(*                                                                         *)
(* Tickets decide how likely a candidate wins, not whether it can (every   *)
(* process has at least 10, see module Lottery), so any candidate may win. *)
(***************************************************************************)
EXTENDS Naturals, FiniteSets

CONSTANTS NPROC,    \* slots of ptable.proc
          CPUs,
          Chans,    \* channels other than processes that sleep() is given
          KillPids, \* arguments of kill()
          MaxPid,   \* bound: fork() is not called once nextpid is beyond it
          None      \* "no process", "no CPU", a null channel

Slots    == 1 .. NPROC
initproc == 1           \* userinit() gets the first slot

\* Channels are addresses: no two of them, nor the null pointer, are the same.
ASSUME ProcConstants == /\ NPROC \in Nat \ {0} /\ MaxPid \in Nat \ {0}
                        /\ None \notin Slots \union CPUs
                        /\ Chans \intersect Slots = {}

VARIABLES
  state, pid, parent, killed, chan,   \* fields of struct proc
  nextpid,
  lock,      \* the CPU that holds ptable.lock across a switch, or None
  proc,      \* per CPU: the process it runs, or None
  at,        \* per CPU: "scheduler", "switch_in" (swtch() has just entered
             \* the process), "process", "switch_out" (it called sched())
  run_p,     \* per CPU: the scheduler's array of candidates
  context,   \* per slot: where swtch() resumes the process
  kpc,       \* per slot: what the process is doing
  np,        \* per slot: the child that fork() is making
  oops       \* "no", "panic", or "wild" once behaviour is undefined

table == <<state, pid, parent, killed, chan, nextpid>>
local == <<context, kpc, np>>
vars  == <<state, pid, parent, killed, chan, nextpid, lock, proc, at, run_p,
           context, kpc, np, oops>>

\* main() after userinit(): one RUNNABLE process, every CPU in scheduler().
Init == /\ state = [s \in Slots |-> IF s = initproc THEN "RUNNABLE" ELSE "UNUSED"]
        /\ pid = [s \in Slots |-> IF s = initproc THEN 1 ELSE 0]
        /\ parent = [s \in Slots |-> None]
        /\ killed = [s \in Slots |-> FALSE]
        /\ chan = [s \in Slots |-> None]
        /\ nextpid = 2
        /\ lock = None
        /\ proc = [c \in CPUs |-> None]
        /\ at = [c \in CPUs |-> "scheduler"]
        /\ run_p = [c \in CPUs |-> [i \in Slots |-> None]]
        /\ context = [s \in Slots |-> "forkret"]
        /\ kpc = [s \in Slots |-> "user"]
        /\ np = [s \in Slots |-> None]
        /\ oops = "no"

\* wakeup1(ch) applied to the states st.
wakeup1(st, ch) ==
  [s \in Slots |-> IF st[s] = "SLEEPING" /\ chan[s] = ch THEN "RUNNABLE" ELSE st[s]]

\* The kernel has not stopped, and c is at the given place.
In(c, where) == oops = "no" /\ at[c] = where

\* acquire(&ptable.lock) succeeds.
CanLock == oops = "no" /\ lock = None

\* The slot of S that a loop over the table meets first.
First(S) == {s \in S : \A t \in S : s <= t}

----------------------------------------------------------------------------
(* scheduler()                                                             *)

Runnable == {s \in Slots : state[s] = "RUNNABLE"}

\* The entry that a RUNNABLE process gets.
Rank(s) == Cardinality({t \in Runnable : t <= s})

\* "get all runnable processes": the first entries are overwritten, the
\* others keep what earlier rounds left there.
Fill(c) == [i \in Slots |-> IF \E s \in Runnable : Rank(s) = i
                            THEN CHOOSE s \in Runnable : Rank(s) = i
                            ELSE run_p[c][i]]

\* "remove duplicate processes" among the entries just filled.
Dedup(rp) ==
  [j \in Slots |->
     IF j <= Cardinality(Runnable) /\ \E i \in 1 .. j - 1 : pid[rp[i]] = pid[rp[j]]
     THEN None ELSE rp[j]]

\* Mutant: the last entry of the array is never counted.
EntrantsButLast(rp) == {i \in Slots \ {NPROC} : \A j \in 1 .. i : rp[j] # None}

\* The entries the lottery counts: up to the first null one.
Entrants(rp) == {i \in Slots : \A j \in 1 .. i : rp[j] # None}

\* Switch to q, whatever its state is.  A slot without a kernel stack and
\* page table, and a process that runs on another CPU, cannot be entered
\* in any defined way.
Switch(c, q) ==
  IF state[q] \in {"UNUSED", "EMBRYO", "RUNNING"}
  THEN oops' = "wild" /\ UNCHANGED <<state, lock, proc, at>>
  ELSE /\ proc' = [proc EXCEPT ![c] = q]
       /\ state' = [state EXCEPT ![q] = "RUNNING"]
       /\ lock' = c
       /\ at' = [at EXCEPT ![c] = "switch_in"]
       /\ UNCHANGED oops

Scheduler(c) ==
  /\ In(c, "scheduler")
  /\ CanLock
  /\ Runnable # {}
  /\ IF Cardinality(Runnable) = 1
     THEN /\ run_p' = [run_p EXCEPT ![c] = Fill(c)]
          /\ \E s \in Runnable : Switch(c, s)
     ELSE LET rp == Dedup(Fill(c)) IN
          /\ run_p' = [run_p EXCEPT ![c] = rp]
          /\ \E i \in Entrants(rp) : Switch(c, rp[i])
  /\ UNCHANGED <<pid, parent, killed, chan, nextpid, local>>

\* The loop that prints the candidates stops at a null entry only; once all
\* NPROC entries are in use it reads past the array.
ScanOverrun(c) ==
  /\ In(c, "scheduler")
  /\ CanLock
  /\ Cardinality(Runnable) > 1
  /\ Entrants(Fill(c)) = Slots
  /\ oops' = "wild"
  /\ UNCHANGED <<table, lock, proc, at, run_p, local>>

\* sched() has switched back to scheduler(): proc = 0, release the lock.
SwitchOut(c) ==
  /\ In(c, "switch_out")
  /\ proc' = [proc EXCEPT ![c] = None]
  /\ at' = [at EXCEPT ![c] = "scheduler"]
  /\ lock' = None
  /\ UNCHANGED <<table, run_p, local, oops>>

----------------------------------------------------------------------------
(* A process enters and leaves the processor                               *)

\* c runs code of a process, outside ptable.lock.
Runs(c, where) == In(c, "process") /\ kpc[proc[c]] = where

\* Mutant: ptable.lock is released before the switch.
SchedUnlocked(c, where) == /\ context' = [context EXCEPT ![proc[c]] = where]
                           /\ lock' = None
                           /\ at' = [at EXCEPT ![c] = "switch_out"]

\* The process of c calls sched() with ptable.lock held.
Sched(c, where) == /\ context' = [context EXCEPT ![proc[c]] = where]
                   /\ lock' = c
                   /\ at' = [at EXCEPT ![c] = "switch_out"]

\* The rest of forkret(), yield() and sleep() after the switch.
Resume(c) ==
  /\ In(c, "switch_in")
  /\ context[proc[c]] \in {"forkret", "yield", "sleep"}
  /\ chan' = IF context[proc[c]] = "sleep"
             THEN [chan EXCEPT ![proc[c]] = None] ELSE chan
  /\ at' = [at EXCEPT ![c] = "process"]
  /\ lock' = None
  /\ UNCHANGED <<state, pid, parent, killed, nextpid, proc, run_p, local, oops>>

\* exit() goes on after sched().
ZombieExit(c) ==
  /\ In(c, "switch_in")
  /\ context[proc[c]] = "exit"
  /\ oops' = "panic"
  /\ UNCHANGED <<table, lock, proc, at, run_p, local>>

\* A timer interrupt; in user space a killed process exits instead.
Yield(c) ==
  /\ In(c, "process")
  /\ CanLock
  /\ kpc[proc[c]] = "user" => ~killed[proc[c]]
  /\ state' = [state EXCEPT ![proc[c]] = "RUNNABLE"]
  /\ Sched(c, "yield")
  /\ UNCHANGED <<pid, parent, killed, chan, nextpid, proc, run_p, kpc, np, oops>>

\* trap(): a system call starts and returns only if the process is not killed.
Syscall(c) ==
  /\ Runs(c, "user")
  /\ ~killed[proc[c]]
  /\ kpc' = [kpc EXCEPT ![proc[c]] = "kernel"]
  /\ UNCHANGED <<table, lock, proc, at, run_p, context, np, oops>>

Return(c) ==
  /\ Runs(c, "kernel")
  /\ ~killed[proc[c]]
  /\ kpc' = [kpc EXCEPT ![proc[c]] = "user"]
  /\ UNCHANGED <<table, lock, proc, at, run_p, context, np, oops>>

\* trap(): a process that faults in user space is marked killed, no lock.
\* The program of initproc (init.c) does not fault; exit() panics if it did.
Fault(c) ==
  /\ Runs(c, "user")
  /\ proc[c] # initproc
  /\ killed' = [killed EXCEPT ![proc[c]] = TRUE]
  /\ UNCHANGED <<state, pid, parent, chan, nextpid, lock, proc, at, run_p,
                 local, oops>>

----------------------------------------------------------------------------
(* fork()                                                                  *)

\* p->pid = nextpid++
NewPid == nextpid

\* allocproc() up to the release of ptable.lock; -1 if there is no slot.
AllocProc(c) ==
  /\ Runs(c, "kernel")
  /\ CanLock
  /\ nextpid <= MaxPid
  /\ \E s \in First({t \in Slots : state[t] = "UNUSED"}) :
       /\ state' = [state EXCEPT ![s] = "EMBRYO"]
       /\ pid' = [pid EXCEPT ![s] = NewPid]
       /\ np' = [np EXCEPT ![proc[c]] = s]
  /\ nextpid' = nextpid + 1
  /\ kpc' = [kpc EXCEPT ![proc[c]] = "fork1"]
  /\ UNCHANGED <<parent, killed, chan, lock, proc, at, run_p, context, oops>>

\* No memory for the stack or for the copy of the address space; no lock.
ForkFail(c) ==
  /\ Runs(c, "fork1")
  /\ state' = [state EXCEPT ![np[proc[c]]] = "UNUSED"]
  /\ kpc' = [kpc EXCEPT ![proc[c]] = "kernel"]
  /\ np' = [np EXCEPT ![proc[c]] = None]
  /\ UNCHANGED <<pid, parent, killed, chan, nextpid, lock, proc, at, run_p,
                 context, oops>>

\* The rest of allocproc() and the copying in fork(), no lock.
ForkCopy(c) ==
  /\ Runs(c, "fork1")
  /\ LET p == proc[c] IN
       /\ parent' = [parent EXCEPT ![np[p]] = p]
       /\ context' = [context EXCEPT ![np[p]] = "forkret"]
       /\ kpc' = [kpc EXCEPT ![p] = "fork2", ![np[p]] = "user"]
  /\ UNCHANGED <<state, pid, killed, chan, nextpid, lock, proc, at, run_p, np,
                 oops>>

ForkDone(c) ==
  /\ Runs(c, "fork2")
  /\ CanLock
  /\ state' = [state EXCEPT ![np[proc[c]]] = "RUNNABLE"]
  /\ kpc' = [kpc EXCEPT ![proc[c]] = "kernel"]
  /\ np' = [np EXCEPT ![proc[c]] = None]
  /\ UNCHANGED <<pid, parent, killed, chan, nextpid, lock, proc, at, run_p,
                 context, oops>>

----------------------------------------------------------------------------
(* exit() and wait()                                                       *)

\* Mutant: only children that still live are passed to init.
ReparentLive(p) == [s \in Slots |-> IF parent[s] = p /\ state[s] # "ZOMBIE"
                                    THEN initproc ELSE parent[s]]

\* "Pass abandoned children to init."
Reparent(p) == [s \in Slots |-> IF parent[s] = p THEN initproc ELSE parent[s]]

\* Mutant: exit() does not wake its own parent.
ExitWakesInit(p) ==
  IF \E s \in Slots : parent[s] = p /\ state[s] = "ZOMBIE"
  THEN wakeup1(state, initproc) ELSE state

\* exit() wakes the parent, and init if it inherits a zombie.
ExitWakes(p) == LET st == wakeup1(state, parent[p]) IN
  IF \E s \in Slots : parent[s] = p /\ st[s] = "ZOMBIE"
  THEN wakeup1(st, initproc) ELSE st

\* exit(): called by sys_exit(), and by trap() for a killed process.  The
\* files and the current directory are closed before ptable.lock is taken.
Exit(c) ==
  /\ In(c, "process")
  /\ kpc[proc[c]] = "kernel" \/ (kpc[proc[c]] = "user" /\ killed[proc[c]])
  /\ CanLock
  /\ IF proc[c] = initproc
     THEN oops' = "panic" /\ UNCHANGED <<state, parent, context, lock, at>>
     ELSE /\ parent' = Reparent(proc[c])
          /\ state' = [ExitWakes(proc[c]) EXCEPT ![proc[c]] = "ZOMBIE"]
          /\ Sched(c, "exit")
          /\ UNCHANGED oops
  /\ UNCHANGED <<pid, killed, chan, nextpid, proc, run_p, kpc, np>>

Reap(z) == /\ state' = [state EXCEPT ![z] = "UNUSED"]
           /\ pid' = [pid EXCEPT ![z] = 0]
           /\ parent' = [parent EXCEPT ![z] = None]
           /\ killed' = [killed EXCEPT ![z] = FALSE]

\* "No point waiting if we don't have any children."
GivesUp(p, kids) == kids = {} \/ killed[p]

\* One turn of the loop in wait(), under ptable.lock; ch is proc->chan as
\* the turn finds it.
WaitTurn(c, ch) ==
  LET p == proc[c]
      kids == {s \in Slots : parent[s] = p}
      zombies == {s \in kids : state[s] = "ZOMBIE"}
      leave == /\ lock' = None
               /\ at' = [at EXCEPT ![c] = "process"]
               /\ chan' = ch
               /\ UNCHANGED context
  IN \/ /\ \E z \in First(zombies) : Reap(z)
        /\ leave
     \/ /\ zombies = {}
        /\ GivesUp(p, kids)
        /\ leave
        /\ UNCHANGED <<state, pid, parent, killed>>
     \/ /\ zombies = {}
        /\ ~GivesUp(p, kids)
        /\ chan' = [ch EXCEPT ![p] = p]
        /\ state' = [state EXCEPT ![p] = "SLEEPING"]
        /\ Sched(c, "wait")
        /\ UNCHANGED <<pid, parent, killed>>

WaitCall(c) ==
  /\ Runs(c, "kernel")
  /\ CanLock
  /\ WaitTurn(c, chan)
  /\ UNCHANGED <<nextpid, proc, run_p, kpc, np, oops>>

WaitResume(c) ==
  /\ In(c, "switch_in")
  /\ context[proc[c]] = "wait"
  /\ WaitTurn(c, [chan EXCEPT ![proc[c]] = None])
  /\ UNCHANGED <<nextpid, proc, run_p, kpc, np, oops>>

----------------------------------------------------------------------------
(* sleep(), wakeup() and kill()                                            *)

\* sleep(ch, lk) for a lock lk other than ptable.lock.
Sleep(c, ch) ==
  /\ Runs(c, "kernel")
  /\ CanLock
  /\ chan' = [chan EXCEPT ![proc[c]] = ch]
  /\ state' = [state EXCEPT ![proc[c]] = "SLEEPING"]
  /\ Sched(c, "sleep")
  /\ UNCHANGED <<pid, parent, killed, nextpid, proc, run_p, kpc, np, oops>>

\* wakeup(ch), from a process or from an interrupt handler.
Wakeup(ch) ==
  /\ CanLock
  /\ state' = wakeup1(state, ch)
  /\ UNCHANGED <<pid, parent, killed, chan, nextpid, lock, proc, at, run_p,
                 local, oops>>

\* kill(n): the first slot whose pid is n, whatever its state.
Kill(c, n) ==
  /\ Runs(c, "kernel")
  /\ CanLock
  /\ \E s \in First({t \in Slots : pid[t] = n}) :
       /\ killed' = [killed EXCEPT ![s] = TRUE]
       /\ state' = [state EXCEPT ![s] = IF @ = "SLEEPING" THEN "RUNNABLE" ELSE @]
  /\ UNCHANGED <<pid, parent, chan, nextpid, lock, proc, at, run_p, local, oops>>

----------------------------------------------------------------------------

CPUStep(c) ==
  \/ Scheduler(c) \/ ScanOverrun(c) \/ SwitchOut(c)
  \/ Resume(c) \/ ZombieExit(c) \/ Yield(c) \/ Syscall(c) \/ Return(c) \/ Fault(c)
  \/ AllocProc(c) \/ ForkFail(c) \/ ForkCopy(c) \/ ForkDone(c)
  \/ Exit(c) \/ WaitCall(c) \/ WaitResume(c)
  \/ \E ch \in Chans : Sleep(c, ch)
  \/ \E n \in KillPids : Kill(c, n)

\* panic() freezes the machine; nothing is said of it once oops = "wild".
Halted == oops # "no" /\ UNCHANGED vars

Next == \/ \E c \in CPUs : CPUStep(c)
        \/ \E ch \in Chans : Wakeup(ch)
        \/ Halted

Spec == Init /\ [][Next]_vars

\* Timer interrupts keep coming, what a CPU does with ptable.lock held ends,
\* and the lottery is fair: who takes part again and again wins some time.
Fairness == \A c \in CPUs :
  /\ WF_vars(SwitchOut(c))
  /\ WF_vars(Resume(c) \/ ZombieExit(c) \/ WaitResume(c))
  /\ WF_vars(Yield(c) \/ (In(c, "process") /\ killed[proc[c]] /\ Exit(c)))
  /\ \A s \in Slots : SF_vars(Scheduler(c) /\ proc'[c] = s)

FairSpec == Spec /\ Fairness

----------------------------------------------------------------------------
(* Properties                                                              *)

\* Every field has its type; the pids handed out are below nextpid.
TypeOK ==
  /\ state \in [Slots -> {"UNUSED", "EMBRYO", "SLEEPING", "RUNNABLE",
                          "RUNNING", "ZOMBIE"}]
  /\ pid \in [Slots -> 0 .. nextpid - 1]
  /\ parent \in [Slots -> Slots \union {None}]
  /\ killed \in [Slots -> BOOLEAN]
  /\ chan \in [Slots -> Slots \union Chans \union {None}]
  /\ nextpid \in Nat
  /\ lock \in CPUs \union {None}
  /\ proc \in [CPUs -> Slots \union {None}]
  /\ at \in [CPUs -> {"scheduler", "switch_in", "process", "switch_out"}]
  /\ run_p \in [CPUs -> [Slots -> Slots \union {None}]]
  /\ context \in [Slots -> {"forkret", "yield", "sleep", "wait", "exit"}]
  /\ kpc \in [Slots -> {"user", "kernel", "fork1", "fork2"}]
  /\ np \in [Slots -> Slots \union {None}]
  /\ oops \in {"no", "panic", "wild"}

\* No two CPUs execute on the same kernel stack, and a process is RUNNING
\* exactly while a CPU executes it.
OneCPUPerProcess ==
  /\ \A c, d \in CPUs : proc[c] = proc[d] /\ proc[c] # None => c = d
  /\ \A s \in Slots : state[s] = "RUNNING" <=>
       \E c \in CPUs : proc[c] = s /\ at[c] \in {"switch_in", "process"}

\* wait() never frees the kernel stack that a CPU still executes on: exit()
\* keeps ptable.lock until the scheduler has left the stack.
StackInUse == \A c \in CPUs :
  proc[c] # None => state[proc[c]] \notin {"UNUSED", "EMBRYO"}

\* Processes have different process numbers.
UniquePids == \A s, t \in Slots :
  /\ s # t
  /\ {state[s], state[t]} \intersect {"UNUSED"} = {}
  => pid[s] # pid[t]

\* Every process but the first has a parent that can still wait() for it:
\* exit() hands the children of a dead process to init.
ParentAlive == \A s \in Slots \ {initproc} :
  state[s] \in {"SLEEPING", "RUNNABLE", "RUNNING", "ZOMBIE"} =>
    /\ parent[s] # None
    /\ state[parent[s]] \in {"SLEEPING", "RUNNABLE", "RUNNING"}

\* A parent does not sleep in wait() over a child that has already exited
\* (a lost wakeup would make it sleep for ever).
NoMissedExit == \A s, k \in Slots :
  state[s] = "SLEEPING" /\ chan[s] = s /\ parent[k] = s => state[k] # "ZOMBIE"

\* A killed process does not stay asleep in wait().
WaitIsKillable == \A s \in Slots :
  state[s] = "SLEEPING" /\ chan[s] = s => ~killed[s]

\* scheduler() on several CPUs: no process runs twice, and no kernel stack is
\* freed by wait() while a CPU is still on it.
RunsOnOneCPU == OneCPUPerProcess /\ StackInUse

\* allocproc(), fork(), exit() and wait() keep the table: pids are unique, and
\* every process has a parent that is alive.
TableInOrder == TypeOK /\ UniquePids /\ ParentAlive

\* Nobody sleeps in wait() over a child that has exited or after kill().
WaitIsWoken == NoMissedExit /\ WaitIsKillable

\* Every RUNNABLE process takes part in each lottery of the CPU and is run
\* some time (unless the kernel stops).
RunnableRuns == \A s \in Slots :
  state[s] = "RUNNABLE" ~> (state[s] # "RUNNABLE" \/ oops # "no")

\* An exited process remains in the zombie state until its parent calls
\* wait() to find out it exited (the comment on exit()).
ZombieUntilWait ==
  [][\A s \in Slots : state[s] = "ZOMBIE" => state'[s] \in {"ZOMBIE", "UNUSED"}]_vars

=============================================================================
