------------------------------ MODULE Spinlock ------------------------------
(***************************************************************************)
(* The spin locks of spinlock.c on several CPUs, with interrupts: acquire  *)
(* and release, pushcli and popcli, and the lock operations of the code    *)
(* that the console, the pipes, the clock, the disk and the scheduler run. *)
(*                                                                         *)
(* A CPU executes one path (a sequence of lock operations) at process      *)
(* level, and on top of it at most one interrupt handler: handlers run     *)
(* with interrupts off.  pushcli, xchg and popcli are separate steps.      *)
(***************************************************************************)
EXTENDS Naturals, Sequences

CONSTANTS CPUs,
          cpu0,      \* the CPU with id 0, which counts the ticks
          Paths,     \* names of the paths that processes and schedulers take
          Handlers,  \* names of the interrupt handlers
          None

ASSUME SpinConstants == /\ cpu0 \in CPUs
                        /\ None \notin CPUs \union ((Paths \union Handlers) \X Nat)

Locks == {"ptable", "cons", "pipe", "tickslock", "idelock"}

acq(l) == <<"acquire", l>>
rel(l) == <<"release", l>>

\* wakeup(): acquire and release ptable.lock.
wakeup == <<acq("ptable"), rel("ptable")>>

\* Mutant: lk is reacquired before ptable.lock is released.
sleepNested(l) == <<acq("ptable"), rel(l), rel("ptable"),
                    acq("ptable"), acq(l), rel("ptable")>>

\* sleep(chan, lk) up to the switch to the scheduler, which releases
\* ptable.lock, and from the switch back to the return.
sleep(l) == <<acq("ptable"), rel(l), rel("ptable"),
              acq("ptable"), rel("ptable"), acq(l)>>

\* scheduler() with one runnable process.
SchedulerOne == <<acq("ptable"), rel("ptable")>>

\* scheduler() with several runnable processes: it calls cprintf() for each
\* candidate with ptable.lock held.
SchedulerLottery == <<acq("ptable"), acq("cons"), rel("cons"), rel("ptable")>>

ConsoleRead  == <<acq("cons")>> \o sleep("cons") \o <<rel("cons")>>
ConsoleWrite == <<acq("cons"), rel("cons")>>
ConsoleIntr  == <<acq("cons")>> \o wakeup \o <<rel("cons")>>
PipeWrite    == <<acq("pipe")>> \o wakeup \o sleep("pipe") \o wakeup \o <<rel("pipe")>>
DiskRequest  == <<acq("idelock")>> \o sleep("idelock") \o <<rel("idelock")>>
DiskIntr     == <<acq("idelock")>> \o wakeup \o <<rel("idelock")>>
SysSleep     == <<acq("tickslock")>> \o sleep("tickslock") \o <<rel("tickslock")>>

\* The clock handler: the tick, on cpu0 only, then yield(), in which the
\* scheduler releases and acquires ptable.lock.
Tick  == <<acq("tickslock")>> \o wakeup \o <<rel("tickslock")>>
Yield == <<acq("ptable"), rel("ptable"), acq("ptable"), rel("ptable")>>

Ops(name) ==
  CASE name = "scheduler_one"     -> SchedulerOne
    [] name = "scheduler_lottery" -> SchedulerLottery
    [] name = "consoleread"       -> ConsoleRead
    [] name = "consolewrite"      -> ConsoleWrite
    [] name = "consoleintr"       -> ConsoleIntr
    [] name = "pipewrite"         -> PipeWrite
    [] name = "iderw"             -> DiskRequest
    [] name = "ideintr"           -> DiskIntr
    [] name = "sys_sleep"         -> SysSleep
    [] name = "timer_cpu0"        -> Tick \o Yield
    [] name = "timer"             -> Yield
    [] OTHER                      -> <<>>

VARIABLES
  owner,    \* lk->locked and lk->cpu: the CPU that holds the lock, or None
  FL_IF,    \* per CPU: interrupts are enabled
  ncli, intena,   \* fields of struct cpu
  path, handler,  \* per CPU: <<name, index of the next operation>> or None
  stage,    \* per CPU: "op", or in the middle: "spin" (acquire after
            \* pushcli), "popcli" (release after xchg)
  panicked

vars == <<owner, FL_IF, ncli, intena, path, handler, stage, panicked>>

Init == /\ owner = [l \in Locks |-> None]
        /\ FL_IF = [c \in CPUs |-> TRUE]
        /\ ncli = [c \in CPUs |-> 0]
        /\ intena = [c \in CPUs |-> FALSE]
        /\ path = [c \in CPUs |-> None]
        /\ handler = [c \in CPUs |-> None]
        /\ stage = [c \in CPUs |-> "op"]
        /\ panicked = FALSE

\* What c executes now: the handler if there is one.
Current(c) == IF handler[c] # None THEN handler[c] ELSE path[c]
Executes(c) == Current(c) # None /\ ~panicked
Ended(c) == Executes(c) /\ Current(c)[2] > Len(Ops(Current(c)[1]))
Op(c) == Ops(Current(c)[1])[Current(c)[2]]

\* c is about to perform an operation of the given kind on lock l.
Does(c, kind, l) == Executes(c) /\ ~Ended(c) /\ Op(c) = <<kind, l>>

Advance(c) ==
  IF handler[c] # None
  THEN handler' = [handler EXCEPT ![c] = <<@[1], @[2] + 1>>] /\ UNCHANGED path
  ELSE path' = [path EXCEPT ![c] = <<@[1], @[2] + 1>>] /\ UNCHANGED handler

Start(c, name) ==
  /\ ~panicked
  /\ Current(c) = None
  /\ path' = [path EXCEPT ![c] = <<name, 1>>]
  /\ UNCHANGED <<owner, FL_IF, ncli, intena, handler, stage, panicked>>

\* An interrupt gate turns interrupts off; iret restores the flag.
Interrupt(c, name) ==
  /\ ~panicked
  /\ FL_IF[c]
  /\ handler[c] = None
  /\ name = "timer_cpu0" => c = cpu0
  /\ name = "timer" => c # cpu0
  /\ handler' = [handler EXCEPT ![c] = <<name, 1>>]
  /\ FL_IF' = [FL_IF EXCEPT ![c] = FALSE]
  /\ UNCHANGED <<owner, ncli, intena, path, stage, panicked>>

Finish(c) ==
  /\ Ended(c)
  /\ IF handler[c] # None
     THEN /\ handler' = [handler EXCEPT ![c] = None]
          /\ FL_IF' = [FL_IF EXCEPT ![c] = TRUE]
          /\ UNCHANGED path
     ELSE path' = [path EXCEPT ![c] = None] /\ UNCHANGED <<handler, FL_IF>>
  /\ UNCHANGED <<owner, ncli, intena, stage, panicked>>

----------------------------------------------------------------------------

\* Mutant: every pushcli() records the flag, not only the outermost one.
pushcliRecords(c) == /\ FL_IF' = [FL_IF EXCEPT ![c] = FALSE]
                     /\ ncli' = [ncli EXCEPT ![c] = @ + 1]
                     /\ intena' = [intena EXCEPT ![c] = FL_IF[c]]

pushcli(c) == /\ FL_IF' = [FL_IF EXCEPT ![c] = FALSE]
              /\ ncli' = [ncli EXCEPT ![c] = @ + 1]
              /\ intena' = IF ncli[c] = 0 THEN [intena EXCEPT ![c] = FL_IF[c]]
                                          ELSE intena

\* Mutant: every popcli() enables interrupts, matched or not.
popcliAlways(c) == /\ ncli' = [ncli EXCEPT ![c] = @ - 1]
                   /\ FL_IF' = [FL_IF EXCEPT ![c] = intena[c]]

popcli(c) == /\ ncli' = [ncli EXCEPT ![c] = @ - 1]
             /\ FL_IF' = [FL_IF EXCEPT ![c] = @ \/ (ncli[c] = 1 /\ intena[c])]

\* acquire(l) up to the spinning; panics if this CPU holds l already.
AcquireBegin(c, l) ==
  /\ stage[c] = "op"
  /\ Does(c, "acquire", l)
  /\ pushcli(c)
  /\ stage' = [stage EXCEPT ![c] = "spin"]
  /\ panicked' = (owner[l] = c)
  /\ UNCHANGED <<owner, path, handler>>

AcquireXchg(c, l) ==
  /\ stage[c] = "spin"
  /\ Does(c, "acquire", l)
  /\ owner[l] = None
  /\ owner' = [owner EXCEPT ![l] = c]
  /\ stage' = [stage EXCEPT ![c] = "op"]
  /\ Advance(c)
  /\ UNCHANGED <<FL_IF, ncli, intena, panicked>>

\* release(l) up to popcli(); panics if this CPU does not hold l.
ReleaseXchg(c, l) ==
  /\ stage[c] = "op"
  /\ Does(c, "release", l)
  /\ panicked' = (owner[l] # c)
  /\ owner' = [owner EXCEPT ![l] = None]
  /\ stage' = [stage EXCEPT ![c] = "popcli"]
  /\ UNCHANGED <<FL_IF, ncli, intena, path, handler>>

\* popcli() panics if interrupts are on or ncli would become negative.
ReleasePopcli(c, l) ==
  /\ stage[c] = "popcli"
  /\ Does(c, "release", l)
  /\ popcli(c)
  /\ panicked' = (FL_IF[c] \/ ncli[c] < 1)
  /\ stage' = [stage EXCEPT ![c] = "op"]
  /\ Advance(c)
  /\ UNCHANGED <<owner, intena>>

Step(c) == \/ Finish(c)
           \/ \E l \in Locks : \/ AcquireBegin(c, l) \/ AcquireXchg(c, l)
                               \/ ReleaseXchg(c, l) \/ ReleasePopcli(c, l)

Next == \E c \in CPUs : \/ Step(c)
                        \/ \E name \in Paths : Start(c, name)
                        \/ \E name \in Handlers : Interrupt(c, name)

Spec == Init /\ [][Next]_vars

----------------------------------------------------------------------------
(* Properties                                                              *)

\* The locks c holds, and the one it spins for.
Held(c) == {l \in Locks : owner[l] = c}
SpinsFor(c, l) == stage[c] = "spin" /\ Does(c, "acquire", l)

\* Every variable has its type; no path nests more than two locks, so ncli
\* stays small.
TypeOK ==
  /\ owner \in [Locks -> CPUs \union {None}]
  /\ FL_IF \in [CPUs -> BOOLEAN]
  /\ ncli \in [CPUs -> 0 .. 2]
  /\ intena \in [CPUs -> BOOLEAN]
  /\ stage \in [CPUs -> {"op", "spin", "popcli"}]
  /\ panicked \in BOOLEAN
  /\ \A c \in CPUs : Current(c) = None => stage[c] = "op"

\* While a CPU holds a spin lock it takes no interrupt, so a handler never
\* spins for a lock that the code it interrupted holds: no panic in acquire,
\* release or popcli.
NoPanic == ~panicked

\* Outside all locks a process runs with interrupts enabled again, however
\* deeply the critical sections were nested.
InterruptsRestored == \A c \in CPUs :
  handler[c] = None /\ stage[c] = "op" /\ Held(c) = {} => FL_IF[c] /\ ncli[c] = 0

\* No set of CPUs wait for each other's locks: all spin, each for a lock
\* that one of them holds.
NoCircularWait == ~\E S \in (SUBSET CPUs) \ {{}} :
  \A c \in S : \E l \in Locks : owner[l] \in S /\ SpinsFor(c, l)

=============================================================================
