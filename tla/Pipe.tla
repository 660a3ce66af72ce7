-------------------------------- MODULE Pipe --------------------------------
(***************************************************************************)
(* One pipe of pipe.c, used by several processes, each of which holds a    *)
(* reference to the struct file of one end (fileclose() of file.c calls    *)
(* pipeclose() when the last reference goes).                              *)
(*                                                                         *)
(* Steps.  Between acquire(&p->lock) and release or sleep each byte is a   *)
(* step; `lock' is the process that holds p->lock.  sleep() releases the   *)
(* lock and goes to sleep in one step.  kill() does not take p->lock, so   *)
(* it may fall between the test of proc->killed and sleep().  The byte     *)
(* counters wrap around like uint, at WRAP.                                *)
(***************************************************************************)
EXTENDS Naturals, Sequences, FiniteSets

CONSTANTS Writers, Readers,  \* processes with the writing / the reading end
          Bytes,
          Sizes,             \* the n of write(fd, buf, n) and read(fd, buf, n)
          PIPESIZE,
          WRAP,              \* uint counts modulo this (2^32)
          None

\* What is known of the constants: PIPESIZE is a power of two below 2^32, so
\* the uint counters wrap around at a multiple of it.
PipeConstants == /\ PIPESIZE \in Nat \ {0}
                 /\ WRAP \in Nat /\ PIPESIZE < WRAP /\ WRAP % PIPESIZE = 0
                 /\ Sizes \subseteq Nat
                 /\ Bytes # {}
                 /\ Writers \intersect Readers = {}
                 /\ None \notin Writers \union Readers

Procs == Writers \union Readers

VARIABLES
  data, nread, nwrite, readopen, writeopen,   \* struct pipe
  lock,      \* the process that holds p->lock, or None
  pc, n, i,  \* per process: place, argument and loop counter of the call
  killed,    \* proc->killed
  fds,       \* the processes that hold a reference to their end
  freed      \* kfree((char*)p) has been called

ring == <<data, nread, nwrite>>
ends == <<readopen, writeopen, fds, freed>>
vars == <<data, nread, nwrite, readopen, writeopen, lock, pc, n, i, killed,
          fds, freed>>

Init == /\ data = [k \in 0 .. PIPESIZE - 1 |-> CHOOSE b \in Bytes : TRUE]
        /\ nread = 0
        /\ nwrite = 0
        /\ readopen = TRUE
        /\ writeopen = TRUE
        /\ lock = None
        /\ pc = [p \in Procs |-> "user"]
        /\ n = [p \in Procs |-> 0]
        /\ i = [p \in Procs |-> 0]
        /\ killed = [p \in Procs |-> FALSE]
        /\ fds = Procs
        /\ freed = FALSE

Full  == nwrite = (nread + PIPESIZE) % WRAP
Empty == nread = nwrite

\* wakeup(): the sleepers at the given place go on to reacquire p->lock.
Wake(pcs, from, to) == [p \in Procs |-> IF pcs[p] = from THEN to ELSE pcs[p]]

\* Mutant: the call of wakeup() is missing.
WakeNobody(pcs) == pcs

WakeReaders(pcs) == Wake(pcs, "read_asleep", "read")
WakeWriters(pcs) == Wake(pcs, "write_asleep", "write")

Goto(p, where) == pc' = [pc EXCEPT ![p] = where]
Holds(p, where) == lock = p /\ pc[p] = where

\* acquire(&p->lock), on entry and after sleep().
Acquire(p) ==
  /\ lock = None
  /\ \/ pc[p] = "write" /\ Goto(p, "writing")
     \/ pc[p] = "read"  /\ Goto(p, "reading")
     \/ pc[p] = "close" /\ Goto(p, "closing")
  /\ lock' = p
  /\ UNCHANGED <<ring, ends, n, i, killed>>

\* release(&p->lock) and return; the variables of the call are gone.
Leave(p, pcs) == /\ lock' = None
                 /\ pc' = [pcs EXCEPT ![p] = "user"]
                 /\ n' = [n EXCEPT ![p] = 0]
                 /\ i' = [i EXCEPT ![p] = 0]

\* sleep(chan, &p->lock)
SleepAt(p, pcs, where) == lock' = None /\ pc' = [pcs EXCEPT ![p] = where]

----------------------------------------------------------------------------
(* pipewrite()                                                             *)

WriteCall(p, k) ==
  /\ p \in Writers \intersect fds
  /\ pc[p] = "user"
  /\ ~killed[p]
  /\ Goto(p, "write")
  /\ n' = [n EXCEPT ![p] = k]
  /\ i' = [i EXCEPT ![p] = 0]
  /\ UNCHANGED <<ring, ends, lock, killed>>

\* Mutant: p->data[++p->nwrite % PIPESIZE] = addr[i]
WriteBytePreIncrement(p, b) ==
  /\ Holds(p, "writing")
  /\ i[p] < n[p]
  /\ ~Full
  /\ data' = [data EXCEPT ![(nwrite + 1) % PIPESIZE] = b]
  /\ nwrite' = (nwrite + 1) % WRAP
  /\ i' = [i EXCEPT ![p] = @ + 1]
  /\ UNCHANGED <<nread, ends, lock, pc, n, killed>>

\* p->data[p->nwrite++ % PIPESIZE] = addr[i]
WriteByte(p, b) ==
  /\ Holds(p, "writing")
  /\ i[p] < n[p]
  /\ ~Full
  /\ data' = [data EXCEPT ![nwrite % PIPESIZE] = b]
  /\ nwrite' = (nwrite + 1) % WRAP
  /\ i' = [i EXCEPT ![p] = @ + 1]
  /\ UNCHANGED <<nread, ends, lock, pc, n, killed>>

\* The pipe is full: give up, or decide to sleep.
WriteFull(p) ==
  /\ Holds(p, "writing")
  /\ i[p] < n[p]
  /\ Full
  /\ IF ~readopen \/ killed[p]
     THEN Leave(p, pc)
     ELSE Goto(p, "write_sleep") /\ UNCHANGED <<lock, n, i>>
  /\ UNCHANGED <<ring, ends, killed>>

WriteSleep(p) ==
  /\ Holds(p, "write_sleep")
  /\ SleepAt(p, WakeReaders(pc), "write_asleep")
  /\ UNCHANGED <<ring, ends, n, i, killed>>

WriteDone(p) ==
  /\ Holds(p, "writing")
  /\ i[p] = n[p]
  /\ Leave(p, WakeReaders(pc))
  /\ UNCHANGED <<ring, ends, killed>>

----------------------------------------------------------------------------
(* piperead()                                                              *)

ReadCall(p, k) ==
  /\ p \in Readers \intersect fds
  /\ pc[p] = "user"
  /\ ~killed[p]
  /\ Goto(p, "read")
  /\ n' = [n EXCEPT ![p] = k]
  /\ i' = [i EXCEPT ![p] = 0]
  /\ UNCHANGED <<ring, ends, lock, killed>>

\* Mutant: the writing end is not looked at.
ReadBlocksOnEmpty == Empty

\* The condition of the loop at pipe-empty.
ReadBlocks == Empty /\ writeopen

ReadEmpty(p) ==
  /\ Holds(p, "reading")
  /\ ReadBlocks
  /\ IF killed[p]
     THEN Leave(p, pc)
     ELSE Goto(p, "read_sleep") /\ UNCHANGED <<lock, n, i>>
  /\ UNCHANGED <<ring, ends, killed>>

ReadSleep(p) ==
  /\ Holds(p, "read_sleep")
  /\ SleepAt(p, pc, "read_asleep")
  /\ UNCHANGED <<ring, ends, n, i, killed>>

\* Mutant: a reader that has slept does not test again ("if" for "while").
ReadReadyUntested(p) ==
  /\ Holds(p, "reading")
  /\ Goto(p, "copying")
  /\ UNCHANGED <<ring, ends, lock, n, i, killed>>

ReadReady(p) ==
  /\ Holds(p, "reading")
  /\ ~ReadBlocks
  /\ Goto(p, "copying")
  /\ UNCHANGED <<ring, ends, lock, n, i, killed>>

\* addr[i] = p->data[p->nread++ % PIPESIZE]
ReadByte(p) ==
  /\ Holds(p, "copying")
  /\ i[p] < n[p]
  /\ ~Empty
  /\ nread' = (nread + 1) % WRAP
  /\ i' = [i EXCEPT ![p] = @ + 1]
  /\ UNCHANGED <<data, nwrite, ends, lock, pc, n, killed>>

ReadDone(p) ==
  /\ Holds(p, "copying")
  /\ i[p] = n[p] \/ Empty
  /\ Leave(p, WakeWriters(pc))
  /\ UNCHANGED <<ring, ends, killed>>

----------------------------------------------------------------------------
(* fileclose() and pipeclose()                                             *)

\* --f->ref under ftable.lock; the last reference goes on to pipeclose().
FileClose(p) ==
  /\ p \in fds
  /\ pc[p] = "user"
  /\ fds' = fds \ {p}
  /\ LET end == IF p \in Writers THEN Writers ELSE Readers IN
       IF fds' \intersect end = {} THEN Goto(p, "close") ELSE UNCHANGED pc
  /\ UNCHANGED <<ring, readopen, writeopen, freed, lock, n, i, killed>>

\* Mutant: the pipe is freed as soon as either end is closed.
EitherClosed(ro, wo) == ~ro \/ ~wo

BothClosed(ro, wo) == ~ro /\ ~wo

PipeClose(p) ==
  /\ Holds(p, "closing")
  /\ IF p \in Writers
     THEN /\ writeopen' = FALSE
          /\ Leave(p, WakeReaders(pc))
          /\ UNCHANGED readopen
     ELSE /\ readopen' = FALSE
          /\ Leave(p, WakeWriters(pc))
          /\ UNCHANGED writeopen
  /\ freed' = BothClosed(readopen', writeopen')
  /\ UNCHANGED <<ring, fds, killed>>

----------------------------------------------------------------------------
(* kill(p), from outside: marks the process and wakes it if it sleeps.     *)
(* What becomes of a process that is done with the pipe does not matter.   *)

Kill(p) ==
  /\ p \in fds \/ pc[p] # "user"
  /\ ~killed[p]
  /\ killed' = [killed EXCEPT ![p] = TRUE]
  /\ pc' = [pc EXCEPT ![p] = CASE @ = "write_asleep" -> "write"
                               [] @ = "read_asleep"  -> "read"
                               [] OTHER              -> @]
  /\ UNCHANGED <<ring, ends, lock, n, i>>

----------------------------------------------------------------------------

\* What a process does once it is inside a call.
Inside(p) ==
  \/ Acquire(p)
  \/ \E b \in Bytes : WriteByte(p, b)
  \/ WriteFull(p) \/ WriteSleep(p) \/ WriteDone(p)
  \/ ReadEmpty(p) \/ ReadSleep(p) \/ ReadReady(p) \/ ReadByte(p) \/ ReadDone(p)
  \/ PipeClose(p)

\* What a process in user space chooses to do (trap() lets a killed process
\* make no system call; exit() closes its files).
Calls(p) == \/ \E k \in Sizes : WriteCall(p, k) \/ ReadCall(p, k)
            \/ FileClose(p)

Next == \E p \in Procs : Inside(p) \/ Calls(p) \/ Kill(p)

Spec == Init /\ [][Next]_vars

\* A process inside a call is run, and one in user space goes on to use its
\* end or closes it (exit() closes it for a process that dies).
FairSpec == Spec /\ \A p \in Procs : WF_vars(Inside(p)) /\ WF_vars(Calls(p))

----------------------------------------------------------------------------
(* Properties                                                              *)

Used == (nwrite + WRAP - nread) % WRAP

Contents == [k \in 1 .. Used |-> data[(nread + k - 1) % PIPESIZE]]

\* Every field has its type, and the counters are never more than PIPESIZE
\* apart.
TypeOK ==
  /\ data \in [0 .. PIPESIZE - 1 -> Bytes]
  /\ nread \in 0 .. WRAP - 1
  /\ nwrite \in 0 .. WRAP - 1
  /\ readopen \in BOOLEAN /\ writeopen \in BOOLEAN /\ freed \in BOOLEAN
  /\ lock \in Procs \union {None}
  /\ pc \in [Procs -> {"user", "write", "writing", "write_sleep",
                       "write_asleep", "read", "reading", "read_sleep",
                       "read_asleep", "copying", "close", "closing"}]
  /\ n \in [Procs -> Sizes \union {0}]
  /\ i \in [Procs -> Nat]
  /\ killed \in [Procs -> BOOLEAN]
  /\ fds \subseteq Procs
  /\ Used <= PIPESIZE

\* A pipe is a stream of bytes: across the wrap-around of the indices and of
\* the counters nothing is lost, repeated, reordered or overwritten unread.
Stream == INSTANCE ByteStream WITH q <- Contents, Capacity <- PIPESIZE,
                                   ropen <- readopen, wopen <- writeopen

PipeIsStream == Stream!BSSpec

\* Nobody sleeps over something that has already happened: whenever p->lock
\* is free, a sleeping reader has nothing to read and may still get some,
\* and a sleeping writer has no room and may still get some.  The exception
\* is the return of pipewrite() for a killed writer, which wakes nobody for
\* the bytes it had written; the close that follows does (SleepersWake).
NoLostWakeup == lock = None /\ ~(\E p \in Writers : killed[p]) =>
  /\ (\E p \in Procs : pc[p] = "read_asleep") => Empty /\ writeopen
  /\ (\E p \in Procs : pc[p] = "write_asleep") => Full /\ readopen

\* The page of the pipe is freed only when no process is inside a call or can
\* start one, so neither pipewrite() nor piperead() ever touches freed memory.
NoUseAfterFree == freed =>
  /\ lock = None
  /\ \A p \in Procs : pc[p] = "user" /\ p \notin fds

PipeIsKept == TypeOK /\ NoUseAfterFree

\* read() returns 0 for a positive n, which means end of file, only when all
\* writers are gone, even if another reader took the bytes it was woken for.
NoFalseEOF ==
  [][\A p \in Readers : pc[p] = "copying" /\ pc'[p] = "user" /\ i[p] = 0 /\ n[p] > 0
       => ~writeopen]_vars

\* A sleeping writer or reader is woken, as long as the others keep using
\* their end or close it; this includes one that kill() reached between its
\* test of proc->killed and sleep(), and the readers of a killed writer.
SleepersWake == \A p \in Procs :
  pc[p] \in {"write_asleep", "read_asleep"}
    ~> pc[p] \notin {"write_asleep", "read_asleep"}

=============================================================================
