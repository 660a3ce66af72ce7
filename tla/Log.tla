-------------------------------- MODULE Log --------------------------------
(***************************************************************************)
(* The write-ahead log of log.c, the buffer cache as the log uses it, the  *)
(* disk, and crashes with the recovery of initlog().                       *)
(*                                                                         *)
(* Disk addresses are relative to log.start: 0 is the header block (the    *)
(* variable `head'), 1 .. NLOG-1 are the log blocks, and the blocks from   *)
(* NLOG on are the home blocks of the file system, which start right after *)
(* the log (mkfs.c, inodestart = 2+nlog).                                  *)
(*                                                                         *)
(* Steps.  A section under log.lock is one step.  Every bwrite() is a step *)
(* of its own and a crash may fall between any two steps.  Writing one     *)
(* block (one sector) is atomic.  log_write() is two steps because it      *)
(* tests lh.n before it takes log.lock.  A buffer is private to its holder *)
(* while B_BUSY, so reading, changing and testing belong to one step.      *)
(***************************************************************************)
EXTENDS Naturals, Sequences, FiniteSets

CONSTANTS Procs,        \* processes that run file-system system calls
          Vals,         \* contents of a block
          Zero,         \* what mkfs writes in every block
          NoBuf,        \* "no buffer holds this block"
          MAXOPBLOCKS,  \* param.h: blocks one operation may write
          OPWRITES,     \* distinct blocks an operation does write, at most
          LOGSIZE,      \* param.h: data blocks begin_op() hands out
          NLOG,         \* superblock nlog: log area on disk, header included
          NHOME         \* number of home blocks

ASSUME LogConstants == /\ MAXOPBLOCKS \in Nat \ {0}
                       /\ OPWRITES \in Nat
                       /\ LOGSIZE \in Nat
                       /\ NLOG \in Nat \ {0}
                       /\ NHOME \in Nat
                       /\ Zero \in Vals
                       /\ NoBuf \notin Vals
                       /\ IsFiniteSet(Procs)

Header == 0
Home   == NLOG .. (NLOG + NHOME - 1)
Blocks == 1 .. (NLOG + NHOME - 1)

VARIABLES
  outstanding, committing, lh,   \* struct log: lh is block[0 .. n-1]
  pc,        \* where each process is in begin_op/log_write/end_op
  hold,      \* the block whose buffer a process holds B_BUSY in log_write
  wrote,     \* the blocks the current operation of a process has logged
  tail,      \* loop index of write_log / install_trans, counted from 1
  cache,     \* data of the buffer that caches a block, or NoBuf
  dirty,     \* blocks whose buffer has B_DIRTY
  disk,      \* contents of the disk blocks
  head,      \* contents of the header block on disk: block[0 .. n-1]
  mode       \* "up", a stage of recover_from_log(), or "panic"

op     == <<pc, hold, wrote>>
mem    == <<outstanding, committing, lh>>
bufs   == <<cache, dirty>>
vars   == <<outstanding, committing, lh, pc, hold, wrote, tail, cache, dirty,
            disk, head, mode>>

Busy(b) == \E p \in Procs : hold[p] = b

\* bread(): the cached data, or what the disk holds.
Bread(a) == IF cache[a] = NoBuf THEN disk[a] ELSE cache[a]

\* memmove() into the buffer of block a, then bwrite(): on completion the
\* buffer is valid and clean.
Bwrite(a, v) == /\ disk' = [disk EXCEPT ![a] = v]
                /\ cache' = [cache EXCEPT ![a] = v]
                /\ dirty' = dirty \ {a}

\* bread() both blocks (waiting for B_BUSY), copy, bwrite() the second.
CopyBlock(from, to) == /\ ~Busy(from)
                       /\ ~Busy(to)
                       /\ Bwrite(to, Bread(from))

\* wakeup(&log)
Wakeup(pcs) == [q \in Procs |-> IF pcs[q] = "asleep" THEN "woken" ELSE pcs[q]]

Init == /\ outstanding = 0
        /\ committing = FALSE
        /\ lh = <<>>
        /\ pc = [p \in Procs |-> "idle"]
        /\ hold = [p \in Procs |-> Header]
        /\ wrote = [p \in Procs |-> {}]
        /\ tail = 1
        /\ cache = [a \in Blocks |-> NoBuf]
        /\ dirty = {}
        /\ disk = [a \in Blocks |-> Zero]
        /\ head = <<>>
        /\ mode = "read_head"

----------------------------------------------------------------------------
(* begin_op(), log_write() and end_op()                                    *)

\* Mutant: begin_op() forgets to count the operation that asks.
LogFullWithoutSelf == Len(lh) + outstanding * MAXOPBLOCKS > LOGSIZE

\* begin_op() lets an operation in only if the log can take it and every
\* outstanding operation at their full size.
LogFull == Len(lh) + (outstanding + 1) * MAXOPBLOCKS > LOGSIZE

\* Mutant: begin_op() does not wait for a commit in progress.
MustWaitForSpace == LogFull

MustWait == committing \/ LogFull

BeginOp(p) ==
  /\ mode = "up"
  /\ pc[p] \in {"idle", "woken"}
  /\ IF MustWait
     THEN /\ pc' = [pc EXCEPT ![p] = "asleep"]
          /\ UNCHANGED <<outstanding, wrote>>
     ELSE /\ pc' = [pc EXCEPT ![p] = "active"]
          /\ outstanding' = outstanding + 1
          /\ wrote' = [wrote EXCEPT ![p] = {}]
  /\ UNCHANGED <<committing, lh, hold, tail, bufs, disk, head, mode>>

\* The tests at the top of log_write(), made without log.lock.
LogWritePanics == \/ Len(lh) >= LOGSIZE
                  \/ Len(lh) >= NLOG - 1
                  \/ outstanding < 1

\* bread(b), change its data, and enter log_write().
Modify(p, b, v) ==
  /\ mode = "up"
  /\ pc[p] = "active"
  /\ ~Busy(b)
  /\ Cardinality(wrote[p] \union {b}) <= OPWRITES
  /\ cache' = [cache EXCEPT ![b] = v]
  /\ hold' = [hold EXCEPT ![p] = b]
  /\ IF LogWritePanics
     THEN mode' = "panic" /\ UNCHANGED pc
     ELSE pc' = [pc EXCEPT ![p] = "log_write"] /\ UNCHANGED mode
  /\ UNCHANGED <<mem, wrote, tail, dirty, disk, head>>

\* The section of log_write() under log.lock, and brelse().
LogWrite(p) ==
  /\ mode = "up"
  /\ pc[p] = "log_write"
  /\ LET b == hold[p] IN
       /\ lh' = IF \E i \in DOMAIN lh : lh[i] = b THEN lh ELSE Append(lh, b)
       /\ dirty' = dirty \union {b}
       /\ wrote' = [wrote EXCEPT ![p] = @ \union {b}]
  /\ hold' = [hold EXCEPT ![p] = Header]
  /\ pc' = [pc EXCEPT ![p] = "active"]
  /\ UNCHANGED <<outstanding, committing, tail, cache, disk, head, mode>>

\* end_op() up to commit().  An empty transaction has nothing to commit.
EndOp(p) ==
  /\ mode = "up"
  /\ pc[p] = "active"
  /\ outstanding' = outstanding - 1
  /\ IF committing
     THEN mode' = "panic" /\ UNCHANGED <<committing, pc, tail>>
     ELSE /\ IF outstanding' = 0
             THEN /\ committing' = TRUE
                  /\ pc' = [pc EXCEPT ![p] = IF lh = <<>> THEN "committed"
                                                          ELSE "write_log"]
                  /\ tail' = 1
             ELSE /\ pc' = [Wakeup(pc) EXCEPT ![p] = "idle"]
                  /\ UNCHANGED <<committing, tail>>
          /\ UNCHANGED mode
  /\ UNCHANGED <<lh, hold, wrote, bufs, disk, head>>

----------------------------------------------------------------------------
(* commit()                                                                *)

\* One round of write_log(): cache block lh[tail] to log block tail.
WriteLog(p) ==
  /\ mode = "up"
  /\ pc[p] = "write_log"
  /\ CopyBlock(lh[tail], tail)
  /\ IF tail < Len(lh)
     THEN tail' = tail + 1 /\ UNCHANGED pc
     ELSE tail' = 1 /\ pc' = [pc EXCEPT ![p] = "write_head"]
  /\ UNCHANGED <<mem, hold, wrote, head, mode>>

\* Mutant: commit() does not call install_trans().
WriteHeadOnly(p) ==
  /\ mode = "up"
  /\ pc[p] = "write_head"
  /\ head' = lh
  /\ pc' = [pc EXCEPT ![p] = "erase"]
  /\ UNCHANGED <<mem, hold, wrote, tail, bufs, disk, mode>>

\* write_head(): the commit point.
WriteHead(p) ==
  /\ mode = "up"
  /\ pc[p] = "write_head"
  /\ head' = lh
  /\ pc' = [pc EXCEPT ![p] = "install"]
  /\ UNCHANGED <<mem, hold, wrote, tail, bufs, disk, mode>>

\* One round of install_trans(): log block tail to its home block.
InstallBlock == CopyBlock(tail, lh[tail])

InstallTrans(p) ==
  /\ mode = "up"
  /\ pc[p] = "install"
  /\ InstallBlock
  /\ IF tail < Len(lh)
     THEN tail' = tail + 1 /\ UNCHANGED pc
     ELSE tail' = 1 /\ pc' = [pc EXCEPT ![p] = "erase"]
  /\ UNCHANGED <<mem, hold, wrote, head, mode>>

\* lh.n = 0; write_head(): erase the transaction from the log.
EraseHead(p) ==
  /\ mode = "up"
  /\ pc[p] = "erase"
  /\ lh' = <<>>
  /\ head' = <<>>
  /\ pc' = [pc EXCEPT ![p] = "committed"]
  /\ UNCHANGED <<outstanding, committing, hold, wrote, tail, bufs, disk, mode>>

\* Mutant: end_op() does not call wakeup() after the commit.
EndCommitSilent(p) ==
  /\ mode = "up"
  /\ pc[p] = "committed"
  /\ committing' = FALSE
  /\ pc' = [pc EXCEPT ![p] = "idle"]
  /\ UNCHANGED <<outstanding, lh, hold, wrote, tail, bufs, disk, head, mode>>

\* The end of end_op(), after commit().
EndCommit(p) ==
  /\ mode = "up"
  /\ pc[p] = "committed"
  /\ committing' = FALSE
  /\ pc' = [Wakeup(pc) EXCEPT ![p] = "idle"]
  /\ UNCHANGED <<outstanding, lh, hold, wrote, tail, bufs, disk, head, mode>>

----------------------------------------------------------------------------
(* The buffer cache beside the log: bget() recycles any buffer that is     *)
(* neither B_BUSY nor B_DIRTY, readers bring blocks in.                    *)

Recycle(a) ==
  /\ mode = "up"
  /\ cache[a] # NoBuf
  /\ a \notin dirty
  /\ ~Busy(a)
  /\ cache' = [cache EXCEPT ![a] = NoBuf]
  /\ UNCHANGED <<mem, op, tail, dirty, disk, head, mode>>

ReadBlock(b) ==
  /\ mode = "up"
  /\ cache[b] = NoBuf
  /\ cache' = [cache EXCEPT ![b] = disk[b]]
  /\ UNCHANGED <<mem, op, tail, dirty, disk, head, mode>>

----------------------------------------------------------------------------
(* Crash, and recover_from_log() at the next boot                          *)

CrashReboot ==
  /\ mode' = "read_head"
  /\ outstanding' = 0
  /\ committing' = FALSE
  /\ lh' = <<>>
  /\ pc' = [p \in Procs |-> "idle"]
  /\ hold' = [p \in Procs |-> Header]
  /\ wrote' = [p \in Procs |-> {}]
  /\ tail' = 1
  /\ cache' = [a \in Blocks |-> NoBuf]
  /\ dirty' = {}
  /\ UNCHANGED <<disk, head>>

\* Mutant: recovery erases the log without installing it.
ReadHeadOnly ==
  /\ mode = "read_head"
  /\ lh' = head
  /\ mode' = "erase"
  /\ UNCHANGED <<outstanding, committing, op, tail, bufs, disk, head>>

ReadHead ==
  /\ mode = "read_head"
  /\ lh' = head
  /\ mode' = IF head = <<>> THEN "erase" ELSE "install"
  /\ UNCHANGED <<outstanding, committing, op, tail, bufs, disk, head>>

RecoverInstall ==
  /\ mode = "install"
  /\ InstallBlock
  /\ IF tail < Len(lh)
     THEN tail' = tail + 1 /\ UNCHANGED mode
     ELSE tail' = 1 /\ mode' = "erase"
  /\ UNCHANGED <<mem, op, head>>

RecoverErase ==
  /\ mode = "erase"
  /\ lh' = <<>>
  /\ head' = <<>>
  /\ mode' = "up"
  /\ UNCHANGED <<outstanding, committing, op, tail, bufs, disk>>

----------------------------------------------------------------------------

CommitStep(p) == \/ WriteLog(p) \/ WriteHead(p) \/ InstallTrans(p)
                 \/ EraseHead(p) \/ EndCommit(p)

Recover == ReadHead \/ RecoverInstall \/ RecoverErase

Next == \/ \E p \in Procs : BeginOp(p) \/ LogWrite(p) \/ EndOp(p)
                             \/ CommitStep(p)
        \/ \E p \in Procs, b \in Home, v \in Vals : Modify(p, b, v)
        \/ \E a \in Blocks : Recycle(a)
        \/ \E b \in Home : ReadBlock(b)
        \/ CrashReboot
        \/ Recover

Spec == Init /\ [][Next]_vars

\* A kernel thread that can run is run, and every system call ends: it logs
\* a finite number of blocks between begin_op() and end_op().
Fairness == /\ WF_vars(Recover)
            /\ \A p \in Procs : /\ WF_vars(pc[p] = "woken" /\ BeginOp(p))
                                /\ WF_vars(LogWrite(p))
                                /\ SF_vars(EndOp(p))
                                /\ WF_vars(CommitStep(p))

FairSpec == Spec /\ Fairness

----------------------------------------------------------------------------
(* Properties                                                              *)

Active     == {p \in Procs : pc[p] \in {"active", "log_write"}}
Committers == {p \in Procs : pc[p] \in {"write_log", "write_head", "install",
                                        "erase", "committed"}}

\* The disk as recover_from_log() would leave it if the machine stopped now.
Recovered ==
  [b \in Home |-> IF \E i \in DOMAIN head : head[i] = b
                  THEN disk[CHOOSE i \in DOMAIN head : head[i] = b]
                  ELSE disk[b]]

\* What the file system sees.
View == IF mode = "up" THEN [b \in Home |-> Bread(b)] ELSE Recovered

\* Every variable of struct log, the cache and the disk has its type, and no
\* buffer with B_DIRTY is missing from the cache.
TypeOK ==
  /\ outstanding \in Nat
  /\ committing \in BOOLEAN
  /\ lh \in Seq(Home)
  /\ pc \in [Procs -> {"idle", "asleep", "woken", "active", "log_write",
                       "write_log", "write_head", "install", "erase",
                       "committed"}]
  /\ hold \in [Procs -> Home \union {Header}]
  /\ wrote \in [Procs -> SUBSET Home]
  /\ tail \in Nat \ {0}
  /\ cache \in [Blocks -> Vals \union {NoBuf}]
  /\ dirty \subseteq {a \in Blocks : cache[a] # NoBuf}
  /\ disk \in [Blocks -> Vals]
  /\ head \in Seq(Home)
  /\ mode \in {"up", "read_head", "install", "erase", "panic"}

\* The transaction never outgrows the log area on disk, so that write_log()
\* never writes past it into the file system (the reservation of begin_op()
\* and the test of log_write() exist for this).
LogFits == Len(lh) <= NLOG - 1

\* No panic() of log.c is reached: "too big a transaction", "log_write
\* outside of trans", "log.committing".
NoPanic == mode # "panic"

\* When the last end_op() has returned and nothing runs, everything the
\* operations wrote survives a crash.
QuiescentDurable ==
  (mode = "up" /\ outstanding = 0 /\ ~committing) => View = Recovered

\* The log implements AtomicDisk: at any point a crash followed by recovery,
\* itself interrupted any number of times, leaves the disk as it was at some
\* moment at which no operation was in progress.
AD == INSTANCE AtomicDisk WITH view <- View, stable <- Recovered,
                               open <- IF mode = "up" THEN Active ELSE {}

CrashAtomic == AD!ADSpec

\* A process asleep in begin_op() is woken (or the machine reboots).
SleepersWake == \A p \in Procs : pc[p] = "asleep" ~> pc[p] # "asleep"

=============================================================================
