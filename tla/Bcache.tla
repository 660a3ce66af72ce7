------------------------------- MODULE Bcache -------------------------------
(***************************************************************************)
(* The buffer cache of bio.c with its fixed pool of buffers and its MRU    *)
(* list, and the request queue of ide.c below it.                          *)
(*                                                                         *)
(* Steps.  What runs under bcache.lock or under idelock is one step.  The  *)
(* drive is outside: it takes a command from idestart(), carries it out    *)
(* some time later and raises an interrupt.  Processes use the cache as    *)
(* log.c does: bread(), then change the block and either bwrite() it or    *)
(* leave it B_DIRTY in the cache, then brelse().                           *)
(*                                                                         *)
(* Data.  A copy of a block is either what was stored in the block last    *)
(* ("last"), something older ("old"), or what a failed read left ("bad").  *)
(***************************************************************************)
EXTENDS Naturals, Sequences, FiniteSets

CONSTANTS Users, Bufs, Blocknos,
          MaxPinned,   \* bound: buffers the log keeps B_DIRTY at a time
          None

VARIABLES
  buf,       \* per buffer: blockno, the flags B_BUSY, B_VALID, B_DIRTY, data
  mru,       \* the list from bcache.head.next to bcache.head.prev
  idequeue,
  drive,     \* the command idestart() gave to the drive, or None
  disk,
  pc, b,     \* per process: place, and the buffer it holds or sleeps on
  want,      \* per process: the blockno of its bread()
  oops       \* panic() was called

\* A command to the drive.
Commands == [blockno : Blocknos, write : BOOLEAN, data : {"last", "old", "bad"},
             state : {"started", "done", "error"}]

\* None is nothing else, and there are as many buffers as the log may pin and
\* the processes may hold together.
ASSUME BcacheConstants ==
  /\ None \notin Blocknos \union Bufs \union Commands
  /\ MaxPinned \in Nat
  /\ IsFiniteSet(Users) /\ IsFiniteSet(Bufs)
  /\ Cardinality(Bufs) >= Cardinality(Users) + MaxPinned

vars == <<buf, mru, idequeue, drive, disk, pc, b, want, oops>>

\* The ways to line up the buffers.
Orders == {s \in [1 .. Cardinality(Bufs) -> Bufs] :
             \A x \in Bufs : \E i \in DOMAIN s : s[i] = x}

\* A list with one of its buffers moved to the front.
ToFront(s, x) == LET at == CHOOSE i \in DOMAIN s : s[i] = x IN
                 [i \in DOMAIN s |-> IF i = 1 THEN x ELSE s[IF i <= at THEN i - 1 ELSE i]]

Init == \* binit(): no block is cached
  /\ buf = [x \in Bufs |-> [blockno |-> None, busy |-> FALSE, valid |-> FALSE,
                            dirty |-> FALSE, data |-> "old"]]
  /\ mru \in Orders
  /\ idequeue = <<>>
  /\ drive = None
  /\ disk = [k \in Blocknos |-> "last"]
  /\ pc = [p \in Users |-> "user"]
  /\ b = [p \in Users |-> None]
  /\ want = [p \in Users |-> None]
  /\ oops = FALSE

Goto(p, where) == pc' = [pc EXCEPT ![p] = where]

\* wakeup(x): the sleepers in bget() and in iderw() use the same channel.
Wakeup(pcs, x) ==
  [p \in Users |-> CASE b[p] = x /\ pcs[p] = "bget_asleep"  -> "bget"
                     [] b[p] = x /\ pcs[p] = "iderw_asleep" -> "iderw"
                     [] OTHER                               -> pcs[p]]

----------------------------------------------------------------------------
(* ide.c                                                                   *)

\* The command for a buffer; a write carries the data.
idestart(bufs, x) == [blockno |-> bufs[x].blockno, write |-> bufs[x].dirty,
                      data |-> bufs[x].data, state |-> "started"]

\* iderw(): queue the buffer, start the drive if it is idle, and sleep.
iderw(p, bufs) ==
  /\ idequeue' = Append(idequeue, b[p])
  /\ drive' = IF idequeue = <<>> THEN idestart(bufs, b[p]) ELSE drive
  /\ Goto(p, "iderw_asleep")

\* The loop of iderw(), entered again after sleep().
IderwTest(p) ==
  /\ pc[p] = "iderw"
  /\ Goto(p, IF buf[b[p]].valid /\ ~buf[b[p]].dirty THEN "held"
                                                    ELSE "iderw_asleep")
  /\ UNCHANGED <<buf, mru, idequeue, drive, disk, b, want, oops>>

\* The drive carries out its command, or a read fails.
DriveDone ==
  /\ drive # None /\ drive.state = "started"
  /\ \/ /\ drive.write
        /\ disk' = [disk EXCEPT ![drive.blockno] = drive.data]
        /\ drive' = [drive EXCEPT !.state = "done"]
     \/ /\ ~drive.write
        /\ drive' = [drive EXCEPT !.state = "done", !.data = disk[drive.blockno]]
        /\ UNCHANGED disk
     \/ /\ ~drive.write
        /\ drive' = [drive EXCEPT !.state = "error"]
        /\ UNCHANGED disk
  /\ UNCHANGED <<buf, mru, idequeue, pc, b, want, oops>>

ideintr ==
  /\ drive # None /\ drive.state # "started"
  /\ LET x == Head(idequeue)
         data == IF buf[x].dirty THEN buf[x].data
                 ELSE IF drive.state = "done" THEN drive.data ELSE "bad" IN
       /\ buf' = [buf EXCEPT ![x] = [@ EXCEPT !.valid = TRUE, !.dirty = FALSE, !.data = data]]
       /\ pc' = Wakeup(pc, x)
  /\ idequeue' = Tail(idequeue)
  /\ drive' = IF idequeue' = <<>> THEN None ELSE idestart(buf', Head(idequeue'))
  /\ UNCHANGED <<mru, disk, b, want, oops>>

----------------------------------------------------------------------------
(* bio.c                                                                   *)

BreadCall(p, k) ==
  /\ pc[p] = "user"
  /\ Goto(p, "bget")
  /\ want' = [want EXCEPT ![p] = k]
  /\ UNCHANGED <<buf, mru, idequeue, drive, disk, b, oops>>

\* bget(): the block is cached.  A busy buffer is waited for, and the search
\* starts again.
BgetCached(p) ==
  /\ pc[p] = "bget"
  /\ \E x \in Bufs :
       /\ buf[x].blockno = want[p]
       /\ b' = [b EXCEPT ![p] = x]
       /\ IF buf[x].busy
          THEN Goto(p, "bget_asleep") /\ UNCHANGED buf
          ELSE Goto(p, "bread") /\ buf' = [buf EXCEPT ![x].busy = TRUE]
  /\ UNCHANGED <<mru, idequeue, drive, disk, want, oops>>

\* Mutant: a buffer whose changes are not on disk yet is recycled.
RecyclableDirty(x) == ~buf[x].busy

\* Mutant: only the buffer that was released longest ago is looked at.
RecyclableLast(x) == ~buf[x].busy /\ ~buf[x].dirty /\ x = mru[Len(mru)]

Recyclable(x) == ~buf[x].busy /\ ~buf[x].dirty

\* bget(): recycle the buffer that was released longest ago, or panic.
BgetRecycle(p) ==
  /\ pc[p] = "bget"
  /\ \A x \in Bufs : buf[x].blockno # want[p]
  /\ LET free == {i \in DOMAIN mru : Recyclable(mru[i])} IN
       IF free = {}
       THEN oops' = TRUE /\ UNCHANGED <<buf, b, pc>>
       ELSE \E i \in free :
            /\ \A j \in free : j <= i
            /\ buf' = [buf EXCEPT ![mru[i]] = [@ EXCEPT !.blockno = want[p], !.busy = TRUE,
                                                        !.valid = FALSE, !.dirty = FALSE]]
            /\ b' = [b EXCEPT ![p] = mru[i]]
            /\ Goto(p, "bread")
            /\ UNCHANGED oops
  /\ UNCHANGED <<mru, idequeue, drive, disk, want>>

\* bread(): read the block unless the cache has it.
Bread(p) ==
  /\ pc[p] = "bread"
  /\ IF buf[b[p]].valid THEN Goto(p, "held") /\ UNCHANGED <<idequeue, drive>>
                        ELSE iderw(p, buf)
  /\ UNCHANGED <<buf, mru, disk, b, want, oops>>

\* The holder stores something new in the block.
Store(p) == /\ buf' = [buf EXCEPT ![b[p]] = [@ EXCEPT !.data = "last", !.dirty = TRUE]]
            /\ disk' = [disk EXCEPT ![want[p]] = "old"]

\* bwrite(): write_log() stores a copy and writes it, install_trans() writes
\* what log_write() stored.
Bwrite(p) ==
  /\ pc[p] = "held"
  /\ IF buf[b[p]].dirty THEN UNCHANGED <<buf, disk>> ELSE Store(p)
  /\ iderw(p, buf')
  /\ UNCHANGED <<mru, b, want, oops>>

Queued == {idequeue[i] : i \in DOMAIN idequeue}

Pinned == {x \in Bufs : buf[x].dirty /\ x \notin Queued}

\* log_write(): B_DIRTY keeps the changed block in the cache.
LogWrite(p) ==
  /\ pc[p] = "held"
  /\ buf[b[p]].dirty \/ Cardinality(Pinned) < MaxPinned
  /\ Store(p)
  /\ Goto(p, "release")
  /\ UNCHANGED <<mru, idequeue, drive, b, want, oops>>

\* Mutant: the sleepers in bget() are not woken.
WakeupNobody(pcs, x) == pcs

WakeupBget(pcs, x) == Wakeup(pcs, x)

brelse(p) ==
  /\ pc[p] \in {"held", "release"}
  /\ mru' = ToFront(mru, b[p])
  /\ buf' = [buf EXCEPT ![b[p]].busy = FALSE]
  /\ pc' = [WakeupBget(pc, b[p]) EXCEPT ![p] = "user"]
  /\ b' = [b EXCEPT ![p] = None]
  /\ want' = [want EXCEPT ![p] = None]
  /\ UNCHANGED <<idequeue, drive, disk, oops>>

----------------------------------------------------------------------------

\* What a process does once it has asked for a block.
Step(p) == \/ BgetCached(p) \/ BgetRecycle(p) \/ Bread(p) \/ IderwTest(p)
           \/ brelse(p)

Next == \/ \E p \in Users : \/ Step(p)
                            \/ \E k \in Blocknos : BreadCall(p, k)
                            \/ Bwrite(p) \/ LogWrite(p)
        \/ DriveDone
        \/ ideintr

Spec == Init /\ [][Next]_vars

----------------------------------------------------------------------------
(* Properties                                                              *)

Holds(p) == pc[p] \in {"bread", "iderw_asleep", "iderw", "held", "release"}

\* Two processes never hold one buffer, two buffers never hold one block, and
\* B_BUSY is set exactly while somebody holds the buffer: the search, the
\* sleep on a busy buffer and the new search never let two pass.
OneCopyOneHolder ==
  /\ \A x, y \in Bufs : buf[x].blockno = buf[y].blockno => x = y \/ buf[x].blockno = None
  /\ \A p, q \in Users : Holds(p) /\ Holds(q) /\ b[p] = b[q] => p = q
  /\ \A x \in Bufs : buf[x].busy <=> \E p \in Users : Holds(p) /\ b[p] = x

\* bread() returns what was stored in the block last, through the cache or
\* through the disk, whatever was recycled in between; unless the drive
\* reported an error, which ideintr() marks B_VALID all the same.
ReadsLastStore ==
  \A p \in Users : pc[p] = "held" => /\ buf[b[p]].blockno = want[p]
                                     /\ buf[b[p]].data # "old"

\* The cache as its users see it.
CacheIsCoherent == OneCopyOneHolder /\ ReadsLastStore

\* With one buffer more than the log pins and the processes hold, bget()
\* always finds one and never panics.
PoolSuffices == ~oops

\* Every sleeper has somebody to wake it: its request is queued and the drive
\* works on the head of the queue, or the buffer it waits for is held.
SleeperHasWaker ==
  /\ \A p \in Users : pc[p] = "iderw_asleep" => b[p] \in Queued
  /\ \A p \in Users : pc[p] = "bget_asleep" => buf[b[p]].busy
  /\ idequeue = <<>> <=> drive = None
=============================================================================
