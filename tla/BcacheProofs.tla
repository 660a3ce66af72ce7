---------------------------- MODULE BcacheProofs ----------------------------
(***************************************************************************)
(* The buffer cache and the disk queue, for any number of processes,       *)
(* buffers and blocks: bread() returns what was stored last, sleepers have *)
(* somebody to wake them, and a pool of one buffer per process and per     *)
(* pinned block suffices.                                                  *)
(*                                                                         *)
(* None of this is inductive.  Whether a read returns the last store       *)
(* depends on where that store is: in a dirty buffer, on its way to the    *)
(* drive, or on the disk (Stored, InFlight); and that depends on the queue *)
(* holding exactly the buffers of the processes that sleep in iderw().     *)
(***************************************************************************)
EXTENDS Bcache, TLAPS

Buffers == [blockno : Blocknos \union {None}, busy : BOOLEAN, valid : BOOLEAN,
            dirty : BOOLEAN, data : {"last", "old", "bad"}]

Places == {"user", "bget", "bget_asleep", "bread", "iderw_asleep", "iderw", "held", "release"}

TypeOK ==
  /\ buf \in [Bufs -> Buffers]
  /\ mru \in Seq(Bufs) /\ \A x \in Bufs : \E i \in DOMAIN mru : mru[i] = x
  /\ idequeue \in Seq(Bufs)
  /\ drive \in Commands \union {None}
  /\ disk \in [Blocknos -> {"last", "old"}]
  /\ pc \in [Users -> Places]
  /\ b \in [Users -> Bufs \union {None}]
  /\ want \in [Users -> Blocknos \union {None}]

\* What a process in bread(), bwrite() or brelse() knows of its buffer.
HeldBy(p) ==
  /\ pc[p] # "user" => want[p] \in Blocknos
  /\ Holds(p) => b[p] \in Bufs /\ buf[b[p]].blockno = want[p]
  /\ pc[p] \in {"iderw", "held", "release"} => buf[b[p]].valid
  /\ pc[p] = "iderw" => ~buf[b[p]].dirty

Held == \A p \in Users : HeldBy(p)

\* A sleeper in bget() waits for a buffer that somebody holds.
Waiting == \A p \in Users : pc[p] = "bget_asleep" => b[p] \in Bufs /\ buf[b[p]].busy

\* idequeue holds the buffers of the processes that sleep in iderw(), each once.
Lined ==
  /\ \A i, j \in 1 .. Len(idequeue) : idequeue[i] = idequeue[j] => i = j
  /\ \A i \in 1 .. Len(idequeue) :
       \E p \in Users : pc[p] = "iderw_asleep" /\ b[p] = idequeue[i]
  /\ \A p \in Users : pc[p] = "iderw_asleep" =>
       \E i \in 1 .. Len(idequeue) : idequeue[i] = b[p]

\* The last store to a block is on the disk or in a dirty buffer.
Stored ==
  /\ \A x \in Bufs : buf[x].valid => buf[x].data # "old"
  /\ \A x \in Bufs : buf[x].dirty => buf[x].valid /\ buf[x].data = "last"
  /\ \A k \in Blocknos : disk[k] = "old" =>
       \E x \in Bufs : buf[x].blockno = k /\ buf[x].dirty

\* The drive works on the head of the queue: it writes what a dirty buffer
\* holds, and a read brings what was stored last.
InFlight ==
  /\ idequeue = <<>> <=> drive = None
  /\ drive # None =>
       /\ drive.blockno = buf[Head(idequeue)].blockno
       /\ drive.write = buf[Head(idequeue)].dirty
       /\ drive.write => drive.data = "last" /\ drive.state # "error"
       /\ drive.write /\ drive.state = "done" => disk[drive.blockno] = "last"
       /\ ~drive.write /\ drive.state = "done" => drive.data = "last"

\* The inductive invariant, but for the counting of pinned buffers.
IInv == TypeOK /\ OneCopyOneHolder /\ Held /\ Waiting /\ Lined /\ Stored /\ InFlight

\* What the log pins is bounded.
PinnedFew == Cardinality(Pinned) <= MaxPinned

----------------------------------------------------------------------------
(* The pieces                                                              *)

\* The holder of a buffer that is not asleep in iderw() has it not queued.
LEMMA NotQueued ==
  ASSUME IInv, NEW p \in Users, Holds(p), pc[p] # "iderw_asleep"
  PROVE  \A i \in 1 .. Len(idequeue) : idequeue[i] # b[p]
<1>1. ASSUME NEW i \in 1 .. Len(idequeue), idequeue[i] = b[p] PROVE FALSE
  <2>1. PICK q \in Users : pc[q] = "iderw_asleep" /\ b[q] = idequeue[i]
    BY Zenon DEF IInv, Lined
  <2>2. Holds(q)
    BY <2>1, Zenon DEF Holds
  <2> QED
    BY <1>1, <2>1, <2>2, Zenon DEF IInv, OneCopyOneHolder
<1> QED
  BY <1>1, Zenon

\* What is queued is held, by a process asleep in iderw().
LEMMA HeadHeld ==
  ASSUME IInv, idequeue # <<>>
  PROVE  /\ Head(idequeue) \in Bufs /\ Head(idequeue) = idequeue[1]
         /\ 1 \in 1 .. Len(idequeue)
         /\ buf[Head(idequeue)].blockno \in Blocknos
         /\ \E p \in Users : pc[p] = "iderw_asleep" /\ b[p] = Head(idequeue)
<1>1. idequeue \in Seq(Bufs)
  BY Zenon DEF IInv, TypeOK
<1>2. /\ Head(idequeue) \in Bufs /\ Head(idequeue) = idequeue[1]
      /\ 1 \in 1 .. Len(idequeue)
  BY <1>1
<1>3. PICK p \in Users : pc[p] = "iderw_asleep" /\ b[p] = idequeue[1]
  BY <1>2, Zenon DEF IInv, Lined
<1>4. Holds(p) /\ pc[p] # "user"
  BY <1>3, Zenon DEF Holds
<1>5. buf[b[p]].blockno = want[p] /\ want[p] \in Blocknos
  BY <1>4, Zenon DEF IInv, Held, HeldBy
<1> QED
  BY <1>2, <1>3, <1>5, Zenon

\* A call of bread().
LEMMA BreadCallInv ==
  ASSUME IInv, NEW p \in Users, NEW k \in Blocknos, BreadCall(p, k)
  PROVE  IInv'
<1>1. /\ pc[p] = "user" /\ pc' = [pc EXCEPT ![p] = "bget"] /\ want' = [want EXCEPT ![p] = k]
      /\ UNCHANGED <<buf, mru, idequeue, drive, disk, b, oops>>
  BY Zenon DEF BreadCall, Goto
<1>2. pc \in [Users -> Places] /\ want \in [Users -> Blocknos \union {None}]
  BY Zenon DEF IInv, TypeOK
<1>3. /\ pc'[p] = "bget" /\ want'[p] = k
      /\ \A q \in Users : q # p => pc'[q] = pc[q] /\ want'[q] = want[q]
  BY <1>1, <1>2, Zenon
<1>4. \A q \in Users : Holds(q)' <=> Holds(q)
  BY <1>1, <1>3, Zenon DEF Holds
<1>5. \A q \in Users : Holds(q) \/ pc'[q] \in {"bget_asleep", "iderw_asleep"} => q # p
  BY <1>1, <1>3, Zenon DEF Holds
<1>6. pc' \in [Users -> Places] /\ want' \in [Users -> Blocknos \union {None}]
  BY <1>1, <1>2, SMT DEF Places
<1>7. TypeOK'
  BY <1>1, <1>6, Zenon DEF IInv, TypeOK
<1>8. OneCopyOneHolder'
  BY <1>1, <1>4, Zenon DEF IInv, OneCopyOneHolder
<1>9. Held'
  BY <1>1, <1>3, <1>4, <1>5, ZenonT(40) DEF IInv, Held, HeldBy
<1>10. Waiting'
  BY <1>1, <1>5, <1>3, Zenon DEF IInv, Waiting
<1>12. Lined'
  <2>1. \A q \in Users : pc'[q] = "iderw_asleep" <=> pc[q] = "iderw_asleep"
    BY <1>1, <1>3, Zenon
  <2> QED
    BY <1>1, <2>1, ZenonT(40) DEF IInv, Lined
<1>11. Stored' /\ InFlight'
  BY <1>1, Zenon DEF IInv, Stored, InFlight
<1> QED
  BY <1>7, <1>8, <1>9, <1>10, <1>11, <1>12, Zenon DEF IInv

\* The queue stays as it is while the same processes sleep in iderw().
LEMMA SameLine ==
  ASSUME Lined, UNCHANGED idequeue,
         \A q \in Users : pc'[q] = "iderw_asleep" <=> pc[q] = "iderw_asleep",
         \A q \in Users : pc[q] = "iderw_asleep" => b'[q] = b[q]
  PROVE  Lined'
<1>1. \A i \in 1 .. Len(idequeue) :
        \E q \in Users : pc'[q] = "iderw_asleep" /\ b'[q] = idequeue[i]
  BY DEF Lined
<1>2. \A q \in Users : pc'[q] = "iderw_asleep" =>
        \E i \in 1 .. Len(idequeue) : idequeue[i] = b'[q]
  BY DEF Lined
<1> QED
  BY <1>1, <1>2, ZenonT(40) DEF Lined

\* The command of the drive stays right while its buffer does.
LEMMA SameFlight ==
  ASSUME IInv, UNCHANGED <<idequeue, drive, disk>>,
         \A i \in 1 .. Len(idequeue) : /\ buf'[idequeue[i]].blockno = buf[idequeue[i]].blockno
                                       /\ buf'[idequeue[i]].dirty = buf[idequeue[i]].dirty
  PROVE  InFlight'
<1>1. idequeue # <<>> => /\ buf'[Head(idequeue)].blockno = buf[Head(idequeue)].blockno
                         /\ buf'[Head(idequeue)].dirty = buf[Head(idequeue)].dirty
  BY HeadHeld, Zenon
<1>2. InFlight
  BY Zenon DEF IInv
<1> QED
  BY <1>1, <1>2, Zenon DEF InFlight

\* The loop of iderw() ends when it is entered again after sleep().
LEMMA IderwTestInv ==
  ASSUME IInv, NEW p \in Users, IderwTest(p)
  PROVE  IInv'
<1>1. /\ pc[p] = "iderw" /\ UNCHANGED <<buf, mru, idequeue, drive, disk, b, want, oops>>
  BY Zenon DEF IderwTest
<1>2. b[p] \in Bufs /\ buf[b[p]].valid /\ ~buf[b[p]].dirty /\ pc \in [Users -> Places]
  BY <1>1, Zenon DEF IInv, TypeOK, Held, HeldBy, Holds
<1>3. pc' = [pc EXCEPT ![p] = "held"]
  BY <1>2, Zenon DEF IderwTest, Goto
<1>4. pc'[p] = "held" /\ \A q \in Users : q # p => pc'[q] = pc[q]
  BY <1>2, <1>3, Zenon
<1>5. \A q \in Users : Holds(q)' <=> Holds(q)
  BY <1>1, <1>4, Zenon DEF Holds
<1>6. pc' \in [Users -> Places]
  BY <1>2, <1>3, SMT DEF Places
<1>7. TypeOK'
  BY <1>1, <1>6, Zenon DEF IInv, TypeOK
<1>8. OneCopyOneHolder'
  BY <1>1, <1>5, Zenon DEF IInv, OneCopyOneHolder
<1>9. Held'
  BY <1>1, <1>2, <1>4, <1>5, Zenon DEF IInv, Held, HeldBy
<1>10. Waiting' /\ Stored' /\ InFlight'
  BY <1>1, <1>4, Zenon DEF IInv, Waiting, Stored, InFlight
<1>11. Lined'
  BY <1>1, <1>4, SameLine, Zenon DEF IInv
<1> QED
  BY <1>7, <1>8, <1>9, <1>10, <1>11, Zenon DEF IInv

\* The drive carries out a command: a write stores what the dirty buffer
\* holds, a read finds the last store, for no dirty buffer has the block.
LEMMA DriveDoneInv ==
  ASSUME IInv, DriveDone
  PROVE  IInv'
<1>1. /\ drive # None /\ drive.state = "started"
      /\ UNCHANGED <<buf, mru, idequeue, pc, b, want, oops>>
  BY Zenon DEF DriveDone
<1>2. /\ drive \in Commands /\ disk \in [Blocknos -> {"last", "old"}]
      /\ idequeue # <<>> /\ InFlight
  BY <1>1, Zenon DEF IInv, TypeOK, InFlight
<1> DEFINE k == drive.blockno
           x == Head(idequeue)
<1>3. /\ x \in Bufs /\ k \in Blocknos /\ buf[x].blockno = k /\ drive.write = buf[x].dirty
  BY <1>1, <1>2, HeadHeld, Zenon DEF InFlight
<1>4. ASSUME drive.write,
             disk' = [disk EXCEPT ![k] = drive.data],
             drive' = [drive EXCEPT !.state = "done"]
      PROVE  TypeOK' /\ Stored' /\ InFlight'
  <2>1. drive.data = "last"
    BY <1>1, <1>2, <1>4, Zenon DEF InFlight
  <2>2. disk' \in [Blocknos -> {"last", "old"}] /\ disk'[k] = "last"
        /\ \A l \in Blocknos : l # k => disk'[l] = disk[l]
    BY <1>2, <1>3, <1>4, <2>1, Zenon
  <2>3. /\ drive' \in Commands /\ drive'.blockno = k /\ drive'.write
        /\ drive'.data = "last" /\ drive'.state = "done"
    BY <1>2, <1>4, <2>1 DEF Commands
  <2>4. Stored'
    BY <1>1, <2>2, Zenon DEF IInv, Stored
  <2>5. InFlight'
    BY <1>1, <1>2, <1>3, <1>4, <2>2, <2>3, BcacheConstants, Zenon DEF InFlight
  <2>6. TypeOK'
    BY <1>1, <2>2, <2>3, Zenon DEF IInv, TypeOK
  <2> QED
    BY <2>4, <2>5, <2>6, Zenon
<1>5. ASSUME ~drive.write, UNCHANGED disk,
             \/ drive' = [drive EXCEPT !.state = "done", !.data = disk[k]]
             \/ drive' = [drive EXCEPT !.state = "error"]
      PROVE  TypeOK' /\ Stored' /\ InFlight'
  <2>1. disk[k] = "last"
    <3>1. disk[k] # "old"
      <4>1. ASSUME disk[k] = "old" PROVE FALSE
        <5>1. PICK y \in Bufs : buf[y].blockno = k /\ buf[y].dirty
          BY <1>3, <4>1, Zenon DEF IInv, Stored
        <5>2. y = x
          BY <1>3, <5>1, BcacheConstants, Zenon DEF IInv, OneCopyOneHolder
        <5> QED
          BY <1>3, <1>5, <5>1, <5>2, Zenon
      <4> QED
        BY <4>1, Zenon
    <3> QED
      BY <1>2, <1>3, <3>1, Zenon
  <2>2. /\ drive' \in Commands /\ drive'.blockno = k /\ drive'.write = drive.write
        /\ drive'.state = "done" => drive'.data = "last"
    BY <1>2, <1>5, <2>1, Zenon DEF Commands
  <2>3. Stored'
    BY <1>1, <1>5, Zenon DEF IInv, Stored
  <2>4. InFlight'
    BY <1>1, <1>2, <1>3, <1>5, <2>2, BcacheConstants, Zenon DEF InFlight
  <2>5. TypeOK'
    BY <1>1, <1>5, <2>2, Zenon DEF IInv, TypeOK
  <2> QED
    BY <2>3, <2>4, <2>5, Zenon
<1>6. TypeOK' /\ Stored' /\ InFlight'
  BY <1>4, <1>5, Zenon DEF DriveDone
<1>7. (OneCopyOneHolder /\ Held /\ Waiting)'
  BY <1>1, ZenonT(40) DEF IInv, OneCopyOneHolder, Held, HeldBy, Waiting, Holds
<1>8. Lined'
  BY <1>1, SameLine, Zenon DEF IInv
<1> QED
  BY <1>6, <1>7, <1>8, Zenon DEF IInv

\* A buffer that is not B_BUSY is nobody's, and not queued.
LEMMA FreeBuffer ==
  ASSUME IInv, NEW x \in Bufs, ~buf[x].busy
  PROVE  /\ \A q \in Users : Holds(q) \/ pc[q] = "bget_asleep" => b[q] # x
         /\ \A i \in 1 .. Len(idequeue) : idequeue[i] # x
<1>1. \A q \in Users : Holds(q) => b[q] # x
  BY Zenon DEF IInv, OneCopyOneHolder
<1>2. \A q \in Users : pc[q] = "bget_asleep" => b[q] # x
  BY Zenon DEF IInv, Waiting
<1>3. ASSUME NEW i \in 1 .. Len(idequeue), idequeue[i] = x PROVE FALSE
  <2>1. PICK q \in Users : pc[q] = "iderw_asleep" /\ b[q] = idequeue[i]
    BY Zenon DEF IInv, Lined
  <2> QED
    BY <1>1, <1>3, <2>1, Zenon DEF Holds
<1> QED
  BY <1>1, <1>2, <1>3, Zenon

\* bget() takes a free buffer x, as it is or recycled for another block.
LEMMA Taken ==
  ASSUME IInv, NEW p \in Users, pc[p] = "bget", NEW x \in Bufs, ~buf[x].busy,
         pc' = [pc EXCEPT ![p] = "bread"], b' = [b EXCEPT ![p] = x],
         buf' \in [Bufs -> Buffers],
         \A y \in Bufs : y # x => buf'[y] = buf[y],
         buf'[x].busy, buf'[x].blockno = want[p],
         \A y \in Bufs \ {x} : buf[y].blockno # want[p],
         \/ /\ buf[x].blockno = want[p]
            /\ buf'[x].valid = buf[x].valid /\ buf'[x].dirty = buf[x].dirty
         \/ ~buf'[x].valid /\ ~buf'[x].dirty /\ ~buf[x].dirty,
         buf'[x].data = buf[x].data,
         UNCHANGED <<mru, idequeue, drive, disk, want, oops>>
  PROVE  IInv'
<1>1. /\ \A q \in Users : Holds(q) \/ pc[q] = "bget_asleep" => b[q] # x
      /\ \A i \in 1 .. Len(idequeue) : idequeue[i] # x
  BY FreeBuffer, Zenon
<1>2. pc \in [Users -> Places] /\ b \in [Users -> Bufs \union {None}] /\ want[p] \in Blocknos
  BY Zenon DEF IInv, TypeOK, Held, HeldBy
<1>3. /\ pc'[p] = "bread" /\ b'[p] = x
      /\ \A q \in Users : q # p => pc'[q] = pc[q] /\ b'[q] = b[q]
  BY <1>2, Zenon
<1>4. /\ Holds(p)' /\ ~Holds(p)
      /\ \A q \in Users : q # p => (Holds(q)' <=> Holds(q))
  BY <1>3, Zenon DEF Holds
<1>5. TypeOK'
  <2>1. pc' \in [Users -> Places] /\ b' \in [Users -> Bufs \union {None}]
    BY <1>2, SMT DEF Places
  <2> QED
    BY <2>1, Zenon DEF IInv, TypeOK
<1>6. OneCopyOneHolder'
  <2>1. ASSUME NEW y \in Bufs, NEW z \in Bufs, buf'[y].blockno = buf'[z].blockno,
               buf'[y].blockno # None
        PROVE  y = z
    <3>1. \A u, v \in Bufs : buf[u].blockno = buf[v].blockno => u = v \/ buf[u].blockno = None
      BY Zenon DEF IInv, OneCopyOneHolder
    <3> QED
      BY <2>1, <3>1
  <2>2. ASSUME NEW q \in Users, NEW r \in Users, Holds(q)', Holds(r)', b'[q] = b'[r]
        PROVE  q = r
    <3>1. \A u, v \in Users : Holds(u) /\ Holds(v) /\ b[u] = b[v] => u = v
      BY Zenon DEF IInv, OneCopyOneHolder
    <3> QED
      BY <1>1, <1>3, <1>4, <2>2, <3>1
  <2>3. ASSUME NEW y \in Bufs
        PROVE  buf'[y].busy <=> \E q \in Users : Holds(q)' /\ b'[q] = y
    <3>1. CASE y = x
      BY <1>3, <1>4, <3>1, Zenon
    <3>2. CASE y # x
      <4>1. buf[y].busy <=> \E q \in Users : Holds(q) /\ b[q] = y
        BY Zenon DEF IInv, OneCopyOneHolder
      <4> QED
        BY <1>3, <1>4, <3>2, <4>1, ZenonT(40)
    <3> QED
      BY <3>1, <3>2, Zenon
  <2> QED
    BY <2>1, <2>2, <2>3, ZenonT(40) DEF OneCopyOneHolder
<1>7. Held'
  <2>1. ASSUME NEW q \in Users, q # p
        PROVE  HeldBy(q)'
    <3>1. pc'[q] = pc[q] /\ b'[q] = b[q] /\ want'[q] = want[q] /\ (Holds(q)' <=> Holds(q))
      BY <1>3, <1>4, <2>1, Zenon
    <3>2. Holds(q) => b[q] \in Bufs /\ buf'[b[q]] = buf[b[q]]
      BY <1>1, Zenon DEF IInv, Held, HeldBy
    <3>3. pc[q] \in {"iderw", "held", "release"} => Holds(q)
      BY Zenon DEF Holds
    <3>4. HeldBy(q)
      BY Zenon DEF IInv, Held
    <3> QED
      BY <3>1, <3>2, <3>3, <3>4 DEF HeldBy
  <2>2. HeldBy(p)'
    BY <1>2, <1>3, Zenon DEF HeldBy
  <2> QED
    BY <2>1, <2>2, Zenon DEF Held
<1>8. Waiting'
  <2>1. ASSUME NEW q \in Users, pc'[q] = "bget_asleep" PROVE b'[q] \in Bufs /\ buf'[b'[q]].busy
    <3>1. q # p /\ pc[q] = "bget_asleep" /\ b'[q] = b[q]
      BY <1>3, <2>1, Zenon
    <3> QED
      BY <1>1, <3>1, ZenonT(40) DEF IInv, Waiting
  <2> QED
    BY <2>1, Zenon DEF Waiting
<1>9. Lined'
  BY <1>3, SameLine, Zenon DEF IInv
<1>10. Stored'
  <2>1. \A y \in Bufs : /\ buf'[y].valid => buf[y].valid
                        /\ buf'[y].dirty => buf[y].dirty
                        /\ buf'[y].data = buf[y].data
    BY Zenon
  <2>2. \A y \in Bufs : buf[y].dirty => /\ buf'[y].dirty /\ buf'[y].blockno = buf[y].blockno
                                        /\ (buf[y].valid => buf'[y].valid)
    BY Zenon
  <2>3. \A k \in Blocknos : disk'[k] = "old" =>
          \E y \in Bufs : buf'[y].blockno = k /\ buf'[y].dirty
    <3>1. ASSUME NEW k \in Blocknos, disk'[k] = "old"
          PROVE  \E y \in Bufs : buf'[y].blockno = k /\ buf'[y].dirty
      <4>1. PICK y \in Bufs : buf[y].blockno = k /\ buf[y].dirty
        BY <3>1, Zenon DEF IInv, Stored
      <4> QED
        BY <2>2, <4>1, Zenon
    <3> QED
      BY <3>1, Zenon
  <2>4. \A y \in Bufs : /\ buf[y].valid => buf[y].data # "old"
                        /\ buf[y].dirty => buf[y].valid /\ buf[y].data = "last"
    BY Zenon DEF IInv, Stored
  <2> QED
    BY <2>1, <2>2, <2>3, <2>4, ZenonT(40) DEF Stored
<1>11. InFlight'
  <2>1. \A i \in 1 .. Len(idequeue) : idequeue[i] \in Bufs
    BY DEF IInv, TypeOK
  <2> QED
    BY <1>1, <2>1, SameFlight, Zenon
<1> QED
  BY <1>5, <1>6, <1>7, <1>8, <1>9, <1>10, <1>11, Zenon DEF IInv

\* bget() finds the block in the cache, free or busy.
LEMMA BgetCachedInv ==
  ASSUME IInv, NEW p \in Users, BgetCached(p)
  PROVE  IInv'
<1>1. PICK x \in Bufs :
        /\ buf[x].blockno = want[p]
        /\ b' = [b EXCEPT ![p] = x]
        /\ IF buf[x].busy THEN Goto(p, "bget_asleep") /\ UNCHANGED buf
                          ELSE Goto(p, "bread") /\ buf' = [buf EXCEPT ![x].busy = TRUE]
  BY Zenon DEF BgetCached
<1>2. pc[p] = "bget" /\ UNCHANGED <<mru, idequeue, drive, disk, want, oops>>
  BY Zenon DEF BgetCached
<1>3. /\ pc \in [Users -> Places] /\ b \in [Users -> Bufs \union {None}] /\ want[p] \in Blocknos
      /\ buf \in [Bufs -> Buffers]
  BY <1>2, Zenon DEF IInv, TypeOK, Held, HeldBy
<1>4. CASE ~buf[x].busy
  <2>1. pc' = [pc EXCEPT ![p] = "bread"] /\ buf' = [buf EXCEPT ![x].busy = TRUE]
    BY <1>1, <1>4, Zenon DEF Goto
  <2>2. /\ buf' \in [Bufs -> Buffers]
        /\ \A y \in Bufs : y # x => buf'[y] = buf[y]
        /\ buf'[x].busy /\ buf'[x].blockno = want[p]
        /\ buf'[x].valid = buf[x].valid /\ buf'[x].dirty = buf[x].dirty
        /\ buf'[x].data = buf[x].data
    BY <1>1, <1>3, <2>1, ZenonT(40) DEF Buffers
  <2>3. \A y \in Bufs \ {x} : buf[y].blockno # want[p]
    BY <1>1, <1>3, BcacheConstants, ZenonT(40) DEF IInv, OneCopyOneHolder
  <2> QED
    BY <1>1, <1>2, <1>4, <2>1, <2>2, <2>3, Taken, Zenon
<1>5. CASE buf[x].busy
  <2>1. pc' = [pc EXCEPT ![p] = "bget_asleep"] /\ UNCHANGED buf
    BY <1>1, <1>5, Zenon DEF Goto
  <2>2. /\ pc'[p] = "bget_asleep" /\ b'[p] = x
        /\ \A q \in Users : q # p => pc'[q] = pc[q] /\ b'[q] = b[q]
    BY <1>1, <1>3, <2>1, Zenon
  <2>3. \A q \in Users : (Holds(q)' <=> Holds(q)) /\ (Holds(q) => q # p)
    BY <1>2, <2>2, Zenon DEF Holds
  <2>4. TypeOK'
    <3>1. pc' \in [Users -> Places] /\ b' \in [Users -> Bufs \union {None}]
      BY <1>1, <1>3, <2>1, SMT DEF Places
    <3> QED
      BY <1>2, <2>1, <3>1, Zenon DEF IInv, TypeOK
  <2>5. OneCopyOneHolder'
    <3>1. \A q \in Users : Holds(q) => b'[q] = b[q]
      BY <2>2, <2>3, Zenon
    <3> QED
      BY <2>1, <2>3, <3>1, ZenonT(40) DEF IInv, OneCopyOneHolder
  <2>6. Held'
    BY <1>2, <1>3, <2>1, <2>2, <2>3, ZenonT(40) DEF IInv, Held, HeldBy
  <2>7. Waiting'
    BY <1>5, <2>1, <2>2, Zenon DEF IInv, Waiting
  <2>8. Lined'
    BY <1>2, <2>2, SameLine, Zenon DEF IInv
  <2>9. Stored' /\ InFlight'
    BY <1>2, <2>1, Zenon DEF IInv, Stored, InFlight
  <2> QED
    BY <2>4, <2>5, <2>6, <2>7, <2>8, <2>9, Zenon DEF IInv
<1> QED
  BY <1>4, <1>5, Zenon

\* Nothing changes but oops.
LEMMA Stutter ==
  ASSUME IInv, UNCHANGED <<buf, mru, idequeue, drive, disk, pc, b, want>>
  PROVE  IInv'
<1>1. TypeOK'
  BY Zenon DEF IInv, TypeOK
<1>2. OneCopyOneHolder'
  BY Zenon DEF IInv, OneCopyOneHolder, Holds
<1>3. Held' /\ Waiting'
  BY Zenon DEF IInv, Held, HeldBy, Waiting, Holds
<1>4. Lined'
  BY SameLine, Zenon DEF IInv
<1>5. Stored'
  BY Zenon DEF IInv, Stored
<1>6. InFlight'
  BY SameFlight, Zenon
<1> QED
  BY <1>1, <1>2, <1>3, <1>4, <1>5, <1>6, Zenon DEF IInv

\* bget() recycles a buffer that is neither B_BUSY nor B_DIRTY, or panics.
LEMMA BgetRecycleInv ==
  ASSUME IInv, NEW p \in Users, BgetRecycle(p)
  PROVE  IInv'
<1> DEFINE free == {i \in DOMAIN mru : Recyclable(mru[i])}
<1>1. /\ pc[p] = "bget" /\ \A x \in Bufs : buf[x].blockno # want[p]
      /\ UNCHANGED <<mru, idequeue, drive, disk, want>>
  BY Zenon DEF BgetRecycle
<1>2. /\ buf \in [Bufs -> Buffers] /\ want[p] \in Blocknos /\ mru \in Seq(Bufs)
  BY <1>1, Zenon DEF IInv, TypeOK, Held, HeldBy
<1>3. CASE UNCHANGED <<buf, b, pc>>
  BY <1>1, <1>3, Stutter, Zenon
<1>4. ASSUME NEW i \in free,
             buf' = [buf EXCEPT ![mru[i]] = [@ EXCEPT !.blockno = want[p], !.busy = TRUE,
                                                      !.valid = FALSE, !.dirty = FALSE]],
             b' = [b EXCEPT ![p] = mru[i]], Goto(p, "bread"), UNCHANGED oops
      PROVE  IInv'
  <2> DEFINE x == mru[i]
  <2>1. x \in Bufs
    BY <1>2
  <2>2. ~buf[x].busy /\ ~buf[x].dirty
    BY Zenon DEF Recyclable
  <2> HIDE DEF x, free
  <2>3. buf' = [buf EXCEPT ![x] = [@ EXCEPT !.blockno = want[p], !.busy = TRUE,
                                            !.valid = FALSE, !.dirty = FALSE]]
        /\ b' = [b EXCEPT ![p] = x] /\ pc' = [pc EXCEPT ![p] = "bread"]
    BY <1>4, Zenon DEF x, Goto
  <2>4. /\ \A y \in Bufs : y # x => buf'[y] = buf[y]
        /\ buf'[x] = [blockno |-> want[p], busy |-> TRUE, valid |-> FALSE,
                      dirty |-> FALSE, data |-> buf[x].data]
    BY <1>2, <2>1, <2>3, ZenonT(40) DEF Buffers
  <2>5. DOMAIN buf' = Bufs /\ buf' = [y \in Bufs |-> buf'[y]]
    BY <1>2, <2>3, Zenon
  <2>6. buf'[x] \in Buffers
    BY <1>2, <2>1, <2>4 DEF Buffers
  <2>7. buf' \in [Bufs -> Buffers]
    BY <1>2, <2>4, <2>5, <2>6, Zenon
  <2>8. /\ buf'[x].busy /\ buf'[x].blockno = want[p]
        /\ ~buf'[x].valid /\ ~buf'[x].dirty
        /\ buf'[x].data = buf[x].data
    BY <2>4
  <2>9. /\ UNCHANGED <<mru, idequeue, drive, disk, want, oops>>
        /\ \A y \in Bufs \ {x} : buf[y].blockno # want[p]
    BY <1>1, <1>4, Zenon
  <2> QED
    BY <1>1, <2>1, <2>2, <2>3, <2>4, <2>7, <2>8, <2>9, Taken, ZenonT(40)
<1> QED
  BY <1>3, <1>4, Zenon DEF BgetRecycle

\* iderw() queues the buffer of p, which was not queued, and p goes to sleep.
LEMMA Queues ==
  ASSUME IInv, NEW p \in Users, Holds(p), pc[p] # "iderw_asleep",
         NEW bufs, iderw(p, bufs), UNCHANGED b
  PROVE  /\ Lined' /\ idequeue' \in Seq(Bufs) /\ idequeue' # <<>>
         /\ idequeue = <<>> => Head(idequeue') = b[p]
         /\ idequeue # <<>> => Head(idequeue') = Head(idequeue)
         /\ pc' \in [Users -> Places]
         /\ \A q \in Users : Holds(q)' <=> Holds(q)
         /\ pc'[p] = "iderw_asleep" /\ \A q \in Users : q # p => pc'[q] = pc[q]
<1>1. idequeue' = Append(idequeue, b[p]) /\ pc' = [pc EXCEPT ![p] = "iderw_asleep"]
  BY Zenon DEF iderw, Goto
<1>2. idequeue \in Seq(Bufs) /\ b[p] \in Bufs /\ pc \in [Users -> Places]
  BY Zenon DEF IInv, TypeOK, Held, HeldBy
<1>3. pc'[p] = "iderw_asleep" /\ \A q \in Users : q # p => pc'[q] = pc[q]
  BY <1>1, <1>2, Zenon
<1>4. \A q \in Users : Holds(q)' <=> Holds(q)
  BY <1>3, Zenon DEF Holds
<1>5. /\ idequeue' \in Seq(Bufs) /\ idequeue' # <<>>
      /\ idequeue = <<>> => Head(idequeue') = b[p]
      /\ idequeue # <<>> => Head(idequeue') = Head(idequeue)
      /\ Len(idequeue) \in Nat /\ Len(idequeue') = Len(idequeue) + 1
      /\ idequeue'[Len(idequeue) + 1] = b[p]
      /\ \A i \in 1 .. Len(idequeue) : idequeue'[i] = idequeue[i]
  BY <1>1, <1>2
<1>6. pc' \in [Users -> Places]
  BY <1>1, <1>2, SMT DEF Places
<1>7. \A i \in 1 .. Len(idequeue) : idequeue[i] # b[p]
  BY NotQueued, Zenon
<1>8. \A i, j \in 1 .. Len(idequeue') : idequeue'[i] = idequeue'[j] => i = j
  <2>1. \A i, j \in 1 .. Len(idequeue) : idequeue[i] = idequeue[j] => i = j
    BY Zenon DEF IInv, Lined
  <2> QED
    BY <1>5, <1>7, <2>1
<1>9. ASSUME NEW i \in 1 .. Len(idequeue')
      PROVE  \E q \in Users : pc'[q] = "iderw_asleep" /\ b'[q] = idequeue'[i]
  <2>1. i \in 1 .. Len(idequeue) \/ i = Len(idequeue) + 1
    BY <1>5
  <2>2. CASE i \in 1 .. Len(idequeue)
    <3>1. PICK q \in Users : pc[q] = "iderw_asleep" /\ b[q] = idequeue[i]
      BY <2>2, Zenon DEF IInv, Lined
    <3>2. pc'[q] = "iderw_asleep" /\ b'[q] = idequeue'[i]
      BY <1>3, <1>5, <2>2, <3>1, Zenon
    <3> QED
      BY <3>2, Zenon
  <2>3. CASE i = Len(idequeue) + 1
    BY <1>3, <1>5, <2>3, Zenon
  <2> QED
    BY <2>1, <2>2, <2>3, Zenon
<1>10. ASSUME NEW q \in Users, pc'[q] = "iderw_asleep"
       PROVE  \E i \in 1 .. Len(idequeue') : idequeue'[i] = b'[q]
  <2>1. CASE q = p
    BY <1>5, <2>1
  <2>2. CASE q # p
    <3>1. PICK i \in 1 .. Len(idequeue) : idequeue[i] = b[q]
      BY <1>3, <1>10, <2>2, Zenon DEF IInv, Lined
    <3>2. i \in 1 .. Len(idequeue') /\ idequeue'[i] = b'[q]
      BY <1>5, <3>1
    <3> QED
      BY <3>2, Zenon
  <2> QED
    BY <2>1, <2>2, Zenon
<1>11. Lined'
  BY <1>8, <1>9, <1>10, Zenon DEF Lined
<1> QED
  BY <1>3, <1>4, <1>5, <1>6, <1>11, Zenon

\* The drive works for others: on another buffer and another block.
LEMMA OtherBlock ==
  ASSUME IInv, NEW p \in Users, Holds(p), pc[p] # "iderw_asleep",
         idequeue # <<>>
  PROVE  /\ Head(idequeue) \in Bufs /\ Head(idequeue) # b[p]
         /\ buf[Head(idequeue)].blockno # want[p]
<1>1. /\ Head(idequeue) \in Bufs /\ Head(idequeue) = idequeue[1] /\ 1 \in 1 .. Len(idequeue)
      /\ buf[Head(idequeue)].blockno \in Blocknos
  BY HeadHeld, Zenon
<1>2. Head(idequeue) # b[p]
  BY <1>1, NotQueued, Zenon
<1>3. b[p] \in Bufs /\ buf[b[p]].blockno = want[p]
  BY Zenon DEF IInv, Held, HeldBy
<1>4. buf[Head(idequeue)].blockno # None
  BY <1>1, BcacheConstants, Zenon
<1>5. \A x, y \in Bufs : buf[x].blockno = buf[y].blockno => x = y \/ buf[x].blockno = None
  BY Zenon DEF IInv, OneCopyOneHolder
<1> QED
  BY <1>1, <1>2, <1>3, <1>4, <1>5, Zenon

\* What holds of the holders and the sleepers of bget() when the holder of a
\* buffer changes the data, valid or dirty flag of it only, and moves on.
LEMMA HolderMoves ==
  ASSUME IInv, NEW p \in Users, Holds(p), pc[p] # "user",
         buf' \in [Bufs -> Buffers],
         \A y \in Bufs : y # b[p] => buf'[y] = buf[y],
         buf'[b[p]].blockno = buf[b[p]].blockno, buf'[b[p]].busy = buf[b[p]].busy,
         \A q \in Users : Holds(q)' <=> Holds(q),
         \A q \in Users : q # p => pc'[q] = pc[q],
         pc'[p] \in {"held", "release"} => buf'[b[p]].valid,
         pc'[p] # "iderw", UNCHANGED <<b, want>>
  PROVE  OneCopyOneHolder' /\ Held' /\ Waiting'
<1>1. b[p] \in Bufs
  BY Zenon DEF IInv, Held, HeldBy
<1>2. \A y \in Bufs : buf'[y].blockno = buf[y].blockno /\ buf'[y].busy = buf[y].busy
  BY Zenon
<1>3. OneCopyOneHolder'
  <2>1. OneCopyOneHolder
    BY Zenon DEF IInv
  <2> QED
    BY <1>2, <2>1 DEF OneCopyOneHolder
<1>4. ASSUME NEW q \in Users PROVE HeldBy(q)'
  <2>1. HeldBy(q) /\ HeldBy(p)
    BY Zenon DEF IInv, Held
  <2>2. CASE q = p
    BY <1>1, <1>2, <2>1, <2>2, Zenon DEF HeldBy
  <2>3. CASE q # p
    <3>1. pc'[q] = pc[q] /\ (Holds(q)' <=> Holds(q))
      BY <2>3, Zenon
    <3>2. Holds(q) => b[q] \in Bufs /\ b[q] # b[p]
      BY <2>1, <2>3, Zenon DEF IInv, OneCopyOneHolder, HeldBy
    <3>3. pc[q] \in {"iderw", "held", "release"} => Holds(q)
      BY Zenon DEF Holds
    <3> QED
      BY <2>1, <3>1, <3>2, <3>3, Zenon DEF HeldBy
  <2> QED
    BY <2>2, <2>3, Zenon
<1>5. Held'
  BY <1>4, Zenon DEF Held
<1>6. Waiting'
  <2>1. ASSUME NEW q \in Users, pc'[q] = "bget_asleep" PROVE b[q] \in Bufs /\ buf'[b[q]].busy
    <3>1. pc[q] = "bget_asleep"
      BY <2>1, Zenon DEF Holds
    <3> QED
      BY <1>2, <3>1, Zenon DEF IInv, Waiting
  <2> QED
    BY <2>1, Zenon DEF Waiting
<1> QED
  BY <1>3, <1>5, <1>6, Zenon

\* iderw() starts the drive on the buffer of p, or leaves it working for
\* another one.
LEMMA Requests ==
  ASSUME IInv, NEW p \in Users, pc[p] \in {"bread", "held"}, iderw(p, buf'),
         buf' \in [Bufs -> Buffers],
         \A y \in Bufs : y # b[p] => buf'[y] = buf[y],
         buf'[b[p]].blockno = buf[b[p]].blockno, buf'[b[p]].busy = buf[b[p]].busy,
         buf'[b[p]].dirty => buf'[b[p]].data = "last",
         Stored', disk' \in [Blocknos -> {"last", "old"}],
         \A k \in Blocknos : k # want[p] => disk'[k] = disk[k],
         UNCHANGED <<mru, b, want, oops>>
  PROVE  IInv'
<1>1. Holds(p) /\ pc[p] # "iderw_asleep" /\ pc[p] # "user"
  BY Zenon DEF Holds
<1>2. /\ Lined' /\ idequeue' \in Seq(Bufs) /\ idequeue' # <<>>
      /\ idequeue = <<>> => Head(idequeue') = b[p]
      /\ idequeue # <<>> => Head(idequeue') = Head(idequeue)
      /\ pc' \in [Users -> Places]
      /\ \A q \in Users : Holds(q)' <=> Holds(q)
      /\ pc'[p] = "iderw_asleep" /\ \A q \in Users : q # p => pc'[q] = pc[q]
  BY <1>1, Queues, Zenon
<1>3. OneCopyOneHolder' /\ Held' /\ Waiting'
  BY <1>1, <1>2, HolderMoves, Zenon
<1>4. b[p] \in Bufs /\ buf[b[p]].blockno = want[p] /\ want[p] \in Blocknos
  BY <1>1, Zenon DEF IInv, Held, HeldBy
<1>5. CASE idequeue = <<>>
  <2>1. drive' = [blockno |-> buf'[b[p]].blockno, write |-> buf'[b[p]].dirty,
                  data |-> buf'[b[p]].data, state |-> "started"]
    BY <1>5, Zenon DEF iderw, idestart
  <2>2. buf'[b[p]] \in Buffers
    BY <1>4, Zenon
  <2>3. /\ drive' \in Commands
        /\ drive'.blockno = buf'[b[p]].blockno /\ drive'.write = buf'[b[p]].dirty
        /\ drive'.data = buf'[b[p]].data /\ drive'.state = "started"
    BY <1>4, <2>1, <2>2, Zenon DEF Buffers, Commands
  <2>4. InFlight'
    BY <1>2, <1>5, <2>3, BcacheConstants, Zenon DEF InFlight
  <2> QED
    BY <1>2, <1>3, <2>3, <2>4, Zenon DEF IInv, TypeOK
<1>6. CASE idequeue # <<>>
  <2>1. drive' = drive
    BY <1>6, Zenon DEF iderw
  <2>2. drive # None /\ drive \in Commands /\ InFlight
    BY <1>6, Zenon DEF IInv, TypeOK, InFlight
  <2>3. Head(idequeue) \in Bufs /\ Head(idequeue) # b[p] /\ buf[Head(idequeue)].blockno # want[p]
    BY <1>1, <1>6, OtherBlock, Zenon
  <2>4. drive.blockno \in Blocknos
    BY <2>2, Zenon DEF Commands
  <2>5. disk'[drive.blockno] = disk[drive.blockno] /\ buf'[Head(idequeue)] = buf[Head(idequeue)]
    BY <2>2, <2>3, <2>4, Zenon DEF InFlight
  <2>6. InFlight'
    BY <1>2, <1>6, <2>1, <2>2, <2>5, ZenonT(40) DEF InFlight
  <2> QED
    BY <1>2, <1>3, <2>1, <2>2, <2>6, Zenon DEF IInv, TypeOK
<1> QED
  BY <1>5, <1>6, Zenon

\* bread() reads the block unless the buffer is valid.
LEMMA BreadInv ==
  ASSUME IInv, NEW p \in Users, Bread(p)
  PROVE  IInv'
<1>1. pc[p] = "bread" /\ UNCHANGED <<buf, mru, disk, b, want, oops>>
  BY Zenon DEF Bread
<1>2. Holds(p) /\ pc[p] # "user" /\ pc[p] # "iderw_asleep"
  BY <1>1, Zenon DEF Holds
<1>3. /\ b[p] \in Bufs /\ buf \in [Bufs -> Buffers] /\ pc \in [Users -> Places]
      /\ disk \in [Blocknos -> {"last", "old"}] /\ Stored
      /\ buf[b[p]].dirty => buf[b[p]].data = "last"
  BY <1>2, Zenon DEF IInv, TypeOK, Held, HeldBy, Stored
<1>4. CASE buf[b[p]].valid
  <2>1. pc' = [pc EXCEPT ![p] = "held"] /\ UNCHANGED <<idequeue, drive>>
    BY <1>4, Zenon DEF Bread, Goto
  <2>2. pc'[p] = "held" /\ \A q \in Users : q # p => pc'[q] = pc[q]
    BY <1>3, <2>1, Zenon
  <2>3. \A q \in Users : Holds(q)' <=> Holds(q)
    BY <1>2, <2>2, Zenon DEF Holds
  <2>4. OneCopyOneHolder' /\ Held' /\ Waiting'
    BY <1>1, <1>2, <1>3, <1>4, <2>2, <2>3, HolderMoves, Zenon
  <2>5. pc' \in [Users -> Places]
    BY <1>3, <2>1, SMT DEF Places
  <2>6. TypeOK'
    BY <1>1, <2>1, <2>5, Zenon DEF IInv, TypeOK
  <2>7. Lined'
    BY <1>1, <1>2, <2>1, <2>2, SameLine, Zenon DEF IInv
  <2>8. Stored' /\ InFlight'
    BY <1>1, <2>1, Zenon DEF IInv, Stored, InFlight
  <2> QED
    BY <2>4, <2>6, <2>7, <2>8, Zenon DEF IInv
<1>5. CASE ~buf[b[p]].valid
  <2>1. iderw(p, buf')
    BY <1>1, <1>5, Zenon DEF Bread
  <2>2. Stored'
    BY <1>1, <1>3, Zenon DEF Stored
  <2> QED
    BY <1>1, <1>3, <2>1, <2>2, Requests, Zenon
<1> QED
  BY <1>4, <1>5, Zenon

\* The holder stores something new: the buffer is dirty and has it, the disk
\* is out of date.
LEMMA Stores ==
  ASSUME IInv, NEW p \in Users, pc[p] = "held", Store(p)
  PROVE  /\ buf' \in [Bufs -> Buffers]
         /\ \A y \in Bufs : y # b[p] => buf'[y] = buf[y]
         /\ buf'[b[p]].blockno = buf[b[p]].blockno /\ buf'[b[p]].busy = buf[b[p]].busy
         /\ buf'[b[p]].valid /\ buf'[b[p]].dirty /\ buf'[b[p]].data = "last"
         /\ Stored' /\ disk' \in [Blocknos -> {"last", "old"}]
         /\ \A k \in Blocknos : k # want[p] => disk'[k] = disk[k]
<1>1. /\ b[p] \in Bufs /\ buf \in [Bufs -> Buffers] /\ want[p] \in Blocknos
      /\ disk \in [Blocknos -> {"last", "old"}]
      /\ buf[b[p]].valid /\ buf[b[p]].blockno = want[p]
  BY Zenon DEF IInv, TypeOK, Held, HeldBy, Holds
<1>2. /\ buf' = [buf EXCEPT ![b[p]] = [@ EXCEPT !.data = "last", !.dirty = TRUE]]
      /\ disk' = [disk EXCEPT ![want[p]] = "old"]
  BY Zenon DEF Store
<1>3. /\ buf' \in [Bufs -> Buffers]
      /\ \A y \in Bufs : y # b[p] => buf'[y] = buf[y]
      /\ buf'[b[p]].blockno = buf[b[p]].blockno /\ buf'[b[p]].busy = buf[b[p]].busy
      /\ buf'[b[p]].valid = buf[b[p]].valid /\ buf'[b[p]].dirty /\ buf'[b[p]].data = "last"
  BY <1>1, <1>2, ZenonT(40) DEF Buffers
<1>4. /\ disk' \in [Blocknos -> {"last", "old"}]
      /\ \A k \in Blocknos : k # want[p] => disk'[k] = disk[k]
  BY <1>1, <1>2, Zenon
<1>5. /\ \A x \in Bufs : buf[x].valid => buf[x].data # "old"
      /\ \A x \in Bufs : buf[x].dirty => buf[x].valid /\ buf[x].data = "last"
  BY Zenon DEF IInv, Stored
<1>6. \A x \in Bufs : /\ buf'[x].valid => buf'[x].data # "old"
                      /\ buf'[x].dirty => buf'[x].valid /\ buf'[x].data = "last"
  BY <1>1, <1>3, <1>5, ZenonT(40)
<1>7. ASSUME NEW k \in Blocknos, disk'[k] = "old"
      PROVE  \E x \in Bufs : buf'[x].blockno = k /\ buf'[x].dirty
  <2>1. CASE k = want[p]
    BY <1>1, <1>3, <2>1, Zenon
  <2>2. CASE k # want[p]
    <3>1. PICK x \in Bufs : buf[x].blockno = k /\ buf[x].dirty
      BY <1>4, <1>7, <2>2, Zenon DEF IInv, Stored
    <3> QED
      BY <1>1, <1>3, <2>2, <3>1, Zenon
  <2> QED
    BY <2>1, <2>2, Zenon
<1>8. Stored'
  BY <1>6, <1>7, Zenon DEF Stored
<1> QED
  BY <1>1, <1>3, <1>4, <1>8, Zenon

\* bwrite() sends a dirty buffer to the drive.
LEMMA BwriteInv ==
  ASSUME IInv, NEW p \in Users, Bwrite(p)
  PROVE  IInv'
<1>1. pc[p] = "held" /\ iderw(p, buf') /\ UNCHANGED <<mru, b, want, oops>>
  BY Zenon DEF Bwrite
<1>2. CASE buf[b[p]].dirty
  <2>1. UNCHANGED <<buf, disk>>
    BY <1>2, Zenon DEF Bwrite
  <2>2. /\ b[p] \in Bufs /\ buf \in [Bufs -> Buffers]
        /\ disk \in [Blocknos -> {"last", "old"}] /\ Stored
        /\ buf[b[p]].data = "last"
    BY <1>1, <1>2, Zenon DEF IInv, TypeOK, Held, HeldBy, Holds, Stored
  <2>3. Stored'
    BY <2>1, <2>2, Zenon DEF Stored
  <2> QED
    BY <1>1, <2>1, <2>2, <2>3, Requests, Zenon
<1>3. CASE ~buf[b[p]].dirty
  <2>1. Store(p)
    BY <1>3, Zenon DEF Bwrite
  <2> QED
    BY <1>1, <2>1, Stores, Requests, Zenon
<1> QED
  BY <1>2, <1>3, Zenon

\* log_write() leaves a dirty buffer in the cache.
LEMMA LogWriteInv ==
  ASSUME IInv, NEW p \in Users, LogWrite(p)
  PROVE  IInv'
<1>1. /\ pc[p] = "held" /\ Store(p) /\ pc' = [pc EXCEPT ![p] = "release"]
      /\ UNCHANGED <<mru, idequeue, drive, b, want, oops>>
  BY Zenon DEF LogWrite, Goto
<1>2. /\ buf' \in [Bufs -> Buffers]
      /\ \A y \in Bufs : y # b[p] => buf'[y] = buf[y]
      /\ buf'[b[p]].blockno = buf[b[p]].blockno /\ buf'[b[p]].busy = buf[b[p]].busy
      /\ buf'[b[p]].valid
      /\ Stored' /\ disk' \in [Blocknos -> {"last", "old"}]
      /\ \A k \in Blocknos : k # want[p] => disk'[k] = disk[k]
  BY <1>1, Stores, Zenon
<1>3. Holds(p) /\ pc[p] # "user" /\ pc[p] # "iderw_asleep" /\ pc \in [Users -> Places]
  BY <1>1, Zenon DEF Holds, IInv, TypeOK
<1>4. pc'[p] = "release" /\ \A q \in Users : q # p => pc'[q] = pc[q]
  BY <1>1, <1>3, Zenon
<1>5. \A q \in Users : Holds(q)' <=> Holds(q)
  BY <1>3, <1>4, Zenon DEF Holds
<1>6. OneCopyOneHolder' /\ Held' /\ Waiting'
  BY <1>1, <1>2, <1>3, <1>4, <1>5, HolderMoves, Zenon
<1>7. TypeOK'
  <2>1. pc' \in [Users -> Places]
    BY <1>1, <1>3, SMT DEF Places
  <2> QED
    BY <1>1, <1>2, <2>1, Zenon DEF IInv, TypeOK
<1>8. Lined'
  BY <1>1, <1>3, <1>4, SameLine, Zenon DEF IInv
<1>9. InFlight'
  <2>1. CASE idequeue = <<>>
    BY <1>1, <2>1, Zenon DEF IInv, InFlight
  <2>2. CASE idequeue # <<>>
    <3>1. drive # None /\ drive \in Commands /\ InFlight
      BY <2>2, Zenon DEF IInv, TypeOK, InFlight
    <3>2. /\ Head(idequeue) \in Bufs /\ Head(idequeue) # b[p]
          /\ buf[Head(idequeue)].blockno # want[p]
      BY <1>3, <2>2, OtherBlock, Zenon
    <3>3. drive.blockno \in Blocknos
      BY <3>1 DEF Commands
    <3>4. disk'[drive.blockno] = disk[drive.blockno] /\ buf'[Head(idequeue)] = buf[Head(idequeue)]
      BY <1>2, <3>1, <3>2, <3>3, Zenon DEF InFlight
    <3> QED
      BY <1>1, <2>2, <3>1, <3>4, Zenon DEF InFlight
  <2> QED
    BY <2>1, <2>2, Zenon
<1> QED
  BY <1>2, <1>6, <1>7, <1>8, <1>9, Zenon DEF IInv

\* Moving a buffer to the front keeps every buffer on the list.
LEMMA Fronted ==
  ASSUME NEW S, NEW s \in Seq(S), NEW x \in S, \A y \in S : \E i \in DOMAIN s : s[i] = y
  PROVE  /\ ToFront(s, x) \in Seq(S)
         /\ \A y \in S : \E i \in DOMAIN ToFront(s, x) : ToFront(s, x)[i] = y
<1> DEFINE at == CHOOSE i \in DOMAIN s : s[i] = x
           t == ToFront(s, x)
<1>1. at \in 1 .. Len(s) /\ s[at] = x /\ DOMAIN s = 1 .. Len(s) /\ Len(s) \in Nat
  <2>1. at \in DOMAIN s /\ s[at] = x
    BY Zenon
  <2> QED
    BY <2>1
<1>2. t = [i \in DOMAIN s |-> IF i = 1 THEN x ELSE s[IF i <= at THEN i - 1 ELSE i]]
  BY Zenon DEF ToFront
<1> HIDE DEF at, t
<1>3. \A i \in 1 .. Len(s) : t[i] = IF i = 1 THEN x ELSE s[IF i <= at THEN i - 1 ELSE i]
  BY <1>1, <1>2
<1>4. \A i \in 1 .. Len(s) : t[i] \in S
  BY <1>1, <1>3
<1>5. t \in Seq(S) /\ DOMAIN t = 1 .. Len(s)
  BY <1>1, <1>2, <1>4
<1>6. ASSUME NEW y \in S PROVE \E i \in 1 .. Len(s) : t[i] = y
  <2>1. PICK j \in 1 .. Len(s) : s[j] = y
    BY <1>1
  <2>2. CASE j = at
    BY <1>1, <1>3, <2>1, <2>2
  <2>3. CASE j < at
    <3>1. j + 1 \in 1 .. Len(s) /\ j + 1 # 1 /\ j + 1 <= at /\ (j + 1) - 1 = j
      BY <1>1, <2>3
    <3>2. t[j + 1] = s[j]
      BY <1>3, <3>1, ZenonT(40)
    <3> QED
      BY <2>1, <3>1, <3>2, Zenon
  <2>4. CASE j > at
    <3>1. t[j] = s[j]
      BY <1>1, <1>3, <2>4
    <3> QED
      BY <2>1, <3>1, Zenon
  <2> QED
    BY <1>1, <2>2, <2>3, <2>4
<1> QED
  BY <1>5, <1>6, Zenon DEF t

\* brelse() gives the buffer back and wakes who waits for it in bget().
LEMMA BrelseInv ==
  ASSUME IInv, NEW p \in Users, brelse(p)
  PROVE  IInv'
<1> DEFINE x == b[p]
<1>1. /\ pc[p] \in {"held", "release"}
      /\ mru' = ToFront(mru, x)
      /\ buf' = [buf EXCEPT ![x].busy = FALSE]
      /\ pc' = [WakeupBget(pc, x) EXCEPT ![p] = "user"]
      /\ b' = [b EXCEPT ![p] = None]
      /\ want' = [want EXCEPT ![p] = None]
      /\ UNCHANGED <<idequeue, drive, disk, oops>>
  BY Zenon DEF brelse
<1>2. Holds(p) /\ pc[p] # "iderw_asleep"
  BY <1>1, Zenon DEF Holds
<1>3. /\ x \in Bufs /\ buf \in [Bufs -> Buffers] /\ pc \in [Users -> Places]
      /\ b \in [Users -> Bufs \union {None}] /\ want \in [Users -> Blocknos \union {None}]
      /\ mru \in Seq(Bufs) /\ \A y \in Bufs : \E i \in DOMAIN mru : mru[i] = y
  BY <1>2, Zenon DEF IInv, TypeOK, Held, HeldBy
<1>4. \A q \in Users : q # p => /\ Holds(q) => b[q] # x
                                /\ pc[q] = "iderw_asleep" => b[q] # x
  BY <1>2, Zenon DEF IInv, OneCopyOneHolder, Holds
<1> HIDE DEF x
<1>5. /\ pc'[p] = "user"
      /\ \A q \in Users : q # p => pc'[q] = WakeupBget(pc, x)[q]
  BY <1>1, Zenon DEF WakeupBget, Wakeup
<1>6. \A q \in Users : q # p =>
        pc'[q] = IF pc[q] = "bget_asleep" /\ b[q] = x THEN "bget" ELSE pc[q]
  BY <1>4, <1>5 DEF WakeupBget, Wakeup
<1>7. pc' \in [Users -> Places]
  <2>1. \A q \in Users : pc'[q] \in Places
    BY <1>3, <1>5, <1>6, Zenon DEF Places
  <2>2. pc' = [q \in Users |-> pc'[q]]
    BY <1>1, Zenon DEF WakeupBget, Wakeup
  <2> QED
    BY <2>1, <2>2, Zenon
<1>8. /\ b'[p] = None /\ want'[p] = None
      /\ \A q \in Users : q # p => b'[q] = b[q] /\ want'[q] = want[q]
      /\ b' \in [Users -> Bufs \union {None}] /\ want' \in [Users -> Blocknos \union {None}]
  BY <1>1, <1>3
<1>9. /\ buf' \in [Bufs -> Buffers] /\ ~buf'[x].busy
      /\ \A y \in Bufs : y # x => buf'[y] = buf[y]
      /\ \A y \in Bufs : /\ buf'[y].blockno = buf[y].blockno /\ buf'[y].valid = buf[y].valid
                         /\ buf'[y].dirty = buf[y].dirty /\ buf'[y].data = buf[y].data
  <2>1. x \in Bufs /\ buf \in [Bufs -> Buffers] /\ buf' = [buf EXCEPT ![x].busy = FALSE]
    BY <1>1, <1>3, Zenon
  <2>2. buf' \in [Bufs -> Buffers]
    BY <2>1, ZenonT(40) DEF Buffers
  <2>3. \A y \in Bufs : y # x => buf'[y] = buf[y]
    BY <2>1, Zenon
  <2>4. /\ ~buf'[x].busy
        /\ buf'[x].blockno = buf[x].blockno /\ buf'[x].valid = buf[x].valid
        /\ buf'[x].dirty = buf[x].dirty /\ buf'[x].data = buf[x].data
    BY <2>1 DEF Buffers
  <2> QED
    BY <2>2, <2>3, <2>4, Zenon
<1>10. TypeOK'
  <2>1. mru' \in Seq(Bufs) /\ \A y \in Bufs : \E i \in DOMAIN mru' : mru'[i] = y
    BY <1>1, <1>3, Fronted
  <2> QED
    BY <1>1, <1>7, <1>8, <1>9, <2>1, Zenon DEF IInv, TypeOK
<1>11. ~Holds(p)' /\ \A q \in Users : q # p => (Holds(q)' <=> Holds(q))
  BY <1>5, <1>6 DEF Holds
<1>12. OneCopyOneHolder'
  <2>1. \A y, z \in Bufs : buf'[y].blockno = buf'[z].blockno => y = z \/ buf'[y].blockno = None
    <3>1. \A y, z \in Bufs : buf[y].blockno = buf[z].blockno => y = z \/ buf[y].blockno = None
      BY Zenon DEF IInv, OneCopyOneHolder
    <3> QED
      BY <1>9, <3>1
  <2>2. \A q, r \in Users : Holds(q)' /\ Holds(r)' /\ b'[q] = b'[r] => q = r
    <3>1. \A q, r \in Users : Holds(q) /\ Holds(r) /\ b[q] = b[r] => q = r
      BY Zenon DEF IInv, OneCopyOneHolder
    <3> QED
      BY <1>8, <1>11, <3>1
  <2>3. ASSUME NEW y \in Bufs PROVE buf'[y].busy <=> \E q \in Users : Holds(q)' /\ b'[q] = y
    <3>1. CASE y = x
      BY <1>4, <1>8, <1>9, <1>11, <3>1, Zenon
    <3>2. CASE y # x
      <4>1. buf[y].busy <=> \E q \in Users : Holds(q) /\ b[q] = y
        BY Zenon DEF IInv, OneCopyOneHolder
      <4> QED
        BY <1>8, <1>9, <1>11, <3>2, <4>1, Zenon DEF x
    <3> QED
      BY <3>1, <3>2, Zenon
  <2> QED
    BY <2>1, <2>2, <2>3, Zenon DEF OneCopyOneHolder
<1>13. ASSUME NEW q \in Users PROVE HeldBy(q)'
  <2>1. CASE q = p
    BY <1>5, <1>11, <2>1, Zenon DEF HeldBy
  <2>2. CASE q # p
    <3>1. HeldBy(q) /\ (pc[q] \in {"iderw", "held", "release"} => Holds(q))
      BY Zenon DEF IInv, Held, Holds
    <3> QED
      BY <1>6, <1>8, <1>9, <1>11, <2>2, <3>1 DEF HeldBy
  <2> QED
    BY <2>1, <2>2, Zenon
<1>14. Held'
  BY <1>13, Zenon DEF Held
<1>15. Waiting'
  <2>1. ASSUME NEW q \in Users, pc'[q] = "bget_asleep" PROVE b'[q] \in Bufs /\ buf'[b'[q]].busy
    <3>1. q # p /\ pc[q] = "bget_asleep" /\ b[q] # x /\ b'[q] = b[q]
      BY <1>5, <1>6, <1>8, <2>1, Zenon
    <3> QED
      BY <1>9, <3>1, ZenonT(40) DEF IInv, Waiting
  <2> QED
    BY <2>1, Zenon DEF Waiting
<1>16. Lined'
  <2>1. \A q \in Users : pc'[q] = "iderw_asleep" <=> pc[q] = "iderw_asleep"
    BY <1>2, <1>5, <1>6
  <2> QED
    BY <1>1, <1>2, <1>8, <2>1, SameLine, Zenon DEF IInv
<1>17. Stored'
  <2>1. Stored
    BY Zenon DEF IInv
  <2> QED
    BY <1>1, <1>9, <2>1 DEF Stored
<1>18. InFlight'
  <2>1. \A i \in 1 .. Len(idequeue) : idequeue[i] \in Bufs
    BY DEF IInv, TypeOK
  <2> QED
    BY <1>1, <1>9, <2>1, SameFlight, Zenon
<1> QED
  BY <1>10, <1>12, <1>14, <1>15, <1>16, <1>17, <1>18, Zenon DEF IInv

\* ideintr() marks the head of the queue, wakes its owner and starts the drive
\* on the next buffer.
LEMMA IdeintrInv ==
  ASSUME IInv, ideintr
  PROVE  IInv'
<1> DEFINE x == Head(idequeue)
           d == IF buf[x].dirty THEN buf[x].data
                ELSE IF drive.state = "done" THEN drive.data ELSE "bad"
<1>1. /\ drive # None /\ drive.state # "started"
      /\ buf' = [buf EXCEPT ![x] = [@ EXCEPT !.valid = TRUE, !.dirty = FALSE, !.data = d]]
      /\ pc' = Wakeup(pc, x)
      /\ idequeue' = Tail(idequeue)
      /\ drive' = IF idequeue' = <<>> THEN None ELSE idestart(buf', Head(idequeue'))
      /\ UNCHANGED <<mru, disk, b, want, oops>>
  BY Zenon DEF ideintr
<1>2. /\ buf \in [Bufs -> Buffers] /\ pc \in [Users -> Places] /\ drive \in Commands
      /\ idequeue \in Seq(Bufs) /\ idequeue # <<>> /\ InFlight /\ Stored
  BY <1>1, Zenon DEF IInv, TypeOK, InFlight
<1>3. PICK h \in Users : pc[h] = "iderw_asleep" /\ b[h] = x
  BY <1>2, HeadHeld, Zenon
<1>4. x \in Bufs /\ x = idequeue[1] /\ 1 \in 1 .. Len(idequeue) /\ buf[x].blockno \in Blocknos
  BY <1>2, HeadHeld, Zenon
<1>5. drive.write = buf[x].dirty /\ drive.blockno = buf[x].blockno
  BY <1>1, <1>2, Zenon DEF InFlight
<1>6. /\ buf[x].dirty => disk[buf[x].blockno] = "last"
      /\ ~buf[x].dirty /\ drive.state = "done" => drive.data = "last"
  <2>1. drive.state \in {"done", "error"}
    BY <1>1, <1>2, Zenon DEF Commands
  <2> QED
    BY <1>1, <1>2, <1>5, <2>1, Zenon DEF InFlight
<1> HIDE DEF x
<1>7. /\ buf' \in [Bufs -> Buffers]
      /\ \A y \in Bufs : y # x => buf'[y] = buf[y]
      /\ buf'[x].blockno = buf[x].blockno /\ buf'[x].busy = buf[x].busy
      /\ buf'[x].valid /\ ~buf'[x].dirty /\ buf'[x].data # "old"
  <2>1. drive.data \in {"last", "old", "bad"} /\ buf[x] \in Buffers
    BY <1>2, <1>4, Zenon DEF Commands
  <2>2. buf[x].dirty => buf[x].data = "last"
    BY <1>2, <1>4, Zenon DEF Stored
  <2>3. d \in {"last", "bad"}
    BY <1>6, <2>2, Zenon
  <2> HIDE DEF d
  <2>4. /\ \A y \in Bufs : y # x => buf'[y] = buf[y]
        /\ buf'[x].blockno = buf[x].blockno /\ buf'[x].busy = buf[x].busy
        /\ buf'[x].valid /\ ~buf'[x].dirty /\ buf'[x].data # "old"
    BY <1>1, <1>2, <1>4, <2>1, <2>3, Zenon DEF Buffers
  <2>5. buf' \in [Bufs -> Buffers]
    BY <1>1, <1>2, <1>4, <2>1, <2>3, Zenon DEF Buffers
  <2> QED
    BY <2>4, <2>5, Zenon
<1>8. /\ \A q \in Users : pc'[q] = IF b[q] = x /\ pc[q] = "bget_asleep" THEN "bget"
                                  ELSE IF b[q] = x /\ pc[q] = "iderw_asleep" THEN "iderw"
                                  ELSE pc[q]
      /\ pc' = [q \in Users |-> pc'[q]]
  BY <1>1, Zenon DEF Wakeup
<1>9. \A q \in Users : Holds(q)' <=> Holds(q)
  BY <1>8 DEF Holds
<1>10. \A q \in Users : Holds(q) /\ b[q] = x => pc[q] = "iderw_asleep"
  BY <1>3, Zenon DEF IInv, OneCopyOneHolder, Holds
<1>11. /\ idequeue' \in Seq(Bufs) /\ Len(idequeue') = Len(idequeue) - 1 /\ Len(idequeue) \in Nat
       /\ \A i \in 1 .. Len(idequeue') : idequeue'[i] = idequeue[i + 1]
  BY <1>1, <1>2
<1>12. \A i, j \in 1 .. Len(idequeue) : idequeue[i] = idequeue[j] => i = j
  BY Zenon DEF IInv, Lined
<1>13. \A i \in 1 .. Len(idequeue') : idequeue'[i] \in Bufs /\ idequeue'[i] # x
  BY <1>4, <1>11, <1>12
<1>14. OneCopyOneHolder'
  <2>1. OneCopyOneHolder
    BY Zenon DEF IInv
  <2>2. \A y \in Bufs : buf'[y].blockno = buf[y].blockno /\ buf'[y].busy = buf[y].busy
    BY <1>7, Zenon
  <2> QED
    BY <1>1, <1>9, <2>1, <2>2 DEF OneCopyOneHolder
<1>15. ASSUME NEW q \in Users PROVE HeldBy(q)'
  <2>1. HeldBy(q)
    BY Zenon DEF IInv, Held
  <2>2. pc[q] \in {"iderw", "held", "release"} => Holds(q) /\ b[q] # x
    BY <1>10, Zenon DEF Holds
  <2>3. pc'[q] \in {"iderw", "held", "release"} => b[q] = x \/ pc'[q] = pc[q]
    BY <1>8
  <2>4. pc'[q] # "user" => pc[q] # "user"
    BY <1>8
  <2> QED
    BY <1>1, <1>7, <1>9, <2>1, <2>2, <2>3, <2>4 DEF HeldBy
<1>16. Held'
  BY <1>15, Zenon DEF Held
<1>17. Waiting'
  <2>1. ASSUME NEW q \in Users, pc'[q] = "bget_asleep" PROVE b[q] \in Bufs /\ buf'[b[q]].busy
    <3>1. pc[q] = "bget_asleep" /\ b[q] # x
      BY <1>8, <2>1
    <3> QED
      BY <1>7, <3>1, Zenon DEF IInv, Waiting
  <2> QED
    BY <1>1, <2>1, Zenon DEF Waiting
<1>18. Lined'
  <2>1. \A i, j \in 1 .. Len(idequeue') : idequeue'[i] = idequeue'[j] => i = j
    BY <1>11, <1>12
  <2>2. ASSUME NEW i \in 1 .. Len(idequeue')
        PROVE  \E q \in Users : pc'[q] = "iderw_asleep" /\ b[q] = idequeue'[i]
    <3>1. i + 1 \in 1 .. Len(idequeue) /\ idequeue'[i] = idequeue[i + 1]
      BY <1>11
    <3>2. PICK q \in Users : pc[q] = "iderw_asleep" /\ b[q] = idequeue[i + 1]
      BY <3>1, Zenon DEF IInv, Lined
    <3>3. pc'[q] = "iderw_asleep"
      BY <1>8, <1>13, <3>1, <3>2, Zenon
    <3> QED
      BY <3>1, <3>2, <3>3, Zenon
  <2>3. ASSUME NEW q \in Users, pc'[q] = "iderw_asleep"
        PROVE  \E i \in 1 .. Len(idequeue') : idequeue'[i] = b[q]
    <3>1. pc[q] = "iderw_asleep" /\ b[q] # x
      BY <1>8, <2>3
    <3>2. PICK j \in 1 .. Len(idequeue) : idequeue[j] = b[q]
      BY <3>1, Zenon DEF IInv, Lined
    <3>3. j # 1
      BY <1>4, <3>1, <3>2, Zenon
    <3>4. j - 1 \in 1 .. Len(idequeue') /\ idequeue'[j - 1] = b[q]
      BY <1>11, <3>2, <3>3
    <3> QED
      BY <3>4, Zenon
  <2> QED
    BY <1>1, <2>1, <2>2, <2>3, ZenonT(40) DEF Lined
<1>19. Stored'
  <2>1. ASSUME NEW k \in Blocknos, disk[k] = "old"
        PROVE  \E y \in Bufs : buf'[y].blockno = k /\ buf'[y].dirty
    <3>1. PICK y \in Bufs : buf[y].blockno = k /\ buf[y].dirty
      BY <1>2, <2>1, Zenon DEF Stored
    <3>2. y # x
      BY <1>6, <2>1, <3>1, Zenon
    <3> QED
      BY <1>7, <3>1, <3>2, Zenon
  <2>2. \A y \in Bufs : /\ buf'[y].valid => buf'[y].data # "old"
                        /\ buf'[y].dirty => buf'[y].valid /\ buf'[y].data = "last"
    BY <1>2, <1>7 DEF Stored
  <2> QED
    BY <1>1, <2>1, <2>2, Zenon DEF Stored
<1>20. drive' \in Commands \union {None} /\ InFlight'
  <2>1. CASE idequeue' = <<>>
    BY <1>1, <2>1, Zenon DEF InFlight
  <2>2. CASE idequeue' # <<>>
    <3> DEFINE y == Head(idequeue')
    <3>1. y \in Bufs /\ y # x /\ y = idequeue[2] /\ 2 \in 1 .. Len(idequeue)
      <4>1. y = idequeue'[1] /\ 1 \in 1 .. Len(idequeue')
        BY <1>11, <2>2
      <4> QED
        BY <1>11, <1>13, <4>1
    <3>2. buf[y].blockno \in Blocknos
      <4>1. PICK q \in Users : pc[q] = "iderw_asleep" /\ b[q] = idequeue[2]
        BY <3>1, Zenon DEF IInv, Lined
      <4>2. HeldBy(q) /\ Holds(q) /\ pc[q] # "user"
        BY <4>1, Zenon DEF IInv, Held, Holds
      <4> QED
        BY <3>1, <4>1, <4>2, Zenon DEF HeldBy
    <3>3. drive' = [blockno |-> buf'[y].blockno, write |-> buf'[y].dirty,
                    data |-> buf'[y].data, state |-> "started"]
      BY <1>1, <2>2, Zenon DEF idestart
    <3>4. buf'[y] = buf[y] /\ buf[y] \in Buffers /\ (buf[y].dirty => buf[y].data = "last")
      BY <1>2, <1>7, <3>1, Zenon DEF Stored
    <3> HIDE DEF y
    <3>5. /\ drive' \in Commands
          /\ drive'.blockno = buf'[y].blockno /\ drive'.write = buf'[y].dirty
          /\ drive'.data = buf'[y].data /\ drive'.state = "started"
      BY <3>2, <3>3, <3>4, Zenon DEF Buffers, Commands
    <3>6. InFlight'
      BY <2>2, <3>4, <3>5, BcacheConstants, Zenon DEF InFlight, y
    <3> QED
      BY <3>5, <3>6, Zenon
  <2> QED
    BY <2>1, <2>2, Zenon
<1>21. TypeOK'
  <2>1. pc' \in [Users -> Places]
    <3>1. \A q \in Users : pc'[q] \in Places
      BY <1>2, <1>8 DEF Places
    <3> QED
      BY <1>8, <3>1, Zenon
  <2> QED
    BY <1>1, <1>7, <1>11, <1>20, <2>1, ZenonT(40) DEF IInv, TypeOK
<1> QED
  BY <1>14, <1>16, <1>17, <1>18, <1>19, <1>20, <1>21, Zenon DEF IInv

\* Every step keeps the invariant.
LEMMA NextInv == ASSUME IInv, [Next]_vars PROVE IInv'
<1>1. ASSUME NEW p \in Users, Step(p) PROVE IInv'
  BY <1>1, BgetCachedInv, BgetRecycleInv, BreadInv, IderwTestInv, BrelseInv, Zenon DEF Step
<1>2. ASSUME NEW p \in Users, NEW k \in Blocknos, BreadCall(p, k) PROVE IInv'
  BY <1>2, BreadCallInv, Zenon
<1>3. ASSUME NEW p \in Users, Bwrite(p) \/ LogWrite(p) PROVE IInv'
  BY <1>3, BwriteInv, LogWriteInv, Zenon
<1>4. CASE DriveDone \/ ideintr
  BY <1>4, DriveDoneInv, IdeintrInv, Zenon
<1>5. CASE UNCHANGED vars
  BY <1>5, Stutter, Zenon DEF vars
<1> QED
  BY <1>1, <1>2, <1>3, <1>4, <1>5, Zenon DEF Next

----------------------------------------------------------------------------
(* The pool                                                                *)

\* Only log_write() pins a buffer.
LEMMA PinnedShrinks ==
  ASSUME IInv, [Next]_vars, \A p \in Users : ~LogWrite(p)
  PROVE  Pinned' \subseteq Pinned
<1>1. buf \in [Bufs -> Buffers] /\ idequeue \in Seq(Bufs) /\ b \in [Users -> Bufs \union {None}]
  BY Zenon DEF IInv, TypeOK
<1>2. CASE UNCHANGED <<buf, idequeue>>
  BY <1>2, Zenon DEF Pinned, Queued
<1>3. ASSUME UNCHANGED idequeue, \A y \in Bufs : buf'[y].dirty => buf[y].dirty
      PROVE  Pinned' \subseteq Pinned
  BY <1>3, Zenon DEF Pinned, Queued
<1>4. ASSUME NEW p \in Users, BgetCached(p) PROVE Pinned' \subseteq Pinned
  <2>1. PICK x \in Bufs : buf' = buf \/ buf' = [buf EXCEPT ![x].busy = TRUE]
    BY <1>4, Zenon DEF BgetCached
  <2>2. \A y \in Bufs : buf'[y].dirty => buf[y].dirty
    BY <1>1, <2>1 DEF Buffers
  <2> QED
    BY <1>3, <1>4, <2>2, Zenon DEF BgetCached
<1>5. ASSUME NEW p \in Users, BgetRecycle(p) PROVE Pinned' \subseteq Pinned
  <2>1. \/ buf' = buf
        \/ \E x : buf' = [buf EXCEPT ![x] = [@ EXCEPT !.blockno = want[p], !.busy = TRUE,
                                                      !.valid = FALSE, !.dirty = FALSE]]
    BY <1>5, ZenonT(40) DEF BgetRecycle
  <2>2. \A y \in Bufs : buf'[y].dirty => buf[y].dirty
    BY <1>1, <2>1, ZenonT(40) DEF Buffers
  <2> QED
    BY <1>3, <1>5, <2>2, Zenon DEF BgetRecycle
<1>6. ASSUME NEW p \in Users, brelse(p) PROVE Pinned' \subseteq Pinned
  <2>1. buf' = [buf EXCEPT ![b[p]].busy = FALSE] /\ UNCHANGED idequeue
    BY <1>6, Zenon DEF brelse
  <2>2. \A y \in Bufs : buf'[y].dirty => buf[y].dirty
    BY <1>1, <2>1 DEF Buffers
  <2> QED
    BY <1>3, <2>1, <2>2, Zenon
<1>7. ASSUME NEW p \in Users, Bread(p) \/ Bwrite(p) PROVE Pinned' \subseteq Pinned
  <2>1. Holds(p)
    BY <1>7, Zenon DEF Bread, Bwrite, Holds
  <2>2. b[p] \in Bufs
    BY <2>1, Zenon DEF IInv, Held, HeldBy
  <2>3. \A y \in Bufs : y # b[p] => buf'[y] = buf[y]
    BY <1>1, <1>7, <2>2, Zenon DEF Bread, Bwrite, Store
  <2>4. UNCHANGED <<buf, idequeue>> \/ idequeue' = Append(idequeue, b[p])
    BY <1>7, Zenon DEF Bread, Bwrite, iderw
  <2>5. CASE idequeue' = Append(idequeue, b[p])
    <3>1. /\ b[p] \in Queued' /\ Queued \subseteq Queued'
      BY <1>1, <2>2, <2>5 DEF Queued
    <3> QED
      BY <2>3, <3>1, Zenon DEF Pinned
  <2> QED
    BY <1>2, <2>4, <2>5, Zenon
<1>8. CASE ideintr
  <2> DEFINE x == Head(idequeue)
  <2>1. /\ idequeue # <<>> /\ idequeue' = Tail(idequeue)
    BY <1>8, Zenon DEF ideintr, IInv, InFlight
  <2>2. x \in Bufs
    BY <2>1, HeadHeld, Zenon
  <2>3. PICK d : buf' = [buf EXCEPT ![x] = [@ EXCEPT !.valid = TRUE, !.dirty = FALSE, !.data = d]]
    BY <1>8, Zenon DEF ideintr
  <2>4. ~buf'[x].dirty /\ \A y \in Bufs : y # x => buf'[y] = buf[y]
    BY <1>1, <2>2, <2>3 DEF Buffers
  <2>5. \A y \in Queued : y = x \/ y \in Queued'
    <3>1. ASSUME NEW i \in 1 .. Len(idequeue), i # 1 PROVE idequeue[i] \in Queued'
      <4>1. i - 1 \in DOMAIN Tail(idequeue) /\ Tail(idequeue)[i - 1] = idequeue[i]
        BY <1>1, <2>1, <3>1
      <4> QED
        BY <2>1, <4>1, Zenon DEF Queued
    <3>2. x = idequeue[1] /\ DOMAIN idequeue = 1 .. Len(idequeue)
      BY <1>1, <2>1
    <3> QED
      BY <3>1, <3>2, Zenon DEF Queued
  <2> HIDE DEF x
  <2> QED
    BY <2>4, <2>5, Zenon DEF Pinned
<1>9. CASE \/ DriveDone \/ UNCHANGED vars
           \/ \E p \in Users : IderwTest(p) \/ \E k \in Blocknos : BreadCall(p, k)
  BY <1>2, <1>9, Zenon DEF DriveDone, vars, IderwTest, BreadCall
<1> QED
  BY <1>4, <1>5, <1>6, <1>7, <1>8, <1>9, ZenonT(30) DEF Next, Step

F == INSTANCE FiniteSetTheorems

\* The library counts as Bcache does.
LEMMA SameCount ==
  /\ \A S : F!IsFiniteSet(S) <=> IsFiniteSet(S)
  /\ \A S : F!Cardinality(S) = Cardinality(S)
<1>1. \A S : F!IsFiniteSet(S) <=> IsFiniteSet(S)
  BY DEF F!IsFiniteSet, IsFiniteSet
<1>2. \A S : F!Cardinality(S) = Cardinality(S)
  BY DEF F!Cardinality, Cardinality
<1> QED
  BY <1>1, <1>2, Zenon

\* The log pins no more buffers than it may.
LEMMA PinnedStaysFew == ASSUME IInv, PinnedFew, [Next]_vars PROVE PinnedFew'
<1>1. /\ IsFiniteSet(Pinned) /\ IsFiniteSet(Pinned')
      /\ Cardinality(Pinned) \in Nat /\ Cardinality(Pinned') \in Nat
  <2>1. Pinned \in SUBSET Bufs /\ Pinned' \in SUBSET Bufs /\ IsFiniteSet(Bufs)
    BY BcacheConstants, Zenon DEF Pinned
  <2>2. IsFiniteSet(Pinned) /\ IsFiniteSet(Pinned')
    BY <2>1, F!FS_Subset, SameCount
  <2> QED
    BY <2>2, F!FS_CardinalityType, SameCount
<1>2. CASE Pinned' \subseteq Pinned
  <2>1. Cardinality(Pinned') <= Cardinality(Pinned)
    BY <1>1, <1>2, F!FS_Subset, SameCount
  <2> QED
    BY <1>1, <2>1, BcacheConstants DEF PinnedFew
<1>3. ASSUME NEW p \in Users, LogWrite(p), ~(Pinned' \subseteq Pinned) PROVE PinnedFew'
  <2>1. /\ pc[p] = "held" /\ Store(p) /\ UNCHANGED idequeue
        /\ buf[b[p]].dirty \/ Cardinality(Pinned) < MaxPinned
    BY <1>3, Zenon DEF LogWrite
  <2>2. \A y \in Bufs : y # b[p] => buf'[y] = buf[y]
    BY <2>1, Stores, Zenon
  <2>3. Holds(p) /\ pc[p] # "iderw_asleep"
    BY <2>1, Zenon DEF Holds
  <2>4. b[p] \in Bufs /\ b[p] \notin Queued
    <3>1. \A i \in 1 .. Len(idequeue) : idequeue[i] # b[p]
      BY <2>3, NotQueued, Zenon
    <3>2. DOMAIN idequeue = 1 .. Len(idequeue)
      BY DEF IInv, TypeOK
    <3> QED
      BY <2>3, <3>1, <3>2, Zenon DEF IInv, Held, HeldBy, Queued
  <2>5. Pinned' \subseteq Pinned \union {b[p]}
    BY <2>1, <2>2, Zenon DEF Pinned, Queued
  <2>6. ~buf[b[p]].dirty
    BY <1>3, <2>4, <2>5, Zenon DEF Pinned
  <2>7. Cardinality(Pinned') <= Cardinality(Pinned \union {b[p]})
    <3>1. IsFiniteSet(Pinned \union {b[p]})
      BY <1>1, F!FS_AddElement, SameCount, Zenon
    <3> QED
      BY <2>5, <3>1, F!FS_Subset, SameCount
  <2>8. Cardinality(Pinned \union {b[p]}) = Cardinality(Pinned) + 1
    <3>1. b[p] \notin Pinned
      BY <2>6, Zenon DEF Pinned
    <3> QED
      BY <1>1, <3>1, F!FS_AddElement, SameCount, Zenon
  <2> QED
    BY <1>1, <2>1, <2>6, <2>7, <2>8, BcacheConstants DEF PinnedFew
<1> QED
  BY <1>2, <1>3, PinnedShrinks, Zenon

\* A process that looks for a buffer holds none, so there is one for it.
LEMMA SomeRecyclable ==
  ASSUME IInv, PinnedFew, NEW p \in Users, pc[p] = "bget"
  PROVE  \E i \in DOMAIN mru : Recyclable(mru[i])
<1>1. SUFFICES ASSUME \A x \in Bufs : ~Recyclable(x) PROVE FALSE
  <2>1. \A x \in Bufs : \E i \in DOMAIN mru : mru[i] = x
    BY Zenon DEF IInv, TypeOK
  <2> QED
    BY <2>1, Zenon
<1> DEFINE S == Bufs \ Pinned
           T == Users \ {p}
           f == [x \in S |-> CHOOSE q \in T : Holds(q) /\ b[q] = x]
<1>2. ASSUME NEW x \in S PROVE \E q \in T : Holds(q) /\ b[q] = x
  <2>1. buf[x].busy
    <3>1. CASE x \in Queued
      <4>1. PICK i \in 1 .. Len(idequeue) : x = idequeue[i]
        <5>1. DOMAIN idequeue = 1 .. Len(idequeue)
          BY DEF IInv, TypeOK
        <5> QED
          BY <3>1, <5>1, Zenon DEF Queued
      <4> QED
        BY <4>1, FreeBuffer, Zenon
    <3>2. CASE x \notin Queued
      BY <1>1, <3>2, Zenon DEF Recyclable, Pinned
    <3> QED
      BY <3>1, <3>2, Zenon
  <2>2. PICK q \in Users : Holds(q) /\ b[q] = x
    BY <2>1, Zenon DEF IInv, OneCopyOneHolder
  <2>3. q # p
    BY <2>2, Zenon DEF Holds
  <2> QED
    BY <2>2, <2>3, Zenon
<1>3. f \in [S -> T] /\ \A x \in S : b[f[x]] = x
  BY <1>2, Zenon
<1>4. /\ IsFiniteSet(S) /\ IsFiniteSet(T)
      /\ Cardinality(T) < Cardinality(S)
  <2>1. /\ IsFiniteSet(Users) /\ IsFiniteSet(Bufs) /\ MaxPinned \in Nat
        /\ Cardinality(Bufs) >= Cardinality(Users) + MaxPinned
    BY BcacheConstants, Zenon
  <2>2. IsFiniteSet(S) /\ Cardinality(S) = Cardinality(Bufs) - Cardinality(Bufs \cap Pinned)
    BY <2>1, F!FS_Difference, SameCount, Zenon
  <2>3. IsFiniteSet(T) /\ Cardinality(T) = Cardinality(Users) - 1
    BY <2>1, F!FS_RemoveElement, SameCount
  <2>4. Bufs \cap Pinned = Pinned
    BY Zenon DEF Pinned
  <2>5. IsFiniteSet(Pinned)
    <3>1. Pinned \in SUBSET Bufs
      BY Zenon DEF Pinned
    <3> QED
      BY <2>1, <3>1, F!FS_Subset, SameCount
  <2>6. Cardinality(Bufs) \in Nat /\ Cardinality(Users) \in Nat /\ Cardinality(Pinned) \in Nat
    BY <2>1, <2>5, F!FS_CardinalityType, SameCount
  <2> HIDE DEF S, T
  <2>7. Cardinality(S) = Cardinality(Bufs) - Cardinality(Pinned)
    BY <2>2, <2>4, Zenon
  <2>8. Cardinality(T) < Cardinality(S)
    BY <2>1, <2>3, <2>6, <2>7 DEF PinnedFew
  <2> QED
    BY <2>2, <2>3, <2>8, Zenon
<1> HIDE DEF S, T, f
<1>5. \E x, y \in S : x # y /\ f[x] = f[y]
  BY <1>3, <1>4, F!FS_PigeonHole, SameCount
<1> QED
  BY <1>3, <1>5, Zenon

\* binit() starts with every buffer free and the queue empty.
LEMMA InitInv == ASSUME Init PROVE IInv
<1>1. mru \in Seq(Bufs) /\ \A x \in Bufs : \E i \in DOMAIN mru : mru[i] = x
  <2>1. Cardinality(Bufs) \in Nat
    BY F!FS_CardinalityType, SameCount, BcacheConstants
  <2> QED
    BY <2>1 DEF Init, Orders
<1>2. TypeOK
  BY <1>1 DEF Init, TypeOK, Buffers, Places
<1>3. OneCopyOneHolder /\ Held /\ Waiting
  BY Zenon DEF Init, OneCopyOneHolder, Held, HeldBy, Waiting, Holds
<1>4. Lined /\ Stored /\ InFlight
  BY DEF Init, Lined, Stored, InFlight
<1> QED
  BY <1>2, <1>3, <1>4, Zenon DEF IInv

----------------------------------------------------------------------------
(* The theorems                                                            *)

\* The invariant holds in every reachable state.
THEOREM Invariance == Spec => []IInv
<1>1. IInv /\ [Next]_vars => IInv'
  BY NextInv
<1> QED
  BY <1>1, InitInv, PTL DEF Spec

\* bget(), bread() and brelse(): two processes never hold one buffer, two
\* buffers never hold one block, and what bread() returns is what was stored
\* in the block last, through the cache, the queue or the disk, for any number
\* of processes, buffers and blocks.
THEOREM ReadsTheLastStore == Spec => []CacheIsCoherent
<1>1. IInv => CacheIsCoherent
  <2> SUFFICES ASSUME IInv PROVE ReadsLastStore
    BY Zenon DEF IInv, CacheIsCoherent
  <2> SUFFICES ASSUME NEW p \in Users, pc[p] = "held"
               PROVE  buf[b[p]].blockno = want[p] /\ buf[b[p]].data # "old"
    BY Zenon DEF ReadsLastStore
  <2>1. /\ b[p] \in Bufs /\ buf[b[p]].blockno = want[p] /\ buf[b[p]].valid
    BY Zenon DEF IInv, Held, HeldBy, Holds
  <2> QED
    BY <2>1, Zenon DEF IInv, Stored
<1> QED
  BY <1>1, Invariance, PTL

\* iderw(), ideintr() and brelse(): who sleeps in iderw() is queued and the
\* drive has a command while the queue is not empty; who sleeps in bget()
\* waits for a buffer that somebody holds.
THEOREM SleepersAreWoken == Spec => []SleeperHasWaker
<1>1. IInv => SleeperHasWaker
  <2> SUFFICES ASSUME IInv PROVE SleeperHasWaker
    OBVIOUS
  <2>1. DOMAIN idequeue = 1 .. Len(idequeue)
    BY DEF IInv, TypeOK
  <2>2. ASSUME NEW p \in Users, pc[p] = "iderw_asleep" PROVE b[p] \in Queued
    <3>1. PICK i \in 1 .. Len(idequeue) : idequeue[i] = b[p]
      BY <2>2, Zenon DEF IInv, Lined
    <3> QED
      BY <2>1, <3>1, Zenon DEF Queued
  <2> QED
    BY <2>2, Zenon DEF IInv, Waiting, InFlight, SleeperHasWaker
<1> QED
  BY <1>1, Invariance, PTL

\* bget() does not panic: with a buffer for each process and for each block
\* that the log may pin there is always one to recycle.
THEOREM NeverOutOfBuffers == Spec => []PoolSuffices
<1> DEFINE PInv == IInv /\ PinnedFew /\ ~oops
<1>1. Init => PInv
  <2> SUFFICES ASSUME Init PROVE PinnedFew /\ ~oops
    BY InitInv
  <2>1. Pinned = {} /\ ~oops
    BY Zenon DEF Init, Pinned
  <2>2. Cardinality(Pinned) = 0
    BY <2>1, F!FS_EmptySet, SameCount
  <2> QED
    BY <2>1, <2>2, BcacheConstants DEF PinnedFew
<1>2. PInv /\ [Next]_vars => PInv'
  <2> SUFFICES ASSUME PInv, [Next]_vars PROVE ~oops'
    BY NextInv, PinnedStaysFew
  <2>1. ASSUME NEW p \in Users, BgetRecycle(p) PROVE ~oops'
    <3>1. \E i \in DOMAIN mru : Recyclable(mru[i])
      BY <2>1, SomeRecyclable, Zenon DEF BgetRecycle
    <3> QED
      BY <2>1, <3>1, Zenon DEF BgetRecycle
  <2>2. CASE UNCHANGED oops
    BY <2>2, Zenon
  <2> QED
    BY <2>1, <2>2, ZenonT(30) DEF Next, Step, vars, BgetCached, Bread, IderwTest, brelse, BreadCall,
       Bwrite, LogWrite, DriveDone, ideintr
<1>3. PInv => PoolSuffices
  BY Zenon DEF PoolSuffices
<1> QED
  BY <1>1, <1>2, <1>3, PTL DEF Spec
=============================================================================
