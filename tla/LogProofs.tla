----------------------------- MODULE LogProofs -----------------------------
(***************************************************************************)
(* The write-ahead log, for any number of processes, blocks and values:    *)
(* the reservation of begin_op() keeps a transaction inside the log area,  *)
(* no panic() is reached, nothing that ended is lost, and the log          *)
(* implements AtomicDisk: a crash at any point, in recovery too, leaves    *)
(* the disk as some moment without an operation in progress saw it.        *)
(*                                                                         *)
(* The first part has the inductive invariant and the reservation, the     *)
(* second the proof that every step keeps the invariant as long as the     *)
(* transaction fits in the log area: begin_op(), log_write(), end_op(),    *)
(* commit(), the buffer cache, a crash and the recovery.  The third shows, *)
(* action by action, that what bread() returns (View) and what recovery    *)
(* would leave on the disk (Recovered) follow a step of AtomicDisk or stay *)
(* as they are.  The theorems are at the end.                              *)
(***************************************************************************)
EXTENDS Log, TLAPS

\* Some process is at the given place of commit().
At(place) == \E p \in Procs : pc[p] = place

\* After a reboot, before the first system call: nobody does anything.
Quiet == mode \notin {"up", "panic"} =>
  /\ outstanding = 0
  /\ ~committing
  /\ pc = [p \in Procs |-> "idle"]
  /\ hold = [p \in Procs |-> Header]
  /\ dirty = {}

\* log.outstanding counts the operations between begin_op() and end_op().
Counted == mode = "up" => outstanding = Cardinality(Active)

\* log.committing keeps everybody out but the one who commits.
OneCommitter == mode = "up" =>
  /\ \A p, q \in Committers : p = q
  /\ committing <=> Committers # {}
  /\ committing => Active = {}

\* B_BUSY gives a buffer to one process at a time.
Holders == mode = "up" =>
  /\ \A p \in Procs : hold[p] # Header <=> pc[p] = "log_write"
  /\ \A p \in Procs : hold[p] # Header => cache[hold[p]] # NoBuf
  /\ \A p, q \in Procs : hold[p] = hold[q] /\ hold[p] # Header => p = q

\* Log absorption: no block is listed twice.
Distinct == /\ \A i, j \in 1 .. Len(lh) : lh[i] = lh[j] => i = j
            /\ \A i, j \in 1 .. Len(head) : head[i] = head[j] => i = j

\* The header on disk lists the transaction between the commit point and its
\* erasure only.
HeadOnDisk ==
  /\ mode = "up" /\ (At("install") \/ At("erase")) => head = lh
  /\ mode = "up" /\ ~At("install") /\ ~At("erase") => head = <<>>
  /\ mode = "read_head" => lh = <<>>
  /\ mode \in {"install", "erase"} => head = lh

\* The loops over the transaction start at its first block and end after its
\* last one.
LoopIndex ==
  /\ mode = "up" /\ (At("write_log") \/ At("install")) => tail <= Len(lh)
  /\ mode = "up" /\ At("write_head") => tail = 1 /\ lh # <<>>
  /\ mode = "up" /\ At("committed") => lh = <<>>
  /\ mode = "read_head" => tail = 1
  /\ mode = "install" => tail <= Len(lh)

\* Exactly the logged blocks that are not yet installed are pinned in the
\* cache with B_DIRTY.
Pinned == mode = "up" =>
  \A a \in Blocks : a \in dirty <=>
     \E i \in 1 .. Len(lh) : lh[i] = a /\ (At("install") => i >= tail) /\ ~At("erase")

\* A buffer that is neither pinned nor being changed agrees with the disk.
Coherent == mode # "panic" =>
  \A a \in Blocks : cache[a] \in {NoBuf, disk[a]} \/ a \in dirty \/ Busy(a)

\* The log blocks hold the transaction before the header says so, and until
\* it has been installed.
Logged == mode = "up" =>
  /\ At("write_log") => \A i \in 1 .. tail - 1 : disk[i] = cache[lh[i]]
  /\ At("write_head") => \A i \in 1 .. Len(lh) : disk[i] = cache[lh[i]]
  /\ At("install") => /\ \A i \in 1 .. Len(lh) : disk[i] = Bread(lh[i])
                      /\ \A i \in 1 .. tail - 1 : disk[lh[i]] = disk[i]
  /\ At("erase") => \A i \in 1 .. Len(lh) : disk[lh[i]] = disk[i]

\* Recovery has redone the blocks before tail, and all of them in the end.
Redone ==
  /\ mode = "install" => \A i \in 1 .. tail - 1 : disk[lh[i]] = disk[i]
  /\ mode = "erase" => \A i \in 1 .. Len(lh) : disk[lh[i]] = disk[i]

HeadFits == Len(head) <= NLOG - 1

\* The inductive invariant, given that transactions fit.
IInv == /\ TypeOK /\ HeadFits /\ Quiet /\ Counted /\ OneCommitter /\ Holders
        /\ Distinct /\ HeadOnDisk /\ LoopIndex /\ Pinned /\ Coherent /\ Logged
        /\ Redone

----------------------------------------------------------------------------
(* Counting.  What the proofs need to know about finite sets is a          *)
(* hypothesis of the lemmas that count; the end of LogProofs discharges it *)
(* with the theorems of the library.                                       *)

Counting ==
  /\ IsFiniteSet({}) /\ Cardinality({}) = 0
  /\ \A x : IsFiniteSet({x}) /\ Cardinality({x}) = 1
  /\ \A S : IsFiniteSet(S) => Cardinality(S) \in Nat /\ (Cardinality(S) = 0 <=> S = {})
  /\ \A S : IsFiniteSet(S) =>
       \A T \in SUBSET S : IsFiniteSet(T) /\ Cardinality(T) <= Cardinality(S)
  /\ \A S, x : IsFiniteSet(S) =>
       /\ IsFiniteSet(S \union {x})
       /\ Cardinality(S \union {x}) = IF x \in S THEN Cardinality(S) ELSE Cardinality(S) + 1
  /\ \A S, x : IsFiniteSet(S) =>
       /\ IsFiniteSet(S \ {x})
       /\ Cardinality(S \ {x}) = IF x \in S THEN Cardinality(S) - 1 ELSE Cardinality(S)
  /\ \A m, n \in Nat : /\ IsFiniteSet(m .. n)
                       /\ Cardinality(m .. n) = IF m > n THEN 0 ELSE n - m + 1
  /\ \A S, T : IsFiniteSet(S) /\ IsFiniteSet(T) =>
       IsFiniteSet(S \X T) /\ Cardinality(S \X T) = Cardinality(S) * Cardinality(T)

\* The facts of Counting, one by one.
LEMMA EmptyCount ==
  ASSUME Counting
  PROVE  /\ IsFiniteSet({}) /\ Cardinality({}) = 0
         /\ \A S : IsFiniteSet(S) => Cardinality(S) \in Nat /\ (Cardinality(S) = 0 <=> S = {})
  BY Zenon DEF Counting

\* Counting a subset.
LEMMA SubsetCount ==
  ASSUME Counting, NEW S, IsFiniteSet(S), NEW T \in SUBSET S
  PROVE  IsFiniteSet(T) /\ Cardinality(T) <= Cardinality(S)
  BY Zenon DEF Counting

\* Counting after an element was added.
LEMMA AddCount ==
  ASSUME Counting, NEW S, NEW x, IsFiniteSet(S)
  PROVE  /\ IsFiniteSet(S \union {x})
         /\ Cardinality(S \union {x}) = IF x \in S THEN Cardinality(S) ELSE Cardinality(S) + 1
  BY Zenon DEF Counting

\* Counting after an element was removed.
LEMMA RemoveCount ==
  ASSUME Counting, NEW S, NEW x, IsFiniteSet(S)
  PROVE  /\ IsFiniteSet(S \ {x})
         /\ Cardinality(S \ {x}) = IF x \in S THEN Cardinality(S) - 1 ELSE Cardinality(S)
  BY Zenon DEF Counting

----------------------------------------------------------------------------

\* The log blocks lie before the home blocks, and the header before both.
LEMMA Addresses ==
  /\ \A i \in 1 .. NLOG - 1 : i \in Blocks /\ i \notin Home
  /\ Home \subseteq Blocks
  /\ Header \notin Home /\ Header \notin Blocks
  BY LogConstants DEF Home, Blocks, Header

\* The transaction lists home blocks, and when it fits its copies do not.
LEMMA Listed ==
  ASSUME TypeOK
  PROVE  /\ Len(lh) \in Nat
         /\ \A i \in 1 .. Len(lh) : lh[i] \in Home /\ lh[i] \in Blocks
         /\ LogFits => \A i \in 1 .. Len(lh) : i \in Blocks /\ i \notin Home
<1>1. Len(lh) \in Nat /\ \A i \in 1 .. Len(lh) : lh[i] \in Home
  BY DEF TypeOK
<1>3. LogFits => \A i \in 1 .. Len(lh) : i \in 1 .. NLOG - 1
  BY LogConstants DEF LogFits
<1> QED
  BY <1>1, <1>3, Addresses, Zenon

\* An empty transaction, in memory and on the disk.
LEMMA EmptyLog ==
  ASSUME lh' = <<>>, head' = <<>>
  PROVE  (HeadFits /\ Distinct)' /\ 1 .. Len(lh') = {}
  BY LogConstants DEF HeadFits, Distinct

\* Every initial state satisfies the invariant.
LEMMA InitInv == Init => IInv
<1> SUFFICES ASSUME Init PROVE IInv
  OBVIOUS
<1>1. TypeOK
  <2>2. disk \in [Blocks -> Vals] /\ hold \in [Procs -> Home \union {Header}]
    BY LogConstants, Zenon DEF Init
  <2>3. committing \in BOOLEAN
    BY Zenon DEF Init
  <2> QED
    BY <2>2, <2>3 DEF Init, TypeOK
<1>2. Quiet /\ Counted /\ OneCommitter /\ Holders /\ Pinned /\ Logged
  BY Zenon DEF Init, Quiet, Counted, OneCommitter, Holders, Pinned, Logged
<1>3. HeadFits /\ Distinct /\ HeadOnDisk /\ LoopIndex /\ Coherent /\ Redone
  BY LogConstants DEF Init, HeadFits, Distinct, HeadOnDisk, LoopIndex, Coherent, Redone
<1> QED
  BY <1>1, <1>2, <1>3 DEF IInv

\* begin_op()
LEMMA BeginOpInv ==
  ASSUME Counting, IInv, NEW p \in Procs, BeginOp(p)
  PROVE  IInv'
<1> USE DEF IInv
<1>1. TypeOK'
  <2>1. CASE MustWait
    BY <2>1, Zenon DEF TypeOK, BeginOp, bufs
  <2>2. CASE ~MustWait
    <3>1. /\ outstanding' = outstanding + 1
          /\ pc' = [pc EXCEPT ![p] = "active"] /\ wrote' = [wrote EXCEPT ![p] = {}]
          /\ UNCHANGED <<committing, lh, hold, tail, cache, dirty, disk, head, mode>>
      BY <2>2, Zenon DEF BeginOp, bufs
    <3> QED
      BY <3>1 DEF TypeOK
  <2> QED
    BY <2>1, <2>2
<1>2. (Quiet /\ HeadFits /\ Distinct /\ Redone)'
  BY DEF BeginOp, bufs, Quiet, HeadFits, Distinct, Redone
<1>3. \A x \in {"write_log", "write_head", "install", "erase", "committed"} :
        At(x)' <=> At(x)
  BY DEF BeginOp, At, TypeOK
<1>4. (HeadOnDisk /\ LoopIndex /\ Pinned /\ Coherent /\ Logged)'
  BY <1>3 DEF BeginOp, bufs, HeadOnDisk, LoopIndex, Pinned, Coherent, Busy, Logged, Bread
<1>5. OneCommitter'
  BY DEF BeginOp, OneCommitter, Committers, Active, MustWait, TypeOK
<1>6. Holders'
  BY DEF BeginOp, bufs, Holders, TypeOK
<1>7. Counted'
  <2>1. CASE MustWait
    <3>1. Active' = Active
      BY <2>1, Zenon DEF BeginOp, Active, TypeOK
    <3> QED
      BY <2>1, <3>1, Zenon DEF BeginOp, Counted
  <2>2. CASE ~MustWait
    <3>1. Active' = Active \union {p} /\ p \notin Active
      BY <2>2 DEF BeginOp, Active, TypeOK
    <3>2. IsFiniteSet(Active)
      BY LogConstants, SubsetCount, Zenon DEF Active
    <3>3. Cardinality(Active') = Cardinality(Active) + 1
      BY <3>1, <3>2, AddCount, Zenon
    <3> QED
      BY <2>2, <3>3, Zenon DEF BeginOp, Counted
  <2> QED
    BY <2>1, <2>2
<1> QED
  BY <1>1, <1>2, <1>4, <1>5, <1>6, <1>7, Zenon

\* While an operation is in progress nobody commits.
LEMMA ActiveAlone ==
  ASSUME Counting, IInv, mode = "up", NEW p \in Active
  PROVE  /\ ~committing
         /\ \A x \in {"write_log", "write_head", "install", "erase", "committed"} : ~At(x)
         /\ head = <<>>
         /\ outstanding \in Nat \ {0}
<1>1. ~committing /\ Committers = {}
  BY Zenon DEF IInv, OneCommitter
<1>2. \A x \in {"write_log", "write_head", "install", "erase", "committed"} : ~At(x)
  BY <1>1 DEF At, Committers
<1>3. head = <<>>
  BY <1>2, Zenon DEF IInv, HeadOnDisk
<1>4. IsFiniteSet(Active) /\ Active # {}
  BY LogConstants, SubsetCount, Zenon DEF Active
<1>5. outstanding # 0
  BY <1>4, EmptyCount, Zenon DEF IInv, Counted
<1> QED
  BY <1>1, <1>2, <1>3, <1>5, Zenon DEF IInv, TypeOK

\* The one who commits is alone, and all buffers are free.
LEMMA CommitsAlone ==
  ASSUME IInv, mode = "up", NEW p \in Committers
  PROVE  /\ Active = {} /\ committing
         /\ \A q \in Procs : q # p => pc[q] \in {"idle", "asleep", "woken"}
         /\ \A a \in Blocks : ~Busy(a)
         /\ \A x \in {"write_log", "write_head", "install", "erase", "committed"} :
              At(x) <=> pc[p] = x
<1>1. Active = {} /\ committing
  BY DEF IInv, OneCommitter
<1>2. \A q \in Procs : q # p => pc[q] \in {"idle", "asleep", "woken"}
  BY DEF IInv, OneCommitter, TypeOK, Active, Committers
<1>3. \A a \in Blocks : ~Busy(a)
  BY <1>1, Addresses, Zenon DEF IInv, Holders, Busy, Active
<1>4. \A x \in {"write_log", "write_head", "install", "erase", "committed"} :
        At(x) <=> pc[p] = x
  BY <1>2 DEF At, Committers
<1> QED
  BY <1>1, <1>2, <1>3, <1>4, Zenon

----------------------------------------------------------------------------
(* The blocks an operation may still add                                   *)

\* What begin_op() has promised and the operations have not used yet: one
\* pair for each block that an operation may still add.
Promised == {t \in Procs \X (1 .. MAXOPBLOCKS) :
               t[1] \in Active /\ t[2] > Cardinality(wrote[t[1]])}

\* The reservation: what is logged and what is promised fit in LOGSIZE.
Reserved == mode = "up" /\ Active # {} => Len(lh) + Cardinality(Promised) <= LOGSIZE

\* An operation keeps to its share, and the next block too when it is about
\* to be logged; what it wrote is in the log.
Shares == mode = "up" => \A p \in Active :
  /\ wrote[p] \subseteq {lh[i] : i \in 1 .. Len(lh)}
  /\ Cardinality(wrote[p]) <= OPWRITES
  /\ pc[p] = "log_write" => Cardinality(wrote[p] \union {hold[p]}) <= OPWRITES

----------------------------------------------------------------------------
(* The reservation of begin_op().  It works when no operation writes more  *)
(* blocks than begin_op() reserves for it and the log area can take what   *)
(* begin_op() hands out, less what the last operation leaves unused.       *)

Room == /\ OPWRITES <= MAXOPBLOCKS
        /\ LOGSIZE - MAXOPBLOCKS + OPWRITES <= NLOG - 1

\* Between transactions nothing is logged.
Drained == mode = "up" /\ Active = {} /\ ~committing => lh = <<>>

\* The inductive invariant.
Inv == IInv /\ Reserved /\ Shares /\ LogFits /\ Drained

\* The sets that are counted are finite, and no more is promised than
\* MAXOPBLOCKS for each operation.
FiniteCounts ==
  /\ IsFiniteSet(Active) /\ Cardinality(Active) \in Nat
  /\ IsFiniteSet(Promised) /\ Cardinality(Promised) \in Nat
  /\ \A p \in Procs : IsFiniteSet(wrote[p]) /\ Cardinality(wrote[p]) \in Nat
  /\ Cardinality(Promised) <= Cardinality(Active) * MAXOPBLOCKS

\* Intervals and products, for the shares of the operations.
LEMMA IntervalCount ==
  ASSUME Counting, NEW m \in Nat, NEW n \in Nat
  PROVE  IsFiniteSet(m .. n) /\ Cardinality(m .. n) = IF m > n THEN 0 ELSE n - m + 1
  BY Zenon DEF Counting

\* Counting pairs.
LEMMA ProductCount ==
  ASSUME Counting, NEW S, IsFiniteSet(S), NEW T, IsFiniteSet(T)
  PROVE  IsFiniteSet(S \X T) /\ Cardinality(S \X T) = Cardinality(S) * Cardinality(T)
  BY ZenonT(30) DEF Counting

\* Counting one element.
LEMMA SingletonCount ==
  ASSUME Counting
  PROVE  \A x : IsFiniteSet({x}) /\ Cardinality({x}) = 1
  BY Zenon DEF Counting

\* What the reservation counts are natural numbers.
LEMMA Finite == Counting /\ TypeOK => FiniteCounts
<1> SUFFICES ASSUME Counting, TypeOK PROVE FiniteCounts
  OBVIOUS
<1>1. IsFiniteSet(Active) /\ Cardinality(Active) \in Nat
  BY LogConstants, SubsetCount, EmptyCount, Zenon DEF Active
<1>2. IsFiniteSet(1 .. MAXOPBLOCKS) /\ Cardinality(1 .. MAXOPBLOCKS) = MAXOPBLOCKS
  BY LogConstants, IntervalCount
<1>3. /\ IsFiniteSet(Active \X (1 .. MAXOPBLOCKS))
      /\ Cardinality(Active \X (1 .. MAXOPBLOCKS)) = Cardinality(Active) * MAXOPBLOCKS
  BY <1>1, <1>2, ProductCount, ZenonT(30)
<1>4. Promised \subseteq Active \X (1 .. MAXOPBLOCKS)
  BY DEF Promised
<1>5. /\ IsFiniteSet(Promised) /\ Cardinality(Promised) \in Nat
      /\ Cardinality(Promised) <= Cardinality(Active) * MAXOPBLOCKS
  BY <1>3, <1>4, SubsetCount, EmptyCount
<1>6. IsFiniteSet(Home)
  BY LogConstants, IntervalCount DEF Home
<1>7. \A p \in Procs : wrote[p] \subseteq Home
  BY DEF TypeOK
<1>8. \A p \in Procs : IsFiniteSet(wrote[p]) /\ Cardinality(wrote[p]) \in Nat
  BY <1>6, <1>7, SubsetCount, EmptyCount
<1> QED
  BY <1>1, <1>5, <1>8, Zenon DEF FiniteCounts

\* The same after a step.
LEMMA FiniteNext == Counting /\ TypeOK' => FiniteCounts'
<1>1. Counting => Counting'
  BY Zenon DEF Counting
<1> QED
  BY <1>1, Finite, PTL

\* Every operation in progress leaves a part of its share unused.
LEMMA Unused ==
  ASSUME Counting, TypeOK, Shares, mode = "up", OPWRITES <= MAXOPBLOCKS, NEW p \in Active
  PROVE  Cardinality(Promised) >= MAXOPBLOCKS - OPWRITES
<1> DEFINE R == (OPWRITES + 1) .. MAXOPBLOCKS
<1>1. IsFiniteSet(R) /\ Cardinality(R) = MAXOPBLOCKS - OPWRITES
  BY LogConstants, IntervalCount
<1>2. IsFiniteSet({p}) /\ Cardinality({p}) = 1
  BY SingletonCount, Zenon
<1>3. Cardinality({p} \X R) = MAXOPBLOCKS - OPWRITES
  <2>1. Cardinality({p} \X R) = Cardinality({p}) * Cardinality(R)
    <3> HIDE DEF R
    <3> QED
      BY <1>1, <1>2, ProductCount, Zenon
  <2> QED
    BY <1>1, <1>2, <2>1, LogConstants
<1>4. p \in Procs /\ Cardinality(wrote[p]) <= OPWRITES /\ Cardinality(wrote[p]) \in Nat
  BY Finite, Zenon DEF Shares, Active, FiniteCounts
<1>5. {p} \X R \subseteq Promised
  BY <1>4, LogConstants DEF Promised
<1>6. IsFiniteSet(Promised) /\ Cardinality(Promised) \in Nat
  BY Finite DEF FiniteCounts
<1>7. Cardinality({p} \X R) <= Cardinality(Promised)
  BY <1>5, <1>6, SubsetCount
<1> QED
  BY <1>3, <1>7

\* A transaction with an operation in progress fits.
ShareFits == Len(lh) <= LOGSIZE - MAXOPBLOCKS + OPWRITES

\* As long as an operation is in progress, so that its unused part is free.
LEMMA ReservedFits ==
  Counting /\ TypeOK /\ Reserved /\ Shares /\ mode = "up" /\ Room /\ Active # {} =>
    ShareFits /\ LogFits
<1> SUFFICES ASSUME Counting, TypeOK, Reserved, Shares, mode = "up", Room, NEW p \in Active
             PROVE  ShareFits /\ LogFits
  OBVIOUS
<1>1. Len(lh) + Cardinality(Promised) <= LOGSIZE /\ Len(lh) \in Nat
  BY DEF Reserved
<1>2. Cardinality(Promised) >= MAXOPBLOCKS - OPWRITES /\ Cardinality(Promised) \in Nat
  BY Unused, Finite, Zenon DEF Room, FiniteCounts
<1> QED
  BY <1>1, <1>2, LogConstants DEF Room, LogFits, ShareFits

\* The same after a step.
LEMMA ReservedFitsNext ==
  Counting /\ (TypeOK /\ Reserved /\ Shares /\ mode = "up" /\ Room /\ Active # {})' => LogFits'
<1>1. Counting => Counting'
  BY Zenon DEF Counting
<1> QED
  BY <1>1, ReservedFits, PTL

\* The steps that add neither an operation nor a block.
LEMMA FewerOps ==
  ASSUME Counting, TypeOK, Reserved, Shares, LogFits, mode = "up",
         Active' \subseteq Active,
         \A q \in Active' : pc'[q] = pc[q] /\ hold'[q] = hold[q],
         UNCHANGED <<lh, wrote>>
  PROVE  (Reserved /\ Shares /\ LogFits)'
<1>1. Promised' \subseteq Promised
  BY Zenon DEF Promised
<1>2. /\ IsFiniteSet(Promised) /\ Cardinality(Promised) \in Nat
      /\ IsFiniteSet(Promised') /\ Cardinality(Promised') \in Nat
      /\ Cardinality(Promised') <= Cardinality(Promised)
  BY <1>1, Finite, SubsetCount, EmptyCount, Zenon DEF FiniteCounts
<1>3. Reserved'
  BY <1>2, LogConstants DEF Reserved
<1>4. Shares'
  BY Zenon DEF Shares
<1> QED
  BY <1>3, <1>4 DEF LogFits

\* begin_op() admits an operation only if its full share fits.
LEMMA BeginOpReserves ==
  ASSUME Counting, Inv, IInv', NEW p \in Procs, BeginOp(p)
  PROVE  (Reserved /\ Shares /\ LogFits)'
<1> USE DEF Inv
<1>0. mode = "up" /\ UNCHANGED <<lh, hold, mode>> /\ TypeOK /\ TypeOK'
  BY Zenon DEF BeginOp, IInv
<1>1. CASE MustWait
  <2>1. Active' = Active /\ \A q \in Active' : pc'[q] = pc[q]
    BY <1>0, <1>1 DEF BeginOp, Active, TypeOK
  <2> QED
    BY <1>0, <1>1, <2>1, FewerOps, Zenon DEF BeginOp
<1>2. CASE ~MustWait
  <2>1. /\ outstanding' = outstanding + 1
        /\ wrote' = [wrote EXCEPT ![p] = {}]
        /\ pc' = [pc EXCEPT ![p] = "active"]
    BY <1>2, Zenon DEF BeginOp
  <2>2. Len(lh) \in Nat /\ outstanding' * MAXOPBLOCKS \in Nat
    BY <1>0, <2>1, Listed, LogConstants DEF TypeOK
  <2>3. Len(lh) + outstanding' * MAXOPBLOCKS <= LOGSIZE
    BY <1>2, <2>1, <2>2, LogConstants DEF MustWait, LogFull
  <2>4. /\ Cardinality(Promised') <= outstanding' * MAXOPBLOCKS
        /\ Cardinality(Promised') \in Nat
    <3>1. outstanding' = Cardinality(Active')
      BY <1>0, Zenon DEF IInv, Counted
    <3>2. /\ Cardinality(Promised') <= Cardinality(Active') * MAXOPBLOCKS
          /\ Cardinality(Promised') \in Nat
      BY <1>0, FiniteNext, Zenon DEF FiniteCounts
    <3> QED
      BY <3>1, <3>2
  <2>5. Reserved'
    BY <1>0, <2>2, <2>3, <2>4, LogConstants DEF Reserved
  <2>6. Shares'
    <3>1. \A q \in Active' : q # p => q \in Active /\ pc'[q] = pc[q] /\ wrote'[q] = wrote[q]
      BY <2>1 DEF Active
    <3>2. pc'[p] = "active" /\ wrote'[p] = {}
      BY <1>0, <2>1, Zenon DEF TypeOK
    <3>3. Cardinality({}) = 0 /\ 0 <= OPWRITES
      BY EmptyCount, LogConstants
    <3>4. ASSUME NEW q \in Active'
          PROVE  /\ wrote'[q] \subseteq {lh'[i] : i \in 1 .. Len(lh')}
                 /\ Cardinality(wrote'[q]) <= OPWRITES
                 /\ pc'[q] = "log_write" => Cardinality(wrote'[q] \union {hold'[q]}) <= OPWRITES
      <4>1. CASE q = p
        BY <3>2, <3>3, <4>1, Zenon
      <4>2. CASE q # p
        BY <1>0, <3>1, <4>2, Zenon DEF Shares
      <4> QED
        BY <4>1, <4>2, Zenon
    <3> QED
      BY <3>4, Zenon DEF Shares
  <2> QED
    BY <1>0, <2>5, <2>6 DEF LogFits
<1> QED
  BY <1>1, <1>2

\* bread() and the tests of log_write() use nothing up.
LEMMA ModifyReserves ==
  ASSUME Counting, Inv, NEW p \in Procs, NEW b \in Home, NEW v \in Vals, Modify(p, b, v)
  PROVE  (Reserved /\ Shares /\ LogFits)'
<1> USE DEF Inv
<1>0. mode = "up" /\ UNCHANGED <<lh, wrote>> /\ TypeOK
  BY Zenon DEF Modify, mem, IInv
<1>1. Active' = Active
  BY <1>0, Zenon DEF Modify, Active, TypeOK
<1>2. Promised' = Promised
  BY <1>0, <1>1 DEF Promised
<1>3. (Reserved /\ LogFits)'
  BY <1>0, <1>1, <1>2 DEF Reserved, LogFits
<1>4. \A q \in Active : q # p => pc'[q] = pc[q] /\ hold'[q] = hold[q]
  BY <1>0, Zenon DEF Modify, Active, TypeOK
<1>5. hold'[p] = b /\ Cardinality(wrote[p] \union {b}) <= OPWRITES
  BY <1>0, Zenon DEF Modify, TypeOK
<1>6. ASSUME NEW q \in Active'
      PROVE  /\ wrote'[q] \subseteq {lh'[i] : i \in 1 .. Len(lh')}
             /\ Cardinality(wrote'[q]) <= OPWRITES
             /\ pc'[q] = "log_write" => Cardinality(wrote'[q] \union {hold'[q]}) <= OPWRITES
  <2>1. CASE q = p
    BY <1>0, <1>1, <1>5, <2>1, ZenonT(30) DEF Shares
  <2>2. CASE q # p
    BY <1>0, <1>1, <1>4, <2>2, ZenonT(30) DEF Shares
  <2> QED
    BY <2>1, <2>2, Zenon
<1>7. Shares'
  BY <1>6, Zenon DEF Shares
<1> QED
  BY <1>3, <1>7

\* The blocks of a transaction, and one more.
Logs(s) == {s[i] : i \in 1 .. Len(s)}

LEMMA LogsAppend ==
  ASSUME NEW s \in Seq(Home), NEW b \in Home
  PROVE  Logs(s) \union {b} \subseteq Logs(Append(s, b)) /\ Len(Append(s, b)) = Len(s) + 1
<1> DEFINE t == Append(s, b)
<1>1. /\ Len(t) = Len(s) + 1 /\ t[Len(s) + 1] = b /\ \A i \in 1 .. Len(s) : t[i] = s[i]
      /\ Len(s) \in Nat
  OBVIOUS
<1> HIDE DEF t
<1>2. \A i \in 1 .. Len(s) : i \in 1 .. Len(t)
  BY <1>1
<1>3. Len(s) + 1 \in 1 .. Len(t)
  BY <1>1
<1>4. Logs(s) \subseteq Logs(t)
  BY <1>1, <1>2, Zenon DEF Logs
<1>5. b \in Logs(t)
  BY <1>1, <1>3, Zenon DEF Logs
<1> QED
  BY <1>1, <1>4, <1>5, Zenon DEF t

\* log_write() uses up one of the promised blocks, or finds the block logged.
LEMMA LogWriteReserves ==
  ASSUME Counting, Inv, IInv', Room, NEW p \in Procs, LogWrite(p)
  PROVE  (Reserved /\ Shares /\ LogFits)'
<1> DEFINE b == hold[p]
           n == Cardinality(wrote[p])
<1>0. /\ mode = "up" /\ mode' = "up" /\ pc[p] = "log_write" /\ p \in Active
      /\ pc' = [pc EXCEPT ![p] = "active"]
      /\ wrote' = [wrote EXCEPT ![p] = @ \union {b}]
      /\ TypeOK /\ TypeOK' /\ Reserved /\ Shares /\ Holders
  BY Zenon DEF LogWrite, Active, Inv, IInv
<1>1. Active' = Active /\ \A q \in Active : q # p => pc'[q] = pc[q] /\ wrote'[q] = wrote[q]
  BY <1>0 DEF Active
<1>2. pc'[p] = "active" /\ wrote'[p] = wrote[p] \union {b}
  BY <1>0, Zenon DEF TypeOK
<1>3. /\ IsFiniteSet(wrote[p]) /\ n \in Nat
      /\ IsFiniteSet(Promised) /\ Cardinality(Promised) \in Nat
      /\ Cardinality(wrote'[p]) \in Nat /\ Cardinality(Promised') \in Nat
      /\ Len(lh) \in Nat /\ Len(lh) + Cardinality(Promised) <= LOGSIZE
  BY <1>0, Finite, FiniteNext, Listed, ZenonT(30) DEF Reserved, FiniteCounts
<1>4. Cardinality(wrote'[p]) <= OPWRITES
  BY <1>0, <1>2, Zenon DEF Shares
<1>5. /\ Logs(lh) \union {b} \subseteq Logs(lh')
      /\ b \in Logs(lh) => lh' = lh
      /\ b \notin Logs(lh) => Len(lh') = Len(lh) + 1
  <2>0. b \in Home
    BY <1>0, Zenon DEF Holders, TypeOK
  <2>1. lh \in Seq(Home) /\ DOMAIN lh = 1 .. Len(lh)
    BY <1>0 DEF TypeOK
  <2>2. CASE b \in Logs(lh)
    <3>1. lh' = lh
      BY <2>1, <2>2, Zenon DEF LogWrite, Logs
    <3> QED
      BY <2>2, <3>1, Zenon
  <2>3. CASE b \notin Logs(lh)
    <3>1. lh' = Append(lh, b)
      BY <2>1, <2>3, Zenon DEF LogWrite, Logs
    <3> QED
      BY <2>0, <2>1, <2>3, <3>1, LogsAppend, Zenon
  <2> QED
    BY <2>2, <2>3, Zenon
<1>6. Shares'
  <2>1. \A q \in Active : /\ wrote[q] \subseteq Logs(lh)
                          /\ Cardinality(wrote[q]) <= OPWRITES
                          /\ q # p /\ pc[q] = "log_write" => 
                               Cardinality(wrote[q] \union {hold'[q]}) <= OPWRITES
    BY <1>0, Zenon DEF Shares, LogWrite, TypeOK, Active, Logs
  <2> QED
    BY <1>1, <1>2, <1>4, <1>5, <2>1, ZenonT(30) DEF Shares, Logs
<1>7. Len(lh') + Cardinality(Promised') <= LOGSIZE
  <2>1. CASE b \in Logs(lh)
    <3>1. n <= Cardinality(wrote'[p])
      <4>1. Cardinality(wrote[p] \union {b}) = IF b \in wrote[p] THEN n ELSE n + 1
        BY <1>3, AddCount, ZenonT(30)
      <4> QED
        BY <1>2, <1>3, <4>1
    <3>2. Promised' \subseteq Promised
      BY <1>1, <1>3, <3>1 DEF Promised
    <3>3. Cardinality(Promised') <= Cardinality(Promised)
      BY <1>3, <3>2, SubsetCount, Zenon
    <3> QED
      BY <1>3, <1>5, <2>1, <3>3, LogConstants, SMTT(30)
  <2>2. CASE b \notin Logs(lh)
    <3>1. b \notin wrote[p]
      BY <1>0, <2>2, Zenon DEF Shares, Logs
    <3>2. Cardinality(wrote'[p]) = n + 1
      <4>1. Cardinality(wrote[p] \union {b}) = IF b \in wrote[p] THEN n ELSE n + 1
        BY <1>3, AddCount, ZenonT(30)
      <4> QED
        BY <1>2, <3>1, <4>1, ZenonT(30)
    <3>3. <<p, n + 1>> \in Promised
      BY <1>0, <1>3, <1>4, <3>2, LogConstants, SMTT(30) DEF Promised, Room
    <3>4. Promised' \subseteq Promised \ {<<p, n + 1>>}
      BY <1>1, <1>3, <3>2 DEF Promised
    <3>5. /\ IsFiniteSet(Promised \ {<<p, n + 1>>})
          /\ Cardinality(Promised \ {<<p, n + 1>>}) = Cardinality(Promised) - 1
      BY <1>3, <3>3, RemoveCount, SMTT(30)
    <3>6. Cardinality(Promised') <= Cardinality(Promised) - 1
      BY <3>4, <3>5, SubsetCount, Zenon
    <3> QED
      BY <1>3, <1>5, <2>2, <3>6, LogConstants, SMTT(30)
  <2> QED
    BY <2>1, <2>2
<1>8. Reserved'
  BY <1>7 DEF Reserved
<1>9. LogFits'
  BY <1>0, <1>1, <1>6, <1>8, ReservedFitsNext, Zenon DEF Room
<1> QED
  BY <1>6, <1>8, <1>9, Zenon

\* Any step keeps the reservation, and empties the log before it lets new
\* operations in.
LEMMA NextReserves ==
  ASSUME Counting, Inv, IInv', Room, [Next]_vars
  PROVE  (Reserved /\ Shares /\ LogFits)'
<1> USE DEF Inv
<1>0. TypeOK /\ TypeOK'
  BY Zenon DEF IInv
<1>1. ASSUME NEW p \in Procs, EndOp(p) PROVE (Reserved /\ Shares /\ LogFits)'
  <2>1. mode = "up" /\ UNCHANGED <<lh, wrote, hold>>
    BY <1>1, Zenon DEF EndOp
  <2>2. Active' \subseteq Active /\ \A q \in Active' : pc'[q] = pc[q]
    BY <1>0, <1>1, ZenonT(30) DEF EndOp, Active, Wakeup, TypeOK
  <2> QED
    BY <1>0, <2>1, <2>2, FewerOps, Zenon
<1>2. ASSUME NEW p \in Procs, CommitStep(p) PROVE (Reserved /\ Shares /\ LogFits)'
  <2>1. mode = "up" /\ p \in Committers /\ (lh' = lh \/ lh' = <<>>)
    BY <1>2, Zenon DEF CommitStep, WriteLog, WriteHead, InstallTrans, EraseHead, EndCommit, mem,
       Committers
  <2>2. Active = {}
    BY <2>1, CommitsAlone
  <2>3. /\ pc'[p] \notin {"active", "log_write"}
        /\ \A q \in Procs : q # p => pc'[q] = Wakeup(pc)[q] \/ pc'[q] = pc[q]
    BY <1>0, <1>2, ZenonT(30) DEF CommitStep, WriteLog, WriteHead, InstallTrans, EraseHead,
       EndCommit, TypeOK, Wakeup
  <2>4. Active' = {}
    BY <1>0, <2>2, <2>3, ZenonT(30) DEF Active, Wakeup, TypeOK
  <2>5. (Reserved /\ Shares)'
    BY <2>4, Zenon DEF Reserved, Shares
  <2>6. LogFits'
    BY <2>1, LogConstants, SMTT(30) DEF LogFits
  <2> QED
    BY <2>5, <2>6
<1>3. ASSUME NEW a \in Blocks, Recycle(a) \/ ReadBlock(a) PROVE (Reserved /\ Shares /\ LogFits)'
  <2>1. mode = "up" /\ UNCHANGED <<lh, wrote, hold, pc>>
    BY <1>3, Zenon DEF Recycle, ReadBlock, mem, op
  <2>2. Active' = Active
    BY <2>1 DEF Active
  <2> QED
    BY <1>0, <2>1, <2>2, FewerOps, Zenon
<1>4. CASE CrashReboot
  <2>1. mode' # "up" /\ lh' = <<>>
    BY <1>4, Zenon DEF CrashReboot
  <2>2. (Reserved /\ Shares)'
    BY <2>1, Zenon DEF Reserved, Shares
  <2>3. LogFits'
    BY <2>1, LogConstants DEF LogFits
  <2> QED
    BY <2>2, <2>3, Zenon
<1>5. CASE ReadHead
  BY <1>5, Zenon DEF ReadHead, Reserved, Shares, LogFits, IInv, HeadFits
<1>6. CASE RecoverInstall
  BY <1>6, Zenon DEF RecoverInstall, mem, Reserved, Shares, LogFits
<1>7. CASE RecoverErase
  <2>1. Active' = {} /\ lh' = <<>>
    BY <1>7, Zenon DEF RecoverErase, op, IInv, Quiet, Active
  <2> QED
    BY <2>1, LogConstants DEF Reserved, Shares, LogFits
<1>8. CASE UNCHANGED vars
  BY <1>8, ZenonT(30) DEF vars, Reserved, Shares, LogFits, Promised, Active
<1> QED
  BY <1>1, <1>2, <1>3, <1>4, <1>5, <1>6, <1>7, <1>8, BeginOpReserves, ModifyReserves,
     LogWriteReserves, Addresses, Zenon DEF Next, Recover

\* After the last end_op() the log is empty.
LEMMA NextDrains ==
  ASSUME Counting, Inv, IInv', [Next]_vars
  PROVE  Drained'
<1> USE DEF Inv
<1>0. TypeOK /\ TypeOK'
  BY Zenon DEF IInv
<1> SUFFICES ASSUME mode' = "up", Active' = {}, ~committing' PROVE lh' = <<>>
  BY DEF Drained
<1>1. ASSUME NEW p \in Procs, BeginOp(p) PROVE lh' = <<>>
  <2>1. p \notin Active' => MustWait
    BY <1>0, <1>1, Zenon DEF BeginOp, Active, TypeOK
  <2>2. Active = {}
    BY <1>0, <1>1, <2>1, Zenon DEF BeginOp, Active, TypeOK
  <2> QED
    BY <1>1, <2>2, Zenon DEF BeginOp, Drained
<1>2. ASSUME NEW p \in Procs, LogWrite(p) PROVE lh' = <<>>
  BY <1>2 DEF LogWrite, Active
<1>3. ASSUME NEW p \in Procs, EndOp(p) PROVE lh' = <<>>
  <2>1. p \in Active /\ mode = "up"
    BY <1>3, Zenon DEF EndOp, Active
  <2>3. outstanding' # 0
    BY <1>3, Zenon DEF EndOp
  <2>4. Cardinality(Active') = outstanding'
    BY Zenon DEF IInv, Counted
  <2> QED
    BY <2>3, <2>4, EmptyCount
<1>4. ASSUME NEW p \in Procs, CommitStep(p) PROVE lh' = <<>>
  <2>1. mode = "up" /\ p \in Committers
    BY <1>4, Zenon DEF CommitStep, WriteLog, WriteHead, InstallTrans, EraseHead, EndCommit, Committers
  <2>2. committing
    BY <2>1, CommitsAlone
  <2>3. EndCommit(p)
    BY <1>4, <2>2, ZenonT(30) DEF CommitStep, WriteLog, WriteHead, InstallTrans, EraseHead, mem
  <2> QED
    BY <2>3, Zenon DEF EndCommit, IInv, LoopIndex, At
<1>5. ASSUME NEW p \in Procs, NEW b \in Home, NEW v \in Vals, Modify(p, b, v) PROVE lh' = <<>>
  BY <1>0, <1>5, SMTT(30) DEF Modify, Active, TypeOK
<1>6. ASSUME NEW a \in Blocks, Recycle(a) \/ ReadBlock(a) PROVE lh' = <<>>
  BY <1>6, Zenon DEF Recycle, ReadBlock, mem, op, Active, Drained
<1>7. CASE CrashReboot \/ Recover
  BY <1>7, Zenon DEF CrashReboot, Recover, ReadHead, RecoverInstall, RecoverErase
<1>8. CASE UNCHANGED vars
  BY <1>8, Zenon DEF vars, Active, Drained
<1> QED
  BY <1>1, <1>2, <1>3, <1>4, <1>5, <1>6, <1>7, <1>8, Addresses, Zenon DEF Next

----------------------------------------------------------------------------
(* The steps, one by one                                                   *)

\* bread() and the tests of log_write(), which may panic.
LEMMA ModifyInv ==
  ASSUME Counting, IInv, NEW p \in Procs, NEW b \in Home, NEW v \in Vals, Modify(p, b, v)
  PROVE  IInv'
<1> USE DEF IInv
<1>0. b \in Blocks /\ b # Header /\ v # NoBuf
  BY Addresses, LogConstants, Zenon
<1>1. TypeOK'
  BY <1>0, Zenon DEF TypeOK, Modify, mem
<1>2. (Quiet /\ HeadFits /\ Distinct)'
  BY SMTT(30) DEF Modify, mem, Quiet, HeadFits, Distinct
<1>3. CASE mode' = "panic"
  BY <1>1, <1>2, <1>3, Zenon DEF Counted, OneCommitter, Holders, HeadOnDisk, LoopIndex,
     Pinned, Coherent, Logged, Redone
<1>4. CASE mode' = "up"
  <2>1. pc' = [pc EXCEPT ![p] = "log_write"] /\ mode = "up" /\ pc[p] = "active"
    BY <1>4, Zenon DEF Modify
  <2>2. p \in Active
    BY <2>1, Zenon DEF Active
  <2>3. \A x \in {"write_log", "write_head", "install", "erase", "committed"} :
          ~At(x) /\ ~At(x)'
    BY <2>1, <2>2, ActiveAlone DEF At
  <2>4. Active' = Active /\ Committers' = Committers
    BY <2>1 DEF Active, Committers
  <2>5. (Counted /\ OneCommitter)'
    BY <2>4, Zenon DEF Counted, OneCommitter, Modify, mem
  <2>6. hold[p] = Header /\ hold' = [hold EXCEPT ![p] = b]
    BY Zenon DEF Holders, Modify
  <2>7. Holders'
    BY <1>0, SMTT(30) DEF Holders, Modify, Busy, TypeOK
  <2>8. (HeadOnDisk /\ LoopIndex /\ Pinned /\ Logged /\ Redone)'
    BY <2>3, Zenon DEF HeadOnDisk, LoopIndex, Pinned, Logged, Redone, Modify, mem
  <2>9. Coherent'
    BY <2>6, Addresses DEF Coherent, Modify, Busy, TypeOK
  <2> QED
    BY <1>1, <1>2, <2>5, <2>7, <2>8, <2>9, Zenon
<1> QED
  BY <1>3, <1>4, Zenon DEF Modify

\* The rest of log_write(), with log absorption.
LEMMA LogWriteInv ==
  ASSUME Counting, IInv, NEW p \in Procs, LogWrite(p)
  PROVE  IInv'
<1> USE DEF IInv
<1> DEFINE b == hold[p]
<1>0. mode = "up" /\ mode' = "up" /\ pc[p] = "log_write" /\ p \in Active
  BY Zenon DEF LogWrite, Active
<1>1. b \in Home /\ b \in Blocks /\ cache[b] # NoBuf
  BY <1>0, Addresses, Zenon DEF Holders, TypeOK
<1>2. /\ lh' \in Seq(Home)
      /\ \A i, j \in 1 .. Len(lh') : lh'[i] = lh'[j] => i = j
      /\ \A a : (\E i \in 1 .. Len(lh') : lh'[i] = a)
                 <=> (a = b \/ \E i \in 1 .. Len(lh) : lh[i] = a)
  <2>1. lh \in Seq(Home) /\ DOMAIN lh = 1 .. Len(lh)
    BY DEF TypeOK
  <2>2. CASE \E i \in DOMAIN lh : lh[i] = b
    BY <2>1, <2>2, Zenon DEF LogWrite, Distinct
  <2>3. CASE ~\E i \in DOMAIN lh : lh[i] = b
    <3>1. lh' = Append(lh, b)
      BY <2>3, Zenon DEF LogWrite
    <3>2. /\ Len(lh') = Len(lh) + 1 /\ lh' \in Seq(Home)
          /\ lh'[Len(lh) + 1] = b
          /\ \A i \in 1 .. Len(lh) : lh'[i] = lh[i]
      BY <1>1, <2>1, <3>1, SMTT(30)
    <3> QED
      BY <2>1, <2>3, <3>2 DEF Distinct
  <2> QED
    BY <2>2, <2>3, Zenon
<1>3. TypeOK'
  BY <1>1 DEF TypeOK, LogWrite
<1>4. (Quiet /\ HeadFits /\ Distinct)'
  BY SMTT(30) DEF LogWrite, Quiet, HeadFits, Distinct
<1>5. \A x \in {"write_log", "write_head", "install", "erase", "committed"} :
        ~At(x) /\ ~At(x)'
  BY <1>0, ActiveAlone DEF At, LogWrite
<1>6. Active' = Active /\ Committers' = Committers
  BY DEF Active, Committers, LogWrite
<1>7. (Counted /\ OneCommitter)'
  BY <1>6, Zenon DEF Counted, OneCommitter, LogWrite
<1>8. Holders'
  BY Zenon DEF Holders, LogWrite, TypeOK
<1>9. (HeadOnDisk /\ LoopIndex /\ Logged /\ Redone)'
  BY <1>0, <1>5, Zenon DEF HeadOnDisk, LoopIndex, Logged, Redone, LogWrite
<1>10. Pinned'
  BY <1>2, <1>5 DEF Pinned, LogWrite
<1>11. Coherent'
  BY DEF Coherent, Busy, LogWrite
<1> QED
  BY <1>3, <1>4, <1>7, <1>8, <1>9, <1>10, <1>11, Zenon

\* end_op(): the last operation becomes the committer.
LEMMA EndOpInv ==
  ASSUME Counting, IInv, NEW p \in Procs, EndOp(p)
  PROVE  IInv'
<1> USE DEF IInv
<1>0. mode = "up" /\ pc[p] = "active" /\ p \in Active
  BY Zenon DEF EndOp, Active
<1>1. /\ ~committing /\ head = <<>> /\ outstanding \in Nat \ {0}
      /\ \A x \in {"write_log", "write_head", "install", "erase", "committed"} : ~At(x)
  BY <1>0, ActiveAlone, Zenon
<1>2. Committers = {}
  BY <1>0, Zenon DEF OneCommitter
<1>3. mode' = "up" /\ outstanding' = outstanding - 1
  BY <1>1, Zenon DEF EndOp
<1>4. /\ Active' = Active \ {p}
      /\ IsFiniteSet(Active) /\ IsFiniteSet(Active')
      /\ Cardinality(Active') = Cardinality(Active) - 1
  <2>1. Active' = Active \ {p}
    BY <1>0, <1>1, ZenonT(30) DEF EndOp, Active, Wakeup, TypeOK
  <2>2. IsFiniteSet(Active)
    BY LogConstants, SubsetCount, Zenon DEF Active
  <2> QED
    BY <1>0, <2>1, <2>2, RemoveCount, Zenon
<1>5. Counted'
  BY <1>0, <1>3, <1>4, Zenon DEF Counted
<1>6. (Quiet /\ HeadFits /\ Distinct /\ Redone)'
  BY DEF EndOp, Quiet, HeadFits, Distinct, Redone
<1>7. Holders'
  BY <1>0, <1>1, ZenonT(30) DEF Holders, EndOp, Wakeup, TypeOK, bufs
<1>8. Coherent'
  BY Zenon DEF Coherent, Busy, EndOp, bufs
<1>9. CASE outstanding' = 0
  <2>1. /\ committing' = TRUE /\ tail' = 1 /\ UNCHANGED <<lh, head, disk, bufs, hold, wrote>>
        /\ pc' = [pc EXCEPT ![p] = IF lh = <<>> THEN "committed" ELSE "write_log"]
    BY <1>1, <1>9, Zenon DEF EndOp
  <2>2. Active' = {}
    BY <1>3, <1>4, <1>5, <1>9, EmptyCount, Zenon DEF Counted
  <2>3. Committers' = {p}
    BY <1>2, <2>1 DEF Committers, TypeOK
  <2>4. OneCommitter'
    BY <2>1, <2>2, <2>3, Zenon DEF OneCommitter
  <2>5. /\ \A x \in {"write_head", "install", "erase"} : ~At(x)'
        /\ At("write_log")' => lh # <<>>
        /\ At("committed")' => lh = <<>>
    BY <1>1, <2>1 DEF At
  <2>6. TypeOK'
    BY <1>1, <1>3, <2>1 DEF TypeOK, bufs
  <2>7. LoopIndex'
    BY <1>3, <2>1, <2>5, SMTT(30) DEF LoopIndex, TypeOK
  <2>8. (HeadOnDisk /\ Pinned /\ Logged)'
    BY <1>0, <1>1, <1>3, <2>1, <2>5 DEF HeadOnDisk, Pinned, Logged, bufs
  <2> QED
    BY <1>5, <1>6, <1>7, <1>8, <2>4, <2>6, <2>7, <2>8, Zenon
<1>10. CASE outstanding' # 0
  <2>1. /\ UNCHANGED <<lh, head, disk, bufs, hold, wrote, tail, committing>>
        /\ pc' = [Wakeup(pc) EXCEPT ![p] = "idle"]
    BY <1>1, <1>10, Zenon DEF EndOp
  <2>2. Committers' = {}
    BY <1>2, <2>1, Zenon DEF Committers, Wakeup
  <2>3. OneCommitter'
    BY <1>1, <2>1, <2>2, Zenon DEF OneCommitter
  <2>4. \A x \in {"write_log", "write_head", "install", "erase", "committed"} : ~At(x)'
    BY <2>2 DEF At, Committers
  <2>5. TypeOK'
    BY <1>1, <1>3, <2>1, SMTT(30) DEF TypeOK, bufs, Wakeup
  <2>6. (LoopIndex /\ HeadOnDisk /\ Pinned /\ Logged)'
    BY <1>0, <1>1, <1>3, <2>1, <2>4, Zenon DEF LoopIndex, HeadOnDisk, Pinned, Logged, bufs
  <2> QED
    BY <1>5, <1>6, <1>7, <1>8, <2>3, <2>5, <2>6, Zenon
<1> QED
  BY <1>9, <1>10, Zenon

\* What the places of commit() have in common: nobody else moves.
LEMMA CommitStepFrame ==
  ASSUME IInv, mode = "up", NEW p \in Committers,
         NEW x \in {"write_log", "write_head", "install", "erase", "committed"},
         pc' = [pc EXCEPT ![p] = x], mode' = "up",
         UNCHANGED <<outstanding, committing, hold, wrote>>,
         TypeOK'
  PROVE  /\ (Quiet /\ Counted /\ OneCommitter /\ Redone)'
         /\ \A a \in Blocks : ~Busy(a)'
         /\ \A y \in {"write_log", "write_head", "install", "erase", "committed"} :
              At(y)' <=> y = x
         /\ Holders'
<1>1. p \in Procs
  BY Zenon DEF Committers
<1>2. Active' = Active /\ Committers' = Committers /\ Committers = {p}
  BY <1>1, CommitsAlone, SMTT(30) DEF Active, Committers, IInv, TypeOK
<1>3. (Quiet /\ Counted /\ OneCommitter /\ Redone)'
  BY <1>2, Zenon DEF IInv, Quiet, Counted, OneCommitter, Redone
<1>4. \A a \in Blocks : ~Busy(a)'
  BY CommitsAlone, Zenon DEF Busy
<1>5. \A y \in {"write_log", "write_head", "install", "erase", "committed"} :
        At(y)' <=> y = x
  <2>1. pc'[p] = x /\ p \in Procs
    BY <1>1, Zenon DEF IInv, TypeOK
  <2>2. \A q \in Procs : q # p => pc'[q] \in {"idle", "asleep", "woken"}
    BY <1>1, CommitsAlone, SMTT(30) DEF IInv, TypeOK
  <2> QED
    BY <2>1, <2>2, Zenon DEF At
<1>6. \A q \in Procs : hold[q] = Header
  BY CommitsAlone, Zenon DEF Active, IInv, Holders
<1>7. \A q \in Procs : pc'[q] # "log_write"
  BY <1>1, CommitsAlone, ZenonT(30) DEF IInv, TypeOK
<1> QED
  BY <1>3, <1>4, <1>5, <1>6, <1>7, Zenon DEF Holders

\* write_log(): the pinned buffers go to the log blocks, which no transaction
\* that fits reaches beyond.
LEMMA WriteLogInv ==
  ASSUME IInv, LogFits, NEW p \in Procs, WriteLog(p)
  PROVE  IInv'
<1> USE DEF IInv
<1> DEFINE a == lh[tail]
<1>0. /\ mode = "up" /\ mode' = "up" /\ pc[p] = "write_log" /\ p \in Committers
      /\ UNCHANGED <<outstanding, committing, lh, hold, wrote, head>>
  BY Zenon DEF WriteLog, Committers, mem
<1>1. /\ At("write_log")
      /\ \A x \in {"write_head", "install", "erase", "committed"} : ~At(x)
  BY <1>0, CommitsAlone, Zenon
<1>2. /\ tail \in 1 .. Len(lh) /\ Len(lh) \in Nat /\ tail \in Blocks /\ tail \notin Home
      /\ a \in Home /\ a \in Blocks /\ a # tail
  <2>1. tail \in Nat \ {0} /\ tail <= Len(lh)
    BY <1>0, <1>1, Zenon DEF LoopIndex, TypeOK
  <2>2. Len(lh) \in Nat
    BY Listed, Zenon
  <2>3. tail \in 1 .. Len(lh)
    BY <2>1, <2>2
  <2> QED
    BY <2>2, <2>3, Listed, Zenon
<1>3. a \in dirty /\ cache[a] # NoBuf /\ Bread(a) = cache[a] /\ cache[a] \in Vals
  BY <1>0, <1>1, <1>2, Zenon DEF Pinned, TypeOK, Bread
<1>4. tail \notin dirty
  BY <1>0, <1>2 DEF Pinned, TypeOK
<1>5. /\ disk' = [disk EXCEPT ![tail] = cache[a]]
      /\ cache' = [cache EXCEPT ![tail] = cache[a]]
      /\ dirty' = dirty
  BY <1>3, <1>4, Zenon DEF WriteLog, CopyBlock, Bwrite
<1>6. \E x \in {"write_log", "write_head"} :
        /\ pc' = [pc EXCEPT ![p] = x]
        /\ x = "write_log" => tail < Len(lh) /\ tail' = tail + 1
        /\ x = "write_head" => tail = Len(lh) /\ tail' = 1
  <2>1. CASE tail < Len(lh)
    <3>1. pc' = [pc EXCEPT ![p] = "write_log"]
      BY <2>1, Zenon DEF WriteLog, TypeOK
    <3> QED
      BY <2>1, <3>1, Zenon DEF WriteLog
  <2>2. CASE ~(tail < Len(lh))
    BY <1>2, <2>2 DEF WriteLog
  <2> QED
    BY <2>1, <2>2, Zenon
<1>7. PICK x \in {"write_log", "write_head"} :
        /\ pc' = [pc EXCEPT ![p] = x]
        /\ x = "write_log" => tail < Len(lh) /\ tail' = tail + 1
        /\ x = "write_head" => tail = Len(lh) /\ tail' = 1
  BY <1>6, ZenonT(30)
<1>8. TypeOK'
  BY <1>0, <1>2, <1>3, <1>5, <1>7, LogConstants DEF TypeOK
<1>9. /\ (Quiet /\ Counted /\ OneCommitter /\ Redone /\ Holders)'
      /\ \A y \in {"write_log", "write_head", "install", "erase", "committed"} :
           At(y)' <=> y = x
  BY <1>0, <1>7, <1>8, CommitStepFrame, ZenonT(30)
<1>10. (HeadFits /\ Distinct /\ HeadOnDisk)'
  BY <1>0, <1>1, <1>9, SMTT(30) DEF HeadFits, Distinct, HeadOnDisk
<1>11. LoopIndex'
  BY <1>0, <1>2, <1>7, <1>9, SMTT(30) DEF LoopIndex
<1>12. Pinned'
  BY <1>0, <1>1, <1>5, <1>9, Zenon DEF Pinned
<1>13. Coherent'
  BY <1>0, <1>2, <1>5, CommitsAlone, SMTT(30) DEF Coherent, TypeOK
<1>14. \A i \in 1 .. tail : disk'[i] = cache'[lh[i]]
  <2>1. \A i \in 1 .. Len(lh) : i \in Blocks /\ lh[i] \in Home /\ lh[i] \in Blocks /\ lh[i] # tail
    BY <1>2, Listed, Zenon
  <2>2. \A i \in 1 .. tail - 1 : disk[i] = cache[lh[i]]
    BY <1>0, <1>1, Zenon DEF Logged
  <2>3. disk'[tail] = cache'[a]
    BY <1>2, <1>5, Zenon DEF TypeOK
  <2>4. \A i \in 1 .. Len(lh) : i # tail => disk'[i] = disk[i]
    BY <1>5, <2>1, Zenon DEF TypeOK
  <2>5. \A i \in 1 .. Len(lh) : cache'[lh[i]] = cache[lh[i]]
    BY <1>5, <2>1, Zenon DEF TypeOK
  <2>6. \A i \in 1 .. tail : i \in 1 .. Len(lh) /\ (i # tail => i \in 1 .. tail - 1)
    BY <1>2
  <2> QED
    BY <2>2, <2>3, <2>4, <2>5, <2>6, Zenon
<1>15. Logged'
  <2>1. At("write_log")' => \A i \in 1 .. tail' - 1 : disk'[i] = cache'[lh[i]]
    BY <1>2, <1>7, <1>14
  <2>2. At("write_head")' => \A i \in 1 .. Len(lh) : disk'[i] = cache'[lh[i]]
    BY <1>7, <1>9, <1>14, Zenon
  <2>3. ~At("install")' /\ ~At("erase")'
    BY <1>9, Zenon
  <2>4. lh' = lh
    BY <1>0, Zenon
  <2> QED
    BY <2>1, <2>2, <2>3, <2>4, ZenonT(30) DEF Logged
<1> QED
  BY <1>8, <1>9, <1>10, <1>11, <1>12, <1>13, <1>15, Zenon

\* write_head() at the commit point.
LEMMA WriteHeadInv ==
  ASSUME IInv, LogFits, NEW p \in Procs, WriteHead(p)
  PROVE  IInv'
<1> USE DEF IInv
<1>0. /\ mode = "up" /\ mode' = "up" /\ pc[p] = "write_head" /\ p \in Committers
      /\ pc' = [pc EXCEPT ![p] = "install"] /\ head' = lh
      /\ UNCHANGED <<outstanding, committing, lh, hold, wrote, tail, cache, dirty, disk>>
  BY Zenon DEF WriteHead, Committers, mem, bufs
<1>1. /\ At("write_head")
      /\ \A x \in {"write_log", "install", "erase", "committed"} : ~At(x)
  BY <1>0, CommitsAlone, Zenon
<1>2. TypeOK'
  BY <1>0, Zenon DEF TypeOK
<1>3. /\ (Quiet /\ Counted /\ OneCommitter /\ Redone /\ Holders)'
      /\ \A y \in {"write_log", "write_head", "install", "erase", "committed"} :
           At(y)' <=> y = "install"
  BY <1>0, <1>2, CommitStepFrame, ZenonT(30)
<1>4. (HeadFits /\ Distinct /\ HeadOnDisk)'
  BY <1>0, <1>3, SMTT(30) DEF HeadFits, Distinct, HeadOnDisk, LogFits
<1>5. tail = 1 /\ lh # <<>> /\ lh \in Seq(Home) /\ Len(lh) \in Nat \ {0}
  BY <1>0, <1>1 DEF LoopIndex, TypeOK
<1>6. LoopIndex'
  BY <1>0, <1>3, <1>5, SMTT(30) DEF LoopIndex
<1>7. Pinned'
  BY <1>0, <1>1, <1>3, <1>5, SMTT(30) DEF Pinned
<1>8. Coherent'
  BY <1>0, Zenon DEF Coherent, Busy
<1>9. \A i \in 1 .. Len(lh) : cache[lh[i]] # NoBuf
  <2>1. \A i \in 1 .. Len(lh) : lh[i] \in dirty
    BY <1>0, <1>1, Listed, Zenon DEF Pinned
  <2> QED
    BY <2>1, Zenon DEF TypeOK
<1>10. Logged'
  BY <1>0, <1>1, <1>3, <1>5, <1>9 DEF Logged, Bread
<1> QED
  BY <1>2, <1>3, <1>4, <1>6, <1>7, <1>8, <1>10, Zenon

\* install_trans(): the copies in the log go home, and unpin the buffers.
LEMMA InstallTransInv ==
  ASSUME IInv, LogFits, NEW p \in Procs, InstallTrans(p)
  PROVE  IInv'
<1> USE DEF IInv
<1> DEFINE a == lh[tail]
<1>0. /\ mode = "up" /\ mode' = "up" /\ pc[p] = "install" /\ p \in Committers
      /\ UNCHANGED <<outstanding, committing, lh, hold, wrote, head>>
  BY Zenon DEF InstallTrans, Committers, mem
<1>1. /\ At("install")
      /\ \A x \in {"write_log", "write_head", "erase", "committed"} : ~At(x)
      /\ \A c \in Blocks : ~Busy(c)
  BY <1>0, CommitsAlone, Zenon
<1>2. /\ tail \in 1 .. Len(lh) /\ tail \in Blocks /\ tail \notin Home
      /\ a \in Home /\ a \in Blocks /\ a # tail
  <2>1. tail \in 1 .. Len(lh)
    BY <1>0, <1>1 DEF LoopIndex, TypeOK
  <2> QED
    BY <2>1, Listed, Zenon
<1>3. tail \notin dirty
  BY <1>0, <1>2, Listed, SMTT(30) DEF Pinned
<1>4. Bread(tail) = disk[tail] /\ disk[tail] \in Vals
  BY <1>0, <1>1, <1>2, <1>3, Zenon DEF Coherent, Bread, TypeOK
<1>5. /\ disk' = [disk EXCEPT ![a] = disk[tail]]
      /\ cache' = [cache EXCEPT ![a] = disk[tail]]
      /\ dirty' = dirty \ {a}
  BY <1>4, Zenon DEF InstallTrans, InstallBlock, CopyBlock, Bwrite
<1>6. \E x \in {"install", "erase"} :
        /\ pc' = [pc EXCEPT ![p] = x]
        /\ x = "install" => tail < Len(lh) /\ tail' = tail + 1
        /\ x = "erase" => tail = Len(lh) /\ tail' = 1
  <2>1. CASE tail < Len(lh)
    <3>1. pc' = [pc EXCEPT ![p] = "install"]
      BY <2>1, Zenon DEF InstallTrans, TypeOK
    <3> QED
      BY <2>1, <3>1, Zenon DEF InstallTrans
  <2>2. CASE ~(tail < Len(lh))
    BY <1>2, <2>2 DEF InstallTrans
  <2> QED
    BY <2>1, <2>2, Zenon
<1>7. PICK x \in {"install", "erase"} :
        /\ pc' = [pc EXCEPT ![p] = x]
        /\ x = "install" => tail < Len(lh) /\ tail' = tail + 1
        /\ x = "erase" => tail = Len(lh) /\ tail' = 1
  BY <1>6, ZenonT(30)
<1>8. TypeOK'
  <2>1. /\ disk' \in [Blocks -> Vals] /\ cache' \in [Blocks -> Vals \union {NoBuf}]
        /\ cache'[a] # NoBuf
    BY <1>2, <1>5, LogConstants DEF TypeOK
  <2>2. dirty' \subseteq {c \in Blocks : cache'[c] # NoBuf}
    BY <1>5, Zenon DEF TypeOK
  <2> QED
    BY <1>0, <1>2, <1>7, <2>1, <2>2, Listed, SMTT(30) DEF TypeOK
<1>9. /\ (Quiet /\ Counted /\ OneCommitter /\ Redone /\ Holders)'
      /\ \A y \in {"write_log", "write_head", "install", "erase", "committed"} :
           At(y)' <=> y = x
  BY <1>0, <1>7, <1>8, CommitStepFrame, ZenonT(30)
<1>10. (HeadFits /\ Distinct /\ HeadOnDisk)'
  BY <1>0, <1>1, <1>9, SMTT(30) DEF HeadFits, Distinct, HeadOnDisk
<1>11. LoopIndex'
  BY <1>0, <1>2, <1>7, <1>9 DEF LoopIndex
<1>12. Pinned'
  <2>1. \A c \in Blocks : c \in dirty <=> \E i \in 1 .. Len(lh) : lh[i] = c /\ i >= tail
    BY <1>0, <1>1, Zenon DEF Pinned
  <2>2. \A c \in Blocks : c \in dirty' <=> \E i \in 1 .. Len(lh) : lh[i] = c /\ i >= tail + 1
    BY <1>2, <1>5, <2>1, SMTT(30) DEF Distinct
  <2>3. CASE x = "install"
    BY <1>0, <1>7, <1>9, <2>2, SMTT(30) DEF Pinned
  <2>4. CASE x = "erase"
    <3>1. dirty' \subseteq Blocks
      BY <1>5, Zenon DEF TypeOK
    <3>2. dirty' = {}
      BY <1>7, <2>2, <2>4, <3>1, SMTT(30)
    <3> QED
      BY <1>9, <2>4, <3>2, Zenon DEF Pinned
  <2> QED
    BY <2>3, <2>4, Zenon
<1>13. Coherent'
  BY <1>0, <1>1, <1>2, <1>5, SMTT(30) DEF Coherent, TypeOK
<1>14. /\ \A i \in 1 .. Len(lh) : disk'[i] = disk[i]
       /\ \A i \in 1 .. Len(lh) : i # tail => lh[i] # a
  BY <1>2, <1>5, Listed DEF Distinct
<1>15. \A i \in 1 .. Len(lh) : /\ disk'[i] = Bread(lh[i])'
                               /\ i < tail + 1 => disk'[lh[i]] = disk'[i]
  <2>1. \A i \in 1 .. Len(lh) : /\ disk[i] = Bread(lh[i])
                                /\ i < tail => disk[lh[i]] = disk[i]
    BY <1>0, <1>1, <1>2 DEF Logged
  <2> SUFFICES ASSUME NEW i \in 1 .. Len(lh)
               PROVE  /\ disk'[i] = Bread(lh[i])'
                      /\ i < tail + 1 => disk'[lh[i]] = disk'[i]
    OBVIOUS
  <2>2. lh[i] \in Blocks /\ lh' = lh
    BY <1>0, Listed, Zenon
  <2>3. CASE i = tail
    <3>1. disk'[a] = disk[tail] /\ cache'[a] = disk[tail]
      BY <1>2, <1>5, Zenon DEF TypeOK
    <3> QED
      BY <1>14, <2>2, <2>3, <3>1, Zenon DEF Bread
  <2>4. CASE i # tail
    <3>1. disk'[lh[i]] = disk[lh[i]] /\ cache'[lh[i]] = cache[lh[i]]
      BY <1>5, <1>14, <2>2, <2>4, Zenon DEF TypeOK
    <3> QED
      BY <1>2, <1>14, <2>1, <2>2, <2>4, <3>1, SMTT(30) DEF Bread
  <2> QED
    BY <2>3, <2>4, Zenon
<1>16. Logged'
  <2>1. lh' = lh /\ Len(lh) \in Nat
    BY <1>0, Listed, Zenon
  <2>2. x = "install" => \A i \in 1 .. tail' - 1 : i \in 1 .. Len(lh) /\ i < tail + 1
    BY <1>2, <1>7, <2>1
  <2>3. x = "erase" => \A i \in 1 .. Len(lh) : i < tail + 1
    BY <1>2, <1>7, <2>1
  <2> QED
    BY <1>7, <1>9, <1>15, <2>1, <2>2, <2>3, Zenon DEF Logged
<1> QED
  BY <1>8, <1>9, <1>10, <1>11, <1>12, <1>13, <1>16, Zenon

\* The second write_head() of commit() erases the transaction.
LEMMA EraseHeadInv ==
  ASSUME IInv, NEW p \in Procs, EraseHead(p)
  PROVE  IInv'
<1> USE DEF IInv
<1>0. /\ mode = "up" /\ mode' = "up" /\ pc[p] = "erase" /\ p \in Committers
      /\ pc' = [pc EXCEPT ![p] = "committed"] /\ head' = <<>> /\ lh' = <<>>
      /\ UNCHANGED <<outstanding, committing, hold, wrote, tail, cache, dirty, disk>>
  BY Zenon DEF EraseHead, Committers, bufs
<1>1. At("erase")
  BY <1>0, Zenon DEF At
<1>2. TypeOK'
  BY <1>0 DEF TypeOK
<1>3. /\ (Quiet /\ Counted /\ OneCommitter /\ Redone /\ Holders)'
      /\ \A y \in {"write_log", "write_head", "install", "erase", "committed"} :
           At(y)' <=> y = "committed"
  BY <1>0, <1>2, CommitStepFrame, ZenonT(30)
<1>4. (HeadFits /\ Distinct /\ HeadOnDisk /\ LoopIndex /\ Logged)'
  BY <1>0, <1>3, EmptyLog, ZenonT(30) DEF HeadOnDisk, LoopIndex, Logged
<1>5. Pinned'
  BY <1>0, <1>1 DEF Pinned
<1>6. Coherent'
  BY <1>0, Zenon DEF Coherent, Busy
<1> QED
  BY <1>2, <1>3, <1>4, <1>5, <1>6, Zenon

\* The end of end_op(), after commit().
LEMMA EndCommitInv ==
  ASSUME IInv, NEW p \in Procs, EndCommit(p)
  PROVE  IInv'
<1> USE DEF IInv
<1>0. /\ mode = "up" /\ mode' = "up" /\ pc[p] = "committed" /\ p \in Committers
      /\ pc' = [Wakeup(pc) EXCEPT ![p] = "idle"] /\ committing' = FALSE
      /\ UNCHANGED <<outstanding, lh, hold, wrote, tail, cache, dirty, disk, head>>
  BY Zenon DEF EndCommit, Committers, bufs
<1>1. /\ Active = {}
      /\ \A q \in Procs : q # p => pc[q] \in {"idle", "asleep", "woken"}
      /\ At("committed") /\ ~At("install") /\ ~At("erase")
  BY <1>0, CommitsAlone, Zenon
<1>2. \A q \in Procs : pc'[q] \in {"idle", "woken"}
  BY <1>0, <1>1, Zenon DEF Wakeup
<1>3. Active' = {} /\ Committers' = {}
  BY <1>2 DEF Active, Committers
<1>4. \A x \in {"write_log", "write_head", "install", "erase", "committed"} : ~At(x)'
  BY <1>2 DEF At
<1>5. TypeOK'
  <2>1. /\ DOMAIN pc' = Procs /\ pc' = [q \in Procs |-> pc'[q]]
        /\ \A q \in Procs : pc'[q] \in {"idle", "woken"}
    BY <1>0, <1>2, ZenonT(30) DEF Wakeup
  <2> QED
    BY <1>0, <2>1, Zenon DEF TypeOK
<1>6. (Quiet /\ Counted /\ OneCommitter /\ Redone)'
  BY <1>0, <1>1, <1>3, Zenon DEF Quiet, Counted, OneCommitter, Redone
<1>7. Holders'
  BY <1>0, <1>1, <1>2, Zenon DEF Holders
<1>8. (HeadFits /\ Distinct /\ HeadOnDisk /\ LoopIndex /\ Logged)'
  <2>1. (HeadFits /\ Distinct)'
    BY <1>0, SMTT(30) DEF HeadFits, Distinct
  <2>2. HeadOnDisk'
    BY <1>0, <1>1, <1>4, Zenon DEF HeadOnDisk
  <2>3. LoopIndex'
    BY <1>0, <1>4, Zenon DEF LoopIndex
  <2>4. Logged'
    BY <1>4, Zenon DEF Logged
  <2> QED
    BY <2>1, <2>2, <2>3, <2>4, Zenon
<1>9. Pinned'
  BY <1>0, <1>1, <1>4, Zenon DEF Pinned
<1>10. Coherent'
  BY <1>0, Zenon DEF Coherent, Busy
<1> QED
  BY <1>5, <1>6, <1>7, <1>8, <1>9, <1>10, Zenon

\* bget() recycles a clean buffer, bread() fills one: the disk is the same
\* and so is what bread() shows of every block.
LEMMA CacheStepInv ==
  ASSUME IInv, NEW a \in Blocks, Recycle(a) \/ (a \in Home /\ ReadBlock(a))
  PROVE  /\ IInv'
         /\ \A c \in Blocks : Bread(c)' = Bread(c)
<1> USE DEF IInv
<1>0. /\ mode = "up" /\ a \notin dirty
      /\ cache'[a] \in {NoBuf, disk[a]}
      /\ cache' \in [Blocks -> Vals \union {NoBuf}]
      /\ \A c \in Blocks : c # a => cache'[c] = cache[c]
      /\ UNCHANGED <<outstanding, committing, lh, pc, hold, wrote, tail, dirty, disk,
                     head, mode>>
  BY Zenon DEF Recycle, ReadBlock, mem, op, TypeOK
<1>1. ~Busy(a) /\ (cache[a] = NoBuf \/ cache[a] = disk[a])
  <2>1. CASE Recycle(a)
    BY <1>0, <2>1, Zenon DEF Recycle, Coherent
  <2>2. CASE ReadBlock(a)
    BY <2>2, Addresses, Zenon DEF ReadBlock, Holders, Busy
  <2> QED
    BY <2>1, <2>2, Zenon
<1>2. \A c \in Blocks : Bread(c)' = Bread(c)
  BY <1>0, <1>1, Zenon DEF Bread
<1>3. TypeOK'
  BY <1>0, Zenon DEF TypeOK
<1>4. \A x : At(x)' <=> At(x)
  BY <1>0, Zenon DEF At
<1>5. (HeadFits /\ Quiet /\ Counted /\ OneCommitter /\ Distinct /\ HeadOnDisk /\ LoopIndex
        /\ Pinned /\ Redone)'
  <2>1. Active' = Active /\ Committers' = Committers
    BY <1>0, Zenon DEF Active, Committers
  <2>2. (HeadFits /\ Quiet /\ Counted /\ OneCommitter /\ Distinct /\ Redone)'
    BY <1>0, <2>1, ZenonT(30) DEF HeadFits, Quiet, Counted, OneCommitter, Distinct, Redone
  <2>3. (HeadOnDisk /\ LoopIndex /\ Pinned)'
    BY <1>0, <1>4, ZenonT(30) DEF HeadOnDisk, LoopIndex, Pinned
  <2> QED
    BY <2>2, <2>3, Zenon
<1>6. Holders'
  <2>1. \A q \in Procs : hold[q] # Header => hold[q] \in Blocks /\ hold[q] # a
    BY <1>0, <1>1, Addresses, Zenon DEF TypeOK, Busy
  <2> QED
    BY <1>0, <2>1, Zenon DEF Holders
<1>7. Coherent'
  BY <1>0, Zenon DEF Coherent, Busy
<1>8. \A i \in 1 .. Len(lh) : lh[i] \in Blocks
  BY Listed, Zenon
<1>9. ~At("install") /\ ~At("erase") => \A i \in 1 .. Len(lh) : lh[i] # a
  BY <1>0, <1>8, Zenon DEF Pinned
<1>10. /\ At("write_log") \/ At("write_head") => ~At("install") /\ ~At("erase")
  BY <1>0, CommitsAlone, Zenon DEF At, Committers
<1>11. At("write_log") => tail <= Len(lh) /\ Len(lh) \in Nat /\ tail \in Nat
  BY <1>0, Listed, Zenon DEF LoopIndex, TypeOK
<1>12. Logged'
  <2>1. (At("write_log") => \A i \in 1 .. tail - 1 : disk[i] = cache[lh[i]])'
    <3>1. At("write_log") => \A i \in 1 .. tail - 1 : i \in 1 .. Len(lh)
      BY <1>11
    <3>2. At("write_log") => \A i \in 1 .. tail - 1 : lh[i] \in Blocks /\ lh[i] # a
      BY <3>1, <1>8, <1>9, <1>10, Zenon
    <3> QED
      BY <1>0, <1>4, <3>2, Zenon DEF Logged
  <2>2. (At("write_head") => \A i \in 1 .. Len(lh) : disk[i] = cache[lh[i]])'
    <3>1. At("write_head") => \A i \in 1 .. Len(lh) : lh[i] \in Blocks /\ lh[i] # a
      BY <1>8, <1>9, <1>10, Zenon
    <3> QED
      BY <1>0, <1>4, <3>1, Zenon DEF Logged
  <2>3. (At("install") => /\ \A i \in 1 .. Len(lh) : disk[i] = Bread(lh[i])
                          /\ \A i \in 1 .. tail - 1 : disk[lh[i]] = disk[i])'
    <3>1. ASSUME At("install"), NEW i \in 1 .. Len(lh)
          PROVE  disk[i] = Bread(lh[i])'
      <4>1. disk[i] = Bread(lh[i])
        BY <1>0, <3>1, Zenon DEF Logged
      <4>2. lh[i] \in Blocks /\ lh'[i] = lh[i]
        BY <1>0, <1>8, <3>1, Zenon
      <4> QED
        BY <4>1, <4>2, <1>2, Zenon
    <3> QED
      BY <1>0, <1>4, <3>1, Zenon DEF Logged
  <2>4. (At("erase") => \A i \in 1 .. Len(lh) : disk[lh[i]] = disk[i])'
    BY <1>0, <1>4, Zenon DEF Logged
  <2> QED
    BY <2>1, <2>2, <2>3, <2>4, Zenon DEF Logged
<1> QED
  BY <1>2, <1>3, <1>5, <1>6, <1>7, <1>12, Zenon

\* A crash at any moment, and the reboot.
LEMMA CrashRebootInv ==
  ASSUME IInv, CrashReboot
  PROVE  IInv'
<1>1. TypeOK'
  <2>2. committing' \in BOOLEAN
    BY Zenon DEF CrashReboot
  <2> QED
    BY <2>2 DEF CrashReboot, IInv, TypeOK
<1>2. (Quiet /\ Counted /\ OneCommitter /\ Holders /\ Pinned /\ Logged)'
  BY Zenon DEF CrashReboot, Quiet, Counted, OneCommitter, Holders, Pinned, Logged
<1>3. (HeadFits /\ Distinct /\ HeadOnDisk /\ LoopIndex /\ Coherent /\ Redone)'
  <2>1. HeadFits' /\ HeadOnDisk' /\ LoopIndex' /\ Redone'
    <3>1. HeadFits
      BY Zenon DEF IInv
    <3> QED
      BY <3>1, Zenon DEF CrashReboot, HeadFits, HeadOnDisk, LoopIndex, Redone
  <2>2. Distinct'
    <3>1. Distinct /\ lh' = <<>> /\ head' = head
      BY Zenon DEF IInv, CrashReboot
    <3> QED
      BY <3>1 DEF Distinct
  <2>3. Coherent'
    BY Zenon DEF CrashReboot, Coherent
  <2> QED
    BY <2>1, <2>2, <2>3, Zenon
<1> QED
  BY <1>1, <1>2, <1>3, Zenon DEF IInv

\* read_head() of recover_from_log().
LEMMA ReadHeadInv ==
  ASSUME IInv, ReadHead
  PROVE  IInv'
<1> USE DEF IInv
<1>0. /\ mode = "read_head" /\ mode' \in {"install", "erase"} /\ lh' = head /\ tail = 1
      /\ mode' = "install" => head # <<>>
      /\ mode' = "erase" => head = <<>>
      /\ UNCHANGED <<outstanding, committing, pc, hold, wrote, tail, cache, dirty, disk,
                     head>>
  BY Zenon DEF ReadHead, op, bufs, LoopIndex
<1>1. TypeOK'
  BY <1>0, Zenon DEF TypeOK
<1>2. (HeadFits /\ Quiet /\ Counted /\ OneCommitter /\ Holders /\ Pinned /\ Logged)'
  BY <1>0, Zenon DEF HeadFits, Quiet, Counted, OneCommitter, Holders, Pinned, Logged
<1>3. (Distinct /\ HeadOnDisk /\ Redone /\ Coherent)'
  <2>1. Distinct' /\ HeadOnDisk'
    <3>1. Distinct /\ lh' = head /\ head' = head /\ mode' \in {"install", "erase"}
      BY <1>0, Zenon
    <3>2. Distinct'
      BY <3>1, Zenon DEF Distinct
    <3> HIDE DEF IInv
    <3> QED
      BY <3>1, <3>2 DEF HeadOnDisk
  <2>2. Redone'
    <3>1. tail' = 1 /\ (mode' = "erase" => lh' = <<>>)
      BY <1>0, Zenon
    <3> QED
      BY <3>1 DEF Redone
  <2>3. Coherent'
    <3>1. \A a \in Blocks : Busy(a)' <=> Busy(a)
      BY <1>0, Zenon DEF Busy
    <3>2. mode # "panic"
      BY <1>0
    <3> QED
      BY <1>0, <3>1, <3>2, Zenon DEF Coherent
  <2> QED
    BY <2>1, <2>2, <2>3, Zenon
<1>4. LoopIndex'
  BY <1>0 DEF LoopIndex
<1> QED
  BY <1>1, <1>2, <1>3, <1>4, Zenon

\* install_trans() of recover_from_log().
LEMMA RecoverInstallInv ==
  ASSUME IInv, RecoverInstall
  PROVE  /\ IInv'
         /\ disk' = [disk EXCEPT ![lh[tail]] = disk[tail]]
         /\ tail \in 1 .. Len(lh) /\ head = lh
<1> USE DEF IInv
<1> DEFINE a == lh[tail]
<1>0. /\ mode = "install" /\ mode' \in {"install", "erase"}
      /\ mode' = "install" => tail < Len(lh) /\ tail' = tail + 1
      /\ mode' = "erase" => ~(tail < Len(lh)) /\ tail' = 1
      /\ UNCHANGED <<outstanding, committing, lh, pc, hold, wrote, head>>
  BY Zenon DEF RecoverInstall, op, mem
<1>1. head = lh /\ LogFits /\ dirty = {} /\ \A c \in Blocks : ~Busy(c)
  BY <1>0, Addresses, Zenon DEF HeadOnDisk, HeadFits, LogFits, Quiet, Busy
<1>2. /\ tail \in 1 .. Len(lh) /\ tail \in Blocks /\ tail \notin Home
      /\ a \in Home /\ a \in Blocks /\ a # tail
  <2>1. tail \in 1 .. Len(lh)
    BY <1>0 DEF LoopIndex, TypeOK
  <2> QED
    BY <1>1, <2>1, Listed, Zenon
<1>3. Bread(tail) = disk[tail] /\ disk[tail] \in Vals
  BY <1>0, <1>1, <1>2, Zenon DEF Coherent, Bread, TypeOK
<1>4. /\ disk' = [disk EXCEPT ![a] = disk[tail]]
      /\ cache' = [cache EXCEPT ![a] = disk[tail]]
      /\ dirty' = {}
  BY <1>1, <1>3, Zenon DEF RecoverInstall, InstallBlock, CopyBlock, Bwrite
<1>5. TypeOK'
  <2>1. disk' \in [Blocks -> Vals] /\ cache' \in [Blocks -> Vals \union {NoBuf}]
    BY <1>2, <1>4, Zenon DEF TypeOK
  <2>2. tail' \in Nat \ {0}
    BY <1>0, <1>2, SMTT(30)
  <2> QED
    BY <1>0, <1>4, <2>1, <2>2, Zenon DEF TypeOK
<1>6. (HeadFits /\ Quiet /\ Counted /\ OneCommitter /\ Holders /\ Pinned /\ Logged)'
  BY <1>0, <1>4, Zenon DEF HeadFits, Quiet, Counted, OneCommitter, Holders, Pinned, Logged
<1>7. (Distinct /\ HeadOnDisk /\ LoopIndex)'
  BY <1>0, <1>2, Listed, SMTT(30) DEF Distinct, HeadOnDisk, LoopIndex
<1>8. Coherent'
  BY <1>0, <1>1, <1>4, Zenon DEF Coherent, TypeOK
<1>9. \A i \in 1 .. tail : disk'[lh[i]] = disk'[i]
  <2>1. \A i \in 1 .. tail - 1 : disk[lh[i]] = disk[i]
    BY <1>0, Zenon DEF Redone
  <2> SUFFICES ASSUME NEW i \in 1 .. tail PROVE disk'[lh[i]] = disk'[i]
    OBVIOUS
  <2>2. /\ i \in 1 .. Len(lh) /\ i \in Blocks /\ i # a
        /\ lh[i] \in Blocks
    BY <1>1, <1>2, Listed, SMTT(30)
  <2>3. disk'[i] = disk[i]
    BY <1>4, <2>2
  <2>4. CASE i = tail
    BY <1>2, <1>4, <2>3, <2>4, Zenon DEF TypeOK
  <2>5. CASE i # tail
    <3>1. lh[i] # a
      BY <1>2, <2>2, <2>5, Zenon DEF Distinct
    <3> QED
      BY <1>2, <1>4, <2>1, <2>2, <2>3, <2>5, <3>1, SMTT(30) DEF TypeOK
  <2> QED
    BY <2>4, <2>5, Zenon
<1>10. Redone'
  BY <1>0, <1>2, <1>9 DEF Redone
<1> QED
  BY <1>1, <1>2, <1>4, <1>5, <1>6, <1>7, <1>8, <1>10, Zenon

\* The last write_head() of recover_from_log().
LEMMA RecoverEraseInv ==
  ASSUME Counting, IInv, RecoverErase
  PROVE  IInv'
<1> USE DEF IInv
<1>0. /\ mode = "erase" /\ mode' = "up" /\ lh' = <<>> /\ head' = <<>>
      /\ UNCHANGED <<outstanding, committing, pc, hold, wrote, tail, cache, dirty, disk>>
  BY Zenon DEF RecoverErase, op, bufs
<1>1. /\ outstanding = 0 /\ ~committing /\ dirty = {}
      /\ \A p \in Procs : pc[p] = "idle" /\ hold[p] = Header
  BY <1>0, Zenon DEF Quiet
<1>2. TypeOK'
  BY <1>0 DEF TypeOK
<1>3. Active' = {} /\ Committers' = {}
  BY <1>0, <1>1, Zenon DEF Active, Committers
<1>4. \A x \in {"write_log", "write_head", "install", "erase", "committed"} : ~At(x)'
  BY <1>0, <1>1, Zenon DEF At
<1>5. (Quiet /\ Counted /\ OneCommitter /\ Holders /\ Redone)'
  BY <1>0, <1>1, <1>3, EmptyCount, Zenon DEF Quiet, Counted, OneCommitter, Holders, Redone
<1>6. (HeadFits /\ Distinct /\ HeadOnDisk /\ LoopIndex /\ Logged)'
  BY <1>0, <1>4, EmptyLog, ZenonT(30) DEF HeadOnDisk, LoopIndex, Logged
<1>7. (Pinned /\ Coherent)'
  BY <1>0, <1>1, EmptyLog, ZenonT(30) DEF Pinned, Coherent, Busy
<1> QED
  BY <1>2, <1>5, <1>6, <1>7, Zenon

\* Any step preserves the invariant, as long as the transaction fits.
LEMMA NextInv ==
  ASSUME Counting, IInv, LogFits, [Next]_vars
  PROVE  IInv'
<1>1. ASSUME NEW p \in Procs, BeginOp(p) \/ LogWrite(p) \/ EndOp(p) PROVE IInv'
  BY <1>1, BeginOpInv, LogWriteInv, EndOpInv
<1>2. ASSUME NEW p \in Procs, CommitStep(p) PROVE IInv'
  BY <1>2, WriteLogInv, WriteHeadInv, InstallTransInv, EraseHeadInv, EndCommitInv, Zenon
     DEF CommitStep
<1>3. ASSUME NEW p \in Procs, NEW b \in Home, NEW v \in Vals, Modify(p, b, v) PROVE IInv'
  BY <1>3, ModifyInv
<1>4. ASSUME NEW a \in Blocks, Recycle(a) PROVE IInv'
  BY <1>4, CacheStepInv
<1>5. ASSUME NEW b \in Home, ReadBlock(b) PROVE IInv'
  BY <1>5, CacheStepInv, Addresses
<1>6. CASE CrashReboot
  BY <1>6, CrashRebootInv
<1>7. CASE Recover
  BY <1>7, ReadHeadInv, RecoverInstallInv, RecoverEraseInv, Zenon DEF Recover
<1>8. CASE UNCHANGED vars
  <2> USE <1>8 DEF vars, At, Active, Committers, Busy
  <2>1. (TypeOK /\ HeadFits /\ Quiet /\ Counted /\ OneCommitter)'
    BY Zenon DEF IInv, TypeOK, HeadFits, Quiet, Counted, OneCommitter
  <2>2. (Holders /\ HeadOnDisk /\ LoopIndex)'
    BY Zenon DEF IInv, Holders, HeadOnDisk, LoopIndex
  <2>3. Distinct'
    BY Zenon DEF IInv, Distinct
  <2>4. Pinned'
    BY Zenon DEF IInv, Pinned
  <2>5. Coherent'
    BY Zenon DEF IInv, Coherent
  <2>6. Logged'
    BY Zenon DEF IInv, Logged, Bread
  <2>7. Redone'
    BY Zenon DEF IInv, Redone
  <2> QED
    BY <2>1, <2>2, <2>3, <2>4, <2>5, <2>6, <2>7, Zenon DEF IInv
<1> QED
  BY <1>1, <1>2, <1>3, <1>4, <1>5, <1>6, <1>7, <1>8, Zenon DEF Next

----------------------------------------------------------------------------
(* The refinement of AtomicDisk                                            *)

Open == IF mode = "up" THEN Active ELSE {}

\* What recovery makes of the disk, without CHOOSE.
RecoveredFacts ==
  /\ Recovered \in [Home -> Vals]
  /\ \A i \in 1 .. Len(head) : head[i] \in Home /\ Recovered[head[i]] = disk[i]
  /\ \A b \in Home : (\A i \in 1 .. Len(head) : head[i] # b) => Recovered[b] = disk[b]

\* A block is in the header at most once, so it has one copy to recover.
LEMMA RecoveredAt == IInv => RecoveredFacts
<1> SUFFICES ASSUME IInv PROVE RecoveredFacts
  OBVIOUS
<1>1. /\ head \in Seq(Home) /\ DOMAIN head = 1 .. Len(head) /\ Len(head) \in Nat
      /\ \A i \in 1 .. Len(head) : head[i] \in Home
      /\ \A i, j \in 1 .. Len(head) : head[i] = head[j] => i = j
  BY DEF IInv, TypeOK, Distinct
<1>2. \A i \in 1 .. Len(head) : i \in Blocks
  <2>1. \A i \in 1 .. Len(head) : i \in 1 .. NLOG - 1
    BY LogConstants DEF IInv, HeadFits
  <2> QED
    BY <2>1, Addresses
<1>3. ASSUME NEW i \in 1 .. Len(head) PROVE Recovered[head[i]] = disk[i]
  <2>1. (CHOOSE j \in DOMAIN head : head[j] = head[i]) = i
    OBVIOUS
  <2> QED
    BY <1>1, <2>1, Zenon DEF Recovered
<1>4. \A b \in Home : (\A i \in 1 .. Len(head) : head[i] # b) => Recovered[b] = disk[b]
  BY <1>1, Zenon DEF Recovered
<1>5. \A b \in Home : Recovered[b] \in Vals
  <2> SUFFICES ASSUME NEW b \in Home PROVE Recovered[b] \in Vals
    OBVIOUS
  <2>1. \A c \in Blocks : disk[c] \in Vals
    BY Zenon DEF IInv, TypeOK
  <2>2. b \in Blocks
    BY Addresses
  <2> QED
    BY <1>2, <1>3, <1>4, <2>1, <2>2
<1>6. Recovered = [b \in Home |-> Recovered[b]]
  BY DEF Recovered
<1> QED
  BY <1>1, <1>3, <1>4, <1>5, <1>6, Zenon DEF RecoveredFacts

\* The same after a step.
LEMMA RecoveredAtNext == IInv' => RecoveredFacts'
  BY RecoveredAt, PTL

\* Two recovered disks are the same if they agree on every home block.
LEMMA SameRecovered ==
  ASSUME RecoveredFacts, RecoveredFacts', \A b \in Home : Recovered'[b] = Recovered[b]
  PROVE  Recovered' = Recovered
  BY DEF RecoveredFacts

----------------------------------------------------------------------------

\* begin_op() starts an abstract operation, or waits.
LEMMA BeginOpStep ==
  ASSUME Counting, IInv, LogFits, NEW p \in Procs, BeginOp(p)
  PROVE  /\ View' = View /\ Recovered' = Recovered
         /\ Open' = Open \/ (p \notin Open /\ Open' = Open \union {p})
<1>1. mode = "up" /\ UNCHANGED <<cache, disk, head, mode>> /\ TypeOK
  BY Zenon DEF BeginOp, bufs, IInv
<1>2. View' = View /\ Recovered' = Recovered
  BY <1>1, Zenon DEF View, Recovered, Bread
<1>3. Open' = Open \/ (p \notin Open /\ Open' = Open \union {p})
  BY <1>1 DEF BeginOp, Open, Active, TypeOK
<1> QED
  BY <1>2, <1>3

\* Changing a buffer is an abstract update; a panic is an abstract crash.
LEMMA ModifyStep ==
  ASSUME Counting, IInv, LogFits, NEW p \in Procs, NEW b \in Home, NEW v \in Vals, Modify(p, b, v)
  PROVE  /\ Recovered' = Recovered
         /\ \/ View' = [View EXCEPT ![b] = v] /\ p \in Open /\ Open' = Open
            \/ View' = Recovered /\ Open' = {}
<1>1. /\ mode = "up" /\ UNCHANGED <<disk, head>> /\ cache' = [cache EXCEPT ![b] = v]
      /\ pc[p] = "active"
      /\ mode' = "panic" \/ (mode' = "up" /\ pc' = [pc EXCEPT ![p] = "log_write"])
      /\ cache \in [Blocks -> Vals \union {NoBuf}] /\ v # NoBuf
      /\ TypeOK
  BY LogConstants, Zenon DEF Modify, IInv, TypeOK
<1>2. Recovered' = Recovered
  BY <1>1 DEF Recovered
<1>3. CASE mode' = "panic"
  BY <1>2, <1>3 DEF View, Open
<1>4. CASE mode' = "up"
  <2>1. View = [c \in Home |-> Bread(c)] /\ View' = [c \in Home |-> Bread(c)']
    BY <1>1, <1>4, Zenon DEF View
  <2>2. \A c \in Home : Bread(c)' = IF c = b THEN v ELSE Bread(c)
    BY <1>1, Addresses, Zenon DEF Bread
  <2>3. View' = [View EXCEPT ![b] = v]
    BY <2>1, <2>2
  <2>4. p \in Open /\ Open' = Open
    BY <1>1, <1>4, SMTT(30) DEF Open, Active, TypeOK
  <2> QED
    BY <1>2, <2>3, <2>4
<1> QED
  BY <1>1, <1>3, <1>4, Zenon

\* The rest of log_write() changes nothing that can be seen.
LEMMA LogWriteStep ==
  ASSUME Counting, IInv, LogFits, NEW p \in Procs, LogWrite(p)
  PROVE  View' = View /\ Recovered' = Recovered /\ Open' = Open
<1>1. /\ mode = "up" /\ UNCHANGED <<cache, disk, head, mode>> /\ TypeOK
      /\ pc[p] = "log_write" /\ pc' = [pc EXCEPT ![p] = "active"]
  BY Zenon DEF LogWrite, IInv
<1> QED
  BY <1>1 DEF View, Recovered, Bread, Open, Active

\* end_op() ends the abstract operation.
LEMMA EndOpStep ==
  ASSUME Counting, IInv, LogFits, NEW p \in Procs, EndOp(p)
  PROVE  View' = View /\ Recovered' = Recovered /\ p \in Open /\ Open' = Open \ {p}
<1>0. mode = "up" /\ p \in Active /\ IInv
  BY Zenon DEF EndOp, Active
<1>1. ~committing
  BY <1>0, ActiveAlone
<1>2. UNCHANGED <<cache, disk, head, mode>> /\ TypeOK
  BY <1>0, <1>1, Zenon DEF EndOp, bufs, IInv
<1>3. View' = View /\ Recovered' = Recovered
  BY <1>2 DEF View, Recovered, Bread
<1>4. Open' = Open \ {p}
  BY <1>0, <1>1, <1>2, ZenonT(30) DEF EndOp, Open, Active, Wakeup, TypeOK
<1> QED
  BY <1>0, <1>3, <1>4 DEF Open

\* While somebody commits, and after the step, no operation is in progress.
LEMMA CommitOpen ==
  ASSUME IInv, LogFits, NEW p \in Procs, CommitStep(p)
  PROVE  /\ mode = "up" /\ mode' = "up" /\ p \in Committers /\ TypeOK /\ IInv
         /\ Open = {} /\ Open' = {}
<1>1. mode = "up" /\ mode' = "up" /\ p \in Committers /\ TypeOK /\ IInv
  BY Zenon DEF CommitStep, WriteLog, WriteHead, InstallTrans, EraseHead, EndCommit, Committers,
     IInv
<1>2. Active = {}
  BY <1>1, CommitsAlone
<1>3. /\ pc'[p] \notin {"active", "log_write"}
      /\ \A q \in Procs : q # p => pc'[q] = Wakeup(pc)[q] \/ pc'[q] = pc[q]
  BY <1>1, Zenon DEF CommitStep, WriteLog, WriteHead, InstallTrans, EraseHead, EndCommit,
     TypeOK, Wakeup
<1>4. Active' = {}
  BY <1>2, <1>3, Zenon DEF Active, Wakeup
<1> QED
  BY <1>1, <1>2, <1>4, Zenon DEF Open

\* write_log() writes where neither bread() nor recovery looks.
LEMMA WriteLogStep ==
  ASSUME IInv, LogFits, IInv', NEW p \in Procs, WriteLog(p)
  PROVE  View' = View /\ Recovered' = Recovered
<1>0. mode = "up" /\ mode' = "up" /\ p \in Committers /\ TypeOK /\ IInv /\ LogFits
  BY CommitOpen DEF CommitStep
<1>1. pc[p] = "write_log" /\ UNCHANGED <<lh, head>>
  BY Zenon DEF WriteLog, mem
<1>2. At("write_log") /\ head = <<>>
  BY <1>0, <1>1, CommitsAlone, Zenon DEF IInv, HeadOnDisk
<1>3. tail \in 1 .. Len(lh)
  <2>1. tail <= Len(lh)
    BY <1>0, <1>2, Zenon DEF IInv, LoopIndex
  <2>2. Len(lh) \in Nat /\ tail \in Nat \ {0}
    BY <1>0, Listed, Zenon DEF TypeOK
  <2> QED
    BY <2>1, <2>2
<1>4. tail \notin Home
  BY <1>0, <1>3, Listed
<1>5. \A b \in Home : disk'[b] = disk[b] /\ cache'[b] = cache[b]
  BY <1>4 DEF WriteLog, CopyBlock, Bwrite
<1>6. View' = View
  BY <1>0, <1>5, Zenon DEF View, Bread
<1>7. Recovered' = Recovered
  BY <1>1, <1>2, <1>5 DEF Recovered
<1> QED
  BY <1>6, <1>7

\* write_head() makes what the operations see the stable contents.
LEMMA WriteHeadStep ==
  ASSUME IInv, LogFits, IInv', NEW p \in Procs, WriteHead(p)
  PROVE  View' = View /\ Recovered' = View
<1>0. mode = "up" /\ mode' = "up" /\ p \in Committers /\ TypeOK /\ IInv
  BY CommitOpen DEF CommitStep
<1>1. pc[p] = "write_head" /\ UNCHANGED <<lh, cache, dirty, disk>> /\ head' = lh
  BY Zenon DEF WriteHead, mem, bufs
<1>2. /\ At("write_head") /\ ~At("install") /\ ~At("erase")
      /\ \A a \in Blocks : ~Busy(a)
  BY <1>0, <1>1, CommitsAlone, Zenon
<1>3. View' = View /\ View = [b \in Home |-> Bread(b)]
  BY <1>0, <1>1, Zenon DEF View, Bread
<1>4. \A i \in 1 .. Len(lh) : Recovered'[lh[i]] = Bread(lh[i])
  <2>1. \A i \in 1 .. Len(lh) : disk[i] = cache[lh[i]]
    BY <1>0, <1>2, Zenon DEF IInv, Logged
  <2>2. \A i \in 1 .. Len(lh) : lh[i] \in dirty
    BY <1>0, <1>2, Listed, Zenon DEF IInv, Pinned
  <2>3. \A i \in 1 .. Len(lh) : Bread(lh[i]) = cache[lh[i]]
    BY <1>0, <2>2, Zenon DEF TypeOK, Bread
  <2> QED
    BY <1>1, <2>1, <2>3, RecoveredAtNext, SMTT(30) DEF RecoveredFacts
<1>5. \A b \in Home : (\A i \in 1 .. Len(lh) : lh[i] # b) => Recovered'[b] = Bread(b)
  <2> SUFFICES ASSUME NEW b \in Home, \A i \in 1 .. Len(lh) : lh[i] # b
               PROVE  Recovered'[b] = Bread(b)
    OBVIOUS
  <2>1. b \in Blocks /\ b \notin dirty
    BY <1>0, Addresses, Zenon DEF IInv, Pinned
  <2>2. Bread(b) = disk[b]
    BY <1>0, <1>2, <2>1, Zenon DEF IInv, Coherent, Bread
  <2> QED
    BY <1>1, <2>2, RecoveredAtNext, Zenon DEF RecoveredFacts
<1>6. Recovered' \in [Home -> Vals]
  BY RecoveredAtNext DEF RecoveredFacts
<1>7. \A b \in Home : Recovered'[b] = Bread(b)
  BY <1>4, <1>5
<1> QED
  BY <1>3, <1>6, <1>7

\* install_trans() copies home what bread() and recovery show already.
LEMMA InstallTransStep ==
  ASSUME IInv, LogFits, IInv', NEW p \in Procs, InstallTrans(p)
  PROVE  View' = View /\ Recovered' = Recovered
<1> DEFINE a == lh[tail]
<1>0. mode = "up" /\ mode' = "up" /\ p \in Committers /\ TypeOK /\ IInv /\ LogFits
  BY CommitOpen DEF CommitStep
<1>1. pc[p] = "install" /\ UNCHANGED <<lh, head>>
  BY Zenon DEF InstallTrans, mem
<1>2. At("install") /\ head = lh /\ \A c \in Blocks : ~Busy(c)
  BY <1>0, <1>1, CommitsAlone, Zenon DEF IInv, HeadOnDisk
<1>3. tail \in 1 .. Len(lh)
  <2>1. tail <= Len(lh)
    BY <1>0, <1>2, Zenon DEF IInv, LoopIndex
  <2>2. tail \in Nat \ {0} /\ Len(lh) \in Nat
    BY <1>0, Listed, Zenon DEF TypeOK
  <2> QED
    BY <2>1, <2>2
<1>4. a \in Home /\ a \in Blocks /\ tail \in Blocks /\ tail \notin Home
  BY <1>0, <1>3, Listed
<1>5. tail \notin dirty
  BY <1>0, <1>4, Listed, SMTT(30) DEF IInv, Pinned
<1>6. Bread(tail) = disk[tail]
  BY <1>0, <1>2, <1>4, <1>5, Zenon DEF IInv, Coherent, Bread
<1>7. /\ disk' = [disk EXCEPT ![a] = disk[tail]]
      /\ cache' = [cache EXCEPT ![a] = disk[tail]]
  BY <1>6, Zenon DEF InstallTrans, InstallBlock, CopyBlock, Bwrite
<1>8. Bread(a) = disk[tail]
  BY <1>0, <1>2, <1>3, Zenon DEF IInv, Logged, Bread
<1>9. \A b \in Home : Bread(b)' = Bread(b)
  <2>1. \A b \in Home : b # a => Bread(b)' = Bread(b)
    BY <1>0, <1>7, Addresses, Zenon DEF Bread, TypeOK
  <2>2. \A b \in Home : b = a => Bread(b)' = Bread(b)
    BY <1>0, <1>4, <1>7, <1>8, SMTT(30) DEF Bread, TypeOK
  <2> QED
    BY <2>1, <2>2, Zenon
<1>10. View' = View
  BY <1>0, <1>9, Zenon DEF View
<1>11. \A b \in Home : Recovered'[b] = Recovered[b]
  <2>1. \A i \in 1 .. Len(lh) : disk'[i] = disk[i]
    BY <1>0, <1>4, <1>7, Listed, Zenon DEF TypeOK
  <2>2. \A b \in Home : b # a => disk'[b] = disk[b]
    BY <1>7
  <2> QED
    <3>1. RecoveredFacts /\ RecoveredFacts' /\ head = lh /\ head' = lh
      BY <1>0, <1>1, <1>2, RecoveredAt, RecoveredAtNext, Zenon
    <3>2. ASSUME NEW i \in 1 .. Len(lh) PROVE Recovered'[lh[i]] = Recovered[lh[i]]
      <4>1. Recovered[lh[i]] = disk[i]
        BY <3>1, Zenon DEF RecoveredFacts
      <4>2. Recovered'[lh[i]] = disk'[i]
        BY <3>1, Zenon DEF RecoveredFacts
      <4> QED
        BY <2>1, <4>1, <4>2, Zenon
    <3>3. ASSUME NEW b \in Home, \A i \in 1 .. Len(lh) : lh[i] # b
          PROVE  Recovered'[b] = Recovered[b]
      BY <1>3, <2>2, <3>1, <3>3, Zenon DEF RecoveredFacts
    <3> QED
      BY <3>2, <3>3, Zenon
<1>12. Recovered' = Recovered
  BY <1>0, <1>11, RecoveredAt, RecoveredAtNext, SameRecovered, Zenon
<1> QED
  BY <1>10, <1>12

\* Erasing the header changes nothing, for everything is at home.
LEMMA EraseHeadStep ==
  ASSUME IInv, LogFits, IInv', NEW p \in Procs, EraseHead(p)
  PROVE  View' = View /\ Recovered' = Recovered
<1>0. mode = "up" /\ mode' = "up" /\ p \in Committers /\ TypeOK /\ IInv
  BY CommitOpen DEF CommitStep
<1>1. pc[p] = "erase" /\ UNCHANGED <<cache, disk>> /\ head' = <<>>
  BY Zenon DEF EraseHead, bufs
<1>2. At("erase") /\ head = lh
  BY <1>0, <1>1, Zenon DEF At, IInv, HeadOnDisk
<1>3. View' = View
  BY <1>0, <1>1, Zenon DEF View, Bread
<1>4. \A i \in 1 .. Len(head) : disk[head[i]] = disk[i]
  BY <1>0, <1>2, Zenon DEF IInv, Logged
<1>5. \A b \in Home : Recovered[b] = disk[b]
  BY <1>0, <1>4, RecoveredAt DEF RecoveredFacts
<1>6. \A b \in Home : Recovered'[b] = disk[b]
  BY <1>1, SMTT(30) DEF Recovered
<1> QED
  BY <1>0, <1>3, <1>5, <1>6, RecoveredAt, RecoveredAtNext, SameRecovered, Zenon

\* commit() is an abstract commit at the commit point, and invisible before
\* and after it.
LEMMA CommitSteps ==
  ASSUME IInv, LogFits, IInv', NEW p \in Procs, CommitStep(p)
  PROVE  /\ Open = {} /\ Open' = {}
         /\ View' = View
         /\ Recovered' = Recovered \/ Recovered' = View
<1>1. CASE EndCommit(p)
  <2>1. mode = "up" /\ UNCHANGED <<mode, cache, disk, head>>
    BY <1>1, Zenon DEF EndCommit, bufs
  <2> QED
    BY <2>1, CommitOpen, Zenon DEF View, Recovered, Bread
<1> QED
  BY <1>1, CommitOpen, WriteLogStep, WriteHeadStep, InstallTransStep, EraseHeadStep, Zenon
     DEF CommitStep

\* Recycling and reading buffers is invisible.
LEMMA CacheSteps ==
  ASSUME IInv, LogFits, NEW a \in Blocks, Recycle(a) \/ (a \in Home /\ ReadBlock(a))
  PROVE  View' = View /\ Recovered' = Recovered /\ Open' = Open
<1>1. mode = "up" /\ UNCHANGED <<mode, disk, head, pc>> /\ IInv
  BY Zenon DEF Recycle, ReadBlock, op
<1>2. \A b \in Home : Bread(b)' = Bread(b)
  BY <1>1, CacheStepInv, Addresses, Zenon
<1> QED
  BY <1>1, <1>2, Zenon DEF View, Recovered, Open, Active

\* A crash loses what is not stable, and recovery, however often it is
\* interrupted, changes nothing any more.
LEMMA CrashSteps ==
  ASSUME IInv, LogFits, CrashReboot
  PROVE  View' = Recovered /\ Recovered' = Recovered /\ Open' = {}
  BY Zenon DEF CrashReboot, View, Recovered, Open

\* recover_from_log() works towards what Recovered says.
LEMMA RecoverSteps ==
  ASSUME IInv, LogFits, IInv', Recover
  PROVE  View' = View /\ Recovered' = Recovered /\ Open' = Open
<1>0. IInv /\ TypeOK /\ RecoveredFacts /\ RecoveredFacts'
  BY RecoveredAt, RecoveredAtNext, Zenon DEF IInv
<1>1. CASE ReadHead
  BY <1>1 DEF ReadHead, View, Recovered, Open
<1>2. CASE RecoverInstall
  <2>1. /\ disk' = [disk EXCEPT ![lh[tail]] = disk[tail]]
        /\ tail \in 1 .. Len(lh) /\ head = lh
    BY <1>0, <1>2, RecoverInstallInv
  <2>2. mode = "install" /\ mode' # "up" /\ UNCHANGED <<lh, head>> /\ LogFits
    BY <1>2, Zenon DEF RecoverInstall, mem
  <2>3. \A i \in 1 .. Len(lh) : disk'[i] = disk[i]
    BY <1>0, <2>1, <2>2, Listed, Zenon DEF TypeOK
  <2>4. \A b \in Home : b # lh[tail] => disk'[b] = disk[b]
    BY <1>0, <2>1, Addresses, Zenon DEF TypeOK
  <2>5. \A b \in Home : Recovered'[b] = Recovered[b]
    BY <1>0, <2>1, <2>2, <2>3, <2>4, SMTT(30) DEF RecoveredFacts
  <2>6. Recovered' = Recovered
    BY <1>0, <2>5, SameRecovered
  <2> QED
    BY <2>2, <2>6 DEF View, Open
<1>3. CASE RecoverErase
  <2>1. /\ mode = "erase" /\ mode' = "up" /\ head' = <<>>
        /\ UNCHANGED <<cache, dirty, disk, hold, pc>>
    BY <1>3, Zenon DEF RecoverErase, op, bufs
  <2>2. /\ head = lh /\ dirty = {}
        /\ \A q \in Procs : pc[q] = "idle" /\ hold[q] = Header
    BY <1>0, <2>1, Zenon DEF IInv, HeadOnDisk, Quiet
  <2>3. \A i \in 1 .. Len(head) : disk[head[i]] = disk[i]
    BY <1>0, <2>1, <2>2, Zenon DEF IInv, Redone
  <2>4. \A b \in Home : Recovered[b] = disk[b]
    BY <1>0, <2>3 DEF RecoveredFacts
  <2>5. \A b \in Home : Recovered'[b] = disk[b]
    BY <2>1 DEF Recovered
  <2>6. Recovered' = Recovered
    BY <1>0, <2>4, <2>5, SameRecovered, Zenon
  <2>7. \A b \in Home : Bread(b)' = disk[b]
    <3>1. ASSUME NEW b \in Home PROVE b \in Blocks /\ b \notin dirty /\ ~Busy(b)
      BY <2>2, <3>1, Addresses, Zenon DEF Busy
    <3>2. ASSUME NEW b \in Home PROVE cache[b] \in {NoBuf, disk[b]}
      BY <1>0, <2>1, <3>1, Zenon DEF IInv, Coherent
    <3> QED
      BY <2>1, <3>2, Zenon DEF Bread
  <2>8. View' = [b \in Home |-> Recovered[b]]
    BY <2>1, <2>4, <2>7, Zenon DEF View
  <2>9. View = Recovered /\ View' = View
    BY <1>0, <2>1, <2>8, Zenon DEF View, RecoveredFacts
  <2>10. Open' = {} /\ Open = {}
    BY <2>1, <2>2, Zenon DEF Open, Active
  <2> QED
    BY <2>6, <2>9, <2>10
<1> QED
  BY <1>1, <1>2, <1>3 DEF Recover

----------------------------------------------------------------------------

\* Every step of the log is a step of AtomicDisk or invisible.
LEMMA StepSimulation ==
  ASSUME Counting, IInv, LogFits, IInv', [Next]_vars
  PROVE  [AD!ADNext]_(AD!advars)
<1> USE DEF AD!ADNext, AD!advars
<1>1. ASSUME NEW p \in Procs, BeginOp(p) PROVE [AD!ADNext]_(AD!advars)
  BY <1>1, BeginOpStep, Zenon DEF AD!Begin, Open
<1>2. ASSUME NEW p \in Procs, EndOp(p) PROVE [AD!ADNext]_(AD!advars)
  BY <1>2, EndOpStep, Zenon DEF AD!End, Open
<1>3. ASSUME NEW p \in Procs, LogWrite(p) PROVE [AD!ADNext]_(AD!advars)
  BY <1>3, LogWriteStep, Zenon DEF Open
<1>4. ASSUME NEW p \in Procs, CommitStep(p) PROVE [AD!ADNext]_(AD!advars)
  BY <1>4, CommitSteps, Zenon DEF AD!Commit, Open
<1>5. ASSUME NEW p \in Procs, NEW b \in Home, NEW v \in Vals, Modify(p, b, v)
      PROVE  [AD!ADNext]_(AD!advars)
  BY <1>5, ModifyStep, SMTT(30) DEF AD!Update, AD!Crash, Open
<1>6. ASSUME NEW a \in Blocks, Recycle(a) \/ (a \in Home /\ ReadBlock(a))
      PROVE  [AD!ADNext]_(AD!advars)
  BY <1>6, CacheSteps, Zenon DEF Open
<1>7. CASE CrashReboot
  BY <1>7, CrashSteps DEF AD!Crash, Open
<1>8. CASE Recover
  BY <1>8, RecoverSteps, Zenon DEF Open
<1>9. CASE UNCHANGED vars
  BY <1>9, Zenon DEF vars, View, Recovered, Bread, Active
<1> QED
  BY <1>1, <1>2, <1>3, <1>4, <1>5, <1>6, <1>7, <1>8, <1>9, Addresses, Zenon DEF Next

----------------------------------------------------------------------------
(* The initial state, and what the invariant implies                       *)

\* Every initial state satisfies the reservation too.
LEMMA InitReserves == Init => Inv
<1> SUFFICES ASSUME Init PROVE Inv
  OBVIOUS
<1>1. IInv
  BY InitInv
<1>2. Reserved /\ Shares /\ LogFits /\ Drained
  BY LogConstants DEF Init, Reserved, Shares, LogFits, Drained
<1> QED
  BY <1>1, <1>2 DEF Inv

\* A quiet log has nothing that a crash could lose.
LEMMA QuietIsDurable == ASSUME Counting PROVE Inv => QuiescentDurable
<1> SUFFICES ASSUME Inv, mode = "up", outstanding = 0, ~committing
             PROVE  View = Recovered
  BY DEF QuiescentDurable
<1>1. IInv /\ TypeOK
  BY DEF Inv, IInv
<1>2. Active = {}
  BY <1>1, Finite, EmptyCount, Zenon DEF FiniteCounts, IInv, Counted
<1>3. Committers = {} /\ lh = <<>>
  BY <1>2 DEF IInv, OneCommitter, Inv, Drained
<1>4. head = <<>>
  BY <1>1, <1>3, Zenon DEF IInv, HeadOnDisk, At, Committers
<1>5. dirty = {}
  BY <1>1, <1>3, SMTT(30) DEF IInv, Pinned, TypeOK
<1>6. \A a \in Blocks : ~Busy(a)
  BY <1>1, <1>2, Addresses, Zenon DEF IInv, Holders, Busy, Active
<1>7. \A a \in Blocks : Bread(a) = disk[a]
  BY <1>1, <1>5, <1>6 DEF IInv, Coherent, Bread
<1> QED
  BY <1>4, <1>7, Addresses DEF View, Recovered

\* With one block to spare, for log_write() asks for room before it finds out
\* whether the block is in the log already.
Margin == /\ OPWRITES < MAXOPBLOCKS
          /\ LOGSIZE - MAXOPBLOCKS + OPWRITES < NLOG - 1

\* No step panics.
LEMMA StepNoPanic ==
  ASSUME Counting, Room, Margin
  PROVE  Inv /\ NoPanic /\ [Next]_vars => NoPanic'
<1> SUFFICES ASSUME Inv, mode # "panic", [Next]_vars PROVE mode' # "panic"
  BY DEF NoPanic
<1>0. IInv /\ TypeOK /\ Reserved /\ Shares
  BY DEF Inv, IInv
<1>1. ASSUME NEW p \in Procs, EndOp(p) PROVE mode' # "panic"
  <2>1. p \in Active /\ mode = "up"
    BY <1>1, Zenon DEF EndOp, Active
  <2>2. ~committing
    BY <1>0, <2>1, ActiveAlone, Zenon
  <2> QED
    BY <1>1, <2>2, Zenon DEF EndOp
<1>2. ASSUME NEW p \in Procs, NEW b \in Home, NEW v \in Vals, Modify(p, b, v)
      PROVE  mode' # "panic"
  <2>1. p \in Active /\ mode = "up"
    BY <1>2, Zenon DEF Modify, Active
  <2>2. outstanding \in Nat \ {0}
    BY <1>0, <2>1, ActiveAlone
  <2>3. Len(lh) <= LOGSIZE - MAXOPBLOCKS + OPWRITES /\ Len(lh) \in Nat
    BY <1>0, <2>1, ReservedFits, Listed, Zenon DEF ShareFits
  <2>4. ~LogWritePanics
    BY <2>2, <2>3, LogConstants, SMTT(30) DEF LogWritePanics, Margin
  <2> QED
    BY <1>2, <2>4, Zenon DEF Modify
<1>3. ASSUME NEW p \in Procs, BeginOp(p) \/ LogWrite(p) \/ CommitStep(p)
      PROVE  mode' # "panic"
  BY <1>3, Zenon DEF BeginOp, LogWrite, CommitStep, WriteLog, WriteHead, InstallTrans,
     EraseHead, EndCommit
<1>4. CASE \/ \E a \in Blocks : Recycle(a)
           \/ \E b \in Home : ReadBlock(b)
           \/ CrashReboot \/ Recover
  BY <1>4, Zenon DEF Recycle, ReadBlock, CrashReboot, Recover, ReadHead, RecoverInstall,
     RecoverErase
<1>5. CASE UNCHANGED vars
  BY <1>5 DEF vars
<1> QED
  BY <1>1, <1>2, <1>3, <1>4, <1>5, Zenon DEF Next

\* The initial states are those of AtomicDisk.
LEMMA InitSimulation == Init => AD!ADInit
<1> SUFFICES ASSUME Init PROVE AD!ADInit
  OBVIOUS
<1>1. IInv
  BY InitInv
<1>2. Recovered \in [Home -> Vals]
  BY <1>1, RecoveredAt DEF RecoveredFacts
<1>3. mode # "up"
  BY DEF Init
<1> QED
  BY <1>2, <1>3 DEF AD!ADInit, View

----------------------------------------------------------------------------
(* The theorems                                                            *)

F == INSTANCE FiniteSetTheorems

\* The library counts as this module does, so what it proves is Counting.
LEMMA SameCount ==
  /\ \A S : F!IsFiniteSet(S) <=> IsFiniteSet(S)
  /\ \A S : F!Cardinality(S) = Cardinality(S)
<1>1. \A S : F!IsFiniteSet(S) <=> IsFiniteSet(S)
  BY DEF F!IsFiniteSet, IsFiniteSet
<1>2. \A S : F!Cardinality(S) = Cardinality(S)
  BY DEF F!Cardinality, Cardinality
<1> QED
  BY <1>1, <1>2, Zenon

\* What the lemmas above assume of finite sets.
LEMMA CountingHolds == Counting
<1>1. /\ IsFiniteSet({}) /\ Cardinality({}) = 0
      /\ \A S : IsFiniteSet(S) => (Cardinality(S) = 0 <=> S = {})
  BY F!FS_EmptySet, SameCount
<1>2. \A x : IsFiniteSet({x}) /\ Cardinality({x}) = 1
  BY F!FS_Singleton, SameCount, ZenonT(30)
<1>3. \A S : IsFiniteSet(S) => Cardinality(S) \in Nat
  BY F!FS_CardinalityType, SameCount, Zenon
<1>4. \A S : IsFiniteSet(S) =>
        \A T \in SUBSET S : IsFiniteSet(T) /\ Cardinality(T) <= Cardinality(S)
  BY F!FS_Subset, SameCount
<1>5. \A S, x : IsFiniteSet(S) =>
        /\ IsFiniteSet(S \union {x})
        /\ Cardinality(S \union {x}) = IF x \in S THEN Cardinality(S) ELSE Cardinality(S) + 1
  BY F!FS_AddElement, SameCount, ZenonT(30)
<1>6. \A S, x : IsFiniteSet(S) =>
        /\ IsFiniteSet(S \ {x})
        /\ Cardinality(S \ {x}) = IF x \in S THEN Cardinality(S) - 1 ELSE Cardinality(S)
  BY F!FS_RemoveElement, SameCount, ZenonT(30)
<1>7. \A m, n \in Nat : /\ IsFiniteSet(m .. n)
                        /\ Cardinality(m .. n) = IF m > n THEN 0 ELSE n - m + 1
  BY F!FS_Interval, SameCount
<1>8. \A S, T : IsFiniteSet(S) /\ IsFiniteSet(T) =>
        IsFiniteSet(S \X T) /\ Cardinality(S \X T) = Cardinality(S) * Cardinality(T)
  BY F!FS_Product, SameCount, ZenonT(30)
<1> QED
  BY <1>1, <1>2, <1>3, <1>4, <1>5, <1>6, <1>7, <1>8, ZenonT(30) DEF Counting

\* The invariant holds in every reachable state of a log with room.
THEOREM Invariance == ASSUME Room PROVE Spec => []Inv
<1>1. Inv /\ [Next]_vars => Inv'
  BY CountingHolds, NextInv, NextReserves, NextDrains, Zenon DEF Inv
<1> QED
  BY <1>1, InitReserves, PTL DEF Spec

\* log.c keeps its state well typed: the transaction lists home blocks only,
\* and no B_DIRTY buffer is ever dropped.
THEOREM TypeCorrect == ASSUME Room PROVE Spec => []TypeOK
  BY Invariance, PTL DEF Inv, IInv

\* begin_op() and log_write() never let the transaction outgrow the log area.
THEOREM TransactionFits == ASSUME Room PROVE Spec => []LogFits
  BY Invariance, PTL DEF Inv

\* Once the last end_op() has returned, a crash loses nothing.
THEOREM EndedIsDurable == ASSUME Room PROVE Spec => []QuiescentDurable
  BY QuietIsDurable, CountingHolds, Invariance, PTL

\* No panic() of log.c is reached.
THEOREM NeverPanics == ASSUME Margin PROVE Spec => []NoPanic
<1>1. Room
  BY LogConstants DEF Margin, Room
<1>2. Init => NoPanic
  BY DEF Init, NoPanic
<1>3. Inv /\ NoPanic /\ [Next]_vars => NoPanic'
  BY <1>1, CountingHolds, StepNoPanic
<1> QED
  BY <1>1, <1>2, <1>3, Invariance, PTL DEF Spec

\* The log implements AtomicDisk: whatever crashes, and wherever, the
\* operations between two commits survive together or not at all.
THEOREM CrashesAreAtomic == ASSUME Room PROVE Spec => CrashAtomic
<1>1. Inv => IInv
  BY DEF Inv
<1>2. Inv /\ IInv' /\ [Next]_vars => [AD!ADNext]_(AD!advars)
  BY CountingHolds, StepSimulation DEF Inv
<1> QED
  BY <1>1, <1>2, InitSimulation, Invariance, PTL DEF Spec, CrashAtomic, AD!ADSpec


=============================================================================
