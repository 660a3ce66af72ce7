------------------------------ MODULE FsProofs ------------------------------
(***************************************************************************)
(* References to inodes, for any number of processes, inodes and names and *)
(* any paths: ip->ref is the number of pointers to the inode, so no path   *)
(* through open(), chdir(), link(), unlink(), mkdir(), mknod() and close() *)
(* forgets an iput() or makes one too many, and the count never drops      *)
(* below zero.                                                             *)
(*                                                                         *)
(* RefsExact is not inductive: a step that overwrites a pointer must know  *)
(* that the pointer is not in use.  Which ones are follows from the place  *)
(* of the process and from its system call (Placed).                       *)
(***************************************************************************)
EXTENDS Fs, TLAPS

Types   == {"free", "dir", "file", "dev"}
Dinodes == [Inodes -> [type : Types, nlink : Int]]
Caches  == [Inodes -> [ref : Nat, busy : Procs \union {None}, valid : BOOLEAN,
                       type : Types, nlink : Int]]

Creates == {"creat", "mkdir", "mknod"}

\* Where the pointers of a call are in use.
AtPlaces == {"namei", "nameiparent"}
DpPlaces == {"unlink1", "unlink2", "create1", "create3", "link2"}
IpPlaces == {"unlink2", "unlink3", "create2", "create3", "created", "link1", "link2",
             "bad", "open", "chdir"}
Places   == {"user", "end", "namei", "nameiparent", "create1", "unlink1"} \union IpPlaces

TypeOK ==
  /\ dinode \in Dinodes
  /\ dents \in [Inodes -> [Entries -> 0 .. NINODES]]
  /\ icache \in Caches
  /\ cwd \in [Procs -> Inodes]
  /\ file \in [Procs -> Inodes \union {None}]
  /\ pc \in [Procs -> Places]
  /\ rest \in [Procs -> Seq(Entries)]
  /\ at \in [Procs -> Inodes \union {None}]
  /\ dp \in [Procs -> Inodes \union {None}]
  /\ ip \in [Procs -> Inodes \union {None}]
  /\ puts \in [Procs -> Seq(Inodes)]
  /\ freeing \in [Procs -> 0 .. 2]
  /\ DOMAIN call = Procs

\* The pointers a process holds, and the calls it can be in, at its place.
Fits(place, c, r, a, d, x, s) ==
  /\ a # None <=> place \in AtPlaces
  /\ d # None <=> place \in DpPlaces
  /\ x # None <=> place \in IpPlaces \/ (place = "nameiparent" /\ c.op = "link")
  /\ place = "user" => s = <<>>
  /\ Len(s) <= 2
  /\ place \in DpPlaces => r # <<>>
  /\ place \in {"create1", "create2", "create3", "created"} => c.op \in Creates
  /\ place \in {"link1", "link2", "bad"} => c.op = "link" /\ c.new \in Paths
  /\ place = "namei" => /\ c.op \in {"open", "chdir", "link"}
                        /\ c.op = "link" => c.new \in Paths
  /\ place = "nameiparent" => /\ c.op \in {"unlink", "link"} \union Creates
                              /\ c.op = "link" => c.new \in Paths

Placed(p) == Fits(pc[p], call[p], rest[p], at[p], dp[p], ip[p], puts[p])

\* A transaction is open for every process inside a call.
Inside == {p \in Procs : pc[p] # "user"}

\* The inductive invariant.
IInv == /\ TypeOK
        /\ \A p \in Procs : Placed(p)
        /\ outstanding = Cardinality(Inside)
        /\ RefsExact

----------------------------------------------------------------------------
(* Counting pointers                                                       *)

\* Sets of processes that differ in p at most.  The library's theorems about
\* finite sets show it (CountingHolds, below).
Counting ==
  \A S, T \in SUBSET Procs : \A p \in Procs :
    (\A q \in Procs \ {p} : q \in S <=> q \in T) =>
      /\ Cardinality(S) \in Nat /\ Cardinality(T) \in Nat
      /\ p \in S => Cardinality(S) >= 1
      /\ Cardinality(T) + (IF p \in S THEN 1 ELSE 0)
           = Cardinality(S) + (IF p \in T THEN 1 ELSE 0)

\* What one pointer, and the k-th inode to put, add to the references to i.
One(x, i)    == IF x = i THEN 1 ELSE 0
Due(s, k, i) == IF k <= Len(s) /\ s[k] = i THEN 1 ELSE 0

\* Those of all processes.
Refs(f, i)    == Cardinality({p \in Procs : f[p] = i})
Dues(f, k, i) == Cardinality({p \in Procs : k <= Len(f[p]) /\ f[p][k] = i})

\* Functions that differ at p at most.
Apart(f, g, p) == \A q \in Procs \ {p} : g[q] = f[q]

\* A count n of things, m after a step, of which p holds x and then y.
Moved(n, m, x, y) == n \in Nat /\ m \in Nat /\ x \in Nat /\ y \in Nat /\ n >= x /\ m + x = n + y

\* The references process p holds to i, and those a step leaves it.
Held(c, f, a, d, x, s, i) == One(c, i) + One(f, i) + One(a, i) + One(d, i) + One(x, i)
                               + Due(s, 1, i) + Due(s, 2, i)
Mine(p, i)     == Held(cwd[p], file[p], at[p], dp[p], ip[p], puts[p], i)
MineNext(p, i) == Held(cwd'[p], file'[p], at'[p], dp'[p], ip'[p], puts'[p], i)

\* A step of p leaves the other processes alone.
Elsewhere(p) ==
  \A q \in Procs \ {p} :
    /\ cwd'[q] = cwd[q] /\ file'[q] = file[q] /\ pc'[q] = pc[q] /\ call'[q] = call[q]
    /\ rest'[q] = rest[q] /\ at'[q] = at[q] /\ dp'[q] = dp[q] /\ ip'[q] = ip[q]
    /\ puts'[q] = puts[q]

\* Each count of Pointers moves by what p does.
LEMMA HoldsMoves ==
  ASSUME Counting, NEW p \in Procs, NEW i, NEW f, NEW g, Apart(f, g, p)
  PROVE  Moved(Refs(f, i), Refs(g, i), One(f[p], i), One(g[p], i))
<1> DEFINE S == {q \in Procs : f[q] = i}
           T == {q \in Procs : g[q] = i}
<1>1. S \in SUBSET Procs /\ T \in SUBSET Procs
  OBVIOUS
<1>2. \A q \in Procs \ {p} : q \in S <=> q \in T
  BY Zenon DEF Apart
<1>3. (p \in S <=> f[p] = i) /\ (p \in T <=> g[p] = i)
  OBVIOUS
<1>4. Refs(f, i) = Cardinality(S) /\ Refs(g, i) = Cardinality(T)
  BY Zenon DEF Refs
<1> HIDE DEF S, T
<1>5. /\ Cardinality(S) \in Nat /\ Cardinality(T) \in Nat
      /\ p \in S => Cardinality(S) >= 1
      /\ Cardinality(T) + (IF p \in S THEN 1 ELSE 0)
           = Cardinality(S) + (IF p \in T THEN 1 ELSE 0)
  BY <1>1, <1>2, Zenon DEF Counting
<1> QED
  BY <1>3, <1>4, <1>5 DEF One, Moved

LEMMA DueMoves ==
  ASSUME Counting, NEW p \in Procs, NEW i, NEW k, NEW f, NEW g, Apart(f, g, p)
  PROVE  Moved(Dues(f, k, i), Dues(g, k, i), Due(f[p], k, i), Due(g[p], k, i))
<1> DEFINE S == {q \in Procs : k <= Len(f[q]) /\ f[q][k] = i}
           T == {q \in Procs : k <= Len(g[q]) /\ g[q][k] = i}
<1>1. S \in SUBSET Procs /\ T \in SUBSET Procs
  BY Zenon
<1>2. \A q \in Procs \ {p} : q \in S <=> q \in T
  BY Zenon DEF Apart
<1>3. /\ Due(f[p], k, i) = IF p \in S THEN 1 ELSE 0
      /\ Due(g[p], k, i) = IF p \in T THEN 1 ELSE 0
  BY Zenon DEF Due
<1>4. Dues(f, k, i) = Cardinality(S) /\ Dues(g, k, i) = Cardinality(T)
  BY Zenon DEF Dues
<1> HIDE DEF S, T
<1>5. /\ Cardinality(S) \in Nat /\ Cardinality(T) \in Nat
      /\ p \in S => Cardinality(S) >= 1
      /\ Cardinality(T) + (IF p \in S THEN 1 ELSE 0)
           = Cardinality(S) + (IF p \in T THEN 1 ELSE 0)
  BY <1>1, <1>2, Zenon DEF Counting
<1> QED
  BY <1>3, <1>4, <1>5 DEF Moved

LEMMA MovedAdds ==
  ASSUME NEW n, NEW m, NEW x, NEW y, NEW nn, NEW mm, NEW xx, NEW yy,
         Moved(n, m, x, y), Moved(nn, mm, xx, yy)
  PROVE  Moved(n + nn, m + mm, x + xx, y + yy)
BY DEF Moved

LEMMA PointersMove ==
  ASSUME Counting, NEW p \in Procs, NEW i \in Inodes, Elsewhere(p)
  PROVE  /\ Pointers(i) \in Nat /\ Pointers(i)' \in Nat
         /\ Mine(p, i) \in Nat /\ Mine(p, i) <= Pointers(i)
         /\ Pointers(i)' + Mine(p, i) = Pointers(i) + MineNext(p, i)
<1>1. /\ Apart(cwd, cwd', p) /\ Apart(file, file', p) /\ Apart(at, at', p)
      /\ Apart(dp, dp', p) /\ Apart(ip, ip', p) /\ Apart(puts, puts', p)
  BY Zenon DEF Elsewhere, Apart
<1>2. Moved(Refs(cwd, i), Refs(cwd', i), One(cwd[p], i), One(cwd'[p], i))
  BY <1>1, HoldsMoves, Zenon
<1>3. Moved(Refs(file, i), Refs(file', i), One(file[p], i), One(file'[p], i))
  BY <1>1, HoldsMoves, Zenon
<1>4. Moved(Refs(at, i), Refs(at', i), One(at[p], i), One(at'[p], i))
  BY <1>1, HoldsMoves, Zenon
<1>5. Moved(Refs(dp, i), Refs(dp', i), One(dp[p], i), One(dp'[p], i))
  BY <1>1, HoldsMoves, Zenon
<1>6. Moved(Refs(ip, i), Refs(ip', i), One(ip[p], i), One(ip'[p], i))
  BY <1>1, HoldsMoves, Zenon
<1>7. Moved(Dues(puts, 1, i), Dues(puts', 1, i), Due(puts[p], 1, i), Due(puts'[p], 1, i))
  BY <1>1, DueMoves, Zenon
<1>8. Moved(Dues(puts, 2, i), Dues(puts', 2, i), Due(puts[p], 2, i), Due(puts'[p], 2, i))
  BY <1>1, DueMoves, Zenon
<1>9. /\ Pointers(i) = Refs(cwd, i) + Refs(file, i) + Refs(at, i) + Refs(dp, i) + Refs(ip, i)
                         + Dues(puts, 1, i) + Dues(puts, 2, i)
      /\ Pointers(i)' = Refs(cwd', i) + Refs(file', i) + Refs(at', i) + Refs(dp', i)
                          + Refs(ip', i) + Dues(puts', 1, i) + Dues(puts', 2, i)
  BY Zenon DEF Pointers, Refs, Dues
<1>10. Moved(Refs(cwd, i) + Refs(file, i), Refs(cwd', i) + Refs(file', i),
             One(cwd[p], i) + One(file[p], i), One(cwd'[p], i) + One(file'[p], i))
  BY <1>2, <1>3, MovedAdds, Zenon
<1>11. Moved(Refs(cwd, i) + Refs(file, i) + Refs(at, i),
             Refs(cwd', i) + Refs(file', i) + Refs(at', i),
             One(cwd[p], i) + One(file[p], i) + One(at[p], i),
             One(cwd'[p], i) + One(file'[p], i) + One(at'[p], i))
  BY <1>10, <1>4, MovedAdds, Zenon
<1>12. Moved(Refs(cwd, i) + Refs(file, i) + Refs(at, i) + Refs(dp, i),
             Refs(cwd', i) + Refs(file', i) + Refs(at', i) + Refs(dp', i),
             One(cwd[p], i) + One(file[p], i) + One(at[p], i) + One(dp[p], i),
             One(cwd'[p], i) + One(file'[p], i) + One(at'[p], i) + One(dp'[p], i))
  BY <1>11, <1>5, MovedAdds, Zenon
<1>13. Moved(Refs(cwd, i) + Refs(file, i) + Refs(at, i) + Refs(dp, i) + Refs(ip, i),
             Refs(cwd', i) + Refs(file', i) + Refs(at', i) + Refs(dp', i) + Refs(ip', i),
             One(cwd[p], i) + One(file[p], i) + One(at[p], i) + One(dp[p], i) + One(ip[p], i),
             One(cwd'[p], i) + One(file'[p], i) + One(at'[p], i) + One(dp'[p], i)
               + One(ip'[p], i))
  BY <1>12, <1>6, MovedAdds, Zenon
<1>14. Moved(Refs(cwd, i) + Refs(file, i) + Refs(at, i) + Refs(dp, i) + Refs(ip, i)
               + Dues(puts, 1, i),
             Refs(cwd', i) + Refs(file', i) + Refs(at', i) + Refs(dp', i) + Refs(ip', i)
               + Dues(puts', 1, i),
             One(cwd[p], i) + One(file[p], i) + One(at[p], i) + One(dp[p], i) + One(ip[p], i)
               + Due(puts[p], 1, i),
             One(cwd'[p], i) + One(file'[p], i) + One(at'[p], i) + One(dp'[p], i)
               + One(ip'[p], i) + Due(puts'[p], 1, i))
  BY <1>13, <1>7, MovedAdds, Zenon
<1>15. Moved(Pointers(i), Pointers(i)', Mine(p, i), MineNext(p, i))
  BY <1>14, <1>8, <1>9, MovedAdds, Zenon DEF Mine, MineNext, Held
<1> QED
  BY <1>15 DEF Moved

LEMMA MineCounted ==
  ASSUME Counting, NEW p \in Procs, NEW i \in Inodes
  PROVE  Mine(p, i) <= Pointers(i) /\ Pointers(i) \in Nat
<1>1. \A f : Apart(f, f, p)
  BY Zenon DEF Apart
<1>2. /\ Moved(Refs(cwd, i), Refs(cwd, i), One(cwd[p], i), One(cwd[p], i))
      /\ Moved(Refs(file, i), Refs(file, i), One(file[p], i), One(file[p], i))
      /\ Moved(Refs(at, i), Refs(at, i), One(at[p], i), One(at[p], i))
      /\ Moved(Refs(dp, i), Refs(dp, i), One(dp[p], i), One(dp[p], i))
      /\ Moved(Refs(ip, i), Refs(ip, i), One(ip[p], i), One(ip[p], i))
  BY <1>1, HoldsMoves, Zenon
<1>3. /\ Moved(Dues(puts, 1, i), Dues(puts, 1, i), Due(puts[p], 1, i), Due(puts[p], 1, i))
      /\ Moved(Dues(puts, 2, i), Dues(puts, 2, i), Due(puts[p], 2, i), Due(puts[p], 2, i))
  BY <1>1, DueMoves, Zenon
<1>4. Pointers(i) = Refs(cwd, i) + Refs(file, i) + Refs(at, i) + Refs(dp, i) + Refs(ip, i)
                      + Dues(puts, 1, i) + Dues(puts, 2, i)
  BY Zenon DEF Pointers, Refs, Dues
<1> QED
  BY <1>2, <1>3, <1>4 DEF Mine, Held, Moved

LEMMA PlacedElsewhere ==
  ASSUME IInv, NEW p \in Procs, Elsewhere(p), Placed(p)'
  PROVE  \A q \in Procs : Placed(q)'
<1> SUFFICES ASSUME NEW q \in Procs, q # p PROVE Placed(q)'
  BY Zenon
<1>1. Placed(q)
  BY Zenon DEF IInv
<1>2. /\ pc'[q] = pc[q] /\ call'[q] = call[q] /\ rest'[q] = rest[q] /\ at'[q] = at[q]
      /\ dp'[q] = dp[q] /\ ip'[q] = ip[q] /\ puts'[q] = puts[q]
  BY Zenon DEF Elsewhere
<1> QED
  BY <1>1, <1>2, Zenon DEF Placed

\* What a step of p has to show.
LEMMA StepKeeps ==
  ASSUME Counting, IInv, NEW p \in Procs, Elsewhere(p), TypeOK', Placed(p)',
         outstanding' = Cardinality(Inside'),
         \A i \in Inodes : icache'[i].ref + Mine(p, i) = icache[i].ref + MineNext(p, i)
  PROVE  IInv'
<1>1. RefsExact'
  <2> SUFFICES ASSUME NEW i \in Inodes PROVE icache'[i].ref = Pointers(i)'
    BY Zenon DEF RefsExact
  <2>1. /\ Pointers(i) \in Nat /\ Pointers(i)' \in Nat /\ Mine(p, i) \in Nat
        /\ Pointers(i)' + Mine(p, i) = Pointers(i) + MineNext(p, i)
    BY PointersMove, Zenon
  <2>2. icache[i].ref = Pointers(i)
    BY Zenon DEF IInv, RefsExact
  <2>3. icache'[i].ref \in Nat
    <3>1. icache' \in Caches
      BY Zenon DEF TypeOK
    <3> QED
      BY <3>1 DEF Caches
  <2> QED
    BY <2>1, <2>2, <2>3
<1> QED
  BY <1>1, PlacedElsewhere, Zenon DEF IInv

\* The transactions, for a step inside a call, into one and out of one.
LEMMA StaysInside ==
  ASSUME IInv, NEW p \in Procs, Elsewhere(p), pc[p] # "user", pc'[p] # "user",
         outstanding' = outstanding
  PROVE  outstanding' = Cardinality(Inside')
<1>1. Inside' = Inside
  BY DEF Inside, Elsewhere
<1> QED
  BY <1>1, Zenon DEF IInv

LEMMA ComesInside ==
  ASSUME Counting, IInv, NEW p \in Procs, Elsewhere(p)
  PROVE  /\ pc[p] = "user" /\ pc'[p] # "user" /\ outstanding' = outstanding + 1
              => outstanding' = Cardinality(Inside')
         /\ pc[p] # "user" /\ pc'[p] = "user" /\ outstanding' = outstanding - 1
              => outstanding' = Cardinality(Inside')
<1>1. Inside \in SUBSET Procs /\ Inside' \in SUBSET Procs
  BY Zenon DEF Inside
<1>2. \A q \in Procs \ {p} : q \in Inside <=> q \in Inside'
  BY Zenon DEF Inside, Elsewhere
<1>3. (p \in Inside <=> pc[p] # "user") /\ (p \in Inside' <=> pc'[p] # "user")
  BY Zenon DEF Inside
<1>4. /\ Cardinality(Inside) \in Nat /\ Cardinality(Inside') \in Nat
      /\ Cardinality(Inside') + (IF p \in Inside THEN 1 ELSE 0)
           = Cardinality(Inside) + (IF p \in Inside' THEN 1 ELSE 0)
  BY <1>1, <1>2, Zenon DEF Counting
<1>5. outstanding = Cardinality(Inside)
  BY Zenon DEF IInv
<1> QED
  BY <1>3, <1>4, <1>5

----------------------------------------------------------------------------
(* The operators of the inode cache                                        *)

\* jc is a cache with the references of ic, and with one more to j.
Keeps(ic, jc)    == jc \in Caches /\ \A i \in Inodes : jc[i].ref = ic[i].ref
Gains(ic, jc, j) == jc \in Caches /\ \A i \in Inodes : jc[i].ref = ic[i].ref + One(j, i)

LEMMA ReadKeeps ==
  ASSUME dinode \in Dinodes, NEW ic \in Caches, NEW i \in Inodes
  PROVE  Keeps(ic, Read(ic, i))
<1>1. dinode[i].type \in Types /\ dinode[i].nlink \in Int
  BY DEF Dinodes
<1>2. CASE ic[i].valid
  BY <1>2 DEF Keeps, Read
<1>3. CASE ~ic[i].valid
  <2> DEFINE e == [ic[i] EXCEPT !.valid = TRUE, !.type = dinode[i].type,
                                !.nlink = dinode[i].nlink]
  <2>1. Read(ic, i) = [ic EXCEPT ![i] = e]
    BY <1>3, Zenon DEF Read
  <2>2. /\ e \in [ref : Nat, busy : Procs \union {None}, valid : BOOLEAN,
                  type : Types, nlink : Int]
        /\ e.ref = ic[i].ref
    BY <1>1, Zenon DEF Caches
  <2> HIDE DEF e
  <2> QED
    BY <2>1, <2>2 DEF Caches, Keeps
<1> QED
  BY <1>2, <1>3

LEMMA BusyKeeps ==
  ASSUME NEW ic \in Caches, NEW i \in Inodes, NEW p \in Procs \union {None}
  PROVE  Keeps(ic, Busy(ic, i, p))
<1> DEFINE e == [ic[i] EXCEPT !.busy = p]
<1>1. Busy(ic, i, p) = [ic EXCEPT ![i] = e]
  BY Zenon DEF Busy
<1>2. /\ e \in [ref : Nat, busy : Procs \union {None}, valid : BOOLEAN,
                type : Types, nlink : Int]
      /\ e.ref = ic[i].ref
  BY DEF Caches
<1> HIDE DEF e
<1> QED
  BY <1>1, <1>2 DEF Caches, Keeps

LEMMA AddLinksKeeps ==
  ASSUME NEW ic \in Caches, NEW i \in Inodes, NEW k \in Int
  PROVE  Keeps(ic, AddLinks(ic, i, k))
<1> DEFINE e == [ic[i] EXCEPT !.nlink = ic[i].nlink + k]
<1>1. AddLinks(ic, i, k) = [ic EXCEPT ![i] = e]
  BY Zenon DEF AddLinks
<1>2. /\ e \in [ref : Nat, busy : Procs \union {None}, valid : BOOLEAN,
                type : Types, nlink : Int]
      /\ e.ref = ic[i].ref
  BY DEF Caches
<1> HIDE DEF e
<1> QED
  BY <1>1, <1>2 DEF Caches, Keeps

LEMMA IgetGains ==
  ASSUME NEW ic \in Caches, NEW j \in Inodes
  PROVE  Gains(ic, iget(ic, j), j)
<1> DEFINE e == [ic[j] EXCEPT !.ref = ic[j].ref + 1]
<1>1. iget(ic, j) = [ic EXCEPT ![j] = e]
  BY Zenon DEF iget
<1>2. /\ e \in [ref : Nat, busy : Procs \union {None}, valid : BOOLEAN,
                type : Types, nlink : Int]
      /\ e.ref = ic[j].ref + 1
  BY DEF Caches
<1>3. \A i \in Inodes : ic[i].ref \in Nat
  BY DEF Caches
<1> HIDE DEF e
<1> QED
  BY <1>1, <1>2, <1>3 DEF Caches, Gains, One

LEMMA IupdateTyped ==
  ASSUME NEW di \in Dinodes, NEW ic \in Caches, NEW i \in Inodes
  PROVE  iupdate(di, ic, i) \in Dinodes
<1>1. [type |-> ic[i].type, nlink |-> ic[i].nlink] \in [type : Types, nlink : Int]
  BY DEF Caches
<1> QED
  BY <1>1 DEF Dinodes, iupdate

LEMMA KeepsKeeps ==
  ASSUME NEW ic, NEW jc, NEW kc, Keeps(ic, jc)
  PROVE  /\ Keeps(jc, kc) => Keeps(ic, kc)
         /\ jc \in Caches
BY Zenon DEF Keeps

LEMMA KeepsGains ==
  ASSUME NEW ic, NEW jc, NEW kc, NEW j, Keeps(ic, jc), Gains(jc, kc, j)
  PROVE  Gains(ic, kc, j)
BY Zenon DEF Keeps, Gains

LEMMA IlockKeeps ==
  ASSUME dinode \in Dinodes, NEW ic \in Caches, NEW i \in Inodes, NEW p \in Procs
  PROVE  Keeps(ic, ilock(ic, i, p))
<1>1. Keeps(ic, Read(ic, i))
  BY ReadKeeps, Zenon
<1>2. Read(ic, i) \in Caches /\ p \in Procs \union {None}
  BY <1>1, Zenon DEF Keeps
<1>3. Keeps(Read(ic, i), Busy(Read(ic, i), i, p))
  BY <1>2, BusyKeeps, Zenon
<1> QED
  BY <1>1, <1>3, KeepsKeeps, Zenon DEF ilock

LEMMA IunlockKeeps ==
  ASSUME NEW ic \in Caches, NEW i \in Inodes
  PROVE  Keeps(ic, iunlock(ic, i))
<1>1. None \in Procs \union {None}
  BY Zenon
<1> QED
  BY <1>1, BusyKeeps, Zenon DEF iunlock

----------------------------------------------------------------------------
(* What a process holds, for the values its pointers have                  *)

LEMMA HeldNone ==
  ASSUME NEW c, NEW f, NEW a, NEW d, NEW x, NEW i
  PROVE  Held(c, f, a, d, x, <<>>, i)
           = One(c, i) + One(f, i) + One(a, i) + One(d, i) + One(x, i)
<1>1. \A y : One(y, i) \in Nat
  BY DEF One
<1>2. Due(<<>>, 1, i) = 0 /\ Due(<<>>, 2, i) = 0
  BY DEF Due
<1> QED
  BY <1>1, <1>2 DEF Held

LEMMA HeldOne ==
  ASSUME NEW c, NEW f, NEW a, NEW d, NEW x, NEW u, NEW i
  PROVE  Held(c, f, a, d, x, <<u>>, i)
           = One(c, i) + One(f, i) + One(a, i) + One(d, i) + One(x, i) + One(u, i)
<1>1. \A y : One(y, i) \in Nat
  BY DEF One
<1>2. Due(<<u>>, 1, i) = One(u, i) /\ Due(<<u>>, 2, i) = 0
  BY DEF Due, One
<1> QED
  BY <1>1, <1>2 DEF Held

LEMMA HeldTwo ==
  ASSUME NEW c, NEW f, NEW a, NEW d, NEW x, NEW u, NEW v, NEW i
  PROVE  Held(c, f, a, d, x, <<u, v>>, i)
           = One(c, i) + One(f, i) + One(a, i) + One(d, i) + One(x, i) + One(u, i) + One(v, i)
<1>1. \A y : One(y, i) \in Nat
  BY DEF One
<1>2. Due(<<u, v>>, 1, i) = One(u, i) /\ Due(<<u, v>>, 2, i) = One(v, i)
  BY DEF Due, One
<1> QED
  BY <1>1, <1>2 DEF Held

LEMMA OneIs ==
  ASSUME NEW i \in Inodes
  PROVE  One(None, i) = 0 /\ \A x : One(x, i) \in Nat
<1>1. None # i
  BY FsConstants, Zenon
<1> QED
  BY <1>1 DEF One

----------------------------------------------------------------------------
(* What a step does to the variables of its process                        *)

Assigned(f, g, p, v, S) == g \in [Procs -> S] /\ g[p] = v /\ Apart(f, g, p)

LEMMA Assigns ==
  ASSUME NEW p \in Procs, NEW S, NEW f \in [Procs -> S], NEW v \in S
  PROVE  Assigned(f, [f EXCEPT ![p] = v], p, v, S)
BY DEF Assigned, Apart

LEMMA Unassigned ==
  ASSUME NEW p \in Procs, NEW S, NEW f \in [Procs -> S]
  PROVE  Assigned(f, f, p, f[p], S)
BY Zenon DEF Assigned, Apart

Pointer == Inodes \union {None}

\* p goes to a place, its variables get these values.
Moves(p, place, c, r, a, d, x, s, w, f) ==
  /\ Assigned(pc, pc', p, place, Places)
  /\ DOMAIN call' = Procs /\ call'[p] = c /\ Apart(call, call', p)
  /\ Assigned(rest, rest', p, r, Seq(Entries))
  /\ Assigned(at, at', p, a, Pointer)
  /\ Assigned(dp, dp', p, d, Pointer)
  /\ Assigned(ip, ip', p, x, Pointer)
  /\ Assigned(puts, puts', p, s, Seq(Inodes))
  /\ Assigned(cwd, cwd', p, w, Inodes)
  /\ Assigned(file, file', p, f, Pointer)

\* The inodes on disk and the cache stay what they are.
DiskTyped == dinode \in Dinodes /\ dents \in [Inodes -> [Entries -> 0 .. NINODES]]

\* The reference counts follow what p holds.
Tallies(p, w, f, a, d, x, s) ==
  \A i \in Inodes : icache'[i].ref + Mine(p, i) = icache[i].ref + Held(w, f, a, d, x, s, i)

LEMMA MovesKeeps ==
  ASSUME Counting, IInv, NEW p \in Procs, NEW place, NEW c, NEW r, NEW a, NEW d, NEW x,
         NEW s, NEW w, NEW f, Moves(p, place, c, r, a, d, x, s, w, f),
         Fits(place, c, r, a, d, x, s), DiskTyped', icache' \in Caches,
         freeing' \in [Procs -> 0 .. 2],
         \/ pc[p] # "user" /\ place # "user" /\ outstanding' = outstanding
         \/ pc[p] = "user" /\ place # "user" /\ outstanding' = outstanding + 1
         \/ pc[p] # "user" /\ place = "user" /\ outstanding' = outstanding - 1,
         Tallies(p, w, f, a, d, x, s)
  PROVE  IInv'
<1>1. Elsewhere(p)
  BY Zenon DEF Moves, Assigned, Apart, Elsewhere
<1>2. TypeOK'
  BY Zenon DEF Moves, Assigned, TypeOK, DiskTyped, Pointer
<1>3. /\ pc'[p] = place /\ call'[p] = c /\ rest'[p] = r /\ at'[p] = a /\ dp'[p] = d
      /\ ip'[p] = x /\ puts'[p] = s /\ cwd'[p] = w /\ file'[p] = f
  BY Zenon DEF Moves, Assigned
<1>4. Placed(p)'
  BY <1>3, Zenon DEF Placed
<1>5. \A i \in Inodes : icache'[i].ref + Mine(p, i) = icache[i].ref + MineNext(p, i)
  BY <1>3, Zenon DEF MineNext, Tallies
<1>6. outstanding' = Cardinality(Inside')
  BY <1>1, <1>3, StaysInside, ComesInside, Zenon
<1> QED
  BY <1>1, <1>2, <1>4, <1>5, <1>6, StepKeeps, Zenon

LEMMA InsideKeeps ==
  ASSUME Counting, IInv, NEW p \in Procs, NEW place, NEW c, NEW r, NEW a, NEW d, NEW x,
         NEW s, NEW w, NEW f, Moves(p, place, c, r, a, d, x, s, w, f),
         Fits(place, c, r, a, d, x, s), DiskTyped', icache' \in Caches,
         freeing' \in [Procs -> 0 .. 2],
         pc[p] # "user", place # "user", outstanding' = outstanding,
         Tallies(p, w, f, a, d, x, s)
  PROVE  IInv'
BY MovesKeeps, Zenon

LEMMA Typed ==
  ASSUME IInv, NEW p \in Procs
  PROVE  /\ DiskTyped /\ icache \in Caches /\ freeing \in [Procs -> 0 .. 2]
         /\ Placed(p) /\ DOMAIN call = Procs
         /\ pc \in [Procs -> Places] /\ rest \in [Procs -> Seq(Entries)]
         /\ at \in [Procs -> Pointer] /\ dp \in [Procs -> Pointer] /\ ip \in [Procs -> Pointer]
         /\ puts \in [Procs -> Seq(Inodes)] /\ cwd \in [Procs -> Inodes]
         /\ file \in [Procs -> Pointer]
         /\ rest[p] \in Seq(Entries) /\ puts[p] \in Seq(Inodes) /\ cwd[p] \in Inodes
         /\ at[p] # None => at[p] \in Inodes
         /\ dp[p] # None => dp[p] \in Inodes
         /\ ip[p] # None => ip[p] \in Inodes
         /\ file[p] # None => file[p] \in Inodes
<1>1. TypeOK /\ Placed(p)
  BY Zenon DEF IInv
<1>2. /\ DiskTyped /\ icache \in Caches /\ freeing \in [Procs -> 0 .. 2] /\ DOMAIN call = Procs
      /\ pc \in [Procs -> Places] /\ rest \in [Procs -> Seq(Entries)]
      /\ at \in [Procs -> Pointer] /\ dp \in [Procs -> Pointer] /\ ip \in [Procs -> Pointer]
      /\ puts \in [Procs -> Seq(Inodes)] /\ cwd \in [Procs -> Inodes]
      /\ file \in [Procs -> Pointer]
  BY <1>1, Zenon DEF TypeOK, DiskTyped, Pointer
<1>3. /\ rest[p] \in Seq(Entries) /\ puts[p] \in Seq(Inodes) /\ cwd[p] \in Inodes
      /\ at[p] \in Pointer /\ dp[p] \in Pointer /\ ip[p] \in Pointer /\ file[p] \in Pointer
  BY <1>2, Zenon
<1> QED
  BY <1>1, <1>2, <1>3, Zenon DEF Pointer

LEMMA GotoMoves ==
  ASSUME IInv, NEW p \in Procs, NEW place \in Places, NEW s \in Seq(Inodes),
         Goto(p, place, s), NEW r, NEW a, NEW d, NEW x,
         Assigned(rest, rest', p, r, Seq(Entries)), Assigned(at, at', p, a, Pointer),
         Assigned(dp, dp', p, d, Pointer), Assigned(ip, ip', p, x, Pointer)
  PROVE  /\ Moves(p, place, call[p], r, a, d, x, s, cwd[p], file[p])
         /\ outstanding' = outstanding /\ freeing' \in [Procs -> 0 .. 2]
<1>1. /\ pc' = [pc EXCEPT ![p] = place] /\ puts' = [puts EXCEPT ![p] = s]
      /\ outstanding' = outstanding /\ cwd' = cwd /\ file' = file /\ call' = call
      /\ freeing' = freeing
  BY Zenon DEF Goto
<1>2. /\ freeing \in [Procs -> 0 .. 2] /\ DOMAIN call = Procs
      /\ pc \in [Procs -> Places] /\ puts \in [Procs -> Seq(Inodes)]
      /\ cwd \in [Procs -> Inodes] /\ file \in [Procs -> Pointer]
  BY Typed, Zenon
<1>3. Assigned(pc, pc', p, place, Places) /\ Assigned(puts, puts', p, s, Seq(Inodes))
  BY <1>1, <1>2, Assigns, Zenon
<1>4. Assigned(cwd, cwd', p, cwd[p], Inodes) /\ Assigned(file, file', p, file[p], Pointer)
  BY <1>1, <1>2, Unassigned, Zenon
<1>5. DOMAIN call' = Procs /\ call'[p] = call[p] /\ Apart(call, call', p)
  BY <1>1, <1>2, Zenon DEF Apart
<1> QED
  BY <1>1, <1>2, <1>3, <1>4, <1>5, Zenon DEF Moves

LEMMA LeavesMoves ==
  ASSUME IInv, NEW p \in Procs, NEW s \in Seq(Inodes), Leaves(p, s)
  PROVE  /\ Moves(p, "end", call[p], <<>>, at[p], None, None, s, cwd[p], file[p])
         /\ outstanding' = outstanding /\ freeing' \in [Procs -> 0 .. 2]
<1>1. /\ Goto(p, "end", s) /\ rest' = [rest EXCEPT ![p] = <<>>] /\ at' = at
      /\ dp' = [dp EXCEPT ![p] = None] /\ ip' = [ip EXCEPT ![p] = None]
  BY Zenon DEF Leaves
<1>2. /\ rest \in [Procs -> Seq(Entries)] /\ at \in [Procs -> Pointer]
      /\ dp \in [Procs -> Pointer] /\ ip \in [Procs -> Pointer]
  BY Typed, Zenon
<1>3. <<>> \in Seq(Entries) /\ None \in Pointer /\ "end" \in Places
  BY DEF Pointer, Places
<1>4. Assigned(rest, rest', p, <<>>, Seq(Entries))
  BY <1>1, <1>2, <1>3, Assigns, Zenon
<1>5. Assigned(at, at', p, at[p], Pointer)
  BY <1>1, <1>2, Unassigned, Zenon
<1>6. Assigned(dp, dp', p, None, Pointer) /\ Assigned(ip, ip', p, None, Pointer)
  BY <1>1, <1>2, <1>3, Assigns, Zenon
<1> QED
  BY <1>1, <1>3, <1>4, <1>5, <1>6, GotoMoves, Zenon

----------------------------------------------------------------------------
(* Every step keeps the invariant                                          *)

LEMMA AtLockIs ==
  ASSUME NEW p \in Procs, NEW place, AtLock(p, place)
  PROVE  /\ pc[p] = place /\ puts[p] = <<>>
         /\ place \in AtPlaces => rest[p] # <<>>
<1>1. pc[p] = place /\ Wanted(p) # None
  BY Zenon DEF AtLock
<1>2. puts[p] = <<>>
  BY <1>1 DEF Wanted
<1>3. ASSUME place \in AtPlaces PROVE rest[p] # <<>>
  BY <1>1, <1>2, <1>3 DEF Wanted, AtPlaces
<1> QED
  BY <1>1, <1>2, <1>3, Zenon

LEMMA WalkingIs ==
  ASSUME IInv, NEW p \in Procs, Walking(p)
  PROVE  /\ pc[p] \in AtPlaces /\ puts[p] = <<>> /\ rest[p] # <<>> /\ at[p] \in Inodes
         /\ dp[p] = None
         /\ Fits(pc[p], call[p], rest[p], at[p], dp[p], ip[p], puts[p])
         /\ Head(rest[p]) \in Entries /\ Tail(rest[p]) \in Seq(Entries)
<1>1. AtLock(p, "namei") \/ AtLock(p, "nameiparent")
  BY Zenon DEF Walking
<1>2. pc[p] \in AtPlaces /\ puts[p] = <<>> /\ rest[p] # <<>>
  BY <1>1, AtLockIs DEF AtPlaces
<1>3. Fits(pc[p], call[p], rest[p], at[p], dp[p], ip[p], puts[p])
  BY Typed, Zenon DEF Placed
<1>4. at[p] # None /\ dp[p] = None
  BY <1>2, <1>3 DEF Fits, AtPlaces, DpPlaces
<1>5. at[p] \in Inodes /\ rest[p] \in Seq(Entries)
  BY <1>4, Typed, Zenon
<1>6. Head(rest[p]) \in Entries /\ Tail(rest[p]) \in Seq(Entries)
  BY <1>2, <1>5
<1> QED
  BY <1>2, <1>3, <1>4, <1>5, <1>6, Zenon

LEMMA LeavesKeeps ==
  ASSUME Counting, IInv, NEW p \in Procs, NEW s \in Seq(Inodes), Leaves(p, s),
         pc[p] # "user", at[p] = None, Len(s) <= 2, DiskTyped', Keeps(icache, icache'),
         \A i \in Inodes : Mine(p, i) = Held(cwd[p], file[p], None, None, None, s, i)
  PROVE  IInv'
<1>1. /\ Moves(p, "end", call[p], <<>>, None, None, None, s, cwd[p], file[p])
      /\ outstanding' = outstanding /\ freeing' \in [Procs -> 0 .. 2]
  BY LeavesMoves, Zenon
<1>2. Fits("end", call[p], <<>>, None, None, None, s)
  BY DEF Fits, AtPlaces, DpPlaces, IpPlaces
<1>3. /\ icache' \in Caches
      /\ \A i \in Inodes : icache'[i].ref + Mine(p, i)
           = icache[i].ref + Held(cwd[p], file[p], None, None, None, s, i)
  BY Zenon DEF Keeps
<1>4. Tallies(p, cwd[p], file[p], None, None, None, s)
  BY <1>3, Zenon DEF Tallies
<1> QED
  BY <1>1, <1>2, <1>3, <1>4, InsideKeeps, Zenon

LEMMA EntryIs ==
  ASSUME IInv, NEW i \in Inodes, NEW nm \in Entries, dents[i][nm] # 0
  PROVE  dents[i][nm] \in Inodes /\ dents[i][nm] # None /\ dents[i][nm] \in Pointer
<1>1. dents[i] \in [Entries -> 0 .. NINODES]
  BY Zenon DEF IInv, TypeOK
<1>2. dents[i][nm] \in 0 .. NINODES
  BY <1>1, Zenon
<1>3. NINODES \in Nat /\ None \notin Inodes
  BY FsConstants, Zenon
<1>4. dents[i][nm] \in Inodes
  BY <1>2, <1>3 DEF Inodes
<1> QED
  BY <1>3, <1>4, Zenon DEF Pointer

LEMMA MineIs ==
  ASSUME NEW p, NEW i, puts[p] = <<>>
  PROVE  Mine(p, i) = One(cwd[p], i) + One(file[p], i) + One(at[p], i) + One(dp[p], i)
                        + One(ip[p], i)
BY HeldNone DEF Mine

\* What a process past namex() holds.
LEMMA HolderIs ==
  ASSUME IInv, NEW p \in Procs, pc[p] \notin AtPlaces
  PROVE  /\ at[p] = None
         /\ pc[p] \in DpPlaces => dp[p] \in Inodes /\ dp[p] # None /\ name(p) \in Entries
                                   /\ rest[p] # <<>>
         /\ pc[p] \notin DpPlaces => dp[p] = None
         /\ pc[p] \in IpPlaces => ip[p] \in Inodes /\ ip[p] # None
         /\ pc[p] \notin IpPlaces => ip[p] = None
         /\ pc[p] \in {"create1", "create2", "create3", "created"} => call[p].op \in Creates
         /\ pc[p] \in {"link1", "link2", "bad"} => call[p].op = "link" /\ call[p].new \in Paths
<1>1. Fits(pc[p], call[p], rest[p], at[p], dp[p], ip[p], puts[p])
  BY Typed, Zenon DEF Placed
<1>2. /\ at[p] = None
      /\ pc[p] \in DpPlaces => dp[p] # None /\ rest[p] # <<>>
      /\ pc[p] \notin DpPlaces => dp[p] = None
      /\ pc[p] \in IpPlaces => ip[p] # None
      /\ pc[p] \notin IpPlaces => ip[p] = None
  BY <1>1 DEF Fits, AtPlaces
<1>3. /\ pc[p] \in {"create1", "create2", "create3", "created"} => call[p].op \in Creates
      /\ pc[p] \in {"link1", "link2", "bad"} => call[p].op = "link" /\ call[p].new \in Paths
  BY <1>1, Zenon DEF Fits
<1>4. /\ dp[p] # None => dp[p] \in Inodes
      /\ ip[p] # None => ip[p] \in Inodes
      /\ rest[p] \in Seq(Entries)
  BY Typed, Zenon
<1>5. rest[p] # <<>> => name(p) \in Entries
  BY <1>4 DEF name
<1> QED
  BY <1>2, <1>3, <1>4, <1>5, Zenon

LEMMA NamexFailsKeeps == ASSUME Counting, IInv, NEW p \in Procs, NamexFails(p) PROVE IInv'
<1> DEFINE i == at[p]
<1>1. /\ Walking(p) /\ icache' = Read(icache, i) /\ Goto(p, NotFound(p), <<i>>)
      /\ at' = [at EXCEPT ![p] = None] /\ rest' = [rest EXCEPT ![p] = <<>>]
      /\ dinode' = dinode /\ dents' = dents /\ dp' = dp /\ ip' = ip
  BY Zenon DEF NamexFails, fsvars
<1>2. /\ pc[p] \in AtPlaces /\ puts[p] = <<>> /\ i \in Inodes /\ dp[p] = None
      /\ Fits(pc[p], call[p], rest[p], at[p], dp[p], ip[p], puts[p])
  BY <1>1, WalkingIs, Zenon
<1>3. Keeps(icache, icache') /\ DiskTyped'
  BY <1>1, <1>2, Typed, ReadKeeps, Zenon DEF DiskTyped
<1>4. /\ <<>> \in Seq(Entries) /\ None \in Pointer /\ <<i>> \in Seq(Inodes)
      /\ NotFound(p) \in Places
  BY <1>2 DEF Pointer, Places, NotFound, IpPlaces
<1>5. /\ Assigned(rest, rest', p, <<>>, Seq(Entries)) /\ Assigned(at, at', p, None, Pointer)
      /\ Assigned(dp, dp', p, dp[p], Pointer) /\ Assigned(ip, ip', p, ip[p], Pointer)
  BY <1>1, <1>4, Typed, Assigns, Unassigned, Zenon
<1>6. /\ Fits(NotFound(p), call[p], <<>>, None, dp[p], ip[p], <<i>>)
      /\ pc[p] # "user" /\ NotFound(p) # "user"
  <2>1. pc[p] # "user" /\ NotFound(p) # "user"
    BY <1>2 DEF NotFound, AtPlaces
  <2>2. CASE call[p].op = "link" /\ pc[p] = "nameiparent"
    <3>1. ip[p] # None /\ call[p].new \in Paths
      BY <1>2, <2>2 DEF Fits
    <3>2. NotFound(p) = "bad"
      BY <2>2, Zenon DEF NotFound
    <3>3. Fits("bad", call[p], <<>>, None, dp[p], ip[p], <<i>>)
      BY <1>2, <2>2, <3>1 DEF Fits, AtPlaces, DpPlaces, IpPlaces
    <3> QED
      BY <2>1, <3>2, <3>3, Zenon
  <2>3. CASE ~(call[p].op = "link" /\ pc[p] = "nameiparent")
    <3>1. ip[p] = None
      BY <1>2, <2>3 DEF Fits, AtPlaces, IpPlaces
    <3>2. NotFound(p) = "end"
      BY <2>3, Zenon DEF NotFound
    <3>3. Fits("end", call[p], <<>>, None, dp[p], ip[p], <<i>>)
      BY <1>2, <3>1 DEF Fits, AtPlaces, DpPlaces, IpPlaces
    <3> QED
      BY <2>1, <3>2, <3>3, Zenon
  <2> QED
    BY <2>2, <2>3
<1>7. \A j \in Inodes : icache'[j].ref + Mine(p, j)
        = icache[j].ref + Held(cwd[p], file[p], None, dp[p], ip[p], <<i>>, j)
  <2> TAKE j \in Inodes
  <2>1. Mine(p, j) = One(cwd[p], j) + One(file[p], j) + One(i, j) + One(dp[p], j) + One(ip[p], j)
    BY <1>2, MineIs
  <2>2. Held(cwd[p], file[p], None, dp[p], ip[p], <<i>>, j)
          = One(cwd[p], j) + One(file[p], j) + One(None, j) + One(dp[p], j) + One(ip[p], j)
              + One(i, j)
    BY HeldOne
  <2>3. icache'[j].ref = icache[j].ref
    BY <1>3, Zenon DEF Keeps
  <2> QED
    BY <2>1, <2>2, <2>3, OneIs
<1>8. /\ Moves(p, NotFound(p), call[p], <<>>, None, dp[p], ip[p], <<i>>, cwd[p], file[p])
      /\ outstanding' = outstanding /\ freeing' \in [Procs -> 0 .. 2]
  BY <1>1, <1>4, <1>5, GotoMoves, Zenon
<1>9. Tallies(p, cwd[p], file[p], None, dp[p], ip[p], <<i>>)
  BY <1>7, Zenon DEF Tallies
<1> QED
  BY <1>3, <1>6, <1>7, <1>8, <1>9, InsideKeeps, Zenon DEF Keeps

LEMMA NamexStepKeeps == ASSUME Counting, IInv, NEW p \in Procs, NamexStep(p) PROVE IInv'
<1> DEFINE i == at[p]
           j == dents[i][Head(rest[p])]
<1>1. /\ Walking(p) /\ j # 0 /\ icache' = iget(Read(icache, i), j) /\ Goto(p, pc[p], <<i>>)
      /\ at' = [at EXCEPT ![p] = j] /\ rest' = [rest EXCEPT ![p] = Tail(rest[p])]
      /\ dinode' = dinode /\ dents' = dents /\ dp' = dp /\ ip' = ip
  BY Zenon DEF NamexStep, fsvars
<1>2. /\ pc[p] \in AtPlaces /\ puts[p] = <<>> /\ i \in Inodes /\ dp[p] = None
      /\ Fits(pc[p], call[p], rest[p], at[p], dp[p], ip[p], puts[p])
      /\ Head(rest[p]) \in Entries /\ Tail(rest[p]) \in Seq(Entries)
  BY <1>1, WalkingIs, Zenon
<1>3. j \in Inodes /\ j # None
  BY <1>1, <1>2, EntryIs, Zenon
<1>4. Gains(icache, icache', j) /\ DiskTyped'
  <2>1. Keeps(icache, Read(icache, i)) /\ DiskTyped'
    BY <1>1, <1>2, Typed, ReadKeeps, Zenon DEF DiskTyped
  <2>2. Gains(Read(icache, i), icache', j)
    BY <1>1, <1>3, <2>1, KeepsKeeps, IgetGains, Zenon
  <2> QED
    BY <2>1, <2>2, KeepsGains, Zenon
<1> HIDE DEF j
<1>5. j \in Pointer /\ <<i>> \in Seq(Inodes) /\ pc[p] \in Places
  BY <1>2, <1>3 DEF Pointer, Places, AtPlaces
<1>6. /\ Assigned(rest, rest', p, Tail(rest[p]), Seq(Entries))
      /\ Assigned(at, at', p, j, Pointer)
      /\ Assigned(dp, dp', p, dp[p], Pointer) /\ Assigned(ip, ip', p, ip[p], Pointer)
  BY <1>1, <1>2, <1>5, Typed, Assigns, Unassigned, Zenon
<1>7. /\ Fits(pc[p], call[p], Tail(rest[p]), j, dp[p], ip[p], <<i>>)
      /\ pc[p] # "user"
  BY <1>2, <1>3 DEF Fits, AtPlaces, DpPlaces, IpPlaces, Creates
<1>8. \A k \in Inodes : icache'[k].ref + Mine(p, k)
        = icache[k].ref + Held(cwd[p], file[p], j, dp[p], ip[p], <<i>>, k)
  <2> TAKE k \in Inodes
  <2>1. icache'[k].ref = icache[k].ref + One(j, k) /\ icache[k].ref \in Nat
    BY <1>4, Typed DEF Gains, Caches
  <2>2. Mine(p, k) = One(cwd[p], k) + One(file[p], k) + One(i, k) + One(dp[p], k)
                       + One(ip[p], k)
    BY <1>2, HeldNone DEF Mine
  <2>3. Held(cwd[p], file[p], j, dp[p], ip[p], <<i>>, k)
          = One(cwd[p], k) + One(file[p], k) + One(j, k) + One(dp[p], k) + One(ip[p], k)
              + One(i, k)
    BY HeldOne
  <2> QED
    BY <2>1, <2>2, <2>3, OneIs
<1>9. /\ Moves(p, pc[p], call[p], Tail(rest[p]), j, dp[p], ip[p], <<i>>, cwd[p], file[p])
      /\ outstanding' = outstanding /\ freeing' \in [Procs -> 0 .. 2]
  BY <1>1, <1>5, <1>6, GotoMoves, Zenon
<1>10. Tallies(p, cwd[p], file[p], j, dp[p], ip[p], <<i>>)
  BY <1>8, Zenon DEF Tallies
<1> QED
  BY <1>4, <1>7, <1>8, <1>9, <1>10, InsideKeeps, Zenon DEF Gains

LEMMA NamexParentKeeps == ASSUME Counting, IInv, NEW p \in Procs, NamexParent(p) PROVE IInv'
<1> DEFINE i == at[p]
<1>1. /\ Walking(p) /\ IsLast(p) /\ icache' = Read(icache, i) /\ Goto(p, AfterParent(p), <<>>)
      /\ at' = [at EXCEPT ![p] = None] /\ dp' = [dp EXCEPT ![p] = i]
      /\ dinode' = dinode /\ dents' = dents /\ rest' = rest /\ ip' = ip
  BY Zenon DEF NamexParent, fsvars
<1>2. /\ pc[p] = "nameiparent" /\ puts[p] = <<>> /\ i \in Inodes /\ dp[p] = None
      /\ Fits(pc[p], call[p], rest[p], at[p], dp[p], ip[p], puts[p]) /\ rest[p] # <<>>
  BY <1>1, WalkingIs, Zenon DEF IsLast
<1>3. Keeps(icache, icache') /\ DiskTyped'
  BY <1>1, <1>2, Typed, ReadKeeps, Zenon DEF DiskTyped
<1>4. /\ None \in Pointer /\ i \in Pointer /\ i # None /\ <<>> \in Seq(Inodes)
      /\ AfterParent(p) \in Places
  BY <1>2, FsConstants DEF Pointer, Places, AfterParent, IpPlaces
<1>5. /\ Assigned(rest, rest', p, rest[p], Seq(Entries)) /\ Assigned(at, at', p, None, Pointer)
      /\ Assigned(dp, dp', p, i, Pointer) /\ Assigned(ip, ip', p, ip[p], Pointer)
  BY <1>1, <1>4, Typed, Assigns, Unassigned, Zenon
<1>6. /\ Fits(AfterParent(p), call[p], rest[p], None, i, ip[p], <<>>)
      /\ pc[p] # "user" /\ AfterParent(p) # "user"
  BY <1>2, <1>4 DEF Fits, AfterParent, AtPlaces, DpPlaces, IpPlaces, Creates
<1>7. \A k \in Inodes : icache'[k].ref + Mine(p, k)
        = icache[k].ref + Held(cwd[p], file[p], None, i, ip[p], <<>>, k)
  <2> TAKE k \in Inodes
  <2>1. icache'[k].ref = icache[k].ref
    BY <1>3, Zenon DEF Keeps
  <2>2. Mine(p, k) = One(cwd[p], k) + One(file[p], k) + One(i, k) + One(None, k)
                       + One(ip[p], k)
    BY <1>2, MineIs
  <2>3. Held(cwd[p], file[p], None, i, ip[p], <<>>, k)
          = One(cwd[p], k) + One(file[p], k) + One(None, k) + One(i, k) + One(ip[p], k)
    BY HeldNone
  <2> QED
    BY <2>1, <2>2, <2>3, OneIs
<1>8. /\ Moves(p, AfterParent(p), call[p], rest[p], None, i, ip[p], <<>>, cwd[p], file[p])
      /\ outstanding' = outstanding /\ freeing' \in [Procs -> 0 .. 2]
  BY <1>1, <1>4, <1>5, GotoMoves, Zenon
<1>9. Tallies(p, cwd[p], file[p], None, i, ip[p], <<>>)
  BY <1>7, Zenon DEF Tallies
<1> QED
  BY <1>3, <1>6, <1>7, <1>8, <1>9, InsideKeeps, Zenon DEF Keeps

LEMMA NamexEndsKeeps == ASSUME Counting, IInv, NEW p \in Procs, NamexEnds(p) PROVE IInv'
<1> DEFINE i == at[p]
<1>1. /\ pc[p] \in AtPlaces /\ puts[p] = <<>> /\ rest[p] = <<>>
      /\ at' = [at EXCEPT ![p] = None]
      /\ dinode' = dinode /\ dents' = dents /\ icache' = icache /\ rest' = rest /\ dp' = dp
  BY Zenon DEF NamexEnds, fsvars, AtPlaces
<1>2. Fits(pc[p], call[p], rest[p], i, dp[p], ip[p], puts[p])
  BY Typed, Zenon DEF Placed
<1>3. i # None /\ dp[p] = None
  BY <1>1, <1>2 DEF Fits, AtPlaces, DpPlaces
<1>4. i \in Inodes /\ i \in Pointer /\ None \in Pointer
  BY <1>3, Typed, Zenon DEF Pointer
<1>5. icache' \in Caches /\ DiskTyped' /\ \A k \in Inodes : icache'[k].ref = icache[k].ref
  BY <1>1, Typed, Zenon DEF DiskTyped
<1>6. /\ Assigned(rest, rest', p, rest[p], Seq(Entries)) /\ Assigned(at, at', p, None, Pointer)
      /\ Assigned(dp, dp', p, None, Pointer)
  BY <1>1, <1>3, <1>4, Typed, Assigns, Unassigned, Zenon
<1>7. CASE pc[p] = "namei"
  <2>1. Goto(p, AfterNamei(p), <<>>) /\ ip' = [ip EXCEPT ![p] = i]
    BY <1>7, Zenon DEF NamexEnds
  <2>2. /\ Fits(AfterNamei(p), call[p], rest[p], None, None, i, <<>>)
        /\ AfterNamei(p) # "user" /\ AfterNamei(p) \in Places /\ <<>> \in Seq(Inodes)
        /\ ip[p] = None
    BY <1>1, <1>2, <1>3, <1>7
       DEF Fits, AfterNamei, AtPlaces, DpPlaces, IpPlaces, Places, Creates
  <2>3. Assigned(ip, ip', p, i, Pointer)
    BY <1>4, <2>1, Typed, Assigns, Zenon
  <2>4. /\ Moves(p, AfterNamei(p), call[p], rest[p], None, None, i, <<>>, cwd[p], file[p])
        /\ outstanding' = outstanding /\ freeing' \in [Procs -> 0 .. 2]
    BY <1>6, <2>1, <2>2, <2>3, GotoMoves, Zenon
  <2>5. \A k \in Inodes : icache'[k].ref + Mine(p, k)
          = icache[k].ref + Held(cwd[p], file[p], None, None, i, <<>>, k)
    <3> TAKE k \in Inodes
    <3>1. Mine(p, k) = One(cwd[p], k) + One(file[p], k) + One(i, k) + One(None, k)
                         + One(None, k)
      BY <1>1, <1>3, <2>2, MineIs
    <3>2. Held(cwd[p], file[p], None, None, i, <<>>, k)
            = One(cwd[p], k) + One(file[p], k) + One(None, k) + One(None, k) + One(i, k)
      BY HeldNone
    <3> QED
      BY <1>5, <3>1, <3>2, OneIs
  <2>6. Tallies(p, cwd[p], file[p], None, None, i, <<>>)
    BY <2>5, Zenon DEF Tallies
  <2> QED
    BY <1>5, <1>7, <2>2, <2>4, <2>5, <2>6, InsideKeeps, Zenon
<1>8. CASE pc[p] = "nameiparent"
  <2>1. Goto(p, NotFound(p), <<i>>) /\ ip' = ip
    BY <1>8, Zenon DEF NamexEnds
  <2>2. /\ Fits(NotFound(p), call[p], rest[p], None, None, ip[p], <<i>>)
        /\ NotFound(p) # "user" /\ NotFound(p) \in Places /\ <<i>> \in Seq(Inodes)
    BY <1>1, <1>2, <1>3, <1>4, <1>8
       DEF Fits, NotFound, AtPlaces, DpPlaces, IpPlaces, Places, Creates
  <2>3. Assigned(ip, ip', p, ip[p], Pointer)
    BY <2>1, Typed, Unassigned, Zenon
  <2>4. /\ Moves(p, NotFound(p), call[p], rest[p], None, None, ip[p], <<i>>, cwd[p], file[p])
        /\ outstanding' = outstanding /\ freeing' \in [Procs -> 0 .. 2]
    BY <1>6, <2>1, <2>2, <2>3, GotoMoves, Zenon
  <2>5. \A k \in Inodes : icache'[k].ref + Mine(p, k)
          = icache[k].ref + Held(cwd[p], file[p], None, None, ip[p], <<i>>, k)
    <3> TAKE k \in Inodes
    <3>1. Mine(p, k) = One(cwd[p], k) + One(file[p], k) + One(i, k) + One(None, k)
                         + One(ip[p], k)
      BY <1>1, <1>3, MineIs
    <3>2. Held(cwd[p], file[p], None, None, ip[p], <<i>>, k)
            = One(cwd[p], k) + One(file[p], k) + One(None, k) + One(None, k) + One(ip[p], k)
                + One(i, k)
      BY HeldOne
    <3> QED
      BY <1>5, <3>1, <3>2, OneIs
  <2>6. Tallies(p, cwd[p], file[p], None, None, ip[p], <<i>>)
    BY <2>5, Zenon DEF Tallies
  <2> QED
    BY <1>5, <1>8, <2>2, <2>4, <2>5, <2>6, InsideKeeps, Zenon
<1> QED
  BY <1>1, <1>7, <1>8, Zenon DEF AtPlaces

LEMMA HeldTail ==
  ASSUME NEW c, NEW f, NEW a, NEW d, NEW x, NEW i \in Inodes, NEW s \in Seq(Inodes),
         s # <<>>, Len(s) <= 2
  PROVE  /\ Held(c, f, a, d, x, s, i) = Held(c, f, a, d, x, Tail(s), i) + One(Head(s), i)
         /\ Held(c, f, a, d, x, Tail(s), i) \in Nat
<1>1. \A y : One(y, i) \in Nat
  BY DEF One
<1>2. /\ Due(s, 1, i) = One(Head(s), i) /\ Due(s, 2, i) = Due(Tail(s), 1, i)
      /\ Due(Tail(s), 2, i) = 0
  BY DEF Due, One
<1>3. Due(Tail(s), 1, i) \in Nat
  BY DEF Due
<1> DEFINE n == One(c, i) + One(f, i) + One(a, i) + One(d, i) + One(x, i)
<1>4. n \in Nat
  BY <1>1
<1>5. /\ Held(c, f, a, d, x, s, i) = n + Due(s, 1, i) + Due(s, 2, i)
      /\ Held(c, f, a, d, x, Tail(s), i) = n + Due(Tail(s), 1, i) + Due(Tail(s), 2, i)
  BY Zenon DEF Held
<1> HIDE DEF n
<1> QED
  BY <1>1, <1>2, <1>3, <1>4, <1>5

\* A step that leaves the variables of p alone.
LEMMA StaysKeeps ==
  ASSUME Counting, IInv, NEW p \in Procs, pc[p] # "user", pc' = pc, call' = call,
         rest' = rest, at' = at, dp' = dp, ip' = ip, puts' = puts, cwd' = cwd, file' = file,
         outstanding' = outstanding, freeing' \in [Procs -> 0 .. 2], DiskTyped',
         Keeps(icache, icache')
  PROVE  IInv'
<1>1. Moves(p, pc[p], call[p], rest[p], at[p], dp[p], ip[p], puts[p], cwd[p], file[p])
  <2>1. /\ DOMAIN call = Procs /\ pc \in [Procs -> Places] /\ rest \in [Procs -> Seq(Entries)]
        /\ at \in [Procs -> Pointer] /\ dp \in [Procs -> Pointer] /\ ip \in [Procs -> Pointer]
        /\ puts \in [Procs -> Seq(Inodes)] /\ cwd \in [Procs -> Inodes]
        /\ file \in [Procs -> Pointer]
    BY Typed, Zenon
  <2> QED
    BY <2>1, Unassigned, Zenon DEF Moves, Apart
<1>2. Fits(pc[p], call[p], rest[p], at[p], dp[p], ip[p], puts[p])
  BY Typed, Zenon DEF Placed
<1>3. /\ icache' \in Caches
      /\ \A i \in Inodes : icache'[i].ref + Mine(p, i) = icache[i].ref
           + Held(cwd[p], file[p], at[p], dp[p], ip[p], puts[p], i)
  BY Zenon DEF Keeps, Mine
<1>4. Tallies(p, cwd[p], file[p], at[p], dp[p], ip[p], puts[p])
  BY <1>3, Zenon DEF Tallies
<1> QED
  BY <1>1, <1>2, <1>3, <1>4, InsideKeeps, Zenon

LEMMA KeepsItself == ASSUME NEW ic \in Caches PROVE Keeps(ic, ic)
BY Zenon DEF Keeps

LEMMA IlockPanicsKeeps == ASSUME Counting, IInv, NEW p \in Procs, IlockPanics(p) PROVE IInv'
<1>1. /\ Wanted(p) # None /\ dinode' = dinode /\ dents' = dents /\ icache' = icache
      /\ outstanding' = outstanding /\ cwd' = cwd /\ file' = file /\ pc' = pc /\ call' = call
      /\ rest' = rest /\ at' = at /\ dp' = dp /\ ip' = ip /\ puts' = puts
      /\ freeing' = freeing
  BY Zenon DEF IlockPanics, fsvars, opvars
<1>2. pc[p] # "user"
  BY <1>1 DEF Wanted
<1>3. freeing' \in [Procs -> 0 .. 2] /\ DiskTyped' /\ Keeps(icache, icache')
  BY <1>1, Typed, KeepsItself, Zenon DEF DiskTyped
<1> QED
  BY <1>1, <1>2, <1>3, StaysKeeps, Zenon

\* One reference less: Unref() and the end of iput().
Loses(ic, jc, j) == jc \in Caches /\ \A i \in Inodes : jc[i].ref + One(j, i) = ic[i].ref

LEMMA LosesOne ==
  ASSUME NEW ic \in Caches, NEW j \in Inodes, ic[j].ref >= 1,
         NEW e \in [ref : Nat, busy : Procs \union {None}, valid : BOOLEAN,
                    type : Types, nlink : Int],
         e.ref = ic[j].ref - 1
  PROVE  Loses(ic, [ic EXCEPT ![j] = e], j)
<1>1. \A i \in Inodes : ic[i].ref \in Nat
  BY DEF Caches
<1> QED
  BY <1>1 DEF Caches, Loses, One

LEMMA IputEndsKeeps ==
  ASSUME Counting, IInv, NEW p \in Procs, puts[p] # <<>>,
         puts' = [puts EXCEPT ![p] = Tail(puts[p])], Loses(icache, icache', Head(puts[p])),
         pc' = pc, call' = call, rest' = rest, at' = at, dp' = dp, ip' = ip, cwd' = cwd,
         file' = file, outstanding' = outstanding, freeing' \in [Procs -> 0 .. 2], DiskTyped'
  PROVE  IInv'
<1> DEFINE s == puts[p]
<1>1. s \in Seq(Inodes) /\ Fits(pc[p], call[p], rest[p], at[p], dp[p], ip[p], s)
  BY Typed, Zenon DEF Placed
<1>2. Tail(s) \in Seq(Inodes) /\ Len(s) <= 2 /\ Len(Tail(s)) <= 2 /\ pc[p] # "user"
  BY <1>1 DEF Fits
<1>3. Moves(p, pc[p], call[p], rest[p], at[p], dp[p], ip[p], Tail(s), cwd[p], file[p])
  <2>1. /\ DOMAIN call = Procs /\ pc \in [Procs -> Places] /\ rest \in [Procs -> Seq(Entries)]
        /\ at \in [Procs -> Pointer] /\ dp \in [Procs -> Pointer] /\ ip \in [Procs -> Pointer]
        /\ puts \in [Procs -> Seq(Inodes)] /\ cwd \in [Procs -> Inodes]
        /\ file \in [Procs -> Pointer]
    BY Typed, Zenon
  <2>2. Assigned(puts, puts', p, Tail(s), Seq(Inodes))
    BY <1>2, <2>1, Assigns, Zenon
  <2> QED
    BY <2>1, <2>2, Unassigned, Zenon DEF Moves, Apart
<1>4. Fits(pc[p], call[p], rest[p], at[p], dp[p], ip[p], Tail(s))
  BY <1>1, <1>2, Zenon DEF Fits
<1>5. \A i \in Inodes : icache'[i].ref + Mine(p, i) = icache[i].ref
        + Held(cwd[p], file[p], at[p], dp[p], ip[p], Tail(s), i)
  <2> TAKE i \in Inodes
  <2> DEFINE h == Held(cwd[p], file[p], at[p], dp[p], ip[p], Tail(s), i)
  <2>1. Mine(p, i) = h + One(Head(s), i) /\ h \in Nat
    BY <1>1, <1>2, HeldTail DEF Mine
  <2>2. icache'[i].ref + One(Head(s), i) = icache[i].ref /\ icache'[i].ref \in Nat
    BY DEF Loses, Caches
  <2>3. One(Head(s), i) \in Nat
    BY OneIs, Zenon
  <2> HIDE DEF h, s
  <2>4. icache'[i].ref + Mine(p, i) = icache[i].ref + h
    BY <2>1, <2>2, <2>3
  <2> QED
    BY <2>4, Zenon DEF h, s
<1>6. Tallies(p, cwd[p], file[p], at[p], dp[p], ip[p], Tail(s))
  BY <1>5, Zenon DEF Tallies
<1> QED
  BY <1>2, <1>3, <1>4, <1>5, <1>6, InsideKeeps, Zenon DEF Loses

LEMMA IputKeeps == ASSUME Counting, IInv, NEW p \in Procs, iput(p) PROVE IInv'
<1> DEFINE s == puts[p]
           i == Head(s)
<1>1. /\ s # <<>> /\ outstanding' = outstanding /\ cwd' = cwd /\ file' = file /\ pc' = pc
      /\ call' = call /\ rest' = rest /\ at' = at /\ dp' = dp /\ ip' = ip
  BY Zenon DEF iput
<1>2. s \in Seq(Inodes) /\ Fits(pc[p], call[p], rest[p], at[p], dp[p], ip[p], s)
  BY Typed, Zenon DEF Placed
<1>3. i \in Inodes /\ pc[p] # "user" /\ Len(s) <= 2
  BY <1>1, <1>2 DEF Fits
<1>4. /\ DiskTyped /\ icache \in Caches /\ freeing \in [Procs -> 0 .. 2]
      /\ icache[i] \in [ref : Nat, busy : Procs \union {None}, valid : BOOLEAN,
                        type : Types, nlink : Int]
  BY <1>3, Typed, Zenon DEF Caches
<1>5. icache[i].ref >= 1
  <2> DEFINE h == Held(cwd[p], file[p], at[p], dp[p], ip[p], Tail(s), i)
  <2>1. Mine(p, i) = h + One(i, i) /\ h \in Nat
    BY <1>1, <1>2, <1>3, HeldTail DEF Mine
  <2>2. One(i, i) = 1
    BY DEF One
  <2>3. Mine(p, i) <= Pointers(i) /\ Pointers(i) \in Nat
    BY <1>3, MineCounted, Zenon
  <2>4. icache[i].ref = Pointers(i)
    BY <1>3, Zenon DEF IInv, RefsExact
  <2> HIDE DEF h, i, s
  <2> QED
    BY <2>1, <2>2, <2>3, <2>4
<1>6. CASE /\ freeing[p] = 0 /\ ~LastPut(i) /\ icache' = Unref(i)
           /\ puts' = [puts EXCEPT ![p] = Tail(s)]
           /\ dinode' = dinode /\ dents' = dents /\ freeing' = freeing
  <2> DEFINE e == IF icache[i].ref = 1 THEN Uncached
                  ELSE [icache[i] EXCEPT !.ref = icache[i].ref - 1]
  <2>1. icache' = [icache EXCEPT ![i] = e]
    BY <1>6, Zenon DEF Unref
  <2>2. /\ e \in [ref : Nat, busy : Procs \union {None}, valid : BOOLEAN,
                  type : Types, nlink : Int]
        /\ e.ref = icache[i].ref - 1
    BY <1>4, <1>5 DEF Uncached, Types
  <2> HIDE DEF e
  <2>3. Loses(icache, icache', i)
    BY <1>3, <1>4, <1>5, <2>1, <2>2, LosesOne, Zenon
  <2>4. freeing' \in [Procs -> 0 .. 2] /\ DiskTyped'
    BY <1>4, <1>6, Zenon DEF DiskTyped
  <2> QED
    BY <1>1, <1>6, <2>3, <2>4, IputEndsKeeps, Zenon
<1>7. CASE /\ freeing[p] = 0 /\ LastPut(i) /\ puts' = puts
           /\ dinode' = dinode /\ dents' = dents
           /\ \/ icache' = icache /\ freeing' = freeing
              \/ icache' = Busy(icache, i, p) /\ freeing' = [freeing EXCEPT ![p] = 1]
  <2>1. Keeps(icache, icache')
    <3>1. Keeps(icache, icache)
      BY <1>4, KeepsItself, Zenon
    <3>2. p \in Procs \union {None}
      BY Zenon
    <3>3. Keeps(icache, Busy(icache, i, p))
      BY <1>3, <1>4, <3>2, BusyKeeps, Zenon
    <3> HIDE DEF i
    <3> QED
      BY <1>7, <3>1, <3>3, Zenon
  <2>2. freeing' \in [Procs -> 0 .. 2]
    BY <1>4, <1>7
  <2>3. DiskTyped'
    BY <1>4, <1>7, Zenon DEF DiskTyped
  <2> QED
    BY <1>1, <1>3, <1>7, <2>1, <2>2, <2>3, StaysKeeps, Zenon
<1>8. CASE /\ freeing[p] = 1 /\ dents' = [dents EXCEPT ![i] = NoEntries]
           /\ dinode' = [dinode EXCEPT ![i] = FreeInode]
           /\ icache' = [icache EXCEPT ![i] = [icache[i] EXCEPT !.type = "free"]]
           /\ freeing' = [freeing EXCEPT ![p] = 2] /\ puts' = puts
  <2> DEFINE e == [icache[i] EXCEPT !.type = "free"]
  <2>1. icache' = [icache EXCEPT ![i] = e]
    BY <1>8, Zenon
  <2>2. /\ e \in [ref : Nat, busy : Procs \union {None}, valid : BOOLEAN,
                  type : Types, nlink : Int]
        /\ e.ref = icache[i].ref
    BY <1>4 DEF Types
  <2> HIDE DEF e
  <2>3. Keeps(icache, icache')
    BY <1>3, <1>4, <2>1, <2>2 DEF Caches, Keeps
  <2>4. freeing' \in [Procs -> 0 .. 2]
    BY <1>4, <1>8
  <2>5. DiskTyped'
    <3>1. FreeInode \in [type : Types, nlink : Int]
      BY DEF FreeInode, Types
    <3>2. NoEntries \in [Entries -> 0 .. NINODES]
      BY FsConstants DEF NoEntries
    <3> HIDE DEF i
    <3>3. dinode' \in Dinodes
      BY <1>3, <1>4, <1>8, <3>1 DEF DiskTyped, Dinodes
    <3>4. dents' \in [Inodes -> [Entries -> 0 .. NINODES]]
      BY <1>3, <1>4, <1>8, <3>2 DEF DiskTyped
    <3> QED
      BY <3>3, <3>4, Zenon DEF DiskTyped
  <2> QED
    BY <1>1, <1>3, <1>8, <2>3, <2>4, <2>5, StaysKeeps, Zenon
<1>9. CASE /\ freeing[p] = 2
           /\ icache' = [icache EXCEPT ![i] = [Uncached EXCEPT !.ref = icache[i].ref - 1]]
           /\ freeing' = [freeing EXCEPT ![p] = 0]
           /\ puts' = [puts EXCEPT ![p] = Tail(s)]
           /\ dinode' = dinode /\ dents' = dents
  <2> DEFINE e == [Uncached EXCEPT !.ref = icache[i].ref - 1]
  <2>1. icache' = [icache EXCEPT ![i] = e]
    BY <1>9, Zenon
  <2>2. /\ e \in [ref : Nat, busy : Procs \union {None}, valid : BOOLEAN,
                  type : Types, nlink : Int]
        /\ e.ref = icache[i].ref - 1
    <3>1. /\ Uncached.busy = None /\ Uncached.valid = FALSE /\ Uncached.type = "free"
          /\ Uncached.nlink = 0
          /\ Uncached \in [ref : Nat, busy : Procs \union {None}, valid : BOOLEAN,
                           type : Types, nlink : Int]
      BY DEF Uncached, Types
    <3>2. icache[i].ref - 1 \in Nat
      BY <1>4, <1>5
    <3> QED
      BY <3>1, <3>2
  <2> HIDE DEF e
  <2>3. Loses(icache, icache', i)
    BY <1>3, <1>4, <1>5, <2>1, <2>2, LosesOne, Zenon
  <2>4. freeing' \in [Procs -> 0 .. 2]
    BY <1>4, <1>9
  <2>5. DiskTyped'
    BY <1>4, <1>9, Zenon DEF DiskTyped
  <2> QED
    BY <1>1, <1>9, <2>3, <2>4, <2>5, IputEndsKeeps, Zenon
<1> QED
  <2> HIDE DEF i
  <2>1. i = Head(puts[p])
    BY Zenon DEF i
  <2> QED
    BY <1>6, <1>7, <1>8, <1>9, <2>1 DEF iput, fsvars

LEMMA CallAssigned ==
  ASSUME IInv, NEW p \in Procs, NEW c, call' = [call EXCEPT ![p] = c]
  PROVE  DOMAIN call' = Procs /\ call'[p] = c /\ Apart(call, call', p)
<1>1. DOMAIN call = Procs
  BY Typed, Zenon
<1> QED
  BY <1>1 DEF Apart

\* At user level a process holds its current directory and its file.
LEMMA UserIs ==
  ASSUME IInv, NEW p \in Procs, pc[p] = "user"
  PROVE  at[p] = None /\ dp[p] = None /\ ip[p] = None /\ puts[p] = <<>>
<1>1. Fits("user", call[p], rest[p], at[p], dp[p], ip[p], puts[p])
  BY Typed, Zenon DEF Placed
<1> QED
  BY <1>1 DEF Fits, AtPlaces, DpPlaces, IpPlaces

LEMMA BeginKeeps ==
  ASSUME Counting, IInv, NEW p \in Procs, NEW c \in Calls[p], Begin(p, c) PROVE IInv'
<1>1. /\ pc[p] = "user" /\ outstanding' = outstanding + 1
      /\ call' = [call EXCEPT ![p] = c] /\ dinode' = dinode /\ dents' = dents
      /\ cwd' = cwd /\ dp' = dp /\ ip' = ip /\ freeing' = freeing
  BY Zenon DEF Begin, fsvars
<1>2. at[p] = None /\ dp[p] = None /\ ip[p] = None /\ puts[p] = <<>>
  BY <1>1, UserIs, Zenon
<1>3. /\ c.op \in {"open", "close", "creat", "mkdir", "mknod", "chdir", "link", "unlink"}
      /\ c.op # "close" => c.path \in Paths
      /\ c.op = "link" => c.new \in Paths
  BY FsConstants, Zenon
<1>4. /\ pc \in [Procs -> Places] /\ rest \in [Procs -> Seq(Entries)]
      /\ at \in [Procs -> Pointer] /\ dp \in [Procs -> Pointer] /\ ip \in [Procs -> Pointer]
      /\ puts \in [Procs -> Seq(Inodes)] /\ cwd \in [Procs -> Inodes]
      /\ file \in [Procs -> Pointer] /\ cwd[p] \in Inodes /\ icache \in Caches
      /\ None \in Pointer
  BY Typed, Zenon DEF Pointer
<1>5. DiskTyped' /\ freeing' \in [Procs -> 0 .. 2]
  BY <1>1, Typed, Zenon DEF DiskTyped
<1>6. /\ Assigned(cwd, cwd', p, cwd[p], Inodes)
      /\ Assigned(dp, dp', p, None, Pointer) /\ Assigned(ip, ip', p, None, Pointer)
  BY <1>1, <1>2, <1>4, Unassigned, Zenon
<1>7. DOMAIN call' = Procs /\ call'[p] = c /\ Apart(call, call', p)
  BY <1>1, CallAssigned, Zenon
<1>8. CASE c.op = "close"
  <2>1. /\ file[p] # None /\ puts' = [puts EXCEPT ![p] = <<file[p]>>]
        /\ file' = [file EXCEPT ![p] = None] /\ pc' = [pc EXCEPT ![p] = "end"]
        /\ icache' = icache /\ at' = at /\ rest' = rest
    BY <1>8, Zenon DEF Begin
  <2>2. file[p] \in Inodes
    BY <2>1, Typed, Zenon
  <2>3. <<file[p]>> \in Seq(Inodes) /\ "end" \in Places
    BY <2>2 DEF Places
  <2>4. /\ Assigned(puts, puts', p, <<file[p]>>, Seq(Inodes))
        /\ Assigned(file, file', p, None, Pointer) /\ Assigned(pc, pc', p, "end", Places)
    BY <1>4, <2>1, <2>3, Assigns, Zenon
  <2>5. /\ Assigned(at, at', p, None, Pointer)
        /\ Assigned(rest, rest', p, rest[p], Seq(Entries))
    BY <1>2, <1>4, <2>1, Unassigned, Zenon
  <2>6. Moves(p, "end", c, rest[p], None, None, None, <<file[p]>>, cwd[p], None)
    BY <1>6, <1>7, <2>4, <2>5, Zenon DEF Moves
  <2>7. Fits("end", c, rest[p], None, None, None, <<file[p]>>)
    BY DEF Fits, AtPlaces, DpPlaces, IpPlaces
  <2>8. \A k \in Inodes : icache'[k].ref + Mine(p, k)
          = icache[k].ref + Held(cwd[p], None, None, None, None, <<file[p]>>, k)
    <3> TAKE k \in Inodes
    <3>1. Mine(p, k) = One(cwd[p], k) + One(file[p], k) + One(None, k) + One(None, k)
                         + One(None, k)
      BY <1>2, MineIs
    <3>2. Held(cwd[p], None, None, None, None, <<file[p]>>, k)
            = One(cwd[p], k) + One(None, k) + One(None, k) + One(None, k) + One(None, k)
                + One(file[p], k)
      BY HeldOne
    <3> QED
      BY <2>1, <3>1, <3>2, OneIs
  <2>9. icache' \in Caches
    BY <1>4, <2>1, Zenon
  <2>10. Tallies(p, cwd[p], None, None, None, None, <<file[p]>>)
    BY <2>8, Zenon DEF Tallies
  <2> QED
    BY <1>1, <1>5, <2>6, <2>7, <2>8, <2>9, <2>10, MovesKeeps, Zenon
<1>9. CASE c.op # "close"
  <2> DEFINE i == StartsAt(p, c.path)
             place == IF c.op \in {"open", "chdir", "link"} THEN "namei" ELSE "nameiparent"
             r == c.path.elems
  <2>1. /\ icache' = iget(icache, i) /\ at' = [at EXCEPT ![p] = i]
        /\ rest' = [rest EXCEPT ![p] = r] /\ pc' = [pc EXCEPT ![p] = place]
        /\ puts' = puts /\ file' = file
    BY <1>9, Zenon DEF Begin
  <2>2. i \in Inodes /\ i # None /\ i \in Pointer
    BY <1>4, FsConstants DEF StartsAt, ROOTINO, Inodes, Pointer
  <2>3. r \in Seq(Entries)
    BY <1>3, <1>9 DEF Paths
  <2>4. /\ place \in Places /\ place # "user"
        /\ Fits(place, c, r, i, None, None, <<>>)
    BY <1>3, <1>9, <2>2 DEF Fits, AtPlaces, DpPlaces, IpPlaces, Creates, Places
  <2>5. Gains(icache, icache', i)
    BY <1>4, <2>1, <2>2, IgetGains, Zenon
  <2> HIDE DEF i, r, place
  <2>6. /\ Assigned(at, at', p, i, Pointer) /\ Assigned(rest, rest', p, r, Seq(Entries))
        /\ Assigned(pc, pc', p, place, Places)
    BY <1>4, <2>1, <2>2, <2>3, <2>4, Assigns, Zenon
  <2>7. /\ Assigned(puts, puts', p, <<>>, Seq(Inodes))
        /\ Assigned(file, file', p, file[p], Pointer)
    BY <1>2, <1>4, <2>1, Unassigned, Zenon
  <2>8. Moves(p, place, c, r, i, None, None, <<>>, cwd[p], file[p])
    BY <1>6, <1>7, <2>6, <2>7, Zenon DEF Moves
  <2>9. \A k \in Inodes : icache'[k].ref + Mine(p, k)
          = icache[k].ref + Held(cwd[p], file[p], i, None, None, <<>>, k)
    <3> TAKE k \in Inodes
    <3>1. icache'[k].ref = icache[k].ref + One(i, k) /\ icache[k].ref \in Nat
      BY <1>4, <2>5 DEF Gains, Caches
    <3>2. Mine(p, k) = One(cwd[p], k) + One(file[p], k) + One(None, k) + One(None, k)
                         + One(None, k)
      BY <1>2, MineIs
    <3>3. Held(cwd[p], file[p], i, None, None, <<>>, k)
            = One(cwd[p], k) + One(file[p], k) + One(i, k) + One(None, k) + One(None, k)
      BY HeldNone
    <3> QED
      BY <3>1, <3>2, <3>3, OneIs
  <2>10. Tallies(p, cwd[p], file[p], i, None, None, <<>>)
    BY <2>9, Zenon DEF Tallies
  <2> QED
    BY <1>1, <1>5, <2>4, <2>5, <2>8, <2>9, <2>10, MovesKeeps, Zenon DEF Gains
<1> QED
  BY <1>8, <1>9

LEMMA EndKeeps == ASSUME Counting, IInv, NEW p \in Procs, End(p) PROVE IInv'
<1>1. /\ pc[p] = "end" /\ puts[p] = <<>> /\ outstanding' = outstanding - 1
      /\ pc' = [pc EXCEPT ![p] = "user"] /\ call' = [call EXCEPT ![p] = None]
      /\ dinode' = dinode /\ dents' = dents /\ icache' = icache /\ cwd' = cwd /\ file' = file
      /\ rest' = rest /\ at' = at /\ dp' = dp /\ ip' = ip /\ puts' = puts /\ freeing' = freeing
  BY Zenon DEF End, fsvars
<1>2. at[p] = None /\ dp[p] = None /\ ip[p] = None
  BY <1>1, HolderIs DEF AtPlaces, DpPlaces, IpPlaces
<1>3. /\ pc \in [Procs -> Places] /\ rest \in [Procs -> Seq(Entries)]
      /\ at \in [Procs -> Pointer] /\ dp \in [Procs -> Pointer] /\ ip \in [Procs -> Pointer]
      /\ puts \in [Procs -> Seq(Inodes)] /\ cwd \in [Procs -> Inodes]
      /\ file \in [Procs -> Pointer] /\ icache \in Caches
  BY Typed, Zenon
<1>4. DiskTyped' /\ freeing' \in [Procs -> 0 .. 2] /\ icache' \in Caches
  BY <1>1, Typed, Zenon DEF DiskTyped
<1>5. "user" \in Places
  BY DEF Places
<1>6. Moves(p, "user", None, rest[p], None, None, None, <<>>, cwd[p], file[p])
  <2>1. DOMAIN call' = Procs /\ call'[p] = None /\ Apart(call, call', p)
    BY <1>1, CallAssigned, Zenon
  <2>2. Assigned(pc, pc', p, "user", Places)
    BY <1>1, <1>3, <1>5, Assigns, Zenon
  <2> QED
    BY <1>1, <1>2, <1>3, <2>1, <2>2, Unassigned, Zenon DEF Moves
<1>7. Fits("user", None, rest[p], None, None, None, <<>>)
  BY DEF Fits, AtPlaces, DpPlaces, IpPlaces
<1>8. \A k \in Inodes : icache'[k].ref + Mine(p, k)
        = icache[k].ref + Held(cwd[p], file[p], None, None, None, <<>>, k)
  BY <1>1, <1>2, Zenon DEF Mine
<1>9. Tallies(p, cwd[p], file[p], None, None, None, <<>>)
  BY <1>8, Zenon DEF Tallies
<1> QED
  BY <1>1, <1>4, <1>6, <1>7, <1>8, <1>9, MovesKeeps, Zenon

\* A step that ends a call which holds only ip.
LEMMA PutsIp ==
  ASSUME Counting, IInv, NEW p \in Procs, Leaves(p, <<ip[p]>>), pc[p] # "user",
         puts[p] = <<>>, at[p] = None, dp[p] = None, ip[p] \in Inodes, DiskTyped',
         Keeps(icache, icache')
  PROVE  IInv'
<1>1. <<ip[p]>> \in Seq(Inodes) /\ Len(<<ip[p]>>) <= 2
  OBVIOUS
<1>2. \A k \in Inodes : Mine(p, k) = Held(cwd[p], file[p], None, None, None, <<ip[p]>>, k)
  <2> TAKE k \in Inodes
  <2>1. Mine(p, k) = One(cwd[p], k) + One(file[p], k) + One(None, k) + One(None, k)
                       + One(ip[p], k)
    BY MineIs
  <2>2. Held(cwd[p], file[p], None, None, None, <<ip[p]>>, k)
          = One(cwd[p], k) + One(file[p], k) + One(None, k) + One(None, k) + One(None, k)
              + One(ip[p], k)
    BY HeldOne
  <2> QED
    BY <2>1, <2>2, OneIs
<1> QED
  BY <1>1, <1>2, LeavesKeeps, Zenon

\* A step that ends or goes on past sys_open(): the file gets the pointer.
LEMMA OpenedKeeps ==
  ASSUME Counting, IInv, NEW p \in Procs, NEW ic, Keeps(icache, ic), Opened(p, ic),
         pc[p] \in {"open", "create2", "created"}, puts[p] = <<>>
  PROVE  IInv'
<1> DEFINE i == ip[p]
<1>1. /\ at[p] = None /\ dp[p] = None /\ i \in Inodes /\ i # None /\ pc[p] # "user"
  BY HolderIs DEF AtPlaces, DpPlaces, IpPlaces
<1>2. icache' = iunlock(ic, i) /\ dinode' = dinode /\ dents' = dents
  BY Zenon DEF Opened, fsvars
<1>3. Keeps(icache, icache') /\ DiskTyped'
  BY <1>1, <1>2, Typed, IunlockKeeps, KeepsKeeps, Zenon DEF DiskTyped
<1>4. CASE Leaves(p, <<i>>)
  BY <1>1, <1>3, <1>4, PutsIp, Zenon
<1>5. CASE /\ file[p] = None /\ file' = [file EXCEPT ![p] = i] /\ ip' = [ip EXCEPT ![p] = None]
           /\ dp' = [dp EXCEPT ![p] = None] /\ pc' = [pc EXCEPT ![p] = "end"]
           /\ rest' = [rest EXCEPT ![p] = <<>>] /\ outstanding' = outstanding /\ cwd' = cwd
           /\ call' = call /\ at' = at /\ puts' = puts /\ freeing' = freeing
  <2>1. /\ pc \in [Procs -> Places] /\ rest \in [Procs -> Seq(Entries)]
        /\ at \in [Procs -> Pointer] /\ dp \in [Procs -> Pointer] /\ ip \in [Procs -> Pointer]
        /\ puts \in [Procs -> Seq(Inodes)] /\ cwd \in [Procs -> Inodes]
        /\ file \in [Procs -> Pointer] /\ DOMAIN call = Procs /\ freeing \in [Procs -> 0 .. 2]
    BY Typed, Zenon
  <2>2. None \in Pointer /\ i \in Pointer /\ "end" \in Places /\ <<>> \in Seq(Entries)
    BY <1>1 DEF Pointer, Places
  <2>3. /\ Assigned(file, file', p, i, Pointer) /\ Assigned(ip, ip', p, None, Pointer)
        /\ Assigned(dp, dp', p, None, Pointer) /\ Assigned(pc, pc', p, "end", Places)
        /\ Assigned(rest, rest', p, <<>>, Seq(Entries))
    BY <1>5, <2>1, <2>2, Assigns, Zenon
  <2>4. /\ Assigned(cwd, cwd', p, cwd[p], Inodes) /\ Assigned(at, at', p, None, Pointer)
        /\ Assigned(puts, puts', p, <<>>, Seq(Inodes))
    BY <1>1, <1>5, <2>1, Unassigned, Zenon
  <2>5. Moves(p, "end", call[p], <<>>, None, None, None, <<>>, cwd[p], i)
    BY <1>5, <2>1, <2>3, <2>4, Zenon DEF Moves, Apart
  <2>6. Fits("end", call[p], <<>>, None, None, None, <<>>)
    BY DEF Fits, AtPlaces, DpPlaces, IpPlaces
  <2>7. \A k \in Inodes : icache'[k].ref + Mine(p, k)
          = icache[k].ref + Held(cwd[p], i, None, None, None, <<>>, k)
    <3> TAKE k \in Inodes
    <3>1. Mine(p, k) = One(cwd[p], k) + One(None, k) + One(None, k) + One(None, k)
                         + One(i, k)
      BY <1>1, <1>5, MineIs
    <3>2. Held(cwd[p], i, None, None, None, <<>>, k)
            = One(cwd[p], k) + One(i, k) + One(None, k) + One(None, k) + One(None, k)
      BY HeldNone
    <3>3. icache'[k].ref = icache[k].ref
      BY <1>3, Zenon DEF Keeps
    <3> QED
      BY <3>1, <3>2, <3>3, OneIs
  <2>8. freeing' \in [Procs -> 0 .. 2] /\ outstanding' = outstanding
    BY <1>5, <2>1, Zenon
  <2>9. Tallies(p, cwd[p], i, None, None, None, <<>>)
    BY <2>7, Zenon DEF Tallies
  <2> QED
    BY <1>1, <1>3, <2>5, <2>6, <2>7, <2>8, <2>9, InsideKeeps, Zenon DEF Keeps
<1> QED
  BY <1>4, <1>5, Zenon DEF Opened

LEMMA SysOpenKeeps == ASSUME Counting, IInv, NEW p \in Procs, sys_open(p) PROVE IInv'
<1>1. AtLock(p, "open") /\ Opened(p, ilock(icache, ip[p], p))
  BY Zenon DEF sys_open
<1>2. pc[p] = "open" /\ puts[p] = <<>>
  BY <1>1, AtLockIs, Zenon
<1>3. ip[p] \in Inodes
  BY <1>2, HolderIs DEF AtPlaces, IpPlaces
<1>4. Keeps(icache, ilock(icache, ip[p], p))
  BY <1>3, Typed, IlockKeeps, Zenon DEF DiskTyped
<1> QED
  BY <1>1, <1>2, <1>4, OpenedKeeps, Zenon

LEMMA SysChdirKeeps == ASSUME Counting, IInv, NEW p \in Procs, sys_chdir(p) PROVE IInv'
<1> DEFINE i == ip[p]
<1>1. AtLock(p, "chdir") /\ icache' = Read(icache, i) /\ dinode' = dinode /\ dents' = dents
  BY Zenon DEF sys_chdir, fsvars
<1>2. pc[p] = "chdir" /\ puts[p] = <<>>
  BY <1>1, AtLockIs, Zenon
<1>3. at[p] = None /\ dp[p] = None /\ i \in Inodes /\ pc[p] # "user"
  BY <1>2, HolderIs DEF AtPlaces, DpPlaces, IpPlaces
<1>4. Keeps(icache, icache') /\ DiskTyped'
  BY <1>1, <1>3, Typed, ReadKeeps, Zenon DEF DiskTyped
<1>5. CASE Leaves(p, <<i>>)
  BY <1>2, <1>3, <1>4, <1>5, PutsIp, Zenon
<1>6. CASE /\ cwd' = [cwd EXCEPT ![p] = i] /\ puts' = [puts EXCEPT ![p] = <<cwd[p]>>]
           /\ ip' = [ip EXCEPT ![p] = None] /\ pc' = [pc EXCEPT ![p] = "end"]
           /\ outstanding' = outstanding /\ file' = file /\ call' = call /\ rest' = rest
           /\ at' = at /\ dp' = dp /\ freeing' = freeing
  <2>1. /\ pc \in [Procs -> Places] /\ rest \in [Procs -> Seq(Entries)]
        /\ at \in [Procs -> Pointer] /\ dp \in [Procs -> Pointer] /\ ip \in [Procs -> Pointer]
        /\ puts \in [Procs -> Seq(Inodes)] /\ cwd \in [Procs -> Inodes] /\ cwd[p] \in Inodes
        /\ file \in [Procs -> Pointer] /\ DOMAIN call = Procs /\ freeing \in [Procs -> 0 .. 2]
    BY Typed, Zenon
  <2>2. None \in Pointer /\ "end" \in Places /\ <<cwd[p]>> \in Seq(Inodes)
    BY <2>1 DEF Pointer, Places
  <2>3. /\ Assigned(cwd, cwd', p, i, Inodes) /\ Assigned(ip, ip', p, None, Pointer)
        /\ Assigned(puts, puts', p, <<cwd[p]>>, Seq(Inodes))
        /\ Assigned(pc, pc', p, "end", Places)
    BY <1>3, <1>6, <2>1, <2>2, Assigns, Zenon
  <2>4. /\ Assigned(rest, rest', p, rest[p], Seq(Entries))
        /\ Assigned(at, at', p, None, Pointer) /\ Assigned(dp, dp', p, None, Pointer)
        /\ Assigned(file, file', p, file[p], Pointer)
    BY <1>3, <1>6, <2>1, Unassigned, Zenon
  <2>5. Moves(p, "end", call[p], rest[p], None, None, None, <<cwd[p]>>, i, file[p])
    BY <1>6, <2>1, <2>3, <2>4, Zenon DEF Moves, Apart
  <2>6. Fits("end", call[p], rest[p], None, None, None, <<cwd[p]>>)
    BY DEF Fits, AtPlaces, DpPlaces, IpPlaces
  <2>7. \A k \in Inodes : icache'[k].ref + Mine(p, k)
          = icache[k].ref + Held(i, file[p], None, None, None, <<cwd[p]>>, k)
    <3> TAKE k \in Inodes
    <3>1. Mine(p, k) = One(cwd[p], k) + One(file[p], k) + One(None, k) + One(None, k)
                         + One(i, k)
      BY <1>2, <1>3, MineIs
    <3>2. Held(i, file[p], None, None, None, <<cwd[p]>>, k)
            = One(i, k) + One(file[p], k) + One(None, k) + One(None, k) + One(None, k)
                + One(cwd[p], k)
      BY HeldOne
    <3>3. icache'[k].ref = icache[k].ref
      BY <1>4, Zenon DEF Keeps
    <3> QED
      BY <3>1, <3>2, <3>3, OneIs
  <2>8. freeing' \in [Procs -> 0 .. 2] /\ outstanding' = outstanding
    BY <1>6, <2>1, Zenon
  <2>9. Tallies(p, i, file[p], None, None, None, <<cwd[p]>>)
    BY <2>7, Zenon DEF Tallies
  <2> QED
    BY <1>3, <1>4, <2>5, <2>6, <2>7, <2>8, <2>9, InsideKeeps, Zenon DEF Keeps
<1> QED
  BY <1>5, <1>6, Zenon DEF sys_chdir

LEMMA Link1Keeps == ASSUME Counting, IInv, NEW p \in Procs, link1(p) PROVE IInv'
<1> DEFINE i == ip[p]
           j == StartsAt(p, call[p].new)
           ic == Read(icache, i)
<1>1. AtLock(p, "link1")
  BY Zenon DEF link1
<1>2. pc[p] = "link1" /\ puts[p] = <<>>
  BY <1>1, AtLockIs, Zenon
<1>3. /\ at[p] = None /\ dp[p] = None /\ i \in Inodes /\ i # None /\ pc[p] # "user"
      /\ call[p].op = "link" /\ call[p].new \in Paths
  BY <1>2, HolderIs DEF AtPlaces, DpPlaces, IpPlaces
<1>4. Keeps(icache, ic)
  BY <1>3, Typed, ReadKeeps, Zenon DEF DiskTyped
<1>5. CASE icache' = ic /\ Leaves(p, <<i>>) /\ dinode' = dinode /\ dents' = dents
  <2>1. Keeps(icache, icache') /\ DiskTyped'
    BY <1>4, <1>5, Typed, Zenon DEF DiskTyped
  <2> QED
    BY <1>2, <1>3, <1>5, <2>1, PutsIp, Zenon
<1>6. CASE /\ icache' = iget(AddLinks(ic, i, 1), j) /\ dinode' = iupdate(dinode, icache', i)
           /\ at' = [at EXCEPT ![p] = j] /\ rest' = [rest EXCEPT ![p] = call[p].new.elems]
           /\ Goto(p, "nameiparent", <<>>) /\ dents' = dents /\ dp' = dp /\ ip' = ip
  <2>1. cwd[p] \in Inodes /\ DiskTyped
    BY Typed, Zenon
  <2>2. j \in Inodes /\ j # None /\ j \in Pointer
    BY <2>1, FsConstants DEF StartsAt, ROOTINO, Inodes, Pointer
  <2>3. Gains(icache, icache', j)
    <3>1. 1 \in Int /\ ic \in Caches
      BY <1>4 DEF Keeps
    <3>2. Keeps(ic, AddLinks(ic, i, 1))
      BY <1>3, <3>1, AddLinksKeeps, Zenon
    <3>3. Gains(AddLinks(ic, i, 1), icache', j)
      BY <1>6, <2>2, <3>2, IgetGains, Zenon DEF Keeps
    <3> HIDE DEF ic
    <3>4. Keeps(icache, AddLinks(ic, i, 1))
      BY <1>4, <3>2 DEF Keeps
    <3> QED
      BY <3>3, <3>4, KeepsGains, Zenon
  <2>4. DiskTyped'
    BY <1>3, <1>6, <2>1, <2>3, IupdateTyped, Zenon DEF DiskTyped, Gains
  <2>5. /\ call[p].new.elems \in Seq(Entries) /\ "nameiparent" \in Places
        /\ <<>> \in Seq(Inodes)
    BY <1>3 DEF Paths, Places
  <2> HIDE DEF i, j, ic
  <2>6. /\ Assigned(at, at', p, j, Pointer) /\ Assigned(dp, dp', p, None, Pointer)
        /\ Assigned(rest, rest', p, call[p].new.elems, Seq(Entries))
        /\ Assigned(ip, ip', p, i, Pointer)
    BY <1>3, <1>6, <2>2, <2>5, Typed, Assigns, Unassigned, Zenon DEF i
  <2>7. /\ Moves(p, "nameiparent", call[p], call[p].new.elems, j, None, i, <<>>, cwd[p],
                 file[p])
        /\ outstanding' = outstanding /\ freeing' \in [Procs -> 0 .. 2]
    BY <1>6, <2>5, <2>6, GotoMoves, Zenon
  <2>8. Fits("nameiparent", call[p], call[p].new.elems, j, None, i, <<>>)
    BY <1>3, <2>2 DEF Fits, AtPlaces, DpPlaces, IpPlaces, Creates
  <2>9. \A k \in Inodes : icache'[k].ref + Mine(p, k)
          = icache[k].ref + Held(cwd[p], file[p], j, None, i, <<>>, k)
    <3> TAKE k \in Inodes
    <3>1. icache'[k].ref = icache[k].ref + One(j, k) /\ icache[k].ref \in Nat
      BY <2>3, Typed DEF Gains, Caches
    <3>2. Mine(p, k) = One(cwd[p], k) + One(file[p], k) + One(None, k) + One(None, k)
                         + One(i, k)
      BY <1>2, <1>3, MineIs DEF i
    <3>3. Held(cwd[p], file[p], j, None, i, <<>>, k)
            = One(cwd[p], k) + One(file[p], k) + One(j, k) + One(None, k) + One(i, k)
      BY HeldNone
    <3> QED
      BY <3>1, <3>2, <3>3, OneIs
  <2>10. Tallies(p, cwd[p], file[p], j, None, i, <<>>)
    BY <2>9, Zenon DEF Tallies
  <2> QED
    BY <1>3, <2>3, <2>4, <2>7, <2>8, <2>9, <2>10, InsideKeeps, Zenon DEF Gains
<1> QED
  BY <1>5, <1>6, Zenon DEF link1, NewLink, fsvars

LEMMA Link2Keeps == ASSUME Counting, IInv, NEW p \in Procs, link2(p) PROVE IInv'
<1> DEFINE d == dp[p]
           i == ip[p]
<1>1. AtLock(p, "link2") /\ icache' = Read(icache, d) /\ dinode' = dinode
  BY Zenon DEF link2
<1>2. pc[p] = "link2" /\ puts[p] = <<>>
  BY <1>1, AtLockIs, Zenon
<1>3. /\ at[p] = None /\ d \in Inodes /\ i \in Inodes /\ i # None /\ pc[p] # "user"
      /\ call[p].op = "link" /\ call[p].new \in Paths /\ name(p) \in Entries
  BY <1>2, HolderIs DEF AtPlaces, DpPlaces, IpPlaces
<1>4. Keeps(icache, icache') /\ DiskTyped
  BY <1>1, <1>3, Typed, ReadKeeps, Zenon DEF DiskTyped
<1>5. \A k \in Inodes : Mine(p, k) = One(cwd[p], k) + One(file[p], k) + One(None, k)
                                       + One(d, k) + One(i, k)
  BY <1>2, <1>3, MineIs
<1>6. CASE /\ Goto(p, "bad", <<d>>) /\ dp' = [dp EXCEPT ![p] = None]
           /\ dents' = dents /\ rest' = rest /\ at' = at /\ ip' = ip
  <2>1. DiskTyped'
    BY <1>1, <1>4, <1>6, Zenon DEF DiskTyped
  <2>2. None \in Pointer /\ "bad" \in Places /\ <<d>> \in Seq(Inodes)
    BY <1>3 DEF Pointer, Places, IpPlaces
  <2>3. /\ Assigned(at, at', p, None, Pointer) /\ Assigned(dp, dp', p, None, Pointer)
        /\ Assigned(rest, rest', p, rest[p], Seq(Entries)) /\ Assigned(ip, ip', p, i, Pointer)
    BY <1>3, <1>6, <2>2, Typed, Assigns, Unassigned, Zenon
  <2>4. /\ Moves(p, "bad", call[p], rest[p], None, None, i, <<d>>, cwd[p], file[p])
        /\ outstanding' = outstanding /\ freeing' \in [Procs -> 0 .. 2]
    BY <1>6, <2>2, <2>3, GotoMoves, Zenon
  <2>5. Fits("bad", call[p], rest[p], None, None, i, <<d>>)
    BY <1>3 DEF Fits, AtPlaces, DpPlaces, IpPlaces
  <2>6. \A k \in Inodes : icache'[k].ref + Mine(p, k)
          = icache[k].ref + Held(cwd[p], file[p], None, None, i, <<d>>, k)
    <3> TAKE k \in Inodes
    <3>1. Held(cwd[p], file[p], None, None, i, <<d>>, k)
            = One(cwd[p], k) + One(file[p], k) + One(None, k) + One(None, k) + One(i, k)
                + One(d, k)
      BY HeldOne
    <3>2. icache'[k].ref = icache[k].ref
      BY <1>4, Zenon DEF Keeps
    <3> QED
      BY <1>5, <3>1, <3>2, OneIs
  <2>7. Tallies(p, cwd[p], file[p], None, None, i, <<d>>)
    BY <2>6, Zenon DEF Tallies
  <2> QED
    BY <1>3, <1>4, <2>1, <2>4, <2>5, <2>6, <2>7, InsideKeeps, Zenon DEF Keeps
<1>7. CASE /\ dents' = [dents EXCEPT ![d] = [dents[d] EXCEPT ![name(p)] = i]]
           /\ Leaves(p, <<d, i>>)
  <2>1. DiskTyped'
    <3>1. dents[d] \in [Entries -> 0 .. NINODES]
      BY <1>3, <1>4, Zenon DEF DiskTyped
    <3>2. i \in 0 .. NINODES
      BY <1>3, FsConstants DEF Inodes
    <3>3. [dents[d] EXCEPT ![name(p)] = i] \in [Entries -> 0 .. NINODES]
      BY <1>3, <3>1, <3>2
    <3>4. dents' \in [Inodes -> [Entries -> 0 .. NINODES]]
      BY <1>3, <1>4, <1>7, <3>3 DEF DiskTyped
    <3> QED
      BY <1>1, <1>4, <3>4, Zenon DEF DiskTyped
  <2>2. <<d, i>> \in Seq(Inodes) /\ Len(<<d, i>>) <= 2
    BY <1>3
  <2>3. \A k \in Inodes : Mine(p, k) = Held(cwd[p], file[p], None, None, None, <<d, i>>, k)
    <3> TAKE k \in Inodes
    <3>1. Held(cwd[p], file[p], None, None, None, <<d, i>>, k)
            = One(cwd[p], k) + One(file[p], k) + One(None, k) + One(None, k) + One(None, k)
                + One(d, k) + One(i, k)
      BY HeldTwo
    <3> QED
      BY <1>5, <3>1, OneIs
  <2> QED
    BY <1>3, <1>4, <1>7, <2>1, <2>2, <2>3, LeavesKeeps, Zenon
<1> QED
  BY <1>6, <1>7, Zenon DEF link2

LEMMA BadKeeps == ASSUME Counting, IInv, NEW p \in Procs, bad(p) PROVE IInv'
<1> DEFINE i == ip[p]
<1>1. /\ AtLock(p, "bad") /\ icache' = AddLinks(Read(icache, i), i, -1)
      /\ dinode' = iupdate(dinode, icache', i) /\ Leaves(p, <<i>>) /\ dents' = dents
  BY Zenon DEF bad
<1>2. pc[p] = "bad" /\ puts[p] = <<>>
  BY <1>1, AtLockIs, Zenon
<1>3. at[p] = None /\ dp[p] = None /\ i \in Inodes /\ pc[p] # "user"
  BY <1>2, HolderIs DEF AtPlaces, DpPlaces, IpPlaces
<1>4. Keeps(icache, icache')
  <2>1. Keeps(icache, Read(icache, i))
    BY <1>3, Typed, ReadKeeps, Zenon DEF DiskTyped
  <2>2. -1 \in Int
    OBVIOUS
  <2>3. Keeps(Read(icache, i), icache')
    BY <1>1, <1>3, <2>1, <2>2, AddLinksKeeps, Zenon DEF Keeps
  <2> QED
    BY <2>1, <2>3, KeepsKeeps, Zenon
<1>5. DiskTyped'
  BY <1>1, <1>3, <1>4, Typed, IupdateTyped, Zenon DEF DiskTyped, Keeps
<1> QED
  BY <1>1, <1>2, <1>3, <1>4, <1>5, PutsIp, Zenon

LEMMA Unlink3Keeps == ASSUME Counting, IInv, NEW p \in Procs, unlink3(p) PROVE IInv'
<1> DEFINE i == ip[p]
<1>1. /\ pc[p] = "unlink3" /\ puts[p] = <<>>
      /\ icache' = iunlock(AddLinks(icache, i, -1), i)
      /\ dinode' = iupdate(dinode, icache', i) /\ Leaves(p, <<i>>) /\ dents' = dents
  BY Zenon DEF unlink3
<1>2. at[p] = None /\ dp[p] = None /\ i \in Inodes /\ pc[p] # "user"
  BY <1>1, HolderIs DEF AtPlaces, DpPlaces, IpPlaces
<1>3. Keeps(icache, icache')
  <2>1. -1 \in Int
    OBVIOUS
  <2>2. Keeps(icache, AddLinks(icache, i, -1))
    BY <1>2, <2>1, Typed, AddLinksKeeps, Zenon
  <2>3. Keeps(AddLinks(icache, i, -1), icache')
    BY <1>1, <1>2, <2>2, IunlockKeeps, Zenon DEF Keeps
  <2> QED
    BY <2>2, <2>3, KeepsKeeps, Zenon
<1>4. DiskTyped'
  BY <1>1, <1>2, <1>3, Typed, IupdateTyped, Zenon DEF DiskTyped, Keeps
<1> QED
  BY <1>1, <1>2, <1>3, <1>4, PutsIp, Zenon

LEMMA Unlink1Keeps == ASSUME Counting, IInv, NEW p \in Procs, unlink1(p) PROVE IInv'
<1> DEFINE d == dp[p]
           j == dents[d][name(p)]
<1>1. AtLock(p, "unlink1") /\ dinode' = dinode /\ dents' = dents
  BY Zenon DEF unlink1, fsvars
<1>2. pc[p] = "unlink1" /\ puts[p] = <<>>
  BY <1>1, AtLockIs, Zenon
<1>3. /\ at[p] = None /\ d \in Inodes /\ d # None /\ ip[p] = None /\ pc[p] # "user"
      /\ name(p) \in Entries /\ rest[p] # <<>>
  BY <1>2, HolderIs DEF AtPlaces, DpPlaces, IpPlaces
<1>4. DiskTyped'
  BY <1>1, Typed, Zenon DEF DiskTyped
<1>5. \A k \in Inodes : Mine(p, k) = One(cwd[p], k) + One(file[p], k) + One(None, k)
                                       + One(d, k) + One(None, k)
  BY <1>2, <1>3, MineIs
<1>6. CASE /\ j # 0 /\ icache' = iget(ilock(icache, d, p), j) /\ ip' = [ip EXCEPT ![p] = j]
           /\ Goto(p, "unlink2", <<>>) /\ rest' = rest /\ at' = at /\ dp' = dp
  <2>1. j \in Inodes /\ j # None /\ j \in Pointer
    BY <1>3, <1>6, EntryIs, Zenon
  <2>2. Gains(icache, icache', j)
    <3>1. Keeps(icache, ilock(icache, d, p))
      BY <1>3, Typed, IlockKeeps, Zenon DEF DiskTyped
    <3>2. Gains(ilock(icache, d, p), icache', j)
      BY <1>6, <2>1, <3>1, IgetGains, Zenon DEF Keeps
    <3> QED
      BY <3>1, <3>2, KeepsGains, Zenon
  <2> HIDE DEF j
  <2>3. "unlink2" \in Places /\ <<>> \in Seq(Inodes)
    BY DEF Places, IpPlaces
  <2>4. /\ Assigned(at, at', p, None, Pointer) /\ Assigned(dp, dp', p, d, Pointer)
        /\ Assigned(rest, rest', p, rest[p], Seq(Entries)) /\ Assigned(ip, ip', p, j, Pointer)
    BY <1>3, <1>6, <2>1, Typed, Assigns, Unassigned, Zenon
  <2>5. /\ Moves(p, "unlink2", call[p], rest[p], None, d, j, <<>>, cwd[p], file[p])
        /\ outstanding' = outstanding /\ freeing' \in [Procs -> 0 .. 2]
    BY <1>6, <2>3, <2>4, GotoMoves, Zenon
  <2>6. Fits("unlink2", call[p], rest[p], None, d, j, <<>>)
    BY <1>3, <2>1 DEF Fits, AtPlaces, DpPlaces, IpPlaces
  <2>7. \A k \in Inodes : icache'[k].ref + Mine(p, k)
          = icache[k].ref + Held(cwd[p], file[p], None, d, j, <<>>, k)
    <3> TAKE k \in Inodes
    <3>1. icache'[k].ref = icache[k].ref + One(j, k) /\ icache[k].ref \in Nat
      BY <2>2, Typed DEF Gains, Caches
    <3>2. Held(cwd[p], file[p], None, d, j, <<>>, k)
            = One(cwd[p], k) + One(file[p], k) + One(None, k) + One(d, k) + One(j, k)
      BY HeldNone
    <3> QED
      BY <1>5, <3>1, <3>2, OneIs
  <2>8. Tallies(p, cwd[p], file[p], None, d, j, <<>>)
    BY <2>7, Zenon DEF Tallies
  <2> QED
    BY <1>3, <1>4, <2>2, <2>5, <2>6, <2>7, <2>8, InsideKeeps, Zenon DEF Gains
<1>7. CASE icache' = Read(icache, d) /\ Leaves(p, <<d>>)
  <2>1. Keeps(icache, icache')
    BY <1>3, <1>7, Typed, ReadKeeps, Zenon DEF DiskTyped
  <2>2. <<d>> \in Seq(Inodes) /\ Len(<<d>>) <= 2
    BY <1>3
  <2>3. \A k \in Inodes : Mine(p, k) = Held(cwd[p], file[p], None, None, None, <<d>>, k)
    <3> TAKE k \in Inodes
    <3>1. Held(cwd[p], file[p], None, None, None, <<d>>, k)
            = One(cwd[p], k) + One(file[p], k) + One(None, k) + One(None, k) + One(None, k)
                + One(d, k)
      BY HeldOne
    <3> QED
      BY <1>5, <3>1, OneIs
  <2> QED
    BY <1>3, <1>4, <1>7, <2>1, <2>2, <2>3, LeavesKeeps, Zenon
<1> QED
  BY <1>6, <1>7, Zenon DEF unlink1

LEMMA Unlink2Keeps == ASSUME Counting, IInv, NEW p \in Procs, unlink2(p) PROVE IInv'
<1> DEFINE d == dp[p]
           i == ip[p]
           ic == ilock(icache, i, p)
           t == LosesDotDot(ic[i].type)
<1>1. AtLock(p, "unlink2")
  BY Zenon DEF unlink2
<1>2. pc[p] = "unlink2" /\ puts[p] = <<>>
  BY <1>1, AtLockIs, Zenon
<1>3. /\ at[p] = None /\ d \in Inodes /\ i \in Inodes /\ i # None /\ pc[p] # "user"
      /\ name(p) \in Entries
  BY <1>2, HolderIs DEF AtPlaces, DpPlaces, IpPlaces
<1>4. Keeps(icache, ic) /\ DiskTyped
  BY <1>3, Typed, IlockKeeps, Zenon DEF DiskTyped
<1>5. \A k \in Inodes : Mine(p, k) = One(cwd[p], k) + One(file[p], k) + One(None, k)
                                       + One(d, k) + One(i, k)
  BY <1>2, <1>3, MineIs
<1>6. t \in Int
  BY DEF LosesDotDot
<1>7. CASE UNCHANGED <<fsvars, icache, outstanding, cwd, file, opvars>>
  <2>1. freeing' \in [Procs -> 0 .. 2] /\ DiskTyped' /\ Keeps(icache, icache')
    BY <1>7, Typed, KeepsItself, Zenon DEF DiskTyped, fsvars, opvars
  <2>2. /\ outstanding' = outstanding /\ cwd' = cwd /\ file' = file /\ pc' = pc
        /\ call' = call /\ rest' = rest /\ at' = at /\ dp' = dp /\ ip' = ip /\ puts' = puts
    BY <1>7, Zenon DEF opvars
  <2> QED
    BY <1>3, <2>1, <2>2, StaysKeeps, Zenon
<1>8. CASE /\ icache' = iunlock(iunlock(ic, i), d) /\ Leaves(p, <<i, d>>)
           /\ dinode' = dinode /\ dents' = dents
  <2> HIDE DEF ic
  <2>1. Keeps(icache, icache')
    <3>1. Keeps(ic, iunlock(ic, i))
      BY <1>3, <1>4, IunlockKeeps, Zenon DEF Keeps
    <3>2. Keeps(iunlock(ic, i), icache')
      BY <1>3, <1>8, <3>1, IunlockKeeps, Zenon DEF Keeps
    <3> QED
      BY <1>4, <3>1, <3>2, KeepsKeeps, Zenon
  <2>2. DiskTyped'
    BY <1>4, <1>8, Zenon DEF DiskTyped
  <2>3. <<i, d>> \in Seq(Inodes) /\ Len(<<i, d>>) <= 2
    BY <1>3
  <2>4. \A k \in Inodes : Mine(p, k) = Held(cwd[p], file[p], None, None, None, <<i, d>>, k)
    <3> TAKE k \in Inodes
    <3>1. Held(cwd[p], file[p], None, None, None, <<i, d>>, k)
            = One(cwd[p], k) + One(file[p], k) + One(None, k) + One(None, k) + One(None, k)
                + One(i, k) + One(d, k)
      BY HeldTwo
    <3> QED
      BY <1>5, <3>1, OneIs
  <2> QED
    BY <1>3, <1>8, <2>1, <2>2, <2>3, <2>4, LeavesKeeps, Zenon
<1>9. CASE /\ icache' = iunlock(AddLinks(ic, d, t), d) /\ dinode' = iupdate(dinode, icache', d)
           /\ dents' = [dents EXCEPT ![d] = [dents[d] EXCEPT ![name(p)] = 0]]
           /\ dp' = [dp EXCEPT ![p] = None] /\ Goto(p, "unlink3", <<d>>)
           /\ rest' = rest /\ at' = at /\ ip' = ip
  <2> HIDE DEF ic, t
  <2>1. Keeps(icache, icache')
    <3>1. Keeps(ic, AddLinks(ic, d, t))
      BY <1>3, <1>4, <1>6, AddLinksKeeps, Zenon DEF Keeps
    <3>2. Keeps(AddLinks(ic, d, t), icache')
      BY <1>3, <1>9, <3>1, IunlockKeeps, Zenon DEF Keeps
    <3> QED
      BY <1>4, <3>1, <3>2, KeepsKeeps, Zenon
  <2>2. DiskTyped'
    <3>1. dents[d] \in [Entries -> 0 .. NINODES]
      BY <1>3, <1>4, Zenon DEF DiskTyped
    <3>2. 0 \in 0 .. NINODES
      BY FsConstants
    <3>3. [dents[d] EXCEPT ![name(p)] = 0] \in [Entries -> 0 .. NINODES]
      BY <1>3, <3>1, <3>2
    <3>4. dents' \in [Inodes -> [Entries -> 0 .. NINODES]]
      BY <1>3, <1>4, <1>9, <3>3 DEF DiskTyped
    <3>5. dinode' \in Dinodes
      BY <1>3, <1>4, <1>9, <2>1, IupdateTyped, Zenon DEF DiskTyped, Keeps
    <3> QED
      BY <3>4, <3>5, Zenon DEF DiskTyped
  <2>3. None \in Pointer /\ "unlink3" \in Places /\ <<d>> \in Seq(Inodes)
    BY <1>3 DEF Pointer, Places, IpPlaces
  <2>4. /\ Assigned(at, at', p, None, Pointer) /\ Assigned(dp, dp', p, None, Pointer)
        /\ Assigned(rest, rest', p, rest[p], Seq(Entries)) /\ Assigned(ip, ip', p, i, Pointer)
    BY <1>3, <1>9, <2>3, Typed, Assigns, Unassigned, Zenon
  <2>5. /\ Moves(p, "unlink3", call[p], rest[p], None, None, i, <<d>>, cwd[p], file[p])
        /\ outstanding' = outstanding /\ freeing' \in [Procs -> 0 .. 2]
    BY <1>9, <2>3, <2>4, GotoMoves, Zenon
  <2>6. Fits("unlink3", call[p], rest[p], None, None, i, <<d>>)
    BY <1>3 DEF Fits, AtPlaces, DpPlaces, IpPlaces
  <2>7. \A k \in Inodes : icache'[k].ref + Mine(p, k)
          = icache[k].ref + Held(cwd[p], file[p], None, None, i, <<d>>, k)
    <3> TAKE k \in Inodes
    <3>1. Held(cwd[p], file[p], None, None, i, <<d>>, k)
            = One(cwd[p], k) + One(file[p], k) + One(None, k) + One(None, k) + One(i, k)
                + One(d, k)
      BY HeldOne
    <3>2. icache'[k].ref = icache[k].ref
      BY <2>1, Zenon DEF Keeps
    <3> QED
      BY <1>5, <3>1, <3>2, OneIs
  <2>8. Tallies(p, cwd[p], file[p], None, None, i, <<d>>)
    BY <2>7, Zenon DEF Tallies
  <2> QED
    BY <1>3, <2>1, <2>2, <2>5, <2>6, <2>7, <2>8, InsideKeeps, Zenon DEF Keeps
<1> QED
  BY <1>7, <1>8, <1>9, Zenon DEF unlink2, fsvars

LEMMA Create1Keeps == ASSUME Counting, IInv, NEW p \in Procs, create1(p) PROVE IInv'
<1> DEFINE d == dp[p]
           j == dents[d][name(p)]
<1>1. AtLock(p, "create1")
  BY Zenon DEF create1
<1>2. pc[p] = "create1" /\ puts[p] = <<>>
  BY <1>1, AtLockIs, Zenon
<1>3. /\ at[p] = None /\ d \in Inodes /\ d # None /\ ip[p] = None /\ pc[p] # "user"
      /\ name(p) \in Entries /\ rest[p] # <<>> /\ call[p].op \in Creates
  BY <1>2, HolderIs DEF AtPlaces, DpPlaces, IpPlaces
<1>4. DiskTyped /\ icache \in Caches
  BY Typed, Zenon
<1>5. \A k \in Inodes : Mine(p, k) = One(cwd[p], k) + One(file[p], k) + One(None, k)
                                       + One(d, k) + One(None, k)
  BY <1>2, <1>3, MineIs
<1>6. CASE /\ j # 0 /\ icache' = iget(Read(icache, d), j) /\ ip' = [ip EXCEPT ![p] = j]
           /\ dp' = [dp EXCEPT ![p] = None] /\ Goto(p, "create2", <<d>>)
           /\ dinode' = dinode /\ dents' = dents /\ rest' = rest /\ at' = at
  <2>1. j \in Inodes /\ j # None /\ j \in Pointer
    BY <1>3, <1>6, EntryIs, Zenon
  <2>2. Gains(icache, icache', j)
    <3>1. Keeps(icache, Read(icache, d))
      BY <1>3, <1>4, ReadKeeps, Zenon DEF DiskTyped
    <3>2. Gains(Read(icache, d), icache', j)
      BY <1>6, <2>1, <3>1, IgetGains, Zenon DEF Keeps
    <3> QED
      BY <3>1, <3>2, KeepsGains, Zenon
  <2> HIDE DEF j
  <2>3. "create2" \in Places /\ <<d>> \in Seq(Inodes) /\ None \in Pointer
    BY <1>3 DEF Places, IpPlaces, Pointer
  <2>4. /\ Assigned(at, at', p, None, Pointer) /\ Assigned(dp, dp', p, None, Pointer)
        /\ Assigned(rest, rest', p, rest[p], Seq(Entries)) /\ Assigned(ip, ip', p, j, Pointer)
    BY <1>3, <1>6, <2>1, <2>3, Typed, Assigns, Unassigned, Zenon
  <2>5. /\ Moves(p, "create2", call[p], rest[p], None, None, j, <<d>>, cwd[p], file[p])
        /\ outstanding' = outstanding /\ freeing' \in [Procs -> 0 .. 2]
    BY <1>6, <2>3, <2>4, GotoMoves, Zenon
  <2>6. Fits("create2", call[p], rest[p], None, None, j, <<d>>)
    BY <1>3, <2>1 DEF Fits, AtPlaces, DpPlaces, IpPlaces
  <2>7. \A k \in Inodes : icache'[k].ref + Mine(p, k)
          = icache[k].ref + Held(cwd[p], file[p], None, None, j, <<d>>, k)
    <3> TAKE k \in Inodes
    <3>1. icache'[k].ref = icache[k].ref + One(j, k) /\ icache[k].ref \in Nat
      BY <1>4, <2>2 DEF Gains, Caches
    <3>2. Held(cwd[p], file[p], None, None, j, <<d>>, k)
            = One(cwd[p], k) + One(file[p], k) + One(None, k) + One(None, k) + One(j, k)
                + One(d, k)
      BY HeldOne
    <3> QED
      BY <1>5, <3>1, <3>2, OneIs
  <2>8. DiskTyped'
    BY <1>4, <1>6, Zenon DEF DiskTyped
  <2>9. Tallies(p, cwd[p], file[p], None, None, j, <<d>>)
    BY <2>7, Zenon DEF Tallies
  <2> QED
    BY <1>3, <2>2, <2>5, <2>6, <2>7, <2>8, <2>9, InsideKeeps, Zenon DEF Gains
<1>7. CASE UNCHANGED <<fsvars, icache, outstanding, cwd, file, opvars>>
  <2>1. freeing' \in [Procs -> 0 .. 2] /\ DiskTyped' /\ Keeps(icache, icache')
    BY <1>7, Typed, KeepsItself, Zenon DEF DiskTyped, fsvars, opvars
  <2>2. /\ outstanding' = outstanding /\ cwd' = cwd /\ file' = file /\ pc' = pc
        /\ call' = call /\ rest' = rest /\ at' = at /\ dp' = dp /\ ip' = ip /\ puts' = puts
    BY <1>7, Zenon DEF opvars
  <2> QED
    BY <1>3, <2>1, <2>2, StaysKeeps, Zenon
<1>8. ASSUME NEW i \in FreeInodes,
             dinode' = [dinode EXCEPT ![i] = [type |-> TypeOf(call[p].op), nlink |-> 0]],
             icache' = iget(ilock(icache, d, p), i), ip' = [ip EXCEPT ![p] = i],
             Goto(p, "create3", <<>>), dents' = dents, rest' = rest, at' = at, dp' = dp
      PROVE  IInv'
  <2>1. i \in Inodes /\ i # None /\ i \in Pointer
    BY FsConstants, Zenon DEF FreeInodes, Pointer
  <2>2. Gains(icache, icache', i)
    <3>1. Keeps(icache, ilock(icache, d, p))
      BY <1>3, <1>4, IlockKeeps, Zenon DEF DiskTyped
    <3>2. Gains(ilock(icache, d, p), icache', i)
      BY <1>8, <2>1, <3>1, IgetGains, Zenon DEF Keeps
    <3> QED
      BY <3>1, <3>2, KeepsGains, Zenon
  <2>3. "create3" \in Places /\ <<>> \in Seq(Inodes)
    BY DEF Places, IpPlaces
  <2>4. /\ Assigned(at, at', p, None, Pointer) /\ Assigned(dp, dp', p, d, Pointer)
        /\ Assigned(rest, rest', p, rest[p], Seq(Entries)) /\ Assigned(ip, ip', p, i, Pointer)
    BY <1>3, <1>8, <2>1, Typed, Assigns, Unassigned, Zenon
  <2>5. /\ Moves(p, "create3", call[p], rest[p], None, d, i, <<>>, cwd[p], file[p])
        /\ outstanding' = outstanding /\ freeing' \in [Procs -> 0 .. 2]
    BY <1>8, <2>3, <2>4, GotoMoves, Zenon
  <2>6. Fits("create3", call[p], rest[p], None, d, i, <<>>)
    BY <1>3, <2>1 DEF Fits, AtPlaces, DpPlaces, IpPlaces
  <2>7. \A k \in Inodes : icache'[k].ref + Mine(p, k)
          = icache[k].ref + Held(cwd[p], file[p], None, d, i, <<>>, k)
    <3> TAKE k \in Inodes
    <3>1. icache'[k].ref = icache[k].ref + One(i, k) /\ icache[k].ref \in Nat
      BY <1>4, <2>2 DEF Gains, Caches
    <3>2. Held(cwd[p], file[p], None, d, i, <<>>, k)
            = One(cwd[p], k) + One(file[p], k) + One(None, k) + One(d, k) + One(i, k)
      BY HeldNone
    <3> QED
      BY <1>5, <3>1, <3>2, OneIs
  <2>8. DiskTyped'
    <3> DEFINE t == TypeOf(call[p].op)
    <3>0. t \in Types
      BY <1>3 DEF TypeOf, Types, Creates
    <3> HIDE DEF t
    <3>1. [type |-> t, nlink |-> 0] \in [type : Types, nlink : Int]
      BY <3>0
    <3> USE DEF t
    <3>2. dinode' \in Dinodes
      BY <1>4, <1>8, <2>1, <3>1 DEF DiskTyped, Dinodes
    <3> QED
      BY <1>4, <1>8, <3>2, Zenon DEF DiskTyped
  <2>9. Tallies(p, cwd[p], file[p], None, d, i, <<>>)
    BY <2>7, Zenon DEF Tallies
  <2> QED
    BY <1>3, <2>2, <2>5, <2>6, <2>7, <2>8, <2>9, InsideKeeps, Zenon DEF Gains
<1> QED
  BY <1>6, <1>7, <1>8, Zenon DEF create1, PutsOnFound, fsvars

LEMMA Create2Keeps == ASSUME Counting, IInv, NEW p \in Procs, create2(p) PROVE IInv'
<1> DEFINE i == ip[p]
           ic == ilock(icache, i, p)
<1>1. AtLock(p, "create2")
  BY Zenon DEF create2
<1>2. pc[p] = "create2" /\ puts[p] = <<>>
  BY <1>1, AtLockIs, Zenon
<1>3. at[p] = None /\ dp[p] = None /\ i \in Inodes /\ pc[p] # "user"
  BY <1>2, HolderIs DEF AtPlaces, DpPlaces, IpPlaces
<1>4. Keeps(icache, ic)
  BY <1>3, Typed, IlockKeeps, Zenon DEF DiskTyped
<1>5. CASE Opened(p, ic)
  BY <1>2, <1>4, <1>5, OpenedKeeps, Zenon
<1>6. CASE icache' = iunlock(ic, i) /\ Leaves(p, <<i>>) /\ dinode' = dinode /\ dents' = dents
  <2>1. Keeps(ic, icache')
    BY <1>3, <1>4, <1>6, IunlockKeeps, Zenon DEF Keeps
  <2>2. Keeps(icache, icache')
    BY <1>4, <2>1, KeepsKeeps, Zenon
  <2>3. DiskTyped'
    BY <1>6, Typed, Zenon DEF DiskTyped
  <2> QED
    BY <1>2, <1>3, <1>6, <2>2, <2>3, PutsIp, Zenon
<1> QED
  BY <1>5, <1>6, Zenon DEF create2, fsvars

LEMMA CreatedKeeps == ASSUME Counting, IInv, NEW p \in Procs, created(p) PROVE IInv'
<1> DEFINE i == ip[p]
<1>1. pc[p] = "created" /\ puts[p] = <<>>
  BY Zenon DEF created
<1>2. at[p] = None /\ dp[p] = None /\ i \in Inodes /\ pc[p] # "user"
  BY <1>1, HolderIs DEF AtPlaces, DpPlaces, IpPlaces
<1>3. Keeps(icache, icache)
  BY Typed, KeepsItself, Zenon
<1>4. CASE Opened(p, icache)
  BY <1>1, <1>3, <1>4, OpenedKeeps, Zenon
<1>5. CASE icache' = iunlock(icache, i) /\ Leaves(p, <<i>>) /\ dinode' = dinode
           /\ dents' = dents
  <2>1. Keeps(icache, icache') /\ DiskTyped'
    BY <1>2, <1>5, Typed, IunlockKeeps, Zenon DEF DiskTyped
  <2> QED
    BY <1>1, <1>2, <1>5, <2>1, PutsIp, Zenon
<1> QED
  BY <1>4, <1>5, Zenon DEF created, fsvars

LEMMA Create3Keeps == ASSUME Counting, IInv, NEW p \in Procs, create3(p) PROVE IInv'
<1> DEFINE d == dp[p]
           i == ip[p]
           t == GainsDotDot(call[p].op)
           lc == ilock(icache, i, p)
           ic == AddLinks(AddLinks(lc, i, 1), d, t)
<1>1. /\ AtLock(p, "create3") /\ icache' = iunlock(ic, d)
      /\ dinode' = iupdate(iupdate(dinode, ic, i), ic, d)
      /\ dents' = [dents EXCEPT ![i] = IF call[p].op = "mkdir" THEN Dots(i, d) ELSE @,
                                ![d] = [@ EXCEPT ![name(p)] = i]]
      /\ dp' = [dp EXCEPT ![p] = None] /\ Goto(p, "created", <<d>>)
      /\ rest' = rest /\ at' = at /\ ip' = ip
  BY DEF create3
<1>2. pc[p] = "create3" /\ puts[p] = <<>>
  BY <1>1, AtLockIs, Zenon
<1>3. /\ at[p] = None /\ d \in Inodes /\ i \in Inodes /\ i # None /\ pc[p] # "user"
      /\ name(p) \in Entries /\ call[p].op \in Creates
  BY <1>2, HolderIs DEF AtPlaces, DpPlaces, IpPlaces
<1>4. Keeps(icache, lc) /\ DiskTyped
  BY <1>3, Typed, IlockKeeps, Zenon DEF DiskTyped
<1>5. t \in Int /\ 1 \in Int
  BY DEF GainsDotDot
<1> HIDE DEF lc, t
<1>6. Keeps(lc, AddLinks(lc, i, 1))
  BY <1>3, <1>4, <1>5, AddLinksKeeps, Zenon DEF Keeps
<1>7. Keeps(AddLinks(lc, i, 1), ic)
  BY <1>3, <1>5, <1>6, AddLinksKeeps, Zenon DEF Keeps
<1> HIDE DEF ic
<1>8. Keeps(ic, icache')
  BY <1>1, <1>3, <1>7, IunlockKeeps, Zenon DEF Keeps
<1>9. Keeps(icache, icache')
  BY <1>4, <1>6, <1>7, <1>8 DEF Keeps
<1>10. DiskTyped'
  <2>1. dinode \in Dinodes /\ ic \in Caches
    BY <1>4, <1>7, Zenon DEF DiskTyped, Keeps
  <2>2. dinode' \in Dinodes
    <3> DEFINE di == iupdate(dinode, ic, i)
    <3>1. dinode' = iupdate(di, ic, d)
      BY <1>1, Zenon
    <3>2. di \in Dinodes
      BY <1>3, <2>1, IupdateTyped, Zenon
    <3> HIDE DEF di
    <3>3. iupdate(di, ic, d) \in Dinodes
      BY <1>3, <2>1, <3>2, IupdateTyped, Zenon
    <3> QED
      BY <3>1, <3>3, Zenon
  <2>3. i \in 0 .. NINODES /\ d \in 0 .. NINODES
    BY <1>3, FsConstants DEF Inodes
  <2>4. Dots(i, d) \in [Entries -> 0 .. NINODES]
    <3>1. 0 \in 0 .. NINODES
      BY FsConstants
    <3>2. NoEntries \in [Entries -> 0 .. NINODES]
      BY <3>1, Zenon DEF NoEntries
    <3> QED
      BY <2>3, <3>2, Zenon DEF Dots
  <2>5. dents \in [Inodes -> [Entries -> 0 .. NINODES]]
    BY <1>4, Zenon DEF DiskTyped
  <2>9. dents' \in [Inodes -> [Entries -> 0 .. NINODES]]
    BY <1>1, <1>3, <2>3, <2>4, <2>5
  <2> QED
    BY <2>2, <2>9, Zenon DEF DiskTyped
<1>11. None \in Pointer /\ "created" \in Places /\ <<d>> \in Seq(Inodes)
  BY <1>3 DEF Pointer, Places, IpPlaces
<1>12. /\ Assigned(at, at', p, None, Pointer) /\ Assigned(dp, dp', p, None, Pointer)
       /\ Assigned(rest, rest', p, rest[p], Seq(Entries)) /\ Assigned(ip, ip', p, i, Pointer)
  BY <1>1, <1>3, <1>11, Typed, Assigns, Unassigned, Zenon
<1>13. /\ Moves(p, "created", call[p], rest[p], None, None, i, <<d>>, cwd[p], file[p])
       /\ outstanding' = outstanding /\ freeing' \in [Procs -> 0 .. 2]
  BY <1>1, <1>11, <1>12, GotoMoves, Zenon
<1>14. Fits("created", call[p], rest[p], None, None, i, <<d>>)
  BY <1>3 DEF Fits, AtPlaces, DpPlaces, IpPlaces
<1>15. \A k \in Inodes : icache'[k].ref + Mine(p, k)
         = icache[k].ref + Held(cwd[p], file[p], None, None, i, <<d>>, k)
  <2> TAKE k \in Inodes
  <2>1. Mine(p, k) = One(cwd[p], k) + One(file[p], k) + One(None, k) + One(d, k) + One(i, k)
    BY <1>2, <1>3, MineIs
  <2>2. Held(cwd[p], file[p], None, None, i, <<d>>, k)
          = One(cwd[p], k) + One(file[p], k) + One(None, k) + One(None, k) + One(i, k)
              + One(d, k)
    BY HeldOne
  <2>3. icache'[k].ref = icache[k].ref
    BY <1>9, Zenon DEF Keeps
  <2> HIDE DEF d, i
  <2> QED
    BY <2>1, <2>2, <2>3, OneIs
<1>16. Tallies(p, cwd[p], file[p], None, None, i, <<d>>)
  BY <1>15, Zenon DEF Tallies
<1> QED
  BY <1>3, <1>9, <1>10, <1>13, <1>14, <1>15, <1>16, InsideKeeps, Zenon DEF Keeps

----------------------------------------------------------------------------
(* Starting, and starting again                                            *)

\* The size of no processes and of all of them.
Measured == /\ Cardinality({}) = 0 /\ Cardinality(Procs) \in Nat
            /\ \A S \in SUBSET Procs : Cardinality(S) = 0 => S = {}

\* Every process is in the root directory and holds nothing else.
Fresh(c, f, a, d, x, s) ==
  \A p \in Procs : /\ c[p] = ROOTINO /\ f[p] = None /\ a[p] = None /\ d[p] = None
                   /\ x[p] = None /\ s[p] = <<>>

\* All pointers to i.
Pointed(c, f, a, d, x, s, i) == Refs(c, i) + Refs(f, i) + Refs(a, i) + Refs(d, i) + Refs(x, i)
                                  + Dues(s, 1, i) + Dues(s, 2, i)

LEMMA FreshRefs ==
  ASSUME Measured, NEW i \in Inodes, NEW c, NEW f, NEW a, NEW d, NEW x, NEW s,
         Fresh(c, f, a, d, x, s)
  PROVE  Booted(Cardinality(Procs))[i].ref = Pointed(c, f, a, d, x, s, i)
<1> USE DEF Fresh
<1>1. i # None
  BY FsConstants
<1>2. /\ {p \in Procs : f[p] = i} = {} /\ {p \in Procs : a[p] = i} = {}
      /\ {p \in Procs : d[p] = i} = {} /\ {p \in Procs : x[p] = i} = {}
  BY <1>1
<1>3. \A k \in {1, 2} : {p \in Procs : k <= Len(s[p]) /\ s[p][k] = i} = {}
  OBVIOUS
<1>4. /\ Refs(f, i) = 0 /\ Refs(a, i) = 0 /\ Refs(d, i) = 0 /\ Refs(x, i) = 0
      /\ Dues(s, 1, i) = 0 /\ Dues(s, 2, i) = 0
  BY <1>2, <1>3, Zenon DEF Measured, Refs, Dues
<1>5. CASE i = ROOTINO
  <2>1. {p \in Procs : c[p] = i} = Procs
    BY <1>5
  <2>2. Refs(c, i) = Cardinality(Procs)
    BY <2>1, Zenon DEF Refs
  <2>3. Booted(Cardinality(Procs))[i].ref = Cardinality(Procs)
    BY <1>5 DEF Booted, Uncached
  <2> QED
    BY <1>4, <2>2, <2>3 DEF Measured, Pointed
<1>6. CASE i # ROOTINO
  <2>1. {p \in Procs : c[p] = i} = {}
    BY <1>6
  <2>2. Refs(c, i) = 0
    BY <2>1, Zenon DEF Refs, Measured
  <2>3. Booted(Cardinality(Procs))[i].ref = 0
    BY <1>6 DEF Booted, Uncached
  <2> QED
    BY <1>4, <2>2, <2>3 DEF Pointed
<1> QED
  BY <1>5, <1>6

LEMMA BootedTyped == ASSUME Measured PROVE Booted(Cardinality(Procs)) \in Caches
<1> DEFINE Entry == [ref : Nat, busy : Procs \union {None}, valid : BOOLEAN, type : Types,
                     nlink : Int]
<1>1. Uncached \in Entry
  BY DEF Uncached, Types
<1>2. ASSUME NEW n \in Nat PROVE [Uncached EXCEPT !.ref = n] \in Entry
  BY <1>1
<1> QED
  BY <1>1, <1>2, Zenon DEF Booted, Caches, Measured

\* A crash between transactions finds no call half way.
LEMMA CrashKeeps == ASSUME Measured, IInv, Crash PROVE IInv'
<1>1. /\ outstanding = 0 /\ icache' = Booted(Cardinality(Procs)) /\ outstanding' = outstanding
      /\ cwd' = [p \in Procs |-> ROOTINO] /\ file' = [p \in Procs |-> None]
      /\ dinode' = dinode /\ dents' = dents /\ pc' = pc /\ call' = call /\ rest' = rest
      /\ at' = at /\ dp' = dp /\ ip' = ip /\ puts' = puts /\ freeing' = freeing
  BY Zenon DEF Crash, fsvars, opvars
<1>2. TypeOK'
  <2>1. icache' \in Caches
    BY <1>1, BootedTyped, Zenon
  <2>2. ROOTINO \in Inodes
    BY FsConstants DEF ROOTINO, Inodes
  <2>3. cwd' \in [Procs -> Inodes] /\ file' \in [Procs -> Inodes \union {None}]
    BY <1>1, <2>2
  <2> QED
    BY <1>1, <2>1, <2>3, Zenon DEF IInv, TypeOK
<1>3. ASSUME NEW p \in Procs PROVE Placed(p)'
  <2>1. Placed(p)
    BY Zenon DEF IInv
  <2> QED
    BY <1>1, <2>1, Zenon DEF Placed
<1>4. outstanding' = Cardinality(Inside')
  <2>1. Inside' = Inside /\ outstanding = Cardinality(Inside)
    BY <1>1, Zenon DEF Inside, IInv
  <2> QED
    BY <1>1, <2>1, Zenon
<1>5. RefsExact'
  <2>1. Inside = {}
    <3>1. Cardinality(Inside) = 0 /\ Inside \in SUBSET Procs
      BY <1>1 DEF IInv, Inside
    <3> QED
      BY <3>1, Zenon DEF Measured
  <2>2. \A p \in Procs : pc[p] = "user"
    BY <2>1, Zenon DEF Inside
  <2>3. \A p \in Procs : /\ cwd'[p] = ROOTINO /\ file'[p] = None /\ at'[p] = None
                         /\ dp'[p] = None /\ ip'[p] = None /\ puts'[p] = <<>>
    BY <1>1, <2>2, UserIs
  <2> SUFFICES ASSUME NEW i \in Inodes PROVE icache'[i].ref = Pointers(i)'
    BY Zenon DEF RefsExact
  <2>4. Pointers(i)' = Pointed(cwd', file', at', dp', ip', puts', i)
    BY Zenon DEF Pointers, Pointed, Refs, Dues
  <2>5. Fresh(cwd', file', at', dp', ip', puts')
    BY <2>3, Zenon DEF Fresh
  <2>6. Booted(Cardinality(Procs))[i].ref = Pointed(cwd', file', at', dp', ip', puts', i)
    BY <2>5, FreshRefs, Zenon
  <2> QED
    BY <1>1, <2>4, <2>6, Zenon
<1> QED
  BY <1>2, <1>3, <1>4, <1>5, Zenon DEF IInv

LEMMA InitHolds == ASSUME Measured, Init PROVE IInv
<1> USE DEF Init
<1>1. TypeOK
  <2>1. icache \in Caches
    BY BootedTyped, Zenon
  <2>2. ROOTINO \in Inodes /\ 0 \in 0 .. NINODES /\ ROOTINO \in 0 .. NINODES
    BY FsConstants DEF ROOTINO, Inodes
  <2>3. NoEntries \in [Entries -> 0 .. NINODES]
    BY <2>2, Zenon DEF NoEntries
  <2>4. Dots(ROOTINO, ROOTINO) \in [Entries -> 0 .. NINODES]
    BY <2>2, <2>3, Zenon DEF Dots
  <2>5. dents \in [Inodes -> [Entries -> 0 .. NINODES]]
    BY <2>3, <2>4, Zenon
  <2>6. FreeInode \in [type : Types, nlink : Int]
         /\ [type |-> "dir", nlink |-> 1] \in [type : Types, nlink : Int]
    BY DEF FreeInode, Types
  <2>7. dinode \in Dinodes
    BY <2>6, Zenon DEF Dinodes
  <2>8. cwd \in [Procs -> Inodes] /\ file \in [Procs -> Inodes \union {None}]
    BY <2>2, Zenon
  <2>9. /\ at \in [Procs -> Inodes \union {None}] /\ dp \in [Procs -> Inodes \union {None}]
        /\ ip \in [Procs -> Inodes \union {None}]
    BY Zenon
  <2>10. /\ pc \in [Procs -> Places] /\ freeing \in [Procs -> 0 .. 2] /\ DOMAIN call = Procs
         /\ rest \in [Procs -> Seq(Entries)] /\ puts \in [Procs -> Seq(Inodes)]
    BY DEF Places
  <2> QED
    BY <2>1, <2>5, <2>7, <2>8, <2>9, <2>10, Zenon DEF TypeOK
<1>2. ASSUME NEW p \in Procs PROVE Placed(p)
  <2>1. /\ pc[p] = "user" /\ at[p] = None /\ dp[p] = None /\ ip[p] = None
        /\ puts[p] = <<>>
    BY Zenon
  <2> QED
    BY <2>1 DEF Placed, Fits, AtPlaces, DpPlaces, IpPlaces
<1>3. outstanding = Cardinality(Inside)
  <2>1. Inside = {}
    BY Zenon DEF Inside
  <2> QED
    BY <2>1, Zenon DEF Measured
<1>4. RefsExact
  <2> SUFFICES ASSUME NEW i \in Inodes PROVE icache[i].ref = Pointers(i)
    BY Zenon DEF RefsExact
  <2>1. Pointers(i) = Pointed(cwd, file, at, dp, ip, puts, i)
    BY Zenon DEF Pointers, Pointed, Refs, Dues
  <2>2. \A p \in Procs : /\ cwd[p] = ROOTINO /\ file[p] = None /\ at[p] = None
                         /\ dp[p] = None /\ ip[p] = None /\ puts[p] = <<>>
    BY Zenon
  <2>3. icache = Booted(Cardinality(Procs))
    BY Zenon
  <2> HIDE DEF Init
  <2>4. Fresh(cwd, file, at, dp, ip, puts)
    BY <2>2, Zenon DEF Fresh
  <2>5. Booted(Cardinality(Procs))[i].ref = Pointed(cwd, file, at, dp, ip, puts, i)
    BY <2>4, FreshRefs, Zenon
  <2> QED
    BY <2>1, <2>3, <2>5, Zenon
<1> QED
  BY <1>1, <1>2, <1>3, <1>4, Zenon DEF IInv

----------------------------------------------------------------------------
(* Every step                                                              *)

LEMMA StepsKeep == ASSUME Counting, IInv, NEW p \in Procs, Step(p) PROVE IInv'
<1>1. CASE \E c \in Calls[p] : Begin(p, c)
  BY <1>1, BeginKeeps, Zenon
<1>2. CASE End(p) \/ iput(p) \/ IlockPanics(p)
  BY <1>2, EndKeeps, IputKeeps, IlockPanicsKeeps, Zenon
<1>3. CASE NamexFails(p) \/ NamexStep(p) \/ NamexParent(p) \/ NamexEnds(p)
  BY <1>3, NamexFailsKeeps, NamexStepKeeps, NamexParentKeeps, NamexEndsKeeps, Zenon
<1>4. CASE sys_open(p) \/ sys_chdir(p)
  BY <1>4, SysOpenKeeps, SysChdirKeeps, Zenon
<1>5. CASE link1(p) \/ link2(p) \/ bad(p)
  BY <1>5, Link1Keeps, Link2Keeps, BadKeeps, Zenon
<1>6. CASE unlink1(p) \/ unlink2(p) \/ unlink3(p)
  BY <1>6, Unlink1Keeps, Unlink2Keeps, Unlink3Keeps, Zenon
<1>7. CASE create1(p) \/ create2(p) \/ create3(p) \/ created(p)
  BY <1>7, Create1Keeps, Create2Keeps, Create3Keeps, CreatedKeeps, Zenon
<1> QED
  BY <1>1, <1>2, <1>3, <1>4, <1>5, <1>6, <1>7, Zenon DEF Step

LEMMA NextKeeps == ASSUME Counting, Measured, IInv, [Next]_vars PROVE IInv'
<1>1. CASE UNCHANGED vars
  <2>1. /\ dinode' = dinode /\ dents' = dents /\ icache' = icache /\ cwd' = cwd
        /\ outstanding' = outstanding /\ file' = file /\ pc' = pc /\ call' = call
        /\ rest' = rest /\ at' = at /\ dp' = dp /\ ip' = ip /\ puts' = puts
        /\ freeing' = freeing
    BY <1>1, Zenon DEF vars, fsvars, opvars
  <2>2. TypeOK' /\ \A p \in Procs : Placed(p)'
    BY <2>1, Zenon DEF IInv, TypeOK, Placed
  <2>3. outstanding' = Cardinality(Inside') /\ RefsExact'
    BY <2>1, Zenon DEF IInv, Inside, RefsExact, Pointers
  <2> QED
    BY <2>2, <2>3, Zenon DEF IInv
<1> QED
  BY <1>1, CrashKeeps, StepsKeep, Zenon DEF Next

F == INSTANCE FiniteSetTheorems

\* The library counts as Fs does.
LEMMA SameCount ==
  /\ \A S : F!IsFiniteSet(S) <=> IsFiniteSet(S)
  /\ \A S : F!Cardinality(S) = Cardinality(S)
<1>1. \A S : F!IsFiniteSet(S) <=> IsFiniteSet(S)
  BY DEF F!IsFiniteSet, IsFiniteSet
<1>2. \A S : F!Cardinality(S) = Cardinality(S)
  BY DEF F!Cardinality, Cardinality
<1> QED
  BY <1>1, <1>2, Zenon

LEMMA Sized ==
  ASSUME NEW S \in SUBSET Procs
  PROVE  IsFiniteSet(S) /\ Cardinality(S) \in Nat /\ (Cardinality(S) = 0 <=> S = {})
<1>1. IsFiniteSet(S)
  BY FsConstants, F!FS_Subset, SameCount
<1> QED
  BY <1>1, F!FS_CardinalityType, F!FS_EmptySet, SameCount

LEMMA MeasuredHolds == Measured
<1>1. {} \in SUBSET Procs /\ Procs \in SUBSET Procs
  OBVIOUS
<1> QED
  BY <1>1, Sized, Zenon DEF Measured

LEMMA CountingHolds == Counting
<1> SUFFICES ASSUME NEW S \in SUBSET Procs, NEW T \in SUBSET Procs, NEW p \in Procs,
                    \A q \in Procs \ {p} : q \in S <=> q \in T
             PROVE  /\ Cardinality(S) \in Nat /\ Cardinality(T) \in Nat
                    /\ p \in S => Cardinality(S) >= 1
                    /\ Cardinality(T) + (IF p \in S THEN 1 ELSE 0)
                         = Cardinality(S) + (IF p \in T THEN 1 ELSE 0)
  BY Zenon DEF Counting
<1> DEFINE R == S \ {p}
<1>1. R \in SUBSET Procs /\ R = T \ {p} /\ p \notin R
  OBVIOUS
<1>2. ASSUME NEW X \in {S, T}
      PROVE  Cardinality(X) = Cardinality(R) + (IF p \in X THEN 1 ELSE 0)
  <2>1. CASE p \in X
    <3>1. X = R \union {p}
      BY <1>1, <2>1
    <3>2. IsFiniteSet(R) /\ Cardinality(R) \in Nat
      BY <1>1, Sized, Zenon
    <3>3. Cardinality(R \union {p}) = Cardinality(R) + 1
      BY <1>1, <3>2, F!FS_AddElement, SameCount, Zenon
    <3> QED
      BY <2>1, <3>1, <3>3, Zenon
  <2>2. CASE p \notin X
    <3>1. X = R /\ Cardinality(R) \in Nat
      BY <1>1, <2>2, Sized
    <3> QED
      BY <2>2, <3>1
  <2> QED
    BY <2>1, <2>2
<1>3. Cardinality(R) \in Nat /\ Cardinality(S) \in Nat /\ Cardinality(T) \in Nat
  BY <1>1, Sized, Zenon
<1> HIDE DEF R
<1> QED
  BY <1>2, <1>3

----------------------------------------------------------------------------

\* Everywhere in the life of the machine the calls are where their pointers say.
THEOREM Invariance == Spec => []IInv
<1>1. Init => IInv
  BY InitHolds, MeasuredHolds, Zenon
<1>2. IInv /\ [Next]_vars => IInv'
  BY NextKeeps, MeasuredHolds, CountingHolds, Zenon
<1> QED
  BY <1>1, <1>2, PTL DEF Spec

\* ip->ref is the number of pointers to the inode: the current directories,
\* the open files and the variables of system calls in progress.  Whatever
\* call fails where, and however calls and crashes between transactions
\* interleave, no iput() is forgotten or made twice.
THEOREM ReferencesAreExact == Spec => []RefsExact
<1>1. IInv => RefsExact
  BY Zenon DEF IInv
<1> QED
  BY <1>1, Invariance, PTL
=============================================================================
