----------------------------- MODULE FileBlocks -----------------------------
(***************************************************************************)
(* The contents of files in disk blocks: balloc(), bfree(), bmap(),        *)
(* itrunc(), readi() and writei() of fs.c, the transactions into which     *)
(* filewrite() of file.c cuts a write, and the image that mkfs.c makes.    *)
(*                                                                         *)
(* Bytes are small numbers; a block is W of them, or of block numbers.     *)
(* content is a history variable: the bytes each file ought to have.       *)
(* The inode lock makes a chunk of filewrite() and a readi() one step.     *)
(* A computation s = [used, blk, ino, dino, logged, panic, addr] carries   *)
(* the bitmap, the blocks and the inodes in memory and on disk, and        *)
(* collects the blocks log_write() gets.                                   *)
(***************************************************************************)
EXTENDS Integers, Sequences, SequencesExt, FiniteSets

CONSTANTS Procs, Files, ROOT,       \* ROOT \in Files is the root directory
          NBLOCKS, BSIZE, NDIRECT, NINDIRECT, LOGSIZE,
          RootSizes, FileSizes,     \* in bytes, of the image
          WriteSizes,
          None

W       == IF BSIZE > NINDIRECT THEN BSIZE ELSE NINDIRECT
MAXFILE == NDIRECT + NINDIRECT
Blocks  == 1 .. NBLOCKS
Zeroes  == [k \in 0 .. W - 1 |-> 0]
BITMAP  == -1               \* the one bitmap block, and the block of an inode
INODE   == -2
NoInode == [size |-> 0, addrs |-> [k \in 0 .. NDIRECT |-> 0]]

VARIABLES used, blk,        \* the bitmap and the blocks
          ino, dino,        \* the inodes in memory and those on disk
          off,              \* per file: f->off of the one struct file, shared
          rem,              \* per process: bytes still to write, and the file
          panic, content,
          leaked            \* history: blocks of the root directory a reboot lost

vars == <<used, blk, ino, dino, off, rem, panic, content, leaked>>

Start(u, b, i, d) == [used |-> u, blk |-> b, ino |-> i, dino |-> d,
                      logged |-> {}, panic |-> None, addr |-> 0]

----------------------------------------------------------------------------
(* fs.c                                                                    *)

Panic(s, why) == [s EXCEPT !.panic = IF @ = None THEN why ELSE @]
log_write(s, b) == IF Cardinality(s.logged) >= LOGSIZE - 1 THEN Panic(s, "too big a transaction")
                   ELSE [s EXCEPT !.logged = @ \cup {b}]

\* The first free block, zeroed.
balloc(s) ==
  IF s.used = Blocks THEN Panic([s EXCEPT !.addr = 1], "balloc: out of blocks")
  ELSE LET b == CHOOSE x \in Blocks \ s.used : \A y \in Blocks \ s.used : x <= y IN
         log_write(log_write([s EXCEPT !.used = @ \cup {b}, !.blk[b] = Zeroes, !.addr = b],
                             BITMAP), b)

bfree(s, b) == IF b \notin s.used THEN Panic(s, "freeing free block")
               ELSE log_write([s EXCEPT !.used = @ \ {b}], BITMAP)

\* addr becomes the block of bn, allocated if need be.
bmap(s, f, bn) ==
  IF bn < NDIRECT
  THEN IF s.ino[f].addrs[bn] # 0 THEN [s EXCEPT !.addr = s.ino[f].addrs[bn]]
       ELSE LET t == balloc(s) IN [t EXCEPT !.ino[f].addrs[bn] = t.addr]
  ELSE IF bn >= MAXFILE THEN Panic(s, "bmap: out of range")
  ELSE LET s1 == IF s.ino[f].addrs[NDIRECT] # 0 THEN s
                 ELSE LET t == balloc(s) IN [t EXCEPT !.ino[f].addrs[NDIRECT] = t.addr]
           ind == s1.ino[f].addrs[NDIRECT]
           a == s1.blk[ind][bn - NDIRECT] IN
         IF a # 0 THEN [s1 EXCEPT !.addr = a]
         ELSE LET t == balloc(s1) IN
                log_write([t EXCEPT !.blk[ind][bn - NDIRECT] = t.addr], ind)

iupdate(s, f) == log_write([s EXCEPT !.dino[f] = s.ino[f]], INODE)

\* Mutant: the blocks of the indirect block stay.
IndirectBlocksNone(s, ind) == <<>>

IndirectBlocks(s, ind) == SelectSeq([k \in 1 .. NINDIRECT |-> s.blk[ind][k - 1]],
                                    LAMBDA b : b # 0)

itrunc(s, f) ==
  LET ind == s.ino[f].addrs[NDIRECT]
      direct == SelectSeq([k \in 1 .. NDIRECT |-> s.ino[f].addrs[k - 1]], LAMBDA b : b # 0)
      all == IF ind = 0 THEN direct ELSE direct \o IndirectBlocks(s, ind) \o <<ind>> IN
    iupdate([FoldLeft(bfree, s, all) EXCEPT !.ino[f] = NoInode], f)

\* The bytes from off on that fall into one block after the other.
Pieces(o, n) == [k \in 1 .. ((o + n - 1) \div BSIZE) - (o \div BSIZE) + 1 |->
                   (o \div BSIZE) + k - 1]

Rejected(s, f, o, n) == o > s.ino[f].size \/ o + n > MAXFILE * BSIZE

\* writei() of n bytes v.
writei(s, f, o, n, v) ==
  LET Put(t, bn) ==
        LET t1 == bmap(t, f, bn) IN
          log_write([t1 EXCEPT !.blk[t1.addr] =
                       [k \in DOMAIN @ |-> IF k < BSIZE /\ bn * BSIZE + k \in o .. o + n - 1
                                           THEN v ELSE @[k]]], t1.addr)
      s1 == FoldLeft(Put, s, Pieces(o, n)) IN
    IF o + n > s.ino[f].size
    THEN iupdate([s1 EXCEPT !.ino[f].size = o + n], f)
    ELSE s1

\* The block of bn without allocating, 0 for none.
Lookup(s, f, bn) == IF bn < NDIRECT THEN s.ino[f].addrs[bn]
                    ELSE IF s.ino[f].addrs[NDIRECT] = 0 THEN 0
                    ELSE s.blk[s.ino[f].addrs[NDIRECT]][bn - NDIRECT]

Min2(a, b) == IF a < b THEN a ELSE b

\* The bytes readi() returns; bmap() would give an unallocated block zeroes.
readi(s, f, o, n) ==
  [k \in 1 .. Min2(n, s.ino[f].size - o) |->
     LET a == Lookup(s, f, (o + k - 1) \div BSIZE) IN
       IF a = 0 THEN 0 ELSE s.blk[a][(o + k - 1) % BSIZE]]

\* The blocks a file refers to, each as often as it does.
Referenced(s, f) ==
  LET ind == s.ino[f].addrs[NDIRECT]
      direct == [k \in 1 .. NDIRECT + 1 |-> s.ino[f].addrs[k - 1]]
      more == IF ind = 0 THEN <<>> ELSE [k \in 1 .. NINDIRECT |-> s.blk[ind][k - 1]] IN
    SelectSeq(direct \o more, LAMBDA b : b # 0)

Holes(s, f) == {bn \in 0 .. MAXFILE - 1 : bn * BSIZE < s.ino[f].size /\ Lookup(s, f, bn) = 0}

----------------------------------------------------------------------------
(* mkfs.c: blocks are taken one after the other                            *)

\* iappend() of n bytes v, byte by byte; used is 1 .. freeblock - 1.
iappend(s, f, n, v) ==
  LET NewBlock(t) == [t EXCEPT !.used = @ \cup {Cardinality(@) + 1},
                               !.addr = Cardinality(t.used) + 1]
      Direct(t, bn) ==
        IF t.ino[f].addrs[bn] # 0 THEN [t EXCEPT !.addr = t.ino[f].addrs[bn]]
        ELSE LET t1 == NewBlock(t) IN [t1 EXCEPT !.ino[f].addrs[bn] = t1.addr]
      Indirect(t, k) ==
        LET t1 == Direct(t, NDIRECT)
            ind == t1.addr
            t2 == NewBlock(t1) IN
          IF t1.blk[ind][k] # 0 THEN [t1 EXCEPT !.addr = t1.blk[ind][k]]
          ELSE [t2 EXCEPT !.blk[ind][k] = t2.addr]
      Byte(t, o) ==
        LET bn == o \div BSIZE
            t1 == IF bn < NDIRECT THEN Direct(t, bn) ELSE Indirect(t, bn - NDIRECT) IN
          [t1 EXCEPT !.blk[t1.addr][o % BSIZE] = v, !.ino[f].size = o + 1]
      size == s.ino[f].size IN
    FoldLeft(Byte, s, [k \in 1 .. n |-> size + k - 1])

\* "fix size of root inode dir": a full last block is followed by one more,
\* which has no disk block.
RootSize(size) == ((size \div BSIZE) + 1) * BSIZE

\* The root directory gets its dots, then for each file an entry before the
\* file itself.
Image(root, sizes) ==
  LET files == SetToSeq(Files \ {ROOT})
      none == [f \in Files |-> NoInode]
      s0 == Start({}, [b \in Blocks |-> Zeroes], none, none)
      Add(s, f) == iappend(s, f, sizes[f], 1)
      s1 == FoldLeft(Add, iappend(s0, ROOT, 1, 1), files) IN
    [iappend(s1, ROOT, root - 1, 1) EXCEPT !.ino[ROOT].size = RootSize(@)]

----------------------------------------------------------------------------
(* file.c                                                                  *)

Disk == Start(used, blk, ino, dino)
Idle == [file |-> None, n |-> 0, v |-> 0]

Init == \E root \in RootSizes, sizes \in [Files \ {ROOT} -> FileSizes] :
          LET s == Image(root, sizes) IN
            /\ used = s.used /\ blk = s.blk /\ ino = s.ino /\ dino = s.ino
            /\ off = [f \in Files |-> 0]
            /\ rem = [p \in Procs |-> Idle]
            /\ panic = None /\ leaked = {}
            /\ content = [f \in Files |->
                            IF f = ROOT THEN [k \in 1 .. RootSize(root) |->
                                                IF k <= root THEN 1 ELSE 0]
                            ELSE [k \in 1 .. sizes[f] |-> 1]]

\* Mutant: the chunks are twice as long.
MaxBytesDouble == (LOGSIZE - 1 - 1 - 2) * BSIZE

MaxBytes == ((LOGSIZE - 1 - 1 - 2) \div 2) * BSIZE

\* What the disk looks like after a transaction.
Commits(s) == /\ used' = s.used /\ blk' = s.blk /\ ino' = s.ino /\ dino' = s.dino
              /\ panic' = s.panic /\ leaked' = leaked

Written(bytes, o, n, v) ==
  [k \in 1 .. (IF o + n > Len(bytes) THEN o + n ELSE Len(bytes)) |->
     IF k \in o + 1 .. o + n THEN v ELSE bytes[k]]

WriteCall(p, f, n, v) == /\ rem[p] = Idle /\ f # ROOT
                         /\ rem' = [rem EXCEPT ![p] = [file |-> f, n |-> n, v |-> v]]
                         /\ UNCHANGED <<used, blk, ino, dino, off, panic, content, leaked>>

\* A turn of the loop of filewrite(): a transaction of its own.
filewrite(p) ==
  /\ rem[p] # Idle
  /\ LET f == rem[p].file
         n1 == Min2(rem[p].n, MaxBytes)
         left == rem[p].n - n1 IN
       IF Rejected(Disk, f, off[f], n1)
       THEN /\ rem' = [rem EXCEPT ![p] = Idle]
            /\ UNCHANGED <<used, blk, ino, dino, off, panic, content, leaked>>
       ELSE /\ Commits(writei(Disk, f, off[f], n1, rem[p].v))
            /\ content' = [content EXCEPT ![f] = Written(@, off[f], n1, rem[p].v)]
            /\ off' = [off EXCEPT ![f] = @ + n1]
            /\ rem' = [rem EXCEPT ![p] = IF left = 0 THEN Idle ELSE [@ EXCEPT !.n = left]]

\* fileread() is no transaction, so bmap() must not allocate.
fileread(f, n) ==
  /\ off[f] < ino[f].size
  /\ LET r == Len(readi(Disk, f, off[f], n)) IN
       /\ off' = [off EXCEPT ![f] = @ + r]
       /\ panic' = IF \E bn \in Holes(Disk, f) : bn \in ToSet(Pieces(off[f], r))
                   THEN "log_write outside of trans" ELSE None
  /\ UNCHANGED <<used, blk, ino, dino, rem, content, leaked>>

\* The file is opened again, from its beginning.
reopen(f) == /\ \A p \in Procs : rem[p].file # f
             /\ off' = [off EXCEPT ![f] = 0]
             /\ UNCHANGED <<used, blk, ino, dino, rem, panic, content, leaked>>

\* The last iput() of a removed file; the inode is allocated again at once.
remove(f) == /\ f # ROOT
             /\ \A p \in Procs : rem[p].file # f
             /\ Commits(itrunc(Disk, f))
             /\ content' = [content EXCEPT ![f] = <<>>]
             /\ off' = [off EXCEPT ![f] = 0]
             /\ UNCHANGED rem

\* dirlookup() of an absent name reads the whole directory: bmap() allocates
\* what has no block, in memory, and nothing calls iupdate().
dirlookup(s) == FoldLeft(LAMBDA t, bn : bmap(t, ROOT, bn), s, Pieces(0, s.ino[ROOT].size))

\* A system call looks a name up in the root directory, in a transaction.
namei == Commits(dirlookup(Disk)) /\ UNCHANGED <<off, rem, content>>

\* The first empty entry, of one byte, or the end.
EmptyEntry == LET bytes == readi(Disk, ROOT, 0, ino[ROOT].size) IN
                IF 0 \in ToSet(bytes) THEN SelectInSeq(bytes, LAMBDA x : x = 0) - 1
                ELSE Len(bytes)

dirlink(s) == IF Rejected(s, ROOT, EmptyEntry, 1) THEN Panic(s, "dirlink")
              ELSE writei(dirlookup(s), ROOT, EmptyEntry, 1, 2)

\* create() of a file or of a directory, whose ".." counts as a link of ROOT.
create(dir) ==
  /\ Commits(dirlink(IF dir THEN iupdate(dirlookup(Disk), ROOT) ELSE dirlookup(Disk)))
  /\ content' = [content EXCEPT ![ROOT] = Written(@, EmptyEntry, 1, 2)]
  /\ UNCHANGED <<off, rem>>

\* The machine starts again between two transactions and reads the inodes
\* from the disk; the last block of mkfs's root may be gone.
Rebooted == Start(used, blk, dino, dino)

reboot == /\ ino' = dino
          /\ off' = [f \in Files |-> 0]
          /\ rem' = [p \in Procs |-> Idle]
          /\ content' = IF Holes(Rebooted, ROOT) = {} THEN content
                        ELSE [content EXCEPT ![ROOT] = readi(Rebooted, ROOT, 0, dino[ROOT].size)]
          /\ leaked' = leaked \cup (ToSet(Referenced(Disk, ROOT))
                                      \ ToSet(Referenced(Rebooted, ROOT)))
          /\ UNCHANGED <<used, blk, dino, panic>>

Next == /\ panic = None
        /\ \/ \E p \in Procs : \/ \E f \in Files, n \in WriteSizes : WriteCall(p, f, n, 2)
                               \/ filewrite(p)
           \/ \E f \in Files : fileread(f, 1) \/ reopen(f) \/ remove(f)
           \/ namei \/ reboot
           \/ \E dir \in BOOLEAN : create(dir)

Spec == Init /\ [][Next]_vars

----------------------------------------------------------------------------
(* Properties                                                              *)

\* readi() finds the bytes that mkfs or writei() put there, whichever blocks
\* direct, indirect, fresh or reused they went to, and zeroes elsewhere.
ReadsBack == panic = None =>
  \A f \in Files : /\ ino[f].size = Len(content[f])
                   /\ readi(Disk, f, 0, ino[f].size) = content[f]

\* The bitmap has exactly the blocks of files, and no block is in two places,
\* across reboots; but blocks of the root directory may leak, see OnDisk.
BitmapExact == panic = None =>
  LET refs == FoldSet(LAMBDA f, acc : Referenced(Disk, f) \o acc, <<>>, Files) IN
    /\ ToSet(refs) \cup leaked = used
    /\ Len(refs) + Cardinality(leaked) = Cardinality(used)

\* Between transactions an inode on disk is the one in memory: iupdate() was
\* called after the last bmap() that allocated.  Only a root directory that
\* mkfs left with a block too many may have it in memory alone.
OnDisk == panic = None =>
  \A f \in Files : ino[f] = dino[f] \/ (f = ROOT /\ Holes(Rebooted, ROOT) # {})

\* No write or truncation panics: a chunk fits into the log, no free block is
\* freed.  The disk may be full, the root directory may be as long as a file
\* can be, and that of mkfs may have a block too many, which a read outside of
\* a transaction cannot allocate.
NoFilePanic == \/ panic \in {None, "balloc: out of blocks"}
               \/ panic = "dirlink" /\ ino[ROOT].size = MAXFILE * BSIZE
               \/ panic = "log_write outside of trans" /\ Holes(Disk, ROOT) # {}
=============================================================================
