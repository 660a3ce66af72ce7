------------------------------ MODULE MCKernel ------------------------------
(***************************************************************************)
(* Instances for TLC of the parts of the kernel whose safety properties    *)
(* are checked one by one: the buffer cache, the console, virtual memory,  *)
(* the blocks of files, pipes, and the draw of the lottery.  They share no *)
(* state; `part' says which of them a behaviour is about, and the          *)
(* variables of the others keep their initial values.                      *)
(***************************************************************************)
EXTENDS Bcache, MCPipe, MCConsole, TLC

CONSTANTS VProcs, initproc, NPAGES, PGSIZE, NPTENTRIES, KTABLES, UPAGES,
          Writer, Files, ROOT, NBLOCKS, BSIZE, NDIRECT, NINDIRECT, LOGSIZE,
          NPROC, LOW, HIGH

\* The blocks of the buffer cache are interchangeable.
Sym == Permutations(Blocknos)

\* Every residue of every possible sum of tickets.
RANDSTATES == 0 .. NPROC * HIGH - 1

\* Arguments of sbrk(): beyond zero, within a page, and several pages.
Deltas == {-7, -1, 1, 4}

\* Programs with a good segment, with more arguments than fit on the stack,
\* and with a second segment that is longer in the file than in memory.
Seg(vaddr, memsz, filesz) == [vaddr |-> vaddr, memsz |-> memsz, filesz |-> filesz]
Programs == {[segs |-> <<Seg(0, 2, 1)>>, args |-> 1],
             [segs |-> <<Seg(0, 2, 2)>>, args |-> 3],
             [segs |-> <<Seg(0, 1, 1), Seg(2, 1, 2)>>, args |-> 1]}

ASSUME LotteryConstants == NPROC \in Nat \ {0, 1} /\ LOW \in Nat \ {0} /\ HIGH \in Nat \ {0}

VARIABLES proc, mem,
          used, blk, ino, dino, off, rem, panic, content, leaked,
          run_p, loop, li, max, rd, range

vvars == <<proc, mem>>
fvars == <<used, blk, ino, dino, off, rem, panic, content, leaked>>
lvars == <<run_p, loop, li, max, rd, range>>

V == INSTANCE Vm WITH Procs <- VProcs
F == INSTANCE FileBlocks WITH Procs <- {Writer}, RootSizes <- {1, 2},
                              FileSizes <- {0, 3}, WriteSizes <- {4}
L == INSTANCE Lottery WITH Null <- None, i <- li

\* The parts with several initial states have one or none while another is
\* looked at.
MCInit ==
  /\ part \in {"bcache", "console", "vm", "files", "pipe", "lottery"}
  /\ C!Init /\ P!Init
  /\ Init /\ (part # "bcache" => mru = CHOOSE s \in Orders : TRUE)
  /\ IF part = "vm" THEN V!Init ELSE proc = None /\ mem = None
  /\ IF part = "files" THEN F!Init
     ELSE /\ used = None /\ blk = None /\ ino = None /\ dino = None /\ off = None
          /\ rem = None /\ panic = None /\ content = None /\ leaked = None
  /\ IF part = "lottery" THEN L!Init
     ELSE /\ run_p = None /\ loop = None /\ li = None /\ max = None
          /\ rd = None /\ range = None

MCNext ==
  /\ \/ part = "bcache"  /\ Next   /\ UNCHANGED <<cvars, vvars, fvars, pipevars, lvars>>
     \/ part = "console" /\ C!Next /\ UNCHANGED <<vars, vvars, fvars, pipevars, lvars>>
     \/ part = "vm"      /\ V!Next /\ UNCHANGED <<vars, cvars, fvars, pipevars, lvars>>
     \/ part = "files"   /\ F!Next /\ UNCHANGED <<vars, cvars, vvars, pipevars, lvars>>
     \/ part = "pipe"    /\ P!Next /\ UNCHANGED <<vars, cvars, vvars, fvars, lvars>>
     \/ part = "lottery" /\ L!Next /\ UNCHANGED <<vars, cvars, vvars, fvars, pipevars>>
  /\ UNCHANGED part

MCSpec == MCInit /\ [][MCNext]_<<part, vars, cvars, vvars, fvars, pipevars, lvars>>

----------------------------------------------------------------------------
(* The properties of virtual memory, files and the lottery; those of the   *)
(* others come from the modules that this one extends                      *)

\* Every page is free, in use or lost exactly once, whatever fails half-way.
EveryPageOnce == part = "vm" => V!EveryPageOnce

\* The pages of a process are those below its size, and copyuvm() and
\* mappages() panic over none of them, but after an ignored failure.
SizeIsMapped == part = "vm" => V!SizeIsMapped /\ V!NoVmPanic

\* A file reads back what writei() was given, through direct and indirect
\* blocks, the bitmap of balloc() and bfree() agrees with the inodes, and
\* iupdate() has written every inode when its transaction ends.
FilesAreKept == part = "files" => F!ReadsBack /\ F!BitmapExact /\ F!OnDisk

\* filewrite() and the calls below it reach no panic.
NoFilePanic == part = "files" => F!NoFilePanic

\* The draw of scheduler() runs over the tickets of all candidates, and the
\* winner holds the ticket that was drawn.
DrawIsFair == part = "lottery" => L!EveryTicketCounts /\ L!WinnerHoldsDraw
=============================================================================
