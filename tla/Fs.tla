--------------------------------- MODULE Fs ---------------------------------
(***************************************************************************)
(* Inodes, directories and path names: fs.c and the system calls of        *)
(* sysfile.c that use them, by several processes at once.                  *)
(*                                                                         *)
(* State.  dinode and dents are the inodes and the directory contents as   *)
(* the buffer cache holds them; icache is the inode cache, one entry per   *)
(* inode number, its busy field the process that set I_BUSY.  File         *)
(* contents are the business of FileBlocks, the log that of Log: because   *)
(* transactions are atomic and commit when none is outstanding, a crash    *)
(* is a reboot from a state with outstanding = 0.                          *)
(*                                                                         *)
(* Steps.  What a process does between taking inode locks is one step;     *)
(* iput(), which frees an inode without holding icache.lock, is three.     *)
(* puts[p] holds the inodes p has still to iput() before it goes on.       *)
(***************************************************************************)
EXTENDS Integers, Sequences, FiniteSets

CONSTANTS Procs, Names,
          NINODES,          \* inodes 1 .. NINODES
          Calls,            \* what each process may call
          None

ROOTINO == 1
Inodes  == 1 .. NINODES
Entries == Names \cup {".", ".."}
Paths   == [absolute : BOOLEAN, elems : Seq(Entries)]

ASSUME FsConstants ==
  /\ IsFiniteSet(Procs) /\ None \notin Procs
  /\ NINODES \in Nat \ {0} /\ None \notin Inodes
  /\ Names \intersect {".", ".."} = {}
  /\ \A p \in Procs : \A c \in Calls[p] :
       /\ c.op \in {"open", "close", "creat", "mkdir", "mknod", "chdir", "link", "unlink"}
       /\ c.op # "close" => c.path \in Paths
       /\ c.op = "link" => c.new \in Paths

VARIABLES dinode, dents,    \* dents[i][name] = 0: no such entry
          icache,
          outstanding,      \* of the log: transactions begun and not ended
          cwd, file,        \* per process: cwd, and its one open file
          pc, call,
          rest, at,         \* path and ip of namex()
          dp, ip,           \* pointers the call holds
          puts, freeing,    \* iput() under way
          panic,
          stray             \* history: a removed directory was used (see Stray)

fsvars == <<dinode, dents>>
opvars == <<pc, call, rest, at, dp, ip, puts, freeing>>
vars   == <<fsvars, icache, outstanding, cwd, file, opvars, panic, stray>>

NoEntries == [nm \in Entries |-> 0]
Dots(self, parent) == [NoEntries EXCEPT !["."] = self, ![".."] = parent]
FreeInode == [type |-> "free", nlink |-> 0]
Uncached  == [ref |-> 0, busy |-> None, valid |-> FALSE, type |-> "free", nlink |-> 0]

Booted(root_refs) ==
  [i \in Inodes |-> IF i = ROOTINO THEN [Uncached EXCEPT !.ref = root_refs] ELSE Uncached]

\* The image of mkfs has a root directory; every process starts in it.
Init == /\ dinode = [i \in Inodes |-> IF i = ROOTINO THEN [type |-> "dir", nlink |-> 1]
                                      ELSE FreeInode]
        /\ dents = [i \in Inodes |-> IF i = ROOTINO THEN Dots(ROOTINO, ROOTINO)
                                     ELSE NoEntries]
        /\ icache = Booted(Cardinality(Procs))
        /\ outstanding = 0
        /\ cwd = [p \in Procs |-> ROOTINO]
        /\ file = [p \in Procs |-> None]
        /\ pc = [p \in Procs |-> "user"]
        /\ call = [p \in Procs |-> None]
        /\ rest = [p \in Procs |-> <<>>]
        /\ at = [p \in Procs |-> None]
        /\ dp = [p \in Procs |-> None]
        /\ ip = [p \in Procs |-> None]
        /\ puts = [p \in Procs |-> <<>>]
        /\ freeing = [p \in Procs |-> 0]
        /\ panic = None
        /\ stray = FALSE

----------------------------------------------------------------------------
(* The inode cache                                                         *)

\* iget() and idup(): the cache has room, because NINODE is more than the
\* inodes the processes can hold.
iget(ic, i) == [ic EXCEPT ![i] = [@ EXCEPT !.ref = ic[i].ref + 1]]

\* ilock(): the inode is read when it is not valid.
Read(ic, i) == IF ic[i].valid THEN ic
               ELSE [ic EXCEPT ![i] = [@ EXCEPT !.valid = TRUE, !.type = dinode[i].type,
                                                !.nlink = dinode[i].nlink]]

Busy(ic, i, p) == [ic EXCEPT ![i] = [@ EXCEPT !.busy = p]]

ilock(ic, i, p) == Busy(Read(ic, i), i, p)

iunlock(ic, i) == Busy(ic, i, None)

\* ip->nlink += k; iupdate(ip)
AddLinks(ic, i, k) == [ic EXCEPT ![i] = [@ EXCEPT !.nlink = ic[i].nlink + k]]
iupdate(di, ic, i) == [di EXCEPT ![i] = [type |-> ic[i].type, nlink |-> ic[i].nlink]]

\* The inode p is about to ilock(), or None.
Wanted(p) ==
  IF puts[p] # <<>> THEN None
  ELSE CASE pc[p] \in {"namei", "nameiparent"}                        ->
              IF rest[p] # <<>> THEN at[p] ELSE None
         [] pc[p] \in {"unlink1", "create1", "link2"}                 -> dp[p]
         [] pc[p] \in {"unlink2", "create2", "create3", "link1", "bad",
                       "open", "chdir"}                               -> ip[p]
         [] OTHER                                                     -> None

NoType(i) == ~icache[i].valid /\ dinode[i].type = "free"

\* p runs at pc = place, and the inode it locks there is free.
AtLock(p, place) == /\ pc[p] = place /\ Wanted(p) # None
                    /\ icache[Wanted(p)].busy = None /\ ~NoType(Wanted(p))

IlockPanics(p) == /\ Wanted(p) # None
                  /\ icache[Wanted(p)].busy = None /\ NoType(Wanted(p))
                  /\ panic' = "ilock: no type"
                  /\ UNCHANGED <<fsvars, icache, outstanding, cwd, file, opvars, stray>>

\* Mutant: the inode is freed though others refer to it.
LastPutAlways(i) == icache[i].valid /\ icache[i].nlink = 0

LastPut(i) == icache[i].ref = 1 /\ icache[i].valid /\ icache[i].nlink = 0

Unref(i) == [icache EXCEPT ![i] = IF @.ref = 1 THEN Uncached
                                  ELSE [@ EXCEPT !.ref = icache[i].ref - 1]]

\* iput(): a reference less, or first, without icache.lock, itrunc() and the
\* type on disk to 0.
iput(p) ==
  /\ puts[p] # <<>>
  /\ LET i == Head(puts[p]) IN
       \/ /\ freeing[p] = 0 /\ ~LastPut(i)
          /\ icache' = Unref(i)
          /\ puts' = [puts EXCEPT ![p] = Tail(@)]
          /\ UNCHANGED <<fsvars, freeing, panic>>
       \/ /\ freeing[p] = 0 /\ LastPut(i)
          /\ IF icache[i].busy # None
             THEN panic' = "iput busy" /\ UNCHANGED <<icache, freeing>>
             ELSE /\ icache' = Busy(icache, i, p)
                  /\ freeing' = [freeing EXCEPT ![p] = 1]
                  /\ UNCHANGED panic
          /\ UNCHANGED <<fsvars, puts>>
       \/ /\ freeing[p] = 1
          /\ dents' = [dents EXCEPT ![i] = NoEntries]
          /\ dinode' = [dinode EXCEPT ![i] = FreeInode]
          /\ icache' = [icache EXCEPT ![i] = [@ EXCEPT !.type = "free"]]
          /\ freeing' = [freeing EXCEPT ![p] = 2]
          /\ UNCHANGED <<puts, panic>>
       \/ /\ freeing[p] = 2
          /\ icache' = [icache EXCEPT ![i] = [Uncached EXCEPT !.ref = icache[i].ref - 1]]
          /\ freeing' = [freeing EXCEPT ![p] = 0]
          /\ puts' = [puts EXCEPT ![p] = Tail(@)]
          /\ UNCHANGED <<fsvars, panic>>
  /\ UNCHANGED <<outstanding, cwd, file, pc, call, rest, at, dp, ip, stray>>

\* Where the call goes on, after the inodes to iput().
Goto(p, place, these) == /\ pc' = [pc EXCEPT ![p] = place]
                         /\ puts' = [puts EXCEPT ![p] = these]
                         /\ UNCHANGED <<outstanding, cwd, file, call, freeing, panic>>

\* The directory d, locked by the caller, was removed: it is no longer in the
\* tree, and its ".." no longer counts as a link to its parent.
Removed(ic, d) == ic[d].nlink = 0

----------------------------------------------------------------------------
(* namex()                                                                 *)

Walking(p) == AtLock(p, "namei") \/ AtLock(p, "nameiparent")

IsLast(p) == pc[p] = "nameiparent" /\ Len(rest[p]) = 1

\* Where a call goes on when namei() or nameiparent() returns 0.
NotFound(p) == IF call[p].op = "link" /\ pc[p] = "nameiparent" THEN "bad" ELSE "end"

\* Not a directory, or no entry of this name.
NamexFails(p) ==
  /\ Walking(p)
  /\ LET i == at[p]
         ic == Read(icache, i) IN
       /\ \/ ic[i].type # "dir"
          \/ ~IsLast(p) /\ dents[i][Head(rest[p])] = 0
       /\ icache' = ic
       /\ Goto(p, NotFound(p), <<i>>)
  /\ at' = [at EXCEPT ![p] = None]
  /\ rest' = [rest EXCEPT ![p] = <<>>]
  /\ UNCHANGED <<fsvars, dp, ip, stray>>

\* dirlookup() of the next element.
NamexStep(p) ==
  /\ Walking(p) /\ ~IsLast(p)
  /\ LET i == at[p]
         ic == Read(icache, i)
         j == dents[i][Head(rest[p])] IN
       /\ ic[i].type = "dir" /\ j # 0
       /\ icache' = iget(ic, j)
       /\ at' = [at EXCEPT ![p] = j]
       /\ Goto(p, pc[p], <<i>>)
       /\ stray' = (stray \/ (Head(rest[p]) = ".." /\ Removed(ic, i)))
  /\ rest' = [rest EXCEPT ![p] = Tail(@)]
  /\ UNCHANGED <<fsvars, dp, ip>>

AfterParent(p) == CASE call[p].op = "unlink" -> "unlink1"
                    [] call[p].op = "link"   -> "link2"
                    [] OTHER                 -> "create1"

\* "Stop one level early."
NamexParent(p) ==
  /\ Walking(p) /\ IsLast(p)
  /\ Read(icache, at[p])[at[p]].type = "dir"
  /\ icache' = Read(icache, at[p])
  /\ dp' = [dp EXCEPT ![p] = at[p]]
  /\ at' = [at EXCEPT ![p] = None]
  /\ Goto(p, AfterParent(p), <<>>)
  /\ UNCHANGED <<fsvars, rest, ip, stray>>

AfterNamei(p) == IF call[p].op = "link" THEN "link1" ELSE call[p].op

\* The path is used up.
NamexEnds(p) ==
  /\ pc[p] \in {"namei", "nameiparent"} /\ puts[p] = <<>> /\ rest[p] = <<>>
  /\ at' = [at EXCEPT ![p] = None]
  /\ IF pc[p] = "namei" THEN Goto(p, AfterNamei(p), <<>>) /\ ip' = [ip EXCEPT ![p] = at[p]]
     ELSE Goto(p, NotFound(p), <<at[p]>>) /\ UNCHANGED ip
  /\ UNCHANGED <<fsvars, icache, rest, dp, stray>>

StartsAt(p, path) == IF path.absolute THEN ROOTINO ELSE cwd[p]

name(p) == Head(rest[p])

\* The call is over but for iput() and end_op().
Leaves(p, these) == /\ Goto(p, "end", these)
                    /\ rest' = [rest EXCEPT ![p] = <<>>]
                    /\ dp' = [dp EXCEPT ![p] = None]
                    /\ ip' = [ip EXCEPT ![p] = None]
                    /\ UNCHANGED at

----------------------------------------------------------------------------
(* System calls                                                            *)

\* begin_op() and the first reference; fileclose() only has an iput().
Begin(p, c) ==
  /\ pc[p] = "user"
  /\ c.op = "close" => file[p] # None
  /\ outstanding' = outstanding + 1
  /\ call' = [call EXCEPT ![p] = c]
  /\ IF c.op = "close"
     THEN /\ puts' = [puts EXCEPT ![p] = <<file[p]>>]
          /\ file' = [file EXCEPT ![p] = None]
          /\ pc' = [pc EXCEPT ![p] = "end"]
          /\ UNCHANGED <<icache, at, rest>>
     ELSE /\ icache' = iget(icache, StartsAt(p, c.path))
          /\ at' = [at EXCEPT ![p] = StartsAt(p, c.path)]
          /\ rest' = [rest EXCEPT ![p] = c.path.elems]
          /\ pc' = [pc EXCEPT ![p] = IF c.op \in {"open", "chdir", "link"} THEN "namei"
                                     ELSE "nameiparent"]
          /\ UNCHANGED <<puts, file>>
  /\ UNCHANGED <<fsvars, cwd, dp, ip, freeing, panic, stray>>

\* end_op(), which commits when no transaction is left.
End(p) == /\ pc[p] = "end" /\ puts[p] = <<>>
          /\ outstanding' = outstanding - 1
          /\ pc' = [pc EXCEPT ![p] = "user"]
          /\ call' = [call EXCEPT ![p] = None]
          /\ UNCHANGED <<fsvars, icache, cwd, file, rest, at, dp, ip, puts, freeing,
                         panic, stray>>

\* The rest of sys_open(), ip locked: the file table or the process may have
\* no room for one more file.
Opened(p, ic) ==
  LET i == ip[p] IN
    /\ icache' = iunlock(ic, i)
    /\ IF file[p] # None \/ (ic[i].type = "dir" /\ call[p].op = "open" /\ call[p].write)
       THEN Leaves(p, <<i>>)
       ELSE /\ file' = [file EXCEPT ![p] = i]
            /\ ip' = [ip EXCEPT ![p] = None]
            /\ dp' = [dp EXCEPT ![p] = None]
            /\ pc' = [pc EXCEPT ![p] = "end"]
            /\ rest' = [rest EXCEPT ![p] = <<>>]
            /\ UNCHANGED <<outstanding, cwd, call, at, puts, freeing, panic>>
    /\ UNCHANGED <<fsvars, stray>>

sys_open(p) == AtLock(p, "open") /\ Opened(p, ilock(icache, ip[p], p))

\* sys_chdir(): the old directory is put.
sys_chdir(p) ==
  /\ AtLock(p, "chdir")
  /\ icache' = Read(icache, ip[p])
  /\ IF icache'[ip[p]].type # "dir" THEN Leaves(p, <<ip[p]>>)
     ELSE /\ cwd' = [cwd EXCEPT ![p] = ip[p]]
          /\ puts' = [puts EXCEPT ![p] = <<cwd[p]>>]
          /\ ip' = [ip EXCEPT ![p] = None]
          /\ pc' = [pc EXCEPT ![p] = "end"]
          /\ UNCHANGED <<outstanding, file, call, rest, at, dp, freeing, panic>>
  /\ UNCHANGED <<fsvars, stray>>

----------------------------------------------------------------------------
(* sys_link()                                                              *)

\* Mutant: the link count is not raised before the name is made.
NewLinkNot(ic, i) == ic

NewLink(ic, i) == AddLinks(ic, i, 1)

link1(p) ==
  /\ AtLock(p, "link1")
  /\ LET i == ip[p]
         ic == Read(icache, i) IN
       IF ic[i].type = "dir"
       THEN icache' = ic /\ Leaves(p, <<i>>) /\ UNCHANGED <<fsvars, stray>>
       ELSE /\ icache' = iget(NewLink(ic, i), StartsAt(p, call[p].new))
            /\ dinode' = iupdate(dinode, icache', i)
            /\ at' = [at EXCEPT ![p] = StartsAt(p, call[p].new)]
            /\ rest' = [rest EXCEPT ![p] = call[p].new.elems]
            /\ Goto(p, "nameiparent", <<>>)
            /\ UNCHANGED <<dents, dp, ip, stray>>

\* dirlink(); the reference to an entry already there is taken and put.
link2(p) ==
  /\ AtLock(p, "link2")
  /\ LET d == dp[p] IN
       /\ icache' = Read(icache, d)
       /\ IF dents[d][name(p)] # 0
          THEN /\ Goto(p, "bad", <<d>>)
               /\ dp' = [dp EXCEPT ![p] = None]
               /\ UNCHANGED <<dents, rest, at, ip, stray>>
          ELSE /\ dents' = [dents EXCEPT ![d] = [@ EXCEPT ![name(p)] = ip[p]]]
               /\ stray' = (stray \/ Removed(icache', d))
               /\ Leaves(p, <<d, ip[p]>>)
  /\ UNCHANGED dinode

bad(p) ==
  /\ AtLock(p, "bad")
  /\ icache' = AddLinks(Read(icache, ip[p]), ip[p], -1)
  /\ dinode' = iupdate(dinode, icache', ip[p])
  /\ Leaves(p, <<ip[p]>>)
  /\ UNCHANGED <<dents, stray>>

----------------------------------------------------------------------------
(* sys_unlink()                                                            *)

\* Mutant: "." and ".." can be unlinked.
MayUnlinkDots(nm) == TRUE

MayUnlink(nm) == nm \notin {".", ".."}

unlink1(p) ==
  /\ AtLock(p, "unlink1")
  /\ LET d == dp[p]
         j == dents[d][name(p)] IN
       IF MayUnlink(name(p)) /\ j # 0
       THEN /\ icache' = iget(ilock(icache, d, p), j)
            /\ ip' = [ip EXCEPT ![p] = j]
            /\ Goto(p, "unlink2", <<>>)
            /\ UNCHANGED <<rest, at, dp>>
       ELSE icache' = Read(icache, d) /\ Leaves(p, <<d>>)
  /\ UNCHANGED <<fsvars, stray>>

isdirempty(i) == \A nm \in Names : dents[i][nm] = 0

LosesDotDot(type) == IF type = "dir" THEN -1 ELSE 0

unlink2(p) ==
  /\ AtLock(p, "unlink2")
  /\ LET d == dp[p]
         i == ip[p]
         ic == ilock(icache, i, p) IN
       IF ic[i].nlink < 1
       THEN /\ panic' = "unlink: nlink < 1"
            /\ UNCHANGED <<fsvars, icache, outstanding, cwd, file, opvars>>
       ELSE IF ic[i].type = "dir" /\ ~isdirempty(i)
       THEN /\ icache' = iunlock(iunlock(ic, i), d)
            /\ Leaves(p, <<i, d>>)
            /\ UNCHANGED fsvars
       ELSE /\ icache' = iunlock(AddLinks(ic, d, LosesDotDot(ic[i].type)), d)
            /\ dinode' = iupdate(dinode, icache', d)
            /\ dents' = [dents EXCEPT ![d] = [@ EXCEPT ![name(p)] = 0]]
            /\ dp' = [dp EXCEPT ![p] = None]
            /\ Goto(p, "unlink3", <<d>>)
            /\ UNCHANGED <<rest, at, ip>>
  /\ UNCHANGED stray

\* After iunlockput(dp).
unlink3(p) ==
  /\ pc[p] = "unlink3" /\ puts[p] = <<>>
  /\ icache' = iunlock(AddLinks(icache, ip[p], -1), ip[p])
  /\ dinode' = iupdate(dinode, icache', ip[p])
  /\ Leaves(p, <<ip[p]>>)
  /\ UNCHANGED <<dents, stray>>
----------------------------------------------------------------------------
(* create(), for sys_open() with O_CREATE, sys_mkdir() and sys_mknod()     *)

TypeOf(op) == CASE op = "creat" -> "file" [] op = "mkdir" -> "dir" [] op = "mknod" -> "dev"

FreeInodes == {i \in Inodes : dinode[i].type = "free"}

\* Mutant: the directory is not put when the name exists.
PutsOnFoundNone(d) == <<>>

PutsOnFound(d) == <<d>>

\* Either the name exists, or ialloc() marks the first free inode allocated.
create1(p) ==
  /\ AtLock(p, "create1")
  /\ LET d == dp[p]
         j == dents[d][name(p)] IN
       \/ /\ j # 0
          /\ icache' = iget(Read(icache, d), j)
          /\ ip' = [ip EXCEPT ![p] = j]
          /\ dp' = [dp EXCEPT ![p] = None]
          /\ Goto(p, "create2", PutsOnFound(d))
          /\ UNCHANGED <<fsvars, rest, at>>
       \/ /\ j = 0 /\ FreeInodes = {}
          /\ panic' = "ialloc: no inodes"
          /\ UNCHANGED <<fsvars, icache, outstanding, cwd, file, opvars>>
       \/ /\ j = 0
          /\ \E i \in FreeInodes :
               /\ \A k \in FreeInodes : i <= k
               /\ dinode' = [dinode EXCEPT ![i] = [type |-> TypeOf(call[p].op), nlink |-> 0]]
               /\ icache' = iget(ilock(icache, d, p), i)
               /\ ip' = [ip EXCEPT ![p] = i]
          /\ Goto(p, "create3", <<>>)
          /\ UNCHANGED <<dents, rest, at, dp>>
  /\ UNCHANGED stray

\* The name exists, which is fine for a file to open.
create2(p) ==
  /\ AtLock(p, "create2")
  /\ LET ic == ilock(icache, ip[p], p) IN
       IF call[p].op = "creat" /\ ic[ip[p]].type = "file" THEN Opened(p, ic)
       ELSE /\ icache' = iunlock(ic, ip[p])
            /\ Leaves(p, <<ip[p]>>)
            /\ UNCHANGED <<fsvars, stray>>

GainsDotDot(op) == IF op = "mkdir" THEN 1 ELSE 0

\* The new inode gets its link, a directory its dots, the parent its entry;
\* sys_mkdir() and sys_mknod() put the inode, sys_open() goes on with it.
create3(p) ==
  /\ AtLock(p, "create3")
  /\ LET d == dp[p]
         i == ip[p]
         ic == AddLinks(AddLinks(ilock(icache, i, p), i, 1), d, GainsDotDot(call[p].op)) IN
       /\ icache' = iunlock(ic, d)
       /\ dinode' = iupdate(iupdate(dinode, ic, i), ic, d)
       /\ dents' = [dents EXCEPT ![i] = IF call[p].op = "mkdir" THEN Dots(i, d) ELSE @,
                                 ![d] = [@ EXCEPT ![name(p)] = i]]
       /\ stray' = (stray \/ Removed(icache, d))
       /\ dp' = [dp EXCEPT ![p] = None]
       /\ Goto(p, "created", <<d>>)
  /\ UNCHANGED <<rest, at, ip>>

created(p) ==
  /\ pc[p] = "created" /\ puts[p] = <<>>
  /\ IF call[p].op = "creat" THEN Opened(p, icache)
     ELSE /\ icache' = iunlock(icache, ip[p])
          /\ Leaves(p, <<ip[p]>>)
          /\ UNCHANGED <<fsvars, stray>>

----------------------------------------------------------------------------
\* The machine stops between two transactions and starts again.
Crash == /\ outstanding = 0
         /\ icache' = Booted(Cardinality(Procs))
         /\ cwd' = [p \in Procs |-> ROOTINO]
         /\ file' = [p \in Procs |-> None]
         /\ UNCHANGED <<fsvars, outstanding, opvars, panic, stray>>

Step(p) == \/ \E c \in Calls[p] : Begin(p, c)
           \/ End(p) \/ iput(p) \/ IlockPanics(p)
           \/ NamexFails(p) \/ NamexStep(p) \/ NamexParent(p) \/ NamexEnds(p)
           \/ sys_open(p) \/ sys_chdir(p)
           \/ link1(p) \/ link2(p) \/ bad(p)
           \/ unlink1(p) \/ unlink2(p) \/ unlink3(p)
           \/ create1(p) \/ create2(p) \/ create3(p) \/ created(p)

Next == panic = None /\ (Crash \/ \E p \in Procs : Step(p))

Spec == Init /\ [][Next]_vars

----------------------------------------------------------------------------
(* Properties                                                              *)

\* The names of inode i: entries, in directories of the tree, that count as
\* links (every entry but ".").
Linked == {d \in Inodes : dinode[d].type = "dir" /\ dinode[d].nlink > 0}
NamesOf(i) == {e \in Linked \X (Entries \ {"."}) : dents[e[1]][e[2]] = i}

\* A name never leads to a free inode, not even between two steps of a call,
\* and never to one whose link count would let it be freed.
NamesAlive ==
  \A d \in Linked, nm \in Names :
    LET i == dents[d][nm] IN i # 0 => dinode[i].type # "free" /\ dinode[i].nlink >= 1

\* Between transactions, which is what a crash leaves, every link count is the
\* number of names.  Entries made in a removed directory are the exception.
LinkCountsExact ==
  outstanding = 0 /\ ~stray => \A i \in Inodes : dinode[i].nlink = Cardinality(NamesOf(i))

\* ip->ref counts the pointers to the inode: current directories, open files
\* and the variables of calls.  No path through a call, failing ones included,
\* forgets an iput() or makes one too many.
Pointers(i) ==
  LET Holds(f) == Cardinality({p \in Procs : f[p] = i})
      Due(k) == Cardinality({p \in Procs : k <= Len(puts[p]) /\ puts[p][k] = i}) IN
    Holds(cwd) + Holds(file) + Holds(at) + Holds(dp) + Holds(ip) + Due(1) + Due(2)

RefsExact == \A i \in Inodes : icache[i].ref = Pointers(i)

\* No interleaving of calls makes the kernel panic, except that inodes run out,
\* or that ".." of a removed directory leads to its parent removed as well.
NoPanic == panic \in {None, "ialloc: no inodes"} \/ stray

\* Processes holding inodes and waiting for others never wait in a circle, or
\* for themselves.
WaitsFor(p, q) == Wanted(p) # None /\ icache[Wanted(p)].busy = q

NoCircularWait ==
  \A S \in SUBSET Procs \ {{}} : \E p \in S : \A q \in S : ~WaitsFor(p, q)
=============================================================================
