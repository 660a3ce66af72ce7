--------------------------------- MODULE Vm ---------------------------------
(***************************************************************************)
(* Physical pages and address spaces: kalloc.c, vm.c, growproc() and the   *)
(* memory side of fork(), exec(), exit() and wait().                       *)
(*                                                                         *)
(* An address space has a page directory, KTABLES page tables for the      *)
(* kernel, and a table for every NPTENTRIES user pages; addresses are      *)
(* small, with PGSIZE bytes in a page, but kept as uint (modulo UINT).     *)
(* Calls of different processes only meet in the list of free pages, so a  *)
(* call is one step, from any number of pages left over by the others.     *)
(*                                                                         *)
(* A computation s = [free, pd, lost, hole, panic, ret] carries the free   *)
(* list and the page table it works on; lost collects the pages that the   *)
(* code forgets when kalloc() fails at a place where it does not look, and *)
(* hole tells that a mapping is missing for the same reason.               *)
(***************************************************************************)
EXTENDS Integers, Sequences, SequencesExt, FiniteSets

CONSTANTS Procs, initproc,
          NPAGES,              \* physical pages
          PGSIZE, NPTENTRIES, KTABLES,
          UPAGES,              \* user pages below KERNBASE
          Deltas, Programs,    \* arguments of sbrk() and exec()
          None

KERNBASE == UPAGES * PGSIZE
UINT     == 2 * KERNBASE
VPages   == 0 .. UPAGES - 1
Tables   == 0 .. (UPAGES - 1) \div NPTENTRIES

VARIABLES proc,                \* per process: state, kstack, pd, sz
          mem                  \* free, lost, hole, panic

vars == <<proc, mem>>

PGROUNDUP(sz) == ((sz + PGSIZE - 1) \div PGSIZE) * PGSIZE
PDX(v) == v \div NPTENTRIES
PagesIn(lo, hi) == [k \in 1 .. hi - lo |-> lo + k - 1]    \* lo, ..., hi - 1

NoTable == [dir |-> 0, ktabs |-> <<>>, tabs |-> [t \in Tables |-> 0],
            pte |-> [v \in VPages |-> 0], guard |-> None]

Start(m, pd) == [free |-> m.free, lost |-> m.lost, hole |-> m.hole, panic |-> m.panic,
                 pd |-> pd, ret |-> 0]
Finish(s)    == [free |-> s.free, lost |-> s.lost, hole |-> s.hole, panic |-> s.panic]
Panic(s, why) == [s EXCEPT !.panic = IF @ = None THEN why ELSE @]

----------------------------------------------------------------------------
(* kalloc.c.  Nobody depends on which free page kalloc() returns, so the   *)
(* list is kept in order; a page freed twice would be in it twice.         *)

Out(s) == s.free = <<>>
kalloc(s, n) == [s EXCEPT !.free = SubSeq(@, n + 1, Len(@))]   \* n pages
kfreeAll(s, pages) == [s EXCEPT !.free = SortSeq(pages \o @, <)]
kfree(s, x) == kfreeAll(s, <<x>>)

----------------------------------------------------------------------------
(* vm.c                                                                    *)

\* walkpgdir() without alloc: the page tables of pd reach v.
Reaches(pd, v) == pd.tabs[PDX(v)] # 0

\* mappages() of one page; ret = -1 when there is no page for a page table.
SetPte(s, v, x) == IF s.pd.pte[v] # 0 THEN Panic(s, "remap")
                   ELSE [s EXCEPT !.pd.pte[v] = x, !.ret = 0]
mappages(s, v, x) ==
  IF Reaches(s.pd, v) THEN SetPte(s, v, x)
  ELSE IF Out(s) THEN [s EXCEPT !.ret = -1]
  ELSE SetPte([kalloc(s, 1) EXCEPT !.pd.tabs[PDX(v)] = Head(s.free)], v, x)

\* A page x for v.  When kalloc() fails, ret = -1; when mappages() does, x is
\* forgotten.
KeepsPage(s, x) == IF s.ret = 0 THEN s ELSE [s EXCEPT !.lost = @ \cup {x}]
MapNew(s, v) == IF Out(s) THEN [s EXCEPT !.ret = -1]
                ELSE KeepsPage(mappages(kalloc(s, 1), v, Head(s.free)), Head(s.free))

\* setupkvm(): when it fails, the pages it has are not freed.
setupkvm(s) ==
  LET n == KTABLES + 1 IN
    IF Len(s.free) < n
    THEN [s EXCEPT !.lost = @ \cup ToSet(s.free), !.free = <<>>, !.ret = 0]
    ELSE [kalloc(s, n) EXCEPT !.pd = [NoTable EXCEPT !.dir = s.free[1],
                                                     !.ktabs = SubSeq(s.free, 2, n)],
                              !.ret = s.free[1]]

\* Mutant: the size is rounded down, so the page it ends in goes too.
FirstGoneDown(newsz) == newsz \div PGSIZE

FirstGone(newsz) == PGROUNDUP(newsz) \div PGSIZE

\* deallocuvm(): without a page table for a, the loop goes on NPTENTRIES pages
\* further.
deallocuvm(s, oldsz, newsz) ==
  IF newsz >= oldsz THEN [s EXCEPT !.ret = oldsz]
  ELSE LET end == PGROUNDUP(oldsz) \div PGSIZE
           visited[v \in 0 .. UPAGES + NPTENTRIES] ==
             IF v >= end THEN <<>>
             ELSE IF ~Reaches(s.pd, v) THEN visited[v + NPTENTRIES]
             ELSE <<v>> \o visited[v + 1]
           gone == SelectSeq(visited[FirstGone(newsz)], LAMBDA v : s.pd.pte[v] # 0) IN
         [kfreeAll(s, [k \in DOMAIN gone |-> s.pd.pte[gone[k]]])
           EXCEPT !.pd.pte = [v \in VPages |-> IF v \in ToSet(gone) THEN 0 ELSE s.pd.pte[v]],
                  !.ret = newsz]

FirstNew(oldsz) == PGROUNDUP(oldsz) \div PGSIZE

\* allocuvm(): the result of mappages() is not looked at.
Unlooked(s, newsz) == [s EXCEPT !.hole = @ \/ s.ret = -1, !.ret = newsz]
Undone(s, oldsz, newsz) == IF s.ret = 0 /\ newsz # 0
                           THEN [deallocuvm(s, newsz, oldsz) EXCEPT !.ret = 0] ELSE s
allocuvm(s, oldsz, newsz) ==
  IF newsz >= KERNBASE THEN [s EXCEPT !.ret = 0]
  ELSE IF newsz < oldsz THEN [s EXCEPT !.ret = oldsz]
  ELSE LET Grow(t, v) == IF t.ret = 0 THEN t      \* out of memory
                         ELSE IF Out(t) THEN [t EXCEPT !.ret = 0]
                         ELSE Unlooked(MapNew(t, v), newsz) IN
         Undone(FoldLeft(Grow, [s EXCEPT !.ret = newsz],
                         PagesIn(FirstNew(oldsz), PGROUNDUP(newsz) \div PGSIZE)),
                oldsz, newsz)

TablesFreed(s) == kfreeAll(s, SelectSeq([t \in 1 .. Cardinality(Tables) |-> s.pd.tabs[t - 1]],
                                        LAMBDA x : x # 0) \o s.pd.ktabs)

freevm(s) == [kfree(TablesFreed(deallocuvm(s, KERNBASE, 0)), s.pd.dir) EXCEPT !.pd = NoTable]

\* copyuvm(): freevm() on failure, without the page mappages() had no room for.
CopyPages(s, parent, sz) ==
  LET Copy(t, v) == IF t.ret = -1 THEN t
                    ELSE IF ~Reaches(parent, v) THEN Panic(t, "copyuvm: pte should exist")
                    ELSE IF parent.pte[v] = 0 THEN Panic(t, "copyuvm: page not present")
                    ELSE MapNew(t, v) IN
    FoldLeft(Copy, [s EXCEPT !.pd.guard = parent.guard], PagesIn(0, PGROUNDUP(sz) \div PGSIZE))
FreedIfBad(s) == IF s.ret = -1 THEN [freevm(s) EXCEPT !.ret = 0]
                 ELSE [s EXCEPT !.ret = s.pd.dir]
CopyInto(s, parent, sz) == IF s.ret = 0 THEN s ELSE FreedIfBad(CopyPages(s, parent, sz))
copyuvm(s, parent, sz) == CopyInto(setupkvm(s), parent, sz)

\* loaduvm(): the pages from addr on must be there; readi() may fall short.
loaduvm(s, addr, filesz, short) ==
  LET todo == ToSet(PagesIn(addr \div PGSIZE, PGROUNDUP(addr + filesz) \div PGSIZE)) IN
    IF \E v \in todo : ~Reaches(s.pd, v) THEN Panic(s, "loaduvm: address should exist")
    ELSE [s EXCEPT !.ret = IF short THEN -1 ELSE 0]

clearpteu(s, v) == IF ~Reaches(s.pd, v) THEN Panic(s, "clearpteu") ELSE [s EXCEPT !.pd.guard = v]

\* copyout() of len bytes that end at va; uva2ka() follows a null pointer where
\* there is no page table.
copyout(s, va, len) ==
  LET todo == {v \in VPages : v * PGSIZE < va /\ (v + 1) * PGSIZE > va - len} IN
    IF \E v \in todo : ~Reaches(s.pd, v) THEN Panic(s, "uva2ka")
    ELSE [s EXCEPT !.ret = IF \E v \in todo : s.pd.pte[v] = 0 \/ v = s.pd.guard
                           THEN -1 ELSE 0]

----------------------------------------------------------------------------
(* The processes                                                           *)

Unused == [state |-> "unused", kstack |-> 0, pd |-> NoTable, sz |-> 0]

\* userinit(): one page of code, in a machine with up to NPAGES pages.
Init ==
  \E n \in 5 + KTABLES .. NPAGES :
    LET m == [free |-> [k \in 1 .. n |-> k], lost |-> {}, hole |-> FALSE, panic |-> None] IN
      \E s \in {MapNew(setupkvm(kalloc(Start(m, NoTable), 1)), 0)} :
        /\ proc = [p \in Procs |-> IF p # initproc THEN Unused
                                   ELSE [state |-> "live", kstack |-> 1, pd |-> s.pd,
                                         sz |-> PGSIZE]]
        /\ mem = Finish(s)

Running(p) == proc[p].state = "live" /\ mem.panic = None

\* A process without memory faults at once, and exits.
HasCode(p) == \E v \in VPages : proc[p].pd.pte[v] # 0

\* growproc(): shrinking to nothing counts as an error, and sz stays.
growproc(p, n) ==
  /\ Running(p) /\ HasCode(p) /\ n # 0
  /\ \E s \in {LET s0 == Start(mem, proc[p].pd)
                   newsz == (proc[p].sz + n) % UINT IN
                 IF n > 0 THEN allocuvm(s0, proc[p].sz, newsz)
                 ELSE deallocuvm(s0, proc[p].sz, newsz)} :
       /\ proc' = [proc EXCEPT ![p].pd = s.pd, ![p].sz = IF s.ret = 0 THEN @ ELSE s.ret]
       /\ mem' = Finish(s)

\* Mutant: the kernel stack stays when there is no memory for the child.
StackFreedNot(s, x) == s

StackFreed(s, x) == kfree(s, x)

\* fork(): kernel stack, then address space.
fork(p, np) ==
  /\ Running(p) /\ HasCode(p)
  /\ proc[np].state = "unused" /\ mem.free # <<>>
  /\ \E x \in {Head(mem.free)},
        s \in {copyuvm(kalloc(Start(mem, NoTable), 1), proc[p].pd, proc[p].sz)} :
       IF s.ret = 0 /\ s.panic = None
       THEN mem' = Finish(StackFreed(s, x)) /\ UNCHANGED proc
       ELSE /\ proc' = [proc EXCEPT ![np] = [state |-> "live", kstack |-> x, pd |-> s.pd,
                                             sz |-> proc[p].sz]]
            /\ mem' = Finish(s)

----------------------------------------------------------------------------
(* exec() of a file with a good header.  t = [s, sz, bad] carries the size *)
(* and whether to go to bad.                                               *)

Bad(s) == [s |-> s, sz |-> 0, bad |-> TRUE]
Checked(s, sz) == [s |-> s, sz |-> sz, bad |-> s.ret = -1]

\* The segments of a program, one after the other: allocuvm() and loaduvm().
Read(s, g, short) == IF s.ret = 0 THEN Bad(s)
                     ELSE Checked(loaduvm(s, g.vaddr, g.filesz, short), s.ret)
LoadSegments(s, segs, short) ==
  LET Load(t, g) == IF t.bad THEN t
                    ELSE IF g.memsz < g.filesz THEN Bad(t.s)
                    ELSE Read(allocuvm(t.s, t.sz, g.vaddr + g.memsz), g, short) IN
    FoldLeft(Load, [s |-> s, sz |-> 0, bad |-> FALSE], segs)

\* Two pages, the lower one without access, and the arguments on the upper.
Push(s, args) == IF s.ret = 0 THEN Bad(s)
                 ELSE Checked(copyout(clearpteu(s, (s.ret \div PGSIZE) - 2), s.ret, args), s.ret)
Stack(t, args) == IF t.bad THEN t
                  ELSE Push(allocuvm(t.s, PGROUNDUP(t.sz), PGROUNDUP(t.sz) + 2 * PGSIZE), args)

FreedAtBad(t) == IF t.bad THEN [t EXCEPT !.s = freevm(@)] ELSE t
Image(s, prog, short) ==
  IF s.ret = 0 THEN Bad(s)
  ELSE FreedAtBad(Stack(LoadSegments(s, prog.segs, short), prog.args))

exec(p, prog, short) ==
  /\ Running(p) /\ HasCode(p)
  /\ \E t \in {Image(setupkvm(Start(mem, NoTable)), prog, short)} :
       IF t.bad THEN mem' = Finish(t.s) /\ UNCHANGED proc
       ELSE /\ mem' = Finish(freevm(Start(Finish(t.s), proc[p].pd)))
            /\ proc' = [proc EXCEPT ![p].pd = t.s.pd, ![p].sz = t.sz]

exit(p) == /\ Running(p) /\ p # initproc
           /\ proc' = [proc EXCEPT ![p].state = "zombie"]
           /\ UNCHANGED mem

\* wait() by the parent.
wait(p) == /\ proc[p].state = "zombie" /\ mem.panic = None
           /\ mem' = Finish(freevm(kfree(Start(mem, proc[p].pd), proc[p].kstack)))
           /\ proc' = [proc EXCEPT ![p] = Unused]

Next == \E p \in Procs : \/ \E n \in Deltas : growproc(p, n)
                         \/ \E np \in Procs : fork(p, np)
                         \/ \E prog \in Programs, short \in BOOLEAN : exec(p, prog, short)
                         \/ exit(p) \/ wait(p)

Spec == Init /\ [][Next]_vars

----------------------------------------------------------------------------
(* Properties                                                              *)

\* The pages of a process, each as often as it is used.
PagesOf(p) == LET pd == proc[p].pd IN
                SelectSeq(<<proc[p].kstack, pd.dir>> \o pd.ktabs
                          \o [t \in 1 .. Cardinality(Tables) |-> pd.tabs[t - 1]]
                          \o [v \in 1 .. UPAGES |-> pd.pte[v - 1]], LAMBDA x : x # 0)

\* Every page of the machine is free once, or in one place of one process, or
\* was lost in one of the places that do not free what they have: whatever
\* fails half-way, no page is freed twice, mapped twice or forgotten.
EveryPageOnce ==
  LET used == FoldSet(LAMBDA p, acc : PagesOf(p) \o acc, mem.free, Procs) IN
    /\ Cardinality(ToSet(used)) = Len(used)
    /\ ToSet(used) \cap mem.lost = {}
    /\ ToSet(used) \cup mem.lost = 1 .. Cardinality(ToSet(used) \cup mem.lost)

\* A process has exactly the pages below its size, except where a failure was
\* ignored, and except the process that gave up all its memory.
SizeIsMapped ==
  ~mem.hole => \A p \in Procs : proc[p].state # "unused" /\ HasCode(p) =>
    \A v \in VPages : proc[p].pd.pte[v] # 0 <=> v * PGSIZE < proc[p].sz

\* The panics of vm.c are out of reach, except after an ignored failure of
\* mappages().
NoVmPanic == mem.panic = None \/ mem.hole
=============================================================================
