----------------------------- MODULE FileTable -----------------------------
(***************************************************************************)
(* Open files: the file table of file.c, the descriptors of sysfile.c, and *)
(* the two ends of pipes (pipealloc() and pipeclose() of pipe.c; the       *)
(* transfer of bytes is the business of Pipe).                             *)
(*                                                                         *)
(* fileclose() calls pipeclose() after it released ftable.lock, so the     *)
(* call is a step of its own: closing[p] lists those p has still to do.    *)
(* A struct file keeps its old fields while it is free.                    *)
(***************************************************************************)
EXTENDS Integers, Sequences, FiniteSets

CONSTANTS Procs, NFILE, NOFILE, NPIPES, PIPESIZE, None

Files == 1 .. NFILE
Fds   == 0 .. NOFILE - 1
Pipes == 1 .. NPIPES

VARIABLES ftable, ofile, pipes, closing

ftvars == <<ftable, ofile, pipes, closing>>

NoFile  == [ref |-> 0, type |-> "none", pipe |-> 0, writable |-> FALSE]
Console == [ref |-> 0, type |-> "inode", pipe |-> 0, writable |-> TRUE]
NoPipe  == [live |-> FALSE, readopen |-> FALSE, writeopen |-> FALSE, n |-> 0]
NewPipe == [live |-> TRUE, readopen |-> TRUE, writeopen |-> TRUE, n |-> 0]

StdIO == [fd \in Fds |-> IF fd < 3 THEN 1 ELSE None]    \* 0, 1 and 2 are the console

First(S) == CHOOSE x \in S : \A y \in S : x <= y

----------------------------------------------------------------------------
(* file.c, on a table t                                                    *)

FreeFiles(t) == {f \in Files : t[f].ref = 0}

filealloc(t) == [t EXCEPT ![First(FreeFiles(t))].ref = 1]

filedup(t, f) == [t EXCEPT ![f].ref = @ + 1]

\* Mutant: the type of a closed file stays.
ClosedTypeKept(type) == type

ClosedType(type) == "none"

Closed(t, f) == [t EXCEPT ![f] = IF @.ref > 1 THEN [@ EXCEPT !.ref = @ - 1]
                                 ELSE [@ EXCEPT !.ref = 0, !.type = ClosedType(@)]]

\* The pipe end that goes with the last reference.
PipeEnd(t, f) == IF t[f].ref = 1 /\ t[f].type = "pipe"
                 THEN <<[pipe |-> t[f].pipe, writable |-> t[f].writable]>> ELSE <<>>

fileclose(p, t, f) == /\ ftable' = Closed(t, f)
                      /\ closing' = [closing EXCEPT ![p] = @ \o PipeEnd(t, f)]

----------------------------------------------------------------------------
(* sysfile.c                                                               *)

FreeFds(o, p) == {fd \in Fds : o[p][fd] = None}

fdalloc(o, p, f) == [o EXCEPT ![p][First(FreeFds(o, p))] = f]

\* Each call comes with the descriptor it returns, -1 for an error.
sys_close(p, fd) ==
  /\ closing[p] = <<>>
  /\ IF ofile[p][fd] = None THEN UNCHANGED <<ftable, ofile, closing>>
     ELSE /\ ofile' = [ofile EXCEPT ![p][fd] = None]
          /\ fileclose(p, ftable, ofile[p][fd])
  /\ UNCHANGED pipes

sys_dup(p, fd) ==
  /\ closing[p] = <<>>
  /\ IF ofile[p][fd] = None \/ FreeFds(ofile, p) = {} THEN UNCHANGED <<ftable, ofile>>
     ELSE /\ ofile' = fdalloc(ofile, p, ofile[p][fd])
          /\ ftable' = filedup(ftable, ofile[p][fd])
  /\ UNCHANGED <<pipes, closing>>

\* sys_open() of a file that exists.
sys_open(p, ok) ==
  /\ closing[p] = <<>>
  /\ LET f == First(FreeFiles(ftable))
         t == filealloc(ftable) IN
       IF FreeFiles(ftable) = {} THEN ~ok /\ UNCHANGED <<ftable, ofile, closing>>
       ELSE IF FreeFds(ofile, p) = {} THEN ~ok /\ fileclose(p, t, f) /\ UNCHANGED ofile
       ELSE /\ ok
            /\ ftable' = [t EXCEPT ![f] = [Console EXCEPT !.ref = 1]]
            /\ ofile' = fdalloc(ofile, p, f)
            /\ UNCHANGED closing
  /\ UNCHANGED pipes

\* Both files of a pipe are closed again.
CloseBoth(p, t, f0, f1) ==
  /\ ftable' = Closed(Closed(t, f0), f1)
  /\ closing' = [closing EXCEPT ![p] = PipeEnd(t, f0) \o PipeEnd(t, f1)]

\* sys_pipe() with pipealloc(): fds are the two descriptors, or <<>> when there
\* is no second file, no memory (kalloc() may fail any time), or no descriptor.
sys_pipe(p, fds) ==
  /\ closing[p] = <<>>
  /\ LET none == FreeFiles(ftable) = {}
         f0 == First(FreeFiles(ftable))
         t0 == filealloc(ftable)
         one == FreeFiles(t0) = {}
         f1 == First(FreeFiles(t0))
         t1 == filealloc(t0)
         unused == {k \in Pipes : ~pipes[k].live} IN
       \/ /\ none /\ fds = <<>> /\ UNCHANGED ftvars
       \/ /\ ~none /\ one /\ fds = <<>>
          /\ fileclose(p, t0, f0)
          /\ UNCHANGED <<ofile, pipes>>
       \/ /\ ~none /\ ~one /\ fds = <<>>
          /\ CloseBoth(p, t1, f0, f1)
          /\ UNCHANGED <<ofile, pipes>>
       \/ /\ ~none /\ ~one /\ unused # {}
          /\ LET k == First(unused)
                 t2 == [t1 EXCEPT ![f0] = [ref |-> 1, type |-> "pipe", pipe |-> k,
                                           writable |-> FALSE],
                                  ![f1] = [ref |-> 1, type |-> "pipe", pipe |-> k,
                                           writable |-> TRUE]]
                 o0 == fdalloc(ofile, p, f0) IN
               /\ pipes' = [pipes EXCEPT ![k] = NewPipe]
               /\ IF Cardinality(FreeFds(ofile, p)) < 2
                  THEN fds = <<>> /\ CloseBoth(p, t2, f0, f1) /\ UNCHANGED ofile
                  ELSE /\ fds = <<First(FreeFds(ofile, p)), First(FreeFds(o0, p))>>
                       /\ ofile' = fdalloc(o0, p, f1)
                       /\ ftable' = t2
                       /\ UNCHANGED closing

\* pipeclose(): the second end takes the pipe along.
pipeclose(p) ==
  /\ closing[p] # <<>>
  /\ LET k == Head(closing[p]).pipe
         left == IF Head(closing[p]).writable THEN [pipes[k] EXCEPT !.writeopen = FALSE]
                 ELSE [pipes[k] EXCEPT !.readopen = FALSE] IN
       pipes' = [pipes EXCEPT ![k] = IF left.readopen \/ left.writeopen THEN left ELSE NoPipe]
  /\ closing' = [closing EXCEPT ![p] = Tail(@)]
  /\ UNCHANGED <<ftable, ofile>>

\* fork() copies the descriptors.
DupAll(t, p) == [f \in Files |-> [t[f] EXCEPT !.ref = @ + Cardinality({fd \in Fds : ofile[p][fd] = f})]]

----------------------------------------------------------------------------
(* Properties                                                              *)

\* f->ref is the number of descriptors that refer to f, over all processes.
FileRefsExact ==
  \A f \in Files : ftable[f].ref = Cardinality({<<p, fd>> \in Procs \X Fds : ofile[p][fd] = f})

\* An end of a pipe is open exactly while a file refers to it, or its last file
\* was closed and pipeclose() is still to come; so each end is closed once and
\* a pipe is freed once, after both.
EndsMatchFiles ==
  \A k \in Pipes, w \in BOOLEAN :
    LET open == IF w THEN pipes[k].writeopen ELSE pipes[k].readopen
        files == {f \in Files : ftable[f].ref > 0 /\ ftable[f].type = "pipe"
                                /\ ftable[f].pipe = k /\ ftable[f].writable = w}
        due == {<<p, j>> \in Procs \X (1 .. 2) :
                  j <= Len(closing[p]) /\ closing[p][j] = [pipe |-> k, writable |-> w]} IN
      Cardinality(files) + Cardinality(due) = (IF open THEN 1 ELSE 0)
=============================================================================
