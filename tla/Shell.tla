------------------------------- MODULE Shell -------------------------------
(***************************************************************************)
(* The shell at work: main(), runcmd() and fork1() of sh.c on top of fork, *)
(* exit, wait, exec, pipe, dup, close, read and write, with init.c as the  *)
(* parent of orphans.                                                      *)
(*                                                                         *)
(* runcmd() has no loops, so a command is the list of system calls that a  *)
(* process makes to run it: Code(cmd).  A process is its list of calls     *)
(* still to make; fork hands the child a list of its own.  Calls that fail *)
(* take the branch the code takes.                                         *)
(***************************************************************************)
EXTENDS FileTable

CONSTANTS init, sh,        \* two of Procs
          Cmds             \* parsed commands the user types

VARIABLES code, parent, state,
          p01              \* per process: p[0] and p[1] of runcmd()

shvars == <<code, parent, state, p01>>
vars   == <<ftvars, shvars>>

----------------------------------------------------------------------------
(* runcmd()                                                                *)

Call(c)     == [call |-> c]
CallFd(c, fd) == [call |-> c, fd |-> fd]
Fork(child) == [call |-> "fork", child |-> child]
Exit        == <<Call("exit")>>

\* Mutant: the shell keeps the write end of the pipe.
ParentClosesOne == <<Call("close_p0")>>

ParentCloses == <<Call("close_p0"), Call("close_p1")>>

RECURSIVE Code(_)
Code(cmd) ==
  CASE cmd.type = "EXEC"  -> <<[call |-> "exec", prog |-> cmd.prog]>> \o Exit
    [] cmd.type = "REDIR" -> <<CallFd("close", cmd.fd), Call("open")>> \o Code(cmd.cmd)
    [] cmd.type = "LIST"  -> <<Fork(Code(cmd.left)), Call("wait")>> \o Code(cmd.right)
    [] cmd.type = "PIPE"  ->
         LET ends == <<Call("close_p0"), Call("close_p1")>> IN
           <<Call("pipe"),
             Fork(<<CallFd("close", 1), Call("dup_p1")>> \o ends \o Code(cmd.left)),
             Fork(<<CallFd("close", 0), Call("dup_p0")>> \o ends \o Code(cmd.right))>>
           \o ParentCloses \o <<Call("wait"), Call("wait")>> \o Exit
    [] cmd.type = "BACK"  -> <<Fork(Code(cmd.cmd))>> \o Exit

\* main() opens the console until it has three descriptors, and then reads a
\* command, forks, and waits, again and again.
Prompt == <<Call("getcmd")>>
Started == <<Call("console")>> \o Prompt

\* The programs, external to the shell: one writes two bytes, cat copies its
\* input; fail cannot be executed.
Program(prog) == CASE prog = "write" -> <<Call("write"), Call("write")>> \o Exit
                   [] prog = "cat"   -> <<Call("read")>> \o Exit
                   [] prog = "fail"  -> <<>>

Init == /\ ftable = [f \in Files |-> IF f = 1 THEN [Console EXCEPT !.ref = 6] ELSE NoFile]
        /\ ofile = [p \in Procs |-> IF p \in {init, sh} THEN StdIO
                                    ELSE [fd \in Fds |-> None]]
        /\ pipes = [k \in Pipes |-> NoPipe]
        /\ closing = [p \in Procs |-> <<>>]
        /\ code = [p \in Procs |-> IF p = sh THEN Started ELSE <<>>]
        /\ parent = [p \in Procs |-> init]
        /\ state = [p \in Procs |-> IF p \in {init, sh} THEN "live" ELSE "unused"]
        /\ p01 = [p \in Procs |-> <<0, 0>>]

----------------------------------------------------------------------------
(* One call of a process                                                   *)

Doing(p, c) == /\ state[p] = "live" /\ code[p] # <<>> /\ closing[p] = <<>>
               /\ Head(code[p]).call = c

Continue(p, rest) == code' = [code EXCEPT ![p] = rest] /\ UNCHANGED <<parent, state, p01>>
Done(p) == Continue(p, Tail(code[p]))

\* The fourth descriptor is closed again; an error ends the loop as well.
OpenConsole ==
  /\ Doing(sh, "console")
  /\ LET fd == First(FreeFds(ofile, sh)) IN
       \/ /\ sys_open(sh, TRUE)
          /\ IF fd >= 3 THEN Continue(sh, <<CallFd("close", fd)>> \o Prompt)
             ELSE UNCHANGED shvars
       \/ sys_open(sh, FALSE) /\ Continue(sh, Prompt)

\* A command, or the end of the input; cd changes no descriptor.
getcmd == /\ Doing(sh, "getcmd")
          /\ \/ \E cmd \in Cmds :
                  Continue(sh, <<Fork(Code(cmd)), Call("wait")>> \o Prompt)
             \/ Continue(sh, Exit)
          /\ UNCHANGED ftvars

Close(p) == \/ Doing(p, "close") /\ sys_close(p, Head(code[p]).fd) /\ Done(p)
            \/ Doing(p, "close_p0") /\ sys_close(p, p01[p][1]) /\ Done(p)
            \/ Doing(p, "close_p1") /\ sys_close(p, p01[p][2]) /\ Done(p)

Dup(p) == \/ Doing(p, "dup_p0") /\ sys_dup(p, p01[p][1]) /\ Done(p)
          \/ Doing(p, "dup_p1") /\ sys_dup(p, p01[p][2]) /\ Done(p)

\* The file may not exist.
Open(p) == /\ Doing(p, "open")
           /\ \/ sys_open(p, TRUE) /\ Done(p)
              \/ sys_open(p, FALSE) /\ Continue(p, Exit)
              \/ Continue(p, Exit) /\ UNCHANGED ftvars

\* pipe(), or panic("pipe").
Pipe(p) == /\ Doing(p, "pipe")
           /\ \/ sys_pipe(p, <<>>) /\ Continue(p, Exit)
              \/ \E a, b \in Fds : /\ sys_pipe(p, <<a, b>>)
                                   /\ p01' = [p01 EXCEPT ![p] = <<a, b>>]
                                   /\ code' = [code EXCEPT ![p] = Tail(@)]
                                   /\ UNCHANGED <<parent, state>>

Slots == {q \in Procs : state[q] = "unused"}

\* fork1(): the child inherits descriptors and variables, or panic("fork").
fork1(p) ==
  /\ Doing(p, "fork")
  /\ \/ \E q \in Slots :
          /\ state' = [state EXCEPT ![q] = "live"]
          /\ parent' = [parent EXCEPT ![q] = p]
          /\ code' = [code EXCEPT ![p] = Tail(@), ![q] = Head(code[p]).child]
          /\ p01' = [p01 EXCEPT ![q] = p01[p]]
          /\ ofile' = [ofile EXCEPT ![q] = ofile[p]]
          /\ ftable' = DupAll(ftable, p)
          /\ UNCHANGED <<pipes, closing>>
     \/ Slots = {} /\ Continue(p, Exit) /\ UNCHANGED ftvars

Exec(p) == /\ Doing(p, "exec")
           /\ Continue(p, IF Program(Head(code[p]).prog) = <<>> THEN Tail(code[p])
                          ELSE Program(Head(code[p]).prog))
           /\ UNCHANGED ftvars

Children(p) == {q \in Procs : parent[q] = p /\ state[q] # "unused"}

Wait(p) ==
  /\ Doing(p, "wait")
  /\ \/ Children(p) = {} /\ Done(p)
     \/ \E q \in Children(p) : /\ state[q] = "zombie"
                               /\ state' = [state EXCEPT ![q] = "unused"]
                               /\ code' = [code EXCEPT ![p] = Tail(@)]
                               /\ parent' = [parent EXCEPT ![q] = init]
                               /\ p01' = [p01 EXCEPT ![q] = <<0, 0>>]
  /\ UNCHANGED ftvars

\* exit() closes the descriptors one by one, then hands the children to init.
ExitCloses(p) == /\ Doing(p, "exit")
                 /\ \E fd \in Fds : /\ ofile[p][fd] # None
                                    /\ \A x \in 0 .. fd - 1 : ofile[p][x] = None
                                    /\ sys_close(p, fd)
                 /\ UNCHANGED shvars

ExitEnds(p) == /\ Doing(p, "exit")
               /\ \A fd \in Fds : ofile[p][fd] = None
               /\ state' = [state EXCEPT ![p] = "zombie"]
               /\ parent' = [q \in Procs |-> IF parent[q] = p THEN init ELSE parent[q]]
               /\ code' = [code EXCEPT ![p] = <<>>]
               /\ UNCHANGED <<p01, ftvars>>

\* init waits for any child, and starts another shell when that was the shell.
InitWaits(q) ==
  /\ state[q] = "zombie" /\ parent[q] = init
  /\ IF q = sh
     THEN /\ state' = [state EXCEPT ![sh] = "live"]
          /\ code' = [code EXCEPT ![sh] = Started]
          /\ ofile' = [ofile EXCEPT ![sh] = StdIO]
          /\ ftable' = DupAll(ftable, init)
          /\ UNCHANGED <<parent, p01, pipes, closing>>
     ELSE /\ state' = [state EXCEPT ![q] = "unused"]
          /\ p01' = [p01 EXCEPT ![q] = <<0, 0>>]
          /\ UNCHANGED <<code, parent, ftvars>>

----------------------------------------------------------------------------
(* read() and write(), as far as they wait for the other end of a pipe     *)

FileOf(p, fd) == IF ofile[p][fd] = None THEN NoFile ELSE ftable[ofile[p][fd]]
IsPipe(p, fd) == FileOf(p, fd).type = "pipe"
PipeOf(p, fd) == FileOf(p, fd).pipe

SetBytes(k, n) == pipes' = [pipes EXCEPT ![k].n = n] /\ UNCHANGED <<ftable, ofile, closing>>

\* A write is done, or fails because nobody reads; the program then exits.
Write(p) ==
  /\ Doing(p, "write")
  /\ \/ ~IsPipe(p, 1) /\ Done(p) /\ UNCHANGED ftvars
     \/ /\ IsPipe(p, 1)
        /\ LET k == PipeOf(p, 1) IN
             \/ pipes[k].n < PIPESIZE /\ SetBytes(k, pipes[k].n + 1) /\ Done(p)
             \/ /\ pipes[k].n = PIPESIZE /\ ~pipes[k].readopen
                /\ Continue(p, Exit) /\ UNCHANGED ftvars

\* A byte read is written, and cat reads again; at the end of file it exits.
Read(p) ==
  /\ Doing(p, "read")
  /\ \/ ~IsPipe(p, 0) /\ Done(p) /\ UNCHANGED ftvars
     \/ /\ IsPipe(p, 0)
        /\ LET k == PipeOf(p, 0) IN
             \/ /\ pipes[k].n > 0
                /\ SetBytes(k, pipes[k].n - 1)
                /\ Continue(p, <<Call("write")>> \o code[p])
             \/ pipes[k].n = 0 /\ ~pipes[k].writeopen /\ Done(p) /\ UNCHANGED ftvars

Step(p) == \/ Close(p) \/ Dup(p) \/ Open(p) \/ Pipe(p) \/ fork1(p) \/ Exec(p) \/ Wait(p)
           \/ ExitCloses(p) \/ ExitEnds(p) \/ InitWaits(p) \/ Write(p) \/ Read(p)
           \/ (pipeclose(p) /\ UNCHANGED shvars)

Next == OpenConsole \/ getcmd \/ \E p \in Procs : Step(p)

Spec == Init /\ [][Next]_vars

\* Every process that can run does; the user types when asked.
Fairness == WF_vars(OpenConsole \/ getcmd) /\ \A p \in Procs : WF_vars(Step(p))

FairSpec == Spec /\ Fairness

----------------------------------------------------------------------------
(* Properties                                                              *)

\* The prompt returns after every command: no pipeline hangs, because nobody
\* but its writers keeps the write end of a pipe open, and nobody but its
\* readers the read end.
PromptReturns == []<>(code[sh] = Prompt)

\* A command leaves nothing behind: at the prompt, when no command runs in the
\* background, the console is the only open file and no pipe is left.
NothingLeftOpen ==
  code[sh] = Prompt /\ (\A p \in Procs \ {init, sh} : state[p] = "unused") =>
    /\ \A f \in Files \ {1} : ftable[f].ref = 0
    /\ \A k \in Pipes : ~pipes[k].live
    /\ ofile[sh] = StdIO
=============================================================================
