--------------------------- MODULE SyscallCount ---------------------------
(***************************************************************************)
(* The system call counter that this kernel adds to xv6: scount of struct  *)
(* proc, incremented by the sys_ functions and returned by sys_count().    *)
(* `made' is a history variable, the calls the process in a slot has made. *)
(*                                                                         *)
(* A counter is touched only by the process that owns it, so a call is one *)
(* step, but for sys_wait(), which counts before it sleeps.  The child of  *)
(* fork() starts in forkret() and trapret() with tf->eax = 0: it never     *)
(* returns through sys_fork(), so the test pidfork == 0 is never true.     *)
(***************************************************************************)
EXTENDS Naturals

CONSTANTS Slots,     \* &ptable.proc[0 .. NPROC-1]
          initproc,  \* the slot of the first process
          NoProc,    \* the null parent
          MAXCALLS   \* bound on the calls a process makes

VARIABLES state, parent, scount, made

vars == <<state, parent, scount, made>>

Init == /\ state = [p \in Slots |-> IF p = initproc THEN "RUNNING" ELSE "UNUSED"]
        /\ parent = [p \in Slots |-> NoProc]
        /\ scount = [p \in Slots |-> 0]
        /\ made = [p \in Slots |-> 0]

\* syscall() on behalf of the process in slot p.
Call(p) == /\ state[p] = "RUNNING" /\ made[p] < MAXCALLS
           /\ made' = [made EXCEPT ![p] = @ + 1]

\* sys_count(), sys_getpid(), sys_read() and all others that only increment,
\* before any test of their arguments.
Counted(p) == /\ Call(p)
              /\ scount' = [scount EXCEPT ![p] = @ + 1]
              /\ UNCHANGED <<state, parent>>

\* sys_dup() has no increment.
sys_dup(p) == Call(p) /\ UNCHANGED <<state, parent, scount>>

\* fork() takes an UNUSED slot np; allocproc() initializes state, pid and the
\* kernel stack.  Without a free slot or a page it returns -1, which counts.
sys_fork(p) ==
  \E np \in {q \in Slots : state[q] = "UNUSED"} :
    /\ state[p] = "RUNNING" /\ made[p] < MAXCALLS
    /\ state' = [state EXCEPT ![np] = "RUNNING"]
    /\ parent' = [parent EXCEPT ![np] = p]
    /\ scount' = [scount EXCEPT ![p] = @ + 1]
    /\ made' = [made EXCEPT ![p] = @ + 1, ![np] = 0]

\* exit(): the children go to init; the counter stays in the slot.
exit(p) == /\ p # initproc
           /\ state' = [state EXCEPT ![p] = "ZOMBIE"]
           /\ parent' = [q \in Slots |-> IF parent[q] = p THEN initproc
                                                          ELSE parent[q]]

sys_exit(p) == /\ Call(p) /\ exit(p)
               /\ scount' = [scount EXCEPT ![p] = @ + 1]

\* trap() ends a killed process without a further call, also one that kill()
\* took out of wait().
KilledExit(p) == /\ state[p] \in {"RUNNING", "SLEEPING"} /\ exit(p)
                 /\ UNCHANGED <<scount, made>>

sys_wait(p) == /\ Call(p)
               /\ scount' = [scount EXCEPT ![p] = @ + 1]
               /\ state' = [state EXCEPT ![p] = "SLEEPING"]
               /\ UNCHANGED parent

\* wait() frees a zombie child, or gives up without children; scount is not reset.
Reap(p) == /\ state[p] = "SLEEPING"
           /\ \E q \in Slots :
                /\ parent[q] = p /\ state[q] = "ZOMBIE"
                /\ state' = [state EXCEPT ![q] = "UNUSED", ![p] = "RUNNING"]
                /\ parent' = [parent EXCEPT ![q] = NoProc]
           /\ UNCHANGED <<scount, made>>

GiveUp(p) == /\ state[p] = "SLEEPING" /\ \A q \in Slots : parent[q] # p
             /\ state' = [state EXCEPT ![p] = "RUNNING"]
             /\ UNCHANGED <<parent, scount, made>>

Next == \E p \in Slots : \/ Counted(p) \/ sys_dup(p) \/ sys_fork(p)
                         \/ sys_exit(p) \/ KilledExit(p)
                         \/ sys_wait(p) \/ Reap(p) \/ GiveUp(p)

Spec == Init /\ [][Next]_vars

----------------------------------------------------------------------------

\* count() returns no more than the calls its own process has made: "num of
\* syscall calls" (proc.h, scount).
CountsOwnCalls ==
  \A p \in Slots : state[p] \in {"RUNNING", "SLEEPING"} => scount[p] <= made[p]
=============================================================================
