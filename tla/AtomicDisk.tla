----------------------------- MODULE AtomicDisk -----------------------------
(***************************************************************************)
(* What the logging layer of log.c promises to the file system above it.   *)
(*                                                                         *)
(* A file-system operation runs between begin_op() and end_op().  It sees  *)
(* and changes the blocks through `view'.  `stable' is what a crash leaves *)
(* behind.  The stable contents only ever change to the view of a moment   *)
(* at which no operation is in progress, in one step, so a crash can never *)
(* expose half an operation.                                               *)
(***************************************************************************)
CONSTANTS Procs,   \* the processes that run file-system operations
          Home,    \* the disk blocks outside the log area
          Vals     \* contents of a block

VARIABLES view,    \* what bread() shows the operations
          stable,  \* what is found on disk after a crash and a recovery
          open     \* the processes between begin_op() and end_op()

advars == <<view, stable, open>>

ADInit == /\ view \in [Home -> Vals]
          /\ stable = view
          /\ open = {}

Begin(p) == /\ p \notin open
            /\ open' = open \union {p}
            /\ UNCHANGED <<view, stable>>

Update(p, b, v) == /\ p \in open
                   /\ view' = [view EXCEPT ![b] = v]
                   /\ UNCHANGED <<stable, open>>

End(p) == /\ p \in open
          /\ open' = open \ {p}
          /\ UNCHANGED <<view, stable>>

Commit == /\ open = {}
          /\ stable' = view
          /\ UNCHANGED <<view, open>>

Crash == /\ view' = stable
         /\ open' = {}
         /\ UNCHANGED stable

ADNext == \/ \E p \in Procs : Begin(p) \/ End(p)
          \/ \E p \in Procs, b \in Home, v \in Vals : Update(p, b, v)
          \/ Commit
          \/ Crash

ADSpec == ADInit /\ [][ADNext]_advars
=============================================================================
