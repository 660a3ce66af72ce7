------------------------------- MODULE MCLog -------------------------------
(***************************************************************************)
(* The log at two sizes for TLC; `part' says which one a behaviour is      *)
(* about, and the variables of the other keep their initial values.  The   *)
(* module's own constants are for "deep": an operation writes two blocks   *)
(* and contents are told apart.  The instance W is for "wide": more home   *)
(* blocks, so that operations queue in begin_op() and none overwrites      *)
(* another's.  No symmetry: the run checks liveness.                       *)
(***************************************************************************)
EXTENDS Log

CONSTANTS WVals, WOPWRITES, WNHOME

VARIABLES part,
          waiting, inCommit, wlh, at, wheld, logged, step, wcache, wdirty,
          wdisk, whead, wmode

wvars == <<waiting, inCommit, wlh, at, wheld, logged, step, wcache, wdirty,
           wdisk, whead, wmode>>

W == INSTANCE Log WITH Vals <- WVals, OPWRITES <- WOPWRITES, NHOME <- WNHOME,
       outstanding <- waiting, committing <- inCommit, lh <- wlh, pc <- at,
       hold <- wheld, wrote <- logged, tail <- step, cache <- wcache,
       dirty <- wdirty, disk <- wdisk, head <- whead, mode <- wmode

MCInit == part \in {"deep", "wide"} /\ Init /\ W!Init

MCNext == /\ \/ part = "deep" /\ Next   /\ UNCHANGED wvars
             \/ part = "wide" /\ W!Next /\ UNCHANGED vars
          /\ UNCHANGED part

\* The fairness of FairSpec in Log.
MCSpec ==
  /\ MCInit /\ [][MCNext]_<<part, vars, wvars>>
  /\ WF_wvars(part = "wide" /\ W!Recover)
  /\ \A p \in Procs :
       /\ WF_wvars(part = "wide" /\ at[p] = "woken" /\ W!BeginOp(p))
       /\ WF_wvars(part = "wide" /\ W!LogWrite(p))
       /\ SF_wvars(part = "wide" /\ W!EndOp(p))
       /\ WF_wvars(part = "wide" /\ W!CommitStep(p))

----------------------------------------------------------------------------
(* The properties of Log about waiting and about room in the log           *)

\* The transaction never outgrows the log area on disk.
LogFitsWide == W!LogFits

\* A process asleep in begin_op() is woken (or the machine reboots).
SleepersWakeWide == W!SleepersWake
=============================================================================
