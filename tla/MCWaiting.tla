----------------------------- MODULE MCWaiting -----------------------------
(***************************************************************************)
(* Who waits is woken: instances for TLC of SleepWakeup, the protocol of   *)
(* sleep() and wakeup(), and of Pipe and Clock, which use it.  They share  *)
(* no state; `part' says which of them a behaviour is about, and the       *)
(* variables of the others keep their initial values.  No symmetry: the    *)
(* run checks liveness.                                                    *)
(***************************************************************************)
EXTENDS SleepWakeup, MCPipe

CONSTANTS Sleepers, Args

\* Arguments of sleep(): a negative one counts as a large uint.
SleepArgs == {-1, 0, 2}

VARIABLES ticks, at, n, ticks0, stop, elapsed

clockvars == <<ticks, at, n, ticks0, stop, elapsed>>

C == INSTANCE Clock WITH pc <- at, killed <- stop

ASSUME ClockConstants == C!ClockConstants

MCInit == /\ part \in {"sleep", "pipe", "clock"}
          /\ Init /\ P!Init /\ C!Init

MCNext == /\ \/ part = "sleep" /\ Next   /\ UNCHANGED <<pipevars, clockvars>>
             \/ part = "pipe"  /\ P!Next /\ UNCHANGED <<vars, clockvars>>
             \/ part = "clock" /\ C!Next /\ UNCHANGED <<vars, pipevars>>
          /\ UNCHANGED part

\* The fairness of FairSpec in SleepWakeup, Pipe and Clock.
MCSpec ==
  /\ MCInit /\ [][MCNext]_<<part, vars, pipevars, clockvars>>
  /\ \A p \in Consumers : WF_vars(part = "sleep" /\ Consume(p))
  /\ \A p \in Producers : WF_vars(part = "sleep" /\ Produce(p))
  /\ \A p \in P!Procs : /\ WF_pipevars(part = "pipe" /\ P!Inside(p))
                        /\ WF_pipevars(part = "pipe" /\ P!Calls(p))
  /\ SF_clockvars(part = "clock" /\ C!Tick)
  /\ \A p \in Sleepers : /\ SF_clockvars(part = "clock" /\ C!Test(p))
                         /\ WF_clockvars(part = "clock" /\ C!Sleep(p))

----------------------------------------------------------------------------
(* The properties of Pipe and Clock that are about waiting                 *)

\* Nobody sleeps in pipewrite() or piperead() over what has already happened,
\* nor in sys_sleep() when its time is over.
NobodyOversleeps == P!NoLostWakeup /\ C!NobodyOversleeps

\* Who sleeps in pipewrite() or piperead() is woken, killed processes included.
PipeSleepersWake == P!SleepersWake

\* sys_sleep() lasts n ticks at least, across the wrap-around of ticks.
NeverReturnsEarly == C!NeverReturnsEarly

\* A killed process leaves sys_sleep().
KilledSleeperReturns == C!KilledSleeperReturns
=============================================================================
