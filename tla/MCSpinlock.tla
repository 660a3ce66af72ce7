----------------------------- MODULE MCSpinlock -----------------------------
(* Instances of Spinlock for TLC.                                          *)
EXTENDS Spinlock, TLC

\* CPUs other than cpu0 are interchangeable.
Sym == Permutations(CPUs \ {cpu0})

\* pushcli() and popcli() nest: ncli counts, and the interrupt flag comes back
\* as it was before the outermost acquire().
InterruptsNest == TypeOK /\ InterruptsRestored
=============================================================================
