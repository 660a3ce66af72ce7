------------------------------- MODULE MCProc -------------------------------
(* Instances of Proc for TLC.                                              *)
EXTENDS Proc, TLC

\* CPUs are interchangeable.
Sym == Permutations(CPUs)
=============================================================================
