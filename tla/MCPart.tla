------------------------------- MODULE MCPart -------------------------------
(* Some instances for TLC hold several components that share no state.     *)

VARIABLE part   \* the one a behaviour is about; the others keep still
=============================================================================
