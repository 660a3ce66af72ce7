----------------------------- MODULE ByteStream -----------------------------
(***************************************************************************)
(* What a pipe promises: a first-in first-out stream of bytes that holds   *)
(* at most Capacity of them, with a reading and a writing end.             *)
(***************************************************************************)
EXTENDS Naturals, Sequences

CONSTANTS Bytes, Capacity

VARIABLES q,      \* the bytes written and not yet read
          ropen,  \* the reading end is open
          wopen   \* the writing end is open

bsvars == <<q, ropen, wopen>>

BSInit == q = <<>> /\ ropen = TRUE /\ wopen = TRUE

\* Bytes enter only while somebody can write, leave in the order they came.
Put(b) == /\ wopen
          /\ Len(q) < Capacity
          /\ q' = Append(q, b)
          /\ UNCHANGED <<ropen, wopen>>

Get == /\ ropen
       /\ q # <<>>
       /\ q' = Tail(q)
       /\ UNCHANGED <<ropen, wopen>>

CloseRead  == ropen /\ ropen' = FALSE /\ UNCHANGED <<q, wopen>>
CloseWrite == wopen /\ wopen' = FALSE /\ UNCHANGED <<q, ropen>>

BSNext == Get \/ CloseRead \/ CloseWrite \/ \E b \in Bytes : Put(b)

BSSpec == BSInit /\ [][BSNext]_bsvars
=============================================================================
