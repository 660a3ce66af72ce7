------------------------------- MODULE MCPipe -------------------------------
(***************************************************************************)
(* The pipe of the instances for TLC, with names that the modules they     *)
(* extend leave free.                                                      *)
(***************************************************************************)
EXTENDS MCPart, Integers

CONSTANTS Writers, Readers, Bytes, Sizes, PIPESIZE, WRAP, Nobody

VARIABLES data, nread, nwrite, readopen, writeopen, lock, place, len, i, killed,
          fds, freed

pipevars == <<data, nread, nwrite, readopen, writeopen, lock, place, len, i, killed,
              fds, freed>>

P == INSTANCE Pipe WITH pc <- place, n <- len, None <- Nobody

ASSUME PipeConstants == P!PipeConstants

----------------------------------------------------------------------------
(* The safety properties of Pipe                                           *)

\* A pipe of pipe.c implements the stream of ByteStream.
PipeIsStream == P!PipeIsStream

\* The counters of a pipe stay within PIPESIZE of each other, and pipeclose()
\* frees its page only when nobody can use it any more.
PipeIsKept == part = "pipe" => P!PipeIsKept

\* piperead() returns 0 only when all writers are gone.
NoFalseEOF == P!NoFalseEOF
=============================================================================
