----------------------------- MODULE MCConsole -----------------------------
(***************************************************************************)
(* The console of the instances for TLC, with names that the modules they  *)
(* extend leave free.                                                      *)
(***************************************************************************)
EXTENDS MCPart

CONSTANTS CReaders, CSizes, INPUT_BUF, CWRAP, COLS, ROWS

VARIABLES ring, r, w, e, pos, cpc, cn, got, ckilled

cvars == <<ring, r, w, e, pos, cpc, cn, got, ckilled>>

C == INSTANCE Console WITH Readers <- CReaders, Sizes <- CSizes, WRAP <- CWRAP, buf <- ring,
                           pc <- cpc, n <- cn, killed <- ckilled

ASSUME ConsoleConstants == C!ConsoleConstants

----------------------------------------------------------------------------
(* The properties of Console                                               *)

\* consoleintr() never changes a line that was handed over and is not read yet.
LinesAreKept == C!LinesAreKept

\* consoleintr(), consoleread() and cgaputc(): the indices of the input ring
\* keep their order across the wrap-around, nobody sleeps while there is input,
\* and the cursor is on the screen.
ConsoleInOrder ==
  part = "console" => C!RingInOrder /\ C!NoSleepOverInput /\ C!CursorOnScreen

\* A ^D ends exactly one read() with nothing.
EOFIsOneEmptyRead == C!EOFIsOneEmptyRead
=============================================================================
