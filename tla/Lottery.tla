------------------------------ MODULE Lottery ------------------------------
(***************************************************************************)
(* The drawing of the lottery scheduler, loop by loop: scheduler() adds up *)
(* the tickets of the entries of run_p, draws a number with rand() and     *)
(* walks over the entries again to find the winner.  The rest of           *)
(* scheduler() is in Proc, where any entry may win.                        *)
(***************************************************************************)
EXTENDS Integers, FiniteSets, FiniteSetsExt

CONSTANTS NPROC,
          LOW, HIGH,   \* tickets of a process (10) and of a lot_child (50)
          RANDSTATES,  \* values of randstate after the multiplication
          Null

VARIABLES run_p,   \* the name of the process of an entry, or Null
          loop,    \* "sum", "rand", "walk" or "won"
          i, max, rd, range

vars == <<run_p, loop, i, max, rd, range>>

Entries == 0 .. NPROC - 1

ticket(name) == IF name = "lot_child" THEN HIGH ELSE LOW

\* At least two entries are in use, and the used ones come first.
Candidates == {rp \in [Entries -> {"lot_child", "lot_parent", Null}] :
                 /\ rp[1] # Null
                 /\ \A k \in 1 .. NPROC - 1 : rp[k] # Null => rp[k - 1] # Null}

Init == /\ run_p \in Candidates
        /\ loop = "sum"
        /\ i = 0 /\ max = 0 /\ rd = 0 /\ range = 0

InUse == i < NPROC /\ run_p[i] # Null

AddUp == /\ loop = "sum"
         /\ IF InUse THEN /\ max' = max + ticket(run_p[i])
                          /\ i' = i + 1
                          /\ UNCHANGED loop
                     ELSE loop' = "rand" /\ UNCHANGED <<i, max>>
         /\ UNCHANGED <<run_p, rd, range>>

\* "this rand range is from 1 to max."
rand(randstate, m) == (randstate % m) + 1

Draw == /\ loop = "rand"
        /\ \E randstate \in RANDSTATES : rd' = rand(randstate, max)
        /\ i' = 0
        /\ loop' = "walk"
        /\ UNCHANGED <<run_p, max, range>>

\* Mutant: the walk goes on when the draw is the entry's last ticket.
ShortOf(draw, sum) == draw >= sum

Beyond(draw, sum) == draw > sum

\* "who gets win"
Walk == /\ loop = "walk"
        /\ IF Beyond(rd, range) /\ InUse
           THEN /\ range' = range + ticket(run_p[i])
                /\ i' = i + 1
                /\ UNCHANGED loop
           ELSE /\ i' = i - 1
                /\ loop' = "won"
                /\ UNCHANGED range
        /\ UNCHANGED <<run_p, max, rd>>

\* The next round, with other entries.
Again == /\ loop = "won"
         /\ run_p' \in Candidates
         /\ loop' = "sum"
         /\ i' = 0 /\ max' = 0 /\ rd' = 0 /\ range' = 0

Next == AddUp \/ Draw \/ Walk \/ Again

Spec == Init /\ [][Next]_vars

----------------------------------------------------------------------------
(* Properties                                                              *)

\* The tickets of entries 0 .. k - 1.
Tickets(k) == MapThenSumSet(LAMBDA j : ticket(run_p[j]), 0 .. k - 1)

\* The winner holds the ticket that was drawn: its tickets are those after
\* the ones of the entries before it.  So an entry wins for exactly as many
\* of the max numbers as it has tickets, and i never wraps below 0.
WinnerHoldsDraw ==
  loop = "won" => /\ i \in Entries
                  /\ run_p[i] # Null
                  /\ Tickets(i) < rd /\ rd <= Tickets(i + 1)

\* Whoever has a ticket can be drawn: the numbers run up to the sum of the
\* tickets of all entries in use, the last entry of the array included.
EveryTicketCounts ==
  loop = "rand" => max = Tickets(Cardinality({k \in Entries : run_p[k] # Null}))

=============================================================================
