------------------------------ MODULE Console ------------------------------
(***************************************************************************)
(* The console of console.c: the ring of typed characters with its three   *)
(* indices, edited by consoleintr() and emptied by consoleread(), and the  *)
(* cursor of cgaputc(), which every echoed character moves.                *)
(*                                                                         *)
(* Steps.  A character typed is one step, and so is what consoleread()     *)
(* does under cons.lock, except that kill(), which does not take the lock, *)
(* may fall between the test of proc->killed and sleep().  The indices     *)
(* wrap around like uint, at WRAP.                                         *)
(***************************************************************************)
EXTENDS Integers, Sequences, FiniteSetsExt

CONSTANTS Readers, Sizes,   \* processes in read(), and their n
          INPUT_BUF, WRAP,
          COLS, ROWS        \* the screen: 80 and 25

\* INPUT_BUF is a power of two below 2^32, so the uint indices wrap around at a
\* multiple of it.
ConsoleConstants == /\ INPUT_BUF \in Nat \ {0}
                    /\ WRAP \in Nat /\ INPUT_BUF < WRAP /\ WRAP % INPUT_BUF = 0
                    /\ Sizes \subseteq Nat
                    /\ COLS \in Nat \ {0} /\ ROWS \in Nat \ {0, 1}

Plain == {"x", "\n", "^D"}   \* characters that are stored
Edits == {"^H", "^U"}        \* backspace and kill line

VARIABLES buf, r, w, e,      \* input
          pos,               \* the cursor, column + COLS * row
          pc, n, got,        \* per reader: place, n and target - n of the call
          killed

ring == <<buf, r, w, e, pos>>
vars == <<buf, r, w, e, pos, pc, n, got, killed>>

Init == /\ buf = [i \in 0 .. INPUT_BUF - 1 |-> "x"]
        /\ r = 0 /\ w = 0 /\ e = 0
        /\ pos = 0
        /\ pc = [p \in Readers |-> "user"]
        /\ n = [p \in Readers |-> 0]
        /\ got = [p \in Readers |-> 0]
        /\ killed = [p \in Readers |-> FALSE]

Minus(a, k) == (a + WRAP - k) % WRAP
Plus(a, k)  == (a + k) % WRAP

\* The characters from index a up to b.
Chars(bf, a, b) == [k \in 1 .. Minus(b, a) |-> bf[Plus(a, k - 1) % INPUT_BUF]]

\* Nobody holds cons.lock between two steps but a reader about to sleep.
LockFree == \A p \in Readers : pc[p] # "to_sleep"

----------------------------------------------------------------------------
(* cgaputc()                                                               *)

Scrolled(ps) == IF ps \div COLS >= ROWS - 1 THEN ps - COLS ELSE ps

\* The cursor after a character put, or a newline.
cgaputc(ps, c) == Scrolled(IF c = "\n" THEN ps + COLS - (ps % COLS) ELSE ps + 1)

\* The cursor after k characters BACKSPACE.
Erase(ps, k) == IF ps > k THEN ps - k ELSE 0

----------------------------------------------------------------------------
(* consoleintr()                                                           *)

\* Mutant: one character too many is taken in.
RoomLate == Minus(e, r) <= INPUT_BUF

Room == Minus(e, r) < INPUT_BUF

WakeReaders == [p \in Readers |-> IF pc[p] = "asleep" THEN "reading" ELSE pc[p]]

\* Mutant: a ring full of characters without a newline is not handed over.
EndsLineOnly(c, e1) == c \in {"\n", "^D"}

EndsLine(c, e1) == c \in {"\n", "^D"} \/ e1 = Plus(r, INPUT_BUF)

Type(c) ==
  /\ c \in Plain
  /\ LockFree
  /\ Room
  /\ buf' = [buf EXCEPT ![e % INPUT_BUF] = c]
  /\ e' = Plus(e, 1)
  /\ pos' = cgaputc(pos, c)
  /\ IF EndsLine(c, e') THEN w' = e' /\ pc' = WakeReaders ELSE UNCHANGED <<w, pc>>
  /\ UNCHANGED <<r, n, got, killed>>

\* Backspace takes back one character, kill line those since the newline; a
\* character that was handed over stays.
Edit(c) ==
  /\ c \in Edits
  /\ LockFree
  /\ e # w
  /\ LET line == Chars(buf, w, e)
         keep == Max({0} \union {k \in DOMAIN line : line[k] = "\n"})
         back == IF c = "^H" THEN 1 ELSE Len(line) - keep IN
       e' = Minus(e, back) /\ pos' = Erase(pos, back)
  /\ UNCHANGED <<buf, r, w, pc, n, got, killed>>

\* consolewrite(), one character of it.
Write(c) == /\ LockFree
            /\ pos' = cgaputc(pos, c)
            /\ UNCHANGED <<buf, r, w, e, pc, n, got, killed>>

----------------------------------------------------------------------------
(* consoleread()                                                           *)

ReadCall(p, k) ==
  /\ pc[p] = "user"
  /\ ~killed[p]
  /\ pc' = [pc EXCEPT ![p] = "reading"]
  /\ n' = [n EXCEPT ![p] = k]
  /\ UNCHANGED <<ring, got, killed>>

\* Mutant: ^D is always consumed.
TakesEOFAlways(before) == TRUE

\* "Save ^D for next time, to make sure caller gets a 0-byte result."
TakesEOF(before) == before = 0

Input == Chars(buf, r, w)

\* The loop takes characters up to n, a newline or ^D, or until there are no
\* more; the variables of the call are gone when it returns.
Read(p) ==
  /\ pc[p] = "reading"
  /\ LockFree
  /\ LET stop == Min({Len(Input) + 1} \union
                      {k \in DOMAIN Input : Input[k] \in {"\n", "^D"}})
         left == n[p] - got[p]
         ends == stop <= Len(Input) /\ stop <= left
         eof  == ends /\ Input[stop] = "^D"
         copy == IF eof THEN stop - 1 ELSE IF ends THEN stop
                 ELSE IF left < Len(Input) THEN left ELSE Len(Input)
         skip == IF eof /\ TakesEOF(got[p] + copy) THEN 1 ELSE 0 IN
       /\ r' = Plus(r, copy + skip)
       /\ IF ends \/ copy = left \/ killed[p]
          THEN /\ pc' = [pc EXCEPT ![p] = "user"]
               /\ n' = [n EXCEPT ![p] = 0] /\ got' = [got EXCEPT ![p] = 0]
          ELSE /\ pc' = [pc EXCEPT ![p] = "to_sleep"]
               /\ got' = [got EXCEPT ![p] = @ + copy]
               /\ UNCHANGED n
  /\ UNCHANGED <<buf, w, e, pos, killed>>

\* sleep(&input.r, &cons.lock)
Sleep(p) == /\ pc[p] = "to_sleep"
            /\ pc' = [pc EXCEPT ![p] = "asleep"]
            /\ UNCHANGED <<ring, n, got, killed>>

\* kill() of a process inside the call.
Kill(p) == /\ pc[p] # "user"
           /\ ~killed[p]
           /\ killed' = [killed EXCEPT ![p] = TRUE]
           /\ pc' = [pc EXCEPT ![p] = IF @ = "asleep" THEN "reading" ELSE @]
           /\ UNCHANGED <<ring, n, got>>

Next == \/ \E c \in Plain : Type(c)
        \/ \E c \in Edits : Edit(c)
        \/ \E c \in Plain : Write(c)
        \/ \E p \in Readers : \/ \E k \in Sizes : ReadCall(p, k)
                              \/ Read(p) \/ Sleep(p) \/ Kill(p)

Spec == Init /\ [][Next]_vars

----------------------------------------------------------------------------
(* Properties                                                              *)

IsPrefix(s, t) == Len(s) <= Len(t) /\ s = SubSeq(t, 1, Len(s))

IsSuffix(s, t) == Len(s) <= Len(t) /\ s = SubSeq(t, Len(t) - Len(s) + 1, Len(t))

\* What was handed over to the readers is only ever taken from the front or
\* extended at the back: no later typing, editing or wrapping around of the
\* indices loses, repeats or changes a character.
LinesAreKept ==
  [][IsSuffix(Input', Input) \/ IsPrefix(Input, Input')]_<<buf, r, w, e>>

\* The indices stay in order, at most INPUT_BUF apart, and a full ring has been
\* handed over: otherwise nothing could be typed, edited or read any more.
RingInOrder ==
  /\ Minus(w, r) <= Minus(e, r) /\ Minus(e, r) <= INPUT_BUF
  /\ Minus(e, r) = INPUT_BUF => w = e

\* A reader sleeps only while there is nothing to read.
NoSleepOverInput == LockFree /\ (\E p \in Readers : pc[p] = "asleep") => r = w

\* ^D ends exactly one read, which returns 0: a read takes it alone, as its
\* first character, and then returns.
EOFIsOneEmptyRead ==
  [][LET taken == SubSeq(Input, 1, Minus(r', r)) IN
       "^D" \in Range(taken) =>
         /\ taken = <<"^D">>
         /\ \E p \in Readers : pc[p] = "reading" /\ pc'[p] = "user" /\ got[p] = 0
    ]_vars

\* The cursor stays on the screen, above the last line, so cgaputc() neither
\* panics nor writes behind the screen memory.
CursorOnScreen == pos \in 0 .. COLS * (ROWS - 1) - 1
=============================================================================
