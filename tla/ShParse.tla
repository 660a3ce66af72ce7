------------------------------ MODULE ShParse ------------------------------
(***************************************************************************)
(* The recursive descent parser of sh.c on lines that the user types, one  *)
(* character after the other.  Characters are told apart only as far as    *)
(* the parser does: "a" is any character of a word.                        *)
(*                                                                         *)
(* Positions are those of buf[], from 1; a parsing function takes one and  *)
(* returns the command and the position it stopped at.  panic() exits:     *)
(* position 0 stands for that, and nothing more is parsed there.           *)
(***************************************************************************)
EXTENDS Integers, Sequences, FiniteSetsExt, Functions

CONSTANTS MAXLINE, MAXARGS, Symbols

VARIABLE line

Init == line = <<>>

\* gets() adds a character to buf[].
gets == /\ Len(line) < MAXLINE
        /\ \E c \in Symbols \union {"a", " "} : line' = Append(line, c)

Spec == Init /\ [][gets]_line

es == Len(line) + 1

Ch(s) == CASE s = 0 -> "panic" [] s \in 1 .. es - 1 -> line[s] [] s >= es -> "nul"

Blanks(s) == IF s = 0 THEN 0 ELSE Min({k \in s .. es : Ch(k) # " "})

\* The token at s, from q to eq, and the position after it.
EndOfToken(q) == CASE Ch(q) \in {"nul", "panic"} -> q
                   [] Ch(q) = "a" -> Min({k \in q + 1 .. es : Ch(k) # "a"})
                   [] Ch(q) = ">" /\ Ch(q + 1) = ">" -> q + 2
                   [] OTHER -> q + 1
Token(q, eq) == [tok |-> IF Ch(q) = ">" /\ eq = q + 2 THEN "+" ELSE Ch(q),
                 q |-> q, eq |-> eq, s |-> Blanks(eq)]
TokenAt(q) == Token(q, EndOfToken(q))
gettoken(s) == TokenAt(Blanks(s))

peek(s, toks) == Ch(Blanks(s)) \in toks

After(s) == gettoken(s).s

panic == [s |-> 0, cmd |-> [type |-> "panic"]]

execcmd == [type |-> "EXEC", argv |-> <<>>, eargv |-> <<>>]
redircmd(cmd, q, eq, fd) == [type |-> "REDIR", cmd |-> cmd, file |-> q, efile |-> eq, fd |-> fd]
pipecmd(left, right) == [type |-> "PIPE", left |-> left, right |-> right]
listcmd(left, right) == [type |-> "LIST", left |-> left, right |-> right]
backcmd(cmd) == [type |-> "BACK", cmd |-> cmd]

\* The redirection operator t, and the token f after it.
RECURSIVE parseredirs(_, _), RedirTo(_, _, _)
RedirTo(cmd, t, f) ==
  IF f.tok # "a" THEN panic
  ELSE parseredirs(redircmd(cmd, f.q, f.eq, IF t.tok = "<" THEN 0 ELSE 1), f.s)
parseredirs(cmd, s) ==
  IF peek(s, {"<", ">"}) THEN RedirTo(cmd, gettoken(s), gettoken(After(s)))
  ELSE [s |-> Blanks(s), cmd |-> cmd]

\* argv is in the execcmd at the bottom of the redirections.
RECURSIVE AddArg(_, _)
AddArg(cmd, t) == IF cmd.type = "REDIR" THEN [cmd EXCEPT !.cmd = AddArg(@, t)]
                  ELSE [cmd EXCEPT !.argv = Append(@, t.q), !.eargv = Append(@, t.eq)]

TooMany(argc) == argc >= MAXARGS

\* The loop of parseexec(), after argc words: the next token t is one more.
RECURSIVE Args(_, _), Arg(_, _, _)
Arg(cmd, t, argc) ==
  IF t.tok = "nul" THEN [s |-> t.s, cmd |-> cmd]
  ELSE IF t.tok # "a" \/ TooMany(argc + 1) THEN panic
  ELSE Args(parseredirs(AddArg(cmd, t), t.s), argc + 1)
Args(r, argc) ==
  IF peek(r.s, {"|", ")", "&", ";"}) THEN [s |-> Blanks(r.s), cmd |-> r.cmd]
  ELSE Arg(r.cmd, gettoken(r.s), argc)

\* What follows a block, a command, and a pipeline.
RECURSIVE parseline(_), parsepipe(_), Backs(_), AfterCmd(_), AfterPipe(_)
AfterBlock(r) == IF peek(r.s, {")"}) THEN parseredirs(r.cmd, After(r.s)) ELSE panic

parseblock(s) == AfterBlock(parseline(After(s)))

parseexec(s) == IF peek(s, {"("}) THEN parseblock(s) ELSE Args(parseredirs(execcmd, s), 0)

PipeTo(left, right) == [s |-> right.s, cmd |-> pipecmd(left.cmd, right.cmd)]
AfterCmd(left) == IF peek(left.s, {"|"}) THEN PipeTo(left, parsepipe(After(left.s))) ELSE left

parsepipe(s) == AfterCmd(parseexec(s))

Backs(r) == IF peek(r.s, {"&"}) THEN Backs([s |-> After(r.s), cmd |-> backcmd(r.cmd)]) ELSE r

ListTo(left, right) == [s |-> right.s, cmd |-> listcmd(left.cmd, right.cmd)]
AfterPipe(left) == IF peek(left.s, {";"}) THEN ListTo(left, parseline(After(left.s))) ELSE left

parseline(s) == AfterPipe(Backs(parsepipe(s)))

\* The end of the command must be the end of the line: no leftovers.
AllOf(r) == IF Blanks(r.s) = es THEN r ELSE panic
parsecmd == AllOf(parseline(1))

\* Mutant: the name of a redirection is not terminated.
EndOfFileNot(cmd) == {}

EndOfFile(cmd) == {cmd.efile}

\* Where nulterminate() puts a NUL.
RECURSIVE nulterminate(_)
nulterminate(cmd) ==
  CASE cmd.type = "EXEC"  -> Range(cmd.eargv)
    [] cmd.type = "REDIR" -> nulterminate(cmd.cmd) \union EndOfFile(cmd)
    [] cmd.type = "BACK"  -> nulterminate(cmd.cmd)
    [] OTHER -> nulterminate(cmd.left) \union nulterminate(cmd.right)

----------------------------------------------------------------------------
(* The grammar, on the characters from i up to but not including j         *)

Blank(i, j) == \A k \in i .. j - 1 : line[k] = " "

\* A word: all of a run of letters.
IsWord(i, j) == /\ i < j
                /\ \A k \in i .. j - 1 : line[k] = "a"
                /\ Ch(j) # "a" /\ (i > 1 => line[i - 1] # "a")

IsRedir(i, j) == /\ i < j
                 /\ line[i] \in {"<", ">"}
                 /\ \E k \in i + 1 .. j - 1 :
                      /\ IsWord(k, j)
                      /\ \/ Blank(i + 1, k)
                         \/ line[i] = ">" /\ line[i + 1] = ">" /\ i + 1 < k /\ Blank(i + 2, k)

\* Redirections and at most m words.
RECURSIVE IsItems(_, _, _)
IsItems(i, j, m) ==
  \/ Blank(i, j)
  \/ \E k \in i .. j - 1, l \in i + 1 .. j :
       /\ Blank(i, k)
       /\ \/ IsWord(k, l) /\ m > 0 /\ IsItems(l, j, m - 1)
          \/ IsRedir(k, l) /\ IsItems(l, j, m)

RECURSIVE IsLine(_, _), IsBack(_, _), IsPipe(_, _)
IsBlock(i, j) == \E k \in i .. j - 1, l \in i + 1 .. j - 1 :
  /\ Blank(i, k) /\ line[k] = "(" /\ IsLine(k + 1, l)
  /\ line[l] = ")" /\ IsItems(l + 1, j, 0)

IsUnit(i, j) == IsItems(i, j, MAXARGS - 1) \/ IsBlock(i, j)

IsPipe(i, j) == \/ IsUnit(i, j)
                \/ \E k \in i .. j - 1 : line[k] = "|" /\ IsUnit(i, k) /\ IsPipe(k + 1, j)

IsBack(i, j) == \/ IsPipe(i, j)
                \/ \E k \in i .. j - 1 : line[k] = "&" /\ Blank(k + 1, j) /\ IsBack(i, k)

IsLine(i, j) == \/ IsBack(i, j)
                \/ \E k \in i .. j - 1 : line[k] = ";" /\ IsBack(i, k) /\ IsLine(k + 1, j)

----------------------------------------------------------------------------
(* Properties                                                              *)

\* parsecmd() accepts exactly the lines of the grammar: a line is a list of
\* pipelines, each but the last ended by ";", with any number of "&" after it.
AcceptsGrammar == parsecmd.s # 0 <=> IsLine(1, es)

\* Where the words begin that runcmd() uses.
RECURSIVE Words(_)
Words(cmd) == CASE cmd.type = "EXEC"  -> Range(cmd.argv)
                [] cmd.type = "REDIR" -> Words(cmd.cmd) \union {cmd.file}
                [] cmd.type = "BACK"  -> Words(cmd.cmd)
                [] OTHER -> Words(cmd.left) \union Words(cmd.right)

\* Every word of the line arrives in full and alone: though nulterminate()
\* overwrites the character after each word, which may be an operator, and
\* does so only after the whole line has been parsed, the C strings that
\* argv[] and file point to are the words of the line.
StringsOf(cmd, nuls) == {<<q, Min({k \in nuls : k >= q})>> : q \in Words(cmd)}
WordsSurvive ==
  \A r \in {parsecmd} : r.s # 0 =>
    StringsOf(r.cmd, nulterminate(r.cmd) \union {es})
      = {w \in (1 .. es) \X (1 .. es) : IsWord(w[1], w[2])}

RECURSIVE Operators(_)
Operators(cmd) == CASE cmd.type = "EXEC" -> {}
                    [] cmd.type = "REDIR" -> Operators(cmd.cmd)
                    [] cmd.type = "BACK" -> {"BACK"} \union Operators(cmd.cmd)
                    [] OTHER -> {cmd.type} \union Operators(cmd.left) \union Operators(cmd.right)

RECURSIVE BindTight(_)
BindTight(cmd) ==
  CASE cmd.type = "EXEC"  -> TRUE
    [] cmd.type = "REDIR" -> BindTight(cmd.cmd)
    [] cmd.type = "BACK"  -> "LIST" \notin Operators(cmd.cmd) /\ BindTight(cmd.cmd)
    [] cmd.type = "PIPE"  -> /\ Operators(cmd) = {"PIPE"}
                             /\ BindTight(cmd.left) /\ BindTight(cmd.right)
    [] cmd.type = "LIST"  -> /\ "LIST" \notin Operators(cmd.left)
                             /\ BindTight(cmd.left) /\ BindTight(cmd.right)

\* Without parentheses "|" binds tighter than "&", and "&" tighter than ";":
\* runcmd() runs neither a list nor a background command inside a pipeline.
Precedence ==
  \A r \in {parsecmd} : r.s # 0 /\ "(" \notin Range(line) => BindTight(r.cmd)
=============================================================================
