------------------------------- MODULE MCUser -------------------------------
(***************************************************************************)
(* Instances for TLC of what runs in user space: the shell on top of the   *)
(* file table, its parser, and the memory allocator.  They share no state; *)
(* `part' says which of them a behaviour is about, and the variables of    *)
(* the others keep their initial values.  No symmetry: the run checks      *)
(* liveness.                                                               *)
(***************************************************************************)
EXTENDS Shell

CONSTANTS MAXLINE, MAXARGS, HEAP, LIMIT, MINUNITS

Exec_(prog)     == [type |-> "EXEC", prog |-> prog]
Pipe_(l, r)     == [type |-> "PIPE", left |-> l, right |-> r]
List_(l, r)     == [type |-> "LIST", left |-> l, right |-> r]
Redir_(fd, cmd) == [type |-> "REDIR", fd |-> fd, cmd |-> cmd]
Back_(cmd)      == [type |-> "BACK", cmd |-> cmd]

\* write | cat, write | fail, (write &) | cat, write > f ; write, and pipelines
\* for which one file or none is left in the table.
TypedCmds == {Pipe_(Exec_("write"), Exec_("cat")),
              Pipe_(Exec_("write"), Exec_("fail")),
              Pipe_(Back_(Exec_("write")), Exec_("cat")),
              List_(Redir_(1, Exec_("write")), Exec_("write")),
              Redir_(1, Pipe_(Exec_("write"), Exec_("cat"))),
              Redir_(0, Redir_(1, Pipe_(Exec_("write"), Exec_("cat"))))}

VARIABLES part, line, ptr, size, freep, brk, used, owned

heapvars == <<ptr, size, freep, brk, used, owned>>

S == INSTANCE ShParse WITH Symbols <- {"|", "&", ";", "(", ")", "<", ">"}
U == INSTANCE Umalloc WITH Sizes <- {2, 3, 5}, Null <- None

MCInit == /\ part \in {"shell", "parser", "heap"}
          /\ Init /\ S!Init /\ U!Init

MCNext == /\ \/ part = "shell"  /\ Next   /\ UNCHANGED <<line, heapvars>>
             \/ part = "parser" /\ S!gets /\ UNCHANGED <<vars, heapvars>>
             \/ part = "heap"   /\ U!Next /\ UNCHANGED <<vars, line>>
          /\ UNCHANGED part

\* The fairness of FairSpec in Shell.
MCSpec == /\ MCInit /\ [][MCNext]_<<part, vars, line, heapvars>>
          /\ WF_vars(part = "shell" /\ (OpenConsole \/ getcmd))
          /\ \A p \in Procs : WF_vars(part = "shell" /\ Step(p))

----------------------------------------------------------------------------
(* The properties of the shell for this composition, and those of the      *)
(* parser and the allocator, which are explained in their own modules      *)

\* main() of sh.c asks for the next command again and again.
ShellPrompts == part = "shell" => PromptReturns

\* fork(), dup(), pipe(), close() and exit() count the users of every file and
\* the ends of every pipe, and leave nothing open behind them.
FilesCounted == FileRefsExact /\ EndsMatchFiles /\ NothingLeftOpen

\* parsecmd() accepts exactly the lines of the grammar, the words of a line
\* reach argv[] and file whole, and "|" binds tighter than "&" and ";".
ParsesGrammar == S!AcceptsGrammar /\ S!WordsSurvive /\ S!Precedence

\* malloc() and free() neither share nor lose memory; the free list stays
\* sorted, and free neighbours are joined.
HeapInOrder == U!HeapIsTiled /\ U!SortedAndJoined
=============================================================================
