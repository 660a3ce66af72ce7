-------------------------------- MODULE MCFs --------------------------------
(***************************************************************************)
(* The instance of Fs for TLC: two processes, each with the calls that     *)
(* meet those of the other.  One makes and enters the directory a, or      *)
(* makes a file of that name; the other works in a and removes it, links   *)
(* and opens it.                                                           *)
(***************************************************************************)
EXTENDS Fs, TLC

CONSTANTS p1, p2

Rel(elems) == [absolute |-> FALSE, elems |-> elems]
Root == [absolute |-> TRUE, elems |-> <<>>]
Dot  == Rel(<<".">>)
Up   == Rel(<<"..">>)
A    == Rel(<<"a">>)
B    == Rel(<<"b">>)
AA   == Rel(<<"a", "a">>)

Close == {[op |-> "close"]}

MCCalls ==
  p1 :> ([op : {"mkdir", "creat"}, path : {A}] \union [op : {"chdir"}, path : {A, Up}]
         \union [op : {"unlink"}, path : {B, Dot}] \union Close)
  @@
  p2 :> ([op : {"mkdir", "unlink"}, path : {AA}] \union [op : {"unlink"}, path : {A}]
         \union [op : {"mknod"}, path : {Root, B}]
         \union [op : {"open"}, path : {A}, write : {TRUE}]
         \union [op : {"link"}, path : {A}, new : {B}] \union Close)

----------------------------------------------------------------------------
\* create(), sys_link() and sys_unlink() between them: no name leads to a free
\* inode, and nlink is the number of names.
NamesCounted == NamesAlive /\ LinkCountsExact
=============================================================================
