------------------------------ MODULE Umalloc ------------------------------
(***************************************************************************)
(* malloc() and free() of umalloc.c: a circular list of free blocks in     *)
(* the order of their addresses.  Addresses count units of sizeof(Header); *)
(* a block begins with its header.  base, the empty block, is at 0, below  *)
(* the heap, and Null is the null pointer.                                 *)
(***************************************************************************)
EXTENDS Integers, FiniteSets

CONSTANTS HEAP,      \* the first address of the heap
          LIMIT,     \* sbrk() fails beyond this address
          MINUNITS,  \* morecore() asks for this much at least (4096)
          Sizes,     \* the nunits of the calls of malloc()
          Null

base == 0
Addrs == {base} \union HEAP .. LIMIT

VARIABLES ptr, size,   \* s.ptr and s.size of the header at an address
          freep,
          brk,         \* the end of the heap
          used,        \* the program's blocks: address -> units, 0 for none
          owned        \* the addresses that malloc() got from sbrk()

vars == <<ptr, size, freep, brk, used, owned>>

Init == /\ ptr = [a \in Addrs |-> Null] /\ size = [a \in Addrs |-> 0]
        /\ freep = Null
        /\ brk = HEAP
        /\ used = [a \in Addrs |-> 0]
        /\ owned = {}

List == [ptr |-> ptr, size |-> size, freep |-> freep]

----------------------------------------------------------------------------
(* free() on a list m                                                      *)

Between(m, p, bp) == bp > p /\ bp < m.ptr[p]
AtEnd(m, p, bp)   == p >= m.ptr[p] /\ (bp > p \/ bp < m.ptr[p])

\* The loop: the block after which bp belongs.
RECURSIVE Place(_, _, _)
Place(m, p, bp) ==
  IF Between(m, p, bp) \/ AtEnd(m, p, bp) THEN p ELSE Place(m, m.ptr[p], bp)

\* Headers that are no longer headers are forgotten.
Forget(m, a) == [m EXCEPT !.ptr[a] = Null, !.size[a] = 0]

JoinUpper(m, p, bp) ==
  LET up == m.ptr[p] IN
    IF bp + m.size[bp] = up
    THEN Forget([m EXCEPT !.size[bp] = @ + m.size[up], !.ptr[bp] = m.ptr[up]], up)
    ELSE [m EXCEPT !.ptr[bp] = up]

\* Mutant: a block is not joined to the one below it.
JoinLowerNot(m, p, bp) == [m EXCEPT !.ptr[p] = bp]

JoinLower(m, p, bp) ==
  IF p + m.size[p] = bp
  THEN Forget([m EXCEPT !.size[p] = @ + m.size[bp], !.ptr[p] = m.ptr[bp]], bp)
  ELSE [m EXCEPT !.ptr[p] = bp]

Linked(m, p, bp) == [JoinLower(JoinUpper(m, p, bp), p, bp) EXCEPT !.freep = p]
free(m, bp) == Linked(m, Place(m, m.freep, bp), bp)

Update(m) == ptr' = m.ptr /\ size' = m.size /\ freep' = m.freep

Free(a) == /\ used[a] > 0
           /\ Update(free(List, a))
           /\ used' = [used EXCEPT ![a] = 0]
           /\ UNCHANGED <<brk, owned>>

----------------------------------------------------------------------------
(* malloc()                                                                *)

Units(n) == IF n < MINUNITS THEN MINUNITS ELSE n

morecore(m, n) == free([m EXCEPT !.size[brk] = Units(n)], brk)

Shortened(m, p, n) == m.size[p] - n

\* p is large enough: take it whole, or its upper part.
Take(m, prevp, p, n) ==
  LET a == p + m.size[p] - n
      cut == IF m.size[p] = n THEN [m EXCEPT !.ptr[prevp] = m.ptr[p], !.ptr[p] = Null]
             ELSE [m EXCEPT !.size[p] = Shortened(m, p, n), !.size[a] = n] IN
    /\ Update([cut EXCEPT !.freep = prevp])
    /\ used' = [used EXCEPT ![IF m.size[p] = n THEN p ELSE a] = n]

\* The search from p on, which ends at freep: prevp of the first block that is
\* large enough, or Null.
RECURSIVE Search(_, _, _)
Search(m, prevp, n) ==
  LET p == m.ptr[prevp] IN
    IF m.size[p] >= n THEN prevp
    ELSE IF p = m.freep THEN Null
    ELSE Search(m, p, n)

Started == IF freep # Null THEN List
           ELSE [ptr |-> [ptr EXCEPT ![base] = base], size |-> size, freep |-> base]

Malloc(n) ==
  \E m \in {Started} : \E prevp \in {Search(m, m.freep, n)} :
    \/ /\ prevp # Null
       /\ Take(m, prevp, m.ptr[prevp], n)
       /\ UNCHANGED <<brk, owned>>
    \/ /\ prevp = Null /\ brk + Units(n) <= LIMIT
       /\ \E more \in {morecore(m, n)} : \E prevp2 \in {Search(more, more.freep, n)} :
            Take(more, prevp2, more.ptr[prevp2], n)
       /\ brk' = brk + Units(n)
       /\ owned' = owned \union brk .. brk + Units(n) - 1
    \/ /\ prevp = Null /\ brk + Units(n) > LIMIT
       /\ Update(m)
       /\ UNCHANGED <<brk, used, owned>>

\* The program may call sbrk() itself, which leaves a gap in malloc()'s heap.
Sbrk == /\ brk < LIMIT
        /\ brk' = brk + 1
        /\ UNCHANGED <<ptr, size, freep, used, owned>>

Next == Sbrk \/ (\E n \in Sizes : Malloc(n)) \/ (\E a \in Addrs : Free(a))

Spec == Init /\ [][Next]_vars

----------------------------------------------------------------------------
(* Properties                                                              *)

Block(a, n) == a .. a + n - 1
OnList == {a \in Addrs : ptr[a] # Null}

\* The memory that sbrk() gave is divided among the blocks of the program and
\* the free ones: no two of them share a unit, and none is lost.
HeapIsTiled ==
  LET inuse == {a \in Addrs : used[a] > 0}
      len == [a \in inuse \union OnList |-> IF a \in inuse THEN used[a] ELSE size[a]] IN
    /\ inuse \intersect OnList = {}
    /\ UNION {Block(a, len[a]) : a \in DOMAIN len} = owned
    /\ \A a, b \in DOMAIN len : a # b => Block(a, len[a]) \intersect Block(b, len[b]) = {}

\* The free list is a circle in the order of addresses, and free neighbours are
\* always joined, so that whatever is freed can be allocated in one piece.
SortedAndJoined ==
  freep # Null =>
    /\ freep \in OnList
    /\ \A a \in OnList :
         /\ ptr[a] \in OnList
         /\ a + size[a] # ptr[a] \/ a = ptr[a]
         /\ \A b \in OnList : IF a < ptr[a] THEN ~(a < b /\ b < ptr[a])
                              ELSE ptr[a] <= b /\ b <= a
=============================================================================
