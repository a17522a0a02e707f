----------------------------- MODULE SimpleMalloc -----------------------------
(***************************************************************************)
(* The next-fit allocator of examples/memory-management/simple-malloc.c,   *)
(* and its refactored copy, which does the same in smaller functions.      *)
(*                                                                         *)
(* Memory is counted in units of a Header.  The free blocks form a ring in *)
(* the order of their addresses, with the marker `base' of size 0 below    *)
(* the heap.  The break may be moved by others between two calls of sbrk.  *)
(***************************************************************************)
EXTENDS Naturals, FiniteSets

CONSTANTS
  NALLOC,        \* 1024 in the code
  HeaderBytes,   \* sizeof(Header)
  Requests,      \* the numbers of bytes asked for
  MaxBreak       \* the end of the memory sbrk can give

INT_MAX == 2147483647

SimpleMallocAssumption ==
  /\ NALLOC \in Nat \ {0} /\ HeaderBytes \in Nat \ {0} /\ MaxBreak \in Nat \ {0}
  /\ Requests \subseteq 0..INT_MAX   \* bytes_to_number_of_units takes an int

base == 0
Addresses == 0..MaxBreak
NULL == MaxBreak + 1

VARIABLES
  ptr, size,   \* the Header at each address
  freep,       \* where the next search starts
  brk,         \* the break of the process
  acquired,    \* the units sbrk gave to the allocator
  asked        \* the blocks in use, with the bytes they were asked for

vars == <<ptr, size, freep, brk, acquired, asked>>

Heap == [ptr |-> ptr, size |-> size, freep |-> freep]

\* The ring of heap h from its freep on: freep, freep->s.ptr, and so on.
Walk(h) ==
  LET walk[i \in 0..MaxBreak + 1] == IF i = 0 THEN h.freep ELSE h.ptr[walk[i - 1]]
  IN walk

\* The place of the first block of the walk for which Test holds.
FirstPlace(h, from, Test(_)) ==
  LET walk == Walk(h) IN
  CHOOSE i \in from..MaxBreak + 1 :
    Test(walk[i]) /\ \A j \in from..i - 1 : ~Test(walk[j])

Ring(h) == LET walk == Walk(h) IN {walk[i] : i \in 0..MaxBreak + 1}

------------------------------------------------------------------------------
(* simple_free                                                             *)

\* The block p that bp is to follow: the next one is above bp, or p is the
\* last one of the ring and bp is at an end of the arena.
GoesAfter(h, bp, p) ==
  \/ bp > p /\ bp < h.ptr[p]
  \/ p >= h.ptr[p] /\ (bp > p \/ bp < h.ptr[p])

JoinUpper(h, bp, p) ==
  LET upper == h.ptr[p] IN
  IF bp + h.size[bp] = upper
  THEN [h EXCEPT !.size[bp] = @ + h.size[upper], !.ptr[bp] = h.ptr[upper]]
  ELSE [h EXCEPT !.ptr[bp] = upper]

\* Mutant: a block is not joined to the one below.
LinkLower(h, bp, p) == [h EXCEPT !.ptr[p] = bp]

JoinLower(h, bp, p) ==
  IF p + h.size[p] = bp
  THEN [h EXCEPT !.size[p] = @ + h.size[bp], !.ptr[p] = h.ptr[bp]]
  ELSE [h EXCEPT !.ptr[p] = bp]

FreeBlock(h, bp) ==
  LET p == Walk(h)[FirstPlace(h, 0, LAMBDA q : GoesAfter(h, bp, q))] IN
  [JoinLower(JoinUpper(h, bp, p), bp, p) EXCEPT !.freep = p]

------------------------------------------------------------------------------
(* simple_malloc                                                           *)

Units(nbytes) == (nbytes + HeaderBytes - 1) \div HeaderBytes + 1

\* base.s.ptr = freep = &base, if there is no list yet.
WithList(h) ==
  IF h.freep = NULL THEN [h EXCEPT !.ptr[base] = base, !.size[base] = 0, !.freep = base]
                    ELSE h

Fits(h, nunits) == \E p \in Ring(h) : h.size[p] >= nunits

\* The first block that is big enough, from the one after freep on: unlinked
\* if it fits exactly, or else its tail end.
Take(h, nunits) ==
  LET i == FirstPlace(h, 1, LAMBDA p : h.size[p] >= nunits)
      prevp == Walk(h)[i - 1]
      p == Walk(h)[i]
      q == p + h.size[p] - nunits
  IN IF h.size[p] = nunits
     THEN [heap |-> [h EXCEPT !.ptr[prevp] = h.ptr[p], !.freep = prevp], block |-> p]
     ELSE [heap |-> [h EXCEPT !.size[p] = @ - nunits, !.size[q] = nunits, !.freep = prevp],
           block |-> q]

MoreUnits(nunits) == IF nunits < NALLOC THEN NALLOC ELSE nunits

\* morecore, with what sbrk returned: the new block goes through simple_free.
WithMore(h, cp, nunits) ==
  FreeBlock([h EXCEPT !.size[cp] = MoreUnits(nunits)], cp)

\* Only the headers of the ring and of the blocks in use are kept: the rest
\* of the memory is the clients' to write to, and counts as zero.
SetHeap(h, used) ==
  LET ring == Ring(h) IN
  /\ ptr' = [a \in Addresses |-> IF a \in ring THEN h.ptr[a] ELSE 0]
  /\ size' = [a \in Addresses |-> IF a \in ring \cup used THEN h.size[a] ELSE 0]
  /\ freep' = h.freep

\* The client gets block `taken', for which it asked nbytes.
Return(taken, nbytes) ==
  /\ SetHeap(taken.heap, DOMAIN asked \cup {taken.block})
  /\ asked' = [b \in DOMAIN asked \cup {taken.block} |->
                 IF b = taken.block THEN nbytes ELSE asked[b]]

MallocFits(nbytes) ==
  LET h == WithList(Heap) IN
  /\ Fits(h, Units(nbytes))
  /\ Return(Take(h, Units(nbytes)), nbytes)
  /\ UNCHANGED <<brk, acquired>>

MallocMore(nbytes) ==
  LET h == WithList(Heap)
      n == MoreUnits(Units(nbytes))
  IN /\ ~Fits(h, Units(nbytes))
     /\ brk + n - 1 <= MaxBreak
     /\ Return(Take(WithMore(h, brk, Units(nbytes)), Units(nbytes)), nbytes)
     /\ brk' = brk + n
     /\ acquired' = acquired \cup (brk..brk + n - 1)

\* sbrk has no memory left, and simple_malloc returns NULL.
MallocNull(nbytes) ==
  LET h == WithList(Heap) IN
  /\ ~Fits(h, Units(nbytes))
  /\ brk + MoreUnits(Units(nbytes)) - 1 > MaxBreak
  /\ SetHeap(h, DOMAIN asked)
  /\ UNCHANGED <<brk, acquired, asked>>

simple_malloc(nbytes) == MallocFits(nbytes) \/ MallocMore(nbytes) \/ MallocNull(nbytes)

simple_free(b) ==
  /\ b \in DOMAIN asked
  /\ SetHeap(FreeBlock(Heap, b), DOMAIN asked \ {b})
  /\ asked' = [c \in DOMAIN asked \ {b} |-> asked[c]]
  /\ UNCHANGED <<brk, acquired>>

\* Another part of the program takes a unit from sbrk.
OtherSbrk ==
  /\ brk < MaxBreak
  /\ brk' = brk + 1
  /\ UNCHANGED <<ptr, size, freep, acquired, asked>>

Init ==
  /\ ptr = [a \in Addresses |-> base]
  /\ size = [a \in Addresses |-> 0]
  /\ freep = NULL
  /\ brk = 1
  /\ acquired = {}
  /\ asked = [b \in {} |-> 0]

Next ==
  \/ \E nbytes \in Requests : simple_malloc(nbytes)
  \/ \E b \in DOMAIN asked : simple_free(b)
  \/ OtherSbrk

Spec == Init /\ [][Next]_vars

------------------------------------------------------------------------------
FreeBlocks == IF freep = NULL THEN {} ELSE Ring(Heap) \ {base}

Extent(b) == b..b + size[b] - 1

\* The free blocks and the blocks in use share out the memory that sbrk gave,
\* unit by unit; a block in use has room for what was asked for and keeps its
\* header while others come and go; and no two free blocks lie side by side,
\* so that memory that is all free again is in one piece.
HeapShared ==
  LET blocks == FreeBlocks \cup DOMAIN asked IN
  /\ FreeBlocks \cap DOMAIN asked = {}
  /\ \A b, c \in blocks : b # c => Extent(b) \cap Extent(c) = {}
  /\ UNION {Extent(b) : b \in blocks} = acquired
  /\ \A b \in DOMAIN asked : (size[b] - 1) * HeaderBytes >= asked[b]
  /\ \A b \in FreeBlocks : size[b] > 0 /\ b + size[b] \notin FreeBlocks
==============================================================================
