------------------------------- MODULE BuddyMaps -------------------------------
(***************************************************************************)
(* The bitmaps of the buddy system of homework 2: one bit for each pair of *)
(* blocks of 2^e bytes, with the check that a bit is in the map.  The      *)
(* allocator that uses them is not in the repository: here it is anybody   *)
(* who sets, clears and tests the bits of blocks of its memory.            *)
(*                                                                         *)
(* An address is an offset from the base, below 2^32 as bcreate() demands. *)
(* divup, e2size and the bit operations of utils.h are external.           *)
(***************************************************************************)
EXTENDS Naturals

CONSTANTS
  Sizes,      \* of the memory, in bytes
  Exponents   \* of the size of a block

BuddyMapsAssumption == Sizes \subseteq Nat \ {0} /\ Exponents \subseteq Nat

VARIABLES
  size, e,
  bitmap,       \* the bits, from 0
  exited,       \* "bitmap index out of range"
  blocks_set    \* ghost: the blocks whose pair was set last

vars == <<size, e, bitmap, exited, blocks_set>>

divup(n, d) == ((n + d) - 1) \div d
e2size(k) == 2 ^ k

mapsize(s, k) == divup(divup(s, e2size(k)), 2)

baddrtst(mem, k) == (mem \div 2 ^ k) % 2 = 1
baddrset(mem, k) == IF baddrtst(mem, k) THEN mem ELSE mem + 2 ^ k
baddrclr(mem, k) == IF baddrtst(mem, k) THEN mem - 2 ^ k ELSE mem
baddrinv(mem, k) == IF baddrtst(mem, k) THEN mem - 2 ^ k ELSE mem + 2 ^ k

bitaddr(mem, k) == (baddrclr(mem, k) \div e2size(k)) \div 2

Blocks == {mem \in 0..size - 1 : mem % e2size(e) = 0}

\* ok() of bm.c.
ok(bit) == bit \in DOMAIN bitmap

Put(mem, value) ==
  IF ok(bitaddr(mem, e))
  THEN bitmap' = [bitmap EXCEPT ![bitaddr(mem, e)] = value] /\ UNCHANGED exited
  ELSE exited' = TRUE /\ UNCHANGED bitmap

bbmset ==
  \E mem \in Blocks :
    /\ ~exited
    /\ Put(mem, 1)
    /\ blocks_set' = blocks_set \cup {mem, baddrinv(mem, e)}
    /\ UNCHANGED <<size, e>>

bbmclr ==
  \E mem \in Blocks :
    /\ ~exited
    /\ Put(mem, 0)
    /\ blocks_set' = blocks_set \ {mem, baddrinv(mem, e)}
    /\ UNCHANGED <<size, e>>

bbmtst(mem) == bitmap[bitaddr(mem, e)]

\* bbmcreate.
Init ==
  /\ size \in Sizes /\ e \in Exponents
  /\ bitmap = [bit \in 0..mapsize(size, e) - 1 |-> 0]
  /\ exited = FALSE /\ blocks_set = {}

Next == bbmset \/ bbmclr

Spec == Init /\ [][Next]_vars

------------------------------------------------------------------------------
\* Every block of the memory has its bit, also when the memory is no whole
\* number of pairs or of blocks; the bit tells what was last done to the block
\* or to the buddy with which it makes one of twice the size, and nothing that
\* is done to another pair changes it.
BuddiesShareABit ==
  /\ ~exited
  /\ \A mem \in Blocks :
       /\ bbmtst(mem) = IF mem \in blocks_set THEN 1 ELSE 0
       /\ {mem, baddrinv(mem, e)} = {baddrclr(mem, e), baddrset(mem, e)}
       /\ baddrclr(mem, e) % e2size(e + 1) = 0
==============================================================================
