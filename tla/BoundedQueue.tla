----------------------------- MODULE BoundedQueue -----------------------------
(***************************************************************************)
(* What the buffer between producers and consumers promises: items leave   *)
(* in the order in which they entered, each of them once, and there are    *)
(* never more of them than the buffer holds.                               *)
(***************************************************************************)
EXTENDS Naturals, Sequences

CONSTANTS Consumers, Items, Capacity

VARIABLES
  queue,  \* the items in the buffer, oldest first
  got     \* the item each consumer took last

vars == <<queue, got>>

Init == queue = <<>> /\ got \in [Consumers -> Items]

Put(x) ==
  /\ Len(queue) < Capacity
  /\ queue' = Append(queue, x)
  /\ UNCHANGED got

Get(c) ==
  /\ queue # <<>>
  /\ got' = [got EXCEPT ![c] = Head(queue)]
  /\ queue' = Tail(queue)

Next == (\E x \in Items : Put(x)) \/ (\E c \in Consumers : Get(c))

Spec == Init /\ [][Next]_vars
==============================================================================
