-------------------------------- MODULE Mutex --------------------------------
(***************************************************************************)
(* What a lock promises, whatever it is built from: between a lock that    *)
(* returned and the unlock that follows it, no other lock returns.         *)
(***************************************************************************)
CONSTANTS Threads, NoThread

VARIABLE owner

Init == owner = NoThread

Acquire(t) == owner = NoThread /\ owner' = t

Release(t) == owner = t /\ owner' = NoThread

Next == \E t \in Threads : Acquire(t) \/ Release(t)

Spec == Init /\ [][Next]_owner
==============================================================================
