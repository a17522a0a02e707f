------------------------------ MODULE MCSemaphore ------------------------------
(***************************************************************************)
(* The homemade semaphore on small instances.  The two variants stand for  *)
(* all four: the others leave the word as TestAndSet does.                 *)
(***************************************************************************)
EXTENDS Semaphore

BothKinds == {"TestAndSet", "ExchangeAndAdd"}

OnlyXadd == {"ExchangeAndAdd"}
==============================================================================
