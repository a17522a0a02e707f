--------------------------- MODULE CountingSemaphore ---------------------------
(***************************************************************************)
(* What a counting semaphore promises to threads that call sem_wait and    *)
(* sem_post: a wait takes effect only by using up a permit, a post makes   *)
(* one available, and permits are not left unused while somebody waits.    *)
(* Which waiter gets a permit is not promised.                             *)
(***************************************************************************)
EXTENDS Integers

CONSTANTS Threads, InitialValues

VARIABLES
  count,  \* the permits available
  call    \* how far each thread's current call has come

vars == <<count, call>>

Init ==
  /\ count \in InitialValues
  /\ call = [t \in Threads |-> "none"]

Move(t, from, to) == call[t] = from /\ call' = [call EXCEPT ![t] = to]

CallWait(t) == Move(t, "none", "waiting") /\ UNCHANGED count

Acquire(t) == count > 0 /\ Move(t, "waiting", "acquired") /\ count' = count - 1

CallPost(t) == Move(t, "none", "posting") /\ UNCHANGED count

Release(t) == Move(t, "posting", "posted") /\ count' = count + 1

Return(t) ==
  /\ Move(t, "acquired", "none") \/ Move(t, "posted", "none")
  /\ UNCHANGED count

Next ==
  \E t \in Threads :
    CallWait(t) \/ Acquire(t) \/ CallPost(t) \/ Release(t) \/ Return(t)

Spec == Init /\ [][Next]_vars

Fairness ==
  /\ WF_vars(\E t \in Threads : Acquire(t))
  /\ \A t \in Threads : WF_vars(Release(t)) /\ WF_vars(Return(t))
==============================================================================
