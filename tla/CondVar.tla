-------------------------------- MODULE CondVar --------------------------------
(***************************************************************************)
(* The condition variables of the pthread library, as its clients see      *)
(* them.  A thread whose program counter is "waiting" is in the queue of   *)
(* the one condition variable its kind of thread waits for; one that has   *)
(* left the queue is "woken" and has to ask for the mutex again.           *)
(***************************************************************************)

VARIABLE pc

Waiting(threads) == {t \in threads : pc[t] = "waiting"}

\* pthread_cond_signal by thread t, which goes on to `next': one waiter, if
\* there is one, leaves the queue.
SignalOne(t, threads, next) ==
  \/ Waiting(threads) = {} /\ pc' = [pc EXCEPT ![t] = next]
  \/ \E w \in Waiting(threads) : pc' = [pc EXCEPT ![t] = next, ![w] = "woken"]

\* pthread_cond_broadcast by thread t.
SignalAll(t, threads, next) ==
  pc' = [u \in DOMAIN pc |-> IF u = t THEN next
                             ELSE IF u \in Waiting(threads) THEN "woken" ELSE pc[u]]

\* POSIX lets pthread_cond_wait return without a signal.
WakeSpuriously(t) ==
  /\ pc[t] = "waiting"
  /\ pc' = [pc EXCEPT ![t] = "woken"]
==============================================================================
