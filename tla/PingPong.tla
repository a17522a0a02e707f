------------------------------- MODULE PingPong -------------------------------
(***************************************************************************)
(* SynchronizedPingPong.java: two threads that take turns at printing a    *)
(* word.  Each waits on its own object and notifies the other's.           *)
(*                                                                         *)
(* notify takes the monitor of an object that the other thread holds only  *)
(* from its synchronized statement to its wait, so that both are one step. *)
(* A notify that finds nobody waiting has no effect.  A thread sleeps for  *)
(* any time after it prints.                                               *)
(***************************************************************************)
EXTENDS CondVar

VARIABLE last  \* the thread that printed last

vars == <<last, pc>>

Players == {"ping", "PONG"}

Other(t) == IF t = "ping" THEN "PONG" ELSE "ping"

Goto(t, from, to) == pc[t] = from /\ pc' = [pc EXCEPT ![t] = to]

\* System.out.println(word)
PrintWord(t) ==
  /\ Goto(t, "print", "sleep")
  /\ last' = t

\* Thread.sleep(delay)
Sleep(t) == Goto(t, "sleep", "notify") /\ UNCHANGED last

\* synchronized (other) { other.notify(); }
Notify(t) ==
  /\ pc[t] = "notify"
  /\ SignalOne(t, {Other(t)}, "wait")
  /\ UNCHANGED last

\* synchronized (this) { wait(); }
Wait(t) == Goto(t, "wait", "waiting") /\ UNCHANGED last

\* wait returns.
Resume(t) == Goto(t, "woken", "print") /\ UNCHANGED last

\* Java lets a wait return without a notify, which the code does not expect.
SpuriousWakeup(t) == WakeSpuriously(t) /\ UNCHANGED last

\* Ping begins with its word and Pong with its wait.
Init ==
  /\ last = "PONG"
  /\ pc = [t \in Players |-> IF t = "ping" THEN "print" ELSE "wait"]

run(t) == PrintWord(t) \/ Sleep(t) \/ Notify(t) \/ Wait(t) \/ Resume(t)

Next == \E t \in Players : run(t) \/ SpuriousWakeup(t)

Spec == Init /\ [][Next]_vars

\* Every thread that can take a step takes one.
FairSpec == Spec /\ \A t \in Players : WF_vars(run(t))

------------------------------------------------------------------------------
\* The threads are said to play ping-pong: each prints its word again and
\* again.
GameGoesOn == \A t \in Players : []<>(last = t)
==============================================================================
