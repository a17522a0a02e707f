----------------------------- MODULE RangeCounter -----------------------------
(***************************************************************************)
(* The counter that chapters 30 and 31 keep between -max and max           *)
(* (ch30/ThreadLock and ch31/ThreadLock): some threads decrement it for    *)
(* ever and the others increment it.  Chapter 30 has a mutex and two       *)
(* condition variables, chapter 31 three semaphores.                       *)
(*                                                                         *)
(* In chapter 30, what a thread does under the mutex is one step, and the  *)
(* signal, after the unlock, is the next.                                  *)
(***************************************************************************)
EXTENDS Integers, FiniteSets, CondVar

CONSTANTS
  RangeChapters,           \* 30, 31
  Incrementers, Decrementers,
  max                      \* 5 in the code

RangeCounterAssumption ==
  /\ RangeChapters \subseteq {30, 31}
  /\ Incrementers \cap Decrementers = {}
  /\ Incrementers # {} /\ Decrementers # {}
  /\ IsFiniteSet(Incrementers) /\ IsFiniteSet(Decrementers)
  /\ max \in Nat \ {0}

VARIABLES
  chapter,
  counter,
  mutex, decrable, incrable   \* the values of the semaphores of chapter 31
  \* pc, of CondVar

semaphores == <<mutex, decrable, incrable>>
vars == <<chapter, counter, semaphores, pc>>

Threads == Incrementers \cup Decrementers

Side(t) == IF t \in Incrementers THEN Incrementers ELSE Decrementers
Others(t) == IF t \in Incrementers THEN Decrementers ELSE Incrementers

chg(t) == IF t \in Incrementers THEN 1 ELSE -1

Goto(t, from, to) == pc[t] = from /\ pc' = [pc EXCEPT ![t] = to]

------------------------------------------------------------------------------
(* Chapter 30                                                              *)

Wait(t) ==
  /\ chapter = 30 /\ pc[t] \in {"begin", "woken"}
  /\ counter * chg(t) >= max
  /\ pc' = [pc EXCEPT ![t] = "waiting"]
  /\ UNCHANGED <<chapter, counter, semaphores>>

Change(t) ==
  /\ chapter = 30 /\ pc[t] \in {"begin", "woken"}
  /\ counter * chg(t) < max
  /\ counter' = counter + chg(t)
  /\ pc' = [pc EXCEPT ![t] = "signal"]
  /\ UNCHANGED <<chapter, semaphores>>

Signal(t) ==
  /\ pc[t] = "signal"
  /\ SignalOne(t, Others(t), "begin")
  /\ UNCHANGED <<chapter, counter, semaphores>>

SpuriousWakeup(t) == WakeSpuriously(t) /\ UNCHANGED <<chapter, counter, semaphores>>

------------------------------------------------------------------------------
(* Chapter 31                                                              *)

\* sem_wait(wait_sem)
WaitSem(t) ==
  /\ chapter = 31 /\ Goto(t, "begin", "lock")
  /\ \/ t \in Incrementers /\ incrable > 0 /\ incrable' = incrable - 1 /\ UNCHANGED decrable
     \/ t \in Decrementers /\ decrable > 0 /\ decrable' = decrable - 1 /\ UNCHANGED incrable
  /\ UNCHANGED <<chapter, counter, mutex>>

Lock(t) ==
  /\ Goto(t, "lock", "change")
  /\ mutex > 0 /\ mutex' = mutex - 1
  /\ UNCHANGED <<chapter, counter, decrable, incrable>>

ChangeLocked(t) ==
  /\ Goto(t, "change", "unlock")
  /\ counter' = counter + chg(t)
  /\ UNCHANGED <<chapter, semaphores>>

Unlock(t) ==
  /\ Goto(t, "unlock", "post")
  /\ mutex' = mutex + 1
  /\ UNCHANGED <<chapter, counter, decrable, incrable>>

\* sem_post(post_sem)
PostSem(t) ==
  /\ Goto(t, "post", "begin")
  /\ \/ t \in Incrementers /\ decrable' = decrable + 1 /\ UNCHANGED incrable
     \/ t \in Decrementers /\ incrable' = incrable + 1 /\ UNCHANGED decrable
  /\ UNCHANGED <<chapter, counter, mutex>>

------------------------------------------------------------------------------
Init ==
  /\ chapter \in RangeChapters
  /\ counter = 0
  /\ mutex = 1 /\ decrable = max /\ incrable = max
  /\ pc = [t \in Threads |-> "begin"]

Count(t) ==
  \/ Wait(t) \/ Change(t) \/ Signal(t)
  \/ WaitSem(t) \/ Lock(t) \/ ChangeLocked(t) \/ Unlock(t) \/ PostSem(t)

Next == \E t \in Threads : Count(t) \/ SpuriousWakeup(t)

Spec == Init /\ [][Next]_vars

\* Every thread that can take a step takes one.
FairSpec == Spec /\ \A t \in Threads : WF_vars(Count(t))

------------------------------------------------------------------------------
At(threads, places) == {t \in threads : pc[t] \in places}

\* The counter stays between -max and max.  In chapter 30 no wakeup is lost:
\* the threads of one side do not all sleep when the counter is not at their
\* end, unless one of the others is about to signal them.
CountInRange ==
  /\ counter \in -max..max
  /\ chapter = 30 =>
       \A t \in Threads :
         Waiting(Side(t)) = Side(t) /\ counter * chg(t) < max =>
           At(Others(t), {"signal"}) # {}

\* The counter goes up and down for ever.
CountGoesOn ==
  /\ []<>(At(Incrementers, {"signal", "post"}) # {})
  /\ []<>(At(Decrementers, {"signal", "post"}) # {})
==============================================================================
