------------------------------- MODULE ProdCons -------------------------------
(***************************************************************************)
(* The producer and consumer threads of chapters 30 and 31 around the      *)
(* buffer of chapter 30: the same two loops, with a mutex and condition    *)
(* variables in chapter 30 and with semaphores in chapter 31.              *)
(*                                                                         *)
(* In chapter 30, what a thread does under the mutex, from taking it (by   *)
(* the lock or at the end of the wait) to giving it up, is one step; the   *)
(* signal is sent after the unlock.  In chapter 31 every sem_wait, every   *)
(* sem_post and the transfer between them is a step.                       *)
(***************************************************************************)
EXTENDS Buffer, CondVar, FiniteSets

CONSTANTS
  Chapters,             \* the programs under study: 30, 31 or both
  Producers, Consumers  \* five threads each in the code

ProdConsAssumption ==
  /\ BufferAssumption
  /\ Chapters \subseteq {30, 31}
  /\ IsFiniteSet(Producers) /\ Producers # {}
  /\ IsFiniteSet(Consumers) /\ Consumers # {}
  /\ Producers \cap Consumers = {}

VARIABLES
  chapter,                  \* the program that runs
  mutex, putable, getable,  \* the values of the semaphores of chapter 31
  data                      \* the local variable of each thread

semaphores == <<mutex, putable, getable>>

vars == <<chapter, bufferVars, semaphores, data, pc>>

Threads == Producers \cup Consumers

\* Where a thread goes after a transfer: a producer makes its next number, a
\* consumer prints the one it got and begins again.
Again(t) == IF t \in Producers THEN "produce" ELSE "begin"

Goto(t, from, to) == pc[t] = from /\ pc' = [pc EXCEPT ![t] = to]

Produce(p) ==
  /\ Goto(p, "produce", "begin")
  /\ \E d \in Data : data' = [data EXCEPT ![p] = d]
  /\ UNCHANGED <<chapter, bufferVars, semaphores>>

xput(p) == put(data[p]) /\ UNCHANGED data

xget(c) == get /\ data' = [data EXCEPT ![c] = GotData]

xfer(t) == (t \in Producers /\ xput(t)) \/ (t \in Consumers /\ xget(t))

------------------------------------------------------------------------------
(* Chapter 30                                                              *)

busy(t) == IF t \in Producers THEN full ELSE empt

WaitBusy(t) ==
  /\ chapter = 30
  /\ pc[t] \in {"begin", "woken"} /\ busy(t)
  /\ pc' = [pc EXCEPT ![t] = "waiting"]
  /\ UNCHANGED <<chapter, bufferVars, semaphores, data>>

Transfer(t) ==
  /\ chapter = 30
  /\ pc[t] \in {"begin", "woken"} /\ ~busy(t)
  /\ pc' = [pc EXCEPT ![t] = "signal"]
  /\ xfer(t)
  /\ UNCHANGED <<chapter, semaphores>>

\* Mutant: the signal goes to the thread's own side.
SignalOwn(t) ==
  /\ pc[t] = "signal"
  /\ SignalOne(t, IF t \in Producers THEN Producers ELSE Consumers, Again(t))
  /\ UNCHANGED <<chapter, bufferVars, semaphores, data>>

\* pthread_cond_signal(sign_cv), after the unlock.
Signal(t) ==
  /\ pc[t] = "signal"
  /\ SignalOne(t, IF t \in Producers THEN Consumers ELSE Producers, Again(t))
  /\ UNCHANGED <<chapter, bufferVars, semaphores, data>>

SpuriousWakeup(t) ==
  /\ WakeSpuriously(t)
  /\ UNCHANGED <<chapter, bufferVars, semaphores, data>>

------------------------------------------------------------------------------
(* Chapter 31                                                              *)

\* sem_wait(wait_sem)
WaitOwn(t) ==
  /\ chapter = 31
  /\ Goto(t, "begin", "lock")
  /\ \/ t \in Producers /\ putable > 0 /\ putable' = putable - 1 /\ UNCHANGED getable
     \/ t \in Consumers /\ getable > 0 /\ getable' = getable - 1 /\ UNCHANGED putable
  /\ UNCHANGED <<chapter, bufferVars, mutex, data>>

\* sem_wait(&mutex)
Lock(t) ==
  /\ Goto(t, "lock", "xfer")
  /\ mutex > 0
  /\ mutex' = mutex - 1
  /\ UNCHANGED <<chapter, bufferVars, putable, getable, data>>

TransferLocked(t) ==
  /\ Goto(t, "xfer", "unlock")
  /\ xfer(t)
  /\ UNCHANGED <<chapter, semaphores>>

\* sem_post(&mutex)
Unlock(t) ==
  /\ Goto(t, "unlock", "post")
  /\ mutex' = mutex + 1
  /\ UNCHANGED <<chapter, bufferVars, putable, getable, data>>

\* Mutant: post_sem is wait_sem.
PostOwn(t) ==
  /\ Goto(t, "post", Again(t))
  /\ \/ t \in Producers /\ putable' = putable + 1 /\ UNCHANGED getable
     \/ t \in Consumers /\ getable' = getable + 1 /\ UNCHANGED putable
  /\ UNCHANGED <<chapter, bufferVars, mutex, data>>

\* sem_post(post_sem)
PostOther(t) ==
  /\ Goto(t, "post", Again(t))
  /\ \/ t \in Producers /\ getable' = getable + 1 /\ UNCHANGED putable
     \/ t \in Consumers /\ putable' = putable + 1 /\ UNCHANGED getable
  /\ UNCHANGED <<chapter, bufferVars, mutex, data>>

------------------------------------------------------------------------------
Init ==
  /\ chapter \in Chapters
  /\ BufferInit
  /\ mutex = 1 /\ putable = max /\ getable = 0
  /\ data = [t \in Threads |-> 0]
  /\ pc = [t \in Threads |-> Again(t)]

\* The loop of prod_cons but for the production.
prod_cons(t) ==
  \/ WaitBusy(t) \/ Transfer(t) \/ Signal(t)
  \/ WaitOwn(t) \/ Lock(t) \/ TransferLocked(t) \/ Unlock(t) \/ PostOther(t)

Next ==
  \/ \E p \in Producers : Produce(p)
  \/ \E t \in Threads : prod_cons(t) \/ SpuriousWakeup(t)

Spec == Init /\ [][Next]_vars

\* Every thread that can take a step takes one, and gets the mutex of
\* chapter 30 when it asks for it.
FairSpec ==
  /\ Spec
  /\ \A p \in Producers : WF_vars(Produce(p))
  /\ \A t \in Threads : WF_vars(prod_cons(t))

------------------------------------------------------------------------------
At(threads, places) == {t \in threads : pc[t] \in places}

TypeOK ==
  /\ chapter \in Chapters
  /\ BufferTypeOK
  /\ mutex \in {0, 1}
  /\ putable \in 0..max
  /\ getable \in 0..max
  /\ data \in [Threads -> Data]
  /\ pc \in [Threads -> {"produce", "begin", "waiting", "woken", "signal",
                         "lock", "xfer", "unlock", "post"}]

\* Chapter 30: no wakeup is lost, although a signal may wake a thread that
\* finds that another has come before it.  The consumers do not all sleep
\* over a buffer that is not empty, nor the producers over one that is not
\* full, unless a thread is about to signal them.
NoLostWakeup ==
  chapter = 30 =>
    /\ ~empt /\ Waiting(Consumers) = Consumers => At(Producers, {"signal"}) # {}
    /\ ~full /\ Waiting(Producers) = Producers => At(Consumers, {"signal"}) # {}

\* Chapter 31: the general semaphores count the room and the numbers in the
\* buffer, but for the threads on their way to use a permit or to give one,
\* so that no put finds the buffer full and no get finds it empty.
PermitsMatchBuffer ==
  chapter = 31 =>
    /\ putable + cnt + Cardinality(At(Producers, {"lock", "xfer"}))
                     + Cardinality(At(Consumers, {"unlock", "post"})) = max
    /\ getable + Cardinality(At(Consumers, {"lock", "xfer"}))
               + Cardinality(At(Producers, {"unlock", "post"})) = cnt

\* Neither program loses what its threads wait for, a wakeup or a permit.
NoWakeupOrPermitLost == NoLostWakeup /\ PermitsMatchBuffer

\* A thread that sleeps, or finds the semaphore it asks for at 0.
Waits(t) ==
  \/ pc[t] = "waiting"
  \/ pc[t] = "lock" /\ mutex = 0
  \/ /\ chapter = 31 /\ pc[t] = "begin"
     /\ IF t \in Producers THEN putable = 0 ELSE getable = 0

\* The threads of both sides never all wait for each other.
SomebodyGoesOn == \E t \in Threads : ~Waits(t)

Abstract ==
  INSTANCE BoundedQueue WITH queue <- Contents, got <- [c \in Consumers |-> data[c]],
                             Items <- Data, Capacity <- max

\* Numbers are consumed in the order of their puts, each of them once.
ProdConsImplementsQueue == Abstract!Spec

\* Puts and gets go on for ever: no two threads wait for each other.
Flow ==
  /\ []<>(At(Producers, {"signal", "post"}) # {})
  /\ []<>(At(Consumers, {"signal", "post"}) # {})
==============================================================================
