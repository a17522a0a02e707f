-------------------------- MODULE ProducersConsumers --------------------------
(***************************************************************************)
(* producers-consumers.c: producer and consumer threads around a circular  *)
(* buffer, a mutex and two condition variables, and a main thread that     *)
(* asks them to stop and then waits for them.                              *)
(*                                                                         *)
(* All shared variables but the wait queues are accessed under BufferLock, *)
(* so that what a thread does from taking the lock (by pthread_mutex_lock  *)
(* or at the end of pthread_cond_wait) to giving it up is one step.  The   *)
(* signals and broadcasts are sent after the unlock and are steps of their *)
(* own.                                                                    *)
(***************************************************************************)
EXTENDS Integers, CondVar

CONSTANTS
  Producers, Consumers,  \* one and two threads in the code
  Main,                  \* the main thread
  BUFFER_SIZE,
  MaxItems               \* bound: the items numbered before the stop

ASSUME ProdConsAssumption ==
  /\ Producers # {} /\ Consumers # {}
  /\ Producers \cap Consumers = {}
  /\ Main \notin Producers \cup Consumers
  /\ BUFFER_SIZE \in Nat \ {0}
  /\ MaxItems \in Nat

VARIABLES
  Buffer, QueueStartOffset, QueueSize,
  LastItemProduced, TotalItemsProduced, TotalItemsConsumed,
  StopRequested,
  Item  \* the local variable Item of each thread

vars == <<Buffer, QueueStartOffset, QueueSize, LastItemProduced, TotalItemsProduced,
          TotalItemsConsumed, StopRequested, Item, pc>>

queueVars == <<Buffer, QueueStartOffset, QueueSize, TotalItemsProduced, TotalItemsConsumed>>

Workers == Producers \cup Consumers

Slots == 0..(BUFFER_SIZE - 1)

------------------------------------------------------------------------------
(* ProducerThreadProc                                                      *)

Full == QueueSize = BUFFER_SIZE

\* Mutant: the offset of the oldest item is forgotten.
InsertAtSize(p, item) ==
  /\ Buffer' = [Buffer EXCEPT ![QueueSize] = item]
  /\ QueueSize' = QueueSize + 1
  /\ TotalItemsProduced' = TotalItemsProduced + 1
  /\ pc' = [pc EXCEPT ![p] = "signal"]
  /\ UNCHANGED <<QueueStartOffset, TotalItemsConsumed>>

Insert(p, item) ==
  /\ Buffer' = [Buffer EXCEPT ![(QueueStartOffset + QueueSize) % BUFFER_SIZE] = item]
  /\ QueueSize' = QueueSize + 1
  /\ TotalItemsProduced' = TotalItemsProduced + 1
  /\ pc' = [pc EXCEPT ![p] = "signal"]
  /\ UNCHANGED <<QueueStartOffset, TotalItemsConsumed>>

\* The loop around pthread_cond_wait and what follows it, up to the unlock.
TryInsert(p, item) ==
  \/ /\ Full /\ ~StopRequested
     /\ pc' = [pc EXCEPT ![p] = "waiting"]
     /\ UNCHANGED queueVars
  \/ /\ StopRequested
     /\ pc' = [pc EXCEPT ![p] = "done"]
     /\ UNCHANGED queueVars
  \/ /\ ~Full /\ ~StopRequested
     /\ Insert(p, item)

\* A new iteration: the item is numbered before there is room for it.
Produce(p) ==
  /\ pc[p] = "start"
  /\ LastItemProduced < MaxItems \/ StopRequested
  /\ LastItemProduced' = LastItemProduced + 1
  /\ Item' = [Item EXCEPT ![p] = LastItemProduced]
  /\ TryInsert(p, LastItemProduced)
  /\ UNCHANGED StopRequested

\* pthread_cond_wait returned.
ResumeProduce(p) ==
  /\ pc[p] = "woken"
  /\ TryInsert(p, Item[p])
  /\ UNCHANGED <<LastItemProduced, Item, StopRequested>>

\* Mutant: the producer signals the condition it waits for itself.
SignalOwn(p) ==
  /\ pc[p] = "signal"
  /\ SignalOne(p, Producers, "start")
  /\ UNCHANGED <<queueVars, LastItemProduced, Item, StopRequested>>

\* Mutant: the producer signals nobody.
SignalNobody(p) ==
  /\ pc[p] = "signal"
  /\ pc' = [pc EXCEPT ![p] = "start"]
  /\ UNCHANGED <<queueVars, LastItemProduced, Item, StopRequested>>

SignalNotEmpty(p) ==
  /\ pc[p] = "signal"
  /\ SignalOne(p, Consumers, "start")
  /\ UNCHANGED <<queueVars, LastItemProduced, Item, StopRequested>>

------------------------------------------------------------------------------
(* ConsumerThreadProc                                                      *)

Empty == QueueSize = 0

Remove(c) ==
  /\ Item' = [Item EXCEPT ![c] = Buffer[QueueStartOffset]]
  /\ QueueSize' = QueueSize - 1
  /\ QueueStartOffset' = IF QueueStartOffset + 1 = BUFFER_SIZE THEN 0
                                                               ELSE QueueStartOffset + 1
  /\ TotalItemsConsumed' = TotalItemsConsumed + 1
  /\ pc' = [pc EXCEPT ![c] = "signal"]
  /\ UNCHANGED <<Buffer, TotalItemsProduced>>

\* Mutant: a stop ends a consumer although the buffer holds items.
ConsumeUntilStop(c) ==
  /\ pc[c] \in {"start", "woken"}
  /\ \/ /\ Empty /\ ~StopRequested
        /\ pc' = [pc EXCEPT ![c] = "waiting"]
        /\ UNCHANGED <<queueVars, Item>>
     \/ /\ StopRequested
        /\ pc' = [pc EXCEPT ![c] = "done"]
        /\ UNCHANGED <<queueVars, Item>>
     \/ ~Empty /\ ~StopRequested /\ Remove(c)
  /\ UNCHANGED <<LastItemProduced, StopRequested>>

\* From pthread_mutex_lock, or from the return of pthread_cond_wait.
Consume(c) ==
  /\ pc[c] \in {"start", "woken"}
  /\ \/ /\ Empty /\ ~StopRequested
        /\ pc' = [pc EXCEPT ![c] = "waiting"]
        /\ UNCHANGED <<queueVars, Item>>
     \/ /\ Empty /\ StopRequested
        /\ pc' = [pc EXCEPT ![c] = "done"]
        /\ UNCHANGED <<queueVars, Item>>
     \/ ~Empty /\ Remove(c)
  /\ UNCHANGED <<LastItemProduced, StopRequested>>

SignalNotFull(c) ==
  /\ pc[c] = "signal"
  /\ SignalOne(c, Producers, "start")
  /\ UNCHANGED <<queueVars, LastItemProduced, Item, StopRequested>>

SpuriousWakeup(t) ==
  /\ WakeSpuriously(t)
  /\ UNCHANGED <<queueVars, LastItemProduced, Item, StopRequested>>

------------------------------------------------------------------------------
(* main                                                                    *)

\* The user pressed enter.
RequestStop ==
  /\ pc[Main] = "start"
  /\ StopRequested' = TRUE
  /\ pc' = [pc EXCEPT ![Main] = "wake_producers"]
  /\ UNCHANGED <<queueVars, LastItemProduced, Item>>

\* Mutant: a signal where the code broadcasts.
WakeOneProducer ==
  /\ pc[Main] = "wake_producers"
  /\ SignalOne(Main, Producers, "wake_consumers")
  /\ UNCHANGED <<queueVars, LastItemProduced, Item, StopRequested>>

WakeProducers ==
  /\ pc[Main] = "wake_producers"
  /\ SignalAll(Main, Producers, "wake_consumers")
  /\ UNCHANGED <<queueVars, LastItemProduced, Item, StopRequested>>

\* Mutant: a signal where the code broadcasts.
WakeOneConsumer ==
  /\ pc[Main] = "wake_consumers"
  /\ SignalOne(Main, Consumers, "join")
  /\ UNCHANGED <<queueVars, LastItemProduced, Item, StopRequested>>

WakeConsumers ==
  /\ pc[Main] = "wake_consumers"
  /\ SignalAll(Main, Consumers, "join")
  /\ UNCHANGED <<queueVars, LastItemProduced, Item, StopRequested>>

\* The joins return; main prints the totals and exits.
Exit ==
  /\ pc[Main] = "join"
  /\ \A t \in Workers : pc[t] = "done"
  /\ pc' = [pc EXCEPT ![Main] = "done"]
  /\ UNCHANGED <<queueVars, LastItemProduced, Item, StopRequested>>

\* Nothing happens after the exit.
Exited == pc[Main] = "done" /\ UNCHANGED vars

------------------------------------------------------------------------------
\* Buffer starts zeroed, like every static variable of the program.
Init ==
  /\ Buffer = [i \in Slots |-> 0]
  /\ QueueStartOffset = 0
  /\ QueueSize = 0
  /\ LastItemProduced = 0
  /\ TotalItemsProduced = 0
  /\ TotalItemsConsumed = 0
  /\ StopRequested = FALSE
  /\ Item = [t \in Workers |-> 0]
  /\ pc = [t \in Workers \cup {Main} |-> "start"]

Producer(p) == Produce(p) \/ ResumeProduce(p) \/ SignalNotEmpty(p)

Consumer(c) == Consume(c) \/ SignalNotFull(c)

Stopping == WakeProducers \/ WakeConsumers \/ Exit

Next ==
  \/ \E p \in Producers : Producer(p) \/ SpuriousWakeup(p)
  \/ \E c \in Consumers : Consumer(c) \/ SpuriousWakeup(c)
  \/ RequestStop \/ Stopping \/ Exited

Spec == Init /\ [][Next]_vars

\* Every thread that can run does, and gets the lock it asks for; the user
\* need not press enter, and a wait need not end without a signal.
FairSpec ==
  /\ Spec
  /\ \A p \in Producers : WF_vars(Producer(p))
  /\ \A c \in Consumers : WF_vars(Consumer(c))
  /\ WF_vars(Stopping)

------------------------------------------------------------------------------
TypeOK ==
  /\ Buffer \in [Slots -> Nat]
  /\ QueueStartOffset \in Slots
  /\ QueueSize \in 0..BUFFER_SIZE
  /\ LastItemProduced \in Nat
  /\ TotalItemsProduced \in Nat
  /\ TotalItemsConsumed \in Nat
  /\ StopRequested \in BOOLEAN
  /\ Item \in [Workers -> Nat]
  /\ pc \in [Workers \cup {Main} ->
               {"start", "waiting", "woken", "signal", "done",
                "wake_producers", "wake_consumers", "join"}]

\* The totals main prints account for every item: what was produced and not
\* consumed is in the buffer, and at the exit that is nothing, although a
\* stop finds items in the buffer and consumers on their way to it.
TotalsAgree ==
  /\ TotalItemsProduced = TotalItemsConsumed + QueueSize
  /\ pc[Main] = "done" => TotalItemsProduced = TotalItemsConsumed

\* No wakeup is lost between the test of QueueSize and the wait: consumers do
\* not all sleep over a non-empty buffer, nor producers over one with room,
\* unless a thread is about to signal them.
NoLostWakeup ==
  /\ ~Empty /\ Waiting(Consumers) = Consumers
       => \E p \in Producers : pc[p] = "signal"
  /\ ~Full /\ Waiting(Producers) = Producers
       => \E c \in Consumers : pc[c] = "signal"

\* Once main has broadcast to a condition variable, no thread waits on it any
\* more: the stop, the tests of StopRequested and the broadcasts that follow
\* the unlock cannot pass each other.
StopReachesAll ==
  /\ pc[Main] \in {"wake_consumers", "join", "done"} => Waiting(Producers) = {}
  /\ pc[Main] \in {"join", "done"} => Waiting(Consumers) = {}

\* While main waits, for the user or for the threads, one of them goes on, or
\* they have all ended: the two sides do not sleep over each other.
SomebodyGoesOn ==
  pc[Main] \in {"start", "join"} =>
    \/ \E t \in Workers : pc[t] \notin {"waiting", "done"}
    \/ StopRequested /\ \A t \in Workers : pc[t] = "done"

\* The circular buffer read from the oldest item to the newest.
Queue == [i \in 1..QueueSize |-> Buffer[(QueueStartOffset + i - 1) % BUFFER_SIZE]]

Abstract ==
  INSTANCE BoundedQueue WITH queue <- Queue, got <- [c \in Consumers |-> Item[c]],
                             Items <- 0..MaxItems, Capacity <- BUFFER_SIZE

\* The circular buffer is a bounded first-in first-out queue.
ImplementsQueue == Abstract!Spec

\* After the user presses enter, the threads finish and main prints.
StopEndsProgram == StopRequested ~> (pc[Main] = "done")

\* Every item inserted is consumed, whether the program is stopped or not.
ItemsAreConsumed ==
  \A n \in 1..MaxItems : (TotalItemsProduced >= n) ~> (TotalItemsConsumed >= n)
==============================================================================
