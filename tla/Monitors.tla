------------------------------- MODULE Monitors -------------------------------
(***************************************************************************)
(* Three monitors that keep messages, with the threads that use them:      *)
(* the box of one message in C (ch26/BoxMon/Box.c) and in Java (Box.java), *)
(* whose threads put a message and then get one (BoxMon.c, TryBox.java),   *)
(* and the shared queue of synchronization-part2/monitors/java with its    *)
(* producers and consumers (SharedQueue.java).                             *)
(*                                                                         *)
(* Each monitor has one condition for all that wait in it.  What a thread  *)
(* does in the monitor, from entering it or from the end of its wait to    *)
(* leaving it, is one step; C signals after the unlock, one step later.    *)
(***************************************************************************)
EXTENDS Naturals, SequencesExt, CondVar

CONSTANTS
  MonitorPrograms,        \* the programs under study: "BoxMon", "TryBox", "PC"
  maxSize,                \* of the shared queue
  Messages,
  BoxThreads,             \* two in the code
  Producers, Consumers    \* of the shared queue

MonitorsAssumption ==
  /\ MonitorPrograms \subseteq {"BoxMon", "TryBox", "PC"}
  /\ maxSize \in Nat \ {0}
  /\ Messages # {}
  /\ (BoxThreads \cup Producers) \cap Consumers = {}

VARIABLES
  monitor,   \* the program that runs
  queue,     \* the messages in the monitor
  op,        \* the operation each thread is at: "put" or "get"
  msg,       \* the message each thread puts
  got        \* the message each thread got last
  \* pc, of CondVar

vars == <<monitor, queue, op, msg, got, pc>>

\* What got holds before the first message.
NoMessageYet == CHOOSE m \in Messages : TRUE

AllThreads == BoxThreads \cup Producers \cup Consumers
Threads == IF monitor = "PC" THEN Producers \cup Consumers ELSE BoxThreads

Capacity == IF monitor = "PC" THEN maxSize ELSE 1

\* The conditions of the while loops around wait.
MustWait(t) == IF op[t] = "put" THEN Len(queue) = Capacity ELSE queue = <<>>

Wait(t) ==
  /\ pc[t] \in {"begin", "woken"} /\ MustWait(t)
  /\ pc' = [pc EXCEPT ![t] = "waiting"]
  /\ UNCHANGED <<monitor, queue, op, msg, got>>

Enter(t) == pc[t] \in {"begin", "woken"} /\ ~MustWait(t)

\* putMessage appends; getMessage takes the first element and removes the
\* first one that equals it.  The box is a queue of one.
Transfer(t) ==
  IF op[t] = "put"
  THEN queue' = Append(queue, msg[t]) /\ UNCHANGED got
  ELSE /\ got' = [got EXCEPT ![t] = Head(queue)]
       /\ queue' = RemoveFirst(queue, Head(queue))

\* The threads at a box get after they have put, and end after they have got.
\* A producer puts another message (the date), a consumer gets another.
Continue(t) ==
  /\ op' = [op EXCEPT ![t] = IF monitor = "PC" THEN @ ELSE "get"]
  /\ IF monitor = "PC" /\ op[t] = "put"
     THEN \E m \in Messages : msg' = [msg EXCEPT ![t] = m]
     ELSE UNCHANGED msg

After(t) == IF monitor # "PC" /\ op[t] = "get" THEN "done" ELSE "begin"

------------------------------------------------------------------------------
\* Box.c: the mutex is given up before the signal is sent.
BoxMon(t) ==
  /\ monitor = "BoxMon"
  /\ Enter(t)
  /\ Transfer(t)
  /\ pc' = [pc EXCEPT ![t] = "signal"]
  /\ UNCHANGED <<monitor, op, msg>>

Signal(t) ==
  /\ pc[t] = "signal"
  /\ SignalOne(t, Threads, After(t))
  /\ Continue(t)
  /\ UNCHANGED <<monitor, queue, got>>

\* Box.java: notify() inside the monitor.
TryBox(t) ==
  /\ monitor = "TryBox"
  /\ Enter(t)
  /\ Transfer(t)
  /\ SignalOne(t, Threads, After(t))
  /\ Continue(t)
  /\ UNCHANGED monitor

\* Mutant: notify() where both sides wait for one condition.
PCNotifyOne(t) ==
  /\ monitor = "PC"
  /\ Enter(t)
  /\ Transfer(t)
  /\ SignalOne(t, Threads, After(t))
  /\ Continue(t)
  /\ UNCHANGED monitor

\* SharedQueue.java: notifyAll() inside the monitor.
PC(t) ==
  /\ monitor = "PC"
  /\ Enter(t)
  /\ Transfer(t)
  /\ SignalAll(t, Threads, After(t))
  /\ Continue(t)
  /\ UNCHANGED monitor

SpuriousWakeup(t) ==
  /\ WakeSpuriously(t)
  /\ UNCHANGED <<monitor, queue, op, msg, got>>

------------------------------------------------------------------------------
Init ==
  /\ monitor \in MonitorPrograms
  /\ queue = <<>>
  /\ op = [t \in Threads |-> IF t \in Consumers THEN "get" ELSE "put"]
  /\ msg \in [Threads -> Messages]
  /\ got = [t \in Threads |-> NoMessageYet]
  /\ pc = [t \in Threads |-> "begin"]

Step(t) == Wait(t) \/ BoxMon(t) \/ Signal(t) \/ TryBox(t) \/ PC(t)

Next == \E t \in Threads : Step(t) \/ SpuriousWakeup(t)

Spec == Init /\ [][Next]_vars

\* Every thread that can take a step takes one.
FairSpec == Spec /\ \A t \in AllThreads : WF_vars(t \in Threads /\ Step(t))

------------------------------------------------------------------------------
Abstract ==
  INSTANCE BoundedQueue WITH Consumers <- AllThreads, Items <- Messages, Capacity <- maxSize,
    got <- [t \in AllThreads |-> IF t \in Threads THEN got[t] ELSE NoMessageYet]

\* Messages leave in the order of their puts, each of them once.
ImplementsQueue == Abstract!Spec

\* A box has one condition for both sides, and wakes one thread: the wrong
\* one, if a thread waited to get.  None does, because each thread puts
\* before it gets; and for the same reason each prints its own message.
BoxGivesOwn ==
  monitor # "PC" =>
    \A t \in Threads : /\ pc[t] = "waiting" => op[t] = "put"
                       /\ pc[t] = "done" => got[t] = msg[t]

\* A thread that waits at the shared queue still has to: no notification is
\* spent on a thread of the wrong side.
WaitersHaveReason ==
  monitor = "PC" => \A t \in Waiting(Threads) : MustWait(t)

\* The threads at a box end; puts and gets at the shared queue go on for
\* ever, although producers and consumers wait for one condition.
MonitorsGoOn ==
  /\ monitor # "PC" => <>(\A t \in Threads : pc[t] = "done")
  /\ monitor = "PC" => /\ []<><<\E t \in Producers : PC(t)>>_vars
                       /\ []<><<\E t \in Consumers : PC(t)>>_vars
==============================================================================
