------------------------------ MODULE Checkpoint ------------------------------
(***************************************************************************)
(* examples/synchronization-part1/checkpoint.c: an alarm stops one thread  *)
(* of the program after the other in a signal handler.  When all of them   *)
(* are stopped one saves the state, and they go on.                        *)
(*                                                                         *)
(* The kernel gives an alarm to any one thread that is not in the handler, *)
(* and keeps one alarm while all of them are.  thread_count is loaded and  *)
(* stored in two steps: it is decremented under mutex1 and incremented     *)
(* under mutex2.  The timer of the process may run down at any time.       *)
(***************************************************************************)
EXTENDS Integers, FiniteSets

CONSTANT numThreads   \* with the main thread, which is 0

ASSUME CheckpointAssumption == numThreads \in Nat \ {0}

VARIABLES
  mutex1, mutex2, mutex3,   \* the values of the semaphores
  thread_count, saved,
  loaded,                   \* the thread_count each thread has loaded
  main,                     \* what main does when it is not in the handler
  created,                  \* the number of threads that exist
  armed, pending,           \* of the alarm
  saves, seen,              \* the saves, modulo 3: so far, at the thread's entry
  pc

sems == <<mutex1, mutex2, mutex3>>
alarms == <<armed, pending>>
vars == <<sems, thread_count, saved, loaded, main, created, alarms, saves, seen, pc>>

Threads == 0..numThreads - 1

Goto(t, from, to) == pc[t] = from /\ pc' = [pc EXCEPT ![t] = to]

------------------------------------------------------------------------------
(* main, whose first alarm is set before the semaphores are.               *)

InitState ==
  /\ pc[0] = "run" /\ main = "init"
  /\ main' = "create"
  /\ mutex1' = 1 /\ mutex2' = 1 /\ mutex3' = 1
  /\ thread_count' = numThreads
  /\ UNCHANGED <<saved, loaded, created, alarms, saves, seen, pc>>

\* pthread_create, and the call of alarm at the beginning of threadMain.
CreateThread ==
  /\ pc[0] = "run" /\ main = "create"
  /\ IF created < numThreads
     THEN /\ created' = created + 1
          /\ pc' = [pc EXCEPT ![created] = "run"]
          /\ armed' = TRUE
          /\ UNCHANGED main
     ELSE main' = "join" /\ UNCHANGED <<created, pc, armed>>
  /\ UNCHANGED <<sems, thread_count, saved, loaded, pending, saves, seen>>

------------------------------------------------------------------------------
RunDown ==
  /\ armed
  /\ armed' = FALSE /\ pending' = TRUE
  /\ UNCHANGED <<sems, thread_count, saved, loaded, main, created, saves, seen, pc>>

\* Mutant: the handler does not set the next alarm.
DeliverOnce(t) ==
  /\ pending
  /\ Goto(t, "run", "wait1")
  /\ pending' = FALSE
  /\ seen' = [seen EXCEPT ![t] = saves]
  /\ UNCHANGED <<sems, thread_count, saved, loaded, main, created, armed, saves>>

\* Thread t enters sighandler, which sets the next alarm.
Deliver(t) ==
  /\ pending
  /\ Goto(t, "run", "wait1")
  /\ pending' = FALSE /\ armed' = TRUE
  /\ seen' = [seen EXCEPT ![t] = saves]
  /\ UNCHANGED <<sems, thread_count, saved, loaded, main, created, saves>>

\* Phase 1
Wait1(t) ==
  /\ Goto(t, "wait1", "load1")
  /\ mutex1 > 0 /\ mutex1' = mutex1 - 1
  /\ UNCHANGED <<mutex2, mutex3, thread_count, saved, loaded, main, created, alarms, saves, seen>>

Load1(t) ==
  /\ Goto(t, "load1", "store1")
  /\ loaded' = [loaded EXCEPT ![t] = thread_count]
  /\ UNCHANGED <<sems, thread_count, saved, main, created, alarms, saves, seen>>

Store1(t) ==
  /\ Goto(t, "store1", "post1")
  /\ thread_count' = loaded[t] - 1
  /\ UNCHANGED <<sems, saved, loaded, main, created, alarms, saves, seen>>

Post1(t) ==
  /\ Goto(t, "post1", "wait2")
  /\ mutex1' = mutex1 + 1
  /\ UNCHANGED <<mutex2, mutex3, thread_count, saved, loaded, main, created, alarms, saves, seen>>

\* Phase 2
Wait2(t) ==
  /\ Goto(t, "wait2", "test2")
  /\ mutex2 > 0 /\ mutex2' = mutex2 - 1
  /\ UNCHANGED <<mutex1, mutex3, thread_count, saved, loaded, main, created, alarms, saves, seen>>

Test2(t) ==
  /\ Goto(t, "test2", IF saved THEN "load2" ELSE "spin2")
  /\ UNCHANGED <<sems, thread_count, saved, loaded, main, created, alarms, saves, seen>>

\* Mutant: the thread that saves does not wait for the others.
DontSpin2(t) ==
  /\ Goto(t, "spin2", "save")
  /\ UNCHANGED <<sems, thread_count, saved, loaded, main, created, alarms, saves, seen>>

\* The end of while (thread_count != 0).
Spin2(t) ==
  /\ Goto(t, "spin2", "save")
  /\ thread_count = 0
  /\ UNCHANGED <<sems, thread_count, saved, loaded, main, created, alarms, saves, seen>>

\* savestate() and saved = TRUE
Save(t) ==
  /\ Goto(t, "save", "load2")
  /\ saved' = TRUE
  /\ saves' = (saves + 1) % 3
  /\ UNCHANGED <<sems, thread_count, loaded, main, created, alarms, seen>>

Load2(t) ==
  /\ Goto(t, "load2", "store2")
  /\ loaded' = [loaded EXCEPT ![t] = thread_count]
  /\ UNCHANGED <<sems, thread_count, saved, main, created, alarms, saves, seen>>

Store2(t) ==
  /\ Goto(t, "store2", "post2")
  /\ thread_count' = loaded[t] + 1
  /\ UNCHANGED <<sems, saved, loaded, main, created, alarms, saves, seen>>

Post2(t) ==
  /\ Goto(t, "post2", "wait3")
  /\ mutex2' = mutex2 + 1
  /\ UNCHANGED <<mutex1, mutex3, thread_count, saved, loaded, main, created, alarms, saves, seen>>

\* Phase 3
Wait3(t) ==
  /\ Goto(t, "wait3", "test3")
  /\ mutex3 > 0 /\ mutex3' = mutex3 - 1
  /\ UNCHANGED <<mutex1, mutex2, thread_count, saved, loaded, main, created, alarms, saves, seen>>

Test3(t) ==
  /\ Goto(t, "test3", IF saved THEN "spin3" ELSE "post3")
  /\ UNCHANGED <<sems, thread_count, saved, loaded, main, created, alarms, saves, seen>>

\* Mutant: the thread that ends the round does not wait for the others.
DontSpin3(t) ==
  /\ Goto(t, "spin3", "post3")
  /\ saved' = FALSE
  /\ UNCHANGED <<sems, thread_count, loaded, main, created, alarms, saves, seen>>

\* The end of while (thread_count != numThreads), and saved = FALSE.
Spin3(t) ==
  /\ Goto(t, "spin3", "post3")
  /\ thread_count = numThreads
  /\ saved' = FALSE
  /\ UNCHANGED <<sems, thread_count, loaded, main, created, alarms, saves, seen>>

\* The last statement of sighandler: the thread goes on where it was.
Post3(t) ==
  /\ Goto(t, "post3", "run")
  /\ mutex3' = mutex3 + 1
  /\ UNCHANGED <<mutex1, mutex2, thread_count, saved, loaded, main, created, alarms, saves, seen>>

------------------------------------------------------------------------------
Init ==
  /\ mutex1 = 0 /\ mutex2 = 0 /\ mutex3 = 0
  /\ thread_count = 0
  /\ saved = FALSE
  /\ loaded = [t \in Threads |-> 0]
  /\ main = "init"
  /\ created = 1
  /\ armed = TRUE /\ pending = FALSE
  /\ saves = 0
  /\ seen = [t \in Threads |-> 0]
  /\ pc = [t \in Threads |-> IF t = 0 THEN "run" ELSE "none"]

phase1(t) == Wait1(t) \/ Load1(t) \/ Store1(t) \/ Post1(t)

phase2(t) == Wait2(t) \/ Test2(t) \/ Spin2(t) \/ Save(t) \/ Load2(t) \/ Store2(t) \/ Post2(t)

phase3(t) == Wait3(t) \/ Test3(t) \/ Spin3(t) \/ Post3(t)

sighandler(t) == phase1(t) \/ phase2(t) \/ phase3(t)

mainStep == InitState \/ CreateThread

alarmStep == RunDown \/ \E t \in Threads : Deliver(t)

Next == mainStep \/ alarmStep \/ \E t \in Threads : sighandler(t)

Spec == Init /\ [][Next]_vars

\* The threads run, the timer runs down, and an alarm is given to a thread
\* if one can take it.
FairSpec ==
  /\ Spec
  /\ WF_vars(mainStep) /\ WF_vars(alarmStep)
  /\ \A t \in Threads : WF_vars(sighandler(t))

------------------------------------------------------------------------------
At(places) == {t \in Threads : pc[t] \in places}

\* The threads that have decremented thread_count and not yet incremented it.
Stopped == At({"post1", "wait2", "test2", "spin2", "save", "load2", "store2"})

\* The state is saved while every thread is stopped: none is lost in the
\* count, although it is decremented and incremented under different mutexes
\* and outside of the one the test holds.
SavedWhileStopped ==
  /\ At({"save"}) # {} => Stopped = Threads
  /\ main # "init" => thread_count = numThreads - Cardinality(Stopped)

\* Each call of the handler takes part in one save: a thread that is late to
\* leave a round is not taken into the next, and none skips a round.
OneSavePerCall ==
  \A t \in Threads :
    /\ pc[t] \in {"load2", "store2", "post2", "wait3", "test3", "spin3", "post3"} =>
         saves = (seen[t] + 1) % 3
    /\ pc[t] \in {"wait1", "load1", "store1", "spin2", "save"} => saves = seen[t]

\* Rounds go on for ever, unless an alarm stops main before it has created
\* the threads that the others then wait for.
RoundsGoOn ==
  \/ []<>(At({"save"}) # {})
  \/ <>[](pc[0] # "run" /\ main # "join")
==============================================================================
