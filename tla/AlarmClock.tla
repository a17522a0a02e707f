------------------------------ MODULE AlarmClock ------------------------------
(***************************************************************************)
(* The alarm clock monitor of synchronization-part2/monitors/pthreads with *)
(* its test program: threads sleep in setAlarm, and the SIGALRM handler,   *)
(* which runs on the stack of whichever thread the kernel interrupts,      *)
(* calls tick and sets the next alarm.                                     *)
(*                                                                         *)
(* tick holds the mutex from its first statement to its last, and is one   *)
(* step.  A thread can be interrupted while it holds the mutex.            *)
(***************************************************************************)
EXTENDS Naturals, CondVar

CONSTANTS
  Sleepers,    \* the threads but main
  MainThread,
  Nobody,      \* the owner of a free mutex
  MaxPeriod,   \* 4 in the code
  count        \* alarms of each thread

AlarmClockAssumption ==
  /\ MainThread \notin Sleepers
  /\ Nobody \notin Sleepers \cup {MainThread}
  /\ MaxPeriod \in Nat \ {0}
  /\ count \in Nat

VARIABLES
  mainFirst,   \* the kernel gives the signal to the main thread if it can
  mutex,       \* its owner
  left,        \* period - now, for each thread: the ticks to its deadline
  rounds,      \* the alarms each thread still sets
  victim       \* the thread that runs the handler
  \* pc, of CondVar

vars == <<mainFirst, mutex, left, rounds, victim, pc>>

\* The handler runs instead of the thread it interrupts.
Runs(t) == victim # t

\* The first statements of setAlarm.
LockAndSet(t) ==
  /\ Runs(t)
  /\ pc[t] = "idle" /\ rounds[t] > 0 /\ mutex = Nobody
  /\ mutex' = t
  /\ \E period \in 1..MaxPeriod : left' = [left EXCEPT ![t] = period]
  /\ rounds' = [rounds EXCEPT ![t] = @ - 1]
  /\ pc' = [pc EXCEPT ![t] = "test"]
  /\ UNCHANGED <<mainFirst, victim>>

\* pthread_cond_wait: gives the mutex up and waits, in one.
Wait(t) ==
  /\ Runs(t)
  /\ pc[t] = "test" /\ left[t] > 0
  /\ mutex' = Nobody
  /\ pc' = [pc EXCEPT ![t] = "waiting"]
  /\ UNCHANGED <<mainFirst, left, rounds, victim>>

\* The end of pthread_cond_wait.
Relock(t) ==
  /\ Runs(t)
  /\ pc[t] = "woken" /\ mutex = Nobody
  /\ mutex' = t
  /\ pc' = [pc EXCEPT ![t] = "test"]
  /\ UNCHANGED <<mainFirst, left, rounds, victim>>

\* The alarm has rung.
Unlock(t) ==
  /\ Runs(t)
  /\ pc[t] = "test" /\ left[t] = 0
  /\ mutex' = Nobody
  /\ pc' = [pc EXCEPT ![t] = "idle"]
  /\ UNCHANGED <<mainFirst, left, rounds, victim>>

Exit(t) ==
  /\ Runs(t)
  /\ pc[t] = "idle" /\ rounds[t] = 0
  /\ pc' = [pc EXCEPT ![t] = "exit"]
  /\ UNCHANGED <<mainFirst, mutex, left, rounds, victim>>

SpuriousWakeup(t) ==
  /\ WakeSpuriously(t)
  /\ UNCHANGED <<mainFirst, mutex, left, rounds, victim>>

\* SIGALRM is for the process: POSIX lets any thread take it, Linux prefers
\* the main thread, which waits in pthread_join.
Alarm(t) ==
  /\ victim = Nobody
  /\ mainFirst => t = MainThread
  /\ t \in Sleepers => pc[t] # "exit"
  /\ \E u \in Sleepers : pc[u] # "exit"
  /\ victim' = t
  /\ UNCHANGED <<mainFirst, mutex, left, rounds, pc>>

\* Mutant: pthread_cond_signal instead of pthread_cond_broadcast.
TickSignalsOne ==
  /\ victim # Nobody /\ mutex = Nobody
  /\ left' = [t \in Sleepers |-> IF left[t] > 0 THEN left[t] - 1 ELSE 0]
  /\ \/ Waiting(Sleepers) = {} /\ UNCHANGED pc
     \/ \E w \in Waiting(Sleepers) : pc' = [pc EXCEPT ![w] = "woken"]
  /\ victim' = Nobody
  /\ UNCHANGED <<mainFirst, mutex, rounds>>

\* tick, called by signalHandler, and alarm(1), its last statement.
Tick ==
  /\ victim # Nobody /\ mutex = Nobody
  /\ left' = [t \in Sleepers |-> IF left[t] > 0 THEN left[t] - 1 ELSE 0]
  /\ pc' = [t \in Sleepers |-> IF pc[t] = "waiting" THEN "woken" ELSE pc[t]]
  /\ victim' = Nobody
  /\ UNCHANGED <<mainFirst, mutex, rounds>>

Init ==
  /\ mainFirst \in BOOLEAN
  /\ mutex = Nobody
  /\ left = [t \in Sleepers |-> 0]
  /\ rounds = [t \in Sleepers |-> count]
  /\ victim = Nobody
  /\ pc = [t \in Sleepers |-> "idle"]

setAlarm(t) == LockAndSet(t) \/ Wait(t) \/ Relock(t) \/ Unlock(t) \/ Exit(t)

signalHandler == Tick \/ \E t \in Sleepers \cup {MainThread} : Alarm(t)

Next == signalHandler \/ \E t \in Sleepers : setAlarm(t) \/ SpuriousWakeup(t)

Spec == Init /\ [][Next]_vars

\* Alarms go off, and a thread that asks for the mutex time and again gets it.
FairSpec ==
  /\ Spec
  /\ SF_vars(signalHandler)
  /\ \A t \in Sleepers : SF_vars(setAlarm(t))

------------------------------------------------------------------------------
\* The handler waits for the mutex of the thread it has interrupted.
SelfDeadlock == victim # Nobody /\ mutex = victim

\* No thread is asleep past its deadline, whatever other deadlines there are.
NobodyOversleeps == \A t \in Waiting(Sleepers) : left[t] > 0

\* All the alarms ring in time, unless SIGALRM interrupts a thread in
\* setAlarm: the handler then waits for that thread and the whole clock stops.
\* Linux spares the program that.
AlarmsRing ==
  /\ []NobodyOversleeps
  /\ \/ \A t \in Sleepers : <>(pc[t] = "exit")
     \/ <>[]SelfDeadlock /\ ~mainFirst

\* A thread that cannot go on: the handler runs on its stack, it asks for the
\* mutex and does not get it, or it is asleep or has finished.
Waits(t) ==
  \/ ~Runs(t)
  \/ mutex # Nobody /\ (pc[t] = "woken" \/ (pc[t] = "idle" /\ rounds[t] > 0))
  \/ pc[t] \in {"waiting", "exit"}

\* Neither a thread nor the handler can go on, and no alarm comes before the
\* handler returns.
Stopped == victim # Nobody /\ mutex # Nobody /\ \A t \in Sleepers : Waits(t)

\* Nothing stops the clock but a handler that waits for the thread it has
\* interrupted, and with main in front of the others not even that.
OnlyTheHandlerBlocks ==
  /\ Stopped => SelfDeadlock
  /\ SelfDeadlock => ~mainFirst

\* Once stopped it stays so.
StopsForGood == [][SelfDeadlock => SelfDeadlock']_vars
==============================================================================
