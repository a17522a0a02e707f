------------------------------- MODULE Counters -------------------------------
(***************************************************************************)
(* The programs that add to one number, with a lock, without one, and with *)
(* one at the wrong place:                                                 *)
(*   "ThreadCount"  ch26/ThreadCount.c: until a limit, without a lock      *)
(*   "ThreadLock1"  ch27/ThreadLock1.c: the limit is tested outside of it  *)
(*   "ThreadLock2"  ch27/ThreadLock2.c: the limit is tested inside of it   *)
(*   "bad"          bad-bank-balance.c: a fixed number of times, unlocked  *)
(*   "hoisted"      the same when the compiler keeps the balance in a      *)
(*                  register during the loop, as it may                    *)
(*   "safe"         safe-bank-balance.c: a lock around each addition       *)
(*   "session"      bad_session of safe-bank-balance-starvation.c: a lock  *)
(*                  around all additions of a thread                       *)
(*   "shared"       shared-semaphores.c: two processes in turn             *)
(* An addition is a load and a store.                                      *)
(***************************************************************************)
EXTENDS Naturals, FiniteSets

CONSTANTS
  CounterPrograms,    \* the programs under study
  CounterThreads,     \* three
  Parent, Child,      \* those of "shared"
  limit,              \* 10
  iterations          \* the additions of a thread: count, nloop

CountersAssumption ==
  /\ CounterPrograms \subseteq {"ThreadCount", "ThreadLock1", "ThreadLock2", "bad",
                                 "hoisted", "safe", "session", "shared"}
  /\ IsFiniteSet(CounterThreads) /\ Cardinality(CounterThreads) = 3
  /\ Parent \in CounterThreads /\ Child \in CounterThreads \ {Parent}
  /\ limit \in Nat \ {0} /\ iterations \in Nat \ {0}

VARIABLES
  running,   \* the program that runs
  counter,   \* or balance, or temp
  locked,    \* whether a thread holds the mutex
  permits,   \* of "shared": mutex1 is the parent's and mutex2 the child's
  printed,   \* the number after the one printed last
  held,      \* the number each thread has loaded
  i,         \* the additions each thread has made in its for loop
  pc

vars == <<running, counter, locked, permits, printed, held, i, pc>>

Threads == IF running = "shared" THEN {Parent, Child} ELSE CounterThreads

ToLimit == running \in {"ThreadCount", "ThreadLock1", "ThreadLock2"}
TestInside == running \in {"ThreadLock2", "session"}
LockPerAddition == running \in {"ThreadLock1", "ThreadLock2", "safe"}

Goto(t, from, to) == pc[t] = from /\ pc' = [pc EXCEPT ![t] = to]

\* Where the threads begin, and go on after they have given up the lock.
Top == IF TestInside THEN "lock" ELSE "test"

\* The first step of an addition.
Work == IF ToLimit THEN "print" ELSE "load"

\* The condition of the loop.
More(t) == IF ToLimit THEN counter < limit ELSE i[t] < iterations

Test(t) ==
  /\ Goto(t, "test",
       IF ~More(t) THEN IF TestInside THEN "leave" ELSE "done"
       ELSE IF running = "shared" THEN "wait"
       ELSE IF LockPerAddition /\ ~TestInside THEN "lock"
       ELSE Work)
  /\ UNCHANGED <<running, counter, locked, permits, printed, held, i>>

\* Mutant: the lock is not waited for.
LockAnyway(t) ==
  /\ Goto(t, "lock", IF TestInside THEN "test" ELSE Work)
  /\ locked' = TRUE
  /\ UNCHANGED <<running, counter, permits, printed, held, i>>

Lock(t) ==
  /\ Goto(t, "lock", IF TestInside THEN "test" ELSE Work)
  /\ ~locked /\ locked' = TRUE
  /\ UNCHANGED <<running, counter, permits, printed, held, i>>

\* sem_wait of a process on its own semaphore.
WaitTurn(t) ==
  /\ Goto(t, "wait", "load")
  /\ permits[t] > 0
  /\ permits' = [permits EXCEPT ![t] = @ - 1]
  /\ UNCHANGED <<running, counter, locked, printed, held, i>>

PrintCounter(t) ==
  /\ Goto(t, "print", "load")
  /\ printed' = counter + 1
  /\ UNCHANGED <<running, counter, locked, permits, held, i>>

Load(t) ==
  /\ Goto(t, "load", "store")
  /\ held' = [held EXCEPT ![t] = counter]
  /\ UNCHANGED <<running, counter, locked, permits, printed, i>>

\* "shared" prints the number it has loaded.
Store(t) ==
  /\ Goto(t, "store", IF LockPerAddition THEN "unlock"
                      ELSE IF running = "shared" THEN "post" ELSE "test")
  /\ LET added == IF running = "hoisted" THEN iterations ELSE 1 IN
       /\ counter' = held[t] + added
       /\ i' = IF ToLimit THEN i ELSE [i EXCEPT ![t] = @ + added]
  /\ UNCHANGED <<running, locked, permits, printed, held>>

\* "leave" is the unlock of a thread that has found that it is done.
Unlock(t) ==
  /\ Goto(t, "unlock", Top) \/ Goto(t, "leave", "done")
  /\ locked' = FALSE
  /\ UNCHANGED <<running, counter, permits, printed, held, i>>

\* sem_post of a process on the semaphore of the other.
PostTurn(t) ==
  /\ Goto(t, "post", "test")
  /\ permits' = [permits EXCEPT ![IF t = Parent THEN Child ELSE Parent] = @ + 1]
  /\ UNCHANGED <<running, counter, locked, printed, held, i>>

------------------------------------------------------------------------------
Init ==
  /\ running \in CounterPrograms
  /\ counter = 0 /\ locked = FALSE /\ printed = 0
  /\ permits = [t \in {Parent, Child} |-> IF t = Parent THEN 1 ELSE 0]
  /\ held = [t \in CounterThreads |-> 0]
  /\ i = [t \in CounterThreads |-> 0]
  /\ pc = [t \in CounterThreads |-> Top]

Step(t) ==
  \/ Test(t) \/ Lock(t) \/ WaitTurn(t) \/ PrintCounter(t)
  \/ Load(t) \/ Store(t) \/ Unlock(t) \/ PostTurn(t)

Next == \E t \in Threads : Step(t)

Spec == Init /\ [][Next]_vars

\* Every thread that can take a step takes one.
FairSpec == Spec /\ \A t \in CounterThreads : WF_vars(t \in Threads /\ Step(t))

------------------------------------------------------------------------------
AllDone == \A t \in Threads : pc[t] = "done"

N == Cardinality(Threads)

\* The numbers three threads can end with.  In ThreadLock1 a thread that has
\* passed the test adds once more after the others have reached the limit.  In
\* ThreadCount a late store of a small number takes the counter back, and lets
\* the others pass the test while one of them holds a number above the limit.
\* All but two of the unlocked additions of the balance may be lost: a thread
\* loads 0 and stores 1 when only the last addition of another is left, which
\* loads that 1 and is stored at the end.
Results ==
  CASE running = "ThreadLock2" -> {limit}
    [] running = "ThreadLock1" -> limit..limit + N - 1
    [] running = "ThreadCount" -> limit..2 * limit + 1
    [] running \in {"safe", "session", "shared"} -> {N * iterations}
    [] running = "hoisted" -> {n * iterations : n \in 1..N}
    [] running = "bad" -> (IF iterations = 1 THEN 1 ELSE 2)..N * iterations

\* What the programs print at the end; under the lock the numbers are printed
\* in order and each of them once; the processes of shared-semaphores.c take
\* the numbers in turn.
CountsRight ==
  /\ AllDone => counter \in Results
  /\ running \in {"ThreadLock1", "ThreadLock2"} =>
       \A t \in Threads : pc[t] = "print" => counter = printed
  /\ running = "shared" =>
       \A t \in Threads : pc[t] = "store" =>
         held[t] = counter /\ (held[t] % 2 = 0 <=> t = Parent)

\* Every program ends, even if the additions of the others undo the thread's
\* own.
CountersEnd == <>AllDone
==============================================================================
