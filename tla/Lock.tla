--------------------------------- MODULE Lock ---------------------------------
(***************************************************************************)
(* The homemade lock of chapter 28 (Lock.c, Wait.c and the atomic_lock     *)
(* variants of x86 and aarch64) under its client, ThreadLock.c.            *)
(*                                                                         *)
(* One step is one atomic access to memory shared by the threads: a locked *)
(* instruction, a store to the lock word, one half of a load-exclusive /   *)
(* store-exclusive pair, a futex call, or a load or a store of counter.    *)
(* The lock variant and the way a thread waits are picked by the makefile  *)
(* when the program is built, so `build' is chosen in the initial state    *)
(* and never changes.                                                      *)
(***************************************************************************)
EXTENDS Integers, Sequences, FiniteSets

CONSTANTS
  Threads,   \* the threads that run count()
  NoThread,  \* not a thread
  Builds,    \* the makefile's choices under study: records [atomic, block]
  Last       \* the last value printed: 9 in the code

AtomicVariants == {"TestAndSet", "CompareAndExchange", "ExchangeAndAdd",
                   "LoadLinkedAndStoreConditional"}
BlockVariants  == {"Spin", "Yield", "Wait"}

ASSUME LockAssumption ==
  /\ IsFiniteSet(Threads)
  /\ NoThread \notin Threads
  /\ Builds \subseteq [atomic : AtomicVariants, block : BlockVariants]
  /\ Last \in Nat

VARIABLES
  build,      \* the variants compiled in
  word,       \* *lck, the lock word
  exclusive,  \* the threads whose exclusive monitor still covers *lck
  asleep,     \* the threads queued in the kernel on the futex *lck
  counter,    \* the variable the lock protects
  register,   \* counter as each thread last loaded it
  printed,    \* the output of the program
  leaving,    \* the threads that saw counter>9 and unlock before they break
  pc

vars == <<build, word, exclusive, asleep, counter, register, printed, leaving, pc>>

Xadd == build.atomic = "ExchangeAndAdd"
Llsc == build.atomic = "LoadLinkedAndStoreConditional"

Goto(t, from, to) == pc[t] = from /\ pc' = [pc EXCEPT ![t] = to]

\* The program counters between a lock() that returned and its unlock().
CriticalSection == {"test", "print", "load", "store", "unlock"}

Owner(t) == pc[t] \in CriticalSection

\* The threads whose increment is in the lock word.
Counted == {t \in Threads : Owner(t) \/ pc[t] = "undo"}

------------------------------------------------------------------------------
(* lock(): while (atomic_lock(lck)) ...                                    *)

\* Where a failed atomic_lock leads: Wait builds call wait(lck), the others
\* try again at once or after sched_yield().
AfterFailure == IF build.block = "Wait" THEN "futex" ELSE "lock"

\* btsw $0 and cmpxchg: the old value is fetched and 1 left in the word by
\* one locked instruction.
SetBit(t) ==
  /\ ~Xadd /\ ~Llsc
  /\ Goto(t, "lock", IF word = 0 THEN "test" ELSE AfterFailure)
  /\ word' = 1
  /\ UNCHANGED <<build, exclusive, asleep, counter, register, printed, leaving>>

\* xadd adds one whether the word was 0 (the caller locked it) or not.
ExchangeAndAdd(t) ==
  /\ Xadd
  /\ Goto(t, "lock", IF word = 0 THEN "test" ELSE "undo")
  /\ word' = word + 1
  /\ UNCHANGED <<build, exclusive, asleep, counter, register, printed, leaving>>

\* decw takes the increment of a failed attempt back, an instruction later.
UndoAdd(t) ==
  /\ Goto(t, "undo", AfterFailure)
  /\ word' = word - 1
  /\ UNCHANGED <<build, exclusive, asleep, counter, register, printed, leaving>>

\* Mutant: the cbnz after ldxr is missing.
LoadExclusiveAlways(t) ==
  /\ Llsc
  /\ Goto(t, "lock", "stxr")
  /\ exclusive' = exclusive \cup {t}
  /\ UNCHANGED <<build, word, asleep, counter, register, printed, leaving>>

\* ldxr arms the exclusive monitor; a locked word ends the attempt.
LoadExclusive(t) ==
  /\ Llsc
  /\ Goto(t, "lock", IF word = 0 THEN "stxr" ELSE AfterFailure)
  /\ exclusive' = exclusive \cup {t}
  /\ UNCHANGED <<build, word, asleep, counter, register, printed, leaving>>

\* Mutant: a plain store in the place of the store-exclusive.
StorePlain(t) ==
  /\ Goto(t, "stxr", "test")
  /\ word' = 1
  /\ exclusive' = {}
  /\ UNCHANGED <<build, asleep, counter, register, printed, leaving>>

\* stxr stores 1 if the monitor is still armed, which disarms all others.
StoreExclusive(t) ==
  /\ t \in exclusive
  /\ Goto(t, "stxr", "test")
  /\ word' = 1
  /\ exclusive' = {}
  /\ UNCHANGED <<build, asleep, counter, register, printed, leaving>>

\* stxr fails when the monitor was lost: cbnz w2,1b tries again from ldxr.
StoreExclusiveFails(t) ==
  /\ t \notin exclusive
  /\ Goto(t, "stxr", "lock")
  /\ UNCHANGED <<build, word, exclusive, asleep, counter, register, printed, leaving>>

\* A context switch, an interrupt or an eviction clears a thread's monitor.
LoseExclusive(t) ==
  /\ t \in exclusive
  /\ pc[t] = "stxr"
  /\ exclusive' = exclusive \ {t}
  /\ UNCHANGED <<build, word, asleep, counter, register, printed, leaving, pc>>

\* Mutant: wait() sleeps without comparing the word with 1.
SleepAlways(t) ==
  /\ Goto(t, "futex", "asleep")
  /\ asleep' = asleep \cup {t}
  /\ UNCHANGED <<build, word, exclusive, counter, register, printed, leaving>>

\* wait(): the kernel queues the caller if the word still holds 1, and
\* otherwise returns EAGAIN, which wait() takes for success.
FutexWait(t) ==
  /\ Goto(t, "futex", IF word = 1 THEN "asleep" ELSE "lock")
  /\ asleep' = IF word = 1 THEN asleep \cup {t} ELSE asleep
  /\ UNCHANGED <<build, word, exclusive, counter, register, printed, leaving>>

\* FUTEX_WAIT may return 0 although nobody called FUTEX_WAKE.
SpuriousWakeup(t) ==
  /\ Goto(t, "asleep", "lock")
  /\ asleep' = asleep \ {t}
  /\ UNCHANGED <<build, word, exclusive, counter, register, printed, leaving>>

------------------------------------------------------------------------------
(* count(): the critical section                                           *)

\* Mutant: the test of counter is off by one.
TestCounterLate(t) ==
  /\ Goto(t, "test", IF counter > Last + 1 THEN "unlock" ELSE "print")
  /\ leaving' = IF counter > Last + 1 THEN leaving \cup {t} ELSE leaving
  /\ UNCHANGED <<build, word, exclusive, asleep, counter, register, printed>>

\* if (counter>9): leave the loop after an unlock, or go on to print.
TestCounter(t) ==
  /\ Goto(t, "test", IF counter > Last THEN "unlock" ELSE "print")
  /\ leaving' = IF counter > Last THEN leaving \cup {t} ELSE leaving
  /\ UNCHANGED <<build, word, exclusive, asleep, counter, register, printed>>

PrintCounter(t) ==
  /\ Goto(t, "print", "load")
  /\ printed' = Append(printed, counter)
  /\ UNCHANGED <<build, word, exclusive, asleep, counter, register, leaving>>

\* counter=counter+1 is a load and a store.
LoadCounter(t) ==
  /\ Goto(t, "load", "store")
  /\ register' = [register EXCEPT ![t] = counter]
  /\ UNCHANGED <<build, word, exclusive, asleep, counter, printed, leaving>>

StoreCounter(t) ==
  /\ Goto(t, "store", "unlock")
  /\ counter' = register[t] + 1
  /\ UNCHANGED <<build, word, exclusive, asleep, register, printed, leaving>>

------------------------------------------------------------------------------
(* unlock(): atomic_unlock(lck), and wake(lck) in the Wait builds          *)

AfterUnlock(t) == IF t \in leaving THEN "done" ELSE "lock"

\* decw in the exchange-and-add build, a store of 0 in the others; a store
\* to the word clears every exclusive monitor on it.
Unlock(t) ==
  /\ Goto(t, "unlock", IF build.block = "Wait" THEN "wake" ELSE AfterUnlock(t))
  /\ word' = IF Xadd THEN word - 1 ELSE 0
  /\ exclusive' = {}
  /\ UNCHANGED <<build, asleep, counter, register, printed, leaving>>

\* Mutant: unlock() without its wake().
WakeNobody(t) ==
  /\ Goto(t, "wake", AfterUnlock(t))
  /\ UNCHANGED <<build, word, exclusive, asleep, counter, register, printed, leaving>>

\* FUTEX_WAKE of 1: one sleeper, if there is one, goes back to atomic_lock.
Wake(t) ==
  /\ pc[t] = "wake"
  /\ \/ /\ asleep = {}
        /\ pc' = [pc EXCEPT ![t] = AfterUnlock(t)]
        /\ UNCHANGED asleep
     \/ \E s \in asleep :
          /\ asleep' = asleep \ {s}
          /\ pc' = [pc EXCEPT ![t] = AfterUnlock(t), ![s] = "lock"]
  /\ UNCHANGED <<build, word, exclusive, counter, register, printed, leaving>>

------------------------------------------------------------------------------
Init ==
  /\ build \in Builds
  /\ word = 0
  /\ exclusive = {}
  /\ asleep = {}
  /\ counter = 0
  /\ register = [t \in Threads |-> 0]
  /\ printed = <<>>
  /\ leaving = {}
  /\ pc = [t \in Threads |-> "lock"]

\* What thread t does when it is scheduled.
Step(t) ==
  \/ SetBit(t) \/ ExchangeAndAdd(t) \/ UndoAdd(t)
  \/ LoadExclusive(t) \/ StoreExclusive(t) \/ StoreExclusiveFails(t)
  \/ FutexWait(t)
  \/ TestCounter(t) \/ PrintCounter(t) \/ LoadCounter(t) \/ StoreCounter(t)
  \/ Unlock(t) \/ Wake(t)

Finished == \A t \in Threads : pc[t] = "done"

\* main() joins the threads; nothing happens after that.
Joined == Finished /\ UNCHANGED vars

Next ==
  \/ \E t \in Threads : Step(t) \/ LoseExclusive(t) \/ SpuriousWakeup(t)
  \/ Joined

Spec == Init /\ [][Next]_vars

\* The scheduler runs every runnable thread again and again, and the
\* architecture lets a store-exclusive succeed that is retried for ever.
FairSpec ==
  /\ Spec
  /\ \A t \in Threads : WF_vars(Step(t)) /\ SF_vars(StoreExclusive(t))

------------------------------------------------------------------------------
ProgramCounters ==
  {"lock", "undo", "stxr", "futex", "asleep", "wake", "done"} \cup CriticalSection

TypeOK ==
  /\ build \in Builds
  /\ word \in Nat
  /\ exclusive \subseteq Threads
  /\ asleep \subseteq Threads
  /\ counter \in Nat
  /\ register \in [Threads -> Nat]
  /\ printed \in Seq(Nat)
  /\ leaving \subseteq Threads
  /\ pc \in [Threads -> ProgramCounters]

\* At most one thread is between lock() and unlock(), in every build, in
\* spite of the transient increments of the exchange-and-add build and of
\* monitors lost between ldxr and stxr.
MutualExclusion ==
  \A s, t \in Threads : Owner(s) /\ Owner(t) => s = t

\* No wakeup is lost between a failed atomic_lock and FUTEX_WAIT: whenever a
\* thread sleeps in the kernel, another one is on its way to an unlock() and
\* the FUTEX_WAKE that follows it.
SleeperHasWaker ==
  asleep # {} => \E t \in Threads : pc[t] \notin {"asleep", "done"}

\* The output is 0, 1, 2, ... without a gap or a repetition (the file exp
\* that the script test compares with), and no more than Last + 1 lines.
PrintedInOrder ==
  /\ \A i \in 1..Len(printed) : printed[i] = i - 1
  /\ Len(printed) <= Last + 1

\* The owner as the abstract lock sees it.
LockOwner == IF \E t \in Threads : Owner(t)
             THEN CHOOSE t \in Threads : Owner(t)
             ELSE NoThread

\* The lock implements the abstract one: nobody acquires it before the
\* previous owner released it.
AbstractLock == INSTANCE Mutex WITH owner <- LockOwner

ImplementsMutex == AbstractLock!Spec

\* Every thread leaves its loop, after all of 0..Last were printed.
PrintsAll == <>(Finished /\ Len(printed) = Last + 1)

\* So it is in every build whose failed attempts leave the word as it was.
PrintsAllUnlessXadd == ~Xadd => PrintsAll

------------------------------------------------------------------------------
(* The inductive invariant of the proofs in LockProofs                     *)

\* The word counts the owner and the failed exchange-and-adds not yet undone.
WordCounts == word = Cardinality(Counted)

\* Each variant visits only its own program counters, and an armed monitor
\* means that the word has been 0 since the load-exclusive.
VariantInv ==
  \A t \in Threads :
    /\ pc[t] = "undo" => Xadd
    /\ pc[t] = "stxr" => Llsc
    /\ pc[t] \in {"futex", "asleep", "wake"} => build.block = "Wait"
    /\ pc[t] = "stxr" /\ t \in exclusive => word = 0

SleepInv == asleep = {t \in Threads : pc[t] = "asleep"} /\ SleeperHasWaker

\* Between the printf and the store, the output is one line ahead of counter.
Ahead(t) == pc[t] \in {"load", "store"}

CounterInv ==
  /\ counter <= Last + 1
  /\ \A t \in Threads :
       /\ pc[t] \in {"print", "load", "store"} => counter <= Last
       /\ pc[t] = "store" => register[t] = counter
       /\ Ahead(t) => Len(printed) = counter + 1
  /\ (\A t \in Threads : ~Ahead(t)) => Len(printed) = counter
  /\ \A i \in 1..Len(printed) : printed[i] = i - 1

LockInv ==
  /\ TypeOK
  /\ WordCounts
  /\ MutualExclusion
  /\ VariantInv
  /\ SleepInv
  /\ CounterInv
==============================================================================
