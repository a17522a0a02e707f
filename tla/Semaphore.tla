------------------------------- MODULE Semaphore -------------------------------
(***************************************************************************)
(* The homemade semaphore of chapter 31: a value under one homemade lock,  *)
(* mutex, and a second one, hold, that is normally locked and that a post  *)
(* unlocks to let one waiter go.                                           *)
(*                                                                         *)
(* atomic_lock is one step here, as Lock shows it to be, except in the     *)
(* exchange-and-add build, where the increment of a failed attempt stays   *)
(* in the word until the instruction after it.  sched_yield changes        *)
(* nothing.  value is only touched under mutex, so value-- and the test    *)
(* that follows are one step.                                              *)
(***************************************************************************)
EXTENDS Integers, FiniteSets

CONSTANTS
  Threads,        \* the threads that use the semaphore
  Atomics,        \* the makefile's choices of atomic_lock under study
  InitialValues,  \* the values sem_init may be called with
  MaxCalls,       \* bound: calls of sem_wait and sem_post by one thread
  Half            \* 2^16 on x86: decw subtracts within the low half of a word

ASSUME SemaphoreAssumption ==
  /\ IsFiniteSet(Threads)
  /\ Atomics \subseteq {"TestAndSet", "CompareAndExchange", "ExchangeAndAdd",
                        "LoadLinkedAndStoreConditional"}
  /\ InitialValues \subseteq Nat
  /\ MaxCalls \in Nat
  /\ Half \in Nat \ {0, 1}
  /\ "ExchangeAndAdd" \in Atomics => Cardinality(Threads) < Half

VARIABLES
  atomic, \* the atomic_lock linked in
  value,  \* r->value: permits, or minus the number of waits to be let go
  mutex,  \* r->mutex, a lock word
  hold,   \* r->hold, a lock word
  calls,  \* the calls each thread has made
  pc

vars == <<atomic, value, mutex, hold, calls, pc>>

Xadd == atomic = "ExchangeAndAdd"

Goto(t, from, to) == pc[t] = from /\ pc' = [pc EXCEPT ![t] = to]

------------------------------------------------------------------------------
(* The lock words                                                          *)

\* The word after atomic_lock's first locked instruction.
Locked(w) == IF Xadd THEN (w + 1) % (Half * Half) ELSE 1

\* decw borrows from nothing above the low half of the word.
DecLow(w) == IF w % Half = 0 THEN w + Half - 1 ELSE w - 1

\* The word after atomic_unlock.
Unlocked(w) == IF Xadd THEN DecLow(w) ELSE 0

\* Where atomic_lock of word w leads: to `got' when the word was 0, else
\* around the spin loop, in the exchange-and-add build through its decw.
Attempt(w, got, undo, again) == IF w = 0 THEN got ELSE IF Xadd THEN undo ELSE again

------------------------------------------------------------------------------
(* sem_wait                                                                *)

CallWait(t) ==
  /\ calls[t] < MaxCalls
  /\ Goto(t, "idle", "w_mutex")
  /\ calls' = [calls EXCEPT ![t] = @ + 1]
  /\ UNCHANGED <<atomic, value, mutex, hold>>

\* while (atomic_lock(&r->mutex));
WaitMutex(t) ==
  /\ Goto(t, "w_mutex", Attempt(mutex, "w_value", "w_mutex_undo", "w_mutex"))
  /\ mutex' = Locked(mutex)
  /\ UNCHANGED <<atomic, value, hold, calls>>

WaitMutexUndo(t) ==
  /\ Goto(t, "w_mutex_undo", "w_mutex")
  /\ mutex' = DecLow(mutex)
  /\ UNCHANGED <<atomic, value, hold, calls>>

\* Mutant: the test of value before the decrement is off by one.
Decrement0(t) ==
  /\ Goto(t, "w_value", IF value < 0 THEN "w_unlock_hold" ELSE "w_unlock")
  /\ value' = value - 1
  /\ UNCHANGED <<atomic, mutex, hold, calls>>

\* r->value--; if (r->value<0) ...
Decrement(t) ==
  /\ Goto(t, "w_value", IF value - 1 < 0 THEN "w_unlock_hold" ELSE "w_unlock")
  /\ value' = value - 1
  /\ UNCHANGED <<atomic, mutex, hold, calls>>

\* Mutant: the wait keeps mutex while it spins on hold.
WaitKeepsMutex(t) ==
  /\ \/ Goto(t, "w_unlock_hold", "w_hold") /\ UNCHANGED mutex
     \/ Goto(t, "w_unlock", "idle") /\ mutex' = Unlocked(mutex)
  /\ UNCHANGED <<atomic, value, hold, calls>>

\* atomic_unlock(&r->mutex) in either branch.
WaitUnlock(t) ==
  /\ \/ Goto(t, "w_unlock_hold", "w_hold")
     \/ Goto(t, "w_unlock", "idle")
  /\ mutex' = Unlocked(mutex)
  /\ UNCHANGED <<atomic, value, hold, calls>>

\* while (atomic_lock(&r->hold)) sched_yield();
WaitHold(t) ==
  /\ Goto(t, "w_hold", Attempt(hold, "w_return", "w_hold_undo", "w_hold"))
  /\ hold' = Locked(hold)
  /\ UNCHANGED <<atomic, value, mutex, calls>>

WaitHoldUndo(t) ==
  /\ Goto(t, "w_hold_undo", "w_hold")
  /\ hold' = DecLow(hold)
  /\ UNCHANGED <<atomic, value, mutex, calls>>

WaitReturn(t) ==
  /\ Goto(t, "w_return", "idle")
  /\ UNCHANGED <<atomic, value, mutex, hold, calls>>

------------------------------------------------------------------------------
(* sem_post                                                                *)

CallPost(t) ==
  /\ calls[t] < MaxCalls
  /\ Goto(t, "idle", "p_mutex")
  /\ calls' = [calls EXCEPT ![t] = @ + 1]
  /\ UNCHANGED <<atomic, value, mutex, hold>>

PostMutex(t) ==
  /\ Goto(t, "p_mutex", Attempt(mutex, "p_value", "p_mutex_undo", "p_mutex"))
  /\ mutex' = Locked(mutex)
  /\ UNCHANGED <<atomic, value, hold, calls>>

PostMutexUndo(t) ==
  /\ Goto(t, "p_mutex_undo", "p_mutex")
  /\ mutex' = DecLow(mutex)
  /\ UNCHANGED <<atomic, value, hold, calls>>

\* Mutant: the test of value lets a post without waiters unlock hold.
IncrementLoose(t) ==
  /\ Goto(t, "p_value", IF value + 1 <= 1 THEN "p_test" ELSE "p_unlock")
  /\ value' = value + 1
  /\ UNCHANGED <<atomic, mutex, hold, calls>>

\* r->value++; if (r->value<=0) ...
Increment(t) ==
  /\ Goto(t, "p_value", IF value + 1 <= 0 THEN "p_test" ELSE "p_unlock")
  /\ value' = value + 1
  /\ UNCHANGED <<atomic, mutex, hold, calls>>

\* Mutant: hold is unlocked without the wait for an earlier permit to be taken.
TestNothing(t) ==
  /\ Goto(t, "p_test", "p_release")
  /\ UNCHANGED <<atomic, value, mutex, hold, calls>>

\* while (!atomic_test(&r->hold));
TestHold(t) ==
  /\ Goto(t, "p_test", IF hold = 0 THEN "p_test" ELSE "p_release")
  /\ UNCHANGED <<atomic, value, mutex, hold, calls>>

\* atomic_unlock(&r->hold);
ReleaseHold(t) ==
  /\ Goto(t, "p_release", "p_unlock")
  /\ hold' = Unlocked(hold)
  /\ UNCHANGED <<atomic, value, mutex, calls>>

\* atomic_unlock(&r->mutex);
PostUnlock(t) ==
  /\ Goto(t, "p_unlock", "idle")
  /\ mutex' = Unlocked(mutex)
  /\ UNCHANGED <<atomic, value, hold, calls>>

------------------------------------------------------------------------------
\* sem_init: hold starts locked.
Init ==
  /\ atomic \in Atomics
  /\ value \in InitialValues
  /\ mutex = 0
  /\ hold = 1
  /\ calls = [t \in Threads |-> 0]
  /\ pc = [t \in Threads |-> "idle"]

\* The steps of a call in progress.
Step(t) ==
  \/ WaitMutex(t) \/ WaitMutexUndo(t) \/ Decrement(t) \/ WaitUnlock(t)
  \/ WaitHold(t) \/ WaitHoldUndo(t) \/ WaitReturn(t)
  \/ PostMutex(t) \/ PostMutexUndo(t) \/ Increment(t) \/ TestHold(t)
  \/ ReleaseHold(t) \/ PostUnlock(t)

Next == \E t \in Threads : Step(t) \/ CallWait(t) \/ CallPost(t)

Spec == Init /\ [][Next]_vars

\* Threads in a call keep running; nothing makes a thread start a call.
FairSpec == Spec /\ \A t \in Threads : WF_vars(Step(t))

------------------------------------------------------------------------------
\* The program counters under mutex, and those of a wait that was counted in
\* value and has not been let go.
UnderMutex == {"w_value", "w_unlock", "w_unlock_hold",
               "p_value", "p_test", "p_release", "p_unlock"}

BlockedPC == {"w_unlock_hold", "w_hold", "w_hold_undo"}

Blocked == {t \in Threads : pc[t] \in BlockedPC}

TypeOK ==
  /\ atomic \in Atomics
  /\ value \in Int
  /\ mutex \in Nat
  /\ hold \in Nat
  /\ calls \in [Threads -> 0..MaxCalls]
  /\ pc \in [Threads -> UnderMutex \cup
              {"idle", "w_mutex", "w_mutex_undo", "w_hold", "w_hold_undo",
               "w_return", "p_mutex", "p_mutex_undo"}]

MutexExclusion ==
  \A s, t \in Threads : pc[s] \in UnderMutex /\ pc[t] \in UnderMutex => s = t

\* The post that has counted itself and not yet unlocked hold, if any.
Handing == \E t \in Threads : pc[t] \in {"p_test", "p_release"}

\* The waits that wait are exactly those value says are waiting, plus one if
\* hold stands unlocked for one of them, plus one if a post is about to
\* unlock it.  So an unlock of hold lets exactly one go, and a post that
\* spins on an unlocked hold spins for a wait that is on its way to lock it.
Accounting ==
  Cardinality(Blocked) =
    (IF value < 0 THEN -value ELSE 0) + (IF hold = 0 THEN 1 ELSE 0)
                                      + (IF Handing THEN 1 ELSE 0)

\* A post unlocks hold only after a waiter has locked it for good (comment in
\* sem_post: "spin until one does a lock(hold)/yield iteration"): when a post
\* is past its test, hold is locked, attempts not yet undone not counted.
ReleasesLockedHold ==
  \A t \in Threads : pc[t] = "p_release" =>
    hold - Cardinality({u \in Threads : pc[u] = "w_hold_undo"}) = 1

\* Both hold when a failed atomic_lock leaves no trace in the word.
ExactHandOff == ~Xadd => Accounting /\ ReleasesLockedHold

\* The abstract semaphore: what value says, plus the waits it counts that
\* have not been let go.
AbstractCall ==
  [t \in Threads |->
    CASE pc[t] \in {"w_mutex", "w_mutex_undo", "w_value"} \cup BlockedPC -> "waiting"
      [] pc[t] \in {"w_unlock", "w_return"}                  -> "acquired"
      [] pc[t] \in {"p_mutex", "p_mutex_undo", "p_value"}    -> "posting"
      [] pc[t] \in {"p_test", "p_release", "p_unlock"}       -> "posted"
      [] OTHER                                               -> "none"]

Abstract ==
  INSTANCE CountingSemaphore
    WITH count <- value + Cardinality(Blocked), call <- AbstractCall

\* The semaphore is a counting semaphore: a wait returns only on a permit.
\* In the exchange-and-add build too, although hold goes wrong there.
ImplementsCounting == Abstract!Spec

\* Permits are used: while one is available and some thread waits, a wait
\* takes one in the end, without any other call being made, and calls whose
\* effect is there return.
PermitsAreUsed == ~Xadd => Abstract!Fairness

\* A post returns whatever the other threads do: it never waits for a call
\* that has not begun.
PostReturns ==
  ~Xadd => \A t \in Threads :
    (AbstractCall[t] \in {"posting", "posted"}) ~> (AbstractCall[t] = "none")

------------------------------------------------------------------------------
(* The inductive invariant of the proofs in SemaphoreProofs                *)

\* Outside the exchange-and-add build both words are 0 or 1, and mutex is 1
\* exactly while a thread is under it.
WordsInv ==
  /\ mutex \in {0, 1}
  /\ mutex = 0 <=> \A t \in Threads : pc[t] \notin UnderMutex
  /\ hold \in {0, 1}
  /\ \A t \in Threads :
       /\ pc[t] \notin {"w_mutex_undo", "p_mutex_undo", "w_hold_undo"}
       /\ pc[t] = "p_release" => hold = 1

SemaphoreInv == TypeOK /\ MutexExclusion /\ WordsInv /\ Accounting

\* In the exchange-and-add build mutex counts its owner and the attempts that
\* are not undone yet.
MutexTakenPC == UnderMutex \cup {"w_mutex_undo", "p_mutex_undo"}

MutexTaken == {t \in Threads : pc[t] \in MutexTakenPC}

HoldTried == {t \in Threads : pc[t] = "w_hold_undo"}

\* The unlocks of hold that have let nobody go yet.
Unused ==
  Cardinality(Blocked) + (IF value < 0 THEN value ELSE 0) - (IF Handing THEN 1 ELSE 0)

\* hold can be unlocked more often than it is locked: its low half then says
\* by how much, and its high half how often the low half has wrapped.
HoldCounts == ((hold + Unused) % Half) = ((1 + Cardinality(HoldTried)) % Half)

XaddInv ==
  /\ TypeOK /\ MutexExclusion
  /\ mutex = Cardinality(MutexTaken)
  /\ Unused >= 0
  /\ HoldCounts
==============================================================================
