------------------------------ MODULE LockProofs ------------------------------
(***************************************************************************)
(* The homemade lock is correct for every set of threads, every build of   *)
(* the makefile and every number of iterations: mutual exclusion, no lost  *)
(* wakeup, an output without gaps, and the step simulation to Mutex.  All  *)
(* follow from the inductive invariant LockInv.                            *)
(***************************************************************************)
EXTENDS MCLocks, FiniteSetTheorems, TLAPS

CountedPC == CriticalSection \cup {"undo"}

\* Counted is the set of threads at a counted program counter.
LEMMA CountedIsFinite ==
  /\ IsFiniteSet(Counted)
  /\ Cardinality(Counted) \in Nat
  /\ Cardinality(Counted) = 0 <=> Counted = {}
<1>1. Counted \in SUBSET Threads
  BY DEF Counted
<1>2. IsFiniteSet(Counted)
  BY <1>1, FS_Subset, LockAssumption
<1>. QED
  BY <1>2, FS_CardinalityType, FS_EmptySet

\* A step of one thread changes the number of counted threads by at most one.
LEMMA CountStep ==
  ASSUME NEW t \in Threads,
         \A u \in Threads \ {t} : pc'[u] = pc[u]
  PROVE  Cardinality(Counted') =
           IF pc'[t] \in CountedPC
             THEN IF pc[t] \in CountedPC THEN Cardinality(Counted)
                                         ELSE Cardinality(Counted) + 1
             ELSE IF pc[t] \in CountedPC THEN Cardinality(Counted) - 1
                                         ELSE Cardinality(Counted)
<1>1. t \in Counted <=> pc[t] \in CountedPC
  BY DEF Counted, Owner, CountedPC
<1>2. CASE pc'[t] \in CountedPC
  <2>1. Counted' = Counted \cup {t}
    BY <1>2 DEF Counted, Owner, CountedPC
  <2>. QED
    BY <2>1, <1>1, <1>2, CountedIsFinite, FS_AddElement
<1>3. CASE pc'[t] \notin CountedPC
  <2>1. Counted' = Counted \ {t}
    BY <1>3 DEF Counted, Owner, CountedPC
  <2>. QED
    BY <2>1, <1>1, <1>3, CountedIsFinite, FS_RemoveElement
<1>. QED
  BY <1>2, <1>3

\* A word of 0 means that nobody owns the lock or has an addition to undo.
LEMMA WordZero ==
  ASSUME WordCounts
  PROVE  word = 0 <=> \A t \in Threads : pc[t] \notin CountedPC
<1>1. Counted = {} <=> \A t \in Threads : pc[t] \notin CountedPC
  BY DEF Counted, Owner, CountedPC
<1>. QED
  BY <1>1, CountedIsFinite DEF WordCounts

\* Outside the exchange-and-add build the word is 0 or 1.
LEMMA WordIsBit ==
  ASSUME LockInv, ~Xadd
  PROVE  word \in {0, 1}
<1>1. CASE Counted = {}
  BY <1>1, CountedIsFinite DEF LockInv, WordCounts
<1>2. CASE Counted # {}
  <2>1. PICK u \in Counted : TRUE
    BY <1>2
  <2>2. Counted = {u}
    BY <2>1 DEF LockInv, VariantInv, MutualExclusion, Counted
  <2>. QED
    BY <2>2, FS_Singleton DEF LockInv, WordCounts
<1>. QED
  BY <1>1, <1>2

\* The initial states satisfy the inductive invariant.
LEMMA InitInv == Init => LockInv
<1>. SUFFICES ASSUME Init PROVE LockInv
  OBVIOUS
<1>1. TypeOK
  BY LockAssumption DEF Init, TypeOK, ProgramCounters
<1>2. Counted = {}
  BY DEF Init, Counted, Owner, CriticalSection
<1>3. WordCounts
  BY <1>2, CountedIsFinite DEF Init, WordCounts
<1>4. MutualExclusion /\ VariantInv /\ SleepInv
  BY
     DEF Init, MutualExclusion, VariantInv, SleepInv, SleeperHasWaker, Owner,
         CriticalSection
<1>5. CounterInv
  BY LockAssumption DEF Init, CounterInv, Ahead
<1>. QED
  BY <1>1, <1>3, <1>4, <1>5 DEF LockInv

\* atomic_lock with btsw or cmpxchg.
LEMMA SetBitInv ==
  ASSUME LockInv, NEW t \in Threads, SetBit(t)
  PROVE  LockInv'
<1>. USE DEF LockInv, SetBit, Goto
<1>. DEFINE to == IF word = 0 THEN "test" ELSE AfterFailure
<1>0. to \in {"test", "futex", "lock"} /\ (to = "test" <=> word = 0)
      /\ (to = "futex" => build.block = "Wait")
  BY DEF AfterFailure
<1>1. TypeOK'
  BY <1>0 DEF TypeOK, ProgramCounters, CriticalSection
<1>2. WordCounts'
  <2>1. Cardinality(Counted') = IF word = 0 THEN Cardinality(Counted) + 1
                                            ELSE Cardinality(Counted)
    BY <1>0, CountStep DEF CountedPC, CriticalSection, TypeOK
  <2>. QED
    BY <2>1, WordIsBit DEF WordCounts
<1>3. MutualExclusion'
  BY <1>0, WordZero DEF MutualExclusion, Owner, CountedPC, CriticalSection, TypeOK
<1>4. VariantInv'
  BY <1>0, WordZero DEF VariantInv, Xadd, Llsc, TypeOK
<1>5. SleepInv'
  BY <1>0 DEF SleepInv, SleeperHasWaker, TypeOK
<1>6. CounterInv'
  BY <1>0, WordZero DEF CounterInv, Ahead, TypeOK, CountedPC, CriticalSection
<1>. QED
  BY <1>1, <1>2, <1>3, <1>4, <1>5, <1>6

\* atomic_lock with xadd.
LEMMA ExchangeAndAddInv ==
  ASSUME LockInv, NEW t \in Threads, ExchangeAndAdd(t)
  PROVE  LockInv'
<1>. USE DEF LockInv, ExchangeAndAdd, Goto
<1>1. TypeOK'
  BY DEF TypeOK, ProgramCounters, CriticalSection
<1>2. WordCounts'
  BY CountStep DEF WordCounts, CountedPC, CriticalSection, TypeOK
<1>3. MutualExclusion'
  BY WordZero DEF MutualExclusion, Owner, CountedPC, CriticalSection, TypeOK
<1>4. VariantInv'
  BY DEF VariantInv, Xadd, Llsc, TypeOK
<1>5. SleepInv'
  BY DEF SleepInv, SleeperHasWaker, TypeOK
<1>6. CounterInv'
  BY DEF CounterInv, Ahead, TypeOK, CriticalSection
<1>. QED
  BY <1>1, <1>2, <1>3, <1>4, <1>5, <1>6

\* The decw of a failed xadd.
LEMMA UndoAddInv ==
  ASSUME LockInv, NEW t \in Threads, UndoAdd(t)
  PROVE  LockInv'
<1>. USE DEF LockInv, UndoAdd, Goto
<1>0. AfterFailure \in {"futex", "lock"}
      /\ (AfterFailure = "futex" => build.block = "Wait")
  BY DEF AfterFailure
<1>1. WordCounts'
  BY <1>0, CountStep DEF WordCounts, CountedPC, CriticalSection, TypeOK
<1>2. TypeOK'
  <2>1. word' \in Nat
    BY <1>1, <1>0, CountedIsFinite, WordZero DEF WordCounts, TypeOK, CountedPC
  <2>. QED
    BY <2>1, <1>0 DEF TypeOK, ProgramCounters
<1>3. MutualExclusion'
  BY <1>0 DEF MutualExclusion, Owner, CriticalSection, TypeOK
<1>4. VariantInv'
  BY <1>0 DEF VariantInv, Xadd, Llsc, TypeOK
<1>5. SleepInv'
  BY <1>0 DEF SleepInv, SleeperHasWaker, TypeOK
<1>6. CounterInv'
  BY <1>0 DEF CounterInv, Ahead, TypeOK
<1>. QED
  BY <1>1, <1>2, <1>3, <1>4, <1>5, <1>6

\* ldxr, and the loss of an exclusive monitor.
LEMMA LoadExclusiveInv ==
  ASSUME LockInv, NEW t \in Threads, LoadExclusive(t)
  PROVE  LockInv'
<1>. USE DEF LockInv, LoadExclusive, Goto
<1>. DEFINE to == IF word = 0 THEN "stxr" ELSE AfterFailure
<1>0. to \in {"stxr", "futex", "lock"} /\ (to = "stxr" <=> word = 0)
      /\ (to = "futex" => build.block = "Wait")
  BY DEF AfterFailure
<1>1. TypeOK'
  BY <1>0 DEF TypeOK, ProgramCounters
<1>2. WordCounts'
  BY <1>0, CountStep DEF WordCounts, CountedPC, CriticalSection, TypeOK
<1>3. MutualExclusion'
  BY <1>0 DEF MutualExclusion, Owner, CriticalSection, TypeOK
<1>4. VariantInv'
  BY <1>0 DEF VariantInv, Xadd, Llsc, TypeOK
<1>5. SleepInv'
  BY <1>0 DEF SleepInv, SleeperHasWaker, TypeOK
<1>6. CounterInv'
  BY <1>0 DEF CounterInv, Ahead, TypeOK
<1>. QED
  BY <1>1, <1>2, <1>3, <1>4, <1>5, <1>6

LEMMA LoseExclusiveInv ==
  ASSUME LockInv, NEW t \in Threads, LoseExclusive(t)
  PROVE  LockInv'
<1>. USE DEF LockInv, LoseExclusive
<1>1. TypeOK'
  BY DEF TypeOK
<1>2. WordCounts' /\ MutualExclusion'
  BY DEF WordCounts, Counted, MutualExclusion, Owner
<1>3. VariantInv' /\ SleepInv' /\ CounterInv'
  BY DEF VariantInv, Xadd, Llsc, SleepInv, SleeperHasWaker, CounterInv, Ahead
<1>. QED
  BY <1>1, <1>2, <1>3

\* stxr, successful or not.
LEMMA StoreExclusiveInv ==
  ASSUME LockInv, NEW t \in Threads, StoreExclusive(t)
  PROVE  LockInv'
<1>. USE DEF LockInv, StoreExclusive, Goto
<1>0. word = 0 /\ Llsc
  BY DEF VariantInv
<1>1. TypeOK'
  BY DEF TypeOK, ProgramCounters, CriticalSection
<1>2. WordCounts'
  BY <1>0, CountStep DEF WordCounts, CountedPC, CriticalSection, TypeOK
<1>3. MutualExclusion'
  BY <1>0, WordZero DEF MutualExclusion, Owner, CountedPC, CriticalSection, TypeOK
<1>4. VariantInv'
  BY DEF VariantInv, Xadd, Llsc, TypeOK
<1>5. SleepInv'
  BY DEF SleepInv, SleeperHasWaker, TypeOK
<1>6. CounterInv'
  BY DEF CounterInv, Ahead, TypeOK
<1>. QED
  BY <1>1, <1>2, <1>3, <1>4, <1>5, <1>6

LEMMA StoreExclusiveFailsInv ==
  ASSUME LockInv, NEW t \in Threads, StoreExclusiveFails(t)
  PROVE  LockInv'
<1>. USE DEF LockInv, StoreExclusiveFails, Goto
<1>1. TypeOK'
  BY DEF TypeOK, ProgramCounters
<1>2. WordCounts'
  <2>1. Cardinality(Counted') = Cardinality(Counted)
    BY CountStep DEF CountedPC, CriticalSection, TypeOK
  <2>. QED
    BY <2>1 DEF WordCounts
<1>3. MutualExclusion'
  BY DEF MutualExclusion, Owner, CriticalSection, TypeOK
<1>4. VariantInv'
  BY DEF VariantInv, Xadd, Llsc, TypeOK
<1>5. SleepInv'
  BY DEF SleepInv, SleeperHasWaker, TypeOK
<1>6. CounterInv'
  BY DEF CounterInv, Ahead, TypeOK
<1>. QED
  BY <1>1, <1>2, <1>3, <1>4, <1>5, <1>6

\* FUTEX_WAIT: a thread falls asleep only while the word is 1, so that some
\* other thread is counted in the word and will come to an unlock or a retry.
LEMMA FutexWaitInv ==
  ASSUME LockInv, NEW t \in Threads, FutexWait(t)
  PROVE  LockInv'
<1>. USE DEF LockInv, FutexWait, Goto
<1>1. TypeOK'
  BY DEF TypeOK, ProgramCounters
<1>2. WordCounts'
  <2>1. Cardinality(Counted') = Cardinality(Counted)
    BY CountStep DEF CountedPC, CriticalSection, TypeOK
  <2>. QED
    BY <2>1 DEF WordCounts
<1>3. MutualExclusion'
  BY DEF MutualExclusion, Owner, CriticalSection, TypeOK
<1>4. VariantInv'
  BY DEF VariantInv, Xadd, Llsc, TypeOK
<1>5. SleepInv'
  <2>1. asleep' = {u \in Threads : pc'[u] = "asleep"}
    BY DEF SleepInv, TypeOK
  <2>2. CASE word = 1
    <3>1. PICK u \in Threads : pc[u] \in CountedPC
      BY <2>2, WordZero
    <3>2. u # t /\ pc'[u] = pc[u] /\ pc'[u] \notin {"asleep", "done"}
      BY <3>1 DEF CountedPC, CriticalSection, TypeOK
    <3>. QED
      BY <2>1, <3>2 DEF SleepInv, SleeperHasWaker
  <2>3. CASE word # 1
    BY <2>1, <2>3 DEF SleepInv, SleeperHasWaker, TypeOK
  <2>. QED
    BY <2>2, <2>3
<1>6. CounterInv'
  BY DEF CounterInv, Ahead, TypeOK
<1>. QED
  BY <1>1, <1>2, <1>3, <1>4, <1>5, <1>6

LEMMA SpuriousWakeupInv ==
  ASSUME LockInv, NEW t \in Threads, SpuriousWakeup(t)
  PROVE  LockInv'
<1>. USE DEF LockInv, SpuriousWakeup, Goto
<1>1. TypeOK'
  BY DEF TypeOK, ProgramCounters
<1>2. WordCounts'
  <2>1. Cardinality(Counted') = Cardinality(Counted)
    BY CountStep DEF CountedPC, CriticalSection, TypeOK
  <2>. QED
    BY <2>1 DEF WordCounts
<1>3. MutualExclusion'
  BY DEF MutualExclusion, Owner, CriticalSection, TypeOK
<1>4. VariantInv'
  BY DEF VariantInv, Xadd, Llsc, TypeOK
<1>5. SleepInv'
  BY DEF SleepInv, SleeperHasWaker, TypeOK
<1>6. CounterInv'
  BY DEF CounterInv, Ahead, TypeOK
<1>. QED
  BY <1>1, <1>2, <1>3, <1>4, <1>5, <1>6

\* if (counter>9).
LEMMA TestCounterInv ==
  ASSUME LockInv, NEW t \in Threads, TestCounter(t)
  PROVE  LockInv'
<1>. USE DEF LockInv, TestCounter, Goto
<1>1. TypeOK'
  BY LockAssumption DEF TypeOK, ProgramCounters, CriticalSection
<1>2. WordCounts'
  <2>1. Cardinality(Counted') = Cardinality(Counted)
    BY CountStep DEF CountedPC, CriticalSection, TypeOK
  <2>. QED
    BY <2>1 DEF WordCounts
<1>3. MutualExclusion'
  BY DEF MutualExclusion, Owner, CriticalSection, TypeOK
<1>4. VariantInv'
  BY DEF VariantInv, Xadd, Llsc, TypeOK
<1>5. SleepInv'
  BY DEF SleepInv, SleeperHasWaker, TypeOK
<1>6. CounterInv'
  <2>1. \A u \in Threads \ {t} : ~Owner(u)
    BY DEF MutualExclusion, Owner, CriticalSection
  <2>. QED
    BY <2>1, LockAssumption DEF CounterInv, Ahead, TypeOK, Owner, CriticalSection
<1>. QED
  BY <1>1, <1>2, <1>3, <1>4, <1>5, <1>6

\* printf: the line printed is the next number because no other thread prints.
LEMMA PrintCounterInv ==
  ASSUME LockInv, NEW t \in Threads, PrintCounter(t)
  PROVE  LockInv'
<1>. USE DEF LockInv, PrintCounter, Goto
<1>1. TypeOK'
  BY LockAssumption DEF TypeOK, ProgramCounters, CriticalSection
<1>2. WordCounts'
  <2>1. Cardinality(Counted') = Cardinality(Counted)
    BY CountStep DEF CountedPC, CriticalSection, TypeOK
  <2>. QED
    BY <2>1 DEF WordCounts
<1>3. MutualExclusion'
  BY DEF MutualExclusion, Owner, CriticalSection, TypeOK
<1>4. VariantInv'
  BY DEF VariantInv, Xadd, Llsc, TypeOK
<1>5. SleepInv'
  BY DEF SleepInv, SleeperHasWaker, TypeOK
<1>6. CounterInv'
  <2>1. \A u \in Threads \ {t} : ~Owner(u)
    BY DEF MutualExclusion, Owner, CriticalSection
  <2>2. Len(printed) = counter
    BY <2>1 DEF CounterInv, Ahead, Owner, CriticalSection
  <2>3. Len(printed') = counter + 1
    BY <2>2 DEF TypeOK
  <2>4. \A i \in 1..Len(printed') : printed'[i] = i - 1
    <3>1. ASSUME NEW i \in 1..Len(printed') PROVE printed'[i] = i - 1
      <4>1. CASE i = counter + 1
        BY <4>1, <2>2 DEF TypeOK
      <4>2. CASE i \in 1..Len(printed)
        BY <4>2, <2>2 DEF TypeOK, CounterInv
      <4>. QED
        BY <4>1, <4>2, <2>2, <2>3 DEF TypeOK
    <3>. QED
      BY <3>1
  <2>. QED
    BY <2>1, <2>3, <2>4 DEF CounterInv, Ahead, TypeOK, Owner, CriticalSection
<1>. QED
  BY <1>1, <1>2, <1>3, <1>4, <1>5, <1>6

\* The load of counter=counter+1.
LEMMA LoadCounterInv ==
  ASSUME LockInv, NEW t \in Threads, LoadCounter(t)
  PROVE  LockInv'
<1>. USE DEF LockInv, LoadCounter, Goto
<1>1. TypeOK'
  BY LockAssumption DEF TypeOK, ProgramCounters, CriticalSection
<1>2. WordCounts'
  <2>1. Cardinality(Counted') = Cardinality(Counted)
    BY CountStep DEF CountedPC, CriticalSection, TypeOK
  <2>. QED
    BY <2>1 DEF WordCounts
<1>3. MutualExclusion'
  BY DEF MutualExclusion, Owner, CriticalSection, TypeOK
<1>4. VariantInv'
  BY DEF VariantInv, Xadd, Llsc, TypeOK
<1>5. SleepInv'
  BY DEF SleepInv, SleeperHasWaker, TypeOK
<1>6. CounterInv'
  <2>1. \A u \in Threads \ {t} : ~Owner(u)
    BY DEF MutualExclusion, Owner, CriticalSection
  <2>. QED
    BY <2>1 DEF CounterInv, Ahead, TypeOK, Owner, CriticalSection
<1>. QED
  BY <1>1, <1>2, <1>3, <1>4, <1>5, <1>6

\* The store of counter=counter+1 stores the value loaded plus one.
LEMMA StoreCounterInv ==
  ASSUME LockInv, NEW t \in Threads, StoreCounter(t)
  PROVE  LockInv'
<1>. USE DEF LockInv, StoreCounter, Goto
<1>1. TypeOK'
  BY LockAssumption DEF TypeOK, ProgramCounters, CriticalSection
<1>2. WordCounts'
  <2>1. Cardinality(Counted') = Cardinality(Counted)
    BY CountStep DEF CountedPC, CriticalSection, TypeOK
  <2>. QED
    BY <2>1 DEF WordCounts
<1>3. MutualExclusion'
  BY DEF MutualExclusion, Owner, CriticalSection, TypeOK
<1>4. VariantInv'
  BY DEF VariantInv, Xadd, Llsc, TypeOK
<1>5. SleepInv'
  BY DEF SleepInv, SleeperHasWaker, TypeOK
<1>6. CounterInv'
  <2>1. \A u \in Threads \ {t} : ~Owner(u)
    BY DEF MutualExclusion, Owner, CriticalSection
  <2>. QED
    BY <2>1, LockAssumption DEF CounterInv, Ahead, TypeOK, Owner, CriticalSection
<1>. QED
  BY <1>1, <1>2, <1>3, <1>4, <1>5, <1>6

\* atomic_unlock.
LEMMA UnlockInv ==
  ASSUME LockInv, NEW t \in Threads, Unlock(t)
  PROVE  LockInv'
<1>. USE DEF LockInv, Unlock, Goto
<1>. DEFINE to == IF build.block = "Wait" THEN "wake" ELSE AfterUnlock(t)
<1>0. to \in {"wake", "done", "lock"} /\ (to = "wake" <=> build.block = "Wait")
  BY DEF AfterUnlock
<1>1. WordCounts'
  <2>1. Cardinality(Counted') = Cardinality(Counted) - 1
    BY <1>0, CountStep DEF CountedPC, CriticalSection, TypeOK
  <2>2. word # 0
    BY WordZero DEF CountedPC, CriticalSection
  <2>. QED
    BY <2>1, <2>2, WordIsBit DEF WordCounts, TypeOK
<1>2. TypeOK'
  <2>1. word' \in Nat
    BY <1>1, WordZero DEF TypeOK, CountedPC, CriticalSection
  <2>. QED
    BY <2>1, <1>0 DEF TypeOK, ProgramCounters
<1>3. MutualExclusion'
  BY <1>0 DEF MutualExclusion, Owner, CriticalSection, TypeOK
<1>4. VariantInv'
  BY <1>0 DEF VariantInv, Xadd, Llsc, TypeOK
<1>5. SleepInv'
  BY <1>0 DEF SleepInv, SleeperHasWaker, VariantInv, TypeOK
<1>6. CounterInv'
  BY <1>0 DEF CounterInv, Ahead, TypeOK
<1>. QED
  BY <1>1, <1>2, <1>3, <1>4, <1>5, <1>6

\* FUTEX_WAKE: when threads sleep one of them is woken, and it is then the
\* thread that will wake the next.
LEMMA WakeInv ==
  ASSUME LockInv, NEW t \in Threads, Wake(t)
  PROVE  LockInv'
<1>. USE DEF LockInv, Wake
<1>. DEFINE to == AfterUnlock(t)
<1>0. to \in {"done", "lock"}
  BY DEF AfterUnlock
<1>1. CASE asleep = {} /\ pc' = [pc EXCEPT ![t] = to] /\ UNCHANGED asleep
  <2>1. TypeOK'
    BY <1>0, <1>1 DEF TypeOK, ProgramCounters
  <2>2. Counted' = Counted
    BY <1>0, <1>1 DEF Counted, Owner, CriticalSection, TypeOK
  <2>3. WordCounts' /\ MutualExclusion' /\ VariantInv'
    BY <2>2, <1>0, <1>1
       DEF WordCounts, MutualExclusion, VariantInv, Owner, CriticalSection, Xadd,
           Llsc, TypeOK
  <2>4. SleepInv' /\ CounterInv'
    BY <1>0, <1>1 DEF SleepInv, SleeperHasWaker, CounterInv, Ahead, TypeOK
  <2>. QED
    BY <2>1, <2>3, <2>4
<1>2. ASSUME NEW w \in asleep, asleep' = asleep \ {w},
             pc' = [pc EXCEPT ![t] = to, ![w] = "lock"]
      PROVE  LockInv'
  <2>0. w \in Threads /\ pc[w] = "asleep" /\ w # t
    BY <1>2 DEF SleepInv
  <2>1. TypeOK'
    BY <1>0, <1>2, <2>0 DEF TypeOK, ProgramCounters
  <2>2. Counted' = Counted
    BY <1>0, <1>2, <2>0 DEF Counted, Owner, CriticalSection, TypeOK
  <2>3. WordCounts' /\ MutualExclusion' /\ VariantInv'
    BY <2>2, <2>0, <1>0, <1>2
       DEF WordCounts, MutualExclusion, VariantInv, Owner, CriticalSection, Xadd,
           Llsc, TypeOK
  <2>4. SleepInv'
    <3>1. pc'[w] = "lock"
      BY <2>0, <1>2 DEF TypeOK
    <3>2. asleep' = {u \in Threads : pc'[u] = "asleep"}
      BY <2>0, <1>0, <1>2 DEF SleepInv, TypeOK
    <3>. QED
      BY <3>1, <3>2, <2>0 DEF SleepInv, SleeperHasWaker
  <2>5. CounterInv'
    BY <2>0, <1>0, <1>2 DEF CounterInv, Ahead, TypeOK
  <2>. QED
    BY <2>1, <2>3, <2>4, <2>5
<1>. QED
  BY <1>1, <1>2

\* Every step keeps the inductive invariant.
LEMMA NextInv == LockInv /\ [Next]_vars => LockInv'
<1>. SUFFICES ASSUME LockInv, [Next]_vars PROVE LockInv'
  OBVIOUS
<1>1. ASSUME NEW t \in Threads, Step(t) PROVE LockInv'
  BY <1>1, SetBitInv, ExchangeAndAddInv, UndoAddInv, LoadExclusiveInv,
     StoreExclusiveInv, StoreExclusiveFailsInv, FutexWaitInv, TestCounterInv,
     PrintCounterInv, LoadCounterInv, StoreCounterInv, UnlockInv, WakeInv
  DEF Step
<1>2. ASSUME NEW t \in Threads, LoseExclusive(t) \/ SpuriousWakeup(t) PROVE LockInv'
  BY <1>2, LoseExclusiveInv, SpuriousWakeupInv
<1>3. CASE UNCHANGED vars
  BY <1>3 DEF vars, LockInv, TypeOK, WordCounts, Counted, MutualExclusion, Owner,
     VariantInv, Xadd, Llsc, SleepInv, SleeperHasWaker, CounterInv, Ahead
<1>. QED
  BY <1>1, <1>2, <1>3 DEF Next, Joined

\* Every reachable state satisfies the inductive invariant.
THEOREM LockInvariant == Spec => []LockInv
  BY InitInv, NextInv, PTL DEF Spec

\* Type correctness.
THEOREM TypeCorrect == Spec => []TypeOK
<1>1. LockInv => TypeOK
  BY DEF LockInv
<1>. QED
  BY <1>1, LockInvariant, PTL

\* No two threads are between lock() and unlock(), whichever atomic_lock is
\* compiled in.
THEOREM LockMutualExclusion == Spec => []MutualExclusion
<1>1. LockInv => MutualExclusion
  BY DEF LockInv
<1>. QED
  BY <1>1, LockInvariant, PTL

\* In the Wait builds nobody sleeps on the futex without a waker.
THEOREM NoLostWakeup == Spec => []SleeperHasWaker
<1>1. LockInv => SleeperHasWaker
  BY DEF LockInv, SleepInv
<1>. QED
  BY <1>1, LockInvariant, PTL

\* The lines of the output are consecutive from 0 and end at Last.
THEOREM OutputInOrder == Spec => []PrintedInOrder
<1>1. LockInv => PrintedInOrder
  <2>. SUFFICES ASSUME LockInv PROVE PrintedInOrder
    OBVIOUS
  <2>1. Len(printed) <= Last + 1
    <3>1. CASE \E t \in Threads : Ahead(t)
      BY <3>1, LockAssumption DEF LockInv, CounterInv, Ahead, TypeOK
    <3>2. CASE \A t \in Threads : ~Ahead(t)
      BY <3>2 DEF LockInv, CounterInv
    <3>. QED
      BY <3>1, <3>2
  <2>. QED
    BY <2>1 DEF LockInv, CounterInv, PrintedInOrder
<1>. QED
  BY <1>1, LockInvariant, PTL

------------------------------------------------------------------------------
(* The lock implements the abstract one.                                   *)

\* Mutual exclusion makes the CHOOSE of LockOwner pick the owner.
LEMMA OwnerChosen ==
  ASSUME MutualExclusion
  PROVE  /\ \A t \in Threads : Owner(t) => LockOwner = t
         /\ (\A t \in Threads : ~Owner(t)) => LockOwner = NoThread
  BY DEF MutualExclusion, LockOwner

LEMMA OwnerChosenNext ==
  ASSUME MutualExclusion'
  PROVE  /\ \A t \in Threads : Owner(t)' => LockOwner' = t
         /\ (\A t \in Threads : ~Owner(t)') => LockOwner' = NoThread
  BY DEF MutualExclusion, LockOwner

\* A step of one thread leaves the other threads inside or outside their
\* critical section; only a sleeper may be moved by Wake, and not into it.
LEMMA OthersKeepTheirPlace ==
  ASSUME LockInv, NEW t \in Threads, Step(t), NEW u \in Threads \ {t}
  PROVE  Owner(u)' <=> Owner(u)
<1>1. CASE Wake(t)
  BY <1>1 DEF Wake, LockInv, SleepInv, Owner, CriticalSection, TypeOK
<1>2. CASE ~Wake(t)
  <2>1. pc'[u] = pc[u]
    BY <1>2 DEF Step, Goto, LockInv, TypeOK, SetBit, ExchangeAndAdd, UndoAdd,
       LoadExclusive, StoreExclusive, StoreExclusiveFails, FutexWait,
       TestCounter, PrintCounter, LoadCounter, StoreCounter, Unlock
  <2>. QED
    BY <2>1 DEF Owner
<1>. QED
  BY <1>1, <1>2

\* The owner of the abstract lock goes from none to one thread and back.
LEMMA StepSimulated ==
  ASSUME LockInv, LockInv', [Next]_vars
  PROVE  [AbstractLock!Next]_LockOwner
<1>. USE DEF LockInv
<1>1. ASSUME NEW t \in Threads, Step(t)
      PROVE  [AbstractLock!Next]_LockOwner
  <2>1. \A u \in Threads \ {t} : Owner(u)' <=> Owner(u)
    BY <1>1, OthersKeepTheirPlace
  <2>2. CASE Owner(t) <=> Owner(t)'
    <3>1. LockOwner' = LockOwner
      BY <2>1, <2>2, OwnerChosen, OwnerChosenNext
    <3>. QED
      BY <3>1
  <2>3. CASE ~Owner(t) /\ Owner(t)'
    <3>1. \A u \in Threads : ~Owner(u)
      BY <2>1, <2>3 DEF MutualExclusion
    <3>2. LockOwner = NoThread /\ LockOwner' = t
      BY <3>1, <2>3, OwnerChosen, OwnerChosenNext
    <3>. QED
      BY <3>2 DEF AbstractLock!Next, AbstractLock!Acquire
  <2>4. CASE Owner(t) /\ ~Owner(t)'
    <3>1. \A u \in Threads : ~Owner(u)'
      BY <2>1, <2>4 DEF MutualExclusion
    <3>2. LockOwner = t /\ LockOwner' = NoThread
      BY <3>1, <2>4, OwnerChosen, OwnerChosenNext
    <3>. QED
      BY <3>2 DEF AbstractLock!Next, AbstractLock!Release
  <2>. QED
    BY <2>2, <2>3, <2>4
<1>2. ASSUME \A u \in Threads : Owner(u)' <=> Owner(u)
      PROVE  [AbstractLock!Next]_LockOwner
  BY <1>2, OwnerChosen, OwnerChosenNext
<1>3. ASSUME NEW t \in Threads, LoseExclusive(t) \/ SpuriousWakeup(t)
      PROVE  [AbstractLock!Next]_LockOwner
  <2>1. \A u \in Threads : Owner(u)' <=> Owner(u)
    BY <1>3 DEF LoseExclusive, SpuriousWakeup, Goto, Owner, CriticalSection, TypeOK
  <2>. QED
    BY <2>1, <1>2
<1>4. CASE UNCHANGED vars
  BY <1>4, <1>2 DEF vars, Owner
<1>. QED
  BY <1>1, <1>3, <1>4 DEF Next, Joined

\* Every behaviour of the homemade lock is one of the abstract lock.
THEOREM LockImplementsMutex == Spec => ImplementsMutex
<1>1. Init => AbstractLock!Init
  BY DEF Init, AbstractLock!Init, LockOwner, Owner, CriticalSection
<1>2. LockInv /\ LockInv' /\ [Next]_vars => [AbstractLock!Next]_LockOwner
  BY StepSimulated
<1>. QED
  BY <1>1, <1>2, LockInvariant, PTL DEF Spec, AbstractLock!Spec, ImplementsMutex

------------------------------------------------------------------------------
(* Both locks in one system: a behaviour of MCSpec is one of ReadWrit.     *)

RP == INSTANCE ReadWritProofs WITH pc <- readwrit_pc

\* The readers and writers of MCLocks are those of the proofs.
LEMMA ReadersAndWriters == RP!ReadWritAssumption
  BY LocksAssumption
     DEF R!ReadWritAssumption, RP!ReadWritAssumption, RP!IsFiniteSet, R!IsFiniteSet

\* The string buffer starts as its own specification says.
LEMMA ReadWritStarts == ASSUME MCInit PROVE RP!Init
  BY DEF MCInit, R!Init, RP!Init, R!Users, RP!Users

\* A step of the system is a step of the string buffer, or leaves it alone.
LEMMA ReadWritStep == ASSUME [MCNext]_allVars PROVE [RP!Next]_(RP!vars)
<1>1. R!Next => RP!Next
  BY DEF R!Next, RP!Next, R!CallGet, RP!CallGet, R!Get, RP!Get, R!Writer, RP!Writer,
         R!WaitGetable, RP!WaitGetable, R!CountIn, RP!CountIn,
         R!ReaderWaitPutable, RP!ReaderWaitPutable, R!CountOut, RP!CountOut,
         R!ReaderPostPutable, RP!ReaderPostPutable, R!PostGetable, RP!PostGetable,
         R!TestString, RP!TestString, R!Strdup, RP!Strdup, R!GetReturn, RP!GetReturn,
         R!CallPut, RP!CallPut, R!WriterWaitPutable, RP!WriterWaitPutable,
         R!Realloc, RP!Realloc, R!Strcpy, RP!Strcpy,
         R!WriterPostPutable, RP!WriterPostPutable, R!PutReturn, RP!PutReturn,
         R!Goto, RP!Goto
<1>2. UNCHANGED readwritVars => UNCHANGED RP!vars
  BY DEF readwritVars, RP!vars
<1> QED
  BY <1>1, <1>2 DEF MCNext, allVars

\* The system is a string buffer, whatever the lock does.
LEMMA SystemIsReadWrit == MCSpec => RP!Spec
  BY ReadWritStarts, ReadWritStep, PTL DEF MCSpec, RP!Spec

\* WritersAlone says the same in both.
LEMMA SameWritersAlone == ASSUME RP!WritersAlone PROVE WritersAlone
  BY DEF WritersAlone, R!WritersAlone, RP!WritersAlone, R!Counted, RP!Counted,
         R!Writing, RP!Writing, R!Reading, RP!Reading, R!Users, RP!Users,
         R!Cardinality, RP!Cardinality

\* WritersAlone, as the runs have it, with the readers and writers beside
\* the lock: a writer of readwrit.c never has company, for any number of
\* threads.
THEOREM SystemWritersAlone == MCSpec => []WritersAlone
  BY SystemIsReadWrit, ReadersAndWriters, RP!WritersAreAlone, SameWritersAlone, PTL

\* The refinement mappings are the same.
LEMMA SameMapping ==
  /\ R!AbstractWord = RP!AbstractWord
  /\ R!AbstractGot = RP!AbstractGot
  /\ R!AbstractCall = RP!AbstractCall
  BY DEF R!AbstractWord, RP!AbstractWord, R!AbstractGot, RP!AbstractGot,
         R!AbstractCall, RP!AbstractCall, R!Users, RP!Users

\* So are the specifications they map to.
LEMMA SameSharedWord ==
  /\ RP!Abstract!Init => R!Abstract!Init
  /\ [RP!Abstract!Next]_(RP!Abstract!vars) => [R!Abstract!Next]_(R!Abstract!vars)
<1>1. RP!Abstract!Init => R!Abstract!Init
  BY SameMapping DEF R!Abstract!Init, RP!Abstract!Init
<1>2. R!AbstractWord' = RP!AbstractWord' /\ R!AbstractGot' = RP!AbstractGot'
      /\ R!AbstractCall' = RP!AbstractCall'
  BY DEF R!AbstractWord, RP!AbstractWord, R!AbstractGot, RP!AbstractGot,
         R!AbstractCall, RP!AbstractCall, R!Users, RP!Users
<1>3. RP!Abstract!Next => R!Abstract!Next
  BY SameMapping, <1>2
     DEF RP!Abstract!Next, R!Abstract!Next, RP!Abstract!Call, R!Abstract!Call,
         RP!Abstract!Return, R!Abstract!Return, RP!Abstract!Get, R!Abstract!Get,
         RP!Abstract!Put, R!Abstract!Put, RP!Abstract!Move, R!Abstract!Move
<1>4. UNCHANGED RP!Abstract!vars => UNCHANGED R!Abstract!vars
  BY SameMapping, <1>2 DEF RP!Abstract!vars, R!Abstract!vars
<1> QED BY <1>1, <1>3, <1>4

\* ImplementsSharedWord, as the runs have it: the buffer of readwrit.c is
\* one shared word, whose readers see what was last written.
THEOREM SystemImplementsSharedWord == MCSpec => ImplementsSharedWord
  BY SystemIsReadWrit, ReadersAndWriters, RP!BufferIsOneWord, SameSharedWord, PTL
     DEF ImplementsSharedWord, R!ImplementsSharedWord, RP!ImplementsSharedWord,
         R!Abstract!Spec, RP!Abstract!Spec

\* The system is a lock as well, whatever the string buffer does.
LEMMA SystemIsLock == MCSpec => Spec
<1>1. MCInit => Init
  BY DEF MCInit
<1>2. [MCNext]_allVars => [Next]_vars
  BY DEF MCNext, allVars
<1> QED BY <1>1, <1>2, PTL DEF MCSpec, Spec

\* The homemade lock, as the runs have it: in every build it has one owner at
\* a time, whoever sleeps will be woken, the output is in order, and each of
\* its steps is one of the abstract mutex or none.
THEOREM SystemLockIsMutex ==
  MCSpec => [](MutualExclusion /\ SleeperHasWaker /\ PrintedInOrder) /\ ImplementsMutex
BY SystemIsLock, LockMutualExclusion, NoLostWakeup, OutputInOrder, LockImplementsMutex, PTL
==============================================================================
